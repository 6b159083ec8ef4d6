SPECIFICATION GatewaySpec
CONSTANTS
    c1 = c1
    c2 = c2
    m1 = m1
    None = None
    Clients = {c1, c2}
    Incidents = {"inc"}
    Models = {m1}
    Pinned = "p"
    Endpoints <- MCEndpoints
    InputTokens = 1
    Policies <- MCPolicies
    FreeOutput = 1
    MaxCalls = 2
    MaxMonth = 2
SYMMETRY Sym
CONSTRAINT ReplacedByLimits
INVARIANTS ExposureCovers CountedOnce BudgetHeldUnraced CreditedServed UsageExact
CHECK_DEADLOCK FALSE
