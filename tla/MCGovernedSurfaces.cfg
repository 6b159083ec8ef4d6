SPECIFICATION SeedSpec
CONSTANTS
    root = root  bot = bot  k0 = k0  k1 = k1  high = high  low = low
    None = None
    Clients = {c1, c2}
    Principals = {root, bot}
    Credentials = {k0, k1}
    Grants <- MCGrants
    Resources <- MCResources
    Keys = {x, y}
    Inputs <- MCInputs
    InitPrincipal <- MCInitPrincipal
    InitCredential <- MCInitCredential
    InitGrant <- MCInitGrant
    InitResource <- MCInitResource
    InitPublication <- MCInitPublication
    TypeOf <- MCTypeOf
    AliasNames = {"smart", "fast"}
    Models = {"m1", "m2"}
    Manifests <- MCManifests
    Documents = {None, high, low}
    Server = "server"
    ToolIds <- MCToolIds
    SeedPrincipal <- MCSeedPrincipal
    SeedCredential <- MCSeedCredential
    SeedRoute <- MCSeedRoute
    ADMIN_RESOURCES <- Areas
    SeedGrant <- MCSeedGrant
    MCP_DEMO_GRANTS <- MCMcpGrants
    restored_grant_id <- MCRestored
    MaxRequests = 2
    MaxOwner = 2
SYMMETRY Symmetry
CONSTRAINT Concerned
INVARIANTS
    WritesAreSerial
    OnePublication
    RevokedServesNothing
    ContentUnderAuthority
    OneHandshake
PROPERTY RevokedForGood
CHECK_DEADLOCK FALSE
