SPECIFICATION Spec
CONSTANTS
    max_steps = 3
    steps_after_refusal = 2
    transient_retries = 1
    Catalog <- MCCatalog
    Proposals <- MCProposals
    MaxMoves = 1
INVARIANTS
    ConclusionsMeasured
    StepsBounded
CHECK_DEADLOCK FALSE
