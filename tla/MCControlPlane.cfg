SPECIFICATION ControlSpec
CONSTANTS
    root = root  ops = ops  guest = guest
    k0 = k0  k1 = k1  k2 = k2  k3 = k3  g1 = g1
    None = None
    Clients = {c1, c2}
    Principals = {root, ops, guest}
    Credentials = {k0, k1, k2, k3}
    Grants <- MCGrants
    Resources <- Areas
    Keys = {x, y}
    Inputs <- MCInputs
    InitPrincipal <- MCInitPrincipal
    InitCredential <- MCInitCredential
    InitGrant <- MCInitGrant
    InitResource <- MCInitResource
    MaxRequests = 3
SYMMETRY Symmetry
INVARIANTS
    OneEffectPerKey
    SuccessAudited
    OneSuccessor
    RevokedStaysOut
CHECK_DEADLOCK FALSE
