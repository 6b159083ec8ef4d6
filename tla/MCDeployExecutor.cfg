SPECIFICATION Spec
CONSTANTS
  t1 = t1
  t2 = t2
  k1 = k1
  k2 = k2
  k3 = k3
  k4 = k4
  Tasks = {t1, t2}
  Keys = {k1, k2, k3, k4}
  OperationOf <- AllOperations
  Targets = {"v0", "v1"}
  Installed = "v2"
  Origin = "origin"
  MaxRequests = 3
  MaxFaults = 2
  MaxCrashes = 1
SYMMETRY Symmetric
CHECK_DEADLOCK FALSE
PROPERTY
  KeepsItsPromise
INVARIANTS
  AtMostOnce
  SuccessAtTarget
  OneFaultKeepsService
