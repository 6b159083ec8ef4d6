SPECIFICATION RetrySpec
CONSTANTS
  r0 = r0
  r1 = r1
  r2 = r2
  r3 = r3
  r4 = r4
  p1 = p1
  p2 = p2
  Runs = {r0, r1, r2, r3, r4}
  DeclarationRun = r0
  Processes = {p1}
  EndReasons = {"needs_human"}
  CommandIds <- Keys
  SnapshotInterval = 2
  MaxVersion = 15
  MaxHooks = 1
  MaxCrashes = 0
  MaxFailures = 1
  LockLoss = FALSE
CHECK_DEADLOCK FALSE
INVARIANT OneOutcomePerDispatch
PROPERTY GivesUpAloud
