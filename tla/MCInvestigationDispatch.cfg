SPECIFICATION FairSpec
CONSTANTS
  r0 = r0
  r1 = r1
  r2 = r2
  r3 = r3
  r4 = r4
  p1 = p1
  p2 = p2
  Runs = {r0, r1, r2}
  DeclarationRun = r0
  Processes = {p1, p2}
  EndReasons = {"needs_human"}
  CommandIds <- Keys
  SnapshotInterval = 2
  MaxVersion = 4
  MaxHooks = 1
  MaxCrashes = 1
  MaxFailures = 0
  LockLoss = TRUE
INVARIANTS
  InvestigationsOwned
  OneOutcomePerDispatch
PROPERTY InvestigationsEnd
