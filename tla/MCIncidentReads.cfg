SPECIFICATION ReadsSpec
CONSTANTS
  r0 = r0
  r1 = r1
  r2 = r2
  p1 = p1
  p2 = p2
  None = None
  Runs = {r0, r1, r2}
  DeclarationRun = r0
  Processes = {p1}
  EndReasons = {"denied"}
  CommandIds <- Keys
  SnapshotInterval = 2
  MaxVersion = 5
  MaxHooks = 1
  MaxCrashes = 0
  MaxFailures = 0
  LockLoss = FALSE
  PageLimit = 2
  Watched = {r1, r2}
  MaxPolls = 2
SYMMETRY Symmetric
CHECK_DEADLOCK FALSE
INVARIANTS
  ConsoleShowsHistory
  InboxOffersDecision
  ReplayFaithful
