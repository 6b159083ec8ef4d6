SPECIFICATION Spec
CONSTANTS
  r0 = r0
  r1 = r1
  r2 = r2
  c1 = c1
  c2 = c2
  Runs = {r0, r1, r2}
  DeclarationRun = r0
  Clients = {c1, c2}
  MaxCommands = 8
  CommandIds <- Keys
  SnapshotInterval = 2
  MaxVersion = 7
  MaxDrafts = 2
SYMMETRY Symmetric
CHECK_DEADLOCK FALSE
INVARIANTS
  OneEffectPerCommand
  OneDecisionPerMitigation
  DecidesWhatWasReviewed
  ClosedAsReviewed
PROPERTY FollowsWorkflow
