SPECIFICATION FairSpec
CONSTANTS
  e1 = e1
  e2 = e2
  h1 = h1
  h2 = h2
  Episodes = {e1, e2}
  Handlers = {h1, h2}
  MayStart = TRUE
  MaxStops = 2
  MaxTriage = 2
INVARIANTS
  OneIncidentPerAlert
PROPERTY FiringGetsIncident
