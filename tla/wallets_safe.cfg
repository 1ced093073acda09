SPECIFICATION Spec
CONSTANTS
  Callers = {c1, c2}
  Venues = {"spot", "perp"}
  FutPayloads <- MCFutPayloads
  SpotPayloads <- MCSpotPayloads
  Truths <- MCTruths
  Reasons = {"none", "event"}
  StepTolerance = 1
  PriceTolerance = 1
  SoftTolerance = 0
  MaxCalls = 2
  MaxEvents = 1
  None = None
  c1 = c1
  c2 = c2
SYMMETRY MCSymmetry
INVARIANTS
  SnapshotCoversCall
  ExchangeIsAuthoritative
  VerdictSound
PROPERTIES
  PushReadBack
  AccountTracksVenues
CHECK_DEADLOCK FALSE
