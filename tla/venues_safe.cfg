SPECIFICATION Spec
CONSTANTS
  Handlers = {h1, h2}
  Accounts = {a1, a2}
  Venues = {v1, v2}
  Sessions = {s1, s2}
  Runtimes = {r1}
  Routes = {perp, spot}
  DefaultRoute = perp
  MaxRequests = 6
  None = None
SYMMETRY Symmetry
CHECK_DEADLOCK FALSE
INVARIANTS
  RouteResolvesOnce
  OneActiveSession
  SnapshotSound
PROPERTIES
  SessionIsFinal
