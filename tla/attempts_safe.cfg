SPECIFICATION Spec
CONSTANTS
  Handlers = {h1, h2}
  Attempts = {a1}
  NoAttempt = NoAttempt
  i1 = i1
  r1 = r1
  Intents <- MCIntents
  IntentOf <- MCIntentOf
  Routes <- MCRoutes
  RouteOf <- MCRouteOf
  Qty = 2
  MaxFaults = 2
  Unreadable = {}
  Hazards = {"late_landing", "overlapping_resolve", "error_after_accept"}
  a1 = a1
  h1 = h1
  h2 = h2
SYMMETRY Symmetric
INVARIANT TypeOK
INVARIANT WriteAhead
INVARIANT LedgerBacked
INVARIANT SettledIsComplete
INVARIANT NoticeAfterCommit
PROPERTY NeverResent
CHECK_DEADLOCK FALSE
