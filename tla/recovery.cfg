SPECIFICATION RFairSpec
CONSTANTS
  a1 = a1
  h1 = h1
  NoAttempt = NoAttempt
  i1 = i1
  r1 = r1
  Handlers = {h1}
  Attempts = {a1}
  Intents <- MCIntents
  IntentOf <- MCIntentOf
  Routes <- MCRoutes
  RouteOf <- MCRouteOf
  Qty = 2
  MaxFaults = 1
  Unreadable = {}
  Hazards = {}
INVARIANT FailedNeverLive
INVARIANT ClosedFilledIsComplete
INVARIANT CloseIsAnnounced
PROPERTY ImplementsLedger
PROPERTY DeadOrderCloses
PROPERTY OverdueCloses
CHECK_DEADLOCK FALSE
