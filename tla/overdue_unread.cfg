SPECIFICATION RFairSpec
CONSTANTS
  a1 = a1
  h1 = h1
  NoAttempt = NoAttempt
  i1 = i1
  r1 = r1
  Handlers = {h1}
  Attempts = {a1}
  Intents <- MCIntents
  IntentOf <- MCIntentOf
  Routes <- MCRoutes
  RouteOf <- MCRouteOf
  Qty = 1
  MaxFaults = 0
  Unreadable = {a1}
  Hazards = {}
PROPERTY DeadlineEndsRecovery
CHECK_DEADLOCK FALSE
