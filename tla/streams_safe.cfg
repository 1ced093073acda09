SPECIFICATION FairSpec
CONSTANTS
  o1 = o1
  o2 = o2
  b1 = b1
  v1 = v1
  v2 = v2
  w1 = w1
  live = live
  backtest = backtest
  None = None
  Orders = {o1, o2, b1}
  Routes = {live, backtest}
  Simulated = {backtest}
  Venues = {v1, v2, w1}
  Goroutines = {g1, g2}
  RouteOf <- MCRouteOf
  VenueOn <- MCVenueOn
  ExId <- MCExId
  BatchSize = 3
  MaxRebinds = 1
  MaxFaults = 1
PROPERTY StreamReturns
CHECK_DEADLOCK FALSE
INVARIANT RegistryExact
INVARIANT FiledUnderItsOrder
