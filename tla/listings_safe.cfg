SPECIFICATION Spec
CONSTANTS
  None = None
  u1 = u1
  u2 = u2
  a1 = a1
  a2 = a2
  s1 = s1
  s2 = s2
  MaxRows = 4
  Facts <- MCFacts
  Times = {1, 2}
  DefaultLimit = 2
  MaxLimit = 2
  Writers = {w1, w2}
  Events <- MCEvents
  MaxSaves = 4
  Readers = {r1, r2}
  SymbolInfo <- MCSymbolInfo
  Trading <- MCTrading
  Spellings = {"spot", "usdm", "swap"}
  Queries = {None, 2}
  TTL = 1
  Timeout = 1
  MaxClock = 4
  SymbolDefault = 1
  SymbolMax = 2
SYMMETRY Symmetric
INVARIANT WalkComplete
INVARIANT CatalogFresh
PROPERTY OneFetchPerTTL
INVARIANT FeedAtMostOnce
CHECK_DEADLOCK FALSE
