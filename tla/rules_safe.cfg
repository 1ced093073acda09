SPECIFICATION Spec
CONSTANTS
  Qtys <- MCQtys
  Prices <- MCPrices
  MarkPrices <- MCMarkPrices
  Wallets <- MCWallets
  VenueRules <- MCVenueRules
  MaxHeld = 2
  MaxLookups = 3
INVARIANTS
  ContractsAgree
PROPERTIES
  ReduceOnlyShrinks
  FillsExplainExecution
CHECK_DEADLOCK FALSE
