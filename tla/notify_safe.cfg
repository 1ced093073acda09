SPECIFICATION Spec
CONSTANTS
  u1 = u1
  u2 = u2
  x1 = x1
  x2 = x2
  c1 = c1
  c2 = c2
  p1 = p1
  k1 = k1
  None = None
  Users = {u1, u2}
  Chats = {x1, x2}
  Codes = {c1, c2}
  Partitions = {p1}
  Callers = {k1}
  Categories = {"system", "custom"}
  PlanOf <- MCPlanOf
  PartitionOf <- MCPartitionOf
  Rate = 2
  Burst = 1
  Window = 1
  CodeTTL = 1
  MaxTime = 1
  MaxInputs = 4
  MaxFaults = 1
SYMMETRY Symmetry
INVARIANT TargetProved
INVARIANT CodeBindsOnce
INVARIANT ConfirmedIsHandled
INVARIANT ReplayBounded
INVARIANT RateRespected
CHECK_DEADLOCK FALSE
