SPECIFICATION Spec
CONSTANTS
  u1 = u1
  u2 = u2
  a1 = a1
  None = None
  Callers = {c1, c2}
  Users = {u1, u2}
  Spellings = {"bob", "Bob ", "amy"}
  normalizeUsername <- MCNormalize
  Passwords = {p1}
  Accounts = {a1}
  OwnerOf <- MCOwnerOf
  Strats = {s1, s2}
  Labels = {l1, l2}
  Sessions = {x1}
  Routes = {r1}
  MaxCalls = 6
SYMMETRY Symmetric
INVARIANT MountsSound
INVARIANT FailureRecorded
INVARIANT PassedCanStart
CHECK_DEADLOCK FALSE
