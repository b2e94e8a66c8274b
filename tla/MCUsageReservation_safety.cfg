CONSTANTS
  s1 = s1
  u1 = u1
  u2 = u2
  i1 = i1
  p1 = p1
  None = None
  Unlimited = Unlimited
  Ops = {u1, u2, s1}
  KindOf <- KindsOfOps
  Products = {p1}
  ProductOf <- OnOneProduct
  Limits = {1}
  Reconcilers = {r1, r2}
  Deletable = {}
  SlowOps = {u1}
SPECIFICATION Spec
SYMMETRY Passes
CONSTRAINT MCBound
INVARIANTS CountersExact ChargedOnce QuotaHolds AppliedIsCharged
PROPERTY ImplementsLedger
CHECK_DEADLOCK FALSE
