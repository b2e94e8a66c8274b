CONSTANTS
  s1 = s1
  u1 = u1
  u2 = u2
  i1 = i1
  p1 = p1
  None = None
  Unlimited = Unlimited
  Ops = {s1, i1}
  KindOf <- KindsOfOps
  Products = {p1}
  ProductOf <- OnOneProduct
  Limits = {1}
  Reconcilers = {r1}
  Deletable = {p1}
  SlowOps = {i1}
SPECIFICATION FairSpec
PROPERTY PendingIsResolved
CHECK_DEADLOCK FALSE
