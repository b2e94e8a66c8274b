CONSTANTS
  Subs <- TwoSubs
  Callers = {c1}
  Storefront = storefront
  None = None
  First = 1
  MaxRare = 1
SPECIFICATION FairSpec
INVARIANT OnlyApprovedIsServed
PROPERTIES PaidPeriodKept PointerSettles
CHECK_DEADLOCK FALSE
