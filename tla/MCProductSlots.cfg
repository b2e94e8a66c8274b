SPECIFICATION Spec
CONSTANTS
  p1 = p1
  p2 = p2
  w1 = w1
  w2 = w2
  Products <- MCProducts
  Workers <- MCWorkers
  Plans <- AllPlans
  FirstPlan <- Pro
  MaxChanges = 1
  Nobody = Nobody
  Reconciler = Reconciler
SYMMETRY MCSymmetry
INVARIANT TypeOK
INVARIANT PolicyRunKeepsSlot
INVARIANT SearchableIsBacked
PROPERTY SlotGrantedWithinLimit
CHECK_DEADLOCK FALSE
