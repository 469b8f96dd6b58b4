SPECIFICATION Spec
CONSTANTS
  Plans <- MCPlans
  Price <- MCPrice
  Limit <- MCLimit
  Quantity <- MCQuantity
  Events = {e1, e2}
  Keys = {k1, k2, k3}
  Requests = {r1, r2}
  None = None
  MaxCalls = 4
  MaxFaults = 1
SYMMETRY MCSymmetry
INVARIANTS TypeOK RemoteInSync WebhookOnce OvershootBounded
PROPERTIES SubscriptionMoves
CHECK_DEADLOCK FALSE
