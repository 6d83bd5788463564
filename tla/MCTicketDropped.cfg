\* The shortest histories suffice.
SPECIFICATION Spec
CONSTANTS
  Users = {u1}
  Trips = {k1}
  NumSegments = 1
  Legs <- LegsOfOne
  Nums = {1, 2}
  MaxSeat = 2
  WaitPageSize = 2
  OrderPageSize = 2
  MaxTimestamp = 3
  NoTrip = NoTrip
CHECK_DEADLOCK FALSE
INVARIANT NoUseOfDroppedGuard
