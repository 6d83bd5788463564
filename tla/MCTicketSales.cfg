\* Legs that share segments, two users, pages of two.
SPECIFICATION Spec
CONSTANTS
  Users = {u1, u2}
  Trips = {k1}
  NumSegments = 2
  Legs <- LegsOfTwo
  Nums = {1, 2}
  MaxSeat = 2
  WaitPageSize = 2
  OrderPageSize = 2
  MaxTimestamp = 3
  NoTrip = NoTrip
SYMMETRY Symmetric
CHECK_DEADLOCK FALSE
INVARIANTS
  TypeOK
  SeatsConserved
  QueuesMatchOrders
  NobodyWaitsInVain
  ChainsSorted
  ListedIsRefunded
