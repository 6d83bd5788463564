\* Two seats on one train; sessions up to the range of an int8_t of eight values.
SPECIFICATION LoopSpec
CONSTANTS
  Users = {u1, u2}
  Levels = {0}
  Int8Max = 3
  MaxSession = 2
  TrainIds = {k1}
  Services <- ShortAndLong
  Journeys <- Asked
  Leftovers = {0, 2}
  NumSegments = 2
  Legs <- AllLegs
  Nums = {1, 2}
  MaxSeat = 2
  NoTrip = NoTrip
  Blank = Blank
  MaxOrders = 2
  a = a
  b = b
  c = c
SYMMETRY Symmetric
CHECK_DEADLOCK FALSE
INVARIANT NamesLeadToTheLeg
PROPERTIES OnlyWhatTheLineAsks OnlyTheRecognisedAct
