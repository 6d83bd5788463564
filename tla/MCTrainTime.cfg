SPECIFICATION RunSpec
CONSTANTS
  Trains <- SummerTrains
  MaxStops = 4
INVARIANTS
  KeepsTime
  TicketsMeetTheirRun
  ArrivalsMeetTheRun
  OffersAreSold
  ConnectionsAreNext
  TransferIsBest
CHECK_DEADLOCK FALSE
