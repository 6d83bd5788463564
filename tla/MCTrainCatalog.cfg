SPECIFICATION Spec
CONSTANTS
  TrainIds = {i1, i2, i3}
  Stations = {1, 2, 3}
  Services <- ThreeServices
  TupleMax = 2
  DynamicMax = 10
  MaxRecords = 4
  NoPage = NoPage
SYMMETRY Symmetric
INVARIANT OffersMatchSales
PROPERTY ImplementsTimetable
