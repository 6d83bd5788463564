--------------------------- MODULE MCTrainCatalog ---------------------------
(***************************************************************************)
(* Trains to and fro and past the middle station, on pages of two records  *)
(* and of ten cells.  Nothing orders ids, so they are symmetric.           *)
(***************************************************************************)
EXTENDS TrainCatalog

Service(stations, fare) ==
  [stations |-> stations, prices |-> <<fare, "price">>,
   travel_time |-> <<fare, "travel">>, stopover_time |-> <<fare, "stopover">>]

ThreeServices ==
  {Service(<<1, 2, 3>>, 1), Service(<<3, 1>>, 2), Service(<<2, 1>>, 3)}

Symmetric == Permutations(TrainIds)
=============================================================================
