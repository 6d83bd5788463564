---------------------------- MODULE MCTrainTime -----------------------------
(***************************************************************************)
(* Trains that start at either end of a day and in its middle, whose legs  *)
(* last next to nothing, just under and over a day, and some days, sold    *)
(* over the ends of the months.  They meet at B and C, some at both; the   *)
(* first and the last differ in nothing but their ids.                     *)
(***************************************************************************)
EXTENDS TrainTime

Train(id, hour, minute, stations, travel, stopover, prices, from, to) ==
  [train_id |-> id, start_time |-> [hour |-> hour, minute |-> minute],
   stations |-> stations, travel |-> travel, stopover |-> stopover, prices |-> prices,
   start_sale |-> from, end_sale |-> to]

SummerTrains ==
  {Train(1, 0, 0, <<"A", "B", "C">>, <<1439, 1>>, <<0, 1, 0>>, <<2, 1>>, Date(6, 1), Date(7, 2)),
   Train(2, 23, 59, <<"B", "C", "D", "A">>, <<1, 2880, 61>>, <<0, 1439, 5, 0>>, <<1, 3, 1>>,
         Date(6, 28), Date(8, 31)),
   Train(3, 12, 30, <<"C", "B", "D">>, <<690, 1441>>, <<0, 60, 0>>, <<1, 2>>,
         Date(7, 30), Date(8, 3)),
   Train(4, 7, 5, <<"D", "B", "A">>, <<4321, 1014>>, <<0, 30, 0>>, <<4, 4>>,
         Date(6, 1), Date(6, 3)),
   Train(5, 18, 0, <<"D", "C", "E">>, <<360, 360>>, <<0, 0, 0>>, <<1, 1>>,
         Date(8, 31), Date(8, 31)),
   Train(6, 0, 0, <<"A", "B", "C">>, <<1439, 1>>, <<0, 1, 0>>, <<2, 1>>, Date(6, 1), Date(7, 2))}
=============================================================================
