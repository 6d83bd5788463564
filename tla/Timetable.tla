------------------------------ MODULE Timetable -----------------------------
(***************************************************************************)
(* What the catalogue of trains promises, with no pages, records or        *)
(* indexes: a train is entered once, may be withdrawn until it is          *)
(* released, and from then on stays as it is.  Released trains are on      *)
(* offer between any two of their stops in the direction they run.         *)
(***************************************************************************)
EXTENDS Integers, Sequences

CONSTANTS TrainIds,
          Services        \* what can be entered under an id; has the stations of the train

VARIABLE trains           \* id -> [service, released], for the trains there are

Entered(id) == id \in DOMAIN trains

Add(id, service) ==
  /\ ~Entered(id)
  /\ trains' = [i \in DOMAIN trains \cup {id} |->
                  IF i = id THEN [service |-> service, released |-> FALSE] ELSE trains[i]]

Withdraw(id) ==
  /\ Entered(id) /\ ~trains[id].released
  /\ trains' = [i \in DOMAIN trains \ {id} |-> trains[i]]

Release(id) ==
  /\ Entered(id) /\ ~trains[id].released
  /\ trains' = [trains EXCEPT ![id].released = TRUE]

Init == trains = [id \in {} |-> 0]

Next ==
  \E id \in TrainIds :
    \/ \E service \in Services : Add(id, service)
    \/ Withdraw(id)
    \/ Release(id)

Spec == Init /\ [][Next]_trains

\* The trains on offer from one station to another.
Serving(start, end) ==
  {id \in DOMAIN trains :
     LET stops == trains[id].service.stations
     IN /\ trains[id].released
        /\ \E i, j \in DOMAIN stops : i < j /\ stops[i] = start /\ stops[j] = end}
=============================================================================
