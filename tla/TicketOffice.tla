---------------------------- MODULE TicketOffice ----------------------------
(***************************************************************************)
(* What buying and refunding promise to a customer, with no pages, no      *)
(* waitlist and no seat counters: the orders ever placed, in the order     *)
(* they were placed, and one rule of the house.  When seats come back on a *)
(* trip, those who wait for it are served first come first served, an      *)
(* earlier order being passed over only while it does not fit; and the     *)
(* counter does not reopen before nobody who waits could be served.        *)
(***************************************************************************)
EXTENDS Integers, FiniteSets

CONSTANTS Users,
          Trips,          \* a train on a day
          NumSegments,    \* a trip runs over segments 0 .. NumSegments-1
          Legs,           \* the legs on sale: <<start, end>>, end excluded
          Nums,           \* party sizes
          MaxSeat,        \* seats on every segment of a trip
          NoTrip

VARIABLES orders,         \* order number -> the order
          serving         \* the trip whose waiting orders are being served

officeVars == <<orders, serving>>

Segments == 0 .. NumSegments - 1

Covers(leg) == leg[1] .. leg[2] - 1

Order == [user : Users, trip : Trips, leg : Legs, num : Nums,
          status : {"success", "pending", "refunded"}]

\* The operators take the book of orders as an argument.
SoldOn(book, trip, s) ==
  {i \in DOMAIN book : /\ book[i].trip = trip
                       /\ book[i].status = "success"
                       /\ s \in Covers(book[i].leg)}

\* <<i, n>> is the n-th seat of order i.
SeatsSold(book, trip, s) == UNION {{<<i, n>> : n \in 1 .. book[i].num} : i \in SoldOn(book, trip, s)}

Free(book, trip, s) == MaxSeat - Cardinality(SeatsSold(book, trip, s))

Fits(book, trip, leg, num) == \A s \in Covers(leg) : num <= Free(book, trip, s)

Waiting(book, trip) == {i \in DOMAIN book : book[i].trip = trip /\ book[i].status = "pending"}

Servable(book, trip) == {i \in Waiting(book, trip) : Fits(book, trip, book[i].leg, book[i].num)}

Entered(book, order) ==
  LET next == Cardinality(DOMAIN book)
  IN [i \in DOMAIN book \cup {next} |-> IF i = next THEN order ELSE book[i]]

WithStatus(book, i, status) == [book EXCEPT ![i].status = status]

-----------------------------------------------------------------------------
(***************************************************************************)
(* The actions take the book before and after the step, orders and orders'.*)
(***************************************************************************)

\* A party that fits is sold its seats, one that does not may wait.
Place(book, after, order) ==
  /\ serving = NoTrip
  /\ after = Entered(book, order)
  /\ order.num <= MaxSeat
  /\ order.status = IF Fits(book, order.trip, order.leg, order.num) THEN "success" ELSE "pending"
  /\ UNCHANGED serving

\* The counter closes to serve those who wait, or stays open if none can be.
Refund(book, after, i) ==
  /\ serving = NoTrip
  /\ book[i].status # "refunded"
  /\ after = WithStatus(book, i, "refunded")
  /\ \/ serving' = book[i].trip /\ book[i].status = "success"
     \/ serving' = NoTrip /\ Servable(after, book[i].trip) = {}

\* The earliest of those who fit.
Serve(book, after, i) ==
  /\ serving # NoTrip
  /\ after = WithStatus(book, i, "success")
  /\ LET servable == Servable(book, serving)
     IN i \in servable /\ \A j \in servable : i <= j
  /\ UNCHANGED serving

Reopen(book, after) ==
  /\ serving # NoTrip
  /\ after = book
  /\ Servable(book, serving) = {}
  /\ serving' = NoTrip

OfficeInit == orders = [i \in {} |-> 0] /\ serving = NoTrip

OfficeNext ==
  \E book \in {orders}, after \in {orders'} :
    \/ \E order \in Order : Place(book, after, order)
    \/ \E i \in DOMAIN book : Refund(book, after, i) \/ Serve(book, after, i)
    \/ Reopen(book, after)

OfficeSpec == OfficeInit /\ [][OfficeNext]_officeVars
=============================================================================
