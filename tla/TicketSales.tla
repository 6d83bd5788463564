----------------------------- MODULE TicketSales -----------------------------
(***************************************************************************)
(* Buying, queueing and refunding: TrainSystem::BuyTicket and              *)
(* TrainSystem::RefundTicket (ticket/train_system.cpp) with the three      *)
(* stores they keep in step: the seats left (ticket/ticket_system.cpp),    *)
(* the waitlist of each trip (ticket/waitlist.cpp) and the orders of each  *)
(* user (ticket/order_list.cpp).                                           *)
(*                                                                         *)
(* A trip is a train and the day it leaves its first station; the indexes  *)
(* are functions on trips and users, and a chain of pages is a sequence of *)
(* pages.  A command is one step, except that the pass a refund makes over *)
(* the waitlist is one step per slot: the seats it has given away are then *)
(* only in its local variable.                                             *)
(***************************************************************************)
EXTENDS Integers, Sequences, SequencesExt, FiniteSets, FiniteSetsExt

CONSTANTS Users, Trips, NumSegments, Legs, Nums, MaxSeat,
          WaitPageSize,     \* LinkedTuplePage<WaitInfo>::MaxSize()
          OrderPageSize,    \* LinkedTuplePage<OrderInfo>::MaxSize()
          MaxTimestamp,     \* bound on timestamp_
          NoTrip

Segments == 0 .. NumSegments - 1

ASSUME SalesAssumption ==
  /\ NumSegments \in Nat
  /\ \A leg \in Legs : leg[1] \in Segments /\ leg[2] \in leg[1] + 1 .. NumSegments
  /\ Nums \subseteq Nat \ {0}
  /\ MaxSeat \in Nat
  /\ WaitPageSize \in Nat \ {0} /\ OrderPageSize \in Nat \ {0}
  /\ MaxTimestamp \in Nat
  /\ NoTrip \notin Trips

VARIABLES tickets,          \* trip -> seats left, once any have been sold
          waitlist,         \* trip -> pages, oldest first; <<>> when not in the index
          orderlist,        \* user -> pages, newest first; <<>> when not in the index
          timestamp,        \* WaitList::timestamp_
          header,           \* what it was at the last exit
          refund,           \* the locals of a RefundTicket in its loop
          status

salesVars == <<tickets, waitlist, orderlist, timestamp, header, refund, status>>

InvalidPageId == -1

Covers(leg) == leg[1] .. leg[2] - 1

Seats == [Segments -> 0 .. MaxSeat]

WaitInfo == [timestamp : 0 .. MaxTimestamp, num : Nums, user : Users, leg : Legs, queue : BOOLEAN]

OrderInfo == [timestamp : 0 .. MaxTimestamp, num : Nums, trip : Trips, leg : Legs,
              status : {"success", "pending", "refunded"}]

PagesOf(pages, T, size) ==
  pages \in Seq(Seq(T)) /\ \A i \in DOMAIN pages : Len(pages[i]) \in 1 .. size

NoRefund == [trip |-> NoTrip, seats |-> [s \in Segments |-> 0], at |-> 0]

Status == {"up", "down", "crashed", "terminated"}

\* Seats never go below zero, whatever segments the legs sold share, nor above
\* what the train has; pages hold between one entry and as many as fit.
TypeOK ==
  /\ DOMAIN tickets \subseteq Trips /\ tickets \in [DOMAIN tickets -> Seats]
  /\ waitlist \in [Trips -> Seq(Seq(WaitInfo))]
  /\ \A k \in Trips : PagesOf(waitlist[k], WaitInfo, WaitPageSize)
  /\ orderlist \in [Users -> Seq(Seq(OrderInfo))]
  /\ \A u \in Users : PagesOf(orderlist[u], OrderInfo, OrderPageSize)
  /\ timestamp \in InvalidPageId .. MaxTimestamp
  /\ header \in InvalidPageId .. MaxTimestamp
  /\ refund \in [trip : Trips \cup {NoTrip}, seats : Seats, at : Nat]
  /\ status \in Status

-----------------------------------------------------------------------------
(***************************************************************************)
(* TicketSystem                                                            *)
(***************************************************************************)
FetchTicket(trip) ==
  IF trip \in DOMAIN tickets THEN tickets[trip] ELSE [s \in Segments |-> MaxSeat]

ModifyTicket(trip, seats) ==
  tickets' = [k \in DOMAIN tickets \cup {trip} |-> IF k = trip THEN seats ELSE tickets[k]]

Fits(seats, leg, num) == \A s \in Covers(leg) : num <= seats[s]

Plus(seats, leg, num) == [s \in Segments |-> IF s \in Covers(leg) THEN seats[s] + num ELSE seats[s]]

(***************************************************************************)
(* WaitList.  The iterator meets every slot of every page of the chain,    *)
(* the unused ones at the end of the last page too; position i is slot     *)
(* SlotOf(i) of page PageOf(i).                                            *)
(***************************************************************************)
UnusedSlot == [timestamp |-> 0, queue |-> FALSE]      \* zeroed bytes

PageOf(i) == (i - 1) \div WaitPageSize + 1

SlotOf(i) == ((i - 1) % WaitPageSize) + 1

Slots(pages) == Len(pages) * WaitPageSize

Slot(pages, i) ==
  IF SlotOf(i) <= Len(pages[PageOf(i)]) THEN pages[PageOf(i)][SlotOf(i)] ELSE UnusedSlot

\* A write to an unused slot would change nothing that is ever read.
Unqueued(pages, i) ==
  IF SlotOf(i) <= Len(pages[PageOf(i)])
  THEN [pages EXCEPT ![PageOf(i)][SlotOf(i)].queue = FALSE]
  ELSE pages

HasQueued(page) == \E j \in DOMAIN page : page[j].queue

\* Mutant: a page goes as soon as its first entry has been dealt with.
WithoutEmptyPagesHasty(pages) ==
  LET kept == {i \in DOMAIN pages : pages[i][1].queue}
  IN IF kept = {} THEN <<>> ELSE SubSeq(pages, Min(kept), Len(pages))

\* RemoveEmptyPage: the pages before the first that has a queued entry go.
WithoutEmptyPages(pages) ==
  LET kept == {i \in DOMAIN pages : HasQueued(pages[i])}
  IN IF kept = {} THEN <<>> ELSE SubSeq(pages, Min(kept), Len(pages))

Enqueued(pages, info) ==
  IF pages = <<>> \/ Len(Last(pages)) = WaitPageSize
  THEN Append(pages, <<info>>)
  ELSE [pages EXCEPT ![Len(pages)] = Append(@, info)]

(***************************************************************************)
(* OrderList                                                               *)
(***************************************************************************)
AppendOrder(pages, order) ==
  IF pages = <<>> \/ Len(pages[1]) = OrderPageSize
  THEN <<<<order>>>> \o pages
  ELSE [pages EXCEPT ![1] = Append(@, order)]

\* The listing: the newest page first, and each page from its end.
QueryOrder(pages) == FlattenSeq([i \in DOMAIN pages |-> Reverse(pages[i])])

\* Mutant: the page moved to is taken off num, not the one left.
FoundSkewed(pages, num) ==
  LET left[i \in 1 .. Len(pages)] == IF i = 1 THEN num ELSE left[i - 1] - Len(pages[i])
  IN {<<i, Len(pages[i]) - left[i] + 1>> : i \in {p \in DOMAIN pages : left[p] \in 1 .. Len(pages[p])}}

\* Where the walk for the num-th newest order ends, as <<page, slot>>: each page
\* it leaves is taken off num.  Empty when the chain ends first.
Found(pages, num) ==
  LET left[i \in 1 .. Len(pages)] == IF i = 1 THEN num ELSE left[i - 1] - Len(pages[i - 1])
  IN {<<i, Len(pages[i]) - left[i] + 1>> : i \in {p \in DOMAIN pages : left[p] \in 1 .. Len(pages[p])}}

WithStatus(pages, at, new) == [pages EXCEPT ![at[1]][at[2]].status = new]

\* QueueSucceed: the walk stops at the newest page that begins no later than
\* the order sought.
QueueSucceed(pages, ts) ==
  LET i == Min({p \in DOMAIN pages : pages[p][1].timestamp <= ts})
  IN [pages EXCEPT ![i] = [j \in DOMAIN @ |->
        IF @[j].timestamp = ts THEN [@[j] EXCEPT !.status = "success"] ELSE @[j]]]

-----------------------------------------------------------------------------
(***************************************************************************)
(* BuyTicket.  A party larger than the train, or one that does not fit and *)
(* will not queue, is turned away and nothing changes.                     *)
(***************************************************************************)
Ready == status = "up" /\ refund = NoRefund

CanStamp == timestamp < MaxTimestamp

Ordered(user, trip, leg, num, st) ==
  /\ timestamp' = timestamp + 1
  /\ orderlist' = [orderlist EXCEPT ![user] = AppendOrder(@,
        [timestamp |-> timestamp + 1, num |-> num, trip |-> trip, leg |-> leg, status |-> st])]

\* Mutant: only the first segment of the leg is looked at.
BuyTicketOverbooking(user, trip, leg, num) ==
  /\ Ready /\ CanStamp
  /\ num <= FetchTicket(trip)[leg[1]]
  /\ ModifyTicket(trip, Plus(FetchTicket(trip), leg, -num))
  /\ Ordered(user, trip, leg, num, "success")
  /\ UNCHANGED <<waitlist, header, refund, status>>

BuyTicket(user, trip, leg, num) ==
  /\ Ready /\ CanStamp
  /\ num <= MaxSeat
  /\ Fits(FetchTicket(trip), leg, num)
  /\ ModifyTicket(trip, Plus(FetchTicket(trip), leg, -num))
  /\ Ordered(user, trip, leg, num, "success")
  /\ UNCHANGED <<waitlist, header, refund, status>>

QueueForTicket(user, trip, leg, num) ==
  /\ Ready /\ CanStamp
  /\ num <= MaxSeat
  /\ ~Fits(FetchTicket(trip), leg, num)
  /\ waitlist' = [waitlist EXCEPT ![trip] = Enqueued(@,
        [timestamp |-> timestamp + 1, num |-> num, user |-> user, leg |-> leg, queue |-> TRUE])]
  /\ Ordered(user, trip, leg, num, "pending")
  /\ UNCHANGED <<tickets, header, refund, status>>

(***************************************************************************)
(* RefundTicket of the num-th newest order of a user.  Refunding an order  *)
(* twice, or one beyond the oldest, changes nothing.                       *)
(***************************************************************************)

\* A user who never ordered: page_id[0] of an empty vector throws, and nobody
\* catches it.
RefundWithoutOrders(user) ==
  /\ Ready
  /\ orderlist[user] = <<>>
  /\ status' = "terminated"
  /\ UNCHANGED <<tickets, waitlist, orderlist, timestamp, header, refund>>

OrderAt(user, at) == orderlist[user][at[1]][at[2]]

Tidied(trip) == WithoutEmptyPages(waitlist[trip])

\* A pending order gives no seats back: the first slot with its timestamp
\* leaves the queue.
RefundPending(order) ==
  LET pages == Tidied(order.trip)
      i     == Min({n \in 1 .. Slots(pages) : Slot(pages, n).timestamp = order.timestamp})
  IN  /\ order.status = "pending"
      /\ pages # <<>>
      /\ waitlist' = [waitlist EXCEPT ![order.trip] = Unqueued(pages, i)]
      /\ UNCHANGED <<tickets, refund, status>>

\* No waitlist: the seats go straight back.
RefundSold(order) ==
  /\ order.status = "success"
  /\ waitlist[order.trip] = <<>>
  /\ ModifyTicket(order.trip, Plus(FetchTicket(order.trip), order.leg, order.num))
  /\ UNCHANGED <<waitlist, refund, status>>

\* The seats go back to the local copy, and the pass over the waitlist begins.
RefundSoldToWaiters(order) ==
  LET pages == Tidied(order.trip)
  IN  /\ order.status = "success"
      /\ pages # <<>>
      /\ waitlist' = [waitlist EXCEPT ![order.trip] = pages]
      /\ refund' = [trip |-> order.trip, at |-> 1,
                    seats |-> Plus(FetchTicket(order.trip), order.leg, order.num)]
      /\ UNCHANGED <<tickets, status>>

\* A waitlist on which nobody waits any more: RemoveEmptyPage has dropped the
\* guard, FetchWaitlist wraps it in an iterator that tests true, and the loop
\* dereferences it.
RefundIntoDroppedPage(order) ==
  /\ order.status \in {"success", "pending"}
  /\ waitlist[order.trip] # <<>>
  /\ Tidied(order.trip) = <<>>
  /\ waitlist' = [waitlist EXCEPT ![order.trip] = <<>>]
  /\ status' = "crashed"
  /\ UNCHANGED <<tickets, refund>>

RefundTicket(user, num) ==
  /\ Ready
  /\ \E at \in Found(orderlist[user], num) :
       /\ OrderAt(user, at).status # "refunded"
       /\ orderlist' = [orderlist EXCEPT ![user] = WithStatus(@, at, "refunded")]
       /\ \/ RefundPending(OrderAt(user, at))
          \/ RefundSold(OrderAt(user, at))
          \/ RefundSoldToWaiters(OrderAt(user, at))
          \/ RefundIntoDroppedPage(OrderAt(user, at))
  /\ UNCHANGED <<timestamp, header>>

(***************************************************************************)
(* The pass over the waitlist: each slot in turn, with the seats left at   *)
(* that moment, then the seats are written back.                           *)
(***************************************************************************)
Chain == waitlist[refund.trip]

Passing == refund # NoRefund /\ refund.at <= Slots(Chain)

Servable(info) == info.queue /\ Fits(refund.seats, info.leg, info.num)

\* Mutant: the entry stays in the queue.
ServeNextStillQueued ==
  /\ Passing
  /\ LET info == Slot(Chain, refund.at) IN
       /\ Servable(info)
       /\ orderlist' = [orderlist EXCEPT ![info.user] = QueueSucceed(@, info.timestamp)]
       /\ refund' = [refund EXCEPT !.at = @ + 1, !.seats = Plus(@, info.leg, -info.num)]
  /\ UNCHANGED <<tickets, waitlist, timestamp, header, status>>

ServeNext ==
  /\ Passing
  /\ LET info == Slot(Chain, refund.at) IN
       /\ Servable(info)
       /\ orderlist' = [orderlist EXCEPT ![info.user] = QueueSucceed(@, info.timestamp)]
       /\ waitlist' = [waitlist EXCEPT ![refund.trip] = Unqueued(@, refund.at)]
       /\ refund' = [refund EXCEPT !.at = @ + 1, !.seats = Plus(@, info.leg, -info.num)]
  /\ UNCHANGED <<tickets, timestamp, header, status>>

\* Mutant: the pass ends at the first party that does not fit.
PassOverEnding ==
  /\ Passing
  /\ ~Servable(Slot(Chain, refund.at))
  /\ refund' = [refund EXCEPT !.at = IF Slot(Chain, @).queue THEN Slots(Chain) + 1 ELSE @ + 1]
  /\ UNCHANGED <<tickets, waitlist, orderlist, timestamp, header, status>>

\* Mutant: the iterator does not move off a slot that is not queued.
PassOverStuck ==
  /\ Passing
  /\ ~Servable(Slot(Chain, refund.at))
  /\ refund' = [refund EXCEPT !.at = IF Slot(Chain, @).queue THEN @ + 1 ELSE @]
  /\ UNCHANGED <<tickets, waitlist, orderlist, timestamp, header, status>>

PassOver ==
  /\ Passing
  /\ ~Servable(Slot(Chain, refund.at))
  /\ refund' = [refund EXCEPT !.at = @ + 1]
  /\ UNCHANGED <<tickets, waitlist, orderlist, timestamp, header, status>>

\* Mutant: the seats left after the pass are not written back.
FinishRefundUnsaved ==
  /\ refund # NoRefund
  /\ refund.at > Slots(Chain)
  /\ refund' = NoRefund
  /\ UNCHANGED <<tickets, waitlist, orderlist, timestamp, header, status>>

FinishRefund ==
  /\ refund # NoRefund
  /\ refund.at > Slots(Chain)
  /\ ModifyTicket(refund.trip, refund.seats)
  /\ refund' = NoRefund
  /\ UNCHANGED <<waitlist, orderlist, timestamp, header, status>>

-----------------------------------------------------------------------------
(***************************************************************************)
(* A clean exit saves the timestamp in the waitlist's header page, and the *)
(* next start reads it back; the pools keep the pages (BufferPool).        *)
(***************************************************************************)
Exit ==
  /\ Ready
  /\ header' = timestamp
  /\ timestamp' = InvalidPageId
  /\ status' = "down"
  /\ UNCHANGED <<tickets, waitlist, orderlist, refund>>

\* Mutant: the timestamp is not read back.
StartForgetful ==
  /\ status = "down"
  /\ status' = "up"
  /\ UNCHANGED <<tickets, waitlist, orderlist, timestamp, header, refund>>

Start ==
  /\ status = "down"
  /\ timestamp' = header
  /\ status' = "up"
  /\ UNCHANGED <<tickets, waitlist, orderlist, header, refund>>

-----------------------------------------------------------------------------
\* The header page of a new file holds INVALID_PAGE_ID where the timestamp goes,
\* so the first order ever is number 0.
Init ==
  /\ tickets = [k \in {} |-> 0]
  /\ waitlist = [k \in Trips |-> <<>>]
  /\ orderlist = [u \in Users |-> <<>>]
  /\ timestamp = InvalidPageId
  /\ header = InvalidPageId
  /\ refund = NoRefund
  /\ status = "down"

InTheLoop == ServeNext \/ PassOver \/ FinishRefund

Next ==
  \/ \E u \in Users, k \in Trips, leg \in Legs, num \in Nums :
       BuyTicket(u, k, leg, num) \/ QueueForTicket(u, k, leg, num)
  \/ \E u \in Users : RefundWithoutOrders(u) \/ \E num \in 1 .. MaxTimestamp + 1 : RefundTicket(u, num)
  \/ InTheLoop
  \/ Exit
  \/ Start

\* One thread runs the loop of RefundTicket to its end: no input is waited for.
Fairness == WF_salesVars(InTheLoop)

Spec == Init /\ [][Next]_salesVars /\ Fairness

-----------------------------------------------------------------------------
(***************************************************************************)
(* Safety.  After a crash the memory is gone, and with it what the seats   *)
(* and the lists would have said.                                          *)
(***************************************************************************)
Entries(pages) == UNION {{pages[i][j] : j \in DOMAIN pages[i]} : i \in DOMAIN pages}

OrdersOf(u) == Entries(orderlist[u])

SeatsLeft(trip) == IF refund.trip = trip THEN refund.seats ELSE FetchTicket(trip)

\* The seats sold on a segment, <<user, order, n>> for the n-th seat of an order.
Sold(trip, s) ==
  UNION {UNION {{<<u, o, n>> : n \in 1 .. o.num} :
                  o \in {x \in OrdersOf(u) : x.trip = trip /\ x.status = "success" /\ s \in Covers(x.leg)}} :
         u \in Users}

\* On every segment of every trip the seats left and the seats of the orders
\* that succeeded add up to the train, in the middle of a refund's pass too: no
\* seat is sold twice, and none is lost by a refund or a served waiter.
SeatsConserved ==
  status # "crashed" =>
    \A k \in Trips, s \in Segments : SeatsLeft(k)[s] + Cardinality(Sold(k, s)) = MaxSeat

Queued(trip) == {info \in Entries(waitlist[trip]) : info.queue}

\* Those in the queues are exactly the pending orders: an order that was refunded
\* or served can not be served again, and no pending order has been forgotten by
\* dropping a page.
QueuesMatchOrders ==
  \A k \in Trips :
    {[user |-> w.user, timestamp |-> w.timestamp, leg |-> w.leg, num |-> w.num] : w \in Queued(k)}
    = UNION {{[user |-> u, timestamp |-> o.timestamp, leg |-> o.leg, num |-> o.num] :
                o \in {x \in OrdersOf(u) : x.trip = k /\ x.status = "pending"}} : u \in Users}

\* Nobody waits for seats that are there: between commands no waiting party fits,
\* and during a pass none of those already passed over does.
NobodyWaitsInVain ==
  status # "crashed" =>
    \A k \in Trips : \A i \in 1 .. Slots(waitlist[k]) :
      LET info == Slot(waitlist[k], i) IN
        info.queue /\ (refund.trip = k => i < refund.at) => ~Fits(SeatsLeft(k), info.leg, info.num)

\* Entry i of page p is older than entry j of page q.
Older(pages, p, i, q, j) == pages[p][i].timestamp < pages[q][j].timestamp

OldestFirst(pages) ==
  \A p, q \in DOMAIN pages : \A i \in DOMAIN pages[p], j \in DOMAIN pages[q] :
    p < q \/ (p = q /\ i < j) => Older(pages, p, i, q, j)

NewestFirst(pages) ==
  \A p, q \in DOMAIN pages : \A i \in DOMAIN pages[p], j \in DOMAIN pages[q] :
    q < p \/ (p = q /\ i < j) => Older(pages, p, i, q, j)

\* Waitlists run from the oldest to the newest entry, order pages from the newest
\* to the oldest with the orders of a page in the order they were placed, also
\* across a restart: the walks of QueueSucceed and RefundTicket rely on it.
ChainsSorted ==
  /\ \A k \in Trips : OldestFirst(waitlist[k])
  /\ \A u \in Users : NewestFirst(orderlist[u])

\* A customer reads the number of an order off the listing: refund number n takes
\* the n-th order listed, though one walk turns every page round and the other
\* counts down by pages, and a number beyond the list takes none.
ListedIsRefunded ==
  \A u \in Users : \A n \in 1 .. MaxTimestamp + 2 :
    LET listed == QueryOrder(orderlist[u])
    IN {OrderAt(u, at) : at \in Found(orderlist[u], n)} = IF n \in DOMAIN listed THEN {listed[n]} ELSE {}

\* page_guard.h:29 of Drop: it "should clear all contents (so that the page guard
\* is no longer useful)".  RefundTicket reads through a dropped guard.
NoUseOfDroppedGuard == status # "crashed"

\* judger.py:100: a run whose return code is not 0 has failed.  A refund asked for
\* by a user without orders ends the process by an uncaught exception.
ExitsNormally == status # "terminated"

-----------------------------------------------------------------------------
\* A refund ends: the pass visits each slot once.
RefundCompletes == refund # NoRefund ~> refund = NoRefund

(***************************************************************************)
(* The three stores together behave as TicketOffice.                       *)
(***************************************************************************)
Placed == UNION {{[user |-> u, order |-> o] : o \in OrdersOf(u)} : u \in Users}

OfficeOrders ==
  LET placed == Placed
  IN [i \in {p.order.timestamp : p \in placed} |->
        LET p == CHOOSE q \in placed : q.order.timestamp = i
        IN [user |-> p.user, trip |-> p.order.trip, leg |-> p.order.leg, num |-> p.order.num,
            status |-> p.order.status]]

Office == INSTANCE TicketOffice WITH orders <- OfficeOrders, serving <- refund.trip

\* A customer sees orders numbered in the order they were placed, seats that are
\* never sold twice, and waiters served first come first served.
ImplementsOffice == Office!OfficeSpec
=============================================================================
