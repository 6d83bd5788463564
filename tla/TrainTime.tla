----------------------------- MODULE TrainTime ------------------------------
(***************************************************************************)
(* Dates and times (common/time.cpp) and what TrainSystem                  *)
(* (ticket/train_system.cpp) does with them.                               *)
(*                                                                         *)
(* A customer names the day on which a train leaves a stop.  Seats, orders *)
(* and waitlists are kept by the day on which it leaves its first station, *)
(* which BuyTicket, QueryTicket and QueryTransfer compute from the other,  *)
(* and RefundTicket from the time printed on the ticket.  The state        *)
(* machine is the loop of QueryTrain, which prints the run of one train    *)
(* from station to station; the rest must agree with it.                   *)
(*                                                                         *)
(* A train is a record; stop i of the code is element i + 1 of the         *)
(* sequences, travel[i] the way from i to i + 1, stopover[i] the wait at   *)
(* i, prices[i] the fare from i to i + 1.                                  *)
(***************************************************************************)
EXTENDS Integers, Sequences, FiniteSetsExt, Functions

CONSTANTS Trains,             \* the trains on sale
          MaxStops            \* no train has more stops

VARIABLES train, date,        \* the run printed
          pos,                \* i, the station it is at
          waiting,            \* the wait at pos is still to be added
          cur_time            \* cur_time

timeVars == <<train, date, pos, waiting, cur_time>>

-----------------------------------------------------------------------------
(***************************************************************************)
(* Date, Moment and Time.                                                  *)
(***************************************************************************)
Dates == [month : Int, day : Int]

Moments == [hour : 0 .. 23, minute : 0 .. 59]

Date(month, day) == [month |-> month, day |-> day]

Time(d, moment) == [date |-> d, moment |-> moment]

DateLess(d, e) == d.month < e.month \/ (d.month = e.month /\ d.day < e.day)

DateLeq(d, e) == d = e \/ DateLess(d, e)

MomentLeq(m, n) == m.hour < n.hour \/ (m.hour = n.hour /\ m.minute <= n.minute)

TimeLess(s, t) ==
  \/ DateLess(s.date, t.date)
  \/ s.date = t.date /\ ~MomentLeq(t.moment, s.moment)

Midnight == [hour |-> 0, minute |-> 0]

\* The loop that brings the day into the month.  Past June every month has 31 days,
\* which serves till September.
Carried[d \in Dates] ==
  IF d.day >= 32 THEN Carried[Date(d.month + 1, d.day - 31)] ELSE d

\* Mutant: June is given 31 days.
PlusLongJune(t, minute) ==
  LET minutes == t.moment.minute + minute
      hours   == t.moment.hour + minutes \div 60
  IN Time(Carried[Date(t.date.month, t.date.day + hours \div 24)],
          [hour |-> hours % 24, minute |-> minutes % 60])

\* Time + minutes.
Plus(t, minute) ==
  LET minutes == t.moment.minute + minute
      hours   == t.moment.hour + minutes \div 60
      day     == t.date.day + hours \div 24
  IN Time(Carried[IF day >= 31 /\ t.date.month = 6 THEN Date(7, day - 30)
                  ELSE Date(t.date.month, day)],
          [hour |-> hours % 24, minute |-> minutes % 60])

\* The loop that takes days back from earlier months.
Borrowed[d \in Dates] ==
  IF d.day <= 0
  THEN Borrowed[Date(d.month - 1, d.day + (IF d.month = 7 THEN 30 ELSE 31))] ELSE d

\* Time - minutes.
Minus(t, minute) ==
  LET minutes == t.moment.minute - minute
      hours   == t.moment.hour + minutes \div 60
  IN Time(Borrowed[Date(t.date.month, t.date.day + hours \div 24)],
          [hour |-> hours % 24, minute |-> minutes % 60])

\* Mutant: June is given 31 days.
NextDateLongJune(d) ==
  IF d.day = 31 THEN Date(d.month + 1, 1) ELSE Date(d.month, d.day + 1)

NextDate(d) ==
  IF d.month = 6 /\ d.day = 30 THEN Date(7, 1)
  ELSE IF d.day = 31 THEN Date(d.month + 1, 1)
  ELSE Date(d.month, d.day + 1)

\* Time - Time, counted day by day up from the second.
Difference(t, s) ==
  LET from[d \in [month : 1 .. 13, day : 1 .. 31]] ==
        IF DateLess(d, t.date) THEN 1440 + from[NextDate(d)] ELSE 0
  IN (t.moment.minute - s.moment.minute) + (t.moment.hour - s.moment.hour) * 60 + from[s.date]

-----------------------------------------------------------------------------
(***************************************************************************)
(* The days and times of a journey.                                        *)
(***************************************************************************)
SumFrom(seq, from, to) == MapThenSumSet(LAMBDA i : seq[i], from .. to)

\* From the first station to leaving station i.
Elapsed(tr, i) == SumFrom(tr.travel, 1, i - 1) + SumFrom(tr.stopover, 1, i)

\* Mutant: the last wait on the way is not counted.
DurationShort(tr, i, j) == SumFrom(tr.travel, i, j - 1) + SumFrom(tr.stopover, i + 1, j - 2)

\* From leaving station i to arriving at station j.
Duration(tr, i, j) == SumFrom(tr.travel, i, j - 1) + SumFrom(tr.stopover, i + 1, j - 1)

SetMoment(t, moment) == [t EXCEPT !.moment = moment]

\* Mutant: on a tie of the moments the train of the next day is taken.
FirstStartStrict(t, tr) ==
  IF MomentLeq(tr.start_time, t.moment)
  THEN SetMoment(Plus(t, 1440), tr.start_time) ELSE SetMoment(t, tr.start_time)

\* The first start of the train that is not before t.
FirstStart(t, tr) ==
  IF MomentLeq(t.moment, tr.start_time)
  THEN SetMoment(t, tr.start_time) ELSE SetMoment(Plus(t, 1440), tr.start_time)

\* The start of the run that leaves station i on day d.
StartTime(tr, i, d) == FirstStart(Minus(Time(d, Midnight), Elapsed(tr, i)), tr)

OnSale(tr, d) == DateLeq(tr.start_sale, d) /\ DateLeq(d, tr.end_sale)

\* Mutant: the days on sale are taken for those at the station.
OfferedAsOnSale(tr, i, d) == OnSale(tr, d)

\* QueryTicket decides by the days on which the first and last run leave station i.
Offered(tr, i, d) ==
  /\ DateLeq(Plus(Time(tr.start_sale, tr.start_time), Elapsed(tr, i)).date, d)
  /\ DateLeq(d, Plus(Time(tr.end_sale, tr.start_time), Elapsed(tr, i)).date)

\* What BuyTicket writes on a ticket from i to j for day d.
Leave(tr, i, d) == Plus(StartTime(tr, i, d), Elapsed(tr, i))

Arrive(tr, i, j, d) == Plus(Leave(tr, i, d), Duration(tr, i, j))

\* RefundTicket: the day under which the seats were sold.
DaySoldUnder(tr, i, leave) == Minus(leave, Elapsed(tr, i)).date

\* QueryTransfer: whether one who arrives at station j of train tr at that time can
\* still get on, and the start of the run to take.
Reachable(tr, j, arrive) ==
  ~TimeLess(Plus(Time(tr.end_sale, tr.start_time), Elapsed(tr, j)), arrive)

\* Mutant: the first day on sale is not considered.
ConnectionAnyDay(tr, j, arrive) == FirstStart(Minus(arrive, Elapsed(tr, j)), tr)

Connection(tr, j, arrive) ==
  LET first == Time(tr.start_sale, tr.start_time)
      latest == Minus(arrive, Elapsed(tr, j))
  IN IF TimeLess(latest, first) THEN first ELSE FirstStart(latest, tr)

-----------------------------------------------------------------------------
(***************************************************************************)
(* The choice of QueryTransfer.  An itinerary is a pair of tickets; how    *)
(* many seats are left on them is printed and decides nothing.             *)
(***************************************************************************)
Ticket(tr, i, j, start) ==
  [train_id |-> tr.train_id, leave |-> Plus(start, Elapsed(tr, i)),
   duration |-> Duration(tr, i, j), price |-> SumFrom(tr.prices, i, j - 1)]

TotalTime(tickets) ==
  Difference(tickets[2].leave, tickets[1].leave) + tickets[2].duration

TotalPrice(tickets) == tickets[1].price + tickets[2].price

LexLess(v, w) == \E n \in DOMAIN v : v[n] < w[n] /\ \A m \in 1 .. n - 1 : v[m] = w[m]

\* What OrderByTime and OrderByPrice compare, the first difference deciding.
Rank(tickets, by_cost) ==
  LET time == TotalTime(tickets)
      price == TotalPrice(tickets)
  IN (IF by_cost THEN <<price, time>> ELSE <<time, price>>)
       \o <<tickets[1].train_id, tickets[2].train_id>>

\* The ways to change from one train at its stop i to another at its stop j: the four
\* loops.  Their order, left open here, decides only between equal ranks.
Changes(start, end) ==
  {way \in Trains \X Trains \X (1 .. MaxStops) \X (1 .. MaxStops) :
     LET tr1 == way[1]
         tr2 == way[2]
     IN  /\ tr1 # tr2
         /\ way[3] \in DOMAIN tr1.stations /\ way[4] \in DOMAIN tr2.stations
         /\ tr1.stations[way[3]] = tr2.stations[way[4]]
         /\ \E n \in 1 .. way[3] - 1 : tr1.stations[n] = start
         /\ \E n \in way[4] + 1 .. Len(tr2.stations) : tr2.stations[n] = end}

Stop(tr, station) == CHOOSE n \in DOMAIN tr.stations : tr.stations[n] = station

\* Mutant: the days on which the second train is sold are not consulted.
ConsideredAnyDay(best, way, start, end, d, by_cost) ==
  LET tr1 == way[1]
      tr2 == way[2]
      from == Stop(tr1, start)
      arrive == Arrive(tr1, from, way[3], d)
      tickets == <<Ticket(tr1, from, way[3], StartTime(tr1, from, d)),
                   Ticket(tr2, way[4], Stop(tr2, end), Connection(tr2, way[4], arrive))>>
  IN IF \/ ~Offered(tr1, from, d)
        \/ best # <<>> /\ LexLess(Rank(best, by_cost), Rank(tickets, by_cost))
     THEN best ELSE tickets

\* The best pair of tickets so far and one more way to change.
Considered(best, way, start, end, d, by_cost) ==
  LET tr1 == way[1]
      tr2 == way[2]
      from == Stop(tr1, start)
      arrive == Arrive(tr1, from, way[3], d)
      tickets == <<Ticket(tr1, from, way[3], StartTime(tr1, from, d)),
                   Ticket(tr2, way[4], Stop(tr2, end), Connection(tr2, way[4], arrive))>>
  IN IF \/ ~Offered(tr1, from, d)
        \/ ~Reachable(tr2, way[4], arrive)
        \/ best # <<>> /\ LexLess(Rank(best, by_cost), Rank(tickets, by_cost))
     THEN best ELSE tickets

\* The answer, <<>> for none.
QueryTransfer(start, end, d, by_cost) ==
  FoldSet(LAMBDA way, best : Considered(best, way, start, end, d, by_cost),
          <<>>, Changes(start, end))

-----------------------------------------------------------------------------
(***************************************************************************)
(* The loop of QueryTrain.                                                 *)
(***************************************************************************)
SaleDays(tr) == {d \in [month : 6 .. 8, day : 1 .. 31] : d # Date(6, 31) /\ OnSale(tr, d)}

RunInit ==
  /\ train \in Trains
  /\ date \in SaleDays(train)
  /\ pos = 1 /\ waiting = TRUE
  /\ cur_time = Time(date, train.start_time)

Wait ==
  /\ waiting /\ pos <= Len(train.travel)
  /\ cur_time' = Plus(cur_time, train.stopover[pos])
  /\ waiting' = FALSE
  /\ UNCHANGED <<train, date, pos>>

Travel ==
  /\ ~waiting
  /\ cur_time' = Plus(cur_time, train.travel[pos])
  /\ pos' = pos + 1
  /\ waiting' = TRUE
  /\ UNCHANGED <<train, date>>

RunNext == Wait \/ Travel

RunSpec == RunInit /\ [][RunNext]_timeVars

-----------------------------------------------------------------------------
(***************************************************************************)
(* Properties, against a count of minutes since the first of June.         *)
(***************************************************************************)
DaysBefore == [month \in 5 .. 9 |-> <<-31, 0, 30, 61, 92>>[month - 4]]

DayNumber(d) == DaysBefore[d.month] + d.day - 1

Instant(t) == DayNumber(t.date) * 1440 + t.moment.hour * 60 + t.moment.minute

MonthLength == [month \in 5 .. 9 |-> IF month \in {6, 9} THEN 30 ELSE 31]

IsDate(d) == d \in Dates /\ d.month \in 5 .. 9 /\ d.day \in 1 .. MonthLength[d.month]

\* What a train is.  AddTrain leaves no wait at either end; a train passes no station
\* twice and is sold from one day of June, July or August to another, and every run is
\* over by the end of September, as far as the code's calendar goes.  A train id stands
\* for its place in the order of ids.
ASSUME TrainAssumption ==
  /\ IsFiniteSet(Trains) /\ MaxStops \in Nat
  /\ \A tr \in Trains :
      /\ tr.train_id \in Nat
      /\ tr.stations \in Seq(Range(tr.stations)) /\ IsInjective(tr.stations)
      /\ tr.travel \in Seq(Nat) /\ tr.stopover \in Seq(Nat) /\ tr.prices \in Seq(Nat)
      /\ Len(tr.travel) >= 1
      /\ Len(tr.stopover) = Len(tr.travel) + 1
      /\ Len(tr.prices) = Len(tr.travel)
      /\ Len(tr.stations) = Len(tr.stopover)
      /\ Len(tr.stations) <= MaxStops
      /\ tr.stopover[1] = 0
      /\ tr.start_time \in Moments
      /\ \A d \in {tr.start_sale, tr.end_sale} : IsDate(d) /\ d.month \in 6 .. 8
      /\ DateLeq(tr.start_sale, tr.end_sale)
      /\ Instant(Time(tr.end_sale, tr.start_time)) + Elapsed(tr, Len(tr.stopover))
           < 1440 * DayNumber(Date(9, 31))

TypeOK ==
  /\ pos \in 1 .. Len(train.stopover)
  /\ IsDate(cur_time.date)
  /\ cur_time.moment \in Moments

\* Adding up the legs of a run, through midnights and ends of months, keeps time:
\* the clock shows a day of the calendar and has advanced by the sum of what was
\* added, and the difference of two times is the number of minutes between them.
KeepsTime ==
  LET start == Time(date, train.start_time)
      all   == Elapsed(train, pos) - (IF waiting THEN train.stopover[pos] ELSE 0)
  IN  /\ TypeOK
      /\ Instant(cur_time) = Instant(start) + all
      /\ Difference(cur_time, start) = all

\* A ticket bought for the day on which this run leaves the station is a ticket for
\* this run: BuyTicket finds its first day again, writes the time the run leaves on
\* it, and RefundTicket finds the same day from that time alone.
TicketsMeetTheirRun ==
  ~waiting =>
    /\ StartTime(train, pos, cur_time.date).date = date
    /\ Leave(train, pos, cur_time.date) = cur_time
    /\ DaySoldUnder(train, pos, cur_time) = date

\* The arrival written on a ticket from any earlier station is when this run arrives.
ArrivalsMeetTheRun ==
  waiting => \A i \in 1 .. pos - 1 :
    LET leave == Plus(Time(date, train.start_time), Elapsed(train, i))
    IN Arrive(train, i, pos, leave.date) = cur_time

DaysOfMonth(month) == {Date(month, day) : day \in 1 .. MonthLength[month]}

\* What QueryTicket offers for a day BuyTicket sells, and nothing else: asking the
\* first and the last run at the station comes to the same as asking the run itself.
OffersAreSold ==
  ~waiting => \A d \in DaysOfMonth(cur_time.date.month) :
    Offered(train, pos, d) <=> OnSale(train, StartTime(train, pos, d).date)

\* Wherever one boards it, the second train of a transfer is the first one on sale that
\* leaves the station no earlier than the traveller arrives, and a transfer is refused
\* only if none does.
ConnectionsAreNext ==
  waiting => \A tr \in Trains \ {train} : \A j \in DOMAIN tr.travel :
    LET leaves(d) == Instant(Time(d, tr.start_time)) + Elapsed(tr, j)
        caught    == {d \in SaleDays(tr) : leaves(d) >= Instant(cur_time)}
    IN IF caught = {} THEN ~Reachable(tr, j, cur_time)
       ELSE /\ Reachable(tr, j, cur_time)
            /\ Connection(tr, j, cur_time).moment = tr.start_time
            /\ Connection(tr, j, cur_time).date \in caught
            /\ \A d \in caught : DateLeq(Connection(tr, j, cur_time).date, d)

\* The answer to a transfer query ranks with the best of all journeys there are: any
\* run leaving here today, any change on the way, any run of another train that leaves
\* no earlier than the traveller arrives, timed by the minutes they really take.
TransferIsBest ==
  ~waiting =>
    LET start      == train.stations[pos]
        at(d, tr, i) == Instant(Time(d, tr.start_time)) + Elapsed(tr, i)
        here(tr)   == {d \in SaleDays(tr) :
                         Plus(Time(d, tr.start_time), Elapsed(tr, Stop(tr, start))).date
                           = cur_time.date}
        arrival(d, tr, i) == at(d, tr, i) - tr.stopover[i]
        fare(tr, i, j) == SumFrom(tr.prices, i, j - 1)
        journeys(way, end) ==
          LET i0 == Stop(way[1], start)
              j1 == Stop(way[2], end)
              on(d1)   == {d2 \in SaleDays(way[2]) :
                             at(d2, way[2], way[4]) >= arrival(d1, way[1], way[3])}
          IN UNION {{<<arrival(d2, way[2], j1) - at(d1, way[1], i0),
                       fare(way[1], i0, way[3]) + fare(way[2], way[4], j1),
                       way[1].train_id, way[2].train_id>> : d2 \in on(d1)} :
                    d1 \in here(way[1])}
    IN \A end \in UNION {Range(tr.stations) : tr \in Trains} \ {start}, by_cost \in BOOLEAN :
         LET answer == QueryTransfer(start, end, cur_time.date, by_cost)
             ranks  == {IF by_cost THEN <<v[2], v[1], v[3], v[4]>> ELSE v :
                          v \in UNION {journeys(way, end) : way \in Changes(start, end)}}
         IN IF ranks = {} THEN answer = <<>>
            ELSE /\ answer # <<>>
                 /\ Rank(answer, by_cost) \in ranks
                 /\ \A v \in ranks : ~LexLess(v, Rank(answer, by_cost))
=============================================================================
