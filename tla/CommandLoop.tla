---------------------------- MODULE CommandLoop ----------------------------
(***************************************************************************)
(* Listen (executor/executor.cpp): one command after the other is parsed   *)
(* into op and para, and handed to the user system or the train system,    *)
(* until exit or the end of the input.                                     *)
(*                                                                         *)
(* The systems are composed here: UserSystem in full, the catalogue of     *)
(* trains as its promise Timetable (TrainCatalog implements it), seats,    *)
(* waitlists and orders as their promise TicketOffice (TicketSales         *)
(* implements it).  Only the order keeps more here than there: the names   *)
(* it was placed under, which a refund looks up again in the catalogue.    *)
(*                                                                         *)
(* Parameters are letters with a value.  Passwords and names, dates (one   *)
(* day of each train is sold) and the queries, which change nothing, are   *)
(* left out, and so is a refund asked for by a user without orders, which  *)
(* ends the process (TicketSales).                                         *)
(***************************************************************************)
EXTENDS UserSystem, Sequences, FiniteSets

CONSTANTS TrainIds,
          Services,           \* what add_train enters: the stations in order
          Journeys,           \* the <<from, to>> that tickets are asked for
          Leftovers,          \* the bytes the uninitialized login_info_ may hold
          NumSegments, Legs, Nums, MaxSeat, NoTrip, Blank,
          MaxOrders           \* cap on the orders ever placed, for TLC

Commands == {"add_user", "login", "logout", "modify_profile", "exit", "add_train", "delete_train",
             "release_train", "buy_ticket", "refund_ticket"}

ASSUME LoopAssumption ==
  /\ Blank \notin Commands
  /\ Leftovers \subseteq Int8
  /\ \A service \in Services : \A i, j \in DOMAIN service.stations :
       i # j => service.stations[i] # service.stations[j]

VARIABLES trains,             \* the catalogue
          orders, serving,    \* the office
          names,              \* order number -> train_id_, from_ and to_ of the OrderInfo
          op, para,           \* the locals of Listen
          phase,              \* where Listen is
          line                \* history: the command being executed, as it was entered

Catalog == INSTANCE Timetable

Office == INSTANCE TicketOffice WITH Trips <- TrainIds

officeVars == <<orders, serving>>

loopVars == <<userVars, trains, orders, serving, names, op, para, phase, line>>

Letters == {"c", "u", "g", "i", "s", "n", "f", "t", "q"}

Cleared == [l \in Letters |-> Blank]

NoLine == [op |-> Blank, given |-> Cleared]

OrdersOf(u) == {i \in DOMAIN orders : orders[i].user = u}

-----------------------------------------------------------------------------
(***************************************************************************)
(* Parse, of a line that gives some letters a value: the others keep the   *)
(* one they have, and a blank line leaves op as it is.                     *)
(***************************************************************************)
Parse(command, given) ==
  /\ Running /\ phase = "reading"
  /\ op' = IF command = Blank THEN op ELSE command
  /\ para' = [l \in Letters |-> IF given[l] # Blank THEN given[l] ELSE para[l]]
  /\ phase' = "executing"
  /\ line' = [op |-> command, given |-> given]
  /\ UNCHANGED <<userVars, trains, orders, serving, names>>

OrNone(S) == S \cup {Blank}

EnterUserCommand(u) ==
  \/ \E command \in {"login", "logout"} : Parse(command, [Cleared EXCEPT !["u"] = u])
  \/ \E c \in Users, g \in Levels :
       Parse("add_user", [Cleared EXCEPT !["c"] = c, !["u"] = u, !["g"] = g])
  \/ \E c \in Users, g \in OrNone(Levels) :
       Parse("modify_profile", [Cleared EXCEPT !["c"] = c, !["u"] = u, !["g"] = g])

EnterTrainCommand(id) ==
  \/ \E service \in Services :
       Parse("add_train", [Cleared EXCEPT !["i"] = id, !["s"] = service])
  \/ \E command \in {"delete_train", "release_train"} :
       Parse(command, [Cleared EXCEPT !["i"] = id])

EnterTicketCommand(u) ==
  \/ /\ Cardinality(DOMAIN orders) < MaxOrders
     /\ \E id \in TrainIds, j \in Journeys, num \in Nums, q \in OrNone({"true"}) :
          Parse("buy_ticket", [Cleared EXCEPT !["u"] = u, !["i"] = id, !["n"] = num,
                                              !["f"] = j[1], !["t"] = j[2], !["q"] = q])
  \/ /\ OrdersOf(u) # {}
     /\ \E num \in OrNone(Nums) :
          Parse("refund_ticket", [Cleared EXCEPT !["u"] = u, !["n"] = num])

\* The end of the input works as exit does.
EnterOther == \E command \in {"exit", Blank} : Parse(command, Cleared)

-----------------------------------------------------------------------------
(***************************************************************************)
(* The handlers: they see op and para, and no line.                        *)
(***************************************************************************)
HandleUserCommand ==
  /\ \/ op = "add_user" /\ \E garbage \in Leftovers :
          AddFirstUser(para["u"], garbage) \/ AddUser(para["c"], para["u"], para["g"], garbage)
     \/ op = "login" /\ Login(para["u"])
     \/ op = "logout" /\ Logout(para["u"])
     \/ op = "modify_profile" /\ para["g"] # Blank /\ ModifyProfile(para["c"], para["u"], para["g"])
  /\ phase' = "executed"
  /\ UNCHANGED <<trains, orders, serving, names>>

\* Mutant: a released train is deleted too.
DeleteTrainOnSale ==
  /\ op = "delete_train" /\ para["i"] \in DOMAIN trains
  /\ trains' = [id \in DOMAIN trains \ {para["i"]} |-> trains[id]]

DeleteTrain == op = "delete_train" /\ Catalog!Withdraw(para["i"])

HandleTrainCommand ==
  /\ \/ op = "add_train" /\ Catalog!Add(para["i"], para["s"])
     \/ DeleteTrain
     \/ op = "release_train" /\ Catalog!Release(para["i"])
  /\ phase' = "executed"
  /\ UNCHANGED <<userVars, orders, serving, names>>

\* The leg from one station of a service to another, if it runs that way.
LegBetween(stations, from, to) ==
  {<<i - 1, j - 1>> : i \in {k \in DOMAIN stations : stations[k] = from},
                      j \in {k \in DOMAIN stations : stations[k] = to}}
  \cap Legs

\* Who is not logged in, or asks for a train that is not released, is turned away.
BuyTicket ==
  /\ op = "buy_ticket"
  /\ LoginStatus(para["u"])
  /\ para["i"] \in DOMAIN trains /\ trains[para["i"]].released
  /\ \E leg \in LegBetween(trains[para["i"]].service.stations, para["f"], para["t"]),
        outcome \in {"success", "pending"} :
       /\ outcome = "pending" => para["q"] # Blank
       /\ Office!Place(orders, orders', [user |-> para["u"], trip |-> para["i"], leg |-> leg,
                                         num |-> para["n"], status |-> outcome])
  /\ names' = [i \in DOMAIN orders' |->
                 IF i \in DOMAIN orders THEN names[i] ELSE [train |-> para["i"], from |-> para["f"], to |-> para["t"]]]
  /\ phase' = "executed"
  /\ UNCHANGED <<userVars, trains>>

\* The n-th newest of a user's orders, if there are so many.
Newest(u, n) == {i \in OrdersOf(u) : Cardinality({j \in OrdersOf(u) : j >= i}) = n}

\* Without -n the newest.
RefundTicket ==
  /\ op = "refund_ticket"
  /\ LoginStatus(para["u"])
  /\ \E i \in Newest(para["u"], IF para["n"] = Blank THEN 1 ELSE para["n"]) : Office!Refund(orders, orders', i)
  /\ phase' = IF serving' = NoTrip THEN "executed" ELSE "serving"
  /\ UNCHANGED <<userVars, trains, names>>

\* The loop of RefundTicket over the waitlist.
ServeWaiters ==
  /\ phase = "serving"
  /\ \/ \E i \in DOMAIN orders : Office!Serve(orders, orders', i) /\ phase' = phase
     \/ Office!Reopen(orders, orders') /\ phase' = "executed"
  /\ UNCHANGED <<userVars, trains, names, op, para, line>>

Handle == HandleUserCommand \/ HandleTrainCommand \/ BuyTicket \/ RefundTicket

Accept == phase = "executing" /\ Handle /\ UNCHANGED <<op, para, line>>

Refused == ~ENABLED Handle

\* Fail(), an operation that is not supported, or one that changes nothing kept
\* here.
Refuse ==
  /\ phase = "executing" /\ op # "exit" /\ Refused
  /\ phase' = "executed"
  /\ UNCHANGED <<userVars, trains, orders, serving, names, op, para, line>>

\* Mutant: what the command left behind stays.
NextCommandUncleared ==
  /\ phase = "executed"
  /\ phase' = "reading" /\ line' = NoLine
  /\ UNCHANGED <<userVars, trains, orders, serving, names, op, para>>

NextCommand ==
  /\ phase = "executed"
  /\ phase' = "reading" /\ line' = NoLine
  /\ op' = Blank /\ para' = Cleared
  /\ UNCHANGED <<userVars, trains, orders, serving, names>>

\* Listen returns, and its locals go; the systems save what they keep in memory.
Leave ==
  /\ phase = "executing" /\ op = "exit"
  /\ Exit
  /\ op' = Blank /\ para' = Cleared
  /\ phase' = "reading" /\ line' = NoLine
  /\ UNCHANGED <<trains, orders, serving, names>>

Initialize == Start /\ UNCHANGED <<trains, orders, serving, names, op, para, phase, line>>

LoopInit ==
  /\ Init /\ Catalog!Init /\ Office!OfficeInit
  /\ names = [i \in {} |-> 0]
  /\ op = Blank /\ para = Cleared
  /\ phase = "reading" /\ line = NoLine

LoopNext ==
  \/ \E u \in Users : EnterUserCommand(u) \/ EnterTicketCommand(u)
  \/ \E id \in TrainIds : EnterTrainCommand(id)
  \/ EnterOther
  \/ Accept \/ Refuse \/ ServeWaiters \/ NextCommand \/ Leave
  \/ Initialize

LoopSpec == LoopInit /\ [][LoopNext]_loopVars

-----------------------------------------------------------------------------
(***************************************************************************)
(* Properties: what only the systems together can promise.                 *)
(***************************************************************************)
\* An order keeps names and the office positions.  As long as the order is there
\* its train is, released and under the same name, and its station names lead
\* RefundTicket to the positions whose seats it took.
NamesLeadToTheLeg ==
  \A i \in DOMAIN orders :
    LET n == names[i]
    IN /\ n.train \in DOMAIN trains /\ trains[n.train].released
       /\ orders[i].trip = n.train
       /\ LegBetween(trains[n.train].service.stations, n.from, n.to) = {orders[i].leg}

\* The handlers look at para, which Parse fills only in part: still every order,
\* refund and change of privilege is what the command line itself asks for, and
\* nobody queues, refunds an older order or changes a privilege by a letter left
\* over from a command before.
OnlyWhatTheLineAsks ==
  [][LET given == line.given IN
     /\ \A i \in DOMAIN orders' \ DOMAIN orders :
          /\ line.op = "buy_ticket"
          /\ orders'[i].user = given["u"] /\ orders'[i].num = given["n"]
          /\ names'[i] = [train |-> given["i"], from |-> given["f"], to |-> given["t"]]
          /\ orders'[i].status = "pending" => given["q"] # Blank
     /\ \A i \in DOMAIN orders :
          orders'[i].status = "refunded" /\ orders[i].status # "refunded" =>
            /\ line.op = "refund_ticket"
            /\ i \in Newest(given["u"], IF given["n"] = Blank THEN 1 ELSE given["n"])
     /\ \A u \in Known :
          privilege'[u] # privilege[u] =>
            line.op = "modify_profile" /\ given["g"] # Blank /\ u = given["u"]]_loopVars

\* Orders outlive the program and its sessions, logins do not: whoever buys or
\* refunds has logged in since the last start, and not out again, or is one of
\* those AddUser has left with a stamp of chance.
OnlyTheRecognisedAct ==
  [][\A i \in DOMAIN orders' :
       \/ i \notin DOMAIN orders
       \/ orders'[i].status = "refunded" /\ orders[i].status # "refunded"
       => orders'[i].user \in session \cup untouched]_loopVars
=============================================================================
