-------------------------- MODULE CommandLoopProofs --------------------------
(***************************************************************************)
(* What the command loop promises, for any users, trains, services and     *)
(* number of orders.  Each system is used only as it allows, so that what  *)
(* is proved of it alone holds in the program.                             *)
(***************************************************************************)
EXTENDS CommandLoop, FiniteSetTheorems, TLAPS

(***************************************************************************)
(* The login stamps and privileges of the user system, for every width of   *)
(* the stamp, any users and any number of sessions.                         *)
(***************************************************************************)

\* A cut stamp is never later than the session it stands for, which is why a stamp
\* of an earlier session is never taken for one of this session.
LEMMA CastInt8Facts ==
  ASSUME NEW n \in Nat
  PROVE  /\ CastInt8(n) \in Int8
         /\ CastInt8(n) <= n
         /\ CastInt8(n) = n <=> n <= Int8Max
<1> DEFINE m == n + Int8Max + 1
           w == 2 * Int8Max + 2
<1>1. m \in Nat /\ w \in Nat /\ w > 0
  BY UserAssumption
<1>2. m % w \in 0 .. w - 1 /\ m % w <= m
  <2> HIDE DEF m, w
  <2>1. m % w \in 0 .. w - 1 /\ m = w * (m \div w) + (m % w) /\ m \div w \in Nat
    BY <1>1
  <2>2. w * (m \div w) >= 0
    BY <1>1, <2>1
  <2> QED BY <1>1, <2>1, <2>2
<1>3. n <= Int8Max => m % w = m
  BY <1>1, UserAssumption
<1>4. CastInt8(n) = (m % w) - Int8Max - 1
  BY DEF CastInt8
<1> HIDE DEF m
<1>5. CastInt8(n) \in Int8
  BY <1>1, <1>2, <1>4, UserAssumption DEF Int8
<1>6. CastInt8(n) <= n /\ (n <= Int8Max => CastInt8(n) = n)
  BY <1>1, <1>2, <1>3, <1>4, UserAssumption DEF m
<1> QED BY <1>5, <1>6, UserAssumption DEF Int8

LEMMA ZeroIsInt8 == 0 \in Int8
BY UserAssumption DEF Int8

-----------------------------------------------------------------------------
(***************************************************************************)
(* The inductive invariant: the stamp of a user of this session is its     *)
(* number, all other stamps ever written are of the past.                  *)
(***************************************************************************)
Stamps ==
  IF Running
  THEN \A u \in Known \ untouched :
         IF u \in session THEN login_info[u] = CastInt8(login_timestamp)
         ELSE login_info[u] < login_timestamp
  ELSE \A u \in Known \ untouched : login_info[u] <= Saved

Histories ==
  /\ session \cap untouched = {}
  /\ ~Running => session = {}

IInv == TypeOK /\ Stamps /\ Histories

LEMMA InitIInv == Init => IInv
BY DEF Init, IInv, TypeOK, Stamps, Histories, Known, Running, InvalidPageId

LEMMA TypeStep == IInv /\ [Next]_userVars => TypeOK'
<1> SUFFICES ASSUME IInv, [Next]_userVars PROVE TypeOK'
  OBVIOUS
<1> USE UserAssumption DEF IInv, TypeOK, Known, Running
<1>1. ASSUME NEW u \in Users, NEW garbage \in Int8, AddFirstUser(u, garbage) PROVE TypeOK'
  BY <1>1 DEF AddFirstUser
<1>2. ASSUME NEW u \in Users, NEW garbage \in Int8, NEW c \in Users, NEW g \in Levels,
             AddUser(c, u, g, garbage)
      PROVE  TypeOK'
  BY <1>2 DEF AddUser
<1>3. ASSUME NEW u \in Users, Login(u) PROVE TypeOK'
  <2>1. CastInt8(login_timestamp) \in Int8
    BY CastInt8Facts
  <2> QED BY <1>3, <2>1 DEF Login
<1>4. ASSUME NEW u \in Users, Logout(u) PROVE TypeOK'
  BY <1>4, ZeroIsInt8 DEF Logout
<1>5. ASSUME NEW u \in Users, NEW c \in Users, NEW g \in Levels, ModifyProfile(c, u, g)
      PROVE  TypeOK'
  BY <1>5 DEF ModifyProfile
<1>6. CASE Exit
  BY <1>6 DEF Exit
<1>7. CASE Start
  BY <1>7 DEF Start, Saved, InvalidPageId
<1>8. CASE UNCHANGED userVars
  BY <1>8 DEF userVars
<1> QED BY <1>1, <1>2, <1>3, <1>4, <1>5, <1>6, <1>7, <1>8 DEF Next

LEMMA StampsStep == IInv /\ [Next]_userVars => (Stamps /\ Histories)'
<1> SUFFICES ASSUME IInv, [Next]_userVars PROVE (Stamps /\ Histories)'
  OBVIOUS
<1> USE DEF IInv, TypeOK, Stamps, Histories, Known, Running
<1>0. Int8 \subseteq Int /\ Saved \in Nat /\ (login_timestamp \in Nat)
  BY UserAssumption DEF Int8, Saved, InvalidPageId
<1>1. ASSUME NEW u \in Users, NEW garbage \in Int8, AddFirstUser(u, garbage)
      PROVE  (Stamps /\ Histories)'
  BY <1>1 DEF AddFirstUser
<1>2. ASSUME NEW u \in Users, NEW garbage \in Int8, NEW c \in Users, NEW g \in Levels,
             AddUser(c, u, g, garbage)
      PROVE  (Stamps /\ Histories)'
  BY <1>2 DEF AddUser
<1>3. ASSUME NEW u \in Users, Login(u) PROVE (Stamps /\ Histories)'
  BY <1>3 DEF Login
<1>4. ASSUME NEW u \in Users, Logout(u) PROVE (Stamps /\ Histories)'
  BY <1>0, <1>4 DEF Logout
<1>5. ASSUME NEW u \in Users, NEW c \in Users, NEW g \in Levels, ModifyProfile(c, u, g)
      PROVE  (Stamps /\ Histories)'
  BY <1>5 DEF ModifyProfile
<1>6. CASE Exit
  <2>1. CastInt8(login_timestamp) <= login_timestamp
    BY <1>0, CastInt8Facts
  <2>2. Saved' = login_timestamp
    BY <1>0, <1>6 DEF Exit, Saved, InvalidPageId
  <2>3. \A u \in Known \ untouched : login_info[u] <= login_timestamp
    BY <1>0, <1>6, <2>1 DEF Exit
  <2> QED BY <1>6, <2>2, <2>3 DEF Exit
<1>7. CASE Start
  BY <1>0, <1>7 DEF Start
<1>8. CASE UNCHANGED userVars
  BY <1>8 DEF userVars, Saved
<1> QED BY <1>1, <1>2, <1>3, <1>4, <1>5, <1>6, <1>7, <1>8 DEF Next

LEMMA IInvStep == IInv /\ [Next]_userVars => IInv'
BY TypeStep, StampsStep DEF IInv

\* Every run keeps the invariant.
THEOREM Invariance == Spec => []IInv
BY InitIInv, IInvStep, PTL DEF Spec

-----------------------------------------------------------------------------
LEMMA IInvGives == IInv => TypeOK /\ RecognisedJustly /\ LoginsCountWhileTheyFit
<1> SUFFICES ASSUME IInv
             PROVE  RecognisedJustly /\ LoginsCountWhileTheyFit
  BY DEF IInv
<1> USE DEF IInv, TypeOK, Stamps, Histories, Known, Running, LoginStatus
<1>1. Int8 \subseteq Int /\ \A i \in Int8 : i <= Int8Max
  BY UserAssumption DEF Int8
<1>2. RecognisedJustly
  BY <1>1 DEF RecognisedJustly
<1>3. LoginsCountWhileTheyFit
  <2> SUFFICES ASSUME Running, NEW u \in session
               PROVE  LoginStatus(u) <=> login_timestamp <= Int8Max
    BY DEF LoginsCountWhileTheyFit
  <2>1. login_info[u] = CastInt8(login_timestamp)
    OBVIOUS
  <2> QED BY <2>1, CastInt8Facts
<1> QED BY <1>2, <1>3

\* Types, for every width and any users.
THEOREM TypeCorrect == Spec => []TypeOK
BY Invariance, IInvGives, PTL

\* No stamp of an earlier session is ever taken for a login of this one.
THEOREM SessionsKeptApart == Spec => []RecognisedJustly
BY Invariance, IInvGives, PTL

\* A login lasts until the logout, exactly while the session number fits.
THEOREM LoginsLast == Spec => []LoginsCountWhileTheyFit
BY Invariance, IInvGives, PTL

-----------------------------------------------------------------------------
(***************************************************************************)
(* Privileges.                                                             *)
(***************************************************************************)
LEMMA TopStep ==
  ASSUME TypeOK, Next, Known # {}, NEW u \in Known' \ AtTop, NEW t \in Top
  PROVE  privilege'[u] < t
<1>1. Levels \cup {10} \subseteq Int
  BY UserAssumption
<1>2. \A v \in Known : privilege[v] \in Int /\ privilege[v] <= t
  BY <1>1 DEF TypeOK, Top, AtTop
<1>3. t \in Int
  BY <1>1 DEF TypeOK, Top, AtTop
<1>4. u \in Known => privilege[u] < t
  BY <1>2, <1>3 DEF AtTop
<1> USE DEF Known
<1>5. ASSUME NEW v \in Users, NEW garbage \in Int8, AddFirstUser(v, garbage) PROVE FALSE
  BY <1>5 DEF AddFirstUser
<1>6. ASSUME NEW v \in Users, NEW garbage \in Int8, NEW c \in Users, NEW g \in Levels,
             AddUser(c, v, g, garbage)
      PROVE  privilege'[u] < t
  BY <1>1, <1>2, <1>3, <1>4, <1>6 DEF AddUser, TypeOK
<1>7. ASSUME NEW v \in Users, NEW c \in Users, NEW g \in Levels, ModifyProfile(c, v, g)
      PROVE  privilege'[u] < t
  BY <1>1, <1>2, <1>3, <1>4, <1>7 DEF ModifyProfile, TypeOK
<1>8. ASSUME NEW v \in Users, Login(v) \/ Logout(v) PROVE privilege'[u] < t
  BY <1>4, <1>8 DEF Login, Logout, TypeOK
<1>9. CASE Exit \/ Start
  BY <1>4, <1>9 DEF Exit, Start
<1> QED BY <1>5, <1>6, <1>7, <1>8, <1>9 DEF Next

\* Whoever gets a privilege gets less than someone has: no sequence of additions
\* and changes makes a second user of the highest privilege.
THEOREM TopIsClosed == Spec => NobodyJoinsTheTop
<1>1. TypeOK /\ [Next]_userVars =>
        [Known # {} => \A u \in Known' \ AtTop, t \in Top : privilege'[u] < t]_userVars
  BY TopStep
<1> QED BY <1>1, TypeCorrect, PTL DEF Spec, NobodyJoinsTheTop

-----------------------------------------------------------------------------
(***************************************************************************)
(* The command loop.                                                        *)
(***************************************************************************)
Entry == [user : Users, trip : TrainIds, leg : Legs, num : Nums,
          status : {"success", "pending", "refunded"}]

\* Parse leaves nothing but what the line gives, of the kinds the handler expects.
Expected ==
  /\ op \in {"add_user", "login", "logout", "modify_profile", "buy_ticket", "refund_ticket"} =>
       para["u"] \in Users
  /\ op \in {"add_user", "modify_profile"} => para["c"] \in Users
  /\ op = "add_user" => para["g"] \in Levels
  /\ op = "modify_profile" => para["g"] \in OrNone(Levels)
  /\ op \in {"add_train", "delete_train", "release_train", "buy_ticket"} => para["i"] \in TrainIds
  /\ op = "add_train" => para["s"] \in Services
  /\ op = "buy_ticket" => para["n"] \in Nums

Locals ==
  /\ phase # "reading" => Running
  /\ phase = "reading" => op = Blank /\ \A l \in Letters : para[l] = Blank
  /\ phase = "executing" =>
       op = line.op /\ (\A l \in Letters : para[l] = line.given[l]) /\ Expected

Stores ==
  /\ \E D \in SUBSET TrainIds : trains \in [D -> [service : Services, released : BOOLEAN]]
  /\ \E n \in Nat : orders \in [0 .. n - 1 -> Entry]

LoopInv == Locals /\ Stores /\ NamesLeadToTheLeg

\* What NamesLeadToTheLeg says of one order.
Leads(catalog, name, order) ==
  /\ name.train \in DOMAIN catalog /\ catalog[name.train].released
  /\ order.trip = name.train
  /\ LegBetween(catalog[name.train].service.stations, name.from, name.to) = {order.leg}

LEMMA LeadsNow == NamesLeadToTheLeg = \A i \in DOMAIN orders : Leads(trains, names[i], orders[i])
BY Zenon DEF NamesLeadToTheLeg, Leads

LEMMA LeadsNext == NamesLeadToTheLeg' = \A i \in DOMAIN orders' : Leads(trains', names'[i], orders'[i])
BY SMT DEF NamesLeadToTheLeg, Leads, LegBetween

-----------------------------------------------------------------------------
(* Parse. *)

LEMMA ParseStep ==
  ASSUME Locals, NEW command, NEW given, Parse(command, given)
  PROVE  /\ op' = command /\ \A l \in Letters : para'[l] = given[l]
         /\ line' = [op |-> command, given |-> given]
         /\ Running' /\ phase' = "executing"
         /\ UNCHANGED <<userVars, trains, orders, serving, names>>
BY DEF Locals, Parse, userVars, Running

EnterSomething ==
  \/ \E u \in Users : EnterUserCommand(u) \/ EnterTicketCommand(u)
  \/ \E id \in TrainIds : EnterTrainCommand(id)
  \/ EnterOther

LEMMA EnterKeeps ==
  ASSUME LoopInv, EnterSomething
  PROVE  Locals' /\ UNCHANGED <<userVars, trains, orders, serving, names>>
<1> USE DEF LoopInv, Cleared, Letters, OrNone
<1>1. ASSUME NEW command, NEW given, Parse(command, given), Expected'
      PROVE  Locals' /\ UNCHANGED <<userVars, trains, orders, serving, names>>
  <2>1. /\ op' = command /\ \A l \in Letters : para'[l] = given[l]
        /\ line' = [op |-> command, given |-> given]
        /\ Running' /\ phase' = "executing"
        /\ UNCHANGED <<userVars, trains, orders, serving, names>>
    BY <1>1, ParseStep
  <2> QED BY <1>1, <2>1 DEF Locals
<1>2. ASSUME NEW u \in Users, EnterUserCommand(u)
      PROVE  Locals' /\ UNCHANGED <<userVars, trains, orders, serving, names>>
  <2>1. ASSUME NEW command \in {"login", "logout"}, Parse(command, [Cleared EXCEPT !["u"] = u])
        PROVE  Expected'
    BY <2>1, ParseStep DEF Expected
  <2>2. ASSUME NEW c \in Users, NEW g \in Levels,
               Parse("add_user", [Cleared EXCEPT !["c"] = c, !["u"] = u, !["g"] = g])
        PROVE  Expected'
    BY <2>2, ParseStep DEF Expected
  <2>3. ASSUME NEW c \in Users, NEW g \in OrNone(Levels),
               Parse("modify_profile", [Cleared EXCEPT !["c"] = c, !["u"] = u, !["g"] = g])
        PROVE  Expected'
    BY <2>3, ParseStep DEF Expected
  <2> QED BY <1>1, <1>2, <2>1, <2>2, <2>3 DEF EnterUserCommand
<1>3. ASSUME NEW id \in TrainIds, EnterTrainCommand(id)
      PROVE  Locals' /\ UNCHANGED <<userVars, trains, orders, serving, names>>
  <2>1. ASSUME NEW service \in Services,
               Parse("add_train", [Cleared EXCEPT !["i"] = id, !["s"] = service])
        PROVE  Expected'
    BY <2>1, ParseStep DEF Expected
  <2>2. ASSUME NEW command \in {"delete_train", "release_train"},
               Parse(command, [Cleared EXCEPT !["i"] = id])
        PROVE  Expected'
    BY <2>2, ParseStep DEF Expected
  <2> QED BY <1>1, <1>3, <2>1, <2>2 DEF EnterTrainCommand
<1>4. ASSUME NEW u \in Users, EnterTicketCommand(u)
      PROVE  Locals' /\ UNCHANGED <<userVars, trains, orders, serving, names>>
  <2>1. ASSUME NEW id \in TrainIds, NEW j \in Journeys, NEW num \in Nums, NEW q \in OrNone({"true"}),
               Parse("buy_ticket", [Cleared EXCEPT !["u"] = u, !["i"] = id, !["n"] = num,
                                                   !["f"] = j[1], !["t"] = j[2], !["q"] = q])
        PROVE  Expected'
    BY <2>1, ParseStep DEF Expected
  <2>2. ASSUME NEW num \in OrNone(Nums),
               Parse("refund_ticket", [Cleared EXCEPT !["u"] = u, !["n"] = num])
        PROVE  Expected'
    BY <2>2, ParseStep DEF Expected
  <2> QED BY <1>1, <1>4, <2>1, <2>2 DEF EnterTicketCommand
<1>5. ASSUME EnterOther
      PROVE  Locals' /\ UNCHANGED <<userVars, trains, orders, serving, names>>
  <2>1. ASSUME NEW command \in {"exit", Blank}, Parse(command, Cleared)
        PROVE  Expected'
    BY <2>1, ParseStep, LoopAssumption DEF Expected, Commands
  <2> QED BY <1>1, <1>5, <2>1 DEF EnterOther
<1> QED BY <1>2, <1>3, <1>4, <1>5 DEF EnterSomething

LEMMA NothingChanges ==
  ASSUME LoopInv, UNCHANGED <<trains, orders, names>>
  PROVE  Stores' /\ NamesLeadToTheLeg'
<1>1. Stores'
  BY DEF LoopInv, Stores
<1>2. NamesLeadToTheLeg'
  BY LeadsNow, LeadsNext DEF LoopInv
<1> QED BY <1>1, <1>2

-----------------------------------------------------------------------------
(* The handlers. *)

\* A command to the user system is one of its steps.
LEMMA UserCommandIsStep ==
  ASSUME Expected, HandleUserCommand
  PROVE  Next
<1> USE DEF Expected, OrNone
<1>1. CASE op = "add_user" /\ \E garbage \in Leftovers :
             AddFirstUser(para["u"], garbage) \/ AddUser(para["c"], para["u"], para["g"], garbage)
  BY <1>1, LoopAssumption DEF Next
<1>2. CASE op = "login" /\ Login(para["u"])
  BY <1>2 DEF Next
<1>3. CASE op = "logout" /\ Logout(para["u"])
  BY <1>3 DEF Next
<1>4. CASE op = "modify_profile" /\ para["g"] # Blank /\ ModifyProfile(para["c"], para["u"], para["g"])
  BY <1>4 DEF Next
<1> QED BY <1>1, <1>2, <1>3, <1>4 DEF HandleUserCommand

LEMMA RunningKept ==
  ASSUME Running, Expected, HandleUserCommand
  PROVE  Running'
BY DEF Running, HandleUserCommand, AddFirstUser, AddUser, Login, Logout, ModifyProfile

\* Two positions of a station are the same one.
LEMMA LegIsOne ==
  ASSUME NEW service \in Services, NEW from, NEW to, NEW leg \in LegBetween(service.stations, from, to)
  PROVE  LegBetween(service.stations, from, to) = {leg}
<1>1. \A i, j \in DOMAIN service.stations :
        service.stations[i] = service.stations[j] => i = j
  BY LoopAssumption
<1> QED BY <1>1 DEF LegBetween

\* The catalogue: what is released stays, under its name and with its stations.
LEMMA TrainCommandKeeps ==
  ASSUME LoopInv, Expected, HandleTrainCommand
  PROVE  /\ Catalog!Next
         /\ Stores' /\ NamesLeadToTheLeg'
<1>1. PICK D \in SUBSET TrainIds : trains \in [D -> [service : Services, released : BOOLEAN]]
  BY DEF LoopInv, Stores
<1>2. UNCHANGED <<orders, names>>
  BY DEF HandleTrainCommand
<1>3. ASSUME NEW E \in SUBSET TrainIds,
             trains' \in [E -> [service : Services, released : BOOLEAN]],
             \A id \in D : trains[id].released =>
               id \in E /\ trains'[id].released /\ trains'[id].service = trains[id].service
      PROVE  Stores' /\ NamesLeadToTheLeg'
  <2>1. Stores'
    BY <1>2, <1>3 DEF LoopInv, Stores
  <2>2. DOMAIN trains = D /\ DOMAIN trains' = E
    BY <1>1, <1>3
  <2>3. ASSUME NEW i \in DOMAIN orders, Leads(trains, names[i], orders[i])
        PROVE  Leads(trains', names[i], orders[i])
    <3>1. names[i].train \in D /\ trains[names[i].train].released
      BY <2>2, <2>3 DEF Leads
    <3>2. /\ names[i].train \in E /\ trains'[names[i].train].released
          /\ trains'[names[i].train].service = trains[names[i].train].service
      BY <1>3, <3>1
    <3> QED BY <2>2, <2>3, <3>2 DEF Leads
  <2>4. NamesLeadToTheLeg'
    BY <1>2, <2>3, LeadsNow, LeadsNext DEF LoopInv
  <2> QED BY <2>1, <2>4
<1>4. CASE op = "add_train" /\ Catalog!Add(para["i"], para["s"])
  <2> DEFINE id == para["i"]
  <2>1. id \in TrainIds /\ para["s"] \in Services
    BY <1>4 DEF Expected
  <2>2. Catalog!Next
    BY <1>4, <2>1 DEF Catalog!Next
  <2>3. id \notin D /\ trains' = [i \in D \cup {id} |->
           IF i = id THEN [service |-> para["s"], released |-> FALSE] ELSE trains[i]]
    BY <1>1, <1>4 DEF Catalog!Add, Catalog!Entered
  <2>4. trains' \in [D \cup {id} -> [service : Services, released : BOOLEAN]]
    BY <1>1, <2>1, <2>3
  <2> QED BY <1>1, <1>3, <2>1, <2>2, <2>3, <2>4
<1>5. CASE DeleteTrain
  <2> DEFINE id == para["i"]
  <2>1. id \in TrainIds /\ Catalog!Withdraw(id)
    BY <1>5 DEF Expected, DeleteTrain
  <2>2. Catalog!Next
    BY <2>1 DEF Catalog!Next
  <2>3. ~trains[id].released /\ trains' = [i \in D \ {id} |-> trains[i]]
    BY <1>1, <2>1 DEF Catalog!Withdraw
  <2>4. trains' \in [D \ {id} -> [service : Services, released : BOOLEAN]]
    BY <1>1, <2>3
  <2> QED BY <1>1, <1>3, <2>2, <2>3, <2>4
<1>6. CASE op = "release_train" /\ Catalog!Release(para["i"])
  <2> DEFINE id == para["i"]
  <2>1. id \in TrainIds
    BY <1>6 DEF Expected
  <2>2. Catalog!Next
    BY <1>6, <2>1 DEF Catalog!Next
  <2>3. id \in D /\ trains' = [trains EXCEPT ![id].released = TRUE]
    BY <1>1, <1>6 DEF Catalog!Release, Catalog!Entered
  <2>4. trains' \in [D -> [service : Services, released : BOOLEAN]]
    BY <1>1, <2>3
  <2>5. \A i \in D : trains[i].released => trains'[i].released /\ trains'[i].service = trains[i].service
    BY <1>1, <2>3
  <2> QED BY <1>1, <1>3, <2>2, <2>4, <2>5
<1> QED BY <1>4, <1>5, <1>6 DEF HandleTrainCommand

\* The office counts as everybody does.
LEMMA OfficeCounts == \A S : Office!Cardinality(S) = Cardinality(S)
BY DEF Office!Cardinality, Cardinality

\* A new order gets the next number.
LEMMA BookGrows ==
  ASSUME NEW n \in Nat, orders \in [0 .. n - 1 -> Entry], NEW order \in Entry,
         orders' = Office!Entered(orders, order)
  PROVE  /\ orders' \in [0 .. n -> Entry]
         /\ orders'[n] = order /\ \A i \in 0 .. n - 1 : orders'[i] = orders[i]
<1>1. Cardinality(0 .. n - 1) = n
  BY FS_Interval
<1>2. DOMAIN orders = 0 .. n - 1 /\ (0 .. n - 1) \cup {n} = 0 .. n /\ n \notin 0 .. n - 1
  OBVIOUS
<1>3. orders' = [i \in 0 .. n |-> IF i = n THEN order ELSE orders[i]]
  <2>1. Office!Cardinality(DOMAIN orders) = n /\ DOMAIN orders \cup {n} = 0 .. n
    BY <1>1, <1>2, OfficeCounts
  <2> QED BY <2>1 DEF Office!Entered
<1>4. \A i \in 0 .. n : (IF i = n THEN order ELSE orders[i]) \in Entry
  <2>1. ASSUME NEW i \in 0 .. n, i # n
        PROVE  orders[i] \in Entry
    BY <1>2, <2>1
  <2> QED BY <2>1
<1> QED BY <1>2, <1>3, <1>4

LEMMA BuyTicketKeeps ==
  ASSUME LoopInv, Expected, BuyTicket
  PROVE  Stores' /\ NamesLeadToTheLeg'
<1>1. PICK n \in Nat : orders \in [0 .. n - 1 -> Entry]
  BY DEF LoopInv, Stores
<1>2. PICK D \in SUBSET TrainIds : trains \in [D -> [service : Services, released : BOOLEAN]]
  BY DEF LoopInv, Stores
<1>3. PICK leg \in LegBetween(trains[para["i"]].service.stations, para["f"], para["t"]),
           outcome \in {"success", "pending"} :
        Office!Place(orders, orders', [user |-> para["u"], trip |-> para["i"], leg |-> leg,
                                       num |-> para["n"], status |-> outcome])
  BY DEF BuyTicket
<1> DEFINE id    == para["i"]
           order == [user |-> para["u"], trip |-> id, leg |-> leg, num |-> para["n"], status |-> outcome]
<1>4. order \in Entry
  BY <1>3 DEF Entry, Expected, BuyTicket, LegBetween
<1>5. orders' = Office!Entered(orders, order)
  BY <1>3 DEF Office!Place
<1> HIDE DEF order
<1>6. orders' \in [0 .. n -> Entry] /\ orders'[n] = order /\ \A i \in 0 .. n - 1 : orders'[i] = orders[i]
  BY <1>1, <1>4, <1>5, BookGrows
<1>7. UNCHANGED trains /\ id \in D /\ trains[id].released
      /\ names' = [i \in DOMAIN orders' |->
                     IF i \in DOMAIN orders THEN names[i] ELSE [train |-> id, from |-> para["f"], to |-> para["t"]]]
  BY <1>2 DEF BuyTicket
<1>8. Stores'
  <2>1. n + 1 \in Nat /\ 0 .. n = 0 .. (n + 1) - 1
    OBVIOUS
  <2> QED BY <1>2, <1>6, <1>7, <2>1 DEF Stores
<1>9. ASSUME NEW i \in 0 .. n - 1
      PROVE  i \in DOMAIN orders /\ names'[i] = names[i] /\ orders'[i] = orders[i]
  BY <1>1, <1>6, <1>7
<1>10. names'[n] = [train |-> id, from |-> para["f"], to |-> para["t"]]
  BY <1>1, <1>6, <1>7
<1>11. LegBetween(trains[id].service.stations, para["f"], para["t"]) = {order.leg} /\ order.trip = id
  <2>1. trains[id].service \in Services
    BY <1>2, <1>7
  <2> QED BY <1>3, <2>1, LegIsOne DEF order
<1>12. NamesLeadToTheLeg'
  <2>1. Leads(trains', names'[n], orders'[n])
    <3>1. /\ names'[n].train = id /\ names'[n].from = para["f"] /\ names'[n].to = para["t"]
          /\ id \in DOMAIN trains /\ orders'[n] = order
      BY <1>2, <1>6, <1>7, <1>10
    <3> QED BY <1>7, <1>11, <3>1 DEF Leads
  <2>2. ASSUME NEW i \in 0 .. n - 1
        PROVE  Leads(trains', names'[i], orders'[i])
    BY <1>7, <1>9, LeadsNow DEF LoopInv
  <2>3. DOMAIN orders' = (0 .. n - 1) \cup {n}
    BY <1>6
  <2> QED BY <2>1, <2>2, <2>3, LeadsNext
<1> QED BY <1>8, <1>12

\* Refunding and serving change nothing of an order but its status.
LEMMA StatusKeeps ==
  ASSUME LoopInv, NEW i \in DOMAIN orders, NEW status_ \in {"success", "refunded"},
         orders' = Office!WithStatus(orders, i, status_), UNCHANGED <<trains, names>>
  PROVE  Stores' /\ NamesLeadToTheLeg'
<1>1. PICK n \in Nat : orders \in [0 .. n - 1 -> Entry]
  BY DEF LoopInv, Stores
<1>2. orders' = [orders EXCEPT ![i].status = status_]
  BY DEF Office!WithStatus
<1>3. orders' \in [0 .. n - 1 -> Entry]
      /\ \A j \in 0 .. n - 1 : orders'[j].leg = orders[j].leg /\ orders'[j].trip = orders[j].trip
  BY <1>1, <1>2 DEF Entry
<1>4. Stores'
  BY <1>3 DEF LoopInv, Stores
<1>5. ASSUME NEW j \in DOMAIN orders
      PROVE  Leads(trains', names'[j], orders'[j])
  BY <1>1, <1>3, LeadsNow DEF LoopInv, Leads
<1>6. NamesLeadToTheLeg'
  BY <1>1, <1>3, <1>5, LeadsNext
<1> QED BY <1>4, <1>6

\* A refund and the service of those who wait.
LEMMA OfficeKeeps ==
  ASSUME LoopInv, RefundTicket \/ ServeWaiters
  PROVE  Stores' /\ NamesLeadToTheLeg' /\ UNCHANGED <<userVars, trains, names>>
<1>0. UNCHANGED <<userVars, trains, names>>
  BY DEF RefundTicket, ServeWaiters
<1>1. CASE \E i \in DOMAIN orders, s \in {"success", "refunded"} : orders' = Office!WithStatus(orders, i, s)
  <2>1. PICK i \in DOMAIN orders, s \in {"success", "refunded"} : orders' = Office!WithStatus(orders, i, s)
    BY <1>1
  <2> QED BY <1>0, <2>1, StatusKeeps
<1>2. CASE orders' = orders
  BY <1>0, <1>2, NothingChanges
<1>3. RefundTicket => \E i \in DOMAIN orders, s \in {"success", "refunded"} :
                        orders' = Office!WithStatus(orders, i, s)
  BY DEF RefundTicket, Newest, OrdersOf, Office!Refund
<1>4. ServeWaiters => \/ \E i \in DOMAIN orders, s \in {"success", "refunded"} :
                           orders' = Office!WithStatus(orders, i, s)
                      \/ orders' = orders
  BY DEF ServeWaiters, Office!Serve, Office!Reopen
<1> QED BY <1>0, <1>1, <1>2, <1>3, <1>4

-----------------------------------------------------------------------------
(* The loop. *)

LEMMA LoopInitially == LoopInit => LoopInv
<1> SUFFICES ASSUME LoopInit PROVE LoopInv
  OBVIOUS
<1>1. Locals
  BY DEF LoopInit, Locals, Cleared, Letters
<1>2. trains = [id \in {} |-> 0] /\ orders = [i \in {} |-> 0]
  BY DEF LoopInit, Catalog!Init, Office!OfficeInit
<1>3. trains \in [{} -> [service : Services, released : BOOLEAN]] /\ orders \in [0 .. 0 - 1 -> Entry]
  <2>1. 0 .. 0 - 1 = {}
    OBVIOUS
  <2> QED BY <1>2, <2>1
<1>4. Stores
  BY <1>3 DEF Stores
<1>5. NamesLeadToTheLeg
  BY <1>2, LeadsNow
<1> QED BY <1>1, <1>4, <1>5 DEF LoopInv

\* A step of the loop keeps the invariant, and is for the user system and for the
\* catalogue a step of theirs or none.
LEMMA LoopStep ==
  ASSUME LoopInv, [LoopNext]_loopVars
  PROVE  LoopInv' /\ [Next]_userVars /\ [Catalog!Next]_trains
<1>1. CASE EnterSomething
  <2>1. Locals' /\ UNCHANGED <<userVars, trains, orders, serving, names>>
    BY <1>1, EnterKeeps
  <2>2. Stores' /\ NamesLeadToTheLeg'
    BY <2>1, NothingChanges
  <2> QED BY <2>1, <2>2 DEF LoopInv
<1>2. CASE Accept
  <2>1. /\ phase = "executing" /\ Handle /\ UNCHANGED <<op, para, line>>
        /\ Running /\ Expected
    BY <1>2 DEF Accept, LoopInv, Locals
  <2>2. ASSUME Running', phase' \in {"executed", "serving"} PROVE Locals'
    BY <2>2 DEF Locals
  <2>3. CASE HandleUserCommand
    <3>1. phase' = "executed" /\ UNCHANGED <<trains, orders, names>>
      BY <2>3 DEF HandleUserCommand
    <3>2. Running' /\ Next
      BY <2>1, <2>3, RunningKept, UserCommandIsStep
    <3> QED BY <2>2, <3>1, <3>2, NothingChanges DEF LoopInv
  <2>4. CASE HandleTrainCommand
    <3>1. phase' = "executed" /\ UNCHANGED userVars
      BY <2>4 DEF HandleTrainCommand
    <3>2. Running'
      BY <2>1, <3>1 DEF Running, userVars
    <3> QED BY <2>1, <2>2, <2>4, <3>1, <3>2, TrainCommandKeeps DEF LoopInv
  <2>5. CASE BuyTicket
    <3>1. phase' = "executed" /\ UNCHANGED <<userVars, trains>>
      BY <2>5 DEF BuyTicket
    <3>2. Running'
      BY <2>1, <3>1 DEF Running, userVars
    <3> QED BY <2>1, <2>2, <2>5, <3>1, <3>2, BuyTicketKeeps DEF LoopInv
  <2>6. CASE RefundTicket
    <3>1. phase' \in {"executed", "serving"} /\ UNCHANGED <<userVars, trains>>
      BY <2>6 DEF RefundTicket
    <3>2. Running'
      BY <2>1, <3>1 DEF Running, userVars
    <3> QED BY <2>2, <2>6, <3>1, <3>2, OfficeKeeps DEF LoopInv
  <2> QED BY <2>1, <2>3, <2>4, <2>5, <2>6 DEF Handle
<1>3. CASE Refuse
  <2>1. phase' = "executed" /\ UNCHANGED <<userVars, trains, orders, names>> /\ Running
    BY <1>3 DEF Refuse, LoopInv, Locals
  <2>2. Locals'
    BY <2>1 DEF Locals, Running, userVars
  <2> QED BY <2>1, <2>2, NothingChanges DEF LoopInv
<1>4. CASE ServeWaiters
  <2>1. phase' \in {"executed", "serving"} /\ Running /\ UNCHANGED <<userVars, trains>>
    BY <1>4, OfficeKeeps DEF ServeWaiters, LoopInv, Locals
  <2>2. Locals'
    BY <2>1 DEF Locals, Running, userVars
  <2> QED BY <1>4, <2>1, <2>2, OfficeKeeps DEF LoopInv
<1>5. CASE NextCommand
  <2>1. Locals' /\ UNCHANGED <<userVars, trains, orders, names>>
    BY <1>5 DEF NextCommand, Locals, Cleared, Letters
  <2> QED BY <2>1, NothingChanges DEF LoopInv
<1>6. CASE Leave
  <2>1. Locals' /\ UNCHANGED <<trains, orders, names>> /\ Next
    BY <1>6 DEF Leave, Locals, Cleared, Letters, Next
  <2> QED BY <2>1, NothingChanges DEF LoopInv
<1>7. CASE Initialize
  <2>1. /\ Next /\ UNCHANGED <<trains, orders, names, op, para, phase, line>>
        /\ phase = "reading"
    BY <1>7 DEF Initialize, Next, Start, LoopInv, Locals, Running
  <2>2. Locals'
    BY <2>1 DEF Locals, LoopInv
  <2> QED BY <2>1, <2>2, NothingChanges DEF LoopInv
<1>8. CASE UNCHANGED loopVars
  <2>1. UNCHANGED <<userVars, trains, orders, names, op, para, phase, line>>
    BY <1>8 DEF loopVars
  <2>2. Locals'
    BY <2>1 DEF Locals, LoopInv, Running, userVars, Expected
  <2> QED BY <2>1, <2>2, NothingChanges DEF LoopInv
<1> QED BY <1>1, <1>2, <1>3, <1>4, <1>5, <1>6, <1>7, <1>8 DEF LoopNext, EnterSomething

\* Every run of the loop keeps the invariant.
THEOREM LoopInvariance == LoopSpec => []LoopInv
<1>1. LoopInv /\ [LoopNext]_loopVars => LoopInv'
  BY LoopStep
<1> QED BY <1>1, LoopInitially, PTL DEF LoopSpec

\* A refund goes by the names of the order and finds the train and the positions
\* at which the tickets were taken, whatever became of the catalogue in between.
THEOREM NamesFollowed == LoopSpec => []NamesLeadToTheLeg
<1>1. LoopInv => NamesLeadToTheLeg
  BY DEF LoopInv
<1> QED BY <1>1, LoopInvariance, PTL

\* A step of the loop is for the office a step of its own or none.
LEMMA OfficeStep ==
  ASSUME LoopInv, [LoopNext]_loopVars
  PROVE  [Office!OfficeNext]_<<orders, serving>>
<1>1. ASSUME NEW order \in Entry, Office!Place(orders, orders', order)
      PROVE  Office!OfficeNext
  <2>1. order \in Office!Order
    BY DEF Entry, Office!Order
  <2> QED BY <1>1, <2>1 DEF Office!OfficeNext
<1>2. ASSUME NEW i \in DOMAIN orders,
             Office!Refund(orders, orders', i) \/ Office!Serve(orders, orders', i)
      PROVE  Office!OfficeNext
  BY <1>2 DEF Office!OfficeNext
<1>3. Office!Reopen(orders, orders') => Office!OfficeNext
  BY DEF Office!OfficeNext
<1>4. CASE Accept
  <2>1. Handle /\ Expected
    BY <1>4 DEF Accept, LoopInv, Locals
  <2>2. CASE BuyTicket
    <3>1. PICK leg \in LegBetween(trains[para["i"]].service.stations, para["f"], para["t"]),
               outcome \in {"success", "pending"} :
            Office!Place(orders, orders', [user |-> para["u"], trip |-> para["i"], leg |-> leg,
                                           num |-> para["n"], status |-> outcome])
      BY <2>2 DEF BuyTicket
    <3> DEFINE order == [user |-> para["u"], trip |-> para["i"], leg |-> leg, num |-> para["n"],
                         status |-> outcome]
    <3>2. order \in Entry
      BY <2>1, <2>2, <3>1 DEF Entry, Expected, BuyTicket, LegBetween
    <3>3. Office!Place(orders, orders', order)
      BY <3>1
    <3> HIDE DEF order
    <3> QED BY <1>1, <3>2, <3>3
  <2>3. CASE RefundTicket
    BY <1>2, <2>3 DEF RefundTicket, Newest, OrdersOf
  <2>4. CASE HandleUserCommand \/ HandleTrainCommand
    BY <2>4 DEF HandleUserCommand, HandleTrainCommand
  <2> QED BY <2>1, <2>2, <2>3, <2>4 DEF Handle
<1>5. CASE ServeWaiters
  BY <1>2, <1>3, <1>5 DEF ServeWaiters
<1>6. CASE EnterSomething
  BY <1>6, EnterKeeps
<1>7. CASE Refuse \/ NextCommand \/ Leave \/ Initialize \/ UNCHANGED loopVars
  BY <1>7 DEF Refuse, NextCommand, Leave, Initialize, loopVars
<1> QED BY <1>4, <1>5, <1>6, <1>7 DEF LoopNext, EnterSomething

\* Whatever is typed, the systems are used as they expect to be, the office as its
\* rule asks: what is proved of each of them alone holds in the program.
THEOREM SystemsRespected == LoopSpec => Spec /\ Catalog!Spec /\ Office!OfficeSpec
<1>1. LoopInit => Init /\ Catalog!Init /\ Office!OfficeInit
  BY DEF LoopInit
<1>2. LoopInv /\ [LoopNext]_loopVars => [Next]_userVars /\ [Catalog!Next]_trains
  BY LoopStep
<1>3. LoopInv /\ [LoopNext]_loopVars => [Office!OfficeNext]_<<orders, serving>>
  BY OfficeStep
<1> QED BY <1>1, <1>2, <1>3, LoopInvariance, PTL
           DEF LoopSpec, Spec, Catalog!Spec, Office!OfficeSpec, Office!officeVars

-----------------------------------------------------------------------------
(* What a step does to an order, and for whom. *)

Executing == phase = "executing" /\ Running /\ op = line.op /\ \A l \in Letters : para[l] = line.given[l]

Bought(i) ==
  /\ Executing /\ op = "buy_ticket" /\ LoginStatus(para["u"])
  /\ orders'[i].user = para["u"] /\ orders'[i].num = para["n"]
  /\ orders'[i].status = "pending" => para["q"] # Blank
  /\ names'[i] = [train |-> para["i"], from |-> para["f"], to |-> para["t"]]

Refunded(i) ==
  /\ Executing /\ op = "refund_ticket" /\ LoginStatus(para["u"])
  /\ orders'[i].user = para["u"]
  /\ i \in Newest(para["u"], IF para["n"] = Blank THEN 1 ELSE para["n"])

\* An order is new, or newly refunded, only by these two.
Accounted(i) ==
  /\ i \in DOMAIN orders' \ DOMAIN orders => Bought(i)
  /\ i \in DOMAIN orders /\ orders'[i].status = "refunded" /\ orders[i].status # "refunded" => Refunded(i)

LEMMA BuyTicketAccounted ==
  ASSUME LoopInv, Executing, Expected, BuyTicket, NEW i
  PROVE  Accounted(i)
<1>1. PICK n \in Nat : orders \in [0 .. n - 1 -> Entry]
  BY DEF LoopInv, Stores
<1>2. PICK leg \in LegBetween(trains[para["i"]].service.stations, para["f"], para["t"]),
           outcome \in {"success", "pending"} :
        /\ outcome = "pending" => para["q"] # Blank
        /\ Office!Place(orders, orders', [user |-> para["u"], trip |-> para["i"], leg |-> leg,
                                          num |-> para["n"], status |-> outcome])
  BY DEF BuyTicket
<1> DEFINE order == [user |-> para["u"], trip |-> para["i"], leg |-> leg, num |-> para["n"], status |-> outcome]
<1>3. order \in Entry
  BY <1>2 DEF Entry, Expected, BuyTicket, LegBetween
<1>4. orders' = Office!Entered(orders, order)
  BY <1>2 DEF Office!Place
<1>5. /\ order.user = para["u"] /\ order.num = para["n"]
      /\ order.status = "pending" => para["q"] # Blank
  BY <1>2
<1> HIDE DEF order
<1>6. orders' \in [0 .. n -> Entry] /\ orders'[n] = order /\ \A j \in 0 .. n - 1 : orders'[j] = orders[j]
  BY <1>1, <1>3, <1>4, BookGrows
<1>7. i \in DOMAIN orders' \ DOMAIN orders => i = n
  BY <1>1, <1>6
<1>8. i \in DOMAIN orders => orders'[i] = orders[i]
  BY <1>1, <1>6
<1>9. i \in DOMAIN orders' \ DOMAIN orders =>
        names'[i] = [train |-> para["i"], from |-> para["f"], to |-> para["t"]]
  BY DEF BuyTicket
<1> QED BY <1>5, <1>6, <1>7, <1>8, <1>9 DEF Accounted, Bought, BuyTicket

LEMMA RefundTicketAccounted ==
  ASSUME LoopInv, Executing, RefundTicket, NEW i
  PROVE  Accounted(i)
<1>1. PICK n \in Nat : orders \in [0 .. n - 1 -> Entry]
  BY DEF LoopInv, Stores
<1>2. PICK j \in Newest(para["u"], IF para["n"] = Blank THEN 1 ELSE para["n"]) :
        orders' = Office!WithStatus(orders, j, "refunded")
  BY DEF RefundTicket, Office!Refund
<1>3. j \in DOMAIN orders /\ orders[j].user = para["u"]
  BY DEF Newest, OrdersOf
<1>4. orders' = [orders EXCEPT ![j].status = "refunded"]
  BY <1>2 DEF Office!WithStatus
<1>5. DOMAIN orders' = DOMAIN orders /\ (i \in DOMAIN orders /\ i # j => orders'[i] = orders[i])
  BY <1>4
<1>6. orders'[j].user = para["u"]
  BY <1>1, <1>3, <1>4 DEF Entry
<1> QED BY <1>2, <1>5, <1>6 DEF Accounted, Refunded, RefundTicket

LEMMA ServeAccounted ==
  ASSUME LoopInv, ServeWaiters, NEW i
  PROVE  Accounted(i)
<1>1. PICK n \in Nat : orders \in [0 .. n - 1 -> Entry]
  BY DEF LoopInv, Stores
<1>2. CASE \E j \in DOMAIN orders : orders' = Office!WithStatus(orders, j, "success")
  <2>1. PICK j \in DOMAIN orders : orders' = [orders EXCEPT ![j].status = "success"]
    BY <1>2 DEF Office!WithStatus
  <2>2. DOMAIN orders' = DOMAIN orders /\ (i \in DOMAIN orders /\ i # j => orders'[i] = orders[i])
    BY <2>1
  <2>3. orders'[j].status = "success"
    BY <1>1, <2>1 DEF Entry
  <2> QED BY <2>2, <2>3 DEF Accounted
<1>3. CASE orders' = orders
  BY <1>3 DEF Accounted
<1> QED BY <1>2, <1>3 DEF ServeWaiters, Office!Serve, Office!Reopen

LEMMA OrdersAccounted ==
  ASSUME LoopInv, [LoopNext]_loopVars, NEW i
  PROVE  Accounted(i)
<1>1. CASE orders' = orders
  BY <1>1 DEF Accounted
<1>2. CASE Accept
  <2>1. Handle /\ Executing /\ Expected
    BY <1>2 DEF Accept, LoopInv, Locals, Executing
  <2>2. CASE HandleUserCommand \/ HandleTrainCommand
    BY <1>1, <2>2 DEF HandleUserCommand, HandleTrainCommand
  <2> QED BY <2>1, <2>2, BuyTicketAccounted, RefundTicketAccounted DEF Handle
<1>3. CASE EnterSomething
  BY <1>1, <1>3, EnterKeeps
<1>4. CASE Refuse \/ NextCommand \/ Leave \/ Initialize \/ UNCHANGED loopVars
  BY <1>1, <1>4 DEF Refuse, NextCommand, Leave, Initialize, loopVars
<1> QED BY <1>2, <1>3, <1>4, ServeAccounted DEF LoopNext, EnterSomething

\* Whoever the user system takes to be logged in is.
LEMMA RecognitionIsSound ==
  ASSUME IInv, Running, NEW u, LoginStatus(u)
  PROVE  u \in session \cup untouched
<1>1. login_timestamp # 0
  BY DEF IInv, TypeOK, Running
<1>2. u \in Known
  BY <1>1 DEF LoginStatus
<1> QED BY <1>2, IInvGives DEF RecognisedJustly

\* Orders are placed and refunded for those alone who have logged in since the
\* start, or whom AddUser has left with a stamp of chance, in every session and
\* with the letters of every command line.
THEOREM RecognisedUsersAct == LoopSpec => OnlyTheRecognisedAct
<1>1. ASSUME LoopInv, IInv, [LoopNext]_loopVars
      PROVE  [\A i \in DOMAIN orders' :
                \/ i \notin DOMAIN orders
                \/ orders'[i].status = "refunded" /\ orders[i].status # "refunded"
                => orders'[i].user \in session \cup untouched]_loopVars
  <2>1. ASSUME NEW i \in DOMAIN orders',
               i \notin DOMAIN orders \/ (orders'[i].status = "refunded" /\ orders[i].status # "refunded")
        PROVE  Running /\ LoginStatus(para["u"]) /\ orders'[i].user = para["u"]
    BY <1>1, <2>1, OrdersAccounted DEF Accounted, Bought, Refunded, Executing
  <2>2. ASSUME NEW i \in DOMAIN orders',
               i \notin DOMAIN orders \/ (orders'[i].status = "refunded" /\ orders[i].status # "refunded")
        PROVE  orders'[i].user \in session \cup untouched
    <3>1. para["u"] \in session \cup untouched
      BY <1>1, <2>1, <2>2, RecognitionIsSound
    <3> QED BY <2>1, <2>2, <3>1
  <2>3. \A i \in DOMAIN orders' :
          i \notin DOMAIN orders \/ (orders'[i].status = "refunded" /\ orders[i].status # "refunded")
          => orders'[i].user \in session \cup untouched
    BY <2>2
  <2> QED BY Zenon, <2>3
<1> QED BY <1>1, LoopInvariance, SystemsRespected, Invariance, PTL DEF LoopSpec, OnlyTheRecognisedAct

\* A privilege changes by modify_profile alone.
LEMMA PrivilegesAccounted ==
  ASSUME LoopInv, IInv, [LoopNext]_loopVars, NEW u \in Known, privilege'[u] # privilege[u]
  PROVE  Executing /\ op = "modify_profile" /\ para["g"] # Blank /\ u = para["u"]
<1>1. privilege' # privilege
  OBVIOUS
<1>2. CASE Accept
  <2>1. Handle /\ Executing
    BY <1>2 DEF Accept, LoopInv, Locals, Executing
  <2>2. HandleUserCommand
    BY <1>1, <2>1 DEF Handle, HandleTrainCommand, BuyTicket, RefundTicket, userVars
  <2>3. ASSUME NEW garbage,
               AddFirstUser(para["u"], garbage) \/ AddUser(para["c"], para["u"], para["g"], garbage)
        PROVE  FALSE
    BY <2>3 DEF AddFirstUser, AddUser, Known
  <2>4. ~Login(para["u"]) /\ ~Logout(para["u"])
    BY <1>1 DEF Login, Logout
  <2>5. op = "modify_profile" /\ para["g"] # Blank /\ ModifyProfile(para["c"], para["u"], para["g"])
    BY <2>2, <2>3, <2>4 DEF HandleUserCommand
  <2>6. u = para["u"]
    BY <2>5 DEF ModifyProfile, IInv, TypeOK
  <2> QED BY <2>1, <2>5, <2>6
<1>3. CASE EnterSomething
  BY <1>1, <1>3, EnterKeeps DEF userVars
<1>4. CASE Refuse \/ ServeWaiters \/ NextCommand \/ Leave \/ Initialize \/ UNCHANGED loopVars
  BY <1>1, <1>4 DEF Refuse, ServeWaiters, NextCommand, Leave, Exit, Initialize, Start, loopVars, userVars
<1> QED BY <1>2, <1>3, <1>4 DEF LoopNext, EnterSomething

\* No command is served with a letter of an earlier one: orders, refunds and
\* changes of privilege follow the line alone.
THEOREM LinesAreFollowed == LoopSpec => OnlyWhatTheLineAsks
<1> DEFINE Obeys ==
      LET given == line.given IN
      /\ \A i \in DOMAIN orders' \ DOMAIN orders :
           /\ line.op = "buy_ticket"
           /\ orders'[i].user = given["u"] /\ orders'[i].num = given["n"]
           /\ names'[i] = [train |-> given["i"], from |-> given["f"], to |-> given["t"]]
           /\ orders'[i].status = "pending" => given["q"] # Blank
      /\ \A i \in DOMAIN orders :
           orders'[i].status = "refunded" /\ orders[i].status # "refunded" =>
             /\ line.op = "refund_ticket"
             /\ i \in Newest(given["u"], IF given["n"] = Blank THEN 1 ELSE given["n"])
      /\ \A u \in Known :
           privilege'[u] # privilege[u] =>
             line.op = "modify_profile" /\ given["g"] # Blank /\ u = given["u"]
<1>1. ASSUME LoopInv, IInv, [LoopNext]_loopVars
      PROVE  Obeys
  <2>1. ASSUME Executing
        PROVE  /\ para["u"] = line.given["u"] /\ para["i"] = line.given["i"] /\ para["n"] = line.given["n"]
               /\ para["f"] = line.given["f"] /\ para["t"] = line.given["t"] /\ para["q"] = line.given["q"]
               /\ para["g"] = line.given["g"] /\ op = line.op
    BY <2>1 DEF Executing, Letters
  <2>2. ASSUME NEW i \in DOMAIN orders' \ DOMAIN orders
        PROVE  /\ line.op = "buy_ticket"
               /\ orders'[i].user = line.given["u"] /\ orders'[i].num = line.given["n"]
               /\ names'[i] = [train |-> line.given["i"], from |-> line.given["f"], to |-> line.given["t"]]
               /\ orders'[i].status = "pending" => line.given["q"] # Blank
    <3>1. Bought(i)
      BY <1>1, <2>2, OrdersAccounted DEF Accounted
    <3> QED BY <2>1, <3>1 DEF Bought
  <2>3. ASSUME NEW i \in DOMAIN orders, orders'[i].status = "refunded" /\ orders[i].status # "refunded"
        PROVE  /\ line.op = "refund_ticket"
               /\ i \in Newest(line.given["u"], IF line.given["n"] = Blank THEN 1 ELSE line.given["n"])
    <3>1. Refunded(i)
      BY <1>1, <2>3, OrdersAccounted DEF Accounted
    <3> QED BY <2>1, <3>1 DEF Refunded
  <2>4. ASSUME NEW u \in Known, privilege'[u] # privilege[u]
        PROVE  line.op = "modify_profile" /\ line.given["g"] # Blank /\ u = line.given["u"]
    BY <1>1, <2>1, <2>4, PrivilegesAccounted
  <2> QED BY <2>2, <2>3, <2>4
<1> HIDE DEF Obeys
<1>2. LoopInv /\ IInv /\ [LoopNext]_loopVars => [Obeys]_loopVars
  BY <1>1
<1>3. LoopSpec => [][Obeys]_loopVars
  BY <1>2, LoopInvariance, SystemsRespected, Invariance, PTL DEF LoopSpec
<1> QED BY <1>3 DEF Obeys, OnlyWhatTheLineAsks
=============================================================================
