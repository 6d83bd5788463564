----------------------------- MODULE UserSystem -----------------------------
(***************************************************************************)
(* UserSystem (user/user_system.cpp): who is logged in and who may do what *)
(* to whom, through restarts.                                              *)
(*                                                                         *)
(* A user counts as logged in while the login_info_ of the profile equals  *)
(* the number of the running session, login_timestamp_.  The first is an   *)
(* int8_t, the second an int32_t.  AddUser leaves login_info_              *)
(* uninitialized, so it may start with any value.                          *)
(*                                                                         *)
(* Passwords, names and mail addresses are left out: Login is the command  *)
(* with the right password, ModifyProfile the one that sets a privilege.   *)
(* A command that fails, and QueryProfile, change nothing.                 *)
(***************************************************************************)
EXTENDS Integers

CONSTANTS Users,
          Levels,             \* the privileges commands ask for
          Int8Max,            \* 127 in the program
          MaxSession          \* cap on login_timestamp_, for TLC

ASSUME UserAssumption ==
  /\ Int8Max \in Nat /\ Int8Max >= 1
  /\ MaxSession \in Nat
  /\ Levels \subseteq 0 .. 10

InvalidPageId == -1           \* in a header page without a session number

Int8 == -Int8Max - 1 .. Int8Max

\* static_cast<int8_t>(n).
CastInt8(n) == ((n + Int8Max + 1) % (2 * Int8Max + 2)) - Int8Max - 1

VARIABLES login_info,         \* user -> login_info_, for the users added so far
          privilege,          \* user -> privilege_
          login_timestamp,    \* login_timestamp_
          header,             \* dynamic_page_id_ of the header page
          status,
          session,            \* history: who has logged in, and not out, since the start
          untouched           \* history: who has never logged in or out

userVars == <<login_info, privilege, login_timestamp, header, status, session, untouched>>

Known == DOMAIN login_info

TypeOK ==
  /\ Known \subseteq Users
  /\ login_info \in [Known -> Int8]
  /\ privilege \in [Known -> Levels \cup {10}]
  /\ login_timestamp \in Nat
  /\ header \in Nat \cup {InvalidPageId}
  /\ status \in {"running", "stopped"}
  /\ status = "running" => login_timestamp >= 1
  /\ session \subseteq Known
  /\ untouched \subseteq Known

-----------------------------------------------------------------------------
\* Mutant: both sides are compared as bytes.
LoginStatusInBytes(u) ==
  (IF u \in Known THEN login_info[u] ELSE 0) = CastInt8(login_timestamp)

\* LoginStatus; for a user nobody has added it looks at an empty profile.
LoginStatus(u) == (IF u \in Known THEN login_info[u] ELSE 0) = login_timestamp

Running == status = "running"

\* The first user of all needs nobody's leave and gets the highest privilege.
AddFirstUser(u, garbage) ==
  /\ Running
  /\ Known = {}
  /\ login_info' = [v \in {u} |-> garbage]
  /\ privilege' = [v \in {u} |-> 10]
  /\ untouched' = {u}
  /\ UNCHANGED <<login_timestamp, header, status, session>>

\* Mutant: a user may create an equal.
AddUserAsEqual(c, u, g, garbage) ==
  /\ Running
  /\ c \in Known /\ LoginStatus(c)
  /\ privilege[c] >= g
  /\ u \notin Known
  /\ login_info' = [v \in Known \cup {u} |-> IF v = u THEN garbage ELSE login_info[v]]
  /\ privilege' = [v \in Known \cup {u} |-> IF v = u THEN g ELSE privilege[v]]
  /\ untouched' = untouched \cup {u}
  /\ UNCHANGED <<login_timestamp, header, status, session>>

AddUser(c, u, g, garbage) ==
  /\ Running
  /\ c \in Known /\ LoginStatus(c)
  /\ privilege[c] > g
  /\ u \notin Known
  /\ login_info' = [v \in Known \cup {u} |-> IF v = u THEN garbage ELSE login_info[v]]
  /\ privilege' = [v \in Known \cup {u} |-> IF v = u THEN g ELSE privilege[v]]
  /\ untouched' = untouched \cup {u}
  /\ UNCHANGED <<login_timestamp, header, status, session>>

Login(u) ==
  /\ Running
  /\ u \in Known /\ ~LoginStatus(u)
  /\ login_info' = [login_info EXCEPT ![u] = CastInt8(login_timestamp)]
  /\ session' = session \cup {u}
  /\ untouched' = untouched \ {u}
  /\ UNCHANGED <<privilege, login_timestamp, header, status>>

Logout(u) ==
  /\ Running
  /\ u \in Known /\ LoginStatus(u)
  /\ login_info' = [login_info EXCEPT ![u] = 0]
  /\ session' = session \ {u}
  /\ untouched' = untouched \ {u}
  /\ UNCHANGED <<privilege, login_timestamp, header, status>>

\* Mutant: the profile is written back without its stamp.
ModifyProfileUnstamped(c, u, g) ==
  /\ Running
  /\ c \in Known /\ LoginStatus(c)
  /\ u \in Known
  /\ privilege[u] < privilege[c] \/ u = c
  /\ g < privilege[c]
  /\ privilege' = [privilege EXCEPT ![u] = g]
  /\ login_info' = [login_info EXCEPT ![u] = 0]
  /\ UNCHANGED <<login_timestamp, header, status, session, untouched>>

\* A user may lower anyone below, and himself.
ModifyProfile(c, u, g) ==
  /\ Running
  /\ c \in Known /\ LoginStatus(c)
  /\ u \in Known
  /\ privilege[u] < privilege[c] \/ u = c
  /\ g < privilege[c]
  /\ privilege' = [privilege EXCEPT ![u] = g]
  /\ UNCHANGED <<login_info, login_timestamp, header, status, session, untouched>>

\* The destructor saves the session number.
Exit ==
  /\ Running
  /\ header' = login_timestamp
  /\ status' = "stopped"
  /\ session' = {}
  /\ UNCHANGED <<login_info, privilege, login_timestamp, untouched>>

\* Mutant: a file that holds no session number is not told apart.
SavedUnchecked == header

Saved == IF header = InvalidPageId THEN 0 ELSE header

\* Mutant: the number of the last session is used again.
StartOfSameSession ==
  /\ status = "stopped" /\ Saved < MaxSession
  /\ login_timestamp' = IF Saved = 0 THEN 1 ELSE Saved
  /\ status' = "running"
  /\ UNCHANGED <<login_info, privilege, header, session, untouched>>

Start ==
  /\ status = "stopped" /\ Saved < MaxSession
  /\ login_timestamp' = Saved + 1
  /\ status' = "running"
  /\ UNCHANGED <<login_info, privilege, header, session, untouched>>

\* The first start finds no session number in the file.
Init ==
  /\ login_info = [u \in {} |-> 0] /\ privilege = [u \in {} |-> 0]
  /\ login_timestamp = 0
  /\ header = InvalidPageId
  /\ status = "stopped"
  /\ session = {} /\ untouched = {}

Next ==
  \/ \E u \in Users :
       \/ \E garbage \in Int8 :
            \/ AddFirstUser(u, garbage)
            \/ \E c \in Users, g \in Levels : AddUser(c, u, g, garbage)
       \/ Login(u)
       \/ Logout(u)
       \/ \E c \in Users, g \in Levels : ModifyProfile(c, u, g)
  \/ Exit
  \/ Start

Spec == Init /\ [][Next]_userVars

-----------------------------------------------------------------------------
(***************************************************************************)
(* Properties.                                                             *)
(***************************************************************************)
\* Who counts as logged in has logged in since the program was started and not
\* out again, though nothing is cleared at a start: the stamps of all earlier
\* sessions, cut to eight bits, differ from the number of this one.  The exception
\* is a user who has neither logged in nor out since AddUser.
RecognisedJustly ==
  Running => \A u \in Known : LoginStatus(u) => u \in session \cup untouched

\* A login counts until the logout, whatever else is done, as long as the session
\* number fits into login_info_; from then on no login counts.
LoginsCountWhileTheyFit ==
  Running => \A u \in session : LoginStatus(u) <=> login_timestamp <= Int8Max

AtTop == {u \in Known : \A v \in Known : privilege[v] <= privilege[u]}

Top == IF Known = {} THEN {} ELSE {privilege[u] : u \in AtTop}

\* Nobody ever joins those of the highest privilege, nor rises above it: who gets
\* a privilege gets less than someone has at that moment.
NobodyJoinsTheTop ==
  [][Known # {} => \A u \in Known' \ AtTop, t \in Top : privilege'[u] < t]_userVars
=============================================================================
