-------------------------- MODULE IsolatedDatabases --------------------------
(***************************************************************************)
(* What the test strategy promises a test suite: the storage is only ever  *)
(* connected to the database reserved last, a database is reserved at most *)
(* once, and it is only replaced while the storage is disconnected.        *)
(***************************************************************************)
CONSTANTS Databases, None

VARIABLES
  given,      \* databases reserved so far
  current,    \* the database reserved last
  connected   \* the database the storage talks to, or None

vars == <<given, current, connected>>

Init ==
  /\ given = {}
  /\ current = None
  /\ connected = None

(* A fresh database replaces the current one, out of everybody's sight. *)
Reserve ==
  /\ connected = None
  /\ current' \in Databases \ given
  /\ given' = given \cup {current'}
  /\ UNCHANGED connected

Connect ==
  /\ current # None
  /\ connected' = current
  /\ UNCHANGED <<given, current>>

Disconnect ==
  /\ connected' = None
  /\ UNCHANGED <<given, current>>

Next == Reserve \/ Connect \/ Disconnect

Spec == Init /\ [][Next]_vars
=============================================================================
