------------------------- MODULE TemplatePoolProofs -------------------------
(***************************************************************************)
(* Theorems about TemplatePool for every set of callers, every prebuffer   *)
(* count and every number of calls.                                        *)
(***************************************************************************)
EXTENDS TemplatePool, FiniteSetTheorems, TLAPS

(* Where the slaves that the variables name come from. *)
SlaveInv ==
  /\ initialized \cup failed \subseteq Constructed
  /\ initialized \cap failed = {}
  /\ dirty \subseteq initialized
  /\ closed \cup destroyed \subseteq dirty
  /\ currentSlave \in dirty \cup {None}
  /\ \A t \in timers : t[1] \in dirty
  /\ 0 \notin initialized => batch = "unscheduled"

(* What a caller knows at each await. *)
CallerInv ==
  \A p \in Callers :
    /\ pc[p] = "settled" => pick[p] \in initialized \cup {None}
    /\ pc[p] = "granted" => pick[p] \in dirty
    /\ pc[p] \in {"waiting", "settled", "granted"} => op[p] = "switch"
    /\ pc[p] = "importing" => currentSlave # None
    /\ pc[p] \in {"authenticating", "refused"} => target[p] \in Connection

IInv == TypeOK /\ SlaveInv /\ CallerInv

-----------------------------------------------------------------------------
(* What the helpers do to the callers' variables. *)

(* A call that returns leaves its caller idle, with a known outcome. *)
LEMMA ReturnType ==
  ASSUME CallerTypeOK, NEW p \in Callers, NEW result, Return(p, result),
         result \in {"ok", "unrecoverable", "error"}, UNCHANGED op
  PROVE  CallerTypeOK'
BY DEF CallerTypeOK, Return, Location

(* An await only moves its caller. *)
LEMMA AwaitType ==
  ASSUME CallerTypeOK, NEW p \in Callers, NEW location \in Location,
         Await(p, location), UNCHANGED op
  PROVE  CallerTypeOK'
BY DEF CallerTypeOK, Await

(* reinitialize leaves its caller authenticating or refused. *)
LEMMA ReinitializeType ==
  ASSUME CallerTypeOK, NEW p \in Callers, NEW c \in Connection, NEW o,
         Reinitialize(p, c, o)
  PROVE  /\ pc' \in [Callers -> Location]
         /\ target' \in [Callers -> Connection \cup {None}]
BY DEF CallerTypeOK, Reinitialize, Location

(* A function to Nat keeps its type when one of its values is increased. *)
LEMMA CountedUp ==
  ASSUME NEW S, NEW f \in [S -> Nat], NEW s \in S
  PROVE  /\ [f EXCEPT ![s] = @ + 1] \in [S -> Nat]
         /\ DOMAIN [f EXCEPT ![s] = @ + 1] = S
OBVIOUS

(* Reopening makes another connection to the current slave, open until it is
   closed, and its caller authenticates or is refused. *)
LEMMA ReopenType ==
  ASSUME PoolTypeOK, CallerTypeOK, SlaveInv, NEW p \in Callers,
         currentSlave # None, ReopenAndReinitialize(p)
  PROVE  /\ pc' \in [Callers -> Location]
         /\ target' \in [Callers -> Connection \cup {None}]
         /\ gen' \in [initialized -> Nat]
         /\ open' \subseteq Connection
         /\ closed' \subseteq closed
         /\ initialized' = initialized
         /\ target'[p] \in Connection
         /\ pc'[p] \in {"authenticating", "refused"}
         /\ \A q \in Callers \ {p} : pc'[q] = pc[q] /\ target'[q] = target[q]
<1>1. currentSlave \in initialized /\ currentSlave \in Slave
  BY DEF SlaveInv, PoolTypeOK
<1>2. gen[currentSlave] \in Nat
  BY <1>1 DEF PoolTypeOK
<1>3. CASE currentSlave \in closed
  <2> DEFINE c == <<currentSlave, gen[currentSlave] + 1>>
  <2>1. c \in Connection
    BY <1>1, <1>2 DEF Connection
  <2>2. /\ gen' = [gen EXCEPT ![currentSlave] = @ + 1]
        /\ open' = open \cup {c}
        /\ closed' = closed \ {currentSlave}
        /\ Reinitialize(p, c, open \cup {c})
    BY <1>3 DEF ReopenAndReinitialize
  <2>3. gen' \in [initialized -> Nat] /\ initialized' = initialized
    <3>1. gen' = [gen EXCEPT ![currentSlave] = @ + 1]
      BY <2>2
    <3>2. gen \in [initialized -> Nat]
      BY DEF PoolTypeOK
    <3>3. /\ gen' \in [initialized -> Nat]
          /\ DOMAIN gen' = initialized
      BY <1>1, <3>1, <3>2, CountedUp
    <3> QED
      BY <3>3 DEF initialized
  <2> QED
    BY <2>1, <2>2, <2>3, ReinitializeType
       DEF PoolTypeOK, CallerTypeOK, Reinitialize
<1>4. CASE currentSlave \notin closed
  <2> DEFINE c == <<currentSlave, gen[currentSlave]>>
  <2>1. c \in Connection
    BY <1>1, <1>2 DEF Connection
  <2>2. Reinitialize(p, c, open) /\ UNCHANGED <<gen, open, closed>>
    BY <1>4 DEF ReopenAndReinitialize, ConnectionOf
  <2> QED
    BY <2>1, <2>2, ReinitializeType
       DEF PoolTypeOK, CallerTypeOK, Reinitialize, initialized
<1>5. QED
  BY <1>3, <1>4

(* What is authenticated after a reopening is the current slave. *)
LEMMA ReopenTarget ==
  ASSUME PoolTypeOK, CallerTypeOK, NEW p \in Callers, ReopenAndReinitialize(p)
  PROVE  target'[p][1] = currentSlave
BY DEF ReopenAndReinitialize, Reinitialize, ConnectionOf, CallerTypeOK

-----------------------------------------------------------------------------
(* The invariant holds from the start, and no step of anybody breaks it. *)

(* A pool just constructed has no slave but the one being created. *)
LEMMA InitIInv == Init => IInv
<1> SUFFICES ASSUME Init PROVE IInv
  OBVIOUS
<1>1. DOMAIN gen = {} /\ gen \in [DOMAIN gen -> Nat]
  BY DEF Init
<1>2. PoolTypeOK
  <2>1. initialized \subseteq Slave /\ gen \in [initialized -> Nat]
    BY <1>1 DEF initialized
  <2>2. /\ count = 1 /\ deferred = 0 /\ calls = 0
        /\ failed = {} /\ dirty = {} /\ closed = {}
        /\ destroyed = {} /\ open = {} /\ timers = {} /\ awaited = {}
    BY DEF Init
  <2>3. /\ currentSlave = None /\ attached = None
        /\ batch = "unscheduled" /\ exited = FALSE
    BY DEF Init
  <2>4. count \in Nat \ {0} /\ deferred \in Nat /\ calls \in Nat
    BY <2>2
  <2>5. /\ currentSlave \in Slave \cup {None}
        /\ batch \in {"unscheduled", "queued", "done"}
    BY <2>3
  <2>6. attached \in Connection \cup {None} /\ exited \in BOOLEAN
    BY <2>3
  <2>7. /\ failed \subseteq Slave /\ dirty \subseteq Slave
        /\ closed \subseteq Slave /\ destroyed \subseteq Slave
        /\ open \subseteq Connection /\ awaited \subseteq Slave
    BY <2>2
  <2>8. timers \subseteq Slave \X Nat
    BY <2>2
  <2> QED
    BY <2>1, <2>4, <2>5, <2>6, <2>7, <2>8 DEF PoolTypeOK
<1>3. CallerTypeOK
  BY DEF Init, CallerTypeOK, Location
<1>4. HistoryTypeOK
  BY DEF Init, HistoryTypeOK
<1>5. SlaveInv
  BY <1>1 DEF Init, SlaveInv, initialized
<1>6. CallerInv
  BY DEF Init, CallerInv
<1> QED
  BY <1>2, <1>3, <1>4, <1>5, <1>6 DEF IInv, TypeOK

(* One case per action, and under it one step per part of the invariant
   that the action can disturb. *)
LEMMA NextIInv == IInv /\ [Next]_vars => IInv'
<1> SUFFICES ASSUME IInv, [Next]_vars
             PROVE  IInv'
  OBVIOUS
<1> USE DEF IInv, TypeOK
<1>1. ASSUME NEW s \in Constructed, SlaveReady(s)
      PROVE  IInv'
  <2>1. PoolTypeOK'
    BY <1>1
       DEF SlaveReady, Waiters, PoolTypeOK, initialized, Constructed, Slave,
           Connection
  <2>2. CallerTypeOK'
    BY <1>1 DEF SlaveReady, Waiters, CallerTypeOK, Location, Settling
  <2>3. HistoryTypeOK'
    BY <1>1 DEF SlaveReady, HistoryTypeOK
  <2>4. SlaveInv'
    BY <1>1 DEF SlaveReady, SlaveInv, PoolTypeOK, Constructed, initialized
  <2>5. CallerInv'
    BY <1>1
       DEF SlaveReady, Waiters, CallerInv, SlaveInv, CallerTypeOK, initialized,
           Location, Settling
  <2> QED
    BY <2>1, <2>2, <2>3, <2>4, <2>5 DEF IInv, TypeOK
<1>2. ASSUME NEW s \in Constructed, SlaveFailed(s)
      PROVE  IInv'
  <2>1. PoolTypeOK'
    BY <1>2
       DEF SlaveFailed, Waiters, PoolTypeOK, initialized, Constructed, Slave,
           Connection
  <2>2. CallerTypeOK'
    BY <1>2 DEF SlaveFailed, Waiters, CallerTypeOK, Location, Settling
  <2>3. HistoryTypeOK'
    BY <1>2 DEF SlaveFailed, HistoryTypeOK
  <2>4. SlaveInv'
    BY <1>2 DEF SlaveFailed, SlaveInv, PoolTypeOK, Constructed, initialized
  <2>5. CallerInv'
    BY <1>2
       DEF SlaveFailed, Waiters, CallerInv, SlaveInv, CallerTypeOK,
           initialized, Location, Settling
  <2> QED
    BY <2>1, <2>2, <2>3, <2>4, <2>5 DEF IInv, TypeOK
<1>3. ASSUME AddPrebuffer
      PROVE  IInv'
  <2>1. PoolTypeOK'
    BY <1>3, PrebufferAssumption
       DEF AddPrebuffer, Rest, PoolTypeOK, initialized
  <2>2. CallerTypeOK'
    BY <1>3 DEF AddPrebuffer, CallerTypeOK, Location, Settling, callerVars
  <2>3. HistoryTypeOK'
    BY <1>3 DEF AddPrebuffer, HistoryTypeOK
  <2>4. SlaveInv'
    BY <1>3, PrebufferAssumption
       DEF AddPrebuffer, Rest, SlaveInv, PoolTypeOK, Constructed, initialized
  <2>5. CallerInv'
    BY <1>3, PrebufferAssumption
       DEF AddPrebuffer, CallerInv, SlaveInv, CallerTypeOK, initialized,
           Location, Settling, callerVars
  <2> QED
    BY <2>1, <2>2, <2>3, <2>4, <2>5 DEF IInv, TypeOK
<1>4. ASSUME AddSlave
      PROVE  IInv'
  <2>1. PoolTypeOK'
    BY <1>4 DEF AddSlave, PoolTypeOK, initialized
  <2>2. CallerTypeOK'
    BY <1>4 DEF AddSlave, CallerTypeOK, Location, Settling, callerVars
  <2>3. HistoryTypeOK'
    BY <1>4 DEF AddSlave, HistoryTypeOK
  <2>4. SlaveInv'
    BY <1>4 DEF AddSlave, SlaveInv, PoolTypeOK, Constructed, initialized
  <2>5. CallerInv'
    BY <1>4
       DEF AddSlave, CallerInv, SlaveInv, CallerTypeOK, initialized, Location,
           Settling, callerVars
  <2> QED
    BY <2>1, <2>2, <2>3, <2>4, <2>5 DEF IInv, TypeOK
<1>5. ASSUME NEW t \in timers, DestroyTimer(t)
      PROVE  IInv'
  <2>1. PoolTypeOK'
    BY <1>5 DEF DestroyTimer, PoolTypeOK, initialized
  <2>2. CallerTypeOK'
    BY <1>5 DEF DestroyTimer, CallerTypeOK, Location, Settling, callerVars
  <2>3. HistoryTypeOK'
    BY <1>5 DEF DestroyTimer, HistoryTypeOK
  <2>4. SlaveInv'
    BY <1>5 DEF DestroyTimer, SlaveInv, PoolTypeOK, Constructed, initialized
  <2>5. CallerInv'
    BY <1>5
       DEF DestroyTimer, CallerInv, SlaveInv, CallerTypeOK, initialized,
           Location, Settling, callerVars
  <2> QED
    BY <2>1, <2>2, <2>3, <2>4, <2>5 DEF IInv, TypeOK
<1>6. ASSUME NEW p \in Callers, SwitchToNewSlaveDB(p)
      PROVE  IInv'
  <2>1. PoolTypeOK'
    BY <1>6
       DEF SwitchToNewSlaveDB, PoolTypeOK, initialized, Begin,
           DisconnectAndClose, ConnectionOf, Candidates, Constructed, Slave
  <2>2. CallerTypeOK'
    <3>1. Candidates \subseteq Slave
      BY DEF PoolTypeOK, Candidates, Constructed, Slave
    <3>2. cands' = [cands EXCEPT ![p] = Candidates]
      BY <1>6 DEF SwitchToNewSlaveDB
    <3>3. \/ pick' = pick
          \/ \E s \in Candidates \cup {None} : pick' = [pick EXCEPT ![p] = s]
      BY <1>6 DEF SwitchToNewSlaveDB
    <3>4. \E l \in {"settled", "waiting"} : pc' = [pc EXCEPT ![p] = l]
      BY <1>6 DEF SwitchToNewSlaveDB
    <3>5. op' = [op EXCEPT ![p] = "switch"] /\ UNCHANGED <<target, outcome>>
      BY <1>6 DEF SwitchToNewSlaveDB, Begin
    <3> QED
      BY <3>1, <3>2, <3>3, <3>4, <3>5 DEF CallerTypeOK, Location, Settling
  <2>3. HistoryTypeOK'
    BY <1>6 DEF SwitchToNewSlaveDB, HistoryTypeOK
  <2>4. SlaveInv'
    BY <1>6
       DEF SwitchToNewSlaveDB, SlaveInv, PoolTypeOK, Constructed, initialized,
           DisconnectAndClose
  <2>5. CallerInv'
    BY <1>6
       DEF SwitchToNewSlaveDB, CallerInv, SlaveInv, CallerTypeOK, initialized,
           Location, Settling, Begin, ConnectionOf
  <2> QED
    BY <2>1, <2>2, <2>3, <2>4, <2>5 DEF IInv, TypeOK
<1>7. ASSUME NEW p \in Callers, DisconnectSlave(p)
      PROVE  IInv'
  <2>1. PoolTypeOK'
    BY <1>7
       DEF DisconnectSlave, PoolTypeOK, initialized, Begin, DisconnectAndClose,
           ConnectionOf
  <2>2. CallerTypeOK'
    BY <1>7
       DEF DisconnectSlave, CallerTypeOK, Location, Settling, Begin, Return
  <2>3. HistoryTypeOK'
    BY <1>7 DEF DisconnectSlave, HistoryTypeOK
  <2>4. SlaveInv'
    BY <1>7
       DEF DisconnectSlave, SlaveInv, PoolTypeOK, Constructed, initialized,
           DisconnectAndClose
  <2>5. CallerInv'
    BY <1>7
       DEF DisconnectSlave, CallerInv, SlaveInv, CallerTypeOK, initialized,
           Location, Settling, Begin, Return, ConnectionOf
  <2> QED
    BY <2>1, <2>2, <2>3, <2>4, <2>5 DEF IInv, TypeOK
<1>8. ASSUME NEW p \in Callers, ReconnectSlave(p)
      PROVE  IInv'
  <2>1. PoolTypeOK'
    BY <1>8, ReopenType DEF ReconnectSlave, Begin, PoolTypeOK
  <2>2. CallerTypeOK'
    BY <1>8, ReopenType DEF ReconnectSlave, Begin, CallerTypeOK
  <2>3. HistoryTypeOK'
    BY <1>8, ReopenType DEF ReconnectSlave, HistoryTypeOK
  <2>4. SlaveInv'
    BY <1>8, ReopenType DEF ReconnectSlave, SlaveInv, PoolTypeOK, Constructed
  <2>5. CallerInv'
    BY <1>8, ReopenType DEF ReconnectSlave, Begin, CallerInv, CallerTypeOK
  <2> QED
    BY <2>1, <2>2, <2>3, <2>4, <2>5 DEF IInv, TypeOK
<1>9. ASSUME NEW p \in Callers, ImportFromSQLDump(p)
      PROVE  IInv'
  <2>1. PoolTypeOK'
    BY <1>9
       DEF ImportFromSQLDump, PoolTypeOK, initialized, Begin,
           DisconnectAndClose, ConnectionOf
  <2>2. CallerTypeOK'
    BY <1>9 DEF ImportFromSQLDump, CallerTypeOK, PoolTypeOK, Begin, Location
  <2>3. HistoryTypeOK'
    BY <1>9 DEF ImportFromSQLDump, HistoryTypeOK
  <2>4. SlaveInv'
    BY <1>9
       DEF ImportFromSQLDump, SlaveInv, PoolTypeOK, Constructed, initialized,
           DisconnectAndClose
  <2>5. CallerInv'
    BY <1>9
       DEF ImportFromSQLDump, CallerInv, SlaveInv, CallerTypeOK, initialized,
           Location, Settling, Begin, ConnectionOf
  <2> QED
    BY <2>1, <2>2, <2>3, <2>4, <2>5 DEF IInv, TypeOK
<1>10. ASSUME NEW p \in Callers, TakeReady(p)
      PROVE  IInv'
  <2>1. CASE ~MayTake(p)
    <3>1. /\ Return(p, "unrecoverable")
          /\ UNCHANGED <<poolVars, attached, exited, calls, op, grants>>
      BY <1>10, <2>1 DEF TakeReady, poolVars
    <3>2. PoolTypeOK' /\ HistoryTypeOK' /\ SlaveInv'
      BY <3>1
         DEF PoolTypeOK, HistoryTypeOK, SlaveInv, poolVars, Constructed,
             initialized
    <3>3. CallerTypeOK'
      BY <3>1, ReturnType
    <3>4. CallerInv'
      BY <3>1 DEF Return, CallerInv, CallerTypeOK, poolVars, initialized
    <3> QED
      BY <3>2, <3>3, <3>4
  <2>2. CASE MayTake(p)
    <3>1. /\ dirty' = dirty \cup {pick[p]}
          /\ currentSlave' = pick[p]
          /\ deferred' = deferred + 1
          /\ grants' = Append(grants, pick[p])
          /\ Await(p, "granted")
          /\ pc[p] = "settled"
          /\ UNCHANGED <<count, failed, closed, destroyed, gen, open, batch,
                         timers, attached, exited, awaited, calls, op>>
      BY <1>10, <2>2 DEF TakeReady
    <3>2. pick[p] \in initialized /\ pick[p] \in Slave /\ pick[p] # None
      BY <1>10, <2>2, NoneAssumption
         DEF TakeReady, MayTake, CallerInv, PoolTypeOK
    <3>3. PoolTypeOK'
      BY <3>1, <3>2 DEF PoolTypeOK, initialized
    <3>4. CallerTypeOK'
      BY <3>1, AwaitType DEF Location, Settling
    <3>5. HistoryTypeOK'
      BY <3>1, <3>2 DEF HistoryTypeOK
    <3>6. SlaveInv'
      BY <3>1, <3>2 DEF SlaveInv, Constructed, initialized
    <3>7. CallerInv'
      BY <3>1, <3>2 DEF Await, CallerInv, CallerTypeOK, initialized
    <3> QED
      BY <3>3, <3>4, <3>5, <3>6, <3>7
  <2> QED
    BY <2>1, <2>2
<1>11. ASSUME NEW p \in Callers, GetManagedItems(p)
      PROVE  IInv'
  <2>1. PoolTypeOK'
    BY <1>11
       DEF GetManagedItems, PoolTypeOK, initialized, ConnectionOf, poolVars
  <2>2. CallerTypeOK'
    <3>1. CASE pick[p] \in closed
      BY <1>11, <3>1, ReturnType DEF GetManagedItems
    <3>2. CASE pick[p] \notin closed
      <4>1. pick[p] \in initialized
        BY <1>11 DEF GetManagedItems, CallerInv, SlaveInv
      <4>2. ConnectionOf(pick[p]) \in Connection
        BY <4>1 DEF PoolTypeOK, ConnectionOf, Connection
      <4>3. Reinitialize(p, ConnectionOf(pick[p]), open)
        BY <1>11, <3>2 DEF GetManagedItems
      <4> QED
        BY <1>11, <3>2, <4>2, <4>3, ReinitializeType
           DEF GetManagedItems, CallerTypeOK
    <3> QED
      BY <3>1, <3>2
  <2>3. HistoryTypeOK'
    BY <1>11 DEF GetManagedItems, HistoryTypeOK
  <2>4. SlaveInv'
    BY <1>11
       DEF GetManagedItems, SlaveInv, PoolTypeOK, Constructed, initialized,
           poolVars
  <2>5. CallerInv'
    <3>1. CASE pick[p] \in closed
      BY <1>11, <3>1
         DEF GetManagedItems, Return, CallerInv, CallerTypeOK, poolVars,
             initialized
    <3>2. CASE pick[p] \notin closed
      <4>1. op[p] # "import"
        BY <1>11 DEF GetManagedItems, CallerInv
      <4>2. pick[p] \in initialized
        BY <1>11 DEF GetManagedItems, CallerInv, SlaveInv
      <4>3. ConnectionOf(pick[p]) \in Connection
        BY <4>2 DEF PoolTypeOK, ConnectionOf, Connection
      <4> QED
        BY <1>11, <3>2, <4>1, <4>3
           DEF GetManagedItems, Reinitialize, CallerInv, CallerTypeOK,
               poolVars, initialized
    <3> QED
      BY <3>1, <3>2
  <2> QED
    BY <2>1, <2>2, <2>3, <2>4, <2>5 DEF IInv, TypeOK
<1>12. ASSUME NEW p \in Callers, Attach(p)
      PROVE  IInv'
  <2>1. PoolTypeOK'
    BY <1>12 DEF Attach, PoolTypeOK, CallerInv, initialized, poolVars
  <2>2. CallerTypeOK'
    BY <1>12, ReturnType, AwaitType DEF Attach, Location
  <2>3. HistoryTypeOK'
    BY <1>12 DEF Attach, HistoryTypeOK
  <2>4. SlaveInv'
    BY <1>12
       DEF Attach, SlaveInv, PoolTypeOK, Constructed, initialized, poolVars
  <2>5. CallerInv'
    BY <1>12
       DEF Attach, CallerInv, SlaveInv, CallerTypeOK, initialized, Location,
           Settling, Return, Await, poolVars
  <2> QED
    BY <2>1, <2>2, <2>3, <2>4, <2>5 DEF IInv, TypeOK
<1>13. ASSUME NEW p \in Callers, AuthenticateFails(p)
      PROVE  IInv'
  <2>1. PoolTypeOK'
    BY <1>13 DEF AuthenticateFails, PoolTypeOK, initialized, poolVars
  <2>2. CallerTypeOK'
    BY <1>13
       DEF AuthenticateFails, CallerTypeOK, Location, Settling, callerVars
  <2>3. HistoryTypeOK'
    BY <1>13 DEF AuthenticateFails, HistoryTypeOK
  <2>4. SlaveInv'
    BY <1>13
       DEF AuthenticateFails, SlaveInv, PoolTypeOK, Constructed, initialized,
           poolVars
  <2>5. CallerInv'
    BY <1>13
       DEF AuthenticateFails, CallerInv, SlaveInv, CallerTypeOK, initialized,
           Location, Settling, poolVars, callerVars
  <2> QED
    BY <2>1, <2>2, <2>3, <2>4, <2>5 DEF IInv, TypeOK
<1>14. ASSUME NEW p \in Callers, ImportFailed(p)
      PROVE  IInv'
  <2>1. PoolTypeOK'
    BY <1>14 DEF ImportFailed, PoolTypeOK, initialized, poolVars
  <2>2. CallerTypeOK'
    BY <1>14 DEF ImportFailed, CallerTypeOK, Location, Settling, Return
  <2>3. HistoryTypeOK'
    BY <1>14 DEF ImportFailed, HistoryTypeOK
  <2>4. SlaveInv'
    BY <1>14
       DEF ImportFailed, SlaveInv, PoolTypeOK, Constructed, initialized,
           poolVars
  <2>5. CallerInv'
    BY <1>14
       DEF ImportFailed, CallerInv, SlaveInv, CallerTypeOK, initialized,
           Location, Settling, Return, poolVars
  <2> QED
    BY <2>1, <2>2, <2>3, <2>4, <2>5 DEF IInv, TypeOK
<1>15. ASSUME NEW p \in Callers, ImportLoaded(p)
      PROVE  IInv'
  <2>1. PoolTypeOK'
    BY <1>15, ReopenType DEF ImportLoaded, PoolTypeOK, CallerInv
  <2>2. CallerTypeOK'
    BY <1>15, ReopenType DEF ImportLoaded, CallerInv, CallerTypeOK
  <2>3. HistoryTypeOK'
    BY <1>15, ReopenType DEF ImportLoaded, HistoryTypeOK
  <2>4. SlaveInv'
    BY <1>15, ReopenType
       DEF ImportLoaded, SlaveInv, PoolTypeOK, Constructed, CallerInv
  <2>5. CallerInv'
    BY <1>15, ReopenType DEF ImportLoaded, CallerInv, CallerTypeOK
  <2> QED
    BY <2>1, <2>2, <2>3, <2>4, <2>5 DEF IInv, TypeOK
<1>16. ASSUME NEW p \in Callers, MigrateImported(p)
      PROVE  IInv'
  <2>1. PoolTypeOK'
    BY <1>16 DEF MigrateImported, PoolTypeOK, initialized, poolVars
  <2>2. CallerTypeOK'
    BY <1>16, ReturnType DEF MigrateImported, Location
  <2>3. HistoryTypeOK'
    BY <1>16 DEF MigrateImported, HistoryTypeOK
  <2>4. SlaveInv'
    BY <1>16
       DEF MigrateImported, SlaveInv, PoolTypeOK, Constructed, initialized,
           poolVars
  <2>5. CallerInv'
    BY <1>16
       DEF MigrateImported, CallerInv, SlaveInv, CallerTypeOK, initialized,
           Location, Settling, Return, poolVars
  <2> QED
    BY <2>1, <2>2, <2>3, <2>4, <2>5 DEF IInv, TypeOK
<1>17. ASSUME UNCHANGED vars
       PROVE  IInv'
  BY <1>17
     DEF vars, poolVars, callerVars, PoolTypeOK, CallerTypeOK, HistoryTypeOK,
         SlaveInv, CallerInv, Constructed, initialized
<1> QED
  BY <1>1, <1>2, <1>3, <1>4, <1>5, <1>6, <1>7, <1>8, <1>9, <1>10, <1>11, <1>12,
     <1>13, <1>14, <1>15, <1>16, <1>17
     DEF Next, Background, Call, Continue

(* Every variable of the pool and of its users keeps its type.             *)
THEOREM TypeCorrect == Spec => []TypeOK
<1>1. IInv => TypeOK
  BY DEF IInv
<1> QED
  BY InitIInv, NextIInv, <1>1, PTL DEF Spec

(* SlaveDB.close and destroy only ever meet databases that flagDirty has   *)
(* taken out of the pool, whoever calls whatever when: Promise.any cannot  *)
(* pick a database that is closed or dropped.                              *)
THEOREM OnlyUsedEnd == Spec => []OnlyUsedDatabasesEnd
<1>1. IInv => OnlyUsedDatabasesEnd
  BY DEF IInv, SlaveInv, OnlyUsedDatabasesEnd
<1> QED
  BY InitIInv, NextIInv, <1>1, PTL DEF Spec

-----------------------------------------------------------------------------
(* Isolation.  What was handed out is dirty, and flagDirty refuses a dirty *)
(* slave: so no slave is appended to the grants twice.                     *)
GrantInv ==
  /\ \A i \in DOMAIN grants : grants[i] \in dirty
  /\ NoDatabaseHandedOutTwice

(* Only a switch that flagDirty lets pass changes what is dirty or granted. *)
LEMMA OnlyTakeReadyGrants ==
  ASSUME [Next]_vars,
         \A p \in Callers : ~(TakeReady(p) /\ MayTake(p))
  PROVE  UNCHANGED <<dirty, grants>>
BY DEF Next, Background, Call, Continue, SlaveReady, SlaveFailed, AddPrebuffer,
       AddSlave, DestroyTimer, SwitchToNewSlaveDB, DisconnectSlave,
       ReconnectSlave, ImportFromSQLDump, TakeReady, GetManagedItems, Attach,
       AuthenticateFails, ImportFailed, ImportLoaded, MigrateImported, vars,
       poolVars

(* No step hands out what was handed out before. *)
LEMMA NextGrantInv == IInv /\ GrantInv /\ [Next]_vars => GrantInv'
<1> SUFFICES ASSUME IInv, GrantInv, [Next]_vars
             PROVE  GrantInv'
  OBVIOUS
<1>1. CASE \E p \in Callers : TakeReady(p) /\ MayTake(p)
  <2>1. PICK p \in Callers : TakeReady(p) /\ MayTake(p)
    BY <1>1
  <2>2. dirty' = dirty \cup {pick[p]} /\ grants' = Append(grants, pick[p])
    BY <2>1 DEF TakeReady
  <2>3. grants \in Seq(Slave) /\ pick[p] \in Slave
    BY <2>1 DEF IInv, TypeOK, HistoryTypeOK, CallerTypeOK, MayTake
  <2>4. /\ DOMAIN grants' = DOMAIN grants \cup {Len(grants) + 1}
        /\ DOMAIN grants = 1 .. Len(grants)
        /\ Len(grants) \in Nat
        /\ grants'[Len(grants) + 1] = pick[p]
        /\ \A i \in DOMAIN grants : grants'[i] = grants[i]
    BY <2>2, <2>3
  <2>5. \A i \in DOMAIN grants : grants[i] # pick[p]
    BY <2>1 DEF GrantInv, MayTake
  <2> QED
    BY <2>2, <2>4, <2>5 DEF GrantInv, NoDatabaseHandedOutTwice
<1>2. CASE ~\E p \in Callers : TakeReady(p) /\ MayTake(p)
  BY <1>2, OnlyTakeReadyGrants DEF GrantInv, NoDatabaseHandedOutTwice
<1> QED
  BY <1>1, <1>2

(* No two switches ever get the same database, however many users call the *)
(* test strategy at once and in whatever order its promises settle.        *)
THEOREM Isolation == Spec => []NoDatabaseHandedOutTwice
<1>1. Init => GrantInv
  BY DEF Init, GrantInv, NoDatabaseHandedOutTwice
<1>2. GrantInv => NoDatabaseHandedOutTwice
  BY DEF GrantInv
<1> QED
  BY InitIInv, NextIInv, NextGrantInv, <1>1, <1>2, PTL DEF Spec

-----------------------------------------------------------------------------
(* The level of the pool.  Every grant defers one addSlave, every addSlave *)
(* constructs one slave, and the batch constructs the rest once.           *)
LevelInv ==
  /\ IsFiniteSet(dirty)
  /\ count + deferred + (IF batch = "done" THEN 0 ELSE Prebuffer - 1)
       = Prebuffer + Cardinality(dirty)

(* Slaves are constructed by the two setImmediate callbacks only, and
   scheduled only by a switch that got its database. *)
LEMMA NextNothingConstructed ==
  ASSUME IInv, [Next]_vars, ~AddPrebuffer, ~AddSlave,
         \A p \in Callers : ~(TakeReady(p) /\ MayTake(p))
  PROVE  UNCHANGED <<count, deferred>> /\ (batch' = "done" <=> batch = "done")
<1>1. CASE \E s \in Constructed : SlaveReady(s)
  BY <1>1 DEF SlaveReady, Waiters, IInv, SlaveInv
<1>2. CASE ~\E s \in Constructed : SlaveReady(s)
  BY <1>2
     DEF Next, Background, Call, Continue, SlaveFailed, DestroyTimer,
         SwitchToNewSlaveDB, DisconnectSlave, ReconnectSlave,
         ImportFromSQLDump, TakeReady, GetManagedItems, Attach,
         AuthenticateFails, ImportFailed, ImportLoaded, MigrateImported, vars,
         poolVars
<1> QED
  BY <1>1, <1>2

(* What a grant takes from the pool it schedules, what a callback
   constructs it had scheduled: the sum never changes. *)
LEMMA NextLevelInv == IInv /\ LevelInv /\ [Next]_vars => LevelInv'
<1> SUFFICES ASSUME IInv, LevelInv, [Next]_vars
             PROVE  LevelInv'
  OBVIOUS
<1>t. /\ count \in Nat /\ deferred \in Nat /\ Prebuffer \in Nat
      /\ IsFiniteSet(dirty) /\ Cardinality(dirty) \in Nat
  BY PrebufferAssumption, FS_CardinalityType
     DEF IInv, TypeOK, PoolTypeOK, LevelInv
<1>1. CASE \E p \in Callers : TakeReady(p) /\ MayTake(p)
  <2>1. PICK p \in Callers : TakeReady(p) /\ MayTake(p)
    BY <1>1
  <2>2. /\ dirty' = dirty \cup {pick[p]} /\ deferred' = deferred + 1
        /\ UNCHANGED <<count, batch>>
    BY <2>1 DEF TakeReady
  <2>3. IsFiniteSet(dirty') /\ Cardinality(dirty') = Cardinality(dirty) + 1
    BY <1>t, <2>1, <2>2, FS_AddElement DEF MayTake
  <2> QED
    BY <1>t, <2>2, <2>3 DEF LevelInv
<1>2. CASE ~\E p \in Callers : TakeReady(p) /\ MayTake(p)
  <2>1. UNCHANGED dirty
    BY <1>2, OnlyTakeReadyGrants
  <2>2. CASE AddPrebuffer
    BY <1>t, <2>1, <2>2 DEF AddPrebuffer, Rest, LevelInv
  <2>3. CASE AddSlave
    BY <1>t, <2>1, <2>3 DEF AddSlave, LevelInv
  <2>4. CASE ~AddPrebuffer /\ ~AddSlave
    <3>1. UNCHANGED <<count, deferred>> /\ (batch' = "done" <=> batch = "done")
      BY <1>2, <2>4, NextNothingConstructed
    <3> QED
      BY <2>1, <3>1 DEF LevelInv
  <2> QED
    BY <2>2, <2>3, <2>4
<1> QED
  BY <1>1, <1>2

(* At every moment prebufferCount databases are ready, being created or    *)
(* scheduled for the next switches: none leaks and none is made in excess. *)
THEOREM Level == Spec => []PoolLevel
<1>1. Init => LevelInv
  BY FS_EmptySet, PrebufferAssumption DEF Init, LevelInv
<1>2. IInv /\ LevelInv => PoolLevel
  <2> SUFFICES ASSUME IInv, LevelInv
               PROVE  PoolLevel
    OBVIOUS
  <2>1. count \in Nat /\ deferred \in Nat /\ dirty \subseteq Constructed
    BY DEF IInv, TypeOK, PoolTypeOK, SlaveInv
  <2>2. IsFiniteSet(Constructed) /\ Cardinality(Constructed) = count
    BY <2>1, FS_Interval DEF Constructed
  <2>3. /\ Constructed \cap dirty = dirty
        /\ Cardinality(Constructed \ dirty)
             = Cardinality(Constructed) - Cardinality(Constructed \cap dirty)
        /\ Cardinality(dirty) \in Nat
    BY <2>1, <2>2, FS_Difference, FS_CardinalityType DEF LevelInv
  <2>4. Cardinality(Constructed \ dirty) = count - Cardinality(dirty)
    BY <2>2, <2>3
  <2>5. Prebuffer \in Nat /\ Cardinality(dirty) \in Nat
    BY <2>3, PrebufferAssumption
  <2>6. CASE batch = "done"
    BY <2>1, <2>4, <2>5, <2>6 DEF LevelInv, PoolLevel
  <2>7. CASE batch # "done"
    BY <2>1, <2>4, <2>5, <2>7 DEF LevelInv, PoolLevel
  <2> QED
    BY <2>6, <2>7
<1> QED
  BY InitIInv, NextIInv, NextLevelInv, <1>1, <1>2, PTL DEF Spec

-----------------------------------------------------------------------------
(* One user at a time, as mocha's hooks are: nobody connects the storage   *)
(* while a switch waits for its database.                                  *)
OneCaller == \A p, q \in Callers : p = q

SoloInv ==
  \A p \in Callers :
    /\ pc[p] \in {"waiting", "settled"} => attached = None
    /\ pc[p] = "granted" => pick[p] = currentSlave
    /\ pc[p] \in {"authenticating", "refused"} => target[p][1] = currentSlave

(* No step connects the storage behind the back of its only user. *)
LEMMA NextSoloInv ==
  ASSUME OneCaller, IInv, SoloInv, [Next]_vars
  PROVE  SoloInv'
<1>t. PoolTypeOK /\ CallerTypeOK /\ SlaveInv /\ CallerInv
  BY DEF IInv, TypeOK
<1>1. CASE \E s \in Constructed : SlaveReady(s) \/ SlaveFailed(s)
  BY <1>t, <1>1 DEF SlaveReady, SlaveFailed, Waiters, SoloInv
<1>2. CASE AddPrebuffer \/ AddSlave \/ \E t \in timers : DestroyTimer(t)
  BY <1>2 DEF AddPrebuffer, AddSlave, DestroyTimer, callerVars, SoloInv
<1>3. ASSUME NEW p \in Callers, Call(p)
      PROVE  SoloInv'
  <2>1. CASE \/ SwitchToNewSlaveDB(p)
             \/ DisconnectSlave(p)
             \/ ImportFromSQLDump(p)
    <3>1. attached' = None
      BY <2>1
         DEF SwitchToNewSlaveDB, DisconnectSlave, ImportFromSQLDump,
             DisconnectAndClose
    <3>2. pc'[p] \in {"idle", "importing", "waiting", "settled"}
      BY <1>t, <2>1
         DEF SwitchToNewSlaveDB, DisconnectSlave, ImportFromSQLDump, Return,
             CallerTypeOK
    <3> QED
      BY <3>1, <3>2 DEF SoloInv, OneCaller
  <2>2. CASE ReconnectSlave(p)
    <3>1. /\ currentSlave' = currentSlave /\ currentSlave # None
          /\ ReopenAndReinitialize(p)
      BY <2>2 DEF ReconnectSlave
    <3>2. target'[p][1] = currentSlave
      BY <1>t, <3>1, ReopenTarget
    <3>3. pc'[p] \in {"authenticating", "refused"}
      BY <1>t, <3>1, ReopenType
    <3> QED
      BY <3>1, <3>2, <3>3 DEF SoloInv, OneCaller
  <2> QED
    BY <1>3, <2>1, <2>2 DEF Call
<1>4. ASSUME NEW p \in Callers, Continue(p)
      PROVE  SoloInv'
  <2>1. CASE TakeReady(p)
    <3>1. \/ pc'[p] = "idle"
          \/ /\ pc'[p] = "granted"
             /\ pick'[p] = pick[p] /\ currentSlave' = pick[p]
      BY <1>t, <2>1 DEF TakeReady, Return, Await, CallerTypeOK
    <3> QED
      BY <3>1 DEF SoloInv, OneCaller
  <2>2. CASE GetManagedItems(p)
    <3>1. currentSlave' = currentSlave
      BY <2>2 DEF GetManagedItems, poolVars
    <3>2. \/ pc'[p] = "idle"
          \/ /\ pc'[p] \in {"authenticating", "refused"}
             /\ target'[p][1] = pick[p]
      BY <1>t, <2>2
         DEF GetManagedItems, Return, Reinitialize, ConnectionOf, CallerTypeOK
    <3>3. pick[p] = currentSlave
      BY <2>2 DEF GetManagedItems, SoloInv
    <3> QED
      BY <3>1, <3>2, <3>3 DEF SoloInv, OneCaller
  <2>3. CASE Attach(p) \/ ImportFailed(p) \/ MigrateImported(p)
    <3>1. pc'[p] \in {"idle", "migrating"}
      BY <1>t, <2>3
         DEF Attach, ImportFailed, MigrateImported, Return, Await, CallerTypeOK
    <3> QED
      BY <3>1 DEF SoloInv, OneCaller
  <2>4. CASE AuthenticateFails(p)
    BY <2>4 DEF AuthenticateFails, SoloInv, callerVars, poolVars
  <2>5. CASE ImportLoaded(p)
    <3>1. /\ currentSlave' = currentSlave /\ currentSlave # None
          /\ ReopenAndReinitialize(p)
      BY <1>t, <2>5 DEF ImportLoaded, CallerInv
    <3>2. target'[p][1] = currentSlave
      BY <1>t, <3>1, ReopenTarget
    <3>3. pc'[p] \in {"authenticating", "refused"}
      BY <1>t, <3>1, ReopenType
    <3> QED
      BY <3>1, <3>2, <3>3 DEF SoloInv, OneCaller
  <2> QED
    BY <1>4, <2>1, <2>2, <2>3, <2>4, <2>5 DEF Continue
<1>5. CASE UNCHANGED vars
  BY <1>5 DEF vars, poolVars, callerVars, SoloInv
<1> QED
  BY <1>1, <1>2, <1>3, <1>4, <1>5 DEF Next, Background

(* With one user, the storage only ever moves to the database reserved     *)
(* last, and from one database to the next only while it is disconnected.  *)
THEOREM Implements ==
  ASSUME OneCaller
  PROVE  Spec => ImplementsIsolation
<1>1. Init => SoloInv
  BY DEF Init, SoloInv
<1>2. IInv /\ SoloInv /\ [Next]_vars => SoloInv'
  BY NextSoloInv
<1>3. Init => Isolated!Init
  BY DEF Init, Isolated!Init
<1>4. IInv /\ SoloInv /\ [Next]_vars => [Isolated!Next]_(Isolated!vars)
  <2> SUFFICES ASSUME IInv, SoloInv, [Next]_vars
               PROVE  [Isolated!Next]_(Isolated!vars)
    OBVIOUS
  <2>t. PoolTypeOK /\ CallerTypeOK /\ SlaveInv /\ CallerInv
    BY DEF IInv, TypeOK
  <2>1. CASE UNCHANGED <<dirty, currentSlave, attached>>
    BY <2>1 DEF Isolated!vars
  <2>2. CASE attached' = None /\ UNCHANGED <<dirty, currentSlave>>
    BY <2>2 DEF Isolated!Next, Isolated!Disconnect
  <2>3. ASSUME NEW p \in Callers, TakeReady(p)
        PROVE  [Isolated!Next]_(Isolated!vars)
    <3>1. CASE ~MayTake(p)
      BY <2>1, <2>3, <3>1 DEF TakeReady
    <3>2. CASE MayTake(p)
      <4>1. /\ dirty' = dirty \cup {pick[p]} /\ currentSlave' = pick[p]
            /\ attached' = attached /\ pc[p] = "settled"
        BY <2>3, <3>2 DEF TakeReady
      <4>2. attached = None
        BY <4>1 DEF SoloInv
      <4>3. pick[p] \in Slave \ dirty
        BY <2>t, <3>2 DEF CallerTypeOK, MayTake
      <4> QED
        BY <4>1, <4>2, <4>3 DEF Isolated!Next, Isolated!Reserve
    <3> QED
      BY <3>1, <3>2
  <2>4. ASSUME NEW p \in Callers, Attach(p)
        PROVE  [Isolated!Next]_(Isolated!vars)
    <3>1. /\ attached' = target[p] /\ pc[p] = "authenticating"
          /\ UNCHANGED <<dirty, currentSlave>>
      BY <2>4 DEF Attach, poolVars
    <3>2. target[p] \in Connection /\ target[p][1] = currentSlave
      BY <2>t, <3>1 DEF CallerInv, SoloInv
    <3>3. target[p] # None /\ currentSlave # None
      BY <3>2, NoneAssumption DEF Connection
    <3> QED
      BY <3>1, <3>2, <3>3 DEF Isolated!Next, Isolated!Connect
  <2> QED
    BY <2>1, <2>2, <2>3, <2>4
       DEF Next, Background, Call, Continue, SlaveReady, SlaveFailed,
           AddPrebuffer, AddSlave, DestroyTimer, SwitchToNewSlaveDB,
           DisconnectSlave, ReconnectSlave, ImportFromSQLDump,
           DisconnectAndClose, GetManagedItems, AuthenticateFails,
           ImportFailed, ImportLoaded, MigrateImported, vars, poolVars
<1> QED
  BY InitIInv, NextIInv, <1>1, <1>2, <1>3, <1>4, PTL
     DEF Spec, ImplementsIsolation, Isolated!Spec

-----------------------------------------------------------------------------
(* One user, and PostgreSQL creates the databases: the process lives       *)

(* The storage is on the current slave, and slaves that are not closed     *)
(* have an open connection.                                                *)
ConnectionInv ==
  /\ StorageOnLiveSlave
  /\ \A s \in initialized \ closed : ConnectionOf(s) \in open

(* Timers are set for closed slaves, and these stay closed: the current    *)
(* slave has one only while the next is waited for.                        *)
TimerInv ==
  /\ \A t \in timers : t[1] \in closed
  /\ currentSlave \in destroyed \cup {t[1] : t \in timers} =>
       \E p \in Callers : pc[p] \in {"waiting", "settled"}

(* Nobody calls while the pool has yet to construct what it owes. *)
SupplyInv ==
  /\ failed = {}
  /\ batch = "unscheduled" => 0 \notin initialized
  /\ (\A p \in Callers : pc[p] \notin {"granted", "authenticating"}) =>
       deferred = 0 /\ (batch = "queued" => 0 \notin dirty)

(* What a caller waits for is still what it was when it began to wait. *)
AwaitInv ==
  \A p \in Callers :
    /\ pc[p] = "settled" => MayTake(p)
    /\ pc[p] = "granted" => pick[p] \notin closed
    /\ pc[p] = "authenticating" => /\ target[p] = ConnectionOf(currentSlave)
                                   /\ currentSlave \in dirty \ closed
    /\ pc[p] # "refused"

LiveInv == ProcessSurvives /\ ConnectionInv /\ TimerInv /\ SupplyInv /\ AwaitInv

(* Whenever the only user calls, there is a slave for it. *)
LEMMA NeverDry ==
  ASSUME OneCaller, IInv, LevelInv, LiveInv, NEW p \in Callers, pc[p] = "idle"
  PROVE  Candidates # {}
<1>1. /\ count \in Nat /\ deferred = 0 /\ failed = {}
      /\ batch \in {"unscheduled", "queued", "done"}
      /\ batch = "queued" => 0 \notin dirty
      /\ batch = "unscheduled" => 0 \notin initialized
      /\ dirty \subseteq initialized /\ count \in Nat \ {0}
  BY DEF OneCaller, IInv, TypeOK, PoolTypeOK, SlaveInv, LiveInv, SupplyInv
<1>2. CASE batch # "done"
  <2>1. 0 \notin dirty /\ 0 \in Constructed
    BY <1>1, <1>2 DEF Constructed
  <2> QED
    BY <1>1, <2>1 DEF Candidates
<1>3. CASE batch = "done"
  <2>1. count = Prebuffer + Cardinality(dirty)
    <3>1. Prebuffer \in Nat /\ Cardinality(dirty) \in Nat
      BY PrebufferAssumption, FS_CardinalityType DEF LevelInv
    <3> QED
      BY <1>1, <1>3, <3>1 DEF LevelInv
  <2>2. Candidates = Constructed \ dirty
    BY <1>1 DEF Candidates
  <2>3. IsFiniteSet(Constructed) /\ Cardinality(Constructed) = count
    BY <1>1, FS_Interval DEF Constructed
  <2>4. Constructed # dirty
    BY <2>1, <2>3, PrebufferAssumption, FS_CardinalityType
  <2>5. dirty \subseteq Constructed
    BY DEF IInv, SlaveInv
  <2> QED
    BY <2>2, <2>4, <2>5
<1> QED
  BY <1>2, <1>3

(* Reopening the current slave, if there is no timer for it *)
LEMMA ReopenLive ==
  ASSUME OneCaller, IInv, LiveInv, NEW p \in Callers, ReopenAndReinitialize(p),
         currentSlave # None, pc[p] \notin {"waiting", "settled"},
         UNCHANGED <<currentSlave, destroyed, timers, attached, exited, failed,
                     batch, deferred, dirty, pick>>,
         deferred = 0, batch = "queued" => 0 \notin dirty
  PROVE  LiveInv'
<1>t. PoolTypeOK /\ CallerTypeOK /\ SlaveInv
  BY DEF IInv, TypeOK
<1>1. /\ currentSlave \in initialized /\ currentSlave \in dirty
      /\ gen \in [initialized -> Nat] /\ DOMAIN gen = initialized
      /\ currentSlave \notin destroyed
      /\ \A t \in timers : t[1] # currentSlave
  BY <1>t DEF SlaveInv, PoolTypeOK, LiveInv, TimerInv, OneCaller, initialized
<1> DEFINE c == <<currentSlave, gen'[currentSlave]>>
<1>2. /\ DOMAIN gen' = initialized /\ c \in open'
      /\ \A s \in initialized \ {currentSlave} : gen'[s] = gen[s]
      /\ open \subseteq open' /\ closed' = closed \ {currentSlave}
      /\ currentSlave \notin closed => gen' = gen /\ open' = open
      /\ pc' = [pc EXCEPT ![p] = "authenticating"]
      /\ target' = [target EXCEPT ![p] = c]
  <2>1. CASE currentSlave \in closed
    <3>1. /\ gen' = [gen EXCEPT ![currentSlave] = @ + 1]
          /\ open' = open \cup {<<currentSlave, gen[currentSlave] + 1>>}
          /\ closed' = closed \ {currentSlave}
          /\ Reinitialize(p, <<currentSlave, gen[currentSlave] + 1>>, open')
      BY <2>1 DEF ReopenAndReinitialize
    <3>2. gen'[currentSlave] = gen[currentSlave] + 1
      BY <1>1, <3>1
    <3> QED
      BY <1>1, <2>1, <3>1, <3>2 DEF Reinitialize
  <2>2. CASE currentSlave \notin closed
    <3>1. /\ Reinitialize(p, ConnectionOf(currentSlave), open)
          /\ UNCHANGED <<gen, open, closed>>
      BY <2>2 DEF ReopenAndReinitialize
    <3>2. ConnectionOf(currentSlave) \in open
      BY <1>1, <2>2 DEF LiveInv, ConnectionInv
    <3> QED
      BY <1>1, <2>2, <3>1, <3>2 DEF Reinitialize, ConnectionOf
  <2> QED
    BY <2>1, <2>2
<1>3. /\ pc'[p] = "authenticating" /\ target'[p] = c
      /\ \A q \in Callers : q = p
  BY <1>t, <1>2 DEF CallerTypeOK, OneCaller
<1>4. ConnectionInv'
  <2>1. StorageOnLiveSlave'
    <3>1. SUFFICES ASSUME attached # None  PROVE StorageOnLiveSlave'
      BY DEF StorageOnLiveSlave
    <3>2. currentSlave \notin closed
      BY <3>1 DEF LiveInv, ConnectionInv, StorageOnLiveSlave
    <3> QED
      BY <1>2, <3>2
         DEF LiveInv, ConnectionInv, StorageOnLiveSlave, ConnectionOf,
             initialized
  <2>2. ASSUME NEW s \in initialized' \ closed'
        PROVE  ConnectionOf(s)' \in open'
    <3>1. s \in initialized
      BY <1>2 DEF initialized
    <3>2. CASE s = currentSlave
      BY <1>2, <3>2 DEF ConnectionOf
    <3>3. CASE s # currentSlave
      BY <1>2, <2>2, <3>1, <3>3 DEF ConnectionOf, LiveInv, ConnectionInv
    <3> QED
      BY <3>2, <3>3
  <2> QED
    BY <2>1, <2>2 DEF ConnectionInv, ConnectionOf
<1>5. TimerInv'
  BY <1>1, <1>2 DEF LiveInv, TimerInv
<1>6. SupplyInv'
  BY <1>2 DEF LiveInv, SupplyInv, initialized
<1>7. AwaitInv'
  BY <1>1, <1>2, <1>3 DEF AwaitInv, ConnectionOf
<1> QED
  BY <1>4, <1>5, <1>6, <1>7 DEF LiveInv, ProcessSurvives

(* A database created is ready, open and nobody's yet. *)
LEMMA ReadyLive ==
  ASSUME OneCaller, IInv, LiveInv, NEW s \in Constructed, SlaveReady(s)
  PROVE  LiveInv'
<1>t. PoolTypeOK /\ CallerTypeOK /\ SlaveInv
  BY DEF IInv, TypeOK
<1>1. /\ s \notin initialized /\ s \in Nat /\ s # None
      /\ s \notin dirty /\ gen \in [initialized -> Nat]
  BY <1>t, NoneAssumption
     DEF SlaveReady, Constructed, SlaveInv, PoolTypeOK, Slave
<1>2. /\ initialized' = initialized \cup {s}
      /\ ConnectionOf(s)' = <<s, 1>>
      /\ \A r \in initialized : ConnectionOf(r)' = ConnectionOf(r)
  <2>1. gen' = [r \in initialized \cup {s} |-> IF r = s THEN 1 ELSE gen[r]]
    BY DEF SlaveReady
  <2> QED
    BY <1>1, <2>1 DEF initialized, ConnectionOf
<1>3. /\ open' = open \cup {<<s, 1>>}
      /\ batch' = (IF s = 0 THEN "queued" ELSE batch)
      /\ UNCHANGED <<failed, dirty, closed, destroyed, currentSlave, deferred,
                     timers, attached, exited, target>>
      /\ deferred = 0
  BY DEF SlaveReady, IOTurn
<1>4. \A p \in Callers :
        \/ pc'[p] = pc[p] /\ pick'[p] = pick[p]
        \/ pc[p] = "waiting" /\ pc'[p] = "settled" /\ pick'[p] = s
  BY DEF SlaveReady, Waiters
<1>5. ConnectionInv'
  <2>1. StorageOnLiveSlave'
    BY <1>2, <1>3 DEF LiveInv, ConnectionInv, StorageOnLiveSlave
  <2>2. \A r \in initialized' \ closed' : ConnectionOf(r)' \in open'
    BY <1>2, <1>3 DEF LiveInv, ConnectionInv
  <2> QED
    BY <2>1, <2>2 DEF ConnectionInv, ConnectionOf
<1>6. TimerInv'
  BY <1>3, <1>4 DEF LiveInv, TimerInv
<1>7. SupplyInv'
  <2>1. (\A p \in Callers : pc'[p] \notin {"granted", "authenticating"})
          => deferred' = 0 /\ (batch' = "queued" => 0 \notin dirty')
    BY <1>1, <1>3, <1>4 DEF LiveInv, SupplyInv
  <2>2. batch' = "unscheduled" => 0 \notin initialized'
    BY <1>2, <1>3 DEF LiveInv, SupplyInv
  <2> QED
    BY <1>3, <2>1, <2>2 DEF LiveInv, SupplyInv
<1>8. AwaitInv'
  <2>1. \A p \in Callers : pc'[p] = "settled" => MayTake(p)'
    BY <1>1, <1>3, <1>4 DEF LiveInv, AwaitInv, MayTake
  <2>2. \A p \in Callers :
          /\ pc'[p] = "granted" => pick'[p] \notin closed'
          /\ pc'[p] # "refused"
    BY <1>3, <1>4 DEF LiveInv, AwaitInv
  <2>3. \A p \in Callers :
          pc'[p] = "authenticating" =>
            /\ target'[p] = ConnectionOf(currentSlave)'
            /\ currentSlave' \in dirty' \ closed'
    BY <1>t, <1>2, <1>3, <1>4 DEF LiveInv, AwaitInv, SlaveInv, ConnectionOf
  <2> QED
    BY <2>1, <2>2, <2>3 DEF AwaitInv, MayTake, ConnectionOf
<1> QED
  BY <1>3, <1>5, <1>6, <1>7, <1>8 DEF LiveInv, ProcessSurvives

(* A timer drops a slave that is closed, so its destroy does not throw. *)
LEMMA TimerLive ==
  ASSUME IInv, LiveInv, NEW t \in timers, DestroyTimer(t)
  PROVE  LiveInv'
<1>1. /\ timers' = timers \ {t} /\ destroyed' = destroyed \cup {t[1]}
      /\ t[1] \in closed
      /\ UNCHANGED <<failed, dirty, closed, gen, open, currentSlave, batch,
                     deferred, attached, exited, callerVars>>
  BY DEF DestroyTimer, LiveInv, TimerInv
<1>2. UNCHANGED <<pc, pick, target>> /\ initialized' = initialized
  BY <1>1 DEF callerVars, initialized
<1>3. ConnectionInv'
  BY <1>1, <1>2
     DEF LiveInv, ConnectionInv, StorageOnLiveSlave, ConnectionOf
<1>4. TimerInv'
  BY <1>1, <1>2 DEF LiveInv, TimerInv
<1>5. SupplyInv' /\ AwaitInv'
  BY <1>1, <1>2 DEF LiveInv, SupplyInv, AwaitInv, MayTake, ConnectionOf
<1> QED
  BY <1>1, <1>3, <1>4, <1>5 DEF LiveInv, ProcessSurvives

(* The callbacks of setImmediate only construct slaves. *)
LEMMA AddLive ==
  ASSUME IInv, LiveInv, AddPrebuffer \/ AddSlave
  PROVE  LiveInv'
<1>1. /\ UNCHANGED <<failed, dirty, closed, destroyed, gen, open, currentSlave,
                     timers, attached, exited, callerVars>>
      /\ \/ batch' = "done" /\ deferred' = deferred
         \/ batch' = batch /\ deferred > 0 /\ deferred' = deferred - 1
  BY DEF AddPrebuffer, AddSlave
<1>2. UNCHANGED <<pc, pick, target>> /\ initialized' = initialized
  BY <1>1 DEF callerVars, initialized
<1>3. ConnectionInv' /\ TimerInv'
  BY <1>1, <1>2
     DEF LiveInv, ConnectionInv, TimerInv, StorageOnLiveSlave, ConnectionOf
<1>4. SupplyInv'
  BY <1>1, <1>2 DEF LiveInv, SupplyInv
<1>5. AwaitInv'
  BY <1>1, <1>2 DEF LiveInv, AwaitInv, MayTake, ConnectionOf
<1> QED
  BY <1>1, <1>3, <1>4, <1>5 DEF LiveInv, ProcessSurvives

(* Disconnecting closes the current slave and keeps the connections of the
   others open. *)
LEMMA DisconnectLive ==
  ASSUME IInv, LiveInv, DisconnectAndClose({currentSlave} \ {None}),
         UNCHANGED <<gen, destroyed, currentSlave>>
  PROVE  /\ ConnectionInv'
         /\ attached' = None /\ initialized' = initialized
         /\ closed' = closed \cup ({currentSlave} \ {None})
<1>t. PoolTypeOK /\ SlaveInv
  BY DEF IInv, TypeOK
<1>1. /\ attached' = None
      /\ open' = open \ ({attached} \cup
                          {ConnectionOf(s) : s \in {currentSlave} \ {None}})
      /\ closed' = closed \cup ({currentSlave} \ {None})
      /\ initialized' = initialized
  BY DEF DisconnectAndClose, initialized
<1>2. StorageOnLiveSlave'
  BY <1>1 DEF StorageOnLiveSlave
<1>3. ASSUME NEW s \in initialized' \ closed'
      PROVE  ConnectionOf(s)' \in open'
  <2>1. /\ s \in initialized \ closed /\ s # currentSlave
        /\ ConnectionOf(s)' = ConnectionOf(s) /\ ConnectionOf(s) \in open
    BY <1>t, <1>1, <1>3, NoneAssumption
       DEF ConnectionOf, LiveInv, ConnectionInv, PoolTypeOK
  <2>2. ConnectionOf(s) # attached
    <3>1. CASE attached = None
      BY <1>t, <2>1, <3>1, NoneAssumption DEF PoolTypeOK
    <3>2. CASE attached # None
      BY <2>1, <3>2
         DEF LiveInv, ConnectionInv, StorageOnLiveSlave, ConnectionOf
    <3> QED
      BY <3>1, <3>2
  <2>3. ConnectionOf(s) # ConnectionOf(currentSlave)
    BY <2>1 DEF ConnectionOf
  <2> QED
    BY <1>1, <2>1, <2>2, <2>3
<1> QED
  BY <1>1, <1>2, <1>3 DEF ConnectionInv, ConnectionOf

(* A switch closes the slave it leaves before it sets the timer for it, and
   finds another. *)
LEMMA SwitchLive ==
  ASSUME OneCaller, IInv, LevelInv, LiveInv, NEW p \in Callers,
         SwitchToNewSlaveDB(p)
  PROVE  LiveInv'
<1>t. PoolTypeOK /\ CallerTypeOK /\ SlaveInv
  BY DEF IInv, TypeOK
<1>0. pc[p] = "idle" /\ \A q \in Callers : q = p
  BY DEF SwitchToNewSlaveDB, Begin, OneCaller
<1>1. /\ DisconnectAndClose({currentSlave} \ {None})
      /\ timers' = (IF DestroyOnSwitch /\ currentSlave # None
                    THEN timers \cup {<<currentSlave, calls>>} ELSE timers)
      /\ UNCHANGED <<failed, dirty, destroyed, gen, currentSlave, batch,
                     deferred, exited>>
  BY DEF SwitchToNewSlaveDB
<1>2. /\ ConnectionInv'
      /\ attached' = None /\ initialized' = initialized
      /\ closed' = closed \cup ({currentSlave} \ {None})
  BY <1>1, DisconnectLive
<1>3. Candidates # {}
  BY <1>0, NeverDry
<1>4. \/ /\ pc' = [pc EXCEPT ![p] = "settled"]
         /\ \E s \in Candidates : pick' = [pick EXCEPT ![p] = s]
      \/ pc' = [pc EXCEPT ![p] = "waiting"]
  BY <1>3 DEF SwitchToNewSlaveDB
<1>5. \/ pc'[p] = "settled" /\ pick'[p] \in Candidates
      \/ pc'[p] = "waiting"
  BY <1>t, <1>4 DEF CallerTypeOK
<1>6. TimerInv'
  <2>1. \A t \in timers' : t[1] \in closed'
    BY <1>1, <1>2 DEF LiveInv, TimerInv
  <2>2. \E q \in Callers : pc'[q] \in {"waiting", "settled"}
    BY <1>5
  <2> QED
    BY <2>1, <2>2 DEF TimerInv
<1>7. SupplyInv'
  BY <1>0, <1>1, <1>2, <1>5 DEF LiveInv, SupplyInv
<1>8. AwaitInv'
  <2>1. Candidates \subseteq Nat \ dirty
    BY DEF Candidates, Constructed
  <2>2. pc'[p] = "settled" => MayTake(p)'
    BY <1>1, <1>5, <2>1, NoneAssumption DEF MayTake, Slave
  <2> QED
    BY <1>0, <1>5, <2>2 DEF AwaitInv, MayTake
<1> QED
  BY <1>1, <1>2, <1>6, <1>7, <1>8 DEF LiveInv, ProcessSurvives

(* Two operations disconnect and close the current slave without leaving it. *)
LEMMA LeaveLive ==
  ASSUME OneCaller, IInv, LiveInv, NEW p \in Callers,
         DisconnectSlave(p) \/ ImportFromSQLDump(p)
  PROVE  LiveInv'
<1>t. PoolTypeOK /\ CallerTypeOK /\ SlaveInv
  BY DEF IInv, TypeOK
<1>0. /\ pc[p] = "idle" /\ currentSlave # None /\ \A q \in Callers : q = p
      /\ {currentSlave} \ {None} = {currentSlave}
  BY DEF DisconnectSlave, ImportFromSQLDump, Begin, OneCaller
<1>1. /\ DisconnectAndClose({currentSlave} \ {None})
      /\ UNCHANGED <<failed, dirty, destroyed, gen, currentSlave, batch,
                     deferred, timers, exited>>
  BY <1>0 DEF DisconnectSlave, ImportFromSQLDump
<1>2. /\ ConnectionInv'
      /\ attached' = None /\ initialized' = initialized
      /\ closed' = closed \cup ({currentSlave} \ {None})
  BY <1>1, DisconnectLive
<1>3. pc'[p] \in {"idle", "importing"}
  BY <1>t DEF DisconnectSlave, ImportFromSQLDump, Return, CallerTypeOK
<1>4. TimerInv'
  BY <1>0, <1>1, <1>2 DEF LiveInv, TimerInv
<1>5. SupplyInv'
  BY <1>0, <1>1, <1>2 DEF LiveInv, SupplyInv
<1>6. AwaitInv'
  BY <1>0, <1>3 DEF AwaitInv
<1> QED
  BY <1>1, <1>2, <1>4, <1>5, <1>6 DEF LiveInv, ProcessSurvives

(* Both operations that reopen the current slave find no timer for it. *)
LEMMA BackLive ==
  ASSUME OneCaller, IInv, LiveInv, NEW p \in Callers,
         ReconnectSlave(p) \/ ImportLoaded(p)
  PROVE  LiveInv'
<1>1. pc[p] \in {"idle", "importing"} /\ currentSlave # None
  BY DEF ReconnectSlave, ImportLoaded, Begin, IInv, CallerInv
<1>2. deferred = 0 /\ (batch = "queued" => 0 \notin dirty)
  BY <1>1 DEF LiveInv, SupplyInv, OneCaller
<1>3. /\ ReopenAndReinitialize(p)
      /\ UNCHANGED <<currentSlave, destroyed, timers, attached, exited, failed,
                     batch, deferred, dirty, pick>>
  BY DEF ReconnectSlave, ImportLoaded
<1> QED
  BY <1>1, <1>2, <1>3, ReopenLive

(* The slave a switch waited for is a new one: no timer, never closed. *)
LEMMA TakeLive ==
  ASSUME OneCaller, IInv, SoloInv, LiveInv, NEW p \in Callers, TakeReady(p)
  PROVE  LiveInv'
<1>t. PoolTypeOK /\ CallerTypeOK /\ SlaveInv
  BY DEF IInv, TypeOK
<1>0. \A q \in Callers : q = p
  BY DEF OneCaller
<1>1. /\ pc[p] = "settled" /\ MayTake(p) /\ attached = None
      /\ pick[p] \notin closed \cup destroyed
      /\ \A t \in timers : t[1] # pick[p]
  BY <1>t DEF TakeReady, LiveInv, AwaitInv, SoloInv, MayTake, SlaveInv
<1>2. /\ currentSlave' = pick[p] /\ initialized' = initialized
      /\ pc' = [pc EXCEPT ![p] = "granted"]
      /\ UNCHANGED <<failed, closed, destroyed, gen, open, batch, timers,
                     attached, exited, pick, target>>
  BY <1>1 DEF TakeReady, Await, initialized
<1>3. pc'[p] = "granted"
  BY <1>t, <1>2 DEF CallerTypeOK
<1>4. ConnectionInv'
  BY <1>1, <1>2
     DEF LiveInv, ConnectionInv, StorageOnLiveSlave, ConnectionOf
<1>5. TimerInv'
  BY <1>1, <1>2 DEF LiveInv, TimerInv
<1>6. SupplyInv'
  BY <1>2, <1>3 DEF LiveInv, SupplyInv
<1>7. AwaitInv'
  BY <1>0, <1>1, <1>2, <1>3 DEF AwaitInv
<1> QED
  BY <1>2, <1>4, <1>5, <1>6, <1>7 DEF LiveInv, ProcessSurvives

(* Nobody closed it before its managed items are read. *)
LEMMA ItemsLive ==
  ASSUME OneCaller, IInv, SoloInv, LiveInv, NEW p \in Callers,
         GetManagedItems(p)
  PROVE  LiveInv'
<1>t. PoolTypeOK /\ CallerTypeOK /\ SlaveInv /\ CallerInv
  BY DEF IInv, TypeOK
<1>0. \A q \in Callers : q = p
  BY DEF OneCaller
<1>1. /\ pc[p] = "granted" /\ pick[p] = currentSlave
      /\ pick[p] \in dirty \ closed
      /\ ConnectionOf(pick[p]) \in open
  BY <1>t
     DEF GetManagedItems, LiveInv, AwaitInv, ConnectionInv, SoloInv, CallerInv,
         SlaveInv
<1>2. /\ pc' = [pc EXCEPT ![p] = "authenticating"]
      /\ target' = [target EXCEPT ![p] = ConnectionOf(currentSlave)]
      /\ UNCHANGED <<poolVars, attached, exited, pick>>
  BY <1>1 DEF GetManagedItems, Reinitialize
<1>3. /\ pc'[p] = "authenticating"
      /\ target'[p] = ConnectionOf(currentSlave)
  BY <1>t, <1>2 DEF CallerTypeOK
<1>4. /\ UNCHANGED <<failed, dirty, closed, destroyed, gen, open,
                     currentSlave, batch, timers>>
      /\ initialized' = initialized
  BY <1>2 DEF poolVars, initialized
<1>5. ConnectionInv'
  BY <1>2, <1>4 DEF LiveInv, ConnectionInv, StorageOnLiveSlave, ConnectionOf
<1>6. TimerInv'
  BY <1>0, <1>1, <1>4 DEF LiveInv, TimerInv
<1>7. SupplyInv'
  BY <1>3, <1>4 DEF LiveInv, SupplyInv
<1>8. AwaitInv'
  BY <1>0, <1>1, <1>3, <1>4 DEF AwaitInv, ConnectionOf
<1> QED
  BY <1>2, <1>5, <1>6, <1>7, <1>8 DEF LiveInv, ProcessSurvives

(* The storage connects to the current slave, which is still open, and by
   then the pool has constructed what it owes. *)
LEMMA AttachLive ==
  ASSUME OneCaller, IInv, LiveInv, NEW p \in Callers, Attach(p)
  PROVE  LiveInv'
<1>t. PoolTypeOK /\ CallerTypeOK /\ SlaveInv
  BY DEF IInv, TypeOK
<1>0. \A q \in Callers : q = p
  BY DEF OneCaller
<1>1. /\ pc[p] = "authenticating" /\ deferred = 0 /\ batch # "queued"
      /\ attached' = target[p] /\ UNCHANGED <<poolVars, exited>>
  BY DEF Attach, IOTurn
<1>2. /\ UNCHANGED <<failed, dirty, closed, destroyed, gen, open,
                     currentSlave, batch, timers, deferred>>
      /\ initialized' = initialized
  BY <1>1 DEF poolVars, initialized
<1>3. /\ target[p] = ConnectionOf(currentSlave)
      /\ currentSlave \in initialized \ (closed \cup destroyed)
      /\ \A t \in timers : t[1] # currentSlave
      /\ ConnectionOf(currentSlave) \in open
  <2>1. /\ target[p] = ConnectionOf(currentSlave)
        /\ currentSlave \in initialized \ closed
    BY <1>t, <1>1 DEF LiveInv, AwaitInv, SlaveInv
  <2>2. currentSlave \notin destroyed \cup {t[1] : t \in timers}
    BY <1>0, <1>1 DEF LiveInv, TimerInv
  <2> QED
    BY <2>1, <2>2 DEF LiveInv, ConnectionInv
<1>4. pc'[p] \in {"idle", "migrating"}
  BY <1>t DEF Attach, Return, Await, CallerTypeOK
<1>5. ConnectionInv'
  BY <1>1, <1>2, <1>3
     DEF LiveInv, ConnectionInv, StorageOnLiveSlave, ConnectionOf
<1>6. TimerInv'
  BY <1>2, <1>3 DEF LiveInv, TimerInv
<1>7. SupplyInv'
  BY <1>1, <1>2 DEF LiveInv, SupplyInv
<1>8. AwaitInv'
  BY <1>0, <1>4 DEF AwaitInv
<1> QED
  BY <1>1, <1>5, <1>6, <1>7, <1>8 DEF LiveInv, ProcessSurvives

(* An import ends, whatever came of it. *)
LEMMA ImportEndsLive ==
  ASSUME OneCaller, IInv, LiveInv, NEW p \in Callers,
         ImportFailed(p) \/ MigrateImported(p)
  PROVE  LiveInv'
<1>t. CallerTypeOK
  BY DEF IInv, TypeOK
<1>0. \A q \in Callers : q = p
  BY DEF OneCaller
<1>1. /\ pc[p] \in {"importing", "migrating"} /\ pc'[p] = "idle"
      /\ UNCHANGED <<poolVars, attached, exited>>
  BY <1>t DEF ImportFailed, MigrateImported, Return, CallerTypeOK
<1>2. /\ UNCHANGED <<failed, dirty, closed, destroyed, gen, open,
                     currentSlave, batch, timers, deferred>>
      /\ initialized' = initialized
  BY <1>1 DEF poolVars, initialized
<1>3. ConnectionInv'
  BY <1>1, <1>2 DEF LiveInv, ConnectionInv, StorageOnLiveSlave, ConnectionOf
<1>4. TimerInv' /\ SupplyInv'
  BY <1>0, <1>1, <1>2 DEF LiveInv, TimerInv, SupplyInv
<1>5. AwaitInv'
  BY <1>0, <1>1 DEF AwaitInv
<1> QED
  BY <1>1, <1>3, <1>4, <1>5 DEF LiveInv, ProcessSurvives

(* What is being authenticated is open, and not dropped. *)
LEMMA NeverRefused ==
  ASSUME OneCaller, IInv, LiveInv, NEW p \in Callers
  PROVE  ~AuthenticateFails(p)
<1>1. SUFFICES ASSUME AuthenticateFails(p)  PROVE FALSE
  OBVIOUS
<1>2. /\ pc[p] = "authenticating"
      /\ target[p] \notin open \/ target[p][1] \in destroyed
  BY <1>1 DEF AuthenticateFails, LiveInv, AwaitInv
<1>3. /\ target[p] = ConnectionOf(currentSlave)
      /\ currentSlave \in initialized \ closed
  BY <1>2 DEF LiveInv, AwaitInv, IInv, SlaveInv
<1>4. target[p] \in open
  BY <1>3 DEF LiveInv, ConnectionInv
<1>5. currentSlave \notin destroyed
  BY <1>2 DEF LiveInv, TimerInv, OneCaller
<1> QED
  BY <1>2, <1>3, <1>4, <1>5 DEF ConnectionOf

(* No step of the only user, of the pool or of a timer breaks it. *)
LEMMA NextLiveInv ==
  ASSUME OneCaller, ~CreationMayFail, IInv, LevelInv, SoloInv, LiveInv,
         [Next]_vars
  PROVE  LiveInv'
<1>1. ASSUME NEW s \in Constructed, SlaveReady(s) \/ SlaveFailed(s)
      PROVE  LiveInv'
  BY <1>1, ReadyLive DEF SlaveFailed
<1>2. CASE AddPrebuffer \/ AddSlave
  BY <1>2, AddLive
<1>3. ASSUME NEW t \in timers, DestroyTimer(t)
      PROVE  LiveInv'
  BY <1>3, TimerLive
<1>4. ASSUME NEW p \in Callers, Call(p)
      PROVE  LiveInv'
  BY <1>4, SwitchLive, LeaveLive, BackLive DEF Call
<1>5. ASSUME NEW p \in Callers, Continue(p)
      PROVE  LiveInv'
  BY <1>5, TakeLive, ItemsLive, AttachLive, NeverRefused, ImportEndsLive,
     BackLive DEF Continue
<1>6. CASE UNCHANGED vars
  <2>1. /\ UNCHANGED <<failed, dirty, closed, destroyed, gen, open,
                       currentSlave, batch, timers, deferred>>
        /\ UNCHANGED <<attached, exited, pc, pick, target>>
        /\ initialized' = initialized
    BY <1>6 DEF vars, poolVars, callerVars, initialized
  <2> QED
    BY <2>1
       DEF LiveInv, ProcessSurvives, ConnectionInv, TimerInv, SupplyInv,
           AwaitInv, StorageOnLiveSlave, ConnectionOf, MayTake
<1> QED
  BY <1>1, <1>2, <1>3, <1>4, <1>5, <1>6 DEF Next, Background

(* It holds from the start, and so with what it needs always. *)
LEMMA AlwaysLive ==
  ASSUME OneCaller, ~CreationMayFail
  PROVE  Spec => []LiveInv
<1>1. Init => LevelInv
  BY FS_EmptySet, PrebufferAssumption DEF Init, LevelInv
<1>2. Init => SoloInv
  BY DEF Init, SoloInv
<1>3. Init => LiveInv
  BY DEF Init, LiveInv, ProcessSurvives, ConnectionInv, StorageOnLiveSlave,
         TimerInv, SupplyInv, AwaitInv, initialized
<1>4. IInv /\ SoloInv /\ [Next]_vars => SoloInv'
  BY NextSoloInv
<1>5. IInv /\ LevelInv /\ SoloInv /\ LiveInv /\ [Next]_vars => LiveInv'
  BY NextLiveInv
<1> QED
  BY InitIInv, NextIInv, NextLevelInv, <1>1, <1>2, <1>3, <1>4, <1>5, PTL
     DEF Spec

(* With one user, and databases that PostgreSQL does create, nothing that  *)
(* TestStrategy does ends the process: no destroy timer of SlaveDB.ts      *)
(* meets a slave that is open again, and initConnectionAdapter never gives *)
(* up on a connection that was closed or whose database was dropped.       *)
THEOREM Survives ==
  ASSUME OneCaller, ~CreationMayFail
  PROVE  Spec => []ProcessSurvives
<1>1. LiveInv => ProcessSurvives
  BY DEF LiveInv
<1> QED
  BY <1>1, AlwaysLive, PTL

(* With one user, and databases that PostgreSQL does create, the storage   *)
(* that tests use is connected to the slave PGTemplatePool.ts handed out   *)
(* last, over its newest connection, neither closed nor dropped since.     *)
THEOREM Live ==
  ASSUME OneCaller, ~CreationMayFail
  PROVE  Spec => []StorageOnLiveSlave
<1>1. LiveInv => StorageOnLiveSlave
  BY DEF LiveInv, ConnectionInv
<1> QED
  BY <1>1, AlwaysLive, PTL
=============================================================================
