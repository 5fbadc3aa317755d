---------------------------- MODULE TemplatePool ----------------------------
(***************************************************************************)
(* The pool of isolated PostgreSQL databases that the test strategy hands  *)
(* to tests (PGTemplatePool.ts, SlaveDB.ts), the operations of TestStrategy *)
(* that use it, and the storage they connect and disconnect.               *)
(*                                                                         *)
(* A step is what node runs between two awaits.  Continuations of settled  *)
(* promises and setImmediate callbacks run before a completion of I/O that *)
(* arrives after they were queued: IOTurn.                                 *)
(***************************************************************************)
EXTENDS Integers, Sequences, FiniteSets

CONSTANTS
  Callers,          \* concurrent users of one TestStrategy
  None,             \* null
  Prebuffer,        \* prebufferCount
  MaxCalls,         \* bound: calls of the TestStrategy that are explored
  DestroyOnSwitch,  \* destroySlaveDBsOnSwitch
  CreationMayFail   \* may the CREATE DATABASE of a slave fail?

Slave == Nat                (* SlaveDB.id *)
Connection == Slave \X Nat  (* the n-th Sequelize instance a slave made *)

ASSUME PrebufferAssumption == Prebuffer \in Nat \ {0}
ASSUME MaxCallsAssumption == MaxCalls \in Nat
ASSUME FlagsAssumption == /\ DestroyOnSwitch \in BOOLEAN
                          /\ CreationMayFail \in BOOLEAN
ASSUME NoneAssumption == None \notin Slave /\ None \notin Connection

VARIABLES
  count,        \* constructedSlavesCount
  failed,       \* slaves whose _ready promise is rejected
  dirty,        \* slaves with _dirty
  closed,       \* slaves with _closed
  destroyed,    \* slaves with _destroyed
  gen,          \* calls of initialize(), of the slaves with _initialized
  open,         \* connections not closed yet
  currentSlave,
  batch,        \* addSlavesDeferred(prebufferCount - 1)
  deferred,     \* pending setImmediate callbacks of addSlaveDeferred
  timers,       \* pending destroy timers: <<slave, call that set it>>
  awaited,      \* slaves being created that a Promise.any was ever given
  attached,     \* the storage's _sequelize
  exited,       \* has process.exit been called?
  calls,        \* calls started so far
  pc, op,       \* of a caller: where it is, in which operation
  cands,        \* the promises its Promise.any still waits for
  pick,         \* the slave that settled them, None for a rejection
  target,       \* the connection being authenticated
  outcome,      \* how the caller's last operation ended
  grants        \* history: the slaves handed out, in order

poolVars == <<count, failed, dirty, closed, destroyed, gen, open,
              currentSlave, batch, deferred, timers, awaited>>
callerVars == <<pc, op, cands, pick, target, outcome>>
vars == <<poolVars, attached, exited, calls, callerVars, grants>>

Constructed == 0 .. count - 1
initialized == DOMAIN gen
Settling == {"settled", "granted"}
Location == {"idle", "waiting", "authenticating", "refused", "importing",
             "migrating"} \cup Settling

PoolTypeOK ==
  /\ count \in Nat \ {0}
  /\ failed \subseteq Slave
  /\ dirty \subseteq Slave
  /\ closed \subseteq Slave
  /\ destroyed \subseteq Slave
  /\ initialized \subseteq Slave /\ gen \in [initialized -> Nat]
  /\ open \subseteq Connection
  /\ currentSlave \in Slave \cup {None}
  /\ batch \in {"unscheduled", "queued", "done"}
  /\ deferred \in Nat
  /\ timers \subseteq Slave \X Nat
  /\ awaited \subseteq Slave
  /\ attached \in Connection \cup {None}
  /\ exited \in BOOLEAN
  /\ calls \in Nat

CallerTypeOK ==
  /\ pc \in [Callers -> Location]
  /\ op \in [Callers -> {"none", "switch", "disconnect", "reconnect",
                         "import"}]
  /\ cands \in [Callers -> SUBSET Slave]
  /\ pick \in [Callers -> Slave \cup {None}]
  /\ target \in [Callers -> Connection \cup {None}]
  /\ outcome \in [Callers -> {"none", "ok", "unrecoverable", "error"}]

HistoryTypeOK == grants \in Seq(Slave)

TypeOK == PoolTypeOK /\ CallerTypeOK /\ HistoryTypeOK

(* The pool was just constructed: one slave is being created. *)
Init ==
  /\ count = 1
  /\ failed = {} /\ dirty = {} /\ closed = {}
  /\ destroyed = {} /\ open = {} /\ timers = {} /\ awaited = {}
  /\ gen = [s \in {} |-> 0]
  /\ currentSlave = None
  /\ batch = "unscheduled"
  /\ deferred = 0
  /\ attached = None
  /\ exited = FALSE
  /\ calls = 0
  /\ pc = [p \in Callers |-> "idle"]
  /\ op = [p \in Callers |-> "none"]
  /\ cands = [p \in Callers |-> {}]
  /\ pick = [p \in Callers |-> None]
  /\ target = [p \in Callers |-> None]
  /\ outcome = [p \in Callers |-> "none"]
  /\ grants = <<>>

-----------------------------------------------------------------------------
(* Variants of the helpers below, each with one plausible mistake: what    *)
(* the properties at the end rule out.                                     *)

(* prebufferCount slaves after the first one *)
RestWithFirst == Prebuffer

(* only one of the promises that wait for a slave settles *)
OneWaiter(s) ==
  LET waiters == {p \in Callers : pc[p] = "waiting" /\ s \in cands[p]} IN
  {p \in waiters : p = CHOOSE q \in waiters : TRUE}

(* flagDirty does not refuse *)
MayTakeUsed(p) == pick[p] # None

(* addSlaveDeferred by a timer: I/O completes before it *)
AnyTurn == ~exited

(* the storage keeps its connection *)
CloseOnly(S) ==
  /\ attached' = attached
  /\ open' = open \ {<<s, gen[s]>> : s \in S}
  /\ closed' = closed \cup S

(* the slave is not closed *)
DisconnectOnly(S) ==
  /\ attached' = None
  /\ open' = open \ {attached}
  /\ closed' = closed

(* every slave is closed *)
DisconnectAndCloseAll(S) ==
  /\ attached' = None
  /\ open' = {}
  /\ closed' = initialized

-----------------------------------------------------------------------------
(* Helpers *)

ConnectionOf(s) == <<s, gen[s]>>

(* What the constructor leaves to addSlavesDeferred. *)
Rest == Prebuffer - 1

(* The slaves getNextSlaveDBName asks Promise.any to wait for. *)
Candidates == Constructed \ (dirty \cup failed)

(* The callers that a settled _ready of s concerns. *)
Waiters(s) == {p \in Callers : pc[p] = "waiting" /\ s \in cands[p]}

(* Promise.any resolved, and flagDirty does not refuse the slave. *)
MayTake(p) == pick[p] # None /\ pick[p] \notin dirty

IOTurn ==
  /\ ~exited
  /\ deferred = 0
  /\ batch # "queued"
  /\ \A p \in Callers : pc[p] \notin Settling

Begin(p, operation) ==
  /\ ~exited
  /\ pc[p] = "idle"
  /\ calls < MaxCalls
  /\ calls' = calls + 1
  /\ op' = [op EXCEPT ![p] = operation]

(* The call ends, and its local variables with it. *)
Return(p, result) ==
  /\ pc' = [pc EXCEPT ![p] = "idle"]
  /\ outcome' = [outcome EXCEPT ![p] = result]
  /\ cands' = [cands EXCEPT ![p] = {}]
  /\ pick' = [pick EXCEPT ![p] = None]
  /\ target' = [target EXCEPT ![p] = None]

Await(p, location) ==
  /\ pc' = [pc EXCEPT ![p] = location]
  /\ UNCHANGED <<outcome, cands, pick, target>>

(* StorageAdapter.disconnect followed by SlaveDB.close of the slaves S. *)
DisconnectAndClose(S) ==
  /\ attached' = None
  /\ open' = open \ ({attached} \cup {ConnectionOf(s) : s \in S})
  /\ closed' = closed \cup S

(* reinitialize(c), when o are the open connections. *)
Reinitialize(p, c, o) ==
  /\ target' = [target EXCEPT ![p] = c]
  /\ pc' = [pc EXCEPT ![p] = IF c \in o THEN "authenticating" ELSE "refused"]

(* SlaveDB.reopen of the current slave, then reinitialize with its items. *)
ReopenAndReinitialize(p) ==
  IF currentSlave \in closed
  THEN LET c == <<currentSlave, gen[currentSlave] + 1>> IN
       /\ gen' = [gen EXCEPT ![currentSlave] = @ + 1]
       /\ open' = open \cup {c}
       /\ closed' = closed \ {currentSlave}
       /\ Reinitialize(p, c, open \cup {c})
  ELSE /\ Reinitialize(p, ConnectionOf(currentSlave), open)
       /\ UNCHANGED <<gen, open, closed>>

-----------------------------------------------------------------------------
(* Background work of the pool *)

(* The databases created: initialize() and _ready resolves; a pending      *)
(* Promise.any that waits for it settles, and slave 0 schedules the rest.  *)
SlaveReady(s) ==
  /\ IOTurn
  /\ s \in Constructed \ (initialized \cup failed)
  /\ gen' = [t \in initialized \cup {s} |-> IF t = s THEN 1 ELSE gen[t]]
  /\ open' = open \cup {<<s, 1>>}
  /\ awaited' = awaited \ {s}
  /\ batch' = IF s = 0 THEN "queued" ELSE batch
  /\ LET waiters == Waiters(s) IN
     /\ pc' = [p \in Callers |-> IF p \in waiters THEN "settled" ELSE pc[p]]
     /\ pick' = [p \in Callers |-> IF p \in waiters THEN s ELSE pick[p]]
  /\ UNCHANGED <<count, failed, dirty, closed, destroyed, currentSlave,
                 deferred, timers, attached, exited, calls, op, cands,
                 target, outcome, grants>>

(* The creation fails and _ready rejects.  Somebody handles the rejection  *)
(* if a Promise.any was ever given this slave, also when another slave has *)
(* settled that since; nobody ever handles that of slave 0's derived       *)
(* promise.  Unhandled, it ends the process at once (setup.ts: timeout 0). *)
SlaveFailed(s) ==
  /\ CreationMayFail
  /\ IOTurn
  /\ s \in Constructed \ (initialized \cup failed)
  /\ failed' = failed \cup {s}
  /\ awaited' = awaited \ {s}
  /\ LET waiters == Waiters(s) IN
     /\ pc' = [p \in Callers |->
                 IF p \in waiters /\ cands[p] = {s} THEN "settled" ELSE pc[p]]
     /\ pick' = [p \in Callers |-> IF p \in waiters THEN None ELSE pick[p]]
     /\ cands' = [p \in Callers |-> cands[p] \ {s}]
     /\ exited' = (s \notin awaited \/ s = 0)
  /\ UNCHANGED <<count, dirty, closed, destroyed, gen, open, currentSlave,
                 batch, deferred, timers, attached, calls, op, target,
                 outcome, grants>>

(* The setImmediate callback of addSlavesDeferred(prebufferCount - 1). *)
AddPrebuffer ==
  /\ ~exited
  /\ batch = "queued"
  /\ batch' = "done"
  /\ count' = count + Rest
  /\ UNCHANGED <<failed, dirty, closed, destroyed, gen, open, currentSlave,
                 deferred, timers, attached, exited, awaited, calls,
                 callerVars, grants>>

(* The setImmediate callback of addSlaveDeferred. *)
AddSlave ==
  /\ ~exited
  /\ deferred > 0
  /\ deferred' = deferred - 1
  /\ count' = count + 1
  /\ UNCHANGED <<failed, dirty, closed, destroyed, gen, open, currentSlave,
                 batch, timers, attached, exited, awaited, calls, callerVars,
                 grants>>

(* SWITCH_DB_DESTROY_AFTER_MS later: destroy(), whose throw nobody catches. *)
DestroyTimer(t) ==
  /\ ~exited
  /\ t \in timers
  /\ timers' = timers \ {t}
  /\ IF t[1] \in closed
     THEN destroyed' = destroyed \cup {t[1]} /\ UNCHANGED exited
     ELSE exited' = TRUE /\ UNCHANGED destroyed
  /\ UNCHANGED <<count, failed, dirty, closed, gen, open, currentSlave, batch,
                 deferred, awaited, attached, calls, callerVars, grants>>

-----------------------------------------------------------------------------
(* Operations of TestStrategy *)

(* switchToNewSlaveDB up to its first await: the storage disconnects, the  *)
(* current slave closes (it was handed out, so it is initialized) and may  *)
(* be destroyed later.  Promise.any looks at the slaves not dirty by now:  *)
(* the first of those already initialized settles it at once, none left    *)
(* rejects it.                                                             *)
SwitchToNewSlaveDB(p) ==
  /\ Begin(p, "switch")
  /\ DisconnectAndClose({currentSlave} \ {None})
  /\ timers' = IF DestroyOnSwitch /\ currentSlave # None
               THEN timers \cup {<<currentSlave, calls>>} ELSE timers
  /\ cands' = [cands EXCEPT ![p] = Candidates]
  /\ awaited' = awaited \cup (Candidates \ initialized)
  /\ LET ready == Candidates \cap initialized IN
     /\ \/ /\ ready # {}
           /\ \E s \in ready :
                /\ \A t \in ready : s <= t
                /\ pick' = [pick EXCEPT ![p] = s]
           /\ pc' = [pc EXCEPT ![p] = "settled"]
        \/ /\ ready = {} /\ Candidates # {}
           /\ pc' = [pc EXCEPT ![p] = "waiting"]
           /\ UNCHANGED pick
        \/ /\ Candidates = {}
           /\ pick' = [pick EXCEPT ![p] = None]
           /\ pc' = [pc EXCEPT ![p] = "settled"]
  /\ UNCHANGED <<count, failed, dirty, destroyed, gen, currentSlave, batch,
                 deferred, exited, target, outcome, grants>>

(* getNextSlaveDBName after its await: a slave that a caller of the same   *)
(* turn took first is refused by flagDirty, and every error ends the call. *)
TakeReady(p) ==
  /\ ~exited
  /\ pc[p] = "settled"
  /\ IF MayTake(p)
     THEN /\ dirty' = dirty \cup {pick[p]}
          /\ currentSlave' = pick[p]
          /\ deferred' = deferred + 1
          /\ grants' = Append(grants, pick[p])
          /\ Await(p, "granted")
     ELSE /\ Return(p, "unrecoverable")
          /\ UNCHANGED <<dirty, currentSlave, deferred, grants>>
  /\ UNCHANGED <<count, failed, closed, destroyed, gen, open, batch, timers,
                 attached, exited, awaited, calls, op>>

(* switchToNewSlaveDB continues: getManagedItems throws if somebody closed *)
(* the slave in between.                                                   *)
GetManagedItems(p) ==
  /\ ~exited
  /\ pc[p] = "granted"
  /\ IF pick[p] \in closed
     THEN Return(p, "error")
     ELSE /\ Reinitialize(p, ConnectionOf(pick[p]), open)
          /\ UNCHANGED <<outcome, cands, pick>>
  /\ UNCHANGED <<poolVars, attached, exited, calls, op, grants>>

(* authenticate succeeds, which it may still report after a close.         *)
Attach(p) ==
  /\ IOTurn
  /\ pc[p] = "authenticating"
  /\ attached' = target[p]
  /\ IF op[p] = "import"
     THEN Await(p, "migrating")
     ELSE Return(p, "ok")
  /\ UNCHANGED <<poolVars, exited, calls, op, grants>>

(* No attempt to authenticate succeeds on a closed connection or a dropped *)
(* database: after the last retry initConnectionAdapter exits the process. *)
AuthenticateFails(p) ==
  /\ IOTurn
  /\ \/ pc[p] = "refused"
     \/ /\ pc[p] = "authenticating"
        /\ target[p] \notin open \/ target[p][1] \in destroyed
  /\ exited' = TRUE
  /\ UNCHANGED <<poolVars, attached, calls, callerVars, grants>>

DisconnectSlave(p) ==
  /\ currentSlave # None
  /\ Begin(p, "disconnect")
  /\ DisconnectAndClose({currentSlave})
  /\ Return(p, "ok")
  /\ UNCHANGED <<count, failed, dirty, destroyed, gen, currentSlave, batch,
                 deferred, timers, exited, awaited, grants>>

ReconnectSlave(p) ==
  /\ currentSlave # None
  /\ Begin(p, "reconnect")
  /\ ReopenAndReinitialize(p)
  /\ UNCHANGED <<count, failed, dirty, destroyed, currentSlave, batch,
                 deferred, timers, attached, exited, awaited, cands, pick,
                 outcome, grants>>

(* importFromSQLDump up to the psql command it runs against that database. *)
ImportFromSQLDump(p) ==
  /\ currentSlave # None
  /\ Begin(p, "import")
  /\ DisconnectAndClose({currentSlave})
  /\ pc' = [pc EXCEPT ![p] = "importing"]
  /\ UNCHANGED <<count, failed, dirty, destroyed, gen, currentSlave, batch,
                 deferred, timers, exited, awaited, cands, pick, target,
                 outcome, grants>>

(* psql wrote to stderr: the call throws and leaves the slave closed.      *)
ImportFailed(p) ==
  /\ IOTurn
  /\ pc[p] = "importing"
  /\ Return(p, "error")
  /\ UNCHANGED <<poolVars, attached, exited, calls, op, grants>>

ImportLoaded(p) ==
  /\ IOTurn
  /\ pc[p] = "importing"
  /\ ReopenAndReinitialize(p)
  /\ UNCHANGED <<count, failed, dirty, destroyed, currentSlave, batch,
                 deferred, timers, attached, exited, awaited, calls, op, cands,
                 pick, outcome, grants>>

(* The migrations that are newer than the dump run on what is connected    *)
(* now; a disconnected storage has no umzug to run them with.              *)
MigrateImported(p) ==
  /\ IOTurn
  /\ pc[p] = "migrating"
  /\ Return(p, IF attached = None THEN "error" ELSE "ok")
  /\ UNCHANGED <<poolVars, attached, exited, calls, op, grants>>

-----------------------------------------------------------------------------
Background ==
  \/ \E s \in Constructed : SlaveReady(s) \/ SlaveFailed(s)
  \/ AddPrebuffer
  \/ AddSlave
  \/ \E t \in timers : DestroyTimer(t)

Call(p) ==
  \/ SwitchToNewSlaveDB(p)
  \/ DisconnectSlave(p)
  \/ ReconnectSlave(p)
  \/ ImportFromSQLDump(p)

Continue(p) ==
  \/ TakeReady(p)
  \/ GetManagedItems(p)
  \/ Attach(p)
  \/ AuthenticateFails(p)
  \/ ImportFailed(p)
  \/ ImportLoaded(p)
  \/ MigrateImported(p)

Next == Background \/ \E p \in Callers : Call(p) \/ Continue(p)

Spec == Init /\ [][Next]_vars

(* Node keeps running queued callbacks, PostgreSQL and psql answer; nobody *)
(* has to call anything, and no timer has to fire.                         *)
Fairness ==
  /\ WF_vars(AddPrebuffer)
  /\ WF_vars(AddSlave)
  /\ \A s \in 0 .. Prebuffer + MaxCalls : WF_vars(SlaveReady(s))
  /\ \A p \in Callers : WF_vars(Continue(p))

FairSpec == Spec /\ Fairness

-----------------------------------------------------------------------------
(* Properties of every use of the pool *)

(* Isolation: getNextSlaveDBName never hands the same database to two      *)
(* switches, not even to two that start in the same turn.                  *)
NoDatabaseHandedOutTwice ==
  \A i, j \in DOMAIN grants : grants[i] = grants[j] => i = j

(* The pool keeps prebufferCount databases ahead of its users: those not   *)
(* handed out, and the creations it still has scheduled, always add up.    *)
PoolLevel ==
  Cardinality(Constructed \ dirty) + deferred
    + (IF batch = "done" THEN 0 ELSE Prebuffer - 1) = Prebuffer

(* Only a database that some switch took is ever closed or dropped, so a   *)
(* prebuffered one is usable whenever Promise.any picks it.                *)
OnlyUsedDatabasesEnd ==
  closed \cup destroyed \subseteq dirty

(* Every operation of the test strategy ends, unless the process does.     *)
CallsEnd ==
  \A p \in Callers : pc[p] # "idle" ~> (pc[p] = "idle" \/ exited)

-----------------------------------------------------------------------------
(* Properties of the sequential use that mocha's hooks make of it, when    *)
(* PostgreSQL creates the databases                                        *)

(* No destroy timer meets a slave reopened in the meantime (its throw      *)
(* would be uncaught) and no connection that was closed is authenticated.  *)
ProcessSurvives == ~exited

(* What the storage is connected to is the current slave, open, and not    *)
(* one that a destroy timer drops.                                         *)
StorageOnLiveSlave ==
  attached # None =>
    /\ currentSlave \in initialized \ (closed \cup destroyed)
    /\ attached = ConnectionOf(currentSlave)
    /\ attached \in open

(* A switch that starts ends with the storage connected: the pool never    *)
(* runs dry ("Unrecoverable Error"), even with a single prebuffered slave.*)
SwitchConnects ==
  \A p \in Callers :
    (pc[p] # "idle" /\ op[p] = "switch")
      ~> (pc[p] = "idle" /\ outcome[p] = "ok")

(* All told: the storage moves from one fresh database to the next.        *)
Isolated == INSTANCE IsolatedDatabases
              WITH Databases <- Slave, given <- dirty, current <- currentSlave,
                   connected <- IF attached = None THEN None ELSE attached[1]
ImplementsIsolation == Isolated!Spec
=============================================================================
