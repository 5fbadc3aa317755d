------------------------------ MODULE LifeCycle ------------------------------
(***************************************************************************)
(* HookLifeCycle and Api: hooks are initialized group by group, all hooks  *)
(* of a group at once; then the server starts.  A signal stops the server  *)
(* and destroys the hooks in reverse order, resetHooks destroys and        *)
(* reinitializes them.  Each of these runs on its own:                     *)
(*   "boot"   initHooks, by the constructor of Api                         *)
(*   "reset"  resetHooks, by the test set-up (TestRun)                     *)
(*   signals  killHooks, by shutdownServer                                 *)
(* In tests the storage belongs to the test strategy, and the storage hook *)
(* only waits for it.  The schema hook translates the storage's models:    *)
(* built on the models of one connection it is of no use for another.      *)
(***************************************************************************)
EXTENDS Naturals, FiniteSets

CONSTANTS
  Hooks, Storage, Schema,  \* hooks, with those of the storage and of GraphQL
  Group,                   \* the number a hook's file name begins with
  Signals                  \* bound: SIGINT and SIGTERM that may arrive

ASSUME HooksAssumption ==
  /\ {Storage, Schema} \subseteq Hooks
  /\ IsFiniteSet(Hooks)
  /\ Group \in [Hooks -> 0 .. 99]   \* two digits: strings sort like numbers
  /\ Group[Storage] < Group[Schema]
  /\ {"boot", "reset"} \cap Signals = {}

VARIABLES
  env,           \* "production" or "test"
  exit,          \* how the process ended
  rejected,      \* was a rejection not handled? (the process will exit)
  server,        \* hapi's server
  initialized,   \* _hooksInitialized
  resolved,      \* is the storage's promise isInitialized resolved?
  active,        \* hooks that are initialized, and not destroyed since
  storage,       \* what the storage is connected to
  schema,        \* the connection whose models the schema is built on
  building,      \* the connection whose models it is being built on
  op, todo,      \* of a run: what it does, the groups it still has to do
  pending,       \* the hooks it waits for
  stop           \* of a signal: the promise of hapi's stop

runVars == <<op, todo, pending>>
hookVars == <<active, storage, schema, building>>
lifeVars == <<env, exit, rejected, server, initialized, resolved, hookVars,
              runVars, stop>>

Runs == {"boot", "reset"} \cup Signals
Groups == {Group[h] : h \in Hooks}
HooksOf(g) == {h \in Hooks : Group[h] = g}
Connection == {"none", "template", "current"}
Going == {"init", "destroy", "reinitialize"}
Alive == exit = "no"

LifeTypeOK ==
  /\ env \in {"production", "test"}
  /\ exit \in {"no", "clean", "failed", "killed", "tests"}
  /\ rejected \in BOOLEAN /\ initialized \in BOOLEAN /\ resolved \in BOOLEAN
  /\ server \in {"off", "starting", "failed", "on", "stopping", "stopped"}
  /\ active \subseteq Hooks
  /\ storage \in Connection /\ building \in Connection
  /\ schema \in Connection \cup {"old"}
  /\ op \in [Runs -> Going \cup {"idle", "done", "failed"}]
  /\ todo \in [Runs -> SUBSET Groups]
  /\ pending \in [Runs -> SUBSET Hooks]
  /\ stop \in [Signals -> {"none", "waits", "resolved", "rejected"}]

LifeInit ==
  /\ env \in {"production", "test"}
  /\ exit = "no" /\ rejected = FALSE /\ server = "off"
  /\ initialized = FALSE /\ resolved = FALSE
  /\ active = {} /\ storage = "none" /\ schema = "none" /\ building = "none"
  /\ op = [r \in Runs |-> IF r = "boot" THEN "init" ELSE "idle"]
  /\ todo = [r \in Runs |-> IF r = "boot" THEN Groups ELSE {}]
  /\ pending = [r \in Runs |-> {}]
  /\ stop = [s \in Signals |-> "none"]

-----------------------------------------------------------------------------
(* Variants of the helpers below, each with a plausible mistake that one   *)
(* of the properties rules out.                                            *)
FirstGroup(G) == CHOOSE g \in G : \A k \in G : g <= k  \* without reverse()
NoWait(h) == h = Schema => building # "none"  \* isInitialized is not awaited
StopOnly(s) == stop[s] = "resolved"           \* killHooks is not awaited
Ignored(fails) == rejected                    \* no handler of rejections
Unresolved(auto) == resolved                  \* reinitialize resolves nothing
AlwaysResolves(auto) == TRUE                  \* so does every initialize

(* Helpers *)

(* _.keys(groupedHooks).sort(), and .reverse() *)
NextUp(G) == CHOOSE g \in G : \A k \in G : g <= k
NextDown(G) == CHOOSE g \in G : \A k \in G : g >= k

(* Hooks whose destroy does something: the storage's does not in tests.    *)
Destroyable == IF env = "test" THEN {Schema} ELSE {Storage, Schema}

(* The getters models and sequelize throw while there is no connection;    *)
(* in tests, the storage hook awaits storage.isInitialized().              *)
CanInit(h) ==
  /\ h = Schema => building # "none"
  /\ h = Storage /\ env = "test" => resolved

StorageAfter(hs) == IF Storage \in hs THEN "none" ELSE storage
SchemaAfter(hs) == IF Schema \in hs THEN "none" ELSE schema

(* The process lives for 10 s after a rejection in production, and not at  *)
(* all in tests; a shutdown ends within 5 s, and it began earlier.         *)
TimerElapsed ==
  env = "production" => \A s \in Signals : op[s] \notin {"destroy", "done"}

(* Promise.all of stop and killHooks in shutdownServer *)
MayExit(s) == op[s] = "done" /\ stop[s] = "resolved"

(* A promise may be rejected that nobody handles. *)
Unhandled(fails) == rejected \/ fails

(* initialize and reinitialize resolve isInitialized, for good *)
Resolves(auto) == resolved \/ auto

-----------------------------------------------------------------------------
(* The groups: Promise.each over them, Promise.all over the hooks of one.  *)

(* The hooks of the next group are called.  Those that have nothing to do  *)
(* are done at once; the schema hook reads the models now.                 *)
StartGroup(r) ==
  LET g == NextUp(todo[r])
      hs == IF op[r] = "init" THEN HooksOf(g) ELSE HooksOf(g) \cap Destroyable
  IN /\ op[r] \in {"init", "reinitialize"}
     /\ pending[r] = {} /\ todo[r] # {}
     /\ todo' = [todo EXCEPT ![r] = @ \ {g}]
     /\ pending' = [pending EXCEPT ![r] = hs]
     /\ building' = IF Schema \in hs THEN storage ELSE building
     /\ UNCHANGED <<env, exit, rejected, server, initialized, resolved, active,
                    storage, schema, op, stop>>

(* A hook is done, also when the run has failed meanwhile. *)
HookReady(r, h) ==
  /\ h \in pending[r] /\ CanInit(h)
  /\ pending' = [pending EXCEPT ![r] = @ \ {h}]
  /\ active' = active \cup {h}
  /\ IF h = Storage /\ env = "production"
     THEN storage' = "current" /\ resolved' = Resolves(TRUE)
     ELSE UNCHANGED <<storage, resolved>>
  /\ schema' = IF h = Schema THEN building ELSE schema
  /\ UNCHANGED <<env, exit, rejected, server, initialized, building, op, todo,
                 stop>>

(* A hook fails: Promise.all and Promise.each reject.  Nobody handles that *)
(* in production (in tests mocha does, see TestRun), and a storage that    *)
(* cannot connect exits the process itself.                                *)
HookFails(r, h) ==
  /\ h \in pending[r] /\ (h = Storage => env = "production")
  /\ pending' = [pending EXCEPT ![r] = @ \ {h}]
  /\ exit' = IF h = Storage THEN "failed" ELSE exit
  /\ op' = [op EXCEPT ![r] = "failed"]
  /\ rejected' = Unhandled(env = "production")
  /\ UNCHANGED <<env, server, initialized, resolved, hookVars, todo, stop>>

(* All hooks are done.  After the first time the server starts. *)
GroupsReady(r) ==
  /\ op[r] \in {"init", "reinitialize"} /\ pending[r] = {} /\ todo[r] = {}
  /\ op' = [op EXCEPT ![r] = "done"]
  /\ initialized' = TRUE
  /\ server' = IF r = "boot" THEN "starting" ELSE server
  /\ UNCHANGED <<env, exit, rejected, resolved, hookVars, todo, pending, stop>>

(* The hooks of the next group are destroyed, none of them awaits.  A hook *)
(* without destroy is skipped.                                             *)
DestroyGroup(r) ==
  LET g == NextDown(todo[r])
      hs == HooksOf(g) \cap Destroyable
  IN /\ op[r] = "destroy" /\ todo[r] # {}
     /\ todo' = [todo EXCEPT ![r] = @ \ {g}]
     /\ active' = active \ hs
     /\ storage' = StorageAfter(hs)
     /\ schema' = SchemaAfter(hs)
     /\ UNCHANGED <<env, exit, rejected, server, initialized, resolved, building,
                    op, pending, stop>>

(* All hooks are destroyed; resetHooks goes on. *)
GroupsDestroyed(r) ==
  /\ op[r] = "destroy" /\ todo[r] = {}
  /\ initialized' = FALSE
  /\ IF r = "reset"
     THEN /\ op' = [op EXCEPT ![r] = "reinitialize"]
          /\ todo' = [todo EXCEPT ![r] = Groups]
     ELSE op' = [op EXCEPT ![r] = "done"] /\ UNCHANGED todo
  /\ UNCHANGED <<env, exit, rejected, server, resolved, hookVars, pending, stop>>

-----------------------------------------------------------------------------
(* The server and the process *)

ServerStarts ==
  /\ server = "starting"
  /\ server' = "on"
  /\ UNCHANGED <<env, exit, rejected, initialized, resolved, hookVars, runVars,
                 stop>>

(* The port is taken, for example. *)
ServerFails ==
  /\ server = "starting"
  /\ server' = "failed"
  /\ rejected' = Unhandled(env = "production")
  /\ UNCHANGED <<env, exit, initialized, resolved, hookVars, runVars, stop>>

(* startServer has not installed its handlers yet: node's default *)
Kill(s) ==
  /\ op[s] = "idle" /\ server \in {"off", "starting", "failed"}
  /\ exit' = "killed"
  /\ UNCHANGED <<env, rejected, server, initialized, resolved, hookVars, runVars,
                 stop>>

(* shutdownServer calls stop and killHooks, which throws when nothing is   *)
(* initialized.  What hapi says to a second stop is open here.             *)
ShutdownServer(s) ==
  /\ op[s] = "idle" /\ server \in {"on", "stopping", "stopped"}
  /\ \E answer \in {"waits", "resolved", "rejected"} :
       /\ (server = "on" => answer = "waits")
       /\ (server = "stopped" => answer # "waits")
       /\ stop' = [stop EXCEPT ![s] = answer]
       /\ rejected' = Unhandled(~initialized \/ answer = "rejected")
  /\ server' = IF server = "on" THEN "stopping" ELSE server
  /\ op' = [op EXCEPT ![s] = IF initialized THEN "destroy" ELSE "failed"]
  /\ todo' = [todo EXCEPT ![s] = IF initialized THEN Groups ELSE {}]
  /\ UNCHANGED <<env, exit, initialized, resolved, hookVars, pending>>

(* Requests in progress are answered, or their connections are ended. *)
StopEnds ==
  /\ server = "stopping"
  /\ server' = "stopped"
  /\ stop' = [s \in Signals |->
                IF stop[s] = "waits" THEN "resolved" ELSE stop[s]]
  /\ UNCHANGED <<env, exit, rejected, initialized, resolved, hookVars, runVars>>

Exit(s) ==
  /\ MayExit(s)
  /\ exit' = "clean"
  /\ UNCHANGED <<env, rejected, server, initialized, resolved, hookVars, runVars,
                 stop>>

(* attachGlobalUncaughtExceptionHandler *)
ExitRejected ==
  /\ rejected /\ TimerElapsed
  /\ exit' = "failed"
  /\ UNCHANGED <<env, rejected, server, initialized, resolved, hookVars, runVars,
                 stop>>

RunStep(r) == StartGroup(r) \/ GroupsReady(r) \/ DestroyGroup(r)
              \/ GroupsDestroyed(r)
HookEnds(r) == \E h \in Hooks : HookReady(r, h) \/ HookFails(r, h)
ServerAnswers == ServerStarts \/ ServerFails
Arrives(s) == Kill(s) \/ ShutdownServer(s)

LifeNext ==
  /\ Alive
  /\ \/ \E r \in Runs : RunStep(r) \/ HookEnds(r)
     \/ \E s \in Signals : Arrives(s) \/ Exit(s)
     \/ ServerAnswers \/ StopEnds \/ ExitRejected
=============================================================================
