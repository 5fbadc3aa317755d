---------------------------- MODULE TestRunProofs ----------------------------
(***************************************************************************)
(* Theorems about TestRun for all hooks and groups, and any number of      *)
(* signals and of tests.                                                   *)
(***************************************************************************)
EXTENDS TestRun, WellFoundedInduction, TLAPS

Boot == op["boot"]

(* There is a test to run when mocha prepares or runs one. *)
SuiteInv == at \in {"switching", "resetting", "testing"} => suite.left > 0

(* Which of the runs may be on. *)
RunInv ==
  /\ Boot \in {"init", "failed", "done"}
  /\ op["reset"] # "init"
  /\ op["reset"] # "idle" \/ pending["reset"] # {} => env = "test" /\ Boot = "done"
  /\ pending["reset"] \subseteq {Schema}
  /\ \A s \in Signals : /\ op[s] \in {"idle", "destroy", "done", "failed"}
                        /\ pending[s] = {}
  /\ server \in {"off", "starting", "failed"} => \A s \in Signals : op[s] = "idle"
  /\ Boot # "done" => server = "off" /\ ~initialized

(* While the hooks are initialized, the groups that are done or begun are  *)
(* the lower ones, and a hook that is begun has all lower ones below it.   *)
BootInv ==
  /\ Boot = "init" =>
       /\ \A h \in Hooks : \/ Group[h] \in todo["boot"]
                           \/ h \in pending["boot"] \cup active
       /\ \A h \in Hooks, g \in todo["boot"] :
            Group[h] \notin todo["boot"] => Group[h] < g
  /\ Boot # "done" => \A h \in pending["boot"] \cup active, k \in Hooks :
                         Group[k] < Group[h] => k \in active
  /\ Boot = "done" => pending["boot"] = {} /\ Hooks \ Destroyable \subseteq active

(* What a shutdown has gone through is destroyed, and nothing comes back.  *)
KillInv ==
  env = "production" =>
    /\ Storage \notin active => storage = "none"
    /\ Schema \notin active => schema = "none"
    /\ Boot = "done" /\ Schema \in active => Storage \in active
    /\ \A s \in Signals :
         /\ op[s] \in {"destroy", "done"} =>
              \A h \in Destroyable : Group[h] \notin todo[s] => h \notin active
         /\ op[s] = "done" => todo[s] = {}
    /\ exit = "clean" => \E s \in Signals : op[s] = "done"

IInv == TypeOK /\ SuiteInv /\ RunInv /\ BootInv /\ KillInv

-----------------------------------------------------------------------------
(* A set of groups has a lowest and a highest one.                         *)

(* The order of the natural numbers, to cite the library's theorem. *)
Less == {x \in Nat \X Nat : x[1] < x[2]}

(* A set of groups has a lowest one, and a bounded one a highest.          *)
LEMMA LowestExists ==
  ASSUME NEW G \in SUBSET Nat, G # {}
  PROVE  \E g \in G : \A k \in G : g <= k
<1>1. IsWellFoundedOn(Less, Nat)
  BY NatLessThanWellFounded DEF Less, OpToRel
<1>2. PICK g \in G : \A k \in G : <<k, g>> \notin Less
  BY <1>1, WFMin
<1>3. ASSUME NEW k \in G  PROVE g <= k
  <2>1. ~ (k < g)
    BY <1>2, <<k, g>>[1] = k, <<k, g>>[2] = g DEF Less
  <2>2. QED
    BY <2>1
<1>4. QED
  BY <1>3

LEMMA HighestExists ==
  ASSUME NEW G \in SUBSET (0 .. 99), G # {}
  PROVE  \E g \in G : \A k \in G : g >= k
<1> DEFINE Down == {99 - g : g \in G}
<1>1. Down \in SUBSET Nat /\ Down # {}
  <2>1. \A g \in G : g \in 0 .. 99
    OBVIOUS
  <2>2. \A g \in G : 99 - g \in Nat
    BY <2>1
  <2>3. QED
    BY <2>2
<1>2. PICK d \in Down : \A e \in Down : d <= e
  BY <1>1, LowestExists
<1>3. PICK g \in G : d = 99 - g
  OBVIOUS
<1>4. ASSUME NEW k \in G  PROVE g >= k
  <2>1. 99 - g <= 99 - k
    BY <1>2, <1>3
  <2>2. g \in 0 .. 99 /\ k \in 0 .. 99
    OBVIOUS
  <2>3. QED
    BY <2>1, <2>2
<1>5. QED
  BY <1>4

(* NextUp and NextDown pick what their names say. *)
LEMMA NextGroup ==
  ASSUME NEW G \in SUBSET Groups, G # {}
  PROVE  /\ NextUp(G) \in G /\ \A k \in G : NextUp(G) <= k
         /\ NextDown(G) \in G /\ \A k \in G : NextDown(G) >= k
<1>1. G \in SUBSET (0 .. 99)
  BY HooksAssumption DEF Groups
<1>2. G \in SUBSET Nat
  BY <1>1
<1>3. NextUp(G) \in G /\ \A k \in G : NextUp(G) <= k
  BY <1>2, LowestExists DEF NextUp
<1>4. NextDown(G) \in G /\ \A k \in G : NextDown(G) >= k
  BY <1>1, HighestExists DEF NextDown
<1>5. QED
  BY <1>3, <1>4

-----------------------------------------------------------------------------
(* The invariant                                                           *)

(* The invariant holds at first.                                           *)
LEMMA InitIInv == Init => IInv
<1> SUFFICES ASSUME Init PROVE IInv
  OBVIOUS
<1> USE HooksAssumption, MaxTestsAssumption DEF Init, LifeInit
<1>1. TypeOK
  <2>1. op \in [Runs -> Going \cup {"idle", "done", "failed"}]
    BY DEF Going
  <2>2. todo \in [Runs -> SUBSET Groups]
    OBVIOUS
  <2>3. suite \in [resetAfter : BOOLEAN, left : 0 .. MaxTests, skips : BOOLEAN]
    BY 0 \in 0 .. MaxTests
  <2>4. QED
    BY <2>1, <2>2, <2>3 DEF TypeOK, LifeTypeOK, Connection
<1>2. SuiteInv
  BY DEF SuiteInv
<1>3. RunInv
  BY DEF RunInv, Boot, Runs
<1>4. BootInv
  BY DEF BootInv, Boot, Runs, Groups
<1>5. KillInv
  BY DEF KillInv, Boot, Runs
<1>6. QED
  BY <1>1, <1>2, <1>3, <1>4, <1>5 DEF IInv

(* A group is started: what is below it is there. *)
LEMMA StartGroupStep ==
  ASSUME IInv, Alive, NEW r \in Runs, StartGroup(r), UNCHANGED testVars
  PROVE  IInv'
<1> USE HooksAssumption DEF StartGroup, testVars, hookVars, IInv
<1> DEFINE g == NextUp(todo[r])
           hs == IF op[r] = "init" THEN HooksOf(g) ELSE HooksOf(g) \cap Destroyable
<1>1. g \in todo[r] /\ \A k \in todo[r] : g <= k
  BY NextGroup DEF TypeOK, LifeTypeOK
<1>2. TypeOK'
  BY DEF TypeOK, LifeTypeOK, HooksOf, Destroyable
<1>3. SuiteInv'
  BY DEF SuiteInv
<1>4. r \in {"boot", "reset"}
  BY DEF RunInv, Runs
<1>5. RunInv'
  BY <1>4 DEF RunInv, Boot, TypeOK, LifeTypeOK, Destroyable, Runs
<1>6. BootInv'
  <2>1. CASE r = "boot"
    <3>1. Boot = "init" /\ hs = HooksOf(g)
      BY <2>1 DEF RunInv, Boot
    <3>2. \A k \in Hooks : Group[k] < g => k \in active
      BY <1>1, <2>1, <3>1 DEF BootInv, TypeOK, LifeTypeOK, Groups
    <3>3. QED
      BY <1>1, <2>1, <3>1, <3>2
      DEF BootInv, Boot, TypeOK, LifeTypeOK, HooksOf, Destroyable, Groups
  <2>2. CASE r = "reset"
    BY <2>2 DEF BootInv, Boot, TypeOK, LifeTypeOK, Destroyable, Runs
  <2>3. QED
    BY <1>4, <2>1, <2>2
<1>7. KillInv'
  BY <1>4 DEF KillInv, RunInv, Boot, TypeOK, LifeTypeOK, Destroyable, Runs
<1>8. QED
  BY <1>2, <1>3, <1>5, <1>6, <1>7

(* A hook is ready: only initHooks brings one up in production. *)
LEMMA HookReadyStep ==
  ASSUME IInv, Alive, NEW r \in Runs, NEW h \in Hooks, HookReady(r, h),
         UNCHANGED testVars
  PROVE  IInv'
<1> USE HooksAssumption DEF HookReady, testVars, IInv
<1>1. TypeOK'
  <2>1. storage' \in Connection /\ resolved' \in BOOLEAN
    BY DEF TypeOK, LifeTypeOK, Resolves, Connection
  <2>2. schema' \in Connection \cup {"old"}
    BY DEF TypeOK, LifeTypeOK
  <2>3. pending' \in [Runs -> SUBSET Hooks]
    BY DEF TypeOK, LifeTypeOK
  <2>4. QED
    BY <2>1, <2>2, <2>3 DEF TypeOK, LifeTypeOK
<1>2. SuiteInv'
  BY DEF SuiteInv
<1>3. r \in {"boot", "reset"}
  BY DEF RunInv, Runs
<1>4. RunInv'
  BY <1>3 DEF RunInv, Boot, TypeOK, LifeTypeOK, Runs
<1>5. BootInv'
  <2>1. CASE r = "boot"
    <3>1. Boot # "done"
      BY <2>1 DEF BootInv
    <3>2. QED
      BY <2>1, <3>1 DEF BootInv, Boot, TypeOK, LifeTypeOK, Destroyable, Runs
  <2>2. CASE r = "reset"
    BY <2>2 DEF BootInv, RunInv, Boot, TypeOK, LifeTypeOK, Destroyable, Runs
  <2>3. QED
    BY <1>3, <2>1, <2>2
<1>6. KillInv'
  <2> SUFFICES ASSUME env = "production"  PROVE KillInv'
    BY DEF KillInv
  <2>1. Boot # "done" /\ \A s \in Signals : op[s] = "idle"
    BY <1>3 DEF RunInv, BootInv, Boot
  <2>2. QED
    BY <2>1 DEF KillInv, Boot, Destroyable, Alive
<1>7. QED
  BY <1>1, <1>2, <1>4, <1>5, <1>6

(* A hook that fails fails its run.                                        *)
LEMMA HookFailsStep ==
  ASSUME IInv, Alive, NEW r \in Runs, NEW h \in Hooks, HookFails(r, h),
         UNCHANGED testVars
  PROVE  IInv'
<1> USE HooksAssumption DEF HookFails, testVars, hookVars, IInv
<1>1. TypeOK'
  BY DEF TypeOK, LifeTypeOK, Unhandled
<1>2. SuiteInv'
  BY DEF SuiteInv
<1>3. r \in {"boot", "reset"}
  BY DEF RunInv, Runs
<1>4. RunInv'
  BY <1>3 DEF RunInv, BootInv, Boot, TypeOK, LifeTypeOK, Runs
<1>5. BootInv'
  BY <1>3 DEF BootInv, Boot, TypeOK, LifeTypeOK, Destroyable, Runs
<1>6. KillInv'
  BY <1>3 DEF KillInv, RunInv, Boot, TypeOK, LifeTypeOK, Destroyable, Alive, Runs
<1>7. QED
  BY <1>1, <1>2, <1>4, <1>5, <1>6

(* All groups are initialized.                                             *)
LEMMA GroupsReadyStep ==
  ASSUME IInv, Alive, NEW r \in Runs, GroupsReady(r), UNCHANGED testVars
  PROVE  IInv'
<1> USE HooksAssumption DEF GroupsReady, testVars, hookVars, IInv
<1>1. TypeOK'
  BY DEF TypeOK, LifeTypeOK
<1>2. SuiteInv'
  BY DEF SuiteInv
<1>3. r \in {"boot", "reset"}
  BY DEF RunInv, Runs
<1>4. RunInv'
  BY <1>3 DEF RunInv, Boot, TypeOK, LifeTypeOK, Runs
<1>5. BootInv'
  <2>1. CASE r = "boot"
    <3>1. active = Hooks
      BY <2>1 DEF BootInv, RunInv, Boot, TypeOK, LifeTypeOK
    <3>2. QED
      BY <2>1, <3>1 DEF BootInv, Boot, TypeOK, LifeTypeOK, Destroyable, Runs
  <2>2. CASE r = "reset"
    BY <2>2 DEF BootInv, Boot, TypeOK, LifeTypeOK, Destroyable, Runs
  <2>3. QED
    BY <1>3, <2>1, <2>2
<1>6. KillInv'
  <2> SUFFICES ASSUME env = "production"  PROVE KillInv'
    BY DEF KillInv
  <2>1. r = "boot" /\ Boot = "init" /\ \A s \in Signals : op[s] = "idle"
    BY <1>3 DEF RunInv, Boot
  <2>2. active = Hooks
    BY <2>1 DEF BootInv, Boot, TypeOK, LifeTypeOK
  <2>3. QED
    BY <2>1, <2>2 DEF KillInv, Boot, Destroyable, Alive, TypeOK, LifeTypeOK, Runs
<1>7. QED
  BY <1>1, <1>2, <1>4, <1>5, <1>6

(* A group is destroyed: the highest that is left, and what builds on it   *)
(* went before.                                                            *)
LEMMA DestroyGroupStep ==
  ASSUME IInv, Alive, NEW r \in Runs, DestroyGroup(r), UNCHANGED testVars
  PROVE  IInv'
<1> USE HooksAssumption DEF DestroyGroup, testVars, IInv
<1> DEFINE g == NextDown(todo[r])
           hs == HooksOf(g) \cap Destroyable
<1>1. g \in todo[r] /\ \A k \in todo[r] : g >= k
  BY NextGroup DEF TypeOK, LifeTypeOK
<1>2. r # "boot" /\ Boot = "done"
  BY DEF RunInv, Boot, Runs
<1>3. TypeOK'
  BY DEF TypeOK, LifeTypeOK, StorageAfter, SchemaAfter, Connection
<1>4. SuiteInv'
  BY DEF SuiteInv
<1>5. RunInv'
  BY <1>2 DEF RunInv, Boot, TypeOK, LifeTypeOK, Runs
<1>6. BootInv'
  BY <1>2 DEF BootInv, Boot, TypeOK, LifeTypeOK, Destroyable, Runs
<1>7. KillInv'
  <2> SUFFICES ASSUME env = "production"  PROVE KillInv'
    BY DEF KillInv
  <2>1. r \in Signals
    BY <1>2 DEF RunInv, Runs
  <2>2. /\ active' = active \ hs
        /\ Storage \in hs => storage' = "none"
        /\ Storage \notin hs => storage' = storage
        /\ Schema \in hs => schema' = "none"
        /\ Schema \notin hs => schema' = schema
    BY DEF StorageAfter, SchemaAfter
  <2>3. Storage \in hs => Schema \notin active
    <3>1. SUFFICES ASSUME Storage \in hs  PROVE Schema \notin active
      OBVIOUS
    <3>2. Group[Schema] \notin todo[r]
      BY <1>1, <3>1 DEF HooksOf
    <3>3. QED
      BY <2>1, <3>2 DEF KillInv, Destroyable
  <2>4. Storage \notin active' => storage' = "none"
    BY <2>2 DEF KillInv
  <2>5. Schema \notin active' => schema' = "none"
    BY <2>2 DEF KillInv
  <2>6. Boot' = "done" /\ Schema \in active' => Storage \in active'
    BY <1>2, <2>2, <2>3 DEF KillInv
  <2>7. ASSUME NEW s \in Signals, op'[s] \in {"destroy", "done"},
               NEW h \in Destroyable', Group[h] \notin todo'[s]
        PROVE  h \notin active'
    BY <1>1, <2>1, <2>2, <2>7
    DEF KillInv, TypeOK, LifeTypeOK, Destroyable, HooksOf, Runs
  <2>8. ASSUME NEW s \in Signals, op'[s] = "done"  PROVE todo'[s] = {}
    BY <2>1, <2>8 DEF KillInv, TypeOK, LifeTypeOK, Runs
  <2>9. QED
    BY <2>4, <2>5, <2>6, <2>7, <2>8 DEF KillInv, Alive
<1>8. QED
  BY <1>3, <1>4, <1>5, <1>6, <1>7

(* All groups are destroyed.                                               *)
LEMMA GroupsDestroyedStep ==
  ASSUME IInv, Alive, NEW r \in Runs, GroupsDestroyed(r), UNCHANGED testVars
  PROVE  IInv'
<1> USE HooksAssumption DEF GroupsDestroyed, testVars, hookVars, IInv
<1>1. r # "boot" /\ Boot = "done"
  BY DEF RunInv, Boot, Runs
<1>2. TypeOK'
  <2>1. op' \in [Runs -> Going \cup {"idle", "done", "failed"}]
    BY DEF TypeOK, LifeTypeOK, Going
  <2>2. todo' \in [Runs -> SUBSET Groups]
    <3>1. CASE r = "reset"
      BY <3>1 DEF TypeOK, LifeTypeOK
    <3>2. CASE r # "reset"
      BY <3>2 DEF TypeOK, LifeTypeOK
    <3>3. QED
      BY <3>1, <3>2
  <2>3. /\ UNCHANGED <<env, exit, rejected, server, resolved, active, storage>>
        /\ UNCHANGED <<schema, building, pending, stop, testVars>>
        /\ initialized' = FALSE
    OBVIOUS
  <2>4. LifeTypeOK'
    <3>1. LifeTypeOK
      BY DEF TypeOK
    <3>2. initialized' \in BOOLEAN
      BY <2>3
    <3>3. QED
      BY ONLY <2>1, <2>2, <2>3, <3>1, <3>2 DEF LifeTypeOK, Runs, Groups, Going,
                                               Connection
  <2>5. QED
    BY <2>3, <2>4 DEF TypeOK, Writers
<1>3. SuiteInv'
  BY DEF SuiteInv
<1>4. RunInv'
  <2>1. /\ UNCHANGED <<env, server, pending>>
        /\ initialized' = FALSE
        /\ r \in {"reset"} \cup Signals
    BY <1>1 DEF Runs
  <2>2. /\ op'[r] = IF r = "reset" THEN "reinitialize" ELSE "done"
        /\ \A s \in Runs \ {r} : op'[s] = op[s]
    BY DEF TypeOK, LifeTypeOK
  <2>3. Boot' = "done"
    BY <1>1, <2>2 DEF Boot, Runs
  <2>4. r = "reset" => env = "test"
    BY DEF RunInv
  <2>5. op'["reset"] # "init"
    BY <2>2 DEF RunInv, Runs
  <2>6. /\ op'["reset"] # "idle" \/ pending'["reset"] # {} =>
             env' = "test" /\ Boot' = "done"
        /\ pending'["reset"] \subseteq {Schema}
    BY <2>1, <2>2, <2>3, <2>4 DEF RunInv, Runs
  <2>7. \A s \in Signals :
          op'[s] \in {"idle", "destroy", "done", "failed"} /\ pending'[s] = {}
    BY <2>1, <2>2 DEF RunInv, Runs
  <2>8. server' \in {"off", "starting", "failed"} =>
          \A s \in Signals : op'[s] = "idle"
    BY <2>1, <2>2 DEF RunInv, Runs
  <2>9. QED
    BY <2>3, <2>5, <2>6, <2>7, <2>8 DEF RunInv
<1>5. BootInv'
  BY <1>1 DEF BootInv, Boot, TypeOK, LifeTypeOK, Destroyable, Runs
<1>6. KillInv'
  <2> SUFFICES ASSUME env = "production"  PROVE KillInv'
    BY DEF KillInv
  <2>1. r \in Signals
    BY <1>1 DEF RunInv, Runs
  <2>2. QED
    BY <1>1, <2>1 DEF KillInv, Boot, TypeOK, LifeTypeOK, Destroyable, Alive, Runs
<1>7. QED
  BY <1>2, <1>3, <1>4, <1>5, <1>6

(* A signal on a running server: nothing is destroyed yet. *)
LEMMA ShutdownServerStep ==
  ASSUME IInv, Alive, NEW s \in Signals, ShutdownServer(s), UNCHANGED testVars
  PROVE  IInv'
<1> USE HooksAssumption DEF ShutdownServer, testVars, hookVars, IInv
<1>1. Boot = "done" /\ s \in Runs /\ s # "boot" /\ s # "reset"
  BY DEF RunInv, Runs
<1>2. TypeOK'
  <2>1. stop' \in [Signals -> {"none", "waits", "resolved", "rejected"}]
        /\ rejected' \in BOOLEAN
    BY DEF TypeOK, LifeTypeOK, Unhandled
  <2>2. op' \in [Runs -> Going \cup {"idle", "done", "failed"}]
        /\ todo' \in [Runs -> SUBSET Groups]
    BY <1>1 DEF TypeOK, LifeTypeOK, Going
  <2>3. QED
    BY <2>1, <2>2 DEF TypeOK, LifeTypeOK
<1>3. SuiteInv'
  BY DEF SuiteInv
<1>4. RunInv'
  BY <1>1 DEF RunInv, Boot, TypeOK, LifeTypeOK, Runs
<1>5. BootInv'
  BY <1>1 DEF BootInv, Boot, TypeOK, LifeTypeOK, Destroyable, Runs
<1>6. KillInv'
  BY <1>1 DEF KillInv, Boot, TypeOK, LifeTypeOK, Destroyable, Groups, Alive, Runs
<1>7. QED
  BY <1>2, <1>3, <1>4, <1>5, <1>6

(* The other steps of the server and of the process leave the hooks alone. *)
LEMMA ServerStep ==
  ASSUME IInv, Alive, UNCHANGED <<testVars, hookVars, runVars, env, initialized>>,
         \/ ServerStarts \/ ServerFails \/ StopEnds \/ ExitRejected
         \/ \E s \in Signals : Kill(s) \/ Exit(s)
  PROVE  IInv'
<1> USE DEF IInv, testVars, hookVars, runVars
<1> USE DEF ServerStarts, ServerFails, StopEnds, ExitRejected, Kill, Exit
<1>1. TypeOK'
  <2>1. rejected' \in BOOLEAN
    BY DEF TypeOK, LifeTypeOK, Unhandled
  <2>2. stop' \in [Signals -> {"none", "waits", "resolved", "rejected"}]
    BY DEF TypeOK, LifeTypeOK
  <2>3. QED
    BY <2>1, <2>2 DEF TypeOK, LifeTypeOK
<1>2. SuiteInv'
  BY DEF SuiteInv
<1>3. RunInv'
  BY DEF RunInv, Boot
<1>4. BootInv'
  BY DEF BootInv, Boot, Destroyable
<1>5. KillInv'
  BY DEF KillInv, Boot, Destroyable, MayExit, Alive
<1>6. QED
  BY <1>1, <1>2, <1>3, <1>4, <1>5

(* Every step of the life cycle keeps the invariant, ...                   *)
LEMMA LifeStep ==
  ASSUME IInv, LifeNext, UNCHANGED testVars
  PROVE  IInv'
<1>1. CASE \E r \in Runs : RunStep(r)
  BY <1>1, StartGroupStep, GroupsReadyStep, DestroyGroupStep, GroupsDestroyedStep
  DEF RunStep, LifeNext
<1>2. CASE \E r \in Runs : HookEnds(r)
  BY <1>2, HookReadyStep, HookFailsStep DEF HookEnds, LifeNext
<1>3. CASE \E s \in Signals : ShutdownServer(s)
  BY <1>3, ShutdownServerStep DEF LifeNext
<1>4. CASE \/ ServerAnswers \/ StopEnds \/ ExitRejected
           \/ \E s \in Signals : Kill(s) \/ Exit(s)
  <2>1. UNCHANGED <<hookVars, runVars, env, initialized>>
    BY <1>4 DEF ServerAnswers, ServerStarts, ServerFails, StopEnds, ExitRejected,
                Kill, Exit
  <2>2. QED
    BY <1>4, <2>1, ServerStep DEF ServerAnswers, LifeNext
<1>5. QED
  BY <1>1, <1>2, <1>3, <1>4 DEF LifeNext, Arrives

(* What mocha and the strategy do: in tests, after the hooks are there. *)
LEMMA TestStep ==
  ASSUME IInv, TestNext
  PROVE  IInv'
<1> USE HooksAssumption, MaxTestsAssumption
    DEF IInv, TestNext, testVars, lifeVars, hookVars, runVars
<1>1. CASE Prepare
  <2>1. TypeOK'
    BY <1>1 DEF Prepare, TypeOK, LifeTypeOK, Resolves, Connection
  <2>2. QED
    BY <1>1, <2>1 DEF Prepare, SuiteInv, RunInv, BootInv, KillInv, Boot, Destroyable
<1>2. CASE AttachFirst
  <2>1. TypeOK'
    BY <1>2 DEF AttachFirst, TypeOK, LifeTypeOK, Resolves, Connection
  <2>2. QED
    BY <1>2, <2>1
    DEF AttachFirst, SuiteInv, RunInv, BootInv, KillInv, Boot, Destroyable
<1>3. CASE SetupDone \/ SetupFails \/ SwitchFails
  BY <1>3 DEF SetupDone, SetupFails, SwitchFails, TypeOK, LifeTypeOK, SuiteInv,
              RunInv, BootInv, KillInv, Boot, Destroyable
<1>4. CASE NextSuite
  <2>1. suite' \in [resetAfter : BOOLEAN, left : 0 .. MaxTests, skips : BOOLEAN]
    <3>1. suite' \in [resetAfter : BOOLEAN, left : 1 .. MaxTests, skips : BOOLEAN]
      BY <1>4 DEF NextSuite
    <3>2. 1 .. MaxTests \subseteq 0 .. MaxTests
      OBVIOUS
    <3>3. QED
      BY ONLY <3>1, <3>2
  <2>2. written' \subseteq Writers
    BY <1>4 DEF NextSuite, TypeOK, Writers
  <2>3. UNCHANGED <<lifeVars, prepared, isDatabaseDirty, at>> /\ at = "between"
    BY <1>4 DEF NextSuite
  <2>4. TypeOK'
    BY <2>1, <2>2, <2>3 DEF TypeOK, LifeTypeOK
  <2>5. QED
    BY <2>3, <2>4 DEF SuiteInv, RunInv, BootInv, KillInv, Boot, Destroyable
<1>5. CASE BeforeEach
  <2>1. TypeOK'
    BY <1>5 DEF BeforeEach, TypeOK, LifeTypeOK, Connection
  <2>2. QED
    BY <1>5, <2>1
    DEF BeforeEach, SuiteInv, RunInv, BootInv, KillInv, Boot, Destroyable
<1>6. CASE SwitchDone
  <2>1. /\ op' \in [Runs -> Going \cup {"idle", "done", "failed"}]
        /\ todo' \in [Runs -> SUBSET Groups]
    BY <1>6 DEF SwitchDone, TypeOK, LifeTypeOK, Going
  <2>2. TypeOK' /\ SuiteInv'
    BY <1>6, <2>1 DEF SwitchDone, TypeOK, LifeTypeOK, Connection, SuiteInv
  <2>3. initialized => Boot = "done"
    BY DEF RunInv
  <2>4. RunInv'
    <3>1. CASE initialized
      <4>1. op' = [op EXCEPT !["reset"] = "destroy"]
        BY <1>6, <3>1 DEF SwitchDone
      <4>2. /\ op'["reset"] = "destroy" /\ Boot' = Boot
            /\ \A s \in Signals : op'[s] = op[s]
        BY <4>1 DEF TypeOK, LifeTypeOK, Runs, Boot
      <4>3. UNCHANGED <<env, pending, server, initialized>> /\ env = "test"
        BY <1>6 DEF SwitchDone
      <4>4. QED
        BY <2>3, <3>1, <4>2, <4>3 DEF RunInv
    <3>2. CASE ~initialized
      BY <1>6, <3>2 DEF SwitchDone, RunInv, Boot
    <3>3. QED
      BY <3>1, <3>2
  <2>5. BootInv'
    BY <1>6, <2>3 DEF SwitchDone, TypeOK, LifeTypeOK, BootInv, Boot, Destroyable,
                      Runs
  <2>6. KillInv'
    BY <1>6 DEF SwitchDone, KillInv
  <2>7. QED
    BY <2>2, <2>4, <2>5, <2>6
<1>7. CASE ResetDone
  <2>1. op' \in [Runs -> Going \cup {"idle", "done", "failed"}]
    BY <1>7 DEF ResetDone, TypeOK, LifeTypeOK
  <2>2. TypeOK' /\ SuiteInv'
    BY <1>7, <2>1 DEF ResetDone, TypeOK, LifeTypeOK, SuiteInv
  <2>3. RunInv'
    BY <1>7 DEF ResetDone, TypeOK, LifeTypeOK, RunInv, Boot, Runs
  <2>4. BootInv'
    BY <1>7 DEF ResetDone, TypeOK, LifeTypeOK, BootInv, Boot, Destroyable, Runs
  <2>5. KillInv'
    BY <1>7 DEF ResetDone, KillInv
  <2>6. QED
    BY <2>2, <2>3, <2>4, <2>5
<1>8. CASE \E noreset, passed \in BOOLEAN : Test(noreset, passed)
  <2>1. PICK noreset \in BOOLEAN, passed \in BOOLEAN : Test(noreset, passed)
    BY <1>8
  <2>2. suite' \in [resetAfter : BOOLEAN, left : 0 .. MaxTests, skips : BOOLEAN]
    BY <2>1 DEF Test, SuiteInv, TypeOK
  <2>3. written' \subseteq Writers
    BY <2>1 DEF Test, Leaves, Bundled, TypeOK, Writers
  <2>4. isDatabaseDirty' \in BOOLEAN /\ at' = "between"
    BY <2>1 DEF Test
  <2>5. UNCHANGED <<lifeVars, prepared>>
    BY <2>1 DEF Test
  <2>6. QED
    BY <2>2, <2>3, <2>4, <2>5 DEF TypeOK, LifeTypeOK, SuiteInv, RunInv, BootInv,
                                  KillInv, Boot, Destroyable
<1>9. CASE MochaEnds
  <2>1. TypeOK'
    BY <1>9 DEF MochaEnds, TypeOK, LifeTypeOK
  <2>2. QED
    BY <1>9, <2>1
    DEF MochaEnds, SuiteInv, RunInv, BootInv, KillInv, Boot, Destroyable
<1>10. QED
  BY <1>1, <1>2, <1>3, <1>4, <1>5, <1>6, <1>7, <1>8, <1>9 DEF TestNext, Setup

(* ... and so does every other one.                                        *)
LEMMA NextIInv == IInv /\ [Next]_vars => IInv'
<1> SUFFICES ASSUME IInv, [Next]_vars  PROVE IInv'
  OBVIOUS
<1>1. CASE LifeNext /\ UNCHANGED testVars
  BY <1>1, LifeStep
<1>2. CASE TestNext
  BY <1>2, TestStep
<1>3. CASE UNCHANGED vars
  BY <1>3 DEF vars, lifeVars, testVars, hookVars, runVars, IInv, TypeOK,
              LifeTypeOK, SuiteInv, RunInv, BootInv, KillInv, Boot, Destroyable
<1>4. QED
  BY <1>1, <1>2, <1>3 DEF Next

LEMMA Invariance == Spec => []IInv
<1>1. QED
  BY InitIInv, NextIInv, PTL DEF Spec

-----------------------------------------------------------------------------
(* The theorems                                                            *)

(* The state of the life cycle, of the server and of mocha keeps its type. *)
THEOREM TypeCorrect == Spec => []TypeOK
<1>1. IInv => TypeOK
  BY DEF IInv
<1>2. QED
  BY <1>1, Invariance, PTL

(* initializeHooks and destroyHooks keep the order of the groups, also     *)
(* when several shutdowns or a reset go through them at the same time.     *)
THEOREM Ordered == Spec => []InOrder
<1>1. IInv => InOrder
  <2> SUFFICES ASSUME IInv, NEW h \in Hooks, NEW k \in Hooks,
                      Group[k] < Group[h],
                      h \in active \/ \E r \in Runs : h \in pending[r],
                      h \in Destroyable \/ k \notin Destroyable
               PROVE  k \in active
    BY DEF InOrder
  <2> USE HooksAssumption DEF IInv
  <2>1. CASE Boot # "done"
    BY <2>1 DEF BootInv, RunInv, Runs
  <2>2. CASE Boot = "done"
    <3>1. CASE k \notin Destroyable
      BY <2>2, <3>1 DEF BootInv
    <3>2. CASE k \in Destroyable
      <4>1. env = "production" /\ k = Storage /\ h = Schema
        BY <3>2 DEF Destroyable, TypeOK, LifeTypeOK
      <4>2. h \in active
        BY <2>2, <4>1 DEF BootInv, RunInv, Runs
      <4>3. QED
        BY <2>2, <4>1, <4>2 DEF KillInv
    <3>3. QED
      BY <3>1, <3>2
  <2>3. QED
    BY <2>1, <2>2
<1>2. QED
  BY <1>1, Invariance, PTL

(* When shutdownServer reports success, killHooks has closed everything,   *)
(* however many signals there were.                                        *)
THEOREM Closed == Spec => []CleanExit
<1>1. IInv => CleanExit
  <2> SUFFICES ASSUME IInv, exit = "clean", env = "production"
               PROVE  /\ storage = "none" /\ schema = "none"
                      /\ active \cap Destroyable = {}
    BY DEF CleanExit
  <2>1. PICK s \in Signals : op[s] = "done" /\ todo[s] = {}
    BY DEF IInv, KillInv
  <2>2. \A h \in Destroyable : h \notin active
    BY <2>1 DEF IInv, KillInv
  <2>3. Storage \in Destroyable /\ Schema \in Destroyable
    BY DEF Destroyable
  <2>4. QED
    BY <2>2, <2>3 DEF IInv, KillInv
<1>2. QED
  BY <1>1, Invariance, PTL

(* What tests wrote that failed or are neither tagged nor in a bundle, and *)
(* what a bundle wrote that has ended, makes the database dirty, and a     *)
(* dirty database is replaced before the next test.                        *)
Tagged == {"noreset", "bundle", "kept bundle"}
SharedInv ==
  ~isDatabaseDirty \/ at \in {"switching", "resetting", "testing"} =>
    written \subseteq Tagged

(* A test finds nothing but what passed tests wrote that are tagged        *)
(* #noreset, or are in its own suite with #resetafter, or in an earlier    *)
(* one whose last test is tagged #noreset or that skips tests: the flag of *)
(* globalAfterEach never forgets any other test.                           *)
THEOREM Shared == Spec => []OnlyBundlesShare
<1>1. Init => SharedInv
  BY DEF Init, SharedInv
<1>2. SharedInv /\ TypeOK /\ [Next]_vars => SharedInv'
  <2> SUFFICES ASSUME SharedInv, TypeOK, [Next]_vars  PROVE SharedInv'
    OBVIOUS
  <2>1. CASE UNCHANGED testVars
    BY <2>1 DEF testVars, SharedInv
  <2>2. CASE Prepare \/ Setup \/ SwitchFails \/ MochaEnds
    BY <2>2 DEF Prepare, Setup, AttachFirst, SetupDone, SetupFails, SwitchFails,
                MochaEnds, testVars, SharedInv
  <2>3. CASE NextSuite
    BY <2>3 DEF NextSuite, SharedInv
  <2>4. CASE BeforeEach
    BY <2>4 DEF BeforeEach, SharedInv
  <2>5. CASE SwitchDone \/ ResetDone
    BY <2>5 DEF SwitchDone, ResetDone, SharedInv
  <2>6. ASSUME NEW noreset \in BOOLEAN, NEW passed \in BOOLEAN,
               Test(noreset, passed)
        PROVE  SharedInv'
    <3>1. SUFFICES ASSUME ~isDatabaseDirty'
                   PROVE  written' \subseteq Tagged
      BY <2>6 DEF Test, SharedInv
    <3>2. PICK left \in Leaves(noreset, passed) :
            written' = Bundled(written \cup left, noreset)
      BY <2>6 DEF Test
    <3>3. /\ passed /\ (noreset \/ suite.resetAfter)
          /\ suite.left > 1 \/ noreset \/ suite.skips
      <4>1. MaySkip(noreset, passed)
        BY <2>6, <3>1 DEF Test
      <4>2. suite.left \in Int /\ suite.skips \in BOOLEAN
        BY DEF TypeOK
      <4>3. QED
        BY <4>1, <4>2 DEF MaySkip, Remaining
    <3>4. left \in {{}, {"noreset"}, {"bundle"}}
      BY <3>2, <3>3 DEF Leaves
    <3>5. written \subseteq Tagged
      BY <2>6 DEF Test, SharedInv
    <3>6. QED
      BY <3>2, <3>3, <3>4, <3>5 DEF Bundled, Tagged
  <2>7. CASE UNCHANGED vars
    BY <2>7, <2>1 DEF vars
  <2>8. QED
    BY <2>1, <2>2, <2>3, <2>4, <2>5, <2>6, <2>7 DEF Next, TestNext
<1>3. SharedInv => OnlyBundlesShare
  BY DEF SharedInv, OnlyBundlesShare, Tagged
<1>4. QED
  BY <1>1, <1>2, <1>3, TypeCorrect, PTL DEF Spec

-----------------------------------------------------------------------------
(* What requests find                                                      *)

(* Who may use the storage when: in tests its hook waits for the strategy, *)
(* and the signals have a server to stop.                                  *)
WaitInv ==
  /\ at \notin {"setup", "over"} => Boot = "done"
  /\ env = "test" => (resolved <=> prepared) /\ (Storage \in active => prepared)
  /\ env = "production" => at = "setup" /\ ~prepared
  /\ server \in {"off", "starting", "on"} => \A s \in Signals : op[s] = "idle"

(* Before any shutdown: the storage is connected from the time its hook is *)
(* done, except while it is switched; the schema is built on it when all   *)
(* hooks have been initialized, ...                                        *)
BuiltInv ==
  /\ at # "switching" /\ (Storage \in active \/ prepared) => storage = "current"
  /\ Schema \in pending["boot"] => building = "current"
  /\ Boot # "done" /\ Schema \in active => schema = "current"
  /\ Boot = "done" => Hooks \ {Schema} \subseteq active
  /\ Boot = "done" /\ at # "resetting" =>
       /\ Schema \in active /\ (at # "switching" => schema = "current")
       /\ op["reset"] = "idle" /\ pending["reset"] = {}

(* ... and again when they have been reset.                                *)
RebuiltInv ==
  at = "resetting" =>
    /\ op["reset"] \in {"destroy", "reinitialize", "done", "failed"}
    /\ op["reset"] = "destroy" => pending["reset"] = {}
    /\ Schema \in pending["reset"] => building = "current"
    /\ op["reset"] \in {"reinitialize", "done"} =>
         \/ Group[Schema] \in todo["reset"] \/ Schema \in pending["reset"]
         \/ Schema \in active /\ schema = "current"
    /\ op["reset"] = "done" => todo["reset"] = {} /\ pending["reset"] = {}

ServeInv ==
  /\ WaitInv
  /\ server \in {"off", "starting", "on"} /\ at # "over" => BuiltInv /\ RebuiltInv

(* Nothing is served at first.                                             *)
LEMMA InitServeInv == Init => ServeInv
BY HooksAssumption
   DEF Init, LifeInit, ServeInv, WaitInv, BuiltInv, RebuiltInv, Boot, Runs

(* While hooks are initialized for the first time, no test is prepared.    *)
LEMMA BootServe ==
  ASSUME IInv, ServeInv, Alive, UNCHANGED testVars,
         RunStep("boot") \/ HookEnds("boot")
  PROVE  ServeInv'
<1> USE HooksAssumption DEF testVars
<1>1. /\ TypeOK /\ LifeTypeOK /\ RunInv /\ BootInv /\ WaitInv
      /\ "boot" \in Runs /\ "reset" \in Runs /\ "boot" \notin Signals
      /\ Storage # Schema
  BY DEF IInv, ServeInv, TypeOK, Runs
<1>2. Boot # "done" /\ Boot # "destroy"
  BY <1>1 DEF RunStep, HookEnds, StartGroup, GroupsReady, DestroyGroup,
              GroupsDestroyed, HookReady, HookFails, Boot, RunInv, BootInv
<1>3. server = "off" /\ at \in {"setup", "over"} /\ op["reset"] = "idle"
      /\ pending["reset"] = {}
  BY <1>1, <1>2 DEF RunInv, WaitInv, TypeOK, LifeTypeOK
<1>4. WaitInv'
  <2>1. CASE StartGroup("boot") \/ GroupsReady("boot")
    <3>1. /\ UNCHANGED <<env, at, prepared, resolved, active>>
          /\ op' = op \/ op' = [op EXCEPT !["boot"] = "done"]
      BY <2>1 DEF StartGroup, GroupsReady, hookVars
    <3>2. \A s \in Signals : op'[s] = op[s]
      BY <1>1, <3>1 DEF LifeTypeOK, Runs
    <3>3. QED
      BY <1>1, <1>3, <3>1, <3>2 DEF WaitInv
  <2>2. ASSUME NEW h \in Hooks, HookReady("boot", h)  PROVE WaitInv'
    <3>1. /\ active' = active \cup {h} /\ Schema # Storage
          /\ h = Storage /\ env = "test" => resolved
          /\ env = "test" => resolved' = resolved
          /\ UNCHANGED <<env, server, op, at, prepared>>
      BY <1>1, <2>2 DEF HookReady, CanInit, LifeTypeOK
    <3>2. QED
      BY <1>1, <1>3, <3>1 DEF WaitInv, Boot
  <2>3. ASSUME NEW h \in Hooks, HookFails("boot", h)  PROVE WaitInv'
    BY <1>1, <1>3, <2>3 DEF HookFails, hookVars, WaitInv, LifeTypeOK
  <2>4. QED
    BY <1>2, <2>1, <2>2, <2>3
       DEF RunStep, HookEnds, DestroyGroup, GroupsDestroyed, Boot
<1>5. SUFFICES ASSUME at = "setup"  PROVE BuiltInv'
  BY <1>3, <1>4 DEF ServeInv, RebuiltInv
<1>6. BuiltInv
  BY <1>3, <1>5 DEF ServeInv
<1>7. CASE StartGroup("boot")
  <2> DEFINE g == NextUp(todo["boot"])
  <2>1. g \in todo["boot"] /\ \A k \in todo["boot"] : g <= k
    BY <1>1, <1>7, NextGroup DEF StartGroup, LifeTypeOK
  <2> HIDE DEF g
  <2>2. /\ pending'["boot"] = HooksOf(g) /\ pending["boot"] = {}
        /\ building' = IF Schema \in HooksOf(g) THEN storage ELSE building
        /\ UNCHANGED <<active, storage, schema, op>>
        /\ pending'["reset"] = pending["reset"]
    BY <1>1, <1>2, <1>7 DEF StartGroup, RunInv, Boot, LifeTypeOK, g
  <2>3. Schema \in HooksOf(g) => Storage \in active
    <3>1. SUFFICES ASSUME Group[Schema] = g  PROVE Storage \in active
      BY DEF HooksOf
    <3>2. Group[Storage] \notin todo["boot"]
      BY <2>1, <3>1
    <3>3. Boot = "init"
      BY <1>1, <1>7 DEF StartGroup, RunInv, Boot
    <3>4. QED
      BY <1>1, <2>2, <3>2, <3>3 DEF BootInv
  <2>4. QED
    BY <1>2, <1>5, <1>6, <2>2, <2>3 DEF BuiltInv, Boot
<1>8. ASSUME NEW h \in Hooks, HookReady("boot", h)  PROVE BuiltInv'
  <2>1. /\ active' = active \cup {h} /\ Schema # Storage
        /\ pending'["boot"] \subseteq pending["boot"] /\ h \in pending["boot"]
        /\ UNCHANGED <<op, building, prepared, at>>
        /\ schema' = IF h = Schema THEN building ELSE schema
    BY <1>1, <1>8 DEF HookReady, LifeTypeOK
  <2>2. Storage \in active' \/ prepared => storage' = "current"
    BY <1>1, <1>5, <1>6, <1>8
       DEF HookReady, CanInit, WaitInv, BuiltInv, LifeTypeOK
  <2>3. QED
    BY <1>2, <1>5, <1>6, <2>1, <2>2 DEF BuiltInv, Boot
<1>9. ASSUME NEW h \in Hooks, HookFails("boot", h)  PROVE BuiltInv'
  <2>1. /\ pending'["boot"] \subseteq pending["boot"] /\ op'["boot"] = "failed"
        /\ UNCHANGED <<active, storage, schema, building, prepared, at>>
    BY <1>1, <1>9 DEF HookFails, hookVars, LifeTypeOK
  <2>2. QED
    BY <1>2, <1>5, <1>6, <2>1 DEF BuiltInv, Boot
<1>10. CASE GroupsReady("boot")
  <2>1. active = Hooks
    BY <1>1, <1>2, <1>10 DEF GroupsReady, BootInv, RunInv, Boot, LifeTypeOK
  <2>2. UNCHANGED <<active, storage, schema, building, pending, prepared, at>>
        /\ op'["reset"] = op["reset"]
    BY <1>1, <1>10 DEF GroupsReady, hookVars, LifeTypeOK
  <2>3. QED
    BY <1>1, <1>2, <1>3, <1>5, <1>6, <2>1, <2>2 DEF BuiltInv
<1>11. QED
  BY <1>2, <1>7, <1>8, <1>9, <1>10
     DEF RunStep, HookEnds, DestroyGroup, GroupsDestroyed, Boot

(* A reset destroys and rebuilds the schema, and nothing else. *)
LEMMA ResetServe ==
  ASSUME IInv, ServeInv, Alive, UNCHANGED testVars,
         RunStep("reset") \/ HookEnds("reset")
  PROVE  ServeInv'
<1> USE HooksAssumption DEF testVars
<1>1. /\ TypeOK /\ LifeTypeOK /\ RunInv /\ BootInv /\ WaitInv
      /\ "boot" \in Runs /\ "reset" \in Runs /\ Signals \subseteq Runs
      /\ "reset" \notin Signals /\ Storage # Schema
  BY DEF IInv, ServeInv, TypeOK, Runs
<1>2. op["reset"] # "idle" \/ pending["reset"] # {}
  BY DEF RunStep, HookEnds, StartGroup, GroupsReady, DestroyGroup,
         GroupsDestroyed, HookReady, HookFails
<1>3. /\ env = "test" /\ Boot = "done" /\ pending["reset"] \subseteq {Schema}
      /\ pending["boot"] = {} /\ Destroyable = {Schema} /\ op["reset"] # "init"
  BY <1>1, <1>2 DEF RunInv, BootInv, Destroyable
<1>4. /\ UNCHANGED <<env, server, resolved, storage, at, prepared>>
      /\ active \ {Schema} \subseteq active' /\ active' \subseteq active \cup {Schema}
      /\ pending'["boot"] = pending["boot"]
      /\ \A r \in Runs \ {"reset"} : op'[r] = op[r]
  <2>1. CASE StartGroup("reset") \/ GroupsReady("reset") \/ GroupsDestroyed("reset")
    BY <1>1, <2>1 DEF StartGroup, GroupsReady, GroupsDestroyed, hookVars, LifeTypeOK
  <2>2. CASE DestroyGroup("reset")
    BY <1>1, <1>3, <2>2 DEF DestroyGroup, StorageAfter, LifeTypeOK
  <2>3. ASSUME NEW h \in Hooks, HookReady("reset", h)
        PROVE  /\ UNCHANGED <<env, server, resolved, storage, at, prepared, op>>
               /\ active' = active \cup {Schema}
               /\ pending'["boot"] = pending["boot"]
    BY <1>1, <1>3, <2>3 DEF HookReady, LifeTypeOK
  <2>4. ASSUME NEW h \in Hooks, HookFails("reset", h)
        PROVE  /\ UNCHANGED <<env, server, resolved, storage, at, prepared, active>>
               /\ pending'["boot"] = pending["boot"]
               /\ \A r \in Runs \ {"reset"} : op'[r] = op[r]
    BY <1>1, <2>4 DEF HookFails, hookVars, LifeTypeOK
  <2>5. QED
    BY <2>1, <2>2, <2>3, <2>4 DEF RunStep, HookEnds
<1>5. WaitInv'
  BY <1>1, <1>3, <1>4 DEF WaitInv, Boot
<1>6. SUFFICES ASSUME server \in {"off", "starting", "on"}, at # "over"
               PROVE  BuiltInv' /\ RebuiltInv'
  BY <1>4, <1>5 DEF ServeInv
<1>7. BuiltInv /\ RebuiltInv /\ at = "resetting"
  BY <1>2, <1>3, <1>6 DEF ServeInv, BuiltInv
<1>8. BuiltInv'
  BY <1>1, <1>3, <1>4, <1>7 DEF BuiltInv, Boot
<1>9. CASE StartGroup("reset")
  <2> DEFINE g == NextUp(todo["reset"])
             hs == HooksOf(g) \cap {Schema}
  <2>1. /\ op' = op /\ UNCHANGED <<active, schema>>
        /\ op["reset"] = "reinitialize" /\ pending["reset"] = {}
        /\ todo'["reset"] = todo["reset"] \ {g} /\ pending'["reset"] = hs
        /\ building' = IF Schema \in hs THEN storage ELSE building
    BY <1>1, <1>3, <1>9 DEF StartGroup, LifeTypeOK
  <2>2. Schema \in hs <=> g = Group[Schema]
    BY <1>1 DEF HooksOf
  <2>3. storage = "current"
    BY <1>1, <1>3, <1>7 DEF BuiltInv
  <2> HIDE DEF g, hs
  <2>4. QED
    BY <1>7, <1>8, <2>1, <2>2, <2>3 DEF RebuiltInv
<1>10. CASE GroupsReady("reset")
  BY <1>1, <1>3, <1>7, <1>8, <1>10 DEF GroupsReady, hookVars, RebuiltInv, LifeTypeOK
<1>11. CASE DestroyGroup("reset")
  BY <1>4, <1>7, <1>8, <1>11 DEF DestroyGroup, RebuiltInv
<1>12. CASE GroupsDestroyed("reset")
  BY <1>1, <1>7, <1>8, <1>12 DEF GroupsDestroyed, RebuiltInv, LifeTypeOK, Groups
<1>13. ASSUME NEW h \in Hooks, HookReady("reset", h)  PROVE RebuiltInv'
  <2>1. /\ op' = op /\ UNCHANGED todo /\ h = Schema
        /\ pending["reset"] = {Schema} /\ pending'["reset"] = {}
        /\ active' = active \cup {Schema} /\ schema' = building
    BY <1>1, <1>3, <1>13 DEF HookReady, LifeTypeOK
  <2>2. QED
    BY <1>7, <2>1 DEF RebuiltInv
<1>14. ASSUME NEW h \in Hooks, HookFails("reset", h)  PROVE RebuiltInv'
  <2>1. /\ op'["reset"] = "failed" /\ building' = building
        /\ pending'["reset"] \subseteq pending["reset"]
    BY <1>1, <1>14 DEF HookFails, hookVars, LifeTypeOK
  <2>2. QED
    BY <1>7, <2>1 DEF RebuiltInv
<1>15. QED
  BY <1>8, <1>9, <1>10, <1>11, <1>12, <1>13, <1>14 DEF RunStep, HookEnds

(* With a signal, a server does not take requests any longer; its other    *)
(* steps leave the hooks alone.                                            *)
LEMMA ServerServe ==
  ASSUME IInv, ServeInv, LifeNext, UNCHANGED testVars,
         ~\E r \in {"boot", "reset"} : RunStep(r) \/ HookEnds(r)
  PROVE  ServeInv'
<1> USE HooksAssumption DEF testVars
<1>1. /\ TypeOK /\ LifeTypeOK /\ RunInv /\ WaitInv
      /\ "boot" \in Runs /\ "boot" \notin Signals
  BY DEF IInv, ServeInv, TypeOK, Runs
<1>2. ASSUME NEW s \in Signals, RunStep(s) \/ HookEnds(s)
      PROVE  ServeInv'
  <2>1. s \in Runs /\ s # "boot" /\ pending[s] = {} /\ op[s] = "destroy"
    BY <1>1, <1>2
       DEF RunInv, Runs, RunStep, HookEnds, StartGroup, GroupsReady,
           DestroyGroup, GroupsDestroyed, HookReady, HookFails
  <2>2. /\ server' = server /\ server \notin {"off", "starting", "on"}
        /\ UNCHANGED <<env, at, prepared, resolved>> /\ active' \subseteq active
        /\ op'["boot"] = op["boot"]
    BY <1>1, <1>2, <2>1
       DEF WaitInv, RunStep, HookEnds, StartGroup, GroupsReady,
           DestroyGroup, GroupsDestroyed, HookReady, HookFails, hookVars,
           LifeTypeOK
  <2>3. QED
    BY <1>1, <2>2 DEF ServeInv, WaitInv, Boot
<1>3. ASSUME NEW s \in Signals, ShutdownServer(s)  PROVE ServeInv'
  <2>1. /\ server' \notin {"off", "starting", "on"}
        /\ UNCHANGED <<env, at, prepared, resolved, active>>
        /\ op'["boot"] = op["boot"]
    BY <1>1, <1>3 DEF ShutdownServer, hookVars, LifeTypeOK
  <2>2. QED
    BY <1>1, <2>1 DEF ServeInv, WaitInv, Boot
<1>4. CASE \/ ServerAnswers \/ StopEnds \/ ExitRejected
           \/ \E s \in Signals : Kill(s) \/ Exit(s)
  <2>1. /\ UNCHANGED <<env, at, prepared, resolved, hookVars, runVars>>
        /\ server' = server \/ (server = "starting" /\ server' = "on")
           \/ server' \notin {"off", "starting", "on"}
    BY <1>4 DEF ServerAnswers, ServerStarts, ServerFails, StopEnds, ExitRejected,
                Kill, Exit
  <2>2. QED
    BY <1>1, <2>1
       DEF ServeInv, WaitInv, BuiltInv, RebuiltInv, Boot, hookVars, runVars
<1>5. QED
  BY <1>2, <1>3, <1>4 DEF LifeNext, Arrives, Runs

(* What the strategy and mocha do to it, one case per action *)
LEMMA TestServe ==
  ASSUME IInv, ServeInv, TestNext
  PROVE  ServeInv'
<1> USE HooksAssumption
<1>1. /\ TypeOK /\ LifeTypeOK /\ RunInv /\ WaitInv /\ env = "test"
      /\ "boot" \in Runs /\ "reset" \in Runs /\ Signals \subseteq Runs
      /\ {"boot", "reset"} \cap Signals = {} /\ Storage # Schema
  BY DEF IInv, ServeInv, TypeOK, Runs, TestNext
<1> DEFINE Up == server \in {"off", "starting", "on"} /\ at # "over"
<1>2. Up => BuiltInv /\ RebuiltInv
  BY DEF ServeInv
<1>3. CASE Prepare
  <2>1. /\ at = "setup" /\ ~prepared /\ (resolved' <=> resolved)
        /\ UNCHANGED <<env, server, active, schema, building, op, pending,
                       at, prepared>>
    BY <1>3 DEF Prepare, Resolves, runVars, testVars
  <2>2. Storage \notin active
    BY <1>1, <2>1 DEF WaitInv
  <2>3. QED
    BY <1>1, <1>2, <2>1, <2>2 DEF ServeInv, WaitInv, BuiltInv, RebuiltInv, Boot
<1>4. CASE AttachFirst
  <2>1. /\ prepared' = TRUE /\ resolved' = TRUE /\ storage' = "current"
        /\ at = "setup"
        /\ UNCHANGED <<env, server, active, schema, building, op, pending, at>>
    BY <1>4 DEF AttachFirst, Resolves, runVars
  <2>2. QED
    BY <1>1, <1>2, <2>1 DEF ServeInv, WaitInv, BuiltInv, RebuiltInv, Boot
<1>5. CASE SetupDone
  <2>1. Boot = "done" /\ at = "setup" /\ at' = "between"
    BY <1>1, <1>5 DEF SetupDone, RunInv
  <2>2. UNCHANGED <<env, server, active, storage, schema, building, op, pending,
                    prepared, resolved>>
    BY <1>5 DEF SetupDone, lifeVars, hookVars, runVars
  <2>3. QED
    BY <1>1, <1>2, <2>1, <2>2 DEF ServeInv, WaitInv, BuiltInv, RebuiltInv, Boot
<1>6. CASE SetupFails \/ SwitchFails
  <2>1. at' = "over" /\ UNCHANGED <<env, server, active, op, prepared, resolved>>
    BY <1>6 DEF SetupFails, SwitchFails, lifeVars, hookVars, runVars
  <2>2. QED
    BY <1>1, <2>1 DEF ServeInv, WaitInv
<1>7. CASE NextSuite \/ MochaEnds
  <2>1. UNCHANGED <<env, server, active, storage, schema, building, op, todo,
                    pending, at, prepared, resolved>>
    BY <1>7 DEF NextSuite, MochaEnds, lifeVars, hookVars, runVars, testVars
  <2>2. QED
    BY <1>1, <1>2, <2>1 DEF ServeInv, WaitInv, BuiltInv, RebuiltInv, Boot
<1>8. ASSUME NEW noreset \in BOOLEAN, NEW passed \in BOOLEAN,
             Test(noreset, passed)
      PROVE  ServeInv'
  <2>1. /\ at = "testing" /\ at' = "between"
        /\ UNCHANGED <<env, server, active, storage, schema, building, op, todo,
                       pending, prepared, resolved>>
    BY <1>8 DEF Test, lifeVars, hookVars, runVars
  <2>2. QED
    BY <1>1, <1>2, <2>1 DEF ServeInv, WaitInv, BuiltInv, RebuiltInv, Boot
<1>9. CASE BeforeEach
  <2>1. /\ at = "between" /\ at' \in {"switching", "testing"}
        /\ at' = "testing" => UNCHANGED <<storage, schema>>
        /\ UNCHANGED <<env, server, active, building, op, pending, prepared,
                       resolved>>
    BY <1>9 DEF BeforeEach, runVars
  <2>2. QED
    BY <1>1, <1>2, <2>1 DEF ServeInv, WaitInv, BuiltInv, RebuiltInv, Boot
<1>10. CASE SwitchDone
  <2>1. /\ at = "switching" /\ at' \in {"resetting", "over"}
        /\ storage' = "current"
        /\ UNCHANGED <<env, server, active, schema, building, pending, prepared,
                       resolved>>
    BY <1>10 DEF SwitchDone
  <2>2. /\ at' = "resetting" => op' = [op EXCEPT !["reset"] = "destroy"]
        /\ at' = "over" => op' = op
    BY <1>10 DEF SwitchDone
  <2>3. /\ at' = "resetting" => op'["reset"] = "destroy"
        /\ op'["boot"] = op["boot"] /\ \A s \in Signals : op'[s] = op[s]
    BY <1>1, <2>1, <2>2 DEF LifeTypeOK
  <2>4. QED
    BY <1>1, <1>2, <2>1, <2>3 DEF ServeInv, WaitInv, BuiltInv, RebuiltInv, Boot
<1>11. CASE ResetDone
  <2>1. /\ at = "resetting"
        /\ at' = IF op["reset"] = "done" THEN "testing" ELSE "over"
        /\ UNCHANGED <<env, server, active, storage, schema, building, pending,
                       prepared, resolved>>
    BY <1>11 DEF ResetDone, hookVars
  <2>2. /\ op'["reset"] = "idle"
        /\ op'["boot"] = op["boot"] /\ \A s \in Signals : op'[s] = op[s]
    BY <1>1, <1>11 DEF ResetDone, LifeTypeOK
  <2>3. QED
    BY <1>1, <1>2, <2>1, <2>2 DEF ServeInv, WaitInv, BuiltInv, RebuiltInv, Boot
<1>12. QED
  BY <1>3, <1>4, <1>5, <1>6, <1>7, <1>8, <1>9, <1>10, <1>11
     DEF TestNext, Setup

(* Every step keeps what is served current.                                *)
LEMMA NextServeInv == IInv /\ ServeInv /\ [Next]_vars => ServeInv'
<1> SUFFICES ASSUME IInv, ServeInv, [Next]_vars  PROVE ServeInv'
  OBVIOUS
<1>1. CASE LifeNext /\ UNCHANGED testVars
  <2>1. Alive
    BY <1>1 DEF LifeNext
  <2>2. QED
    BY <1>1, <2>1, BootServe, ResetServe, ServerServe
<1>2. CASE TestNext
  BY <1>2, TestServe
<1>3. CASE UNCHANGED vars
  BY <1>3 DEF vars, lifeVars, testVars, hookVars, runVars, ServeInv, WaitInv,
              BuiltInv, RebuiltInv, Boot
<1>4. QED
  BY <1>1, <1>2, <1>3 DEF Next

(* While the server takes requests and no test is being prepared, all      *)
(* hooks are initialized, the storage is connected, and the schema was     *)
(* built on the models of this connection: initHooks and resetHooks are    *)
(* awaited, the storage hook waits for the strategy, and a signal stops    *)
(* the server before it destroys a hook. (Api.ts, HookLifeCycle.ts,        *)
(* TestStrategyClass.ts)                                                   *)
THEOREM Current == Spec => []ServesCurrent
<1>1. IInv /\ ServeInv => ServesCurrent
  <2> SUFFICES ASSUME IInv, ServeInv, server = "on",
                      at \notin {"switching", "resetting", "over"}
               PROVE  active = Hooks /\ storage = "current" /\ schema = "current"
    BY DEF ServesCurrent
  <2>1. Boot = "done" /\ BuiltInv
    BY DEF IInv, RunInv, ServeInv
  <2>2. Hooks \ {Schema} \subseteq active /\ Schema \in active /\ active \subseteq Hooks
        /\ Storage \in Hooks /\ Storage # Schema /\ schema = "current"
    BY <2>1, HooksAssumption DEF BuiltInv, IInv, TypeOK, LifeTypeOK
  <2>3. QED
    BY <2>1, <2>2 DEF BuiltInv
<1>2. QED
  BY <1>1, InitServeInv, NextServeInv, Invariance, PTL DEF Spec
=============================================================================
