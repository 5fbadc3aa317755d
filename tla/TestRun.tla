------------------------------- MODULE TestRun -------------------------------
(***************************************************************************)
(* The process of the API: in production LifeCycle alone, in tests with    *)
(* what the test set-up and mocha do to it.  The test strategy prepares a  *)
(* database while the API initializes its hooks.  Before a test, when the  *)
(* database is dirty, the storage is switched to a fresh one (TemplatePool *)
(* has the details) and the hooks are reset; after a test, its outcome and *)
(* the tags of the test and of its suite say whether the database is.      *)
(***************************************************************************)
EXTENDS LifeCycle

CONSTANTS MaxTests    \* bound: tests of a suite (those below are new suites)

ASSUME MaxTestsAssumption == MaxTests \in Nat \ {0}

VARIABLES
  at,                \* where mocha is
  prepared,          \* has TestStrategy.init ended?
  isDatabaseDirty,
  suite,             \* is it tagged #resetafter, how many tests are left, and
                     \* does it skip others, which never have a state?
  written            \* which tests wrote to the database that the storage is
                     \* connected to

testVars == <<at, prepared, isDatabaseDirty, suite, written>>
vars == <<lifeVars, testVars>>

(* Tests tagged #noreset that passed; other tests of a suite #resetafter   *)
(* that passed, of the present one, or of one that has ended with a test   *)
(* tagged #noreset or that skips tests; and all others.                    *)
Writers == {"noreset", "bundle", "kept bundle", "other"}

TypeOK ==
  /\ LifeTypeOK
  /\ at \in {"setup", "between", "switching", "resetting", "testing", "over"}
  /\ prepared \in BOOLEAN /\ isDatabaseDirty \in BOOLEAN
  /\ suite \in [resetAfter : BOOLEAN, left : 0 .. MaxTests, skips : BOOLEAN]
  /\ written \subseteq Writers

Init ==
  /\ LifeInit
  /\ at = "setup" /\ prepared = FALSE
  /\ isDatabaseDirty = FALSE
  /\ suite = [resetAfter |-> FALSE, left |-> 0, skips |-> FALSE]
  /\ written = {}

-----------------------------------------------------------------------------
(* Variants of the helpers below, each with a plausible mistake that one   *)
(* of the properties rules out.                                            *)
TagsOnly(noreset, passed) ==                    \* failed tests may skip, too
  noreset \/ (suite.resetAfter /\ suite.left > 1)

(* Helpers *)

(* The tests of the suite that have no state when the present one has *)
Remaining == suite.left - 1 + (IF suite.skips THEN 1 ELSE 0)

(* mochaIsAllowedToSkipHardStorageReset *)
MaySkip(noreset, passed) ==
  passed /\ (noreset \/ (suite.resetAfter /\ Remaining > 0))

(* What a test may leave in the database: nothing, or what it wrote.  The  *)
(* tag #noreset does not keep a test from writing: those of                *)
(* legal.controller.test.ts do.                                            *)
Leaves(noreset, passed) ==
  {{}} \cup CASE passed /\ noreset -> {{"noreset"}}
             [] passed /\ ~noreset /\ suite.resetAfter -> {{"bundle"}}
             [] OTHER -> {{"other"}}

(* With its last test a suite ends. *)
Bundled(writers, noreset) ==
  LET ended == IF noreset \/ suite.skips THEN "kept bundle" ELSE "other"
  IN IF suite.left > 1 THEN writers
     ELSE {IF w = "bundle" THEN ended ELSE w : w \in writers}

-----------------------------------------------------------------------------
(* globalBefore: TestStrategy.init and Api.ready, concurrently             *)

(* The storage is connected to and disconnected from databases that are    *)
(* being prepared: initialize(..., false) does not resolve isInitialized.  *)
Prepare ==
  /\ at = "setup" /\ ~prepared
  /\ storage' \in {"none", "template"}
  /\ resolved' = Resolves(FALSE)
  /\ UNCHANGED <<env, exit, rejected, server, initialized, active,
                 schema, building, runVars, stop, testVars>>

(* switchToNewSlaveDB at the end of init: reinitialize resolves it. *)
AttachFirst ==
  /\ at = "setup" /\ ~prepared
  /\ prepared' = TRUE
  /\ storage' = "current"
  /\ resolved' = Resolves(TRUE)
  /\ UNCHANGED <<env, exit, rejected, server, initialized, active, schema,
                 building, runVars, stop, at, isDatabaseDirty, suite, written>>

SetupDone ==
  /\ at = "setup" /\ prepared /\ server \in {"on", "stopping", "stopped"}
  /\ at' = "between"
  /\ UNCHANGED <<lifeVars, prepared, isDatabaseDirty, suite, written>>

(* The strategy, a hook or the server has failed: mocha ends. *)
SetupFails ==
  /\ at = "setup" /\ (~prepared \/ op["boot"] = "failed" \/ server = "failed")
  /\ at' = "over"
  /\ UNCHANGED <<lifeVars, prepared, isDatabaseDirty, suite, written>>

-----------------------------------------------------------------------------
(* mocha's other hooks, and the tests *)

NextSuite ==
  /\ at = "between" /\ suite.left = 0
  /\ suite' \in [resetAfter : BOOLEAN, left : 1 .. MaxTests, skips : BOOLEAN]
  /\ UNCHANGED <<lifeVars, at, prepared, isDatabaseDirty, written>>

(* globalBeforeEach; switchToNewSlaveDB begins with disconnect: nothing    *)
(* that is in the old database will be found by a test.                    *)
BeforeEach ==
  /\ at = "between" /\ suite.left > 0
  /\ IF isDatabaseDirty
     THEN /\ at' = "switching"
          /\ storage' = "none" /\ written' = {}
          /\ schema' = IF schema = "current" THEN "old" ELSE schema
     ELSE at' = "testing" /\ UNCHANGED <<storage, schema, written>>
  /\ UNCHANGED <<env, exit, rejected, server, initialized, resolved, active,
                 building, runVars, stop, prepared, isDatabaseDirty, suite>>

(* The storage is connected to the next database, and resetHooks begins.   *)
(* It throws when a shutdown has killed the hooks.                         *)
SwitchDone ==
  /\ at = "switching"
  /\ storage' = "current"
  /\ IF initialized
     THEN /\ at' = "resetting"
          /\ op' = [op EXCEPT !["reset"] = "destroy"]
          /\ todo' = [todo EXCEPT !["reset"] = Groups]
     ELSE at' = "over" /\ UNCHANGED <<op, todo>>
  /\ UNCHANGED <<env, exit, rejected, server, initialized, resolved, active,
                 schema, building, pending, stop, prepared,
                 isDatabaseDirty, suite, written>>

(* No database can be had: a failing hook of the root suite ends the run. *)
SwitchFails ==
  /\ at = "switching"
  /\ at' = "over"
  /\ UNCHANGED <<lifeVars, prepared, isDatabaseDirty, suite, written>>

ResetDone ==
  /\ at = "resetting" /\ op["reset"] \in {"done", "failed"}
  /\ at' = IF op["reset"] = "done" THEN "testing" ELSE "over"
  /\ op' = [op EXCEPT !["reset"] = "idle"]
  /\ UNCHANGED <<env, exit, rejected, server, initialized, resolved, hookVars,
                 todo, pending, stop, prepared, isDatabaseDirty, suite, written>>

(* A test runs, and globalAfterEach. *)
Test(noreset, passed) ==
  /\ at = "testing"
  /\ at' = "between"
  /\ suite' = [suite EXCEPT !.left = @ - 1]
  /\ \E left \in Leaves(noreset, passed) :
       written' = Bundled(written \cup left, noreset)
  /\ isDatabaseDirty' = ~MaySkip(noreset, passed)
  /\ UNCHANGED <<lifeVars, prepared>>

(* mocha --exit *)
MochaEnds ==
  /\ at = "over" \/ (at = "between" /\ suite.left = 0)
  /\ exit' = "tests"
  /\ UNCHANGED <<env, rejected, server, initialized, resolved, hookVars, runVars,
                 stop, testVars>>

Setup == AttachFirst \/ SetupDone \/ SetupFails

TestNext ==
  /\ Alive /\ env = "test"
  /\ \/ Prepare \/ Setup \/ NextSuite \/ BeforeEach
     \/ SwitchDone \/ SwitchFails \/ ResetDone
     \/ \E noreset, passed \in BOOLEAN : Test(noreset, passed)
     \/ MochaEnds

Next == (LifeNext /\ UNCHANGED testVars) \/ TestNext

Spec == Init /\ [][Next]_vars

-----------------------------------------------------------------------------
(* What must hold *)

(* Hooks build on those of lower groups: a hook is only initialized, and   *)
(* only stays so, while they are.  (A hook without destroy stays active    *)
(* when the process is about to end.)                                      *)
InOrder ==
  \A h, k \in Hooks :
    /\ Group[k] < Group[h]
    /\ h \in active \/ \E r \in Runs : h \in pending[r]
    /\ h \in Destroyable \/ k \notin Destroyable
    => k \in active

(* While the server takes requests, and no test is being prepared, they    *)
(* find every hook initialized, the storage connected, and a schema built  *)
(* on the models of this very connection.                                  *)
ServesCurrent ==
  server = "on" /\ at \notin {"switching", "resetting", "over"} =>
    active = Hooks /\ storage = "current" /\ schema = "current"

(* A shutdown that reports success has closed everything, however many     *)
(* signals came and in whatever order their work was done.                 *)
CleanExit ==
  exit = "clean" /\ env = "production" =>
    storage = "none" /\ schema = "none" /\ active \cap Destroyable = {}

(* A test finds nothing that earlier tests wrote, with these exceptions:   *)
(* what passed tests tagged #noreset wrote, which their tag excuses from a *)
(* reset; what passed tests of its own suite with #resetafter wrote; and   *)
(* of an earlier one only if that suite's last test was tagged #noreset or *)
(* others of its tests were skipped: the database is not always reset      *)
(* "after all tests" of a bundle, as the comment on the tag says.          *)
(* (mochaIsAllowedToSkipHardStorageReset)                                  *)
OnlyBundlesShare ==
  at = "testing" => written \subseteq {"noreset", "bundle", "kept bundle"}

(* Fairness: jobs in node's queues run, hooks and hapi answer, the timer   *)
(* of a rejection fires, and the preparation of the test database ends.    *)
FairSpec ==
  /\ Spec
  /\ \A r \in Runs : WF_vars(Alive /\ (RunStep(r) \/ HookEnds(r)) /\ UNCHANGED testVars)
  /\ \A s \in Signals : WF_vars(Alive /\ Exit(s) /\ UNCHANGED testVars)
  /\ WF_vars(Alive /\ ServerAnswers /\ UNCHANGED testVars)
  /\ WF_vars(Alive /\ StopEnds /\ UNCHANGED testVars)
  /\ WF_vars(Alive /\ ExitRejected /\ UNCHANGED testVars)
  /\ WF_vars(Alive /\ env = "test" /\ (Setup \/ (at = "over" /\ MochaEnds)))

(* The process comes up or ends: the storage hook, which waits for the     *)
(* test strategy, and the strategy do not wait for each other.             *)
StartEnds == <>(server = "on" \/ ~Alive)

(* A signal ends the process, whatever it interrupts: also a reset, during *)
(* which there is nothing that killHooks could kill.                       *)
ShutdownEnds == \A s \in Signals : op[s] # "idle" ~> ~Alive
=============================================================================
