---------------------------- MODULE Synchronized ----------------------------
(***************************************************************************)
(* synchronizedBy(target): callers with the same key share one run of an   *)
(* asynchronous target.  (synchronized(target) is the case of one key.)    *)
(*                                                                         *)
(* bluebird runs the continuations of settled promises from a first-in     *)
(* first-out queue, and drains it before any other callback of node runs.  *)
(* A continuation is a job <<what, caller>>:                               *)
(*   "call"    something calls the synchronized function                   *)
(*   "target"  the creator continues after its target settled              *)
(*   "resume"  a caller continues after the promise it awaits settled      *)
(* How a target ends makes no difference to the order of all this.         *)
(***************************************************************************)
EXTENDS Naturals, Sequences, FiniteSets

CONSTANTS
  Callers, Keys, None,
  MaxRuns        \* bound: runs of the target that are explored

ASSUME CallersAssumption == IsFiniteSet(Callers)
ASSUME MaxRunsAssumption == MaxRuns \in Nat
ASSUME NoneAssumption == None \notin Nat

VARIABLES
  mutexCache,    \* the promise of a key (its run), or None
  runs,          \* promises made, one per run of the target
  handlers,      \* the callers that await a pending promise, in order
  settled,       \* promises that are settled
  queue,         \* the jobs
  draining,      \* is bluebird draining the queue?
  pc, key,       \* of a caller: where it is, with which key
  joined,        \* the run that was on when it called
  awaits,        \* the promise it awaits; idle: that it returned
  unrelatedJobs  \* do continuations of unrelated promises call, too?

callVars == <<mutexCache, runs, handlers, settled, queue, draining, pc, key,
              joined, awaits>>
vars == <<callVars, unrelatedJobs>>

Run == 1 .. MaxRuns

TypeOK ==
  /\ mutexCache \in [Keys -> Run \cup {None}]
  /\ runs \in 0 .. MaxRuns
  /\ handlers \in [Run -> Seq(Callers)]
  /\ settled \subseteq 1 .. runs
  /\ queue \in Seq({"call", "target", "resume"} \X Callers)
  /\ draining \in BOOLEAN
  /\ pc \in [Callers -> {"idle", "queued", "target", "done", "await"}]
  /\ key \in [Callers -> Keys]
  /\ joined \in [Callers -> Run \cup {None}]
  /\ awaits \in [Callers -> Run \cup {None}]
  /\ unrelatedJobs \in BOOLEAN

Init ==
  /\ mutexCache = [k \in Keys |-> None]
  /\ runs = 0 /\ settled = {} /\ queue = <<>> /\ draining = FALSE
  /\ handlers = [r \in Run |-> <<>>]
  /\ pc = [c \in Callers |-> "idle"]
  /\ key \in [Callers -> Keys]
  /\ joined = [c \in Callers |-> None]
  /\ awaits = [c \in Callers |-> None]
  /\ unrelatedJobs \in BOOLEAN

-----------------------------------------------------------------------------
(* Variants of the helpers below, each with a plausible mistake that one   *)
(* of the properties rules out.                                            *)
NeverShared(k) == TRUE                            \* no look at the cache
KeepMutex(k) == mutexCache                        \* never delete
WakeNobody(r) == <<>>                             \* the promise never settles

(* Helpers *)
IsFree(k) == mutexCache[k] = None
Release(k) == [mutexCache EXCEPT ![k] = None]
Woken(r) == handlers[r]
Awaited(c) == mutexCache[key[c]]
Jobs(what, callers) == [i \in DOMAIN callers |-> <<what, callers[i]>>]

(* await the promise r: of nothing or of a settled promise, c goes on in a *)
(* job of its own                                                          *)
AwaitPromise(c, r, q, done, h) ==
  /\ pc' = [pc EXCEPT ![c] = "await"]
  /\ awaits' = [awaits EXCEPT ![c] = r]
  /\ IF r = None \/ r \in done
     THEN queue' = Append(q, <<"resume", c>>) /\ handlers' = h
     ELSE queue' = q /\ handlers' = [h EXCEPT ![r] = Append(@, c)]

(* the synchronized function up to its first await, when q is queued *)
Enter(c, q) ==
  LET k == key[c] IN
  IF IsFree(k)
  THEN /\ runs' = runs + 1
       /\ mutexCache' = [mutexCache EXCEPT ![k] = runs + 1]
       /\ joined' = [joined EXCEPT ![c] = runs + 1]
       /\ pc' = [pc EXCEPT ![c] = "target"]
       /\ queue' = q
       /\ UNCHANGED <<handlers, awaits>>
  ELSE /\ joined' = [joined EXCEPT ![c] = mutexCache[k]]
       /\ AwaitPromise(c, mutexCache[k], q, settled, handlers)
       /\ UNCHANGED <<runs, mutexCache>>

NextJob(what, c) ==
  /\ queue # <<>>
  /\ Head(queue) = <<what, c>>

Drain == draining' = (queue' # <<>>)

(* The bound leaves a run to every call that is queued. *)
MayCall == runs + Cardinality({c \in Callers : pc[c] = "queued"}) < MaxRuns

-----------------------------------------------------------------------------
(* A callback of node calls. *)
Call(c) ==
  /\ ~draining
  /\ pc[c] = "idle"
  /\ MayCall
  /\ Enter(c, queue)
  /\ UNCHANGED <<settled, draining, key>>

(* Some continuation that will call is queued. *)
QueueCall(c) ==
  /\ unrelatedJobs
  /\ pc[c] = "idle"
  /\ MayCall
  /\ pc' = [pc EXCEPT ![c] = "queued"]
  /\ queue' = Append(queue, <<"call", c>>)
  /\ UNCHANGED <<mutexCache, runs, handlers, settled, draining, key, joined,
                 awaits>>

QueuedCall(c) ==
  /\ NextJob("call", c)
  /\ Enter(c, Tail(queue))
  /\ Drain
  /\ UNCHANGED <<settled, key>>

TargetSettles(c) ==
  /\ pc[c] = "target"
  /\ pc' = [pc EXCEPT ![c] = "done"]
  /\ queue' = Append(queue, <<"target", c>>)
  /\ UNCHANGED <<mutexCache, runs, handlers, settled, draining, key, joined,
                 awaits>>

(* The creator settles its promise, and awaits the one of the cache. *)
AfterTarget(c) ==
  LET r == joined[c] IN
  /\ NextJob("target", c)
  /\ settled' = settled \cup {r}
  /\ AwaitPromise(c, Awaited(c), Tail(queue) \o Jobs("resume", Woken(r)),
                  settled \cup {r}, [handlers EXCEPT ![r] = <<>>])
  /\ Drain
  /\ UNCHANGED <<mutexCache, runs, key, joined>>

(* The caller clears the cache and returns; it may call again from there. *)
AfterAwait(c) ==
  /\ NextJob("resume", c)
  /\ mutexCache' = Release(key[c])
  /\ \/ /\ pc' = [pc EXCEPT ![c] = "idle"]
        /\ queue' = Tail(queue)
     \/ /\ MayCall
        /\ pc' = [pc EXCEPT ![c] = "queued"]
        /\ queue' = Append(Tail(queue), <<"call", c>>)
  /\ Drain
  /\ UNCHANGED <<runs, handlers, settled, key, joined, awaits>>

Next ==
  /\ \E c \in Callers :
       \/ Call(c) \/ QueueCall(c) \/ QueuedCall(c)
       \/ TargetSettles(c) \/ AfterTarget(c) \/ AfterAwait(c)
  /\ UNCHANGED unrelatedJobs

(* node drains its queue, and targets settle; nobody has to call *)
Fairness == \A c \in Callers : /\ WF_callVars(QueuedCall(c))
                               /\ WF_callVars(TargetSettles(c))
                               /\ WF_callVars(AfterTarget(c))
                               /\ WF_callVars(AfterAwait(c))

Spec == Init /\ [][Next]_vars /\ Fairness

-----------------------------------------------------------------------------
(* When only callbacks of node and the continuations of the function's own *)
(* callers call, the target never runs twice at once for a key, and every  *)
(* caller returns what the run returned that was on when it called: nobody *)
(* then calls between the steps in which the callers of a run clear the    *)
(* cache. (synchronizedBy: "wrap to only call once")                       *)
SharedRuns ==
  ~unrelatedJobs =>
    /\ \A c, d \in Callers :
         pc[c] = "target" /\ pc[d] = "target" /\ key[c] = key[d] => c = d
    /\ \A c \in Callers : pc[c] \in {"idle", "await"} => awaits[c] = joined[c]

(* The cache holds no promise longer than somebody uses it: the next call  *)
(* runs the target anew.                                                   *)
MutexReleased ==
  \A k \in Keys : (\A c \in Callers : pc[c] = "idle") => IsFree(k)

(* Nobody hangs on a promise: who waits for a target's run returns. *)
CallersReturn ==
  \A c \in Callers : pc[c] = "await" ~> pc[c] = "idle" \/ pc[c] = "queued"
=============================================================================
