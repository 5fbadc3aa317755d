------------------------- MODULE SynchronizedProofs -------------------------
(***************************************************************************)
(* Theorems about Synchronized for every finite set of callers, every set  *)
(* of keys and every number of runs.                                       *)
(***************************************************************************)
EXTENDS Synchronized, FiniteSetTheorems, SequenceTheorems, TLAPS

Queued == {c \in Callers : pc[c] = "queued"}
Positions == 1 .. Len(queue)
Jobset == {"call", "target", "resume"} \X Callers

(* Where a caller is while its continuation is queued *)
Place(what) == IF what = "call" THEN "queued"
               ELSE IF what = "target" THEN "done" ELSE "await"

(* Every queued job is the only one of its caller, which is where the job  *)
(* finds it.                                                               *)
JobInv ==
  /\ \A i \in Positions : pc[queue[i][2]] = Place(queue[i][1])
  /\ \A i, j \in Positions : queue[i][2] = queue[j][2] => i = j

(* A caller that awaits a pending promise is in its handlers, once, and    *)
(* not queued.                                                             *)
HandlerInv ==
  \A r \in Run : \A i \in 1 .. Len(handlers[r]) :
    /\ pc[handlers[r][i]] = "await" /\ awaits[handlers[r][i]] = r
    /\ \A j \in 1 .. Len(handlers[r]) : handlers[r][i] = handlers[r][j] => i = j
    /\ \A j \in Positions : queue[j][2] # handlers[r][i]

(* Runs are numbered as they start, and a promise is cached for one key. *)
RunInv ==
  /\ runs + Cardinality(Queued) <= MaxRuns
  /\ \A c \in Callers : pc[c] \in {"target", "done"} => joined[c] \in 1 .. runs
  /\ \A k \in Keys : mutexCache[k] # None =>
       /\ mutexCache[k] \in 1 .. runs
       /\ \A j \in Keys : mutexCache[j] = mutexCache[k] => j = k

IInv == TypeOK /\ JobInv /\ HandlerInv /\ RunInv

-----------------------------------------------------------------------------
(* The order of the jobs, when no unrelated continuation calls *)

(* A run is in the cache until its promise is settled and its first caller *)
(* resumes, and there is one at a time.                                    *)
CreatorInv ==
  \A c \in Callers : pc[c] \in {"target", "done"} =>
    /\ mutexCache[key[c]] = joined[c] /\ joined[c] \notin settled
    /\ \A d \in Callers : pc[d] \in {"target", "done"} /\ key[d] = key[c] => c = d

(* Who awaits a pending promise awaits the one of the cache. *)
WaiterInv ==
  \A r \in Run : \A i \in 1 .. Len(handlers[r]) :
    r \notin settled /\ mutexCache[key[handlers[r][i]]] = r

(* Everybody awaits the run it joined. *)
JoinedInv == \A c \in Callers : pc[c] \in {"idle", "await"} => awaits[c] = joined[c]

(* The callers of a run resume before anybody with their key calls, and    *)
(* who calls after them calls before the next run has ended.               *)
Ordered(q) ==
  \A i, j \in 1 .. Len(q) :
    q[i][1] = "call" /\ key[q[i][2]] = key[q[j][2]] =>
      (q[j][1] = "resume" => j < i) /\ (q[j][1] = "target" => i < j)

(* Who resumes awaited a settled promise or, when another has resumed      *)
(* before, finds the cache empty.                                          *)
ResumeInv ==
  \A i \in Positions :
    queue[i][1] = "resume" => mutexCache[key[queue[i][2]]] \in settled \cup {None}

(* A settled promise is in the cache until its callers resume, and nobody  *)
(* with its key calls meanwhile.                                           *)
SettledInv ==
  \A k \in Keys : mutexCache[k] \in settled =>
    /\ \E i \in Positions : queue[i][1] = "resume" /\ key[queue[i][2]] = k
    /\ \A i \in Positions : key[queue[i][2]] = k => queue[i][1] # "call"

QueueInv == Ordered(queue) /\ ResumeInv /\ SettledInv

(* Between two drains only ends of targets are queued. *)
DrainInv == ~draining => \A i \in Positions : queue[i][1] = "target"

OrderInv == CreatorInv /\ WaiterInv /\ JoinedInv /\ QueueInv /\ DrainInv

SharedInv == ~unrelatedJobs => OrderInv

(* Somebody will release the cache. *)
MutexInv ==
  \A k \in Keys : mutexCache[k] # None =>
    \E c \in Callers : key[c] = k /\ pc[c] \in {"target", "done", "await"}

-----------------------------------------------------------------------------
(* What Append does, in terms of the positions *)
LEMMA Appended ==
  ASSUME NEW S, NEW q \in Seq(S), NEW e \in S
  PROVE  /\ Append(q, e) \in Seq(S)
         /\ \A i \in 1 .. Len(q) : Append(q, e)[i] = q[i]
         /\ Append(q, e)[Len(q) + 1] = e
         /\ 1 .. Len(Append(q, e)) = 1 .. Len(q) \cup {Len(q) + 1}
<1>1. Len(q) \in Nat /\ Len(Append(q, e)) = Len(q) + 1
  OBVIOUS
<1>2. 1 .. Len(q) + 1 = 1 .. Len(q) \cup {Len(q) + 1}
  BY <1>1
<1> QED
  BY <1>1, <1>2

(* What the steps find at the head of the queue, and where they find nobody *)

(* A job that runs is the first of the queue, and its caller has no other. *)
LEMMA HeadJob ==
  ASSUME IInv, NEW what \in {"call", "target", "resume"}, NEW c \in Callers,
         NextJob(what, c)
  PROVE  /\ 1 \in Positions /\ queue[1][1] = what /\ queue[1][2] = c
         /\ pc[c] = Place(what)
         /\ Tail(queue) \in Seq(Jobset) /\ Len(Tail(queue)) = Len(queue) - 1
         /\ \A i \in 1 .. Len(Tail(queue)) :
              /\ Tail(queue)[i] = queue[i + 1] /\ i + 1 \in Positions
              /\ Tail(queue)[i][2] # c
<1>1. queue \in Seq(Jobset) /\ queue # <<>>
  BY DEF IInv, TypeOK, Jobset, NextJob
<1>2. Len(queue) \in Nat /\ Len(queue) # 0 /\ queue[1] = <<what, c>>
  BY <1>1 DEF NextJob
<1>3. 1 \in Positions /\ queue[1][1] = what /\ queue[1][2] = c
  BY <1>2 DEF Positions
<1>4. /\ Tail(queue) \in Seq(Jobset) /\ Len(Tail(queue)) = Len(queue) - 1
      /\ \A i \in 1 .. Len(Tail(queue)) : Tail(queue)[i] = queue[i + 1]
  BY <1>1, <1>2
<1>5. \A i \in 1 .. Len(Tail(queue)) : i + 1 \in Positions /\ i + 1 # 1
  BY <1>2, <1>4 DEF Positions
<1>6. pc[c] = Place(what)
  BY <1>3 DEF IInv, JobInv
<1>7. \A i \in 1 .. Len(Tail(queue)) : Tail(queue)[i][2] # c
  BY <1>3, <1>4, <1>5 DEF IInv, JobInv
<1> QED
  BY <1>3, <1>4, <1>5, <1>6, <1>7

(* Who neither is queued nor awaits has no job and is in no handlers. *)
LEMMA Outside ==
  ASSUME IInv, NEW c \in Callers
  PROVE  /\ pc[c] \in {"idle", "target"} =>
              \A i \in Positions : queue[i][2] # c
         /\ pc[c] # "await" =>
              \A r \in Run : \A i \in 1 .. Len(handlers[r]) :
                handlers[r][i] # c
BY DEF IInv, JobInv, HandlerInv, Place

(* Where the caller of a job that runs is, it is in no handlers either. *)
LEMMA HeadOutside ==
  ASSUME IInv, NEW what \in {"call", "target", "resume"}, NEW c \in Callers,
         NextJob(what, c)
  PROVE  \A r \in Run : \A i \in 1 .. Len(handlers[r]) : handlers[r][i] # c
BY HeadJob DEF IInv, HandlerInv

(* The jobs q and the handlers h are those of callers other than c, each
   once, where its job or its promise finds it. *)
Consistent(c, q, h) ==
  /\ \A i \in 1 .. Len(q) : q[i][2] # c /\ pc[q[i][2]] = Place(q[i][1])
  /\ \A i, j \in 1 .. Len(q) : q[i][2] = q[j][2] => i = j
  /\ \A r \in Run : \A i \in 1 .. Len(h[r]) :
       /\ h[r][i] # c /\ pc[h[r][i]] = "await" /\ awaits[h[r][i]] = r
       /\ \A j \in 1 .. Len(h[r]) : h[r][i] = h[r][j] => i = j
       /\ \A j \in 1 .. Len(q) : q[j][2] # h[r][i]

(* The queue without the job of c, if it has one, is consistent. *)
LEMMA WithoutCaller ==
  ASSUME IInv, NEW c \in Callers, NEW d \in {0, 1}, NEW q \in Seq(Jobset),
         \A i \in 1 .. Len(q) :
           q[i] = queue[i + d] /\ i + d \in Positions /\ q[i][2] # c,
         \A r \in Run : \A i \in 1 .. Len(handlers[r]) : handlers[r][i] # c
  PROVE  Consistent(c, q, handlers)
<1>t. JobInv /\ HandlerInv
  BY DEF IInv
<1>1. \A i \in 1 .. Len(q) : q[i][2] # c /\ pc[q[i][2]] = Place(q[i][1])
  BY <1>t DEF JobInv
<1>2. ASSUME NEW i \in 1 .. Len(q), NEW j \in 1 .. Len(q),
             q[i][2] = q[j][2]
      PROVE  i = j
  <2>1. /\ i + d \in Positions /\ j + d \in Positions
        /\ queue[i + d][2] = queue[j + d][2]
    BY <1>2
  <2>2. i + d = j + d
    BY <1>t, <2>1 DEF JobInv
  <2> QED
    BY <2>2
<1>3. ASSUME NEW r \in Run, NEW i \in 1 .. Len(handlers[r])
      PROVE  /\ handlers[r][i] # c
             /\ pc[handlers[r][i]] = "await" /\ awaits[handlers[r][i]] = r
             /\ \A j \in 1 .. Len(handlers[r]) :
                  handlers[r][i] = handlers[r][j] => i = j
             /\ \A j \in 1 .. Len(q) : q[j][2] # handlers[r][i]
  <2>1. \A j \in Positions : queue[j][2] # handlers[r][i]
    BY <1>t DEF HandlerInv
  <2>2. /\ pc[handlers[r][i]] = "await" /\ awaits[handlers[r][i]] = r
        /\ \A j \in 1 .. Len(handlers[r]) :
             handlers[r][i] = handlers[r][j] => i = j
    BY <1>t DEF HandlerInv
  <2> QED
    BY <2>1, <2>2
<1> QED
  BY <1>1, <1>2, <1>3 DEF Consistent

(* A caller's step moves the caller alone: it gets a job, waits in handlers
   or does neither. *)
LEMMA MoveCaller ==
  ASSUME NEW c \in Callers, NEW q \in Seq(Jobset),
         NEW h \in [Run -> Seq(Callers)], Consistent(c, q, h),
         \A x \in Callers \ {c} : pc'[x] = pc[x] /\ awaits'[x] = awaits[x],
         \/ queue' = q /\ handlers' = h
         \/ \E what \in {"call", "target", "resume"} :
              /\ queue' = Append(q, <<what, c>>) /\ pc'[c] = Place(what)
              /\ handlers' = h
         \/ \E r \in Run :
              /\ queue' = q /\ pc'[c] = "await" /\ awaits'[c] = r
              /\ handlers' = [h EXCEPT ![r] = Append(@, c)]
  PROVE  JobInv' /\ HandlerInv'
<1>1. /\ \A i \in 1 .. Len(q) : q[i] \in Jobset /\ q[i][2] \in Callers \ {c}
      /\ \A i \in 1 .. Len(q) : pc'[q[i][2]] = Place(q[i][1])
      /\ \A i, j \in 1 .. Len(q) : q[i][2] = q[j][2] => i = j
  <2>1. \A i \in 1 .. Len(q) : q[i] \in Jobset /\ q[i][2] \in Callers \ {c}
    BY DEF Jobset, Consistent
  <2>2. \A i \in 1 .. Len(q) : pc'[q[i][2]] = Place(q[i][1])
    BY <2>1 DEF Consistent
  <2>3. \A i, j \in 1 .. Len(q) : q[i][2] = q[j][2] => i = j
    BY DEF Consistent
  <2> QED
    BY <2>1, <2>2, <2>3
<1>2. ASSUME NEW r \in Run, NEW i \in 1 .. Len(h[r])
      PROVE  /\ h[r][i] \in Callers \ {c}
             /\ pc'[h[r][i]] = "await" /\ awaits'[h[r][i]] = r
             /\ \A j \in 1 .. Len(h[r]) : h[r][i] = h[r][j] => i = j
             /\ \A j \in 1 .. Len(q) : q[j][2] # h[r][i]
  <2>1. h[r][i] \in Callers
    OBVIOUS
  <2> QED
    BY <2>1 DEF Consistent
<1>3. CASE queue' = q /\ handlers' = h
  <2>1. JobInv'
    BY <1>1, <1>3 DEF JobInv, Positions
  <2>2. HandlerInv'
    BY <1>2, <1>3 DEF HandlerInv, Positions
  <2> QED
    BY <2>1, <2>2
<1>4. ASSUME NEW what \in {"call", "target", "resume"},
             queue' = Append(q, <<what, c>>), pc'[c] = Place(what),
             handlers' = h
      PROVE  JobInv' /\ HandlerInv'
  <2> DEFINE n == Len(q) + 1
  <2>1. /\ \A i \in 1 .. Len(q) : queue'[i] = q[i]
        /\ queue'[n][1] = what /\ queue'[n][2] = c
        /\ Positions' = 1 .. Len(q) \cup {n}
    <3>1. <<what, c>> \in Jobset
      BY DEF Jobset
    <3>2. /\ \A i \in 1 .. Len(q) : queue'[i] = q[i]
          /\ queue'[n] = <<what, c>> /\ 1 .. Len(queue') = 1 .. Len(q) \cup {n}
      BY <1>4, <3>1, Appended
    <3> QED
      BY <3>2 DEF Positions
  <2> HIDE DEF n
  <2>2. JobInv'
    <3>1. \A i \in Positions' : pc'[queue'[i][2]] = Place(queue'[i][1])
      BY <1>1, <1>4, <2>1
    <3>2. ASSUME NEW i \in Positions', NEW j \in Positions',
                 queue'[i][2] = queue'[j][2]
          PROVE  i = j
      <4>1. \A l \in 1 .. Len(q) : queue'[l][2] = q[l][2] /\ q[l][2] # c
        BY <1>1, <2>1
      <4>2. CASE i \in 1 .. Len(q) /\ j \in 1 .. Len(q)
        BY <1>1, <3>2, <4>1, <4>2
      <4>3. CASE i = n \/ j = n
        BY <2>1, <3>2, <4>1, <4>3
      <4> QED
        BY <2>1, <4>2, <4>3
    <3> QED
      BY <3>1, <3>2 DEF JobInv, Positions, Place
  <2>3. HandlerInv'
    <3>1. \A r \in Run : \A i \in 1 .. Len(h[r]) :
            \A j \in Positions' : queue'[j][2] # h[r][i]
      BY <1>2, <2>1
    <3> QED
      BY <1>2, <1>4, <3>1 DEF HandlerInv, Positions
  <2> QED
    BY <2>2, <2>3
<1>5. ASSUME NEW r \in Run, queue' = q, pc'[c] = "await", awaits'[c] = r,
             handlers' = [h EXCEPT ![r] = Append(@, c)]
      PROVE  JobInv' /\ HandlerInv'
  <2>1. JobInv'
    BY <1>1, <1>5 DEF JobInv, Positions
  <2>2. /\ h[r] \in Seq(Callers)
        /\ handlers'[r] = Append(h[r], c)
        /\ \A s \in Run \ {r} : handlers'[s] = h[s]
    BY <1>5
  <2> DEFINE n == Len(h[r]) + 1
  <2>3. /\ \A i \in 1 .. Len(h[r]) : handlers'[r][i] = h[r][i]
        /\ handlers'[r][n] = c
        /\ 1 .. Len(handlers'[r]) = 1 .. Len(h[r]) \cup {n}
    BY <2>2, Appended
  <2> HIDE DEF n
  <2>4. ASSUME NEW s \in Run, NEW i \in 1 .. Len(handlers'[s])
        PROVE  /\ pc'[handlers'[s][i]] = "await" /\ awaits'[handlers'[s][i]] = s
               /\ \A j \in 1 .. Len(handlers'[s]) :
                    handlers'[s][i] = handlers'[s][j] => i = j
               /\ \A j \in 1 .. Len(q) : q[j][2] # handlers'[s][i]
    <3>1. CASE s # r
      BY <1>2, <2>2, <3>1
    <3>2. CASE s = r /\ i = n
      BY <1>1, <1>2, <1>5, <2>3, <3>2
    <3>3. CASE s = r /\ i \in 1 .. Len(h[r])
      <4>1. handlers'[r][i] = h[r][i] /\ h[r][i] # c
        BY <1>2, <2>3, <3>3
      <4>2. \A j \in 1 .. Len(h[r]) :
              h[r][i] = h[r][j] => i = j
        BY <1>2, <3>3
      <4>3. ASSUME NEW j \in 1 .. Len(handlers'[r]),
                   handlers'[r][i] = handlers'[r][j]
            PROVE  i = j
        <5>1. j # n
          BY <2>3, <4>1, <4>3
        <5>2. j \in 1 .. Len(h[r])
          BY <2>3, <5>1
        <5> QED
          BY <2>3, <4>1, <4>2, <4>3, <5>2
      <4> QED
        BY <1>2, <3>3, <4>1, <4>3
    <3> QED
      BY <2>3, <3>1, <3>2, <3>3
  <2>5. HandlerInv'
    <3>1. Positions' = 1 .. Len(q) /\ queue' = q
      BY <1>5 DEF Positions
    <3> QED
      BY <2>4, <3>1 DEF HandlerInv
  <2> QED
    BY <2>1, <2>5
<1> QED
  BY <1>3, <1>4, <1>5

-----------------------------------------------------------------------------
(* The synchronized function up to its first await, when the queue is q *)

(* The first of a run starts the target. *)
Starts(c, q) ==
  /\ mutexCache[key[c]] = None
  /\ runs' = runs + 1
  /\ mutexCache' = [mutexCache EXCEPT ![key[c]] = runs + 1]
  /\ joined' = [joined EXCEPT ![c] = runs + 1]
  /\ pc' = [pc EXCEPT ![c] = "target"]
  /\ queue' = q
  /\ UNCHANGED <<handlers, awaits>>

Joins(c) ==
  /\ mutexCache[key[c]] \in 1 .. runs
  /\ joined' = [joined EXCEPT ![c] = mutexCache[key[c]]]
  /\ awaits' = [awaits EXCEPT ![c] = mutexCache[key[c]]]
  /\ pc' = [pc EXCEPT ![c] = "await"]
  /\ UNCHANGED <<runs, mutexCache>>

(* The others wait until its promise is settled. *)
Waits(c, q) ==
  /\ Joins(c)
  /\ mutexCache[key[c]] \notin settled
  /\ queue' = q
  /\ handlers' = [handlers EXCEPT ![mutexCache[key[c]]] = Append(@, c)]

(* It was settled before. *)
Resumes(c, q) ==
  /\ Joins(c)
  /\ mutexCache[key[c]] \in settled
  /\ queue' = Append(q, <<"resume", c>>)
  /\ handlers' = handlers

(* A call starts a run, or joins one that has started. *)
LEMMA EnterCases ==
  ASSUME IInv, NEW c \in Callers, NEW q, Enter(c, q)
  PROVE  Starts(c, q) \/ Waits(c, q) \/ Resumes(c, q)
<1>1. key[c] \in Keys
  BY DEF IInv, TypeOK
<1>2. CASE mutexCache[key[c]] = None
  BY <1>2 DEF Enter, IsFree, Starts
<1>3. CASE mutexCache[key[c]] # None
  <2>1. mutexCache[key[c]] \in 1 .. runs
    BY <1>1, <1>3 DEF IInv, RunInv
  <2> QED
    BY <1>3, <2>1 DEF Enter, IsFree, AwaitPromise, Joins, Waits, Resumes
<1> QED
  BY <1>2, <1>3

(* How many callers are queued when one more or one less is *)
LEMMA QueuedCount ==
  ASSUME NEW c \in Callers
  PROVE  /\ IsFiniteSet(Queued) /\ Cardinality(Queued) \in Nat
         /\ IsFiniteSet(Queued \ {c}) /\ Cardinality(Queued \ {c}) \in Nat
         /\ pc[c] # "queued" => Queued \ {c} = Queued
         /\ pc[c] = "queued" =>
              Cardinality(Queued \ {c}) = Cardinality(Queued) - 1
<1>1. IsFiniteSet(Queued) /\ IsFiniteSet(Queued \ {c})
  BY CallersAssumption, FS_Subset DEF Queued
<1>2. pc[c] = "queued" => c \in Queued
  BY DEF Queued
<1>3. pc[c] # "queued" => Queued \ {c} = Queued
  BY DEF Queued
<1> QED
  BY <1>1, <1>2, <1>3, FS_CardinalityType, FS_RemoveElement

(* Numbers of runs are runs. *)
LEMMA RunsType ==
  ASSUME TypeOK
  PROVE  /\ runs \in Nat /\ MaxRuns \in Nat /\ 1 .. runs \subseteq Run
         /\ runs < MaxRuns => runs + 1 \in Run /\ runs + 1 \in 0 .. MaxRuns
         /\ 1 .. runs \subseteq 1 .. runs + 1 /\ runs + 1 \notin 1 .. runs
         /\ None \notin 1 .. runs + 1
BY MaxRunsAssumption, NoneAssumption DEF TypeOK, Run

(* Handlers are sequences of callers, with one more caller or emptied. *)
LEMMA HandlersType ==
  ASSUME NEW h \in [Run -> Seq(Callers)], NEW r \in Run, NEW c \in Callers
  PROVE  /\ [h EXCEPT ![r] = Append(@, c)] \in [Run -> Seq(Callers)]
         /\ [h EXCEPT ![r] = <<>>] \in [Run -> Seq(Callers)]
<1>1. Append(h[r], c) \in Seq(Callers) /\ <<>> \in Seq(Callers)
  OBVIOUS
<1> QED
  BY <1>1

(* Entering keeps the invariant, when the bound leaves a run to it. *)
LEMMA EnterIInv ==
  ASSUME IInv, NEW c \in Callers, NEW q \in Seq(Jobset), Enter(c, q),
         Consistent(c, q, handlers),
         runs + Cardinality(Queued \ {c}) < MaxRuns,
         UNCHANGED <<settled, key, unrelatedJobs>>, draining' \in BOOLEAN
  PROVE  IInv'
<1>t. TypeOK /\ RunInv
  BY DEF IInv
<1>n. runs < MaxRuns /\ Cardinality(Queued \ {c}) \in Nat
  <2>1. Cardinality(Queued \ {c}) \in Nat
    BY QueuedCount
  <2>2. runs \in Nat /\ MaxRuns \in Nat
    BY <1>t, RunsType
  <2> QED
    BY <2>1, <2>2
<1>k. key[c] \in Keys
  BY <1>t DEF TypeOK
<1>c. Starts(c, q) \/ Waits(c, q) \/ Resumes(c, q)
  BY EnterCases
<1>q. Append(q, <<"resume", c>>) \in Seq(Jobset)
  BY Appended DEF Jobset
<1>1. TypeOK'
  <2>1. CASE Starts(c, q)
    BY <1>t, <1>n, <2>1, RunsType DEF Starts, TypeOK, Jobset
  <2>2. ASSUME Joins(c)
        PROVE  /\ joined' \in [Callers -> Run \cup {None}]
               /\ awaits' \in [Callers -> Run \cup {None}]
               /\ pc' \in [Callers -> {"idle", "queued", "target", "done",
                                       "await"}]
               /\ UNCHANGED <<runs, mutexCache>>
    BY <1>t, <2>2, RunsType DEF Joins, TypeOK
  <2>3. CASE Waits(c, q)
    <3>1. handlers' \in [Run -> Seq(Callers)]
      <4>1. mutexCache[key[c]] \in Run /\ handlers \in [Run -> Seq(Callers)]
        BY <1>t, <2>3, RunsType DEF Waits, Joins, TypeOK
      <4> QED
        BY <2>3, <4>1, HandlersType DEF Waits
    <3> QED
      BY <1>t, <2>2, <2>3, <3>1 DEF Waits, TypeOK, Jobset
  <2>4. CASE Resumes(c, q)
    BY <1>t, <1>q, <2>2, <2>4 DEF Resumes, TypeOK, Jobset
  <2> QED
    BY <1>c, <2>1, <2>3, <2>4
<1>2. JobInv' /\ HandlerInv'
  <2>1. handlers \in [Run -> Seq(Callers)]
    BY <1>t DEF TypeOK
  <2>2. \A x \in Callers \ {c} : pc'[x] = pc[x] /\ awaits'[x] = awaits[x]
    BY <1>c, <1>t DEF Starts, Waits, Resumes, Joins, TypeOK
  <2>3. CASE Starts(c, q)
    BY <2>1, <2>2, <2>3, MoveCaller DEF Starts
  <2>4. CASE Waits(c, q)
    <3>1. /\ mutexCache[key[c]] \in Run /\ pc'[c] = "await"
          /\ awaits'[c] = mutexCache[key[c]]
      BY <1>t, <2>4, RunsType DEF Waits, Joins, TypeOK
    <3> QED
      BY <2>1, <2>2, <2>4, <3>1, MoveCaller DEF Waits
  <2>5. CASE Resumes(c, q)
    <3>1. pc'[c] = Place("resume")
      BY <1>t, <2>5 DEF Resumes, Joins, TypeOK, Place
    <3>2. \E what \in {"call", "target", "resume"} :
              /\ queue' = Append(q, <<what, c>>) /\ pc'[c] = Place(what)
              /\ handlers' = handlers
      BY <2>5, <3>1 DEF Resumes
    <3> QED
      BY <2>1, <2>2, <3>2, MoveCaller
  <2> QED
    BY <1>c, <2>3, <2>4, <2>5
<1>3. RunInv'
  <2>1. Queued' = Queued \ {c}
    BY <1>c, <1>t DEF Starts, Waits, Resumes, Joins, TypeOK, Queued
  <2>2. runs' + Cardinality(Queued') <= MaxRuns
    BY <1>c, <1>n, <1>t, <2>1, RunsType DEF Starts, Waits, Resumes, Joins
  <2>3. ASSUME NEW x \in Callers, pc'[x] \in {"target", "done"}
        PROVE  joined'[x] \in 1 .. runs'
    <3>1. CASE Starts(c, q)
      <4>1. /\ runs' = runs + 1 /\ joined'[c] = runs + 1
            /\ x # c => joined'[x] = joined[x] /\ pc'[x] = pc[x]
        BY <1>t, <3>1 DEF Starts, TypeOK
      <4>2. runs + 1 \in 1 .. runs + 1 /\ 1 .. runs \subseteq 1 .. runs + 1
        BY <1>t, RunsType
      <4> QED
        BY <1>t, <2>3, <4>1, <4>2 DEF RunInv
    <3>2. CASE Joins(c)
      <4>1. /\ runs' = runs /\ pc'[c] = "await"
            /\ x # c => joined'[x] = joined[x] /\ pc'[x] = pc[x]
        BY <1>t, <3>2 DEF Joins, TypeOK
      <4> QED
        BY <1>t, <2>3, <4>1 DEF RunInv
    <3> QED
      BY <1>c, <3>1, <3>2 DEF Waits, Resumes
  <2>4. ASSUME NEW k \in Keys, mutexCache'[k] # None
        PROVE  /\ mutexCache'[k] \in 1 .. runs'
               /\ \A j \in Keys : mutexCache'[j] = mutexCache'[k] => j = k
    <3>1. CASE Starts(c, q)
      <4>1. /\ runs' = runs + 1 /\ mutexCache'[key[c]] = runs + 1
            /\ \A j \in Keys \ {key[c]} : mutexCache'[j] = mutexCache[j]
        BY <1>t, <3>1 DEF Starts, TypeOK
      <4>2. \A j \in Keys \ {key[c]} : mutexCache'[j] # runs + 1
        BY <1>t, <4>1, RunsType DEF RunInv
      <4> QED
        BY <1>t, <2>4, <4>1, <4>2, RunsType DEF RunInv
    <3>2. CASE Joins(c)
      BY <1>t, <2>4, <3>2 DEF Joins, RunInv
    <3> QED
      BY <1>c, <3>1, <3>2 DEF Waits, Resumes
  <2> QED
    BY <2>2, <2>3, <2>4 DEF RunInv
<1> QED
  BY <1>1, <1>2, <1>3 DEF IInv

-----------------------------------------------------------------------------
(* A target that has settled wakes the callers that wait for its promise. *)

(* The jobs of a sequence of callers *)
LEMMA JobsType ==
  ASSUME NEW s \in Seq(Callers)
  PROVE  /\ Jobs("resume", s) \in Seq(Jobset) /\ Len(Jobs("resume", s)) = Len(s)
         /\ \A i \in 1 .. Len(s) :
              Jobs("resume", s)[i][1] = "resume" /\ Jobs("resume", s)[i][2] = s[i]
<1>1. DOMAIN s = 1 .. Len(s) /\ Len(s) \in Nat
  OBVIOUS
<1>2. /\ Jobs("resume", s) \in [1 .. Len(s) -> Jobset]
      /\ \A i \in 1 .. Len(s) : Jobs("resume", s)[i] = <<"resume", s[i]>>
  BY <1>1 DEF Jobs, Jobset
<1>3. Jobs("resume", s) \in Seq(Jobset)
  BY <1>1, <1>2, SeqDef
<1>4. DOMAIN Jobs("resume", s) = 1 .. Len(s)
  BY <1>2
<1>5. Len(Jobs("resume", s)) = Len(s)
  BY <1>1, <1>3, <1>4
<1> QED
  BY <1>2, <1>3, <1>5

(* What concatenation does, in terms of the positions *)
LEMMA Concatenated ==
  ASSUME NEW S, NEW a \in Seq(S), NEW b \in Seq(S)
  PROVE  /\ a \o b \in Seq(S)
         /\ Len(a) \in Nat /\ Len(b) \in Nat /\ Len(a \o b) = Len(a) + Len(b)
         /\ \A i \in 1 .. Len(a) : (a \o b)[i] = a[i]
         /\ \A i \in 1 .. Len(b) :
              (a \o b)[Len(a) + i] = b[i] /\ Len(a) + i \in 1 .. Len(a \o b)
         /\ \A l \in 1 .. Len(a \o b) :
              l \in 1 .. Len(a) \/ \E i \in 1 .. Len(b) : l = Len(a) + i
<1>1. /\ a \o b \in Seq(S) /\ Len(a) \in Nat /\ Len(b) \in Nat
      /\ Len(a \o b) = Len(a) + Len(b)
  OBVIOUS
<1>2. \A i \in 1 .. Len(a) : (a \o b)[i] = a[i]
  BY <1>1
<1>3. \A i \in 1 .. Len(b) :
        (a \o b)[Len(a) + i] = b[i] /\ Len(a) + i \in 1 .. Len(a \o b)
  BY <1>1
<1>4. ASSUME NEW l \in 1 .. Len(a \o b), l \notin 1 .. Len(a)
      PROVE  \E i \in 1 .. Len(b) : l = Len(a) + i
  <2>1. l - Len(a) \in 1 .. Len(b) /\ l = Len(a) + (l - Len(a))
    BY <1>1, <1>4
  <2> QED
    BY <2>1
<1> QED
  BY <1>1, <1>2, <1>3, <1>4

(* The queue q of the others, with the woken callers at its end *)
LEMMA WokenConsistent ==
  ASSUME NEW c \in Callers, NEW q \in Seq(Jobset), NEW r \in Run,
         NEW h \in [Run -> Seq(Callers)], Consistent(c, q, h)
  PROVE  Consistent(c, q \o Jobs("resume", h[r]), [h EXCEPT ![r] = <<>>])
<1> DEFINE b == Jobs("resume", h[r])
           w == q \o b
           e == [h EXCEPT ![r] = <<>>]
<1>1. /\ h[r] \in Seq(Callers) /\ b \in Seq(Jobset) /\ Len(b) = Len(h[r])
      /\ \A i \in 1 .. Len(b) : b[i][1] = "resume" /\ b[i][2] = h[r][i]
  BY JobsType
<1>2. /\ \A i \in 1 .. Len(q) : w[i] = q[i]
      /\ \A i \in 1 .. Len(b) : w[Len(q) + i] = b[i]
      /\ \A l \in 1 .. Len(w) :
           l \in 1 .. Len(q) \/ \E i \in 1 .. Len(b) : l = Len(q) + i
  BY <1>1, Concatenated
<1>3. /\ Len(e[r]) = 0 /\ \A s \in Run \ {r} : e[s] = h[s]
  OBVIOUS
<1>4. \A i \in 1 .. Len(q) : \A j \in 1 .. Len(b) : q[i][2] # b[j][2]
  BY <1>1 DEF Consistent
<1> HIDE DEF b, w, e
<1>5. ASSUME NEW l \in 1 .. Len(w)
      PROVE  w[l][2] # c /\ pc[w[l][2]] = Place(w[l][1])
  <2>1. CASE l \in 1 .. Len(q)
    BY <1>2, <2>1 DEF Consistent
  <2>2. ASSUME NEW i \in 1 .. Len(b), l = Len(q) + i
        PROVE  w[l][2] # c /\ pc[w[l][2]] = Place(w[l][1])
    <3>1. w[l][1] = "resume" /\ w[l][2] = h[r][i] /\ i \in 1 .. Len(h[r])
      BY <1>1, <1>2, <2>2
    <3>2. h[r][i] # c /\ pc[h[r][i]] = "await"
      BY <3>1 DEF Consistent
    <3> QED
      BY <3>1, <3>2 DEF Place
  <2> QED
    BY <1>2, <2>1, <2>2
<1>6. ASSUME NEW l \in 1 .. Len(w), NEW m \in 1 .. Len(w), w[l][2] = w[m][2]
      PROVE  l = m
  <2>1. CASE l \in 1 .. Len(q) /\ m \in 1 .. Len(q)
    BY <1>2, <1>6, <2>1 DEF Consistent
  <2>2. ASSUME NEW i \in 1 .. Len(b), l = Len(q) + i, m \in 1 .. Len(q)
        PROVE  FALSE
    BY <1>2, <1>4, <1>6, <2>2
  <2>3. ASSUME NEW i \in 1 .. Len(b), m = Len(q) + i, l \in 1 .. Len(q)
        PROVE  FALSE
    BY <1>2, <1>4, <1>6, <2>3
  <2>4. ASSUME NEW i \in 1 .. Len(b), NEW j \in 1 .. Len(b),
               l = Len(q) + i, m = Len(q) + j
        PROVE  l = m
    <3>1. h[r][i] = h[r][j] /\ i \in 1 .. Len(h[r]) /\ j \in 1 .. Len(h[r])
      BY <1>1, <1>2, <1>6, <2>4
    <3>2. i = j
      BY <3>1 DEF Consistent
    <3> QED
      BY <2>4, <3>2
  <2> QED
    BY <1>2, <2>1, <2>2, <2>3, <2>4
<1>7. ASSUME NEW s \in Run, NEW i \in 1 .. Len(e[s])
      PROVE  /\ e[s][i] # c /\ pc[e[s][i]] = "await" /\ awaits[e[s][i]] = s
             /\ \A j \in 1 .. Len(e[s]) : e[s][i] = e[s][j] => i = j
             /\ \A j \in 1 .. Len(w) : w[j][2] # e[s][i]
  <2>1. s # r /\ e[s] = h[s]
    BY <1>3
  <2>2. /\ e[s][i] # c /\ pc[e[s][i]] = "await" /\ awaits[e[s][i]] = s
        /\ \A j \in 1 .. Len(e[s]) : e[s][i] = e[s][j] => i = j
        /\ \A j \in 1 .. Len(q) : q[j][2] # e[s][i]
    BY <2>1 DEF Consistent
  <2>3. ASSUME NEW j \in 1 .. Len(b)
        PROVE  b[j][2] # e[s][i]
    <3>1. awaits[b[j][2]] = r
      BY <1>1 DEF Consistent
    <3> QED
      BY <2>1, <2>2, <3>1
  <2>4. ASSUME NEW j \in 1 .. Len(w)
        PROVE  w[j][2] # e[s][i]
    <3>1. CASE j \in 1 .. Len(q)
      BY <1>2, <2>2, <3>1
    <3>2. CASE \E m \in 1 .. Len(b) : j = Len(q) + m
      <4>1. PICK m \in 1 .. Len(b) : j = Len(q) + m
        BY <3>2
      <4>2. w[j] = b[m]
        BY <1>2, <4>1
      <4> QED
        BY <2>3, <4>2
    <3> QED
      BY <1>2, <3>1, <3>2
  <2> QED
    BY <2>2, <2>4
<1>8. Consistent(c, w, e)
  BY <1>5, <1>6, <1>7 DEF Consistent
<1> QED
  BY <1>8 DEF b, w, e

-----------------------------------------------------------------------------
(* The invariant holds from the start, and no step of anybody breaks it. *)

(* Without a job at its head, the queue is consistent. *)
LEMMA TailConsistent ==
  ASSUME IInv, NEW what \in {"call", "target", "resume"}, NEW c \in Callers,
         NextJob(what, c)
  PROVE  Consistent(c, Tail(queue), handlers)
BY HeadJob, HeadOutside, WithoutCaller

(* So is the whole queue for who has no job. *)
LEMMA QueueConsistent ==
  ASSUME IInv, NEW c \in Callers, pc[c] \in {"idle", "target"}
  PROVE  Consistent(c, queue, handlers)
<1>1. queue \in Seq(Jobset)
  BY DEF IInv, TypeOK, Jobset
<1>2. /\ \A i \in Positions : queue[i][2] # c
      /\ \A r \in Run : \A i \in 1 .. Len(handlers[r]) : handlers[r][i] # c
  BY Outside
<1>3. \A i \in 1 .. Len(queue) :
        queue[i] = queue[i + 0] /\ i + 0 \in Positions /\ queue[i][2] # c
  BY <1>2 DEF Positions
<1> QED
  BY <1>1, <1>2, <1>3, WithoutCaller

(* Nothing has happened yet. *)
LEMMA InitIInv == Init => IInv
<1> SUFFICES ASSUME Init PROVE IInv
  OBVIOUS
<1>1. TypeOK
  <2>1. /\ queue = <<>> /\ queue \in Seq({"call", "target", "resume"} \X Callers)
        /\ handlers \in [Run -> Seq(Callers)]
    BY DEF Init
  <2>2. runs \in 0 .. MaxRuns /\ settled \subseteq 1 .. runs
    <3>1. runs = 0 /\ settled = {}
      BY DEF Init
    <3> QED
      BY <3>1, MaxRunsAssumption
  <2>4. draining \in BOOLEAN /\ unrelatedJobs \in BOOLEAN
    BY DEF Init
  <2>3. /\ mutexCache \in [Keys -> Run \cup {None}]
        /\ pc \in [Callers -> {"idle", "queued", "target", "done", "await"}]
        /\ key \in [Callers -> Keys]
        /\ joined \in [Callers -> Run \cup {None}]
        /\ awaits \in [Callers -> Run \cup {None}]
    BY DEF Init
  <2> QED
    BY <2>1, <2>2, <2>3, <2>4 DEF TypeOK
<1>2. JobInv /\ HandlerInv
  BY DEF Init, JobInv, HandlerInv, Positions
<1>3. RunInv
  <2>1. Queued = {}
    BY DEF Init, Queued
  <2>2. runs + Cardinality(Queued) <= MaxRuns
    BY <2>1, FS_EmptySet, MaxRunsAssumption DEF Init
  <2> QED
    BY <2>2 DEF Init, RunInv
<1> QED
  BY <1>1, <1>2, <1>3 DEF IInv

(* A call that nobody queued *)
LEMMA CallIInv ==
  ASSUME IInv, NEW c \in Callers, Call(c), UNCHANGED unrelatedJobs
  PROVE  IInv'
<1>1. /\ pc[c] = "idle" /\ runs + Cardinality(Queued) < MaxRuns
      /\ Enter(c, queue) /\ UNCHANGED <<settled, draining, key>>
  BY DEF Call, MayCall, Queued
<1>2. queue \in Seq(Jobset) /\ draining \in BOOLEAN
  BY DEF IInv, TypeOK, Jobset
<1>3. Consistent(c, queue, handlers)
  BY <1>1, QueueConsistent
<1>4. Queued \ {c} = Queued
  BY <1>1, QueuedCount
<1> QED
  BY <1>1, <1>2, <1>3, <1>4, EnterIInv

(* A call that was queued, for which the bound left a run *)
LEMMA QueuedCallIInv ==
  ASSUME IInv, NEW c \in Callers, QueuedCall(c), UNCHANGED unrelatedJobs
  PROVE  IInv'
<1>1. /\ NextJob("call", c) /\ Enter(c, Tail(queue))
      /\ draining' \in BOOLEAN /\ UNCHANGED <<settled, key>>
  BY DEF QueuedCall, Drain
<1>2. Tail(queue) \in Seq(Jobset) /\ pc[c] = "queued"
  BY <1>1, HeadJob DEF Place
<1>3. Consistent(c, Tail(queue), handlers)
  BY <1>1, TailConsistent
<1>4. runs + Cardinality(Queued \ {c}) < MaxRuns
  <2>1. /\ Cardinality(Queued) \in Nat
        /\ Cardinality(Queued \ {c}) = Cardinality(Queued) - 1
    BY <1>2, QueuedCount
  <2>2. runs \in Nat /\ MaxRuns \in Nat /\ runs + Cardinality(Queued) <= MaxRuns
    BY RunsType DEF IInv, RunInv
  <2> QED
    BY <2>1, <2>2
<1> QED
  BY <1>1, <1>2, <1>3, <1>4, EnterIInv

(* A caller whose job is put at the end of the others *)
LEMMA AppendJobIInv ==
  ASSUME IInv, NEW c \in Callers, NEW q \in Seq(Jobset),
         Consistent(c, q, handlers), NEW what \in {"call", "target", "resume"},
         queue' = Append(q, <<what, c>>), pc' = [pc EXCEPT ![c] = Place(what)],
         what = "target" => pc[c] = "target",
         what = "call" => MayCall,
         UNCHANGED <<runs, handlers, settled, key, joined, awaits,
                     unrelatedJobs>>,
         mutexCache' = mutexCache \/ mutexCache' = Release(key[c]),
         draining' \in BOOLEAN
  PROVE  IInv'
<1>t. TypeOK /\ RunInv
  BY DEF IInv
<1>p. pc'[c] = Place(what) /\ \A x \in Callers \ {c} : pc'[x] = pc[x]
  BY <1>t DEF TypeOK
<1>m. /\ mutexCache' \in [Keys -> Run \cup {None}]
      /\ \A k \in Keys : mutexCache'[k] # None => mutexCache'[k] = mutexCache[k]
  BY <1>t DEF TypeOK, Release
<1>1. TypeOK'
  <2>1. queue' \in Seq(Jobset)
    <3>1. <<what, c>> \in Jobset
      BY DEF Jobset
    <3> QED
      BY <3>1, Appended
  <2>2. pc' \in [Callers -> {"idle", "queued", "target", "done", "await"}]
    BY <1>t DEF TypeOK, Place
  <2> QED
    BY <1>t, <1>m, <2>1, <2>2 DEF TypeOK, Jobset
<1>2. JobInv' /\ HandlerInv'
  <2>1. handlers \in [Run -> Seq(Callers)]
    BY <1>t DEF TypeOK
  <2> QED
    BY <1>p, <2>1, MoveCaller
<1>3. RunInv'
  <2>1. runs + Cardinality(Queued') <= MaxRuns
    <3>1. /\ Cardinality(Queued) \in Nat
          /\ Cardinality(Queued \cup {c}) \in Nat
          /\ Cardinality(Queued \cup {c}) <= Cardinality(Queued) + 1
          /\ Cardinality(Queued \ {c}) \in Nat
          /\ Cardinality(Queued \ {c}) <= Cardinality(Queued)
      <4>1. /\ Cardinality(Queued) \in Nat /\ IsFiniteSet(Queued)
            /\ Cardinality(Queued \ {c}) \in Nat
            /\ \/ Cardinality(Queued \ {c}) = Cardinality(Queued)
               \/ Cardinality(Queued \ {c}) = Cardinality(Queued) - 1
        BY <1>t, QueuedCount
      <4>2. \/ Cardinality(Queued \cup {c}) = Cardinality(Queued)
            \/ Cardinality(Queued \cup {c}) = Cardinality(Queued) + 1
        BY <4>1, FS_AddElement
      <4> QED
        BY <4>1, <4>2
    <3>2. /\ runs \in Nat /\ MaxRuns \in Nat
          /\ runs + Cardinality(Queued) <= MaxRuns
      BY <1>t, RunsType DEF RunInv
    <3>3. CASE what = "call"
      <4>1. Queued' = Queued \cup {c}
        BY <1>p, <3>3 DEF Queued, Place
      <4>2. runs + Cardinality(Queued) < MaxRuns
        BY <3>3 DEF MayCall, Queued
      <4> QED
        BY <3>1, <3>2, <4>1, <4>2
    <3>4. CASE what # "call"
      <4>1. Queued' = Queued \ {c}
        BY <1>p, <3>4 DEF Queued, Place
      <4> QED
        BY <3>1, <3>2, <4>1
    <3> QED
      BY <3>3, <3>4
  <2>2. ASSUME NEW x \in Callers, pc'[x] \in {"target", "done"}
        PROVE  joined'[x] \in 1 .. runs'
    BY <1>t, <1>p, <2>2 DEF RunInv, Place
  <2>3. \A k \in Keys : mutexCache'[k] # None =>
          /\ mutexCache'[k] \in 1 .. runs'
          /\ \A j \in Keys : mutexCache'[j] = mutexCache'[k] => j = k
    BY <1>t, <1>m DEF RunInv
  <2> QED
    BY <2>1, <2>2, <2>3 DEF RunInv
<1> QED
  BY <1>1, <1>2, <1>3 DEF IInv

(* The creator settles its promise: whom it wakes is queued, and so is it,
   unless it awaits another promise that is pending. *)
LEMMA AfterTargetCases ==
  ASSUME IInv, NEW c \in Callers, AfterTarget(c)
  PROVE  LET r == joined[c]
             w == Tail(queue) \o Jobs("resume", handlers[r])
             e == [handlers EXCEPT ![r] = <<>>]
             a == mutexCache[key[c]]
         IN /\ r \in Run /\ r \in 1 .. runs
            /\ w \in Seq(Jobset) /\ e \in [Run -> Seq(Callers)]
            /\ Consistent(c, w, e)
            /\ a \in Run \cup {None}
            /\ pc' = [pc EXCEPT ![c] = "await"]
            /\ awaits' = [awaits EXCEPT ![c] = a]
            /\ settled' = settled \cup {r}
            /\ \/ /\ a = None \/ a \in settled \cup {r}
                  /\ queue' = Append(w, <<"resume", c>>) /\ handlers' = e
               \/ /\ a \in Run \ (settled \cup {r})
                  /\ queue' = w
                  /\ handlers' = [e EXCEPT ![a] = Append(@, c)]
<1> DEFINE r == joined[c]
           w == Tail(queue) \o Jobs("resume", handlers[r])
           e == [handlers EXCEPT ![r] = <<>>]
           a == mutexCache[key[c]]
<1>t. TypeOK /\ RunInv
  BY DEF IInv
<1>1. NextJob("target", c) /\ pc[c] = "done"
  BY HeadJob DEF AfterTarget, Place
<1>2. r \in Run /\ r \in 1 .. runs
  BY <1>t, <1>1, RunsType DEF RunInv
<1>3. Tail(queue) \in Seq(Jobset) /\ handlers \in [Run -> Seq(Callers)]
  BY <1>t, <1>1, HeadJob DEF TypeOK
<1>4. w \in Seq(Jobset) /\ e \in [Run -> Seq(Callers)]
  <2>1. handlers[r] \in Seq(Callers) /\ c \in Callers
    BY <1>2, <1>3
  <2> QED
    BY <1>2, <1>3, <2>1, JobsType, Concatenated, HandlersType
<1>5. Consistent(c, w, e)
  BY <1>1, <1>2, <1>3, TailConsistent, WokenConsistent
<1>6. a \in Run \cup {None}
  BY <1>t DEF TypeOK
<1>7. AwaitPromise(c, a, w, settled \cup {r}, e) /\ settled' = settled \cup {r}
  BY DEF AfterTarget, Awaited, Woken
<1> HIDE DEF r, w, e, a
<1>8. /\ pc' = [pc EXCEPT ![c] = "await"]
      /\ awaits' = [awaits EXCEPT ![c] = a]
      /\ \/ /\ a = None \/ a \in settled \cup {r}
            /\ queue' = Append(w, <<"resume", c>>) /\ handlers' = e
         \/ /\ a \in Run \ (settled \cup {r})
            /\ queue' = w
            /\ handlers' = [e EXCEPT ![a] = Append(@, c)]
  BY <1>6, <1>7 DEF AwaitPromise
<1> USE DEF r, w, e, a
<1> QED
  BY <1>2, <1>4, <1>5, <1>6, <1>7, <1>8

(* What the creator does after its target keeps the invariant. *)
LEMMA AfterTargetIInv ==
  ASSUME IInv, NEW c \in Callers, AfterTarget(c), UNCHANGED unrelatedJobs
  PROVE  IInv'
<1> DEFINE r == joined[c]
           w == Tail(queue) \o Jobs("resume", handlers[r])
           e == [handlers EXCEPT ![r] = <<>>]
           a == mutexCache[key[c]]
<1>t. TypeOK /\ RunInv
  BY DEF IInv
<1>1. /\ r \in Run /\ r \in 1 .. runs
      /\ w \in Seq(Jobset) /\ e \in [Run -> Seq(Callers)]
      /\ Consistent(c, w, e)
      /\ a \in Run \cup {None}
      /\ pc' = [pc EXCEPT ![c] = "await"]
      /\ awaits' = [awaits EXCEPT ![c] = a]
      /\ settled' = settled \cup {r}
      /\ \/ queue' = Append(w, <<"resume", c>>) /\ handlers' = e
         \/ /\ a \in Run
            /\ queue' = w
            /\ handlers' = [e EXCEPT ![a] = Append(@, c)]
  BY AfterTargetCases
<1>2. /\ draining' \in BOOLEAN
      /\ UNCHANGED <<mutexCache, runs, key, joined, unrelatedJobs>>
  BY DEF AfterTarget, Drain
<1> HIDE DEF r, w, e, a
<1>3. /\ pc'[c] = "await" /\ awaits'[c] = a
      /\ \A x \in Callers \ {c} : pc'[x] = pc[x] /\ awaits'[x] = awaits[x]
  BY <1>t, <1>1 DEF TypeOK
<1>4. TypeOK'
  <2>1. queue' \in Seq(Jobset) /\ handlers' \in [Run -> Seq(Callers)]
    <3>1. <<"resume", c>> \in Jobset
      BY DEF Jobset
    <3>2. Append(w, <<"resume", c>>) \in Seq(Jobset)
      BY <1>1, <3>1, Appended
    <3>3. a \in Run => [e EXCEPT ![a] = Append(@, c)] \in [Run -> Seq(Callers)]
      BY <1>1, HandlersType
    <3> QED
      BY <1>1, <3>2, <3>3
  <2>2. /\ pc' \in [Callers -> {"idle", "queued", "target", "done", "await"}]
        /\ awaits' \in [Callers -> Run \cup {None}]
        /\ settled' \subseteq 1 .. runs
    BY <1>t, <1>1 DEF TypeOK
  <2> QED
    BY <1>t, <1>2, <2>1, <2>2 DEF TypeOK, Jobset
<1>5. JobInv' /\ HandlerInv'
  <2>1. pc'[c] = Place("resume")
    BY <1>3 DEF Place
  <2>2. CASE queue' = Append(w, <<"resume", c>>) /\ handlers' = e
    BY <1>1, <1>3, <2>1, <2>2, MoveCaller
  <2>3. CASE /\ a \in Run
             /\ queue' = w
             /\ handlers' = [e EXCEPT ![a] = Append(@, c)]
    BY <1>1, <1>3, <2>3, MoveCaller
  <2> QED
    BY <1>1, <2>2, <2>3
<1>6. RunInv'
  <2>1. Queued' = Queued
    <3>1. pc[c] = "done"
      BY HeadJob DEF AfterTarget, Place
    <3> QED
      BY <1>3, <3>1 DEF Queued
  <2> QED
    BY <1>t, <1>2, <1>3, <2>1 DEF RunInv
<1> QED
  BY <1>4, <1>5, <1>6 DEF IInv

(* A caller that resumes returns, or calls again from a job of its own. *)
LEMMA AfterAwaitIInv ==
  ASSUME IInv, NEW c \in Callers, AfterAwait(c), UNCHANGED unrelatedJobs
  PROVE  IInv'
<1>t. TypeOK /\ RunInv
  BY DEF IInv
<1>1. /\ NextJob("resume", c) /\ draining' \in BOOLEAN
      /\ mutexCache' = Release(key[c])
      /\ UNCHANGED <<runs, handlers, settled, key, joined, awaits>>
  BY DEF AfterAwait, Drain
<1>2. /\ Tail(queue) \in Seq(Jobset) /\ pc[c] = "await"
      /\ Consistent(c, Tail(queue), handlers)
  BY <1>1, HeadJob, TailConsistent DEF Place
<1>3. CASE MayCall /\ pc' = [pc EXCEPT ![c] = "queued"]
           /\ queue' = Append(Tail(queue), <<"call", c>>)
  <2>1. Place("call") = "queued"
    BY DEF Place
  <2> QED
    BY <1>1, <1>2, <1>3, <2>1, AppendJobIInv
<1>4. CASE pc' = [pc EXCEPT ![c] = "idle"] /\ queue' = Tail(queue)
  <2>1. pc'[c] = "idle" /\ \A x \in Callers \ {c} : pc'[x] = pc[x]
    BY <1>t, <1>4 DEF TypeOK
  <2>2. TypeOK'
    <3>1. mutexCache' \in [Keys -> Run \cup {None}]
      BY <1>t, <1>1 DEF TypeOK, Release
    <3>2. pc' \in [Callers -> {"idle", "queued", "target", "done", "await"}]
      BY <1>t, <1>4 DEF TypeOK
    <3> QED
      BY <1>t, <1>1, <1>2, <1>4, <3>1, <3>2 DEF TypeOK, Jobset
  <2>3. JobInv' /\ HandlerInv'
    <3>1. handlers \in [Run -> Seq(Callers)]
      BY <1>t DEF TypeOK
    <3> QED
      BY <1>1, <1>2, <1>4, <2>1, <3>1, MoveCaller
  <2>4. RunInv'
    <3>1. Queued' = Queued
      BY <1>2, <2>1 DEF Queued
    <3>2. \A k \in Keys :
            mutexCache'[k] # None => mutexCache'[k] = mutexCache[k]
      BY <1>t, <1>1 DEF TypeOK, Release
    <3> QED
      BY <1>t, <1>1, <2>1, <3>1, <3>2 DEF RunInv
  <2> QED
    BY <2>2, <2>3, <2>4 DEF IInv
<1> QED
  BY <1>3, <1>4 DEF AfterAwait

(* Nothing changed, nothing to show *)
LEMMA StutterIInv == IInv /\ UNCHANGED vars => IInv'
BY DEF IInv, TypeOK, JobInv, HandlerInv, RunInv, Queued, Positions, vars,
       callVars

(* One case per action *)
LEMMA NextIInv == IInv /\ [Next]_vars => IInv'
<1> SUFFICES ASSUME IInv, [Next]_vars
             PROVE  IInv'
  OBVIOUS
<1>t. queue \in Seq(Jobset) /\ draining \in BOOLEAN
  BY DEF IInv, TypeOK, Jobset
<1>1. ASSUME NEW c \in Callers, QueueCall(c), UNCHANGED unrelatedJobs
      PROVE  IInv'
  <2>1. Consistent(c, queue, handlers)
    BY <1>1, QueueConsistent DEF QueueCall
  <2>2. Place("call") = "queued"
    BY DEF Place
  <2> QED
    BY <1>t, <1>1, <2>1, <2>2, AppendJobIInv DEF QueueCall
<1>2. ASSUME NEW c \in Callers, TargetSettles(c), UNCHANGED unrelatedJobs
      PROVE  IInv'
  <2>1. Consistent(c, queue, handlers)
    BY <1>2, QueueConsistent DEF TargetSettles
  <2>2. Place("target") = "done"
    BY DEF Place
  <2> QED
    BY <1>t, <1>2, <2>1, <2>2, AppendJobIInv DEF TargetSettles
<1> QED
  BY <1>1, <1>2, CallIInv, QueuedCallIInv, AfterTargetIInv, AfterAwaitIInv,
     StutterIInv DEF Next

(* Every variable keeps its type: runs are numbered within the bound, and  *)
(* the queue and the handlers of a promise hold callers.                   *)
THEOREM TypeCorrect == Spec => []TypeOK
<1>1. IInv => TypeOK
  BY DEF IInv
<1> QED
  BY InitIInv, NextIInv, <1>1, PTL DEF Spec

-----------------------------------------------------------------------------
(* A promise in the cache has a caller that will release it. *)

(* Who starts or joins a run stays until it releases the cache, whatever
   else is called. *)
LEMMA NextMutexInv == IInv /\ MutexInv /\ [Next]_vars => MutexInv'
<1> SUFFICES ASSUME IInv, MutexInv, [Next]_vars,
                    NEW k \in Keys, mutexCache'[k] # None
             PROVE  \E c \in Callers :
                      key'[c] = k /\ pc'[c] \in {"target", "done", "await"}
  BY DEF MutexInv
<1>t. TypeOK
  BY DEF IInv
<1>k. key' = key
  BY DEF Next, Call, QueueCall, QueuedCall, TargetSettles, AfterTarget,
         AfterAwait, vars, callVars
<1>1. ASSUME NEW c \in Callers, NEW q, Enter(c, q)
      PROVE  \E x \in Callers :
               key'[x] = k /\ pc'[x] \in {"target", "done", "await"}
  <2>1. /\ pc'[c] \in {"target", "await"}
        /\ \A x \in Callers \ {c} : pc'[x] = pc[x]
        /\ k # key[c] => mutexCache'[k] = mutexCache[k]
    BY <1>t, <1>1, EnterCases DEF Starts, Waits, Resumes, Joins, TypeOK
  <2>2. CASE k = key[c]
    BY <1>k, <2>1, <2>2
  <2>3. CASE k # key[c]
    <3>1. PICK x \in Callers :
            key[x] = k /\ pc[x] \in {"target", "done", "await"}
      BY <2>1, <2>3 DEF MutexInv
    <3> QED
      BY <1>k, <2>1, <2>3, <3>1
  <2> QED
    BY <2>2, <2>3
<1>2. ASSUME NEW c \in Callers, AfterAwait(c)
      PROVE  \E x \in Callers :
               key'[x] = k /\ pc'[x] \in {"target", "done", "await"}
  <2>1. /\ k # key[c] /\ mutexCache'[k] = mutexCache[k]
        /\ \A x \in Callers \ {c} : pc'[x] = pc[x]
    BY <1>t, <1>2 DEF AfterAwait, Release, TypeOK
  <2>2. PICK x \in Callers : key[x] = k /\ pc[x] \in {"target", "done", "await"}
    BY <2>1 DEF MutexInv
  <2> QED
    BY <1>k, <2>1, <2>2
<1>3. ASSUME NEW c \in Callers,
             QueueCall(c) \/ TargetSettles(c) \/ AfterTarget(c)
      PROVE  \E x \in Callers :
               key'[x] = k /\ pc'[x] \in {"target", "done", "await"}
  <2>1. mutexCache' = mutexCache
    BY <1>3 DEF QueueCall, TargetSettles, AfterTarget
  <2>2. PICK x \in Callers : key[x] = k /\ pc[x] \in {"target", "done", "await"}
    BY <2>1 DEF MutexInv
  <2>3. \/ pc[c] = "idle"
        \/ pc'[c] \in {"done", "await"}
    BY <1>t, <1>3 DEF QueueCall, TargetSettles, AfterTarget, AwaitPromise, TypeOK
  <2>4. \A y \in Callers \ {c} : pc'[y] = pc[y]
    BY <1>t, <1>3 DEF QueueCall, TargetSettles, AfterTarget, AwaitPromise, TypeOK
  <2> QED
    BY <1>k, <2>2, <2>3, <2>4
<1>4. CASE UNCHANGED vars
  BY <1>4 DEF vars, callVars, MutexInv
<1> QED
  BY <1>1, <1>2, <1>3, <1>4 DEF Next, Call, QueuedCall

(* When every caller of a synchronized function is done, its cache is      *)
(* empty, with any keys and any continuations that call: the next call     *)
(* runs the target anew. (synchronized.ts: delete mutexCache[cacheKey])    *)
THEOREM Released == Spec => []MutexReleased
<1>1. Init => MutexInv
  BY DEF Init, MutexInv
<1>2. MutexInv => MutexReleased
  BY DEF MutexInv, MutexReleased, IsFree
<1> QED
  BY InitIInv, NextIInv, NextMutexInv, <1>1, <1>2, PTL DEF Spec

-----------------------------------------------------------------------------
(* The order of the jobs, action by action *)

(* Nobody is cached as a run, and nobody else's promise is cached. *)
LEMMA CacheFacts ==
  ASSUME IInv
  PROVE  /\ None \notin settled /\ runs + 1 \notin settled /\ None # runs + 1
         /\ None \notin Run
         /\ \A c \in Callers : key[c] \in Keys
         /\ \A i \in Positions : queue[i] \in Jobset /\ queue[i][2] \in Callers
         /\ \A r \in Run : \A i \in 1 .. Len(handlers[r]) :
              handlers[r][i] \in Callers
         /\ \A j, k \in Keys :
              mutexCache[j] # None /\ mutexCache[j] = mutexCache[k] => j = k
<1>t. TypeOK /\ RunInv
  BY DEF IInv
<1>1. /\ None \notin settled /\ runs + 1 \notin settled /\ None # runs + 1
      /\ None \notin Run
  <2>1. runs + 1 \in Nat /\ Run \subseteq Nat
    BY <1>t, RunsType DEF Run
  <2> QED
    BY <1>t, <2>1, RunsType, NoneAssumption DEF TypeOK
<1>2. \A c \in Callers : key[c] \in Keys
  BY <1>t DEF TypeOK
<1>3. \A i \in Positions : queue[i] \in Jobset /\ queue[i][2] \in Callers
  BY <1>t DEF TypeOK, Positions, Jobset
<1>4. \A r \in Run : \A i \in 1 .. Len(handlers[r]) : handlers[r][i] \in Callers
  BY <1>t DEF TypeOK
<1>5. \A j, k \in Keys :
        mutexCache[j] # None /\ mutexCache[j] = mutexCache[k] => j = k
  BY <1>t DEF RunInv
<1> QED
  BY <1>1, <1>2, <1>3, <1>4, <1>5

(* A queue without its head is in the same order. *)
LEMMA TailOrdered ==
  ASSUME queue \in Seq(Jobset), queue # <<>>, Ordered(queue)
  PROVE  Ordered(Tail(queue))
<1> SUFFICES ASSUME NEW i \in 1 .. Len(Tail(queue)),
                    NEW j \in 1 .. Len(Tail(queue)),
                    Tail(queue)[i][1] = "call",
                    key[Tail(queue)[i][2]] = key[Tail(queue)[j][2]]
             PROVE  /\ Tail(queue)[j][1] = "resume" => j < i
                    /\ Tail(queue)[j][1] = "target" => i < j
  BY DEF Ordered
<1>1. /\ i \in Int /\ j \in Int
      /\ i + 1 \in 1 .. Len(queue) /\ Tail(queue)[i] = queue[i + 1]
      /\ j + 1 \in 1 .. Len(queue) /\ Tail(queue)[j] = queue[j + 1]
  OBVIOUS
<1>2. /\ queue[j + 1][1] = "resume" => j + 1 < i + 1
      /\ queue[j + 1][1] = "target" => i + 1 < j + 1
  BY <1>1 DEF Ordered
<1> QED
  BY <1>1, <1>2

(* A job of another key than that of the head is not the head. *)
LEMMA OtherInTail ==
  ASSUME queue \in Seq(Jobset), queue # <<>>, NEW i \in Positions, i # 1
  PROVE  /\ i - 1 \in 1 .. Len(Tail(queue)) /\ Tail(queue)[i - 1] = queue[i]
BY DEF Positions

(* Entering, when no job of the caller's key resumes and its promise is not
   settled *)
LEMMA EnterOrder ==
  ASSUME IInv, OrderInv, NEW c \in Callers, NEW q \in Seq(Jobset), Enter(c, q),
         UNCHANGED <<settled, key>>, Ordered(q),
         \A i \in 1 .. Len(q) : \E j \in Positions : q[i] = queue[j],
         \A i \in Positions : key[queue[i][2]] # key[c] =>
           \E j \in 1 .. Len(q) : q[j] = queue[i],
         \A i \in 1 .. Len(q) :
           key[q[i][2]] = key[c] => q[i][1] # "resume",
         mutexCache[key[c]] \notin settled
  PROVE  CreatorInv' /\ WaiterInv' /\ JoinedInv' /\ QueueInv'
<1>t. TypeOK /\ RunInv
  BY DEF IInv
<1>o. CreatorInv /\ WaiterInv /\ JoinedInv /\ ResumeInv /\ SettledInv
  BY DEF OrderInv, QueueInv
<1>k. key[c] \in Keys /\ key' = key /\ settled' = settled
  BY <1>t DEF TypeOK
<1>f. /\ None \notin settled /\ runs + 1 \notin settled /\ None # runs + 1
      /\ None \notin Run
      /\ \A x \in Callers : key[x] \in Keys
      /\ \A i \in Positions : queue[i] \in Jobset /\ queue[i][2] \in Callers
      /\ \A r \in Run : \A i \in 1 .. Len(handlers[r]) :
           handlers[r][i] \in Callers
  BY CacheFacts
<1>q. Starts(c, q) \/ Waits(c, q)
  BY EnterCases DEF Resumes
<1>c. /\ queue' = q /\ Positions' = 1 .. Len(q)
      /\ \A k \in Keys \ {key[c]} : mutexCache'[k] = mutexCache[k]
      /\ mutexCache'[key[c]] \notin settled
      /\ \A x \in Callers \ {c} : pc'[x] = pc[x] /\ joined'[x] = joined[x]
                                   /\ awaits'[x] = awaits[x]
  <2>1. queue' = q /\ Positions' = 1 .. Len(q)
    BY <1>q DEF Starts, Waits, Positions
  <2>2. CASE Starts(c, q)
    BY <1>t, <1>k, <1>f, <2>1, <2>2 DEF Starts, TypeOK
  <2>3. CASE Waits(c, q)
    BY <1>t, <2>1, <2>3 DEF Waits, Joins, TypeOK
  <2> QED
    BY <1>q, <2>2, <2>3
<1>1. Ordered(queue)'
  BY <1>k, <1>c DEF Ordered
<1>2. ResumeInv'
  <2> SUFFICES ASSUME NEW i \in 1 .. Len(q), q[i][1] = "resume"
               PROVE  mutexCache'[key[q[i][2]]] \in settled \cup {None}
    BY <1>k, <1>c DEF ResumeInv
  <2>1. PICK j \in Positions : q[i] = queue[j]
    OBVIOUS
  <2>2. /\ mutexCache[key[queue[j][2]]] \in settled \cup {None}
        /\ queue[j][2] \in Callers
    BY <1>o, <1>f, <2>1 DEF ResumeInv
  <2>3. key[q[i][2]] \in Keys \ {key[c]}
    BY <1>f, <2>1, <2>2
  <2> QED
    BY <1>c, <2>1, <2>2, <2>3
<1>3. SettledInv'
  <2> SUFFICES ASSUME NEW k \in Keys, mutexCache'[k] \in settled
               PROVE  /\ \E i \in 1 .. Len(q) :
                           q[i][1] = "resume" /\ key[q[i][2]] = k
                      /\ \A i \in 1 .. Len(q) :
                           key[q[i][2]] = k => q[i][1] # "call"
    BY <1>k, <1>c DEF SettledInv
  <2>1. k # key[c] /\ mutexCache[k] \in settled
    BY <1>c
  <2>2. PICK i \in Positions : queue[i][1] = "resume" /\ key[queue[i][2]] = k
    BY <1>o, <2>1 DEF SettledInv
  <2>3. \E j \in 1 .. Len(q) : q[j] = queue[i]
    BY <2>1, <2>2
  <2>4. \A j \in 1 .. Len(q) : key[q[j][2]] = k => q[j][1] # "call"
    BY <1>o, <2>1 DEF SettledInv
  <2> QED
    BY <2>2, <2>3, <2>4
<1>4. CreatorInv'
  <2>1. CASE Starts(c, q)
    <3>1. /\ mutexCache[key[c]] = None /\ mutexCache'[key[c]] = runs + 1
          /\ joined'[c] = runs + 1
      BY <1>t, <1>k, <2>1 DEF Starts, TypeOK
    <3>2. \A x \in Callers \ {c} :
            pc[x] \in {"target", "done"} => key[x] # key[c]
      <4> SUFFICES ASSUME NEW x \in Callers, pc[x] \in {"target", "done"}
                   PROVE  mutexCache[key[x]] # None
        BY <3>1
      <4>1. mutexCache[key[x]] = joined[x] /\ joined[x] \in 1 .. runs
        BY <1>o, <1>t DEF CreatorInv, RunInv
      <4> QED
        BY <1>t, <4>1, RunsType
    <3>3. ASSUME NEW x \in Callers, pc'[x] \in {"target", "done"}
          PROVE  /\ mutexCache'[key[x]] = joined'[x] /\ joined'[x] \notin settled
                 /\ \A d \in Callers :
                      pc'[d] \in {"target", "done"} /\ key[d] = key[x] => x = d
      <4>1. CASE x = c
        BY <1>f, <1>c, <3>1, <3>2, <4>1
      <4>2. CASE x # c
        <5>1. pc[x] \in {"target", "done"} /\ key[x] # key[c]
          BY <1>c, <3>2, <3>3, <4>2
        <5>2. /\ mutexCache[key[x]] = joined[x] /\ joined[x] \notin settled
              /\ \A d \in Callers :
                   pc[d] \in {"target", "done"} /\ key[d] = key[x] => x = d
          BY <1>o, <5>1 DEF CreatorInv
        <5> QED
          BY <1>c, <1>f, <4>2, <5>1, <5>2
      <4> QED
        BY <4>1, <4>2
    <3> QED
      BY <1>k, <3>3 DEF CreatorInv
  <2>2. CASE Waits(c, q)
    <3>1. mutexCache' = mutexCache /\ pc'[c] = "await"
      BY <1>t, <2>2 DEF Waits, Joins, TypeOK
    <3> QED
      BY <1>o, <1>k, <1>c, <3>1 DEF CreatorInv
  <2> QED
    BY <1>q, <2>1, <2>2
<1>5. WaiterInv'
  <2>1. CASE Starts(c, q)
    <3>1. mutexCache[key[c]] = None /\ handlers' = handlers
      BY <2>1 DEF Starts
    <3>2. ASSUME NEW r \in Run, NEW i \in 1 .. Len(handlers[r])
          PROVE  r \notin settled /\ mutexCache'[key[handlers[r][i]]] = r
      <4>1. r \notin settled /\ mutexCache[key[handlers[r][i]]] = r
        BY <1>o DEF WaiterInv
      <4>2. key[handlers[r][i]] \in Keys \ {key[c]}
        BY <1>f, <3>1, <4>1
      <4> QED
        BY <1>c, <4>1, <4>2
    <3> QED
      BY <1>k, <3>1, <3>2 DEF WaiterInv
  <2>2. CASE Waits(c, q)
    <3> DEFINE a == mutexCache[key[c]]
               n == Len(handlers[a]) + 1
    <3>1. /\ mutexCache' = mutexCache /\ a \in Run /\ a \notin settled
          /\ handlers' = [handlers EXCEPT ![a] = Append(@, c)]
          /\ handlers \in [Run -> Seq(Callers)]
      BY <1>t, <2>2, RunsType DEF Waits, Joins, TypeOK
    <3>2. /\ handlers'[a] = Append(handlers[a], c)
          /\ \A s \in Run \ {a} : handlers'[s] = handlers[s]
          /\ handlers[a] \in Seq(Callers)
      BY <3>1
    <3>3. /\ \A i \in 1 .. Len(handlers[a]) : handlers'[a][i] = handlers[a][i]
          /\ handlers'[a][n] = c
          /\ 1 .. Len(handlers'[a]) = 1 .. Len(handlers[a]) \cup {n}
      BY <3>2, Appended
    <3>4. mutexCache[key[c]] = a
      OBVIOUS
    <3> HIDE DEF a, n
    <3>5. ASSUME NEW r \in Run, NEW i \in 1 .. Len(handlers'[r])
          PROVE  r \notin settled /\ mutexCache[key[handlers'[r][i]]] = r
      <4>1. CASE r = a /\ i = n
        BY <3>1, <3>3, <3>4, <4>1
      <4>2. CASE r # a \/ i # n
        <5>1. i \in 1 .. Len(handlers[r]) /\ handlers'[r][i] = handlers[r][i]
          <6>1. CASE r = a
            BY <3>3, <4>2, <6>1
          <6>2. CASE r # a
            BY <3>2, <6>2
          <6> QED
            BY <6>1, <6>2
        <5> QED
          BY <1>o, <5>1 DEF WaiterInv
      <4> QED
        BY <4>1, <4>2
    <3> QED
      BY <1>k, <3>1, <3>5 DEF WaiterInv
  <2> QED
    BY <1>q, <2>1, <2>2
<1>6. JoinedInv'
  <2>1. pc'[c] \notin {"idle", "await"} \/ awaits'[c] = joined'[c]
    BY <1>t, <1>q DEF Starts, Waits, Joins, TypeOK
  <2> QED
    BY <1>o, <1>c, <2>1 DEF JoinedInv
<1> QED
  BY <1>1, <1>2, <1>3, <1>4, <1>5, <1>6 DEF QueueInv

(* A callback of node calls between two drains: nobody resumes. *)
LEMMA CallOrder ==
  ASSUME IInv, OrderInv, NEW c \in Callers, Call(c)
  PROVE  OrderInv'
<1>1. /\ ~draining /\ Enter(c, queue)
      /\ UNCHANGED <<settled, draining, key>>
  BY DEF Call
<1>2. queue \in Seq(Jobset) /\ key[c] \in Keys
  BY DEF IInv, TypeOK, Jobset
<1>3. \A i \in Positions : queue[i][1] = "target"
  BY <1>1 DEF OrderInv, DrainInv
<1>4. mutexCache[key[c]] \notin settled
  BY <1>2, <1>3 DEF OrderInv, QueueInv, SettledInv
<1>5. /\ Ordered(queue)
      /\ \A i \in 1 .. Len(queue) : \E j \in Positions : queue[i] = queue[j]
      /\ \A i \in Positions : \E j \in 1 .. Len(queue) : queue[j] = queue[i]
      /\ \A i \in 1 .. Len(queue) : queue[i][1] # "resume"
  BY <1>3 DEF Positions, OrderInv, QueueInv
<1>6. CreatorInv' /\ WaiterInv' /\ JoinedInv' /\ QueueInv'
  BY <1>1, <1>2, <1>4, <1>5, EnterOrder
<1>7. queue' = queue
  BY <1>1, <1>4, EnterCases DEF Starts, Waits, Resumes
<1>8. DrainInv'
  BY <1>3, <1>7 DEF DrainInv, Positions
<1> QED
  BY <1>6, <1>8 DEF OrderInv

(* A drain ends when the queue is empty. *)
LEMMA DrainEnds ==
  ASSUME Drain
  PROVE  DrainInv'
<1> SUFFICES ASSUME ~draining'
             PROVE  \A i \in Positions' : queue'[i][1] = "target"
  BY DEF DrainInv
<1>1. queue' = <<>>
  BY DEF Drain
<1> QED
  BY <1>1 DEF Positions

(* A queued call runs when all callers of the run before have resumed. *)
LEMMA QueuedCallOrder ==
  ASSUME IInv, OrderInv, NEW c \in Callers, QueuedCall(c)
  PROVE  OrderInv'
<1>1. /\ NextJob("call", c) /\ Enter(c, Tail(queue)) /\ Drain
      /\ UNCHANGED <<settled, key>>
  BY DEF QueuedCall
<1>2. /\ 1 \in Positions /\ queue[1][1] = "call" /\ queue[1][2] = c
      /\ Tail(queue) \in Seq(Jobset)
      /\ \A i \in 1 .. Len(Tail(queue)) :
           Tail(queue)[i] = queue[i + 1] /\ i + 1 \in Positions
  BY <1>1, HeadJob
<1>3. queue \in Seq(Jobset) /\ queue # <<>> /\ key[c] \in Keys
  BY <1>1 DEF IInv, TypeOK, Jobset, NextJob
<1>4. mutexCache[key[c]] \notin settled
  BY <1>2, <1>3 DEF OrderInv, QueueInv, SettledInv
<1>5. Ordered(Tail(queue))
  BY <1>3, TailOrdered DEF OrderInv, QueueInv
<1>6. ASSUME NEW i \in 1 .. Len(Tail(queue)), key[Tail(queue)[i][2]] = key[c]
      PROVE  Tail(queue)[i][1] # "resume"
  <2>1. queue[i + 1][1] = "resume" => i + 1 < 1
    BY <1>2, <1>6 DEF OrderInv, QueueInv, Ordered, Positions
  <2> QED
    BY <1>2, <2>1
<1>7. ASSUME NEW i \in Positions, key[queue[i][2]] # key[c]
      PROVE  \E j \in 1 .. Len(Tail(queue)) : Tail(queue)[j] = queue[i]
  <2>1. i # 1
    BY <1>2, <1>7
  <2> QED
    BY <1>3, <2>1, OtherInTail
<1>8. \A i \in 1 .. Len(Tail(queue)) :
        \E j \in Positions : Tail(queue)[i] = queue[j]
  BY <1>2
<1>9. CreatorInv' /\ WaiterInv' /\ JoinedInv' /\ QueueInv'
  BY <1>1, <1>2, <1>4, <1>5, <1>6, <1>7, <1>8, EnterOrder
<1>10. DrainInv'
  BY <1>1, DrainEnds
<1> QED
  BY <1>9, <1>10 DEF OrderInv

(* The end of a target is queued behind all calls that joined it. *)
LEMMA TargetSettlesOrder ==
  ASSUME IInv, OrderInv, NEW c \in Callers, TargetSettles(c)
  PROVE  OrderInv'
<1> DEFINE n == Len(queue) + 1
<1>t. TypeOK
  BY DEF IInv
<1>o. CreatorInv /\ WaiterInv /\ JoinedInv /\ QueueInv /\ DrainInv
  BY DEF OrderInv
<1>1. /\ pc[c] = "target" /\ queue' = Append(queue, <<"target", c>>)
      /\ UNCHANGED <<mutexCache, handlers, settled, draining, key, joined,
                     awaits>>
  BY DEF TargetSettles
<1>2. pc'[c] = "done" /\ \A x \in Callers \ {c} : pc'[x] = pc[x]
  BY <1>t DEF TargetSettles, TypeOK
<1>3. /\ queue \in Seq(Jobset) /\ Len(queue) \in Nat
      /\ \A i \in 1 .. Len(queue) : queue'[i] = queue[i]
      /\ queue'[n] = <<"target", c>>
      /\ Positions' = 1 .. Len(queue) \cup {n}
      /\ 1 .. Len(queue') = 1 .. Len(queue) \cup {n}
  <2>1. queue \in Seq(Jobset) /\ <<"target", c>> \in Jobset
    BY <1>t DEF TypeOK, Jobset
  <2> QED
    BY <1>1, <2>1, Appended DEF Positions
<1>4. queue'[n][1] = "target" /\ \A i \in 1 .. Len(queue) : i < n /\ i # n
  BY <1>3
<1> HIDE DEF n
<1>5. Ordered(queue)'
  <2> SUFFICES ASSUME NEW i \in Positions', NEW j \in Positions',
                      queue'[i][1] = "call",
                      key[queue'[i][2]] = key[queue'[j][2]]
               PROVE  /\ queue'[j][1] = "resume" => j < i
                      /\ queue'[j][1] = "target" => i < j
    BY <1>1 DEF Ordered, Positions
  <2>1. i \in 1 .. Len(queue) /\ queue'[i] = queue[i]
    BY <1>3, <1>4
  <2>2. CASE j = n
    BY <1>4, <2>1, <2>2
  <2>3. CASE j \in 1 .. Len(queue)
    BY <1>o, <1>3, <2>1, <2>3 DEF QueueInv, Ordered
  <2> QED
    BY <1>3, <2>2, <2>3
<1>6. ResumeInv'
  <2> SUFFICES ASSUME NEW i \in Positions', queue'[i][1] = "resume"
               PROVE  mutexCache[key[queue'[i][2]]] \in settled \cup {None}
    BY <1>1 DEF ResumeInv
  <2>1. i \in 1 .. Len(queue) /\ queue'[i] = queue[i]
    BY <1>3, <1>4
  <2> QED
    BY <1>o, <2>1 DEF QueueInv, ResumeInv, Positions
<1>7. SettledInv'
  <2> SUFFICES ASSUME NEW k \in Keys, mutexCache[k] \in settled
               PROVE  /\ \E i \in Positions' :
                           queue'[i][1] = "resume" /\ key[queue'[i][2]] = k
                      /\ \A i \in Positions' :
                           key[queue'[i][2]] = k => queue'[i][1] # "call"
    BY <1>1 DEF SettledInv
  <2>1. PICK i \in 1 .. Len(queue) :
          queue[i][1] = "resume" /\ key[queue[i][2]] = k
    BY <1>o DEF QueueInv, SettledInv, Positions
  <2>2. \A j \in 1 .. Len(queue) : key[queue[j][2]] = k => queue[j][1] # "call"
    BY <1>o DEF QueueInv, SettledInv, Positions
  <2> QED
    BY <1>3, <1>4, <2>1, <2>2
<1>8. CreatorInv' /\ WaiterInv' /\ JoinedInv'
  BY <1>o, <1>1, <1>2 DEF CreatorInv, WaiterInv, JoinedInv
<1>9. DrainInv'
  BY <1>o, <1>1, <1>3, <1>4 DEF DrainInv, Positions
<1> QED
  BY <1>5, <1>6, <1>7, <1>8, <1>9 DEF OrderInv, QueueInv

(* The creator settles the promise of its key: who waits for it is queued
   behind everybody else, with the creator last. *)
LEMMA AfterTargetOrder ==
  ASSUME IInv, OrderInv, NEW c \in Callers, AfterTarget(c)
  PROVE  OrderInv'
<1> DEFINE r == joined[c]
           t == Tail(queue)
           b == Jobs("resume", handlers[r])
           w == t \o b
           e == [handlers EXCEPT ![r] = <<>>]
<1>t. TypeOK /\ RunInv
  BY DEF IInv
<1>o. CreatorInv /\ WaiterInv /\ JoinedInv /\ QueueInv
  BY DEF OrderInv
<1>f. /\ None \notin settled /\ None \notin Run
      /\ \A x \in Callers : key[x] \in Keys
      /\ \A s \in Run : \A i \in 1 .. Len(handlers[s]) :
           handlers[s][i] \in Callers
      /\ \A j, k \in Keys :
           mutexCache[j] # None /\ mutexCache[j] = mutexCache[k] => j = k
  BY CacheFacts
<1>1. /\ 1 \in Positions /\ queue[1][1] = "target" /\ queue[1][2] = c
      /\ pc[c] = "done" /\ t \in Seq(Jobset)
      /\ \A i \in 1 .. Len(t) : t[i] = queue[i + 1] /\ i + 1 \in Positions
  BY HeadJob DEF AfterTarget, Place
<1>2. queue \in Seq(Jobset) /\ queue # <<>>
  BY <1>t DEF TypeOK, Jobset, AfterTarget, NextJob
<1>3. mutexCache[key[c]] = r /\ r \notin settled
  BY <1>o, <1>1 DEF CreatorInv
<1>4. /\ r \in Run /\ w \in Seq(Jobset) /\ e \in [Run -> Seq(Callers)]
      /\ pc' = [pc EXCEPT ![c] = "await"]
      /\ awaits' = [awaits EXCEPT ![c] = r]
      /\ settled' = settled \cup {r}
      /\ queue' = Append(w, <<"resume", c>>) /\ handlers' = e
      /\ UNCHANGED <<mutexCache, key, joined>>
  BY <1>3, AfterTargetCases DEF AfterTarget
<1>5. \A i \in 1 .. Len(handlers[r]) : key[handlers[r][i]] = key[c]
  <2> SUFFICES ASSUME NEW i \in 1 .. Len(handlers[r])
               PROVE  key[handlers[r][i]] = key[c]
    OBVIOUS
  <2>1. mutexCache[key[handlers[r][i]]] = r /\ r # None
    BY <1>o, <1>4, <1>f DEF WaiterInv
  <2>2. key[handlers[r][i]] \in Keys /\ key[c] \in Keys
    BY <1>4, <1>f
  <2> QED
    BY <1>3, <1>f, <2>1, <2>2
<1>6. /\ b \in Seq(Jobset)
      /\ \A i \in 1 .. Len(b) : b[i][1] = "resume" /\ key[b[i][2]] = key[c]
  <2>1. handlers[r] \in Seq(Callers)
    BY <1>t, <1>4 DEF TypeOK
  <2> QED
    BY <1>5, <2>1, JobsType
<1> DEFINE n == Len(w) + 1
           L == Len(t)
<1>7. /\ L \in Nat
      /\ 1 .. L \subseteq Positions' /\ \A i \in 1 .. L : queue'[i] = t[i]
      /\ \A i \in Positions' \ (1 .. L) :
           /\ i \in Int /\ i > L
           /\ queue'[i][1] = "resume" /\ key[queue'[i][2]] = key[c]
      /\ n \in Positions' \ (1 .. L) /\ Positions' = 1 .. Len(queue')
  <2>1. /\ Len(t) \in Nat /\ Len(w) = Len(t) + Len(b) /\ Len(b) \in Nat
        /\ \A i \in 1 .. Len(t) : w[i] = t[i]
        /\ \A i \in 1 .. Len(w) :
             i \in 1 .. Len(t) \/ \E j \in 1 .. Len(b) : i = Len(t) + j
        /\ \A i \in 1 .. Len(b) : w[Len(t) + i] = b[i]
    BY <1>1, <1>6, Concatenated
  <2> HIDE DEF t, w, b
  <2>2. /\ \A i \in 1 .. Len(w) : queue'[i] = w[i]
        /\ queue'[n] = <<"resume", c>>
        /\ Positions' = 1 .. Len(w) \cup {n}
    <3>1. <<"resume", c>> \in Jobset
      BY DEF Jobset
    <3>2. w \in Seq(Jobset) /\ queue' = Append(w, <<"resume", c>>)
      BY <1>4
    <3> QED
      BY <3>1, <3>2, Appended DEF Positions
  <2>3. 1 .. L \subseteq 1 .. Len(w) /\ n \notin 1 .. L /\ n > L /\ n \in Int
    BY <2>1
  <2>4. ASSUME NEW i \in 1 .. Len(w), i \notin 1 .. L
        PROVE  /\ i \in Int /\ i > L
               /\ queue'[i][1] = "resume" /\ key[queue'[i][2]] = key[c]
    <3>1. PICK j \in 1 .. Len(b) : i = Len(t) + j
      BY <2>1, <2>4
    <3>2. queue'[i] = b[j]
      BY <2>1, <2>2, <3>1
    <3> QED
      BY <1>6, <2>1, <2>4, <3>2
  <2>5. queue'[n][1] = "resume" /\ queue'[n][2] = c
    BY <2>2
  <2> QED
    BY <2>1, <2>2, <2>3, <2>4, <2>5 DEF Positions
<1>8. \A i \in 1 .. L : key[t[i][2]] = key[c] => t[i][1] # "call"
  <2> SUFFICES ASSUME NEW i \in 1 .. L, key[t[i][2]] = key[c], t[i][1] = "call"
               PROVE  FALSE
    OBVIOUS
  <2>1. i + 1 < 1
    BY <1>1, <1>o DEF QueueInv, Ordered, Positions
  <2> QED
    BY <1>7, <2>1
<1>9. Ordered(t)
  BY <1>o, <1>2, TailOrdered DEF QueueInv
<1> HIDE DEF t, w, b, e, n, L, r
<1>10. Ordered(queue)'
  <2> SUFFICES ASSUME NEW i \in Positions', NEW j \in Positions',
                      queue'[i][1] = "call",
                      key[queue'[i][2]] = key[queue'[j][2]]
               PROVE  /\ queue'[j][1] = "resume" => j < i
                      /\ queue'[j][1] = "target" => i < j
    BY <1>4, <1>7 DEF Ordered
  <2>1. i \in 1 .. L /\ queue'[i] = t[i]
    BY <1>7
  <2>2. j \in 1 .. L
    BY <1>7, <1>8, <2>1
  <2> QED
    BY <1>7, <1>9, <2>1, <2>2 DEF Ordered, L
<1>11. ResumeInv'
  <2> SUFFICES ASSUME NEW i \in Positions', queue'[i][1] = "resume"
               PROVE  mutexCache[key[queue'[i][2]]] \in settled \cup {r, None}
    BY <1>4 DEF ResumeInv
  <2>1. CASE i \in 1 .. L
    <3>1. queue'[i] = queue[i + 1] /\ i + 1 \in Positions
      BY <1>1, <1>7, <2>1 DEF L
    <3> QED
      BY <1>o, <3>1 DEF QueueInv, ResumeInv
  <2>2. CASE i \notin 1 .. L
    BY <1>3, <1>7, <2>2
  <2> QED
    BY <2>1, <2>2
<1>12. SettledInv'
  <2> SUFFICES ASSUME NEW k \in Keys, mutexCache[k] \in settled \cup {r}
               PROVE  /\ \E i \in Positions' :
                           queue'[i][1] = "resume" /\ key[queue'[i][2]] = k
                      /\ \A i \in Positions' :
                           key[queue'[i][2]] = k => queue'[i][1] # "call"
    BY <1>4 DEF SettledInv
  <2>1. CASE mutexCache[k] = r
    <3>1. k = key[c]
      BY <1>3, <1>4, <1>f, <2>1
    <3>2. \A i \in Positions' : key[queue'[i][2]] = k => queue'[i][1] # "call"
      BY <1>7, <1>8, <3>1
    <3> QED
      BY <1>7, <3>1, <3>2
  <2>2. CASE mutexCache[k] \in settled
    <3>1. PICK i \in Positions : queue[i][1] = "resume" /\ key[queue[i][2]] = k
      BY <1>o, <2>2 DEF QueueInv, SettledInv
    <3>2. i # 1
      BY <1>1, <3>1
    <3>3. i - 1 \in 1 .. L /\ t[i - 1] = queue[i]
      BY <1>2, <3>2, OtherInTail DEF L, t
    <3>4. \A j \in 1 .. L : key[t[j][2]] = k => t[j][1] # "call"
      BY <1>o, <1>1, <2>2 DEF QueueInv, SettledInv, L
    <3>5. \A j \in Positions' : key[queue'[j][2]] = k => queue'[j][1] # "call"
      BY <1>7, <3>4
    <3> QED
      BY <1>7, <3>1, <3>3, <3>5
  <2> QED
    BY <2>1, <2>2
<1>13. /\ pc'[c] = "await" /\ awaits'[c] = r
       /\ \A x \in Callers \ {c} : pc'[x] = pc[x] /\ awaits'[x] = awaits[x]
  BY <1>t, <1>4 DEF TypeOK
<1>14. CreatorInv'
  <2> SUFFICES ASSUME NEW x \in Callers, pc'[x] \in {"target", "done"}
               PROVE  /\ mutexCache[key[x]] = joined[x]
                      /\ joined[x] \notin settled \cup {r}
                      /\ \A d \in Callers :
                           pc'[d] \in {"target", "done"} /\ key[d] = key[x]
                             => x = d
    BY <1>4 DEF CreatorInv
  <2>1. x # c /\ pc[x] \in {"target", "done"}
    BY <1>13
  <2>2. /\ mutexCache[key[x]] = joined[x] /\ joined[x] \notin settled
        /\ \A d \in Callers :
             pc[d] \in {"target", "done"} /\ key[d] = key[x] => x = d
    BY <1>o, <2>1 DEF CreatorInv
  <2>3. key[x] # key[c]
    BY <1>1, <2>1, <2>2
  <2>4. joined[x] # r
    BY <1>3, <1>4, <1>f, <2>2, <2>3
  <2> QED
    BY <1>13, <2>2, <2>4
<1>15. WaiterInv'
  <2> SUFFICES ASSUME NEW s \in Run, NEW i \in 1 .. Len(e[s])
               PROVE  s \notin settled \cup {r} /\ mutexCache[key[e[s][i]]] = s
    BY <1>4 DEF WaiterInv
  <2>1. s # r /\ e[s] = handlers[s]
    BY <1>t, <1>4 DEF e, TypeOK
  <2> QED
    BY <1>o, <2>1 DEF WaiterInv
<1>16. JoinedInv'
  BY <1>o, <1>4, <1>13 DEF JoinedInv, r
<1>17. DrainInv'
  BY DrainEnds DEF AfterTarget
<1> QED
  BY <1>10, <1>11, <1>12, <1>14, <1>15, <1>16, <1>17 DEF OrderInv, QueueInv

(* A caller clears the cache, and calls again behind all who resume. *)
LEMMA AfterAwaitOrder ==
  ASSUME IInv, OrderInv, NEW c \in Callers, AfterAwait(c)
  PROVE  OrderInv'
<1> DEFINE t == Tail(queue)
           L == Len(t)
           n == L + 1
<1>t. TypeOK /\ RunInv
  BY DEF IInv
<1>o. CreatorInv /\ WaiterInv /\ JoinedInv /\ QueueInv
  BY DEF OrderInv
<1>f. /\ None \notin settled /\ None \notin Run
      /\ \A x \in Callers : key[x] \in Keys
      /\ \A i \in Positions : queue[i] \in Jobset /\ queue[i][2] \in Callers
      /\ \A s \in Run : \A i \in 1 .. Len(handlers[s]) :
           handlers[s][i] \in Callers
  BY CacheFacts
<1>1. /\ 1 \in Positions /\ queue[1][1] = "resume" /\ queue[1][2] = c
      /\ pc[c] = "await" /\ t \in Seq(Jobset)
      /\ \A i \in 1 .. L : t[i] = queue[i + 1] /\ i + 1 \in Positions
  BY HeadJob DEF AfterAwait, Place
<1>2. queue \in Seq(Jobset) /\ queue # <<>>
  BY <1>t DEF TypeOK, Jobset, AfterAwait, NextJob
<1>3. mutexCache[key[c]] \in settled \cup {None}
  BY <1>o, <1>1 DEF QueueInv, ResumeInv
<1>4. /\ mutexCache'[key[c]] = None
      /\ \A k \in Keys \ {key[c]} : mutexCache'[k] = mutexCache[k]
      /\ pc'[c] \in {"idle", "queued"}
      /\ \A x \in Callers \ {c} : pc'[x] = pc[x]
      /\ UNCHANGED <<handlers, settled, key, joined, awaits>>
  BY <1>t DEF AfterAwait, Release, TypeOK
<1>5. /\ L \in Nat /\ 1 .. L \subseteq Positions'
      /\ \A i \in 1 .. L : queue'[i] = t[i]
      /\ \A i \in Positions' \ (1 .. L) :
           /\ i = n
           /\ queue'[i][1] = "call" /\ queue'[i][2] = c
      /\ Positions' = 1 .. Len(queue')
  <2>1. CASE queue' = t
    BY <1>1, <2>1 DEF Positions
  <2>2. CASE queue' = Append(t, <<"call", c>>)
    <3>1. <<"call", c>> \in Jobset
      BY DEF Jobset
    <3>2. L \in Nat
      BY <1>1
    <3> HIDE DEF t
    <3>3. /\ \A i \in 1 .. L : queue'[i] = t[i]
          /\ queue'[n] = <<"call", c>> /\ Positions' = 1 .. L \cup {n}
      BY <1>1, <2>2, <3>1, Appended DEF Positions
    <3> QED
      BY <3>2, <3>3 DEF Positions
  <2> QED
    BY <2>1, <2>2 DEF AfterAwait
<1>6. /\ \A i \in 1 .. L : i < n
      /\ Ordered(t)
  BY <1>o, <1>2, <1>5, TailOrdered DEF QueueInv
<1> HIDE DEF t, L, n
<1>7. \A x \in Callers : pc[x] \in {"target", "done"} => key[x] # key[c]
  <2> SUFFICES ASSUME NEW x \in Callers, pc[x] \in {"target", "done"},
                      key[x] = key[c]
               PROVE  FALSE
    OBVIOUS
  <2>1. mutexCache[key[x]] = joined[x] /\ joined[x] \notin settled
    BY <1>o DEF CreatorInv
  <2>2. joined[x] # None
    BY <1>t, RunsType DEF RunInv
  <2> QED
    BY <1>3, <2>1, <2>2
<1>8. \A i \in 1 .. L :
        /\ t[i][2] \in Callers /\ key[t[i][2]] \in Keys
        /\ t[i][1] = "target" => key[t[i][2]] # key[c]
  <2> SUFFICES ASSUME NEW i \in 1 .. L
               PROVE  /\ t[i][2] \in Callers /\ key[t[i][2]] \in Keys
                      /\ t[i][1] = "target" => key[t[i][2]] # key[c]
    OBVIOUS
  <2>1. t[i] = queue[i + 1] /\ i + 1 \in Positions
    BY <1>1
  <2>2. t[i][1] = "target" => pc[t[i][2]] = "done"
    BY <2>1 DEF IInv, JobInv, Place
  <2> QED
    BY <1>f, <1>7, <2>1, <2>2
<1>9. Ordered(queue)'
  <2> SUFFICES ASSUME NEW i \in Positions', NEW j \in Positions',
                      queue'[i][1] = "call",
                      key[queue'[i][2]] = key[queue'[j][2]]
               PROVE  /\ queue'[j][1] = "resume" => j < i
                      /\ queue'[j][1] = "target" => i < j
    BY <1>4, <1>5 DEF Ordered
  <2>1. CASE j \notin 1 .. L
    BY <1>5, <2>1
  <2>2. CASE j \in 1 .. L /\ i \in 1 .. L
    BY <1>5, <1>6, <2>2 DEF Ordered, L
  <2>3. CASE j \in 1 .. L /\ i \notin 1 .. L
    BY <1>5, <1>6, <1>8, <2>3
  <2> QED
    BY <2>1, <2>2, <2>3
<1>10. ResumeInv'
  <2> SUFFICES ASSUME NEW i \in Positions', queue'[i][1] = "resume"
               PROVE  mutexCache'[key[queue'[i][2]]] \in settled \cup {None}
    BY <1>4 DEF ResumeInv
  <2>1. i \in 1 .. L /\ queue'[i] = queue[i + 1] /\ i + 1 \in Positions
    BY <1>1, <1>5
  <2>2. mutexCache[key[queue'[i][2]]] \in settled \cup {None}
    BY <1>o, <2>1 DEF QueueInv, ResumeInv
  <2> QED
    BY <1>4, <1>5, <1>8, <2>1, <2>2
<1>11. SettledInv'
  <2> SUFFICES ASSUME NEW k \in Keys, mutexCache'[k] \in settled
               PROVE  /\ \E i \in Positions' :
                           queue'[i][1] = "resume" /\ key[queue'[i][2]] = k
                      /\ \A i \in Positions' :
                           key[queue'[i][2]] = k => queue'[i][1] # "call"
    BY <1>4 DEF SettledInv
  <2>1. k # key[c] /\ mutexCache[k] \in settled
    BY <1>4, <1>f
  <2>2. PICK i \in Positions : queue[i][1] = "resume" /\ key[queue[i][2]] = k
    BY <1>o, <2>1 DEF QueueInv, SettledInv
  <2>3. i # 1
    BY <1>1, <2>1, <2>2
  <2>4. i - 1 \in 1 .. L /\ t[i - 1] = queue[i]
    BY <1>2, <2>3, OtherInTail DEF L, t
  <2>5. \A j \in 1 .. L : key[t[j][2]] = k => t[j][1] # "call"
    BY <1>o, <1>1, <2>1 DEF QueueInv, SettledInv
  <2>6. \A j \in Positions' : key[queue'[j][2]] = k => queue'[j][1] # "call"
    BY <1>5, <2>1, <2>5
  <2> QED
    BY <1>5, <2>2, <2>4, <2>6
<1>12. CreatorInv'
  <2> SUFFICES ASSUME NEW x \in Callers, pc'[x] \in {"target", "done"}
               PROVE  /\ mutexCache'[key[x]] = joined[x]
                      /\ joined[x] \notin settled
                      /\ \A d \in Callers :
                           pc'[d] \in {"target", "done"} /\ key[d] = key[x]
                             => x = d
    BY <1>4 DEF CreatorInv
  <2>1. pc[x] \in {"target", "done"}
    BY <1>4
  <2> QED
    BY <1>o, <1>4, <1>7, <1>f, <2>1 DEF CreatorInv
<1>13. WaiterInv'
  <2> SUFFICES ASSUME NEW s \in Run, NEW i \in 1 .. Len(handlers[s])
               PROVE  /\ s \notin settled
                      /\ mutexCache'[key[handlers[s][i]]] = s
    BY <1>4 DEF WaiterInv
  <2>1. s \notin settled /\ mutexCache[key[handlers[s][i]]] = s
    BY <1>o DEF WaiterInv
  <2>2. key[handlers[s][i]] \in Keys \ {key[c]}
    BY <1>3, <1>f, <2>1
  <2> QED
    BY <1>4, <2>1, <2>2
<1>14. JoinedInv'
  <2>1. awaits[c] = joined[c]
    BY <1>o, <1>1 DEF JoinedInv
  <2> QED
    BY <1>o, <1>4, <2>1 DEF JoinedInv
<1>15. DrainInv'
  BY DrainEnds DEF AfterAwait
<1> QED
  BY <1>9, <1>10, <1>11, <1>12, <1>13, <1>14, <1>15 DEF OrderInv, QueueInv

(* Nothing changed, nothing to show *)
LEMMA StutterOrder == OrderInv /\ UNCHANGED callVars => OrderInv'
<1> SUFFICES ASSUME OrderInv, UNCHANGED callVars
             PROVE  OrderInv'
  OBVIOUS
<1>1. /\ UNCHANGED <<mutexCache, handlers, settled, queue, draining, pc, key,
                     joined, awaits>>
      /\ Positions' = Positions
  BY DEF callVars, Positions
<1>2. CreatorInv' /\ WaiterInv' /\ JoinedInv' /\ DrainInv'
  BY <1>1 DEF OrderInv, CreatorInv, WaiterInv, JoinedInv, DrainInv
<1>3. QueueInv'
  BY <1>1 DEF OrderInv, QueueInv, Ordered, ResumeInv, SettledInv
<1> QED
  BY <1>2, <1>3 DEF OrderInv

(* No step of a callback of node or of a caller's continuation breaks it. *)
LEMMA NextSharedInv == IInv /\ SharedInv /\ [Next]_vars => SharedInv'
<1> SUFFICES ASSUME IInv, SharedInv, [Next]_vars, ~unrelatedJobs'
             PROVE  OrderInv'
  BY DEF SharedInv
<1>1. unrelatedJobs' = unrelatedJobs
  BY DEF Next, vars
<1>2. OrderInv
  BY <1>1 DEF SharedInv
<1>3. CASE UNCHANGED vars
  BY <1>2, <1>3, StutterOrder DEF vars
<1>4. CASE Next
  BY <1>1, <1>2, <1>4, CallOrder, QueuedCallOrder, TargetSettlesOrder,
     AfterTargetOrder, AfterAwaitOrder DEF Next, QueueCall
<1> QED
  BY <1>3, <1>4

(* When only callbacks of node and the continuations of its own callers    *)
(* call a synchronized function, its target runs once at a time for a key, *)
(* and every caller gets the result of the run it joined: bluebird's queue *)
(* lets nobody call between the steps of synchronizedBy in which the       *)
(* callers of a run clear the cache one after the other.                   *)
(* (tests.ts: "synchronized should wrap to only call once")                *)
THEOREM Shared == Spec => []SharedRuns
<1>1. Init => SharedInv
  <2> SUFFICES ASSUME Init PROVE OrderInv
    BY DEF SharedInv
  <2>1. /\ Positions = {} /\ queue = <<>>
        /\ settled = {} /\ \A r \in Run : 1 .. Len(handlers[r]) = {}
        /\ \A c \in Callers : pc[c] = "idle" /\ joined[c] = awaits[c]
    BY DEF Init, Positions
  <2>2. CreatorInv /\ WaiterInv /\ JoinedInv /\ DrainInv
    BY <2>1 DEF CreatorInv, WaiterInv, JoinedInv, DrainInv
  <2>3. QueueInv
    BY <2>1 DEF QueueInv, Ordered, ResumeInv, SettledInv
  <2> QED
    BY <2>2, <2>3 DEF OrderInv
<1>2. SharedInv => SharedRuns
  BY DEF SharedInv, OrderInv, CreatorInv, JoinedInv, SharedRuns
<1> QED
  BY InitIInv, NextIInv, NextSharedInv, <1>1, <1>2, PTL DEF Spec
=============================================================================
