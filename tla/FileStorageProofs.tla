-------------------------- MODULE FileStorageProofs --------------------------
(***************************************************************************)
(* Proofs about FileStorage as FileClients and ImageUploads use it: for    *)
(* any callers, paths and contents and any number of calls, and for any    *)
(* number of uploads.                                                      *)
(***************************************************************************)
EXTENDS FileClients, ImageUploads, TLAPS

USE ContentsAssumption, MaxCallsAssumption
    DEF ContentsAssumption, MaxCallsAssumption, Held, history

(* What is known of a call: which files it is about, and, while it checks  *)
(* for a file that was there when it began, that the file is there still   *)
(* or was deleted.                                                         *)
CallOK(call, gone, store) ==
  /\ call.at = "checking" => call.op = "write"
  /\ call.at \in {"reading", "taken"} => call.op = "read"
  /\ call.op # "none" => call.paths # {}
  /\ call.op = "write" => /\ call.content \in Contents
                          /\ \E p \in Paths : call.paths = {p}
                          /\ call.overwrite => call.saw = None
  /\ call.op = "write" /\ call.at = "checking" /\ call.saw # None =>
       \A p \in call.paths : /\ call.saw <= gone[p]
                             /\ call.saw = gone[p] => store[p] # None

(* What is known of a write that goes on: a file that was there when its   *)
(* call began has been deleted.                                            *)
OperationOK(o, gone) ==
  o.op = "write" => /\ o.content \in Contents
                    /\ o.saw # None => o.saw < gone[o.path]

IInv == /\ StorageTypeOK
        /\ \A c \in Callers : CallOK(calls[c], deletions, files)
        /\ \A o \in operations : OperationOK(o, deletions)

(* A step that deletes the files it takes away keeps what is known of the  *)
(* calls and operations that it does not touch.                            *)
Accounted ==
  \A p \in Paths :
    \/ deletions'[p] = deletions[p] /\ (files[p] # None => files'[p] # None)
    \/ deletions'[p] = deletions[p] + 1

(* Such a step keeps what a call knows, ...                                *)
LEMMA CallKept ==
  ASSUME StorageTypeOK, Accounted, NEW call \in CallRecord, CallOK(call, deletions, files)
  PROVE  CallOK(call, deletions', files')
<1>1. SUFFICES ASSUME call.op = "write", call.at = "checking", call.saw # None,
                      NEW p \in call.paths
               PROVE  /\ call.saw <= deletions'[p]
                      /\ call.saw = deletions'[p] => files'[p] # None
  BY DEF CallOK
<1>2. p \in Paths /\ call.saw \in Nat
  BY <1>1 DEF CallRecord
<1>3. /\ deletions[p] \in Nat
      /\ call.saw <= deletions[p] /\ (call.saw = deletions[p] => files[p] # None)
  BY <1>1, <1>2 DEF CallOK, StorageTypeOK
<1>4. QED
  BY <1>2, <1>3 DEF Accounted

(* ... and what an operation was begun with.                               *)
LEMMA OperationKept ==
  ASSUME StorageTypeOK, Accounted, NEW o \in Operation, OperationOK(o, deletions)
  PROVE  OperationOK(o, deletions')
<1>1. o.path \in Paths /\ deletions[o.path] \in Nat
      /\ (o.saw # None => o.saw \in Nat)
  BY DEF Operation, StorageTypeOK
<1>2. deletions'[o.path] >= deletions[o.path] /\ deletions'[o.path] \in Nat
  BY <1>1 DEF Accounted
<1>3. QED
  BY <1>1, <1>2 DEF OperationOK

-----------------------------------------------------------------------------
(* The parts of the state that the end of a call changes *)
CallsTypeOK ==
  /\ calls \in [Callers -> CallRecord]
  /\ answers \in [Callers -> Answer]
  /\ known \in [Paths -> Facts \cup Callers \cup {Unknown}]
CallsOK == \A c \in Callers : CallOK(calls[c], deletions, files)
OperationsOK ==
  operations \subseteq Operation /\ \A o \in operations : OperationOK(o, deletions)

(* No call knows nothing.                                                  *)
LEMMA NoCallOK == NoCall \in CallRecord /\ CallOK(NoCall, deletions, files) /\ CallOK(NoCall, deletions', files')
BY DEF NoCall, CallRecord, CallOK, Facts

(* Calls that are as they were, over or waiting are still all right. *)
LEMMA CallsKept ==
  ASSUME StorageTypeOK, CallsOK, Accounted,
         \A d \in Callers : \/ calls'[d] = calls[d]
                             \/ /\ calls'[d] \in CallRecord
                                /\ CallOK(calls'[d], deletions', files')
  PROVE  CallsOK'
<1> SUFFICES ASSUME NEW d \in Callers
             PROVE  CallOK(calls'[d], deletions', files')
  BY DEF CallsOK
<1>1. CASE calls'[d] = calls[d]
  <2>1. calls[d] \in CallRecord /\ CallOK(calls[d], deletions, files)
    BY DEF StorageTypeOK, CallsOK
  <2>2. QED
    BY <1>1, <2>1, CallKept
<1>2. QED
  BY <1>1

(* A call that ends leaves the others as they are.                         *)
LEMMA EndKept ==
  ASSUME StorageTypeOK, CallsOK, Accounted, NEW c \in Callers,
         NEW answer \in Answer, NEW fact \in Facts \cup {Unknown},
         End(c, answer, fact)
  PROVE  CallsTypeOK' /\ CallsOK'
<1>1. calls' = [calls EXCEPT ![c] = NoCall] /\ calls'[c] = NoCall
  BY DEF End, StorageTypeOK
<1>2. CallsTypeOK'
  BY <1>1, NoCallOK DEF End, CallsTypeOK, StorageTypeOK
<1>3. CallOK(calls'[c], deletions', files')
  BY <1>1, NoCallOK DEF CallOK, NoCall
<1>4. \A d \in Callers : \/ calls'[d] = calls[d]
                           \/ /\ calls'[d] \in CallRecord
                              /\ CallOK(calls'[d], deletions', files')
  BY <1>1, <1>3, NoCallOK DEF StorageTypeOK
<1>5. CallsOK'
  BY <1>4, CallsKept
<1>6. QED
  BY <1>2, <1>5

(* So does an operation that ends, with its call or without.               *)
LEMMA SettleKept ==
  ASSUME StorageTypeOK, CallsOK, Accounted, NEW o \in Operation, NEW rest,
         rest \subseteq Operation, \A q \in rest : OperationOK(q, deletions'),
         NEW outcome \in {"done", "missing", "error"},
         NEW fact \in Facts \cup {Unknown},
         Settle(o, rest, outcome, fact)
  PROVE  CallsTypeOK' /\ CallsOK' /\ OperationsOK'
<1>0. o.c \in Callers
  BY DEF Operation
<1>1. OperationsOK'
  BY DEF Settle, OperationsOK
<1>2. CASE UNCHANGED <<calls, answers, known>>
  <2>1. CallsTypeOK'
    BY <1>2 DEF CallsTypeOK, StorageTypeOK
  <2>2. CallsOK'
    BY <1>2, CallsKept
  <2>3. QED
    BY <1>1, <2>1, <2>2
<1>3. ASSUME NEW failed \in BOOLEAN,
             calls' = [calls EXCEPT ![o.c].failed = failed],
             UNCHANGED <<answers, known>>
      PROVE  CallsTypeOK' /\ CallsOK'
  <2> DEFINE old == calls[o.c]
             new == calls'[o.c]
  <2>1. /\ old \in CallRecord /\ CallOK(old, deletions, files)
        /\ new = [old EXCEPT !.failed = failed]
    BY <1>0, <1>3 DEF StorageTypeOK, CallsOK
  <2>2. /\ new \in CallRecord
        /\ new.op = old.op /\ new.at = old.at /\ new.paths = old.paths
        /\ new.content = old.content /\ new.saw = old.saw
        /\ new.overwrite = old.overwrite
    BY <2>1 DEF CallRecord
  <2>3. CallsTypeOK'
    BY <1>3, <2>2 DEF CallsTypeOK, StorageTypeOK
  <2>5. CallOK(old, deletions', files')
    BY <2>1, CallKept
  <2>6. CallOK(calls'[o.c], deletions', files')
    BY <2>2, <2>5 DEF CallOK
  <2>7. \A d \in Callers : d # o.c => calls'[d] = calls[d]
    BY <1>3 DEF StorageTypeOK
  <2>8. \A d \in Callers : \/ calls'[d] = calls[d]
                             \/ /\ calls'[d] \in CallRecord
                                /\ CallOK(calls'[d], deletions', files')
    BY <2>2, <2>6, <2>7
  <2>9. CallsOK'
    BY <2>8, CallsKept
  <2>10. QED
    BY <2>3, <2>9
<1>4. ASSUME NEW answer \in Answer, NEW real \in Facts \cup {Unknown},
             End(o.c, answer, real)
      PROVE  CallsTypeOK' /\ CallsOK'
  BY <1>0, <1>4, EndKept
<1>5. calls[o.c].failed \in BOOLEAN
  BY <1>0 DEF StorageTypeOK, CallRecord
<1>6. QED
  BY <1>1, <1>2, <1>3, <1>4, <1>5 DEF Settle, Rethrown, Answer

(* The operations that a call hands to the store *)
LEMMA IssuedOK ==
  ASSUME NEW c \in Callers, NEW call \in CallRecord,
         call.op \in {"write", "delete"},
         call.op = "write" =>
           /\ call.content \in Contents
           /\ call.saw # None => \A p \in call.paths : call.saw < deletions[p]
  PROVE  /\ Issued(c, call) \subseteq Operation
         /\ \A o \in Issued(c, call) : OperationOK(o, deletions)
<1> SUFFICES ASSUME NEW o \in Issued(c, call)
             PROVE  o \in Operation /\ OperationOK(o, deletions)
  OBVIOUS
<1>1. PICK p \in call.paths :
        o = [c |-> c, op |-> call.op, path |-> p, content |-> call.content,
             wait |-> call.wait, ignoreMissing |-> call.ignoreMissing,
             saw |-> call.saw, begun |-> FALSE, linked |-> TRUE,
             mixed |-> FALSE]
  BY DEF Issued
<1>2. p \in Paths
  BY DEF CallRecord
<1>3. o \in Operation
  BY <1>1, <1>2 DEF Operation, CallRecord
<1>4. OperationOK(o, deletions)
  BY <1>1 DEF OperationOK
<1>5. QED
  BY <1>3, <1>4

(* The path of a call is one of its paths.                                 *)
LEMMA PathOfIn ==
  ASSUME NEW call \in CallRecord, call.paths # {}
  PROVE  PathOf(call) \in call.paths /\ PathOf(call) \in Paths
BY DEF PathOf, CallRecord
(* The store itself *)
StoreTypeOK ==
  /\ service \in {"local", "s3"}
  /\ files \in [Paths -> Held]
  /\ deletions \in [Paths -> Nat]

Inv == StoreTypeOK /\ CallsTypeOK /\ CallsOK /\ OperationsOK

(* What is remembered of the calls                                         *)
HistoryTypeOK ==
  /\ swallowed \subseteq Paths
  /\ expected \in [Callers -> Facts \cup {Unknown}]

(* The invariant is its parts.                                             *)
LEMMA InvMeans ==
  /\ IInv <=> Inv /\ HistoryTypeOK
  /\ IInv' <=> Inv' /\ HistoryTypeOK'
BY DEF IInv, Inv, StorageTypeOK, StoreTypeOK, CallsTypeOK, CallsOK,
       OperationsOK, HistoryTypeOK

(* The steps that take nothing out of the store *)
LEMMA Accounting ==
  ASSUME IInv, UNCHANGED deletions,
         \/ UNCHANGED files
         \/ \E p \in Paths, content \in Contents \cup {Torn} :
              files' = [files EXCEPT ![p] = content]
  PROVE  /\ Accounted /\ (UNCHANGED service => StoreTypeOK')
         /\ \A o \in operations : OperationOK(o, deletions')
BY DEF IInv, StorageTypeOK, StoreTypeOK, Accounted, Facts

(* A deletion *)
LEMMA DeletionAccounting ==
  ASSUME IInv, NEW p \in Paths, UNCHANGED service,
         files' = [files EXCEPT ![p] = None],
         deletions' = [deletions EXCEPT ![p] = @ + 1]
  PROVE  /\ Accounted /\ StoreTypeOK'
         /\ \A o \in operations : OperationOK(o, deletions')
<1>1. Accounted /\ StoreTypeOK'
  BY DEF IInv, StorageTypeOK, StoreTypeOK, Accounted, Facts
<1>2. \A o \in operations : OperationOK(o, deletions')
  BY <1>1, OperationKept DEF IInv, StorageTypeOK
<1>3. QED
  BY <1>1, <1>2

(* What is known when a call begins has its type.                          *)
LEMMA BegunType ==
  ASSUME IInv, NEW by \in Callers \cup {Unknown}, NEW paths, Begun(by, paths)
  PROVE  known' \in [Paths -> Facts \cup Callers \cup {Unknown}]
BY DEF IInv, StorageTypeOK, Begun

-----------------------------------------------------------------------------
(* A call begins: it is as CallOK says from its first step on. *)
LEMMA CallBegins ==
  ASSUME IInv, NEW c \in Callers, NEW call \in CallRecord,
         CallOK(call, deletions, files),
         calls' = [calls EXCEPT ![c] = call],
         known' \in [Paths -> Facts \cup Callers \cup {Unknown}],
         UNCHANGED <<files, deletions, answers>>
  PROVE  CallsTypeOK' /\ CallsOK'
<1>1. CallsTypeOK'
  BY DEF IInv, StorageTypeOK, CallsTypeOK
<1>2. \A d \in Callers : calls'[d] = calls[d] \/ calls'[d] = call
  BY DEF IInv, StorageTypeOK
<1>3. CallsOK'
  BY <1>2 DEF CallsOK, IInv
<1>4. QED
  BY <1>1, <1>3

(* One lemma for each call                                                 *)
LEMMA WriteFileKept ==
  ASSUME IInv, NEW c \in Callers, NEW p \in Paths, NEW content \in Contents,
         NEW overwrite \in BOOLEAN, NEW wait \in BOOLEAN,
         WriteFile(c, p, content, overwrite, wait)
  PROVE  Inv'
<1> DEFINE saw == IF Holds(p) /\ ~overwrite THEN deletions[p] ELSE None
           call == [NoCall EXCEPT !.op = "write", !.at = "checking",
                      !.paths = {p}, !.content = content,
                      !.overwrite = overwrite, !.wait = wait, !.saw = saw]
<1>1. /\ calls' = [calls EXCEPT ![c] = call]
      /\ Begun(c, {p})
      /\ UNCHANGED <<service, files, operations, answers, deletions>>
  BY DEF WriteFile
<1>2. deletions[p] \in Nat /\ saw \in Nat \cup {None}
  BY DEF IInv, StorageTypeOK
<1>3. call \in CallRecord
  <2> HIDE DEF saw
  <2> QED
    BY <1>2 DEF NoCall, CallRecord, Facts
<1>4. CallOK(call, deletions, files)
  BY <1>2 DEF NoCall, CallOK, Holds
<1>5. CallsTypeOK' /\ CallsOK'
  BY <1>1, <1>3, <1>4, BegunType, CallBegins
<1>6. StoreTypeOK' /\ OperationsOK'
  BY <1>1 DEF IInv, StorageTypeOK, StoreTypeOK, OperationsOK
<1>7. QED
  BY <1>5, <1>6 DEF Inv

LEMMA ReadFileKept ==
  ASSUME IInv, NEW c \in Callers, NEW p \in Paths,
         NEW ignoreMissing \in BOOLEAN, ReadFile(c, p, ignoreMissing)
  PROVE  Inv'
<1> DEFINE call == [NoCall EXCEPT !.op = "read", !.at = "reading",
                      !.paths = {p}, !.ignoreMissing = ignoreMissing]
<1>1. /\ calls' = [calls EXCEPT ![c] = call]
      /\ UNCHANGED <<service, files, operations, answers, deletions, known>>
  BY DEF ReadFile
<1>2. call \in CallRecord /\ CallOK(call, deletions, files)
  BY DEF NoCall, CallRecord, CallOK, Facts
<1>3. known' \in [Paths -> Facts \cup Callers \cup {Unknown}]
  BY <1>1 DEF IInv, StorageTypeOK
<1>4. CallsTypeOK' /\ CallsOK'
  BY <1>1, <1>2, <1>3, CallBegins
<1>5. StoreTypeOK' /\ OperationsOK'
  BY <1>1 DEF IInv, StorageTypeOK, StoreTypeOK, OperationsOK
<1>6. QED
  BY <1>4, <1>5 DEF Inv

LEMMA DeleteKept ==
  ASSUME IInv, NEW c \in Callers, NEW call \in CallRecord,
         call.op = "delete", call.at = "idle", Delete(c, call)
  PROVE  Inv'
<1>1. /\ Issued(c, call) \subseteq Operation
      /\ \A o \in Issued(c, call) : OperationOK(o, deletions)
  BY IssuedOK
<1>2. StoreTypeOK' /\ OperationsOK'
  BY <1>1 DEF Delete, IInv, StorageTypeOK, StoreTypeOK, OperationsOK
<1>3. CASE call.wait
  <2> DEFINE new == [call EXCEPT !.at = "waiting"]
  <2>1. new \in CallRecord /\ CallOK(new, deletions, files)
    BY DEF CallRecord, CallOK, Delete
  <2>2. /\ calls' = [calls EXCEPT ![c] = new]
        /\ known' \in [Paths -> Facts \cup Callers \cup {Unknown}]
        /\ UNCHANGED <<files, deletions, answers>>
    BY <1>3, BegunType DEF Delete
  <2>3. QED
    BY <1>2, <2>1, <2>2, CallBegins DEF Inv
<1>4. CASE ~call.wait
  <2>1. known' \in [Paths -> Facts \cup Callers \cup {Unknown}]
    BY <1>4, BegunType DEF Delete
  <2> QED
    BY <1>2, <1>4, <2>1
       DEF Delete, Inv, IInv, CallsTypeOK, CallsOK, StorageTypeOK, Answer
<1>5. QED
  BY <1>3, <1>4

LEMMA CallKeeps ==
  ASSUME IInv, NEW c \in Callers, Call(c)
  PROVE  Inv'
<1>1. ASSUME NEW wait \in BOOLEAN, NEW flag \in BOOLEAN, NEW p \in Paths,
             DeleteFile(c, p, wait, flag)
      PROVE  Inv'
  <2> DEFINE call == [NoCall EXCEPT !.op = "delete", !.paths = {p},
                        !.wait = wait, !.ignoreMissing = flag]
  <2>1. call \in CallRecord /\ call.op = "delete" /\ call.at = "idle"
    BY DEF NoCall, CallRecord, Facts
  <2>2. QED
    BY <1>1, <2>1, DeleteKept DEF DeleteFile
<1>2. ASSUME NEW wait \in BOOLEAN, NEW flag \in BOOLEAN,
             NEW paths \in SUBSET Paths, DeleteFiles(c, paths, wait, flag)
      PROVE  Inv'
  <2> DEFINE call == [NoCall EXCEPT !.op = "delete", !.paths = paths,
                        !.wait = wait, !.ignoreMissing = flag,
                        !.several = TRUE]
  <2>1. call \in CallRecord /\ call.op = "delete" /\ call.at = "idle"
    BY DEF NoCall, CallRecord, Facts
  <2>2. QED
    BY <1>2, <2>1, DeleteKept DEF DeleteFiles
<1>3. QED
  BY <1>1, <1>2, WriteFileKept, ReadFileKept DEF Call
-----------------------------------------------------------------------------
(* The steps of a call *)
LEMMA EndsQuietly ==
  ASSUME IInv, NEW c \in Callers, NEW answer \in Answer,
         NEW fact \in Facts \cup {Unknown}, End(c, answer, fact),
         UNCHANGED <<service, files, deletions>>
  PROVE  StoreTypeOK' /\ CallsTypeOK' /\ CallsOK'
<1>1. Accounted /\ StoreTypeOK' /\ StorageTypeOK /\ CallsOK
  BY Accounting DEF IInv, CallsOK
<1>2. QED
  BY <1>1, EndKept

(* The steps between the first of a call and its operations                *)
LEMMA CallStepKept ==
  ASSUME IInv, NEW c \in Callers, CallStep(c)
  PROVE  Inv'
<1>0. /\ calls[c] \in CallRecord /\ CallOK(calls[c], deletions, files)
      /\ files \in [Paths -> Held]
      /\ OperationsOK
  BY DEF IInv, StorageTypeOK, OperationsOK
<1>1. CASE LocalPrepareFails(c) \/ FileFound(c)
  <2>1. PICK answer \in {"error", "exists"} :
          /\ End(c, answer, Unknown)
          /\ UNCHANGED <<service, files, operations, deletions>>
    BY <1>1 DEF LocalPrepareFails, FileFound
  <2>2. StoreTypeOK' /\ CallsTypeOK' /\ CallsOK'
    BY <2>1, EndsQuietly DEF Answer
  <2>3. QED
    BY <1>0, <2>1, <2>2 DEF Inv, OperationsOK
<1>2. CASE ReadEnds(c)
  <2> DEFINE content == calls[c].content
  <2>2. \A a \in {"error", IF content # None \/ calls[c].ignoreMissing
                              THEN content ELSE "missing"} : a \in Answer
    BY <1>0 DEF Answer, CallRecord
  <2>3. answers' \in [Callers -> Answer]
    BY <1>2, <2>2 DEF ReadEnds, IInv, StorageTypeOK
  <2>4. CallsTypeOK'
    BY <1>2, <2>3, NoCallOK
       DEF ReadEnds, IInv, StorageTypeOK, CallsTypeOK
  <2>5. \A d \in Callers : calls'[d] = calls[d] \/ calls'[d] = NoCall
    BY <1>2 DEF ReadEnds, IInv, StorageTypeOK
  <2>6. CallsOK'
    BY <1>2, <2>5, NoCallOK DEF CallsOK, IInv, ReadEnds
  <2>7. StoreTypeOK' /\ OperationsOK'
    BY <1>0, <1>2
       DEF ReadEnds, IInv, StorageTypeOK, StoreTypeOK, OperationsOK
  <2>8. QED
    BY <2>4, <2>6, <2>7 DEF Inv
<1>3. CASE WriteIssued(c)
  <2> DEFINE call == calls[c]
             p == PathOf(call)
  <2>1. /\ call.at = "checking" /\ call.op = "write"
        /\ call.content \in Contents /\ call.paths # {}
    BY <1>0, <1>3 DEF WriteIssued, CallOK
  <2>2. p \in Paths /\ p \in call.paths
    BY <1>0, <2>1, PathOfIn
  <2>3. PICK found \in IF call.overwrite THEN {"absent"}
                       ELSE FileExists(p) \ {"file"} :
          operations' = operations \cup Issued(c,
            [call EXCEPT !.saw = IF found = "error" THEN None ELSE @])
    BY <1>3 DEF WriteIssued
  <2> DEFINE new == [call EXCEPT !.saw = IF found = "error" THEN None ELSE @]
  <2>4. new \in CallRecord /\ new.op = "write" /\ new.content \in Contents
    BY <1>0, <2>1 DEF CallRecord
  <2>5. ASSUME new.saw # None, NEW q \in new.paths
        PROVE  new.saw < deletions[q]
    <3>1. /\ new.saw = call.saw /\ call.saw # None /\ found # "error"
          /\ q \in call.paths
      BY <1>0, <2>5 DEF CallRecord
    <3>2. q = p /\ ~call.overwrite
      BY <1>0, <2>1, <2>2, <3>1 DEF CallOK
    <3>3. files[p] = None
      BY <2>3, <3>1, <3>2 DEF FileExists, Holds
    <3>4. /\ call.saw <= deletions[p] /\ call.saw # deletions[p]
      BY <1>0, <2>1, <2>2, <3>1, <3>3 DEF CallOK
    <3>5. call.saw \in Nat /\ deletions[p] \in Nat
      BY <1>0, <2>2, <3>1 DEF CallRecord, IInv, StorageTypeOK
    <3>6. QED
      BY <3>1, <3>2, <3>4, <3>5
  <2>6. Issued(c, new) \subseteq Operation
        /\ \A o \in Issued(c, new) : OperationOK(o, deletions)
    BY <2>4, <2>5, IssuedOK
  <2>7. OperationsOK'
    BY <1>0, <1>3, <2>3, <2>6 DEF WriteIssued, OperationsOK
  <2>8. CASE call.wait
    <3> DEFINE waiting == [call EXCEPT !.at = "waiting"]
    <3>1. waiting \in CallRecord /\ CallOK(waiting, deletions, files)
      BY <1>0, <2>1 DEF CallRecord, CallOK
    <3>2. /\ calls' = [calls EXCEPT ![c] = waiting]
          /\ UNCHANGED <<service, files, deletions, answers, known>>
      BY <1>3, <2>8 DEF WriteIssued
    <3>3. known' \in [Paths -> Facts \cup Callers \cup {Unknown}]
          /\ StoreTypeOK'
      BY <3>2 DEF IInv, StorageTypeOK, StoreTypeOK
    <3>4. QED
      BY <2>7, <3>1, <3>2, <3>3, CallBegins DEF Inv
  <2>9. CASE ~call.wait
    <3>1. /\ End(c, "sent", Unknown)
          /\ UNCHANGED <<service, files, deletions>>
      BY <1>3, <2>9 DEF WriteIssued
    <3>2. QED
      BY <2>7, <3>1, EndsQuietly DEF Inv, Answer
  <2>10. QED
    BY <2>8, <2>9
<1>4. ASSUME ContentTaken(c) \/ LocalReadsOn(c)
      PROVE  Inv'
  <2>1. PICK content \in Held, saw \in Nat \cup {None} :
          /\ calls' = [calls EXCEPT ![c] = [@ EXCEPT
               !.at = "taken", !.content = content, !.saw = saw]]
          /\ UNCHANGED <<service, files, operations, answers, deletions, known>>
    <3>1. CASE ContentTaken(c)
      <4>1. PathOf(calls[c]) \in Paths
        BY <1>0, <3>1, PathOfIn DEF ContentTaken, CallOK
      <4>2. files[PathOf(calls[c])] \in Held /\ deletions[PathOf(calls[c])] \in Nat
        BY <1>0, <4>1 DEF IInv, StorageTypeOK
      <4> QED
        BY <3>1, <4>2 DEF ContentTaken
    <3>2. CASE LocalReadsOn(c)
      <4>1. PathOf(calls[c]) \in Paths
        BY <1>0, <3>2, PathOfIn DEF LocalReadsOn, CallOK
      <4>2. Opened(calls[c]) \subseteq Held
        BY <1>0, <4>1 DEF Opened, OperationsOK, Operation
      <4>3. PICK content \in Held : calls' = [calls EXCEPT ![c].content = content]
        BY <3>2, <4>2 DEF LocalReadsOn
      <4>4. /\ [calls[c] EXCEPT !.content = content]
               = [calls[c] EXCEPT !.at = "taken", !.content = content,
                                  !.saw = calls[c].saw]
            /\ calls[c].saw \in Nat \cup {None}
        BY <1>0, <3>2 DEF CallRecord, LocalReadsOn
      <4>5. calls' = [calls EXCEPT ![c] = [@ EXCEPT
               !.at = "taken", !.content = content, !.saw = calls[c].saw]]
        BY <4>3, <4>4 DEF IInv, StorageTypeOK
      <4> QED
        BY <3>2, <4>4, <4>5 DEF LocalReadsOn
    <3> QED
      BY <1>4, <3>1, <3>2
  <2> DEFINE new == [calls[c] EXCEPT !.at = "taken", !.content = content,
                                     !.saw = saw]
  <2>2. calls' = [calls EXCEPT ![c] = new]
    BY <2>1
  <2>3. calls[c].op = "read"
    BY <1>0, <1>4 DEF CallOK, ContentTaken, LocalReadsOn
  <2>4. new \in CallRecord /\ new.op = "read" /\ new.paths = calls[c].paths
        /\ new.at = "taken"
    BY <1>0, <2>3 DEF CallRecord
  <2> HIDE DEF new
  <2>5. CallOK(new, deletions, files)
    BY <1>0, <2>3, <2>4 DEF CallOK
  <2>6. known' \in [Paths -> Facts \cup Callers \cup {Unknown}]
        /\ StoreTypeOK' /\ OperationsOK'
    BY <1>0, <2>1 DEF IInv, StorageTypeOK, StoreTypeOK, OperationsOK
  <2>7. CallsTypeOK' /\ CallsOK'
    BY <2>1, <2>2, <2>4, <2>5, <2>6, CallBegins
  <2> QED
    BY <2>6, <2>7 DEF Inv
<1>5. QED
  BY <1>1, <1>2, <1>3, <1>4 DEF CallStep
-----------------------------------------------------------------------------
(* The steps of an operation *)
LEMMA Settles ==
  ASSUME IInv, NEW o \in operations, Accounted, StoreTypeOK',
         \A q \in operations : OperationOK(q, deletions'),
         NEW outcome \in {"done", "missing", "error"},
         NEW fact \in Facts \cup {Unknown},
         Settle(o, Others(o), outcome, fact)
  PROVE  Inv'
<1>1. /\ o \in Operation /\ StorageTypeOK /\ CallsOK
      /\ Others(o) \subseteq Operation
      /\ \A q \in Others(o) : OperationOK(q, deletions')
  BY DEF IInv, StorageTypeOK, CallsOK, Others
<1>2. QED
  BY <1>1, SettleKept DEF Inv

(* The steps of writes                                                     *)
LEMMA WritesKept ==
  ASSUME IInv, NEW o \in operations,
         \/ LocalWriteBegins(o) \/ LocalWriteEnds(o) \/ LocalWriteFails(o)
         \/ S3Upload(o) \/ S3UploadFails(o)
  PROVE  Inv'
<1>0. /\ o \in Operation /\ o.path \in Paths
      /\ o.op = "write" /\ o.content \in Contents
  BY DEF IInv, StorageTypeOK, OperationOK, Operation, LocalWriteBegins,
         LocalWriteEnds, LocalWriteFails, S3Upload, S3UploadFails
<1>1. /\ UNCHANGED <<service, deletions>>
      /\ \/ UNCHANGED files
         \/ \E p \in Paths, content \in Contents \cup {Torn} :
              files' = [files EXCEPT ![p] = content]
  <2>1. CASE LocalWriteBegins(o)
    BY <1>0, <2>1 DEF LocalWriteBegins
  <2>2. CASE LocalWriteEnds(o)
    <3>1. PICK content \in {o.content, Torn} :
            files' = [files EXCEPT ![o.path] = IF o.linked THEN content ELSE @]
      BY <2>2 DEF LocalWriteEnds
    <3>2. CASE o.linked
      BY <1>0, <2>2, <3>1, <3>2 DEF LocalWriteEnds
    <3>3. CASE ~o.linked
      BY <1>0, <2>2, <3>1, <3>3 DEF LocalWriteEnds, IInv, StorageTypeOK
    <3>4. QED
      BY <3>2, <3>3
  <2>3. CASE LocalWriteFails(o)
    BY <2>3 DEF LocalWriteFails
  <2>4. CASE S3Upload(o) \/ S3UploadFails(o)
    BY <1>0, <2>4 DEF S3Upload, S3UploadFails
  <2>5. QED
    BY <2>1, <2>2, <2>3, <2>4
<1>2. /\ Accounted /\ StoreTypeOK'
      /\ \A q \in operations : OperationOK(q, deletions')
  BY <1>1, Accounting
<1>3. CASE LocalWriteBegins(o)
  <2>1. CallsTypeOK' /\ CallsOK'
    BY <1>2, <1>3, CallsKept
       DEF LocalWriteBegins, IInv, StorageTypeOK, CallsTypeOK, CallsOK
  <2>2. ASSUME NEW r \in operations'
        PROVE  r \in Operation /\ OperationOK(r, deletions')
    <3>1. PICK q \in operations, begun \in BOOLEAN, mixed \in BOOLEAN :
            r = [q EXCEPT !.begun = begun, !.mixed = mixed]
      <4>1. CASE \E q \in Others(o) :
                   r = IF SameFile(o, q) THEN [q EXCEPT !.mixed = TRUE] ELSE q
        <5>1. PICK q \in Others(o) :
                r = IF SameFile(o, q) THEN [q EXCEPT !.mixed = TRUE] ELSE q
          BY <4>1
        <5>2. q \in operations /\ q \in Operation
          BY DEF Others, IInv, StorageTypeOK
        <5>3. \/ r = [q EXCEPT !.begun = q.begun, !.mixed = TRUE]
              \/ r = [q EXCEPT !.begun = q.begun, !.mixed = q.mixed]
          BY <5>1, <5>2 DEF Operation
        <5>4. q.begun \in BOOLEAN /\ q.mixed \in BOOLEAN
          BY <5>2 DEF Operation
        <5>5. QED
          BY <5>2, <5>3, <5>4
      <4>2. CASE r = [o EXCEPT !.begun = TRUE,
                        !.mixed = \E q \in Others(o) : SameFile(o, q)]
        BY <4>2
      <4>3. QED
        BY <1>3, <2>2, <4>1, <4>2 DEF LocalWriteBegins
    <3>2. q \in Operation /\ OperationOK(q, deletions')
      BY <1>2 DEF IInv, StorageTypeOK
    <3>3. /\ r \in Operation /\ r.op = q.op /\ r.content = q.content
          /\ r.saw = q.saw /\ r.path = q.path
      BY <3>1, <3>2 DEF Operation
    <3>4. QED
      BY <3>2, <3>3 DEF OperationOK
  <2>3. QED
    BY <1>2, <2>1, <2>2 DEF Inv, OperationsOK
<1>4. CASE LocalWriteEnds(o) \/ S3Upload(o)
  BY <1>0, <1>2, <1>4, Settles DEF LocalWriteEnds, S3Upload, Facts
<1>5. CASE LocalWriteFails(o) \/ S3UploadFails(o)
  BY <1>2, <1>5, Settles DEF LocalWriteFails, S3UploadFails
<1>6. QED
  BY <1>3, <1>4, <1>5

(* The steps of deletions: each one is counted.                            *)
LEMMA DeletionsKept ==
  ASSUME IInv, NEW o \in operations,
         LocalUnlink(o) \/ S3Delete(o) \/ DeletionFails(o)
  PROVE  Inv'
<1>0. o \in Operation /\ o.path \in Paths /\ UNCHANGED service
  BY DEF IInv, StorageTypeOK, Operation, LocalUnlink, S3Delete,
         DeletionFails
<1>1. /\ Accounted /\ StoreTypeOK'
      /\ \A q \in operations : OperationOK(q, deletions')
  BY <1>0, Accounting, DeletionAccounting
     DEF LocalUnlink, S3Delete, DeletionFails
<1>2. CASE S3Delete(o) \/ DeletionFails(o)
  BY <1>1, <1>2, Settles DEF S3Delete, DeletionFails, Facts
<1>3. CASE LocalUnlink(o)
  <2> DEFINE rest == {IF SameFile(o, q) THEN [q EXCEPT !.linked = FALSE] ELSE q :
                        q \in Others(o)}
             outcome == IF Holds(o.path) \/ o.ignoreMissing THEN "done"
                        ELSE "missing"
  <2>1. \A q \in Others(o) : q \in Operation /\ OperationOK(q, deletions')
    BY <1>1 DEF Others, IInv, StorageTypeOK
  <2>2. ASSUME NEW r \in rest
        PROVE  r \in Operation /\ OperationOK(r, deletions')
    <3>1. PICK q \in Others(o) : r = q \/ r = [q EXCEPT !.linked = FALSE]
      OBVIOUS
    <3>2. q \in Operation /\ OperationOK(q, deletions')
      BY <2>1
    <3>3. /\ r \in Operation /\ r.op = q.op /\ r.content = q.content
          /\ r.saw = q.saw /\ r.path = q.path
      BY <3>1, <3>2 DEF Operation
    <3>4. QED
      BY <3>2, <3>3 DEF OperationOK
  <2>3. Settle(o, rest, outcome, None)
    BY <1>3 DEF LocalUnlink
  <2>4. StorageTypeOK /\ CallsOK /\ outcome \in {"done", "missing", "error"}
        /\ None \in Facts \cup {Unknown}
    BY DEF IInv, CallsOK, Facts
  <2> HIDE DEF rest, outcome
  <2>5. rest \subseteq Operation /\ \A q \in rest : OperationOK(q, deletions')
    BY <2>2
  <2>6. QED
    BY <1>0, <1>1, <2>3, <2>4, <2>5, SettleKept DEF Inv
<1>4. QED
  BY <1>2, <1>3

-----------------------------------------------------------------------------
(* The invariant holds at first, and every step of the storage and every   *)
(* call keeps it.                                                          *)
LEMMA InitIInv == StorageInit => IInv
<1> SUFFICES ASSUME StorageInit PROVE IInv
  OBVIOUS
<1>1. StorageTypeOK
  BY NoCallOK DEF StorageInit, StorageTypeOK, Facts, Answer
<1>2. QED
  BY <1>1, NoCallOK DEF StorageInit, IInv, CallOK, NoCall

(* What is remembered of the calls keeps its type.                         *)
LEMMA BegunHistory ==
  ASSUME IInv, NEW by, NEW paths, Begun(by, paths)
  PROVE  HistoryTypeOK'
BY DEF HistoryTypeOK, Begun, IInv, StorageTypeOK

LEMMA HistoryTypes ==
  ASSUME IInv, StorageStep \/ \E c \in Callers : Call(c)
  PROVE  HistoryTypeOK'
<1> USE DEF HistoryTypeOK
<1>0. /\ swallowed \subseteq Paths
      /\ expected \in [Callers -> Facts \cup {Unknown}]
  BY DEF IInv, StorageTypeOK
<1>1. ASSUME NEW by, NEW paths, Begun(by, paths)
      PROVE  HistoryTypeOK'
  BY <1>1, BegunHistory
<1>2. ASSUME NEW o \in operations, NEW rest, NEW outcome, NEW fact,
             Settle(o, rest, outcome, fact)
      PROVE  HistoryTypeOK'
  <2>1. o.path \in Paths
    BY DEF IInv, StorageTypeOK, Operation
  <2> QED
    BY <1>0, <1>2, <2>1 DEF Settle
<1>3. ASSUME NEW c \in Callers, CallStep(c)
      PROVE  HistoryTypeOK'
  <2>1. /\ swallowed' = swallowed
        /\ expected' = expected \/ expected' = [expected EXCEPT ![c] = Unknown]
    BY <1>3 DEF CallStep, LocalPrepareFails, FileFound, WriteIssued,
                ContentTaken, LocalReadsOn, ReadEnds
  <2> QED
    BY <1>0, <2>1
<1>4. ASSUME NEW o \in operations, OperationStep(o)
      PROVE  HistoryTypeOK'
  <2>1. CASE LocalWriteBegins(o)
    BY <1>0, <2>1 DEF LocalWriteBegins
  <2>2. CASE ~LocalWriteBegins(o)
    BY <1>2, <1>4, <2>2
       DEF OperationStep, LocalWriteEnds, LocalWriteFails, S3Upload,
           S3UploadFails, LocalUnlink, S3Delete, DeletionFails
  <2> QED
    BY <2>1, <2>2
<1>5. ASSUME NEW c \in Callers, Call(c)
      PROVE  HistoryTypeOK'
  <2>1. ASSUME NEW p, NEW flag, ReadFile(c, p, flag)
        PROVE  HistoryTypeOK'
    BY <1>0, <2>1 DEF ReadFile
  <2>2. ASSUME NEW call, Delete(c, call)
        PROVE  HistoryTypeOK'
    BY <1>1, <2>2 DEF Delete
  <2>3. ASSUME NEW p, NEW content, NEW overwrite, NEW wait,
               WriteFile(c, p, content, overwrite, wait)
        PROVE  HistoryTypeOK'
    BY <1>1, <2>3 DEF WriteFile
  <2> QED
    BY <1>5, <2>1, <2>2, <2>3 DEF Call, DeleteFile, DeleteFiles
<1> QED
  BY <1>3, <1>4, <1>5 DEF StorageStep

LEMMA StepIInv == IInv /\ StorageStep => IInv'
BY CallStepKept, WritesKept, DeletionsKept, InvMeans, HistoryTypes
   DEF StorageStep, OperationStep

LEMMA SameIInv == IInv /\ UNCHANGED storageVars => IInv'
BY DEF storageVars, IInv, StorageTypeOK

LEMMA NextIInv == IInv /\ [Next]_vars => IInv'
<1> SUFFICES ASSUME IInv, [Next]_vars PROVE IInv'
  OBVIOUS
<1>1. ASSUME NEW c \in Callers, Call(c) PROVE IInv'
  BY <1>1, CallKeeps, InvMeans, HistoryTypes
<1>2. QED
  BY <1>1, StepIInv, SameIInv DEF Next, vars

(* Files, calls and operations keep their types, whichever service it is.  *)
(* (IFileStorageService)                                                   *)
THEOREM TypeCorrect == Spec => []TypeOK
<1>1. Init => TypeOK
  BY InitIInv DEF Init, TypeOK, IInv
<1>2. IInv /\ TypeOK /\ [Next]_vars => TypeOK'
  <2>1. IInv /\ [Next]_vars => StorageTypeOK'
    BY NextIInv DEF IInv
  <2>2. TypeOK /\ [Next]_vars => called' \in 0 .. MaxCalls
    BY DEF TypeOK, Next, Call, vars
  <2>3. QED
    BY <2>1, <2>2 DEF TypeOK
<1>3. Init => IInv
  BY InitIInv DEF Init
<1>4. QED
  BY <1>1, <1>2, <1>3, NextIInv, PTL DEF Spec

(* A call that may not overwrite writes no file that was there when it was *)
(* called and not deleted since, however calls and operations interleave.  *)
(* (writeFile: "File already exists")                                      *)
THEOREM Kept == Spec => []ExistingKept
<1>1. ASSUME IInv
      PROVE  ExistingKept
  <2> SUFFICES ASSUME NEW o \in operations, o.op = "write"
               PROVE  o.saw # deletions[o.path]
    BY DEF ExistingKept
  <2>1. o.path \in Paths /\ deletions[o.path] \in Nat
        /\ o.saw \in Nat \cup {None}
    BY <1>1 DEF IInv, StorageTypeOK, Operation
  <2>2. o.saw # None => o.saw < deletions[o.path]
    BY <1>1 DEF IInv, OperationOK
  <2>3. QED
    BY <2>1, <2>2
<1>2. Init => IInv
  BY InitIInv DEF Init
<1>3. QED
  BY <1>1, <1>2, NextIInv, PTL DEF Spec
-----------------------------------------------------------------------------
(* What is known of the files, and why it is so.  The operations of a      *)
(* call that waits are its own, and the call is the one they say.          *)
On(p) == {o \in operations : o.path = p}
WaitInv ==
  \A o \in operations :
    o.wait => /\ calls[o.c].at = "waiting" /\ calls[o.c].op = o.op
              /\ o.path \in calls[o.c].paths

(* A call about several files is a deletion.                               *)
Shapely(call) ==
  /\ call.op = "read" => call.at \in {"reading", "taken"}
  /\ call.several => call.op = "delete"
  /\ ~call.several => \A p, q \in call.paths : p = q
ShapeInv == \A c \in Callers : Shapely(calls[c])

(* The only caller that is changing a file: nothing goes on there but what *)
(* its call waits for, which nobody has disturbed; and when the call is a  *)
(* deletion whose operation on this file has ended, the file is gone, or   *)
(* the call was not told that it is not.                                   *)
Gone(p, c) == calls[c].op = "delete" /\ ~calls[c].failed /\ On(p) = {}
Sole(p, c) ==
  /\ p \in calls[c].paths /\ calls[c].op \in {"write", "delete"}
  /\ calls[c].at \in {"checking", "waiting"}
  /\ \A d \in Callers : p \in calls[d].paths /\ calls[d].op # "read" => d = c
  /\ \A o \in On(p) : /\ o.c = c /\ o.wait /\ o.linked /\ ~o.mixed
                      /\ \A q \in On(p) : q = o
  /\ calls[c].at = "checking" => On(p) = {}
  /\ Gone(p, c) => files[p] = None \/ p \in swallowed

(* A fact that is known is so, unless an error was swallowed, and nobody   *)
(* is changing the file.                                                   *)
KnownOK(p) ==
  /\ known[p] \in Facts => /\ files[p] = known[p] \/ p \in swallowed
                           /\ ~Changing(p)
  /\ \A c \in Callers : known[p] = c => Sole(p, c)
KnownInv == \A p \in Paths : KnownOK(p)

KInv == WaitInv /\ ShapeInv /\ KnownInv
(* Who is changing a file, in terms of the operations on it.               *)
LEMMA ChangingMeans ==
  ASSUME NEW p
  PROVE  Changing(p) <=> \/ \E c \in Callers :
                              p \in calls[c].paths /\ calls[c].op # "read"
                         \/ On(p) # {}
BY DEF Changing, On

LEMMA ChangingMeansNext ==
  ASSUME NEW p
  PROVE  Changing(p)' <=> \/ \E c \in Callers :
                               p \in calls'[c].paths /\ calls'[c].op # "read"
                          \/ On(p)' # {}
BY DEF Changing, On

(* What is known of a file survives a step that leaves the file, the       *)
(* operations on it and the call of its sole owner alone, and lets no      *)
(* other call be about it.                                                 *)
LEMMA Apart ==
  ASSUME NEW p \in Paths, KnownOK(p),
         known'[p] = known[p], files'[p] = files[p], On(p)' = On(p),
         p \in swallowed => p \in swallowed',
         \A d \in Callers :
           \/ calls'[d] = calls[d]
           \/ /\ known[p] # d
              /\ p \notin calls'[d].paths \/ calls'[d].op = "read"
  PROVE  KnownOK(p)'
<1>1. ASSUME known[p] \in Facts
      PROVE  (files'[p] = known'[p] \/ p \in swallowed') /\ ~Changing(p)'
  <2>1. (files[p] = known[p] \/ p \in swallowed) /\ ~Changing(p)
    BY <1>1 DEF KnownOK
  <2>2. On(p) = {} /\ \A d \in Callers :
                        ~(p \in calls[d].paths /\ calls[d].op # "read")
    BY <2>1, ChangingMeans
  <2>3. ~Changing(p)'
    BY <2>2, ChangingMeansNext
  <2> QED
    BY <2>1, <2>3
<1>2. ASSUME NEW c \in Callers, known[p] = c
      PROVE  Sole(p, c)'
  <2>1. Sole(p, c) /\ calls'[c] = calls[c]
    BY <1>2 DEF KnownOK
  <2>2. \A d \in Callers : p \in calls'[d].paths /\ calls'[d].op # "read" => d = c
    BY <2>1 DEF Sole
  <2> QED
    BY <2>1, <2>2 DEF Sole, Gone
<1> QED
  BY <1>1, <1>2 DEF KnownOK

(* Nothing is claimed of a file whose state is unknown.                    *)
LEMMA NothingKnown ==
  ASSUME NEW p, known'[p] = Unknown
  PROVE  KnownOK(p)'
BY DEF KnownOK, Facts

(* At first all is known: there are no files.                              *)
LEMMA InitKInv == StorageInit => KInv
<1> SUFFICES ASSUME StorageInit PROVE KInv
  OBVIOUS
<1>1. /\ \A c \in Callers : /\ calls[c].op = "none" /\ calls[c].paths = {}
                            /\ ~calls[c].several
      /\ operations = {}
      /\ \A p \in Paths : known[p] = None /\ files[p] = None
  BY DEF StorageInit, NoCall
<1>2. WaitInv /\ ShapeInv
  BY <1>1 DEF WaitInv, ShapeInv, Shapely
<1>3. \A p \in Paths : ~Changing(p)
  BY <1>1 DEF Changing
<1>4. KnownInv
  BY <1>1, <1>3 DEF KnownInv, KnownOK
<1> QED
  BY <1>2, <1>4 DEF KInv

-----------------------------------------------------------------------------
(* The end of an operation.  It changes at most its own file, and the      *)
(* operations on other files stay as they are.                             *)
Ending(o, rest) ==
  /\ \A p \in Paths : p # o.path => files'[p] = files[p]
  /\ \A p \in Paths : p # o.path => {q \in rest : q.path = p} = On(p)
  /\ \A r \in rest : \E q \in operations :
       /\ q # o /\ r.c = q.c /\ r.op = q.op /\ r.path = q.path
       /\ r.wait = q.wait

(* What the operation is, when the file is known to be changed by one      *)
(* caller; and that nothing is known of it as a fact.                      *)
LEMMA Owned ==
  ASSUME IInv, KInv, NEW o \in operations, NEW rest, Ending(o, rest)
  PROVE  /\ o \in Operation /\ o.path \in Paths /\ o.c \in Callers
         /\ known[o.path] \notin Facts
         /\ \A c \in Callers : known[o.path] = c =>
              /\ o.c = c /\ o.wait /\ Sole(o.path, c)
              /\ {r \in rest : r.path = o.path} = {}
<1>1. o \in Operation /\ o.path \in Paths /\ o.c \in Callers
  BY DEF IInv, StorageTypeOK, Operation
<1>2. o \in On(o.path) /\ KnownOK(o.path)
  BY <1>1 DEF On, KInv, KnownInv
<1>3. known[o.path] \notin Facts
  BY <1>2, ChangingMeans DEF KnownOK
<1>4. ASSUME NEW c \in Callers, known[o.path] = c
      PROVE  /\ o.c = c /\ o.wait /\ Sole(o.path, c)
             /\ {r \in rest : r.path = o.path} = {}
  <2>1. Sole(o.path, c)
    BY <1>2, <1>4 DEF KnownOK
  <2>2. o.c = c /\ o.wait /\ \A q \in On(o.path) : q = o
    BY <1>2, <2>1 DEF Sole
  <2>3. ASSUME NEW r \in rest, r.path = o.path PROVE FALSE
    <3>1. PICK q \in operations : q # o /\ q.path = o.path
      BY <2>3 DEF Ending
    <3> QED
      BY <2>2, <3>1 DEF On
  <2> QED
    BY <2>1, <2>2, <2>3
<1> QED
  BY <1>1, <1>3, <1>4

(* Nobody awaits the operation: of its file nothing was known.             *)
LEMMA EndsUnawaited ==
  ASSUME IInv, KInv, NEW o \in operations, NEW rest, Ending(o, rest),
         ~o.wait, operations' = rest, UNCHANGED <<calls, known>>,
         swallowed \subseteq swallowed'
  PROVE  KInv'
<1>1. /\ o.path \in Paths /\ known[o.path] \notin Facts
      /\ known[o.path] \notin Callers
      /\ known[o.path] \in Facts \cup Callers \cup {Unknown}
  BY Owned DEF IInv, StorageTypeOK
<1>2. WaitInv'
  BY DEF KInv, WaitInv, Ending
<1>3. ShapeInv'
  BY DEF KInv, ShapeInv, Shapely
<1>4. ASSUME NEW p \in Paths PROVE KnownOK(p)'
  <2>1. CASE p = o.path
    BY <1>1, <2>1, NothingKnown
  <2>2. CASE p # o.path
    <3>1. On(p)' = On(p) /\ files'[p] = files[p]
      BY <2>2 DEF Ending, On
    <3> QED
      BY <3>1, Apart DEF KInv, KnownInv
  <2> QED
    BY <2>1, <2>2
<1> QED
  BY <1>2, <1>3, <1>4 DEF KInv, KnownInv

(* Others of the call's operations go on: the call remembers whether one   *)
(* has failed.                                                             *)
LEMMA EndsAmongOthers ==
  ASSUME IInv, KInv, NEW o \in operations, NEW rest, Ending(o, rest),
         o.wait, operations' = rest, UNCHANGED known, NEW failed \in BOOLEAN,
         calls' = [calls EXCEPT ![o.c].failed = failed],
         swallowed \subseteq swallowed',
         ~failed => /\ ~calls[o.c].failed
                    /\ o.op = "delete" => \/ files'[o.path] = None
                                          \/ o.path \in swallowed'
  PROVE  KInv'
<1>1. /\ o.path \in Paths /\ o.c \in Callers /\ known[o.path] \notin Facts
      /\ \A c \in Callers : known[o.path] = c =>
           o.c = c /\ Sole(o.path, c) /\ {r \in rest : r.path = o.path} = {}
      /\ known[o.path] \in Facts \cup Callers \cup {Unknown}
  BY Owned DEF IInv, StorageTypeOK
<1>2. /\ \A d \in Callers : d # o.c => calls'[d] = calls[d]
      /\ \A d \in Callers :
           /\ calls'[d].op = calls[d].op /\ calls'[d].at = calls[d].at
           /\ calls'[d].paths = calls[d].paths
           /\ calls'[d].several = calls[d].several
      /\ calls'[o.c].failed = failed
  BY <1>1 DEF IInv, StorageTypeOK, CallRecord
<1>3. WaitInv'
  <2> SUFFICES ASSUME NEW r \in rest, r.wait
               PROVE  /\ calls'[r.c].at = "waiting" /\ calls'[r.c].op = r.op
                      /\ r.path \in calls'[r.c].paths
    BY DEF WaitInv
  <2>1. PICK q \in operations : /\ r.c = q.c /\ r.op = q.op /\ r.path = q.path
                                /\ r.wait = q.wait
    BY DEF Ending
  <2>2. q.c \in Callers
    BY DEF IInv, StorageTypeOK, Operation
  <2> QED
    BY <1>2, <2>1, <2>2 DEF KInv, WaitInv
<1>4. ShapeInv'
  BY <1>2 DEF KInv, ShapeInv, Shapely
<1>5. ASSUME NEW p \in Paths, p # o.path PROVE KnownOK(p)'
  <2>1. On(p)' = On(p) /\ files'[p] = files[p] /\ KnownOK(p)
    BY <1>5 DEF Ending, On, KInv, KnownInv
  <2>2. ASSUME known[p] \in Facts
        PROVE  (files'[p] = known[p] \/ p \in swallowed') /\ ~Changing(p)'
    BY <1>2, <2>1, <2>2, ChangingMeans, ChangingMeansNext DEF KnownOK
  <2>3. ASSUME NEW c \in Callers, known[p] = c PROVE Sole(p, c)'
    <3>1. Sole(p, c)
      BY <2>1, <2>3 DEF KnownOK
    <3>2. Gone(p, c)' => Gone(p, c)
      BY <1>2, <2>1 DEF Gone
    <3> QED
      BY <1>2, <2>1, <3>1, <3>2 DEF Sole
  <2> QED
    BY <2>2, <2>3 DEF KnownOK
<1>6. KnownOK(o.path)'
  <2>1. ASSUME NEW c \in Callers, known[o.path] = c PROVE Sole(o.path, c)'
    <3>1. o.c = c /\ Sole(o.path, c) /\ On(o.path)' = {}
      BY <1>1, <2>1 DEF On
    <3>2. Gone(o.path, c)' => files'[o.path] = None \/ o.path \in swallowed'
      <4>1. calls[o.c].op = o.op
        BY DEF KInv, WaitInv
      <4> QED
        BY <1>2, <3>1, <4>1 DEF Gone
    <3> QED
      BY <1>2, <3>1, <3>2 DEF Sole
  <2> QED
    BY <1>1, <2>1 DEF KnownOK
<1> QED
  BY <1>3, <1>4, <1>5, <1>6 DEF KInv, KnownInv
(* A call that ends: of the files that it alone was changing its fact is   *)
(* known, which is the state of each of them or Unknown.                   *)
LEMMA CallEnds ==
  ASSUME IInv, KInv, NEW c \in Callers, NEW answer, NEW fact,
         End(c, answer, fact),
         \A r \in operations' :
           r.wait => /\ r.c # c
                     /\ \E q \in operations : /\ r.c = q.c /\ r.op = q.op
                                              /\ r.path = q.path /\ q.wait,
         swallowed \subseteq swallowed',
         \A p \in Paths :
           \/ /\ known[p] = c /\ fact \in Facts /\ On(p)' = {} /\ Sole(p, c)
              /\ files'[p] = fact \/ p \in swallowed'
           \/ known[p] = c /\ fact = Unknown
           \/ known[p] = Unknown
           \/ known[p] # c /\ files'[p] = files[p] /\ On(p)' = On(p)
  PROVE  KInv'
<1>1. /\ calls' = [calls EXCEPT ![c] = NoCall]
      /\ known' = [p \in Paths |-> IF known[p] = c THEN fact ELSE known[p]]
  BY DEF End
<1>2. /\ calls'[c] = NoCall
      /\ \A d \in Callers : d # c => calls'[d] = calls[d]
  BY <1>1 DEF IInv, StorageTypeOK
<1>3. NoCall.op = "none" /\ NoCall.paths = {} /\ ~NoCall.several
  BY DEF NoCall
<1>4. WaitInv'
  <2> SUFFICES ASSUME NEW r \in operations', r.wait
               PROVE  /\ calls'[r.c].at = "waiting" /\ calls'[r.c].op = r.op
                      /\ r.path \in calls'[r.c].paths
    BY DEF WaitInv
  <2>1. PICK q \in operations : /\ r.c = q.c /\ r.op = q.op /\ r.path = q.path
                                /\ q.wait
    OBVIOUS
  <2>2. q.c \in Callers /\ r.c # c
    BY DEF IInv, StorageTypeOK, Operation
  <2> QED
    BY <1>2, <2>1, <2>2 DEF KInv, WaitInv
<1>5. ShapeInv'
  BY <1>2, <1>3 DEF KInv, ShapeInv, Shapely
<1>6. ASSUME NEW p \in Paths PROVE KnownOK(p)'
  <2>1. known'[p] = IF known[p] = c THEN fact ELSE known[p]
    BY <1>1
  <2>2. CASE /\ known[p] = c /\ fact \in Facts /\ On(p)' = {} /\ Sole(p, c)
             /\ files'[p] = fact \/ p \in swallowed'
    <3>1. \A d \in Callers : ~(p \in calls'[d].paths /\ calls'[d].op # "read")
      BY <1>2, <1>3, <2>2 DEF Sole
    <3>2. ~Changing(p)'
      BY <2>2, <3>1, ChangingMeansNext
    <3>3. \A d \in Callers : known'[p] # d
      BY <2>1, <2>2 DEF Facts
    <3> QED
      BY <2>1, <2>2, <3>2, <3>3 DEF KnownOK
  <2>3. CASE (known[p] = c /\ fact = Unknown) \/ known[p] = Unknown
    BY <2>1, <2>3, NothingKnown DEF Facts
  <2>4. CASE known[p] # c /\ files'[p] = files[p] /\ On(p)' = On(p)
    <3>1. KnownOK(p) /\ known'[p] = known[p]
      BY <2>1, <2>4 DEF KInv, KnownInv
    <3> QED
      BY <1>2, <1>3, <2>4, <3>1, Apart
  <2> QED
    BY <2>2, <2>3, <2>4
<1> QED
  BY <1>4, <1>5, <1>6 DEF KInv, KnownInv

(* The last operation that a call waits for ends, and the call with it.    *)
LEMMA EndsLast ==
  ASSUME IInv, KInv, NEW o \in operations, NEW rest, Ending(o, rest),
         o.wait, operations' = rest,
         ~\E q \in rest : q.c = o.c /\ q.wait,
         NEW answer, NEW fact, End(o.c, answer, fact),
         swallowed \subseteq swallowed',
         fact = Unknown \/
           /\ fact \in Facts
           /\ known[o.path] = o.c => files'[o.path] = fact \/ o.path \in swallowed'
           /\ calls[o.c].several => ~calls[o.c].failed
           /\ o.op = "delete" => fact = None
  PROVE  KInv'
<1>1. /\ o.path \in Paths /\ o.c \in Callers /\ known[o.path] \notin Facts
      /\ \A c \in Callers : known[o.path] = c =>
           o.c = c /\ Sole(o.path, c) /\ {r \in rest : r.path = o.path} = {}
      /\ known[o.path] \in Facts \cup Callers \cup {Unknown}
  BY Owned DEF IInv, StorageTypeOK
<1>2. \A r \in operations' :
        r.wait => /\ r.c # o.c
                  /\ \E q \in operations : /\ r.c = q.c /\ r.op = q.op
                                           /\ r.path = q.path /\ q.wait
  BY DEF Ending
<1>3. ASSUME NEW p \in Paths
      PROVE  \/ /\ known[p] = o.c /\ fact \in Facts /\ On(p)' = {} /\ Sole(p, o.c)
                /\ files'[p] = fact \/ p \in swallowed'
             \/ known[p] = o.c /\ fact = Unknown
             \/ known[p] = Unknown
             \/ known[p] # o.c /\ files'[p] = files[p] /\ On(p)' = On(p)
  <2>1. CASE p = o.path
    <3>1. known[p] = o.c \/ known[p] = Unknown
      BY <1>1, <2>1
    <3>2. known[p] = o.c => On(p)' = {} /\ Sole(p, o.c)
      BY <1>1, <2>1 DEF On
    <3> QED
      BY <2>1, <3>1, <3>2
  <2>2. CASE p # o.path
    <3>1. files'[p] = files[p] /\ On(p)' = On(p)
      BY <2>2 DEF Ending, On
    <3>2. CASE known[p] = o.c /\ fact # Unknown
      <4>1. Sole(p, o.c)
        BY <1>1, <3>2 DEF KInv, KnownInv, KnownOK
      <4>2. On(p)' = {}
        <5>1. \A q \in On(p) : q.c = o.c /\ q.wait
          BY <4>1 DEF Sole
        <5>2. \A q \in On(p) : q \in rest
          BY <2>2 DEF Ending
        <5> QED
          BY <3>1, <5>1, <5>2
      <4>3. calls[o.c].several /\ calls[o.c].op = "delete" /\ o.op = "delete"
        <5>1. o.path \in calls[o.c].paths /\ p \in calls[o.c].paths
              /\ calls[o.c].op = o.op
          BY <4>1 DEF KInv, WaitInv, Sole
        <5> QED
          BY <1>1, <2>2, <5>1 DEF KInv, ShapeInv, Shapely
      <4>4. files[p] = None \/ p \in swallowed'
        BY <3>1, <3>2, <4>1, <4>2, <4>3 DEF Sole, Gone
      <4> QED
        BY <3>1, <3>2, <4>1, <4>2, <4>3, <4>4
    <3> QED
      BY <3>1, <3>2
  <2> QED
    BY <2>1, <2>2
<1> QED
  BY <1>1, <1>2, <1>3, CallEnds

(* All three, as Settle has them.                                          *)
LEMMA Settled ==
  ASSUME IInv, KInv, NEW o \in operations, NEW rest, Ending(o, rest),
         NEW outcome \in {"done", "missing", "error"},
         NEW fact \in Facts \cup {Unknown},
         Settle(o, rest, outcome, fact),
         outcome = "done" /\ known[o.path] = o.c => files'[o.path] = fact,
         outcome = "done" => fact \in Facts,
         o.op = "delete" => fact = None,
         o.op = "delete" /\ outcome # "error" => files'[o.path] = None
  PROVE  KInv'
<1>1. /\ o.c \in Callers /\ calls[o.c].failed \in BOOLEAN
      /\ calls[o.c].several \in BOOLEAN
  BY DEF IInv, StorageTypeOK, Operation, CallRecord
<1> DEFINE logged == service = "local" /\ calls[o.c].several
           failed == calls[o.c].failed \/ (outcome # "done" /\ ~logged)
<1>2. swallowed \subseteq swallowed'
  BY DEF Settle
<1>3. CASE ~o.wait
  BY <1>2, <1>3, EndsUnawaited DEF Settle
<1>4. ASSUME o.wait, logged, outcome # "done"
      PROVE  o.op = "delete" /\ (outcome = "error" => o.path \in swallowed')
  <2>1. calls[o.c].op = o.op /\ Shapely(calls[o.c])
    BY <1>1, <1>4 DEF KInv, WaitInv, ShapeInv
  <2> QED
    BY <1>4, <2>1 DEF Shapely, Settle
<1>5. ASSUME o.wait, ~failed
      PROVE  /\ ~calls[o.c].failed
             /\ o.op = "delete" => files'[o.path] = None \/ o.path \in swallowed'
             /\ fact \in Facts
             /\ known[o.path] = o.c => files'[o.path] = fact \/ o.path \in swallowed'
  BY <1>4, <1>5 DEF Facts
<1>6. CASE o.wait /\ \E q \in rest : q.c = o.c /\ q.wait
  <2>1. /\ operations' = rest /\ UNCHANGED known
        /\ calls' = [calls EXCEPT ![o.c].failed = failed]
    BY <1>6 DEF Settle
  <2>2. failed \in BOOLEAN
    BY <1>1
  <2> HIDE DEF failed
  <2> QED
    BY <1>2, <1>5, <1>6, <2>1, <2>2, EndsAmongOthers
<1>7. CASE o.wait /\ ~\E q \in rest : q.c = o.c /\ q.wait
  <2> DEFINE answer == IF ~calls[o.c].several THEN Rethrown(outcome)
                       ELSE IF failed THEN "error" ELSE "done"
             told == IF answer = "done" THEN fact ELSE Unknown
  <2>1. operations' = rest /\ End(o.c, answer, told)
    BY <1>7 DEF Settle
  <2>2. told # Unknown => told = fact /\ (calls[o.c].several => ~failed)
                          /\ (~calls[o.c].several => outcome = "done")
    BY <1>1 DEF Rethrown
  <2>3. told # Unknown =>
          /\ told \in Facts
          /\ known[o.path] = o.c => files'[o.path] = told \/ o.path \in swallowed'
          /\ calls[o.c].several => ~calls[o.c].failed
          /\ o.op = "delete" => told = None
    BY <1>1, <1>5, <1>7, <2>2
  <2> HIDE DEF told, answer, failed
  <2> QED
    BY <1>2, <1>7, <2>1, <2>3, EndsLast
<1> QED
  BY <1>3, <1>6, <1>7

(* Operations other than o that stay as they are, or lose their file.      *)
LEMMA OthersEnding ==
  ASSUME NEW o \in operations, \A p \in Paths : p # o.path => files'[p] = files[p]
  PROVE  Ending(o, Others(o))
BY DEF Ending, Others, On

(* the same when other writers lose the file                               *)
LEMMA UnlinkedEnding ==
  ASSUME IInv, NEW o \in operations,
         \A p \in Paths : p # o.path => files'[p] = files[p]
  PROVE  Ending(o, {IF SameFile(o, q) THEN [q EXCEPT !.linked = FALSE] ELSE q :
                      q \in Others(o)})
<1> DEFINE after(q) == IF SameFile(o, q) THEN [q EXCEPT !.linked = FALSE] ELSE q
           rest == {after(q) : q \in Others(o)}
<1>1. \A q \in operations :
        /\ after(q).c = q.c /\ after(q).op = q.op /\ after(q).path = q.path
        /\ after(q).wait = q.wait
        /\ q.path # o.path => after(q) = q
  BY DEF IInv, StorageTypeOK, Operation, SameFile
<1> HIDE DEF after
<1>2. \A r \in rest : \E q \in operations :
        /\ q # o /\ r.c = q.c /\ r.op = q.op /\ r.path = q.path
        /\ r.wait = q.wait
  BY <1>1 DEF Others
<1>3. ASSUME NEW p \in Paths, p # o.path
      PROVE  {q \in rest : q.path = p} = On(p)
  <2>1. ASSUME NEW r \in rest, r.path = p PROVE r \in On(p)
    <3>1. PICK q \in Others(o) : r = after(q)
      BY <2>1
    <3> QED
      BY <1>1, <1>3, <2>1, <3>1 DEF Others, On
  <2>2. ASSUME NEW q \in On(p) PROVE q \in rest /\ q.path = p
    <3>1. q \in Others(o) /\ q.path = p /\ after(q) = q
      BY <1>1, <1>3, <2>2 DEF Others, On
    <3> QED
      BY <3>1
  <2> QED
    BY <2>1, <2>2
<1>4. Ending(o, rest)
  BY <1>2, <1>3 DEF Ending
<1> QED
  BY <1>4 DEF after

(* The end of a write, awaited or not: what its only writer has written is *)
(* whole and in place.                                                     *)
LEMMA WriteEndsKnown ==
  ASSUME IInv, KInv, NEW o \in operations,
         LocalWriteEnds(o) \/ LocalWriteFails(o) \/ S3Upload(o) \/ S3UploadFails(o)
  PROVE  KInv'
<1>1. /\ o \in Operation /\ o.path \in Paths /\ files \in [Paths -> Held]
      /\ o.c \in Callers
  BY DEF IInv, StorageTypeOK, Operation
<1>2. o.op = "write" /\ o.content \in Contents
  BY DEF IInv, OperationOK, LocalWriteEnds, LocalWriteFails, S3Upload, S3UploadFails
<1>3. Ending(o, Others(o))
  BY <1>1, OthersEnding DEF LocalWriteEnds, LocalWriteFails, S3Upload, S3UploadFails
<1>4. known[o.path] = o.c => o.linked /\ ~o.mixed
  <2>1. o \in On(o.path) /\ KnownOK(o.path)
    BY <1>1 DEF On, KInv, KnownInv
  <2> QED
    BY <1>1, <2>1 DEF KnownOK, Sole
<1>5. CASE LocalWriteFails(o) \/ S3UploadFails(o)
  <2>1. Settle(o, Others(o), "error", Unknown)
    BY <1>5 DEF LocalWriteFails, S3UploadFails
  <2> QED
    BY <1>2, <1>3, <2>1, Settled
<1>6. CASE LocalWriteEnds(o) \/ S3Upload(o)
  <2>1. Settle(o, Others(o), "done", o.content)
    BY <1>6 DEF LocalWriteEnds, S3Upload
  <2>2. known[o.path] = o.c => files'[o.path] = o.content
    BY <1>1, <1>4, <1>6 DEF LocalWriteEnds, S3Upload
  <2>3. o.content \in Facts
    BY <1>2 DEF Facts
  <2> QED
    BY <1>2, <1>3, <2>1, <2>2, <2>3, Settled
<1> QED
  BY <1>5, <1>6

(* The end of a deletion: the file is gone, or nothing follows.            *)
LEMMA DeletionEndsKnown ==
  ASSUME IInv, KInv, NEW o \in operations,
         LocalUnlink(o) \/ S3Delete(o) \/ DeletionFails(o)
  PROVE  KInv'
<1>1. /\ o.path \in Paths /\ files \in [Paths -> Held]
      /\ None \in Facts
  BY DEF IInv, StorageTypeOK, Operation, Facts
<1>2. \A p \in Paths : p # o.path => files'[p] = files[p]
  BY <1>1 DEF LocalUnlink, S3Delete, DeletionFails
<1>3. LocalUnlink(o) \/ S3Delete(o) => files'[o.path] = None
  BY <1>1 DEF LocalUnlink, S3Delete
<1>4. CASE LocalUnlink(o)
  <2> DEFINE rest == {IF SameFile(o, q) THEN [q EXCEPT !.linked = FALSE] ELSE q :
                        q \in Others(o)}
             outcome == IF Holds(o.path) \/ o.ignoreMissing THEN "done"
                        ELSE "missing"
  <2>1. Ending(o, rest)
    BY <1>2, UnlinkedEnding
  <2>2. Settle(o, rest, outcome, None) /\ outcome \in {"done", "missing", "error"}
    BY <1>4 DEF LocalUnlink
  <2> HIDE DEF rest, outcome
  <2> QED
    BY <1>1, <1>3, <1>4, <2>1, <2>2, Settled
<1>5. CASE S3Delete(o)
  BY <1>1, <1>2, <1>3, <1>5, OthersEnding, Settled DEF S3Delete
<1>6. CASE DeletionFails(o)
  BY <1>1, <1>2, <1>6, OthersEnding, Settled DEF DeletionFails
<1> QED
  BY <1>4, <1>5, <1>6

(* A write that truncates its file.                                        *)
LEMMA WriteBeginsKnown ==
  ASSUME IInv, KInv, NEW o \in operations, LocalWriteBegins(o)
  PROVE  KInv'
<1> DEFINE after(q) == IF SameFile(o, q) THEN [q EXCEPT !.mixed = TRUE] ELSE q
           begun == [o EXCEPT !.begun = TRUE,
                        !.mixed = \E q \in Others(o) : SameFile(o, q)]
<1>1. /\ operations \subseteq Operation /\ o \in Operation /\ o.path \in Paths
      /\ files \in [Paths -> Held] /\ o.c \in Callers
  BY DEF IInv, StorageTypeOK, Operation
<1>2. /\ operations' = {after(q) : q \in Others(o)} \cup {begun}
      /\ files' = [files EXCEPT ![o.path] = Torn]
      /\ UNCHANGED <<calls, known, swallowed>> /\ o.op = "write"
  BY DEF LocalWriteBegins
<1>3. \A q \in operations :
        /\ after(q).c = q.c /\ after(q).op = q.op /\ after(q).path = q.path
        /\ after(q).wait = q.wait
        /\ q.path # o.path => after(q) = q
  BY <1>1 DEF Operation, SameFile
<1>4. /\ begun.c = o.c /\ begun.op = o.op /\ begun.path = o.path
      /\ begun.wait = o.wait /\ begun.linked = o.linked
      /\ begun.mixed = \E q \in Others(o) : SameFile(o, q)
  BY <1>1 DEF Operation
<1> HIDE DEF after, begun
<1>5. WaitInv'
  <2> SUFFICES ASSUME NEW r \in operations', r.wait
               PROVE  /\ calls[r.c].at = "waiting" /\ calls[r.c].op = r.op
                      /\ r.path \in calls[r.c].paths
    BY <1>2 DEF WaitInv
  <2>1. PICK q \in operations : /\ r.c = q.c /\ r.op = q.op /\ r.path = q.path
                                /\ r.wait = q.wait
    BY <1>2, <1>3, <1>4 DEF Others
  <2> QED
    BY <2>1 DEF KInv, WaitInv
<1>6. ShapeInv'
  BY <1>2 DEF KInv, ShapeInv
<1>7. ASSUME NEW p \in Paths, p # o.path PROVE KnownOK(p)'
  <2>1. files'[p] = files[p] /\ KnownOK(p)
    BY <1>1, <1>2, <1>7 DEF KInv, KnownInv
  <2>2. On(p)' = On(p)
    <3>1. ASSUME NEW r \in operations', r.path = p PROVE r \in On(p)
      <4>1. PICK q \in Others(o) : r = after(q)
        BY <1>2, <1>4, <1>7, <3>1
      <4> QED
        BY <1>3, <1>7, <3>1, <4>1 DEF Others, On
    <3>2. ASSUME NEW q \in On(p) PROVE q \in operations' /\ q.path = p
      <4>1. q \in Others(o) /\ after(q) = q /\ q.path = p
        BY <1>3, <1>7 DEF Others, On
      <4> QED
        BY <1>2, <4>1
    <3> QED
      BY <3>1, <3>2 DEF On
  <2> QED
    BY <1>2, <2>1, <2>2, Apart
<1>8. KnownOK(o.path)'
  <2>1. o \in On(o.path) /\ KnownOK(o.path)
    BY <1>1 DEF On, KInv, KnownInv
  <2>2. known[o.path] \notin Facts
    BY <2>1, ChangingMeans DEF KnownOK
  <2>3. ASSUME NEW c \in Callers, known[o.path] = c PROVE Sole(o.path, c)'
    <3>1. Sole(o.path, c) /\ o.c = c /\ o.wait /\ o.linked
          /\ calls[c].at # "checking" /\ \A q \in On(o.path) : q = o
      BY <2>1, <2>3 DEF KnownOK, Sole
    <3>2. ~begun.mixed
      BY <1>4, <3>1 DEF SameFile, Others, On
    <3>3. \A r \in On(o.path)' : r = begun
      <4> SUFFICES ASSUME NEW r \in operations', r.path = o.path, r # begun
                   PROVE  FALSE
        BY DEF On
      <4>1. PICK q \in Others(o) : r = after(q)
        BY <1>2
      <4> QED
        BY <1>3, <3>1, <4>1 DEF Others, On
    <3>4. begun \in On(o.path)'
      BY <1>2, <1>4 DEF On
    <3>5. \A r \in On(o.path)' : /\ r.c = c /\ r.wait /\ r.linked /\ ~r.mixed
                                 /\ \A q \in On(o.path)' : q = r
      BY <1>4, <3>1, <3>2, <3>3
    <3>6. ~Gone(o.path, c)'
      BY <3>4 DEF Gone
    <3> QED
      BY <1>2, <3>1, <3>5, <3>6 DEF Sole
  <2> QED
    BY <1>2, <2>2, <2>3 DEF KnownOK
<1> QED
  BY <1>5, <1>6, <1>7, <1>8 DEF KInv, KnownInv

-----------------------------------------------------------------------------
(* A caller that is idle, or that reads, is not the one changing a file.   *)
LEMMA NotOwner ==
  ASSUME KInv, NEW c \in Callers, calls[c].at \notin {"checking", "waiting"},
         NEW p \in Paths
  PROVE  known[p] # c
BY DEF KInv, KnownInv, KnownOK, Sole

(* New operations of c on some paths: all others go on as they do.         *)
Adds(c, paths, new, wait) ==
  /\ operations' = operations \cup new
  /\ \A o \in new : o.c = c /\ o.path \in paths /\ o.wait = wait

(* Other files have the operations that they had.                          *)
LEMMA Unadded ==
  ASSUME NEW c, NEW paths, NEW new, NEW wait, Adds(c, paths, new, wait),
         NEW p, p \notin paths
  PROVE  On(p)' = On(p)
BY DEF Adds, On

(* The operations of a call: one on each of its files.                     *)
LEMMA IssuedMeans ==
  ASSUME NEW c, NEW call \in CallRecord
  PROVE  /\ \A o \in Issued(c, call) :
              /\ o.c = c /\ o.op = call.op /\ o.path \in call.paths
              /\ o.wait = call.wait /\ o.linked /\ ~o.mixed
         /\ \A o, q \in Issued(c, call) : o.path = q.path => o = q
         /\ \A p \in call.paths : \E o \in Issued(c, call) : o.path = p
<1> DEFINE of(p) ==
      [c |-> c, op |-> call.op, path |-> p, content |-> call.content,
       wait |-> call.wait, ignoreMissing |-> call.ignoreMissing,
       saw |-> call.saw, begun |-> FALSE, linked |-> TRUE, mixed |-> FALSE]
<1>1. Issued(c, call) = {of(p) : p \in call.paths}
  BY DEF Issued
<1>2. \A p \in call.paths :
        /\ of(p).c = c /\ of(p).op = call.op /\ of(p).path = p
        /\ of(p).wait = call.wait /\ of(p).linked /\ ~of(p).mixed
  OBVIOUS
<1> HIDE DEF of
<1> QED
  BY <1>1, <1>2

(* The operations of a call that checks for its file, none yet, and of one *)
(* that waits: one on each of its files.                                   *)
Hands(call, new) ==
  /\ \A o \in new : o.op = call.op /\ o.linked /\ ~o.mixed
  /\ \A o, q \in new : o.path = q.path => o = q
  /\ \/ call.at = "checking" /\ call.op = "write" /\ new = {}
     \/ /\ call.at = "waiting"
        /\ \A p \in call.paths : \E o \in new : o.path = p

(* A call begins to change files: of each of them it is the only one that  *)
(* does, or nothing is known any more.                                     *)
LEMMA BeginsKnown ==
  ASSUME IInv, KInv, NEW c \in Callers, Idle(c), NEW call \in CallRecord,
         call.op \in {"write", "delete"}, Shapely(call),
         calls' = [calls EXCEPT ![c] = call], Begun(c, call.paths),
         UNCHANGED files, NEW new, Adds(c, call.paths, new, TRUE),
         Hands(call, new)
  PROVE  KInv'
<1> USE DEF Hands
<1>1. /\ calls'[c] = call
      /\ \A d \in Callers : d # c => calls'[d] = calls[d]
  BY DEF IInv, StorageTypeOK
<1>2. WaitInv'
  <2> SUFFICES ASSUME NEW r \in operations', r.wait
               PROVE  /\ calls'[r.c].at = "waiting" /\ calls'[r.c].op = r.op
                      /\ r.path \in calls'[r.c].paths
    BY DEF WaitInv
  <2>1. CASE r \in new
    BY <1>1, <2>1 DEF Adds
  <2>2. CASE r \in operations
    <3>1. /\ calls[r.c].at = "waiting" /\ calls[r.c].op = r.op
          /\ r.path \in calls[r.c].paths
      BY <2>2 DEF KInv, WaitInv
    <3>2. r.c \in Callers /\ r.c # c
      BY <2>2, <3>1 DEF Idle, IInv, StorageTypeOK, Operation
    <3> QED
      BY <1>1, <3>1, <3>2
  <2> QED
    BY <2>1, <2>2 DEF Adds
<1>3. ShapeInv'
  BY <1>1 DEF KInv, ShapeInv
<1>4. ASSUME NEW p \in Paths PROVE KnownOK(p)'
  <2>1. known'[p] = IF p \notin call.paths THEN known[p]
                    ELSE IF Changing(p) THEN Unknown ELSE c
    BY DEF Begun
  <2>2. CASE p \notin call.paths
    <3>1. /\ On(p)' = On(p) /\ files'[p] = files[p] /\ known'[p] = known[p]
          /\ p \in swallowed => p \in swallowed'
      BY <2>1, <2>2, Unadded DEF Begun
    <3>2. known[p] # c /\ KnownOK(p)
      BY NotOwner DEF Idle, KInv, KnownInv
    <3> QED
      BY <1>1, <2>2, <3>1, <3>2, Apart
  <2>3. CASE p \in call.paths /\ Changing(p)
    BY <2>1, <2>3, NothingKnown
  <2>4. CASE p \in call.paths /\ ~Changing(p)
    <3>1. On(p) = {} /\ \A d \in Callers :
                          ~(p \in calls[d].paths /\ calls[d].op # "read")
      BY <2>4, ChangingMeans
    <3>2. \A o \in On(p)' : o \in new /\ o.path = p
      BY <3>1 DEF Adds, On
    <3>3. call.at = "waiting" => On(p)' # {}
      BY <2>4 DEF Adds, On
    <3>4. call.at = "checking" => On(p)' = {}
      BY <3>2
    <3>5. \A o \in On(p)' : /\ o.c = c /\ o.wait /\ o.linked /\ ~o.mixed
                            /\ \A q \in On(p)' : q = o
      BY <3>2 DEF Adds
    <3>6. ~Gone(p, c)'
      BY <1>1, <3>3 DEF Gone
    <3>7. Sole(p, c)'
      BY <1>1, <2>4, <3>1, <3>4, <3>5, <3>6 DEF Sole
    <3> QED
      BY <2>1, <2>4, <3>7 DEF KnownOK, Facts
  <2> QED
    BY <2>2, <2>3, <2>4
<1> QED
  BY <1>2, <1>3, <1>4 DEF KInv, KnownInv

(* A deletion that nobody awaits: of its files nothing is known.           *)
LEMMA UnawaitedKnown ==
  ASSUME IInv, KInv, NEW c \in Callers, NEW paths, NEW new,
         Adds(c, paths, new, FALSE), UNCHANGED <<calls, files>>,
         Begun(Unknown, paths)
  PROVE  KInv'
<1>1. WaitInv'
  BY DEF KInv, WaitInv, Adds
<1>2. ShapeInv'
  BY DEF KInv, ShapeInv
<1>3. ASSUME NEW p \in Paths PROVE KnownOK(p)'
  <2>1. CASE p \in paths
    <3>1. known'[p] = Unknown
      BY <2>1 DEF Begun
    <3> QED
      BY <3>1, NothingKnown
  <2>2. CASE p \notin paths
    <3>1. /\ known'[p] = known[p] /\ On(p)' = On(p)
          /\ p \in swallowed => p \in swallowed'
      BY <2>2, Unadded DEF Begun
    <3> QED
      BY <3>1, Apart DEF KInv, KnownInv
  <2> QED
    BY <2>1, <2>2
<1> QED
  BY <1>1, <1>2, <1>3 DEF KInv, KnownInv

(* The call of a reader changes what is known of no file.                  *)
LEMMA ReaderKnown ==
  ASSUME IInv, KInv, NEW c \in Callers,
         calls[c].at \notin {"checking", "waiting"}, NEW call,
         calls' = [calls EXCEPT ![c] = call], Shapely(call),
         call.op = "read" \/ call.paths = {},
         UNCHANGED <<files, operations, known, swallowed>>
  PROVE  KInv'
<1>1. /\ calls'[c] = call
      /\ \A d \in Callers : d # c => calls'[d] = calls[d]
  BY DEF IInv, StorageTypeOK
<1>2. WaitInv'
  <2> SUFFICES ASSUME NEW r \in operations, r.wait
               PROVE  /\ calls'[r.c].at = "waiting" /\ calls'[r.c].op = r.op
                      /\ r.path \in calls'[r.c].paths
    BY DEF WaitInv
  <2>1. /\ calls[r.c].at = "waiting" /\ calls[r.c].op = r.op
        /\ r.path \in calls[r.c].paths
    BY DEF KInv, WaitInv
  <2>2. r.c \in Callers
    BY DEF IInv, StorageTypeOK, Operation
  <2> QED
    BY <1>1, <2>1, <2>2
<1>3. ShapeInv'
  BY <1>1 DEF KInv, ShapeInv
<1>4. ASSUME NEW p \in Paths PROVE KnownOK(p)'
  <2>1. On(p)' = On(p) /\ known[p] # c /\ KnownOK(p)
    BY NotOwner DEF On, KInv, KnownInv
  <2> QED
    BY <1>1, <2>1, Apart
<1> QED
  BY <1>2, <1>3, <1>4 DEF KInv, KnownInv

(* Calls as they begin.                                                    *)
LEMMA WriteFileKnown ==
  ASSUME IInv, KInv, NEW c \in Callers, NEW p \in Paths,
         NEW content \in Contents, NEW overwrite \in BOOLEAN,
         NEW wait \in BOOLEAN, WriteFile(c, p, content, overwrite, wait)
  PROVE  KInv'
<1> DEFINE saw == IF Holds(p) /\ ~overwrite THEN deletions[p] ELSE None
           call == [NoCall EXCEPT !.op = "write", !.at = "checking",
                      !.paths = {p}, !.content = content,
                      !.overwrite = overwrite, !.wait = wait, !.saw = saw]
<1>1. /\ calls' = [calls EXCEPT ![c] = call]
      /\ Begun(c, {p}) /\ Idle(c)
      /\ UNCHANGED <<files, operations>>
  BY DEF WriteFile
<1>2. saw \in Nat \cup {None}
  BY DEF IInv, StorageTypeOK
<1> HIDE DEF saw
<1>3. /\ call \in CallRecord /\ call.op = "write" /\ call.at = "checking"
      /\ call.paths = {p} /\ ~call.several
  BY <1>2 DEF NoCall, CallRecord, Facts
<1> HIDE DEF call
<1>4. Shapely(call)
  BY <1>3 DEF Shapely
<1>5. /\ Adds(c, call.paths, {}, TRUE) /\ Begun(c, call.paths)
      /\ Hands(call, {})
  BY <1>1, <1>3 DEF Adds, Hands
<1> QED
  BY <1>1, <1>3, <1>4, <1>5, BeginsKnown

(* A deletion, awaited or not                                              *)
LEMMA DeleteKnown ==
  ASSUME IInv, KInv, NEW c \in Callers, NEW call \in CallRecord,
         call.op = "delete", ~call.several => \A p, q \in call.paths : p = q,
         Delete(c, call)
  PROVE  KInv'
<1> DEFINE new == Issued(c, call)
<1>1. /\ \A o \in new : /\ o.c = c /\ o.op = call.op /\ o.path \in call.paths
                        /\ o.wait = call.wait /\ o.linked /\ ~o.mixed
      /\ \A o, q \in new : o.path = q.path => o = q
      /\ \A p \in call.paths : \E o \in new : o.path = p
  BY IssuedMeans
<1>2. /\ operations' = operations \cup new /\ UNCHANGED files /\ Idle(c)
      /\ call.wait \in BOOLEAN
  BY DEF Delete, CallRecord
<1> HIDE DEF new
<1>3. Adds(c, call.paths, new, call.wait)
  BY <1>1, <1>2 DEF Adds
<1>4. CASE call.wait
  <2> DEFINE waiting == [call EXCEPT !.at = "waiting"]
  <2>1. /\ waiting \in CallRecord /\ waiting.op = "delete"
        /\ waiting.at = "waiting" /\ waiting.paths = call.paths
        /\ waiting.several = call.several
    BY DEF CallRecord
  <2>2. /\ calls' = [calls EXCEPT ![c] = waiting]
        /\ Begun(c, call.paths)
    BY <1>4 DEF Delete
  <2> HIDE DEF waiting
  <2>3. Shapely(waiting) /\ Adds(c, waiting.paths, new, TRUE)
    BY <1>3, <1>4, <2>1 DEF Shapely, Adds
  <2>4. Hands(waiting, new)
    BY <1>1, <2>1 DEF Hands
  <2>5. Begun(c, waiting.paths)
    BY <2>1, <2>2
  <2> QED
    BY <1>2, <2>1, <2>2, <2>3, <2>4, <2>5, BeginsKnown
<1>5. CASE ~call.wait
  <2>1. UNCHANGED calls /\ Begun(Unknown, call.paths)
    BY <1>5 DEF Delete
  <2>2. Adds(c, call.paths, new, FALSE)
    BY <1>3, <1>5 DEF Adds
  <2> QED
    BY <1>2, <2>1, <2>2, UnawaitedKnown
<1> QED
  BY <1>2, <1>4, <1>5

(* Whatever call begins                                                    *)
LEMMA CallKnown ==
  ASSUME IInv, KInv, NEW c \in Callers, Call(c)
  PROVE  KInv'
<1>1. ASSUME NEW wait \in BOOLEAN, NEW flag \in BOOLEAN, NEW p \in Paths,
             DeleteFile(c, p, wait, flag)
      PROVE  KInv'
  <2> DEFINE call == [NoCall EXCEPT !.op = "delete", !.paths = {p},
                        !.wait = wait, !.ignoreMissing = flag]
  <2>1. call \in CallRecord /\ call.op = "delete" /\ call.paths = {p}
    BY DEF NoCall, CallRecord, Facts
  <2>2. Delete(c, call)
    BY <1>1 DEF DeleteFile
  <2> HIDE DEF call
  <2>3. QED
    BY <2>1, <2>2, DeleteKnown
<1>2. ASSUME NEW wait \in BOOLEAN, NEW flag \in BOOLEAN,
             NEW paths \in SUBSET Paths, DeleteFiles(c, paths, wait, flag)
      PROVE  KInv'
  <2> DEFINE call == [NoCall EXCEPT !.op = "delete", !.paths = paths,
                        !.wait = wait, !.ignoreMissing = flag,
                        !.several = TRUE]
  <2>1. call \in CallRecord /\ call.op = "delete" /\ call.several
    BY DEF NoCall, CallRecord, Facts
  <2>2. Delete(c, call)
    BY <1>2 DEF DeleteFiles
  <2> HIDE DEF call
  <2>3. QED
    BY <2>1, <2>2, DeleteKnown
<1>3. ASSUME NEW p \in Paths, NEW flag \in BOOLEAN, ReadFile(c, p, flag)
      PROVE  KInv'
  <2> DEFINE call == [NoCall EXCEPT !.op = "read", !.at = "reading",
                        !.paths = {p}, !.ignoreMissing = flag]
  <2>1. /\ call.op = "read" /\ call.at = "reading" /\ call.paths = {p}
        /\ ~call.several
    BY DEF NoCall
  <2>2. /\ calls' = [calls EXCEPT ![c] = call] /\ Idle(c)
        /\ UNCHANGED <<files, operations, known, swallowed>>
    BY <1>3 DEF ReadFile
  <2> HIDE DEF call
  <2>3. Shapely(call)
    BY <2>1 DEF Shapely
  <2>4. calls[c].at \notin {"checking", "waiting"}
    BY <2>2 DEF Idle
  <2> QED
    BY <2>1, <2>2, <2>3, <2>4, ReaderKnown
<1> QED
  BY <1>1, <1>2, <1>3, WriteFileKnown DEF Call

-----------------------------------------------------------------------------
(* A call that checks for its file has no operations yet.                  *)
LEMMA NoneAwaited ==
  ASSUME IInv, KInv, NEW c \in Callers, calls[c].at = "checking"
  PROVE  \A o \in operations : o.wait => o.c # c
BY DEF KInv, WaitInv

(* A call ends with nothing done, or with a write that nobody awaits.      *)
LEMMA EndsUnknown ==
  ASSUME IInv, KInv, NEW c \in Callers, calls[c].at = "checking",
         calls[c].op = "write", NEW answer, End(c, answer, Unknown),
         UNCHANGED <<files, swallowed>>, NEW new,
         Adds(c, calls[c].paths, new, FALSE)
  PROVE  KInv'
<1>1. \A r \in operations' :
        r.wait => /\ r.c # c
                  /\ \E q \in operations : /\ r.c = q.c /\ r.op = q.op
                                           /\ r.path = q.path /\ q.wait
  BY NoneAwaited DEF Adds
<1>2. ASSUME NEW p \in Paths, known[p] # c, known[p] # Unknown
      PROVE  files'[p] = files[p] /\ On(p)' = On(p)
  <2>1. p \notin calls[c].paths
    <3>1. KnownOK(p) /\ known[p] \in Facts \cup Callers
      BY <1>2 DEF KInv, KnownInv, IInv, StorageTypeOK
    <3> QED
      BY <1>2, <3>1 DEF KnownOK, Changing, Sole
  <2> QED
    BY <2>1, Unadded
<1> QED
  BY <1>1, <1>2, CallEnds

(* A call hands its write to the store and waits for it.                   *)
LEMMA WaitsKnown ==
  ASSUME IInv, KInv, NEW c \in Callers, calls[c].at = "checking",
         calls[c].op = "write", calls' = [calls EXCEPT ![c].at = "waiting"],
         UNCHANGED <<files, known, swallowed>>,
         NEW new, Adds(c, calls[c].paths, new, TRUE),
         \A o \in new : o.op = "write" /\ o.linked /\ ~o.mixed,
         \A o, q \in new : o.path = q.path => o = q
  PROVE  KInv'
<1>1. /\ calls'[c].at = "waiting" /\ calls'[c].op = "write"
      /\ calls'[c].paths = calls[c].paths
      /\ calls'[c].several = calls[c].several
      /\ \A d \in Callers : d # c => calls'[d] = calls[d]
  BY DEF IInv, StorageTypeOK, CallRecord
<1>2. WaitInv'
  <2> SUFFICES ASSUME NEW r \in operations', r.wait
               PROVE  /\ calls'[r.c].at = "waiting" /\ calls'[r.c].op = r.op
                      /\ r.path \in calls'[r.c].paths
    BY DEF WaitInv
  <2>1. CASE r \in new
    BY <1>1, <2>1 DEF Adds
  <2>2. CASE r \in operations
    <3>1. /\ calls[r.c].at = "waiting" /\ calls[r.c].op = r.op
          /\ r.path \in calls[r.c].paths
      BY <2>2 DEF KInv, WaitInv
    <3>2. r.c \in Callers /\ r.c # c
      BY <2>2, <3>1 DEF IInv, StorageTypeOK, Operation
    <3> QED
      BY <1>1, <3>1, <3>2
  <2> QED
    BY <2>1, <2>2 DEF Adds
<1>3. ShapeInv'
  BY <1>1 DEF KInv, ShapeInv, Shapely
<1>4. ASSUME NEW p \in Paths PROVE KnownOK(p)'
  <2>1. KnownOK(p) /\ known'[p] = known[p] /\ files'[p] = files[p]
    BY DEF KInv, KnownInv
  <2>2. CASE p \notin calls[c].paths
    <3>1. On(p)' = On(p)
      BY <2>2, Unadded
    <3>2. known[p] # c
      BY <2>1, <2>2 DEF KnownOK, Sole
    <3> QED
      BY <1>1, <2>1, <2>2, <3>1, <3>2, Apart
  <2>3. CASE p \in calls[c].paths
    <3>1. known[p] \notin Facts /\ \A d \in Callers : known[p] = d => d = c
      BY <2>1, <2>3 DEF KnownOK, Changing, Sole
    <3>2. ASSUME known[p] = c PROVE Sole(p, c)'
      <4>1. Sole(p, c) /\ On(p) = {}
        BY <2>1, <3>2 DEF KnownOK, Sole
      <4>2. \A o \in On(p)' : o \in new /\ o.path = p
        BY <4>1 DEF Adds, On
      <4>3. \A o \in On(p)' : /\ o.c = c /\ o.wait /\ o.linked /\ ~o.mixed
                              /\ \A q \in On(p)' : q = o
        BY <4>2 DEF Adds
      <4>4. ~Gone(p, c)'
        BY <1>1 DEF Gone
      <4> QED
        BY <1>1, <4>1, <4>3, <4>4 DEF Sole
    <3> QED
      BY <2>1, <3>1, <3>2 DEF KnownOK
  <2> QED
    BY <2>2, <2>3
<1> QED
  BY <1>2, <1>3, <1>4 DEF KInv, KnownInv

(* Whatever call goes on                                                   *)
LEMMA CallStepKnown ==
  ASSUME IInv, KInv, NEW c \in Callers, CallStep(c)
  PROVE  KInv'
<1>0. calls[c] \in CallRecord /\ CallOK(calls[c], deletions, files)
  BY DEF IInv, StorageTypeOK
<1>1. CASE LocalPrepareFails(c) \/ FileFound(c)
  <2>1. PICK answer : /\ End(c, answer, Unknown)
                      /\ UNCHANGED <<files, operations, swallowed>>
    BY <1>1 DEF LocalPrepareFails, FileFound
  <2>2. Adds(c, calls[c].paths, {}, FALSE)
    BY <2>1 DEF Adds
  <2>3. calls[c].at = "checking" /\ calls[c].op = "write"
    BY <1>0, <1>1 DEF LocalPrepareFails, FileFound, CallOK
  <2> QED
    BY <2>1, <2>2, <2>3, EndsUnknown
<1>2. CASE ReadEnds(c)
  <2>1. /\ calls[c].at \notin {"checking", "waiting"}
        /\ calls' = [calls EXCEPT ![c] = NoCall]
        /\ UNCHANGED <<files, operations, known, swallowed>>
    BY <1>2 DEF ReadEnds
  <2>2. Shapely(NoCall) /\ NoCall.paths = {}
    BY DEF NoCall, Shapely
  <2> QED
    BY <2>1, <2>2, ReaderKnown
<1>3. CASE WriteIssued(c)
  <2>1. calls[c].at = "checking" /\ calls[c].op = "write"
    BY <1>0, <1>3 DEF WriteIssued, CallOK
  <2>2. PICK found : operations' = operations \cup Issued(c,
          [calls[c] EXCEPT !.saw = IF found = "error" THEN None ELSE @])
    BY <1>3 DEF WriteIssued
  <2> DEFINE call == [calls[c] EXCEPT !.saw = IF found = "error" THEN None ELSE @]
             new == Issued(c, call)
  <2>3. /\ call \in CallRecord /\ call.op = "write"
        /\ call.paths = calls[c].paths /\ call.wait = calls[c].wait
    BY <1>0, <2>1 DEF CallRecord
  <2>4. operations' = operations \cup new
    BY <2>2
  <2> HIDE DEF call
  <2>5. /\ \A o \in new :
              /\ o.c = c /\ o.op = "write" /\ o.path \in calls[c].paths
              /\ o.wait = calls[c].wait /\ o.linked /\ ~o.mixed
        /\ \A o, q \in new : o.path = q.path => o = q
    BY <2>3, IssuedMeans
  <2> HIDE DEF new
  <2>6. CASE calls[c].wait
    <3>1. /\ calls' = [calls EXCEPT ![c].at = "waiting"]
          /\ UNCHANGED <<files, known, swallowed>>
      BY <1>3, <2>6 DEF WriteIssued
    <3>2. Adds(c, calls[c].paths, new, TRUE)
      BY <2>4, <2>5, <2>6 DEF Adds
    <3> QED
      BY <2>1, <2>5, <3>1, <3>2, WaitsKnown
  <2>7. CASE ~calls[c].wait
    <3>1. End(c, "sent", Unknown) /\ UNCHANGED <<files, swallowed>>
      BY <1>3, <2>7 DEF WriteIssued
    <3>2. calls[c].wait = FALSE
      BY <1>0, <2>7 DEF CallRecord
    <3>3. Adds(c, calls[c].paths, new, FALSE)
      BY <2>4, <2>5, <3>2 DEF Adds
    <3> QED
      BY <2>1, <3>1, <3>3, EndsUnknown
  <2> QED
    BY <2>6, <2>7
<1>4. CASE ContentTaken(c) \/ LocalReadsOn(c)
  <2>1. PICK content, saw :
          calls' = [calls EXCEPT ![c] = [@ EXCEPT
            !.at = "taken", !.content = content, !.saw = saw]]
    <3>1. CASE ContentTaken(c)
      BY <3>1 DEF ContentTaken
    <3>2. CASE LocalReadsOn(c)
      <4>1. PICK content : calls' = [calls EXCEPT ![c].content = content]
        BY <3>2 DEF LocalReadsOn
      <4>2. [calls[c] EXCEPT !.content = content]
              = [calls[c] EXCEPT !.at = "taken", !.content = content,
                                 !.saw = calls[c].saw]
        BY <1>0, <3>2 DEF CallRecord, LocalReadsOn
      <4> QED
        BY <4>1, <4>2 DEF IInv, StorageTypeOK
    <3> QED
      BY <1>4, <3>1, <3>2
  <2> DEFINE new == [calls[c] EXCEPT !.at = "taken", !.content = content,
                                     !.saw = saw]
  <2>2. /\ calls[c].at \in {"reading", "taken"} /\ calls[c].op = "read"
        /\ calls' = [calls EXCEPT ![c] = new]
        /\ UNCHANGED <<files, operations, known, swallowed>>
    BY <1>0, <1>4, <2>1 DEF ContentTaken, LocalReadsOn, CallOK
  <2>3. /\ new.op = "read" /\ new.at = "taken" /\ new.paths = calls[c].paths
        /\ new.several = calls[c].several
    BY <1>0, <2>2 DEF CallRecord
  <2> HIDE DEF new
  <2>4. Shapely(new)
    BY <2>2, <2>3 DEF KInv, ShapeInv, Shapely
  <2> QED
    BY <2>2, <2>3, <2>4, ReaderKnown
<1> QED
  BY <1>1, <1>2, <1>3, <1>4 DEF CallStep

-----------------------------------------------------------------------------
(* Every step of the storage and every call keeps what is known.           *)
LEMMA StepKInv == IInv /\ KInv /\ StorageStep => KInv'
<1>1. ASSUME IInv, KInv, NEW o \in operations, OperationStep(o)
      PROVE  KInv'
  BY <1>1, WriteBeginsKnown, WriteEndsKnown, DeletionEndsKnown
     DEF OperationStep
<1> QED
  BY <1>1, CallStepKnown DEF StorageStep

LEMMA SameKInv == KInv /\ UNCHANGED storageVars => KInv'
BY DEF storageVars, KInv, WaitInv, ShapeInv, KnownInv, KnownOK, Sole, Gone,
       On, Changing

LEMMA NextKInv == IInv /\ KInv /\ [Next]_vars => KInv'
BY StepKInv, SameKInv, CallKnown DEF Next, vars

-----------------------------------------------------------------------------
(* A read that nobody has disturbed: what was known of its file is still   *)
(* known, and it is what the read has taken, unless an error was swallowed.*)
ReadOK(c) ==
  calls[c].op = "read" /\ expected[c] \in Facts =>
    \A p \in calls[c].paths :
      /\ known[p] = expected[c]
      /\ calls[c].at = "taken" =>
           calls[c].content = expected[c] \/ p \in swallowed
ReadInv == \A c \in Callers : ReadOK(c)

(* A read goes on undisturbed while facts stay known.                      *)
LEMMA ReadKept ==
  ASSUME IInv, NEW c \in Callers, ReadOK(c), calls'[c] = calls[c],
         expected'[c] = expected[c],
         \A p \in calls[c].paths :
           /\ known[p] \in Facts => known'[p] = known[p]
           /\ p \in swallowed => p \in swallowed'
  PROVE  ReadOK(c)'
BY DEF ReadOK

(* A call that begins disturbs the reads of its files, and no others.      *)
LEMMA BegunReads ==
  ASSUME IInv, KInv, ReadInv, NEW c \in Callers, Idle(c), NEW by, NEW paths,
         Begun(by, paths),
         \/ UNCHANGED calls
         \/ \E call : call.op # "read" /\ calls' = [calls EXCEPT ![c] = call]
  PROVE  ReadInv'
<1> SUFFICES ASSUME NEW d \in Callers PROVE ReadOK(d)'
  BY DEF ReadInv
<1>1. CASE calls'[d] = calls[d]
  <2>1. CASE calls[d].paths \cap paths = {}
    <3>1. expected'[d] = expected[d]
      BY <2>1 DEF Begun
    <3>2. \A p \in calls[d].paths :
            /\ known'[p] = known[p]
            /\ p \in swallowed => p \in swallowed'
      BY <2>1 DEF Begun, IInv, StorageTypeOK, CallRecord
    <3> QED
      BY <1>1, <3>1, <3>2, ReadKept DEF ReadInv
  <2>2. CASE calls[d].paths \cap paths # {}
    <3>1. expected'[d] = Unknown
      BY <2>2 DEF Begun
    <3> QED
      BY <3>1 DEF ReadOK, Facts
  <2> QED
    BY <2>1, <2>2
<1>2. CASE calls'[d] # calls[d]
  <2>1. calls'[d].op # "read"
    BY <1>2 DEF IInv, StorageTypeOK
  <2> QED
    BY <2>1 DEF ReadOK
<1> QED
  BY <1>1, <1>2

LEMMA CallReads ==
  ASSUME IInv, KInv, ReadInv, NEW c \in Callers, Call(c)
  PROVE  ReadInv'
<1>1. ASSUME NEW call \in CallRecord, call.op = "delete", Delete(c, call)
      PROVE  ReadInv'
  <2>1. CASE call.wait
    <3> DEFINE new == [call EXCEPT !.at = "waiting"]
    <3>1. new.op # "read"
      BY <1>1 DEF CallRecord
    <3>2. Idle(c) /\ Begun(c, call.paths) /\ calls' = [calls EXCEPT ![c] = new]
      BY <1>1, <2>1 DEF Delete
    <3> HIDE DEF new
    <3> QED
      BY <3>1, <3>2, BegunReads
  <2>2. CASE ~call.wait
    <3>1. Idle(c) /\ Begun(Unknown, call.paths) /\ UNCHANGED calls
      BY <1>1, <2>2 DEF Delete
    <3> QED
      BY <3>1, BegunReads
  <2> QED
    BY <2>1, <2>2
<1>2. ASSUME NEW p \in Paths, NEW content \in Contents, NEW overwrite \in BOOLEAN,
             NEW wait \in BOOLEAN, WriteFile(c, p, content, overwrite, wait)
      PROVE  ReadInv'
  <2>1. PICK call : call.op = "write" /\ calls' = [calls EXCEPT ![c] = call]
    <3> DEFINE began(saw) ==
          [NoCall EXCEPT !.op = "write", !.at = "checking", !.paths = {p},
             !.content = content, !.overwrite = overwrite, !.wait = wait,
             !.saw = saw]
    <3>1. \A saw : began(saw).op = "write"
      BY DEF NoCall
    <3>2. \E saw : calls' = [calls EXCEPT ![c] = began(saw)]
      BY <1>2 DEF WriteFile
    <3> HIDE DEF began
    <3> QED
      BY <3>1, <3>2
  <2>2. Idle(c) /\ Begun(c, {p}) /\ call.op # "read"
    BY <1>2, <2>1 DEF WriteFile
  <2> QED
    BY <2>1, <2>2, BegunReads
<1>3. ASSUME NEW p \in Paths, NEW flag \in BOOLEAN, ReadFile(c, p, flag)
      PROVE  ReadInv'
  <2> SUFFICES ASSUME NEW d \in Callers PROVE ReadOK(d)'
    BY DEF ReadInv
  <2>1. CASE d = c
    <3>1. /\ calls'[c].paths = {p} /\ calls'[c].at = "reading"
          /\ expected'[c] = IF known[p] \in Facts THEN known[p] ELSE Unknown
          /\ known' = known
      BY <1>3 DEF ReadFile, NoCall, IInv, StorageTypeOK
    <3> QED
      BY <2>1, <3>1 DEF ReadOK, Facts
  <2>2. CASE d # c
    BY <1>3, <2>2, ReadKept DEF ReadFile, ReadInv, IInv, StorageTypeOK
  <2> QED
    BY <2>1, <2>2
<1>4. ASSUME NEW wait \in BOOLEAN, NEW flag \in BOOLEAN, NEW p \in Paths,
             DeleteFile(c, p, wait, flag)
      PROVE  ReadInv'
  <2> DEFINE call == [NoCall EXCEPT !.op = "delete", !.paths = {p},
                        !.wait = wait, !.ignoreMissing = flag]
  <2>1. call \in CallRecord /\ call.op = "delete"
    BY DEF NoCall, CallRecord, Facts
  <2>2. Delete(c, call)
    BY <1>4 DEF DeleteFile
  <2> HIDE DEF call
  <2> QED
    BY <1>1, <2>1, <2>2
<1>5. ASSUME NEW wait \in BOOLEAN, NEW flag \in BOOLEAN,
             NEW paths \in SUBSET Paths, DeleteFiles(c, paths, wait, flag)
      PROVE  ReadInv'
  <2> DEFINE call == [NoCall EXCEPT !.op = "delete", !.paths = paths,
                        !.wait = wait, !.ignoreMissing = flag,
                        !.several = TRUE]
  <2>1. call \in CallRecord /\ call.op = "delete"
    BY DEF NoCall, CallRecord, Facts
  <2>2. Delete(c, call)
    BY <1>5 DEF DeleteFiles
  <2> HIDE DEF call
  <2> QED
    BY <1>1, <2>1, <2>2
<1> QED
  BY <1>2, <1>3, <1>4, <1>5 DEF Call

(* Operations are not those of readers, and take no fact away.             *)
LEMMA OperationReads ==
  ASSUME IInv, KInv, NEW o \in operations, OperationStep(o),
         NEW c \in Callers, calls[c].op = "read"
  PROVE  /\ calls'[c] = calls[c] /\ expected' = expected
         /\ swallowed \subseteq swallowed'
         /\ \A p \in Paths : known[p] \in Facts => known'[p] = known[p]
<1>1. o.c \in Callers /\ (o.wait => o.c # c)
  BY DEF KInv, WaitInv, ShapeInv, Shapely, IInv, StorageTypeOK, Operation
<1>2. \/ UNCHANGED <<calls, known, swallowed, expected>>
      \/ \E rest, outcome, fact : Settle(o, rest, outcome, fact)
  BY DEF OperationStep, LocalWriteBegins, LocalWriteEnds, LocalWriteFails,
         S3Upload, S3UploadFails, LocalUnlink, S3Delete, DeletionFails
<1>3. ASSUME NEW rest, NEW outcome, NEW fact, Settle(o, rest, outcome, fact)
      PROVE  /\ expected' = expected /\ swallowed \subseteq swallowed'
             /\ \/ UNCHANGED calls
                \/ o.wait /\ \E call : calls' = [calls EXCEPT ![o.c] = call]
             /\ \/ UNCHANGED known
                \/ \E said : known' = [p \in Paths |->
                                        IF known[p] = o.c THEN said ELSE known[p]]
  BY <1>3 DEF Settle, End
<1>4. /\ \/ UNCHANGED calls
         \/ o.wait /\ \E call : calls' = [calls EXCEPT ![o.c] = call]
      /\ expected' = expected /\ swallowed \subseteq swallowed'
  BY <1>2, <1>3
<1>5. \A p \in Paths : known[p] \in Facts => known'[p] = known[p]
  BY <1>1, <1>2, <1>3 DEF Facts
<1> QED
  BY <1>1, <1>4, <1>5 DEF IInv, StorageTypeOK

(* What a read takes is what is known of its file, if anything is.         *)
LEMMA TakenReads ==
  ASSUME IInv, KInv, ReadInv, NEW c \in Callers,
         ContentTaken(c) \/ LocalReadsOn(c)
  PROVE  ReadOK(c)'
<1> DEFINE p == PathOf(calls[c])
<1>0. /\ calls[c] \in CallRecord /\ calls[c].op = "read"
      /\ calls \in [Callers -> CallRecord]
      /\ calls[c].paths # {} /\ ~calls[c].several
      /\ UNCHANGED <<expected, known, swallowed>>
  BY DEF ContentTaken, LocalReadsOn, IInv, StorageTypeOK, CallOK, KInv,
         ShapeInv, Shapely
<1>1. p \in Paths /\ \A q \in calls[c].paths : q = p
  BY <1>0, PathOfIn DEF KInv, ShapeInv, Shapely
<1> SUFFICES ASSUME expected[c] \in Facts
             PROVE  /\ \A q \in calls'[c].paths : q = p
                    /\ known[p] = expected[c]
                    /\ calls'[c].content = expected[c] \/ p \in swallowed
  BY <1>0 DEF ReadOK
<1>2. /\ known[p] = expected[c]
      /\ calls[c].at = "taken" => calls[c].content = expected[c] \/ p \in swallowed
  BY <1>0, PathOfIn DEF ReadInv, ReadOK
<1>3. /\ files[p] = known[p] \/ p \in swallowed
      /\ On(p) = {}
  BY <1>1, <1>2, ChangingMeans DEF KInv, KnownInv, KnownOK
<1>4. CASE ContentTaken(c)
  <2>1. calls'[c].paths = calls[c].paths /\ calls'[c].content = files[p]
    BY <1>0, <1>4 DEF ContentTaken, CallRecord
  <2> QED
    BY <1>1, <1>2, <1>3, <2>1
<1>5. CASE LocalReadsOn(c)
  <2>1. PICK now \in Opened(calls[c]) \ {calls[c].content} :
          \E content \in {now, Torn} :
            calls' = [calls EXCEPT ![c].content = content]
    BY <1>5 DEF LocalReadsOn
  <2>2. calls'[c].paths = calls[c].paths
    BY <1>0, <2>1 DEF CallRecord
  <2>3. now = files[p]
    BY <1>3, <2>1 DEF Opened, On
  <2>4. p \in swallowed
    BY <1>2, <1>3, <1>5, <2>1, <2>3 DEF LocalReadsOn
  <2> QED
    BY <1>1, <1>2, <2>2, <2>4
<1> QED
  BY <1>4, <1>5

LEMMA CallStepReads ==
  ASSUME IInv, KInv, ReadInv, NEW c \in Callers, CallStep(c)
  PROVE  ReadInv'
<1> SUFFICES ASSUME NEW d \in Callers PROVE ReadOK(d)'
  BY DEF ReadInv
<1>0. calls[c] \in CallRecord /\ CallOK(calls[c], deletions, files)
      /\ ReadOK(d) /\ calls \in [Callers -> CallRecord]
  BY DEF IInv, StorageTypeOK, ReadInv
<1>1. CASE LocalPrepareFails(c) \/ FileFound(c) \/ WriteIssued(c)
  <2>1. /\ calls[c].op = "write" /\ expected' = expected /\ swallowed' = swallowed
        /\ \E call : calls' = [calls EXCEPT ![c] = call] /\ call.op # "read"
        /\ \/ UNCHANGED known
           \/ \E said : known' = [p \in Paths |->
                                   IF known[p] = c THEN said ELSE known[p]]
    <3>1. calls[c].op = "write"
      BY <1>0, <1>1 DEF LocalPrepareFails, FileFound, WriteIssued, CallOK
    <3>2. [calls[c] EXCEPT !.at = "waiting"].op # "read" /\ NoCall.op # "read"
      BY <1>0, <3>1 DEF CallRecord, NoCall
    <3>3. \/ calls' = [calls EXCEPT ![c] = [calls[c] EXCEPT !.at = "waiting"]]
          \/ calls' = [calls EXCEPT ![c] = NoCall]
      BY <1>1 DEF LocalPrepareFails, FileFound, WriteIssued, End
    <3>4. \E call : calls' = [calls EXCEPT ![c] = call] /\ call.op # "read"
      BY <3>2, <3>3
    <3> QED
      BY <1>1, <3>1, <3>4 DEF LocalPrepareFails, FileFound, WriteIssued, End
  <2>2. CASE d = c
    BY <1>0, <2>1, <2>2 DEF ReadOK
  <2>3. CASE d # c
    <3>1. calls'[d] = calls[d]
      BY <2>1, <2>3
    <3>2. \A p \in Paths : known[p] \in Facts => known'[p] = known[p]
      BY <2>1 DEF Facts
    <3> QED
      BY <1>0, <2>1, <3>1, <3>2, ReadKept DEF CallRecord
  <2> QED
    BY <2>2, <2>3
<1>2. CASE ContentTaken(c) \/ LocalReadsOn(c)
  <2>1. CASE d = c
    BY <1>2, <2>1, TakenReads
  <2>2. CASE d # c
    BY <1>0, <1>2, <2>2, ReadKept DEF ContentTaken, LocalReadsOn
  <2> QED
    BY <2>1, <2>2
<1>3. CASE ReadEnds(c)
  <2>1. CASE d = c
    BY <1>0, <1>3, <2>1 DEF ReadEnds, ReadOK, NoCall
  <2>2. CASE d # c
    <3>1. calls'[d] = calls[d] /\ expected'[d] = expected[d]
          /\ UNCHANGED <<known, swallowed>>
      BY <1>3, <2>2 DEF ReadEnds, IInv, StorageTypeOK
    <3> QED
      BY <1>0, <3>1, ReadKept
  <2> QED
    BY <2>1, <2>2
<1> QED
  BY <1>1, <1>2, <1>3 DEF CallStep

LEMMA NextReadInv == IInv /\ KInv /\ ReadInv /\ [Next]_vars => ReadInv'
<1> SUFFICES ASSUME IInv, KInv, ReadInv, [Next]_vars PROVE ReadInv'
  OBVIOUS
<1>1. ASSUME NEW o \in operations, OperationStep(o) PROVE ReadInv'
  <2> SUFFICES ASSUME NEW c \in Callers PROVE ReadOK(c)'
    BY DEF ReadInv
  <2>1. CASE calls[c].op = "read"
    <3>1. calls[c].paths \subseteq Paths /\ ReadOK(c)
      BY DEF IInv, StorageTypeOK, CallRecord, ReadInv
    <3> QED
      BY <1>1, <2>1, <3>1, OperationReads, ReadKept
  <2>2. CASE calls[c].op # "read"
    <3>1. calls'[c] = calls[c] \/ calls'[c].op # "read"
      <4>1. \/ UNCHANGED calls
            \/ \E rest, outcome, fact : Settle(o, rest, outcome, fact)
        BY <1>1 DEF OperationStep, LocalWriteBegins, LocalWriteEnds,
             LocalWriteFails, S3Upload, S3UploadFails, LocalUnlink, S3Delete,
             DeletionFails
      <4>2. ASSUME NEW rest, NEW outcome, NEW fact, Settle(o, rest, outcome, fact)
            PROVE  \/ UNCHANGED calls
                   \/ \E failed : calls' = [calls EXCEPT ![o.c].failed = failed]
                   \/ calls' = [calls EXCEPT ![o.c] = NoCall]
        BY <4>2 DEF Settle, End
      <4>3. ASSUME NEW failed, calls' = [calls EXCEPT ![o.c].failed = failed]
            PROVE  calls'[c].op = calls[c].op
        BY <4>3 DEF IInv, StorageTypeOK, CallRecord
      <4>4. ASSUME calls' = [calls EXCEPT ![o.c] = NoCall]
            PROVE  calls'[c] = calls[c] \/ calls'[c].op # "read"
        BY <4>4 DEF IInv, StorageTypeOK, NoCall
      <4> QED
        BY <2>2, <4>1, <4>2, <4>3, <4>4
    <3> QED
      BY <2>2, <3>1 DEF ReadOK
  <2> QED
    BY <2>1, <2>2
<1>2. CASE UNCHANGED vars
  BY <1>2 DEF vars, storageVars, ReadInv, ReadOK
<1> QED
  BY <1>1, <1>2, CallReads, CallStepReads DEF Next, StorageStep

(* The one step by which a read ends, and what it answers.                 *)
LEMMA ReadAnswers ==
  ASSUME IInv, KInv, ReadInv, [Next]_vars, NEW c \in Callers,
         calls[c].paths \cap swallowed = {}
  PROVE  ReadAsExpected(c)
<1> SUFFICES ASSUME calls[c].op = "read", calls'[c].op # "read",
                    expected[c] \in Facts
             PROVE  answers'[c] \in {expected[c], "error"}
                      \cup (IF expected[c] = None THEN {"missing"} ELSE {})
  BY DEF ReadAsExpected
<1>0. /\ calls[c] \in CallRecord /\ CallOK(calls[c], deletions, files)
      /\ calls[c].at \in {"reading", "taken"} /\ calls[c].paths # {}
  BY DEF IInv, StorageTypeOK, CallOK, KInv, ShapeInv, Shapely
<1>1. ReadEnds(c)
  <2>1. ASSUME NEW d \in Callers, Call(d) PROVE FALSE
    <3>1. ASSUME NEW call, Delete(d, call)
          PROVE  /\ Idle(d)
                 /\ calls' = calls \/ \E new : calls' = [calls EXCEPT ![d] = new]
      BY <3>1 DEF Delete
    <3>2. /\ Idle(d)
          /\ calls' = calls \/ \E new : calls' = [calls EXCEPT ![d] = new]
      <4>1. ASSUME NEW wait \in BOOLEAN, NEW flag \in BOOLEAN, NEW q \in Paths,
                   \/ \E content \in Contents : WriteFile(d, q, content, flag, wait)
                   \/ ReadFile(d, q, flag)
            PROVE  Idle(d) /\ \E new : calls' = [calls EXCEPT ![d] = new]
        BY <4>1 DEF WriteFile, ReadFile
      <4> QED
        BY <2>1, <3>1, <4>1 DEF Call, DeleteFile, DeleteFiles
    <3> QED
      BY <1>0, <3>2 DEF Idle, IInv, StorageTypeOK
  <2>2. ASSUME NEW o \in operations, OperationStep(o) PROVE FALSE
    <3>1. o.c \in Callers /\ (o.wait => o.c # c)
      BY <1>0 DEF KInv, WaitInv, IInv, StorageTypeOK, Operation
    <3>2. \/ UNCHANGED calls
          \/ o.wait /\ \E call : calls' = [calls EXCEPT ![o.c] = call]
      <4>1. CASE LocalWriteBegins(o)
        BY <4>1 DEF LocalWriteBegins
      <4>2. ASSUME NEW rest, NEW outcome, NEW fact,
                   Settle(o, rest, outcome, fact)
            PROVE  \/ UNCHANGED calls
                   \/ o.wait /\ \E call : calls' = [calls EXCEPT ![o.c] = call]
        BY <4>2 DEF Settle, End
      <4>3. CASE ~LocalWriteBegins(o)
        BY <2>2, <4>2, <4>3
           DEF OperationStep, LocalWriteEnds, LocalWriteFails, S3Upload,
               S3UploadFails, LocalUnlink, S3Delete, DeletionFails
      <4> QED
        BY <4>1, <4>3
    <3> QED
      BY <3>1, <3>2 DEF IInv, StorageTypeOK
  <2>3. ASSUME NEW d \in Callers, CallStep(d) PROVE ReadEnds(c)
    <3>0. ~ContentTaken(d) /\ ~LocalReadsOn(d)
      <4>1. ASSUME ContentTaken(d) \/ LocalReadsOn(d)
            PROVE  calls'[c].op = calls[c].op
        <5>1. /\ calls'[d].op = calls[d].op
              /\ d # c => calls'[c] = calls[c]
          <6>0. calls \in [Callers -> CallRecord] /\ calls[d] \in CallRecord
            BY DEF IInv, StorageTypeOK
          <6>1. CASE ContentTaken(d)
            BY <6>0, <6>1 DEF ContentTaken, CallRecord
          <6>2. CASE LocalReadsOn(d)
            <7>1. PICK content : calls' = [calls EXCEPT ![d].content = content]
              BY <6>2 DEF LocalReadsOn
            <7> QED
              BY <6>0, <7>1 DEF CallRecord
          <6> QED
            BY <4>1, <6>1, <6>2
        <5> QED
          BY <5>1
      <4> QED
        BY <4>1
    <3>1. \/ ReadEnds(d)
          \/ /\ calls[d].at = "checking"
             /\ \E call : calls' = [calls EXCEPT ![d] = call]
      BY <2>3, <3>0 DEF CallStep, LocalPrepareFails, FileFound, WriteIssued, End
    <3>2. \E call : calls' = [calls EXCEPT ![d] = call]
      BY <3>1 DEF ReadEnds
    <3>3. c = d
      BY <3>2 DEF IInv, StorageTypeOK
    <3> QED
      BY <1>0, <3>1, <3>3
  <2>4. calls' # calls
    OBVIOUS
  <2> QED
    BY <2>1, <2>2, <2>3, <2>4 DEF Next, StorageStep, vars, storageVars
<1>2. calls[c].content = expected[c]
  BY <1>0, <1>1 DEF ReadInv, ReadOK, ReadEnds
<1>3. PICK answer \in {"error", IF calls[c].content # None \/ calls[c].ignoreMissing
                                  THEN calls[c].content ELSE "missing"} :
        answers' = [answers EXCEPT ![c] = answer]
  BY <1>1 DEF ReadEnds
<1>4. answers'[c] = answer
  BY <1>3 DEF IInv, StorageTypeOK
<1> QED
  BY <1>2, <1>3, <1>4

(* A read answers what the last call on its file was answered to have done *)
(* there, whole, or an error, on either service and however calls and      *)
(* their operations interleave.  Nothing is claimed of a file that some    *)
(* call is changing while it is read, whose last calls overlapped, were    *)
(* not awaited or were answered with an error, or whose deletion a local   *)
(* deleteFiles was answered to have done although it had failed.           *)
(* (readFile, writeFile, deleteFile, deleteFiles of both services)         *)
THEOREM Reads == Spec => ReadsAsAnswered
<1> DEFINE Answers ==
      \A c \in Callers :
        calls[c].paths \cap swallowed = {} => ReadAsExpected(c)
<1>1. IInv /\ KInv /\ ReadInv /\ [Next]_vars => [Answers]_vars
  BY ReadAnswers
<1>2. Init => IInv /\ KInv /\ ReadInv
  BY InitIInv, InitKInv DEF Init, StorageInit, NoCall, ReadInv, ReadOK
<1>3. QED
  BY <1>1, <1>2, NextIInv, NextKInv, NextReadInv, PTL DEF Spec, ReadsAsAnswered
-----------------------------------------------------------------------------
(* Images: each upload is a caller, with files of its own.                 *)
PathsOf(f) == {Image(f), Thumbnail(f)}

LEMMA OwnFiles ==
  /\ \A f, g \in Uploads :
       /\ Image(f) = Image(g) => f = g
       /\ Thumbnail(f) = Thumbnail(g) => f = g
       /\ Upload(f) = Upload(g) => f = g
       /\ Image(f) # Thumbnail(g) /\ Image(f) # Upload(g)
       /\ Thumbnail(f) # Upload(g)
  /\ \A f, g \in Uploads : \A p \in PathsOf(f) : p \in PathsOf(g) => f = g
  /\ \A f \in Uploads : Image(f) \in Paths /\ Thumbnail(f) \in Paths
  /\ \A p \in Paths : \E f \in Uploads : p \in PathsOf(f)
  /\ "image" \in Contents /\ "thumbnail" \in Contents
BY PathsAssumption DEF PathsAssumption, PathsOf, Image, Thumbnail, Upload

(* Every call is awaited, with its operations, and about one of its        *)
(* caller's files: no error is swallowed.                                  *)
AwaitedInv ==
  /\ \A o \in operations : /\ o.wait
                           /\ o.op = "write" => o.content = calls[o.c].content
  /\ \A f \in Uploads : /\ calls[f].paths \subseteq PathsOf(f)
                         /\ calls[f].wait /\ ~calls[f].several
  /\ swallowed = {}

(* Nobody but f changes its files.                                         *)
LEMMA Undisturbed ==
  ASSUME IInv, KInv, AwaitedInv, NEW f \in Uploads, calls[f] = NoCall,
         NEW p \in PathsOf(f)
  PROVE  ~Changing(p)
<1>1. \A c \in Uploads : p \notin calls[c].paths
  BY OwnFiles DEF AwaitedInv, NoCall
<1>2. \A o \in operations : o.c \in Uploads /\ o.path \in calls[o.c].paths
  BY DEF IInv, StorageTypeOK, Operation, Uploads, KInv, WaitInv, AwaitedInv
<1> QED
  BY <1>1, <1>2 DEF Changing, Uploads

(* What the end of a call without an error says of its files               *)
Fact(call) == IF call.op = "write" THEN call.content ELSE None

(* What a step of the storage does to the calls: it ends one, or brings it *)
(* forward.                                                                *)
Forward(c) ==
  /\ calls[c].at \in {"checking", "waiting"}
  /\ \E call \in CallRecord :
       /\ calls' = [calls EXCEPT ![c] = call]
       /\ call.op = calls[c].op /\ call.paths = calls[c].paths
       /\ call.content = calls[c].content /\ call.wait = calls[c].wait
       /\ call.several = calls[c].several
       /\ call.at \in {"checking", "waiting"}
  /\ UNCHANGED <<answers, known>>
ReadsOn(c) ==
  /\ calls[c].at \in {"reading", "taken"}
  /\ \E call \in CallRecord :
       /\ calls' = [calls EXCEPT ![c] = call]
       /\ call.paths = calls[c].paths /\ call.wait = calls[c].wait
       /\ call.several = calls[c].several /\ call.at = "taken"
  /\ UNCHANGED <<answers, known>>
ReadOver(c) ==
  /\ calls[c].at = "taken"
  /\ calls' = [calls EXCEPT ![c] = NoCall]
  /\ \E answer : answers' = [answers EXCEPT ![c] = answer]
  /\ UNCHANGED known
Over(c) ==
  /\ calls[c].at \in {"checking", "waiting"}
  /\ \E answer, fact :
       /\ End(c, answer, fact)
       /\ answer = "done" /\ ~calls[c].several => fact = Fact(calls[c])
Effect ==
  \/ UNCHANGED <<calls, answers, known>>
  \/ \E c \in Callers : Forward(c) \/ ReadsOn(c) \/ ReadOver(c) \/ Over(c)

(* the end of an awaited operation                                         *)
LEMMA SettleEffect ==
  ASSUME IInv, KInv, AwaitedInv, NEW o \in operations, NEW rest,
         NEW outcome \in {"done", "missing", "error"}, NEW fact,
         outcome = "done" => fact = Fact(calls[o.c]),
         Settle(o, rest, outcome, fact)
  PROVE  Effect
<1>1. /\ o.c \in Callers /\ o.wait /\ calls[o.c].at = "waiting"
      /\ calls[o.c] \in CallRecord
  BY DEF IInv, StorageTypeOK, Operation, KInv, WaitInv, AwaitedInv
<1>2. CASE \E q \in rest : q.c = o.c /\ q.wait
  <2>1. PICK failed \in BOOLEAN : calls' = [calls EXCEPT ![o.c].failed = failed]
    BY <1>1, <1>2 DEF Settle, CallRecord
  <2> DEFINE call == [calls[o.c] EXCEPT !.failed = failed]
  <2>2. calls' = [calls EXCEPT ![o.c] = call] /\ UNCHANGED <<answers, known>>
    BY <1>1, <1>2, <2>1 DEF Settle
  <2>3. /\ call \in CallRecord /\ call.op = calls[o.c].op
        /\ call.paths = calls[o.c].paths /\ call.content = calls[o.c].content
        /\ call.wait = calls[o.c].wait /\ call.several = calls[o.c].several
        /\ call.at = "waiting"
    BY <1>1 DEF CallRecord
  <2> HIDE DEF call
  <2>4. Forward(o.c)
    BY <1>1, <2>2, <2>3 DEF Forward
  <2> QED
    BY <1>1, <2>4 DEF Effect
<1>3. CASE ~\E q \in rest : q.c = o.c /\ q.wait
  <2>1. CASE calls[o.c].several
    <3>1. \E answer, said : End(o.c, answer, said)
      BY <1>1, <1>3 DEF Settle
    <3> QED
      BY <1>1, <2>1, <3>1 DEF Over, Effect
  <2>2. CASE ~calls[o.c].several
    <3>1. End(o.c, outcome, IF outcome = "done" THEN fact ELSE Unknown)
      BY <1>1, <1>3, <2>2 DEF Settle, Rethrown
    <3> QED
      BY <1>1, <3>1 DEF Over, Effect
  <2> QED
    BY <2>1, <2>2
<1> QED
  BY <1>2, <1>3

LEMMA OperationEffect ==
  ASSUME IInv, KInv, AwaitedInv, NEW o \in operations, OperationStep(o)
  PROVE  Effect
<1>1. /\ calls[o.c].op = o.op
      /\ o.op = "write" => o.content = calls[o.c].content
  BY DEF KInv, WaitInv, AwaitedInv
<1>2. CASE LocalWriteBegins(o)
  BY <1>2 DEF LocalWriteBegins, Effect
<1>3. CASE LocalWriteEnds(o) \/ S3Upload(o)
  <2>1. Settle(o, Others(o), "done", o.content) /\ o.op = "write"
    BY <1>3 DEF LocalWriteEnds, S3Upload
  <2> QED
    BY <1>1, <2>1, SettleEffect DEF Fact
<1>4. CASE LocalWriteFails(o) \/ S3UploadFails(o)
  <2>1. Settle(o, Others(o), "error", Unknown)
    BY <1>4 DEF LocalWriteFails, S3UploadFails
  <2> QED
    BY <2>1, SettleEffect
<1>5. CASE LocalUnlink(o) \/ S3Delete(o) \/ DeletionFails(o)
  <2>1. /\ o.op = "delete"
        /\ \E rest, outcome : /\ outcome \in {"done", "missing", "error"}
                              /\ Settle(o, rest, outcome, None)
    BY <1>5 DEF LocalUnlink, S3Delete, DeletionFails
  <2> QED
    BY <1>1, <2>1, SettleEffect DEF Fact
<1> QED
  BY <1>2, <1>3, <1>4, <1>5 DEF OperationStep

LEMMA CallEffect ==
  ASSUME IInv, KInv, AwaitedInv, NEW c \in Callers, CallStep(c)
  PROVE  Effect
<1>0. calls[c] \in CallRecord
  BY DEF IInv, StorageTypeOK
<1>1. CASE LocalPrepareFails(c) \/ FileFound(c)
  <2>1. /\ calls[c].at = "checking"
        /\ End(c, "error", Unknown) \/ End(c, "exists", Unknown)
    BY <1>1 DEF LocalPrepareFails, FileFound
  <2> QED
    BY <2>1 DEF Over, Effect
<1>2. CASE ReadEnds(c)
  <2>1. ReadOver(c)
    BY <1>2 DEF ReadEnds, ReadOver
  <2> QED
    BY <2>1 DEF Effect
<1>4. CASE ContentTaken(c) \/ LocalReadsOn(c)
  <2>1. calls'[c] \in CallRecord
    BY <1>4, CallStepKept, InvMeans DEF CallStep, Inv, CallsTypeOK
  <2>2. ReadsOn(c)
    <3>1. CASE ContentTaken(c)
      BY <1>0, <2>1, <3>1 DEF ContentTaken, ReadsOn, IInv, StorageTypeOK, CallRecord
    <3>2. CASE LocalReadsOn(c)
      <4>1. PICK content : calls' = [calls EXCEPT ![c].content = content]
        BY <3>2 DEF LocalReadsOn
      <4> DEFINE call == [calls[c] EXCEPT !.content = content]
      <4>2. /\ calls' = [calls EXCEPT ![c] = call] /\ calls'[c] = call
            /\ call.paths = calls[c].paths /\ call.wait = calls[c].wait
            /\ call.several = calls[c].several /\ call.at = calls[c].at
        BY <1>0, <4>1 DEF IInv, StorageTypeOK, CallRecord
      <4> HIDE DEF call
      <4> QED
        BY <2>1, <3>2, <4>2 DEF LocalReadsOn, ReadsOn
    <3> QED
      BY <1>4, <3>1, <3>2
  <2> QED
    BY <2>2 DEF Effect
<1>3. CASE WriteIssued(c)
  <2>1. CASE ~calls[c].wait
    <3>1. calls[c].at = "checking" /\ End(c, "sent", Unknown)
      BY <1>3, <2>1 DEF WriteIssued
    <3> QED
      BY <3>1 DEF Over, Effect
  <2>2. CASE calls[c].wait
    <3> DEFINE call == [calls[c] EXCEPT !.at = "waiting"]
    <3>1. /\ calls[c].at = "checking" /\ calls' = [calls EXCEPT ![c] = call]
          /\ UNCHANGED <<answers, known>>
      BY <1>3, <2>2 DEF WriteIssued
    <3>2. /\ call \in CallRecord /\ call.op = calls[c].op
          /\ call.paths = calls[c].paths /\ call.content = calls[c].content
          /\ call.wait = calls[c].wait /\ call.several = calls[c].several
          /\ call.at = "waiting"
      BY <1>0 DEF CallRecord
    <3> HIDE DEF call
    <3>3. Forward(c)
      BY <3>1, <3>2 DEF Forward
    <3> QED
      BY <3>3 DEF Effect
  <2> QED
    BY <1>0, <2>1, <2>2
<1> QED
  BY <1>1, <1>2, <1>3, <1>4 DEF CallStep

LEMMA StepEffect == IInv /\ KInv /\ AwaitedInv /\ StorageStep => Effect
BY OperationEffect, CallEffect DEF StorageStep
-----------------------------------------------------------------------------
(* The call of f writes or deletes its file p, and is the only one to      *)
(* change it; or it has been answered, and what that says of p is known.   *)
Pending(f, op, p, content) ==
  /\ calls[f].op = op /\ calls[f].at \in {"checking", "waiting"}
  /\ calls[f].paths = {p} /\ calls[f].content = content
  /\ calls[f].wait /\ ~calls[f].several
  /\ known[p] = f
Doing(f, op, p, content) ==
  \/ calls[f] = NoCall /\ (answers[f] = "done" => known[p] = content)
  \/ Pending(f, op, p, content)

(* What the storage does leaves what is known of a file, ...               *)
LEMMA FactsStay ==
  ASSUME Effect, NEW p \in Paths, known[p] \in Facts
  PROVE  known'[p] = known[p]
BY DEF Effect, Forward, ReadsOn, ReadOver, Over, End, Facts

(* ... and a caller without a call, alone.                                 *)
LEMMA IdleStay ==
  ASSUME IInv, Effect, NEW f \in Uploads, calls[f] = NoCall
  PROVE  calls'[f] = NoCall /\ answers'[f] = answers[f]
<1>1. calls[f].at = "idle"
  BY DEF NoCall
<1> QED
  BY <1>1 DEF Effect, Forward, ReadsOn, ReadOver, Over, End, IInv, StorageTypeOK, Uploads

(* The call of f goes on, or is answered as it says.                       *)
LEMMA DoingStays ==
  ASSUME IInv, Effect, NEW f \in Uploads, NEW p \in Paths, NEW op \in {"write", "delete"},
         NEW content \in Facts, op = "delete" => content = None,
         Doing(f, op, p, content)
  PROVE  Doing(f, op, p, content)'
<1>0. f \in Callers /\ calls \in [Callers -> CallRecord]
      /\ answers \in [Callers -> Answer]
  BY DEF Uploads, IInv, StorageTypeOK
<1>1. CASE calls[f] = NoCall /\ (answers[f] = "done" => known[p] = content)
  BY <1>1, IdleStay, FactsStay DEF Doing
<1>2. CASE Pending(f, op, p, content)
  <2>1. ASSUME NEW c \in Callers, Forward(c)
        PROVE  Pending(f, op, p, content)'
    BY <1>0, <1>2, <2>1 DEF Pending, Forward
  <2>2. ASSUME NEW c \in Callers, ReadOver(c)
        PROVE  Pending(f, op, p, content)'
    <3>1. c # f
      BY <1>2, <2>2 DEF Pending, ReadOver
    <3> QED
      BY <1>0, <1>2, <2>2, <3>1 DEF Pending, ReadOver
  <2>6. ASSUME NEW c \in Callers, ReadsOn(c)
        PROVE  Pending(f, op, p, content)'
    <3>1. c # f
      BY <1>2, <2>6 DEF Pending, ReadsOn
    <3> QED
      BY <1>0, <1>2, <2>6, <3>1 DEF Pending, ReadsOn
  <2>3. ASSUME NEW c \in Callers, Over(c), c # f
        PROVE  Pending(f, op, p, content)'
    BY <1>0, <1>2, <2>3 DEF Pending, Over, End
  <2>4. ASSUME Over(f)
        PROVE  Doing(f, op, p, content)'
    <3>1. PICK answer, fact :
            /\ End(f, answer, fact)
            /\ answer = "done" /\ ~calls[f].several => fact = Fact(calls[f])
      BY <2>4 DEF Over
    <3>2. Fact(calls[f]) = content /\ ~calls[f].several /\ known[p] = f
      BY <1>2 DEF Fact, Pending
    <3>3. calls'[f] = NoCall /\ answers'[f] = answer /\ known'[p] = fact
      BY <1>0, <3>1, <3>2 DEF End
    <3> QED
      BY <3>1, <3>2, <3>3 DEF Doing
  <2>5. ASSUME UNCHANGED <<calls, answers, known>>
        PROVE  Pending(f, op, p, content)'
    BY <1>2, <2>5 DEF Pending
  <2> QED
    BY <2>1, <2>2, <2>3, <2>4, <2>5, <2>6 DEF Effect, Doing
<1> QED
  BY <1>1, <1>2 DEF Doing

(* Operations come from operations, or from the call that is checking.     *)
LEMMA OperationsFrom ==
  ASSUME IInv, KInv, AwaitedInv, StorageStep, NEW r \in operations'
  PROVE  \/ \E q \in operations : /\ r.c = q.c /\ r.op = q.op
                                  /\ r.wait = q.wait /\ r.content = q.content
         \/ /\ r.c \in Callers /\ r.op = calls[r.c].op
            /\ r.wait = calls[r.c].wait
            /\ r.content = calls[r.c].content
            /\ r.wait \/ End(r.c, "sent", Unknown)
<1>0. operations \subseteq Operation /\ calls \in [Callers -> CallRecord]
  BY DEF IInv, StorageTypeOK
<1>1. ASSUME NEW o \in operations, LocalWriteBegins(o)
      PROVE  \E q \in operations : /\ r.c = q.c /\ r.op = q.op
                                   /\ r.wait = q.wait /\ r.content = q.content
  <2>1. CASE r = [o EXCEPT !.begun = TRUE,
                     !.mixed = \E q \in Others(o) : SameFile(o, q)]
    BY <1>0, <2>1 DEF Operation
  <2>2. CASE \E q \in Others(o) :
               r = IF SameFile(o, q) THEN [q EXCEPT !.mixed = TRUE] ELSE q
    BY <1>0, <2>2 DEF Operation, Others
  <2> QED
    BY <1>1, <2>1, <2>2 DEF LocalWriteBegins
<1>2. ASSUME NEW o \in operations, LocalUnlink(o)
      PROVE  \E q \in operations : /\ r.c = q.c /\ r.op = q.op
                                   /\ r.wait = q.wait /\ r.content = q.content
  <2>1. PICK q \in Others(o) :
          r = IF SameFile(o, q) THEN [q EXCEPT !.linked = FALSE] ELSE q
    BY <1>2 DEF LocalUnlink, Settle
  <2> QED
    BY <1>0, <2>1 DEF Operation, Others
<1>3. ASSUME NEW o \in operations, OperationStep(o), ~LocalWriteBegins(o), ~LocalUnlink(o)
      PROVE  r \in operations
  BY <1>3 DEF OperationStep, LocalWriteEnds, LocalWriteFails, S3Upload,
              S3UploadFails, S3Delete, DeletionFails, Settle, Others
<1>4. ASSUME NEW c \in Callers, CallStep(c), r \notin operations
      PROVE  /\ r.c = c /\ r.op = calls[c].op /\ r.wait = calls[c].wait
             /\ r.content = calls[c].content
             /\ calls[c].wait \/ End(c, "sent", Unknown)
  <2>1. WriteIssued(c)
    BY <1>4 DEF CallStep, LocalPrepareFails, FileFound, ContentTaken,
                LocalReadsOn, ReadEnds
  <2>2. PICK saw : operations' = operations \cup Issued(c, [calls[c] EXCEPT !.saw = saw])
    BY <1>0, <2>1 DEF WriteIssued
  <2>3. r \in Issued(c, [calls[c] EXCEPT !.saw = saw])
    BY <1>4, <2>2
  <2>4. /\ r.c = c /\ r.op = calls[c].op /\ r.wait = calls[c].wait
        /\ r.content = calls[c].content
    BY <1>0, <2>3 DEF Issued, CallRecord
  <2> QED
    BY <2>1, <2>4 DEF WriteIssued
<1> QED
  BY <1>1, <1>2, <1>3, <1>4 DEF StorageStep
LEMMA StepAwaitedInv ==
  ASSUME IInv, KInv, AwaitedInv, StorageStep
  PROVE  AwaitedInv'
<1>0. calls \in [Callers -> CallRecord] /\ operations \subseteq Operation
  BY DEF IInv, StorageTypeOK
<1>1. Effect /\ KInv'
  BY StepEffect, StepKInv
<1>2. ASSUME NEW f \in Uploads
      PROVE  /\ calls'[f].paths \subseteq PathsOf(f) /\ calls'[f].wait
             /\ ~calls'[f].several
  <2>1. /\ f \in Callers /\ calls[f].paths \subseteq PathsOf(f) /\ calls[f].wait
        /\ ~calls[f].several
        /\ NoCall.paths = {} /\ NoCall.wait /\ ~NoCall.several
    BY DEF AwaitedInv, Uploads, NoCall
  <2> QED
    BY <1>0, <1>1, <2>1 DEF Effect, Forward, ReadsOn, ReadOver, Over, End
<1>3. ASSUME NEW c \in Callers, calls'[c].at = "waiting"
      PROVE  calls'[c].content = calls[c].content
  <2>1. NoCall.at = "idle"
    BY DEF NoCall
  <2> QED
    BY <1>0, <1>1, <1>3, <2>1 DEF Effect, Forward, ReadsOn, ReadOver, Over, End
<1>4. ASSUME NEW r \in operations'
      PROVE  r.wait /\ (r.op = "write" => r.content = calls'[r.c].content)
  <2>1. /\ r.c \in Callers /\ r.wait
        /\ r.op = "write" => r.content = calls[r.c].content
    BY <1>0, OperationsFrom DEF Operation, AwaitedInv, Uploads
  <2>2. calls'[r.c].at = "waiting"
    BY <1>1, <2>1 DEF KInv, WaitInv
  <2> QED
    BY <1>3, <2>1, <2>2
<1>5. swallowed' = {}
  <2>1. ASSUME NEW c \in Callers, CallStep(c) PROVE swallowed' = swallowed
    BY <2>1 DEF CallStep, LocalPrepareFails, FileFound, WriteIssued,
                ContentTaken, LocalReadsOn, ReadEnds
  <2>2. ASSUME NEW o \in operations, OperationStep(o) PROVE swallowed' = swallowed
    <3>1. ~calls[o.c].several
      BY DEF AwaitedInv, Uploads, IInv, StorageTypeOK, Operation
    <3>2. ASSUME NEW rest, NEW outcome, NEW fact, Settle(o, rest, outcome, fact)
          PROVE  swallowed' = swallowed
      BY <3>1, <3>2 DEF Settle
    <3>3. CASE LocalWriteBegins(o)
      BY <3>3 DEF LocalWriteBegins
    <3>4. CASE ~LocalWriteBegins(o)
      BY <2>2, <3>2, <3>4
         DEF OperationStep, LocalWriteEnds, LocalWriteFails, S3Upload,
             S3UploadFails, LocalUnlink, S3Delete, DeletionFails
    <3> QED
      BY <3>3, <3>4
  <2> QED
    BY <2>1, <2>2 DEF StorageStep, AwaitedInv
<1> QED
  BY <1>2, <1>4, <1>5 DEF AwaitedInv

-----------------------------------------------------------------------------
(* What is known of the files of f, and what its call is about, wherever   *)
(* its processing or its clean-up is.                                      *)
ImageInv(f) ==
  /\ ~createThumbnail =>
       /\ known[Thumbnail(f)] = None
       /\ at[f] \notin {"thumbnail", "storingThumbnail", "unlinkingThumbnail",
                        "deletingThumbnail"}
  /\ at[f] \notin {"storing", "storingThumbnail", "deleting",
                   "deletingThumbnail"} => calls[f] = NoCall
  /\ at[f] \in {"unlinking", "thumbnail", "storingThumbnail",
                "unlinkingThumbnail", "done"} => known[Image(f)] = "image"
  /\ at[f] = "unlinkingThumbnail" \/ (at[f] = "done" /\ createThumbnail) =>
       known[Thumbnail(f)] = "thumbnail"
  /\ at[f] = "storing" => Doing(f, "write", Image(f), "image")
  /\ at[f] = "storingThumbnail" =>
       Doing(f, "write", Thumbnail(f), "thumbnail")
  /\ at[f] = "deleting" => Doing(f, "delete", Image(f), None)
  /\ at[f] = "deletingThumbnail" => Doing(f, "delete", Thumbnail(f), None)
  /\ at[f] \in {"deletingThumbnail", "cleaned"} =>
       known[Image(f)] = None \/ Image(f) \in undeleted
  /\ at[f] = "cleaned" =>
       known[Thumbnail(f)] = None \/ Thumbnail(f) \in undeleted
ImagesInv == \A f \in Uploads : ImageInv(f)

(* Nothing has happened to f: what was known of it still is.               *)
LEMMA ImageKept ==
  ASSUME NEW f \in Uploads, ImageInv(f), at'[f] = at[f], UNCHANGED createThumbnail,
         calls'[f] = calls[f], answers'[f] = answers[f],
         \A p \in PathsOf(f) : known'[p] = known[p],
         undeleted \subseteq undeleted'
  PROVE  ImageInv(f)'
<1>1. known'[Image(f)] = known[Image(f)] /\ known'[Thumbnail(f)] = known[Thumbnail(f)]
  BY DEF PathsOf
<1>2. \A op, p, content : p \in PathsOf(f) =>
        (Doing(f, op, p, content) => Doing(f, op, p, content)')
  BY DEF Doing, Pending
<1>3. Image(f)' = Image(f) /\ Thumbnail(f)' = Thumbnail(f)
      /\ Image(f) \in PathsOf(f) /\ Thumbnail(f) \in PathsOf(f)
  BY DEF Image, Thumbnail, PathsOf
<1> QED
  BY <1>1, <1>2, <1>3 DEF ImageInv

(* Neither does the storage change it, but by what it answers.             *)
LEMMA StepImageInv ==
  ASSUME IInv, Effect, NEW f \in Uploads, ImageInv(f), UNCHANGED imageVars
  PROVE  ImageInv(f)'
<1>1. Image(f) \in Paths /\ Thumbnail(f) \in Paths
      /\ {"image", "thumbnail", None} \subseteq Facts
  BY OwnFiles DEF Facts
<1>2. \A p \in Paths : known[p] \in Facts => known'[p] = known[p]
  BY FactsStay
<1>3. /\ Doing(f, "write", Image(f), "image") => Doing(f, "write", Image(f), "image")'
      /\ Doing(f, "write", Thumbnail(f), "thumbnail") =>
           Doing(f, "write", Thumbnail(f), "thumbnail")'
      /\ Doing(f, "delete", Image(f), None) => Doing(f, "delete", Image(f), None)'
      /\ Doing(f, "delete", Thumbnail(f), None) =>
           Doing(f, "delete", Thumbnail(f), None)'
  BY <1>1, DoingStays
<1>4. calls[f] = NoCall => calls'[f] = NoCall
  BY IdleStay
<1>5. /\ at'[f] = at[f] /\ undeleted' = undeleted
      /\ createThumbnail' = createThumbnail
  BY DEF imageVars
<1> QED
  BY <1>1, <1>2, <1>3, <1>4, <1>5 DEF ImageInv
-----------------------------------------------------------------------------
(* f begins to change its file p, and nothing else.                        *)
Begins(f, op, p, content) ==
  /\ IInv' /\ KInv' /\ AwaitedInv'
  /\ Pending(f, op, p, content)'
  /\ \A g \in Uploads : g # f => calls'[g] = calls[g]
  /\ \A q \in Paths : q # p => known'[q] = known[q]
  /\ UNCHANGED answers

LEMMA WriteBegins ==
  ASSUME IInv, KInv, AwaitedInv, NEW f \in Uploads, calls[f] = NoCall,
         NEW p \in PathsOf(f), NEW content \in Contents,
         WriteFile(f, p, content, FALSE, TRUE)
  PROVE  Begins(f, "write", p, content)
<1>0. f \in Callers /\ p \in Paths /\ FALSE \in BOOLEAN /\ TRUE \in BOOLEAN
      /\ calls \in [Callers -> CallRecord]
  BY OwnFiles DEF Uploads, PathsOf, IInv, StorageTypeOK
<1>1. IInv' /\ KInv'
  <2>1. HistoryTypeOK'
    BY BegunHistory DEF WriteFile
  <2> QED
    BY <1>0, <2>1, WriteFileKept, WriteFileKnown, InvMeans
<1>2. PICK saw :
        /\ calls' = [calls EXCEPT ![f] =
             [NoCall EXCEPT !.op = "write", !.at = "checking", !.paths = {p},
                !.content = content, !.overwrite = FALSE, !.wait = TRUE,
                !.saw = saw]]
        /\ Begun(f, {p}) /\ UNCHANGED <<operations, answers>>
  BY DEF WriteFile
<1>3. /\ \A g \in Callers : g # f => calls'[g] = calls[g]
      /\ calls'[f].op = "write" /\ calls'[f].at = "checking"
      /\ calls'[f].paths = {p} /\ calls'[f].content = content
      /\ calls'[f].wait /\ ~calls'[f].several
  BY <1>0, <1>2 DEF NoCall
<1>4. known'[p] = f /\ \A q \in Paths : q # p => known'[q] = known[q]
  BY <1>0, <1>2, Undisturbed DEF Begun
<1>5. AwaitedInv'
  <2>1. ASSUME NEW o \in operations
        PROVE  o.wait /\ (o.op = "write" => o.content = calls'[o.c].content)
    <3>1. o.c \in Callers /\ o.wait /\ calls[o.c].at = "waiting"
          /\ (o.op = "write" => o.content = calls[o.c].content)
      BY DEF IInv, StorageTypeOK, Operation, KInv, WaitInv, AwaitedInv
    <3>2. o.c # f
      BY <3>1 DEF NoCall
    <3> QED
      BY <1>3, <3>1, <3>2
  <2>2. ASSUME NEW g \in Uploads
        PROVE  /\ calls'[g].paths \subseteq PathsOf(g) /\ calls'[g].wait
               /\ ~calls'[g].several
    BY <1>3 DEF AwaitedInv, Uploads
  <2> QED
    BY <1>2, <2>1, <2>2 DEF AwaitedInv, Begun
<1> QED
  BY <1>1, <1>2, <1>3, <1>4, <1>5 DEF Begins, Pending, Uploads

LEMMA DeletionBegins ==
  ASSUME IInv, KInv, AwaitedInv, NEW f \in Uploads, calls[f] = NoCall,
         NEW p \in PathsOf(f), DeleteFile(f, p, TRUE, FALSE)
  PROVE  Begins(f, "delete", p, None)
<1> DEFINE call == [NoCall EXCEPT !.op = "delete", !.paths = {p},
                      !.wait = TRUE, !.ignoreMissing = FALSE]
<1>0. f \in Callers /\ p \in Paths /\ calls \in [Callers -> CallRecord]
  BY OwnFiles DEF Uploads, PathsOf, IInv, StorageTypeOK
<1>1. /\ call \in CallRecord /\ call.op = "delete" /\ call.at = "idle"
      /\ call.paths = {p} /\ call.wait /\ call.content = None /\ ~call.several
  BY <1>0 DEF NoCall, CallRecord, Facts
<1>2. Delete(f, call)
  BY DEF DeleteFile
<1>3. /\ calls' = [calls EXCEPT ![f] = [call EXCEPT !.at = "waiting"]]
      /\ Begun(f, {p}) /\ UNCHANGED answers
      /\ operations' = operations \cup Issued(f, call)
  BY <1>1, <1>2 DEF Delete
<1> HIDE DEF call
<1>4. IInv' /\ KInv'
  <2>1. HistoryTypeOK'
    BY <1>0, <1>3, BegunHistory
  <2> QED
    BY <1>0, <1>1, <1>2, <2>1, DeleteKept, DeleteKnown, InvMeans
<1>5. /\ \A g \in Callers : g # f => calls'[g] = calls[g]
      /\ calls'[f].op = "delete" /\ calls'[f].at = "waiting"
      /\ calls'[f].paths = {p} /\ calls'[f].content = None
      /\ calls'[f].wait /\ ~calls'[f].several
  BY <1>0, <1>1, <1>3 DEF CallRecord
<1>6. known'[p] = f /\ \A q \in Paths : q # p => known'[q] = known[q]
  BY <1>0, <1>3, Undisturbed DEF Begun
<1>7. AwaitedInv'
  <2>1. ASSUME NEW o \in operations
        PROVE  o.wait /\ (o.op = "write" => o.content = calls'[o.c].content)
    <3>1. o.c \in Callers /\ o.wait /\ calls[o.c].at = "waiting"
          /\ (o.op = "write" => o.content = calls[o.c].content)
      BY DEF IInv, StorageTypeOK, Operation, KInv, WaitInv, AwaitedInv
    <3>2. o.c # f
      BY <3>1 DEF NoCall
    <3> QED
      BY <1>5, <3>1, <3>2
  <2>2. ASSUME NEW o \in Issued(f, call)
        PROVE  o.wait /\ o.op # "write"
    BY <1>1, IssuedMeans
  <2>3. ASSUME NEW g \in Uploads
        PROVE  /\ calls'[g].paths \subseteq PathsOf(g) /\ calls'[g].wait
               /\ ~calls'[g].several
    BY <1>5 DEF AwaitedInv, Uploads
  <2> QED
    BY <1>3, <2>1, <2>2, <2>3 DEF AwaitedInv, Begun
<1> QED
  BY <1>3, <1>4, <1>5, <1>6, <1>7 DEF Begins, Pending, Uploads

(* The others' images are as they were, and so is what is known of the     *)
(* other file of f.                                                        *)
LEMMA OthersKept ==
  ASSUME NEW f \in Uploads, NEW op, NEW p \in PathsOf(f), NEW content,
         Begins(f, op, p, content), ImagesInv, NEW to,
         UploadTypeOK, Moves(f, to), UNCHANGED createThumbnail,
         undeleted \subseteq undeleted'
  PROVE  \A g \in Uploads : g # f => ImageInv(g)'
<1> SUFFICES ASSUME NEW g \in Uploads, g # f
             PROVE  ImageInv(g)'
  OBVIOUS
<1>1. calls'[g] = calls[g] /\ answers'[g] = answers[g] /\ at'[g] = at[g]
  BY DEF Begins, Moves, UploadTypeOK
<1>2. \A q \in PathsOf(g) : known'[q] = known[q]
  <2>1. \A q \in PathsOf(g) : q # p /\ q \in Paths
    BY OwnFiles DEF PathsOf
  <2> QED
    BY <2>1 DEF Begins
<1> QED
  BY <1>1, <1>2, ImageKept DEF ImagesInv
LEMMA QuietKept ==
  ASSUME IInv, KInv, AwaitedInv, UNCHANGED storageVars
  PROVE  IInv' /\ KInv' /\ AwaitedInv'
<1>1. AwaitedInv'
  BY DEF AwaitedInv, storageVars
<1> QED
  BY <1>1, SameIInv, SameKInv

(* f moves on and the storage does nothing: only f has to be looked at.    *)
LEMMA MoveKept ==
  ASSUME UploadTypeOK, ImagesInv, NEW f \in Uploads, NEW to, Moves(f, to),
         UNCHANGED <<storageVars, createThumbnail>>,
         undeleted \subseteq undeleted',
         ImageInv(f)'
  PROVE  ImagesInv'
<1>1. ASSUME NEW g \in Uploads, g # f
      PROVE  ImageInv(g)'
  <2>1. /\ calls'[g] = calls[g] /\ answers'[g] = answers[g] /\ at'[g] = at[g]
        /\ \A p \in PathsOf(g) : known'[p] = known[p]
    BY <1>1 DEF Moves, UploadTypeOK, storageVars
  <2> QED
    BY <2>1, ImageKept DEF ImagesInv
<1> QED
  BY <1>1 DEF ImagesInv

(* An upload whose call is over, once it has failed                        *)
LEMMA FailedKept ==
  ASSUME UploadTypeOK, ImagesInv, NEW f \in Uploads, calls[f] = NoCall,
         Moves(f, "failed"),
         UNCHANGED <<storageVars, createThumbnail, undeleted>>
  PROVE  ImagesInv'
<1>1. ImageInv(f) /\ at'[f] = "failed" /\ calls'[f] = NoCall
      /\ known' = known
  BY DEF ImagesInv, Moves, UploadTypeOK, storageVars
<1>2. ImageInv(f)'
  BY <1>1 DEF ImageInv, Thumbnail
<1> QED
  BY <1>2, MoveKept

(* The steps of one upload that do not call the storage                    *)
LEMMA StoredKept ==
  ASSUME UploadTypeOK, ImagesInv, NEW f \in Uploads, Stored(f)
  PROVE  ImagesInv'
<1>0. ImageInv(f) /\ at[f] \in {"storing", "storingThumbnail"}
  BY DEF ImagesInv, Stored
<1>1. /\ calls[f] = NoCall
      /\ answers[f] = "done" =>
           /\ at[f] = "storing" => known[Image(f)] = "image"
           /\ at[f] = "storingThumbnail" => known[Thumbnail(f)] = "thumbnail"
  BY <1>0 DEF ImageInv, Doing, Pending, Stored, Idle
<1>2. CASE answers[f] # "done"
  BY <1>1, <1>2, FailedKept DEF Stored, StoredImage, Rejected
<1>3. CASE answers[f] = "done"
  <2> DEFINE to == IF at[f] = "storing" THEN "unlinking" ELSE "unlinkingThumbnail"
  <2>1. /\ Moves(f, to) /\ at'[f] = to
        /\ UNCHANGED <<storageVars, createThumbnail, undeleted>>
    BY <1>3 DEF Stored, StoredImage, Moves, UploadTypeOK
  <2>2. calls' = calls /\ known' = known /\ createThumbnail' = createThumbnail
    BY <2>1 DEF storageVars
  <2>3. ImageInv(f)'
    BY <1>0, <1>1, <1>3, <2>1, <2>2 DEF ImageInv, Image, Thumbnail
  <2> QED
    BY <2>1, <2>3, MoveKept
<1> QED
  BY <1>2, <1>3

LEMMA UnlinkedKept ==
  ASSUME UploadTypeOK, ImagesInv, NEW f \in Uploads, Unlinked(f)
  PROVE  ImagesInv'
<1>0. /\ ImageInv(f) /\ at[f] \in {"unlinking", "unlinkingThumbnail"}
      /\ UNCHANGED <<storageVars, createThumbnail, undeleted>>
  BY DEF ImagesInv, Unlinked
<1>1. PICK to \in {"thumbnail", "done"} :
        Moves(f, to) /\ (to = "thumbnail" <=> at[f] = "unlinking" /\ createThumbnail)
  BY DEF Unlinked, Finished
<1>2. /\ at'[f] = to /\ calls' = calls /\ known' = known
      /\ createThumbnail' = createThumbnail
  BY <1>0, <1>1 DEF Moves, UploadTypeOK, storageVars
<1>3. ImageInv(f)'
  BY <1>0, <1>1, <1>2 DEF ImageInv, Image, Thumbnail
<1> QED
  BY <1>0, <1>1, <1>3, MoveKept

LEMMA ThumbnailDeletedKept ==
  ASSUME UploadTypeOK, ImagesInv, NEW f \in Uploads, ThumbnailDeleted(f)
  PROVE  ImagesInv'
<1>0. /\ ImageInv(f) /\ at[f] = "deletingThumbnail" /\ Moves(f, "cleaned")
      /\ UNCHANGED <<storageVars, createThumbnail>>
      /\ undeleted' = undeleted \cup
           (IF answers[f] = "done" THEN {} ELSE {Thumbnail(f)})
  BY DEF ImagesInv, ThumbnailDeleted
<1>1. /\ calls[f] = NoCall
      /\ answers[f] = "done" => known[Thumbnail(f)] = None
      /\ known[Image(f)] = None \/ Image(f) \in undeleted
  BY <1>0 DEF ImageInv, Doing, Pending, ThumbnailDeleted, Idle
<1>2. /\ at'[f] = "cleaned" /\ calls' = calls /\ known' = known
      /\ createThumbnail' = createThumbnail
  BY <1>0 DEF Moves, UploadTypeOK, storageVars
<1>3. ImageInv(f)'
  BY <1>0, <1>1, <1>2 DEF ImageInv, Image, Thumbnail
<1> QED
  BY <1>0, <1>3, MoveKept

(* Those that do                                                           *)
LEMMA WriteImageKept ==
  ASSUME IInv, KInv, AwaitedInv, UploadTypeOK, ImagesInv, NEW f \in Uploads,
         WriteImage(f)
  PROVE  IInv' /\ KInv' /\ AwaitedInv' /\ ImagesInv'
<1>0. /\ ImageInv(f) /\ at[f] = "resizing" /\ Moves(f, "storing")
      /\ WriteFile(f, Image(f), "image", FALSE, TRUE)
      /\ UNCHANGED <<createThumbnail, undeleted>>
  BY DEF ImagesInv, WriteImage, Converted
<1>1. Begins(f, "write", Image(f), "image")
  BY <1>0, OwnFiles, WriteBegins DEF ImageInv, PathsOf
<1>2. /\ at'[f] = "storing" /\ known'[Thumbnail(f)] = known[Thumbnail(f)]
      /\ Doing(f, "write", Image(f), "image")'
  BY <1>0, <1>1, OwnFiles DEF Moves, UploadTypeOK, Begins, Doing
<1>3. ImageInv(f)'
  BY <1>0, <1>2 DEF ImageInv, Thumbnail
<1>4. ImagesInv'
  BY <1>0, <1>1, <1>3, OthersKept DEF ImagesInv, PathsOf
<1> QED
  BY <1>1, <1>4 DEF Begins

LEMMA WriteThumbnailKept ==
  ASSUME IInv, KInv, AwaitedInv, UploadTypeOK, ImagesInv, NEW f \in Uploads,
         WriteThumbnail(f)
  PROVE  IInv' /\ KInv' /\ AwaitedInv' /\ ImagesInv'
<1>0. /\ ImageInv(f) /\ at[f] = "thumbnail" /\ Moves(f, "storingThumbnail")
      /\ WriteFile(f, Thumbnail(f), "thumbnail", FALSE, TRUE)
      /\ UNCHANGED <<createThumbnail, undeleted>>
  BY DEF ImagesInv, WriteThumbnail, Converted
<1>1. Begins(f, "write", Thumbnail(f), "thumbnail")
  BY <1>0, OwnFiles, WriteBegins DEF ImageInv, PathsOf
<1>2. /\ at'[f] = "storingThumbnail" /\ known'[Image(f)] = known[Image(f)]
      /\ Doing(f, "write", Thumbnail(f), "thumbnail")'
  BY <1>0, <1>1, OwnFiles DEF Moves, UploadTypeOK, Begins, Doing
<1>3. ImageInv(f)'
  BY <1>0, <1>2 DEF ImageInv, Image
<1>4. ImagesInv'
  BY <1>0, <1>1, <1>3, OthersKept DEF ImagesInv, PathsOf
<1> QED
  BY <1>1, <1>4 DEF Begins

LEMMA DeleteImageKept ==
  ASSUME IInv, KInv, AwaitedInv, UploadTypeOK, ImagesInv, NEW f \in Uploads,
         DeleteImage(f)
  PROVE  IInv' /\ KInv' /\ AwaitedInv' /\ ImagesInv'
<1>0. /\ ImageInv(f) /\ at[f] = "done" /\ Moves(f, "deleting")
      /\ DeleteFile(f, Image(f), TRUE, FALSE)
      /\ UNCHANGED <<createThumbnail, undeleted>>
  BY DEF ImagesInv, DeleteImage
<1>1. Begins(f, "delete", Image(f), None)
  BY <1>0, OwnFiles, DeletionBegins DEF ImageInv, PathsOf
<1>2. /\ at'[f] = "deleting" /\ known'[Thumbnail(f)] = known[Thumbnail(f)]
      /\ Doing(f, "delete", Image(f), None)'
  BY <1>0, <1>1, OwnFiles DEF Moves, UploadTypeOK, Begins, Doing
<1>3. ImageInv(f)'
  BY <1>0, <1>2 DEF ImageInv, Thumbnail
<1>4. ImagesInv'
  BY <1>0, <1>1, <1>3, OthersKept DEF ImagesInv, PathsOf
<1> QED
  BY <1>1, <1>4 DEF Begins

LEMMA ImageDeletedKept ==
  ASSUME IInv, KInv, AwaitedInv, UploadTypeOK, ImagesInv, NEW f \in Uploads,
         ImageDeleted(f)
  PROVE  IInv' /\ KInv' /\ AwaitedInv' /\ ImagesInv'
<1>0. /\ ImageInv(f) /\ at[f] = "deleting" /\ UNCHANGED createThumbnail
      /\ undeleted' = undeleted \cup
           (IF answers[f] = "done" THEN {} ELSE {Image(f)})
  BY DEF ImagesInv, ImageDeleted
<1>1. calls[f] = NoCall /\ (known[Image(f)] = None \/ Image(f) \in undeleted')
  BY <1>0 DEF ImageInv, Doing, Pending, ImageDeleted, Idle
<1>2. CASE createThumbnail
  <2>1. DeleteFile(f, Thumbnail(f), TRUE, FALSE) /\ Moves(f, "deletingThumbnail")
    BY <1>2 DEF ImageDeleted
  <2>2. Begins(f, "delete", Thumbnail(f), None)
    BY <1>1, <2>1, DeletionBegins DEF PathsOf
  <2>3. /\ at'[f] = "deletingThumbnail" /\ known'[Image(f)] = known[Image(f)]
        /\ Doing(f, "delete", Thumbnail(f), None)'
    BY <2>1, <2>2, OwnFiles DEF Moves, UploadTypeOK, Begins, Doing
  <2>4. ImageInv(f)'
    BY <1>0, <1>1, <1>2, <2>3 DEF ImageInv, Image
  <2>5. ImagesInv'
    BY <1>0, <2>1, <2>2, <2>4, OthersKept DEF ImagesInv, PathsOf
  <2> QED
    BY <2>2, <2>5 DEF Begins
<1>3. CASE ~createThumbnail
  <2>1. Moves(f, "cleaned") /\ UNCHANGED storageVars
    BY <1>3 DEF ImageDeleted
  <2>2. at'[f] = "cleaned" /\ calls' = calls /\ known' = known
    BY <2>1 DEF Moves, UploadTypeOK, storageVars
  <2>3. ImageInv(f)'
    BY <1>0, <1>1, <1>3, <2>2 DEF ImageInv, Image, Thumbnail
  <2>4. ImagesInv'
    BY <1>0, <2>1, <2>3, MoveKept
  <2> QED
    BY <2>1, <2>4, QuietKept
<1> QED
  BY <1>2, <1>3
(* Where the request is, and where its uploads are then                    *)
RequestInv ==
  /\ request = "new" => \A f \in Uploads : at[f] = "none"
  /\ request \in {"processing", "failed"} =>
       \A f \in Uploads : at[f] \notin {"none", "deleting", "deletingThumbnail",
                                        "cleaned"}
  /\ request = "processing" => \A f \in Uploads : at[f] # "failed"
  /\ request = "succeeded" => \A f \in Uploads : at[f] = "done"
  /\ request = "cleaning" =>
       \A f \in Uploads : at[f] \in {"done", "deleting", "deletingThumbnail",
                                     "cleaned"}
  /\ request = "cleaned" => \A f \in Uploads : at[f] = "cleaned"

UploadInv == UploadTypeOK /\ AwaitedInv /\ ImagesInv /\ RequestInv

LEMMA InitUploadInv ==
  ASSUME UploadInit
  PROVE  IInv /\ KInv /\ UploadInv
<1>1. IInv /\ KInv /\ StorageTypeOK
  BY InitIInv, InitKInv DEF UploadInit, IInv
<1>2. /\ operations = {} /\ request = "new"
      /\ \A f \in Uploads : calls[f] = NoCall /\ at[f] = "none"
      /\ \A p \in Paths : known[p] = None
      /\ swallowed = {}
  BY DEF UploadInit, StorageInit, Uploads
<1>3. AwaitedInv
  <2>1. NoCall.paths = {} /\ NoCall.wait /\ ~NoCall.several
    BY DEF NoCall
  <2> QED
    BY <1>2, <2>1 DEF AwaitedInv
<1>4. ImagesInv
  BY <1>2, OwnFiles DEF ImagesInv, ImageInv
<1>5. UploadTypeOK /\ RequestInv
  BY <1>1, <1>2 DEF UploadInit, UploadTypeOK, RequestInv
<1> QED
  BY <1>1, <1>3, <1>4, <1>5 DEF UploadInv

(* The storage and the images, step by step                                *)
LEMMA NextImagesInv ==
  ASSUME IInv, KInv, UploadInv, UploadNext
  PROVE  IInv' /\ KInv' /\ AwaitedInv' /\ ImagesInv'
<1> USE DEF UploadInv
<1>1. CASE StorageStep /\ UNCHANGED imageVars
  <2>1. IInv' /\ KInv' /\ AwaitedInv'
    BY <1>1, StepIInv, StepKInv, StepAwaitedInv
  <2>2. ImagesInv'
    BY <1>1, StepEffect, StepImageInv DEF ImagesInv
  <2> QED
    BY <2>1, <2>2
<1>2. CASE ProcessMultipartPayload
  <2>1. ASSUME NEW f \in Uploads
        PROVE  ImageInv(f)'
    <3>1. /\ at[f] = "none" /\ at'[f] = "format" /\ calls' = calls /\ known' = known
          /\ createThumbnail' = createThumbnail /\ ImageInv(f)
      BY <1>2 DEF ProcessMultipartPayload, storageVars, RequestInv, ImagesInv
    <3> QED
      BY <3>1 DEF ImageInv, Thumbnail
  <2>2. ImagesInv' /\ UNCHANGED storageVars
    BY <1>2, <2>1 DEF ImagesInv, ProcessMultipartPayload
  <2> QED
    BY <2>2, QuietKept
<1>3. ASSUME UNCHANGED <<storageVars, createThumbnail, at, undeleted>>
      PROVE  IInv' /\ KInv' /\ AwaitedInv' /\ ImagesInv'
  <2>1. \A f \in Uploads : ImageInv(f)'
    BY <1>3, ImageKept DEF storageVars, ImagesInv
  <2> QED
    BY <1>3, <2>1, QuietKept DEF ImagesInv
<1>4. CASE Answered \/ CleanupImageUploads \/ CleanedUp
           \/ \E path \in unlinks : UnlinkEnds(path)
  BY <1>3, <1>4 DEF Answered, CleanupImageUploads, CleanedUp, UnlinkEnds
<1>5. ASSUME NEW f \in Uploads, FormatFound(f) \/ ConversionFails(f)
      PROVE  IInv' /\ KInv' /\ AwaitedInv' /\ ImagesInv'
  <2>1. /\ at[f] \in {"format", "resizing", "thumbnail"} /\ ImageInv(f)
        /\ UNCHANGED <<storageVars, createThumbnail, undeleted>>
        /\ Moves(f, "failed") \/ (at[f] = "format" /\ Moves(f, "resizing"))
    BY <1>5 DEF FormatFound, ConversionFails, Rejected, ImagesInv
  <2>2. calls[f] = NoCall
    BY <2>1 DEF ImageInv
  <2>3. CASE Moves(f, "failed")
    BY <2>1, <2>2, <2>3, FailedKept, QuietKept
  <2>4. CASE at[f] = "format" /\ Moves(f, "resizing")
    <3>1. at'[f] = "resizing" /\ calls' = calls /\ known' = known
          /\ createThumbnail' = createThumbnail
      BY <2>1, <2>4 DEF Moves, UploadTypeOK, storageVars
    <3>2. ImageInv(f)'
      BY <2>1, <2>2, <3>1 DEF ImageInv, Thumbnail
    <3> QED
      BY <2>1, <2>4, <3>2, MoveKept, QuietKept
  <2> QED
    BY <2>1, <2>3, <2>4
<1>6. ASSUME NEW f \in Uploads, Stored(f) \/ Unlinked(f) \/ ThumbnailDeleted(f)
      PROVE  IInv' /\ KInv' /\ AwaitedInv' /\ ImagesInv'
  <2>1. UNCHANGED storageVars
    BY <1>6 DEF Stored, Unlinked, ThumbnailDeleted
  <2> QED
    BY <1>6, <2>1, QuietKept, StoredKept, UnlinkedKept, ThumbnailDeletedKept
<1>7. ASSUME NEW f \in Uploads,
             WriteImage(f) \/ WriteThumbnail(f) \/ DeleteImage(f) \/ ImageDeleted(f)
      PROVE  IInv' /\ KInv' /\ AwaitedInv' /\ ImagesInv'
  BY <1>7, WriteImageKept, WriteThumbnailKept, DeleteImageKept, ImageDeletedKept
<1> QED
  BY <1>1, <1>2, <1>4, <1>5, <1>6, <1>7 DEF UploadNext

(* The request, step by step: an upload that is rejected fails it.         *)
LEMMA NextRequestInv ==
  ASSUME UploadInv, UploadNext
  PROVE  RequestInv'
<1> USE DEF UploadInv
<1>0. /\ at \in [Uploads -> {"none", "format", "resizing", "storing", "unlinking",
                         "thumbnail", "storingThumbnail",
                         "unlinkingThumbnail", "done", "failed",
                         "deleting", "deletingThumbnail", "cleaned"}]
      /\ request \in {"new", "processing", "failed", "succeeded", "cleaning",
                      "cleaned"}
  BY DEF UploadTypeOK
<1>1. CASE UNCHANGED <<request, at>>
  BY <1>1 DEF RequestInv
<1>2. CASE ProcessMultipartPayload
  BY <1>2 DEF ProcessMultipartPayload, RequestInv
<1>3. CASE Answered \/ CleanupImageUploads \/ CleanedUp
  BY <1>3 DEF Answered, CleanupImageUploads, CleanedUp, RequestInv
<1>4. ASSUME NEW f \in Uploads, NEW unlinked, Rejected(f, unlinked),
             at[f] \in {"format", "resizing", "thumbnail", "storing",
                        "storingThumbnail"}
      PROVE  RequestInv'
  <2>1. request \in {"processing", "failed"}
    BY <1>0, <1>4 DEF RequestInv
  <2>2. request' = "failed" /\ at' = [at EXCEPT ![f] = "failed"]
    BY <1>4, <2>1 DEF Rejected, Moves
  <2>3. \A g \in Uploads : at'[g] = "failed" \/ at'[g] = at[g]
    BY <1>0, <2>2
  <2> QED
    BY <2>1, <2>2, <2>3 DEF RequestInv
<1>5. ASSUME NEW f \in Uploads, UNCHANGED request,
             at[f] \in {"format", "resizing", "thumbnail", "storing",
                        "storingThumbnail", "unlinking", "unlinkingThumbnail"},
             NEW to \in {"resizing", "thumbnail", "storing", "storingThumbnail",
                         "unlinking", "unlinkingThumbnail", "done"},
             Moves(f, to)
      PROVE  RequestInv'
  <2>1. request \in {"processing", "failed"}
    BY <1>0, <1>5 DEF RequestInv
  <2>2. \A g \in Uploads : at'[g] = to \/ at'[g] = at[g]
    BY <1>0, <1>5 DEF Moves
  <2> QED
    BY <1>5, <2>1, <2>2 DEF RequestInv
<1>6. ASSUME NEW f \in Uploads, UNCHANGED request,
             at[f] \in {"done", "deleting", "deletingThumbnail"},
             at[f] = "done" => request = "cleaning",
             NEW to \in {"deleting", "deletingThumbnail", "cleaned"},
             Moves(f, to)
      PROVE  RequestInv'
  <2>1. request = "cleaning"
    BY <1>0, <1>6 DEF RequestInv
  <2>2. \A g \in Uploads : at'[g] = to \/ at'[g] = at[g]
    BY <1>0, <1>6 DEF Moves
  <2> QED
    BY <1>6, <2>1, <2>2 DEF RequestInv
<1>7. ASSUME NEW f \in Uploads, FormatFound(f) \/ ConversionFails(f) \/ Stored(f)
      PROVE  RequestInv'
  BY <1>4, <1>5, <1>7 DEF FormatFound, ConversionFails, Stored
<1>8. ASSUME NEW f \in Uploads, WriteImage(f) \/ WriteThumbnail(f) \/ Unlinked(f)
      PROVE  RequestInv'
  BY <1>5, <1>8 DEF WriteImage, WriteThumbnail, Converted, Unlinked, Finished
<1>9. ASSUME NEW f \in Uploads,
             DeleteImage(f) \/ ImageDeleted(f) \/ ThumbnailDeleted(f)
      PROVE  RequestInv'
  BY <1>6, <1>9 DEF DeleteImage, ImageDeleted, ThumbnailDeleted
<1>10. CASE StorageStep /\ UNCHANGED imageVars
  BY <1>1, <1>10 DEF imageVars
<1>11. ASSUME NEW path \in unlinks, UnlinkEnds(path)
       PROVE  RequestInv'
  BY <1>1, <1>11 DEF UnlinkEnds
<1> QED
  BY <1>2, <1>3, <1>7, <1>8, <1>9, <1>10, <1>11 DEF UploadNext
(* The types of what the images add                                        *)
LEMMA NextUploadTypes ==
  ASSUME UploadTypeOK, StorageTypeOK', UploadNext
  PROVE  UploadTypeOK'
<1>0. \A f \in Uploads : /\ Image(f) \in Temps /\ Thumbnail(f) \in Temps
                         /\ Upload(f) \in Temps
                         /\ Image(f) \in Paths /\ Thumbnail(f) \in Paths
  BY OwnFiles DEF Temps
<1>1. ASSUME NEW f \in Uploads
      PROVE  UploadsOf(f) \subseteq Temps
  BY DEF UploadsOf, Temps
<1>2. ASSUME NEW f \in Uploads, NEW unlinked \in SUBSET Temps, Rejected(f, unlinked)
      PROVE  /\ unlinks' \subseteq Temps /\ at' = [at EXCEPT ![f] = "failed"]
             /\ request' \in {request, "failed"}
  BY <1>1, <1>2 DEF Rejected, Moves, UploadTypeOK
<1>3. CASE StorageStep /\ UNCHANGED imageVars
  BY <1>3 DEF imageVars, UploadTypeOK, Temps
<1>4. CASE ProcessMultipartPayload
  BY <1>0, <1>4 DEF ProcessMultipartPayload, UploadTypeOK, Temps
<1>5. CASE Answered \/ CleanupImageUploads \/ CleanedUp
  BY <1>5 DEF Answered, CleanupImageUploads, CleanedUp, UploadTypeOK, Temps
<1>6. ASSUME NEW f \in Uploads, FormatFound(f)
      PROVE  UploadTypeOK'
  <2>1. {} \subseteq Temps /\ {Upload(f)} \subseteq Temps
    BY <1>0
  <2>2. CASE Rejected(f, {}) \/ Rejected(f, {Upload(f)})
    BY <1>2, <1>6, <2>1, <2>2 DEF FormatFound, UploadTypeOK, Temps
  <2>3. CASE Moves(f, "resizing") /\ UNCHANGED <<request, unlinks>>
    BY <1>6, <2>3 DEF FormatFound, Moves, UploadTypeOK, Temps
  <2> QED
    BY <1>6, <2>2, <2>3 DEF FormatFound
<1>7. ASSUME NEW f \in Uploads, ConversionFails(f)
      PROVE  UploadTypeOK'
  <2>1. {} \subseteq Temps /\ Rejected(f, {})
    BY <1>7 DEF ConversionFails
  <2>2. temps' \subseteq Temps /\ left' \subseteq Temps
    BY <1>0, <1>7 DEF ConversionFails, UploadTypeOK
  <2> QED
    BY <1>2, <1>7, <2>1, <2>2 DEF ConversionFails, UploadTypeOK, Temps
<1>8. ASSUME NEW f \in Uploads, Stored(f)
      PROVE  UploadTypeOK'
  <2>1. CASE StoredImage(f)
    BY <1>8, <2>1 DEF Stored, Moves, UploadTypeOK, Temps
  <2>2. CASE ~StoredImage(f)
    <3>1. {} \subseteq Temps /\ Rejected(f, {}) /\ left' \subseteq Temps
      BY <1>0, <1>8, <2>2 DEF Stored, UploadTypeOK
    <3> QED
      BY <1>2, <1>8, <3>1 DEF Stored, UploadTypeOK, Temps
  <2> QED
    BY <2>1, <2>2
<1>9. ASSUME NEW f \in Uploads, Unlinked(f)
      PROVE  UploadTypeOK'
  <2>1. temps' \subseteq Temps /\ left' \subseteq Temps /\ unlinks' \subseteq Temps
    BY <1>0, <1>9 DEF Unlinked, Finished, UploadTypeOK
  <2> QED
    BY <1>9, <2>1 DEF Unlinked, Finished, Moves, UploadTypeOK, Temps
<1>10. ASSUME NEW f \in Uploads, WriteImage(f) \/ WriteThumbnail(f)
       PROVE  UploadTypeOK'
  BY <1>0, <1>10 DEF WriteImage, WriteThumbnail, Converted, Moves, UploadTypeOK, Temps
<1>11. ASSUME NEW f \in Uploads, DeleteImage(f) \/ ImageDeleted(f) \/ ThumbnailDeleted(f)
       PROVE  UploadTypeOK'
  <2>1. undeleted' \subseteq Paths
    BY <1>0, <1>11 DEF DeleteImage, ImageDeleted, ThumbnailDeleted, UploadTypeOK
  <2>2. /\ \E to \in {"deleting", "deletingThumbnail", "cleaned"} : Moves(f, to)
        /\ UNCHANGED <<request, createThumbnail, temps, unlinks, left>>
    BY <1>11 DEF DeleteImage, ImageDeleted, ThumbnailDeleted
  <2> QED
    BY <2>1, <2>2 DEF Moves, UploadTypeOK, Temps
<1>12. ASSUME NEW path \in unlinks, UnlinkEnds(path)
       PROVE  UploadTypeOK'
  BY <1>12 DEF UnlinkEnds, UploadTypeOK, Temps
<1> QED
  BY <1>3, <1>4, <1>5, <1>6, <1>7, <1>8, <1>9, <1>10, <1>11, <1>12 DEF UploadNext

LEMMA NextUploadInv ==
  IInv /\ KInv /\ UploadInv /\ [UploadNext]_uploadVars => IInv' /\ KInv' /\ UploadInv'
<1> SUFFICES ASSUME IInv, KInv, UploadInv, [UploadNext]_uploadVars
             PROVE  IInv' /\ KInv' /\ UploadInv'
  OBVIOUS
<1>1. CASE UploadNext
  <2>1. IInv' /\ KInv' /\ AwaitedInv' /\ ImagesInv'
    BY <1>1, NextImagesInv
  <2>2. UploadTypeOK'
    BY <1>1, <2>1, NextUploadTypes DEF UploadInv, IInv
  <2> QED
    BY <1>1, <2>1, <2>2, NextRequestInv DEF UploadInv
<1>2. CASE UNCHANGED uploadVars
  <2>1. UNCHANGED <<storageVars, request, createThumbnail, at, temps, unlinks,
                    left, undeleted>>
    BY <1>2 DEF uploadVars, imageVars
  <2>2. IInv' /\ KInv' /\ AwaitedInv'
    BY <2>1, QuietKept DEF UploadInv
  <2>3. ImagesInv'
    BY <2>1, ImageKept DEF storageVars, UploadInv, ImagesInv
  <2>4. UploadTypeOK' /\ RequestInv'
    BY <2>1, <2>2 DEF UploadInv, UploadTypeOK, RequestInv, IInv, Temps
  <2> QED
    BY <2>2, <2>3, <2>4 DEF UploadInv
<1> QED
  BY <1>1, <1>2

(* The request, its uploads and their temporary files keep their types.    *)
(* (ImageService)                                                          *)
THEOREM UploadTypes == UploadSpec => []UploadTypeOK
<1>1. UploadInit => IInv /\ KInv /\ UploadInv
  BY InitUploadInv
<1>2. UploadInv => UploadTypeOK
  BY DEF UploadInv
<1> QED
  BY <1>1, <1>2, NextUploadInv, PTL DEF UploadSpec

(* The images of a request that succeeded are stored, with the thumbnails  *)
(* it wanted, and none that could be deleted is once it is cleaned up,     *)
(* whatever the operations of all uploads do to each other.                *)
(* (processMultipartPayload, cleanupImageUploads)                          *)
THEOREM Images == UploadSpec => []ImagesAsAnswered
<1>1. ASSUME KInv, UploadInv
      PROVE  ImagesAsAnswered
  <2>1. /\ \A p \in Paths : known[p] \in Facts => files[p] = known[p]
        /\ {"image", "thumbnail", None} \subseteq Facts
    BY <1>1, OwnFiles
       DEF KInv, KnownInv, KnownOK, Facts, UploadInv, AwaitedInv
  <2>2. ASSUME request = "succeeded", NEW f \in Uploads
        PROVE  /\ files[Image(f)] = "image"
               /\ createThumbnail => files[Thumbnail(f)] = "thumbnail"
    <3>1. at[f] = "done" /\ ImageInv(f)
      BY <1>1, <2>2 DEF UploadInv, RequestInv, ImagesInv
    <3> QED
      BY <2>1, <3>1, OwnFiles DEF ImageInv
  <2>3. ASSUME request = "cleaned", NEW p \in Paths, Holds(p)
        PROVE  p \in undeleted
    <3>1. PICK f \in Uploads : p \in PathsOf(f)
      BY OwnFiles
    <3>2. at[f] = "cleaned" /\ ImageInv(f)
      BY <1>1, <2>3 DEF UploadInv, RequestInv, ImagesInv
    <3>3. known[p] = None \/ p \in undeleted
      BY <3>1, <3>2 DEF ImageInv, PathsOf
    <3> QED
      BY <2>1, <2>3, <3>3 DEF Holds
  <2> QED
    BY <2>2, <2>3 DEF ImagesAsAnswered
<1>2. UploadInit => IInv /\ KInv /\ UploadInv
  BY InitUploadInv
<1> QED
  BY <1>1, <1>2, NextUploadInv, PTL DEF UploadSpec

-----------------------------------------------------------------------------
(* A temporary file is about to be unlinked, cannot be, or belongs to an   *)
(* upload that is still using it.                                          *)
TempOK(f) ==
  /\ (at[f] = "done" \/ request = "failed") /\ Upload(f) \in temps =>
       Upload(f) \in unlinks \cup left
  /\ Image(f) \in temps =>
       Image(f) \in left \/ at[f] \in {"storing", "unlinking"}
  /\ Thumbnail(f) \in temps =>
       \/ Thumbnail(f) \in left
       \/ at[f] \in {"storingThumbnail", "unlinkingThumbnail"}
TempInv == \A f \in Uploads : TempOK(f)

(* Where f stays, its files are only removed, or their removal fails; and  *)
(* a request that fails has its upload unlinked.                           *)
LEMMA TempKept ==
  ASSUME NEW f \in Uploads, TempOK(f), at'[f] = at[f], left \subseteq left',
         \A p \in {Upload(f), Image(f), Thumbnail(f)} : p \in temps' => p \in temps,
         Upload(f) \in unlinks /\ Upload(f) \in temps' =>
           Upload(f) \in unlinks' \cup left',
         request' = "failed" => request = "failed" \/ Upload(f) \in unlinks'
  PROVE  TempOK(f)'
BY DEF TempOK, Image, Thumbnail, Upload
(* f moves on: of the others' files only those of the failed are touched.  *)
LEMMA TempMoves ==
  ASSUME UploadTypeOK, TempInv, NEW f \in Uploads, NEW to, Moves(f, to),
         left \subseteq left', unlinks \subseteq unlinks',
         temps' \subseteq temps \cup {Image(f), Thumbnail(f)},
         request' = "failed" =>
           request = "failed" \/ \A g \in Uploads : Upload(g) \in unlinks',
         TempOK(f)'
  PROVE  TempInv'
<1>1. ASSUME NEW g \in Uploads, g # f
      PROVE  TempOK(g)'
  <2>1. at'[g] = at[g]
    BY <1>1 DEF Moves, UploadTypeOK
  <2>2. \A p \in {Upload(g), Image(g), Thumbnail(g)} : p \in temps' => p \in temps
    BY <1>1, OwnFiles
  <2> QED
    BY <2>1, <2>2, TempKept DEF TempInv
<1> QED
  BY <1>1 DEF TempInv

LEMMA RejectedTemps ==
  ASSUME UploadTypeOK, RequestInv, TempInv, NEW f \in Uploads, NEW unlinked,
         at[f] \in {"format", "resizing", "thumbnail", "storing",
                    "storingThumbnail"},
         Rejected(f, unlinked), left \subseteq left',
         temps' \subseteq temps \cup {Image(f), Thumbnail(f)},
         Image(f) \in temps' => Image(f) \in left' \/ (Image(f) \in temps /\ at[f] # "storing"),
         Thumbnail(f) \in temps' =>
           Thumbnail(f) \in left' \/ (Thumbnail(f) \in temps /\ at[f] # "storingThumbnail")
  PROVE  TempInv'
<1>1. request \in {"processing", "failed"} /\ at'[f] = "failed"
      /\ Moves(f, "failed") /\ unlinks \subseteq unlinks'
  BY DEF UploadTypeOK, RequestInv, Rejected, Moves
<1>2. request # "failed" => \A g \in Uploads : Upload(g) \in unlinks'
  BY <1>1 DEF Rejected, UploadsOf
<1>3. TempOK(f)'
  <2>1. TempOK(f)
    BY DEF TempInv
  <2>2. Upload(f) \in temps' => Upload(f) \in unlinks' \cup left'
    BY <1>1, <1>2, <2>1, OwnFiles DEF TempOK
  <2>3. /\ Image(f) \in temps' => Image(f) \in left'
        /\ Thumbnail(f) \in temps' => Thumbnail(f) \in left'
    BY <2>1 DEF TempOK
  <2> QED
    BY <2>2, <2>3 DEF TempOK, Image, Thumbnail, Upload
<1> QED
  BY <1>1, <1>2, <1>3, TempMoves

(* The temporary files, step by step                                       *)
LEMMA NextTempInv ==
  ASSUME UploadTypeOK, RequestInv, TempInv, UploadNext
  PROVE  TempInv'
<1>0. \A f \in Uploads : /\ Upload(f)' = Upload(f) /\ Image(f)' = Image(f)
                         /\ Thumbnail(f)' = Thumbnail(f) /\ TempOK(f)
  BY DEF Image, Thumbnail, Upload, TempInv
<1>1. CASE StorageStep /\ UNCHANGED imageVars
  BY <1>0, <1>1 DEF imageVars, TempInv, TempOK
<1>2. CASE ProcessMultipartPayload
  <2>1. /\ temps' = {Upload(f) : f \in Uploads} /\ request' = "processing"
        /\ \A f \in Uploads : at'[f] = "format"
    BY <1>2 DEF ProcessMultipartPayload
  <2>2. ASSUME NEW f \in Uploads
        PROVE  TempOK(f)'
    BY <1>0, <2>1, OwnFiles DEF TempOK
  <2> QED
    BY <2>2 DEF TempInv
<1>3. CASE Answered \/ CleanupImageUploads \/ CleanedUp
  <2>1. /\ UNCHANGED <<at, temps, unlinks, left>> /\ request' # "failed"
    BY <1>3 DEF Answered, CleanupImageUploads, CleanedUp
  <2> QED
    BY <1>0, <2>1, TempKept DEF TempInv
<1>4. ASSUME NEW f \in Uploads, FormatFound(f)
      PROVE  TempInv'
  <2>1. at[f] = "format" /\ UNCHANGED <<temps, left>>
    BY <1>4 DEF FormatFound
  <2>2. CASE \E unlinked : Rejected(f, unlinked)
    BY <2>1, <2>2, RejectedTemps
  <2>3. CASE Moves(f, "resizing") /\ UNCHANGED <<request, unlinks>>
    <3>1. at'[f] = "resizing"
      BY <2>3 DEF Moves, UploadTypeOK
    <3>2. TempOK(f)'
      BY <1>0, <2>1, <2>3, <3>1 DEF TempOK
    <3> QED
      BY <2>1, <2>3, <3>2, TempMoves
  <2> QED
    BY <1>4, <2>2, <2>3 DEF FormatFound
<1>5. ASSUME NEW f \in Uploads, ConversionFails(f)
      PROVE  TempInv'
  <2>1. /\ at[f] \in {"resizing", "thumbnail"} /\ Rejected(f, {})
        /\ \/ UNCHANGED <<temps, left>>
           \/ \E p \in {Image(f), Thumbnail(f)} :
                temps' = temps \cup {p} /\ left' = left \cup {p}
    BY <1>5 DEF ConversionFails
  <2> QED
    BY <2>1, RejectedTemps
<1>6. ASSUME NEW f \in Uploads, Stored(f)
      PROVE  TempInv'
  <2>1. at[f] \in {"storing", "storingThumbnail"} /\ UNCHANGED temps
    BY <1>6 DEF Stored
  <2>2. CASE StoredImage(f)
    <3> DEFINE to == IF at[f] = "storing" THEN "unlinking" ELSE "unlinkingThumbnail"
    <3>1. /\ Moves(f, to) /\ at'[f] = to /\ UNCHANGED <<request, unlinks, left>>
      BY <1>6, <2>2 DEF Stored, Moves, UploadTypeOK
    <3>2. TempOK(f)'
      BY <1>0, <2>1, <3>1 DEF TempOK
    <3> QED
      BY <2>1, <3>1, <3>2, TempMoves
  <2>3. CASE ~StoredImage(f)
    <3>1. /\ Rejected(f, {})
          /\ left' = left \cup
               {IF at[f] = "storing" THEN Image(f) ELSE Thumbnail(f)}
      BY <1>6, <2>3 DEF Stored
    <3> QED
      BY <2>1, <3>1, RejectedTemps
  <2> QED
    BY <2>2, <2>3
<1>7. ASSUME NEW f \in Uploads, Unlinked(f)
      PROVE  TempInv'
  <2>1. /\ at[f] \in {"unlinking", "unlinkingThumbnail"} /\ temps' \subseteq temps
        /\ left \subseteq left' /\ UNCHANGED request
        /\ at[f] = "unlinking" /\ Image(f) \in temps' => Image(f) \in left'
        /\ at[f] = "unlinkingThumbnail" /\ Thumbnail(f) \in temps' =>
             Thumbnail(f) \in left'
    BY <1>7 DEF Unlinked, Finished
  <2>2. PICK to \in {"thumbnail", "done"} :
          /\ Moves(f, to) /\ unlinks \subseteq unlinks'
          /\ to = "done" => Upload(f) \in unlinks'
    BY <1>7 DEF Unlinked, Finished
  <2>3. at'[f] = to
    BY <2>2 DEF Moves, UploadTypeOK
  <2>4. TempOK(f)'
    BY <1>0, <2>1, <2>2, <2>3 DEF TempOK
  <2> QED
    BY <2>1, <2>2, <2>4, TempMoves
<1>8. ASSUME NEW f \in Uploads, WriteImage(f) \/ WriteThumbnail(f)
      PROVE  TempInv'
  <2>1. /\ UNCHANGED <<request, unlinks, left>>
        /\ \/ /\ at[f] = "resizing" /\ Moves(f, "storing")
              /\ temps' = temps \cup {Image(f)}
           \/ /\ at[f] = "thumbnail" /\ Moves(f, "storingThumbnail")
              /\ temps' = temps \cup {Thumbnail(f)}
    BY <1>8 DEF WriteImage, WriteThumbnail, Converted
  <2>2. /\ at[f] = "resizing" => at'[f] = "storing"
        /\ at[f] = "thumbnail" => at'[f] = "storingThumbnail"
    BY <2>1 DEF Moves, UploadTypeOK
  <2>3. TempOK(f)'
    BY <1>0, <2>1, <2>2, OwnFiles DEF TempOK
  <2> QED
    BY <2>1, <2>3, TempMoves
<1>9. ASSUME NEW f \in Uploads, DeleteImage(f) \/ ImageDeleted(f) \/ ThumbnailDeleted(f)
      PROVE  TempInv'
  <2>1. PICK to \in {"deleting", "deletingThumbnail", "cleaned"} :
          /\ Moves(f, to) /\ at[f] \in {"done", "deleting", "deletingThumbnail"}
          /\ UNCHANGED <<request, temps, unlinks, left>>
    BY <1>9 DEF DeleteImage, ImageDeleted, ThumbnailDeleted
  <2>2. at'[f] = to
    BY <2>1 DEF Moves, UploadTypeOK
  <2>3. TempOK(f)'
    BY <1>0, <2>1, <2>2 DEF TempOK
  <2> QED
    BY <2>1, <2>3, TempMoves
<1>10. ASSUME NEW path \in unlinks, UnlinkEnds(path)
       PROVE  TempInv'
  <2>1. /\ UNCHANGED <<request, at>> /\ left \subseteq left' /\ temps' \subseteq temps
        /\ \A p \in unlinks : p \in temps' => p \in unlinks' \cup left'
    BY <1>10 DEF UnlinkEnds
  <2> QED
    BY <1>0, <2>1, TempKept DEF TempInv
<1> QED
  BY <1>1, <1>2, <1>3, <1>4, <1>5, <1>6, <1>7, <1>8, <1>9, <1>10 DEF UploadNext

(* Once nothing of the request goes on, the temporary files that are left  *)
(* of it are those that nobody can remove.                                 *)
(* (processMultipartPayload: "Cleanup uploaded files")                     *)
THEOREM TemporaryFiles == UploadSpec => []TemporaryFilesLeave
<1>1. UploadInit => IInv /\ KInv /\ UploadInv /\ TempInv
  BY InitUploadInv DEF UploadInit, TempInv, TempOK
<1>2. UploadInv /\ TempInv /\ [UploadNext]_uploadVars => TempInv'
  <2>1. UploadInv /\ TempInv /\ UploadNext => TempInv'
    BY NextTempInv DEF UploadInv
  <2>2. TempInv /\ UNCHANGED uploadVars => TempInv'
    BY DEF uploadVars, imageVars, TempInv, TempOK, Image, Thumbnail, Upload
  <2> QED
    BY <2>1, <2>2
<1>3. ASSUME UploadInv, TempInv
      PROVE  TemporaryFilesLeave
  <2> SUFFICES ASSUME \A f \in Uploads : at[f] \in {"done", "failed"},
                      unlinks = {}, NEW p \in temps
               PROVE  p \in left
    BY DEF TemporaryFilesLeave
  <2>1. PICK f \in Uploads : p \in {Upload(f), Image(f), Thumbnail(f)}
    BY <1>3, OwnFiles DEF UploadInv, UploadTypeOK, Temps, PathsOf
  <2>2. at[f] = "failed" => request = "failed"
    BY <1>3 DEF UploadInv, UploadTypeOK, RequestInv
  <2> QED
    BY <1>3, <2>1, <2>2 DEF TempInv, TempOK
<1> QED
  BY <1>1, <1>2, <1>3, NextUploadInv, PTL DEF UploadSpec
=============================================================================
