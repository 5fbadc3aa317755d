----------------------------- MODULE FileStorage -----------------------------
(***************************************************************************)
(* The two implementations of IFileStorageService: LocalFileStorageService *)
(* keeps files in a directory, S3FileStorageService in a bucket.  A call   *)
(* is a sequence of steps between which other calls run; what it hands to  *)
(* the file system or to S3 is an operation of its own, which goes on when *)
(* the call does not await it.                                             *)
(*                                                                         *)
(* The local file system truncates a file, then writes it, and a file is   *)
(* read in parts; who writes or reads a file keeps it when the path is     *)
(* unlinked; two writers of one file, or a writer and a reader, may mix    *)
(* what they write or read.  S3 stores and hands out an object at once.    *)
(* Any operation may fail, an upload or a deletion on S3 also after it was *)
(* done.                                                                   *)
(***************************************************************************)
EXTENDS Naturals, FiniteSets

CONSTANTS
  Callers,
  Paths,
  Contents,
  None,        \* no file
  Torn,        \* a file that is empty, cut off or mixed
  Unknown      \* nobody can say what a file holds

ASSUME ContentsAssumption ==
  /\ {None, Torn, Unknown} \cap (Contents \cup Callers) = {}
  /\ Contents \cap Callers = {}
  /\ None # Torn /\ None # Unknown /\ Torn # Unknown
  /\ None \notin Nat

VARIABLES
  service,     \* "local" or "s3"
  files,       \* what the store holds at each path
  calls,       \* the call of each caller
  operations,  \* operations that have not ended
  answers,     \* the answer to each caller's last call
  deletions,   \* how often the file at each path was deleted
  known,       \* what follows from the calls answered so far: a content or
               \* None, the only caller that is changing the file, or Unknown
  swallowed,   \* files whose deletion failed, of calls answered with success
  expected     \* what was known of the file when the read of each caller
               \* began, unless somebody has been changing it since

history == <<known, swallowed, expected>>
storageVars ==
  <<service, files, calls, operations, answers, deletions, history>>

Facts == Contents \cup {None}
Held == Facts \cup {Torn}
NoCall == [op |-> "none", at |-> "idle", paths |-> {}, content |-> None,
           overwrite |-> FALSE, wait |-> TRUE, ignoreMissing |-> FALSE,
           several |-> FALSE, saw |-> None, failed |-> FALSE]

CallRecord ==
  [op : {"none", "write", "read", "delete"},
   at : {"idle", "checking", "waiting", "reading", "taken"},
   paths : SUBSET Paths, content : Held, overwrite : BOOLEAN,
   wait : BOOLEAN, ignoreMissing : BOOLEAN, several : BOOLEAN,
   saw : Nat \cup {None}, failed : BOOLEAN]
Operation ==
  [c : Callers, op : {"write", "delete"}, path : Paths, content : Held,
   wait : BOOLEAN, ignoreMissing : BOOLEAN, saw : Nat \cup {None},
   begun : BOOLEAN, linked : BOOLEAN, mixed : BOOLEAN]
Answer == Held \cup {"done", "sent", "exists", "missing", "error"}

StorageTypeOK ==
  /\ service \in {"local", "s3"}
  /\ files \in [Paths -> Held]
  /\ calls \in [Callers -> CallRecord]
  /\ operations \subseteq Operation
  /\ answers \in [Callers -> Answer]
  /\ deletions \in [Paths -> Nat]
  /\ known \in [Paths -> Facts \cup Callers \cup {Unknown}]
  /\ swallowed \subseteq Paths
  /\ expected \in [Callers -> Facts \cup {Unknown}]

StorageInit ==
  /\ service \in {"local", "s3"}
  /\ files = [p \in Paths |-> None]
  /\ calls = [c \in Callers |-> NoCall]
  /\ operations = {}
  /\ answers = [c \in Callers |-> None]
  /\ deletions = [p \in Paths |-> 0]
  /\ known = [p \in Paths |-> None]
  /\ swallowed = {}
  /\ expected = [c \in Callers |-> Unknown]

-----------------------------------------------------------------------------
(* Variants of the helpers below, each with a plausible mistake.           *)
Unchecked(p) == {"absent"}                       \* no call of fileExists
Swallowed(outcome) == "done"                     \* logged, not rethrown

(* Helpers *)
Idle(c) == calls[c].at = "idle"
PathOf(call) == CHOOSE p \in call.paths : TRUE
Holds(p) == files[p] # None
Changing(p) ==
  \/ \E c \in Callers : p \in calls[c].paths /\ calls[c].op # "read"
  \/ \E o \in operations : o.path = p

(* what fileExists finds: an error makes it answer false, as for no file   *)
FileExists(p) == {IF Holds(p) THEN "file" ELSE "absent", "error"}
Rethrown(outcome) == outcome

(* Files begin to be changed: by one caller alone, or nobody knows how.    *)
Begun(by, paths) ==
  /\ known' = [p \in Paths |-> IF p \notin paths THEN known[p]
                               ELSE IF Changing(p) THEN Unknown ELSE by]
  /\ swallowed' = swallowed \ paths
  /\ expected' = [c \in Callers |->
                    IF calls[c].paths \cap paths = {} THEN expected[c]
                    ELSE Unknown]

(* The call of c ends: fact is what that means for its files.              *)
End(c, answer, fact) ==
  /\ calls' = [calls EXCEPT ![c] = NoCall]
  /\ answers' = [answers EXCEPT ![c] = answer]
  /\ known' = [p \in Paths |-> IF known[p] = c THEN fact ELSE known[p]]

Issued(c, call) ==
  {[c |-> c, op |-> call.op, path |-> p, content |-> call.content,
    wait |-> call.wait, ignoreMissing |-> call.ignoreMissing,
    saw |-> call.saw, begun |-> FALSE, linked |-> TRUE, mixed |-> FALSE] :
     p \in call.paths}

(* An operation ends; rest are those that go on.  The last one of an       *)
(* awaited call ends the call, with the fact that holds then unless it is  *)
(* answered with an error: deleteFiles answers so on S3 once one deletion  *)
(* has failed, the local one only logs it.  The rejection of one that      *)
(* nobody awaits is left to LogStreams.                                    *)
Settle(o, rest, outcome, fact) ==
  LET logged == service = "local" /\ calls[o.c].several
      failed == calls[o.c].failed \/ (outcome # "done" /\ ~logged)
      answer == IF ~calls[o.c].several THEN Rethrown(outcome)
                ELSE IF failed THEN "error" ELSE "done"
  IN /\ operations' = rest
     /\ swallowed' = swallowed \cup
          (IF o.wait /\ logged /\ outcome = "error" THEN {o.path} ELSE {})
     /\ UNCHANGED expected
     /\ IF ~o.wait
          THEN UNCHANGED <<calls, answers, known>>
        ELSE IF \E q \in rest : q.c = o.c /\ q.wait
          THEN /\ calls' = [calls EXCEPT ![o.c].failed = failed]
               /\ UNCHANGED <<answers, known>>
        ELSE End(o.c, answer, IF answer = "done" THEN fact ELSE Unknown)

Others(o) == operations \ {o}
SameFile(o, q) == q.path = o.path /\ q.begun /\ q.linked

-----------------------------------------------------------------------------
(* writeFile *)
WriteFile(c, p, content, overwrite, wait) ==
  /\ Idle(c)
  /\ calls' = [calls EXCEPT ![c] =
       [NoCall EXCEPT !.op = "write", !.at = "checking", !.paths = {p},
          !.content = content, !.overwrite = overwrite, !.wait = wait,
          !.saw = IF Holds(p) /\ ~overwrite THEN deletions[p] ELSE None]]
  /\ Begun(c, {p})
  /\ UNCHANGED <<service, files, operations, answers, deletions>>

(* The content cannot be read, or the directory not be made. *)
LocalPrepareFails(c) ==
  /\ service = "local" /\ calls[c].at = "checking"
  /\ End(c, "error", Unknown)
  /\ UNCHANGED <<service, files, operations, deletions, swallowed, expected>>

(* The check, unless the call may overwrite; then the operation begins.    *)
FileFound(c) ==
  /\ calls[c].at = "checking" /\ ~calls[c].overwrite
  /\ "file" \in FileExists(PathOf(calls[c]))
  /\ End(c, "exists", Unknown)
  /\ UNCHANGED <<service, files, operations, deletions, swallowed, expected>>

WriteIssued(c) ==
  LET call == calls[c]
      p == PathOf(call)
  IN /\ call.at = "checking"
     /\ \E found \in IF call.overwrite THEN {"absent"}
                     ELSE FileExists(p) \ {"file"} :
          operations' = operations \cup Issued(c,
            [call EXCEPT !.saw = IF found = "error" THEN None ELSE @])
     /\ IF call.wait
          THEN /\ calls' = [calls EXCEPT ![c].at = "waiting"]
               /\ UNCHANGED <<answers, known>>
          ELSE End(c, "sent", Unknown)
     /\ UNCHANGED <<service, files, deletions, swallowed, expected>>

LocalWriteBegins(o) ==
  /\ service = "local" /\ o.op = "write" /\ ~o.begun
  /\ files' = [files EXCEPT ![o.path] = Torn]
  /\ operations' =
       {IF SameFile(o, q) THEN [q EXCEPT !.mixed = TRUE] ELSE q :
          q \in Others(o)}
       \cup {[o EXCEPT !.begun = TRUE,
                !.mixed = \E q \in Others(o) : SameFile(o, q)]}
  /\ UNCHANGED <<service, calls, answers, deletions, history>>

LocalWriteEnds(o) ==
  /\ service = "local" /\ o.op = "write" /\ o.begun
  /\ \E content \in IF o.mixed THEN {o.content, Torn} ELSE {o.content} :
       files' = [files EXCEPT ![o.path] = IF o.linked THEN content ELSE @]
  /\ Settle(o, Others(o), "done", o.content)
  /\ UNCHANGED <<service, deletions>>

LocalWriteFails(o) ==
  /\ service = "local" /\ o.op = "write"
  /\ Settle(o, Others(o), "error", Unknown)
  /\ UNCHANGED <<service, files, deletions>>

S3Upload(o) ==
  /\ service = "s3" /\ o.op = "write"
  /\ files' = [files EXCEPT ![o.path] = o.content]
  /\ Settle(o, Others(o), "done", o.content)
  /\ UNCHANGED <<service, deletions>>

S3UploadFails(o) ==
  /\ service = "s3" /\ o.op = "write"
  /\ files' \in {files, [files EXCEPT ![o.path] = o.content]}
  /\ Settle(o, Others(o), "error", Unknown)
  /\ UNCHANGED <<service, deletions>>

-----------------------------------------------------------------------------
(* deleteFile, and deleteFiles, which throws when given no files at all    *)
Delete(c, call) ==
  /\ Idle(c) /\ call.paths # {}
  /\ operations' = operations \cup Issued(c, call)
  /\ IF call.wait
       THEN /\ calls' = [calls EXCEPT ![c] = [call EXCEPT !.at = "waiting"]]
            /\ Begun(c, call.paths)
            /\ UNCHANGED answers
       ELSE /\ answers' = [answers EXCEPT ![c] = "sent"]
            /\ Begun(Unknown, call.paths)
            /\ UNCHANGED calls
  /\ UNCHANGED <<service, files, deletions>>

DeleteFile(c, p, wait, ignoreMissing) ==
  Delete(c, [NoCall EXCEPT !.op = "delete", !.paths = {p}, !.wait = wait,
               !.ignoreMissing = ignoreMissing])

DeleteFiles(c, paths, wait, ignoreMissing) ==
  Delete(c, [NoCall EXCEPT !.op = "delete", !.paths = paths, !.wait = wait,
               !.ignoreMissing = ignoreMissing, !.several = TRUE])

LocalUnlink(o) ==
  /\ service = "local" /\ o.op = "delete"
  /\ files' = [files EXCEPT ![o.path] = None]
  /\ deletions' = [deletions EXCEPT ![o.path] = @ + 1]
  /\ Settle(o, {IF SameFile(o, q) THEN [q EXCEPT !.linked = FALSE] ELSE q :
                  q \in Others(o)},
            IF Holds(o.path) \/ o.ignoreMissing THEN "done" ELSE "missing",
            None)
  /\ UNCHANGED service

S3Delete(o) ==
  /\ service = "s3" /\ o.op = "delete"
  /\ files' = [files EXCEPT ![o.path] = None]
  /\ deletions' = [deletions EXCEPT ![o.path] = @ + 1]
  /\ Settle(o, Others(o), "done", None)
  /\ UNCHANGED service

DeletionFails(o) ==
  /\ o.op = "delete"
  /\ \/ UNCHANGED <<files, deletions>>
     \/ /\ service = "s3"
        /\ files' = [files EXCEPT ![o.path] = None]
        /\ deletions' = [deletions EXCEPT ![o.path] = @ + 1]
  /\ Settle(o, Others(o), "error", None)
  /\ UNCHANGED service

-----------------------------------------------------------------------------
(* readFile *)
ReadFile(c, p, ignoreMissing) ==
  /\ Idle(c)
  /\ calls' = [calls EXCEPT ![c] =
       [NoCall EXCEPT !.op = "read", !.at = "reading", !.paths = {p},
          !.ignoreMissing = ignoreMissing]]
  /\ expected' = [expected EXCEPT ![c] =
                    IF known[p] \in Facts THEN known[p] ELSE Unknown]
  /\ UNCHANGED <<service, files, operations, answers, deletions, known,
                 swallowed>>

(* S3 hands out the object; the local file is opened. *)
ContentTaken(c) ==
  LET p == PathOf(calls[c]) IN
  /\ calls[c].at = "reading"
  /\ calls' = [calls EXCEPT ![c] = [@ EXCEPT
       !.at = "taken", !.content = files[p], !.saw = deletions[p]]]
  /\ UNCHANGED <<service, files, operations, answers, deletions, history>>

(* The open file, which may be unlinked by now, has changed: the rest of   *)
(* it, or all if nothing was read yet, is read as it is now.               *)
Opened(call) ==
  LET p == PathOf(call) IN
  IF call.saw = deletions[p] THEN {files[p]}
  ELSE {o.content : o \in {q \in operations :
          q.path = p /\ q.op = "write" /\ q.begun /\ ~q.linked}}

LocalReadsOn(c) ==
  /\ service = "local" /\ calls[c].at = "taken" /\ calls[c].content # None
  /\ \E now \in Opened(calls[c]) \ {calls[c].content} :
       \E content \in {now, Torn} :
         calls' = [calls EXCEPT ![c].content = content]
  /\ UNCHANGED <<service, files, operations, answers, deletions, history>>

ReadEnds(c) ==
  LET content == calls[c].content IN
  /\ calls[c].at = "taken"
  /\ \E answer \in {"error", IF content # None \/ calls[c].ignoreMissing
                               THEN content ELSE "missing"} :
       answers' = [answers EXCEPT ![c] = answer]
  /\ calls' = [calls EXCEPT ![c] = NoCall]
  /\ expected' = [expected EXCEPT ![c] = Unknown]
  /\ UNCHANGED <<service, files, operations, deletions, known, swallowed>>

OperationStep(o) ==
  \/ LocalWriteBegins(o) \/ LocalWriteEnds(o) \/ LocalWriteFails(o)
  \/ S3Upload(o) \/ S3UploadFails(o)
  \/ LocalUnlink(o) \/ S3Delete(o) \/ DeletionFails(o)

CallStep(c) ==
  \/ LocalPrepareFails(c) \/ FileFound(c) \/ WriteIssued(c)
  \/ ContentTaken(c) \/ LocalReadsOn(c) \/ ReadEnds(c)

StorageStep ==
  \/ \E o \in operations : OperationStep(o)
  \/ \E c \in Callers : CallStep(c)
=============================================================================
