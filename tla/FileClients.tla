----------------------------- MODULE FileClients -----------------------------
(***************************************************************************)
(* Several users of one file storage, which call it with any arguments and *)
(* do not know of each other.                                              *)
(***************************************************************************)
EXTENDS FileStorage

CONSTANT MaxCalls     \* bound: calls in all

ASSUME MaxCallsAssumption == MaxCalls \in Nat

VARIABLE called       \* how many calls there were

vars == <<storageVars, called>>

TypeOK == StorageTypeOK /\ called \in 0 .. MaxCalls

Init == StorageInit /\ called = 0

Call(c) ==
  /\ called < MaxCalls
  /\ called' = called + 1
  /\ \E wait, flag \in BOOLEAN :
       \/ \E p \in Paths, content \in Contents :
            WriteFile(c, p, content, flag, wait)
       \/ \E p \in Paths : DeleteFile(c, p, wait, flag)
       \/ \E paths \in SUBSET Paths : DeleteFiles(c, paths, wait, flag)
       \/ \E p \in Paths : wait /\ ReadFile(c, p, flag)

Next == (\E c \in Callers : Call(c)) \/ (StorageStep /\ UNCHANGED called)

Spec == Init /\ [][Next]_vars

-----------------------------------------------------------------------------
(* Without overwrite, a call of writeFile writes no file that was there    *)
(* when it was called and has not been deleted since, unless the check     *)
(* itself failed. (writeFile: "File already exists")                       *)
ExistingKept ==
  \A o \in operations :
    o.op = "write" /\ Holds(o.path) => o.saw # deletions[o.path]

(* c's read ends, and answers what was known of its file: whole, or an     *)
(* error.                                                                  *)
ReadAsExpected(c) ==
  /\ calls[c].op = "read" /\ calls'[c].op # "read" /\ expected[c] \in Facts
  => answers'[c] \in {expected[c], "error"}
                     \cup (IF expected[c] = None THEN {"missing"} ELSE {})

(* Reading answers what the last call on the file was answered to have     *)
(* done, whole, or an error; unless calls on the file overlapped each      *)
(* other or the read, were not awaited or were answered with an error.     *)
(* Not claimed of a file that a local deleteFiles failed to delete: it     *)
(* answers with success all the same, although its comment is that of the  *)
(* others. (writeFile, deleteFile, deleteFiles: "Rethrow only if we're     *)
(* awaiting operation")                                                    *)
ReadsAsAnswered ==
  [][\A c \in Callers :
       calls[c].paths \cap swallowed = {} => ReadAsExpected(c)]_vars
=============================================================================
