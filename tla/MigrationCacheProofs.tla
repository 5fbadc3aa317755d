------------------------ MODULE MigrationCacheProofs ------------------------
(***************************************************************************)
(* Theorems about MigrationCache for every set of migration files, with    *)
(* any contents, and every number of attempts.                             *)
(***************************************************************************)
EXTENDS MigrationCache, TLAPS

(* The steps of a start that uses the cache *)
CacheSteps == {"createcache", "lookup", "wipe", "rebuild", "retable",
               "connect", "record", "drop", "copy", "reconnect", "untable"}

(* Which databases there are, and to which one the storage is connected.   *)
ExistInv ==
  /\ pc = "droptables" => mode = "tables"
  /\ pc \in {"create", "initialize"} => mode = "fresh"
  /\ pc \in CacheSteps => mode = "cache"
  /\ pc \in {"lookup", "wipe", "retable", "connect", "record", "drop", "copy",
             "reconnect", "untable"}
       => db["intermediate"] # None
  /\ pc \in {"droptables", "initialize", "reconnect", "untable", "import"}
       => db["template"] # None
  /\ pc \in {"droptables", "untable", "import"} => connected = "template"
  /\ pc = "record" => connected = "intermediate"
  /\ pc = "migrate" =>
       /\ connected = IF mode = "cache" THEN "intermediate" ELSE "template"
       /\ db[connected] # None

IInv == TypeOK /\ ExistInv

-----------------------------------------------------------------------------
(* A process leaves nothing of itself. *)
LEMMA StopType ==
  ASSUME Stop
  PROVE  /\ pc' = "idle" /\ mode' \in {"cache", "fresh", "tables"}
         /\ tries' \in 0 .. MaxTries /\ hashes' \in Directory \cup {None}
         /\ skip' \in BOOLEAN /\ pending' \subseteq Files
         /\ connected' \in Names \cup {None}
<1>1. 0 \in 0 .. MaxTries
  BY MaxTriesAssumption
<1> QED
  BY <1>1 DEF Stop

(* The empty function is a directory. *)
LEMMA EmptyType == Empty \in Database
<1>1. [f \in {} |-> None] \in [{} -> Versions] /\ {} \in SUBSET Files
  OBVIOUS
<1>2. [f \in {} |-> None] \in Directory
  BY <1>1 DEF Directory
<1> QED
  BY <1>2 DEF Empty, Database

(* What migrating a file makes of the migrations done is a directory. *)
LEMMA MigrateType ==
  ASSUME NEW d \in Directory, NEW e \in Directory, NEW f \in DOMAIN e
  PROVE  [g \in DOMAIN d \cup {f} |-> IF g = f THEN e[f] ELSE d[g]]
           \in Directory
<1>1. PICK S \in SUBSET Files : d \in [S -> Versions]
  BY DEF Directory
<1>2. PICK U \in SUBSET Files : e \in [U -> Versions]
  BY DEF Directory
<1>3. [g \in DOMAIN d \cup {f} |-> IF g = f THEN e[f] ELSE d[g]]
        \in [S \cup {f} -> Versions]
  BY <1>1, <1>2
<1>4. S \cup {f} \in SUBSET Files
  BY <1>1, <1>2
<1> QED
  BY <1>3, <1>4 DEF Directory

(* The domain of a directory is a set of files. *)
LEMMA DirectoryDomain ==
  ASSUME NEW d \in Directory
  PROVE  DOMAIN d \subseteq Files
BY DEF Directory

(* No process has started, and there is no database. *)
LEMMA InitIInv == Init => IInv
<1>1. 0 \in 0 .. MaxTries
  BY MaxTriesAssumption
<1> QED
  BY <1>1 DEF Init, IInv, TypeOK, ExistInv, Names, Attempt, CacheSteps

(* Replacing one database keeps the type of them all. *)
LEMMA ReplaceType ==
  ASSUME TypeOK, NEW n \in Names, NEW d \in Database \cup {None},
         db' = [db EXCEPT ![n] = d]
  PROVE  /\ db' \in [Names -> Database \cup {None}]
         /\ db'[n] = d
         /\ \A m \in Names \ {n} : db'[m] = db[m]
BY DEF TypeOK

(* No step breaks it, one case per action. *)
LEMMA NextIInv == IInv /\ [Next]_vars => IInv'
<1> SUFFICES ASSUME IInv, [Next]_vars
             PROVE  IInv'
  OBVIOUS
<1> USE DEF IInv
<1>n. "intermediate" \in Names /\ "template" \in Names
  BY DEF Names
<1>s. ASSUME Stop, db' = db, files' = files
      PROVE  IInv'
  BY <1>s, StopType DEF TypeOK, ExistInv, Stop, Attempt, CacheSteps
<1>1. ASSUME NEW m \in {"cache", "fresh", "tables"}, Start(m)
      PROVE  IInv'
  <2>1. 1 \in 0 .. MaxTries
    BY MaxTriesAssumption
  <2> QED
    BY <1>1, <2>1 DEF Start, Goto, TypeOK, ExistInv, Attempt, CacheSteps
<1>2. CASE InitializeOld
  <2>1. CASE db["template"] = None
    BY <1>2, <2>1, <1>s DEF InitializeOld
  <2>2. CASE db["template"] # None
    BY <1>2, <2>2, <1>n, DirectoryDomain
       DEF InitializeOld, Goto, Connect, TypeOK, ExistInv, Attempt, CacheSteps
  <2> QED
    BY <2>1, <2>2
<1>3. CASE DropAllTables
  <2>1. db' = [db EXCEPT !["template"] = Empty]
    BY <1>3 DEF DropAllTables, ExistInv
  <2>2. /\ db' \in [Names -> Database \cup {None}]
        /\ db'["template"] # None
    BY <2>1, <1>n, EmptyType, NoneAssumption, ReplaceType
  <2> QED
    BY <1>3, <2>2, DirectoryDomain
       DEF DropAllTables, Goto, TypeOK, ExistInv, Attempt, CacheSteps
<1>4. CASE DropTemplate
  <2>1. /\ db' \in [Names -> Database \cup {None}]
        /\ db'["template"] = None
    BY <1>4, <1>n, EmptyType, NoneAssumption, ReplaceType DEF DropTemplate
  <2> QED
    BY <1>4, <2>1
       DEF DropTemplate, Goto, locals, TypeOK, ExistInv, Attempt,
           CacheSteps
<1>5. CASE CreateTemplate
  <2>1. /\ db' \in [Names -> Database \cup {None}]
        /\ db'["template"] # None
    BY <1>5, <1>n, EmptyType, NoneAssumption, ReplaceType DEF CreateTemplate
  <2> QED
    BY <1>5, <2>1
       DEF CreateTemplate, Goto, locals, TypeOK, ExistInv, Attempt,
           CacheSteps
<1>6. CASE Initialize
  BY <1>6, <1>n, DirectoryDomain
     DEF Initialize, Goto, Connect, TypeOK, ExistInv, Attempt, CacheSteps
<1>7. CASE CheckDatabaseExists
  BY <1>7
     DEF CheckDatabaseExists, MD5s, Goto, TypeOK, ExistInv, Attempt,
         CacheSteps
<1>8. CASE CreateIntermediate
  <2>1. /\ db' \in [Names -> Database \cup {None}]
        /\ db'["intermediate"] # None
    BY <1>8, <1>n, EmptyType, NoneAssumption, ReplaceType
       DEF CreateIntermediate
  <2> QED
    BY <1>8, <2>1
       DEF CreateIntermediate, Goto, locals, TypeOK, ExistInv, Attempt,
           CacheSteps
<1>9. CASE Lookup
  <2>1. db["intermediate"] \in Database
    BY <1>9, <1>n DEF Lookup, TypeOK, ExistInv
  <2>2. [db["intermediate"] EXCEPT !.table = TRUE] \in Database
    BY <2>1 DEF Database
  <2>3. /\ db' \in [Names -> Database \cup {None}]
        /\ db'["intermediate"] # None
    BY <1>9, <1>n, <2>2, NoneAssumption, ReplaceType DEF Lookup
  <2> QED
    BY <1>9, <2>3
       DEF Lookup, IsValid, OutdatedGoes, Goto, TypeOK, ExistInv, Attempt,
           CacheSteps
<1>10. CASE Wipe
  <2>1. /\ db' \in [Names -> Database \cup {None}]
        /\ db'["intermediate"] = None
    BY <1>10, <1>n, EmptyType, NoneAssumption, ReplaceType DEF Wipe
  <2> QED
    BY <1>10, <2>1
       DEF Wipe, Goto, locals, TypeOK, ExistInv, Attempt,
           CacheSteps
<1>11. CASE Rebuild
  <2>1. /\ db' \in [Names -> Database \cup {None}]
        /\ db'["intermediate"] # None
    BY <1>11, <1>n, EmptyType, NoneAssumption, ReplaceType DEF Rebuild
  <2> QED
    BY <1>11, <2>1
       DEF Rebuild, Goto, locals, TypeOK, ExistInv, Attempt,
           CacheSteps
<1>12. CASE CreateTable
  <2>1. db["intermediate"] \in Database
    BY <1>12, <1>n DEF CreateTable, TypeOK, ExistInv
  <2>2. WithTable(db["intermediate"]) \in Database
    BY <2>1 DEF WithTable, Database
  <2>3. /\ db' \in [Names -> Database \cup {None}]
        /\ db'["intermediate"] # None
    BY <1>12, <1>n, <2>2, NoneAssumption, ReplaceType DEF CreateTable
  <2> QED
    BY <1>12, <2>3
       DEF CreateTable, Goto, locals, TypeOK, ExistInv, Attempt, CacheSteps
<1>13. CASE AttemptFails
  <2>1. tries < MaxTries => tries + 1 \in 0 .. MaxTries
    BY MaxTriesAssumption DEF TypeOK
  <2>2. CASE tries < MaxTries
    BY <1>13, <2>1, <2>2
       DEF AttemptFails, MayRetry, Goto, TypeOK, ExistInv, Attempt, CacheSteps
  <2>3. CASE ~(tries < MaxTries)
    BY <1>13, <2>3, <1>s DEF AttemptFails, MayRetry
  <2> QED
    BY <2>2, <2>3
<1>14. CASE ConnectIntermediate
  BY <1>14, <1>n, DirectoryDomain
     DEF ConnectIntermediate, Goto, Connect, TypeOK, ExistInv, Attempt,
         CacheSteps
<1>15. ASSUME NEW f \in Files, Migrate(f)
       PROVE  IInv'
  <2> DEFINE d == db[connected]
             new == [g \in DOMAIN d.done \cup {f} |->
                       IF g = f THEN files[f] ELSE d.done[g]]
  <2>1. connected \in Names /\ d \in Database
    BY <1>15, <1>n DEF Migrate, TypeOK, ExistInv
  <2>a. d.done \in Directory /\ files \in Directory /\ f \in DOMAIN files
    BY <1>15, <2>1 DEF Migrate, TypeOK, Database
  <2>2. new \in Directory
    <3> HIDE DEF d
    <3> QED
      BY <2>a, MigrateType
  <2>3. [d EXCEPT !.done = new] \in Database
    BY <2>1, <2>2 DEF Database
  <2>4. db' = [db EXCEPT ![connected] = [d EXCEPT !.done = new]]
    BY <1>15, <2>1 DEF Migrate
  <2>5. /\ db' \in [Names -> Database \cup {None}]
        /\ db'[connected] # None
    BY <2>1, <2>3, <2>4, NoneAssumption, ReplaceType
  <2> QED
    BY <1>15, <2>5
       DEF Migrate, TypeOK, ExistInv, Attempt, CacheSteps
<1>16. CASE Migrated
  BY <1>16 DEF Migrated, Goto, locals, TypeOK, ExistInv, Attempt, CacheSteps
<1>17. CASE RecordHashes
  <2>1. connected = "intermediate" /\ db["intermediate"] \in Database
    BY <1>17, <1>n DEF RecordHashes, TypeOK, ExistInv
  <2>2. [db["intermediate"] EXCEPT !.cache = hashes] \in Database
    BY <2>1 DEF Database, TypeOK
  <2>3. /\ db' \in [Names -> Database \cup {None}]
        /\ db'["intermediate"] # None
    BY <1>17, <1>n, <2>1, <2>2, NoneAssumption, ReplaceType DEF RecordHashes
  <2> QED
    BY <1>17, <2>3
       DEF RecordHashes, Goto, TypeOK, ExistInv, Attempt, CacheSteps
<1>18. CASE DropOldTemplate
  <2>1. /\ db' \in [Names -> Database \cup {None}]
        /\ db'["intermediate"] = db["intermediate"]
    BY <1>18, <1>n, ReplaceType DEF DropOldTemplate, Names
  <2> QED
    BY <1>18, <2>1
       DEF DropOldTemplate, Goto, locals, TypeOK, ExistInv, Attempt,
           CacheSteps
<1>19. CASE CopyIntermediate
  <2>1. db["intermediate"] \in Database
    BY <1>19, <1>n DEF CopyIntermediate, TypeOK, ExistInv
  <2>2. /\ db' \in [Names -> Database \cup {None}]
        /\ db'["template"] # None
        /\ db'["intermediate"] # None
    BY <1>19, <1>n, <2>1, NoneAssumption, ReplaceType
       DEF CopyIntermediate, Names
  <2> QED
    BY <1>19, <2>2
       DEF CopyIntermediate, Goto, locals, TypeOK, ExistInv, Attempt,
           CacheSteps
<1>20. CASE ConnectTemplate
  BY <1>20, <1>n
     DEF ConnectTemplate, MainConfig, Goto, TypeOK, ExistInv, Attempt,
         CacheSteps
<1>21. CASE DropTable
  <2>1. connected = "template" /\ db["template"] \in Database
    BY <1>21, <1>n DEF DropTable, TypeOK, ExistInv
  <2> DEFINE new == [db["template"] EXCEPT !.table = FALSE, !.cache = None]
  <2>2. new \in Database
    BY <2>1 DEF Database
  <2>3. db' = [db EXCEPT !["template"] = new]
    BY <1>21, <2>1, <1>n DEF DropTable, TypeOK
  <2>4. /\ db' \in [Names -> Database \cup {None}]
        /\ db'["template"] # None
    BY <1>n, <2>2, <2>3, NoneAssumption, ReplaceType
  <2> QED
    BY <1>21, <2>4
       DEF DropTable, Goto, locals, TypeOK, ExistInv, Attempt, CacheSteps
<1>22. CASE Import
  <2>1. connected = "template" /\ db["template"] \in Database
    BY <1>22, <1>n DEF Import, TypeOK, ExistInv
  <2>2. [db["template"] EXCEPT !.rows = TRUE] \in Database
    BY <2>1 DEF Database
  <2>3. /\ db' \in [Names -> Database \cup {None}]
        /\ db'["template"] # None
    BY <1>22, <1>n, <2>1, <2>2, NoneAssumption, ReplaceType
       DEF Import, WithRows
  <2>4. CASE Stop
    BY <1>22, <2>3, <2>4, StopType
       DEF Import, Stop, TypeOK, ExistInv, Attempt, CacheSteps
  <2>5. CASE Goto("ready") /\ UNCHANGED locals
    BY <1>22, <2>3, <2>5
       DEF Import, Goto, locals, TypeOK, ExistInv, Attempt, CacheSteps
  <2> QED
    BY <1>22, <2>4, <2>5 DEF Import
<1>23. CASE Exit
  BY <1>23, <1>s DEF Exit
<1>24. CASE Edit
  BY <1>24 DEF Edit, locals, TypeOK, ExistInv, Attempt, CacheSteps
<1>25. CASE UNCHANGED vars
  BY <1>25 DEF vars, locals, TypeOK, ExistInv, Attempt, CacheSteps
<1> QED
  BY <1>1, <1>2, <1>3, <1>4, <1>5, <1>6, <1>7, <1>8, <1>9, <1>10, <1>11,
     <1>12, <1>13, <1>14, <1>15, <1>16, <1>17, <1>18, <1>19, <1>20, <1>21,
     <1>22, <1>23, <1>24, <1>25
     DEF Next, Try, Prepare

(* Every database and every variable of a start keeps its type.            *)
THEOREM TypeCorrect == Spec => []TypeOK
<1>1. IInv => TypeOK
  BY DEF IInv
<1> QED
  BY InitIInv, NextIInv, <1>1, PTL DEF Spec

-----------------------------------------------------------------------------
(* What the part that is not tried again relies on: the table is there     *)
(* from the time the cache was rebuilt or found valid, in every copy of    *)
(* it; fixtures are imported into the template only.                       *)
RestInv ==
  /\ CacheWithoutFixtures
  /\ pc \in {"connect", "record", "drop", "copy"} => db["intermediate"].table
  /\ pc = "migrate" /\ mode = "cache" => db["intermediate"].table
  /\ pc \in {"reconnect", "untable"} => db["template"].table

(* No step breaks it. *)
LEMMA NextRestInv == IInv /\ RestInv /\ [Next]_vars => RestInv'
<1> SUFFICES ASSUME IInv, RestInv, [Next]_vars
             PROVE  RestInv'
  OBVIOUS
<1>t. TypeOK /\ ExistInv
  BY DEF IInv
<1>n. /\ "intermediate" \in Names /\ "template" \in Names
      /\ db["intermediate"] # None => db["intermediate"] \in Database
      /\ db["template"] # None => db["template"] \in Database
  BY <1>t DEF Names, TypeOK
<1> USE DEF RestInv, CacheWithoutFixtures
<1>s. ASSUME Stop, db' = db
      PROVE  RestInv'
  BY <1>s DEF Stop
<1>1. ASSUME NEW m \in {"cache", "fresh", "tables"}, Start(m)
      PROVE  RestInv'
  BY <1>1 DEF Start, Goto
<1>2. CASE InitializeOld
  BY <1>2, <1>s DEF InitializeOld, Goto
<1>3. CASE DropAllTables
  BY <1>3, <1>t, <1>n DEF DropAllTables, Goto, TypeOK, ExistInv
<1>4. CASE DropTemplate \/ CreateTemplate \/ Initialize
  BY <1>4, <1>t, <1>n
     DEF DropTemplate, CreateTemplate, Initialize, Goto, locals, TypeOK,
         ExistInv
<1>5. CASE CheckDatabaseExists \/ CreateIntermediate \/ Wipe \/ Rebuild
  BY <1>5, <1>t, <1>n
     DEF CheckDatabaseExists, CreateIntermediate, Wipe, Rebuild, Goto, locals,
         Empty, TypeOK
<1>6. CASE Lookup
  <2>1. /\ db["intermediate"] \in Database /\ db["intermediate"] # None
        /\ db'["intermediate"] = [db["intermediate"] EXCEPT !.table = TRUE]
    BY <1>6, <1>t, <1>n DEF Lookup, TypeOK, ExistInv
  <2>2. db'["intermediate"].table /\ ~db'["intermediate"].rows
    BY <2>1 DEF Database
  <2> QED
    BY <1>6, <2>2 DEF Lookup, OutdatedGoes, Goto
<1>7. CASE CreateTable
  <2>1. /\ db["intermediate"] \in Database /\ db["intermediate"] # None
        /\ db'["intermediate"] = [db["intermediate"] EXCEPT !.table = TRUE]
    BY <1>7, <1>t, <1>n DEF CreateTable, WithTable, TypeOK, ExistInv
  <2>2. db'["intermediate"].table /\ ~db'["intermediate"].rows
    BY <2>1 DEF Database
  <2> QED
    BY <1>7, <2>2 DEF CreateTable, Goto
<1>8. CASE AttemptFails
  BY <1>8, <1>s DEF AttemptFails, MayRetry, Goto
<1>9. CASE ConnectIntermediate
  BY <1>9 DEF ConnectIntermediate, Goto
<1>10. ASSUME NEW f \in Files, Migrate(f)
       PROVE  RestInv'
  <2>1. /\ connected \in Names /\ db[connected] \in Database
        /\ mode = "cache" => connected = "intermediate"
    BY <1>10, <1>t, <1>n DEF Migrate, TypeOK, ExistInv
  <2>2. /\ db'[connected].table = db[connected].table
        /\ db'[connected].rows = db[connected].rows
        /\ db'[connected] # None => db[connected] # None
        /\ \A n \in Names \ {connected} : db'[n] = db[n]
    BY <1>10, <1>t, <2>1, NoneAssumption DEF Migrate, TypeOK, Database
  <2> QED
    BY <1>10, <1>n, <2>1, <2>2, NoneAssumption DEF Migrate
<1>11. CASE Migrated
  BY <1>11 DEF Migrated, Goto, locals
<1>12. CASE RecordHashes
  <2>1. /\ db["intermediate"] \in Database
        /\ db'["intermediate"] = [db["intermediate"] EXCEPT !.cache = hashes]
    BY <1>12, <1>t, <1>n DEF RecordHashes, TypeOK, ExistInv
  <2> QED
    BY <1>12, <2>1, <1>t DEF RecordHashes, Goto, Database, ExistInv
<1>13. CASE DropOldTemplate \/ CopyIntermediate \/ ConnectTemplate
  BY <1>13, <1>t, <1>n
     DEF DropOldTemplate, CopyIntermediate, ConnectTemplate, Goto, locals,
         TypeOK
<1>14. CASE DropTable \/ Import
  BY <1>14, <1>t, <1>n
     DEF DropTable, Import, Goto, locals, Stop, TypeOK, ExistInv
<1>15. CASE Exit
  BY <1>15, <1>s DEF Exit
<1>16. CASE Edit \/ UNCHANGED vars
  BY <1>16 DEF Edit, vars, locals
<1> QED
  BY <1>1, <1>2, <1>3, <1>4, <1>5, <1>6, <1>7, <1>8, <1>9, <1>10, <1>11,
     <1>12, <1>13, <1>14, <1>15, <1>16
     DEF Next, Try, Prepare

(* The invariants of every behaviour, whatever happens to the files *)
LEMMA Invariance == Spec => [](IInv /\ RestInv)
<1>1. Init => RestInv
  BY DEF Init, RestInv, CacheWithoutFixtures, Names
<1> QED
  BY InitIInv, NextIInv, NextRestInv, <1>1, PTL DEF Spec

(* Wherever earlier processes ended, and whatever happened to the files:   *)
(* no step after the retries of TestStrategy.init misses its database or   *)
(* its table, ...                                                          *)
THEOREM Prepares == Spec => []NothingMissing
<1>1. IInv /\ RestInv => NothingMissing
  BY DEF IInv, ExistInv, RestInv, NothingMissing
<1> QED
  BY Invariance, <1>1, PTL

(* ... and no row of a fixture gets into the intermediate database, which  *)
(* TestStrategy.init copies and imports the fixtures into at every start.  *)
THEOREM FixturesOnce == Spec => []CacheWithoutFixtures
<1>1. RestInv => CacheWithoutFixtures
  BY DEF RestInv
<1> QED
  BY Invariance, <1>1, PTL

-----------------------------------------------------------------------------
(* What is in the databases when files only change between two starts.     *)

(* the cache of the files without and with their hashes, the template      *)
(* before and after the fixtures                                           *)
Uncached(F) == [done |-> F, table |-> TRUE, cache |-> None, rows |-> FALSE]
CacheOf(F) == [done |-> F, table |-> TRUE, cache |-> F, rows |-> FALSE]
TemplateOf(F, imported) ==
  [done |-> F, table |-> FALSE, cache |-> None, rows |-> imported]

(* d has been migrated, but for the pending files. *)
Half(d) ==
  /\ d.table = (mode = "cache") /\ d.cache = None /\ ~d.rows
  /\ DOMAIN d.done = DOMAIN files \ pending
  /\ pending \subseteq DOMAIN files
  /\ \A g \in DOMAIN d.done : d.done[g] = files[g]

ContentInv ==
  /\ CacheSound
  /\ pc \in CacheSteps \/ (pc = "migrate" /\ mode = "cache") => hashes = files
  /\ pc = "initialize" => db["template"] = Empty
  /\ pc = "retable" => db["intermediate"] = Empty
  /\ pc = "connect" =>
       db["intermediate"] = [Empty EXCEPT !.table = TRUE]
  /\ pc = "migrate" => Half(db[connected])
  /\ pc = "record" => db["intermediate"] = Uncached(files)
  /\ pc \in {"drop", "copy"} => db["intermediate"] = CacheOf(files)
  /\ pc \in {"reconnect", "untable"} => db["template"] = CacheOf(files)
  /\ pc = "import" => db["template"] = TemplateOf(files, FALSE)
  /\ pc = "ready" => db["template"] = TemplateOf(files, TRUE)

(* A database is what its fields are. *)
LEMMA SameDatabase ==
  ASSUME NEW d \in Database, NEW e \in Database, d.done = e.done,
         d.table = e.table, d.cache = e.cache, d.rows = e.rows
  PROVE  d = e
BY DEF Database

(* What recording the hashes, dropping the table and importing make of the *)
(* database they are done in.                                              *)
LEMMA Changed ==
  ASSUME NEW F \in Directory
  PROVE  /\ [Uncached(F) EXCEPT !.cache = F] = CacheOf(F)
         /\ [CacheOf(F) EXCEPT !.table = FALSE, !.cache = None]
              = TemplateOf(F, FALSE)
         /\ [TemplateOf(F, FALSE) EXCEPT !.rows = TRUE] = TemplateOf(F, TRUE)
<1>1. [Uncached(F) EXCEPT !.cache = F] = CacheOf(F)
  <2> DEFINE d == [Uncached(F) EXCEPT !.cache = F]
  <2>1. d \in Database /\ CacheOf(F) \in Database
    BY DEF Uncached, CacheOf, Database
  <2>2. /\ d.done = CacheOf(F).done /\ d.table = CacheOf(F).table
        /\ d.cache = CacheOf(F).cache /\ d.rows = CacheOf(F).rows
    BY DEF Uncached, CacheOf
  <2> HIDE DEF d
  <2>3. d = CacheOf(F)
    BY <2>1, <2>2, SameDatabase
  <2> QED
    BY <2>3 DEF d
<1>2. [CacheOf(F) EXCEPT !.table = FALSE, !.cache = None]
        = TemplateOf(F, FALSE)
  <2> DEFINE d == [CacheOf(F) EXCEPT !.table = FALSE, !.cache = None]
             e == TemplateOf(F, FALSE)
  <2>1. d \in Database /\ e \in Database
    BY DEF CacheOf, TemplateOf, Database
  <2>2. /\ d.done = e.done /\ d.table = e.table
        /\ d.cache = e.cache /\ d.rows = e.rows
    BY DEF CacheOf, TemplateOf
  <2> HIDE DEF d, e
  <2>3. d = e
    BY <2>1, <2>2, SameDatabase
  <2> QED
    BY <2>3 DEF d, e
<1>3. [TemplateOf(F, FALSE) EXCEPT !.rows = TRUE] = TemplateOf(F, TRUE)
  <2> DEFINE d == [TemplateOf(F, FALSE) EXCEPT !.rows = TRUE]
             e == TemplateOf(F, TRUE)
  <2>1. d \in Database /\ e \in Database
    BY DEF TemplateOf, Database
  <2>2. /\ d.done = e.done /\ d.table = e.table
        /\ d.cache = e.cache /\ d.rows = e.rows
    BY DEF TemplateOf
  <2> HIDE DEF d, e
  <2>3. d = e
    BY <2>1, <2>2, SameDatabase
  <2> QED
    BY <2>3 DEF d, e
<1> QED
  BY <1>1, <1>2, <1>3

(* Nothing pending is all of it. *)
LEMMA HalfOfAll ==
  ASSUME files \in Directory, NEW d \in Database, Half(d), pending = {}
  PROVE  d = [done |-> files, table |-> (mode = "cache"), cache |-> None,
              rows |-> FALSE]
<1>1. d.done \in Directory
  BY DEF Database
<1>2. PICK S \in SUBSET Files : d.done \in [S -> Versions]
  BY <1>1 DEF Directory
<1>3. PICK U \in SUBSET Files : files \in [U -> Versions]
  BY DEF Directory
<1>4. d.done = files
  BY <1>2, <1>3 DEF Half
<1>5. d.table = (mode = "cache") /\ d.cache = None /\ d.rows = FALSE
  BY DEF Half, Database
<1> QED
  BY <1>4, <1>5 DEF Database

(* No step breaks it. *)
LEMMA NextContentInv ==
  ASSUME ~EditsWhileStarting, IInv, RestInv, ContentInv, [Next]_vars
  PROVE  ContentInv'
<1>t. TypeOK /\ ExistInv
  BY DEF IInv
<1>n. /\ "intermediate" \in Names /\ "template" \in Names
      /\ db["intermediate"] # None => db["intermediate"] \in Database
      /\ db["template"] # None => db["template"] \in Database
  BY <1>t DEF Names, TypeOK
<1>s. ASSUME Stop, db' = db
      PROVE  ContentInv'
  BY <1>s DEF Stop, ContentInv, CacheSound, CacheSteps
<1>1. ASSUME NEW m \in {"cache", "fresh", "tables"}, Start(m)
      PROVE  ContentInv'
  BY <1>1 DEF Start, Goto, ContentInv, CacheSound, CacheSteps
<1>2. CASE InitializeOld
  BY <1>2, <1>s DEF InitializeOld, Goto, ContentInv, CacheSound, CacheSteps
<1>3. CASE DropAllTables
  <2>1. /\ mode = "tables" /\ mode' = mode /\ pc' = "migrate"
        /\ connected = "template" /\ connected' = connected
        /\ db' = [db EXCEPT !["template"] = Empty]
        /\ pending' = DOMAIN files /\ files' = files
    BY <1>3, <1>t DEF DropAllTables, Goto, ExistInv
  <2>2. /\ db'["intermediate"] = db["intermediate"]
        /\ db'["template"] = Empty
    BY <2>1, <1>n, <1>t DEF TypeOK
  <2>3. Half(Empty)'
    BY <2>1, <1>t DEF Half, Empty, TypeOK
  <2> QED
    BY <2>1, <2>2, <2>3 DEF ContentInv, CacheSound, CacheSteps, Half
<1>4. CASE DropTemplate \/ CreateTemplate
  <2>1. db'["intermediate"] = db["intermediate"]
    BY <1>4, <1>n, <1>t DEF DropTemplate, CreateTemplate, TypeOK
  <2>2. CreateTemplate => db'["template"] = Empty
    BY <1>n, <1>t DEF CreateTemplate, TypeOK
  <2> QED
    BY <1>4, <2>1, <2>2
       DEF DropTemplate, CreateTemplate, Goto, ContentInv, CacheSound,
           CacheSteps
<1>5. CASE Initialize
  <2>1. /\ mode = "fresh" /\ mode' = mode /\ pc' = "migrate" /\ db' = db
        /\ connected' = "template" /\ files' = files
        /\ db["template"] = Empty
        /\ pending' = DOMAIN files \ DOMAIN db["template"].done
    BY <1>5, <1>t DEF Initialize, Goto, Connect, ExistInv, ContentInv
  <2>2. pending' = DOMAIN files
    BY <2>1 DEF Empty
  <2>3. Half(Empty)'
    BY <2>1, <2>2, <1>t DEF Half, Empty, TypeOK
  <2> QED
    BY <2>1, <2>3 DEF ContentInv, CacheSound, CacheSteps, Half
<1>6. CASE CheckDatabaseExists
  BY <1>6
     DEF CheckDatabaseExists, MD5s, Goto, ContentInv, CacheSound, CacheSteps
<1>7. CASE CreateIntermediate
  <2>1. db'["intermediate"] = Empty
    BY <1>7, <1>n, <1>t DEF CreateIntermediate, TypeOK
  <2> QED
    BY <1>7, <2>1
       DEF CreateIntermediate, Goto, locals, ContentInv, CacheSound,
           CacheSteps, Empty
<1>8. CASE Lookup
  <2> DEFINE i == db["intermediate"]
  <2>1. /\ i \in Database /\ i # None /\ hashes = files
        /\ db'["intermediate"] = [i EXCEPT !.table = TRUE]
    BY <1>8, <1>n, <1>t DEF Lookup, TypeOK, ExistInv, ContentInv, CacheSteps
  <2>2. /\ db'["intermediate"].done = i.done
        /\ db'["intermediate"].cache = i.cache
    BY <2>1 DEF Database
  <2>3. IsValid(i.cache) => [i EXCEPT !.table = TRUE] = CacheOf(files)
    BY <2>1
       DEF IsValid, CacheOf, ContentInv, CacheSound, RestInv,
           CacheWithoutFixtures, Database
  <2> QED
    BY <1>8, <2>1, <2>2, <2>3
       DEF Lookup, OutdatedGoes, Goto, ContentInv, CacheSound, CacheSteps
<1>9. CASE Wipe
  <2>1. db'["intermediate"] = None
    BY <1>9, <1>n, <1>t DEF Wipe, TypeOK
  <2> QED
    BY <1>9, <2>1 DEF Wipe, Goto, locals, ContentInv, CacheSound, CacheSteps
<1>10. CASE Rebuild
  <2>1. db'["intermediate"] = Empty
    BY <1>10, <1>n, <1>t DEF Rebuild, TypeOK
  <2> QED
    BY <1>10, <2>1
       DEF Rebuild, Goto, locals, ContentInv, CacheSound, CacheSteps, Empty
<1>11. CASE CreateTable
  <2>1. db'["intermediate"] = [Empty EXCEPT !.table = TRUE]
    BY <1>11, <1>n, <1>t DEF CreateTable, WithTable, TypeOK, ContentInv
  <2> QED
    BY <1>11, <2>1
       DEF CreateTable, Goto, locals, ContentInv, CacheSound, CacheSteps,
           Empty
<1>12. CASE AttemptFails
  BY <1>12, <1>s
     DEF AttemptFails, MayRetry, Goto, ContentInv, CacheSound, CacheSteps,
         Attempt
<1>13. CASE ConnectIntermediate
  <2>1. /\ mode = "cache" /\ mode' = mode /\ pc' = "migrate" /\ db' = db
        /\ connected' = "intermediate" /\ files' = files /\ hashes' = hashes
        /\ db["intermediate"] = [Empty EXCEPT !.table = TRUE]
        /\ pending' = DOMAIN files
    BY <1>13, <1>t
       DEF ConnectIntermediate, Goto, Connect, ExistInv, ContentInv, Empty,
           CacheSteps
  <2>2. Half([Empty EXCEPT !.table = TRUE])'
    BY <2>1, <1>t DEF Half, Empty, TypeOK
  <2>3. hashes = files
    BY <1>13 DEF ConnectIntermediate, ContentInv, CacheSteps
  <2> QED
    BY <2>1, <2>2, <2>3 DEF ContentInv, CacheSound, CacheSteps, Half
<1>14. ASSUME NEW f \in Files, Migrate(f)
       PROVE  ContentInv'
  <2> DEFINE d == db[connected]
             new == [g \in DOMAIN d.done \cup {f} |->
                       IF g = f THEN files[f] ELSE d.done[g]]
  <2>1. /\ connected \in Names /\ d \in Database /\ Half(d)
        /\ connected = IF mode = "cache" THEN "intermediate" ELSE "template"
    BY <1>14, <1>n, <1>t DEF Migrate, TypeOK, ExistInv, ContentInv
  <2>2. /\ db'[connected] = [d EXCEPT !.done = new]
        /\ \A n \in Names \ {connected} : db'[n] = db[n]
    BY <1>14, <1>t, <2>1 DEF Migrate, TypeOK
  <2>3. /\ db'[connected].done = new /\ db'[connected].table = d.table
        /\ db'[connected].cache = d.cache /\ db'[connected].rows = d.rows
    BY <2>1, <2>2 DEF Database
  <2>4. /\ pending' = pending \ {f} /\ f \in pending /\ f \in DOMAIN files
        /\ files' = files /\ mode' = mode /\ connected' = connected
        /\ pc = "migrate" /\ pc' = pc /\ hashes' = hashes
    BY <1>14 DEF Migrate
  <2>5. Half(d)'
    BY <2>1, <2>3, <2>4 DEF Half
  <2>6. CacheSound'
    <3>1. CASE connected = "intermediate"
      BY <2>1, <2>3, <3>1 DEF Half, CacheSound
    <3>2. CASE connected # "intermediate"
      BY <1>n, <2>2, <3>2 DEF ContentInv, CacheSound
    <3> QED
      BY <3>1, <3>2
  <2> QED
    BY <2>4, <2>5, <2>6 DEF ContentInv, CacheSteps, Half
<1>15. CASE Migrated
  <2>1. /\ db[connected] \in Database /\ Half(db[connected]) /\ pending = {}
        /\ connected = IF mode = "cache" THEN "intermediate" ELSE "template"
    BY <1>15, <1>n, <1>t DEF Migrated, TypeOK, ExistInv, ContentInv
  <2>2. db[connected] = [done |-> files, table |-> (mode = "cache"),
                         cache |-> None, rows |-> FALSE]
    BY <2>1, <1>t, HalfOfAll DEF TypeOK
  <2>3. CASE mode = "cache"
    <3>1. db["intermediate"] = Uncached(files)
      BY <2>1, <2>2, <2>3 DEF Uncached
    <3> QED
      BY <1>15, <2>3, <3>1
         DEF Migrated, Goto, locals, ContentInv, CacheSound, CacheSteps
  <2>4. CASE mode # "cache"
    <3>1. db["template"] = TemplateOf(files, FALSE)
      BY <2>1, <2>2, <2>4 DEF TemplateOf
    <3> QED
      BY <1>15, <2>4, <3>1
         DEF Migrated, Goto, locals, ContentInv, CacheSound, CacheSteps
  <2> QED
    BY <2>3, <2>4
<1>16. CASE RecordHashes
  <2>1. /\ hashes = files /\ connected = "intermediate"
        /\ db["intermediate"] = Uncached(files)
    BY <1>16, <1>t DEF RecordHashes, ExistInv, ContentInv, CacheSteps
  <2>2. db'["intermediate"] = [Uncached(files) EXCEPT !.cache = files]
    BY <1>16, <1>n, <1>t, <2>1 DEF RecordHashes, TypeOK
  <2>3. db'["intermediate"] = CacheOf(files)
    BY <2>2, <1>t, Changed DEF TypeOK
  <2> QED
    BY <1>16, <2>1, <2>3
       DEF RecordHashes, Goto, CacheOf, ContentInv, CacheSound, CacheSteps
<1>17. CASE DropOldTemplate
  <2>1. db'["intermediate"] = db["intermediate"]
    BY <1>17, <1>n, <1>t DEF DropOldTemplate, TypeOK
  <2> QED
    BY <1>17, <2>1
       DEF DropOldTemplate, Goto, locals, ContentInv, CacheSound, CacheSteps
<1>18. CASE CopyIntermediate
  <2>1. /\ db'["intermediate"] = db["intermediate"]
        /\ db'["template"] = db["intermediate"]
    BY <1>18, <1>n, <1>t DEF CopyIntermediate, TypeOK
  <2> QED
    BY <1>18, <2>1
       DEF CopyIntermediate, Goto, locals, ContentInv, CacheSound, CacheSteps
<1>19. CASE ConnectTemplate
  BY <1>19 DEF ConnectTemplate, Goto, ContentInv, CacheSound, CacheSteps
<1>20. CASE DropTable
  <2>1. /\ connected = "template" /\ db["template"] = CacheOf(files)
        /\ db'["intermediate"] = db["intermediate"]
        /\ db'["template"] =
             [CacheOf(files) EXCEPT !.table = FALSE, !.cache = None]
    BY <1>20, <1>n, <1>t DEF DropTable, TypeOK, ExistInv, ContentInv
  <2>2. [CacheOf(files) EXCEPT !.table = FALSE, !.cache = None]
          = TemplateOf(files, FALSE)
    BY <1>t, Changed DEF TypeOK
  <2> QED
    BY <1>20, <2>1, <2>2
       DEF DropTable, Goto, locals, ContentInv, CacheSound, CacheSteps
<1>21. CASE Import
  <2>1. /\ connected = "template"
        /\ db["template"] = TemplateOf(files, FALSE)
        /\ db'["intermediate"] = db["intermediate"]
        /\ db'["template"] = [TemplateOf(files, FALSE) EXCEPT !.rows = TRUE]
    BY <1>21, <1>n, <1>t DEF Import, WithRows, TypeOK, ExistInv, ContentInv
  <2>2. [TemplateOf(files, FALSE) EXCEPT !.rows = TRUE]
          = TemplateOf(files, TRUE)
    BY <1>t, Changed DEF TypeOK
  <2> QED
    BY <1>21, <2>1, <2>2
       DEF Import, Stop, Goto, locals, ContentInv, CacheSound, CacheSteps
<1>22. CASE Exit
  BY <1>22, <1>s DEF Exit
<1>23. CASE Edit
  BY <1>23 DEF Edit, locals, ContentInv, CacheSound, CacheSteps
<1>24. CASE UNCHANGED vars
  BY <1>24 DEF vars, locals, ContentInv, CacheSound, CacheSteps, Half
<1> QED
  BY <1>1, <1>2, <1>3, <1>4, <1>5, <1>6, <1>7, <1>8, <1>9, <1>10, <1>11,
     <1>12, <1>13, <1>14, <1>15, <1>16, <1>17, <1>18, <1>19, <1>20, <1>21,
     <1>22, <1>23, <1>24
     DEF Next, Try, Prepare

(* Then the contents are known throughout. *)
LEMMA Contents ==
  ASSUME ~EditsWhileStarting
  PROVE  Spec => []ContentInv
<1>1. Init => ContentInv
  BY DEF Init, ContentInv, CacheSound, Names, CacheSteps
<1>2. IInv /\ RestInv /\ ContentInv /\ [Next]_vars => ContentInv'
  BY NextContentInv
<1> QED
  BY Invariance, <1>1, <1>2, PTL DEF Spec

(* When files change between two starts only, the hashes in the row        *)
(* migration_cache are those of the migrations that are next to them,      *)
(* wherever earlier processes ended: comparing hashes, as                  *)
(* TestStrategy.init does, is as good as comparing migrations.             *)
THEOREM Sound == ~EditsWhileStarting => (Spec => []CacheSound)
<1> SUFFICES ASSUME ~EditsWhileStarting
             PROVE  Spec => []CacheSound
  OBVIOUS
<1>1. Spec => []ContentInv
  BY Contents
<1>2. ContentInv => CacheSound
  BY DEF ContentInv
<1> QED
  BY <1>1, <1>2, PTL

(* Then the pool clones a database with exactly the migrations there are,  *)
(* the fixtures, and no trace of the cache. (TestStrategy.init)            *)
THEOREM Fresh == ~EditsWhileStarting => (Spec => []TestsMigrated)
<1> SUFFICES ASSUME ~EditsWhileStarting
             PROVE  Spec => []TestsMigrated
  OBVIOUS
<1>1. Spec => []ContentInv
  BY Contents
<1>2. ContentInv => TestsMigrated
  BY DEF ContentInv, TestsMigrated, TemplateOf
<1> QED
  BY <1>1, <1>2, PTL
=============================================================================
