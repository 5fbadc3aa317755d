--------------------------- MODULE MigrationCache ---------------------------
(***************************************************************************)
(* The database that TestStrategy.init prepares for the pool to clone: the *)
(* template database with all migrations and fixtures.  Migrations are     *)
(* kept from one start of the tests to the next in an intermediate         *)
(* database, together with the hashes of the files they were in.           *)
(*                                                                         *)
(* One process at a time prepares it; it may end anywhere, for any reason, *)
(* and is started again.  A step is one query, or several that nobody can  *)
(* tell apart after a crash.  The module ends where the pool begins.       *)
(***************************************************************************)
EXTENDS Naturals

CONSTANTS
  Files,     \* names of migration files
  Versions,  \* their possible contents, or the hashes of these
  None,
  MaxTries,  \* bound: attempts of the first part (max_tries)
  EditsWhileStarting  \* may files change while the tests are starting?

ASSUME MaxTriesAssumption == MaxTries \in Nat \ {0}
ASSUME EditsAssumption == EditsWhileStarting \in BOOLEAN

(* a migrations directory, or what was migrated from one *)
Directory == UNION {[S -> Versions] : S \in SUBSET Files}
Database == [done: Directory,  \* SequelizeMeta
             table: BOOLEAN,   \* does test_strategy_intermediate exist?
             cache: Directory \cup {None},  \* its row migration_cache
             rows: BOOLEAN]    \* bulkData and fixtureTrees
Names == {"intermediate", "template"}

ASSUME NoneAssumption == None \notin Directory \cup Database \cup Names

VARIABLES
  files,      \* the migrations directory
  db,         \* PostgreSQL
  pc, mode,   \* of the process: where it is, how it was configured
  tries,      \* attempts so far
  hashes,     \* currentMigrationHashes
  skip,       \* allowedToSkipMigrations
  pending,    \* migrations that migrateUp has yet to run
  connected   \* the database that the storage is connected to

locals == <<mode, tries, hashes, skip, pending, connected>>
vars == <<files, db, pc, locals>>

(* what bluebirdRetry tries again *)
Attempt == {"attempt", "droptables", "create", "createcache", "lookup", "wipe",
            "rebuild", "retable"}

TypeOK ==
  /\ files \in Directory
  /\ db \in [Names -> Database \cup {None}]
  /\ pc \in Attempt \cup {"idle", "initialize", "connect", "migrate", "record",
                          "drop", "copy", "reconnect", "untable", "import",
                          "ready"}
  /\ mode \in {"cache", "fresh", "tables"}
  /\ tries \in 0 .. MaxTries
  /\ hashes \in Directory \cup {None}
  /\ skip \in BOOLEAN
  /\ pending \subseteq Files
  /\ connected \in Names \cup {None}

Empty == [done |-> [f \in {} |-> None], table |-> FALSE, cache |-> None,
          rows |-> FALSE]

Init ==
  /\ files \in Directory
  /\ db = [n \in Names |-> None]
  /\ pc = "idle" /\ mode = "cache" /\ tries = 0
  /\ hashes = None /\ skip = FALSE /\ pending = {} /\ connected = None

-----------------------------------------------------------------------------
(* Variants of the helpers below, each with a plausible mistake that one   *)
(* of the properties rules out.                                            *)
SameNames(c) == c # None /\ DOMAIN c = DOMAIN hashes  \* names compared only
NoWipe == "retable"                                   \* the cache is kept
WithoutTable(d) == d                                  \* a cache without table
OverwrittenConfig == "intermediate"                   \* config not restored

(* Helpers *)
MD5s == files
MayRetry == tries < MaxTries
IsValid(c) == c # None /\ c = hashes
OutdatedGoes == "wipe"
WithTable(d) == [d EXCEPT !.table = TRUE]
(* bulkImport and treeImport *)
WithRows(d) == [d EXCEPT !.rows = TRUE]
MainConfig == "template"

Goto(where) == pc' = where

(* The process ends, and with it its variables and connections. *)
Stop ==
  /\ pc' = "idle" /\ mode' = "cache" /\ tries' = 0
  /\ hashes' = None /\ skip' = FALSE /\ pending' = {} /\ connected' = None

(* storage.initialize(n), and the migrations that migrateUp finds pending *)
Connect(n) ==
  /\ connected' = n
  /\ pending' = DOMAIN files \ DOMAIN db[n].done

-----------------------------------------------------------------------------
(* What is tried again *)

Start(m) ==
  /\ pc = "idle"
  /\ Goto("attempt")
  /\ mode' = m
  /\ tries' = 1
  /\ UNCHANGED <<files, db, hashes, skip, pending, connected>>

(* fastDropAndCreate = false: connecting to no database ends the process. *)
InitializeOld ==
  /\ pc = "attempt" /\ mode = "tables"
  /\ IF db["template"] = None
     THEN Stop
     ELSE Goto("droptables") /\ Connect("template")
          /\ UNCHANGED <<mode, tries, hashes, skip>>
  /\ UNCHANGED <<files, db>>

DropAllTables ==
  /\ pc = "droptables"
  /\ Goto("migrate")
  /\ db' = [db EXCEPT ![connected] = Empty]
  /\ pending' = DOMAIN files
  /\ UNCHANGED <<files, mode, tries, hashes, skip, connected>>

(* fastDropAndCreate of the template database, from template0 *)
DropTemplate ==
  /\ pc = "attempt" /\ mode = "fresh"
  /\ Goto("create")
  /\ db' = [db EXCEPT !["template"] = None]
  /\ UNCHANGED <<files, locals>>

CreateTemplate ==
  /\ pc = "create"
  /\ Goto("initialize")
  /\ db' = [db EXCEPT !["template"] = Empty]
  /\ UNCHANGED <<files, locals>>

Initialize ==
  /\ pc = "initialize"
  /\ Goto("migrate")
  /\ Connect("template")
  /\ UNCHANGED <<files, db, mode, tries, hashes, skip>>

(* with the cache: hash the files, and see whether the cache exists *)
CheckDatabaseExists ==
  /\ pc = "attempt" /\ mode = "cache"
  /\ hashes' = MD5s
  /\ Goto(IF db["intermediate"] = None THEN "createcache" ELSE "lookup")
  /\ UNCHANGED <<files, db, mode, tries, skip, pending, connected>>

CreateIntermediate ==
  /\ pc = "createcache"
  /\ Goto("lookup")
  /\ db' = [db EXCEPT !["intermediate"] = Empty]
  /\ UNCHANGED <<files, locals>>

(* create the table unless it exists, and compare what is in it *)
Lookup ==
  /\ pc = "lookup"
  /\ db' = [db EXCEPT !["intermediate"].table = TRUE]
  /\ skip' = IsValid(db["intermediate"].cache)
  /\ Goto(IF skip' THEN "drop" ELSE OutdatedGoes)
  /\ UNCHANGED <<files, mode, tries, hashes, pending, connected>>

Wipe ==
  /\ pc = "wipe"
  /\ Goto("rebuild")
  /\ db' = [db EXCEPT !["intermediate"] = None]
  /\ UNCHANGED <<files, locals>>

Rebuild ==
  /\ pc = "rebuild"
  /\ Goto("retable")
  /\ db' = [db EXCEPT !["intermediate"] = Empty]
  /\ UNCHANGED <<files, locals>>

CreateTable ==
  /\ pc = "retable"
  /\ Goto("connect")
  /\ db' = [db EXCEPT !["intermediate"] = WithTable(@)]
  /\ UNCHANGED <<files, locals>>

(* A query fails; those before it were executed.  (A storage that cannot   *)
(* connect ends the process instead.)                                      *)
AttemptFails ==
  /\ pc \in Attempt
  /\ pc = "attempt" => mode # "tables"
  /\ IF MayRetry
     THEN /\ Goto("attempt")
          /\ tries' = tries + 1
          /\ UNCHANGED <<mode, hashes, skip, pending, connected>>
     ELSE Stop
  /\ UNCHANGED <<files, db>>

-----------------------------------------------------------------------------
(* What is done once *)

ConnectIntermediate ==
  /\ pc = "connect"
  /\ Goto("migrate")
  /\ Connect("intermediate")
  /\ UNCHANGED <<files, db, mode, tries, hashes, skip>>

(* migrateUp: a file is read when it is its turn. *)
Migrate(f) ==
  /\ pc = "migrate"
  /\ f \in pending \cap DOMAIN files
  /\ db' = [db EXCEPT ![connected].done =
              [g \in DOMAIN @ \cup {f} |-> IF g = f THEN files[f] ELSE @[g]]]
  /\ pending' = pending \ {f}
  /\ UNCHANGED <<files, pc, mode, tries, hashes, skip, connected>>

Migrated ==
  /\ pc = "migrate"
  /\ pending = {}
  /\ Goto(IF mode = "cache" THEN "record" ELSE "import")
  /\ UNCHANGED <<files, db, locals>>

(* DELETE and INSERT of the row in one query; disconnect *)
RecordHashes ==
  /\ pc = "record"
  /\ Goto("drop")
  /\ db' = [db EXCEPT ![connected].cache = hashes]
  /\ connected' = None
  /\ UNCHANGED <<files, mode, tries, hashes, skip, pending>>

(* fastDropAndCreate of the template database, from the intermediate one *)
DropOldTemplate ==
  /\ pc = "drop"
  /\ Goto("copy")
  /\ db' = [db EXCEPT !["template"] = None]
  /\ UNCHANGED <<files, locals>>

CopyIntermediate ==
  /\ pc = "copy"
  /\ Goto("reconnect")
  /\ db' = [db EXCEPT !["template"] = db["intermediate"]]
  /\ UNCHANGED <<files, locals>>

ConnectTemplate ==
  /\ pc = "reconnect"
  /\ Goto("untable")
  /\ connected' = MainConfig
  /\ UNCHANGED <<files, db, mode, tries, hashes, skip, pending>>

(* DROP TABLE, which fails if there is none *)
DropTable ==
  /\ pc = "untable"
  /\ db[connected].table
  /\ Goto("import")
  /\ db' = [db EXCEPT ![connected].table = FALSE, ![connected].cache = None]
  /\ UNCHANGED <<files, locals>>

(* The fixtures are imported, and the pool is constructed. *)
Import ==
  /\ pc = "import"
  /\ db' = [db EXCEPT ![connected] = WithRows(@)]
  /\ \/ Goto("ready") /\ UNCHANGED locals
     \/ Stop
  /\ UNCHANGED files

-----------------------------------------------------------------------------
(* The tests end, a query fails that is not tried again, somebody presses  *)
(* Ctrl-C, ...                                                             *)
Exit ==
  /\ pc # "idle"
  /\ Stop
  /\ UNCHANGED <<files, db>>

(* Somebody edits migrations, or compiles or checks out others. *)
Edit ==
  /\ pc = "idle" \/ EditsWhileStarting
  /\ files' \in Directory \ {files}
  /\ UNCHANGED <<db, pc, locals>>

Try ==
  \/ InitializeOld \/ DropAllTables
  \/ DropTemplate \/ CreateTemplate \/ Initialize
  \/ CheckDatabaseExists \/ CreateIntermediate \/ Lookup
  \/ Wipe \/ Rebuild \/ CreateTable

Prepare ==
  \/ ConnectIntermediate
  \/ \E f \in Files : Migrate(f)
  \/ Migrated \/ RecordHashes
  \/ DropOldTemplate \/ CopyIntermediate \/ ConnectTemplate \/ DropTable
  \/ Import

Next ==
  \/ \E m \in {"cache", "fresh", "tables"} : Start(m)
  \/ Try \/ AttemptFails \/ Prepare
  \/ Exit \/ Edit

Spec == Init /\ [][Next]_vars

-----------------------------------------------------------------------------
(* Wherever a process ended: when files only change between two starts,    *)
(* hashes are never found in the cache next to other migrations.           *)
CacheSound ==
  db["intermediate"] # None /\ db["intermediate"].cache # None
    => db["intermediate"].done = db["intermediate"].cache

(* Then the pool clones a database with exactly the migrations that there  *)
(* are, the fixtures, and nothing of the cache.                            *)
TestsMigrated ==
  pc = "ready" =>
    db["template"] = [done |-> files, table |-> FALSE, cache |-> None,
                      rows |-> TRUE]

(* No fixture ever gets into the cache, where the next start would import  *)
(* it again.                                                               *)
CacheWithoutFixtures ==
  db["intermediate"] # None => ~db["intermediate"].rows

(* The part that is not tried again finds what it needs: DROP TABLE and    *)
(* the cache's row their table, the copy its template.                     *)
NothingMissing ==
  /\ pc = "untable" => db["template"].table
  /\ pc = "record" => db["intermediate"].table
  /\ pc = "copy" => db["intermediate"] # None
=============================================================================
