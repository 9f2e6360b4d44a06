------------------------------- MODULE Schema -------------------------------
(***************************************************************************)
(* Opening a database file: SQLiteRepository's constructor.  Several       *)
(* processes open one file at once.  The file may be new, may have been    *)
(* written by an earlier release whose memory_sources table has no         *)
(* snapshots, or may be one this release has to refuse.  An opener first   *)
(* converts the file to write-ahead logging, which fails while another     *)
(* connection holds the file and is retried, and then inspects, migrates   *)
(* and completes the schema in one transaction.  Once the constructor has  *)
(* returned, the client performs the operations of Store, and a newer      *)
(* release may raise the version of the file behind its back.              *)
(*                                                                         *)
(* db, the variable of Store, is the committed rows.  An edge in a legacy  *)
(* memory_sources table has Null in the place of its snapshot.             *)
(***************************************************************************)
EXTENDS Store

CONSTANTS
    Clients,      \* the processes
    NoClient,     \* nobody holds the file
    FoundFiles,   \* the files, of any origin, a path may lead to
    MaxAttempts,  \* _WAL_RETRY_ATTEMPTS, 30 in the code
    DiskFaults    \* whether statements may fail for reasons of the disk

CoreTables == {"raw_events", "raw_event_content", "memories", "memory_sources",
               "tombstones", "audit_log"}

\* The catalog: schema_migrations (absent or without a row: no versions), the
\* core tables, and the text of memory_sources' CREATE statement.
Catalog == [versions: SUBSET Nat, tables: SUBSET CoreTables,
            lineage: {"absent", "legacy", "current", "other"}]

NoSchema == [versions |-> {}, tables |-> {}, lineage |-> "absent"]
Complete == [versions |-> {1}, tables |-> CoreTables, lineage |-> "current"]

\* The rows with the snapshots a legacy table lacks taken from the receipts, as
\* far as there is a receipt.
Lift(d) ==
    [d EXCEPT !.memory_sources =
        [e \in DOMAIN @ |->
            IF @[e] = Null /\ <<e[1], e[3]>> \in DOMAIN d.raw_events
            THEN SnapshotOf(d.raw_events[<<e[1], e[3]>>]) ELSE @[e]]]

ASSUME OpenerAssumption ==
    NoClient \notin Clients /\ DiskFaults \in BOOLEAN /\ MaxAttempts \in Nat \ {0}

ASSUME SnapshotAssumption == Null \notin Snapshot

\* A file without core tables has no rows, only legacy rows lack snapshots, and a
\* receipt of either release has the columns a snapshot is taken from, within
\* their constraints.
ASSUME FoundAssumption ==
    \A file \in FoundFiles :
        /\ file = [schema |-> file.schema, db |-> file.db]
        /\ file.schema \in Catalog
        /\ "memory_sources" \in file.schema.tables <=> file.schema.lineage # "absent"
        /\ file.schema.tables = {} => file.db = EmptyDb
        /\ IsDb(file.db)
        /\ IsTable(file.db.memory_sources, Scopes \X Ids \X Ids, Snapshot \cup {Null})
        /\ IsFiniteSet(DOMAIN file.db.memory_sources)
        /\ file.schema.lineage \in {"legacy", "current"} =>
             \A key \in DOMAIN file.db.raw_events :
                 LET row == file.db.raw_events[key]
                 IN  /\ DOMAIN SnapshotOf(row) \subseteq DOMAIN row
                     /\ SnapshotOf(row) \in Snapshot
        /\ file.schema.lineage = "legacy" =>
             \A e \in DOMAIN file.db.memory_sources : file.db.memory_sources[e] = Null
        /\ file.schema.lineage # "legacy" =>
             \A e \in DOMAIN file.db.memory_sources : file.db.memory_sources[e] # Null

VARIABLES
    schema,     \* the committed catalog
    journal,    \* the journal mode in the file's header
    lock,       \* the client that holds the file exclusively or for writing
    work,       \* what the transaction in progress has made of the file
    phase,      \* how far every client has come
    attempts,   \* failed attempts to enable WAL
    outcome,    \* how the last constructor or operation of a client ended
    found       \* history: the file as it was found

fileVars == <<db, schema, journal>>
schemaVars == <<fileVars, lock, work, phase, attempts, outcome, found>>

NoWork == [schema |-> NoSchema, db |-> EmptyDb]

SchemaInit ==
    /\ found \in FoundFiles
    /\ db = found.db
    /\ schema = found.schema
    /\ journal \in {"delete", "wal"}
    /\ lock = NoClient
    /\ work = NoWork
    /\ phase = [c \in Clients |-> "closed"]
    /\ attempts = [c \in Clients |-> 0]
    /\ outcome = [c \in Clients |-> "none"]

Goto(c, next) == phase' = [phase EXCEPT ![c] = next]
Unlock(c) == lock' = IF lock = c THEN NoClient ELSE lock

\* Rollback and close; the client goes on with the repository it has or without.
Finish(c, next, result) ==
    /\ Goto(c, next)
    /\ outcome' = [outcome EXCEPT ![c] = result]
    /\ attempts' = [attempts EXCEPT ![c] = 0]
    /\ Unlock(c)
    /\ work' = IF lock = c THEN NoWork ELSE work
    /\ UNCHANGED <<fileVars, found>>

\* Mutation: an error leaves the connection open.
RefuseWithoutClose(c, error) ==
    /\ Goto(c, "closed")
    /\ outcome' = [outcome EXCEPT ![c] = error]
    /\ UNCHANGED <<fileVars, lock, work, attempts, found>>

Refuse(c, error) == Finish(c, "closed", error)
-----------------------------------------------------------------------------
(* _connect and _enable_wal                                                *)

\* SQLiteRepository(path); sqlite3.connect creates the file if need be.
Connect(c) ==
    /\ phase[c] = "closed"
    /\ Goto(c, "connected")
    /\ outcome' = [outcome EXCEPT ![c] = "none"]
    /\ UNCHANGED <<fileVars, lock, work, attempts, found>>

\* PRAGMA journal_mode = WAL on a file that is in WAL mode already.
FindWal(c) ==
    /\ phase[c] = "connected" /\ journal = "wal"
    /\ Goto(c, "ready")
    /\ attempts' = [attempts EXCEPT ![c] = 0]
    /\ UNCHANGED <<fileVars, lock, work, outcome, found>>

\* The same on a file that is not takes the file exclusively ...
StartWal(c) ==
    /\ phase[c] = "connected" /\ journal = "delete" /\ lock = NoClient
    /\ lock' = c
    /\ Goto(c, "converting")
    /\ UNCHANGED <<fileVars, work, attempts, outcome, found>>

\* ... until its header is rewritten.
EnableWal(c) ==
    /\ phase[c] = "converting"
    /\ journal' = "wal"
    /\ Unlock(c)
    /\ Goto(c, "ready")
    /\ attempts' = [attempts EXCEPT ![c] = 0]
    /\ UNCHANGED <<db, schema, work, outcome, found>>

\* Mutation: an attempt that fails is repeated without end.
RetryWalForever(c) ==
    /\ phase[c] = "connected" /\ journal = "delete" /\ lock # NoClient
    /\ UNCHANGED schemaVars

\* Somebody else holds the file: sleep and retry, but not for ever.
RetryWal(c) ==
    /\ phase[c] = "connected" /\ journal = "delete" /\ lock # NoClient
    /\ IF attempts[c] + 1 = MaxAttempts
       THEN Refuse(c, "RepositoryBusy")
       ELSE /\ attempts' = [attempts EXCEPT ![c] = @ + 1]
            /\ UNCHANGED <<fileVars, lock, work, phase, outcome, found>>
-----------------------------------------------------------------------------
(* _initialize_schema                                                      *)

BeginImmediate(c) ==
    /\ phase[c] = "ready" /\ lock = NoClient
    /\ lock' = c
    /\ work' = [schema |-> schema, db |-> db]
    /\ Goto(c, "begun")
    /\ UNCHANGED <<fileVars, attempts, outcome, found>>

\* Mutation: an opener that finds the file locked starts over.
StartOver(c) ==
    /\ phase[c] = "ready" /\ lock # NoClient
    /\ Goto(c, "connected")
    /\ UNCHANGED <<fileVars, lock, work, attempts, outcome, found>>

\* The write lock was held for the whole busy_timeout.
LockTimeout(c) ==
    /\ phase[c] = "ready" /\ lock # NoClient
    /\ Refuse(c, "RepositoryBusy")

\* Mutation: core tables without a version are taken for a new file.
RequiresFreshUnlessVersioned(s) ==
    IF s.versions = {} THEN "fresh"
    ELSE IF s.versions # {1} \/ s.tables # CoreTables THEN "RepositoryCorruption"
    ELSE "initialized"

\* _requires_fresh_schema.
RequiresFreshSchema(s) ==
    IF s.versions = {}
    THEN IF s.tables # {} THEN "RepositoryCorruption" ELSE "fresh"
    ELSE IF s.versions # {1} \/ s.tables # CoreTables THEN "RepositoryCorruption"
    ELSE "initialized"

Inspect(c) ==
    LET answer == RequiresFreshSchema(work.schema)
    IN  /\ phase[c] = "begun"
        /\ \/ answer = "RepositoryCorruption" /\ Refuse(c, answer)
           \/ /\ answer # "RepositoryCorruption"
              /\ Goto(c, IF answer = "fresh" THEN "creating" ELSE "migrating")
              /\ UNCHANGED <<fileVars, lock, work, attempts, outcome, found>>

\* The edges that INSERT ... SELECT ... JOIN raw_events carries over.
Joined(d) ==
    {e \in DOMAIN d.memory_sources : <<e[1], e[3]>> \in DOMAIN d.raw_events}

\* Mutation: both snapshots are taken from the recall period.
MigratedFromRecallPeriod(d) ==
    [e \in Joined(d) |->
        LET receipt == SnapshotOf(d.raw_events[<<e[1], e[3]>>])
        IN  [receipt EXCEPT !.clear_for = receipt.recall_for]]

MigratedSources(d) ==
    [e \in Joined(d) |-> SnapshotOf(d.raw_events[<<e[1], e[3]>>])]

\* The constraints of the new table: a memory for every edge, and periods in
\* order.
Insertable(d) ==
    \A e \in Joined(d) :
        /\ <<e[1], e[2]>> \in DOMAIN d.memories
        /\ LET receipt == d.raw_events[<<e[1], e[3]>>]
           IN  receipt.clear_for <= receipt.recall_for

\* _migrate_legacy_memory_sources: rename, create and refill memory_sources.
RebuildLineage(c) ==
    /\ phase[c] = "migrating"
    /\ CASE work.schema.lineage = "current" ->
              /\ Goto(c, "creating")
              /\ UNCHANGED <<fileVars, lock, work, attempts, outcome, found>>
         [] work.schema.lineage = "legacy" /\ Insertable(work.db) ->
              /\ work' = [schema |-> [work.schema EXCEPT !.lineage = "current"],
                          db |-> [work.db EXCEPT !.memory_sources =
                                    MigratedSources(work.db)]]
              /\ Goto(c, "rebuilt")
              /\ UNCHANGED <<fileVars, lock, attempts, outcome, found>>
         [] OTHER -> Refuse(c, "RepositoryCorruption")

\* Mutation: the copied rows are not counted.
DropUncounted(c) ==
    /\ phase[c] = "rebuilt"
    /\ Goto(c, "creating")
    /\ UNCHANGED <<fileVars, lock, work, attempts, outcome, found>>

\* Every legacy row must have been copied before the legacy table is dropped;
\* db still has them, it is what the transaction began with.
DropLegacy(c) ==
    /\ phase[c] = "rebuilt"
    /\ IF Cardinality(DOMAIN work.db.memory_sources)
            = Cardinality(DOMAIN db.memory_sources)
       THEN /\ Goto(c, "creating")
            /\ UNCHANGED <<fileVars, lock, work, attempts, outcome, found>>
       ELSE Refuse(c, "RepositoryCorruption")

\* Mutation: executescript commits before it runs.
CreateTablesInScript(c) ==
    /\ phase[c] = "creating"
    /\ schema' = [work.schema EXCEPT !.tables = CoreTables, !.lineage = "current"]
    /\ db' = work.db
    /\ work' = [schema |-> schema', db |-> db']
    /\ Goto(c, "created")
    /\ UNCHANGED <<journal, lock, attempts, outcome, found>>

\* CREATE TABLE IF NOT EXISTS for every table; in a new file memory_sources is
\* then looked at, and is current.
CreateTables(c) ==
    /\ phase[c] = "creating"
    /\ work' = [work EXCEPT !.schema.tables = CoreTables, !.schema.lineage = "current"]
    /\ Goto(c, "created")
    /\ UNCHANGED <<fileVars, lock, attempts, outcome, found>>

\* INSERT OR IGNORE INTO schema_migrations.
Stamp(c) ==
    /\ phase[c] = "created"
    /\ work' = [work EXCEPT !.schema.versions = @ \cup {1}]
    /\ Goto(c, "stamped")
    /\ UNCHANGED <<fileVars, lock, attempts, outcome, found>>

\* Mutation: the connection is closed without a commit.
CloseWithoutCommit(c) == phase[c] = "stamped" /\ Finish(c, "open", "opened")

\* The commit; the constructor returns.
Commit(c) ==
    /\ phase[c] = "stamped"
    /\ schema' = work.schema
    /\ db' = work.db
    /\ work' = NoWork
    /\ Unlock(c)
    /\ Goto(c, "open")
    /\ outcome' = [outcome EXCEPT ![c] = "opened"]
    /\ UNCHANGED <<journal, attempts, found>>
-----------------------------------------------------------------------------
(* The operations of a client that has opened the file; each of them       *)
(* connects anew, and finds the file in WAL mode.                          *)

BeginOperation(c) ==
    /\ phase[c] = "open" /\ lock = NoClient
    /\ lock' = c
    /\ Goto(c, "operating")
    /\ UNCHANGED <<fileVars, work, attempts, outcome, found>>

\* Mutation: the version was checked when the file was opened.
OperateUnchecked(c) ==
    /\ phase[c] = "operating"
    /\ Next
    /\ Unlock(c)
    /\ Goto(c, "open")
    /\ outcome' = [outcome EXCEPT ![c] = "done"]
    /\ UNCHANGED <<schema, journal, work, attempts, found>>

\* _require_supported_schema, then any operation of Store and its commit.
Operate(c) ==
    /\ phase[c] = "operating"
    /\ IF schema.versions = {1}
       THEN /\ Next
            /\ Unlock(c)
            /\ Goto(c, "open")
            /\ outcome' = [outcome EXCEPT ![c] = "done"]
            /\ UNCHANGED <<schema, journal, work, attempts, found>>
       ELSE Finish(c, "open", "RepositoryCorruption")
-----------------------------------------------------------------------------
\* A statement or a commit fails: rollback, and the error is translated.
StatementFails(c) ==
    /\ DiskFaults
    /\ phase[c] \notin {"closed", "open"}
    /\ Finish(c, IF phase[c] = "operating" THEN "open" ELSE "closed",
              "RepositoryCorruption")

\* The process dies; SQLite drops its lock and what it has not committed.
Crash(c) == phase[c] # "closed" /\ Refuse(c, "lost")

\* A newer release opens the file and raises its version.
Upgrade ==
    /\ lock = NoClient /\ schema = Complete
    /\ \E versions \in {{2}, {1, 2}} :
         schema' = [schema EXCEPT !.versions = versions]
    /\ UNCHANGED <<db, journal, lock, work, phase, attempts, outcome, found>>

\* What a process does until its constructor or operation is over.
Step(c) ==
    \/ FindWal(c) \/ StartWal(c) \/ EnableWal(c) \/ RetryWal(c)
    \/ BeginImmediate(c) \/ LockTimeout(c) \/ Inspect(c) \/ RebuildLineage(c)
    \/ DropLegacy(c) \/ CreateTables(c) \/ Stamp(c) \/ Commit(c) \/ Operate(c)

SchemaNext ==
    \/ \E c \in Clients :
         Connect(c) \/ Step(c) \/ BeginOperation(c) \/ StatementFails(c) \/ Crash(c)
    \/ Upgrade

\* A process that is not killed goes on.
Fairness == \A c \in Clients : WF_schemaVars(Step(c))

SchemaSpec == SchemaInit /\ [][SchemaNext]_schemaVars /\ Fairness
-----------------------------------------------------------------------------
Phase == {"closed", "connected", "converting", "ready", "begun", "migrating",
          "rebuilt", "creating", "created", "stamped", "open", "operating"}

\* The phases of a transaction that builds the schema.
Initializing == {"begun", "migrating", "rebuilt", "creating", "created", "stamped"}

Outcomes == {"none", "opened", "done", "lost", "RepositoryBusy", "RepositoryCorruption"}

\* Types, and who holds the file: exactly the client that converts it or is
\* between BEGIN IMMEDIATE and the end of its transaction; the retries of an
\* opener are counted up to MaxAttempts.
SchemaTypeOK ==
    /\ work = [schema |-> work.schema, db |-> work.db]
    /\ IsDb(db) /\ IsDb(work.db)
    /\ schema \in Catalog /\ work.schema \in Catalog
    /\ journal \in {"delete", "wal"}
    /\ lock \in Clients \cup {NoClient}
    /\ phase \in [Clients -> Phase]
    /\ attempts \in [Clients -> 0..(MaxAttempts - 1)]
    /\ outcome \in [Clients -> Outcomes]
    /\ \A c \in Clients :
         /\ lock = c <=> phase[c] \in {"converting", "operating"} \cup Initializing
         /\ attempts[c] > 0 => phase[c] \in {"connected", "converting"}
         /\ phase[c] \in {"ready", "open", "operating"} \cup Initializing =>
              journal = "wal"

\* The files the constructor accepts: new ones, those of this release, and those
\* of the earlier one whose every edge has its memory and its receipt.
Migratable(d) ==
    \A e \in DOMAIN d.memory_sources :
        /\ <<e[1], e[2]>> \in DOMAIN d.memories
        /\ <<e[1], e[3]>> \in DOMAIN d.raw_events
        /\ d.raw_events[<<e[1], e[3]>>].clear_for <= d.raw_events[<<e[1], e[3]>>].recall_for
Openable(file) ==
    \/ file.schema = NoSchema
    \/ file.schema = Complete
    \/ file.schema = [Complete EXCEPT !.lineage = "legacy"] /\ Migratable(file.db)

Upgraded == {[Complete EXCEPT !.versions = v] : v \in {{2}, {1, 2}}}

\* Nobody ever sees half a schema: whoever crashes, fails or competes during the
\* creation or the migration, the file is as it was found or complete, and a
\* file the constructor refuses stays as it was found, catalog and rows
\* (only its journal mode may have changed).
FileIntact ==
    IF Openable(found)
    THEN \/ schema = found.schema /\ (schema # Complete => db = found.db)
         \/ schema \in {Complete} \cup Upgraded
    ELSE schema = found.schema /\ db = found.db

\* A constructor that returned has made its schema durable: a client with a
\* repository finds the complete schema, or a newer one somebody has made of it.
OpenMeansComplete ==
    \A c \in Clients : phase[c] \in {"open", "operating"} =>
        schema \in {Complete} \cup Upgraded

\* Openers do not make each other fail: a file that can be opened is never
\* reported as corrupt, neither by a constructor that meets another one half-way
\* nor by an operation that meets a constructor.  Stated for a disk without
\* faults and until a newer release has raised the version.
NoFalseRefusal ==
    DiskFaults = FALSE /\ Openable(found) /\ schema \notin Upgraded =>
        \A c \in Clients : outcome[c] # "RepositoryCorruption"

\* A store that was consistent before an earlier release's file was migrated is
\* consistent ever after: the snapshots the migration writes are the ones that
\* materialize_once would have written, so that every reader accepts them.
Sound(d) == DbType(d) /\ DbConsistent(d)
ConsistencyKept == Sound(Lift(found.db)) => Sound(Lift(db))

\* Opening loses nothing: with the snapshots of a legacy table read from the
\* receipts, the rows change by the operations of Store alone, whatever is
\* created, migrated, rolled back or refused.
Rows == INSTANCE Store WITH db <- Lift(db)
MigrationKeepsRows == [][Rows!Next]_(Lift(db))

\* This release never writes to a file of another version, whether it was found
\* so or was upgraded while clients had it open (every transaction checks the
\* version again).
OtherVersionUntouched ==
    [][schema.versions \notin {{}, {1}} => db' = db /\ schema' = schema]_fileVars

\* The steps a constructor or an operation still has to take at most: the attempts
\* to enable WAL that are left, the conversion, and seven that initialise the
\* schema.
StepsLeft(c) ==
    CASE phase[c] \in {"closed", "open"} -> 0
      [] phase[c] = "connected" -> (MaxAttempts - attempts[c]) + 8
      [] phase[c] = "converting" -> 8
      [] phase[c] = "ready" -> 7
      [] phase[c] = "begun" -> 6
      [] phase[c] = "migrating" -> 5
      [] phase[c] = "rebuilt" -> 4
      [] phase[c] = "creating" -> 3
      [] phase[c] = "created" -> 2
      [] phase[c] \in {"stamped", "operating"} -> 1

\* No opener is ever set back, neither by losing the race for the file to others
\* nor by what they have made of it meanwhile: every step begins a constructor or
\* an operation or brings one nearer to its end, and makes no other one longer.
OpenAdvances ==
    \E c \in Clients :
        /\ \/ phase[c] \in {"closed", "open"} /\ phase[c]' # phase[c]
           \/ StepsLeft(c)' < StepsLeft(c)
        /\ \A other \in Clients \ {c} : StepsLeft(other)' = StepsLeft(other)
OpenersNeverSetBack == [][OpenAdvances]_<<phase, attempts>>

\* Every constructor and every operation ends, with a result, with
\* RepositoryBusy or with the process: no opener retries for ever.
EveryOpenEnds ==
    \A c \in Clients :
        phase[c] \notin {"closed", "open"} ~> phase[c] \in {"closed", "open"}
=============================================================================
