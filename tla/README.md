# A formal model of TrueHeart Core

TrueHeart Core is a Python library that keeps *events* (what a host was told) and
*memories* (what the host concluded from events) in a SQLite file, under rules about
retention, trust, governance and deletion. This directory holds TLA+ modules that model
the library, TLC configurations that check them on small instances, and proofs for every
value of the constants. Paths such as `sqlite.py` are under `src/src/trueheart_core/`.

## 1. Inventory

| Component | State it keeps | Operations | What makes it correct |
|---|---|---|---|
| Domain contract (`domain.py`) | none; frozen dataclasses | constructors that validate and freeze | only well-formed requests exist, and they do not change under the host's hands |
| Errors (`errors.py`) | none | exception classes | every refusal is one of them |
| Service facade (`service.py`) | none; holds a repository and a clock | `ingest_event`, `materialize_once`, `recall`, `expire_raw_content`, `govern`, `audit` | adds the hash, the deadlines and the fingerprint; ranks recall |
| Persistence boundary (`ports.py`) | none | the `Repository` protocol, `_dependency_fingerprint` | the fingerprint ignores the order of sources |
| SQLite repository (`sqlite.py`) – lifecycle | the tables below | `ingest_event`, `materialize_once`, `govern`, `expire_raw_content` | deletion is complete and final, ceilings hold, retries are safe, the log adds up |
| – reads | none | `recall_candidates`, `audit` | the documented order and number of rows, nothing stale |
| – connections | the file, its write lock | `_connect`, `BEGIN IMMEDIATE`, commit, `_rollback_quietly` | operations are atomic, busy ends in an error and not in a hang |
| – schema | `schema_migrations`, table definitions, journal mode | `__init__`, `_enable_wal`, `_initialize_schema`, `_migrate_legacy_memory_sources`, `_require_supported_schema` | concurrent openers agree; nobody sees half a schema; a migration loses no edge |
| – integrity checks | none | `_receipt`, `_memory_record`, `_lineage_fingerprint`, `_tombstone_identity`, `_audit_record` | a row that is not as written is reported and never used |
| Release verifier (`scripts/`), workflows, example | none | scripts | out of scope |

**Tables.** `raw_events` holds a receipt per event (source, hash, periods, status),
`raw_event_content` its body until it expires, `memories` a row per memory,
`memory_sources` the edges from memories to events with a snapshot of the event's trust
and periods, `tombstones` what was deleted, `audit_log` one record per successful change.
The primary key of each starts with the scope (tenant, owner, subject), except that of
`audit_log`, which is a random identifier.

**Interactions.** A host calls `TrueHeart`, which computes derived values and calls the
repository; every repository call opens a connection, runs one transaction and closes the
connection. Callers share nothing but the file. Nothing calls back.

**Hard behaviours.**
* *Deletion.* Deleting an event erases the memories derived from it, several look-ups
  decide which, and nothing may bring either back under a retry, a new identifier or
  another order of sources.
* *Retries.* A caller that lost an answer repeats the request, later, after a sweep or a
  deletion by somebody else, with metadata objects it has changed in the meantime.
* *Redundancy.* Trust, periods and fingerprints are stored twice and compared on every
  read; one inconsistent row makes a whole scope unreadable.
* *Sharing.* All scopes live in the same tables; two error paths look across scopes on
  purpose.
* *Concurrency.* Several processes open, create, migrate and use the same file; SQLite
  serialises writers, readers see a snapshot; lock waits are bounded.
* *Crashes.* A process may die between any two statements, in the middle of a migration,
  or after a commit and before the caller has its answer.
* *Boundaries.* Python integers and `timedelta` are wider than SQLite's columns, `datetime`
  is narrower, Python's `==` is coarser than canonical JSON, clarity is a rounded float.

`PROJECT.json` lists every hazard with the line where it bites and the properties that
cover it.

## 2. Modules

| Module | Models | Source |
|---|---|---|
| `Domain` | requests, enumerations, fingerprint, derived instants; the constructors' rules are its assumptions | `domain.py`, `ports.py`, `service.py` |
| `JsonMetadata` | freezing, canonical text, storing and comparing of metadata while the host changes its containers | `domain.py`, `sqlite.py` |
| `Repository` | every repository operation as an *outcome* (the chain of early returns, in the code's order) and an *effect* (the database after the commit); the readers' checks | `sqlite.py` |
| `Store` | the service as a state machine over one database value; the properties of the rows | `service.py`, `sqlite.py` |
| `Lifecycle`, `StoreRefinement` | the abstract promise (unknown → held → expired → erased, active ⇄ sealed → erased), and the mapping under which `Store` implements it | – |
| `Recall` | extends `Store` with what hosts are handed: clarity, the three stable sorts, the limit, `affected_ids`, the count of a sweep | `service.py`, `sqlite.py` |
| `AuditTrail` | extends `Store` with the identifiers and times of audit records and the order of `audit` | `sqlite.py` |
| `Integrity` | extends `Store` with one row altered or lost behind the library's back | `sqlite.py` |
| `SqliteTx` | extends `Store`: several clients over one file, each call taken apart into connect, `BEGIN`, reads, writes, commit, return, with lock timeouts, failing statements and crashes; implements `Store` | `sqlite.py` |
| `Schema` | extends `Store`: several clients that open one file of any origin: WAL conversion, inspection, migration, creation, version stamp, and the version check of later operations; implements `Store` up to the migrated columns | `sqlite.py` |
| `MC…` | the requests and files of the small instances | – |
| `Paging` | `list.sort` and the slice `[:limit]`, used by `Recall` and `AuditTrail` | `service.py`, `sqlite.py` |
| `StoreProofs`, `ScopeProofs`, `LifecycleProofs`, `ReadProofs`, `IntegrityProofs`, `MetadataProofs`, `SqliteTxProofs`, `SchemaProofs` | theorems, section 5 | – |

`Store` is the hub: every module that adds something to it extends it and keeps its variable
`db` and its operators, so a change of a statement in `Repository` reaches every run.

### The store

* `db` is the content of the file: a record with one function per table, from primary key
  to row. `audit_log` is a bag (a count per record); `AuditTrail` adds what the bag leaves
  out.
* `IngestEvent(draft, now)` is `TrueHeart.ingest_event` followed by
  `SQLiteRepository.ingest_event`; `now` is the injected clock. `MaterializeOnce(draft)`,
  `Govern(c)` and `ExpireRawContent(as_of)` correspond likewise. A request that is refused
  or replayed is a step that leaves `db` alone; the properties evaluate its outcome.
* Outcomes are the names of exceptions plus `created`, `replayed`, `done`.
  `RepositoryCorruption` stands for every check that fails and for an `IntegrityError`
  from an `INSERT` whose key is taken.

### Clients and transactions

| Action of `SqliteTx` | Code |
|---|---|
| `Call` | the caller enters a repository method; `_connect` opens a connection |
| `BeginImmediate`, `LockTimeout` | `BEGIN IMMEDIATE` takes the write lock, or `busy_timeout` runs out and the error becomes `RepositoryBusy` |
| `Decide` | the reads and early returns; a refusal or a replay ends the call here |
| `Write` | the statements on the next table; outside of a transaction they would commit at once |
| `Commit`, `Return` | `connection.commit()`, and the `return` after it |
| `StatementFails` | an `sqlite3.Error` that is not busy: `_rollback_quietly`, `close`, `RepositoryCorruption` |
| `BeginRead`, `SelectMemories`, `SelectSources`, `SelectAudit` | `recall_candidates` and `audit`: a deferred `BEGIN`, a snapshot from the first `SELECT` on |
| `Crash` | the process dies; what is not committed is gone, and after a commit the answer is |

What SQLite does is modelled from how the code uses it: in WAL mode one connection holds the
write lock, readers are not blocked and see one snapshot, and a transaction that is not
committed leaves nothing behind. `copy` is what a transaction sees of its own writes, or a
reader's snapshot; `erased` is a history variable for `NoStaleRecall`.

### Opening a file

| Action of `Schema` | Code |
|---|---|
| `Connect` | `SQLiteRepository(path)`; `sqlite3.connect` creates the file if need be |
| `FindWal`, `StartWal`, `EnableWal`, `RetryWal` | `_enable_wal`: the pragma on a file that is in WAL mode, the conversion that needs the file for itself, and its bounded retries |
| `BeginImmediate`, `LockTimeout` | as above, in `_initialize_schema` |
| `Inspect` | `_requires_fresh_schema`: create, migrate, leave alone, or refuse |
| `RebuildLineage`, `DropLegacy` | `_migrate_legacy_memory_sources`: rename, rebuild by the join with the receipts, compare the counts, drop |
| `CreateTables`, `Stamp`, `Commit` | the `CREATE` statements, the version row, the commit |
| `BeginOperation`, `Operate` | an operation of a client that has the file open: `_require_supported_schema`, then an operation of `Store` |
| `StatementFails`, `Crash` | as above |
| `Upgrade` | a later release raises the version of the file behind the clients' backs (external) |

`schema` is the committed catalog, `journal` the mode in the file's header, `work` what the
transaction in progress has made of the file, and `found` a history variable: the file as it
was found, which may be new, complete, legacy, half-built by something else, or of another
version.

### Answers, log, damage, metadata

* `Recall` has no actions of its own: the page is a function of the database, the query and
  the order in which the `SELECT`, which has no `ORDER BY`, returns the rows. A float is a
  mantissa of `Bits` digits and an exponent, rounded half to even. `Pow2` is the table of the
  powers of two it is scaled by: a constant with its recurrence as an assumption, because no
  prover at hand knows `^`.
* `AuditTrail`'s actions are those of `Store` with the rows they insert: `uuid4` is a fresh
  identifier, the time is the one the code takes from the request or the clock.
* `Integrity`'s `Damage` alters one field of one row within the `CHECK`s of its column, or
  loses the row, once, at any time; `origin` remembers every memory as it was materialized.
  Alterations no check in the code can detect are not made (bodies, metadata, the loss of a
  whole tombstone).
* `JsonMetadata`'s host may change any of its containers between `Construct` (the draft) and
  `Ingest`, nest them in themselves, and use keys and values that are not JSON. Lists and
  dictionaries are entries of a heap and refer to each other; what nobody can change any more,
  a frozen value or a text, is a tree, a function from the way to a node to what is there.
  `Freeze` is the recursion of `_freeze_json` as a recursive function of the depth, with the
  results one level deeper for the recursive calls; it is defined for every heap because
  nothing is called below `MaxDepth`. `json.loads` lays its value out in a heap of its own.

Abstractions, and why they lose nothing the properties speak about:

* Text (identifiers, bodies, kinds) is a member of a small set; SHA-256 is taken to be free
  of collisions. Outside of `JsonMetadata` a JSON object is one scalar with its type and
  value, enough to tell Python's `==` from canonical text; the source's metadata and the
  event's are one field, compared the same way.
* Instants are naturals up to `MaxTime` (`datetime.max`), periods are naturals, and
  `MaxInteger` is the largest INTEGER of SQLite.
* Timestamps of tombstones are left out; nothing reads them back. The metadata and reason
  columns of tombstones and audit records are constants in the code.

## 3. Runs

| Run | Question | Instance |
|---|---|---|
| `lifecycle` | Can any sequence of requests corrupt the store, leave something of a deleted entity, bring it back, rewrite a row or lift a memory above its sources? | 1 scope, 2 events, 3 memories: 4 event drafts (one refused for its deadline, one unstorable and conflicting), 6 memory drafts (two orders of the same sources, an over-trusted one, an unrepresentable deadline, two with one fingerprint), 2 clock readings, sweeps at 3 instants |
| `scopes` | Do scopes influence each other, does each one's log account exactly for its events and memories, and is every request a step, or none, of `Lifecycle`? | the same identifiers for events and memories in 2 scopes, 2 seals of each memory |
| `transactions` | Can clients that interleave, wait, fail and die make a reader see corruption or a deleted memory, be told what did not happen, change the file by less than an operation, or wait for ever? | 2 clients, an event and its memory, 8 requests: record, derive, sweep, delete, forget, seal, recall, audit |
| `opening` | Can one of several openers see, leave behind or be told of half a schema? | 2 clients, 13 kinds of files: new, complete, legacy (5 contents, 3 of them damaged), wrong versions, missing tables, unknown lineage table |
| `open_faults` | With statements that fail and openers that die, are rows kept, other versions left alone, and does every opening end? | 2 clients, a new, two legacy and a newer file |
| `recall` | Is the page of recall the documented one, and are hosts told all that a call erased? | 3 memories that tie in clarity, creation time and both; floats of 2 digits, so rounding makes further ties; limits 1 and 2 |
| `audit_trail` | Does `audit` return the newest records, is every change recorded, and does each record carry the date of what it records? | 2 scopes, 3 events of which those of one scope are due at different instants, a memory, 2 clock readings (so a retry comes later than what it repeats), sweeps at 2 instants in either order, up to 4 audit records, limits 1 to 3, in every order of the rows |
| `integrity` | With one row damaged, is an erased memory handed out, or one with more than its sources allowed? Does the refusal last, and stay in its scope? | a memory of 2 events, one of which has a second version; a second scope with the same identifiers |
| `metadata` | Can what was accepted always be stored, read back and recognised? | 3 containers, 13 contents each (a tuple and a mapping proxy among them), nested up to one level too deep, in each other and in themselves |
| `materialize_retry`, `metadata_equality`, `retention_overflow` | where code and documentation disagree, section 6 | the smallest instance that shows it |

What the bounds are for:

* Two events and up to three memory identifiers in one scope, or two identifiers in two
  scopes, are the least that give a memory with several sources, two memories with one
  fingerprint, and an identifier that names an event and a memory in both scopes.
* `MaxSeals` limits how often one memory is sealed, the only operation that could be repeated
  for ever with a new audit record each time; two rounds show that seal and restore alternate
  in the log. Every other operation is limited by its own tombstones and idempotency.
* `MaxTime` and `MaxInteger` are small enough that drafts cross both.
* `MaxAttempts` is 3 in place of 30: an opener fails, fails again, and gives up.
* `AuditIds` bounds the number of audit records; the bag of `Store` has no such bound. Without
  a fresh identifier the change is not made.
* In `SqliteTx` a client that would exceed `MaxSeals` dies instead of deciding. Two clients are
  enough for a property about what one client sees of another; the theorems of section 5 hold
  for any number. `opening`, which checks invariants only, uses that clients are
  interchangeable; no other run uses symmetry.
* `integrity` makes no sweeps: a body that expires changes nothing that its properties read.
* `MaxDepth`, `MaxBits` and `MaxBytes` stand for 64 levels, 4096 bits and 16 KiB, and are
  small enough that each limit is met and crossed.

Deadlock is checked in every run: a request can always be made.

Fairness. No liveness is stated for `Store`: a step is a completed request, and nothing in the
library promises that a host makes one. `SqliteTx` and `Schema` assume weak fairness of every
client's own steps (`Step`): a thread that is inside a repository method or a constructor is
scheduled, and its code has no loop or wait other than SQLite's bounded busy handler and the
counted retries of `_enable_wal`. `Call`, `Connect`, `BeginOperation`, `StatementFails`, `Crash` and
`Upgrade` have no fairness. `EveryCallEnds` and `EveryOpenEnds` need nothing more, in particular no
fair lock: a client that keeps losing the lock to others ends with `RepositoryBusy`.

## 4. Properties

The store (`Store`):
* `TypeOK`: rows have their columns' types, deadlines are representable, periods fit.
* `Consistent`: every row passes every reader, no edge dangles, nothing is both on record
  and tombstoned. `NoSelfCorruption`: hence no request is ever answered with
  `RepositoryCorruption`.
* `ErasureComplete`, `NoResurrection`: deletion removes everything and is final.
* `SourceCeilings`: whenever recall hands out a memory, every source is still on record, is
  trusted as much, and has not run out.
* `NoRewrite`, `IngestRetrySafe`: a retry changes nothing and is answered as the first call.
* `EventLedger`, `MemoryLedger`: the audit log adds up.
* `ScopeIsolation`: answer and effect of a request are those it would have in a database
  with the rows of its scope alone, up to `ScopeMismatch` in place of `EntityNotFound`.
* `ImplementsLifecycle`: refinement of the abstract specification.

Concurrent clients (`SqliteTx`):
* `ImplementsStore`: what is proved of whole operations holds under concurrency, failures and
  crashes. `TxTypeOK`: types, and the write lock is held by exactly the client between
  `BEGIN IMMEDIATE` and the end of its transaction. `EveryCallEnds`: every call ends.
  `CallsNeverSetBack`: every step begins a call or brings one nearer to its end and no other
  one further away from it, so a call is over after ten steps of its own.
* `NoFalseAlarm`: no client takes another's transaction for corruption.
* `AnswersHold`: an answer that reached the caller is backed by the file, then and later.
* `NoStaleRecall`: a recall called after a deletion never hands out what was deleted.

Opening (`Schema`):
* `FileIntact`, `OpenMeansComplete`: the file is as it was found or complete, whoever dies;
  who has a repository has a complete schema under it.
* `NoFalseRefusal`: openers do not make each other report corruption.
* `MigrationKeepsRows`, `ConsistencyKept`: up to the columns a legacy table lacks, the rows
  change by the operations of `Store` alone, and a consistent store stays consistent.
* `OtherVersionUntouched`: a file of another version is never written, even if it became one
  while it was open. `SchemaTypeOK`, `EveryOpenEnds`, `OpenersNeverSetBack`: as above, where the
  attempts to enable WAL that are left count as steps.

Answers and log:
* `RecallDeterministic`: in whatever order rows come, the page is the first part of the
  documented order. `FadingSound`: clarity is defined, positive, at most 1, monotone, and
  rounding never inverts two memories. `AnswersTellAll`: `affected_ids` and the count of a
  sweep are exactly what went.
* `RecordsDated`: the log dates what is on record. A receipt has one ingest record, of the
  instant it still gives as `ingested_at` whatever retries came later; a body that is gone has one
  expiry, dated no earlier than the body was due, and a body that is there none; a memory has one
  record, of its `created_at`. `EveryChangeRecorded`, `AuditPageNewest`: one record per change and
  none otherwise; a page holds the newest.

Damage (`Integrity`): `ErasedNeverRecalled`, `RecalledAsMaterialized`, `DamageContained`,
`StaysRefused`: a bad row is reported for good and buys no memory a longer life, other sources or
more trust than it had. `DamageContained` says how far it is felt. Recall, audit, ingest,
`materialize_once` and commands about entities on record are refused in the row's own scope only. Two
requests read the rows of all scopes, and the property allows them to be refused elsewhere for the
bad row itself and nothing else: a command about a missing entity if the row is a tombstone of that
very identifier, a sweep if the row spoils a receipt.

Metadata (`JsonMetadata`): `RetryRecognized`, `AcceptedExactly`: drafts do not change with the
host's containers, what is accepted can be read back, and exactly the documented metadata is
accepted, self-nesting included.

Each property has a mutation of a mapped definition (commented `Mutation:`) that breaks it,
listed in `PROJECT.json`.

## 5. Proofs

All theorems hold for every value of the constants: any scopes, identifiers, drafts, clocks and
instants, any number of clients, any file found.

| Module | Theorem | States |
|---|---|---|
| `StoreProofs` | `TypeCorrect`, `Consistency` | `Spec => []TypeOK`, `Spec => []Consistent` |
| | `SelfCorruptionFree`, `Erasure`, `Ceilings` | `[]NoSelfCorruption`, `[]ErasureComplete`, `[]SourceCeilings` |
| | `TombstonesFinal` | `Spec => NoResurrection` |
| | `RowsNeverRewritten`, `RetriesSafe` | `Spec => NoRewrite`, `Spec => IngestRetrySafe` |
| `ScopeProofs` | `ScopesIsolated` | `Spec => []ScopeIsolation` |
| `LifecycleProofs` | `Implements` | `Spec => ImplementsLifecycle` |
| | `BooksBalance` | `Spec => []Balanced(db)`, the inductive invariant of the ledgers |
| | `EventsAccounted`, `MemoriesAccounted` | `Spec => []EventLedger`, `Spec => []MemoryLedger` |
| `ReadProofs` | `RecallIsDeterministic`, `FadingIsSound` | `Spec => []RecallDeterministic`, `[]FadingSound` |
| | `AnswersComplete` | `Spec => []AnswersTellAll` |
| | `TrailIsDated`, `AuditIsNewest` | `TrailSpec => []RecordsDated`, `[]AuditPageNewest` |
| | `ChangesRecorded` | `TrailSpec => EveryChangeRecorded` |
| `IntegrityProofs` | `DamageIsContained` | `IntegritySpec => []DamageContained` |
| | `RecallAsMaterialized`, `RecallNeverErased` | `IntegritySpec => []RecalledAsMaterialized`, `[]ErasedNeverRecalled` |
| | `RefusalLasts` | `IntegritySpec => StaysRefused` |
| `MetadataProofs` | `RetriesRecognized`, `AcceptsDocumented` | `MetadataSpec => []RetryRecognized`, `[]AcceptedExactly` |
| `SqliteTxProofs` | `Atomicity` | `TxSpec => ImplementsStore` |
| | `ConcurrentConsistency`, `ConcurrentErasure` | `TxSpec => []Consistent`, `TxSpec => []ErasureComplete` |
| | `ConcurrentScopes`, `ConcurrentTrail` | `TxSpec => []ScopeIsolation`, `[](EventLedger /\ MemoryLedger)` |
| | `ConcurrentHistory` | `TxSpec => NoResurrection /\ NoRewrite /\ IngestRetrySafe` |
| | `ConcurrentLifecycle` | `TxSpec => ImplementsLifecycle` |
| | `ClientsTyped`, `AnswersTrue`, `RecallCurrent` | `TxSpec => []TxTypeOK`, `[]AnswersHold`, `[]NoStaleRecall` |
| | `NobodyAlarmed`, `CallsBounded` | `TxSpec => NoFalseAlarm`, `TxSpec => CallsNeverSetBack` |
| `SchemaProofs` | `OpenersTyped`, `HalfSchemaNeverSeen`, `OpenedIsComplete` | `SchemaSpec => []SchemaTypeOK`, `[]FileIntact`, `[]OpenMeansComplete` |
| | `MigrationConsistent`, `NoRefusal` | `SchemaSpec => []ConsistencyKept`, `[]NoFalseRefusal` |
| | `NewerFilesUntouched` | `SchemaSpec => OtherVersionUntouched` |
| | `OpeningLosesNothing`, `OpensBounded` | `SchemaSpec => MigrationKeepsRows`, `SchemaSpec => OpenersNeverSetBack` |

**The store.** The inductive invariant is `TypeOK /\ Consistent`. Neither conjunct is inductive
alone: that a new row has its type depends on the snapshots and receipts behind it being
consistent, and that deletion leaves no dangling edge depends on keys being what the types say.
`NoSelfCorruption` is not inductive, because it speaks about the drafts of the instance only and
says nothing of rows none of them names. Each operation has a lemma that its effect preserves
the invariant; `MemoryFrame` carries a memory the operation did not touch; `InductiveStep`
collects them. The last part shows of two successive databases that nothing disappears without
a tombstone (`Kept`) and nothing that stays is rewritten (`Unwritten`), from which a retry's answer
follows.

**The lifecycle.** `LifecycleProofs` says of each operation what its effect looks like to
`Lifecycle`. It needs one more invariant, `TombstonesScoped`: the fingerprint on a memory's tombstone
is of the tombstone's scope. Otherwise the look-up by scope and fingerprint could miss a
tombstone with the kind and the sources of the draft. `DependentsLive` shows that the memories
the cascade finds by their edges are the live ones with the event in their basis.

**Scopes.** The rows of one scope of a consistent store are a consistent store (`OwnStore`), so
neither the whole nor the part answers with corruption. What is left is one pair of lemmas per
operation: its early returns come out the same (`IngestAnswer`, `MaterializeAnswer`, `GovernAnswer`,
with `ScopeMismatch` for `EntityNotFound` where the code looks next door), and its inserts, deletes
and appended records commute with cutting the tables down (`OwnInsert`, `OwnDelete`, `OwnAppend`).

**The ledgers.** Neither ledger is inductive: a sweep, seal or cascade changes a row and the
counters of *other* records, and a new memory could start with an odd number of seals. `Balanced`
therefore states the number of every kind of record as a function of the state that `Lifecycle`
gives the entity, *unknown* included (no records at all), and that a memory erased without a
record of its own has an erased event in its basis (`CascadesRecorded`). The steps of the first
part of the module, read through this function, keep it.

**Answers.** A stable sort of a list of any length is an arrangement of it in which the key decides
and what the key leaves open keeps its place (`Arrangement`, `Resorting`), so the three sorts of
`recall` give the lexicographic order of clarity, time and identifier. That order is strict on the
candidates, hence every order of the rows ends in one page (`OneList`, `Slice`). For `FadingSound`,
division with rounding half to even is shown to be monotone in the quotient and exact at 1 and 1/2
for any number of digits (`RoundingKeepsOrder`, `QuotientOrder`, `QuotientOfOne`). What the sorts
count places with must be finite; `Finite(db)` is the invariant that says so.

**The trail.** `TrailOk`: the trail is finite, no two rows share an identifier (`TrailGood`), and it
dates the rows of the database (`Dated`). For the induction `Dated` says one thing more than
`RecordsDated`: the trail tells nothing of an identifier that is neither on record nor tombstoned,
so that the record of a first ingest is the only one. Every step adds the rows of one transaction
under fresh identifiers (`Grow`), and one lemma per kind of record (`IngestTells`,
`MaterializeTells`, `GovernTells`, `ExpireTells`) says what the new rows tell; a sweep expires only
bodies that are due at the date it claims, which is why the dates are ordered. `AuditIsNewest` uses
the sorting lemmas again; its order is strict because identifiers are unique.

**Damage.** After the damage `TypeOK /\ Consistent` is gone, and two weaker invariants carry the proofs.
`OthersSound` says that the rows of every scope but the damaged one are still a consistent store.
It rests on the lemmas of `ScopeProofs`, which need only one scope to be consistent: a request
writes nothing but its own scope's rows, and a sweep, which reads all scopes, treats each of them
like a store of its own. A sound scope refuses nothing (`SoundAnswers`). `HistoryInv` is about the
damaged scope: `AllTraced` ties every memory on record to its `origin`, either with the row as it was
made while edges may have changed or gone, or with the edges as they were and one term of the row
changed, never both; `OriginsWellMade` says that an origin's fingerprint, deadlines and trust follow
from its sources; `NeverReused`, that an identifier that once had a memory still has it, a
tombstone, or stray edges that no INSERT gets past, so that an origin is never that of another
memory; `Undamaged`, that up to the damage the store was consistent and every memory as it was made.
`Columns` is what is left of the type invariant. Each operation is shown to stay within `Frame`, a
relation between two databases that assumes no consistency at all: memories and edges stay as they
are or go under a tombstone, stray edges stay, and what is new is well made. From
`HistoryInv` the checks of recall restore the rest (`UnalteredAsMade`, `AlteredAsMade`): the
fingerprint gives the sources or the kind away, the least periods fix a deadline from the creation
instant and the other way round. `RefusalLasts` reads `Frame` backwards: if recall accepts the rows
after a step, it accepted them before.

**Clients.** `DecisionStands` is the heart of `SqliteTxProofs`: what a writer is about to commit is
the effect of its request on the database *as it is now*, because since its `BEGIN IMMEDIATE`
nobody else could commit. It needs `LockDiscipline` (only the holder of the lock is between its
reads and its commit, and every writer is inside a transaction). A commit is then one operation
of `Store`, every other step a stutter. The second part strengthens this to `ClientInv`: copies are
sound databases (`CopiesSound`), a reader's snapshot is not older than its call
(`SnapshotCurrent`), and every answer that has been given or will be on `Return` has its claim in
the file (`AnswersBacked`); a claim survives every operation because rows only disappear under a
tombstone (`Kept`, from `StoreProofs`).

What is proved of `Store` follows for clients that interleave, fail and die, because `Atomicity`
makes every behaviour of theirs one of `Store` (the `Concurrent…` theorems). `CallsBounded` gives
every phase the number of steps that are left; the longest call has six tables to write
(`SixTables`, `Pending`), and wherever a call ends nothing is left of it (`EndCallAdvances`).

**Opening.** The inductive invariant of `SchemaProofs` is `SchemaInv`: `SchemaTypeOK`, `FileIntact`,
`OpenMeansComplete` and `Building`, which says what the transaction in progress has made of the
file found in every phase. Without the last one a commit could not be known to leave a complete
schema. `ConsistencyKept` needs that the rows with lifted snapshots are a consistent store
whenever those of the file found are, which the migration keeps and every operation of `Store`
keeps by `StoreProofs`. `MigrationKeepsRows` also has to hold of files whose rows are *not*
consistent. It needs `Rowwise` only: receipts have the columns a snapshot is copied from, and
once the file is migrated every edge has one. From there on lifting snapshots changes nothing,
so that every step is one of `Store` or none. `OpensBounded` needs the bound on `attempts` in
`SchemaTypeOK`: a retry moves an opener no further on than the counter does.

**Metadata.** The recursion of `_freeze_json` is proved to be well defined on every heap, cyclic
ones included: by induction on the levels that are left there is a solution of its equation
down to `MaxDepth` (`FreezeRecursion`). Everything else is then an induction on the depth
(`Deeper`: a set of depths that contains *d* whenever it contains *d*+1, or *d* is too deep,
contains all). What is frozen is `Tidy`: tuples, proxies and JSON scalars, text for the keys of
proxies, at most `MaxDepth` levels of containers (`FreezeTidy`). Of a tidy value the text says
everything (`TextOf`), and freezing what `json.loads` makes of the text gives, at every node, the
part of the value that begins there (`ReadFrom`), so that the reader counts the depth like the
constructor and gets the value back (`Receipt`). `MetadataInv` adds that the draft and the
stored text are of such values, and the same one if the draft was stored. For
`AcceptsDocumented`, a container is frozen exactly if it is documented, not too deep, and all it
holds are frozen (`FrozenInside`); by the same induction that is so exactly if no way through the
containers is longer than the levels left and every container on one is documented
(`FrozenIffFine`).

**Assumptions**, each in the module that declares the constant: the drafts are ones their
constructors accept (`EventDraftAssumption`, `MemoryDraftAssumption`), `MaxTime` and `MaxInteger` are
naturals, the clock returns representable instants, `Null` is no fingerprint and no snapshot;
there is a request and the service passes it on (`RequestAssumption`), `NoClient` is no client;
files without tables have no rows, only legacy rows lack snapshots, and receipts have the columns
a snapshot is copied from within their constraints, which the `CHECK`s of both releases enforce
(`FoundAssumption`, `sqlite.py:133-139`); the rankings are injective (`RankAssumption`), limits and
precision are positive (`LimitAssumption`, `PrecisionAssumption`), `Pow2` doubles (`PowerAssumption`),
audit identifiers and claimed instants are naturals, the latter representable (`TrailAssumption`);
dictionaries have typed keys and lists positions, no container is a scalar, and the limits of
metadata are positive (`MetadataAssumption`).
TLC evaluates them in every run that uses them.

**Only model-checked:** liveness (`EveryCallEnds`, `EveryOpenEnds`), which is out of the prover's
reach. What is proved of it is the half that does not need fairness: the number of steps to the
end falls with every step and nobody else raises it (`CallsBounded`, `OpensBounded`). That a client
in a call can always take one, and the conclusion that the call ends, is left to TLC. Every other
property of a passing run is a theorem.

## 6. Findings

* `materialize_once` looks for a tombstoned fingerprint before the memory itself
  (`sqlite.py:599`), so an identical retry for a live memory raises `EntityDeleted` after a
  sibling with the same kind and sources was deleted; `docs/architecture.md:44` calls
  materialization idempotent under its scoped identifier (`materialize_retry`).
* `_is_identical` compares metadata with Python's `==` (`sqlite.py:573`): `{"n": 1}` and
  `{"n": true}` are the same request to it although their canonical texts differ
  (`metadata_equality`).
* A retention period above 2^63-1 microseconds passes validation and ends in a bare
  `OverflowError` (`sqlite.py:515`), outside the `TrueHeartError` hierarchy
  (`retention_overflow`).

Noted while modelling, and contradicting nothing that is written: a file that the constructor
refuses may have been converted to write-ahead logging first; the answer about a missing entity
reads the tombstones of all scopes, and a sweep the receipts of all scopes, so that a bad row
there is felt next door. `DamageContained` states for which rows and requests;
`tests/test_governance.py:557` expects the first of the two.

## 7. Not modelled

* Validation of single values: lengths of text, Unicode, the conversion of instants to UTC, the
  format checks of stored columns. They keep no state and do not interact; the tests cover them.
* The order of identifiers as text is a given ranking, and sources are sets. The code sorts some
  lists in SQL (by UTF-8 bytes) and some in Python (by code points) and compares them; the two
  orders are the same, and the model takes that as given.
* The release verifier, the workflows, the package interface and the example: no state of their
  own, file formats and pure I/O.
* SQLite itself: locks, snapshots and durability are taken from its documentation as far as the
  code relies on them.

## 8. Plan

1. *Done:* all modules of section 2; every hazard of `PROJECT.json` has a property; every safety
   property and action property is a theorem, those of `Store` for concurrent clients too.
2. Next: which of the `Integrity` theorems survive two damaged rows, where the counterexamples of
   TLC would say which checks of the code lean on each other.
