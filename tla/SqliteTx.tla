------------------------------ MODULE SqliteTx ------------------------------
(***************************************************************************)
(* Several clients (threads or processes) call one SQLiteRepository file.  *)
(* Every call opens a connection, runs one transaction and closes the      *)
(* connection; the clients share nothing but the file.  A transaction is   *)
(* taken apart into its BEGIN, its reads, one write per table and its      *)
(* COMMIT, so that clients interleave, wait for the lock, fail in the      *)
(* middle, or die before or after the commit.                              *)
(*                                                                         *)
(* SQLite itself is not part of the repository: in WAL mode one connection *)
(* holds the write lock, a transaction reads one snapshot from its first   *)
(* SELECT on, statements outside of a transaction commit at once           *)
(* (isolation_level=None), and what is not committed when a process dies   *)
(* is gone.                                                                *)
(***************************************************************************)
EXTENDS Store

CONSTANTS
    Clients,      \* the callers
    NoClient,     \* the write lock is free
    Requests,     \* the calls the service passes on to the repository
    DiskFaults    \* whether statements may fail for reasons of the disk

WriteRequest ==
    [op: {"ingest"}, draft: EventDrafts, now: Clocks]
        \cup [op: {"materialize"}, draft: MemoryDrafts]
        \cup [op: {"govern"}, command: GovernanceCommand]
        \cup [op: {"expire"}, as_of: Sweeps]
ReadRequest == [op: {"recall"}, scope: Scopes, as_of: Nat]
                  \cup [op: {"audit"}, scope: Scopes]

ASSUME ClientAssumption == NoClient \notin Clients /\ DiskFaults \in BOOLEAN

\* The service refuses other calls before it opens a connection.
ASSUME RequestAssumption ==
    /\ Requests # {} /\ Requests \subseteq WriteRequest \cup ReadRequest
    /\ \A r \in Requests :
         /\ r.op = "ingest" => RawExpiresAt(r.draft) <= MaxTime
         /\ r.op = "govern" /\ r.command.entity_type = "raw_event" =>
              r.command.action = "delete"

\* db, the variable of Store, is the committed content of the file.
VARIABLES
    lock,       \* the client that holds the write lock
    phase,      \* how far every client's call has come
    request,    \* the call
    inTx,       \* whether a BEGIN is in force on the client's connection
    copy,       \* what a writer is about to commit, or a reader's snapshot
    todo,       \* the tables a writer has yet to write, in order
    outcome,    \* how the call ends; the caller has it once the client is idle
    recalled,   \* the memories the last recall handed out
    erased      \* history: the memories tombstoned when the call began

shared == <<db, lock>>
local == <<request, inTx, copy, todo, outcome, recalled, erased>>
txVars == <<shared, phase, local>>

\* recall_candidates and audit BEGIN, the other calls BEGIN IMMEDIATE.
Writes(r) == r.op \notin {"recall", "audit"}

Outcome(d, r) ==
    CASE r.op = "ingest" -> IngestOutcome(d, r.draft)
      [] r.op = "materialize" -> MaterializeOutcome(d, r.draft)
      [] r.op = "govern" -> GovernOutcome(d, r.command)
      [] r.op = "expire" -> ExpireOutcome(d)

Effect(d, r) ==
    CASE r.op = "ingest" -> IngestEffect(d, r.draft, r.now)
      [] r.op = "materialize" -> MaterializeEffect(d, r.draft)
      [] r.op = "govern" -> GovernEffect(d, r.command)
      [] r.op = "expire" -> ExpireEffect(d, r.as_of)

\* Bound: the calls Store considers.
WithinBound(d, r) ==
    r.op = "govern" /\ r.command.action = "seal" =>
        Copies(d.audit_log, GovernanceAudit(r.command)) < MaxSeals

\* The tables a call writes, in the order of its statements.
Statements(r) ==
    CASE r.op = "ingest" -> <<"audit_log", "raw_events", "raw_event_content">>
      [] r.op = "materialize" -> <<"memories", "memory_sources", "audit_log">>
      [] r.op = "expire" -> <<"raw_event_content", "raw_events", "audit_log">>
      [] r.op = "govern" ->
           CASE r.command.action \in {"seal", "restore"} -> <<"memories", "audit_log">>
             [] r.command.entity_type = "memory" ->
                  <<"memory_sources", "memories", "tombstones", "audit_log">>
             [] OTHER -> <<"memory_sources", "memories", "raw_event_content",
                           "raw_events", "tombstones", "audit_log">>

\* Before its first call a client's request is any of them.
TxInit ==
    /\ db = EmptyDb
    /\ lock = NoClient
    /\ phase = [c \in Clients |-> "idle"]
    /\ request = [c \in Clients |-> CHOOSE r \in Requests : TRUE]
    /\ inTx = [c \in Clients |-> FALSE]
    /\ copy = [c \in Clients |-> EmptyDb]
    /\ todo = [c \in Clients |-> << >>]
    /\ outcome = [c \in Clients |-> "none"]
    /\ recalled = [c \in Clients |-> {}]
    /\ erased = [c \in Clients |-> {}]

\* Mutation: a call that is refused keeps its connection and the lock.
EndWithoutClose(c, result) ==
    /\ phase' = [phase EXCEPT ![c] = "idle"]
    /\ outcome' = [outcome EXCEPT ![c] = result]
    /\ UNCHANGED <<db, lock, request, inTx, copy, todo, recalled, erased>>

\* Rollback (or a commit of nothing) and close, then the caller has the result.
EndCall(c, result) ==
    /\ phase' = [phase EXCEPT ![c] = "idle"]
    /\ outcome' = [outcome EXCEPT ![c] = result]
    /\ lock' = IF lock = c THEN NoClient ELSE lock
    /\ inTx' = [inTx EXCEPT ![c] = FALSE]
    /\ copy' = [copy EXCEPT ![c] = EmptyDb]
    /\ todo' = [todo EXCEPT ![c] = << >>]
    /\ UNCHANGED <<db, request, recalled, erased>>

MemoryTombstones == {t \in DOMAIN db.tombstones : t[2] = "memory"}

\* A caller makes a call, perhaps one it has made before; _connect.
Call(c, r) ==
    /\ phase[c] = "idle"
    /\ phase' = [phase EXCEPT ![c] = "connected"]
    /\ request' = [request EXCEPT ![c] = r]
    /\ outcome' = [outcome EXCEPT ![c] = "none"]
    /\ recalled' = [recalled EXCEPT ![c] = {}]
    /\ erased' = [erased EXCEPT ![c] =
                    IF r.op = "recall" THEN MemoryTombstones ELSE {}]
    /\ UNCHANGED <<shared, inTx, copy, todo>>
-----------------------------------------------------------------------------
(* ingest_event, materialize_once, govern, expire_raw_content              *)

\* Mutation: without BEGIN every statement is its own transaction.
BeginNothing(c) ==
    /\ phase[c] = "connected" /\ Writes(request[c])
    /\ phase' = [phase EXCEPT ![c] = "begun"]
    /\ UNCHANGED <<shared, local>>

\* BEGIN IMMEDIATE takes the write lock before anything is read.
BeginImmediate(c) ==
    /\ phase[c] = "connected" /\ Writes(request[c])
    /\ lock = NoClient
    /\ lock' = c
    /\ inTx' = [inTx EXCEPT ![c] = TRUE]
    /\ phase' = [phase EXCEPT ![c] = "begun"]
    /\ UNCHANGED <<db, request, copy, todo, outcome, recalled, erased>>

\* Mutation: no busy_timeout, a waiting writer waits on.
WaitOn(c) ==
    /\ phase[c] = "connected" /\ Writes(request[c])
    /\ lock # NoClient
    /\ UNCHANGED txVars

\* The lock was held for the whole busy_timeout.
LockTimeout(c) ==
    /\ phase[c] = "connected" /\ Writes(request[c])
    /\ lock # NoClient
    /\ EndCall(c, "RepositoryBusy")

\* The reads of the call and its decision; a client that would exceed the bound
\* on seals dies instead.
Decide(c) ==
    LET result == IF WithinBound(db, request[c]) THEN Outcome(db, request[c])
                                                 ELSE "lost"
    IN  /\ phase[c] = "begun"
        /\ IF result \in {"created", "done"}
           THEN /\ phase' = [phase EXCEPT ![c] = "writing"]
                /\ outcome' = [outcome EXCEPT ![c] = result]
                /\ copy' = [copy EXCEPT ![c] = Effect(db, request[c])]
                /\ todo' = [todo EXCEPT ![c] = Statements(request[c])]
                /\ UNCHANGED <<shared, request, inTx, recalled, erased>>
           ELSE EndCall(c, result)

\* The statements that write the next table.
Write(c) ==
    /\ phase[c] = "writing" /\ todo[c] # << >>
    /\ todo' = [todo EXCEPT ![c] = Tail(@)]
    /\ db' = IF inTx[c] THEN db
             ELSE [db EXCEPT ![Head(todo[c])] = copy[c][Head(todo[c])]]
    /\ UNCHANGED <<lock, phase, request, inTx, copy, outcome, recalled, erased>>

\* Mutation: the connection is closed without a commit.
CommitForgotten(c) ==
    /\ phase[c] = "writing" /\ todo[c] = << >>
    /\ lock' = IF lock = c THEN NoClient ELSE lock
    /\ inTx' = [inTx EXCEPT ![c] = FALSE]
    /\ phase' = [phase EXCEPT ![c] = "committed"]
    /\ UNCHANGED <<db, request, copy, todo, outcome, recalled, erased>>

Commit(c) ==
    /\ phase[c] = "writing" /\ todo[c] = << >>
    /\ db' = IF inTx[c] THEN copy[c] ELSE db
    /\ lock' = IF lock = c THEN NoClient ELSE lock
    /\ inTx' = [inTx EXCEPT ![c] = FALSE]
    /\ phase' = [phase EXCEPT ![c] = "committed"]
    /\ UNCHANGED <<request, copy, todo, outcome, recalled, erased>>

\* The commit is done and the caller gets its result.
Return(c) == phase[c] = "committed" /\ EndCall(c, outcome[c])

\* Mutation: the error handler commits what was written so far.
FailAndCommit(c) ==
    /\ DiskFaults
    /\ phase[c] \in {"begun", "writing", "reading"}
    /\ db' = IF phase[c] = "writing"
             THEN [t \in DOMAIN db |-> IF t \in Range(todo[c]) THEN db[t] ELSE copy[c][t]]
             ELSE db
    /\ lock' = IF lock = c THEN NoClient ELSE lock
    /\ inTx' = [inTx EXCEPT ![c] = FALSE]
    /\ phase' = [phase EXCEPT ![c] = "committed"]
    /\ outcome' = [outcome EXCEPT ![c] = "RepositoryCorruption"]
    /\ UNCHANGED <<request, copy, todo, recalled, erased>>

\* Mutation: a transaction that failed is run again.
RunAgain(c) ==
    /\ DiskFaults
    /\ phase[c] \notin {"idle", "connected", "committed"}
    /\ phase' = [phase EXCEPT ![c] = "connected"]
    /\ lock' = IF lock = c THEN NoClient ELSE lock
    /\ inTx' = [inTx EXCEPT ![c] = FALSE]
    /\ UNCHANGED <<db, request, copy, todo, outcome, recalled, erased>>

\* A statement or the COMMIT fails: rollback, and the error is translated.
StatementFails(c) ==
    /\ DiskFaults
    /\ phase[c] \notin {"idle", "committed"}
    /\ EndCall(c, "RepositoryCorruption")
-----------------------------------------------------------------------------
(* recall_candidates, audit                                                *)

\* Mutation: the two SELECTs of recall are not in a transaction.
ReadWithoutBegin(c) ==
    /\ phase[c] = "connected" /\ ~Writes(request[c])
    /\ phase' = [phase EXCEPT ![c] = "selecting"]
    /\ UNCHANGED <<shared, local>>

\* BEGIN without a lock; it reads nothing yet.
BeginRead(c) ==
    /\ phase[c] = "connected" /\ ~Writes(request[c])
    /\ inTx' = [inTx EXCEPT ![c] = TRUE]
    /\ phase' = [phase EXCEPT ![c] = "selecting"]
    /\ UNCHANGED <<shared, request, copy, todo, outcome, recalled, erased>>

\* The first SELECT, of the memories, fixes the snapshot.
SelectMemories(c) ==
    /\ phase[c] = "selecting" /\ request[c].op = "recall"
    /\ copy' = [copy EXCEPT ![c] = db]
    /\ phase' = [phase EXCEPT ![c] = "reading"]
    /\ UNCHANGED <<shared, request, inTx, todo, outcome, recalled, erased>>

\* The second SELECT, of the edges and their receipts; the answer.
SelectSources(c) ==
    LET r == request[c]
        read == IF inTx[c] THEN copy[c]
                ELSE [db EXCEPT !.memories = copy[c].memories]
        result == RecallOutcome(read, r.scope)
    IN  /\ phase[c] = "reading"
        /\ phase' = [phase EXCEPT ![c] = "idle"]
        /\ outcome' = [outcome EXCEPT ![c] = result]
        /\ inTx' = [inTx EXCEPT ![c] = FALSE]
        /\ copy' = [copy EXCEPT ![c] = EmptyDb]
        /\ recalled' = [recalled EXCEPT ![c] =
               IF result = "done"
               THEN RecallCandidates(read, r.scope, r.as_of, {}) ELSE {}]
        /\ UNCHANGED <<shared, request, todo, erased>>

\* audit reads its one table in one SELECT.
SelectAudit(c) ==
    /\ phase[c] = "selecting" /\ request[c].op = "audit"
    /\ EndCall(c, AuditOutcome(db, request[c].scope))
-----------------------------------------------------------------------------
\* The client dies, before or after its commit; SQLite drops its lock and
\* whatever it has not committed.
Crash(c) == phase[c] # "idle" /\ EndCall(c, "lost")

\* What a client does as long as it runs.
Step(c) ==
    \/ BeginImmediate(c) \/ LockTimeout(c) \/ Decide(c) \/ Write(c) \/ Commit(c)
    \/ Return(c) \/ BeginRead(c) \/ SelectMemories(c) \/ SelectSources(c)
    \/ SelectAudit(c)

TxNext ==
    \E c \in Clients :
        \/ \E r \in Requests : Call(c, r)
        \/ Step(c)
        \/ StatementFails(c)
        \/ Crash(c)

\* A client that has called and is not killed goes on.
Fairness == \A c \in Clients : WF_txVars(Step(c))

TxSpec == TxInit /\ [][TxNext]_txVars /\ Fairness
-----------------------------------------------------------------------------
Phase == {"idle", "connected", "begun", "writing", "committed",
          "selecting", "reading"}

\* Types, and who holds the lock: exactly the client that is between BEGIN
\* IMMEDIATE and the end of its transaction.
TxTypeOK ==
    /\ DbType(db)
    /\ lock \in Clients \cup {NoClient}
    /\ phase \in [Clients -> Phase]
    /\ request \in [Clients -> Requests]
    /\ \A c \in Clients :
         /\ lock = c <=> phase[c] \in {"begun", "writing"}
         /\ inTx[c] <=> phase[c] \in {"begun", "writing", "selecting", "reading"}
         /\ DbType(copy[c])
         /\ recalled[c] \subseteq Ids /\ erased[c] \subseteq DOMAIN db.tombstones

\* However clients interleave, fail and die, the file goes through the states
\* of Store, one whole operation at a time: BEGIN IMMEDIATE before the first
\* read makes check and write one step.
ImplementsStore == Spec

\* Nobody is told of corruption because somebody else was writing: a sweep,
\* a deletion or a materialization between the two SELECTs of recall does not
\* make memories and edges disagree (recall_candidates' BEGIN), and no call finds
\* what another one left half done.
NoFalseAlarm ==
    [][\A c \in Clients :
         Decide(c) \/ SelectSources(c) \/ SelectAudit(c) =>
             outcome'[c] # "RepositoryCorruption"]_txVars

\* What a caller was told happened: the entity it recorded is on record unless
\* it has been tombstoned since, and what it deleted is tombstoned.
AnswersHold ==
    \A c \in Clients : phase[c] = "idle" =>
        LET r == request[c]
        IN  /\ r.op = "ingest" /\ outcome[c] \in {"created", "replayed"} =>
                 \/ EventKey(r.draft) \in DOMAIN db.raw_events
                 \/ <<r.draft.scope, "raw_event", r.draft.event_id>>
                      \in DOMAIN db.tombstones
            /\ r.op = "materialize" /\ outcome[c] \in {"created", "replayed"} =>
                 \/ MemoryKey(r.draft) \in DOMAIN db.memories
                 \/ <<r.draft.scope, "memory", r.draft.memory_id>>
                      \in DOMAIN db.tombstones
            /\ /\ r.op = "govern" /\ outcome[c] = "done"
               /\ r.command.action \in {"forget", "delete"}
               => <<r.command.scope, r.command.entity_type, r.command.entity_id>>
                    \in DOMAIN db.tombstones

\* A recall that was called after a deletion had been committed never hands out
\* the deleted memory, whoever deleted it, and whoever was about to materialize
\* the same memory in the meantime (check and INSERT under one write lock).
NoStaleRecall ==
    \A c \in Clients : \A m \in recalled[c] :
        <<request[c].scope, "memory", m>> \notin erased[c]

\* The steps a call still has to take at most; the longest call has six tables
\* to write.
StepsLeft(c) ==
    CASE phase[c] = "idle" -> 0
      [] phase[c] = "connected" -> 10
      [] phase[c] = "begun" -> 9
      [] phase[c] = "writing" -> 2 + Len(todo[c])
      [] phase[c] \in {"committed", "reading"} -> 1
      [] phase[c] = "selecting" -> 2

\* No call is ever set back, by its own failures or by other clients: every step
\* of anybody is the beginning of a call or brings one call nearer to its end,
\* and none makes another call longer.  Nothing is tried twice, so that a client
\* that does take its steps is done after ten of them.
CallAdvances ==
    \E c \in Clients :
        /\ \/ phase[c] = "idle" /\ phase[c]' # "idle"
           \/ StepsLeft(c)' < StepsLeft(c)
        /\ \A other \in Clients \ {c} : StepsLeft(other)' = StepsLeft(other)
CallsNeverSetBack == [][CallAdvances]_txVars

\* Every call ends, with a result, with RepositoryBusy or with the client's
\* death: nobody waits for ever, whatever the others do.
EveryCallEnds == \A c \in Clients : phase[c] # "idle" ~> phase[c] = "idle"
=============================================================================
