--------------------------- MODULE SqliteTxProofs ---------------------------
(***************************************************************************)
(* Proofs about SqliteTx for every number of clients and every set of      *)
(* requests.  The first part shows that it implements Store: between BEGIN *)
(* IMMEDIATE and the end of its transaction a client is the only writer,   *)
(* so what it decided from its reads still holds at its commit.            *)
(*                                                                         *)
(* The second part is what a single client sees: the answers it gets are   *)
(* backed by the file, no other client's transaction looks like corruption *)
(* to it, and a recall does not hand out what was deleted before it was    *)
(* called.  The file itself is consistent by the first part; the invariant *)
(* of the second adds what the clients hold of it.                         *)
(***************************************************************************)
EXTENDS SqliteTx, ScopeProofs, LifecycleProofs

Accepted == {"created", "done"}

\* Only a writer that holds the lock is between its reads and its commit.
LockDiscipline ==
    \A c \in Clients :
        /\ lock = c <=> phase[c] \in {"begun", "writing"}
        /\ phase[c] \in {"begun", "writing"} => inTx[c]

\* What a writer is about to commit is the effect of its request on the
\* database as it is now.
DecisionStands ==
    \A c \in Clients : phase[c] = "writing" =>
        /\ Writes(request[c]) /\ WithinBound(db, request[c])
        /\ Outcome(db, request[c]) \in Accepted
        /\ copy[c] = Effect(db, request[c])

Shapes ==
    /\ phase \in [Clients -> Phase]
    /\ request \in [Clients -> Requests]
    /\ inTx \in [Clients -> BOOLEAN]
    /\ copy = [c \in Clients |-> copy[c]]
    /\ \A c \in Clients : phase[c] = "begun" => Writes(request[c])

Inv == Shapes /\ LockDiscipline /\ DecisionStands

-----------------------------------------------------------------------------
(* Every accepted request is an operation of Store.                        *)

\* An ingest or a materialization that is accepted has created its row.
LEMMA AcceptedCreates ==
    ASSUME NEW d, NEW draft
    PROVE  /\ IngestOutcome(d, draft) # "done"
           /\ MaterializeOutcome(d, draft) # "done"
<1>1. IngestOutcome(d, draft) # "done"
  BY DEF IngestOutcome
<1>2. SourcesOutcome(d, draft) # "done"
  <2>1. \A s, e : SourceOutcome(d, s, e) # "done"
    BY DEF SourceOutcome
  <2>2. QED
    BY <2>1 DEF SourcesOutcome
<1>3. MaterializeOutcome(d, draft) # "done"
  BY <1>2 DEF MaterializeOutcome
<1>4. QED
  BY <1>1, <1>3

\* A command that is accepted has been done.
LEMMA AcceptedDone ==
    ASSUME NEW d, NEW c
    PROVE  GovernOutcome(d, c) # "created"
<1>1. MissingEntity(d, c) # "created"
  BY DEF MissingEntity
<1>2. GovernMemoryOutcome(d, c) # "created"
  BY <1>1 DEF GovernMemoryOutcome
<1>3. DeleteRawEventOutcome(d, c) # "created"
  BY <1>1 DEF DeleteRawEventOutcome
<1>4. QED
  BY <1>2, <1>3 DEF GovernOutcome

\* Committing the effect of an accepted request is one step of Store.
LEMMA CommitIsOperation ==
    ASSUME NEW r \in Requests, Writes(r), WithinBound(db, r),
           Outcome(db, r) \in Accepted, db' = Effect(db, r)
    PROVE  Next
<1>1. r \in WriteRequest
  BY RequestAssumption DEF WriteRequest, ReadRequest, Writes
<1>2. CASE r.op = "ingest"
  <2>1. r.draft \in EventDrafts /\ r.now \in Clocks
    BY <1>1, <1>2 DEF WriteRequest
  <2>2. IngestOutcome(db, r.draft) = "created"
    BY <1>2, AcceptedCreates DEF Outcome, Accepted
  <2>3. db' = IngestEffect(db, r.draft, r.now)
    BY <1>2 DEF Effect
  <2>4. QED
    BY <2>1, <2>2, <2>3 DEF Next, IngestEvent
<1>3. CASE r.op = "materialize"
  <2>1. r.draft \in MemoryDrafts
    BY <1>1, <1>3 DEF WriteRequest
  <2>2. MaterializeOutcome(db, r.draft) = "created"
    BY <1>3, AcceptedCreates DEF Outcome, Accepted
  <2>3. db' = MaterializeEffect(db, r.draft)
    BY <1>3 DEF Effect
  <2>4. QED
    BY <2>1, <2>2, <2>3 DEF Next, MaterializeOnce
<1>4. CASE r.op = "govern"
  <2>1. r.command \in GovernanceCommand
    BY <1>1, <1>4 DEF WriteRequest
  <2>2. GovernOutcome(db, r.command) = "done"
    BY <1>4, AcceptedDone DEF Outcome, Accepted
  <2>3. db' = GovernEffect(db, r.command)
    BY <1>4 DEF Effect
  <2>4. r.command.action = "seal" =>
            Copies(db.audit_log, GovernanceAudit(r.command)) < MaxSeals
    BY <1>4 DEF WithinBound
  <2>5. QED
    BY <2>1, <2>2, <2>3, <2>4 DEF Next, Govern
<1>5. CASE r.op = "expire"
  <2>1. r.as_of \in Sweeps
    BY <1>1, <1>5 DEF WriteRequest
  <2>2. ExpireOutcome(db) = "done"
    BY <1>5 DEF Outcome, Accepted, ExpireOutcome
  <2>3. db' = ExpireEffect(db, r.as_of)
    BY <1>5 DEF Effect
  <2>4. QED
    BY <2>1, <2>2, <2>3 DEF Next, ExpireRawContent
<1>6. QED
  BY <1>1, <1>2, <1>3, <1>4, <1>5 DEF WriteRequest

-----------------------------------------------------------------------------
(* The invariant.                                                          *)

\* Nothing has begun, so nothing is locked.
LEMMA InvInit ==
    ASSUME TxInit, NoClient \notin Clients
    PROVE  Inv
BY RequestAssumption DEF TxInit, Inv, Shapes, LockDiscipline, DecisionStands, Phase

\* A call that ends releases the lock if it has it, and leaves what the other
\* clients have decided alone.
LEMMA EndCallKeepsInv ==
    ASSUME Inv, NEW c \in Clients, NEW result, EndCall(c, result),
           NoClient \notin Clients
    PROVE  Inv'
BY DEF EndCall, Inv, Shapes, LockDiscipline, DecisionStands, Phase

\* The decision a writer takes is the one its commit relies on.
LEMMA DecideKeepsInv ==
    ASSUME Inv, NEW c \in Clients, Decide(c), NoClient \notin Clients
    PROVE  Inv'
<1> DEFINE result == IF WithinBound(db, request[c]) THEN Outcome(db, request[c])
                                                    ELSE "lost"
<1>1. CASE result \notin Accepted
  <2>1. EndCall(c, result)
    BY <1>1 DEF Decide, Accepted
  <2>2. QED
    BY <2>1, EndCallKeepsInv
<1>2. CASE result \in Accepted
  <2>1. /\ phase[c] = "begun"
        /\ phase' = [phase EXCEPT ![c] = "writing"]
        /\ copy' = [copy EXCEPT ![c] = Effect(db, request[c])]
        /\ UNCHANGED <<shared, request, inTx>>
    BY <1>2 DEF Decide, Accepted
  <2>2. WithinBound(db, request[c]) /\ Outcome(db, request[c]) \in Accepted
    BY <1>2 DEF Accepted
  <2> HIDE DEF result
  <2>3. Shapes'
    BY <2>1 DEF Inv, Shapes, Phase
  <2>4. LockDiscipline'
    BY <2>1 DEF Inv, Shapes, LockDiscipline, shared
  <2>5. DecisionStands'
    BY <2>1, <2>2 DEF Inv, Shapes, DecisionStands, shared
  <2>6. QED
    BY <2>3, <2>4, <2>5 DEF Inv
<1>3. QED
  BY <1>1, <1>2

\* While a client holds the lock no other client is deciding or writing, so a
\* commit invalidates nobody's decision.
LEMMA CommitKeepsInv ==
    ASSUME Inv, NEW c \in Clients, Commit(c), NoClient \notin Clients
    PROVE  Inv'
<1>1. Shapes'
  BY DEF Commit, Inv, Shapes, Phase
<1>2. LockDiscipline'
  BY DEF Commit, Inv, Shapes, LockDiscipline
<1>3. \A b \in Clients : phase'[b] # "writing"
  BY DEF Commit, Inv, Shapes, LockDiscipline
<1>4. QED
  BY <1>1, <1>2, <1>3 DEF Inv, DecisionStands

\* Every step keeps the invariant.
LEMMA InvNext ==
    ASSUME Inv, [TxNext]_txVars, NoClient \notin Clients
    PROVE  Inv'
<1>1. CASE UNCHANGED txVars
  BY <1>1 DEF Inv, Shapes, LockDiscipline, DecisionStands, txVars, shared, local
<1>2. ASSUME NEW c \in Clients, NEW r \in Requests, Call(c, r)
      PROVE  Inv'
  BY <1>2 DEF Call, Inv, Shapes, LockDiscipline, DecisionStands, Phase, shared
<1>3. ASSUME NEW c \in Clients, BeginImmediate(c)
      PROVE  Inv'
  BY <1>3 DEF BeginImmediate, Inv, Shapes, LockDiscipline, DecisionStands, Phase
<1>4. ASSUME NEW c \in Clients, LockTimeout(c)
      PROVE  Inv'
  BY <1>4, EndCallKeepsInv DEF LockTimeout
<1>5. ASSUME NEW c \in Clients, Decide(c)
      PROVE  Inv'
  BY <1>5, DecideKeepsInv
<1>6. ASSUME NEW c \in Clients, Write(c)
      PROVE  Inv'
  <2>1. db' = db
    BY <1>6 DEF Write, Inv, Shapes, LockDiscipline
  <2>2. UNCHANGED <<lock, phase, request, inTx, copy>>
    BY <1>6 DEF Write
  <2>3. QED
    BY <2>1, <2>2 DEF Inv, Shapes, LockDiscipline, DecisionStands
<1>7. ASSUME NEW c \in Clients, Commit(c)
      PROVE  Inv'
  BY <1>7, CommitKeepsInv
<1>8. ASSUME NEW c \in Clients, Return(c)
      PROVE  Inv'
  BY <1>8, EndCallKeepsInv DEF Return
<1>9. ASSUME NEW c \in Clients, BeginRead(c)
      PROVE  Inv'
  BY <1>9 DEF BeginRead, Inv, Shapes, LockDiscipline, DecisionStands, Phase, shared
<1>10. ASSUME NEW c \in Clients, SelectMemories(c)
       PROVE  Inv'
  BY <1>10 DEF SelectMemories, Inv, Shapes, LockDiscipline, DecisionStands, Phase, shared
<1>11. ASSUME NEW c \in Clients, SelectSources(c)
       PROVE  Inv'
  <2>1. /\ phase[c] = "reading"
        /\ phase' = [phase EXCEPT ![c] = "idle"]
        /\ inTx' = [inTx EXCEPT ![c] = FALSE]
        /\ copy' = [copy EXCEPT ![c] = EmptyDb]
        /\ UNCHANGED <<db, lock, request>>
    BY <1>11 DEF SelectSources, shared
  <2>2. QED
    BY <2>1 DEF Inv, Shapes, LockDiscipline, DecisionStands, Phase
<1>12. ASSUME NEW c \in Clients, SelectAudit(c)
       PROVE  Inv'
  BY <1>12, EndCallKeepsInv DEF SelectAudit
<1>13. ASSUME NEW c \in Clients, StatementFails(c)
       PROVE  Inv'
  BY <1>13, EndCallKeepsInv DEF StatementFails
<1>14. ASSUME NEW c \in Clients, Crash(c)
       PROVE  Inv'
  BY <1>14, EndCallKeepsInv DEF Crash
<1>15. QED
  BY <1>1, <1>2, <1>3, <1>4, <1>5, <1>6, <1>7, <1>8, <1>9, <1>10, <1>11, <1>12,
     <1>13, <1>14 DEF TxNext, Step

\* Every step is one operation of Store or leaves the file alone.
LEMMA StepImplements ==
    ASSUME Inv, [TxNext]_txVars
    PROVE  [Next]_vars
<1>1. CASE db' = db
  BY <1>1 DEF vars
<1>2. ASSUME NEW c \in Clients, Commit(c)
      PROVE  Next
  <2>1. /\ phase[c] = "writing" /\ request[c] \in Requests /\ inTx[c]
    BY <1>2 DEF Commit, Inv, Shapes, LockDiscipline
  <2>2. db' = Effect(db, request[c])
    BY <1>2, <2>1 DEF Commit, Inv, DecisionStands
  <2>3. QED
    BY <2>1, <2>2, CommitIsOperation DEF Inv, DecisionStands
<1>3. ASSUME NEW c \in Clients, Write(c)
      PROVE  db' = db
  BY <1>3 DEF Write, Inv, LockDiscipline
<1>4. ASSUME NEW c \in Clients, Decide(c)
      PROVE  db' = db
  BY <1>4 DEF Decide, EndCall, shared
<1>5. ASSUME NEW c \in Clients, SelectSources(c)
      PROVE  db' = db
  BY <1>5 DEF SelectSources, shared
<1>6. QED
  BY <1>1, <1>2, <1>3, <1>4, <1>5
     DEF TxNext, Step, Call, BeginImmediate, LockTimeout, Return, BeginRead,
         SelectMemories, SelectAudit, StatementFails, Crash, EndCall, txVars, shared

-----------------------------------------------------------------------------
(* Theorems.                                                               *)

\* The invariant holds in every state.
LEMMA SpecInv == TxSpec => []Inv
<1>1. NoClient \notin Clients
  BY ClientAssumption
<1>2. TxInit => Inv
  BY <1>1, InvInit
<1>3. Inv /\ [TxNext]_txVars => Inv'
  BY <1>1, InvNext
<1>4. QED
  BY <1>2, <1>3, PTL DEF TxSpec

\* However many clients call, wait, fail and die: the committed file goes
\* through the states of Store, one whole operation at a time.
THEOREM Atomicity == TxSpec => ImplementsStore
<1>1. TxInit => Init
  BY DEF TxInit, Init
<1>2. Inv /\ [TxNext]_txVars => [Next]_vars
  BY StepImplements
<1>3. QED
  BY <1>1, <1>2, SpecInv, PTL DEF TxSpec, ImplementsStore, Spec

\* So the invariants of Store hold of the file under concurrency and crashes:
\* every row passes every reader's checks,
THEOREM ConcurrentConsistency == TxSpec => []Consistent
BY Atomicity, Consistency, PTL DEF ImplementsStore

\* and nothing of a tombstoned entity is left.
THEOREM ConcurrentErasure == TxSpec => []ErasureComplete
BY Atomicity, Erasure, PTL DEF ImplementsStore

\* every request is decided by the rows of its own scope, and changes no others,
\* whoever else writes to the file at the same time,
THEOREM ConcurrentScopes == TxSpec => []ScopeIsolation
BY Atomicity, ScopesIsolated, PTL DEF ImplementsStore

\* the audit trail accounts for every event and every memory: no interleaving and
\* no crash commits a change without its record or a record without its change,
THEOREM ConcurrentTrail == TxSpec => [](EventLedger /\ MemoryLedger)
BY Atomicity, EventsAccounted, MemoriesAccounted, PTL DEF ImplementsStore

\* what is tombstoned stays so, no row is rewritten, and a retried ingest meets
\* its first answer, however many other clients have written between the two,
THEOREM ConcurrentHistory == TxSpec => NoResurrection /\ NoRewrite /\ IngestRetrySafe
BY Atomicity, TombstonesFinal, RowsNeverRewritten, RetriesSafe, PTL DEF ImplementsStore

\* and every entity goes through the life cycle the service promises.
THEOREM ConcurrentLifecycle == TxSpec => ImplementsLifecycle
BY Atomicity, Implements, PTL DEF ImplementsStore

-----------------------------------------------------------------------------
(* What a client sees.                                                    *)

\* What an answer o to the call r claims about the file d.
Claim(d, r, o) ==
    /\ r.op = "ingest" /\ o \in {"created", "replayed"} =>
         \/ EventKey(r.draft) \in DOMAIN d.raw_events
         \/ <<r.draft.scope, "raw_event", r.draft.event_id>> \in DOMAIN d.tombstones
    /\ r.op = "materialize" /\ o \in {"created", "replayed"} =>
         \/ MemoryKey(r.draft) \in DOMAIN d.memories
         \/ <<r.draft.scope, "memory", r.draft.memory_id>> \in DOMAIN d.tombstones
    /\ r.op = "govern" /\ o = "done" /\ r.command.action \in {"forget", "delete"} =>
         <<r.command.scope, r.command.entity_type, r.command.entity_id>>
             \in DOMAIN d.tombstones

ClientShapes ==
    /\ outcome = [c \in Clients |-> outcome[c]]
    /\ recalled = [c \in Clients |-> recalled[c]]
    /\ erased = [c \in Clients |-> erased[c]]

LockOwned == lock \in Clients \cup {NoClient}

InTransaction ==
    \A c \in Clients :
        inTx[c] <=> phase[c] \in {"begun", "writing", "selecting", "reading"}

\* What a writer is about to commit, and what a reader reads, is a database
\* that every reader accepts.
CopiesSound == \A c \in Clients : DbType(copy[c]) /\ DbConsistent(copy[c])

\* A reader's snapshot is not older than its call.
SnapshotCurrent ==
    \A c \in Clients : phase[c] = "reading" =>
        request[c].op = "recall" /\ erased[c] \subseteq DOMAIN copy[c].tombstones

Histories ==
    \A c \in Clients :
        /\ recalled[c] \subseteq Ids
        /\ erased[c] \subseteq DOMAIN db.tombstones
        /\ \A m \in recalled[c] : <<request[c].scope, "memory", m>> \notin erased[c]

\* From its commit on, or from its refusal, the answer of a call is backed by the
\* file; before, a writer's answer is the one the file still gives.
AnswersBacked ==
    \A c \in Clients :
        /\ phase[c] \in {"idle", "committed"} => Claim(db, request[c], outcome[c])
        /\ phase[c] = "writing" => outcome[c] = Outcome(db, request[c])

ClientInv ==
    /\ Inv /\ TypeOK /\ Consistent /\ LockOwned
    /\ ClientShapes /\ InTransaction /\ CopiesSound
    /\ SnapshotCurrent /\ Histories /\ AnswersBacked

-----------------------------------------------------------------------------
(* Calls and their answers.                                                *)

\* The kinds of call a client makes.
LEMMA WriteRequests ==
    ASSUME NEW r \in Requests, Writes(r)
    PROVE  \/ r.op = "ingest" /\ r.draft \in EventDrafts /\ r.now \in Clocks
           \/ r.op = "materialize" /\ r.draft \in MemoryDrafts
           \/ r.op = "govern" /\ r.command \in GovernanceCommand
           \/ r.op = "expire"
BY RequestAssumption DEF WriteRequest, ReadRequest, Writes

\* The calls that only read name a scope.
LEMMA ReadRequests ==
    ASSUME NEW r \in Requests, ~Writes(r)
    PROVE  r.op \in {"recall", "audit"} /\ r.scope \in Scopes
BY RequestAssumption DEF WriteRequest, ReadRequest, Writes

\* The effect of an accepted call is a database every reader accepts.
LEMMA EffectSound ==
    ASSUME NEW d, DbType(d), DbConsistent(d), NEW r \in Requests, Writes(r),
           Outcome(d, r) \in Accepted
    PROVE  DbType(Effect(d, r)) /\ DbConsistent(Effect(d, r))
<1>1. CASE r.op = "ingest" /\ r.draft \in EventDrafts /\ r.now \in Clocks
  <2>1. IngestOutcome(d, r.draft) = "created"
    BY <1>1, AcceptedCreates DEF Outcome, Accepted
  <2>2. Effect(d, r) = IngestEffect(d, r.draft, r.now)
    BY <1>1 DEF Effect
  <2>3. QED
    BY <1>1, <2>1, <2>2, IngestType, IngestConsistent
<1>2. CASE r.op = "materialize" /\ r.draft \in MemoryDrafts
  <2>1. MaterializeOutcome(d, r.draft) = "created"
    BY <1>2, AcceptedCreates DEF Outcome, Accepted
  <2>2. Effect(d, r) = MaterializeEffect(d, r.draft)
    BY <1>2 DEF Effect
  <2>3. QED
    BY <1>2, <2>1, <2>2, MaterializeType, MaterializeConsistent
<1>3. CASE r.op = "govern" /\ r.command \in GovernanceCommand
  <2>1. GovernOutcome(d, r.command) = "done"
    BY <1>3, AcceptedDone DEF Outcome, Accepted
  <2>2. Effect(d, r) = GovernEffect(d, r.command)
    BY <1>3 DEF Effect
  <2>3. QED
    BY <1>3, <2>1, <2>2, GovernOk
<1>4. CASE r.op = "expire"
  <2>1. Effect(d, r) = ExpireEffect(d, r.as_of)
    BY <1>4 DEF Effect
  <2>2. QED
    BY <2>1, ExpireType, ExpireConsistent
<1>5. QED
  BY <1>1, <1>2, <1>3, <1>4, WriteRequests

\* No call is answered with RepositoryCorruption by a consistent database.
LEMMA OutcomeSound ==
    ASSUME NEW d, DbType(d), DbConsistent(d), NEW r \in Requests, Writes(r)
    PROVE  Outcome(d, r) # "RepositoryCorruption"
<1>1. CASE r.op = "ingest"
  BY <1>1, IngestSound DEF Outcome
<1>2. CASE r.op = "materialize" /\ r.draft \in MemoryDrafts
  BY <1>2, MaterializeSound DEF Outcome
<1>3. CASE r.op = "govern" /\ r.command \in GovernanceCommand
  BY <1>3, GovernSound DEF Outcome
<1>4. CASE r.op = "expire"
  BY <1>4 DEF Outcome, ExpireOutcome, DbConsistent
<1>5. QED
  BY <1>1, <1>2, <1>3, <1>4, WriteRequests

\* An accepted call does what its answer says ...
LEMMA AcceptedClaim ==
    ASSUME NEW d, DbType(d), NEW r \in Requests, Writes(r),
           Outcome(d, r) \in Accepted
    PROVE  Claim(Effect(d, r), r, Outcome(d, r))
<1>0. IsDb(d)
  BY DEF DbType
<1>1. CASE r.op = "ingest"
  <2>1. Effect(d, r).raw_events
          = Insert(d.raw_events, Row(EventKey(r.draft), NewEventRow(r.draft, r.now)))
    BY <1>0, <1>1 DEF Effect, IngestEffect, IsDb
  <2>2. EventKey(r.draft) \in DOMAIN Effect(d, r).raw_events
    BY <2>1 DEF Insert, Row
  <2>3. QED
    BY <1>1, <2>2 DEF Claim
<1>2. CASE r.op = "materialize"
  <2>1. Effect(d, r).memories
          = Insert(d.memories, Row(MemoryKey(r.draft), NewMemoryRow(d, r.draft)))
    BY <1>0, <1>2 DEF Effect, MaterializeEffect, IsDb
  <2>2. MemoryKey(r.draft) \in DOMAIN Effect(d, r).memories
    BY <2>1 DEF Insert, Row
  <2>3. QED
    BY <1>2, <2>2 DEF Claim
<1>3. CASE r.op = "govern" /\ r.command \in GovernanceCommand
  <2> DEFINE c == r.command
             stone == <<c.scope, c.entity_type, c.entity_id>>
  <2>1. SUFFICES ASSUME c.action \in {"forget", "delete"}
                 PROVE  stone \in DOMAIN Effect(d, r).tombstones
    BY <1>3 DEF Claim
  <2>2. Effect(d, r) = GovernEffect(d, c)
    BY <1>3 DEF Effect
  <2>3. GovernEffect(d, c).tombstones = Insert(d.tombstones, NewTombstones(d, c))
    BY <1>0, <2>1 DEF IsDb, GovernEffect, Erase
  <2>4. c.entity_type \in EntityType
    BY <1>3 DEF GovernanceCommand
  <2>5. stone \in DOMAIN NewTombstones(d, c)
    BY <2>4 DEF NewTombstones, ErasedMemories, EntityType
  <2>6. QED
    BY <2>2, <2>3, <2>5 DEF Insert
<1>4. CASE r.op = "expire"
  BY <1>4 DEF Claim
<1>5. QED
  BY <1>1, <1>2, <1>3, <1>4, WriteRequests

\* ... and so does one that is not, as far as its answer says anything.
LEMMA RefusedClaim ==
    ASSUME NEW d, NEW r \in Requests, Writes(r), Outcome(d, r) \notin Accepted
    PROVE  Claim(d, r, Outcome(d, r))
<1>1. CASE r.op = "ingest"
  <2>1. IngestOutcome(d, r.draft) = "replayed" => EventKey(r.draft) \in DOMAIN d.raw_events
    BY DEF IngestOutcome
  <2>2. QED
    BY <1>1, <2>1 DEF Claim, Outcome, Accepted
<1>2. CASE r.op = "materialize"
  <2>1. SourcesOutcome(d, r.draft) # "replayed"
    BY DEF SourcesOutcome, SourceOutcome
  <2>2. MaterializeOutcome(d, r.draft) = "replayed" =>
            MemoryKey(r.draft) \in DOMAIN d.memories
    BY <2>1 DEF MaterializeOutcome
  <2>3. QED
    BY <1>2, <2>2 DEF Claim, Outcome, Accepted
<1>3. CASE r.op \notin {"ingest", "materialize"}
  BY <1>3 DEF Claim, Accepted
<1>4. QED
  BY <1>1, <1>2, <1>3

\* Other answers claim nothing.
LEMMA EmptyClaim ==
    ASSUME NEW d, NEW r, NEW o,
           o \notin {"created", "replayed", "done"} \/ r.op \in {"recall", "audit"}
    PROVE  Claim(d, r, o)
BY DEF Claim

\* A claim stays true: what is gone since has a tombstone.
LEMMA ClaimStays ==
    ASSUME NEW d, NEW e, Kept(d, e), NEW r, NEW o, Claim(d, r, o)
    PROVE  Claim(e, r, o)
<1>1. CASE r.op = "ingest"
  BY <1>1 DEF Claim, Kept, EventKey
<1>2. CASE r.op = "materialize"
  BY <1>2 DEF Claim, Kept, MemoryKey
<1>3. CASE r.op \notin {"ingest", "materialize"}
  BY <1>3 DEF Claim, Kept
<1>4. QED
  BY <1>1, <1>2, <1>3

-----------------------------------------------------------------------------
(* The steps, as far as the invariant is concerned.                        *)

\* A call that ends says so to its own client only.
LEMMA EndCallStep ==
    ASSUME ClientInv, NEW c \in Clients, NEW result, EndCall(c, result)
    PROVE  /\ UNCHANGED <<db, request, recalled, erased>>
           /\ phase' = [phase EXCEPT ![c] = "idle"]
           /\ outcome' = [outcome EXCEPT ![c] = result]
           /\ inTx' = [inTx EXCEPT ![c] = FALSE]
           /\ copy' = [copy EXCEPT ![c] = EmptyDb]
BY DEF EndCall

\* A writer either ends its call with an answer that claims nothing new or goes
\* on to write the effect of it.
LEMMA DecideStep ==
    ASSUME ClientInv, NEW c \in Clients, Decide(c)
    PROVE  \/ \E result :
                /\ EndCall(c, result)
                /\ result # "RepositoryCorruption"
                /\ Claim(db, request[c], result)
           \/ /\ phase[c] = "begun" /\ phase' = [phase EXCEPT ![c] = "writing"]
              /\ outcome' = [outcome EXCEPT ![c] = Outcome(db, request[c])]
              /\ copy' = [copy EXCEPT ![c] = Effect(db, request[c])]
              /\ UNCHANGED <<db, request, inTx, recalled, erased>>
              /\ Outcome(db, request[c]) \in Accepted
<1> DEFINE result == IF WithinBound(db, request[c]) THEN Outcome(db, request[c])
                                                    ELSE "lost"
<1>1. /\ phase[c] = "begun" /\ request[c] \in Requests /\ Writes(request[c])
      /\ DbType(db) /\ DbConsistent(db)
  BY DEF Decide, ClientInv, Inv, Shapes, TypeOK, Consistent
<1>2. CASE result \in Accepted
  <2>1. /\ phase' = [phase EXCEPT ![c] = "writing"]
        /\ outcome' = [outcome EXCEPT ![c] = result]
        /\ copy' = [copy EXCEPT ![c] = Effect(db, request[c])]
        /\ UNCHANGED <<shared, request, inTx, recalled, erased>>
    BY <1>2 DEF Decide, Accepted
  <2>2. result = Outcome(db, request[c])
    BY <1>2 DEF Accepted
  <2>3. QED
    BY <1>1, <1>2, <2>1, <2>2 DEF shared
<1>3. CASE result \notin Accepted
  <2>1. EndCall(c, result)
    BY <1>3 DEF Decide, Accepted
  <2>2. CASE result = "lost"
    BY <2>1, <2>2, EmptyClaim
  <2>3. CASE result = Outcome(db, request[c])
    <3>1. result # "RepositoryCorruption"
      BY <1>1, <2>3, OutcomeSound
    <3>2. Claim(db, request[c], result)
      BY <1>1, <1>3, <2>3, RefusedClaim
    <3>3. QED
      BY <2>1, <3>1, <3>2
  <2>4. QED
    BY <2>2, <2>3
<1>4. QED
  BY <1>2, <1>3

\* A reader answers from its snapshot.
LEMMA AnswerStep ==
    ASSUME ClientInv, NEW c \in Clients, SelectSources(c)
    PROVE  /\ phase[c] = "reading" /\ phase' = [phase EXCEPT ![c] = "idle"]
           /\ outcome' = [outcome EXCEPT ![c] = "done"]
           /\ inTx' = [inTx EXCEPT ![c] = FALSE]
           /\ copy' = [copy EXCEPT ![c] = EmptyDb]
           /\ recalled' = [recalled EXCEPT ![c] =
                RecallCandidates(copy[c], request[c].scope, request[c].as_of, {})]
           /\ UNCHANGED <<db, request, erased>>
<1>1. phase[c] = "reading" /\ inTx[c]
  BY DEF SelectSources, ClientInv, InTransaction
<1>2. request[c] \in Requests /\ request[c].op = "recall"
  BY <1>1 DEF ClientInv, Inv, Shapes, SnapshotCurrent
<1>3. request[c].scope \in Scopes
  BY <1>2, ReadRequests DEF Writes
<1>4. RecallOutcome(copy[c], request[c].scope) # "RepositoryCorruption"
  BY <1>3, RecallSound DEF ClientInv, CopiesSound
<1>5. RecallOutcome(copy[c], request[c].scope) = "done"
  BY <1>4 DEF RecallOutcome
<1>6. QED
  BY <1>1, <1>5 DEF SelectSources, shared

\* Audit reads the file as it is.
LEMMA AuditStep ==
    ASSUME ClientInv, NEW c \in Clients, SelectAudit(c)
    PROVE  EndCall(c, "done") /\ request[c].op = "audit"
<1>1. AuditOutcome(db, request[c].scope) = "done"
  BY DEF AuditOutcome, ClientInv, Consistent, DbConsistent
<1>2. QED
  BY <1>1 DEF SelectAudit

-----------------------------------------------------------------------------
(* The invariant.                                                          *)

\* The copy of a client without a transaction is the empty database.
LEMMA EmptySound == DbType(EmptyDb) /\ DbConsistent(EmptyDb)
<1>1. EmptyDb = [raw_events |-> EmptyTable, raw_event_content |-> EmptyTable,
                 memories |-> EmptyTable, memory_sources |-> EmptyTable,
                 tombstones |-> EmptyTable, audit_log |-> EmptyTable]
  BY DEF EmptyDb
<1>2. \A K, R : IsTable(EmptyTable, K, R)
  BY DEF IsTable, EmptyTable
<1>3. DbType(EmptyDb)
  BY <1>1, <1>2 DEF DbType, IsDb
<1>4. DbConsistent(EmptyDb)
  BY <1>1 DEF DbConsistent, EmptyTable
<1>5. QED
  BY <1>3, <1>4

\* Nobody has been told anything.
LEMMA ClientInit ==
    ASSUME TxInit
    PROVE  ClientInv
<1>1. Inv
  BY InvInit, ClientAssumption
<1>2. TypeOK /\ Consistent
  BY EmptySound DEF TxInit, TypeOK, Consistent
<1>3. ClientShapes /\ InTransaction /\ SnapshotCurrent /\ Histories
  BY DEF TxInit, ClientShapes, InTransaction, SnapshotCurrent, Histories
<1>4. CopiesSound
  BY EmptySound DEF TxInit, CopiesSound
<1>5. AnswersBacked
  BY EmptyClaim DEF TxInit, AnswersBacked
<1>6. LockOwned
  BY DEF TxInit, LockOwned
<1>7. QED
  BY <1>1, <1>2, <1>3, <1>4, <1>5, <1>6 DEF ClientInv

\* A call that ends with an answer that is backed keeps the invariant.
LEMMA EndCallKeeps ==
    ASSUME ClientInv, NEW c \in Clients, NEW result, EndCall(c, result),
           Claim(db, request[c], result)
    PROVE  /\ ClientShapes' /\ InTransaction' /\ CopiesSound'
           /\ SnapshotCurrent' /\ Histories' /\ AnswersBacked'
<1>1. /\ UNCHANGED <<db, request, recalled, erased>>
      /\ phase' = [phase EXCEPT ![c] = "idle"]
      /\ outcome' = [outcome EXCEPT ![c] = result]
      /\ inTx' = [inTx EXCEPT ![c] = FALSE]
      /\ copy' = [copy EXCEPT ![c] = EmptyDb]
  BY EndCallStep
<1>2. /\ phase \in [Clients -> Phase] /\ inTx \in [Clients -> BOOLEAN]
      /\ copy = [b \in Clients |-> copy[b]] /\ outcome = [b \in Clients |-> outcome[b]]
  BY DEF ClientInv, Inv, Shapes, ClientShapes
<1>3. ClientShapes' /\ Histories'
  BY <1>1, <1>2 DEF ClientInv, ClientShapes, Histories
<1>4. InTransaction'
  BY <1>1, <1>2 DEF ClientInv, InTransaction
<1>5. CopiesSound'
  BY <1>1, <1>2, EmptySound DEF ClientInv, CopiesSound
<1>6. SnapshotCurrent'
  BY <1>1, <1>2 DEF ClientInv, SnapshotCurrent
<1>7. AnswersBacked'
  BY <1>1, <1>2 DEF ClientInv, AnswersBacked
<1>8. QED
  BY <1>3, <1>4, <1>5, <1>6, <1>7

\* What the rest of the invariant says of the clients.
Rest == /\ ClientShapes /\ InTransaction /\ CopiesSound
        /\ SnapshotCurrent /\ Histories /\ AnswersBacked

\* A decision to write is a copy every reader accepts.
LEMMA DecideKeeps ==
    ASSUME ClientInv, NEW c \in Clients, Decide(c)
    PROVE  Rest'
<1>0. /\ phase \in [Clients -> Phase] /\ request[c] \in Requests
      /\ copy = [b \in Clients |-> copy[b]] /\ outcome = [b \in Clients |-> outcome[b]]
  BY DEF ClientInv, Inv, Shapes, ClientShapes
<1>1. ASSUME NEW result, EndCall(c, result), Claim(db, request[c], result)
      PROVE  Rest'
  BY <1>1, EndCallKeeps DEF Rest
<1>2. ASSUME phase[c] = "begun", phase' = [phase EXCEPT ![c] = "writing"],
             outcome' = [outcome EXCEPT ![c] = Outcome(db, request[c])],
             copy' = [copy EXCEPT ![c] = Effect(db, request[c])],
             UNCHANGED <<db, request, inTx, recalled, erased>>,
             Outcome(db, request[c]) \in Accepted
      PROVE  Rest'
  <2>1. Writes(request[c])
    BY <1>2 DEF ClientInv, Inv, Shapes
  <2>2. DbType(Effect(db, request[c])) /\ DbConsistent(Effect(db, request[c]))
    BY <1>0, <1>2, <2>1, EffectSound DEF ClientInv, TypeOK, Consistent
  <2>3. CopiesSound'
    BY <1>0, <1>2, <2>2 DEF ClientInv, CopiesSound
  <2>4. ClientShapes' /\ Histories'
    BY <1>0, <1>2 DEF ClientInv, ClientShapes, Histories
  <2>5. InTransaction' /\ SnapshotCurrent'
    BY <1>0, <1>2 DEF ClientInv, InTransaction, SnapshotCurrent
  <2>6. AnswersBacked'
    BY <1>0, <1>2 DEF ClientInv, AnswersBacked
  <2>7. QED
    BY <2>3, <2>4, <2>5, <2>6 DEF Rest
<1>3. QED
  BY <1>1, <1>2, DecideStep

\* A commit makes the writer's answer true, and keeps everybody else's so.
LEMMA CommitKeeps ==
    ASSUME ClientInv, NEW c \in Clients, Commit(c), Kept(db, db')
    PROVE  Rest'
<1>0. /\ phase \in [Clients -> Phase] /\ inTx \in [Clients -> BOOLEAN]
  BY DEF ClientInv, Inv, Shapes
<1>1. /\ phase[c] = "writing" /\ phase' = [phase EXCEPT ![c] = "committed"]
      /\ inTx' = [inTx EXCEPT ![c] = FALSE]
      /\ UNCHANGED <<request, copy, outcome, recalled, erased>>
  BY DEF Commit
<1>2. /\ request[c] \in Requests /\ Writes(request[c])
      /\ Outcome(db, request[c]) \in Accepted
      /\ copy[c] = Effect(db, request[c])
      /\ outcome[c] = Outcome(db, request[c])
      /\ DbType(db) /\ DbConsistent(db)
  BY <1>1 DEF ClientInv, Inv, Shapes, DecisionStands, AnswersBacked, TypeOK, Consistent
<1>3. db' = Effect(db, request[c])
  BY <1>1, <1>2 DEF Commit, ClientInv, InTransaction
<1>4. Claim(db', request[c], outcome[c])
  BY <1>2, <1>3, AcceptedClaim
<1>5. \A b \in Clients \ {c} : phase[b] # "writing"
  BY <1>1 DEF ClientInv, Inv, LockDiscipline
<1>6. AnswersBacked'
  <2>1. ASSUME NEW b \in Clients \ {c}, phase[b] \in {"idle", "committed"}
        PROVE  Claim(db', request[b], outcome[b])
    <3>1. Claim(db, request[b], outcome[b])
      BY <2>1 DEF ClientInv, AnswersBacked
    <3>2. QED
      BY <3>1, ClaimStays
  <2>2. QED
    BY <1>0, <1>1, <1>4, <1>5, <2>1 DEF AnswersBacked
<1>7. Histories'
  BY <1>1 DEF ClientInv, Histories, Kept
<1>8. ClientShapes' /\ CopiesSound' /\ SnapshotCurrent'
  BY <1>0, <1>1 DEF ClientInv, ClientShapes, CopiesSound, SnapshotCurrent
<1>9. InTransaction'
  BY <1>0, <1>1 DEF ClientInv, InTransaction
<1>10. QED
  BY <1>6, <1>7, <1>8, <1>9 DEF Rest

\* A recall hands out nothing its client knew to be erased.
LEMMA AnswerKeeps ==
    ASSUME ClientInv, NEW c \in Clients, SelectSources(c)
    PROVE  Rest'
<1>0. /\ phase \in [Clients -> Phase] /\ inTx \in [Clients -> BOOLEAN]
      /\ copy = [b \in Clients |-> copy[b]] /\ outcome = [b \in Clients |-> outcome[b]]
      /\ recalled = [b \in Clients |-> recalled[b]]
  BY DEF ClientInv, Inv, Shapes, ClientShapes
<1> DEFINE found == RecallCandidates(copy[c], request[c].scope, request[c].as_of, {})
<1>1. /\ phase[c] = "reading" /\ phase' = [phase EXCEPT ![c] = "idle"]
      /\ outcome' = [outcome EXCEPT ![c] = "done"]
      /\ inTx' = [inTx EXCEPT ![c] = FALSE]
      /\ copy' = [copy EXCEPT ![c] = EmptyDb]
      /\ recalled' = [recalled EXCEPT ![c] = found]
      /\ UNCHANGED <<db, request, erased>>
  BY AnswerStep
<1>2. request[c].op = "recall" /\ erased[c] \subseteq DOMAIN copy[c].tombstones
  BY <1>1 DEF ClientInv, SnapshotCurrent
<1>3. /\ found \subseteq Ids
      /\ \A m \in found : <<request[c].scope, m>> \in DOMAIN copy[c].memories
  BY DEF RecallCandidates, MemoriesIn
<1>4. ASSUME NEW m \in found
      PROVE  <<request[c].scope, "memory", m>> \notin erased[c]
  <2> DEFINE stone == <<request[c].scope, "memory", m>>
  <2>1. ASSUME stone \in DOMAIN copy[c].tombstones
        PROVE  FALSE
    <3>1. <<stone[1], stone[3]>> \notin DOMAIN copy[c].memories
      BY <2>1 DEF ClientInv, CopiesSound, DbConsistent
    <3>2. QED
      BY <1>3, <1>4, <3>1
  <2>2. QED
    BY <1>2, <2>1
<1> HIDE DEF found
<1>5. ClientShapes' /\ Histories'
  BY <1>0, <1>1, <1>3, <1>4 DEF ClientInv, ClientShapes, Histories
<1>6. InTransaction' /\ SnapshotCurrent'
  BY <1>0, <1>1 DEF ClientInv, InTransaction, SnapshotCurrent
<1>7. CopiesSound'
  BY <1>0, <1>1, EmptySound DEF ClientInv, CopiesSound
<1>8. Claim(db, request[c], "done")
  BY <1>2, EmptyClaim
<1>9. AnswersBacked'
  BY <1>0, <1>1, <1>8 DEF ClientInv, AnswersBacked
<1>10. QED
  BY <1>5, <1>6, <1>7, <1>9 DEF Rest

\* Every step keeps what the clients hold of the file.
LEMMA RestNext ==
    ASSUME ClientInv, [TxNext]_txVars, Kept(db, db')
    PROVE  Rest'
<1>0. /\ phase \in [Clients -> Phase] /\ inTx \in [Clients -> BOOLEAN]
      /\ request \in [Clients -> Requests]
      /\ copy = [b \in Clients |-> copy[b]] /\ outcome = [b \in Clients |-> outcome[b]]
      /\ recalled = [b \in Clients |-> recalled[b]]
      /\ erased = [b \in Clients |-> erased[b]]
  BY DEF ClientInv, Inv, Shapes, ClientShapes
<1>1. CASE UNCHANGED txVars
  BY <1>1 DEF ClientInv, Rest, ClientShapes, InTransaction, CopiesSound,
         SnapshotCurrent, Histories, AnswersBacked, txVars, shared, local
<1>2. ASSUME NEW c \in Clients, NEW r \in Requests, Call(c, r)
      PROVE  Rest'
  <2>1. MemoryTombstones \subseteq DOMAIN db.tombstones
    BY DEF MemoryTombstones
  <2>2. /\ phase[c] = "idle" /\ phase' = [phase EXCEPT ![c] = "connected"]
        /\ request' = [request EXCEPT ![c] = r]
        /\ outcome' = [outcome EXCEPT ![c] = "none"]
        /\ recalled' = [recalled EXCEPT ![c] = {}]
        /\ \E T : T \subseteq DOMAIN db.tombstones /\ erased' = [erased EXCEPT ![c] = T]
        /\ UNCHANGED <<db, inTx, copy>>
    BY <1>2, <2>1 DEF Call, shared
  <2>3. ClientShapes' /\ Histories'
    BY <1>0, <2>2 DEF ClientInv, ClientShapes, Histories
  <2>4. InTransaction' /\ CopiesSound' /\ SnapshotCurrent'
    BY <1>0, <2>2 DEF ClientInv, InTransaction, CopiesSound, SnapshotCurrent
  <2>5. AnswersBacked'
    BY <1>0, <2>2 DEF ClientInv, AnswersBacked
  <2>6. QED
    BY <2>3, <2>4, <2>5 DEF Rest
<1>3. ASSUME NEW c \in Clients, BeginImmediate(c) \/ BeginRead(c)
      PROVE  Rest'
  <2>1. /\ phase[c] = "connected"
        /\ \/ phase' = [phase EXCEPT ![c] = "begun"]
           \/ phase' = [phase EXCEPT ![c] = "selecting"]
        /\ inTx' = [inTx EXCEPT ![c] = TRUE]
        /\ UNCHANGED <<db, request, copy, outcome, recalled, erased>>
    BY <1>3 DEF BeginImmediate, BeginRead, shared
  <2>2. InTransaction'
    BY <1>0, <2>1 DEF ClientInv, InTransaction
  <2>3. ClientShapes' /\ CopiesSound' /\ SnapshotCurrent' /\ Histories'
    BY <1>0, <2>1 DEF ClientInv, ClientShapes, CopiesSound, SnapshotCurrent, Histories
  <2>4. AnswersBacked'
    BY <1>0, <2>1 DEF ClientInv, AnswersBacked
  <2>5. QED
    BY <2>2, <2>3, <2>4 DEF Rest
<1>4. ASSUME NEW c \in Clients, SelectMemories(c)
      PROVE  Rest'
  <2>1. /\ phase[c] = "selecting" /\ request[c].op = "recall"
        /\ copy' = [copy EXCEPT ![c] = db]
        /\ phase' = [phase EXCEPT ![c] = "reading"]
        /\ UNCHANGED <<db, request, inTx, outcome, recalled, erased>>
    BY <1>4 DEF SelectMemories, shared
  <2>2. CopiesSound'
    BY <1>0, <2>1 DEF ClientInv, CopiesSound, TypeOK, Consistent
  <2>3. SnapshotCurrent'
    BY <1>0, <2>1 DEF ClientInv, SnapshotCurrent, Histories
  <2>4. ClientShapes' /\ InTransaction' /\ Histories'
    BY <1>0, <2>1 DEF ClientInv, ClientShapes, InTransaction, Histories
  <2>5. AnswersBacked'
    BY <1>0, <2>1 DEF ClientInv, AnswersBacked
  <2>6. QED
    BY <2>2, <2>3, <2>4, <2>5 DEF Rest
<1>5. ASSUME NEW c \in Clients, Write(c)
      PROVE  Rest'
  <2>1. UNCHANGED <<db, phase, request, inTx, copy, outcome, recalled, erased>>
    BY <1>5 DEF Write, ClientInv, InTransaction
  <2>2. QED
    BY <2>1 DEF ClientInv, Rest, ClientShapes, InTransaction, CopiesSound,
           SnapshotCurrent, Histories, AnswersBacked
<1>6. ASSUME NEW c \in Clients, LockTimeout(c) \/ StatementFails(c) \/ Crash(c)
      PROVE  Rest'
  <2>1. PICK result \in {"RepositoryBusy", "RepositoryCorruption", "lost"} :
            EndCall(c, result)
    BY <1>6 DEF LockTimeout, StatementFails, Crash
  <2>2. QED
    BY <2>1, EmptyClaim, EndCallKeeps DEF Rest
<1>7. ASSUME NEW c \in Clients, Return(c)
      PROVE  Rest'
  <2>1. Claim(db, request[c], outcome[c])
    BY <1>7 DEF Return, ClientInv, AnswersBacked
  <2>2. QED
    BY <1>7, <2>1, EndCallKeeps DEF Return, Rest
<1>8. ASSUME NEW c \in Clients, SelectAudit(c)
      PROVE  Rest'
  <2>1. EndCall(c, "done") /\ Claim(db, request[c], "done")
    BY <1>8, AuditStep, EmptyClaim
  <2>2. QED
    BY <2>1, EndCallKeeps DEF Rest
<1>9. QED
  BY <1>1, <1>2, <1>3, <1>4, <1>5, <1>6, <1>7, <1>8, DecideKeeps, CommitKeeps,
     AnswerKeeps DEF TxNext, Step

\* The lock passes between clients.
LEMMA LockNext ==
    ASSUME LockOwned, [TxNext]_txVars
    PROVE  LockOwned'
<1>1. ASSUME NEW c \in Clients, NEW result, EndCall(c, result)
      PROVE  LockOwned'
  BY <1>1 DEF EndCall, LockOwned
<1>2. ASSUME NEW c \in Clients, Decide(c)
      PROVE  LockOwned'
  <2>1. \/ lock' = lock
        \/ \E result : EndCall(c, result)
    BY <1>2 DEF Decide, shared
  <2>2. QED
    BY <1>1, <2>1 DEF LockOwned
<1>3. ASSUME NEW c \in Clients, SelectSources(c)
      PROVE  LockOwned'
  BY <1>3 DEF SelectSources, shared, LockOwned
<1>4. ASSUME NEW c \in Clients,
             \/ LockTimeout(c) \/ Return(c) \/ SelectAudit(c)
             \/ StatementFails(c) \/ Crash(c)
      PROVE  LockOwned'
  BY <1>1, <1>4 DEF LockTimeout, Return, SelectAudit, StatementFails, Crash
<1>5. QED
  BY <1>2, <1>3, <1>4 DEF TxNext, Step, Call, BeginImmediate, Write, Commit,
         BeginRead, SelectMemories, txVars, shared, LockOwned

\* The invariant is inductive.
LEMMA ClientNext == ClientInv /\ [TxNext]_txVars => ClientInv'
<1> SUFFICES ASSUME ClientInv, [TxNext]_txVars PROVE ClientInv'
  OBVIOUS
<1>1. Inv'
  BY InvNext, ClientAssumption DEF ClientInv
<1>2. [Next]_vars
  BY StepImplements DEF ClientInv
<1>3. TypeOK' /\ Consistent'
  BY <1>2, InductiveStep DEF ClientInv
<1>4. Kept(db, db')
  BY <1>2, OperationKeeps DEF ClientInv
<1>5. Rest'
  BY <1>4, RestNext
<1>6. LockOwned'
  BY LockNext DEF ClientInv
<1>7. QED
  BY <1>1, <1>3, <1>5, <1>6 DEF ClientInv, Rest

\* It holds in every state.
LEMMA ClientInvariant == TxSpec => []ClientInv
BY ClientInit, ClientNext, PTL DEF TxSpec

-----------------------------------------------------------------------------
(* Theorems.                                                               *)

\* Whatever the clients do and wherever they die, the write lock belongs to the
\* client between BEGIN IMMEDIATE and the end of its transaction, and nobody
\* commits or reads what is not a database.
THEOREM ClientsTyped == TxSpec => []TxTypeOK
<1>1. ClientInv => TxTypeOK
  BY DEF ClientInv, Inv, Shapes, LockDiscipline, TypeOK, LockOwned,
         InTransaction, CopiesSound, Histories, TxTypeOK
<1>2. QED
  BY <1>1, ClientInvariant, PTL

\* What a caller was told is true of the file from then on.
THEOREM AnswersTrue == TxSpec => []AnswersHold
<1>1. ClientInv => AnswersHold
  BY DEF ClientInv, AnswersBacked, Claim, AnswersHold
<1>2. QED
  BY <1>1, ClientInvariant, PTL

\* No recall hands out what had been erased before it was called.
THEOREM RecallCurrent == TxSpec => []NoStaleRecall
<1>1. ClientInv => NoStaleRecall
  BY DEF ClientInv, Histories, NoStaleRecall
<1>2. QED
  BY <1>1, ClientInvariant, PTL

\* No client takes another client's transaction for corruption of the file.
THEOREM NobodyAlarmed == TxSpec => NoFalseAlarm
<1>1. ASSUME ClientInv,
             NEW c \in Clients, Decide(c) \/ SelectSources(c) \/ SelectAudit(c)
      PROVE  outcome'[c] # "RepositoryCorruption"
  <2>0. outcome = [b \in Clients |-> outcome[b]]
    BY <1>1 DEF ClientInv, ClientShapes
  <2>1. CASE Decide(c)
    <3>1. ASSUME NEW result, EndCall(c, result), result # "RepositoryCorruption"
          PROVE  outcome'[c] # "RepositoryCorruption"
      BY <2>0, <3>1 DEF EndCall
    <3>2. ASSUME outcome' = [outcome EXCEPT ![c] = Outcome(db, request[c])],
                 Outcome(db, request[c]) \in Accepted
          PROVE  outcome'[c] # "RepositoryCorruption"
      BY <2>0, <3>2 DEF Accepted
    <3>3. QED
      BY <1>1, <2>1, <3>1, <3>2, DecideStep
  <2>2. CASE SelectSources(c)
    BY <1>1, <2>0, <2>2, AnswerStep
  <2>3. CASE SelectAudit(c)
    BY <1>1, <2>0, <2>3, AuditStep DEF EndCall
  <2>4. QED
    BY <1>1, <2>1, <2>2, <2>3
<1>2. ClientInv =>
        [\A c \in Clients : Decide(c) \/ SelectSources(c) \/ SelectAudit(c) =>
             outcome'[c] # "RepositoryCorruption"]_txVars
  BY <1>1
<1>3. QED
  BY <1>2, ClientInvariant, PTL DEF NoFalseAlarm

-----------------------------------------------------------------------------
(* Every call is of a bounded length.                                      *)

Tables == {"raw_events", "raw_event_content", "memories", "memory_sources",
           "tombstones", "audit_log"}

\* No call has more than six tables to write.
Pending ==
    /\ todo = [c \in Clients |-> todo[c]]
    /\ \A c \in Clients : todo[c] \in Seq(Tables) /\ Len(todo[c]) <= 6

\* The measure of a call at a phase and with tables to write.
Left(at, tables) ==
    CASE at = "idle" -> 0
      [] at = "connected" -> 10
      [] at = "begun" -> 9
      [] at = "writing" -> 2 + Len(tables)
      [] at \in {"committed", "reading"} -> 1
      [] at = "selecting" -> 2

\* The statements of a call write at most six tables.
LEMMA SixTables ==
    ASSUME NEW r \in Requests, Writes(r)
    PROVE  Statements(r) \in Seq(Tables) /\ Len(Statements(r)) <= 6
<1>1. r.op \in {"ingest", "materialize", "govern", "expire"}
  BY RequestAssumption DEF WriteRequest, ReadRequest, Writes
<1>2. \/ Statements(r) = <<"audit_log", "raw_events", "raw_event_content">>
      \/ Statements(r) = <<"memories", "memory_sources", "audit_log">>
      \/ Statements(r) = <<"raw_event_content", "raw_events", "audit_log">>
      \/ Statements(r) = <<"memories", "audit_log">>
      \/ Statements(r) = <<"memory_sources", "memories", "tombstones", "audit_log">>
      \/ Statements(r) = <<"memory_sources", "memories", "raw_event_content",
                           "raw_events", "tombstones", "audit_log">>
  BY <1>1 DEF Statements
<1>3. /\ "raw_events" \in Tables /\ "raw_event_content" \in Tables
      /\ "memories" \in Tables /\ "memory_sources" \in Tables
      /\ "tombstones" \in Tables /\ "audit_log" \in Tables
  BY DEF Tables
<1>4. ASSUME NEW s, Statements(r) = s, s \in Seq(Tables), Len(s) <= 6
      PROVE  Statements(r) \in Seq(Tables) /\ Len(Statements(r)) <= 6
  BY <1>4
<1>5. CASE Statements(r) = <<"audit_log", "raw_events", "raw_event_content">>
  BY <1>3, <1>4, <1>5
<1>6. CASE Statements(r) = <<"memories", "memory_sources", "audit_log">>
  BY <1>3, <1>4, <1>6
<1>7. CASE Statements(r) = <<"raw_event_content", "raw_events", "audit_log">>
  BY <1>3, <1>4, <1>7
<1>8. CASE Statements(r) = <<"memories", "audit_log">>
  BY <1>3, <1>4, <1>8
<1>9. CASE Statements(r)
             = <<"memory_sources", "memories", "tombstones", "audit_log">>
  BY <1>3, <1>4, <1>9
<1>10. CASE Statements(r) = <<"memory_sources", "memories", "raw_event_content",
                              "raw_events", "tombstones", "audit_log">>
  BY <1>3, <1>4, <1>10
<1>11. QED
  BY <1>2, <1>5, <1>6, <1>7, <1>8, <1>9, <1>10

\* What is left of a call at each phase.
LEMMA LeftAt ==
    ASSUME NEW tables \in Seq(Tables)
    PROVE  /\ Left("idle", tables) = 0
           /\ Left("connected", tables) = 10
           /\ Left("begun", tables) = 9
           /\ Left("writing", tables) = 2 + Len(tables)
           /\ Left("committed", tables) = 1
           /\ Left("reading", tables) = 1
           /\ Left("selecting", tables) = 2
           /\ Len(tables) \in Nat
<1>1. Left("idle", tables) = 0
  BY DEF Left
<1>2. Left("connected", tables) = 10
  BY DEF Left
<1>3. Left("begun", tables) = 9
  BY DEF Left
<1>4. Left("writing", tables) = 2 + Len(tables)
  BY DEF Left
<1>5. Left("committed", tables) = 1 /\ Left("reading", tables) = 1
  BY DEF Left
<1>6. Left("selecting", tables) = 2
  BY DEF Left
<1>7. QED
  BY <1>1, <1>2, <1>3, <1>4, <1>5, <1>6

\* Every call that goes on is a step of one client from a phase to a later one.
Moves(c, next, tables) ==
    /\ phase' = [phase EXCEPT ![c] = next]
    /\ todo' = [todo EXCEPT ![c] = tables]
    /\ next \in Phase /\ tables \in Seq(Tables) /\ Len(tables) <= 6
    /\ \/ phase[c] = "idle" /\ next # "idle"
       \/ Left(next, tables) < Left(phase[c], todo[c])

LEMMA MoveAdvances ==
    ASSUME Shapes, Pending, NEW c \in Clients, NEW next, NEW tables,
           Moves(c, next, tables)
    PROVE  CallAdvances /\ Pending'
<1>1. /\ \A b \in Clients : StepsLeft(b) = Left(phase[b], todo[b])
      /\ \A b \in Clients : StepsLeft(b)' = Left(phase[b]', todo[b]')
  BY DEF StepsLeft, Left
<1>2. /\ phase[c]' = next /\ todo[c]' = tables
      /\ \A b \in Clients \ {c} : phase[b]' = phase[b] /\ todo[b]' = todo[b]
  BY DEF Moves, Shapes, Pending
<1>3. \/ phase[c] = "idle" /\ phase[c]' # "idle"
      \/ StepsLeft(c)' < StepsLeft(c)
  BY <1>1, <1>2 DEF Moves
<1>4. \A b \in Clients \ {c} : StepsLeft(b)' = StepsLeft(b)
  BY <1>1, <1>2
<1>5. Pending'
  BY <1>2 DEF Moves, Pending
<1>6. QED
  BY <1>3, <1>4, <1>5 DEF CallAdvances

\* Wherever a call ends, nothing is left of it.
LEMMA EndCallAdvances ==
    ASSUME Shapes, Pending, NEW c \in Clients, NEW result, EndCall(c, result),
           phase[c] # "idle"
    PROVE  CallAdvances /\ Pending'
<1>1. phase[c] \in Phase /\ todo[c] \in Seq(Tables)
  BY DEF Shapes, Pending
<1>2. Left("idle", << >>) < Left(phase[c], todo[c])
  <2>1. Left("idle", << >>) = 0
    BY DEF Left
  <2>2. QED
    BY <1>1, <2>1, LeftAt DEF Phase
<1>3. Moves(c, "idle", << >>)
  BY <1>2 DEF EndCall, Moves, Phase
<1>4. QED
  BY <1>3, MoveAdvances

\* Every step brings its client's call nearer to its end, and no other one away
\* from it.
LEMMA StepAdvances ==
    ASSUME Shapes, Pending, TxNext
    PROVE  CallAdvances /\ Pending'
<1>0. /\ \A c \in Clients : todo[c] \in Seq(Tables) /\ Len(todo[c]) <= 6
      /\ todo = [c \in Clients |-> todo[c]]
      /\ \A c \in Clients : request[c] \in Requests
  BY DEF Pending, Shapes
<1>1. ASSUME NEW c \in Clients, NEW next \in Phase, todo' = todo,
             phase' = [phase EXCEPT ![c] = next],
             \/ phase[c] = "idle" /\ next # "idle"
             \/ Left(next, todo[c]) < Left(phase[c], todo[c])
      PROVE  CallAdvances /\ Pending'
  <2>1. todo' = [todo EXCEPT ![c] = todo[c]]
    BY <1>0, <1>1
  <2>2. Moves(c, next, todo[c])
    BY <1>0, <1>1, <2>1 DEF Moves
  <2>3. QED
    BY <2>2, MoveAdvances
<1>2. ASSUME NEW c \in Clients, NEW r \in Requests, Call(c, r)
      PROVE  CallAdvances /\ Pending'
  BY <1>1, <1>2 DEF Call, Phase
<1>3. ASSUME NEW c \in Clients, BeginImmediate(c) \/ BeginRead(c)
      PROVE  CallAdvances /\ Pending'
  <2>1. /\ phase[c] = "connected" /\ todo' = todo
        /\ \E next \in {"begun", "selecting"} : phase' = [phase EXCEPT ![c] = next]
    BY <1>3 DEF BeginImmediate, BeginRead
  <2>2. PICK next \in {"begun", "selecting"} : phase' = [phase EXCEPT ![c] = next]
    BY <2>1
  <2>3. Left(next, todo[c]) < Left(phase[c], todo[c]) /\ next \in Phase
    BY <1>0, <2>1, LeftAt DEF Phase
  <2>4. QED
    BY <1>1, <2>1, <2>2, <2>3
<1>4. ASSUME NEW c \in Clients, SelectMemories(c)
      PROVE  CallAdvances /\ Pending'
  <2>1. /\ phase[c] = "selecting" /\ todo' = todo
        /\ phase' = [phase EXCEPT ![c] = "reading"]
    BY <1>4 DEF SelectMemories
  <2>2. Left("reading", todo[c]) < Left(phase[c], todo[c]) /\ "reading" \in Phase
    BY <1>0, <2>1, LeftAt DEF Phase
  <2>3. QED
    BY <1>1, <2>1, <2>2
<1>5. ASSUME NEW c \in Clients, SelectSources(c)
      PROVE  CallAdvances /\ Pending'
  <2>1. /\ phase[c] = "reading" /\ todo' = todo
        /\ phase' = [phase EXCEPT ![c] = "idle"]
    BY <1>5 DEF SelectSources
  <2>2. Left("idle", todo[c]) < Left(phase[c], todo[c]) /\ "idle" \in Phase
    BY <1>0, <2>1, LeftAt DEF Phase
  <2>3. QED
    BY <1>1, <2>1, <2>2
<1>6. ASSUME NEW c \in Clients, Commit(c)
      PROVE  CallAdvances /\ Pending'
  <2>1. Left("committed", todo[c]) < Left(phase[c], todo[c])
    BY <1>0, <1>6, LeftAt DEF Commit
  <2>2. QED
    BY <1>1, <1>6, <2>1 DEF Commit, Phase
<1>7. ASSUME NEW c \in Clients, Write(c)
      PROVE  CallAdvances /\ Pending'
  <2>1. /\ phase[c] = "writing" /\ todo[c] # << >>
        /\ todo' = [todo EXCEPT ![c] = Tail(todo[c])]
        /\ phase' = [phase EXCEPT ![c] = "writing"]
    BY <1>7 DEF Write, Shapes
  <2>2. Tail(todo[c]) \in Seq(Tables) /\ Len(Tail(todo[c])) = Len(todo[c]) - 1
    BY <1>0, <2>1
  <2>3. Left("writing", Tail(todo[c])) < Left("writing", todo[c])
    <3>1. Left("writing", Tail(todo[c])) = 2 + Len(Tail(todo[c]))
      BY <2>2, LeftAt
    <3>2. Left("writing", todo[c]) = 2 + Len(todo[c]) /\ Len(todo[c]) \in Nat
      BY <1>0, LeftAt
    <3>3. QED
      BY <2>2, <3>1, <3>2
  <2>4. Len(Tail(todo[c])) <= 6
    BY <1>0, <2>2
  <2>5. Moves(c, "writing", Tail(todo[c]))
    BY <2>1, <2>2, <2>3, <2>4 DEF Moves, Phase
  <2>6. QED
    BY <2>5, MoveAdvances
<1>8. ASSUME NEW c \in Clients, Decide(c)
      PROVE  CallAdvances /\ Pending'
  <2>1. CASE \E result : EndCall(c, result)
    BY <1>8, <2>1, EndCallAdvances DEF Decide
  <2>2. CASE ~\E result : EndCall(c, result)
    <3>1. /\ phase[c] = "begun"
          /\ phase' = [phase EXCEPT ![c] = "writing"]
          /\ todo' = [todo EXCEPT ![c] = Statements(request[c])]
      BY <1>8, <2>2 DEF Decide
    <3>2. /\ Statements(request[c]) \in Seq(Tables)
          /\ Len(Statements(request[c])) <= 6
      BY <1>0, <3>1, SixTables DEF Shapes
    <3>3. Moves(c, "writing", Statements(request[c]))
      BY <1>0, <3>1, <3>2, LeftAt DEF Moves, Phase
    <3>4. QED
      BY <3>3, MoveAdvances
  <2>3. QED
    BY <2>1, <2>2
<1>9. ASSUME NEW c \in Clients,
             \/ LockTimeout(c) \/ Return(c) \/ SelectAudit(c)
             \/ StatementFails(c) \/ Crash(c)
      PROVE  CallAdvances /\ Pending'
  <2>1. phase[c] # "idle" /\ \E result : EndCall(c, result)
    BY <1>9 DEF LockTimeout, Return, SelectAudit, StatementFails, Crash
  <2>2. QED
    BY <2>1, EndCallAdvances
<1>10. QED
  BY <1>2, <1>3, <1>4, <1>5, <1>6, <1>7, <1>8, <1>9 DEF TxNext, Step

\* Whatever other clients do, and whatever fails: every step begins a call or
\* brings one nearer to its end.  A call of a client that is not killed is over
\* after ten of its steps, one that waits in vain for the lock among them.
THEOREM CallsBounded == TxSpec => CallsNeverSetBack
<1>1. TxInit => Pending
  BY DEF TxInit, Pending
<1>2. ASSUME Inv, Pending, [TxNext]_txVars
      PROVE  Pending' /\ [CallAdvances]_txVars
  <2>1. CASE TxNext
    BY <1>2, <2>1, StepAdvances DEF Inv
  <2>2. CASE UNCHANGED txVars
    BY <1>2, <2>2 DEF Pending, txVars, local
  <2>3. QED
    BY <1>2, <2>1, <2>2
<1>3. QED
  BY <1>1, <1>2, SpecInv, PTL DEF TxSpec, CallsNeverSetBack
=============================================================================
