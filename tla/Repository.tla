----------------------------- MODULE Repository -----------------------------
(***************************************************************************)
(* SQLiteRepository (sqlite.py) as functions of a database value.  For     *)
(* every operation there is an outcome, the operation's chain of early     *)
(* returns in the order of the code, and an effect, the database its       *)
(* transaction leaves behind: unchanged unless the outcome is one that     *)
(* commits a change.  Outcomes carry the name of the exception raised;     *)
(* "created", "replayed" and "done" are the normal returns.                *)
(*                                                                         *)
(* A table is a function from its primary key to the rest of the row, so a *)
(* second row with the same key cannot be stored; an INSERT that would do  *)
(* so is an IntegrityError, which the code reports as                      *)
(* RepositoryCorruption.                                                   *)
(***************************************************************************)
EXTENDS Domain

Key == Scopes \X Ids

EventRow ==
    [source: Sources, occurred_at: 0..MaxTime, trust: TrustLevel,
     metadata: Metadata, content_hash: {ContentHash(c) : c \in Contents},
     ingested_at: 0..MaxTime, raw_expires_at: 0..MaxTime,
     clear_for: 1..MaxInteger, recall_for: 1..MaxInteger,
     status: {"active", "expired"}]

MemoryRow ==
    [content: Contents, dependency_fingerprint: Fingerprint, kind: Kinds,
     trust: TrustLevel, created_at: 0..MaxTime, clear_until: 0..MaxTime,
     recall_until: 0..MaxTime, status: MemoryStatus, metadata: Metadata]

Snapshot ==
    [trust: TrustLevel, clear_for: 1..MaxInteger, recall_for: 1..MaxInteger]

AuditAction == {"ingest", "materialize", "expire"} \cup GovernanceAction

AuditReason == {"event ingested", "memory materialized", "raw content expired",
                "governance requested"}

\* An audit record without its uuid and its timestamp.
AuditRow ==
    [scope: Scopes, action: AuditAction, entity_type: EntityType,
     entity_id: Ids, reason: AuditReason]

EmptyTable == [key \in {} |-> key]

\* The database _initialize_schema creates in an empty file.
EmptyDb ==
    [raw_events |-> EmptyTable, raw_event_content |-> EmptyTable,
     memories |-> EmptyTable, memory_sources |-> EmptyTable,
     tombstones |-> EmptyTable, audit_log |-> EmptyTable]

Row(key, row) == [k \in {key} |-> row]
Insert(table, rows) ==
    [k \in DOMAIN table \cup DOMAIN rows |->
        IF k \in DOMAIN rows THEN rows[k] ELSE table[k]]
Delete(table, keys) == Restrict(table, DOMAIN table \ keys)

\* audit_log counts equal records (tlapm does not load the Bags module).
Copies(log, record) == IF record \in DOMAIN log THEN log[record] ELSE 0
LogAudit(log, records) ==
    [r \in DOMAIN log \cup records |->
        Copies(log, r) + (IF r \in records THEN 1 ELSE 0)]

-----------------------------------------------------------------------------
(* Rows read back: what a reader accepts, anything else is corruption.     *)

\* Mutation: a receipt is accepted only while its body is there.
ReceiptOfLiveBody(d, key) ==
    key \in DOMAIN d.raw_event_content /\ d.raw_events[key].status = "active"

\* _receipt, with the checks of RawEventReceipt's constructor.
ReceiptOk(d, key) ==
    LET row == d.raw_events[key]
    IN  /\ row.status \in {"active", "expired"}
        /\ (key \in DOMAIN d.raw_event_content) <=> (row.status = "active")
        /\ 0 < row.clear_for
        /\ row.clear_for <= row.recall_for

SnapshotOf(row) ==
    [trust |-> row.trust, clear_for |-> row.clear_for,
     recall_for |-> row.recall_for]

\* The event ids of a memory's memory_sources rows.
Lineage(d, scope, memory_id) ==
    {e \in Ids : <<scope, memory_id, e>> \in DOMAIN d.memory_sources}

\* Mutation: the most permissive source decides.
LongestDeadline(created_at, periods) == created_at + Max(periods)

\* created_at plus the shortest period among the sources.
Deadline(created_at, periods) == created_at + Min(periods)

\* Mutation: the stored fingerprint is not compared with the lineage.
RecordWithoutFingerprint(d, scope, memory_id) ==
    LET row == d.memories[<<scope, memory_id>>]
        sources == Lineage(d, scope, memory_id)
        snapshot(e) == d.memory_sources[<<scope, memory_id, e>>]
    IN  /\ sources # {}
        /\ \A e \in sources : row.trust <= snapshot(e).trust
        /\ row.clear_until =
             Deadline(row.created_at, {snapshot(e).clear_for : e \in sources})
        /\ row.recall_until =
             Deadline(row.created_at, {snapshot(e).recall_for : e \in sources})

\* Mutation: stored deadlines are believed as long as they are in order.
RecordWithoutDeadlines(d, scope, memory_id) ==
    LET row == d.memories[<<scope, memory_id>>]
        sources == Lineage(d, scope, memory_id)
    IN  /\ sources # {}
        /\ \A e \in sources :
             /\ <<scope, e>> \in DOMAIN d.raw_events
             /\ row.trust <= d.memory_sources[<<scope, memory_id, e>>].trust
        /\ row.dependency_fingerprint =
             DependencyFingerprint(scope, row.kind, sources)
        /\ row.clear_until <= row.recall_until

\* _memory_record: only the snapshots in memory_sources are compared, and the
\* receipts must merely exist.
MemoryRecordOk(d, scope, memory_id) ==
    LET row == d.memories[<<scope, memory_id>>]
        sources == Lineage(d, scope, memory_id)
        snapshot(e) == d.memory_sources[<<scope, memory_id, e>>]
    IN  /\ sources # {}
        /\ \A e \in sources :
             /\ <<scope, e>> \in DOMAIN d.raw_events
             /\ 0 < snapshot(e).clear_for
             /\ snapshot(e).clear_for <= snapshot(e).recall_for
             /\ row.trust <= snapshot(e).trust
        /\ row.dependency_fingerprint =
             DependencyFingerprint(scope, row.kind, sources)
        /\ row.clear_until =
             Deadline(row.created_at, {snapshot(e).clear_for : e \in sources})
        /\ row.recall_until =
             Deadline(row.created_at, {snapshot(e).recall_for : e \in sources})
        /\ row.clear_until <= row.recall_until
        /\ row.status \in MemoryStatus

\* _lineage_fingerprint compared with the stored fingerprint, as
\* _govern_memory and _delete_raw_event do: here the snapshots must equal the
\* receipts.
LineageOk(d, scope, memory_id) ==
    LET row == d.memories[<<scope, memory_id>>]
        sources == Lineage(d, scope, memory_id)
    IN  /\ sources # {}
        /\ \A e \in sources :
             /\ <<scope, e>> \in DOMAIN d.raw_events
             /\ ReceiptOk(d, <<scope, e>>)
             /\ d.memory_sources[<<scope, memory_id, e>>] =
                  SnapshotOf(d.raw_events[<<scope, e>>])
        /\ row.dependency_fingerprint =
             DependencyFingerprint(scope, row.kind, sources)

\* _tombstone_identity: a raw event has no fingerprint, a memory has one.
TombstoneOk(d, t) ==
    IF t[2] = "raw_event" THEN d.tombstones[t] = Null
                          ELSE d.tombstones[t] \in Fingerprint

\* Mutation: the query lacks its scope columns.
TombstonesOfAnyScope(d, scope, id) == {t \in DOMAIN d.tombstones : t[3] = id}

\* Mutation: tombstones are looked up by identifier only.
NoFingerprintLookup(d, scope, fingerprint) == {}

\* _find_tombstones, by scope and identifier or by scope and fingerprint.
TombstonesById(d, scope, id) ==
    {t \in DOMAIN d.tombstones : t[1] = scope /\ t[3] = id}
TombstonesByFingerprint(d, scope, fingerprint) ==
    {t \in DOMAIN d.tombstones :
        t[1] = scope /\ d.tombstones[t] = fingerprint}
Corrupt(d, tombstones) == \E t \in tombstones : ~TombstoneOk(d, t)

\* _audit_record: the entity types and the reason allowed for each action.
AuditPolicy(action) ==
    CASE action = "ingest" -> [types |-> {"raw_event"}, reason |-> "event ingested"]
      [] action = "materialize" -> [types |-> {"memory"}, reason |-> "memory materialized"]
      [] action = "expire" -> [types |-> {"raw_event"}, reason |-> "raw content expired"]
      [] action = "delete" -> [types |-> EntityType, reason |-> "governance requested"]
      [] OTHER -> [types |-> {"memory"}, reason |-> "governance requested"]

AuditRecordOk(row) ==
    /\ row.action \in AuditAction
    /\ row.entity_type \in AuditPolicy(row.action).types
    /\ row.reason = AuditPolicy(row.action).reason

AuditRecord(scope, action, entity_type, entity_id, reason) ==
    [scope |-> scope, action |-> action, entity_type |-> entity_type,
     entity_id |-> entity_id, reason |-> reason]
-----------------------------------------------------------------------------
(* ingest_event                                                            *)

EventKey(draft) == <<draft.scope, draft.event_id>>

NewEventRow(draft, ingested_at) ==
    [source |-> draft.source, occurred_at |-> draft.occurred_at,
     trust |-> draft.trust, metadata |-> draft.metadata,
     content_hash |-> ContentHash(draft.content),
     ingested_at |-> ingested_at, raw_expires_at |-> RawExpiresAt(draft),
     clear_for |-> draft.clear_for, recall_for |-> draft.recall_for,
     status |-> "active"]

\* Python's == on metadata: the JSON type is not compared.
SameMetadata(m, n) == m.value = n.value

\* _is_identical: neither the clock nor the body itself is compared.
IsIdentical(row, draft) ==
    /\ row.source = draft.source
    /\ row.occurred_at = draft.occurred_at
    /\ row.trust = draft.trust
    /\ row.content_hash = ContentHash(draft.content)
    /\ row.raw_expires_at = RawExpiresAt(draft)
    /\ row.clear_for = draft.clear_for
    /\ row.recall_for = draft.recall_for
    /\ SameMetadata(row.metadata, draft.metadata)

\* Mutation: the column takes integers of any size.
AnySize(draft) == TRUE

\* A period above MaxInteger fails when it is bound to the INSERT.
Storable(draft) == draft.clear_for <= MaxInteger /\ draft.recall_for <= MaxInteger

IngestOutcome(d, draft) ==
    LET key == EventKey(draft)
        tombstones == TombstonesById(d, draft.scope, draft.event_id)
    IN  IF RawExpiresAt(draft) > MaxTime THEN "ValidationError"
        ELSE IF Corrupt(d, tombstones) THEN "RepositoryCorruption"
        ELSE IF \E t \in tombstones : t[2] = "raw_event" THEN "EntityDeleted"
        ELSE IF key \in DOMAIN d.raw_events
             THEN IF ~ReceiptOk(d, key) THEN "RepositoryCorruption"
                  ELSE IF IsIdentical(d.raw_events[key], draft) THEN "replayed"
                  ELSE "IdempotencyConflict"
        ELSE IF ~Storable(draft) THEN "OverflowError"
        ELSE IF key \in DOMAIN d.raw_event_content THEN "RepositoryCorruption"
        ELSE "created"

IngestEffect(d, draft, ingested_at) ==
    [d EXCEPT
        !.raw_events = Insert(@, Row(EventKey(draft), NewEventRow(draft, ingested_at))),
        !.raw_event_content = Insert(@, Row(EventKey(draft), draft.content)),
        !.audit_log = LogAudit(@, {AuditRecord(draft.scope, "ingest", "raw_event",
                                            draft.event_id, "event ingested")})]

-----------------------------------------------------------------------------
(* materialize_once                                                        *)

MemoryKey(draft) == <<draft.scope, draft.memory_id>>

\* _is_identical_memory.
IsIdenticalMemory(d, draft) ==
    LET row == d.memories[MemoryKey(draft)]
    IN  /\ row.content = draft.content
        /\ Lineage(d, draft.scope, draft.memory_id) = SourceIds(draft)
        /\ row.dependency_fingerprint = DraftFingerprint(draft)
        /\ row.kind = draft.kind
        /\ row.trust = draft.trust
        /\ row.created_at = draft.created_at
        /\ SameMetadata(row.metadata, draft.metadata)

\* One iteration of the loop over draft.source_event_ids.
SourceOutcome(d, scope, event_id) ==
    LET deleted == TombstonesById(d, scope, event_id)
    IN  IF <<scope, event_id>> \in DOMAIN d.raw_events
        THEN IF ReceiptOk(d, <<scope, event_id>>) THEN "ok"
                                                 ELSE "RepositoryCorruption"
        ELSE IF Corrupt(d, deleted) THEN "RepositoryCorruption"
        ELSE IF \E t \in deleted : t[2] = "raw_event" THEN "EntityDeleted"
        ELSE IF \E s \in Scopes : <<s, event_id>> \in DOMAIN d.raw_events
             THEN "ScopeMismatch"
        ELSE "EntityNotFound"

\* The loop stops at the first source, in the draft's order, that fails.
SourcesOutcome(d, draft) ==
    LET ids == draft.source_event_ids
        failing == {i \in DOMAIN ids : SourceOutcome(d, draft.scope, ids[i]) # "ok"}
    IN  IF failing = {} THEN "ok"
                        ELSE SourceOutcome(d, draft.scope, ids[Min(failing)])

SourceRows(d, draft) == {d.raw_events[<<draft.scope, e>>] : e \in SourceIds(draft)}
ClearUntil(d, draft) ==
    Deadline(draft.created_at, {row.clear_for : row \in SourceRows(d, draft)})
RecallUntil(d, draft) ==
    Deadline(draft.created_at, {row.recall_for : row \in SourceRows(d, draft)})

MaterializeOutcome(d, draft) ==
    LET key == MemoryKey(draft)
        byId == TombstonesById(d, draft.scope, draft.memory_id)
        byFingerprint ==
            TombstonesByFingerprint(d, draft.scope, DraftFingerprint(draft))
    IN  IF Corrupt(d, byId) THEN "RepositoryCorruption"
        ELSE IF \E t \in byId : t[2] = "memory" THEN "EntityDeleted"
        ELSE IF Corrupt(d, byFingerprint) THEN "RepositoryCorruption"
        ELSE IF \E t \in byFingerprint : t[2] = "memory" THEN "EntityDeleted"
        ELSE IF key \in DOMAIN d.memories
             THEN IF ~MemoryRecordOk(d, draft.scope, draft.memory_id)
                  THEN "RepositoryCorruption"
                  ELSE IF IsIdenticalMemory(d, draft) THEN "replayed"
                  ELSE "IdempotencyConflict"
        ELSE IF SourcesOutcome(d, draft) # "ok" THEN SourcesOutcome(d, draft)
        ELSE IF \E row \in SourceRows(d, draft) : draft.trust > row.trust
             THEN "TrustEscalation"
        ELSE IF ClearUntil(d, draft) > MaxTime \/ RecallUntil(d, draft) > MaxTime
             THEN "ValidationError"
        ELSE IF Lineage(d, draft.scope, draft.memory_id) # {}
             THEN "RepositoryCorruption"
        ELSE "created"

NewMemoryRow(d, draft) ==
    [content |-> draft.content,
     dependency_fingerprint |-> DraftFingerprint(draft),
     kind |-> draft.kind, trust |-> draft.trust,
     created_at |-> draft.created_at, clear_until |-> ClearUntil(d, draft),
     recall_until |-> RecallUntil(d, draft), status |-> "active",
     metadata |-> draft.metadata]

NewLineage(d, draft) ==
    [edge \in {<<draft.scope, draft.memory_id, e>> : e \in SourceIds(draft)} |->
        SnapshotOf(d.raw_events[<<edge[1], edge[3]>>])]

MaterializeEffect(d, draft) ==
    [d EXCEPT
        !.memories = Insert(@, Row(MemoryKey(draft), NewMemoryRow(d, draft))),
        !.memory_sources = Insert(@, NewLineage(d, draft)),
        !.audit_log = LogAudit(@, {AuditRecord(draft.scope, "materialize", "memory",
                                            draft.memory_id, "memory materialized")})]
-----------------------------------------------------------------------------
(* govern                                                                  *)

\* _raise_missing_entity: here tombstones of every scope are read.
MissingEntity(d, c) ==
    LET tombstones == {t \in DOMAIN d.tombstones : t[3] = c.entity_id}
        table == IF c.entity_type = "raw_event" THEN d.raw_events ELSE d.memories
        known == {t[1] : t \in {u \in tombstones : u[2] = c.entity_type}}
    IN  IF Corrupt(d, tombstones) THEN "RepositoryCorruption"
        ELSE IF c.scope \in known THEN "EntityDeleted"
        ELSE IF \/ \E s \in Scopes : <<s, c.entity_id>> \in DOMAIN table
                \/ known # {}
             THEN "ScopeMismatch"
        ELSE "EntityNotFound"

\* Mutation: a memory survives the loss of one of several sources.
SoleDependents(d, scope, event_id) ==
    {m \in Ids : Lineage(d, scope, m) = {event_id}}

\* Mutation: the cascade overlooks sealed memories.
ActiveDependents(d, scope, event_id) ==
    {m \in Ids : /\ <<scope, m, event_id>> \in DOMAIN d.memory_sources
                 /\ d.memories[<<scope, m>>].status = "active"}

\* The memories that have the event among their sources.
Dependents(d, scope, event_id) ==
    {m \in Ids : <<scope, m, event_id>> \in DOMAIN d.memory_sources}

\* Mutation: only the named entity gets a tombstone.
OwnTombstone(d, c) ==
    [t \in {<<c.scope, c.entity_type, c.entity_id>>} |->
        IF t[2] = "memory"
        THEN d.memories[<<t[1], t[3]>>].dependency_fingerprint ELSE Null]

\* The rows _insert_tombstone adds for one command: one for the entity and,
\* for a raw event, one for every dependent memory.
ErasedMemories(d, c) ==
    IF c.entity_type = "memory" THEN {c.entity_id}
                                ELSE Dependents(d, c.scope, c.entity_id)
NewTombstones(d, c) ==
    [t \in {<<c.scope, "memory", m>> : m \in ErasedMemories(d, c)}
             \cup (IF c.entity_type = "raw_event"
                   THEN {<<c.scope, "raw_event", c.entity_id>>} ELSE {}) |->
        IF t[2] = "memory"
        THEN d.memories[<<t[1], t[3]>>].dependency_fingerprint ELSE Null]

\* Inserting a tombstone whose primary key is taken is an IntegrityError.
TombstoneClash(d, c) == DOMAIN NewTombstones(d, c) \cap DOMAIN d.tombstones # {}

\* _govern_memory.
GovernMemoryOutcome(d, c) ==
    LET key == <<c.scope, c.entity_id>>
        status == d.memories[key].status
    IN  IF key \notin DOMAIN d.memories THEN MissingEntity(d, c)
        ELSE IF \/ status \notin MemoryStatus
                \/ ~LineageOk(d, c.scope, c.entity_id)
             THEN "RepositoryCorruption"
        ELSE IF \/ c.action = "seal" /\ status # "active"
                \/ c.action = "restore" /\ status # "sealed"
             THEN "InvalidTransition"
        ELSE IF c.action \in {"forget", "delete"} /\ TombstoneClash(d, c)
             THEN "RepositoryCorruption"
        ELSE "done"

\* _delete_raw_event.
DeleteRawEventOutcome(d, c) ==
    LET key == <<c.scope, c.entity_id>>
    IN  IF key \notin DOMAIN d.raw_events THEN MissingEntity(d, c)
        ELSE IF \/ ~ReceiptOk(d, key)
                \/ \E m \in Dependents(d, c.scope, c.entity_id) :
                     \/ <<c.scope, m>> \notin DOMAIN d.memories
                     \/ ~LineageOk(d, c.scope, m)
             THEN "RepositoryCorruption"
        ELSE IF TombstoneClash(d, c) THEN "RepositoryCorruption"
        ELSE "done"

\* The service rejects any other action on a raw event before the repository
\* sees it.
GovernOutcome(d, c) ==
    IF c.entity_type = "memory" THEN GovernMemoryOutcome(d, c)
    ELSE IF c.action # "delete" THEN "ValidationError"
    ELSE DeleteRawEventOutcome(d, c)

\* Mutation: a change of status also renews the memory.
RenewWithStatus(d, c, status) ==
    [d EXCEPT !.memories[<<c.scope, c.entity_id>>].status = status,
              !.memories[<<c.scope, c.entity_id>>].recall_until = MaxTime]

SetStatus(d, c, status) ==
    [d EXCEPT !.memories[<<c.scope, c.entity_id>>].status = status]

\* Mutation: the edges of the erased memories stay behind.
EraseWithoutEdges(d, c) ==
    LET events == IF c.entity_type = "raw_event"
                  THEN {<<c.scope, c.entity_id>>} ELSE {}
    IN  [d EXCEPT
            !.memories = Delete(@, {<<c.scope, m>> : m \in ErasedMemories(d, c)}),
            !.raw_event_content = Delete(@, events),
            !.raw_events = Delete(@, events),
            !.tombstones = Insert(@, NewTombstones(d, c))]

\* The DELETEs and tombstone INSERTs of forget, delete and the cascade.
Erase(d, c) ==
    LET erased == ErasedMemories(d, c)
        events == IF c.entity_type = "raw_event"
                  THEN {<<c.scope, c.entity_id>>} ELSE {}
    IN  [d EXCEPT
            !.memory_sources =
                Delete(@, {k \in DOMAIN @ : k[1] = c.scope /\ k[2] \in erased}),
            !.memories = Delete(@, {<<c.scope, m>> : m \in erased}),
            !.raw_event_content = Delete(@, events),
            !.raw_events = Delete(@, events),
            !.tombstones = Insert(@, NewTombstones(d, c))]

GovernanceAudit(c) ==
    AuditRecord(c.scope, c.action, c.entity_type, c.entity_id, "governance requested")

GovernEffect(d, c) ==
    LET governed == CASE c.action = "seal" -> SetStatus(d, c, "sealed")
                      [] c.action = "restore" -> SetStatus(d, c, "active")
                      [] OTHER -> Erase(d, c)
    IN  [governed EXCEPT !.audit_log = LogAudit(@, {GovernanceAudit(c)})]

-----------------------------------------------------------------------------
(* expire_raw_content, recall_candidates and audit                         *)

\* Every receipt of every scope is read and validated before any is expired.
ExpireOutcome(d) ==
    IF \E key \in DOMAIN d.raw_events : ~ReceiptOk(d, key)
    THEN "RepositoryCorruption" ELSE "done"

\* Mutation: receipts without a body are expired again.
DueReceipts(d, as_of) ==
    {key \in DOMAIN d.raw_events : d.raw_events[key].raw_expires_at <= as_of}

Expirable(d, as_of) ==
    {key \in DOMAIN d.raw_events :
        key \in DOMAIN d.raw_event_content /\ d.raw_events[key].raw_expires_at <= as_of}

\* Mutation: the bodies go and the receipts keep their status.
DropBodies(d, as_of) ==
    [d EXCEPT !.raw_event_content = Delete(@, Expirable(d, as_of))]

ExpireEffect(d, as_of) ==
    LET keys == Expirable(d, as_of)
    IN  [d EXCEPT
            !.raw_event_content = Delete(@, keys),
            !.raw_events = [key \in DOMAIN @ |->
                IF key \in keys THEN [@[key] EXCEPT !.status = "expired"] ELSE @[key]],
            !.audit_log = LogAudit(@, {AuditRecord(key[1], "expire", "raw_event",
                                   key[2], "raw content expired") : key \in keys})]

MemoriesIn(d, scope) == {m \in Ids : <<scope, m>> \in DOMAIN d.memories}

\* Mutation: the query drops sealed memories before they are validated.
ActiveRecallOutcome(d, scope) ==
    IF \E m \in MemoriesIn(d, scope) :
         /\ d.memories[<<scope, m>>].status = "active"
         /\ ~MemoryRecordOk(d, scope, m)
    THEN "RepositoryCorruption" ELSE "done"

\* One bad memory or one edge without a memory fails the whole scope.
RecallOutcome(d, scope) ==
    IF \/ \E m \in MemoriesIn(d, scope) : ~MemoryRecordOk(d, scope, m)
       \/ {k[2] : k \in {e \in DOMAIN d.memory_sources : e[1] = scope}}
            # MemoriesIn(d, scope)
    THEN "RepositoryCorruption" ELSE "done"

\* The candidates; an empty kinds means every kind.
RecallCandidates(d, scope, as_of, kinds) ==
    {m \in MemoriesIn(d, scope) :
        LET row == d.memories[<<scope, m>>]
        IN  /\ row.status = "active"
            /\ row.recall_until > as_of
            /\ kinds = {} \/ row.kind \in kinds}

AuditOutcome(d, scope) ==
    IF \E row \in DOMAIN d.audit_log : row.scope = scope /\ ~AuditRecordOk(row)
    THEN "RepositoryCorruption" ELSE "done"
=============================================================================
