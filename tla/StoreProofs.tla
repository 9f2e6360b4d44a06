---------------------------- MODULE StoreProofs ----------------------------
(***************************************************************************)
(* Proofs about Store for every value of its constants.  Every operation   *)
(* has a lemma that its effect keeps a well-typed, consistent database so; *)
(* the invariants the runs check follow from these two facts.              *)
(***************************************************************************)
EXTENDS Store, WellFoundedInduction, TLAPS

-----------------------------------------------------------------------------
(* Tables.                                                                 *)

\* Inserting rows keeps a table well-typed.
LEMMA InsertTable ==
    ASSUME NEW K, NEW R, NEW table, NEW rows,
           IsTable(table, K, R), IsTable(rows, K, R)
    PROVE  /\ IsTable(Insert(table, rows), K, R)
           /\ DOMAIN Insert(table, rows) = DOMAIN table \cup DOMAIN rows
           /\ \A k \in DOMAIN rows : Insert(table, rows)[k] = rows[k]
           /\ \A k \in DOMAIN table \ DOMAIN rows : Insert(table, rows)[k] = table[k]
BY DEF IsTable, Insert

\* Inserting one row: the form every INSERT of a single row has.
LEMMA InsertRow ==
    ASSUME NEW K, NEW R, NEW table, NEW k \in K, NEW r \in R, IsTable(table, K, R)
    PROVE  /\ IsTable(Insert(table, Row(k, r)), K, R)
           /\ DOMAIN Insert(table, Row(k, r)) = DOMAIN table \cup {k}
           /\ Insert(table, Row(k, r))[k] = r
           /\ \A x \in DOMAIN table \ {k} : Insert(table, Row(k, r))[x] = table[x]
BY DEF IsTable, Row, Insert

\* Deleting rows keeps a table well-typed and the other rows as they were.
LEMMA DeleteTable ==
    ASSUME NEW K, NEW R, NEW table, NEW keys, IsTable(table, K, R)
    PROVE  /\ IsTable(Delete(table, keys), K, R)
           /\ DOMAIN Delete(table, keys) = DOMAIN table \ keys
           /\ \A k \in DOMAIN table \ keys : Delete(table, keys)[k] = table[k]
BY DEF IsTable, Delete, Restrict

\* The audit log is appended to.
LEMMA LogTable ==
    ASSUME NEW K, NEW log, NEW records \in SUBSET K, IsTable(log, K, Nat \ {0})
    PROVE  /\ IsTable(LogAudit(log, records), K, Nat \ {0})
           /\ DOMAIN LogAudit(log, records) = DOMAIN log \cup records
BY DEF IsTable, LogAudit, Copies

-----------------------------------------------------------------------------
(* The least period.                                                       *)
\* A non-empty set of naturals has a least element, which Min returns.
LEMMA MinNat ==
    ASSUME NEW S \in SUBSET Nat, S # {}
    PROVE  Min(S) \in S /\ \A x \in S : Min(S) <= x
<1>1. \E x \in S : \A y \in S : ~(<<y, x>> \in OpToRel(<, Nat))
  BY NatLessThanWellFounded, WFMin
<1>2. \A x, y \in Nat : x < y => <<x, y>> \in OpToRel(<, Nat)
  <2>1. OpToRel(<, Nat) = {p \in Nat \X Nat : p[1] < p[2]}
    BY DEF OpToRel
  <2>2. QED
    BY <2>1
<1>3. \E x \in S : \A y \in S : x <= y
  <2>1. PICK x \in S : \A y \in S : ~(<<y, x>> \in OpToRel(<, Nat))
    BY <1>1
  <2>2. \A y \in S : ~(y < x)
    BY <2>1, <1>2
  <2>3. QED
    BY <2>2
<1>4. QED
  BY <1>3 DEF Min

-----------------------------------------------------------------------------
(* Rows no operation touched.                                              *)

\* A memory stays acceptable to every reader when its row changes at most in
\* its status and its edges and the receipts behind them stay as they were.
LEMMA MemoryFrame ==
    ASSUME NEW d, NEW e, NEW s, NEW m,
           MemoryRecordOk(d, s, m), LineageOk(d, s, m),
           e.memories[<<s, m>>].status \in MemoryStatus,
           \A f \in {"dependency_fingerprint", "kind", "trust", "created_at",
                     "clear_until", "recall_until"} :
             e.memories[<<s, m>>][f] = d.memories[<<s, m>>][f],
           Lineage(e, s, m) = Lineage(d, s, m),
           \A x \in Lineage(d, s, m) :
             /\ e.memory_sources[<<s, m, x>>] = d.memory_sources[<<s, m, x>>]
             /\ <<s, x>> \in DOMAIN e.raw_events
             /\ ReceiptOk(e, <<s, x>>)
             /\ SnapshotOf(e.raw_events[<<s, x>>]) = SnapshotOf(d.raw_events[<<s, x>>])
    PROVE  MemoryRecordOk(e, s, m) /\ LineageOk(e, s, m)
<1> DEFINE sources == Lineage(d, s, m)
           clear(x) == {x.memory_sources[<<s, m, y>>].clear_for : y \in sources}
           recall(x) == {x.memory_sources[<<s, m, y>>].recall_for : y \in sources}
<1>1. clear(e) = clear(d) /\ recall(e) = recall(d)
  OBVIOUS
<1>2. MemoryRecordOk(e, s, m)
  BY <1>1 DEF MemoryRecordOk
<1>3. LineageOk(e, s, m)
  BY DEF LineageOk
<1>4. QED
  BY <1>2, <1>3

-----------------------------------------------------------------------------
(* ingest_event.                                                           *)

\* An accepted draft has a row of the right type.
LEMMA NewEventRowType ==
    ASSUME NEW draft \in EventDrafts, NEW now \in Clocks,
           RawExpiresAt(draft) <= MaxTime, Storable(draft)
    PROVE  /\ NewEventRow(draft, now) \in EventRow
           /\ EventKey(draft) \in Key
           /\ draft.content \in Contents
           /\ draft.scope \in Scopes /\ draft.event_id \in Ids
           /\ draft.clear_for <= draft.recall_for
<1>1. draft \in RawEventDraft /\ draft.clear_for <= draft.recall_for
  BY EventDraftAssumption
<1>2. now \in 0..MaxTime
  BY InstantAssumption
<1>3. RawExpiresAt(draft) \in 0..MaxTime
  BY <1>1, BoundAssumption DEF RawExpiresAt, RawEventDraft, Duration
<1>4. draft.clear_for \in 1..MaxInteger /\ draft.recall_for \in 1..MaxInteger
  BY <1>1, BoundAssumption DEF RawEventDraft, Duration, Storable
<1>5. NewEventRow(draft, now) \in EventRow
  BY <1>1, <1>2, <1>3, <1>4 DEF RawEventDraft, NewEventRow, EventRow
<1>6. QED
  BY <1>1, <1>5 DEF EventKey, Key, RawEventDraft

\* The outcome "created" of an ingest, as the facts the effect relies on.
LEMMA IngestCreated ==
    ASSUME NEW d, NEW draft \in EventDrafts,
           IngestOutcome(d, draft) = "created"
    PROVE  /\ RawExpiresAt(draft) <= MaxTime
           /\ Storable(draft)
           /\ EventKey(draft) \notin DOMAIN d.raw_events
           /\ EventKey(draft) \notin DOMAIN d.raw_event_content
           /\ \A t \in DOMAIN d.tombstones :
                t[1] = draft.scope /\ t[3] = draft.event_id => t[2] # "raw_event"
<1>1. RawExpiresAt(draft) \in Nat
  BY EventDraftAssumption, BoundAssumption DEF RawExpiresAt, RawEventDraft, Duration
<1>2. QED
  BY <1>1, BoundAssumption DEF IngestOutcome, TombstonesById

\* An accepted ingest keeps every table well-typed.
LEMMA IngestType ==
    ASSUME NEW d, DbType(d), NEW draft \in EventDrafts, NEW now \in Clocks,
           IngestOutcome(d, draft) = "created",
           NEW e, e = IngestEffect(d, draft, now)
    PROVE  DbType(e)
<1> DEFINE record == AuditRecord(draft.scope, "ingest", "raw_event",
                                 draft.event_id, "event ingested")
<1>1. /\ RawExpiresAt(draft) <= MaxTime
      /\ Storable(draft)
  BY IngestCreated
<1>2. /\ NewEventRow(draft, now) \in EventRow
      /\ EventKey(draft) \in Key
      /\ draft.content \in Contents
      /\ draft.scope \in Scopes /\ draft.event_id \in Ids
  BY <1>1, NewEventRowType
<1>3. record \in AuditRow
  BY <1>2 DEF AuditRecord, AuditRow, AuditAction, AuditReason, EntityType
<1>4. IsTable(Insert(d.raw_events, Row(EventKey(draft), NewEventRow(draft, now))),
              Key, EventRow)
  BY <1>2, InsertRow DEF DbType
<1>5. IsTable(Insert(d.raw_event_content, Row(EventKey(draft), draft.content)),
              Key, Contents)
  BY <1>2, InsertRow DEF DbType
<1>6. IsTable(LogAudit(d.audit_log, {record}), AuditRow, Nat \ {0})
  BY <1>3, LogTable DEF DbType
<1>d. IsDb(d)
  BY DEF DbType
<1>7. /\ IsDb(e)
      /\ e.raw_events = Insert(d.raw_events,
                           Row(EventKey(draft), NewEventRow(draft, now)))
      /\ e.raw_event_content = Insert(d.raw_event_content,
                                  Row(EventKey(draft), draft.content))
      /\ e.memories = d.memories
      /\ e.memory_sources = d.memory_sources
      /\ e.tombstones = d.tombstones
      /\ e.audit_log = LogAudit(d.audit_log, {record})
  BY <1>d DEF IsDb, IngestEffect
<1>8. QED
  BY <1>4, <1>5, <1>6, <1>7 DEF DbType

\* An accepted ingest leaves every row acceptable to every reader.
LEMMA IngestConsistent ==
    ASSUME NEW d, DbType(d), DbConsistent(d),
           NEW draft \in EventDrafts, NEW now \in Clocks,
           IngestOutcome(d, draft) = "created",
           NEW e, e = IngestEffect(d, draft, now)
    PROVE  DbConsistent(e)
<1> DEFINE key == EventKey(draft)
           record == AuditRecord(draft.scope, "ingest", "raw_event",
                                 draft.event_id, "event ingested")
<1>1. /\ e.raw_events = Insert(d.raw_events, Row(key, NewEventRow(draft, now)))
      /\ e.raw_event_content = Insert(d.raw_event_content, Row(key, draft.content))
      /\ e.memories = d.memories
      /\ e.memory_sources = d.memory_sources
      /\ e.tombstones = d.tombstones
      /\ e.audit_log = LogAudit(d.audit_log, {record})
  BY DEF DbType, IsDb, IngestEffect
<1>2. /\ key \notin DOMAIN d.raw_events
      /\ key \notin DOMAIN d.raw_event_content
      /\ \A t \in DOMAIN d.tombstones :
           t[1] = draft.scope /\ t[3] = draft.event_id => t[2] # "raw_event"
      /\ Storable(draft) /\ RawExpiresAt(draft) <= MaxTime
  BY IngestCreated
<1>3. /\ DOMAIN e.raw_events = DOMAIN d.raw_events \cup {key}
      /\ e.raw_events[key] = NewEventRow(draft, now)
      /\ \A x \in DOMAIN d.raw_events : e.raw_events[x] = d.raw_events[x]
  BY <1>1, <1>2 DEF Insert, Row
<1>4. DOMAIN e.raw_event_content = DOMAIN d.raw_event_content \cup {key}
  BY <1>1 DEF Insert, Row
<1>5. \A x \in DOMAIN e.raw_events : ReceiptOk(e, x)
  <2>1. ReceiptOk(e, key)
    <3>1. draft.clear_for \in Nat /\ 0 < draft.clear_for
          /\ draft.clear_for <= draft.recall_for
      BY EventDraftAssumption DEF RawEventDraft, Duration
    <3>2. QED
      BY <3>1, <1>3, <1>4 DEF ReceiptOk, NewEventRow
  <2>2. ASSUME NEW x \in DOMAIN d.raw_events PROVE ReceiptOk(e, x)
    BY <1>2, <1>3, <1>4 DEF DbConsistent, ReceiptOk
  <2>3. QED
    BY <2>1, <2>2, <1>3
<1>6. DOMAIN e.raw_event_content \subseteq DOMAIN e.raw_events
  BY <1>3, <1>4 DEF DbConsistent
<1>7. ASSUME NEW m \in DOMAIN e.memories
      PROVE  MemoryRecordOk(e, m[1], m[2]) /\ LineageOk(e, m[1], m[2])
  <2>1. MemoryRecordOk(d, m[1], m[2]) /\ LineageOk(d, m[1], m[2])
    BY <1>1 DEF DbConsistent
  <2>2. Lineage(e, m[1], m[2]) = Lineage(d, m[1], m[2])
    BY <1>1 DEF Lineage
  <2>3. \A x \in Lineage(d, m[1], m[2]) : <<m[1], x>> \in DOMAIN d.raw_events
    BY <2>1 DEF LineageOk
  <2>4. \A x \in Lineage(d, m[1], m[2]) :
          /\ <<m[1], x>> \in DOMAIN e.raw_events
          /\ ReceiptOk(e, <<m[1], x>>)
          /\ e.raw_events[<<m[1], x>>] = d.raw_events[<<m[1], x>>]
    BY <2>3, <1>3, <1>5
  <2>5. e.memories[<<m[1], m[2]>>].status \in MemoryStatus
    BY <2>1, <1>1 DEF MemoryRecordOk
  <2>6. QED
    BY <1>1, <2>1, <2>2, <2>4, <2>5, MemoryFrame
<1>8. \A x \in DOMAIN e.memory_sources : <<x[1], x[2]>> \in DOMAIN e.memories
  BY <1>1 DEF DbConsistent
<1>9. ASSUME NEW t \in DOMAIN e.tombstones
      PROVE  /\ TombstoneOk(e, t)
             /\ <<t[1], t[3]>> \notin IF t[2] = "raw_event" THEN DOMAIN e.raw_events
                                                          ELSE DOMAIN e.memories
  <2>1. /\ TombstoneOk(d, t)
        /\ <<t[1], t[3]>> \notin IF t[2] = "raw_event" THEN DOMAIN d.raw_events
                                                     ELSE DOMAIN d.memories
    BY <1>1 DEF DbConsistent
  <2>2. t[2] = "raw_event" => <<t[1], t[3]>> # key
    BY <1>1, <1>2 DEF EventKey
  <2>3. QED
    BY <2>1, <2>2, <1>1, <1>3 DEF TombstoneOk
<1>10. \A r \in DOMAIN e.audit_log : AuditRecordOk(r)
  <2>1. AuditRecordOk(record)
    BY DEF AuditRecordOk, AuditRecord, AuditPolicy, AuditAction
  <2>2. QED
    BY <2>1, <1>1 DEF LogAudit, DbConsistent
<1>11. QED
  BY <1>5, <1>6, <1>7, <1>8, <1>9, <1>10 DEF DbConsistent

-----------------------------------------------------------------------------
(* materialize_once.                                                       *)

\* A draft names at least one source.
LEMMA DraftSources ==
    ASSUME NEW draft \in MemoryDrafts
    PROVE  /\ draft \in MemoryDraft
           /\ SourceIds(draft) \in SUBSET Ids
           /\ SourceIds(draft) # {}
<1>1. draft \in MemoryDraft /\ draft.source_event_ids # << >>
  BY MemoryDraftAssumption
<1>2. draft.source_event_ids \in Seq(Ids)
  BY <1>1 DEF MemoryDraft
<1>3. 1 \in DOMAIN draft.source_event_ids
  BY <1>1, <1>2
<1>4. \A i \in DOMAIN draft.source_event_ids : draft.source_event_ids[i] \in Ids
  BY <1>2
<1>5. SourceIds(draft) \in SUBSET Ids
  BY <1>4 DEF SourceIds
<1>6. draft.source_event_ids[1] \in SourceIds(draft)
  BY <1>3 DEF SourceIds
<1>7. QED
  BY <1>1, <1>5, <1>6

\* The loop over the sources succeeds only if every source does.
LEMMA SourcesFound ==
    ASSUME NEW d, NEW draft \in MemoryDrafts, SourcesOutcome(d, draft) = "ok"
    PROVE  \A x \in SourceIds(draft) :
             /\ <<draft.scope, x>> \in DOMAIN d.raw_events
             /\ ReceiptOk(d, <<draft.scope, x>>)
<1> DEFINE ids == draft.source_event_ids
           failing == {i \in DOMAIN ids : SourceOutcome(d, draft.scope, ids[i]) # "ok"}
<1>1. ids \in Seq(Ids)
  BY DraftSources DEF MemoryDraft
<1>2. failing \in SUBSET Nat
  BY <1>1
<1>3. failing = {}
  <2>1. SUFFICES ASSUME failing # {} PROVE FALSE
    OBVIOUS
  <2>2. Min(failing) \in failing
    BY <1>2, <2>1, MinNat
  <2>3. SourceOutcome(d, draft.scope, ids[Min(failing)]) = "ok"
    BY <2>1 DEF SourcesOutcome
  <2>4. QED
    BY <2>2, <2>3
<1>4. \A x \in SourceIds(draft) : SourceOutcome(d, draft.scope, x) = "ok"
  BY <1>3 DEF SourceIds
<1>5. QED
  BY <1>4 DEF SourceOutcome

\* The outcome "created" of a materialization, as the facts the effect relies on.
LEMMA MaterializeCreated ==
    ASSUME NEW d, NEW draft \in MemoryDrafts,
           MaterializeOutcome(d, draft) = "created"
    PROVE  /\ MemoryKey(draft) \notin DOMAIN d.memories
           /\ \A t \in DOMAIN d.tombstones :
                t[1] = draft.scope /\ t[3] = draft.memory_id => t[2] # "memory"
           /\ \A t \in DOMAIN d.tombstones :
                t[1] = draft.scope /\ t[2] = "memory" =>
                    d.tombstones[t] # DraftFingerprint(draft)
           /\ \A x \in SourceIds(draft) :
                /\ <<draft.scope, x>> \in DOMAIN d.raw_events
                /\ ReceiptOk(d, <<draft.scope, x>>)
           /\ \A row \in SourceRows(d, draft) : ~(draft.trust > row.trust)
           /\ ~(ClearUntil(d, draft) > MaxTime) /\ ~(RecallUntil(d, draft) > MaxTime)
           /\ Lineage(d, draft.scope, draft.memory_id) = {}
<1>1. SourcesOutcome(d, draft) = "ok"
  <2>1. SourcesOutcome(d, draft) # "created"
    BY DEF SourcesOutcome, SourceOutcome
  <2>2. QED
    BY <2>1 DEF MaterializeOutcome
<1>2. /\ MemoryKey(draft) \notin DOMAIN d.memories
      /\ ~(\E t \in TombstonesById(d, draft.scope, draft.memory_id) : t[2] = "memory")
      /\ ~(\E t \in TombstonesByFingerprint(d, draft.scope, DraftFingerprint(draft)) :
              t[2] = "memory")
      /\ ~(\E row \in SourceRows(d, draft) : draft.trust > row.trust)
      /\ ~(ClearUntil(d, draft) > MaxTime \/ RecallUntil(d, draft) > MaxTime)
      /\ Lineage(d, draft.scope, draft.memory_id) = {}
  BY <1>1 DEF MaterializeOutcome
<1>3. QED
  BY <1>1, <1>2, SourcesFound DEF TombstonesById, TombstonesByFingerprint

\* The deadlines of a new memory: the least periods exist, so they are instants
\* at which no source's period is exceeded, and clarity ends before recall.
LEMMA NewDeadlines ==
    ASSUME NEW d, NEW draft \in MemoryDrafts,
           MaterializeOutcome(d, draft) = "created",
           \A x \in SourceIds(draft) : d.raw_events[<<draft.scope, x>>] \in EventRow
    PROVE  /\ ClearUntil(d, draft) \in 0..MaxTime
           /\ RecallUntil(d, draft) \in 0..MaxTime
           /\ ClearUntil(d, draft) <= RecallUntil(d, draft)
<1> DEFINE rows == SourceRows(d, draft)
           clear == {row.clear_for : row \in rows}
           recall == {row.recall_for : row \in rows}
<1>1. /\ rows # {}
      /\ \A row \in rows : row \in EventRow /\ row.clear_for <= row.recall_for
  <2>1. \A x \in SourceIds(draft) :
          /\ <<draft.scope, x>> \in DOMAIN d.raw_events
          /\ ReceiptOk(d, <<draft.scope, x>>)
    BY MaterializeCreated
  <2>2. ASSUME NEW row \in rows
        PROVE  row \in EventRow /\ row.clear_for <= row.recall_for
    <3>1. PICK x \in SourceIds(draft) : row = d.raw_events[<<draft.scope, x>>]
      BY DEF SourceRows
    <3>2. row \in EventRow
      BY <3>1
    <3>3. QED
      BY <2>1, <3>1, <3>2 DEF ReceiptOk
  <2>3. QED
    BY <2>2, DraftSources DEF SourceRows
<1>2. /\ clear \in SUBSET Nat /\ clear # {}
      /\ recall \in SUBSET Nat /\ recall # {}
  BY <1>1, BoundAssumption DEF EventRow
<1>3. /\ Min(clear) \in clear /\ \A x \in clear : Min(clear) <= x
      /\ Min(recall) \in recall /\ \A x \in recall : Min(recall) <= x
  BY <1>2, MinNat
<1>4. Min(clear) \in Nat /\ Min(recall) \in Nat
  BY <1>2, <1>3
<1>5. Min(clear) <= Min(recall)
  <2>1. PICK row \in rows : Min(recall) = row.recall_for
    BY <1>3
  <2>2. row.clear_for \in clear /\ row.clear_for <= row.recall_for
    BY <1>1
  <2>3. row.clear_for \in Nat /\ row.recall_for \in Nat
    BY <1>1, BoundAssumption DEF EventRow
  <2>4. Min(clear) <= row.clear_for
    BY <1>3, <2>2
  <2>5. QED
    BY <2>1, <2>2, <2>3, <2>4, <1>4
<1>6. draft.created_at \in Nat
  BY DraftSources, BoundAssumption DEF MemoryDraft
<1>7. /\ ClearUntil(d, draft) = draft.created_at + Min(clear)
      /\ RecallUntil(d, draft) = draft.created_at + Min(recall)
  BY DEF ClearUntil, RecallUntil, Deadline
<1>8. ~(ClearUntil(d, draft) > MaxTime) /\ ~(RecallUntil(d, draft) > MaxTime)
  BY MaterializeCreated
<1>9. QED
  BY <1>4, <1>5, <1>6, <1>7, <1>8, BoundAssumption

\* One memory more, and one edge for each of its sources.
MemoryAdded(d, e, draft, s, i) ==
    /\ e.raw_events = d.raw_events /\ e.raw_event_content = d.raw_event_content
    /\ e.tombstones = d.tombstones
    /\ <<s, i>> \notin DOMAIN d.memories
    /\ DOMAIN e.memories = DOMAIN d.memories \cup {<<s, i>>}
    /\ e.memories[<<s, i>>] = NewMemoryRow(d, draft)
    /\ \A m \in DOMAIN d.memories : e.memories[m] = d.memories[m]
    /\ DOMAIN e.memory_sources =
         DOMAIN d.memory_sources \cup {<<s, i, x>> : x \in SourceIds(draft)}
    /\ \A x \in SourceIds(draft) :
         e.memory_sources[<<s, i, x>>] = SnapshotOf(d.raw_events[<<s, x>>])
    /\ \A k \in DOMAIN d.memory_sources :
         k \notin {<<s, i, x>> : x \in SourceIds(draft)} =>
           e.memory_sources[k] = d.memory_sources[k]
    /\ Lineage(e, s, i) = SourceIds(draft)

LEMMA MaterializeShape ==
    ASSUME NEW d, IsDb(d), NEW draft \in MemoryDrafts,
           MaterializeOutcome(d, draft) = "created",
           NEW e, e = MaterializeEffect(d, draft),
           NEW s, s = draft.scope, NEW i, i = draft.memory_id
    PROVE  MemoryAdded(d, e, draft, s, i)
<1> DEFINE row == NewMemoryRow(d, draft)
           record == AuditRecord(s, "materialize", "memory", i, "memory materialized")
<1>1. /\ IsDb(e)
      /\ e.raw_events = d.raw_events /\ e.raw_event_content = d.raw_event_content
      /\ e.memories = Insert(d.memories, Row(MemoryKey(draft), row))
      /\ e.memory_sources = Insert(d.memory_sources, NewLineage(d, draft))
      /\ e.tombstones = d.tombstones
      /\ e.audit_log = LogAudit(d.audit_log, {record})
  BY DEF IsDb, MaterializeEffect
<1> HIDE DEF row, record
<1>2. /\ MemoryKey(draft) \notin DOMAIN d.memories
      /\ Lineage(d, s, i) = {}
  BY MaterializeCreated
<1>3. <<s, i>> = MemoryKey(draft)
  BY DEF MemoryKey
<1>4. /\ DOMAIN e.memories = DOMAIN d.memories \cup {<<s, i>>}
      /\ e.memories[<<s, i>>] = row
      /\ \A m \in DOMAIN d.memories : e.memories[m] = d.memories[m]
  BY <1>1, <1>2, <1>3 DEF Insert, Row
<1>5. /\ DOMAIN e.memory_sources =
           DOMAIN d.memory_sources \cup {<<s, i, x>> : x \in SourceIds(draft)}
      /\ \A x \in SourceIds(draft) :
           e.memory_sources[<<s, i, x>>] = SnapshotOf(d.raw_events[<<s, x>>])
      /\ \A k \in DOMAIN d.memory_sources :
           k \notin {<<s, i, x>> : x \in SourceIds(draft)} =>
             e.memory_sources[k] = d.memory_sources[k]
  <2>1. /\ DOMAIN NewLineage(d, draft) = {<<s, i, x>> : x \in SourceIds(draft)}
        /\ \A x \in SourceIds(draft) :
             NewLineage(d, draft)[<<s, i, x>>] = SnapshotOf(d.raw_events[<<s, x>>])
    BY DEF NewLineage
  <2>2. QED
    BY <1>1, <2>1 DEF Insert
<1>6. Lineage(e, s, i) = SourceIds(draft)
  BY <1>2, <1>5, DraftSources DEF Lineage
<1>7. QED
  BY <1>1, <1>2, <1>3, <1>4, <1>5, <1>6 DEF row, MemoryAdded

\* The new memory is well-typed, and so are its edges.
LEMMA NewMemoryType ==
    ASSUME NEW d, NEW draft \in MemoryDrafts,
           MaterializeOutcome(d, draft) = "created",
           \A x \in SourceIds(draft) : d.raw_events[<<draft.scope, x>>] \in EventRow
    PROVE  /\ NewMemoryRow(d, draft) \in MemoryRow
           /\ IsTable(NewLineage(d, draft), Scopes \X Ids \X Ids, Snapshot)
           /\ MemoryKey(draft) \in Key
<1>1. draft \in MemoryDraft /\ SourceIds(draft) \in SUBSET Ids
  BY DraftSources
<1>2. NewMemoryRow(d, draft) \in MemoryRow
  <2>1. DraftFingerprint(draft) \in Fingerprint
    BY <1>1 DEF DraftFingerprint, DependencyFingerprint, Fingerprint, MemoryDraft
  <2>2. QED
    BY <1>1, <2>1, NewDeadlines DEF NewMemoryRow, MemoryRow, MemoryDraft, MemoryStatus
<1>3. IsTable(NewLineage(d, draft), Scopes \X Ids \X Ids, Snapshot)
  <2>1. \A x \in SourceIds(draft) :
          SnapshotOf(d.raw_events[<<draft.scope, x>>]) \in Snapshot
    BY DEF SnapshotOf, Snapshot, EventRow
  <2>2. \A x \in SourceIds(draft) :
          <<draft.scope, draft.memory_id, x>> \in Scopes \X Ids \X Ids
    BY <1>1 DEF MemoryDraft
  <2>3. QED
    BY <2>1, <2>2 DEF NewLineage, IsTable
<1>4. MemoryKey(draft) \in Key
  BY <1>1 DEF MemoryKey, Key, MemoryDraft
<1>5. QED
  BY <1>2, <1>3, <1>4

\* An accepted materialization keeps every table well-typed.
LEMMA MaterializeType ==
    ASSUME NEW d, DbType(d), NEW draft \in MemoryDrafts,
           MaterializeOutcome(d, draft) = "created",
           NEW e, e = MaterializeEffect(d, draft)
    PROVE  DbType(e)
<1> DEFINE record == AuditRecord(draft.scope, "materialize", "memory",
                                 draft.memory_id, "memory materialized")
<1>1. \A x \in SourceIds(draft) : d.raw_events[<<draft.scope, x>>] \in EventRow
  BY MaterializeCreated DEF DbType, IsTable
<1>2. /\ NewMemoryRow(d, draft) \in MemoryRow
      /\ IsTable(NewLineage(d, draft), Scopes \X Ids \X Ids, Snapshot)
      /\ MemoryKey(draft) \in Key
  BY <1>1, NewMemoryType
<1>3. record \in AuditRow
  BY DraftSources DEF AuditRecord, AuditRow, AuditAction, AuditReason, EntityType, MemoryDraft
<1>4. IsTable(Insert(d.memories, Row(MemoryKey(draft), NewMemoryRow(d, draft))),
              Key, MemoryRow)
  BY <1>2, InsertRow DEF DbType
<1>5. IsTable(Insert(d.memory_sources, NewLineage(d, draft)),
              Scopes \X Ids \X Ids, Snapshot)
  BY <1>2, InsertTable DEF DbType
<1>6. IsTable(LogAudit(d.audit_log, {record}), AuditRow, Nat \ {0})
  BY <1>3, LogTable DEF DbType
<1>7. /\ IsDb(e)
      /\ e.raw_events = d.raw_events
      /\ e.raw_event_content = d.raw_event_content
      /\ e.memories = Insert(d.memories, Row(MemoryKey(draft), NewMemoryRow(d, draft)))
      /\ e.memory_sources = Insert(d.memory_sources, NewLineage(d, draft))
      /\ e.tombstones = d.tombstones
      /\ e.audit_log = LogAudit(d.audit_log, {record})
  BY DEF DbType, IsDb, MaterializeEffect
<1>8. QED
  BY <1>4, <1>5, <1>6, <1>7 DEF DbType

\* The new memory passes the checks of recall.
LEMMA NewMemoryOk ==
    ASSUME NEW d, IsDb(d), NEW draft \in MemoryDrafts,
           MaterializeOutcome(d, draft) = "created",
           \A x \in SourceIds(draft) : d.raw_events[<<draft.scope, x>>] \in EventRow,
           NEW e, e = MaterializeEffect(d, draft),
           NEW s, s = draft.scope, NEW i, i = draft.memory_id
    PROVE  MemoryRecordOk(e, s, i)
<1> DEFINE row == NewMemoryRow(d, draft)
           snapshot(x) == e.memory_sources[<<s, i, x>>]
           source(x) == d.raw_events[<<s, x>>]
<1>1. /\ e.raw_events = d.raw_events
      /\ e.memories[<<s, i>>] = row
      /\ \A x \in SourceIds(draft) : snapshot(x) = SnapshotOf(source(x))
      /\ Lineage(e, s, i) = SourceIds(draft)
  BY MaterializeShape DEF MemoryAdded
<1>2. /\ \A x \in SourceIds(draft) :
           <<s, x>> \in DOMAIN d.raw_events /\ ReceiptOk(d, <<s, x>>)
      /\ \A r \in SourceRows(d, draft) : ~(draft.trust > r.trust)
  BY MaterializeCreated
<1>3. draft \in MemoryDraft /\ SourceIds(draft) # {}
  BY DraftSources
<1>4. /\ row.clear_until = Deadline(row.created_at,
                            {r.clear_for : r \in SourceRows(d, draft)})
      /\ row.recall_until = Deadline(row.created_at,
                             {r.recall_for : r \in SourceRows(d, draft)})
      /\ row.trust = draft.trust
      /\ row.dependency_fingerprint =
           DependencyFingerprint(s, row.kind, SourceIds(draft))
      /\ row.status \in MemoryStatus
  BY DEF NewMemoryRow, ClearUntil, RecallUntil, DraftFingerprint, MemoryStatus
<1>5. row.clear_until <= row.recall_until
  BY NewDeadlines DEF NewMemoryRow
<1>6. \A x \in SourceIds(draft) : source(x) \in EventRow
  OBVIOUS
<1>7. SourceRows(d, draft) = {source(x) : x \in SourceIds(draft)}
  BY DEF SourceRows
<1>8. \A x \in SourceIds(draft) :
        0 < source(x).clear_for /\ source(x).clear_for <= source(x).recall_for
  BY <1>2 DEF ReceiptOk
<1> HIDE DEF row, snapshot, source
<1>9. \A x \in SourceIds(draft) :
        /\ snapshot(x).clear_for = source(x).clear_for
        /\ snapshot(x).recall_for = source(x).recall_for
        /\ snapshot(x).trust = source(x).trust
  BY <1>1 DEF SnapshotOf
<1>10. /\ {snapshot(x).clear_for : x \in SourceIds(draft)} =
            {r.clear_for : r \in SourceRows(d, draft)}
       /\ {snapshot(x).recall_for : x \in SourceIds(draft)} =
            {r.recall_for : r \in SourceRows(d, draft)}
  BY <1>7, <1>9
<1>11. \A x \in SourceIds(draft) :
         /\ 0 < snapshot(x).clear_for
         /\ snapshot(x).clear_for <= snapshot(x).recall_for
  BY <1>8, <1>9
<1>12. ASSUME NEW x \in SourceIds(draft)
       PROVE  draft.trust <= snapshot(x).trust
  <2>1. source(x).trust \in 0..2 /\ draft.trust \in 0..2
    BY <1>3, <1>6 DEF EventRow, MemoryDraft, TrustLevel
  <2>2. ~(draft.trust > source(x).trust)
    BY <1>2, <1>7
  <2>3. QED
    BY <1>9, <2>1, <2>2
<1>13. \A x \in SourceIds(draft) : <<s, x>> \in DOMAIN e.raw_events
  BY <1>1, <1>2
<1>14. QED
  BY <1>1, <1>3, <1>4, <1>5, <1>10, <1>11, <1>12, <1>13 DEF MemoryRecordOk, snapshot

\* An accepted materialization leaves every row acceptable to every reader.
LEMMA MaterializeConsistent ==
    ASSUME NEW d, DbType(d), DbConsistent(d), NEW draft \in MemoryDrafts,
           MaterializeOutcome(d, draft) = "created",
           NEW e, e = MaterializeEffect(d, draft)
    PROVE  DbConsistent(e)
<1> DEFINE record == AuditRecord(draft.scope, "materialize", "memory",
                                 draft.memory_id, "memory materialized")
<1>0. PICK s, i : s = draft.scope /\ i = draft.memory_id
  OBVIOUS
<1>1. MemoryAdded(d, e, draft, s, i)
  BY <1>0, MaterializeShape DEF DbType
<1>2. e.audit_log = LogAudit(d.audit_log, {record})
  BY DEF DbType, IsDb, MaterializeEffect
<1>3. /\ \A t \in DOMAIN d.tombstones : t[1] = s /\ t[3] = i => t[2] # "memory"
      /\ \A x \in SourceIds(draft) :
           <<s, x>> \in DOMAIN d.raw_events /\ ReceiptOk(d, <<s, x>>)
  BY <1>0, MaterializeCreated
<1>4. MemoryRecordOk(e, s, i)
  <2>1. \A x \in SourceIds(draft) : d.raw_events[<<s, x>>] \in EventRow
    BY <1>3 DEF DbType, IsTable
  <2>2. QED
    BY <1>0, <2>1, NewMemoryOk DEF DbType
<1>5. PICK row : /\ e.memories[<<s, i>>] = row
                 /\ row.dependency_fingerprint =
                      DependencyFingerprint(s, row.kind, SourceIds(draft))
  BY <1>0, <1>1 DEF MemoryAdded, NewMemoryRow, DraftFingerprint
<1> HIDE DEF record
<1>6. \A x \in DOMAIN e.raw_events : ReceiptOk(e, x)
  BY <1>1 DEF MemoryAdded, DbConsistent, ReceiptOk
<1>7. LineageOk(e, s, i)
  <2>1. \A x \in SourceIds(draft) :
          /\ <<s, x>> \in DOMAIN e.raw_events
          /\ ReceiptOk(e, <<s, x>>)
          /\ e.memory_sources[<<s, i, x>>] = SnapshotOf(e.raw_events[<<s, x>>])
    BY <1>1, <1>3, <1>6 DEF MemoryAdded
  <2>2. QED
    BY <1>1, <1>5, <2>1, DraftSources DEF LineageOk, MemoryAdded
<1>8. ASSUME NEW m \in DOMAIN d.memories
      PROVE  MemoryRecordOk(e, m[1], m[2]) /\ LineageOk(e, m[1], m[2])
  <2>1. MemoryRecordOk(d, m[1], m[2]) /\ LineageOk(d, m[1], m[2])
    BY DEF DbConsistent
  <2>2. m = <<m[1], m[2]>> /\ m # <<s, i>>
    <3>1. m = <<m[1], m[2]>>
      BY DEF DbType, IsTable, Key
    <3>2. m # <<s, i>>
      BY <1>1 DEF MemoryAdded
    <3>3. QED
      BY <3>1, <3>2
  <2>3. \A x : <<m[1], m[2], x>> \notin {<<s, i, y>> : y \in SourceIds(draft)}
    BY <2>2
  <2>4. Lineage(e, m[1], m[2]) = Lineage(d, m[1], m[2])
    BY <1>1, <2>3 DEF Lineage, MemoryAdded
  <2>5. \A x \in Lineage(d, m[1], m[2]) :
          /\ e.memory_sources[<<m[1], m[2], x>>] = d.memory_sources[<<m[1], m[2], x>>]
          /\ <<m[1], x>> \in DOMAIN e.raw_events
          /\ ReceiptOk(e, <<m[1], x>>)
          /\ e.raw_events[<<m[1], x>>] = d.raw_events[<<m[1], x>>]
    BY <1>1, <1>6, <2>1, <2>3 DEF Lineage, LineageOk, MemoryAdded
  <2>6. e.memories[<<m[1], m[2]>>] = d.memories[<<m[1], m[2]>>]
    BY <1>1, <2>2 DEF MemoryAdded
  <2>7. e.memories[<<m[1], m[2]>>].status \in MemoryStatus
    BY <2>1, <2>6 DEF MemoryRecordOk
  <2>8. QED
    BY <2>1, <2>4, <2>5, <2>6, <2>7, MemoryFrame
<1>9. \A m \in DOMAIN e.memories :
        MemoryRecordOk(e, m[1], m[2]) /\ LineageOk(e, m[1], m[2])
  BY <1>1, <1>4, <1>7, <1>8 DEF MemoryAdded
<1>10. \A x \in DOMAIN e.memory_sources : <<x[1], x[2]>> \in DOMAIN e.memories
  <2>1. \A x \in DOMAIN d.memory_sources : <<x[1], x[2]>> \in DOMAIN e.memories
    BY <1>1 DEF DbConsistent, MemoryAdded
  <2>2. \A x \in {<<s, i, y>> : y \in SourceIds(draft)} : <<x[1], x[2]>> = <<s, i>>
    OBVIOUS
  <2>3. QED
    BY <1>1, <2>1, <2>2 DEF MemoryAdded
<1>11. ASSUME NEW t \in DOMAIN e.tombstones
       PROVE  /\ TombstoneOk(e, t)
              /\ <<t[1], t[3]>> \notin IF t[2] = "raw_event" THEN DOMAIN e.raw_events
                                                           ELSE DOMAIN e.memories
  <2>1. /\ TombstoneOk(d, t)
        /\ <<t[1], t[3]>> \notin IF t[2] = "raw_event" THEN DOMAIN d.raw_events
                                                     ELSE DOMAIN d.memories
    BY <1>1 DEF DbConsistent, MemoryAdded
  <2>2. t[2] \in EntityType
    <3>1. t \in Scopes \X EntityType \X Ids
      BY <1>1 DEF DbType, IsTable, MemoryAdded
    <3>2. QED
      BY <3>1
  <2>3. t[2] # "raw_event" => <<t[1], t[3]>> # <<s, i>>
    BY <1>1, <1>3, <2>2 DEF EntityType, MemoryAdded
  <2>4. QED
    BY <2>1, <2>3, <1>1 DEF TombstoneOk, MemoryAdded
<1>12. \A r \in DOMAIN e.audit_log : AuditRecordOk(r)
  <2>1. AuditRecordOk(record)
    BY DEF record, AuditRecordOk, AuditRecord, AuditPolicy, AuditAction
  <2>2. QED
    BY <1>2, <2>1 DEF LogAudit, DbConsistent
<1>13. QED
  BY <1>1, <1>6, <1>9, <1>10, <1>11, <1>12 DEF DbConsistent, MemoryAdded

-----------------------------------------------------------------------------
(* expire_raw_content.                                                     *)

\* A sweep keeps every table well-typed.
LEMMA ExpireType ==
    ASSUME NEW d, DbType(d), NEW as_of, NEW e, e = ExpireEffect(d, as_of)
    PROVE  DbType(e)
<1> DEFINE keys == Expirable(d, as_of)
           records == {AuditRecord(k[1], "expire", "raw_event", k[2],
                                   "raw content expired") : k \in keys}
<1>0. /\ IsDb(e)
      /\ e.raw_events = [k \in DOMAIN d.raw_events |->
            IF k \in keys THEN [d.raw_events[k] EXCEPT !.status = "expired"]
                           ELSE d.raw_events[k]]
      /\ e.raw_event_content = Delete(d.raw_event_content, keys)
      /\ e.memories = d.memories /\ e.memory_sources = d.memory_sources
      /\ e.tombstones = d.tombstones
      /\ e.audit_log = LogAudit(d.audit_log, records)
  BY DEF DbType, IsDb, ExpireEffect
<1> HIDE DEF keys, records
<1>1. IsTable(e.raw_events, Key, EventRow)
  <2>1. \A k \in DOMAIN d.raw_events :
          /\ d.raw_events[k] \in EventRow
          /\ [d.raw_events[k] EXCEPT !.status = "expired"] \in EventRow
    BY DEF DbType, IsTable, EventRow
  <2>2. DOMAIN d.raw_events \subseteq Key
    BY DEF DbType, IsTable
  <2>3. QED
    BY <2>1, <2>2, <1>0 DEF IsTable
<1>2. IsTable(Delete(d.raw_event_content, keys), Key, Contents)
  BY DeleteTable DEF DbType
<1>3. records \in SUBSET AuditRow
  <2>1. \A k \in keys : k \in Scopes \X Ids
    BY DEF keys, Expirable, DbType, IsTable, Key
  <2>2. \A k \in keys : AuditRecord(k[1], "expire", "raw_event", k[2],
                                    "raw content expired") \in AuditRow
    BY <2>1 DEF AuditRecord, AuditRow, AuditAction, AuditReason, EntityType
  <2>3. QED
    BY <2>2 DEF records
<1>4. IsTable(LogAudit(d.audit_log, records), AuditRow, Nat \ {0})
  BY <1>3, LogTable DEF DbType
<1>5. QED
  BY <1>1, <1>2, <1>4, <1>0 DEF DbType

\* A sweep leaves every row acceptable to every reader: the body goes exactly
\* where the status says so.
LEMMA ExpireConsistent ==
    ASSUME NEW d, DbType(d), DbConsistent(d), NEW as_of,
           NEW e, e = ExpireEffect(d, as_of)
    PROVE  DbConsistent(e)
<1> DEFINE keys == Expirable(d, as_of)
           records == {AuditRecord(k[1], "expire", "raw_event", k[2],
                                   "raw content expired") : k \in keys}
<1>0. /\ IsDb(e)
      /\ e.raw_events = [k \in DOMAIN d.raw_events |->
            IF k \in keys THEN [d.raw_events[k] EXCEPT !.status = "expired"]
                           ELSE d.raw_events[k]]
      /\ e.raw_event_content = Delete(d.raw_event_content, keys)
      /\ e.memories = d.memories /\ e.memory_sources = d.memory_sources
      /\ e.tombstones = d.tombstones
      /\ e.audit_log = LogAudit(d.audit_log, records)
  BY DEF DbType, IsDb, ExpireEffect
<1> HIDE DEF keys, records
<1>1. /\ DOMAIN e.raw_events = DOMAIN d.raw_events
      /\ \A k \in DOMAIN d.raw_events :
           e.raw_events[k] = IF k \in keys
                             THEN [d.raw_events[k] EXCEPT !.status = "expired"]
                             ELSE d.raw_events[k]
      /\ e.raw_event_content = Delete(d.raw_event_content, keys)
      /\ e.memories = d.memories /\ e.memory_sources = d.memory_sources
      /\ e.tombstones = d.tombstones
      /\ e.audit_log = LogAudit(d.audit_log, records)
  BY <1>0
<1>2. DOMAIN e.raw_event_content = DOMAIN d.raw_event_content \ keys
  BY <1>1 DEF Delete, Restrict
<1>3. \A k \in DOMAIN d.raw_events :
        /\ d.raw_events[k] \in EventRow
        /\ SnapshotOf(e.raw_events[k]) = SnapshotOf(d.raw_events[k])
        /\ e.raw_events[k].status =
             IF k \in keys THEN "expired" ELSE d.raw_events[k].status
  <2>1. \A k \in DOMAIN d.raw_events : d.raw_events[k] \in EventRow
    BY DEF DbType, IsTable
  <2>2. QED
    BY <2>1, <1>1 DEF EventRow, SnapshotOf
<1>4. \A k \in DOMAIN e.raw_events : ReceiptOk(e, k)
  <2>1. ASSUME NEW k \in DOMAIN d.raw_events PROVE ReceiptOk(e, k)
    <3>1. ReceiptOk(d, k)
      BY DEF DbConsistent
    <3>2. /\ e.raw_events[k].clear_for = d.raw_events[k].clear_for
          /\ e.raw_events[k].recall_for = d.raw_events[k].recall_for
      BY <1>3 DEF SnapshotOf
    <3>3. QED
      BY <3>1, <3>2, <1>2, <1>3 DEF ReceiptOk
  <2>2. QED
    BY <2>1, <1>1
<1>5. DOMAIN e.raw_event_content \subseteq DOMAIN e.raw_events
  BY <1>1, <1>2 DEF DbConsistent
<1>6. ASSUME NEW m \in DOMAIN e.memories
      PROVE  MemoryRecordOk(e, m[1], m[2]) /\ LineageOk(e, m[1], m[2])
  <2>1. MemoryRecordOk(d, m[1], m[2]) /\ LineageOk(d, m[1], m[2])
    BY <1>1 DEF DbConsistent
  <2>2. Lineage(e, m[1], m[2]) = Lineage(d, m[1], m[2])
    BY <1>1 DEF Lineage
  <2>3. \A x \in Lineage(d, m[1], m[2]) : <<m[1], x>> \in DOMAIN d.raw_events
    BY <2>1 DEF LineageOk
  <2>4. \A x \in Lineage(d, m[1], m[2]) :
          /\ <<m[1], x>> \in DOMAIN e.raw_events
          /\ ReceiptOk(e, <<m[1], x>>)
          /\ SnapshotOf(e.raw_events[<<m[1], x>>]) = SnapshotOf(d.raw_events[<<m[1], x>>])
    BY <2>3, <1>1, <1>3, <1>4
  <2>5. e.memories[<<m[1], m[2]>>].status \in MemoryStatus
    BY <2>1, <1>1 DEF MemoryRecordOk
  <2>6. QED
    BY <1>1, <2>1, <2>2, <2>4, <2>5, MemoryFrame
<1>7. \A x \in DOMAIN e.memory_sources : <<x[1], x[2]>> \in DOMAIN e.memories
  BY <1>1 DEF DbConsistent
<1>8. \A t \in DOMAIN e.tombstones :
        /\ TombstoneOk(e, t)
        /\ <<t[1], t[3]>> \notin IF t[2] = "raw_event" THEN DOMAIN e.raw_events
                                                     ELSE DOMAIN e.memories
  BY <1>1 DEF DbConsistent, TombstoneOk
<1>9. \A r \in DOMAIN e.audit_log : AuditRecordOk(r)
  <2>1. \A k : AuditRecordOk(AuditRecord(k[1], "expire", "raw_event", k[2],
                                          "raw content expired"))
    BY DEF AuditRecordOk, AuditRecord, AuditPolicy, AuditAction
  <2>2. \A r \in records : AuditRecordOk(r)
    BY <2>1 DEF records
  <2>3. QED
    BY <2>2, <1>1 DEF LogAudit, DbConsistent
<1>10. QED
  BY <1>4, <1>5, <1>6, <1>7, <1>8, <1>9 DEF DbConsistent

-----------------------------------------------------------------------------
(* govern.                                                                 *)

\* The readers look at everything but the audit log.
LEMMA SameRows ==
    ASSUME NEW d, DbConsistent(d), NEW e,
           e.raw_events = d.raw_events, e.raw_event_content = d.raw_event_content,
           e.memories = d.memories, e.memory_sources = d.memory_sources,
           e.tombstones = d.tombstones,
           \A r \in DOMAIN e.audit_log : AuditRecordOk(r)
    PROVE  DbConsistent(e)
<1>1. \A k : ReceiptOk(e, k) <=> ReceiptOk(d, k)
  BY DEF ReceiptOk
<1>2. ASSUME NEW m \in DOMAIN e.memories
      PROVE  MemoryRecordOk(e, m[1], m[2]) /\ LineageOk(e, m[1], m[2])
  <2>1. MemoryRecordOk(d, m[1], m[2]) /\ LineageOk(d, m[1], m[2])
    BY DEF DbConsistent
  <2>2. Lineage(e, m[1], m[2]) = Lineage(d, m[1], m[2])
    BY DEF Lineage
  <2>3. \A x \in Lineage(d, m[1], m[2]) :
          <<m[1], x>> \in DOMAIN e.raw_events /\ ReceiptOk(e, <<m[1], x>>)
    BY <2>1, <1>1 DEF LineageOk
  <2>4. e.memories[<<m[1], m[2]>>].status \in MemoryStatus
    BY <2>1 DEF MemoryRecordOk
  <2>5. QED
    BY <2>1, <2>2, <2>3, <2>4, MemoryFrame
<1>3. \A t : TombstoneOk(e, t) <=> TombstoneOk(d, t)
  BY DEF TombstoneOk
<1>4. QED
  BY <1>1, <1>2, <1>3 DEF DbConsistent

\* Writing one well-formed audit record harms nothing.
LEMMA AppendAudit ==
    ASSUME NEW d, DbType(d), DbConsistent(d),
           NEW record \in AuditRow, AuditRecordOk(record),
           NEW e, e = [d EXCEPT !.audit_log = LogAudit(@, {record})]
    PROVE  DbType(e) /\ DbConsistent(e)
<1>1. /\ IsDb(e)
      /\ e.raw_events = d.raw_events /\ e.raw_event_content = d.raw_event_content
      /\ e.memories = d.memories /\ e.memory_sources = d.memory_sources
      /\ e.tombstones = d.tombstones
      /\ e.audit_log = LogAudit(d.audit_log, {record})
  BY DEF DbType, IsDb
<1>2. IsTable(LogAudit(d.audit_log, {record}), AuditRow, Nat \ {0})
  BY LogTable DEF DbType
<1>3. DbType(e)
  BY <1>1, <1>2 DEF DbType
<1>4. \A r \in DOMAIN e.audit_log : AuditRecordOk(r)
  BY <1>1 DEF LogAudit, DbConsistent
<1>5. QED
  BY <1>1, <1>3, <1>4, SameRows

\* Sealing and restoring change nothing a reader checks but the status.
LEMMA SetStatusOk ==
    ASSUME NEW d, DbType(d), DbConsistent(d), NEW c \in GovernanceCommand,
           <<c.scope, c.entity_id>> \in DOMAIN d.memories,
           NEW status \in MemoryStatus,
           NEW e, e = SetStatus(d, c, status)
    PROVE  DbType(e) /\ DbConsistent(e)
<1> DEFINE key == <<c.scope, c.entity_id>>
<1>1. /\ IsDb(e)
      /\ e.raw_events = d.raw_events /\ e.raw_event_content = d.raw_event_content
      /\ e.memories = [d.memories EXCEPT ![key].status = status]
      /\ e.memory_sources = d.memory_sources
      /\ e.tombstones = d.tombstones /\ e.audit_log = d.audit_log
  BY DEF DbType, IsDb, SetStatus
<1>2. /\ DOMAIN e.memories = DOMAIN d.memories
      /\ e.memories[key] = [d.memories[key] EXCEPT !.status = status]
      /\ \A m \in DOMAIN d.memories \ {key} : e.memories[m] = d.memories[m]
      /\ e.memories = [m \in DOMAIN e.memories |-> e.memories[m]]
  BY <1>1
<1>3. \A m \in DOMAIN d.memories : d.memories[m] \in MemoryRow
  BY DEF DbType, IsTable
<1>4. \A m \in DOMAIN e.memories :
        /\ e.memories[m] \in MemoryRow
        /\ \A f \in {"dependency_fingerprint", "kind", "trust", "created_at",
                     "clear_until", "recall_until"} :
             e.memories[m][f] = d.memories[m][f]
  BY <1>2, <1>3 DEF MemoryRow
<1>5. DbType(e)
  <2>1. IsTable(e.memories, Key, MemoryRow)
    BY <1>2, <1>4 DEF DbType, IsTable
  <2>2. QED
    BY <1>1, <2>1 DEF DbType
<1>6. \A k \in DOMAIN e.raw_events : ReceiptOk(e, k)
  BY <1>1 DEF DbConsistent, ReceiptOk
<1>7. ASSUME NEW m \in DOMAIN e.memories
      PROVE  MemoryRecordOk(e, m[1], m[2]) /\ LineageOk(e, m[1], m[2])
  <2>1. MemoryRecordOk(d, m[1], m[2]) /\ LineageOk(d, m[1], m[2])
    BY <1>2 DEF DbConsistent
  <2>2. m = <<m[1], m[2]>>
    BY <1>5 DEF DbType, IsTable, Key
  <2>3. Lineage(e, m[1], m[2]) = Lineage(d, m[1], m[2])
    BY <1>1 DEF Lineage
  <2>4. \A x \in Lineage(d, m[1], m[2]) :
          <<m[1], x>> \in DOMAIN e.raw_events /\ ReceiptOk(e, <<m[1], x>>)
    BY <2>1, <1>1, <1>6 DEF LineageOk
  <2>5. e.memories[<<m[1], m[2]>>].status \in MemoryStatus
    BY <1>4, <2>2 DEF MemoryRow
  <2>6. \A f \in {"dependency_fingerprint", "kind", "trust", "created_at",
                  "clear_until", "recall_until"} :
          e.memories[<<m[1], m[2]>>][f] = d.memories[<<m[1], m[2]>>][f]
    BY <1>4, <2>2
  <2>7. QED
    BY <1>1, <2>1, <2>3, <2>4, <2>5, <2>6, MemoryFrame
<1>8. /\ \A t \in DOMAIN e.tombstones :
           /\ TombstoneOk(e, t)
           /\ <<t[1], t[3]>> \notin IF t[2] = "raw_event" THEN DOMAIN e.raw_events
                                                        ELSE DOMAIN e.memories
      /\ \A x \in DOMAIN e.memory_sources : <<x[1], x[2]>> \in DOMAIN e.memories
      /\ DOMAIN e.raw_event_content \subseteq DOMAIN e.raw_events
      /\ \A r \in DOMAIN e.audit_log : AuditRecordOk(r)
  BY <1>1, <1>2 DEF DbConsistent, TombstoneOk
<1>9. QED
  BY <1>5, <1>6, <1>7, <1>8 DEF DbConsistent

\* The erased memories are on record, and so are their tombstones' values.
LEMMA ErasedOnRecord ==
    ASSUME NEW d, DbType(d), DbConsistent(d), NEW c \in GovernanceCommand,
           c.entity_type = "memory" => <<c.scope, c.entity_id>> \in DOMAIN d.memories
    PROVE  /\ c.scope \in Scopes /\ c.entity_id \in Ids /\ c.entity_type \in EntityType
           /\ ErasedMemories(d, c) \in SUBSET Ids
           /\ \A m \in ErasedMemories(d, c) : <<c.scope, m>> \in DOMAIN d.memories
<1>1. c.scope \in Scopes /\ c.entity_id \in Ids /\ c.entity_type \in EntityType
  BY DEF GovernanceCommand
<1>2. \A m \in Dependents(d, c.scope, c.entity_id) : <<c.scope, m>> \in DOMAIN d.memories
  BY DEF Dependents, DbConsistent
<1>3. QED
  BY <1>1, <1>2 DEF ErasedMemories, Dependents

\* Erasing keeps the store well-typed and consistent: the cascade takes every
\* memory that has the deleted event among its sources, so no edge dangles.
LEMMA EraseOk ==
    ASSUME NEW d, DbType(d), DbConsistent(d), NEW c \in GovernanceCommand,
           c.entity_type = "memory" => <<c.scope, c.entity_id>> \in DOMAIN d.memories,
           NEW e, e = Erase(d, c)
    PROVE  DbType(e) /\ DbConsistent(e)
<1> DEFINE erased == ErasedMemories(d, c)
           events == IF c.entity_type = "raw_event"
                     THEN {<<c.scope, c.entity_id>>} ELSE {}
           edges == {k \in DOMAIN d.memory_sources : k[1] = c.scope /\ k[2] \in erased}
           gone == {<<c.scope, m>> : m \in erased}
           new == NewTombstones(d, c)
<1>1. /\ IsDb(e)
      /\ e.memory_sources = Delete(d.memory_sources, edges)
      /\ e.memories = Delete(d.memories, gone)
      /\ e.raw_event_content = Delete(d.raw_event_content, events)
      /\ e.raw_events = Delete(d.raw_events, events)
      /\ e.tombstones = Insert(d.tombstones, new)
      /\ e.audit_log = d.audit_log
  BY DEF DbType, IsDb, Erase
<1>2. IsTable(new, Scopes \X EntityType \X Ids, Fingerprint \cup {Null})
  <2>1. /\ c.scope \in Scopes /\ c.entity_id \in Ids
        /\ erased \in SUBSET Ids
        /\ \A m \in erased : <<c.scope, m>> \in DOMAIN d.memories
    BY ErasedOnRecord
  <2>2. \A m \in erased : d.memories[<<c.scope, m>>].dependency_fingerprint \in Fingerprint
    BY <2>1 DEF DbType, IsTable, MemoryRow
  <2>3. DOMAIN new \subseteq Scopes \X EntityType \X Ids
    BY <2>1 DEF NewTombstones, EntityType
  <2>4. \A t \in DOMAIN new : new[t] \in Fingerprint \cup {Null}
    BY <2>1, <2>2 DEF NewTombstones
  <2>5. new = [t \in DOMAIN new |-> new[t]]
    BY DEF NewTombstones
  <2>6. QED
    BY <2>3, <2>4, <2>5 DEF IsTable
<1> HIDE DEF erased, events, edges, gone, new
<1>3. /\ IsTable(e.memory_sources, Scopes \X Ids \X Ids, Snapshot)
      /\ DOMAIN e.memory_sources = DOMAIN d.memory_sources \ edges
      /\ \A k \in DOMAIN e.memory_sources : e.memory_sources[k] = d.memory_sources[k]
  <2>1. IsTable(d.memory_sources, Scopes \X Ids \X Ids, Snapshot)
    BY DEF DbType
  <2>2. QED
    BY <2>1, <1>1 DEF IsTable, Delete, Restrict
<1>4. /\ IsTable(e.memories, Key, MemoryRow)
      /\ DOMAIN e.memories = DOMAIN d.memories \ gone
      /\ \A k \in DOMAIN e.memories : e.memories[k] = d.memories[k]
  <2>1. IsTable(d.memories, Key, MemoryRow)
    BY DEF DbType
  <2>2. QED
    BY <2>1, <1>1 DEF IsTable, Delete, Restrict
<1>5. /\ IsTable(e.raw_events, Key, EventRow)
      /\ DOMAIN e.raw_events = DOMAIN d.raw_events \ events
      /\ \A k \in DOMAIN e.raw_events : e.raw_events[k] = d.raw_events[k]
  <2>1. IsTable(d.raw_events, Key, EventRow)
    BY DEF DbType
  <2>2. QED
    BY <2>1, <1>1 DEF IsTable, Delete, Restrict
<1>6. /\ IsTable(e.raw_event_content, Key, Contents)
      /\ DOMAIN e.raw_event_content = DOMAIN d.raw_event_content \ events
      /\ \A k \in DOMAIN e.raw_event_content : e.raw_event_content[k] = d.raw_event_content[k]
  <2>1. IsTable(d.raw_event_content, Key, Contents)
    BY DEF DbType
  <2>2. QED
    BY <2>1, <1>1 DEF IsTable, Delete, Restrict
<1>7. /\ IsTable(e.tombstones, Scopes \X EntityType \X Ids, Fingerprint \cup {Null})
      /\ DOMAIN e.tombstones = DOMAIN d.tombstones \cup DOMAIN new
      /\ \A t \in DOMAIN new : e.tombstones[t] = new[t]
      /\ \A t \in DOMAIN d.tombstones \ DOMAIN new : e.tombstones[t] = d.tombstones[t]
  <2>1. IsTable(d.tombstones, Scopes \X EntityType \X Ids, Fingerprint \cup {Null})
    BY DEF DbType
  <2>2. QED
    BY <2>1, <1>1, <1>2 DEF IsTable, Insert
<1>8. DbType(e)
  <2>1. IsTable(e.audit_log, AuditRow, Nat \ {0})
    BY <1>1 DEF DbType
  <2>2. QED
    BY <1>1, <1>3, <1>4, <1>5, <1>6, <1>7, <2>1 DEF DbType
<1>9. /\ DOMAIN e.raw_events \subseteq DOMAIN d.raw_events
      /\ DOMAIN e.memories \subseteq DOMAIN d.memories
  BY <1>4, <1>5
<1>10. \A k \in DOMAIN e.raw_events : ReceiptOk(e, k)
  BY <1>5, <1>6 DEF DbConsistent, ReceiptOk
<1>11. DOMAIN e.raw_event_content \subseteq DOMAIN e.raw_events
  BY <1>5, <1>6 DEF DbConsistent
<1>12. ASSUME NEW m \in DOMAIN e.memories
       PROVE  MemoryRecordOk(e, m[1], m[2]) /\ LineageOk(e, m[1], m[2])
  <2>1. MemoryRecordOk(d, m[1], m[2]) /\ LineageOk(d, m[1], m[2])
    BY <1>9 DEF DbConsistent
  <2>2. m = <<m[1], m[2]>> /\ m[2] \in Ids
    BY <1>4 DEF IsTable, Key
  <2>3. ~(m[1] = c.scope /\ m[2] \in erased)
    BY <1>4, <2>2 DEF gone
  <2>4. \A x : <<m[1], m[2], x>> \in DOMAIN e.memory_sources <=>
                 <<m[1], m[2], x>> \in DOMAIN d.memory_sources
    BY <1>3, <2>3 DEF edges
  <2>5. Lineage(e, m[1], m[2]) = Lineage(d, m[1], m[2])
    BY <2>4 DEF Lineage
  <2>6. \A x \in Lineage(d, m[1], m[2]) :
          e.memory_sources[<<m[1], m[2], x>>] = d.memory_sources[<<m[1], m[2], x>>]
    BY <1>3, <2>4 DEF Lineage
  <2>7. \A x \in Lineage(d, m[1], m[2]) : <<m[1], x>> \in DOMAIN e.raw_events
    <3>1. \A x \in Lineage(d, m[1], m[2]) : <<m[1], x>> \in DOMAIN d.raw_events
      BY <2>1 DEF LineageOk
    <3>2. ASSUME c.entity_type = "raw_event", m[1] = c.scope,
                 NEW x \in Lineage(d, m[1], m[2])
          PROVE  x # c.entity_id
      BY <3>2, <2>2, <2>3 DEF erased, Lineage, ErasedMemories, Dependents
    <3>3. QED
      BY <3>1, <3>2, <1>5 DEF events
  <2>8. \A x \in Lineage(d, m[1], m[2]) :
          /\ ReceiptOk(e, <<m[1], x>>)
          /\ e.raw_events[<<m[1], x>>] = d.raw_events[<<m[1], x>>]
    BY <2>7, <1>5, <1>10
  <2>9. /\ e.memories[<<m[1], m[2]>>] = d.memories[<<m[1], m[2]>>]
        /\ e.memories[<<m[1], m[2]>>].status \in MemoryStatus
    BY <1>4, <2>1, <2>2 DEF MemoryRecordOk
  <2>10. QED
    BY <2>1, <2>5, <2>6, <2>7, <2>8, <2>9, MemoryFrame
<1>13. ASSUME NEW x \in DOMAIN e.memory_sources
       PROVE  <<x[1], x[2]>> \in DOMAIN e.memories
  <2>1. <<x[1], x[2]>> \in DOMAIN d.memories
    BY <1>3 DEF DbConsistent
  <2>2. <<x[1], x[2]>> \notin gone
    BY <1>3 DEF gone, edges
  <2>3. QED
    BY <1>4, <2>1, <2>2
<1>14. ASSUME NEW t \in DOMAIN e.tombstones
       PROVE  /\ TombstoneOk(e, t)
              /\ <<t[1], t[3]>> \notin IF t[2] = "raw_event" THEN DOMAIN e.raw_events
                                                           ELSE DOMAIN e.memories
  <2>1. CASE \E m \in erased : t = <<c.scope, "memory", m>>
    <3>1. PICK m \in erased : t = <<c.scope, "memory", m>>
      BY <2>1
    <3>2. t \in DOMAIN new
          /\ new[t] = d.memories[<<c.scope, m>>].dependency_fingerprint
      BY <3>1 DEF new, erased, NewTombstones
    <3>3. <<c.scope, m>> \in DOMAIN d.memories
      BY ErasedOnRecord DEF erased
    <3>4. e.tombstones[t] \in Fingerprint
      BY <3>2, <3>3, <1>7 DEF DbType, IsTable, MemoryRow
    <3>5. <<c.scope, m>> \notin DOMAIN e.memories
      BY <1>4 DEF gone
    <3>6. QED
      BY <3>1, <3>4, <3>5 DEF TombstoneOk
  <2>2. CASE c.entity_type = "raw_event" /\ t = <<c.scope, "raw_event", c.entity_id>>
    <3>1. t \in DOMAIN new /\ new[t] = Null
      BY <2>2 DEF new, NewTombstones
    <3>2. e.tombstones[t] = Null
      BY <3>1, <1>7
    <3>3. <<c.scope, c.entity_id>> \notin DOMAIN e.raw_events
      BY <2>2, <1>5 DEF events
    <3>4. QED
      BY <2>2, <3>2, <3>3 DEF TombstoneOk
  <2>3. CASE t \notin DOMAIN new
    <3>1. t \in DOMAIN d.tombstones /\ e.tombstones[t] = d.tombstones[t]
      BY <1>7, <2>3
    <3>2. QED
      BY <3>1, <1>9 DEF DbConsistent, TombstoneOk
  <2>4. t \in DOMAIN new =>
          \/ \E m \in erased : t = <<c.scope, "memory", m>>
          \/ c.entity_type = "raw_event" /\ t = <<c.scope, "raw_event", c.entity_id>>
    BY DEF new, erased, NewTombstones
  <2>5. QED
    BY <2>1, <2>2, <2>3, <2>4
<1>15. \A r \in DOMAIN e.audit_log : AuditRecordOk(r)
  BY <1>1 DEF DbConsistent
<1>16. QED
  BY <1>8, <1>10, <1>11, <1>12, <1>13, <1>14, <1>15 DEF DbConsistent


\* The outcome "done" of a governance command, as the facts its effect relies on.
LEMMA GovernDone ==
    ASSUME NEW d, NEW c \in GovernanceCommand, GovernOutcome(d, c) = "done"
    PROVE  /\ c.entity_type = "memory" => <<c.scope, c.entity_id>> \in DOMAIN d.memories
           /\ c.entity_type = "raw_event" =>
                c.action = "delete" /\ <<c.scope, c.entity_id>> \in DOMAIN d.raw_events
           /\ c.entity_type \in EntityType /\ c.action \in GovernanceAction
<1>1. MissingEntity(d, c) # "done"
  BY DEF MissingEntity
<1>2. c.entity_type \in EntityType /\ c.action \in GovernanceAction
  BY DEF GovernanceCommand
<1>3. c.entity_type = "memory" => <<c.scope, c.entity_id>> \in DOMAIN d.memories
  BY <1>1 DEF GovernOutcome, GovernMemoryOutcome
<1>4. c.entity_type = "raw_event" =>
        c.action = "delete" /\ <<c.scope, c.entity_id>> \in DOMAIN d.raw_events
  BY <1>1 DEF GovernOutcome, DeleteRawEventOutcome
<1>5. QED
  BY <1>2, <1>3, <1>4

\* Every governance command keeps the store well-typed and consistent.
LEMMA GovernOk ==
    ASSUME NEW d, DbType(d), DbConsistent(d), NEW c \in GovernanceCommand,
           GovernOutcome(d, c) = "done",
           NEW e, e = GovernEffect(d, c)
    PROVE  DbType(e) /\ DbConsistent(e)
<1>1. /\ c.entity_type = "memory" => <<c.scope, c.entity_id>> \in DOMAIN d.memories
      /\ c.entity_type = "raw_event" => c.action = "delete"
      /\ c.entity_type \in EntityType /\ c.action \in GovernanceAction
  BY GovernDone
<1>2. GovernanceAudit(c) \in AuditRow
  BY DEF GovernanceAudit, AuditRecord, AuditRow, AuditAction, AuditReason, GovernanceCommand
<1>3. AuditRecordOk(GovernanceAudit(c))
  BY <1>1 DEF GovernanceAudit, AuditRecord, AuditRecordOk, AuditPolicy, AuditAction,
              EntityType, GovernanceAction
<1>4. SUFFICES ASSUME NEW g, DbType(g), DbConsistent(g),
                      e = [g EXCEPT !.audit_log = LogAudit(@, {GovernanceAudit(c)})]
               PROVE  DbType(e) /\ DbConsistent(e)
  <2> DEFINE g == CASE c.action = "seal" -> SetStatus(d, c, "sealed")
                    [] c.action = "restore" -> SetStatus(d, c, "active")
                    [] OTHER -> Erase(d, c)
  <2>1. e = [g EXCEPT !.audit_log = LogAudit(@, {GovernanceAudit(c)})]
    BY DEF GovernEffect
  <2>2. DbType(g) /\ DbConsistent(g)
    <3>1. CASE c.action = "seal"
      <4>1. g = SetStatus(d, c, "sealed")
        BY <3>1
      <4>2. c.entity_type = "memory"
        BY <1>1, <3>1 DEF EntityType
      <4> HIDE DEF g
      <4>3. QED
        BY <4>1, <4>2, <1>1, SetStatusOk DEF MemoryStatus
    <3>2. CASE c.action = "restore"
      <4>1. g = SetStatus(d, c, "active")
        BY <3>2
      <4>2. c.entity_type = "memory"
        BY <1>1, <3>2 DEF EntityType
      <4> HIDE DEF g
      <4>3. QED
        BY <4>1, <4>2, <1>1, SetStatusOk DEF MemoryStatus
    <3>3. CASE c.action \notin {"seal", "restore"}
      <4>1. g = Erase(d, c)
        BY <3>3
      <4> HIDE DEF g
      <4>2. QED
        BY <4>1, <1>1, EraseOk
    <3>4. QED
      BY <3>1, <3>2, <3>3
  <2> HIDE DEF g
  <2>3. QED
    BY <2>1, <2>2
<1>5. QED
  BY <1>2, <1>3, <1>4, AppendAudit

-----------------------------------------------------------------------------
(* The invariant.                                                          *)

\* The empty database is well-typed and consistent.
LEMMA InitOk == Init => TypeOK /\ Consistent
<1> SUFFICES ASSUME Init PROVE TypeOK /\ Consistent
  OBVIOUS
<1>1. db = [raw_events |-> EmptyTable, raw_event_content |-> EmptyTable,
            memories |-> EmptyTable, memory_sources |-> EmptyTable,
            tombstones |-> EmptyTable, audit_log |-> EmptyTable]
  BY DEF Init, EmptyDb
<1>2. \A K, R : IsTable(EmptyTable, K, R)
  BY DEF IsTable, EmptyTable
<1>3. TypeOK
  BY <1>1, <1>2 DEF TypeOK, DbType, IsDb
<1>4. Consistent
  BY <1>1 DEF Consistent, DbConsistent, EmptyTable
<1>5. QED
  BY <1>3, <1>4

\* Every operation keeps the store well-typed and consistent: TypeOK and
\* Consistent together are inductive.
LEMMA InductiveStep ==
    TypeOK /\ Consistent /\ [Next]_vars => TypeOK' /\ Consistent'
<1> SUFFICES ASSUME TypeOK, Consistent, [Next]_vars
             PROVE  TypeOK' /\ Consistent'
  OBVIOUS
<1>0. DbType(db) /\ DbConsistent(db)
  BY DEF TypeOK, Consistent
<1>1. SUFFICES DbType(db') /\ DbConsistent(db')
  BY DEF TypeOK, Consistent
<1>2. ASSUME NEW draft \in EventDrafts, NEW now \in Clocks, IngestEvent(draft, now)
      PROVE  DbType(db') /\ DbConsistent(db')
  <2>1. CASE IngestOutcome(db, draft) = "created"
    <3>1. db' = IngestEffect(db, draft, now)
      BY <1>2, <2>1 DEF IngestEvent
    <3>2. QED
      BY <1>0, <2>1, <3>1, IngestType, IngestConsistent
  <2>2. CASE IngestOutcome(db, draft) # "created"
    BY <1>0, <1>2, <2>2 DEF IngestEvent
  <2>3. QED
    BY <2>1, <2>2
<1>3. ASSUME NEW draft \in MemoryDrafts, MaterializeOnce(draft)
      PROVE  DbType(db') /\ DbConsistent(db')
  <2>1. CASE MaterializeOutcome(db, draft) = "created"
    <3>1. db' = MaterializeEffect(db, draft)
      BY <1>3, <2>1 DEF MaterializeOnce
    <3>2. QED
      BY <1>0, <2>1, <3>1, MaterializeType, MaterializeConsistent
  <2>2. CASE MaterializeOutcome(db, draft) # "created"
    BY <1>0, <1>3, <2>2 DEF MaterializeOnce
  <2>3. QED
    BY <2>1, <2>2
<1>4. ASSUME NEW c \in GovernanceCommand, Govern(c)
      PROVE  DbType(db') /\ DbConsistent(db')
  <2>1. CASE GovernOutcome(db, c) = "done"
    <3>1. db' = GovernEffect(db, c)
      BY <1>4, <2>1 DEF Govern
    <3>2. QED
      BY <1>0, <2>1, <3>1, GovernOk
  <2>2. CASE GovernOutcome(db, c) # "done"
    BY <1>0, <1>4, <2>2 DEF Govern
  <2>3. QED
    BY <2>1, <2>2
<1>5. ASSUME NEW as_of \in Sweeps, ExpireRawContent(as_of)
      PROVE  DbType(db') /\ DbConsistent(db')
  <2>1. CASE ExpireOutcome(db) = "done"
    <3>1. db' = ExpireEffect(db, as_of)
      BY <1>5, <2>1 DEF ExpireRawContent
    <3>2. QED
      BY <1>0, <3>1, ExpireType, ExpireConsistent
  <2>2. CASE ExpireOutcome(db) # "done"
    BY <1>0, <1>5, <2>2 DEF ExpireRawContent
  <2>3. QED
    BY <2>1, <2>2
<1>6. CASE UNCHANGED vars
  BY <1>0, <1>6 DEF vars
<1>7. QED
  BY <1>2, <1>3, <1>4, <1>5, <1>6 DEF Next

\* Every reachable database is well-typed, whatever the host requests.
THEOREM TypeCorrect == Spec => []TypeOK
<1>1. Spec => [](TypeOK /\ Consistent)
  BY InitOk, InductiveStep, PTL DEF Spec
<1>2. QED
  BY <1>1, PTL

\* Every reachable database passes the checks of all its readers.
THEOREM Consistency == Spec => []Consistent
<1>1. Spec => [](TypeOK /\ Consistent)
  BY InitOk, InductiveStep, PTL DEF Spec
<1>2. QED
  BY <1>1, PTL

-----------------------------------------------------------------------------
(* What follows from the invariant.                                        *)

\* No tombstone query finds a malformed row.
LEMMA TombstonesSound ==
    ASSUME NEW d, DbConsistent(d), NEW T, T \subseteq DOMAIN d.tombstones
    PROVE  ~Corrupt(d, T)
BY DEF DbConsistent, Corrupt

\* Ingest meets neither a malformed row nor a body without a receipt.
LEMMA IngestSound ==
    ASSUME NEW d, DbConsistent(d), NEW draft
    PROVE  IngestOutcome(d, draft) # "RepositoryCorruption"
<1> DEFINE T == TombstonesById(d, draft.scope, draft.event_id)
<1>1. ~Corrupt(d, T)
  BY TombstonesSound DEF TombstonesById
<1> HIDE DEF T
<1>2. \A key \in DOMAIN d.raw_events : ReceiptOk(d, key)
  BY DEF DbConsistent
<1>3. DOMAIN d.raw_event_content \subseteq DOMAIN d.raw_events
  BY DEF DbConsistent
<1>4. QED
  BY <1>1, <1>2, <1>3 DEF IngestOutcome, T

\* Materialization meets neither a malformed row nor an edge without a memory.
LEMMA MaterializeSound ==
    ASSUME NEW d, DbType(d), DbConsistent(d), NEW draft \in MemoryDrafts
    PROVE  MaterializeOutcome(d, draft) # "RepositoryCorruption"
<1> DEFINE key == MemoryKey(draft)
           byId == TombstonesById(d, draft.scope, draft.memory_id)
           byFp == TombstonesByFingerprint(d, draft.scope, DraftFingerprint(draft))
<1>1. ~Corrupt(d, byId) /\ ~Corrupt(d, byFp)
  BY TombstonesSound DEF TombstonesById, TombstonesByFingerprint
<1>2. \A x : SourceOutcome(d, draft.scope, x) # "RepositoryCorruption"
  <2>1. \A x : ~Corrupt(d, TombstonesById(d, draft.scope, x))
    BY TombstonesSound DEF TombstonesById
  <2>2. \A x : <<draft.scope, x>> \in DOMAIN d.raw_events =>
                 ReceiptOk(d, <<draft.scope, x>>)
    BY DEF DbConsistent
  <2>3. QED
    BY <2>1, <2>2 DEF SourceOutcome
<1>3. SourcesOutcome(d, draft) # "RepositoryCorruption"
  BY <1>2 DEF SourcesOutcome
<1>4. key \in DOMAIN d.memories => MemoryRecordOk(d, draft.scope, draft.memory_id)
  BY DEF MemoryKey, DbConsistent
<1>5. key \notin DOMAIN d.memories => Lineage(d, draft.scope, draft.memory_id) = {}
  BY DEF MemoryKey, Lineage, DbConsistent
<1> HIDE DEF key, byId, byFp
<1>6. QED
  BY <1>1, <1>3, <1>4, <1>5 DEF MaterializeOutcome, key, byId, byFp

\* An entity that is on record has no tombstone, and neither have the memories
\* the cascade is about to erase.
LEMMA NoClash ==
    ASSUME NEW d, DbType(d), DbConsistent(d), NEW c \in GovernanceCommand,
           c.entity_type = "memory" => <<c.scope, c.entity_id>> \in DOMAIN d.memories,
           c.entity_type = "raw_event" => <<c.scope, c.entity_id>> \in DOMAIN d.raw_events
    PROVE  ~TombstoneClash(d, c)
<1>1. SUFFICES ASSUME NEW t \in DOMAIN d.tombstones, t \in DOMAIN NewTombstones(d, c)
               PROVE  FALSE
  BY DEF TombstoneClash
<1>2. \/ \E m \in ErasedMemories(d, c) : t = <<c.scope, "memory", m>>
      \/ c.entity_type = "raw_event" /\ t = <<c.scope, "raw_event", c.entity_id>>
  BY <1>1 DEF NewTombstones
<1>3. <<t[1], t[3]>> \notin IF t[2] = "raw_event" THEN DOMAIN d.raw_events
                                                ELSE DOMAIN d.memories
  BY DEF DbConsistent
<1>4. CASE \E m \in ErasedMemories(d, c) : t = <<c.scope, "memory", m>>
  <2>1. PICK m \in ErasedMemories(d, c) : t = <<c.scope, "memory", m>>
    BY <1>4
  <2>2. <<c.scope, m>> \in DOMAIN d.memories
    BY ErasedOnRecord
  <2>3. QED
    BY <1>3, <2>1, <2>2
<1>5. CASE c.entity_type = "raw_event" /\ t = <<c.scope, "raw_event", c.entity_id>>
  BY <1>3, <1>5
<1>6. QED
  BY <1>2, <1>4, <1>5

\* Governance meets neither a malformed row nor a taken tombstone key.
LEMMA GovernSound ==
    ASSUME NEW d, DbType(d), DbConsistent(d), NEW c \in GovernanceCommand
    PROVE  GovernOutcome(d, c) # "RepositoryCorruption"
<1> DEFINE key == <<c.scope, c.entity_id>>
<1>1. MissingEntity(d, c) # "RepositoryCorruption"
  <2>1. ~Corrupt(d, {t \in DOMAIN d.tombstones : t[3] = c.entity_id})
    BY TombstonesSound
  <2>2. QED
    BY <2>1 DEF MissingEntity
<1>2. c.entity_type \in EntityType
  BY DEF GovernanceCommand
<1>3. CASE c.entity_type = "memory"
  <2>1. key \in DOMAIN d.memories => /\ d.memories[key].status \in MemoryStatus
                                     /\ LineageOk(d, c.scope, c.entity_id)
    BY DEF DbConsistent, MemoryRecordOk
  <2>2. key \in DOMAIN d.memories => ~TombstoneClash(d, c)
    BY <1>3, NoClash
  <2>3. GovernMemoryOutcome(d, c) # "RepositoryCorruption"
    BY <1>1, <2>1, <2>2 DEF GovernMemoryOutcome
  <2>4. QED
    BY <1>3, <2>3 DEF GovernOutcome
<1>4. CASE c.entity_type = "raw_event"
  <2>1. key \in DOMAIN d.raw_events => ReceiptOk(d, key)
    BY DEF DbConsistent
  <2>2. \A m \in Dependents(d, c.scope, c.entity_id) :
          <<c.scope, m>> \in DOMAIN d.memories /\ LineageOk(d, c.scope, m)
    <3>1. \A m \in Dependents(d, c.scope, c.entity_id) : <<c.scope, m>> \in DOMAIN d.memories
      BY DEF Dependents, DbConsistent
    <3>2. QED
      BY <3>1 DEF DbConsistent
  <2>3. key \in DOMAIN d.raw_events => ~TombstoneClash(d, c)
    BY <1>4, NoClash
  <2>4. DeleteRawEventOutcome(d, c) # "RepositoryCorruption"
    BY <1>1, <2>1, <2>2, <2>3 DEF DeleteRawEventOutcome
  <2>5. QED
    BY <1>4, <2>4 DEF GovernOutcome
<1>5. QED
  BY <1>2, <1>3, <1>4 DEF EntityType

\* Recall finds a memory for every edge and an edge for every memory.
LEMMA RecallSound ==
    ASSUME NEW d, DbType(d), DbConsistent(d), NEW s \in Scopes
    PROVE  RecallOutcome(d, s) # "RepositoryCorruption"
<1> DEFINE edges == {e \in DOMAIN d.memory_sources : e[1] = s}
<1>1. \A m \in MemoriesIn(d, s) : MemoryRecordOk(d, s, m)
  BY DEF MemoriesIn, DbConsistent
<1>2. \A e \in edges : e[2] \in MemoriesIn(d, s)
  <2>1. \A e \in edges : e \in Scopes \X Ids \X Ids
    BY DEF DbType, IsTable
  <2>2. \A e \in edges : e[2] \in Ids
    BY <2>1
  <2>3. QED
    BY <2>2 DEF MemoriesIn, DbConsistent
<1>3. \A m \in MemoriesIn(d, s) : \E e \in edges : e[2] = m
  <2>1. SUFFICES ASSUME NEW m \in MemoriesIn(d, s) PROVE \E e \in edges : e[2] = m
    OBVIOUS
  <2>2. PICK x \in Ids : <<s, m, x>> \in DOMAIN d.memory_sources
    BY <1>1 DEF MemoryRecordOk, Lineage
  <2>3. QED
    BY <2>2
<1>4. {k[2] : k \in edges} = MemoriesIn(d, s)
  BY <1>2, <1>3
<1>5. QED
  BY <1>1, <1>4 DEF RecallOutcome

\* The store never answers RepositoryCorruption.
THEOREM SelfCorruptionFree == Spec => []NoSelfCorruption
<1>1. TypeOK /\ Consistent => NoSelfCorruption
  <2> SUFFICES ASSUME DbType(db), DbConsistent(db) PROVE NoSelfCorruption
    BY DEF TypeOK, Consistent
  <2>1. \A draft \in EventDrafts : IngestOutcome(db, draft) # "RepositoryCorruption"
    BY IngestSound
  <2>2. \A draft \in MemoryDrafts :
          MaterializeOutcome(db, draft) # "RepositoryCorruption"
    BY MaterializeSound
  <2>3. \A c \in GovernanceCommand : GovernOutcome(db, c) # "RepositoryCorruption"
    BY GovernSound
  <2>4. ExpireOutcome(db) # "RepositoryCorruption"
    BY DEF ExpireOutcome, DbConsistent
  <2>5. \A s \in Scopes : RecallOutcome(db, s) # "RepositoryCorruption"
    BY RecallSound
  <2>6. \A s \in Scopes : AuditOutcome(db, s) # "RepositoryCorruption"
    BY DEF AuditOutcome, DbConsistent
  <2>7. QED
    BY <2>1, <2>2, <2>3, <2>4, <2>5, <2>6 DEF NoSelfCorruption
<1>2. QED
  BY <1>1, TypeCorrect, Consistency, PTL

\* Deletion is complete for every number of events, memories and scopes.
THEOREM Erasure == Spec => []ErasureComplete
<1>1. TypeOK /\ Consistent => ErasureComplete
  <2> SUFFICES ASSUME DbType(db), DbConsistent(db), NEW t \in DOMAIN db.tombstones
               PROVE
        LET key == <<t[1], t[3]>>
        IN  IF t[2] = "raw_event"
            THEN /\ key \notin DOMAIN db.raw_events \cup DOMAIN db.raw_event_content
                 /\ \A e \in DOMAIN db.memory_sources : <<e[1], e[3]>> # key
                 /\ \A m \in DOMAIN db.memories : m[1] = t[1] =>
                      t[3] \notin db.memories[m].dependency_fingerprint.sources
            ELSE /\ key \notin DOMAIN db.memories
                 /\ \A e \in DOMAIN db.memory_sources : <<e[1], e[2]>> # key
    BY DEF TypeOK, Consistent, ErasureComplete
  <2> DEFINE key == <<t[1], t[3]>>
  <2>1. key \notin IF t[2] = "raw_event" THEN DOMAIN db.raw_events ELSE DOMAIN db.memories
    BY DEF DbConsistent
  <2>2. DOMAIN db.raw_event_content \subseteq DOMAIN db.raw_events
    BY DEF DbConsistent
  <2>3. \A e \in DOMAIN db.memory_sources : <<e[1], e[2]>> \in DOMAIN db.memories
    BY DEF DbConsistent
  <2>4. ASSUME NEW m \in DOMAIN db.memories
        PROVE  /\ db.memories[<<m[1], m[2]>>].dependency_fingerprint.sources
                    = Lineage(db, m[1], m[2])
               /\ \A x \in Lineage(db, m[1], m[2]) :
                    <<m[1], x>> \in DOMAIN db.raw_events
    <3>1. LineageOk(db, m[1], m[2])
      BY DEF DbConsistent
    <3>2. db.memories[<<m[1], m[2]>>].dependency_fingerprint
            = DependencyFingerprint(m[1], db.memories[<<m[1], m[2]>>].kind,
                                    Lineage(db, m[1], m[2]))
      BY <3>1 DEF LineageOk
    <3>3. db.memories[<<m[1], m[2]>>].dependency_fingerprint.sources
            = Lineage(db, m[1], m[2])
      BY <3>2 DEF DependencyFingerprint
    <3>4. \A x \in Lineage(db, m[1], m[2]) : <<m[1], x>> \in DOMAIN db.raw_events
      BY <3>1 DEF LineageOk
    <3>5. QED
      BY <3>3, <3>4
  <2>5. \A e \in DOMAIN db.memory_sources : <<e[1], e[3]>> \in DOMAIN db.raw_events
    <3>1. SUFFICES ASSUME NEW e \in DOMAIN db.memory_sources
                   PROVE  <<e[1], e[3]>> \in DOMAIN db.raw_events
      OBVIOUS
    <3>2. e \in Scopes \X Ids \X Ids
      BY DEF DbType, IsTable
    <3>3. e = <<e[1], e[2], e[3]>> /\ e[3] \in Ids
      BY <3>2
    <3>4. e[3] \in Lineage(db, e[1], e[2])
      BY <3>3 DEF Lineage
    <3>5. <<e[1], e[2]>> \in DOMAIN db.memories
      BY <2>3
    <3>6. QED
      BY <3>4, <3>5, <2>4
  <2>6. \A m \in DOMAIN db.memories : m = <<m[1], m[2]>>
    BY DEF DbType, IsTable, Key
  <2>7. QED
    BY <2>1, <2>2, <2>3, <2>4, <2>5, <2>6
<1>2. QED
  BY <1>1, TypeCorrect, Consistency, PTL

\* Recall never hands out a memory beyond what one of its sources allows.
THEOREM Ceilings == Spec => []SourceCeilings
<1>1. TypeOK /\ Consistent => SourceCeilings
  <2> SUFFICES ASSUME DbType(db), DbConsistent(db), NEW s \in Scopes,
                      NEW as_of \in 0..MaxTime,
                      NEW m \in RecallCandidates(db, s, as_of, {}),
                      NEW x \in db.memories[<<s, m>>].dependency_fingerprint.sources
               PROVE
        /\ <<s, x>> \in DOMAIN db.raw_events
        /\ db.memories[<<s, m>>].trust <= db.raw_events[<<s, x>>].trust
        /\ as_of < db.memories[<<s, m>>].created_at + db.raw_events[<<s, x>>].recall_for
        /\ db.memories[<<s, m>>].clear_until
             <= db.memories[<<s, m>>].created_at + db.raw_events[<<s, x>>].clear_for
    BY DEF TypeOK, Consistent, SourceCeilings
  <2> DEFINE row == db.memories[<<s, m>>]
             snapshot(y) == db.memory_sources[<<s, m, y>>]
             clears == {snapshot(y).clear_for : y \in Lineage(db, s, m)}
             recalls == {snapshot(y).recall_for : y \in Lineage(db, s, m)}
  <2>1. <<s, m>> \in DOMAIN db.memories /\ row.recall_until > as_of
    BY DEF RecallCandidates, MemoriesIn
  <2>2. row \in MemoryRow
    BY <2>1 DEF DbType, IsTable
  <2>3. MemoryRecordOk(db, s, m) /\ LineageOk(db, s, m)
    BY <2>1 DEF DbConsistent
  <2>4. row.dependency_fingerprint.sources = Lineage(db, s, m)
    BY <2>3 DEF LineageOk, DependencyFingerprint
  <2>5. x \in Lineage(db, s, m)
    BY <2>4
  <2>6. /\ <<s, x>> \in DOMAIN db.raw_events
        /\ snapshot(x) = SnapshotOf(db.raw_events[<<s, x>>])
        /\ row.trust <= snapshot(x).trust
    BY <2>3, <2>5 DEF LineageOk, MemoryRecordOk
  <2>7. /\ row.clear_until = row.created_at + Min(clears)
        /\ row.recall_until = row.created_at + Min(recalls)
    BY <2>3 DEF MemoryRecordOk, Deadline
  <2>8. \A y \in Lineage(db, s, m) : snapshot(y) \in Snapshot
    BY DEF Lineage, DbType, IsTable
  <2>9. clears \in SUBSET Nat /\ recalls \in SUBSET Nat
    <3>1. \A y \in Lineage(db, s, m) :
            snapshot(y).clear_for \in Nat /\ snapshot(y).recall_for \in Nat
      <4>1. \A r \in Snapshot : r.clear_for \in Nat /\ r.recall_for \in Nat
        BY BoundAssumption DEF Snapshot
      <4>2. QED
        BY <4>1, <2>8
    <3> HIDE DEF snapshot
    <3>2. QED
      BY <3>1
  <2>10. snapshot(x).clear_for \in clears /\ snapshot(x).recall_for \in recalls
    BY <2>5
  <2> HIDE DEF clears, recalls, snapshot, row
  <2>11. /\ Min(clears) <= snapshot(x).clear_for
         /\ Min(recalls) <= snapshot(x).recall_for
         /\ Min(clears) \in Nat /\ Min(recalls) \in Nat
    BY <2>9, <2>10, MinNat
  <2>12. /\ row.created_at \in Nat /\ row.recall_until \in Nat
         /\ row.clear_until \in Nat
    BY <2>2, BoundAssumption DEF MemoryRow
  <2>13. snapshot(x).clear_for \in Nat /\ snapshot(x).recall_for \in Nat
    BY <2>9, <2>10
  <2>14. /\ as_of < row.created_at + snapshot(x).recall_for
         /\ row.clear_until <= row.created_at + snapshot(x).clear_for
    BY <2>1, <2>7, <2>11, <2>12, <2>13, BoundAssumption DEF row
  <2>15. QED
    BY <2>6, <2>14 DEF SnapshotOf, row, snapshot
<1>2. QED
  BY <1>1, TypeCorrect, Consistency, PTL

-----------------------------------------------------------------------------
(* Tombstones are irreversible.                                            *)

\* Governance adds tombstones and keeps the old ones; it adds no event and no
\* memory.
LEMMA GovernShrinks ==
    ASSUME NEW d, DbType(d), DbConsistent(d), NEW c \in GovernanceCommand,
           GovernOutcome(d, c) = "done",
           NEW e, e = GovernEffect(d, c)
    PROVE  /\ DOMAIN e.raw_events \subseteq DOMAIN d.raw_events
           /\ DOMAIN e.memories \subseteq DOMAIN d.memories
           /\ DOMAIN d.tombstones \subseteq DOMAIN e.tombstones
           /\ \A t \in DOMAIN d.tombstones : e.tombstones[t] = d.tombstones[t]
<1>0. IsDb(d)
  BY DEF DbType
<1>1. CASE c.action = "seal"
  BY <1>0, <1>1 DEF IsDb, GovernEffect, SetStatus
<1>2. CASE c.action = "restore"
  BY <1>0, <1>2 DEF IsDb, GovernEffect, SetStatus
<1>3. CASE c.action \notin {"seal", "restore"}
  <2>1. ~TombstoneClash(d, c)
    BY GovernDone, NoClash
  <2>2. \A t \in DOMAIN d.tombstones : t \notin DOMAIN NewTombstones(d, c)
    BY <2>1 DEF TombstoneClash
  <2>3. e.tombstones = Insert(d.tombstones, NewTombstones(d, c))
    BY <1>0, <1>3 DEF IsDb, GovernEffect, Erase
  <2>4. /\ DOMAIN e.raw_events \subseteq DOMAIN d.raw_events
        /\ DOMAIN e.memories \subseteq DOMAIN d.memories
    BY <1>0, <1>3 DEF IsDb, GovernEffect, Erase, Delete, Restrict
  <2>5. QED
    BY <2>2, <2>3, <2>4 DEF Insert
<1>4. QED
  BY <1>1, <1>2, <1>3

\* No step brings back what a tombstone stands for.
THEOREM TombstonesFinal == Spec => NoResurrection
<1>1. TypeOK /\ Consistent /\ [Next]_vars => [Irreversible]_vars
  <2> SUFFICES ASSUME DbType(db), DbConsistent(db), [Next]_vars, ~UNCHANGED vars
               PROVE  Irreversible
    BY DEF TypeOK, Consistent
  <2>0. CASE db' = db
    BY <2>0 DEF Irreversible
  <2>1. ASSUME NEW draft \in EventDrafts, NEW now \in Clocks, IngestEvent(draft, now),
               db' # db
        PROVE  Irreversible
    <3>1. IngestOutcome(db, draft) = "created" /\ db' = IngestEffect(db, draft, now)
      BY <2>1 DEF IngestEvent
    <3>2. IsDb(db)
      BY DEF DbType
    <3>3. /\ db'.raw_events = Insert(db.raw_events,
                                     Row(EventKey(draft), NewEventRow(draft, now)))
          /\ db'.memories = db.memories /\ db'.tombstones = db.tombstones
      BY <3>1, <3>2 DEF IsDb, IngestEffect
    <3>4. \A t \in DOMAIN db.tombstones :
            t[1] = draft.scope /\ t[3] = draft.event_id => t[2] # "raw_event"
      BY <3>1, IngestCreated
    <3>5. DOMAIN db'.raw_events = DOMAIN db.raw_events \cup {EventKey(draft)}
      BY <3>3 DEF Insert, Row
    <3>6. QED
      BY <3>3, <3>4, <3>5 DEF Irreversible, EventKey
  <2>2. ASSUME NEW draft \in MemoryDrafts, MaterializeOnce(draft), db' # db
        PROVE  Irreversible
    <3>1. MaterializeOutcome(db, draft) = "created" /\ db' = MaterializeEffect(db, draft)
      BY <2>2 DEF MaterializeOnce
    <3>2. IsDb(db)
      BY DEF DbType
    <3> DEFINE key == MemoryKey(draft)
    <3>3. /\ db'.memories = Insert(db.memories, Row(key, NewMemoryRow(db, draft)))
          /\ db'.raw_events = db.raw_events /\ db'.tombstones = db.tombstones
      BY <3>1, <3>2 DEF IsDb, MaterializeEffect
    <3>4. /\ \A t \in DOMAIN db.tombstones :
               t[1] = draft.scope /\ t[3] = draft.memory_id => t[2] # "memory"
          /\ \A t \in DOMAIN db.tombstones :
               t[1] = draft.scope /\ t[2] = "memory" =>
                   db.tombstones[t] # DraftFingerprint(draft)
      BY <3>1, MaterializeCreated
    <3>5. /\ DOMAIN db'.memories = DOMAIN db.memories \cup {key}
          /\ db'.memories[key] = NewMemoryRow(db, draft)
      BY <3>3 DEF Insert, Row
    <3>6. db'.memories[key].dependency_fingerprint = DraftFingerprint(draft)
      BY <3>5 DEF NewMemoryRow
    <3>7. DraftFingerprint(draft) # Null
      BY NullAssumption, DraftSources
         DEF DraftFingerprint, DependencyFingerprint, Fingerprint, MemoryDraft
    <3>8. \A t \in DOMAIN db.tombstones :
            t[1] = draft.scope => db.tombstones[t] # DraftFingerprint(draft)
      <4>1. \A t \in DOMAIN db.tombstones : t \in Scopes \X EntityType \X Ids
        BY DEF DbType, IsTable
      <4>2. \A t \in DOMAIN db.tombstones : t[2] \in EntityType
        BY <4>1
      <4>3. \A t \in DOMAIN db.tombstones :
              t[2] = "raw_event" => db.tombstones[t] = Null
        BY DEF DbConsistent, TombstoneOk
      <4>4. QED
        BY <3>4, <3>7, <4>2, <4>3 DEF EntityType
    <3>9. key[1] = draft.scope /\ key[2] = draft.memory_id
      BY DEF MemoryKey
    <3> HIDE DEF key
    <3>10. <<key[1], "memory", key[2]>> \notin DOMAIN db.tombstones
      BY <3>4, <3>9
    <3>11. QED
      BY <3>3, <3>5, <3>6, <3>8, <3>9, <3>10 DEF Irreversible
  <2>3. ASSUME NEW c \in GovernanceCommand, Govern(c), db' # db
        PROVE  Irreversible
    <3>1. GovernOutcome(db, c) = "done" /\ db' = GovernEffect(db, c)
      BY <2>3 DEF Govern
    <3>2. QED
      BY <3>1, GovernShrinks DEF Irreversible
  <2>4. ASSUME NEW as_of \in Sweeps, ExpireRawContent(as_of), db' # db
        PROVE  Irreversible
    <3>1. db' = ExpireEffect(db, as_of)
      BY <2>4 DEF ExpireRawContent
    <3>2. IsDb(db)
      BY DEF DbType
    <3>3. /\ DOMAIN db'.raw_events = DOMAIN db.raw_events
          /\ db'.memories = db.memories /\ db'.tombstones = db.tombstones
      BY <3>1, <3>2 DEF IsDb, ExpireEffect
    <3>4. QED
      BY <3>3 DEF Irreversible
  <2>5. QED
    BY <2>0, <2>1, <2>2, <2>3, <2>4 DEF Next, vars
<1>2. QED
  BY <1>1, TypeCorrect, Consistency, PTL DEF Spec, NoResurrection

-----------------------------------------------------------------------------
(* Rows on record are not rewritten, they do not disappear without a       *)
(* tombstone, and so a retry of an ingest is recognised for ever.          *)


\* Nothing disappears without a tombstone, and no tombstone disappears.
Kept(d, e) ==
    /\ \A k \in DOMAIN d.raw_events :
         k \in DOMAIN e.raw_events \/ <<k[1], "raw_event", k[2]>> \in DOMAIN e.tombstones
    /\ \A k \in DOMAIN d.memories :
         k \in DOMAIN e.memories \/ <<k[1], "memory", k[2]>> \in DOMAIN e.tombstones
    /\ DOMAIN d.tombstones \subseteq DOMAIN e.tombstones

\* A command removes what it leaves a tombstone of.
LEMMA GovernKeeps ==
    ASSUME NEW d, DbType(d), NEW c \in GovernanceCommand,
           NEW e, e = GovernEffect(d, c)
    PROVE  Kept(d, e)
<1>0. IsDb(d)
  BY DEF DbType
<1>1. CASE c.action = "seal"
  BY <1>0, <1>1 DEF IsDb, GovernEffect, SetStatus, Kept
<1>2. CASE c.action = "restore"
  BY <1>0, <1>2 DEF IsDb, GovernEffect, SetStatus, Kept
<1>3. CASE c.action \notin {"seal", "restore"}
  <2> DEFINE events == IF c.entity_type = "raw_event"
                       THEN {<<c.scope, c.entity_id>>} ELSE {}
             gone == {<<c.scope, m>> : m \in ErasedMemories(d, c)}
             stones == DOMAIN NewTombstones(d, c)
  <2>1. /\ e.raw_events = Delete(d.raw_events, events)
        /\ e.memories = Delete(d.memories, gone)
        /\ e.tombstones = Insert(d.tombstones, NewTombstones(d, c))
    BY <1>0, <1>3 DEF IsDb, GovernEffect, Erase
  <2>2. /\ \A m \in ErasedMemories(d, c) : <<c.scope, "memory", m>> \in stones
        /\ c.entity_type = "raw_event" =>
             <<c.scope, "raw_event", c.entity_id>> \in stones
    BY DEF NewTombstones
  <2> HIDE DEF stones
  <2>3. \A k \in gone : <<k[1], "memory", k[2]>> \in stones
    BY <2>2
  <2>4. \A k \in events : <<k[1], "raw_event", k[2]>> \in stones
    BY <2>2
  <2> HIDE DEF gone, events
  <2>5. /\ DOMAIN e.raw_events = DOMAIN d.raw_events \ events
        /\ DOMAIN e.memories = DOMAIN d.memories \ gone
        /\ DOMAIN e.tombstones = DOMAIN d.tombstones \cup stones
    BY <2>1 DEF Delete, Restrict, Insert, stones
  <2>6. QED
    BY <2>3, <2>4, <2>5 DEF Kept
<1>4. QED
  BY <1>1, <1>2, <1>3

\* No operation makes a row disappear without a tombstone.
LEMMA OperationKeeps ==
    ASSUME TypeOK, [Next]_vars
    PROVE  Kept(db, db')
<1>0. DbType(db) /\ IsDb(db)
  BY DEF TypeOK, DbType
<1>1. CASE db' = db
  BY <1>1 DEF Kept
<1>2. ASSUME NEW draft \in EventDrafts, NEW now \in Clocks, IngestEvent(draft, now),
             db' # db
      PROVE  Kept(db, db')
  BY <1>0, <1>2 DEF IngestEvent, IngestEffect, IsDb, Insert, Kept
<1>3. ASSUME NEW draft \in MemoryDrafts, MaterializeOnce(draft), db' # db
      PROVE  Kept(db, db')
  BY <1>0, <1>3 DEF MaterializeOnce, MaterializeEffect, IsDb, Insert, Kept
<1>4. ASSUME NEW c \in GovernanceCommand, Govern(c), db' # db
      PROVE  Kept(db, db')
  BY <1>0, <1>4, GovernKeeps DEF Govern
<1>5. ASSUME NEW as_of \in Sweeps, ExpireRawContent(as_of), db' # db
      PROVE  Kept(db, db')
  BY <1>0, <1>5 DEF ExpireRawContent, ExpireEffect, IsDb, Kept
<1>6. QED
  BY <1>1, <1>2, <1>3, <1>4, <1>5 DEF Next, vars

-----------------------------------------------------------------------------
(* Rows that stay are not rewritten.                                       *)

\* RowsKept for two databases.
Unwritten(d, e) ==
    /\ \A k \in DOMAIN d.raw_events \cap DOMAIN e.raw_events :
         /\ \/ e.raw_events[k] = d.raw_events[k]
            \/ e.raw_events[k] = [d.raw_events[k] EXCEPT !.status = "expired"]
         /\ k \notin DOMAIN d.raw_event_content => k \notin DOMAIN e.raw_event_content
    /\ \A m \in DOMAIN d.memories \cap DOMAIN e.memories :
         /\ \E status \in MemoryStatus :
              e.memories[m] = [d.memories[m] EXCEPT !.status = status]
         /\ Lineage(e, m[1], m[2]) = Lineage(d, m[1], m[2])

\* A memory that is left alone is one whose status is set to what it is.
LEMMA SameMemories ==
    ASSUME NEW d, DbType(d), NEW m \in DOMAIN d.memories
    PROVE  /\ m = <<m[1], m[2]>>
           /\ \E status \in MemoryStatus :
                d.memories[m] = [d.memories[m] EXCEPT !.status = status]
<1>1. m \in Key /\ d.memories[m] \in MemoryRow
  BY DEF DbType, IsTable
<1>2. /\ d.memories[m].status \in MemoryStatus
      /\ d.memories[m] = [d.memories[m] EXCEPT !.status = d.memories[m].status]
  BY <1>1 DEF MemoryRow
<1>3. QED
  BY <1>1, <1>2 DEF Key

\* An accepted ingest adds a row and rewrites none.
LEMMA IngestUnwritten ==
    ASSUME NEW d, DbType(d), NEW draft \in EventDrafts, NEW now \in Clocks,
           IngestOutcome(d, draft) = "created",
           NEW e, e = IngestEffect(d, draft, now)
    PROVE  Unwritten(d, e)
<1>1. /\ e.raw_events = Insert(d.raw_events, Row(EventKey(draft), NewEventRow(draft, now)))
      /\ e.raw_event_content = Insert(d.raw_event_content,
                                      Row(EventKey(draft), draft.content))
      /\ e.memories = d.memories /\ e.memory_sources = d.memory_sources
  BY DEF DbType, IsDb, IngestEffect
<1>2. EventKey(draft) \notin DOMAIN d.raw_events
  BY IngestCreated
<1>3. \A k \in DOMAIN d.raw_events :
        /\ e.raw_events[k] = d.raw_events[k]
        /\ k \in DOMAIN e.raw_event_content => k \in DOMAIN d.raw_event_content
  BY <1>1, <1>2 DEF Insert, Row
<1>4. \A s, i : Lineage(e, s, i) = Lineage(d, s, i)
  BY <1>1 DEF Lineage
<1>5. \A m \in DOMAIN d.memories : \E status \in MemoryStatus :
        e.memories[m] = [d.memories[m] EXCEPT !.status = status]
  BY <1>1, SameMemories
<1>6. QED
  BY <1>1, <1>3, <1>4, <1>5 DEF Unwritten

\* Neither does a materialization.
LEMMA MaterializeUnwritten ==
    ASSUME NEW d, DbType(d), NEW draft \in MemoryDrafts,
           MaterializeOutcome(d, draft) = "created",
           NEW e, e = MaterializeEffect(d, draft)
    PROVE  Unwritten(d, e)
<1> DEFINE key == MemoryKey(draft)
<1>1. /\ e.raw_events = d.raw_events /\ e.raw_event_content = d.raw_event_content
      /\ e.memories = Insert(d.memories, Row(key, NewMemoryRow(d, draft)))
      /\ e.memory_sources = Insert(d.memory_sources, NewLineage(d, draft))
  BY DEF DbType, IsDb, MaterializeEffect
<1>2. key \notin DOMAIN d.memories
  BY MaterializeCreated
<1>3. \A m \in DOMAIN d.memories : e.memories[m] = d.memories[m]
  BY <1>1, <1>2 DEF Insert, Row
<1>4. \A edge \in DOMAIN NewLineage(d, draft) : <<edge[1], edge[2]>> = key
  BY DEF NewLineage, MemoryKey
<1>5. DOMAIN e.memory_sources = DOMAIN d.memory_sources \cup DOMAIN NewLineage(d, draft)
  BY <1>1 DEF Insert
<1>6. ASSUME NEW m \in DOMAIN d.memories
      PROVE  Lineage(e, m[1], m[2]) = Lineage(d, m[1], m[2])
  <2>1. m = <<m[1], m[2]>>
    BY SameMemories
  <2>2. \A x : <<m[1], m[2], x>> \notin DOMAIN NewLineage(d, draft)
    BY <1>2, <1>4, <2>1
  <2>3. QED
    BY <1>5, <2>2 DEF Lineage
<1> HIDE DEF key
<1>7. \A m \in DOMAIN d.memories : \E status \in MemoryStatus :
        e.memories[m] = [d.memories[m] EXCEPT !.status = status]
  BY <1>3, SameMemories
<1>8. \A m \in DOMAIN d.memories : Lineage(e, m[1], m[2]) = Lineage(d, m[1], m[2])
  BY <1>6
<1>9. QED
  BY <1>1, <1>7, <1>8 DEF Unwritten

\* A sweep changes the status of receipts and removes bodies.
LEMMA ExpireUnwritten ==
    ASSUME NEW d, DbType(d), NEW as_of, NEW e, e = ExpireEffect(d, as_of)
    PROVE  Unwritten(d, e)
<1> DEFINE keys == Expirable(d, as_of)
<1>1. /\ e.raw_events = [k \in DOMAIN d.raw_events |->
            IF k \in keys THEN [d.raw_events[k] EXCEPT !.status = "expired"]
                           ELSE d.raw_events[k]]
      /\ e.raw_event_content = Delete(d.raw_event_content, keys)
      /\ e.memories = d.memories /\ e.memory_sources = d.memory_sources
  BY DEF DbType, IsDb, ExpireEffect
<1> HIDE DEF keys
<1>2. DOMAIN e.raw_event_content \subseteq DOMAIN d.raw_event_content
  BY <1>1 DEF Delete, Restrict
<1>3. \A s, i : Lineage(e, s, i) = Lineage(d, s, i)
  BY <1>1 DEF Lineage
<1>4. \A m \in DOMAIN d.memories : \E status \in MemoryStatus :
        e.memories[m] = [d.memories[m] EXCEPT !.status = status]
  BY <1>1, SameMemories
<1>5. QED
  BY <1>1, <1>2, <1>3, <1>4 DEF Unwritten

\* A command changes the status of a memory, or erases rows.
LEMMA GovernUnwritten ==
    ASSUME NEW d, DbType(d), NEW c \in GovernanceCommand,
           NEW e, e = GovernEffect(d, c)
    PROVE  Unwritten(d, e)
<1>0. IsDb(d)
  BY DEF DbType
<1>1. ASSUME NEW status \in MemoryStatus,
             e.raw_events = d.raw_events, e.raw_event_content = d.raw_event_content,
             e.memories = [d.memories EXCEPT ![<<c.scope, c.entity_id>>].status = status],
             e.memory_sources = d.memory_sources
      PROVE  Unwritten(d, e)
  <2>1. ASSUME NEW m \in DOMAIN d.memories
        PROVE  \E x \in MemoryStatus : e.memories[m] = [d.memories[m] EXCEPT !.status = x]
    <3>1. CASE m = <<c.scope, c.entity_id>>
      BY <1>1, <2>1, <3>1
    <3>2. CASE m # <<c.scope, c.entity_id>>
      BY <1>1, <2>1, <3>2, SameMemories
    <3>3. QED
      BY <3>1, <3>2
  <2>2. \A s, i : Lineage(e, s, i) = Lineage(d, s, i)
    BY <1>1 DEF Lineage
  <2>3. QED
    BY <1>1, <2>1, <2>2 DEF Unwritten
<1>2. CASE c.action = "seal"
  BY <1>0, <1>1, <1>2 DEF IsDb, GovernEffect, SetStatus, MemoryStatus
<1>3. CASE c.action = "restore"
  BY <1>0, <1>1, <1>3 DEF IsDb, GovernEffect, SetStatus, MemoryStatus
<1>4. CASE c.action \notin {"seal", "restore"}
  <2> DEFINE events == IF c.entity_type = "raw_event"
                       THEN {<<c.scope, c.entity_id>>} ELSE {}
             gone == {<<c.scope, m>> : m \in ErasedMemories(d, c)}
             edges == {k \in DOMAIN d.memory_sources :
                         k[1] = c.scope /\ k[2] \in ErasedMemories(d, c)}
  <2>1. /\ e.raw_events = Delete(d.raw_events, events)
        /\ e.raw_event_content = Delete(d.raw_event_content, events)
        /\ e.memories = Delete(d.memories, gone)
        /\ e.memory_sources = Delete(d.memory_sources, edges)
    BY <1>0, <1>4 DEF IsDb, GovernEffect, Erase
  <2>2. \A k \in edges : <<k[1], k[2]>> \in gone
    OBVIOUS
  <2> HIDE DEF gone, events, edges
  <2>3. /\ DOMAIN e.raw_event_content \subseteq DOMAIN d.raw_event_content
        /\ \A k \in DOMAIN e.raw_events : e.raw_events[k] = d.raw_events[k]
        /\ DOMAIN e.memories = DOMAIN d.memories \ gone
        /\ \A m \in DOMAIN e.memories : e.memories[m] = d.memories[m]
        /\ DOMAIN e.memory_sources = DOMAIN d.memory_sources \ edges
    BY <2>1 DEF Delete, Restrict
  <2>4. ASSUME NEW m \in DOMAIN d.memories, m \in DOMAIN e.memories
        PROVE  Lineage(e, m[1], m[2]) = Lineage(d, m[1], m[2])
    <3>1. <<m[1], m[2]>> \notin gone
      BY <2>3, <2>4, SameMemories
    <3>2. \A x : <<m[1], m[2], x>> \notin edges
      BY <2>2, <3>1
    <3>3. QED
      BY <2>3, <3>2 DEF Lineage
  <2>5. ASSUME NEW m \in DOMAIN d.memories, m \in DOMAIN e.memories
        PROVE  \E status \in MemoryStatus :
                 e.memories[m] = [d.memories[m] EXCEPT !.status = status]
    <3>1. e.memories[m] = d.memories[m]
      BY <2>3, <2>5
    <3>2. QED
      BY <3>1, SameMemories
  <2>6. QED
    BY <2>3, <2>4, <2>5 DEF Unwritten
<1>5. QED
  BY <1>2, <1>3, <1>4

\* No operation rewrites a row.
LEMMA OperationUnwritten ==
    ASSUME TypeOK, [Next]_vars
    PROVE  Unwritten(db, db')
<1>0. DbType(db)
  BY DEF TypeOK
<1>1. CASE db' = db
  <2>1. \A s, i : Lineage(db', s, i) = Lineage(db, s, i)
    BY <1>1 DEF Lineage
  <2>2. \A m \in DOMAIN db.memories : \E status \in MemoryStatus :
          db.memories[m] = [db.memories[m] EXCEPT !.status = status]
    BY <1>0, SameMemories
  <2>3. QED
    BY <1>1, <2>1, <2>2 DEF Unwritten
<1>2. ASSUME NEW draft \in EventDrafts, NEW now \in Clocks, IngestEvent(draft, now),
             db' # db
      PROVE  Unwritten(db, db')
  BY <1>0, <1>2, IngestUnwritten DEF IngestEvent
<1>3. ASSUME NEW draft \in MemoryDrafts, MaterializeOnce(draft), db' # db
      PROVE  Unwritten(db, db')
  BY <1>0, <1>3, MaterializeUnwritten DEF MaterializeOnce
<1>4. ASSUME NEW c \in GovernanceCommand, Govern(c), db' # db
      PROVE  Unwritten(db, db')
  BY <1>0, <1>4, GovernUnwritten DEF Govern
<1>5. ASSUME NEW as_of \in Sweeps, ExpireRawContent(as_of), db' # db
      PROVE  Unwritten(db, db')
  BY <1>0, <1>5, ExpireUnwritten DEF ExpireRawContent
<1>6. QED
  BY <1>1, <1>2, <1>3, <1>4, <1>5 DEF Next, vars

\* A receipt that is on record answers a retry as it answered before.
LEMMA RetryAnswered ==
    ASSUME NEW d, NEW e, DbType(d), DbConsistent(e), Kept(d, e), Unwritten(d, e),
           NEW draft \in EventDrafts, IngestOutcome(d, draft) = "replayed"
    PROVE  IngestOutcome(e, draft) \in {"replayed", "EntityDeleted"}
<1> DEFINE key == EventKey(draft)
           found == TombstonesById(e, draft.scope, draft.event_id)
<1>1. /\ ~(RawExpiresAt(draft) > MaxTime)
      /\ key \in DOMAIN d.raw_events
      /\ IsIdentical(d.raw_events[key], draft)
  BY DEF IngestOutcome
<1>2. ~Corrupt(e, found)
  BY TombstonesSound DEF TombstonesById
<1>3. CASE \E t \in found : t[2] = "raw_event"
  BY <1>1, <1>2, <1>3 DEF IngestOutcome
<1>4. CASE ~\E t \in found : t[2] = "raw_event"
  <2>1. <<draft.scope, "raw_event", draft.event_id>> \notin DOMAIN e.tombstones
    BY <1>4 DEF TombstonesById
  <2>2. key \in DOMAIN e.raw_events
    BY <1>1, <2>1 DEF Kept, EventKey
  <2>3. ReceiptOk(e, key)
    BY <2>2 DEF DbConsistent
  <2>4. \/ e.raw_events[key] = d.raw_events[key]
        \/ e.raw_events[key] = [d.raw_events[key] EXCEPT !.status = "expired"]
    BY <1>1, <2>2 DEF Unwritten
  <2>5. d.raw_events[key] \in EventRow
    BY <1>1 DEF DbType, IsTable
  <2>6. IsIdentical(e.raw_events[key], draft)
    BY <1>1, <2>4, <2>5 DEF IsIdentical, EventRow
  <2>7. QED
    BY <1>1, <1>2, <1>4, <2>2, <2>3, <2>6 DEF IngestOutcome
<1>5. QED
  BY <1>3, <1>4

-----------------------------------------------------------------------------
(* Theorems.                                                               *)

\* While an entity stays on record its row changes at most in its status, its
\* lineage is fixed, and an expired body does not come back.
THEOREM RowsNeverRewritten == Spec => NoRewrite
<1>1. TypeOK /\ [Next]_vars => [RowsKept]_vars
  BY OperationUnwritten DEF Unwritten, RowsKept
<1>2. QED
  BY <1>1, TypeCorrect, PTL DEF Spec, NoRewrite

\* A host that lost the answer to an ingest may retry at any time, whatever has
\* happened since: it is never told of a conflict and never makes a second row.
THEOREM RetriesSafe == Spec => IngestRetrySafe
<1>1. TypeOK /\ Consistent' /\ [Next]_vars => [RetriesAnswered]_vars
  BY OperationKeeps, OperationUnwritten, RetryAnswered
     DEF TypeOK, Consistent, RetriesAnswered
<1>2. QED
  BY <1>1, TypeCorrect, Consistency, PTL DEF Spec, IngestRetrySafe
=============================================================================
