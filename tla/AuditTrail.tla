----------------------------- MODULE AuditTrail -----------------------------
(***************************************************************************)
(* The audit log with the two columns that Store leaves out: the random    *)
(* identifier of a record, and its time, which the caller of the operation *)
(* claims (the clock at ingest, created_at of a memory, occurred_at of a   *)
(* command, as_of of a sweep).  TrueHeart.audit sorts by them and returns  *)
(* at most limit records; several records of one sweep share their time.   *)
(***************************************************************************)
EXTENDS Store, Paging, SequencesExt

CONSTANTS
    AuditIds,     \* the uuids, in their order as text; the bound on records
    Claims        \* the occurred_at instants of the commands a host sends

ASSUME TrailAssumption == AuditIds \subseteq Nat /\ Claims \subseteq 0..MaxTime

VARIABLE trail    \* the rows of audit_log

trailVars == <<db, trail>>

TrailInit == Init /\ trail = {}

Timed(record, audit_id, occurred_at) ==
    [audit_id |-> audit_id, occurred_at |-> occurred_at, record |-> record]

\* uuid4 never repeats an identifier (a collision would fail the INSERT).
FreshIds == AuditIds \ {r.audit_id : r \in trail}

\* The rows the INSERTs of one transaction add, if it commits a change.
Insertions(changed, records, occurred_at) ==
    IF changed
    THEN \E id \in [records -> FreshIds] :
            /\ IsInjective(id)
            /\ trail' = trail \cup {Timed(r, id[r], occurred_at) : r \in records}
    ELSE UNCHANGED trail

\* Mutation: a replay is recorded as well.
RecordIngestAgain(draft, now) ==
    /\ IngestEvent(draft, now)
    /\ Insertions(IngestOutcome(db, draft) \in {"created", "replayed"},
              {AuditRecord(draft.scope, "ingest", "raw_event", draft.event_id,
                           "event ingested")}, now)

RecordIngest(draft, now) ==
    /\ IngestEvent(draft, now)
    /\ Insertions(IngestOutcome(db, draft) = "created",
              {AuditRecord(draft.scope, "ingest", "raw_event", draft.event_id,
                           "event ingested")}, now)

\* _insert_materialize_audit.
RecordMaterialize(draft) ==
    /\ MaterializeOnce(draft)
    /\ Insertions(MaterializeOutcome(db, draft) = "created",
              {AuditRecord(draft.scope, "materialize", "memory", draft.memory_id,
                           "memory materialized")}, draft.created_at)

\* _insert_governance_audit: one record, whatever a deletion takes along.
RecordGovern(c, occurred_at) ==
    /\ Govern(c)
    /\ Insertions(GovernOutcome(db, c) = "done", {GovernanceAudit(c)}, occurred_at)

\* Mutation: a sweep records every receipt that is due, with or without a body.
RecordSweepAgain(as_of) ==
    /\ ExpireRawContent(as_of)
    /\ Insertions(ExpireOutcome(db) = "done",
              {AuditRecord(key[1], "expire", "raw_event", key[2],
                           "raw content expired") : key \in DueReceipts(db, as_of)},
              as_of)

\* One record for every expired body.
RecordExpire(as_of) ==
    /\ ExpireRawContent(as_of)
    /\ Insertions(ExpireOutcome(db) = "done",
              {AuditRecord(key[1], "expire", "raw_event", key[2],
                           "raw content expired") : key \in Expirable(db, as_of)},
              as_of)

TrailNext ==
    \/ \E draft \in EventDrafts, now \in Clocks : RecordIngest(draft, now)
    \/ \E draft \in MemoryDrafts : RecordMaterialize(draft)
    \/ \E c \in GovernanceCommand, at \in Claims : RecordGovern(c, at)
    \/ \E as_of \in Sweeps : RecordExpire(as_of)

TrailSpec == TrailInit /\ [][TrailNext]_trailVars

-----------------------------------------------------------------------------
(* audit                                                                   *)

Descending(rows, column) == {p \in Pairs(rows) : p[1][column] > p[2][column]}

\* By identifier and then by claimed time, with reverse=True.
Sorted(rows) ==
    StableSort(StableSort(rows, Descending(rows, "audit_id")),
               Descending(rows, "occurred_at"))

\* Mutation: the rows are cut off before they are sorted.
TruncateFirst(rows, limit) == Sorted(Take(rows, limit))

\* The records of the scope as they came from the table.
AuditPage(rows, limit) == Take(Sorted(rows), limit)

RowOrders(scope) == SetToSeqs({r \in trail : r.record.scope = scope})
-----------------------------------------------------------------------------
Told(record) == {r \in trail : r.record = record}

\* The trail dates what is on record.  A receipt has one ingest record, of the
\* instant the receipt still gives as ingested_at however often the ingest was
\* retried at later clocks; once its body is gone it has one expiry, which no
\* sweep dated before the body was due, and none while the body is there; a
\* memory has one materialize record, of its created_at.
RecordsDated ==
    /\ \A key \in DOMAIN db.raw_events :
         LET receipt == db.raw_events[key]
             ingest == AuditRecord(key[1], "ingest", "raw_event", key[2], "event ingested")
             expire == AuditRecord(key[1], "expire", "raw_event", key[2],
                                   "raw content expired")
         IN  /\ \E r \in trail : Told(ingest) = {r} /\ r.occurred_at = receipt.ingested_at
             /\ IF key \in DOMAIN db.raw_event_content THEN Told(expire) = {}
                ELSE \E r \in trail :
                        Told(expire) = {r} /\ r.occurred_at >= receipt.raw_expires_at
    /\ \A key \in DOMAIN db.memories :
         LET materialize == AuditRecord(key[1], "materialize", "memory", key[2],
                                        "memory materialized")
         IN  \E r \in trail :
                Told(materialize) = {r} /\ r.occurred_at = db.memories[key].created_at

\* In whatever order the rows come, an audit page holds the newest records of
\* the scope by claimed time, newest first, records of one time in the order of
\* their identifiers, and no record of another scope.
Newer(r, q) ==
    \/ r.occurred_at > q.occurred_at
    \/ r.occurred_at = q.occurred_at /\ r.audit_id > q.audit_id
AuditPageNewest ==
    \A s \in Scopes, limit \in 1..MaxLimit : \A rows \in RowOrders(s) :
        LET page == AuditPage(rows, limit)
            own == {r \in trail : r.record.scope = s}
        IN  /\ Len(page) = IF limit < Cardinality(own) THEN limit ELSE Cardinality(own)
            /\ Range(page) \subseteq own
            /\ \A i, j \in DOMAIN page : i < j => Newer(page[i], page[j])
            /\ \A r \in Range(page), q \in own \ Range(page) : Newer(r, q)

\* Nothing happens without a record and nothing is recorded that did not happen:
\* a request that changes a row adds records, a replay, a refusal or a sweep that
\* finds nothing adds none, and no record is ever removed or altered.
Recorded ==
    /\ trail \subseteq trail'
    /\ trail' = trail <=> [db' EXCEPT !.audit_log = db.audit_log] = db
EveryChangeRecorded == [][Recorded]_trailVars
=============================================================================
