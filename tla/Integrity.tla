------------------------------ MODULE Integrity ------------------------------
(***************************************************************************)
(* A database file of which one row is no longer what the library wrote: a *)
(* disk, a tool or a hand has altered a field within the constraints of    *)
(* its column, or has lost the row.  The library goes on with the          *)
(* operations of Store.  Its readers validate the rows they read, so what  *)
(* one bad row may do to the answers is a question of which checks cover   *)
(* which field.                                                            *)
(*                                                                         *)
(* Not every alteration is detectable, and those that no check can see are *)
(* not made here: bodies, metadata, sources, raw_expires_at and timestamps *)
(* of receipts, and the loss of a whole tombstone or audit record.         *)
(***************************************************************************)
EXTENDS Store

CONSTANT NoScope    \* no row is damaged

ASSUME NoScopeAssumption == NoScope \notin Scopes

VARIABLES
    damaged,    \* the scope of the damaged row
    origin      \* history: every memory as it was materialized

integrityVars == <<db, damaged, origin>>

IntegrityInit == Init /\ damaged = NoScope /\ origin = EmptyTable

\* The row of a memory and the snapshots of its sources.
Materialized(d, m) ==
    [row |-> d.memories[m],
     sources |-> [e \in Lineage(d, m[1], m[2]) |-> d.memory_sources[<<m[1], m[2], e>>]]]

Operation ==
    /\ Next
    /\ UNCHANGED damaged
    /\ origin' = [m \in DOMAIN origin \cup (DOMAIN db'.memories \ DOMAIN db.memories) |->
                    IF m \in DOMAIN origin THEN origin[m] ELSE Materialized(db', m)]

-----------------------------------------------------------------------------
(* Damage within the constraints of the columns (the CHECKs of _SCHEMA).   *)

AlteredReceipts(row) ==
    {[row EXCEPT !.status = x] : x \in {"active", "expired", "other"}}
        \cup {[row EXCEPT !.trust = x] : x \in TrustLevel}
        \cup {[row EXCEPT !.clear_for = x] : x \in 1..MaxInteger}
        \cup {[row EXCEPT !.recall_for = x] : x \in 1..MaxInteger}

AlteredMemories(row) ==
    {[row EXCEPT !.status = x] : x \in MemoryStatus}
        \cup {[row EXCEPT !.trust = x] : x \in TrustLevel}
        \cup {[row EXCEPT !.kind = x] : x \in Kinds}
        \cup {[row EXCEPT !.dependency_fingerprint.sources = x] : x \in SUBSET Ids}
        \cup {[row EXCEPT !.created_at = x] : x \in 0..MaxTime}
        \cup {[row EXCEPT !.clear_until = x] : x \in 0..MaxTime}
        \cup {[row EXCEPT !.recall_until = x] : x \in 0..MaxTime}

AlteredSnapshots(row) ==
    {[row EXCEPT !.trust = x] : x \in TrustLevel}
        \cup {[row EXCEPT !.clear_for = x] : x \in 1..row.recall_for}
        \cup {[row EXCEPT !.recall_for = x] : x \in row.clear_for..MaxInteger}

\* A fingerprint on an event's tombstone, or none on a memory's.
AlteredFingerprint(t) ==
    IF t[2] = "raw_event" THEN DependencyFingerprint(t[1], CHOOSE k \in Kinds : TRUE, {t[3]})
                          ELSE Null

ForeignRecord(s) ==
    AuditRecord(s, "ingest", "memory", CHOOSE i \in Ids : TRUE, "event ingested")

\* Bound: one row is damaged, once.
Alter(table, key, row) ==
    /\ row # db[table][key]
    /\ db' = [db EXCEPT ![table][key] = row]
    /\ damaged' = key[1]

Lose(table, key) ==
    /\ db' = [db EXCEPT ![table] = Delete(@, {key})]
    /\ damaged' = key[1]

Damage ==
    /\ damaged = NoScope
    /\ UNCHANGED origin
    /\ \/ \E key \in DOMAIN db.raw_events :
            \E row \in AlteredReceipts(db.raw_events[key]) : Alter("raw_events", key, row)
       \/ \E key \in DOMAIN db.memories :
            \E row \in AlteredMemories(db.memories[key]) : Alter("memories", key, row)
       \/ \E key \in DOMAIN db.memory_sources :
            \E row \in AlteredSnapshots(db.memory_sources[key]) :
                Alter("memory_sources", key, row)
       \/ \E key \in DOMAIN db.tombstones :
            Alter("tombstones", key, AlteredFingerprint(key))
       \/ \E table \in {"raw_events", "raw_event_content", "memories", "memory_sources"} :
            \E key \in DOMAIN db[table] : Lose(table, key)
       \/ \E s \in Scopes :
            /\ db' = [db EXCEPT !.audit_log = LogAudit(@, {ForeignRecord(s)})]
            /\ damaged' = s

IntegrityNext == Operation \/ Damage

IntegritySpec == IntegrityInit /\ [][IntegrityNext]_integrityVars

-----------------------------------------------------------------------------
\* The memories a host is handed at an instant.
HandedOut(s, as_of) ==
    IF RecallOutcome(db, s) = "done" THEN RecallCandidates(db, s, as_of, {}) ELSE {}

\* Even with a damaged row, and in whatever order it was damaged and the host
\* made its requests, a memory that was derived from a deleted event is never
\* handed out: an edge that is missing when the cascade looks for dependents
\* leaves a memory behind that no recall accepts.
ErasedNeverRecalled ==
    \A s \in Scopes, as_of \in 0..MaxTime : \A m \in HandedOut(s, as_of) :
        \A e \in DOMAIN origin[<<s, m>>].sources :
            <<s, "raw_event", e>> \notin DOMAIN db.tombstones

\* A damaged row never stretches what the sources allowed: a memory is handed
\* out only with the kind, the sources and the deadlines it was materialized
\* with and with no more trust than its sources had then, so that every one of
\* these fields is bound by a second row.
RecalledAsMaterialized ==
    \A s \in Scopes, as_of \in 0..MaxTime : \A m \in HandedOut(s, as_of) :
        LET row == db.memories[<<s, m>>]
            was == origin[<<s, m>>]
        IN  /\ row.kind = was.row.kind
            /\ row.dependency_fingerprint.sources = DOMAIN was.sources
            /\ row.created_at = was.row.created_at
            /\ row.clear_until = was.row.clear_until
            /\ row.recall_until = was.row.recall_until
            /\ \A e \in DOMAIN was.sources : row.trust <= was.sources[e].trust

\* What a scope asks of its own rows.
Refused(s) ==
    \/ RecallOutcome(db, s) = "RepositoryCorruption"
    \/ AuditOutcome(db, s) = "RepositoryCorruption"
    \/ \E draft \in EventDrafts :
         draft.scope = s /\ IngestOutcome(db, draft) = "RepositoryCorruption"
    \/ \E draft \in MemoryDrafts :
         draft.scope = s /\ MaterializeOutcome(db, draft) = "RepositoryCorruption"

OnRecord(c) ==
    <<c.scope, c.entity_id>> \in
        IF c.entity_type = "memory" THEN DOMAIN db.memories ELSE DOMAIN db.raw_events

\* How far one bad row reaches.  Recall, audit, ingest and materialize_once are
\* refused in no scope but its own, and neither is a command about an entity on
\* record.  Two requests read the rows of all scopes and are refused elsewhere
\* too, but for no other cause than the bad row itself: a command about a
\* missing entity only if that row is a tombstone of the very identifier
\* (_raise_missing_entity looks it up without the scope), and a sweep only if
\* that row spoils a receipt.
DamageContained ==
    /\ \A s \in Scopes : Refused(s) => s = damaged
    /\ \A c \in GovernanceCommand :
         GovernOutcome(db, c) = "RepositoryCorruption" /\ c.scope # damaged =>
           /\ ~OnRecord(c)
           /\ \E t \in DOMAIN db.tombstones :
                t[1] = damaged /\ t[3] = c.entity_id /\ ~TombstoneOk(db, t)
    /\ ExpireOutcome(db) = "RepositoryCorruption" =>
         \E key \in DOMAIN db.raw_events : key[1] = damaged /\ ~ReceiptOk(db, key)

\* The library neither skips nor repairs: a scope whose recall is refused stays
\* refused through every later request, of which many succeed, as long as none
\* erases a memory or brings a lost receipt back by ingesting the event again.
RefusalKept ==
    \A s \in Scopes :
        /\ RecallOutcome(db, s) = "RepositoryCorruption"
        /\ \A m \in DOMAIN db.memories : m[1] = s => m \in DOMAIN db'.memories
        /\ \A e \in DOMAIN db'.raw_events : e[1] = s => e \in DOMAIN db.raw_events
        => RecallOutcome(db', s) = "RepositoryCorruption"
StaysRefused == [][RefusalKept]_integrityVars
=============================================================================
