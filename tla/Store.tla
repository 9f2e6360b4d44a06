-------------------------------- MODULE Store --------------------------------
(***************************************************************************)
(* The TrueHeart service over its repository, one public operation per     *)
(* step.  BEGIN IMMEDIATE ... COMMIT makes every operation atomic, and any *)
(* error rolls the transaction back, so a rejected or replayed request     *)
(* leaves the database as it was.  recall and audit change nothing: they   *)
(* are the operators RecallOutcome, RecallCandidates and AuditOutcome,     *)
(* which the properties evaluate in every reachable state.                 *)
(***************************************************************************)
EXTENDS Repository

CONSTANTS
    Clocks,     \* the instants the injected clock may return at ingest
    Sweeps,     \* the as_of instants the host passes to expire_raw_content
    MaxSeals    \* bound: how often one memory is sealed

ASSUME InstantAssumption == Clocks \subseteq 0..MaxTime /\ Sweeps \subseteq Nat
ASSUME MaxSealsAssumption == MaxSeals \in Nat

VARIABLE db

vars == <<db>>

Init == db = EmptyDb

\* TrueHeart.ingest_event.
IngestEvent(draft, now) ==
    db' = IF IngestOutcome(db, draft) = "created"
          THEN IngestEffect(db, draft, now) ELSE db

\* TrueHeart.materialize_once.
MaterializeOnce(draft) ==
    db' = IF MaterializeOutcome(db, draft) = "created"
          THEN MaterializeEffect(db, draft) ELSE db

\* TrueHeart.govern; sealing is bounded by MaxSeals.
Govern(c) ==
    /\ c.action = "seal" => Copies(db.audit_log, GovernanceAudit(c)) < MaxSeals
    /\ db' = IF GovernOutcome(db, c) = "done" THEN GovernEffect(db, c) ELSE db

\* TrueHeart.expire_raw_content.
ExpireRawContent(as_of) ==
    db' = IF ExpireOutcome(db) = "done" THEN ExpireEffect(db, as_of) ELSE db

Next ==
    \/ \E draft \in EventDrafts, now \in Clocks : IngestEvent(draft, now)
    \/ \E draft \in MemoryDrafts : MaterializeOnce(draft)
    \/ \E c \in GovernanceCommand : Govern(c)
    \/ \E as_of \in Sweeps : ExpireRawContent(as_of)

Spec == Init /\ [][Next]_vars

-----------------------------------------------------------------------------
(* Type invariant.                                                         *)

IsTable(table, keys, rows) ==
    /\ table = [k \in DOMAIN table |-> table[k]]
    /\ DOMAIN table \subseteq keys
    /\ \A k \in DOMAIN table : table[k] \in rows

IsDb(d) ==
    d = [raw_events |-> d.raw_events, raw_event_content |-> d.raw_event_content,
         memories |-> d.memories, memory_sources |-> d.memory_sources,
         tombstones |-> d.tombstones, audit_log |-> d.audit_log]

DbType(d) ==
    /\ IsDb(d)
    /\ IsTable(d.raw_events, Key, EventRow)
    /\ IsTable(d.raw_event_content, Key, Contents)
    /\ IsTable(d.memories, Key, MemoryRow)
    /\ IsTable(d.memory_sources, Scopes \X Ids \X Ids, Snapshot)
    /\ IsTable(d.tombstones, Scopes \X EntityType \X Ids, Fingerprint \cup {Null})
    /\ IsTable(d.audit_log, AuditRow, Nat \ {0})

\* Every table holds rows of its columns' types under keys of its primary key.
TypeOK == DbType(db)

-----------------------------------------------------------------------------
(* Safety.                                                                 *)

DbConsistent(d) ==
    /\ \A key \in DOMAIN d.raw_events : ReceiptOk(d, key)
    /\ DOMAIN d.raw_event_content \subseteq DOMAIN d.raw_events
    /\ \A m \in DOMAIN d.memories :
         MemoryRecordOk(d, m[1], m[2]) /\ LineageOk(d, m[1], m[2])
    /\ \A e \in DOMAIN d.memory_sources : <<e[1], e[2]>> \in DOMAIN d.memories
    /\ \A t \in DOMAIN d.tombstones :
         /\ TombstoneOk(d, t)
         /\ <<t[1], t[3]>> \notin IF t[2] = "raw_event" THEN DOMAIN d.raw_events
                                                       ELSE DOMAIN d.memories
    /\ \A record \in DOMAIN d.audit_log : AuditRecordOk(record)

\* Every row passes the checks of every reader, the weaker ones of recall and
\* the stronger ones of governance alike, and no identifier is at once on
\* record and tombstoned.  This is the inductive invariant of the store.
Consistent == DbConsistent(db)

\* The store never corrupts itself: whatever was requested before, no request
\* is answered with RepositoryCorruption.  Every reader in sqlite.py validates
\* the rows it reads and every INSERT may meet a taken key, so any sequence of
\* operations that left half of an entity behind would show up here.
NoSelfCorruption ==
    /\ \A draft \in EventDrafts : IngestOutcome(db, draft) # "RepositoryCorruption"
    /\ \A draft \in MemoryDrafts :
         MaterializeOutcome(db, draft) # "RepositoryCorruption"
    /\ \A c \in GovernanceCommand : GovernOutcome(db, c) # "RepositoryCorruption"
    /\ ExpireOutcome(db) # "RepositoryCorruption"
    /\ \A s \in Scopes : RecallOutcome(db, s) # "RepositoryCorruption"
                         /\ AuditOutcome(db, s) # "RepositoryCorruption"

\* Deletion is complete: nothing of a tombstoned event is left, neither its
\* receipt, its body, an edge to it nor a memory derived from it, and nothing
\* of a tombstoned memory is left (_delete_raw_event's cascade, forget).
ErasureComplete ==
    \A t \in DOMAIN db.tombstones :
        LET key == <<t[1], t[3]>>
        IN  IF t[2] = "raw_event"
            THEN /\ key \notin DOMAIN db.raw_events \cup DOMAIN db.raw_event_content
                 /\ \A e \in DOMAIN db.memory_sources : <<e[1], e[3]>> # key
                 /\ \A m \in DOMAIN db.memories : m[1] = t[1] =>
                      t[3] \notin db.memories[m].dependency_fingerprint.sources
            ELSE /\ key \notin DOMAIN db.memories
                 /\ \A e \in DOMAIN db.memory_sources : <<e[1], e[2]>> # key

\* The ceilings hold for what recall hands out, whenever it is asked: every
\* source of a recalled memory is still on record, is trusted at least as much
\* as the memory, and its own recall period has not ended; the memory leaves
\* its clear phase no later than any source allows.
SourceCeilings ==
    \A s \in Scopes, as_of \in 0..MaxTime :
        \A m \in RecallCandidates(db, s, as_of, {}) :
            LET row == db.memories[<<s, m>>]
            IN  \A e \in row.dependency_fingerprint.sources :
                  /\ <<s, e>> \in DOMAIN db.raw_events
                  /\ LET source == db.raw_events[<<s, e>>]
                     IN  /\ row.trust <= source.trust
                         /\ as_of < row.created_at + source.recall_for
                         /\ row.clear_until <= row.created_at + source.clear_for

Count(scope, action, entity_type, id, reason) ==
    Copies(db.audit_log, AuditRecord(scope, action, entity_type, id, reason))
Governed(scope, action, entity_type, id) ==
    Count(scope, action, entity_type, id, "governance requested")

\* The audit log accounts for every event: exactly one ingest record for an
\* event that is or was on record, at most one expiry, which happened exactly
\* if the body of a live event is gone, and one delete record per tombstone.
EventLedger ==
    \A s \in Scopes, i \in Ids :
        LET live == <<s, i>> \in DOMAIN db.raw_events
            gone == <<s, "raw_event", i>> \in DOMAIN db.tombstones
            ingested == Count(s, "ingest", "raw_event", i, "event ingested")
            expired == Count(s, "expire", "raw_event", i, "raw content expired")
        IN  /\ ingested = IF live \/ gone THEN 1 ELSE 0
            /\ expired <= ingested
            /\ live => (expired = 1 <=> <<s, i>> \notin DOMAIN db.raw_event_content)
            /\ Governed(s, "delete", "raw_event", i) = IF gone THEN 1 ELSE 0

\* The audit log accounts for every memory: one materialize record, seal and
\* restore records that alternate up to the current status, and for a memory
\* that is gone either its own forget or delete record or the delete record of
\* one of the events it was derived from.
MemoryLedger ==
    \A s \in Scopes, i \in Ids :
        LET live == <<s, i>> \in DOMAIN db.memories
            tombstone == <<s, "memory", i>>
            gone == tombstone \in DOMAIN db.tombstones
            made == Count(s, "materialize", "memory", i, "memory materialized")
            seals == Governed(s, "seal", "memory", i)
            restores == Governed(s, "restore", "memory", i)
            erased == Governed(s, "forget", "memory", i)
                        + Governed(s, "delete", "memory", i)
        IN  /\ made = IF live \/ gone THEN 1 ELSE 0
            /\ seals \in {restores, restores + 1}
            /\ live => (db.memories[<<s, i>>].status = "sealed" <=> seals > restores)
            /\ erased <= IF gone THEN 1 ELSE 0
            /\ gone /\ erased = 0 =>
                 \E e \in db.tombstones[tombstone].sources :
                     Governed(s, "delete", "raw_event", e) = 1
\* The rows of one scope.
OnlyScope(d, s) ==
    LET own(table) == Restrict(table, {k \in DOMAIN table : k[1] = s})
    IN  [raw_events |-> own(d.raw_events),
         raw_event_content |-> own(d.raw_event_content),
         memories |-> own(d.memories), memory_sources |-> own(d.memory_sources),
         tombstones |-> own(d.tombstones),
         audit_log |-> Restrict(d.audit_log,
                                {r \in DOMAIN d.audit_log : r.scope = s})]

\* The answer to a request about a missing entity may tell that the identifier
\* exists in another scope; that is the one thing scopes reveal to each other.
Blur(outcome) == IF outcome = "ScopeMismatch" THEN "EntityNotFound" ELSE outcome

\* What a request with outcome o and effect d does stays in its scope: it
\* changes no other scope's rows, and both its answer and its effect are the
\* ones it would have in a database that holds the rows of its scope alone.
ConfinedTo(s, o, d, ownO, ownD) ==
    /\ Blur(o) = Blur(ownO)
    /\ o \in {"created", "done"} =>
         /\ OnlyScope(d, s) = ownD
         /\ \A t \in Scopes \ {s} : OnlyScope(d, t) = OnlyScope(db, t)

\* Scopes do not interfere: identifiers, fingerprints and tombstones of one
\* scope never influence ingest, materialization, governance or recall in
\* another, although events and memories of all scopes share the tables and
\* may share identifiers.
ScopeIsolation ==
    \A s \in Scopes :
        LET own == OnlyScope(db, s)
        IN  /\ \A draft \in {x \in EventDrafts : x.scope = s}, now \in Clocks :
                 ConfinedTo(s, IngestOutcome(db, draft), IngestEffect(db, draft, now),
                            IngestOutcome(own, draft), IngestEffect(own, draft, now))
            /\ \A draft \in {x \in MemoryDrafts : x.scope = s} :
                 ConfinedTo(s, MaterializeOutcome(db, draft), MaterializeEffect(db, draft),
                            MaterializeOutcome(own, draft), MaterializeEffect(own, draft))
            /\ \A c \in {x \in GovernanceCommand : x.scope = s} :
                 ConfinedTo(s, GovernOutcome(db, c), GovernEffect(db, c),
                            GovernOutcome(own, c), GovernEffect(own, c))
            /\ RecallOutcome(db, s) = RecallOutcome(own, s)
            /\ \A as_of \in 0..MaxTime :
                 RecallCandidates(db, s, as_of, {}) = RecallCandidates(own, s, as_of, {})

-----------------------------------------------------------------------------
(* What a step may never do.                                               *)

\* A tombstone is irreversible: it is never removed or altered, an event whose
\* identifier has one is never ingested again, and no memory is materialized
\* under a tombstoned identifier or from a tombstoned dependency fingerprint.
Irreversible ==
    /\ \A t \in DOMAIN db.tombstones :
         t \in DOMAIN db'.tombstones /\ db'.tombstones[t] = db.tombstones[t]
    /\ \A e \in DOMAIN db'.raw_events \ DOMAIN db.raw_events :
         <<e[1], "raw_event", e[2]>> \notin DOMAIN db.tombstones
    /\ \A m \in DOMAIN db'.memories \ DOMAIN db.memories :
         /\ <<m[1], "memory", m[2]>> \notin DOMAIN db.tombstones
         /\ \A t \in DOMAIN db.tombstones :
              t[1] = m[1] =>
                db.tombstones[t] # db'.memories[m].dependency_fingerprint
NoResurrection == [][Irreversible]_vars

\* A retry rewrites nothing: while an entity stays on record its row changes at
\* most in its status (so a second ingest keeps the first ingested_at), an
\* expired body does not come back, and the lineage of a live memory is fixed.
RowsKept ==
    /\ \A e \in DOMAIN db.raw_events \cap DOMAIN db'.raw_events :
         /\ \/ db'.raw_events[e] = db.raw_events[e]
            \/ db'.raw_events[e] = [db.raw_events[e] EXCEPT !.status = "expired"]
         /\ e \notin DOMAIN db.raw_event_content =>
              e \notin DOMAIN db'.raw_event_content
    /\ \A m \in DOMAIN db.memories \cap DOMAIN db'.memories :
         /\ \E status \in MemoryStatus :
              db'.memories[m] = [db.memories[m] EXCEPT !.status = status]
         /\ Lineage(db', m[1], m[2]) = Lineage(db, m[1], m[2])
NoRewrite == [][RowsKept]_vars

\* A host that lost the answer may retry an ingest at any later time: as long
\* as the first answer was a receipt, the retry gets the receipt again or, once
\* the event has been deleted, EntityDeleted; never a conflict or a second row.
RetriesAnswered ==
    \A draft \in EventDrafts :
        IngestOutcome(db, draft) = "replayed" =>
            IngestOutcome(db', draft) \in {"replayed", "EntityDeleted"}
IngestRetrySafe == [][RetriesAnswered]_vars

-----------------------------------------------------------------------------
(* What the documentation says and the code does not do.                   *)

\* docs/architecture.md: "Ingest and materialization are idempotent under their
\* scoped identifiers."  An identical materialize_once for a memory that is on
\* record returns it.
MaterializeIdempotent ==
    \A draft \in MemoryDrafts :
        /\ MemoryKey(draft) \in DOMAIN db.memories
        /\ IsIdenticalMemory(db, draft)
        => MaterializeOutcome(db, draft) = "replayed"

\* errors.py, IdempotencyConflict: "An identifier was reused with a different
\* canonical request."  An ingest whose canonical metadata differs from the
\* stored one is a conflict.
DifferentRequestConflicts ==
    \A draft \in EventDrafts :
        /\ EventKey(draft) \in DOMAIN db.raw_events
        /\ db.raw_events[EventKey(draft)].metadata # draft.metadata
        => IngestOutcome(db, draft) # "replayed"

\* README.md: "Inputs are validated and bounded".  A draft the domain accepts is
\* never answered with an exception outside the TrueHeartError hierarchy.
OnlyDocumentedErrors ==
    \A draft \in EventDrafts : IngestOutcome(db, draft) # "OverflowError"
=============================================================================
