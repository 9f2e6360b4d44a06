------------------------------- MODULE Domain -------------------------------
(***************************************************************************)
(* The immutable requests of domain.py and the values derived from them in *)
(* ports.py and service.py.  A request exists only if its dataclass        *)
(* constructor accepted it, so the constructors' checks are the            *)
(* assumptions on the sets of requests a host may send.                    *)
(*                                                                         *)
(* Text is abstracted to members of small sets.  Instants and durations    *)
(* are naturals (microseconds).  A JSON metadata object is reduced to one  *)
(* scalar with its JSON type and its numeric value, because Python's ==    *)
(* (True == 1) looks only at the value while the canonical text in the     *)
(* database keeps the type.                                                *)
(***************************************************************************)
EXTENDS Naturals, Sequences, FiniteSets, FiniteSetsExt, Functions

CONSTANTS
    Scopes,        \* (tenant_id, owner_id, subject_id) triples
    Ids,           \* identifiers; events and memories draw from one space
    Kinds,         \* memory kinds
    Contents,      \* bodies
    Sources,       \* (source_id, source_type) pairs
    JsonTypes,     \* JSON scalar types, such as "int" and "bool"
    EventDrafts,   \* the RawEventDraft values a host sends
    MemoryDrafts,  \* the MemoryDraft values a host sends
    MaxTime,       \* datetime.max
    MaxInteger,    \* 2^63 - 1, the largest INTEGER SQLite stores
    Null           \* SQL NULL

TrustLevel == 0..2
EntityType == {"raw_event", "memory"}
GovernanceAction == {"seal", "restore", "forget", "delete"}
MemoryStatus == {"active", "sealed"}
Duration == Nat \ {0}
Metadata == [type: JsonTypes, value: Nat]

\* service.py hashes the body before it reaches the repository.
ContentHash(content) == [sha256 |-> content]

\* RawEventDraft with its SourceRef and RetentionPolicy flattened.
RawEventDraft ==
    [scope: Scopes, event_id: Ids, source: Sources, occurred_at: 0..MaxTime,
     trust: TrustLevel, content: Contents, raw_ttl: Duration,
     clear_for: Duration, recall_for: Duration, metadata: Metadata]

MemoryDraft ==
    [scope: Scopes, memory_id: Ids, content: Contents,
     source_event_ids: Seq(Ids), kind: Kinds, trust: TrustLevel,
     created_at: 0..MaxTime, metadata: Metadata]

GovernanceCommand ==
    [scope: Scopes, action: GovernanceAction, entity_type: EntityType,
     entity_id: Ids]

\* What _dependency_fingerprint hashes: the source ids are sorted first, so
\* only their set matters.  SHA-256 is taken to be free of collisions.
Fingerprint == [scope: Scopes, kind: Kinds, sources: SUBSET Ids]

DependencyFingerprint(scope, kind, source_event_ids) ==
    [scope |-> scope, kind |-> kind, sources |-> source_event_ids]

SourceIds(draft) == {draft.source_event_ids[i] : i \in DOMAIN draft.source_event_ids}

DraftFingerprint(draft) ==
    DependencyFingerprint(draft.scope, draft.kind, SourceIds(draft))

\* Deadlines are computed with unbounded integers here; the operations reject
\* the ones beyond MaxTime.
RawExpiresAt(draft) == draft.occurred_at + draft.raw_ttl

ASSUME BoundAssumption == MaxTime \in Nat /\ MaxInteger \in Nat

ASSUME NullAssumption == Null \notin Fingerprint

ASSUME EventDraftAssumption ==
    /\ EventDrafts \subseteq RawEventDraft
    /\ \A draft \in EventDrafts : draft.clear_for <= draft.recall_for

ASSUME MemoryDraftAssumption ==
    /\ MemoryDrafts \subseteq MemoryDraft
    /\ \A draft \in MemoryDrafts :
         /\ draft.source_event_ids # << >>
         /\ \A i, j \in DOMAIN draft.source_event_ids :
              draft.source_event_ids[i] = draft.source_event_ids[j] => i = j
=============================================================================
