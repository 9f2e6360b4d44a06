-------------------------- MODULE LifecycleProofs --------------------------
(***************************************************************************)
(* The proof that Store implements Lifecycle: for every operation a lemma  *)
(* that says what its effect looks like to the abstract specification.     *)
(* Besides TypeOK and Consistent the proof needs one more invariant, that  *)
(* the tombstone of a memory carries a fingerprint of its own scope:       *)
(* otherwise the lookup by scope and fingerprint in materialize_once could *)
(* miss a tombstone whose kind and sources are those of the draft.         *)
(*                                                                         *)
(* The second part proves that the audit log adds up.  The number of       *)
(* records about an event or a memory is a function of the state Lifecycle *)
(* gives it, except that seals and restores may go on for ever and that a  *)
(* memory may be erased in three ways.  The two ledgers are therefore      *)
(* proved of these states, with the steps the first part says the          *)
(* operations take; what they add is that an entity never seen has no      *)
(* records, without which a new memory could start with an odd number of   *)
(* seals.                                                                  *)
(***************************************************************************)
EXTENDS StoreRefinement, StoreProofs

TombstonesScoped(d) ==
    \A t \in DOMAIN d.tombstones :
        t[2] = "memory" => d.tombstones[t].scope = t[1]

LifecycleInv == TypeOK /\ Consistent /\ TombstonesScoped(db)

-----------------------------------------------------------------------------
(* Fingerprints.                                                           *)

\* The fingerprint of a memory on record is that of its edges.
LEMMA RecordFingerprint ==
    ASSUME NEW d, DbType(d), DbConsistent(d), NEW m \in DOMAIN d.memories
    PROVE  /\ m \in Key /\ m = <<m[1], m[2]>>
           /\ d.memories[m].status \in MemoryStatus
           /\ d.memories[m].dependency_fingerprint.scope = m[1]
           /\ d.memories[m].dependency_fingerprint.sources = Lineage(d, m[1], m[2])
           /\ \A x \in Lineage(d, m[1], m[2]) : <<m[1], x>> \in DOMAIN d.raw_events
<1>1. m \in Key /\ d.memories[m] \in MemoryRow
  BY DEF DbType, IsTable
<1>2. m = <<m[1], m[2]>>
  BY <1>1 DEF Key
<1>3. LineageOk(d, m[1], m[2])
  BY DEF DbConsistent
<1>4. d.memories[m].dependency_fingerprint =
        DependencyFingerprint(m[1], d.memories[m].kind, Lineage(d, m[1], m[2]))
  BY <1>2, <1>3 DEF LineageOk
<1>5. /\ d.memories[m].dependency_fingerprint.scope = m[1]
      /\ d.memories[m].dependency_fingerprint.sources = Lineage(d, m[1], m[2])
  BY <1>4 DEF DependencyFingerprint
<1>6. d.memories[m].status \in MemoryStatus
  BY <1>1 DEF MemoryRow
<1>7. \A x \in Lineage(d, m[1], m[2]) : <<m[1], x>> \in DOMAIN d.raw_events
  BY <1>3 DEF LineageOk
<1>8. QED
  BY <1>1, <1>2, <1>5, <1>6, <1>7

\* A memory's basis is read off its row or, when it is gone, off its tombstone.
LEMMA BasisRead ==
    ASSUME NEW d, NEW m \in Key
    PROVE  /\ m \in DOMAIN d.memories =>
                Bases(d)[m] = {BasisOf(d.memories[m].dependency_fingerprint)}
           /\ m \notin DOMAIN d.memories /\ <<m[1], "memory", m[2]>> \in DOMAIN d.tombstones =>
                Bases(d)[m] = {BasisOf(d.tombstones[<<m[1], "memory", m[2]>>])}
BY DEF Bases, MemoryBasis

-----------------------------------------------------------------------------
(* The operations.                                                         *)

\* An accepted ingest holds an unknown event.
LEMMA IngestHolds ==
    ASSUME NEW d, DbType(d), DbConsistent(d), NEW draft \in EventDrafts, NEW now \in Clocks,
           IngestOutcome(d, draft) = "created",
           NEW e, e = IngestEffect(d, draft, now)
    PROVE  /\ EventKey(draft) \in Key
           /\ Events(d)[EventKey(draft)] = "unknown"
           /\ Events(e) = [Events(d) EXCEPT ![EventKey(draft)] = "held"]
           /\ Memories(e) = Memories(d) /\ Bases(e) = Bases(d)
           /\ TombstonesScoped(d) => TombstonesScoped(e)
<1> DEFINE key == EventKey(draft)
<1>1. /\ e.raw_events = Insert(d.raw_events, Row(key, NewEventRow(draft, now)))
      /\ e.raw_event_content = Insert(d.raw_event_content, Row(key, draft.content))
      /\ e.memories = d.memories /\ e.tombstones = d.tombstones
  BY DEF DbType, IsDb, IngestEffect
<1>2. /\ key \notin DOMAIN d.raw_events /\ key \notin DOMAIN d.raw_event_content
      /\ \A t \in DOMAIN d.tombstones :
           t[1] = draft.scope /\ t[3] = draft.event_id => t[2] # "raw_event"
      /\ Storable(draft) /\ RawExpiresAt(draft) <= MaxTime
  BY IngestCreated
<1>3. key \in Key /\ key[1] = draft.scope /\ key[2] = draft.event_id
  BY <1>2, NewEventRowType DEF EventKey
<1> HIDE DEF key
<1>4. <<key[1], "raw_event", key[2]>> \notin DOMAIN d.tombstones
  BY <1>2, <1>3
<1>5. /\ DOMAIN e.raw_events = DOMAIN d.raw_events \cup {key}
      /\ DOMAIN e.raw_event_content = DOMAIN d.raw_event_content \cup {key}
  BY <1>1 DEF Insert, Row
<1>6. EventState(d, key) = "unknown" /\ EventState(e, key) = "held"
  BY <1>2, <1>4, <1>5 DEF EventState
<1>7. \A k \in Key \ {key} : EventState(e, k) = EventState(d, k)
  BY <1>1, <1>5 DEF EventState
<1>8. Events(d)[key] = "unknown" /\ Events(e) = [Events(d) EXCEPT ![key] = "held"]
  BY <1>3, <1>6, <1>7 DEF Events
<1>9. Memories(e) = Memories(d) /\ Bases(e) = Bases(d)
  BY <1>1 DEF Memories, MemoryState, Bases, MemoryBasis
<1>10. QED
  BY <1>1, <1>3, <1>8, <1>9 DEF key, TombstonesScoped

\* A sweep expires held events.
LEMMA SweepExpires ==
    ASSUME NEW d, DbType(d), DbConsistent(d), NEW as_of, NEW e, e = ExpireEffect(d, as_of)
    PROVE  /\ Expirable(d, as_of) \in SUBSET Key
           /\ \A k \in Expirable(d, as_of) : Events(d)[k] = "held"
           /\ Events(e) = [k \in Key |-> IF k \in Expirable(d, as_of)
                                         THEN "expired" ELSE Events(d)[k]]
           /\ Memories(e) = Memories(d) /\ Bases(e) = Bases(d)
           /\ TombstonesScoped(d) => TombstonesScoped(e)
<1> DEFINE keys == Expirable(d, as_of)
<1>1. /\ e.raw_events = [k \in DOMAIN d.raw_events |->
            IF k \in keys THEN [d.raw_events[k] EXCEPT !.status = "expired"]
                           ELSE d.raw_events[k]]
      /\ e.raw_event_content = Delete(d.raw_event_content, keys)
      /\ e.memories = d.memories /\ e.tombstones = d.tombstones
  BY DEF DbType, IsDb, ExpireEffect
<1>2. /\ keys \subseteq DOMAIN d.raw_events /\ keys \subseteq DOMAIN d.raw_event_content
      /\ DOMAIN d.raw_events \subseteq Key
  BY DEF Expirable, DbType, IsTable
<1> HIDE DEF keys
<1>3. /\ DOMAIN e.raw_events = DOMAIN d.raw_events
      /\ DOMAIN e.raw_event_content = DOMAIN d.raw_event_content \ keys
  BY <1>1 DEF Delete, Restrict
<1>4. \A k \in keys : EventState(d, k) = "held" /\ EventState(e, k) = "expired"
  BY <1>2, <1>3 DEF EventState
<1>5. \A k \in Key \ keys : EventState(e, k) = EventState(d, k)
  BY <1>1, <1>3 DEF EventState
<1>6. /\ \A k \in keys : Events(d)[k] = "held"
      /\ Events(e) = [k \in Key |-> IF k \in keys THEN "expired" ELSE Events(d)[k]]
  BY <1>2, <1>4, <1>5 DEF Events
<1>7. Memories(e) = Memories(d) /\ Bases(e) = Bases(d)
  BY <1>1 DEF Memories, MemoryState, Bases, MemoryBasis
<1>8. QED
  BY <1>1, <1>2, <1>6, <1>7 DEF keys, TombstonesScoped

\* A basis whose memory is erased is one no draft can be accepted for.
LEMMA ErasedBasis ==
    ASSUME NEW d, DbType(d), DbConsistent(d), TombstonesScoped(d),
           NEW draft \in MemoryDrafts, MaterializeOutcome(d, draft) = "created",
           NEW j \in Ids, Memories(d)[<<draft.scope, j>>] = "erased"
    PROVE  Bases(d)[<<draft.scope, j>>] # {BasisOf(DraftFingerprint(draft))}
<1> DEFINE t == <<draft.scope, "memory", j>>
           key == <<draft.scope, j>>
<1>1. draft.scope \in Scopes /\ draft.kind \in Kinds
  BY DraftSources DEF MemoryDraft
<1>2. key \in Key
  BY <1>1 DEF Key
<1>3. key \notin DOMAIN d.memories
  <2>1. SUFFICES ASSUME key \in DOMAIN d.memories PROVE FALSE
    OBVIOUS
  <2>2. d.memories[key].status \in MemoryStatus
    BY <2>1, RecordFingerprint
  <2>3. QED
    BY <1>2, <2>1, <2>2 DEF Memories, MemoryState, MemoryStatus
<1>4. t \in DOMAIN d.tombstones
  BY <1>2, <1>3 DEF Memories, MemoryState
<1>5. Bases(d)[key] = {BasisOf(d.tombstones[t])}
  BY <1>2, <1>3, <1>4, BasisRead
<1>6. d.tombstones[t] \in Fingerprint /\ d.tombstones[t].scope = draft.scope
  BY <1>4 DEF DbConsistent, TombstoneOk, TombstonesScoped
<1>7. d.tombstones[t] # DraftFingerprint(draft)
  BY <1>4, MaterializeCreated
<1>8. BasisOf(d.tombstones[t]) # BasisOf(DraftFingerprint(draft))
  BY <1>6, <1>7 DEF BasisOf, Fingerprint, DraftFingerprint, DependencyFingerprint
<1>9. QED
  BY <1>5, <1>8

\* An accepted materialization derives a memory from events on record.
LEMMA MaterializeDerives ==
    ASSUME NEW d, DbType(d), DbConsistent(d), NEW draft \in MemoryDrafts,
           MaterializeOutcome(d, draft) = "created",
           NEW e, e = MaterializeEffect(d, draft)
    PROVE  /\ draft.scope \in Scopes /\ draft.memory_id \in Ids
           /\ BasisOf(DraftFingerprint(draft)) \in [kind: Kinds, sources: SUBSET Ids]
           /\ BasisOf(DraftFingerprint(draft)).sources = SourceIds(draft)
           /\ Memories(d)[<<draft.scope, draft.memory_id>>] = "unknown"
           /\ \A x \in SourceIds(draft) : Events(d)[<<draft.scope, x>>] \in {"held", "expired"}
           /\ Memories(e) = [Memories(d) EXCEPT ![<<draft.scope, draft.memory_id>>] = "active"]
           /\ Bases(e) = [Bases(d) EXCEPT ![<<draft.scope, draft.memory_id>>] =
                                             {BasisOf(DraftFingerprint(draft))}]
           /\ Events(e) = Events(d)
           /\ TombstonesScoped(d) => TombstonesScoped(e)
<1> DEFINE key == <<draft.scope, draft.memory_id>>
           row == NewMemoryRow(d, draft)
<1>1. /\ e.raw_events = d.raw_events /\ e.raw_event_content = d.raw_event_content
      /\ e.memories = Insert(d.memories, Row(key, row))
      /\ e.tombstones = d.tombstones
  BY DEF DbType, IsDb, MaterializeEffect, MemoryKey
<1>2. /\ key \notin DOMAIN d.memories
      /\ \A t \in DOMAIN d.tombstones :
           t[1] = draft.scope /\ t[3] = draft.memory_id => t[2] # "memory"
      /\ \A x \in SourceIds(draft) : <<draft.scope, x>> \in DOMAIN d.raw_events
  BY MaterializeCreated DEF MemoryKey
<1>3. /\ draft.scope \in Scopes /\ draft.memory_id \in Ids /\ draft.kind \in Kinds
      /\ SourceIds(draft) \in SUBSET Ids
  BY DraftSources DEF MemoryDraft
<1>4. row.status = "active" /\ row.dependency_fingerprint = DraftFingerprint(draft)
  BY DEF NewMemoryRow
<1>5. /\ BasisOf(DraftFingerprint(draft)) \in [kind: Kinds, sources: SUBSET Ids]
      /\ BasisOf(DraftFingerprint(draft)).sources = SourceIds(draft)
  BY <1>3 DEF BasisOf, DraftFingerprint, DependencyFingerprint
<1>6. key \in Key /\ key[1] = draft.scope /\ key[2] = draft.memory_id
  BY <1>3 DEF Key
<1> HIDE DEF key, row
<1>7. /\ DOMAIN e.memories = DOMAIN d.memories \cup {key}
      /\ e.memories[key] = row
      /\ \A k \in DOMAIN d.memories : e.memories[k] = d.memories[k]
  BY <1>1, <1>2 DEF Insert, Row
<1>8. <<key[1], "memory", key[2]>> \notin DOMAIN d.tombstones
  BY <1>2, <1>6
<1>9. /\ MemoryState(d, key) = "unknown" /\ MemoryState(e, key) = "active"
      /\ MemoryBasis(e, key) = {BasisOf(DraftFingerprint(draft))}
  BY <1>2, <1>4, <1>7, <1>8 DEF MemoryState, MemoryBasis
<1>10. \A k \in Key \ {key} : /\ MemoryState(e, k) = MemoryState(d, k)
                             /\ MemoryBasis(e, k) = MemoryBasis(d, k)
  BY <1>1, <1>7 DEF MemoryState, MemoryBasis
<1>11. /\ Memories(d)[key] = "unknown"
       /\ Memories(e) = [Memories(d) EXCEPT ![key] = "active"]
       /\ Bases(e) = [Bases(d) EXCEPT ![key] = {BasisOf(DraftFingerprint(draft))}]
  BY <1>6, <1>9, <1>10 DEF Memories, Bases
<1>12. Events(e) = Events(d)
  BY <1>1 DEF Events, EventState
<1>13. \A x \in SourceIds(draft) : Events(d)[<<draft.scope, x>>] \in {"held", "expired"}
  BY <1>2, <1>3 DEF Events, EventState, Key
<1>14. TombstonesScoped(d) => TombstonesScoped(e)
  BY <1>1 DEF TombstonesScoped
<1>15. QED
  BY <1>3, <1>5, <1>11, <1>12, <1>13, <1>14 DEF key

\* Sealing and restoring change the state of one memory.
LEMMA StatusChanges ==
    ASSUME NEW d, DbType(d), DbConsistent(d), NEW c \in GovernanceCommand,
           GovernOutcome(d, c) = "done", c.action \in {"seal", "restore"},
           NEW e, e = GovernEffect(d, c)
    PROVE  /\ <<c.scope, c.entity_id>> \in Key
           /\ c.action = "seal" =>
                /\ Memories(d)[<<c.scope, c.entity_id>>] = "active"
                /\ Memories(e) = [Memories(d) EXCEPT ![<<c.scope, c.entity_id>>] = "sealed"]
           /\ c.action = "restore" =>
                /\ Memories(d)[<<c.scope, c.entity_id>>] = "sealed"
                /\ Memories(e) = [Memories(d) EXCEPT ![<<c.scope, c.entity_id>>] = "active"]
           /\ Events(e) = Events(d) /\ Bases(e) = Bases(d)
           /\ TombstonesScoped(d) => TombstonesScoped(e)
<1> DEFINE key == <<c.scope, c.entity_id>>
           status == IF c.action = "seal" THEN "sealed" ELSE "active"
<1>1. c.entity_type = "memory" /\ key \in DOMAIN d.memories
  BY GovernDone DEF EntityType
<1>2. key \in Key
  BY <1>1, RecordFingerprint
<1>3. /\ c.action = "seal" => d.memories[key].status = "active"
      /\ c.action = "restore" => d.memories[key].status = "sealed"
  BY <1>1 DEF GovernOutcome, GovernMemoryOutcome
<1>4. /\ e.memories = [d.memories EXCEPT ![key].status = status]
      /\ e.raw_events = d.raw_events /\ e.raw_event_content = d.raw_event_content
      /\ e.tombstones = d.tombstones
  BY DEF DbType, IsDb, GovernEffect, SetStatus
<1>5. d.memories[key] \in MemoryRow
  BY <1>1 DEF DbType, IsTable
<1> HIDE DEF key
<1>6. /\ DOMAIN e.memories = DOMAIN d.memories
      /\ e.memories[key].status = status
      /\ e.memories[key].dependency_fingerprint = d.memories[key].dependency_fingerprint
      /\ \A k \in DOMAIN d.memories \ {key} : e.memories[k] = d.memories[k]
  BY <1>1, <1>4, <1>5 DEF MemoryRow
<1> HIDE DEF status
<1>7. /\ MemoryState(d, key) = d.memories[key].status /\ MemoryState(e, key) = status
      /\ MemoryBasis(e, key) = MemoryBasis(d, key)
  BY <1>1, <1>6 DEF MemoryState, MemoryBasis
<1>8. \A k \in Key \ {key} : /\ MemoryState(e, k) = MemoryState(d, k)
                            /\ MemoryBasis(e, k) = MemoryBasis(d, k)
  BY <1>4, <1>6 DEF MemoryState, MemoryBasis
<1>9. /\ Memories(d)[key] = d.memories[key].status
      /\ Memories(e) = [Memories(d) EXCEPT ![key] = status]
      /\ Bases(e) = Bases(d)
  BY <1>2, <1>7, <1>8 DEF Memories, Bases
<1>10. Events(e) = Events(d)
  BY <1>4 DEF Events, EventState
<1>11. TombstonesScoped(d) => TombstonesScoped(e)
  BY <1>4 DEF TombstonesScoped
<1>12. QED
  BY <1>2, <1>3, <1>9, <1>10, <1>11 DEF key, status

\* Forget and delete erase the memories ErasedMemories names, and the event if
\* one is named; every basis is remembered.
LEMMA ErasureErases ==
    ASSUME NEW d, DbType(d), DbConsistent(d), NEW c \in GovernanceCommand,
           GovernOutcome(d, c) = "done", c.action \notin {"seal", "restore"},
           NEW e, e = GovernEffect(d, c)
    PROVE  /\ Memories(e) = [k \in Key |->
                IF k[1] = c.scope /\ k[2] \in ErasedMemories(d, c)
                THEN "erased" ELSE Memories(d)[k]]
           /\ Events(e) = [k \in Key |->
                IF c.entity_type = "raw_event" /\ k = <<c.scope, c.entity_id>>
                THEN "erased" ELSE Events(d)[k]]
           /\ Bases(e) = Bases(d)
           /\ TombstonesScoped(d) => TombstonesScoped(e)
<1> DEFINE erased == ErasedMemories(d, c)
           events == IF c.entity_type = "raw_event"
                     THEN {<<c.scope, c.entity_id>>} ELSE {}
           gone == {<<c.scope, m>> : m \in erased}
           new == NewTombstones(d, c)
<1>1. /\ e.raw_events = Delete(d.raw_events, events)
      /\ e.raw_event_content = Delete(d.raw_event_content, events)
      /\ e.memories = Delete(d.memories, gone)
      /\ e.tombstones = Insert(d.tombstones, new)
  BY DEF DbType, IsDb, GovernEffect, Erase
<1>2. \A m \in erased : <<c.scope, m>> \in DOMAIN d.memories
  BY ErasedOnRecord, GovernDone
<1>3. /\ DOMAIN new = {<<c.scope, "memory", m>> : m \in erased}
             \cup (IF c.entity_type = "raw_event"
                   THEN {<<c.scope, "raw_event", c.entity_id>>} ELSE {})
      /\ \A m \in erased : new[<<c.scope, "memory", m>>] =
                             d.memories[<<c.scope, m>>].dependency_fingerprint
  BY DEF NewTombstones
<1>4. DOMAIN new \cap DOMAIN d.tombstones = {}
  BY GovernDone, NoClash DEF TombstoneClash
<1> HIDE DEF erased, new
<1>5. /\ DOMAIN e.tombstones = DOMAIN d.tombstones \cup DOMAIN new
      /\ \A t \in DOMAIN new : e.tombstones[t] = new[t]
      /\ \A t \in DOMAIN d.tombstones : e.tombstones[t] = d.tombstones[t]
  BY <1>1, <1>4 DEF Insert
<1>6. /\ DOMAIN e.memories = DOMAIN d.memories \ gone
      /\ \A k \in DOMAIN e.memories : e.memories[k] = d.memories[k]
      /\ DOMAIN e.raw_events = DOMAIN d.raw_events \ events
      /\ DOMAIN e.raw_event_content = DOMAIN d.raw_event_content \ events
  BY <1>1 DEF Delete, Restrict
<1>7. ASSUME NEW k \in Key, k[1] = c.scope, k[2] \in erased
      PROVE  MemoryState(e, k) = "erased" /\ MemoryBasis(e, k) = MemoryBasis(d, k)
  <2>1. k = <<c.scope, k[2]>> /\ k \in gone /\ k \in DOMAIN d.memories
    BY <1>2, <1>7 DEF Key
  <2>2. <<k[1], "memory", k[2]>> \in DOMAIN new
    BY <1>3, <1>7
  <2>3. e.tombstones[<<k[1], "memory", k[2]>>] = d.memories[k].dependency_fingerprint
    BY <1>3, <1>5, <1>7, <2>1, <2>2
  <2>4. k \notin DOMAIN e.memories /\ <<k[1], "memory", k[2]>> \in DOMAIN e.tombstones
    BY <1>5, <1>6, <2>1, <2>2
  <2>5. QED
    BY <2>1, <2>3, <2>4 DEF MemoryState, MemoryBasis
<1>8. ASSUME NEW k \in Key, ~(k[1] = c.scope /\ k[2] \in erased)
      PROVE  MemoryState(e, k) = MemoryState(d, k) /\ MemoryBasis(e, k) = MemoryBasis(d, k)
  <2>1. k \notin gone
    BY <1>8
  <2>2. <<k[1], "memory", k[2]>> \notin DOMAIN new
    BY <1>3, <1>8
  <2> DEFINE t == <<k[1], "memory", k[2]>>
  <2>3. /\ k \in DOMAIN e.memories <=> k \in DOMAIN d.memories
        /\ k \in DOMAIN d.memories => e.memories[k] = d.memories[k]
        /\ t \in DOMAIN e.tombstones <=> t \in DOMAIN d.tombstones
        /\ t \in DOMAIN d.tombstones => e.tombstones[t] = d.tombstones[t]
    BY <1>5, <1>6, <2>1, <2>2
  <2> HIDE DEF gone
  <2>4. QED
    BY <2>3 DEF MemoryState, MemoryBasis
<1>9. ASSUME NEW k \in events
      PROVE  EventState(e, k) = "erased"
  <2>1. <<k[1], "raw_event", k[2]>> \in DOMAIN e.tombstones
    BY <1>3, <1>5, <1>9
  <2>2. QED
    BY <1>6, <1>9, <2>1 DEF EventState
<1>10. ASSUME NEW k \in Key \ events
       PROVE  EventState(e, k) = EventState(d, k)
  <2>1. k = <<k[1], k[2]>>
    BY DEF Key
  <2>2. <<k[1], "raw_event", k[2]>> \notin DOMAIN new
    BY <1>3, <1>10, <2>1
  <2>3. QED
    BY <1>5, <1>6, <1>10, <2>2 DEF EventState
<1>11. Memories(e) = [k \in Key |-> IF k[1] = c.scope /\ k[2] \in erased
                                    THEN "erased" ELSE Memories(d)[k]]
  BY <1>7, <1>8 DEF Memories
<1>12. Events(e) = [k \in Key |-> IF k \in events THEN "erased" ELSE Events(d)[k]]
  BY <1>9, <1>10 DEF Events
<1>13. Bases(e) = Bases(d)
  BY <1>7, <1>8 DEF Bases
<1>14. ASSUME TombstonesScoped(d), NEW t \in DOMAIN e.tombstones, t[2] = "memory"
       PROVE  e.tombstones[t].scope = t[1]
  <2>1. CASE t \in DOMAIN d.tombstones
    BY <1>5, <1>14, <2>1 DEF TombstonesScoped
  <2>2. CASE t \in DOMAIN new
    <3>1. PICK m \in erased : t = <<c.scope, "memory", m>>
      BY <1>3, <1>14, <2>2
    <3>2. e.tombstones[t] = d.memories[<<c.scope, m>>].dependency_fingerprint
      BY <1>3, <1>5, <2>2, <3>1
    <3>3. d.memories[<<c.scope, m>>].dependency_fingerprint.scope = c.scope
      BY <1>2, <3>1, RecordFingerprint
    <3>4. QED
      BY <3>1, <3>2, <3>3
  <2>3. QED
    BY <1>5, <2>1, <2>2
<1>15. QED
  BY <1>11, <1>12, <1>13, <1>14 DEF erased, TombstonesScoped

\* The dependents of an event are the live memories with that event in their
\* basis.
LEMMA DependentsLive ==
    ASSUME NEW d, DbType(d), DbConsistent(d), NEW s \in Scopes, NEW x \in Ids,
           NEW k \in Key
    PROVE  (k[1] = s /\ k[2] \in Dependents(d, s, x)) <=>
             (/\ k[1] = s /\ Memories(d)[k] \in {"active", "sealed"}
              /\ \E b \in Bases(d)[k] : x \in b.sources)
<1>1. k = <<k[1], k[2]>> /\ k[2] \in Ids
  BY DEF Key
<1>2. Memories(d)[k] \in {"active", "sealed"} <=> k \in DOMAIN d.memories
  <2>1. k \in DOMAIN d.memories => d.memories[k].status \in MemoryStatus
    BY RecordFingerprint
  <2>2. QED
    BY <2>1 DEF Memories, MemoryState, MemoryStatus
<1>3. k[2] \in Dependents(d, s, x) /\ k[1] = s => k \in DOMAIN d.memories
  <2>1. SUFFICES ASSUME k[2] \in Dependents(d, s, x), k[1] = s
                 PROVE  k \in DOMAIN d.memories
    OBVIOUS
  <2>2. <<s, k[2], x>> \in DOMAIN d.memory_sources
    BY <2>1 DEF Dependents
  <2>3. <<s, k[2]>> \in DOMAIN d.memories
    BY <2>2 DEF DbConsistent
  <2>4. QED
    BY <1>1, <2>1, <2>3
<1>4. ASSUME k \in DOMAIN d.memories, k[1] = s
      PROVE  k[2] \in Dependents(d, s, x) <=> \E b \in Bases(d)[k] : x \in b.sources
  <2>1. Bases(d)[k] = {BasisOf(d.memories[k].dependency_fingerprint)}
    BY <1>4, BasisRead
  <2>2. BasisOf(d.memories[k].dependency_fingerprint).sources = Lineage(d, k[1], k[2])
    BY <1>4, RecordFingerprint DEF BasisOf
  <2>3. k[2] \in Dependents(d, s, x) <=> x \in Lineage(d, k[1], k[2])
    BY <1>1, <1>4 DEF Dependents, Lineage
  <2>4. QED
    BY <2>1, <2>2, <2>3
<1>5. QED
  BY <1>2, <1>3, <1>4

-----------------------------------------------------------------------------
(* Steps.                                                                  *)

\* Every operation is a step of the lifecycle, or none.
LEMMA OperationPromised ==
    ASSUME LifecycleInv, [Next]_vars
    PROVE  TombstonesScoped(db') /\ [Promise!Next]_(Promise!vars)
<1>0. DbType(db) /\ DbConsistent(db) /\ TombstonesScoped(db)
  BY DEF LifecycleInv, TypeOK, Consistent
<1>1. CASE db' = db
  BY <1>0, <1>1 DEF Promise!vars
<1>2. ASSUME NEW draft \in EventDrafts, NEW now \in Clocks, IngestEvent(draft, now),
             db' # db
      PROVE  TombstonesScoped(db') /\ Promise!Next
  <2>1. IngestOutcome(db, draft) = "created" /\ db' = IngestEffect(db, draft, now)
    BY <1>2 DEF IngestEvent
  <2>2. EventKey(draft) \in Key /\ Promise!Hold(EventKey(draft)) /\ TombstonesScoped(db')
    BY <1>0, <2>1, IngestHolds DEF Promise!Hold
  <2>3. QED
    BY <2>2 DEF Promise!Next, Promise!Entity, Key
<1>3. ASSUME NEW draft \in MemoryDrafts, MaterializeOnce(draft), db' # db
      PROVE  TombstonesScoped(db') /\ Promise!Next
  <2>1. MaterializeOutcome(db, draft) = "created" /\ db' = MaterializeEffect(db, draft)
    BY <1>3 DEF MaterializeOnce
  <2> DEFINE b == BasisOf(DraftFingerprint(draft))
  <2>2. /\ draft.scope \in Scopes /\ draft.memory_id \in Ids
        /\ b \in [kind: Kinds, sources: SUBSET Ids] /\ b.sources = SourceIds(draft)
        /\ Memories(db)[<<draft.scope, draft.memory_id>>] = "unknown"
        /\ \A x \in SourceIds(draft) : Events(db)[<<draft.scope, x>>] \in {"held", "expired"}
        /\ Memories(db') = [Memories(db) EXCEPT ![<<draft.scope, draft.memory_id>>] = "active"]
        /\ Bases(db') = [Bases(db) EXCEPT ![<<draft.scope, draft.memory_id>>] = {b}]
        /\ Events(db') = Events(db) /\ TombstonesScoped(db')
    BY <1>0, <2>1, MaterializeDerives
  <2>3. \A j \in Ids : Memories(db)[<<draft.scope, j>>] = "erased" =>
                         Bases(db)[<<draft.scope, j>>] # {b}
    BY <1>0, <2>1, ErasedBasis
  <2>4. b.sources # {}
    BY <2>2, DraftSources
  <2> HIDE DEF b
  <2>5. Promise!Derive(draft.scope, draft.memory_id, b)
    BY <2>2, <2>3, <2>4 DEF Promise!Derive, Promise!OnRecord
  <2>6. QED
    BY <2>2, <2>5 DEF Promise!Next, Promise!Basis
<1>4. ASSUME NEW c \in GovernanceCommand, Govern(c), db' # db
      PROVE  TombstonesScoped(db') /\ Promise!Next
  <2> DEFINE key == <<c.scope, c.entity_id>>
  <2>1. GovernOutcome(db, c) = "done" /\ db' = GovernEffect(db, c)
    BY <1>4 DEF Govern
  <2>2. c.scope \in Scopes /\ c.entity_id \in Ids /\ key \in Scopes \X Ids
    BY DEF GovernanceCommand
  <2>3. CASE c.action \in {"seal", "restore"}
    <3>1. /\ c.action = "seal" => Promise!Seal(key)
          /\ c.action = "restore" => Promise!Restore(key)
          /\ TombstonesScoped(db')
      BY <1>0, <2>1, <2>3, StatusChanges DEF Promise!Seal, Promise!Restore
    <3>2. QED
      BY <2>2, <2>3, <3>1 DEF Promise!Next, Promise!Entity
  <2>4. CASE c.action \notin {"seal", "restore"}
    <3>1. /\ Memories(db') = [k \in Key |->
                IF k[1] = c.scope /\ k[2] \in ErasedMemories(db, c)
                THEN "erased" ELSE Memories(db)[k]]
          /\ Events(db') = [k \in Key |->
                IF c.entity_type = "raw_event" /\ k = key
                THEN "erased" ELSE Events(db)[k]]
          /\ Bases(db') = Bases(db) /\ TombstonesScoped(db')
      BY <1>0, <2>1, <2>4, ErasureErases
    <3>2. CASE c.entity_type = "memory"
      <4>1. key \in DOMAIN db.memories
        BY <2>1, <3>2, GovernDone
      <4>2. db.memories[key].status \in {"active", "sealed"}
        BY <1>0, <4>1, RecordFingerprint DEF MemoryStatus
      <4>3. Memories(db)[key] \in {"active", "sealed"}
        BY <2>2, <4>1, <4>2 DEF Memories, MemoryState, Key
      <4>4. \A k \in Key : k[1] = c.scope /\ k[2] \in ErasedMemories(db, c) <=> k = key
        BY <3>2 DEF ErasedMemories, Key
      <4>5. Memories(db') = [Memories(db) EXCEPT ![key] = "erased"]
        BY <2>2, <3>1, <4>4 DEF Memories, Key
      <4>6. Events(db') = Events(db)
        BY <3>1, <3>2 DEF Events
      <4>7. Promise!EraseMemory(key)
        BY <3>1, <4>3, <4>5, <4>6 DEF Promise!EraseMemory, Promise!Live
      <4>8. QED
        BY <2>2, <3>1, <4>7 DEF Promise!Next, Promise!Entity
    <3>3. CASE c.entity_type = "raw_event"
      <4>1. key \in DOMAIN db.raw_events
        BY <2>1, <3>3, GovernDone
      <4>2. Events(db)[key] \in {"held", "expired"}
        BY <2>2, <4>1 DEF Events, EventState, Key
      <4>3. Events(db') = [Events(db) EXCEPT ![key] = "erased"]
        BY <2>2, <3>1, <3>3 DEF Events, Key
      <4>4. ErasedMemories(db, c) = Dependents(db, c.scope, c.entity_id)
        BY <3>3 DEF ErasedMemories
      <4>5. \A k \in Key : (k[1] = c.scope /\ k[2] \in ErasedMemories(db, c)) <=>
               (/\ k[1] = c.scope /\ Memories(db)[k] \in {"active", "sealed"}
                /\ \E b \in Bases(db)[k] : c.entity_id \in b.sources)
        BY <1>0, <2>2, <4>4, DependentsLive
      <4>6. Memories(db') = [k \in Key |->
               IF /\ k[1] = c.scope /\ Memories(db)[k] \in {"active", "sealed"}
                  /\ \E b \in Bases(db)[k] : c.entity_id \in b.sources
               THEN "erased" ELSE Memories(db)[k]]
        BY <3>1, <4>5
      <4>7. Promise!EraseEvent(c.scope, c.entity_id)
        BY <3>1, <4>2, <4>3, <4>6
           DEF Promise!EraseEvent, Promise!OnRecord, Promise!Live, Promise!Entity, Key
      <4>8. QED
        BY <2>2, <3>1, <4>7 DEF Promise!Next
    <3>4. QED
      BY <3>2, <3>3 DEF GovernanceCommand, EntityType
  <2>5. QED
    BY <2>3, <2>4
<1>5. ASSUME NEW as_of \in Sweeps, ExpireRawContent(as_of), db' # db
      PROVE  TombstonesScoped(db') /\ [Promise!Next]_(Promise!vars)
  <2> DEFINE keys == Expirable(db, as_of)
  <2>1. db' = ExpireEffect(db, as_of)
    BY <1>5 DEF ExpireRawContent
  <2>2. /\ keys \in SUBSET Key
        /\ \A k \in keys : Events(db)[k] = "held"
        /\ Events(db') = [k \in Key |-> IF k \in keys THEN "expired" ELSE Events(db)[k]]
        /\ Memories(db') = Memories(db) /\ Bases(db') = Bases(db)
        /\ TombstonesScoped(db')
    BY <1>0, <2>1, SweepExpires
  <2> HIDE DEF keys
  <2>3. CASE keys = {}
    <3>1. Events(db') = Events(db)
      BY <2>2, <2>3 DEF Events
    <3>2. QED
      BY <2>2, <3>1 DEF Promise!vars
  <2>4. CASE keys # {}
    <3>1. Promise!Expire(keys)
      BY <2>2, <2>4 DEF Promise!Expire, Promise!Entity, Key
    <3>2. QED
      BY <2>2, <3>1 DEF Promise!Next, Promise!Entity, Key
  <2>5. QED
    BY <2>3, <2>4
<1>6. QED
  BY <1>1, <1>2, <1>3, <1>4, <1>5 DEF Next, vars

\* An empty database is an empty lifecycle.
LEMMA InitPromised == Init => TombstonesScoped(db) /\ Promise!Init
<1> SUFFICES ASSUME Init PROVE TombstonesScoped(db) /\ Promise!Init
  OBVIOUS
<1>1. /\ DOMAIN db.raw_events = {} /\ DOMAIN db.memories = {}
      /\ DOMAIN db.tombstones = {}
  BY DEF Init, EmptyDb, EmptyTable
<1>2. Events(db) = [k \in Key |-> "unknown"] /\ Memories(db) = [k \in Key |-> "unknown"]
      /\ Bases(db) = [k \in Key |-> {}]
  BY <1>1 DEF Events, EventState, Memories, MemoryState, Bases, MemoryBasis
<1>3. QED
  BY <1>1, <1>2 DEF TombstonesScoped, Promise!Init, Promise!Entity, Promise!NoBasis, Key

-----------------------------------------------------------------------------
(* Theorem.                                                                *)

\* Every behaviour of the store is one of the lifecycle: each operation of
\* sqlite.py, with its cascade and its retries, is one abstract step or none.
THEOREM Implements == Spec => ImplementsLifecycle
<1>1. Init => TombstonesScoped(db) /\ Promise!Init
  BY InitPromised
<1>2. LifecycleInv /\ [Next]_vars => TombstonesScoped(db)' /\ [Promise!Next]_(Promise!vars)
  BY OperationPromised
<1>3. LifecycleInv <=> TypeOK /\ Consistent /\ TombstonesScoped(db)
  BY DEF LifecycleInv
<1>4. QED
  BY <1>1, <1>2, <1>3, TypeCorrect, Consistency, PTL
     DEF Spec, ImplementsLifecycle, Promise!Spec

-----------------------------------------------------------------------------
(* The audit log.                                                          *)

IngestRecord(s, i) == AuditRecord(s, "ingest", "raw_event", i, "event ingested")
ExpireRecord(s, i) == AuditRecord(s, "expire", "raw_event", i, "raw content expired")
MaterializeRecord(s, i) == AuditRecord(s, "materialize", "memory", i, "memory materialized")
GovernRecord(s, action, entity_type, i) ==
    AuditRecord(s, action, entity_type, i, "governance requested")

\* The records about event i of scope s, in terms of its state.
EventAccount(log, state, s, i) ==
    /\ Copies(log, IngestRecord(s, i)) = IF state = "unknown" THEN 0 ELSE 1
    /\ Copies(log, ExpireRecord(s, i)) \in {0, 1}
    /\ state \in {"unknown", "held"} => Copies(log, ExpireRecord(s, i)) = 0
    /\ state = "expired" => Copies(log, ExpireRecord(s, i)) = 1
    /\ Copies(log, GovernRecord(s, "delete", "raw_event", i)) =
         IF state = "erased" THEN 1 ELSE 0

\* The records about memory i of scope s, in terms of its state.
MemoryAccount(log, state, s, i) ==
    LET governed(action) == Copies(log, GovernRecord(s, action, "memory", i))
        seals == governed("seal")
        restores == governed("restore")
        erasures == governed("forget") + governed("delete")
    IN  /\ Copies(log, MaterializeRecord(s, i)) = IF state = "unknown" THEN 0 ELSE 1
        /\ seals \in {restores, restores + 1}
        /\ state = "unknown" => seals = 0 /\ restores = 0
        /\ state = "active" => seals = restores
        /\ state = "sealed" => seals = restores + 1
        /\ erasures \in {0, 1}
        /\ state # "erased" => erasures = 0

EventsBalance(d) ==
    \A s \in Scopes, i \in Ids :
        EventAccount(d.audit_log, Events(d)[<<s, i>>], s, i)

MemoriesBalance(d) ==
    \A s \in Scopes, i \in Ids :
        MemoryAccount(d.audit_log, Memories(d)[<<s, i>>], s, i)

\* A memory that is gone without a record of its own went with an event.
CascadesRecorded(d) ==
    \A s \in Scopes, i \in Ids :
        /\ Memories(d)[<<s, i>>] = "erased"
        /\ Copies(d.audit_log, GovernRecord(s, "forget", "memory", i)) = 0
        /\ Copies(d.audit_log, GovernRecord(s, "delete", "memory", i)) = 0
        => \E b \in Bases(d)[<<s, i>>] : \E x \in Ids \cap b.sources :
             Events(d)[<<s, x>>] = "erased"

Balanced(d) == EventsBalance(d) /\ MemoriesBalance(d) /\ CascadesRecorded(d)

-----------------------------------------------------------------------------
(* Records.                                                                *)

\* An appended record counts once more, and no other does.
LEMMA CopiesAppended ==
    ASSUME NEW log, NEW records, NEW r
    PROVE  Copies(LogAudit(log, records), r) =
             Copies(log, r) + (IF r \in records THEN 1 ELSE 0)
BY DEF Copies, LogAudit

\* Records are counted by naturals.
LEMMA CopiesNat ==
    ASSUME NEW d, DbType(d), NEW r
    PROVE  Copies(d.audit_log, r) \in Nat
BY DEF DbType, IsTable, Copies

\* What the records are told apart by.
LEMMA Columns ==
    ASSUME NEW s, NEW i, NEW action, NEW type
    PROVE  /\ IngestRecord(s, i).action = "ingest"
           /\ ExpireRecord(s, i).action = "expire"
           /\ MaterializeRecord(s, i).action = "materialize"
           /\ GovernRecord(s, action, type, i).action = action
           /\ IngestRecord(s, i).entity_type = "raw_event"
           /\ ExpireRecord(s, i).entity_type = "raw_event"
           /\ MaterializeRecord(s, i).entity_type = "memory"
           /\ GovernRecord(s, action, type, i).entity_type = type
           /\ IngestRecord(s, i).scope = s /\ IngestRecord(s, i).entity_id = i
           /\ ExpireRecord(s, i).scope = s /\ ExpireRecord(s, i).entity_id = i
           /\ MaterializeRecord(s, i).scope = s /\ MaterializeRecord(s, i).entity_id = i
           /\ GovernRecord(s, action, type, i).scope = s
           /\ GovernRecord(s, action, type, i).entity_id = i
BY DEF AuditRecord, IngestRecord, ExpireRecord, GovernRecord, MaterializeRecord

\* A record about an event leaves the accounts of memories alone, and a record
\* about a memory those of events.
LEMMA OtherType ==
    ASSUME NEW record, NEW s, NEW i, NEW action
    PROVE  /\ record.entity_type = "raw_event" =>
                record # MaterializeRecord(s, i) /\ record # GovernRecord(s, action, "memory", i)
           /\ record.entity_type = "memory" =>
                /\ record # IngestRecord(s, i) /\ record # ExpireRecord(s, i)
                /\ record # GovernRecord(s, action, "raw_event", i)
<1>1. MaterializeRecord(s, i).entity_type = "memory"
  BY Columns
<1>2. GovernRecord(s, action, "memory", i).entity_type = "memory"
  BY Columns
<1>3. IngestRecord(s, i).entity_type = "raw_event" /\ ExpireRecord(s, i).entity_type = "raw_event"
  BY Columns
<1>4. GovernRecord(s, action, "raw_event", i).entity_type = "raw_event"
  BY Columns
<1>5. QED
  BY <1>1, <1>2, <1>3, <1>4

\* A record about one entity leaves the accounts of all others alone.
LEMMA OtherEntity ==
    ASSUME NEW record, NEW s, NEW i, NEW action, NEW type,
           record.scope # s \/ record.entity_id # i
    PROVE  /\ record # IngestRecord(s, i) /\ record # ExpireRecord(s, i)
           /\ record # MaterializeRecord(s, i)
           /\ record # GovernRecord(s, action, type, i)
<1>1. IngestRecord(s, i).scope = s /\ IngestRecord(s, i).entity_id = i
  BY Columns
<1>2. ExpireRecord(s, i).scope = s /\ ExpireRecord(s, i).entity_id = i
  BY Columns
<1>3. MaterializeRecord(s, i).scope = s /\ MaterializeRecord(s, i).entity_id = i
  BY Columns
<1>4. GovernRecord(s, action, type, i).scope = s /\ GovernRecord(s, action, type, i).entity_id = i
  BY Columns
<1>5. QED
  BY <1>1, <1>2, <1>3, <1>4

\* A record about one action leaves the count of any other alone.
LEMMA OtherAction ==
    ASSUME NEW record, NEW s, NEW i, NEW action, NEW type
    PROVE  /\ record.action # "ingest" => record # IngestRecord(s, i)
           /\ record.action # "expire" => record # ExpireRecord(s, i)
           /\ record.action # "materialize" => record # MaterializeRecord(s, i)
           /\ record.action # action => record # GovernRecord(s, action, type, i)
<1>1. IngestRecord(s, i).action = "ingest" /\ ExpireRecord(s, i).action = "expire"
  BY Columns
<1>2. MaterializeRecord(s, i).action = "materialize"
  BY Columns
<1>3. GovernRecord(s, action, type, i).action = action
  BY Columns
<1>4. QED
  BY <1>1, <1>2, <1>3

\* Records that are not appended keep their number, the others gain one.
LEMMA Recount ==
    ASSUME NEW d, DbType(d), NEW e, NEW records, e.audit_log = LogAudit(d.audit_log, records),
           NEW r
    PROVE  /\ r \notin records => Copies(e.audit_log, r) = Copies(d.audit_log, r)
           /\ r \in records => Copies(e.audit_log, r) = Copies(d.audit_log, r) + 1
           /\ Copies(d.audit_log, r) \in Nat
           /\ Copies(e.audit_log, r) = 0 => Copies(d.audit_log, r) = 0
<1>1. Copies(d.audit_log, r) \in Nat
  BY CopiesNat
<1>2. Copies(e.audit_log, r) = Copies(d.audit_log, r) + (IF r \in records THEN 1 ELSE 0)
  BY CopiesAppended
<1>3. QED
  BY <1>1, <1>2

\* An account that none of the new records is about stays as it is.
LEMMA EventUntouched ==
    ASSUME NEW d, DbType(d), NEW e, NEW records, e.audit_log = LogAudit(d.audit_log, records),
           NEW state, NEW s, NEW i, EventAccount(d.audit_log, state, s, i),
           IngestRecord(s, i) \notin records, ExpireRecord(s, i) \notin records,
           GovernRecord(s, "delete", "raw_event", i) \notin records
    PROVE  EventAccount(e.audit_log, state, s, i)
<1>1. Copies(e.audit_log, IngestRecord(s, i)) = Copies(d.audit_log, IngestRecord(s, i))
  BY Recount
<1>2. Copies(e.audit_log, ExpireRecord(s, i)) = Copies(d.audit_log, ExpireRecord(s, i))
  BY Recount
<1>3. Copies(e.audit_log, GovernRecord(s, "delete", "raw_event", i)) =
        Copies(d.audit_log, GovernRecord(s, "delete", "raw_event", i))
  BY Recount
<1>4. QED
  BY <1>1, <1>2, <1>3 DEF EventAccount

LEMMA MemoryUntouched ==
    ASSUME NEW d, DbType(d), NEW e, NEW records, e.audit_log = LogAudit(d.audit_log, records),
           NEW state, NEW s, NEW i, MemoryAccount(d.audit_log, state, s, i),
           MaterializeRecord(s, i) \notin records,
           \A action \in GovernanceAction :
             GovernRecord(s, action, "memory", i) \notin records
    PROVE  MemoryAccount(e.audit_log, state, s, i)
<1>1. Copies(e.audit_log, MaterializeRecord(s, i)) = Copies(d.audit_log, MaterializeRecord(s, i))
  BY Recount
<1>2. \A action \in {"seal", "restore", "forget", "delete"} :
        Copies(e.audit_log, GovernRecord(s, action, "memory", i)) =
          Copies(d.audit_log, GovernRecord(s, action, "memory", i))
  BY Recount DEF GovernanceAction
<1>3. QED
  BY <1>1, <1>2 DEF MemoryAccount

-----------------------------------------------------------------------------
(* The operations.                                                         *)

\* As long as nothing else is erased, erased memories stay accounted for: no
\* record is ever lost, and what a memory derived from is remembered.
LEMMA CascadeKept ==
    ASSUME NEW d, NEW e, CascadesRecorded(d),
           \A s \in Scopes, i \in Ids : Memories(e)[<<s, i>>] = "erased" =>
             Memories(d)[<<s, i>>] = "erased" /\ Bases(e)[<<s, i>>] = Bases(d)[<<s, i>>],
           \A s \in Scopes, x \in Ids : Events(d)[<<s, x>>] = "erased" =>
             Events(e)[<<s, x>>] = "erased",
           \A r : Copies(e.audit_log, r) = 0 => Copies(d.audit_log, r) = 0
    PROVE  CascadesRecorded(e)
BY DEF CascadesRecorded

\* An ingest opens the account of an event.
LEMMA IngestBalances ==
    ASSUME NEW d, DbType(d), DbConsistent(d), Balanced(d),
           NEW draft \in EventDrafts, NEW now \in Clocks,
           IngestOutcome(d, draft) = "created",
           NEW e, e = IngestEffect(d, draft, now)
    PROVE  Balanced(e)
<1> DEFINE scope == draft.scope
           id == draft.event_id
           record == IngestRecord(scope, id)
<1>1. e.audit_log = LogAudit(d.audit_log, {record})
  BY DEF DbType, IsDb, IngestEffect, IngestRecord
<1>2. /\ <<scope, id>> \in Key
      /\ Events(d)[<<scope, id>>] = "unknown"
      /\ Events(e) = [Events(d) EXCEPT ![<<scope, id>>] = "held"]
      /\ Memories(e) = Memories(d) /\ Bases(e) = Bases(d)
  BY IngestHolds DEF EventKey
<1>3. scope \in Scopes /\ id \in Ids
  BY <1>2 DEF Key
<1> HIDE DEF scope, id
<1>4. /\ Events(e)[<<scope, id>>] = "held"
      /\ \A k \in Key \ {<<scope, id>>} : Events(e)[k] = Events(d)[k]
  BY <1>2 DEF Events
<1>5. /\ record.scope = scope /\ record.entity_id = id
      /\ record.action = "ingest" /\ record.entity_type = "raw_event"
  BY Columns
<1>6. ASSUME NEW s \in Scopes, NEW i \in Ids
      PROVE  EventAccount(e.audit_log, Events(e)[<<s, i>>], s, i)
  <2>1. EventAccount(d.audit_log, Events(d)[<<s, i>>], s, i)
    BY DEF Balanced, EventsBalance
  <2>2. CASE s = scope /\ i = id
    <3>1. Copies(d.audit_log, IngestRecord(s, i)) = 0
      BY <1>2, <2>1, <2>2 DEF EventAccount
    <3>2. Copies(e.audit_log, IngestRecord(s, i)) = 1
      BY <1>1, <2>2, <3>1, Recount
    <3> HIDE DEF record
    <3>3. /\ record # ExpireRecord(s, i)
          /\ record # GovernRecord(s, "delete", "raw_event", i)
      BY <1>5, OtherAction
    <3>4. /\ Copies(e.audit_log, ExpireRecord(s, i)) = Copies(d.audit_log, ExpireRecord(s, i))
          /\ Copies(e.audit_log, GovernRecord(s, "delete", "raw_event", i)) =
               Copies(d.audit_log, GovernRecord(s, "delete", "raw_event", i))
      BY <1>1, <3>3, Recount
    <3>5. QED
      BY <1>2, <1>4, <2>1, <2>2, <3>2, <3>4 DEF EventAccount
  <2>3. CASE s # scope \/ i # id
    <3> HIDE DEF record
    <3>1. /\ IngestRecord(s, i) \notin {record} /\ ExpireRecord(s, i) \notin {record}
          /\ GovernRecord(s, "delete", "raw_event", i) \notin {record}
      BY <1>5, <2>3, OtherEntity
    <3>2. EventAccount(e.audit_log, Events(d)[<<s, i>>], s, i)
      BY <1>1, <2>1, <3>1, EventUntouched
    <3>3. Events(e)[<<s, i>>] = Events(d)[<<s, i>>]
      BY <1>4, <2>3 DEF Key
    <3>4. QED
      BY <3>2, <3>3
  <2>4. QED
    BY <2>2, <2>3
<1>7. ASSUME NEW s \in Scopes, NEW i \in Ids
      PROVE  MemoryAccount(e.audit_log, Memories(e)[<<s, i>>], s, i)
  <2> HIDE DEF record
  <2>1. /\ record # MaterializeRecord(s, i)
        /\ \A action : record # GovernRecord(s, action, "memory", i)
    BY <1>5, OtherType
  <2>2. MemoryAccount(d.audit_log, Memories(d)[<<s, i>>], s, i)
    BY DEF Balanced, MemoriesBalance
  <2>3. QED
    BY <1>1, <1>2, <2>1, <2>2, MemoryUntouched
<1>8. CascadesRecorded(e)
  <2>1. \A r : Copies(e.audit_log, r) = 0 => Copies(d.audit_log, r) = 0
    BY <1>1, Recount
  <2>2. \A s \in Scopes, x \in Ids : Events(d)[<<s, x>>] = "erased" =>
          Events(e)[<<s, x>>] = "erased"
    BY <1>2, <1>4 DEF Key
  <2>3. CascadesRecorded(d)
    BY DEF Balanced
  <2>4. \A s \in Scopes, i \in Ids : Memories(e)[<<s, i>>] = "erased" =>
             Memories(d)[<<s, i>>] = "erased" /\ Bases(e)[<<s, i>>] = Bases(d)[<<s, i>>]
    BY <1>2
  <2>5. QED
    BY <2>1, <2>2, <2>3, <2>4, CascadeKept
<1>9. QED
  BY <1>6, <1>7, <1>8 DEF Balanced, EventsBalance, MemoriesBalance

\* A sweep closes the bodies of the events it expires.
LEMMA SweepBalances ==
    ASSUME NEW d, DbType(d), DbConsistent(d), Balanced(d),
           NEW as_of, NEW e, e = ExpireEffect(d, as_of)
    PROVE  Balanced(e)
<1> DEFINE keys == Expirable(d, as_of)
           records == {ExpireRecord(k[1], k[2]) : k \in keys}
<1>1. e.audit_log = LogAudit(d.audit_log, records)
  BY DEF DbType, IsDb, ExpireEffect, ExpireRecord
<1>2. /\ keys \in SUBSET Key
      /\ \A k \in keys : Events(d)[k] = "held"
      /\ Events(e) = [k \in Key |-> IF k \in keys THEN "expired" ELSE Events(d)[k]]
      /\ Memories(e) = Memories(d) /\ Bases(e) = Bases(d)
  BY SweepExpires
<1> HIDE DEF keys
<1>3. \A r \in records : r.action = "expire" /\ r.entity_type = "raw_event"
  BY Columns
<1>4. ASSUME NEW s \in Scopes, NEW i \in Ids
      PROVE  ExpireRecord(s, i) \in records <=> <<s, i>> \in keys
  <2>1. ASSUME NEW k \in keys, ExpireRecord(s, i) = ExpireRecord(k[1], k[2])
        PROVE  k = <<s, i>>
    <3>1. k[1] = s /\ k[2] = i
      BY <2>1, Columns
    <3>2. QED
      BY <1>2, <3>1 DEF Key
  <2>2. QED
    BY <2>1
<1> HIDE DEF records
<1>5. ASSUME NEW s \in Scopes, NEW i \in Ids
      PROVE  EventAccount(e.audit_log, Events(e)[<<s, i>>], s, i)
  <2>1. EventAccount(d.audit_log, Events(d)[<<s, i>>], s, i)
    BY DEF Balanced, EventsBalance
  <2>2. /\ IngestRecord(s, i) \notin records
        /\ GovernRecord(s, "delete", "raw_event", i) \notin records
    BY <1>3, Columns
  <2>3. CASE <<s, i>> \in keys
    <3>1. Copies(e.audit_log, ExpireRecord(s, i)) = Copies(d.audit_log, ExpireRecord(s, i)) + 1
      BY <1>1, <1>4, <2>3, Recount
    <3>2. Copies(e.audit_log, IngestRecord(s, i)) = Copies(d.audit_log, IngestRecord(s, i))
      BY <1>1, <2>2, Recount
    <3>3. Copies(e.audit_log, GovernRecord(s, "delete", "raw_event", i)) =
            Copies(d.audit_log, GovernRecord(s, "delete", "raw_event", i))
      BY <1>1, <2>2, Recount
    <3>4. Events(d)[<<s, i>>] = "held" /\ Events(e)[<<s, i>>] = "expired"
      BY <1>2, <2>3
    <3>5. QED
      BY <2>1, <3>1, <3>2, <3>3, <3>4 DEF EventAccount
  <2>4. CASE <<s, i>> \notin keys
    <3>1. ExpireRecord(s, i) \notin records
      BY <1>4, <2>4
    <3>2. EventAccount(e.audit_log, Events(d)[<<s, i>>], s, i)
      BY <1>1, <2>1, <2>2, <3>1, EventUntouched
    <3>3. Events(e)[<<s, i>>] = Events(d)[<<s, i>>]
      BY <1>2, <2>4 DEF Key
    <3>4. QED
      BY <3>2, <3>3
  <2>5. QED
    BY <2>3, <2>4
<1>6. ASSUME NEW s \in Scopes, NEW i \in Ids
      PROVE  MemoryAccount(e.audit_log, Memories(e)[<<s, i>>], s, i)
  <2>1. /\ MaterializeRecord(s, i) \notin records
        /\ \A action \in GovernanceAction :
             GovernRecord(s, action, "memory", i) \notin records
    BY <1>3, OtherType
  <2>2. MemoryAccount(d.audit_log, Memories(d)[<<s, i>>], s, i)
    BY DEF Balanced, MemoriesBalance
  <2>3. QED
    BY <1>1, <1>2, <2>1, <2>2, MemoryUntouched
<1>7. CascadesRecorded(e)
  <2>1. \A r : Copies(e.audit_log, r) = 0 => Copies(d.audit_log, r) = 0
    BY <1>1, Recount
  <2>2. \A s \in Scopes, x \in Ids : Events(d)[<<s, x>>] = "erased" =>
          Events(e)[<<s, x>>] = "erased"
    BY <1>2 DEF Key
  <2>3. CascadesRecorded(d)
    BY DEF Balanced
  <2>4. \A s \in Scopes, i \in Ids : Memories(e)[<<s, i>>] = "erased" =>
             Memories(d)[<<s, i>>] = "erased" /\ Bases(e)[<<s, i>>] = Bases(d)[<<s, i>>]
    BY <1>2
  <2>5. QED
    BY <2>1, <2>2, <2>3, <2>4, CascadeKept
<1>8. QED
  BY <1>5, <1>6, <1>7 DEF Balanced, EventsBalance, MemoriesBalance

\* A materialization opens the account of a memory.
LEMMA MaterializeBalances ==
    ASSUME NEW d, DbType(d), DbConsistent(d), Balanced(d), NEW draft \in MemoryDrafts,
           MaterializeOutcome(d, draft) = "created",
           NEW e, e = MaterializeEffect(d, draft)
    PROVE  Balanced(e)
<1> DEFINE scope == draft.scope
           id == draft.memory_id
           record == MaterializeRecord(scope, id)
<1>1. e.audit_log = LogAudit(d.audit_log, {record})
  BY DEF DbType, IsDb, MaterializeEffect, MaterializeRecord
<1>2. /\ scope \in Scopes /\ id \in Ids
      /\ Memories(d)[<<scope, id>>] = "unknown"
      /\ Memories(e) = [Memories(d) EXCEPT ![<<scope, id>>] = "active"]
      /\ Bases(e) = [Bases(d) EXCEPT ![<<scope, id>>] = {BasisOf(DraftFingerprint(draft))}]
      /\ Events(e) = Events(d)
  BY MaterializeDerives
<1> HIDE DEF scope, id
<1>3. /\ Memories(e)[<<scope, id>>] = "active"
      /\ \A k \in Key \ {<<scope, id>>} : /\ Memories(e)[k] = Memories(d)[k]
                                         /\ Bases(e)[k] = Bases(d)[k]
  BY <1>2 DEF Memories, Bases, Key
<1>4. /\ record.scope = scope /\ record.entity_id = id
      /\ record.action = "materialize" /\ record.entity_type = "memory"
  BY Columns
<1>5. ASSUME NEW s \in Scopes, NEW i \in Ids
      PROVE  MemoryAccount(e.audit_log, Memories(e)[<<s, i>>], s, i)
  <2>1. MemoryAccount(d.audit_log, Memories(d)[<<s, i>>], s, i)
    BY DEF Balanced, MemoriesBalance
  <2>2. CASE s = scope /\ i = id
    <3>1. Copies(d.audit_log, MaterializeRecord(s, i)) = 0
      BY <1>2, <2>1, <2>2 DEF MemoryAccount
    <3>2. Copies(e.audit_log, MaterializeRecord(s, i)) = 1
      BY <1>1, <2>2, <3>1, Recount
    <3> HIDE DEF record
    <3>3. \A action \in GovernanceAction : GovernRecord(s, action, "memory", i) \notin {record}
      BY <1>4, OtherAction DEF GovernanceAction
    <3>4. \A action \in {"seal", "restore", "forget", "delete"} :
            Copies(e.audit_log, GovernRecord(s, action, "memory", i)) =
              Copies(d.audit_log, GovernRecord(s, action, "memory", i))
      BY <1>1, <3>3, Recount DEF GovernanceAction
    <3>5. QED
      BY <1>2, <1>3, <2>1, <2>2, <3>2, <3>4 DEF MemoryAccount
  <2>3. CASE s # scope \/ i # id
    <3> HIDE DEF record
    <3>1. /\ MaterializeRecord(s, i) \notin {record}
          /\ \A action \in GovernanceAction : GovernRecord(s, action, "memory", i) \notin {record}
      BY <1>4, <2>3, OtherEntity
    <3>2. MemoryAccount(e.audit_log, Memories(d)[<<s, i>>], s, i)
      BY <1>1, <2>1, <3>1, MemoryUntouched
    <3>3. Memories(e)[<<s, i>>] = Memories(d)[<<s, i>>]
      BY <1>3, <2>3 DEF Key
    <3>4. QED
      BY <3>2, <3>3
  <2>4. QED
    BY <2>2, <2>3
<1>6. ASSUME NEW s \in Scopes, NEW i \in Ids
      PROVE  EventAccount(e.audit_log, Events(e)[<<s, i>>], s, i)
  <2> HIDE DEF record
  <2>1. /\ IngestRecord(s, i) \notin {record} /\ ExpireRecord(s, i) \notin {record}
        /\ GovernRecord(s, "delete", "raw_event", i) \notin {record}
    BY <1>4, OtherType
  <2>2. EventAccount(d.audit_log, Events(d)[<<s, i>>], s, i)
    BY DEF Balanced, EventsBalance
  <2>3. EventAccount(e.audit_log, Events(d)[<<s, i>>], s, i)
    BY <1>1, <2>1, <2>2, EventUntouched
  <2>4. QED
    BY <1>2, <2>3
<1>7. CascadesRecorded(e)
  <2>1. \A r : Copies(e.audit_log, r) = 0 => Copies(d.audit_log, r) = 0
    BY <1>1, Recount
  <2>2. \A s \in Scopes, x \in Ids : Events(d)[<<s, x>>] = "erased" =>
          Events(e)[<<s, x>>] = "erased"
    BY <1>2
  <2>3. CascadesRecorded(d)
    BY DEF Balanced
  <2>4. \A s \in Scopes, i \in Ids : Memories(e)[<<s, i>>] = "erased" =>
             Memories(d)[<<s, i>>] = "erased" /\ Bases(e)[<<s, i>>] = Bases(d)[<<s, i>>]
    BY <1>3 DEF Key
  <2>5. QED
    BY <2>1, <2>2, <2>3, <2>4, CascadeKept
<1>8. QED
  BY <1>5, <1>6, <1>7 DEF Balanced, EventsBalance, MemoriesBalance

\* Governance appends one record about the entity it names.
LEMMA GovernRecorded ==
    ASSUME NEW d, DbType(d), NEW c \in GovernanceCommand, NEW e, e = GovernEffect(d, c)
    PROVE  /\ e.audit_log = LogAudit(d.audit_log,
                              {GovernRecord(c.scope, c.action, c.entity_type, c.entity_id)})
           /\ c.scope \in Scopes /\ c.entity_id \in Ids
<1>1. c.scope \in Scopes /\ c.entity_id \in Ids
  BY DEF GovernanceCommand
<1>2. IsDb(d)
  BY DEF DbType
<1>3. QED
  BY <1>1, <1>2
     DEF IsDb, GovernEffect, SetStatus, Erase, GovernanceAudit, GovernRecord

\* Sealing and restoring alternate.
LEMMA StatusBalances ==
    ASSUME NEW d, DbType(d), DbConsistent(d), Balanced(d), NEW c \in GovernanceCommand,
           GovernOutcome(d, c) = "done", c.action \in {"seal", "restore"},
           NEW e, e = GovernEffect(d, c)
    PROVE  Balanced(e)
<1> DEFINE scope == c.scope
           id == c.entity_id
           record == GovernRecord(scope, c.action, "memory", id)
<1>1. /\ scope \in Scopes /\ id \in Ids
      /\ e.audit_log = LogAudit(d.audit_log, {record})
  BY GovernRecorded, GovernDone DEF EntityType
<1>2. /\ c.action = "seal" =>
           /\ Memories(d)[<<scope, id>>] = "active"
           /\ Memories(e) = [Memories(d) EXCEPT ![<<scope, id>>] = "sealed"]
      /\ c.action = "restore" =>
           /\ Memories(d)[<<scope, id>>] = "sealed"
           /\ Memories(e) = [Memories(d) EXCEPT ![<<scope, id>>] = "active"]
      /\ Events(e) = Events(d) /\ Bases(e) = Bases(d)
  BY StatusChanges
<1> HIDE DEF scope, id
<1>3. /\ c.action = "seal" => Memories(e)[<<scope, id>>] = "sealed"
      /\ c.action = "restore" => Memories(e)[<<scope, id>>] = "active"
      /\ \A k \in Key \ {<<scope, id>>} : Memories(e)[k] = Memories(d)[k]
  BY <1>1, <1>2 DEF Memories, Key
<1>4. /\ record.scope = scope /\ record.entity_id = id
      /\ record.action = c.action /\ record.entity_type = "memory"
  BY Columns
<1>5. ASSUME NEW s \in Scopes, NEW i \in Ids
      PROVE  MemoryAccount(e.audit_log, Memories(e)[<<s, i>>], s, i)
  <2>1. MemoryAccount(d.audit_log, Memories(d)[<<s, i>>], s, i)
    BY DEF Balanced, MemoriesBalance
  <2>2. CASE s = scope /\ i = id
    <3>1. Copies(e.audit_log, GovernRecord(s, c.action, "memory", i)) =
            Copies(d.audit_log, GovernRecord(s, c.action, "memory", i)) + 1
      BY <1>1, <2>2, Recount
    <3> HIDE DEF record
    <3>2. Copies(e.audit_log, MaterializeRecord(s, i)) =
            Copies(d.audit_log, MaterializeRecord(s, i))
      BY <1>1, <1>4, OtherAction, Recount
    <3>3. \A action \in {"seal", "restore", "forget", "delete"} \ {c.action} :
            Copies(e.audit_log, GovernRecord(s, action, "memory", i)) =
              Copies(d.audit_log, GovernRecord(s, action, "memory", i))
      <4>1. TAKE action \in {"seal", "restore", "forget", "delete"} \ {c.action}
      <4>2. GovernRecord(s, action, "memory", i) \notin {record}
        BY <1>4, OtherAction
      <4>3. QED
        BY <1>1, <4>2, Recount
    <3>4. \A r : Copies(d.audit_log, r) \in Nat
      BY CopiesNat
    <3>5. CASE c.action = "seal"
      BY <1>2, <1>3, <2>1, <2>2, <3>1, <3>2, <3>3, <3>4, <3>5 DEF MemoryAccount
    <3>6. CASE c.action = "restore"
      BY <1>2, <1>3, <2>1, <2>2, <3>1, <3>2, <3>3, <3>4, <3>6 DEF MemoryAccount
    <3>7. QED
      BY <3>5, <3>6
  <2>3. CASE s # scope \/ i # id
    <3> HIDE DEF record
    <3>1. /\ MaterializeRecord(s, i) \notin {record}
          /\ \A action \in GovernanceAction : GovernRecord(s, action, "memory", i) \notin {record}
      BY <1>4, <2>3, OtherEntity
    <3>2. MemoryAccount(e.audit_log, Memories(d)[<<s, i>>], s, i)
      BY <1>1, <2>1, <3>1, MemoryUntouched
    <3>3. Memories(e)[<<s, i>>] = Memories(d)[<<s, i>>]
      BY <1>3, <2>3 DEF Key
    <3>4. QED
      BY <3>2, <3>3
  <2>4. QED
    BY <2>2, <2>3
<1>6. ASSUME NEW s \in Scopes, NEW i \in Ids
      PROVE  EventAccount(e.audit_log, Events(e)[<<s, i>>], s, i)
  <2> HIDE DEF record
  <2>1. /\ IngestRecord(s, i) \notin {record} /\ ExpireRecord(s, i) \notin {record}
        /\ GovernRecord(s, "delete", "raw_event", i) \notin {record}
    BY <1>4, OtherType
  <2>2. EventAccount(d.audit_log, Events(d)[<<s, i>>], s, i)
    BY DEF Balanced, EventsBalance
  <2>3. EventAccount(e.audit_log, Events(d)[<<s, i>>], s, i)
    BY <1>1, <2>1, <2>2, EventUntouched
  <2>4. QED
    BY <1>2, <2>3
<1>7. CascadesRecorded(e)
  <2>1. \A r : Copies(e.audit_log, r) = 0 => Copies(d.audit_log, r) = 0
    BY <1>1, Recount
  <2>2. \A s \in Scopes, x \in Ids : Events(d)[<<s, x>>] = "erased" =>
          Events(e)[<<s, x>>] = "erased"
    BY <1>2
  <2>3. CascadesRecorded(d)
    BY DEF Balanced
  <2>4. \A s \in Scopes, i \in Ids : Memories(e)[<<s, i>>] = "erased" =>
             Memories(d)[<<s, i>>] = "erased" /\ Bases(e)[<<s, i>>] = Bases(d)[<<s, i>>]
    BY <1>2, <1>3 DEF Key
  <2>5. QED
    BY <2>1, <2>2, <2>3, <2>4, CascadeKept
<1>8. QED
  BY <1>5, <1>6, <1>7 DEF Balanced, EventsBalance, MemoriesBalance

\* Forgetting or deleting a memory closes its account.
LEMMA ForgetBalances ==
    ASSUME NEW d, DbType(d), DbConsistent(d), Balanced(d), NEW c \in GovernanceCommand,
           GovernOutcome(d, c) = "done", c.action \notin {"seal", "restore"},
           c.entity_type = "memory", NEW e, e = GovernEffect(d, c)
    PROVE  Balanced(e)
<1> DEFINE scope == c.scope
           id == c.entity_id
           record == GovernRecord(scope, c.action, "memory", id)
<1>1. /\ scope \in Scopes /\ id \in Ids
      /\ e.audit_log = LogAudit(d.audit_log, {record})
      /\ c.action \in {"forget", "delete"}
  BY GovernRecorded, GovernDone DEF GovernanceAction
<1>2. /\ \A k \in Key : Memories(e)[k] =
           IF k = <<scope, id>> THEN "erased" ELSE Memories(d)[k]
      /\ Events(e) = Events(d) /\ Bases(e) = Bases(d)
  <2>1. /\ Memories(e) = [k \in Key |->
                IF k[1] = c.scope /\ k[2] \in ErasedMemories(d, c)
                THEN "erased" ELSE Memories(d)[k]]
        /\ Events(e) = [k \in Key |->
                IF c.entity_type = "raw_event" /\ k = <<c.scope, c.entity_id>>
                THEN "erased" ELSE Events(d)[k]]
        /\ Bases(e) = Bases(d)
    BY ErasureErases
  <2>2. \A k \in Key : k[1] = c.scope /\ k[2] \in ErasedMemories(d, c) <=> k = <<scope, id>>
    BY DEF ErasedMemories, Key
  <2>3. Events(e) = Events(d)
    BY <2>1 DEF Events
  <2>4. QED
    BY <2>1, <2>2, <2>3
<1>3. Memories(d)[<<scope, id>>] \in {"active", "sealed"}
  <2>1. <<scope, id>> \in DOMAIN d.memories
    BY GovernDone
  <2>2. <<scope, id>> \in Key /\ d.memories[<<scope, id>>].status \in MemoryStatus
    BY <2>1, RecordFingerprint
  <2>3. QED
    BY <2>1, <2>2 DEF Memories, MemoryState, MemoryStatus
<1> HIDE DEF scope, id
<1>4. /\ record.scope = scope /\ record.entity_id = id
      /\ record.action = c.action /\ record.entity_type = "memory"
  BY Columns
<1>5. ASSUME NEW s \in Scopes, NEW i \in Ids
      PROVE  MemoryAccount(e.audit_log, Memories(e)[<<s, i>>], s, i)
  <2>1. MemoryAccount(d.audit_log, Memories(d)[<<s, i>>], s, i)
    BY DEF Balanced, MemoriesBalance
  <2>2. CASE s = scope /\ i = id
    <3>1. Copies(e.audit_log, GovernRecord(s, c.action, "memory", i)) =
            Copies(d.audit_log, GovernRecord(s, c.action, "memory", i)) + 1
      BY <1>1, <2>2, Recount
    <3> HIDE DEF record
    <3>2. Copies(e.audit_log, MaterializeRecord(s, i)) =
            Copies(d.audit_log, MaterializeRecord(s, i))
      BY <1>1, <1>4, OtherAction, Recount
    <3>3. \A action \in {"seal", "restore", "forget", "delete"} \ {c.action} :
            Copies(e.audit_log, GovernRecord(s, action, "memory", i)) =
              Copies(d.audit_log, GovernRecord(s, action, "memory", i))
      <4>1. TAKE action \in {"seal", "restore", "forget", "delete"} \ {c.action}
      <4>2. GovernRecord(s, action, "memory", i) \notin {record}
        BY <1>4, OtherAction
      <4>3. QED
        BY <1>1, <4>2, Recount
    <3>4. \A r : Copies(d.audit_log, r) \in Nat
      BY CopiesNat
    <3>5. Memories(e)[<<s, i>>] = "erased"
      BY <1>1, <1>2, <2>2 DEF Key
    <3>6. CASE c.action = "forget"
      BY <1>3, <2>1, <2>2, <3>1, <3>2, <3>3, <3>4, <3>5, <3>6 DEF MemoryAccount
    <3>7. CASE c.action = "delete"
      BY <1>3, <2>1, <2>2, <3>1, <3>2, <3>3, <3>4, <3>5, <3>7 DEF MemoryAccount
    <3>8. QED
      BY <1>1, <3>6, <3>7
  <2>3. CASE s # scope \/ i # id
    <3> HIDE DEF record
    <3>1. /\ MaterializeRecord(s, i) \notin {record}
          /\ \A action \in GovernanceAction : GovernRecord(s, action, "memory", i) \notin {record}
      BY <1>4, <2>3, OtherEntity
    <3>2. MemoryAccount(e.audit_log, Memories(d)[<<s, i>>], s, i)
      BY <1>1, <2>1, <3>1, MemoryUntouched
    <3>3. Memories(e)[<<s, i>>] = Memories(d)[<<s, i>>]
      BY <1>2, <2>3 DEF Key
    <3>4. QED
      BY <3>2, <3>3
  <2>4. QED
    BY <2>2, <2>3
<1>6. ASSUME NEW s \in Scopes, NEW i \in Ids
      PROVE  EventAccount(e.audit_log, Events(e)[<<s, i>>], s, i)
  <2> HIDE DEF record
  <2>1. /\ IngestRecord(s, i) \notin {record} /\ ExpireRecord(s, i) \notin {record}
        /\ GovernRecord(s, "delete", "raw_event", i) \notin {record}
    BY <1>4, OtherType
  <2>2. EventAccount(d.audit_log, Events(d)[<<s, i>>], s, i)
    BY DEF Balanced, EventsBalance
  <2>3. EventAccount(e.audit_log, Events(d)[<<s, i>>], s, i)
    BY <1>1, <2>1, <2>2, EventUntouched
  <2>4. QED
    BY <1>2, <2>3
<1>7. ASSUME NEW s \in Scopes, NEW i \in Ids, Memories(e)[<<s, i>>] = "erased",
             Copies(e.audit_log, GovernRecord(s, "forget", "memory", i)) = 0,
             Copies(e.audit_log, GovernRecord(s, "delete", "memory", i)) = 0
      PROVE  \E b \in Bases(e)[<<s, i>>] : \E x \in Ids \cap b.sources :
               Events(e)[<<s, x>>] = "erased"
  <2>1. \A r : Copies(d.audit_log, r) \in Nat
    BY CopiesNat
  <2>2. <<s, i>> # <<scope, id>>
    <3>1. Copies(e.audit_log, record) = Copies(d.audit_log, record) + 1
      BY <1>1, Recount
    <3>2. QED
      BY <1>1, <1>7, <2>1, <3>1
  <2>3. Memories(d)[<<s, i>>] = "erased"
    BY <1>2, <1>7, <2>2 DEF Key
  <2>4. /\ Copies(d.audit_log, GovernRecord(s, "forget", "memory", i)) = 0
        /\ Copies(d.audit_log, GovernRecord(s, "delete", "memory", i)) = 0
    BY <1>1, <1>7, Recount
  <2>5. CascadesRecorded(d)
    BY DEF Balanced
  <2>6. QED
    BY <1>2, <2>3, <2>4, <2>5 DEF CascadesRecorded
<1>8. QED
  BY <1>5, <1>6, <1>7 DEF Balanced, EventsBalance, MemoriesBalance, CascadesRecorded

\* Deleting an event closes its account, and takes along memories whose
\* accounts have no closing record.
LEMMA DeleteBalances ==
    ASSUME NEW d, DbType(d), DbConsistent(d), Balanced(d), NEW c \in GovernanceCommand,
           GovernOutcome(d, c) = "done", c.entity_type = "raw_event",
           NEW e, e = GovernEffect(d, c)
    PROVE  Balanced(e)
<1> DEFINE scope == c.scope
           id == c.entity_id
           record == GovernRecord(scope, "delete", "raw_event", id)
           gone(k) == k[1] = scope /\ k[2] \in Dependents(d, scope, id)
<1>1. /\ scope \in Scopes /\ id \in Ids /\ c.action = "delete"
      /\ e.audit_log = LogAudit(d.audit_log, {record})
      /\ <<scope, id>> \in DOMAIN d.raw_events
  BY GovernRecorded, GovernDone
<1>2. /\ \A k \in Key : Memories(e)[k] = IF gone(k) THEN "erased" ELSE Memories(d)[k]
      /\ \A k \in Key : Events(e)[k] =
           IF k = <<scope, id>> THEN "erased" ELSE Events(d)[k]
      /\ Bases(e) = Bases(d)
  <2>1. /\ Memories(e) = [k \in Key |->
                IF k[1] = c.scope /\ k[2] \in ErasedMemories(d, c)
                THEN "erased" ELSE Memories(d)[k]]
        /\ Events(e) = [k \in Key |->
                IF c.entity_type = "raw_event" /\ k = <<c.scope, c.entity_id>>
                THEN "erased" ELSE Events(d)[k]]
        /\ Bases(e) = Bases(d)
    BY <1>1, ErasureErases
  <2>2. ErasedMemories(d, c) = Dependents(d, scope, id)
    BY DEF ErasedMemories
  <2>3. QED
    BY <2>1, <2>2
<1>3. Events(d)[<<scope, id>>] \in {"held", "expired"}
  BY <1>1 DEF Events, EventState, Key
<1> HIDE DEF scope, id
<1>4. ASSUME NEW k \in Key, gone(k)
      PROVE  /\ Memories(d)[k] \in {"active", "sealed"}
             /\ \E b \in Bases(d)[k] : id \in b.sources
  BY <1>1, <1>4, DependentsLive
<1> HIDE DEF gone
<1>5. /\ record.scope = scope /\ record.entity_id = id
      /\ record.action = "delete" /\ record.entity_type = "raw_event"
  BY Columns
<1>6. ASSUME NEW s \in Scopes, NEW i \in Ids
      PROVE  EventAccount(e.audit_log, Events(e)[<<s, i>>], s, i)
  <2>1. EventAccount(d.audit_log, Events(d)[<<s, i>>], s, i)
    BY DEF Balanced, EventsBalance
  <2>2. CASE s = scope /\ i = id
    <3>1. Copies(e.audit_log, GovernRecord(s, "delete", "raw_event", i)) =
            Copies(d.audit_log, GovernRecord(s, "delete", "raw_event", i)) + 1
      BY <1>1, <2>2, Recount
    <3> HIDE DEF record
    <3>2. /\ Copies(e.audit_log, IngestRecord(s, i)) = Copies(d.audit_log, IngestRecord(s, i))
          /\ Copies(e.audit_log, ExpireRecord(s, i)) = Copies(d.audit_log, ExpireRecord(s, i))
      BY <1>1, <1>5, OtherAction, Recount
    <3>3. Events(e)[<<s, i>>] = "erased"
      BY <1>1, <1>2, <2>2 DEF Key
    <3>4. QED
      BY <1>3, <2>1, <2>2, <3>1, <3>2, <3>3 DEF EventAccount
  <2>3. CASE s # scope \/ i # id
    <3> HIDE DEF record
    <3>1. /\ IngestRecord(s, i) \notin {record} /\ ExpireRecord(s, i) \notin {record}
          /\ GovernRecord(s, "delete", "raw_event", i) \notin {record}
      BY <1>5, <2>3, OtherEntity
    <3>2. EventAccount(e.audit_log, Events(d)[<<s, i>>], s, i)
      BY <1>1, <2>1, <3>1, EventUntouched
    <3>3. Events(e)[<<s, i>>] = Events(d)[<<s, i>>]
      BY <1>2, <2>3 DEF Key
    <3>4. QED
      BY <3>2, <3>3
  <2>4. QED
    BY <2>2, <2>3
<1>7. ASSUME NEW s \in Scopes, NEW i \in Ids
      PROVE  MemoryAccount(e.audit_log, Memories(e)[<<s, i>>], s, i)
  <2> HIDE DEF record
  <2>1. /\ MaterializeRecord(s, i) \notin {record}
        /\ \A action \in GovernanceAction : GovernRecord(s, action, "memory", i) \notin {record}
    BY <1>5, OtherType
  <2>2. MemoryAccount(d.audit_log, Memories(d)[<<s, i>>], s, i)
    BY DEF Balanced, MemoriesBalance
  <2>3. MemoryAccount(e.audit_log, Memories(d)[<<s, i>>], s, i)
    BY <1>1, <2>1, <2>2, MemoryUntouched
  <2>4. <<s, i>> \in Key
    BY DEF Key
  <2>5. CASE gone(<<s, i>>)
    <3>1. Memories(d)[<<s, i>>] \in {"active", "sealed"} /\ Memories(e)[<<s, i>>] = "erased"
      BY <1>2, <1>4, <2>4, <2>5
    <3>2. QED
      BY <2>3, <3>1 DEF MemoryAccount
  <2>6. CASE ~gone(<<s, i>>)
    BY <1>2, <2>3, <2>4, <2>6
  <2>7. QED
    BY <2>5, <2>6
<1>8. ASSUME NEW s \in Scopes, NEW i \in Ids, Memories(e)[<<s, i>>] = "erased",
             Copies(e.audit_log, GovernRecord(s, "forget", "memory", i)) = 0,
             Copies(e.audit_log, GovernRecord(s, "delete", "memory", i)) = 0
      PROVE  \E b \in Bases(e)[<<s, i>>] : \E x \in Ids \cap b.sources :
               Events(e)[<<s, x>>] = "erased"
  <2>1. <<s, i>> \in Key
    BY DEF Key
  <2>2. CASE gone(<<s, i>>)
    <3>1. PICK b \in Bases(d)[<<s, i>>] : id \in b.sources
      BY <1>4, <2>1, <2>2
    <3>2. s = scope
      BY <2>2 DEF gone
    <3>3. Events(e)[<<s, id>>] = "erased"
      BY <1>1, <1>2, <3>2 DEF Key
    <3>4. QED
      BY <1>1, <1>2, <3>1, <3>3
  <2>3. CASE ~gone(<<s, i>>)
    <3>1. Memories(d)[<<s, i>>] = "erased"
      BY <1>2, <1>8, <2>1, <2>3
    <3>2. /\ Copies(d.audit_log, GovernRecord(s, "forget", "memory", i)) = 0
          /\ Copies(d.audit_log, GovernRecord(s, "delete", "memory", i)) = 0
      BY <1>1, <1>8, Recount
    <3>3. CascadesRecorded(d)
      BY DEF Balanced
    <3>4. PICK b \in Bases(d)[<<s, i>>] : \E x \in Ids \cap b.sources :
                                            Events(d)[<<s, x>>] = "erased"
      BY <3>1, <3>2, <3>3 DEF CascadesRecorded
    <3>5. PICK x \in Ids \cap b.sources : Events(d)[<<s, x>>] = "erased"
      BY <3>4
    <3>6. Events(e)[<<s, x>>] = "erased"
      BY <1>2, <3>5 DEF Key
    <3>7. QED
      BY <1>2, <3>4, <3>5, <3>6
  <2>4. QED
    BY <2>2, <2>3
<1>9. QED
  BY <1>6, <1>7, <1>8 DEF Balanced, EventsBalance, MemoriesBalance, CascadesRecorded

-----------------------------------------------------------------------------
(* Steps.                                                                  *)

\* The books of an empty store balance.
LEMMA InitBalanced == Init => Balanced(db)
<1> SUFFICES ASSUME Init PROVE Balanced(db)
  OBVIOUS
<1>1. /\ DOMAIN db.raw_events = {} /\ DOMAIN db.memories = {}
      /\ DOMAIN db.tombstones = {} /\ DOMAIN db.audit_log = {}
  BY DEF Init, EmptyDb, EmptyTable
<1>2. \A r : Copies(db.audit_log, r) = 0
  BY <1>1 DEF Copies
<1>3. ASSUME NEW s \in Scopes, NEW i \in Ids
      PROVE  Events(db)[<<s, i>>] = "unknown" /\ Memories(db)[<<s, i>>] = "unknown"
  BY <1>1 DEF Events, EventState, Memories, MemoryState, Key
<1>4. EventsBalance(db)
  BY <1>2, <1>3 DEF EventsBalance, EventAccount
<1>5. ASSUME NEW s \in Scopes, NEW i \in Ids
      PROVE  MemoryAccount(db.audit_log, Memories(db)[<<s, i>>], s, i)
  <2>1. MemoryAccount(db.audit_log, "unknown", s, i)
    BY <1>2 DEF MemoryAccount
  <2>2. QED
    BY <1>3, <2>1
<1>6. CascadesRecorded(db)
  BY <1>3 DEF CascadesRecorded
<1>7. QED
  BY <1>4, <1>5, <1>6 DEF Balanced, MemoriesBalance

\* Every operation keeps the books balanced.
LEMMA OperationBalances ==
    ASSUME TypeOK, Consistent, Balanced(db), [Next]_vars
    PROVE  Balanced(db')
<1>0. DbType(db) /\ DbConsistent(db)
  BY DEF TypeOK, Consistent
<1>1. CASE db' = db
  BY <1>1
<1>2. ASSUME NEW draft \in EventDrafts, NEW now \in Clocks, IngestEvent(draft, now),
             db' # db
      PROVE  Balanced(db')
  <2>1. IngestOutcome(db, draft) = "created" /\ db' = IngestEffect(db, draft, now)
    BY <1>2 DEF IngestEvent
  <2>2. QED
    BY <1>0, <2>1, IngestBalances
<1>3. ASSUME NEW draft \in MemoryDrafts, MaterializeOnce(draft), db' # db
      PROVE  Balanced(db')
  <2>1. MaterializeOutcome(db, draft) = "created" /\ db' = MaterializeEffect(db, draft)
    BY <1>3 DEF MaterializeOnce
  <2>2. QED
    BY <1>0, <2>1, MaterializeBalances
<1>4. ASSUME NEW c \in GovernanceCommand, Govern(c), db' # db
      PROVE  Balanced(db')
  <2>1. GovernOutcome(db, c) = "done" /\ db' = GovernEffect(db, c)
    BY <1>4 DEF Govern
  <2>2. CASE c.action \in {"seal", "restore"}
    BY <1>0, <2>1, <2>2, StatusBalances
  <2>3. CASE c.action \notin {"seal", "restore"} /\ c.entity_type = "memory"
    BY <1>0, <2>1, <2>3, ForgetBalances
  <2>4. CASE c.entity_type = "raw_event"
    BY <1>0, <2>1, <2>4, DeleteBalances
  <2>5. QED
    BY <2>2, <2>3, <2>4 DEF GovernanceCommand, EntityType
<1>5. ASSUME NEW as_of \in Sweeps, ExpireRawContent(as_of), db' # db
      PROVE  Balanced(db')
  <2>1. db' = ExpireEffect(db, as_of)
    BY <1>5 DEF ExpireRawContent
  <2>2. QED
    BY <1>0, <2>1, SweepBalances
<1>6. QED
  BY <1>1, <1>2, <1>3, <1>4, <1>5 DEF Next, vars

-----------------------------------------------------------------------------
(* Theorems.                                                               *)

\* The books always balance.
THEOREM BooksBalance == Spec => []Balanced(db)
<1>1. Init => Balanced(db)
  BY InitBalanced
<1>2. TypeOK /\ Consistent /\ Balanced(db) /\ [Next]_vars => Balanced(db)'
  BY OperationBalances
<1>3. QED
  BY <1>1, <1>2, TypeCorrect, Consistency, PTL DEF Spec

\* What the audit log says of an event is what became of it.
LEMMA EventBooks ==
    ASSUME TypeOK, Consistent, Balanced(db)
    PROVE  EventLedger
<1>0. DbType(db) /\ DbConsistent(db)
  BY DEF TypeOK, Consistent
<1> SUFFICES ASSUME NEW s \in Scopes, NEW i \in Ids
             PROVE
      LET live == <<s, i>> \in DOMAIN db.raw_events
          gone == <<s, "raw_event", i>> \in DOMAIN db.tombstones
          ingested == Count(s, "ingest", "raw_event", i, "event ingested")
          expired == Count(s, "expire", "raw_event", i, "raw content expired")
      IN  /\ ingested = IF live \/ gone THEN 1 ELSE 0
          /\ expired <= ingested
          /\ live => (expired = 1 <=> <<s, i>> \notin DOMAIN db.raw_event_content)
          /\ Governed(s, "delete", "raw_event", i) = IF gone THEN 1 ELSE 0
  BY DEF EventLedger
<1> DEFINE live == <<s, i>> \in DOMAIN db.raw_events
           gone == <<s, "raw_event", i>> \in DOMAIN db.tombstones
           state == Events(db)[<<s, i>>]
<1>1. EventAccount(db.audit_log, state, s, i)
  BY DEF Balanced, EventsBalance
<1>2. ~(live /\ gone)
  BY <1>0 DEF DbConsistent
<1>3. state = IF live THEN IF <<s, i>> \in DOMAIN db.raw_event_content THEN "held" ELSE "expired"
              ELSE IF gone THEN "erased" ELSE "unknown"
  BY DEF Events, EventState, Key
<1>4. /\ Count(s, "ingest", "raw_event", i, "event ingested") =
           Copies(db.audit_log, IngestRecord(s, i))
      /\ Count(s, "expire", "raw_event", i, "raw content expired") =
           Copies(db.audit_log, ExpireRecord(s, i))
      /\ Governed(s, "delete", "raw_event", i) =
           Copies(db.audit_log, GovernRecord(s, "delete", "raw_event", i))
  BY DEF Count, Governed, IngestRecord, ExpireRecord, GovernRecord
<1> DEFINE ingested == Count(s, "ingest", "raw_event", i, "event ingested")
           expired == Count(s, "expire", "raw_event", i, "raw content expired")
           deleted == Governed(s, "delete", "raw_event", i)
<1>5. /\ ingested = IF state = "unknown" THEN 0 ELSE 1
      /\ expired \in {0, 1}
      /\ state \in {"unknown", "held"} => expired = 0
      /\ state = "expired" => expired = 1
      /\ deleted = IF state = "erased" THEN 1 ELSE 0
  BY <1>1, <1>4 DEF EventAccount
<1> HIDE DEF state, live, gone, ingested, expired, deleted
<1>6. /\ ingested = IF live \/ gone THEN 1 ELSE 0
      /\ expired <= ingested
      /\ live => (expired = 1 <=> <<s, i>> \notin DOMAIN db.raw_event_content)
      /\ deleted = IF gone THEN 1 ELSE 0
  BY <1>2, <1>3, <1>5
<1>7. QED
  BY <1>6 DEF live, gone, ingested, expired, deleted

\* What the audit log says of a memory is what became of it.
LEMMA MemoryBooks ==
    ASSUME TypeOK, Consistent, Balanced(db)
    PROVE  MemoryLedger
<1>0. DbType(db) /\ DbConsistent(db)
  BY DEF TypeOK, Consistent
<1> SUFFICES ASSUME NEW s \in Scopes, NEW i \in Ids
             PROVE
      LET live == <<s, i>> \in DOMAIN db.memories
          tombstone == <<s, "memory", i>>
          gone == tombstone \in DOMAIN db.tombstones
          made == Count(s, "materialize", "memory", i, "memory materialized")
          seals == Governed(s, "seal", "memory", i)
          restores == Governed(s, "restore", "memory", i)
          erased == Governed(s, "forget", "memory", i) + Governed(s, "delete", "memory", i)
      IN  /\ made = IF live \/ gone THEN 1 ELSE 0
          /\ seals \in {restores, restores + 1}
          /\ live => (db.memories[<<s, i>>].status = "sealed" <=> seals > restores)
          /\ erased <= IF gone THEN 1 ELSE 0
          /\ gone /\ erased = 0 =>
               \E e \in db.tombstones[tombstone].sources :
                   Governed(s, "delete", "raw_event", e) = 1
  BY DEF MemoryLedger
<1> DEFINE live == <<s, i>> \in DOMAIN db.memories
           tombstone == <<s, "memory", i>>
           gone == tombstone \in DOMAIN db.tombstones
           state == Memories(db)[<<s, i>>]
<1>1. MemoryAccount(db.audit_log, state, s, i)
  BY DEF Balanced, MemoriesBalance
<1>2. ~(live /\ gone)
  BY <1>0 DEF DbConsistent
<1>3. /\ <<s, i>> \in Key
      /\ state = IF live THEN db.memories[<<s, i>>].status
                 ELSE IF gone THEN "erased" ELSE "unknown"
  BY DEF Memories, MemoryState, Key
<1>4. live => db.memories[<<s, i>>].status \in {"active", "sealed"}
  BY <1>0, RecordFingerprint DEF MemoryStatus
<1>5. /\ Count(s, "materialize", "memory", i, "memory materialized") =
           Copies(db.audit_log, MaterializeRecord(s, i))
      /\ \A action, type, x : Governed(s, action, type, x) =
           Copies(db.audit_log, GovernRecord(s, action, type, x))
  BY DEF Count, Governed, MaterializeRecord, GovernRecord
<1>6. \A r : Copies(db.audit_log, r) \in Nat
  BY <1>0, CopiesNat
<1>7. ASSUME gone, Governed(s, "forget", "memory", i) + Governed(s, "delete", "memory", i) = 0
      PROVE  \E e \in db.tombstones[tombstone].sources : Governed(s, "delete", "raw_event", e) = 1
  <2>1. state = "erased" /\ ~live
    BY <1>2, <1>3, <1>7
  <2>2. Bases(db)[<<s, i>>] = {BasisOf(db.tombstones[tombstone])}
    BY <1>3, <1>7, <2>1, BasisRead
  <2>3. /\ Copies(db.audit_log, GovernRecord(s, "forget", "memory", i)) = 0
        /\ Copies(db.audit_log, GovernRecord(s, "delete", "memory", i)) = 0
    <3> DEFINE forgotten == Copies(db.audit_log, GovernRecord(s, "forget", "memory", i))
               deleted == Copies(db.audit_log, GovernRecord(s, "delete", "memory", i))
    <3>1. forgotten + deleted = 0
      BY <1>5, <1>7
    <3>2. forgotten \in Nat /\ deleted \in Nat
      BY <1>6
    <3> HIDE DEF forgotten, deleted
    <3>3. forgotten = 0 /\ deleted = 0
      BY <3>1, <3>2
    <3>4. QED
      BY <3>3 DEF forgotten, deleted
  <2>4. PICK x \in Ids \cap BasisOf(db.tombstones[tombstone]).sources :
               Events(db)[<<s, x>>] = "erased"
    BY <2>1, <2>2, <2>3 DEF Balanced, CascadesRecorded
  <2>5. x \in db.tombstones[tombstone].sources
    BY <2>4 DEF BasisOf
  <2>6. EventAccount(db.audit_log, "erased", s, x)
    BY <2>4 DEF Balanced, EventsBalance
  <2>7. Governed(s, "delete", "raw_event", x) = 1
    BY <1>5, <2>6 DEF EventAccount
  <2>8. QED
    BY <2>5, <2>7
<1> DEFINE made == Count(s, "materialize", "memory", i, "memory materialized")
           seals == Governed(s, "seal", "memory", i)
           restores == Governed(s, "restore", "memory", i)
           erased == Governed(s, "forget", "memory", i) + Governed(s, "delete", "memory", i)
<1>8. /\ made = IF state = "unknown" THEN 0 ELSE 1
      /\ seals \in {restores, restores + 1}
      /\ state = "active" => seals = restores
      /\ state = "sealed" => seals = restores + 1
      /\ erased \in {0, 1}
      /\ state # "erased" => erased = 0
  BY <1>1, <1>5 DEF MemoryAccount
<1>9. restores \in Nat
  BY <1>5, <1>6
<1> HIDE DEF state, live, gone, made, seals, restores, erased
<1>10. /\ made = IF live \/ gone THEN 1 ELSE 0
       /\ seals \in {restores, restores + 1}
       /\ live => (db.memories[<<s, i>>].status = "sealed" <=> seals > restores)
       /\ erased <= IF gone THEN 1 ELSE 0
  BY <1>2, <1>3, <1>4, <1>8, <1>9
<1>11. QED
  BY <1>7, <1>10 DEF live, gone, made, seals, restores, erased

\* The audit log accounts for every event, whatever was requested.
THEOREM EventsAccounted == Spec => []EventLedger
<1>1. TypeOK /\ Consistent /\ Balanced(db) => EventLedger
  BY EventBooks
<1>2. QED
  BY <1>1, BooksBalance, TypeCorrect, Consistency, PTL

\* The audit log accounts for every memory, cascades included.
THEOREM MemoriesAccounted == Spec => []MemoryLedger
<1>1. TypeOK /\ Consistent /\ Balanced(db) => MemoryLedger
  BY MemoryBooks
<1>2. QED
  BY <1>1, BooksBalance, TypeCorrect, Consistency, PTL
=============================================================================
