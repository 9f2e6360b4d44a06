-------------------------- MODULE StoreRefinement --------------------------
(***************************************************************************)
(* Store implements Lifecycle: the state of an event or a memory is read   *)
(* off the tables, tombstones included.                                    *)
(***************************************************************************)
EXTENDS Store

EventState(d, key) ==
    IF key \in DOMAIN d.raw_events
    THEN IF key \in DOMAIN d.raw_event_content THEN "held" ELSE "expired"
    ELSE IF <<key[1], "raw_event", key[2]>> \in DOMAIN d.tombstones
         THEN "erased" ELSE "unknown"

MemoryState(d, key) ==
    IF key \in DOMAIN d.memories THEN d.memories[key].status
    ELSE IF <<key[1], "memory", key[2]>> \in DOMAIN d.tombstones
         THEN "erased" ELSE "unknown"

BasisOf(fingerprint) ==
    [kind |-> fingerprint.kind, sources |-> fingerprint.sources]

MemoryBasis(d, key) ==
    LET tombstone == <<key[1], "memory", key[2]>>
    IN  IF key \in DOMAIN d.memories
        THEN {BasisOf(d.memories[key].dependency_fingerprint)}
        ELSE IF tombstone \in DOMAIN d.tombstones
             THEN {BasisOf(d.tombstones[tombstone])}
        ELSE {}

\* The states of all events and memories, and what memories derive from.
Events(d) == [key \in Key |-> EventState(d, key)]
Memories(d) == [key \in Key |-> MemoryState(d, key)]
Bases(d) == [key \in Key |-> MemoryBasis(d, key)]

Promise == INSTANCE Lifecycle WITH
    event <- Events(db), memory <- Memories(db), basis <- Bases(db)

\* Every behaviour of the store is a lifecycle the abstract specification
\* allows: each operation of sqlite.py, cascade and retries included, is one
\* abstract step or none.
ImplementsLifecycle == Promise!Spec
=============================================================================
