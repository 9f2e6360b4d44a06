----------------------------- MODULE MCIntegrity -----------------------------
(***************************************************************************)
(* A small instance of Integrity: a memory of two events whose ceilings    *)
(* differ, and a second scope that uses the same identifiers.              *)
(***************************************************************************)
EXTENDS Integrity

Event(s, i, trust, clear, recall) ==
    [scope |-> s, event_id |-> i, source |-> "chat", occurred_at |-> 0,
     trust |-> trust, content |-> "x", raw_ttl |-> 2, clear_for |-> clear,
     recall_for |-> recall, metadata |-> [type |-> "int", value |-> 1]]

Memory(s, ids, trust) ==
    [scope |-> s, memory_id |-> "a", content |-> "x",
     source_event_ids |-> ids, kind |-> "fact", trust |-> trust,
     created_at |-> 0, metadata |-> [type |-> "int", value |-> 1]]

\* One event has a second version, which may be ingested in the place of a lost
\* receipt.
Events == {Event("s1", "a", 2, 1, 3), Event("s1", "b", 1, 2, 2), Event("s1", "b", 2, 3, 3),
           Event("s2", "a", 1, 1, 2)}
Memories == {Memory("s1", <<"a", "b">>, 1), Memory("s2", <<"a">>, 1)}
=============================================================================
