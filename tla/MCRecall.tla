------------------------------ MODULE MCRecall ------------------------------
(***************************************************************************)
(* Small instances of Recall: memories that tie in clarity, in creation    *)
(* time and in both, that fade at different speeds, and one that never     *)
(* fades.  Floats have two binary digits, so rounding makes further ties.  *)
(***************************************************************************)
EXTENDS Recall

Event(i, clear, recall) ==
    [scope |-> "s1", event_id |-> i, source |-> "chat", occurred_at |-> 0,
     trust |-> 1, content |-> "x", raw_ttl |-> 2, clear_for |-> clear,
     recall_for |-> recall, metadata |-> [type |-> "int", value |-> 1]]

Memory(i, ids, kind, created) ==
    [scope |-> "s1", memory_id |-> i, content |-> "x",
     source_event_ids |-> ids, kind |-> kind, trust |-> 1,
     created_at |-> created, metadata |-> [type |-> "int", value |-> 1]]

Ranks == [i \in {"a", "b", "c"} |-> CASE i = "a" -> 1 [] i = "b" -> 2 [] i = "c" -> 3]

Powers == [k \in 0..(MaxTime + Bits) |-> 2^k]

Events == {Event("a", 1, 7), Event("b", 2, 2)}

\* The first two fade alike, the third fades later and in another version never.
Memories ==
    {Memory("a", <<"a">>, "fact", 1), Memory("b", <<"a">>, "note", 1),
     Memory("c", <<"a">>, "fact", 2), Memory("c", <<"b">>, "fact", 2),
     Memory("c", <<"b", "a">>, "note", 1)}
=============================================================================
