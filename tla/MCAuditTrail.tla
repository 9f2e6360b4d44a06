---------------------------- MODULE MCAuditTrail ----------------------------
(***************************************************************************)
(* A small instance of AuditTrail: two events of one scope that are due at *)
(* different instants, so that sweeps expire them apart or together, one   *)
(* of another scope, and a memory.                                         *)
(***************************************************************************)
EXTENDS AuditTrail

Event(s, i, raw_ttl) ==
    [scope |-> s, event_id |-> i, source |-> "chat", occurred_at |-> 0,
     trust |-> 1, content |-> "x", raw_ttl |-> raw_ttl, clear_for |-> 1,
     recall_for |-> 3, metadata |-> [type |-> "int", value |-> 1]]

Events == {Event("s1", "a", 2), Event("s1", "b", 3), Event("s2", "a", 2)}

Memories ==
    {[scope |-> "s1", memory_id |-> "a", content |-> "x",
      source_event_ids |-> <<"a">>, kind |-> "fact", trust |-> 1,
      created_at |-> 1, metadata |-> [type |-> "int", value |-> 1]]}
=============================================================================
