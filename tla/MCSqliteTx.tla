----------------------------- MODULE MCSqliteTx -----------------------------
(***************************************************************************)
(* Small instances of SqliteTx: one event, the memory derived from it, and *)
(* calls that record, expire, delete and recall them.                      *)
(***************************************************************************)
EXTENDS SqliteTx

Event == [scope |-> "s1", event_id |-> "a", source |-> "chat", occurred_at |-> 0,
          trust |-> 1, content |-> "x", raw_ttl |-> 2, clear_for |-> 1,
          recall_for |-> 3, metadata |-> [type |-> "int", value |-> 1]]
Memory == [scope |-> "s1", memory_id |-> "a", content |-> "x",
           source_event_ids |-> <<"a">>, kind |-> "fact", trust |-> 1,
           created_at |-> 0, metadata |-> [type |-> "int", value |-> 1]]

Events == {Event}
Memories == {Memory}

Ingest == [op |-> "ingest", draft |-> Event, now |-> 0]
Materialize == [op |-> "materialize", draft |-> Memory]
Expire == [op |-> "expire", as_of |-> 2]
Recall == [op |-> "recall", scope |-> "s1", as_of |-> 0]
Audit == [op |-> "audit", scope |-> "s1"]
Command(action, type) ==
    [op |-> "govern",
     command |-> [scope |-> "s1", action |-> action, entity_type |-> type,
                  entity_id |-> "a"]]

\* Restoring a memory takes the steps of sealing it.
HostRequests == {Ingest, Materialize, Expire, Recall, Audit,
                 Command("delete", "raw_event"), Command("forget", "memory"),
                 Command("seal", "memory")}
=============================================================================
