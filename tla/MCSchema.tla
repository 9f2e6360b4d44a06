------------------------------ MODULE MCSchema ------------------------------
(***************************************************************************)
(* Small instances of Schema: one event and one memory, and every kind of  *)
(* file a path may lead to.                                                *)
(***************************************************************************)
EXTENDS Schema, TLC

Event == [scope |-> "s1", event_id |-> "a", source |-> "chat", occurred_at |-> 0,
          trust |-> 1, content |-> "x", raw_ttl |-> 2, clear_for |-> 1,
          recall_for |-> 3, metadata |-> [type |-> "int", value |-> 1]]
Memory == [scope |-> "s1", memory_id |-> "a", content |-> "x",
           source_event_ids |-> <<"a">>, kind |-> "fact", trust |-> 1,
           created_at |-> 0, metadata |-> [type |-> "int", value |-> 1]]

Events == {Event}
Memories == {Memory}

\* One event and the memory derived from it, as this release stores them.
Filled == MaterializeEffect(IngestEffect(EmptyDb, Event, 0), Memory)

\* The same without snapshots, and damaged in the ways a migration may meet.
Stripped(d) == [d EXCEPT !.memory_sources = [e \in DOMAIN @ |-> Null]]
LostReceipt == [Filled EXCEPT !.raw_events = EmptyTable, !.raw_event_content = EmptyTable]
LostMemory == [Filled EXCEPT !.memories = EmptyTable]
BadPeriods == [Filled EXCEPT !.raw_events = [e \in DOMAIN @ |-> [@[e] EXCEPT !.clear_for = 4]]]

File(s, d) == [schema |-> s, db |-> d]
Legacy == [Complete EXCEPT !.lineage = "legacy"]

Files ==
    {File(NoSchema, EmptyDb), File(Complete, Filled)}
        \cup {File(Legacy, Stripped(d)) :
                d \in {EmptyDb, Filled, LostReceipt, LostMemory, BadPeriods}}
        \cup {File([Complete EXCEPT !.versions = v], Filled) : v \in {{}, {2}, {1, 2}}}
        \cup {File([Complete EXCEPT !.tables = @ \ {"audit_log"}],
                   [Filled EXCEPT !.audit_log = EmptyTable]),
              File([Complete EXCEPT !.lineage = "other"], Filled),
              File([NoSchema EXCEPT !.versions = {1}], EmptyDb)}

\* The files to be created or migrated, for the temporal properties.
FilesToBuild ==
    {File(NoSchema, EmptyDb), File(Legacy, Stripped(Filled)),
     File(Legacy, Stripped(LostReceipt)),
     File([Complete EXCEPT !.versions = {2}], Filled)}

\* Clients are interchangeable in the safety run.
AnyClient == Permutations(Clients)
=============================================================================
