------------------------------ MODULE MCStore ------------------------------
(***************************************************************************)
(* Small instances of Store.  One identifier space is shared by events and *)
(* memories of two scopes, so every lookup that forgets the scope or the   *)
(* entity type meets a row it should not see.                              *)
(***************************************************************************)
EXTENDS StoreRefinement

Event(s, i, trust, content, occurred, ttl, clear, recall, type) ==
    [scope |-> s, event_id |-> i, source |-> "chat", occurred_at |-> occurred,
     trust |-> trust, content |-> content, raw_ttl |-> ttl,
     clear_for |-> clear, recall_for |-> recall,
     metadata |-> [type |-> type, value |-> 1]]

Memory(s, i, content, ids, trust, created) ==
    [scope |-> s, memory_id |-> i, content |-> content,
     source_event_ids |-> ids, kind |-> "fact", trust |-> trust,
     created_at |-> created, metadata |-> [type |-> "int", value |-> 1]]

\* One scope, two events.  The first has a second version with a recall period
\* SQLite cannot store and the second one that expires beyond MaxTime: drafts
\* that are refused, or in conflict once the event is on record.
LifecycleEvents ==
    {Event("s1", "a", 2, "x", 0, 2, 1, 3, "int"),
     Event("s1", "a", 2, "y", 0, 2, 1, 99, "int"),
     Event("s1", "b", 1, "x", 1, 5, 2, 2, "int"),
     Event("s1", "b", 1, "x", 6, 1, 2, 2, "int")}

\* Two memories with one fingerprint, the second over-trusted in one version, a
\* two-source memory in both source orders, and a deadline beyond MaxTime.
LifecycleMemories ==
    {Memory("s1", "a", "x", <<"a">>, 2, 1),
     Memory("s1", "b", "x", <<"a">>, 1, 0),
     Memory("s1", "c", "x", <<"b", "a">>, 1, 3),
     Memory("s1", "c", "x", <<"a", "b">>, 1, 3),
     Memory("s1", "c", "x", <<"b", "a">>, 2, 3),
     Memory("s1", "c", "x", <<"b">>, 1, 5)}

\* Two scopes that use the same identifiers for events and for memories; in s2
\* one memory is over-trusted and one has a source that exists only in s1.
ScopeEvents ==
    {Event("s1", "a", 2, "x", 0, 2, 1, 3, "int"),
     Event("s1", "b", 1, "x", 1, 5, 2, 2, "int"),
     Event("s2", "a", 0, "x", 0, 6, 1, 1, "int")}

ScopeMemories ==
    {Memory("s1", "a", "x", <<"a">>, 2, 1),
     Memory("s2", "a", "x", <<"a">>, 1, 0),
     Memory("s2", "a", "x", <<"a">>, 0, 0),
     Memory("s2", "b", "x", <<"a", "b">>, 0, 0)}

\* Drafts whose metadata differ only in JSON type, and one whose recall period
\* SQLite cannot store.
EdgeEvents ==
    {Event("s1", "a", 2, "x", 0, 2, 1, 3, "int"),
     Event("s1", "a", 2, "x", 0, 2, 1, 3, "bool"),
     Event("s1", "b", 2, "x", 0, 2, 1, 99, "int")}

EdgeMemories == {Memory("s1", "a", "x", <<"a">>, 2, 1)}
=============================================================================
