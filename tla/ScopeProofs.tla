----------------------------- MODULE ScopeProofs -----------------------------
(***************************************************************************)
(* The proof that scopes do not interfere.  A consistent store cut down to *)
(* the rows of one scope is itself a consistent store, so neither answers  *)
(* with corruption; what is left is to show, operation by operation, that  *)
(* every lookup finds the same rows in both, and that inserting, deleting  *)
(* and updating rows of a scope commutes with cutting down to it.          *)
(***************************************************************************)
EXTENDS StoreProofs

\* The rows of scope s in one table, and its audit records.
Own(table, s) == Restrict(table, {k \in DOMAIN table : k[1] = s})
OwnLog(log, s) == Restrict(log, {r \in DOMAIN log : r.scope = s})

-----------------------------------------------------------------------------
(* Cutting a table down to a scope.                                        *)

\* What is left is every row of the scope, unchanged.
LEMMA OwnTable ==
    ASSUME NEW table, NEW s
    PROVE  /\ \A k \in DOMAIN Own(table, s) : k[1] = s
           /\ \A k : k[1] = s => (k \in DOMAIN Own(table, s) <=> k \in DOMAIN table)
           /\ \A k \in DOMAIN table : k[1] = s => Own(table, s)[k] = table[k]
<1>1. DOMAIN Own(table, s) = {k \in DOMAIN table : k[1] = s}
  BY DEF Own, Restrict
<1>2. \A k \in {x \in DOMAIN table : x[1] = s} : Own(table, s)[k] = table[k]
  BY DEF Own, Restrict
<1>3. QED
  BY <1>1, <1>2

\* A well-typed table stays well-typed.
LEMMA OwnType ==
    ASSUME NEW K, NEW R, NEW table, IsTable(table, K, R), NEW s
    PROVE  IsTable(Own(table, s), K, R)
BY DEF Own, Restrict, IsTable

\* Rows of the scope may as well be inserted afterwards.
LEMMA OwnInsert ==
    ASSUME NEW table, NEW rows, NEW s, \A k \in DOMAIN rows : k[1] = s
    PROVE  /\ Own(Insert(table, rows), s) = Insert(Own(table, s), rows)
           /\ \A t : t # s => Own(Insert(table, rows), t) = Own(table, t)
<1> DEFINE new == Insert(table, rows)
<1>1. DOMAIN new = DOMAIN table \cup DOMAIN rows
  BY DEF Insert
<1>2. \A k \in DOMAIN new : new[k] = IF k \in DOMAIN rows THEN rows[k] ELSE table[k]
  BY DEF Insert
<1> HIDE DEF new
<1>3. {k \in DOMAIN new : k[1] = s} = {k \in DOMAIN table : k[1] = s} \cup DOMAIN rows
  BY <1>1
<1>4. Own(new, s) = Insert(Own(table, s), rows)
  BY <1>1, <1>2, <1>3 DEF Own, Restrict, Insert
<1>5. ASSUME NEW t, t # s
      PROVE  Own(new, t) = Own(table, t)
  <2>1. {k \in DOMAIN new : k[1] = t} = {k \in DOMAIN table : k[1] = t}
    BY <1>1, <1>5
  <2>2. \A k \in {k \in DOMAIN table : k[1] = t} : new[k] = table[k]
    BY <1>1, <1>2, <1>5
  <2>3. QED
    BY <2>1, <2>2 DEF Own, Restrict
<1>6. QED
  BY <1>4, <1>5 DEF new

\* And deleted.
LEMMA OwnDelete ==
    ASSUME NEW table, NEW s, NEW keys, NEW keys2,
           \A k \in DOMAIN table : k[1] = s => (k \in keys <=> k \in keys2)
    PROVE  Own(Delete(table, keys), s) = Delete(Own(table, s), keys2)
<1>1. DOMAIN Delete(table, keys) = DOMAIN table \ keys
  BY DEF Delete, Restrict
<1>2. \A k \in DOMAIN Delete(table, keys) : Delete(table, keys)[k] = table[k]
  BY DEF Delete, Restrict
<1>3. DOMAIN Own(table, s) = {k \in DOMAIN table : k[1] = s}
  BY DEF Own, Restrict
<1>4. {k \in DOMAIN Delete(table, keys) : k[1] = s} = DOMAIN Own(table, s) \ keys2
  BY <1>1, <1>3
<1>5. \A k \in DOMAIN Own(table, s) \ keys2 :
        k \in DOMAIN Delete(table, keys) /\ Own(table, s)[k] = table[k]
  BY <1>1, <1>3, OwnTable
<1>6. Own(Delete(table, keys), s) =
        [k \in DOMAIN Own(table, s) \ keys2 |-> Delete(table, keys)[k]]
  BY <1>4 DEF Own, Restrict
<1>7. Delete(Own(table, s), keys2) =
        [k \in DOMAIN Own(table, s) \ keys2 |-> Own(table, s)[k]]
  BY DEF Delete, Restrict
<1>8. QED
  BY <1>2, <1>5, <1>6, <1>7

LEMMA OtherDelete ==
    ASSUME NEW table, NEW t, NEW keys, \A k \in keys : k[1] # t
    PROVE  Own(Delete(table, keys), t) = Own(table, t)
<1>1. {k \in DOMAIN Delete(table, keys) : k[1] = t} = {k \in DOMAIN table : k[1] = t}
  BY DEF Delete, Restrict
<1>2. \A k \in DOMAIN table : k[1] = t => Delete(table, keys)[k] = table[k]
  BY DEF Delete, Restrict
<1>3. QED
  BY <1>1, <1>2 DEF Own, Restrict

\* A record of the scope may as well be appended afterwards.
LEMMA OwnAppend ==
    ASSUME NEW K, NEW log, IsTable(log, K, Nat \ {0}), NEW record, NEW s, record.scope = s
    PROVE  /\ OwnLog(LogAudit(log, {record}), s) = LogAudit(OwnLog(log, s), {record})
           /\ \A t : t # s => OwnLog(LogAudit(log, {record}), t) = OwnLog(log, t)
<1> DEFINE new == LogAudit(log, {record})
           own == OwnLog(log, s)
<1>1. /\ DOMAIN new = DOMAIN log \cup {record}
      /\ \A r \in DOMAIN new : new[r] = Copies(log, r) + (IF r \in {record} THEN 1 ELSE 0)
  BY DEF LogAudit
<1>2. /\ DOMAIN own = {r \in DOMAIN log : r.scope = s}
      /\ \A r \in DOMAIN own : own[r] = log[r]
  BY DEF OwnLog, Restrict
<1>3. LogAudit(own, {record}) = [r \in DOMAIN own \cup {record} |->
          Copies(own, r) + (IF r \in {record} THEN 1 ELSE 0)]
  BY DEF LogAudit
<1>4. OwnLog(new, s) = [r \in {r \in DOMAIN new : r.scope = s} |-> new[r]]
  BY DEF OwnLog, Restrict
<1>5. {r \in DOMAIN new : r.scope = s} = DOMAIN own \cup {record}
  BY <1>1, <1>2
<1>6. \A r \in DOMAIN own \cup {record} : Copies(own, r) = Copies(log, r)
  BY <1>2 DEF Copies
<1>7. ASSUME NEW t, t # s
      PROVE  OwnLog(new, t) = OwnLog(log, t)
  <2>1. {r \in DOMAIN new : r.scope = t} = {r \in DOMAIN log : r.scope = t}
    BY <1>1, <1>7
  <2>2. ASSUME NEW r \in DOMAIN log, r.scope = t
        PROVE  new[r] = log[r]
    <3>1. r \in DOMAIN new /\ r \notin {record}
      BY <1>1, <1>7, <2>2
    <3>2. new[r] = Copies(log, r) + 0
      BY <1>1, <3>1
    <3>3. Copies(log, r) = log[r] /\ log[r] \in Nat
      BY <2>2 DEF Copies, IsTable
    <3>4. QED
      BY <3>2, <3>3
  <2>3. QED
    BY <2>1, <2>2 DEF OwnLog, Restrict
<1> HIDE DEF new, own
<1>8. OwnLog(new, s) = LogAudit(own, {record})
  BY <1>1, <1>3, <1>4, <1>5, <1>6
<1>9. QED
  BY <1>7, <1>8 DEF new, own

-----------------------------------------------------------------------------
(* Cutting the store down to a scope.                                      *)

\* OnlyScope cuts down every table.
LEMMA OwnTables ==
    ASSUME NEW d, NEW s
    PROVE  OnlyScope(d, s) =
             [raw_events |-> Own(d.raw_events, s),
              raw_event_content |-> Own(d.raw_event_content, s),
              memories |-> Own(d.memories, s), memory_sources |-> Own(d.memory_sources, s),
              tombstones |-> Own(d.tombstones, s), audit_log |-> OwnLog(d.audit_log, s)]
BY DEF OnlyScope, Own, OwnLog

\* The rows of its scope are all there.
LEMMA OwnRows ==
    ASSUME NEW d, NEW s, NEW o, o = OnlyScope(d, s)
    PROVE  /\ \A k : k[1] = s =>
                /\ k \in DOMAIN o.raw_events <=> k \in DOMAIN d.raw_events
                /\ k \in DOMAIN d.raw_events => o.raw_events[k] = d.raw_events[k]
                /\ k \in DOMAIN o.raw_event_content <=> k \in DOMAIN d.raw_event_content
                /\ k \in DOMAIN o.memories <=> k \in DOMAIN d.memories
                /\ k \in DOMAIN d.memories => o.memories[k] = d.memories[k]
                /\ k \in DOMAIN o.memory_sources <=> k \in DOMAIN d.memory_sources
                /\ k \in DOMAIN d.memory_sources =>
                     o.memory_sources[k] = d.memory_sources[k]
                /\ k \in DOMAIN o.tombstones <=> k \in DOMAIN d.tombstones
                /\ k \in DOMAIN d.tombstones => o.tombstones[k] = d.tombstones[k]
           /\ \A k \in DOMAIN o.raw_events \cup DOMAIN o.raw_event_content
                        \cup DOMAIN o.memories \cup DOMAIN o.memory_sources
                        \cup DOMAIN o.tombstones : k[1] = s
           /\ DOMAIN o.audit_log \subseteq DOMAIN d.audit_log
<1>1. /\ o.raw_events = Own(d.raw_events, s)
      /\ o.raw_event_content = Own(d.raw_event_content, s)
      /\ o.memories = Own(d.memories, s) /\ o.memory_sources = Own(d.memory_sources, s)
      /\ o.tombstones = Own(d.tombstones, s) /\ o.audit_log = OwnLog(d.audit_log, s)
  BY OwnTables
<1>2. DOMAIN o.audit_log \subseteq DOMAIN d.audit_log
  BY <1>1 DEF OwnLog, Restrict
<1>3. \A k \in DOMAIN o.raw_events \cup DOMAIN o.raw_event_content
            \cup DOMAIN o.memories \cup DOMAIN o.memory_sources
            \cup DOMAIN o.tombstones : k[1] = s
  BY <1>1, OwnTable
<1>4. ASSUME NEW k, k[1] = s
      PROVE  /\ k \in DOMAIN o.raw_events <=> k \in DOMAIN d.raw_events
             /\ k \in DOMAIN d.raw_events => o.raw_events[k] = d.raw_events[k]
             /\ k \in DOMAIN o.raw_event_content <=> k \in DOMAIN d.raw_event_content
             /\ k \in DOMAIN o.memories <=> k \in DOMAIN d.memories
             /\ k \in DOMAIN d.memories => o.memories[k] = d.memories[k]
  BY <1>1, <1>4, OwnTable
<1>5. ASSUME NEW k, k[1] = s
      PROVE  /\ k \in DOMAIN o.memory_sources <=> k \in DOMAIN d.memory_sources
             /\ k \in DOMAIN d.memory_sources => o.memory_sources[k] = d.memory_sources[k]
             /\ k \in DOMAIN o.tombstones <=> k \in DOMAIN d.tombstones
             /\ k \in DOMAIN d.tombstones => o.tombstones[k] = d.tombstones[k]
  BY <1>1, <1>5, OwnTable
<1>6. QED
  BY <1>2, <1>3, <1>4, <1>5

\* What a memory derives from is all there.
LEMMA OwnLineage ==
    ASSUME NEW d, NEW s, NEW o, o = OnlyScope(d, s), NEW m
    PROVE  Lineage(o, s, m) = Lineage(d, s, m)
<1>1. \A x : <<s, m, x>> \in DOMAIN o.memory_sources <=> <<s, m, x>> \in DOMAIN d.memory_sources
  BY OwnRows
<1>2. QED
  BY <1>1 DEF Lineage

\* Every reader's verdict on a row of the scope is the same.
LEMMA OwnReceipt ==
    ASSUME NEW d, NEW s, NEW o, o = OnlyScope(d, s),
           NEW k, k[1] = s, k \in DOMAIN d.raw_events
    PROVE  k \in DOMAIN o.raw_events /\ (ReceiptOk(o, k) <=> ReceiptOk(d, k))
<1>1. /\ k \in DOMAIN o.raw_events /\ o.raw_events[k] = d.raw_events[k]
      /\ k \in DOMAIN o.raw_event_content <=> k \in DOMAIN d.raw_event_content
  BY OwnRows
<1>2. QED
  BY <1>1 DEF ReceiptOk

LEMMA OwnMemory ==
    ASSUME NEW d, NEW s, NEW o, o = OnlyScope(d, s),
           NEW m, <<s, m>> \in DOMAIN d.memories
    PROVE  /\ MemoryRecordOk(o, s, m) <=> MemoryRecordOk(d, s, m)
           /\ LineageOk(o, s, m) <=> LineageOk(d, s, m)
<1> DEFINE sources == Lineage(d, s, m)
           clear(b) == {b.memory_sources[<<s, m, x>>].clear_for : x \in sources}
           recall(b) == {b.memory_sources[<<s, m, x>>].recall_for : x \in sources}
<1>1. o.memories[<<s, m>>] = d.memories[<<s, m>>]
  BY OwnRows
<1>2. Lineage(o, s, m) = sources
  BY OwnLineage
<1>3. \A x \in sources :
        o.memory_sources[<<s, m, x>>] = d.memory_sources[<<s, m, x>>]
  BY OwnRows DEF Lineage
<1>4. \A x : <<s, x>> \in DOMAIN o.raw_events <=> <<s, x>> \in DOMAIN d.raw_events
  BY OwnRows
<1>5. clear(o) = clear(d) /\ recall(o) = recall(d)
  BY <1>3
<1>6. MemoryRecordOk(o, s, m) <=> MemoryRecordOk(d, s, m)
  BY <1>1, <1>2, <1>3, <1>4, <1>5 DEF MemoryRecordOk
<1>7. \A x \in sources : <<s, x>> \in DOMAIN d.raw_events =>
        /\ ReceiptOk(o, <<s, x>>) <=> ReceiptOk(d, <<s, x>>)
        /\ o.raw_events[<<s, x>>] = d.raw_events[<<s, x>>]
  BY OwnReceipt, OwnRows
<1>8. LineageOk(o, s, m) <=> LineageOk(d, s, m)
  BY <1>1, <1>2, <1>3, <1>4, <1>7 DEF LineageOk
<1>9. QED
  BY <1>6, <1>8

\* The rows of one scope of a consistent store are a consistent store.
LEMMA OwnStore ==
    ASSUME NEW d, DbType(d), DbConsistent(d), NEW s \in Scopes, NEW o, o = OnlyScope(d, s)
    PROVE  DbType(o) /\ DbConsistent(o)
<1>1. /\ o = [raw_events |-> o.raw_events, raw_event_content |-> o.raw_event_content,
              memories |-> o.memories, memory_sources |-> o.memory_sources,
              tombstones |-> o.tombstones, audit_log |-> o.audit_log]
      /\ o.raw_events = Own(d.raw_events, s)
      /\ o.raw_event_content = Own(d.raw_event_content, s)
      /\ o.memories = Own(d.memories, s) /\ o.memory_sources = Own(d.memory_sources, s)
      /\ o.tombstones = Own(d.tombstones, s) /\ o.audit_log = OwnLog(d.audit_log, s)
  BY OwnTables
<1>2. IsTable(OwnLog(d.audit_log, s), AuditRow, Nat \ {0})
  BY DEF DbType, IsTable, OwnLog, Restrict
<1>3. DbType(o)
  BY <1>1, <1>2, OwnType DEF DbType, IsDb
<1>4. \A k \in DOMAIN o.raw_events : ReceiptOk(o, k)
  <2>1. TAKE k \in DOMAIN o.raw_events
  <2>2. k[1] = s /\ k \in DOMAIN d.raw_events /\ o.raw_events[k] = d.raw_events[k]
        /\ (k \in DOMAIN o.raw_event_content <=> k \in DOMAIN d.raw_event_content)
    BY OwnRows
  <2>3. ReceiptOk(d, k)
    BY <2>2 DEF DbConsistent
  <2>4. QED
    BY <2>2, <2>3 DEF ReceiptOk
<1>5. DOMAIN o.raw_event_content \subseteq DOMAIN o.raw_events
  BY OwnRows DEF DbConsistent
<1>6. ASSUME NEW k \in DOMAIN o.memories
      PROVE  MemoryRecordOk(o, k[1], k[2]) /\ LineageOk(o, k[1], k[2])
  <2>1. k[1] = s /\ k \in DOMAIN d.memories /\ o.memories[k] = d.memories[k]
    BY OwnRows
  <2>2. k = <<s, k[2]>> /\ d.memories[k].status \in MemoryStatus
    BY <2>1 DEF DbType, IsTable, Key, MemoryRow
  <2>3. MemoryRecordOk(d, s, k[2]) /\ LineageOk(d, s, k[2])
    BY <2>1 DEF DbConsistent
  <2>4. Lineage(o, s, k[2]) = Lineage(d, s, k[2])
    BY OwnLineage
  <2>5. ASSUME NEW x \in Lineage(d, s, k[2])
        PROVE  /\ o.memory_sources[<<s, k[2], x>>] = d.memory_sources[<<s, k[2], x>>]
               /\ <<s, x>> \in DOMAIN o.raw_events
               /\ ReceiptOk(o, <<s, x>>)
               /\ SnapshotOf(o.raw_events[<<s, x>>]) = SnapshotOf(d.raw_events[<<s, x>>])
    <3>1. <<s, k[2], x>> \in DOMAIN d.memory_sources
      BY DEF Lineage
    <3>2. <<s, x>> \in DOMAIN d.raw_events
      BY <2>3 DEF LineageOk
    <3>3. <<s, x>> \in DOMAIN o.raw_events /\ o.raw_events[<<s, x>>] = d.raw_events[<<s, x>>]
      BY <3>2, OwnRows
    <3>4. QED
      BY <1>4, <3>1, <3>3, OwnRows
  <2>6. /\ o.memories[<<s, k[2]>>].status \in MemoryStatus
        /\ \A f \in {"dependency_fingerprint", "kind", "trust", "created_at",
                     "clear_until", "recall_until"} :
             o.memories[<<s, k[2]>>][f] = d.memories[<<s, k[2]>>][f]
    BY <2>1, <2>2
  <2>7. MemoryRecordOk(o, s, k[2]) /\ LineageOk(o, s, k[2])
    BY <2>3, <2>4, <2>5, <2>6, MemoryFrame
  <2>8. QED
    BY <2>1, <2>7
<1>7. \A e \in DOMAIN o.memory_sources : <<e[1], e[2]>> \in DOMAIN o.memories
  <2>1. TAKE e \in DOMAIN o.memory_sources
  <2>2. e[1] = s /\ e \in DOMAIN d.memory_sources
    BY OwnRows
  <2>3. <<s, e[2]>> \in DOMAIN d.memories
    BY <2>2 DEF DbConsistent
  <2>4. QED
    BY <2>2, <2>3, OwnRows
<1>8. ASSUME NEW t \in DOMAIN o.tombstones
      PROVE  /\ TombstoneOk(o, t)
             /\ <<t[1], t[3]>> \notin IF t[2] = "raw_event" THEN DOMAIN o.raw_events
                                                           ELSE DOMAIN o.memories
  <2>1. t[1] = s /\ t \in DOMAIN d.tombstones /\ o.tombstones[t] = d.tombstones[t]
    BY OwnRows
  <2>2. /\ TombstoneOk(d, t)
        /\ <<s, t[3]>> \notin IF t[2] = "raw_event" THEN DOMAIN d.raw_events
                                                   ELSE DOMAIN d.memories
    BY <2>1 DEF DbConsistent
  <2>3. /\ <<s, t[3]>> \in DOMAIN o.raw_events <=> <<s, t[3]>> \in DOMAIN d.raw_events
        /\ <<s, t[3]>> \in DOMAIN o.memories <=> <<s, t[3]>> \in DOMAIN d.memories
    BY OwnRows
  <2>4. QED
    BY <2>1, <2>2, <2>3 DEF TombstoneOk
<1>9. \A record \in DOMAIN o.audit_log : AuditRecordOk(record)
  BY OwnRows DEF DbConsistent
<1>10. QED
  BY <1>3, <1>4, <1>5, <1>6, <1>7, <1>8, <1>9 DEF DbConsistent

\* Two stores with the same rows in their six tables are the same.
LEMMA SameStore ==
    ASSUME NEW d, IsDb(d), NEW e, IsDb(e),
           d.raw_events = e.raw_events, d.raw_event_content = e.raw_event_content,
           d.memories = e.memories, d.memory_sources = e.memory_sources,
           d.tombstones = e.tombstones, d.audit_log = e.audit_log
    PROVE  d = e
BY DEF IsDb

\* A store is the record of its tables.
LEMMA ExplicitDb ==
    ASSUME NEW t1, NEW t2, NEW t3, NEW t4, NEW t5, NEW t6,
           NEW d, d = [raw_events |-> t1, raw_event_content |-> t2, memories |-> t3,
                       memory_sources |-> t4, tombstones |-> t5, audit_log |-> t6]
    PROVE  IsDb(d)
BY DEF IsDb

\* OnlyScope, table by table.
LEMMA OwnDb ==
    ASSUME NEW d, NEW s
    PROVE  /\ IsDb(OnlyScope(d, s))
           /\ OnlyScope(d, s).raw_events = Own(d.raw_events, s)
           /\ OnlyScope(d, s).raw_event_content = Own(d.raw_event_content, s)
           /\ OnlyScope(d, s).memories = Own(d.memories, s)
           /\ OnlyScope(d, s).memory_sources = Own(d.memory_sources, s)
           /\ OnlyScope(d, s).tombstones = Own(d.tombstones, s)
           /\ OnlyScope(d, s).audit_log = OwnLog(d.audit_log, s)
BY OwnTables DEF IsDb

\* A scope whose rows are untouched is untouched.
LEMMA Untouched ==
    ASSUME NEW d, NEW e, NEW t,
           Own(e.raw_events, t) = Own(d.raw_events, t),
           Own(e.raw_event_content, t) = Own(d.raw_event_content, t),
           Own(e.memories, t) = Own(d.memories, t),
           Own(e.memory_sources, t) = Own(d.memory_sources, t),
           Own(e.tombstones, t) = Own(d.tombstones, t),
           OwnLog(e.audit_log, t) = OwnLog(d.audit_log, t)
    PROVE  OnlyScope(e, t) = OnlyScope(d, t)
BY OwnTables

\* All that an operation needs of a database to leave other scopes alone.
Filed(d) == IsDb(d) /\ IsTable(d.audit_log, DOMAIN d.audit_log, Nat \ {0})

-----------------------------------------------------------------------------
(* Tombstones.                                                             *)

\* Tombstone queries of the scope find the same rows.
LEMMA OwnTombstones ==
    ASSUME NEW d, NEW s, NEW o, o = OnlyScope(d, s), NEW x
    PROVE  /\ TombstonesById(o, s, x) = TombstonesById(d, s, x)
           /\ TombstonesByFingerprint(o, s, x) = TombstonesByFingerprint(d, s, x)
<1>1. \A k : k[1] = s => /\ k \in DOMAIN o.tombstones <=> k \in DOMAIN d.tombstones
                         /\ k \in DOMAIN d.tombstones => o.tombstones[k] = d.tombstones[k]
  BY OwnRows
<1>2. QED
  BY <1>1 DEF TombstonesById, TombstonesByFingerprint

\* And find them malformed or not.
LEMMA OwnCorrupt ==
    ASSUME NEW d, NEW s, NEW o, o = OnlyScope(d, s),
           NEW T, T \subseteq DOMAIN d.tombstones, \A t \in T : t[1] = s
    PROVE  Corrupt(o, T) <=> Corrupt(d, T)
<1>1. \A t \in T : o.tombstones[t] = d.tombstones[t]
  BY OwnRows
<1>2. QED
  BY <1>1 DEF Corrupt, TombstoneOk

-----------------------------------------------------------------------------
(* ingest_event                                                            *)

\* An ingest gets the answer it would get without the other scopes.
LEMMA IngestAnswer ==
    ASSUME NEW d, NEW draft, NEW o, o = OnlyScope(d, draft.scope)
    PROVE  IngestOutcome(o, draft) = IngestOutcome(d, draft)
<1> DEFINE key == EventKey(draft)
           tombstones == TombstonesById(d, draft.scope, draft.event_id)
<1>2. TombstonesById(o, draft.scope, draft.event_id) = tombstones
  BY OwnTombstones
<1>3. Corrupt(o, tombstones) <=> Corrupt(d, tombstones)
  BY OwnCorrupt DEF TombstonesById
<1>4. key[1] = draft.scope
  BY DEF EventKey
<1>5. /\ key \in DOMAIN o.raw_events <=> key \in DOMAIN d.raw_events
      /\ key \in DOMAIN d.raw_events => o.raw_events[key] = d.raw_events[key]
      /\ key \in DOMAIN o.raw_event_content <=> key \in DOMAIN d.raw_event_content
  BY <1>4, OwnRows
<1>6. key \in DOMAIN d.raw_events => (ReceiptOk(o, key) <=> ReceiptOk(d, key))
  BY <1>4, OwnReceipt
<1> HIDE DEF key, tombstones
<1>7. QED
  BY <1>2, <1>3, <1>5, <1>6 DEF IngestOutcome, key, tombstones

\* An ingest leaves a store behind.
LEMMA IngestDb ==
    ASSUME NEW d, IsDb(d), NEW draft, NEW now, NEW e, e = IngestEffect(d, draft, now)
    PROVE  IsDb(e)
<1>1. e = [raw_events |->
             Insert(d.raw_events, Row(EventKey(draft), NewEventRow(draft, now))),
           raw_event_content |->
             Insert(d.raw_event_content, Row(EventKey(draft), draft.content)),
           memories |-> d.memories, memory_sources |-> d.memory_sources,
           tombstones |-> d.tombstones,
           audit_log |-> LogAudit(d.audit_log,
             {AuditRecord(draft.scope, "ingest", "raw_event",
                          draft.event_id, "event ingested")})]
  BY DEF IsDb, IngestEffect
<1>2. QED
  BY <1>1, ExplicitDb

\* And does what it would do without them.
LEMMA IngestOwn ==
    ASSUME NEW d, Filed(d), NEW draft, NEW now,
           NEW s, s = draft.scope, NEW o, o = OnlyScope(d, s),
           NEW e, e = IngestEffect(d, draft, now)
    PROVE  /\ OnlyScope(e, s) = IngestEffect(o, draft, now)
           /\ \A t : t # s => OnlyScope(e, t) = OnlyScope(d, t)
<1> DEFINE row == Row(EventKey(draft), NewEventRow(draft, now))
           body == Row(EventKey(draft), draft.content)
           record == AuditRecord(s, "ingest", "raw_event", draft.event_id, "event ingested")
           f == IngestEffect(o, draft, now)
<1>1. /\ e.raw_events = Insert(d.raw_events, row)
      /\ e.raw_event_content = Insert(d.raw_event_content, body)
      /\ e.memories = d.memories /\ e.memory_sources = d.memory_sources
      /\ e.tombstones = d.tombstones
      /\ e.audit_log = LogAudit(d.audit_log, {record})
  BY DEF Filed, IsDb, IngestEffect
<1>2. IsDb(o)
  BY OwnDb
<1>3. /\ f.raw_events = Insert(o.raw_events, row)
      /\ f.raw_event_content = Insert(o.raw_event_content, body)
      /\ f.memories = o.memories /\ f.memory_sources = o.memory_sources
      /\ f.tombstones = o.tombstones
      /\ f.audit_log = LogAudit(o.audit_log, {record})
  BY <1>2 DEF IsDb, IngestEffect
<1>4. IsDb(f)
  BY <1>2, IngestDb
<1>5. (\A k \in DOMAIN row : k[1] = s) /\ (\A k \in DOMAIN body : k[1] = s)
  BY DEF Row, EventKey
<1>6. record.scope = s
  BY DEF AuditRecord
<1>7. IsTable(d.audit_log, DOMAIN d.audit_log, Nat \ {0})
  BY DEF Filed
<1> HIDE DEF row, body, record, f
<1>8. /\ Own(e.raw_events, s) = f.raw_events
      /\ \A t : t # s => Own(e.raw_events, t) = Own(d.raw_events, t)
  BY <1>1, <1>3, <1>5, OwnInsert, OwnDb
<1>9. /\ Own(e.raw_event_content, s) = f.raw_event_content
      /\ \A t : t # s => Own(e.raw_event_content, t) = Own(d.raw_event_content, t)
  BY <1>1, <1>3, <1>5, OwnInsert, OwnDb
<1>10. /\ OwnLog(e.audit_log, s) = f.audit_log
      /\ \A t : t # s => OwnLog(e.audit_log, t) = OwnLog(d.audit_log, t)
  BY <1>1, <1>3, <1>6, <1>7, OwnAppend, OwnDb
<1>11. /\ Own(e.memories, s) = f.memories /\ Own(e.memory_sources, s) = f.memory_sources
       /\ Own(e.tombstones, s) = f.tombstones
  BY <1>1, <1>3, OwnDb
<1>12. OnlyScope(e, s) = f
  BY <1>3, <1>4, <1>8, <1>9, <1>10, <1>11, OwnDb, SameStore
<1>13. ASSUME NEW t, t # s
       PROVE  OnlyScope(e, t) = OnlyScope(d, t)
  BY <1>1, <1>8, <1>9, <1>10, <1>13, Untouched
<1>14. QED
  BY <1>12, <1>13 DEF f

-----------------------------------------------------------------------------
(* materialize_once                                                        *)

\* A source is found in its scope or nowhere.
LEMMA SourceAnswer ==
    ASSUME NEW d, NEW s, NEW o, o = OnlyScope(d, s), NEW x
    PROVE  /\ Blur(SourceOutcome(o, s, x)) = Blur(SourceOutcome(d, s, x))
           /\ SourceOutcome(o, s, x) = "ok" <=> SourceOutcome(d, s, x) = "ok"
<1> DEFINE tombstones == TombstonesById(d, s, x)
<1>2. TombstonesById(o, s, x) = tombstones
  BY OwnTombstones
<1>3. Corrupt(o, tombstones) <=> Corrupt(d, tombstones)
  BY OwnCorrupt DEF TombstonesById
<1>4. <<s, x>> \in DOMAIN o.raw_events <=> <<s, x>> \in DOMAIN d.raw_events
  BY OwnRows
<1>5. <<s, x>> \in DOMAIN d.raw_events => (ReceiptOk(o, <<s, x>>) <=> ReceiptOk(d, <<s, x>>))
  BY OwnReceipt
<1> HIDE DEF tombstones
<1>6. QED
  BY <1>2, <1>3, <1>4, <1>5 DEF SourceOutcome, Blur, tombstones

\* The loop over the sources stops at the same place.
LEMMA SourcesAnswer ==
    ASSUME NEW d, NEW draft, NEW o, o = OnlyScope(d, draft.scope)
    PROVE  /\ Blur(SourcesOutcome(o, draft)) = Blur(SourcesOutcome(d, draft))
           /\ SourcesOutcome(o, draft) = "ok" <=> SourcesOutcome(d, draft) = "ok"
<1> DEFINE ids == draft.source_event_ids
           failing(b) == {i \in DOMAIN ids : SourceOutcome(b, draft.scope, ids[i]) # "ok"}
           first == SourceOutcome(d, draft.scope, ids[Min(failing(d))])
           ownFirst == SourceOutcome(o, draft.scope, ids[Min(failing(d))])
<1>1. \A x : SourceOutcome(o, draft.scope, x) = "ok" <=> SourceOutcome(d, draft.scope, x) = "ok"
  BY SourceAnswer
<1>2. failing(o) = failing(d)
  BY <1>1
<1>3. Blur(ownFirst) = Blur(first) /\ (ownFirst = "ok" <=> first = "ok")
  BY SourceAnswer
<1>4. SourcesOutcome(d, draft) = IF failing(d) = {} THEN "ok" ELSE first
  BY DEF SourcesOutcome
<1>5. SourcesOutcome(o, draft) = IF failing(d) = {} THEN "ok" ELSE ownFirst
  BY <1>2 DEF SourcesOutcome
<1> HIDE DEF failing, first, ownFirst
<1>6. QED
  BY <1>3, <1>4, <1>5

\* What the new row takes from its sources is the same.
LEMMA OwnSources ==
    ASSUME NEW d, NEW draft \in MemoryDrafts, SourcesOutcome(d, draft) = "ok",
           NEW o, o = OnlyScope(d, draft.scope)
    PROVE  /\ SourceRows(o, draft) = SourceRows(d, draft)
           /\ ClearUntil(o, draft) = ClearUntil(d, draft)
           /\ RecallUntil(o, draft) = RecallUntil(d, draft)
           /\ NewMemoryRow(o, draft) = NewMemoryRow(d, draft)
           /\ NewLineage(o, draft) = NewLineage(d, draft)
<1>1. \A x \in SourceIds(draft) : <<draft.scope, x>> \in DOMAIN d.raw_events
  BY SourcesFound
<1>2. \A x \in SourceIds(draft) :
        o.raw_events[<<draft.scope, x>>] = d.raw_events[<<draft.scope, x>>]
  BY <1>1, OwnRows
<1>3. SourceRows(o, draft) = SourceRows(d, draft)
  BY <1>2 DEF SourceRows
<1>4. ClearUntil(o, draft) = ClearUntil(d, draft) /\ RecallUntil(o, draft) = RecallUntil(d, draft)
  BY <1>3 DEF ClearUntil, RecallUntil
<1>5. NewMemoryRow(o, draft) = NewMemoryRow(d, draft)
  BY <1>4 DEF NewMemoryRow
<1>6. NewLineage(o, draft) = NewLineage(d, draft)
  BY <1>2 DEF NewLineage
<1>7. QED
  BY <1>3, <1>4, <1>5, <1>6

\* A materialization gets the answer it would get without the other scopes.
LEMMA MaterializeAnswer ==
    ASSUME NEW d, NEW draft \in MemoryDrafts, NEW o, o = OnlyScope(d, draft.scope)
    PROVE  Blur(MaterializeOutcome(o, draft)) = Blur(MaterializeOutcome(d, draft))
<1> DEFINE s == draft.scope
           key == MemoryKey(draft)
           byId == TombstonesById(d, s, draft.memory_id)
           byFp == TombstonesByFingerprint(d, s, DraftFingerprint(draft))
<1>2. /\ TombstonesById(o, s, draft.memory_id) = byId
      /\ TombstonesByFingerprint(o, s, DraftFingerprint(draft)) = byFp
  BY OwnTombstones
<1>3. /\ Corrupt(o, byId) <=> Corrupt(d, byId)
      /\ Corrupt(o, byFp) <=> Corrupt(d, byFp)
  BY OwnCorrupt DEF TombstonesById, TombstonesByFingerprint
<1>4. key = <<s, draft.memory_id>>
  BY DEF MemoryKey
<1>5. /\ key \in DOMAIN o.memories <=> key \in DOMAIN d.memories
      /\ key \in DOMAIN d.memories => o.memories[key] = d.memories[key]
  BY <1>4, OwnRows
<1>6. key \in DOMAIN d.memories =>
        (MemoryRecordOk(o, s, draft.memory_id) <=> MemoryRecordOk(d, s, draft.memory_id))
  BY <1>4, OwnMemory
<1>7. Lineage(o, s, draft.memory_id) = Lineage(d, s, draft.memory_id)
  BY OwnLineage
<1>8. key \in DOMAIN d.memories => (IsIdenticalMemory(o, draft) <=> IsIdenticalMemory(d, draft))
  BY <1>5, <1>7 DEF IsIdenticalMemory
<1>9. /\ Blur(SourcesOutcome(o, draft)) = Blur(SourcesOutcome(d, draft))
      /\ SourcesOutcome(o, draft) = "ok" <=> SourcesOutcome(d, draft) = "ok"
  BY SourcesAnswer
<1>10. SourcesOutcome(d, draft) = "ok" =>
         /\ SourceRows(o, draft) = SourceRows(d, draft)
         /\ ClearUntil(o, draft) = ClearUntil(d, draft)
         /\ RecallUntil(o, draft) = RecallUntil(d, draft)
  BY OwnSources
<1> DEFINE early == \/ Corrupt(d, byId) \/ (\E t \in byId : t[2] = "memory")
                    \/ Corrupt(d, byFp) \/ (\E t \in byFp : t[2] = "memory")
                    \/ key \in DOMAIN d.memories
<1>11. CASE early
  BY <1>2, <1>3, <1>5, <1>6, <1>8, <1>11 DEF MaterializeOutcome
<1>13. CASE ~early /\ SourcesOutcome(d, draft) # "ok"
  <2>1. MaterializeOutcome(d, draft) = SourcesOutcome(d, draft)
    BY <1>13 DEF MaterializeOutcome
  <2>2. MaterializeOutcome(o, draft) = SourcesOutcome(o, draft)
    BY <1>2, <1>3, <1>5, <1>9, <1>13 DEF MaterializeOutcome
  <2>3. QED
    BY <1>9, <2>1, <2>2
<1>14. CASE ~early /\ SourcesOutcome(d, draft) = "ok"
  BY <1>2, <1>3, <1>5, <1>7, <1>9, <1>10, <1>14 DEF MaterializeOutcome
<1>15. QED
  BY <1>11, <1>13, <1>14

\* Only a draft whose sources were all found is accepted.
LEMMA SettledSources ==
    ASSUME NEW d, NEW draft,
           MaterializeOutcome(d, draft) \in {"created", "done"}
    PROVE  SourcesOutcome(d, draft) = "ok"
<1>1. SourcesOutcome(d, draft) \notin {"created", "done"}
  BY DEF SourcesOutcome, SourceOutcome
<1>2. QED
  BY <1>1 DEF MaterializeOutcome

\* A materialization leaves a store behind.
LEMMA MaterializeDb ==
    ASSUME NEW d, IsDb(d), NEW draft, NEW e, e = MaterializeEffect(d, draft)
    PROVE  IsDb(e)
<1>1. e = [raw_events |-> d.raw_events, raw_event_content |-> d.raw_event_content,
           memories |->
             Insert(d.memories, Row(MemoryKey(draft), NewMemoryRow(d, draft))),
           memory_sources |-> Insert(d.memory_sources, NewLineage(d, draft)),
           tombstones |-> d.tombstones,
           audit_log |-> LogAudit(d.audit_log,
             {AuditRecord(draft.scope, "materialize", "memory",
                          draft.memory_id, "memory materialized")})]
  BY DEF IsDb, MaterializeEffect
<1>2. QED
  BY <1>1, ExplicitDb

\* And does what it would do without them.
LEMMA MaterializeOwn ==
    ASSUME NEW d, Filed(d), NEW draft \in MemoryDrafts, SourcesOutcome(d, draft) = "ok",
           NEW s, s = draft.scope, NEW o, o = OnlyScope(d, s),
           NEW e, e = MaterializeEffect(d, draft)
    PROVE  /\ OnlyScope(e, s) = MaterializeEffect(o, draft)
           /\ \A t : t # s => OnlyScope(e, t) = OnlyScope(d, t)
<1> DEFINE row == Row(MemoryKey(draft), NewMemoryRow(d, draft))
           edges == NewLineage(d, draft)
           record == AuditRecord(s, "materialize", "memory",
                                 draft.memory_id, "memory materialized")
           f == MaterializeEffect(o, draft)
<1>1. /\ e.raw_events = d.raw_events /\ e.raw_event_content = d.raw_event_content
      /\ e.memories = Insert(d.memories, row)
      /\ e.memory_sources = Insert(d.memory_sources, edges)
      /\ e.tombstones = d.tombstones
      /\ e.audit_log = LogAudit(d.audit_log, {record})
  BY DEF Filed, IsDb, MaterializeEffect
<1>2. IsDb(o) /\ NewMemoryRow(o, draft) = NewMemoryRow(d, draft)
      /\ NewLineage(o, draft) = NewLineage(d, draft)
  BY OwnDb, OwnSources
<1>3. /\ f.raw_events = o.raw_events /\ f.raw_event_content = o.raw_event_content
      /\ f.memories = Insert(o.memories, row)
      /\ f.memory_sources = Insert(o.memory_sources, edges)
      /\ f.tombstones = o.tombstones
      /\ f.audit_log = LogAudit(o.audit_log, {record})
  BY <1>2 DEF IsDb, MaterializeEffect
<1>4. IsDb(f)
  BY <1>2, MaterializeDb
<1>5. (\A k \in DOMAIN row : k[1] = s) /\ (\A k \in DOMAIN edges : k[1] = s)
  BY DEF Row, MemoryKey, NewLineage
<1>6. record.scope = s
  BY DEF AuditRecord
<1>7. IsTable(d.audit_log, DOMAIN d.audit_log, Nat \ {0})
  BY DEF Filed
<1> HIDE DEF row, edges, record, f
<1>8. /\ Own(e.memories, s) = f.memories
      /\ \A t : t # s => Own(e.memories, t) = Own(d.memories, t)
  BY <1>1, <1>3, <1>5, OwnInsert, OwnDb
<1>9. /\ Own(e.memory_sources, s) = f.memory_sources
      /\ \A t : t # s => Own(e.memory_sources, t) = Own(d.memory_sources, t)
  BY <1>1, <1>3, <1>5, OwnInsert, OwnDb
<1>10. /\ OwnLog(e.audit_log, s) = f.audit_log
       /\ \A t : t # s => OwnLog(e.audit_log, t) = OwnLog(d.audit_log, t)
  BY <1>1, <1>3, <1>6, <1>7, OwnAppend, OwnDb
<1>11. /\ Own(e.raw_events, s) = f.raw_events
       /\ Own(e.raw_event_content, s) = f.raw_event_content
       /\ Own(e.tombstones, s) = f.tombstones
  BY <1>1, <1>3, OwnDb
<1>12. OnlyScope(e, s) = f
  BY <1>3, <1>4, <1>8, <1>9, <1>10, <1>11, OwnDb, SameStore
<1>13. ASSUME NEW t, t # s
       PROVE  OnlyScope(e, t) = OnlyScope(d, t)
  BY <1>1, <1>8, <1>9, <1>10, <1>13, Untouched
<1>14. QED
  BY <1>12, <1>13 DEF f

-----------------------------------------------------------------------------
(* govern                                                                  *)

\* A missing entity was deleted in its scope or it was not; more is blurred.
LEMMA MissingAnswer ==
    ASSUME NEW d, DbConsistent(d), NEW c, NEW o, o = OnlyScope(d, c.scope), DbConsistent(o)
    PROVE  Blur(MissingEntity(o, c)) = Blur(MissingEntity(d, c))
<1> DEFINE tombstones(b) == {t \in DOMAIN b.tombstones : t[3] = c.entity_id}
           known(b) == {t[1] : t \in {u \in tombstones(b) : u[2] = c.entity_type}}
<1>1. ~Corrupt(d, tombstones(d)) /\ ~Corrupt(o, tombstones(o))
  BY TombstonesSound
<1>2. c.scope \in known(o) <=> c.scope \in known(d)
  <2>1. ASSUME NEW b
        PROVE  c.scope \in known(b) <=>
                 \E t \in DOMAIN b.tombstones :
                   t[1] = c.scope /\ t[2] = c.entity_type /\ t[3] = c.entity_id
    OBVIOUS
  <2>2. \A t : t[1] = c.scope => (t \in DOMAIN o.tombstones <=> t \in DOMAIN d.tombstones)
    BY OwnRows
  <2> HIDE DEF known
  <2>3. QED
    BY <2>1, <2>2
<1>3. ASSUME NEW b, ~Corrupt(b, tombstones(b))
      PROVE  Blur(MissingEntity(b, c)) =
               IF c.scope \in known(b) THEN "EntityDeleted" ELSE "EntityNotFound"
  BY <1>3 DEF MissingEntity, Blur
<1> HIDE DEF tombstones, known
<1>4. QED
  BY <1>1, <1>2, <1>3

\* About an entity on record the answer is the same.
LEMMA RecordedAnswer ==
    ASSUME NEW d, NEW c \in GovernanceCommand, NEW o, o = OnlyScope(d, c.scope),
           <<c.scope, c.entity_id>> \in
             IF c.entity_type = "memory" THEN DOMAIN d.memories ELSE DOMAIN d.raw_events
    PROVE  GovernOutcome(o, c) = GovernOutcome(d, c)
<1> DEFINE key == <<c.scope, c.entity_id>>
           dependents == Dependents(d, c.scope, c.entity_id)
<1>1. Dependents(o, c.scope, c.entity_id) = dependents
  <2>1. \A m : <<c.scope, m, c.entity_id>> \in DOMAIN o.memory_sources <=>
               <<c.scope, m, c.entity_id>> \in DOMAIN d.memory_sources
    BY OwnRows
  <2>2. QED
    BY <2>1 DEF Dependents
<1>2. TombstoneClash(o, c) <=> TombstoneClash(d, c)
  <2>1. ErasedMemories(o, c) = ErasedMemories(d, c)
    BY <1>1 DEF ErasedMemories
  <2>2. /\ DOMAIN NewTombstones(o, c) = DOMAIN NewTombstones(d, c)
        /\ \A t \in DOMAIN NewTombstones(d, c) : t[1] = c.scope
    BY <2>1 DEF NewTombstones
  <2>3. \A t : t[1] = c.scope => (t \in DOMAIN o.tombstones <=> t \in DOMAIN d.tombstones)
    BY OwnRows
  <2>4. QED
    BY <2>2, <2>3 DEF TombstoneClash
<1>3. CASE c.entity_type = "memory"
  <2>1. key \in DOMAIN o.memories /\ o.memories[key] = d.memories[key]
    BY <1>3, OwnRows
  <2>2. LineageOk(o, c.scope, c.entity_id) <=> LineageOk(d, c.scope, c.entity_id)
    BY <1>3, OwnMemory
  <2> HIDE DEF dependents
  <2>3. GovernMemoryOutcome(o, c) = GovernMemoryOutcome(d, c)
    BY <1>2, <1>3, <2>1, <2>2 DEF GovernMemoryOutcome
  <2>4. QED
    BY <1>3, <2>3 DEF GovernOutcome
<1>4. CASE c.entity_type # "memory"
  <2>1. key \in DOMAIN o.raw_events /\ (ReceiptOk(o, key) <=> ReceiptOk(d, key))
    BY <1>4, OwnReceipt
  <2>2. ASSUME NEW m
        PROVE  (<<c.scope, m>> \notin DOMAIN o.memories \/ ~LineageOk(o, c.scope, m)) <=>
               (<<c.scope, m>> \notin DOMAIN d.memories \/ ~LineageOk(d, c.scope, m))
    <3>1. <<c.scope, m>> \in DOMAIN o.memories <=> <<c.scope, m>> \in DOMAIN d.memories
      BY OwnRows
    <3>2. QED
      BY <3>1, OwnMemory
  <2> HIDE DEF dependents
  <2>3. DeleteRawEventOutcome(o, c) = DeleteRawEventOutcome(d, c)
    BY <1>1, <1>2, <1>4, <2>1, <2>2 DEF DeleteRawEventOutcome, dependents
  <2>4. QED
    BY <1>4, <2>3 DEF GovernOutcome
<1>5. QED
  BY <1>3, <1>4

\* In a consistent store the answer is the same up to the blur.
LEMMA GovernAnswer ==
    ASSUME NEW d, DbType(d), DbConsistent(d), NEW c \in GovernanceCommand,
           c.scope \in Scopes, NEW o, o = OnlyScope(d, c.scope)
    PROVE  Blur(GovernOutcome(o, c)) = Blur(GovernOutcome(d, c))
<1> DEFINE key == <<c.scope, c.entity_id>>
           recorded(b) == key \in IF c.entity_type = "memory" THEN DOMAIN b.memories
                                                             ELSE DOMAIN b.raw_events
<1>1. Blur(MissingEntity(o, c)) = Blur(MissingEntity(d, c))
  BY OwnStore, MissingAnswer
<1>2. recorded(o) <=> recorded(d)
  BY OwnRows
<1>3. CASE recorded(d)
  BY <1>3, RecordedAnswer
<1>4. CASE ~recorded(d)
  BY <1>1, <1>2, <1>4 DEF GovernOutcome, GovernMemoryOutcome, DeleteRawEventOutcome
<1>5. QED
  BY <1>3, <1>4

\* A command is carried out only if every memory it erases is on record.
LEMMA ErasedFound ==
    ASSUME NEW d, NEW c \in GovernanceCommand, GovernOutcome(d, c) = "done"
    PROVE  \A m \in ErasedMemories(d, c) : <<c.scope, m>> \in DOMAIN d.memories
<1>1. CASE c.entity_type = "memory"
  BY <1>1, GovernDone DEF ErasedMemories
<1>2. CASE c.entity_type # "memory"
  <2>1. c.action = "delete" /\ <<c.scope, c.entity_id>> \in DOMAIN d.raw_events
    BY <1>2, GovernDone DEF EntityType
  <2>2. DeleteRawEventOutcome(d, c) = "done"
    BY <1>2, <2>1 DEF GovernOutcome
  <2>3. \A m \in Dependents(d, c.scope, c.entity_id) : <<c.scope, m>> \in DOMAIN d.memories
    BY <2>1, <2>2 DEF DeleteRawEventOutcome
  <2>4. QED
    BY <1>2, <2>3 DEF ErasedMemories
<1>3. QED
  BY <1>1, <1>2

\* The memories an erasure takes along are of the scope.
LEMMA OwnErasure ==
    ASSUME NEW d, NEW c,
           \A m \in ErasedMemories(d, c) : <<c.scope, m>> \in DOMAIN d.memories,
           NEW o, o = OnlyScope(d, c.scope)
    PROVE  /\ ErasedMemories(o, c) = ErasedMemories(d, c)
           /\ NewTombstones(o, c) = NewTombstones(d, c)
<1>1. \A m : <<c.scope, m, c.entity_id>> \in DOMAIN o.memory_sources <=>
             <<c.scope, m, c.entity_id>> \in DOMAIN d.memory_sources
  BY OwnRows
<1>2. ErasedMemories(o, c) = ErasedMemories(d, c)
  BY <1>1 DEF ErasedMemories, Dependents
<1>4. \A m \in ErasedMemories(d, c) : o.memories[<<c.scope, m>>] = d.memories[<<c.scope, m>>]
  BY OwnRows
<1>5. NewTombstones(o, c) = NewTombstones(d, c)
  BY <1>2, <1>4 DEF NewTombstones
<1>6. QED
  BY <1>2, <1>5

\* Erasing leaves a store behind.
LEMMA EraseDb ==
    ASSUME NEW d, IsDb(d), NEW c, NEW e, e = Erase(d, c)
    PROVE  IsDb(e)
<1> DEFINE erased == ErasedMemories(d, c)
           events == IF c.entity_type = "raw_event" THEN {<<c.scope, c.entity_id>>} ELSE {}
<1>1. e = [raw_events |-> Delete(d.raw_events, events),
           raw_event_content |-> Delete(d.raw_event_content, events),
           memories |-> Delete(d.memories, {<<c.scope, m>> : m \in erased}),
           memory_sources |-> Delete(d.memory_sources,
             {k \in DOMAIN d.memory_sources : k[1] = c.scope /\ k[2] \in erased}),
           tombstones |-> Insert(d.tombstones, NewTombstones(d, c)),
           audit_log |-> d.audit_log]
  BY DEF IsDb, Erase
<1>2. QED
  BY <1>1, ExplicitDb

\* Erasing stays in the scope.
LEMMA EraseOwn ==
    ASSUME NEW d, IsDb(d), NEW c,
           \A m \in ErasedMemories(d, c) : <<c.scope, m>> \in DOMAIN d.memories,
           NEW s, s = c.scope, NEW o, o = OnlyScope(d, s),
           NEW e, e = Erase(d, c), NEW f, f = Erase(o, c)
    PROVE  /\ IsDb(e) /\ IsDb(f)
           /\ OnlyScope(e, s) = f
           /\ \A t : t # s => OnlyScope(e, t) = OnlyScope(d, t)
           /\ e.audit_log = d.audit_log /\ f.audit_log = o.audit_log
<1> DEFINE erased == ErasedMemories(d, c)
           events == IF c.entity_type = "raw_event" THEN {<<c.scope, c.entity_id>>} ELSE {}
           edges(b) == {k \in DOMAIN b.memory_sources : k[1] = c.scope /\ k[2] \in erased}
           gone == {<<c.scope, m>> : m \in erased}
           new == NewTombstones(d, c)
<1>0. IsDb(d) /\ IsDb(o)
  BY OwnDb
<1>1. /\ e.memory_sources = Delete(d.memory_sources, edges(d))
      /\ e.memories = Delete(d.memories, gone)
      /\ e.raw_event_content = Delete(d.raw_event_content, events)
      /\ e.raw_events = Delete(d.raw_events, events)
      /\ e.tombstones = Insert(d.tombstones, new)
      /\ e.audit_log = d.audit_log
  BY <1>0 DEF IsDb, Erase
<1>2. ErasedMemories(o, c) = erased /\ NewTombstones(o, c) = new
  BY OwnErasure
<1>3. /\ f.memory_sources = Delete(o.memory_sources, edges(o))
      /\ f.memories = Delete(o.memories, gone)
      /\ f.raw_event_content = Delete(o.raw_event_content, events)
      /\ f.raw_events = Delete(o.raw_events, events)
      /\ f.tombstones = Insert(o.tombstones, new)
      /\ f.audit_log = o.audit_log
  BY <1>0, <1>2 DEF IsDb, Erase
<1>4. IsDb(e) /\ IsDb(f)
  BY <1>0, EraseDb
<1>5. /\ \A k \in events : k[1] = s
      /\ \A k \in gone : k[1] = s
      /\ \A k \in edges(d) : k[1] = s
      /\ \A k \in DOMAIN new : k[1] = s
      /\ \A k \in DOMAIN d.memory_sources : k[1] = s => (k \in edges(d) <=> k \in edges(o))
  <2>1. \A k \in DOMAIN new : k[1] = s
    BY DEF NewTombstones
  <2>2. \A k \in DOMAIN d.memory_sources : k[1] = s => (k \in edges(d) <=> k \in edges(o))
    BY OwnRows
  <2>3. QED
    BY <2>1, <2>2
<1> HIDE DEF erased, events, edges, gone, new
<1>6. /\ Own(e.memory_sources, s) = f.memory_sources
      /\ \A t : t # s => Own(e.memory_sources, t) = Own(d.memory_sources, t)
  <2>1. Own(Delete(d.memory_sources, edges(d)), s) = Delete(Own(d.memory_sources, s), edges(o))
    BY <1>5, OwnDelete
  <2>2. ASSUME NEW t, t # s
        PROVE  Own(Delete(d.memory_sources, edges(d)), t) = Own(d.memory_sources, t)
    <3>1. \A k \in edges(d) : k[1] # t
      BY <1>5, <2>2
    <3>2. QED
      BY <3>1, OtherDelete
  <2>3. QED
    BY <1>1, <1>3, <2>1, <2>2, OwnDb
<1>7. /\ Own(e.memories, s) = f.memories
      /\ \A t : t # s => Own(e.memories, t) = Own(d.memories, t)
  <2>1. Own(Delete(d.memories, gone), s) = Delete(Own(d.memories, s), gone)
    BY <1>5, OwnDelete
  <2>2. ASSUME NEW t, t # s
        PROVE  Own(Delete(d.memories, gone), t) = Own(d.memories, t)
    <3>1. \A k \in gone : k[1] # t
      BY <1>5, <2>2
    <3>2. QED
      BY <3>1, OtherDelete
  <2>3. QED
    BY <1>1, <1>3, <2>1, <2>2, OwnDb
<1>8. /\ Own(e.raw_event_content, s) = f.raw_event_content
      /\ \A t : t # s => Own(e.raw_event_content, t) = Own(d.raw_event_content, t)
  <2>1. Own(Delete(d.raw_event_content, events), s) = Delete(Own(d.raw_event_content, s), events)
    BY <1>5, OwnDelete
  <2>2. ASSUME NEW t, t # s
        PROVE  Own(Delete(d.raw_event_content, events), t) = Own(d.raw_event_content, t)
    <3>1. \A k \in events : k[1] # t
      BY <1>5, <2>2
    <3>2. QED
      BY <3>1, OtherDelete
  <2>3. QED
    BY <1>1, <1>3, <2>1, <2>2, OwnDb
<1>9. /\ Own(e.raw_events, s) = f.raw_events
      /\ \A t : t # s => Own(e.raw_events, t) = Own(d.raw_events, t)
  <2>1. Own(Delete(d.raw_events, events), s) = Delete(Own(d.raw_events, s), events)
    BY <1>5, OwnDelete
  <2>2. ASSUME NEW t, t # s
        PROVE  Own(Delete(d.raw_events, events), t) = Own(d.raw_events, t)
    <3>1. \A k \in events : k[1] # t
      BY <1>5, <2>2
    <3>2. QED
      BY <3>1, OtherDelete
  <2>3. QED
    BY <1>1, <1>3, <2>1, <2>2, OwnDb
<1>10. /\ Own(e.tombstones, s) = f.tombstones
       /\ \A t : t # s => Own(e.tombstones, t) = Own(d.tombstones, t)
  BY <1>1, <1>3, <1>5, OwnInsert, OwnDb
<1>11. /\ OwnLog(e.audit_log, s) = f.audit_log
       /\ \A t : OwnLog(e.audit_log, t) = OwnLog(d.audit_log, t)
  BY <1>1, <1>3, OwnDb
<1>12. OnlyScope(e, s) = f
  BY <1>4, <1>6, <1>7, <1>8, <1>9, <1>10, <1>11, OwnDb, SameStore
<1>13. ASSUME NEW t, t # s
       PROVE  OnlyScope(e, t) = OnlyScope(d, t)
  BY <1>6, <1>7, <1>8, <1>9, <1>10, <1>11, <1>13, Untouched
<1>14. QED
  BY <1>1, <1>3, <1>4, <1>12, <1>13

\* A change of status leaves a store behind.
LEMMA StatusDb ==
    ASSUME NEW d, IsDb(d), NEW c, NEW status, NEW e, e = SetStatus(d, c, status)
    PROVE  IsDb(e)
<1>1. e = [raw_events |-> d.raw_events, raw_event_content |-> d.raw_event_content,
           memories |->
             [d.memories EXCEPT ![<<c.scope, c.entity_id>>].status = status],
           memory_sources |-> d.memory_sources, tombstones |-> d.tombstones,
           audit_log |-> d.audit_log]
  BY DEF IsDb, SetStatus
<1>2. QED
  BY <1>1, ExplicitDb

\* So does a change of status.
LEMMA StatusOwn ==
    ASSUME NEW d, IsDb(d), NEW c, NEW status,
           <<c.scope, c.entity_id>> \in DOMAIN d.memories,
           NEW s, s = c.scope, NEW o, o = OnlyScope(d, s),
           NEW e, e = SetStatus(d, c, status), NEW f, f = SetStatus(o, c, status)
    PROVE  /\ IsDb(e) /\ IsDb(f)
           /\ OnlyScope(e, s) = f
           /\ \A t : t # s => OnlyScope(e, t) = OnlyScope(d, t)
           /\ e.audit_log = d.audit_log /\ f.audit_log = o.audit_log
<1> DEFINE key == <<c.scope, c.entity_id>>
<1>0. IsDb(d) /\ IsDb(o)
  BY OwnDb
<1>1. /\ e.memories = [d.memories EXCEPT ![key].status = status]
      /\ e.raw_events = d.raw_events /\ e.raw_event_content = d.raw_event_content
      /\ e.memory_sources = d.memory_sources
      /\ e.tombstones = d.tombstones /\ e.audit_log = d.audit_log
  BY <1>0 DEF IsDb, SetStatus
<1>2. /\ f.memories = [o.memories EXCEPT ![key].status = status]
      /\ f.raw_events = o.raw_events /\ f.raw_event_content = o.raw_event_content
      /\ f.memory_sources = o.memory_sources
      /\ f.tombstones = o.tombstones /\ f.audit_log = o.audit_log
  BY <1>0 DEF IsDb, SetStatus
<1>3. IsDb(e) /\ IsDb(f)
  BY <1>0, StatusDb
<1>4. key[1] = s
  OBVIOUS
<1> HIDE DEF key
<1>5. /\ Own(e.memories, s) = f.memories
      /\ \A t : t # s => Own(e.memories, t) = Own(d.memories, t)
  <2>1. o.memories = Own(d.memories, s)
    BY OwnDb
  <2>2. /\ DOMAIN e.memories = DOMAIN d.memories
        /\ \A k \in DOMAIN d.memories \ {key} : e.memories[k] = d.memories[k]
        /\ key \in DOMAIN d.memories =>
             e.memories[key] = [d.memories[key] EXCEPT !.status = status]
    BY <1>1
  <2>3. /\ DOMAIN o.memories = {x \in DOMAIN d.memories : x[1] = s}
        /\ \A k \in DOMAIN o.memories : o.memories[k] = d.memories[k]
    BY <2>1 DEF Own, Restrict
  <2>4. f.memories = [k \in {x \in DOMAIN d.memories : x[1] = s} |->
            IF k = key THEN [d.memories[k] EXCEPT !.status = status] ELSE d.memories[k]]
    BY <1>2, <1>4, <2>3
  <2>5. Own(e.memories, s) = [k \in {x \in DOMAIN d.memories : x[1] = s} |-> e.memories[k]]
    BY <2>2 DEF Own, Restrict
  <2>6. Own(e.memories, s) = f.memories
    BY <2>2, <2>4, <2>5
  <2>7. ASSUME NEW t, t # s
        PROVE  Own(e.memories, t) = Own(d.memories, t)
    BY <1>4, <2>2, <2>7 DEF Own, Restrict
  <2>8. QED
    BY <2>6, <2>7
<1>6. /\ Own(e.raw_events, s) = f.raw_events
      /\ Own(e.raw_event_content, s) = f.raw_event_content
      /\ Own(e.memory_sources, s) = f.memory_sources
      /\ Own(e.tombstones, s) = f.tombstones /\ OwnLog(e.audit_log, s) = f.audit_log
  BY <1>1, <1>2, OwnDb
<1>7. OnlyScope(e, s) = f
  BY <1>3, <1>5, <1>6, OwnDb, SameStore
<1>8. ASSUME NEW t, t # s
      PROVE  OnlyScope(e, t) = OnlyScope(d, t)
  BY <1>1, <1>5, <1>8, Untouched
<1>9. QED
  BY <1>1, <1>2, <1>3, <1>7, <1>8

\* A store with one more audit record.
Logged(d, record) == [d EXCEPT !.audit_log = LogAudit(@, {record})]

\* An audit record leaves a store behind.
LEMMA LoggedDb ==
    ASSUME NEW d, IsDb(d), NEW record, NEW e, e = Logged(d, record)
    PROVE  /\ IsDb(e)
           /\ e.raw_events = d.raw_events /\ e.raw_event_content = d.raw_event_content
           /\ e.memories = d.memories /\ e.memory_sources = d.memory_sources
           /\ e.tombstones = d.tombstones
           /\ e.audit_log = LogAudit(d.audit_log, {record})
<1>1. e = [raw_events |-> d.raw_events, raw_event_content |-> d.raw_event_content,
           memories |-> d.memories, memory_sources |-> d.memory_sources,
           tombstones |-> d.tombstones, audit_log |-> LogAudit(d.audit_log, {record})]
  BY DEF IsDb, Logged
<1>2. IsDb(e)
  BY <1>1, ExplicitDb
<1>3. QED
  BY <1>2 DEF IsDb, Logged

\* And the audit record that goes with either.
LEMMA RecordOwn ==
    ASSUME NEW d, IsDb(d), NEW K, IsTable(d.audit_log, K, Nat \ {0}),
           NEW record, NEW s, record.scope = s, NEW o, o = OnlyScope(d, s),
           NEW e, e = Logged(d, record), NEW f, f = Logged(o, record)
    PROVE  /\ OnlyScope(e, s) = f
           /\ \A t : t # s => OnlyScope(e, t) = OnlyScope(d, t)
<1>0. IsDb(o)
  BY OwnDb
<1>1. /\ e.raw_events = d.raw_events /\ e.raw_event_content = d.raw_event_content
      /\ e.memories = d.memories /\ e.memory_sources = d.memory_sources
      /\ e.tombstones = d.tombstones
      /\ e.audit_log = LogAudit(d.audit_log, {record})
  BY LoggedDb
<1>2. /\ f.raw_events = o.raw_events /\ f.raw_event_content = o.raw_event_content
      /\ f.memories = o.memories /\ f.memory_sources = o.memory_sources
      /\ f.tombstones = o.tombstones
      /\ f.audit_log = LogAudit(o.audit_log, {record})
  BY <1>0, LoggedDb
<1>3. IsDb(f)
  BY <1>0, LoggedDb
<1>4. /\ OwnLog(e.audit_log, s) = f.audit_log
      /\ \A t : t # s => OwnLog(e.audit_log, t) = OwnLog(d.audit_log, t)
  BY <1>1, <1>2, OwnAppend, OwnDb
<1>5. /\ Own(e.raw_events, s) = f.raw_events
      /\ Own(e.raw_event_content, s) = f.raw_event_content
      /\ Own(e.memories, s) = f.memories /\ Own(e.memory_sources, s) = f.memory_sources
      /\ Own(e.tombstones, s) = f.tombstones
  BY <1>1, <1>2, OwnDb
<1>6. OnlyScope(e, s) = f
  BY <1>3, <1>4, <1>5, OwnDb, SameStore
<1>7. ASSUME NEW t, t # s
      PROVE  OnlyScope(e, t) = OnlyScope(d, t)
  BY <1>1, <1>4, <1>7, Untouched
<1>8. QED
  BY <1>6, <1>7

\* A command does what it would do without the other scopes.
LEMMA GovernOwn ==
    ASSUME NEW d, Filed(d), NEW c \in GovernanceCommand,
           GovernOutcome(d, c) = "done", NEW s, s = c.scope,
           NEW o, o = OnlyScope(d, s), NEW e, e = GovernEffect(d, c)
    PROVE  /\ OnlyScope(e, s) = GovernEffect(o, c)
           /\ \A t : t # s => OnlyScope(e, t) = OnlyScope(d, t)
<1> DEFINE Governed1(b) == CASE c.action = "seal" -> SetStatus(b, c, "sealed")
                             [] c.action = "restore" -> SetStatus(b, c, "active")
                             [] OTHER -> Erase(b, c)
           d1 == Governed1(d)
           o1 == Governed1(o)
           record == GovernanceAudit(c)
<1>1. e = Logged(d1, record) /\ GovernEffect(o, c) = Logged(o1, record)
  BY DEF GovernEffect, Logged
<1>2. /\ IsDb(d)
      /\ \A m \in ErasedMemories(d, c) : <<c.scope, m>> \in DOMAIN d.memories
  BY ErasedFound DEF Filed
<1>3. c.action \in {"seal", "restore"} => <<c.scope, c.entity_id>> \in DOMAIN d.memories
  BY GovernDone DEF EntityType
<1>4. /\ IsDb(d1) /\ OnlyScope(d1, s) = o1
      /\ \A t : t # s => OnlyScope(d1, t) = OnlyScope(d, t)
      /\ d1.audit_log = d.audit_log
  <2>1. CASE c.action = "seal"
    <3>1. d1 = SetStatus(d, c, "sealed") /\ o1 = SetStatus(o, c, "sealed")
      BY <2>1
    <3> HIDE DEF d1, o1
    <3>2. QED
      BY <1>2, <1>3, <2>1, <3>1, StatusOwn
  <2>2. CASE c.action = "restore"
    <3>1. d1 = SetStatus(d, c, "active") /\ o1 = SetStatus(o, c, "active")
      BY <2>2
    <3> HIDE DEF d1, o1
    <3>2. QED
      BY <1>2, <1>3, <2>2, <3>1, StatusOwn
  <2>3. CASE c.action \notin {"seal", "restore"}
    <3>1. d1 = Erase(d, c) /\ o1 = Erase(o, c)
      BY <2>3
    <3> HIDE DEF d1, o1
    <3>2. QED
      BY <1>2, <3>1, EraseOwn
  <2>4. QED
    BY <2>1, <2>2, <2>3
<1>5. record.scope = s
  BY DEF GovernanceAudit, AuditRecord
<1>6. IsTable(d1.audit_log, DOMAIN d1.audit_log, Nat \ {0})
  BY <1>4 DEF Filed
<1> HIDE DEF d1, o1, record
<1>7. /\ OnlyScope(e, s) = GovernEffect(o, c)
      /\ \A t : t # s => OnlyScope(e, t) = OnlyScope(d1, t)
  BY <1>1, <1>4, <1>5, <1>6, RecordOwn
<1>8. QED
  BY <1>4, <1>7

-----------------------------------------------------------------------------
(* recall_candidates                                                       *)

\* A recall sees the memories of its scope.
LEMMA RecallOwn ==
    ASSUME NEW d, NEW s, NEW o, o = OnlyScope(d, s), NEW as_of
    PROVE  /\ RecallOutcome(o, s) = RecallOutcome(d, s)
           /\ RecallCandidates(o, s, as_of, {}) = RecallCandidates(d, s, as_of, {})
<1>1. MemoriesIn(o, s) = MemoriesIn(d, s)
  BY OwnRows DEF MemoriesIn
<1>2. \A m \in MemoriesIn(d, s) : MemoryRecordOk(o, s, m) <=> MemoryRecordOk(d, s, m)
  BY OwnMemory DEF MemoriesIn
<1>3. {x \in DOMAIN o.memory_sources : x[1] = s} = {x \in DOMAIN d.memory_sources : x[1] = s}
  BY OwnRows
<1>4. RecallOutcome(o, s) = RecallOutcome(d, s)
  BY <1>1, <1>2, <1>3 DEF RecallOutcome
<1>5. \A m \in MemoriesIn(d, s) : o.memories[<<s, m>>] = d.memories[<<s, m>>]
  BY OwnRows DEF MemoriesIn
<1>6. QED
  BY <1>1, <1>4, <1>5 DEF RecallCandidates

\* An audit sees the records of its scope.
LEMMA AuditOwn ==
    ASSUME NEW d, NEW s, NEW o, o = OnlyScope(d, s)
    PROVE  AuditOutcome(o, s) = AuditOutcome(d, s)
<1>1. DOMAIN o.audit_log = {r \in DOMAIN d.audit_log : r.scope = s}
  <2>1. o.audit_log = OwnLog(d.audit_log, s)
    BY OwnDb
  <2>2. QED
    BY <2>1 DEF OwnLog, Restrict
<1>2. QED
  BY <1>1 DEF AuditOutcome

-----------------------------------------------------------------------------
(* expire_raw_content                                                      *)

\* Of appended records those of the scope may as well be appended afterwards.
LEMMA OwnAppendAll ==
    ASSUME NEW log, NEW records, NEW s, NEW own, own = {r \in records : r.scope = s}
    PROVE  OwnLog(LogAudit(log, records), s) = LogAudit(OwnLog(log, s), own)
<1> DEFINE new == LogAudit(log, records)
           ours == OwnLog(log, s)
<1>1. /\ DOMAIN new = DOMAIN log \cup records
      /\ \A r \in DOMAIN new : new[r] = Copies(log, r) + (IF r \in records THEN 1 ELSE 0)
  BY DEF LogAudit
<1>2. /\ DOMAIN ours = {r \in DOMAIN log : r.scope = s}
      /\ \A r \in DOMAIN ours : ours[r] = log[r]
  BY DEF OwnLog, Restrict
<1>3. LogAudit(ours, own) = [r \in DOMAIN ours \cup own |->
          Copies(ours, r) + (IF r \in own THEN 1 ELSE 0)]
  BY DEF LogAudit
<1>4. OwnLog(new, s) = [r \in {r \in DOMAIN new : r.scope = s} |-> new[r]]
  BY DEF OwnLog, Restrict
<1>5. {r \in DOMAIN new : r.scope = s} = DOMAIN ours \cup own
  BY <1>1, <1>2
<1>6. \A r \in DOMAIN ours \cup own :
        Copies(ours, r) = Copies(log, r) /\ (r \in own <=> r \in records)
  BY <1>2 DEF Copies
<1> HIDE DEF new, ours
<1>7. QED
  BY <1>1, <1>3, <1>4, <1>5, <1>6 DEF new, ours

SweptEvents(d, as_of) ==
    [k \in DOMAIN d.raw_events |->
        IF k \in Expirable(d, as_of) THEN [d.raw_events[k] EXCEPT !.status = "expired"]
                                     ELSE d.raw_events[k]]
SweepRecord(k) == AuditRecord(k[1], "expire", "raw_event", k[2], "raw content expired")
SweepRecords(d, as_of) == {SweepRecord(k) : k \in Expirable(d, as_of)}

\* What a sweep leaves behind.
Swept(e, d, as_of) ==
    /\ IsDb(e)
    /\ e.raw_events = SweptEvents(d, as_of)
    /\ e.raw_event_content = Delete(d.raw_event_content, Expirable(d, as_of))
    /\ e.memories = d.memories /\ e.memory_sources = d.memory_sources
    /\ e.tombstones = d.tombstones
    /\ e.audit_log = LogAudit(d.audit_log, SweepRecords(d, as_of))

LEMMA ExpireDb ==
    ASSUME NEW d, IsDb(d), NEW as_of
    PROVE  Swept(ExpireEffect(d, as_of), d, as_of)
<1> DEFINE keys == Expirable(d, as_of)
           bodies == Delete(d.raw_event_content, keys)
           events == [key \in DOMAIN d.raw_events |->
                        IF key \in keys THEN [d.raw_events[key] EXCEPT !.status = "expired"]
                                        ELSE d.raw_events[key]]
           records == {AuditRecord(key[1], "expire", "raw_event", key[2],
                                   "raw content expired") : key \in keys}
           log == LogAudit(d.audit_log, records)
<1>1. ExpireEffect(d, as_of) =
        [d EXCEPT !.raw_event_content = bodies, !.raw_events = events, !.audit_log = log]
  BY DEF ExpireEffect
<1>2. events = SweptEvents(d, as_of)
  BY DEF SweptEvents
<1>3. records = SweepRecords(d, as_of)
  BY DEF SweepRecords, SweepRecord
<1>4. bodies = Delete(d.raw_event_content, Expirable(d, as_of))
  OBVIOUS
<1>5. log = LogAudit(d.audit_log, SweepRecords(d, as_of))
  BY <1>3
<1> HIDE DEF keys, bodies, events, records, log
<1>6. ExpireEffect(d, as_of) =
        [raw_events |-> events, raw_event_content |-> bodies, memories |-> d.memories,
         memory_sources |-> d.memory_sources, tombstones |-> d.tombstones,
         audit_log |-> log]
  BY <1>1 DEF IsDb
<1>7. IsDb(ExpireEffect(d, as_of))
  BY <1>6, ExplicitDb
<1>8. QED
  BY <1>2, <1>4, <1>5, <1>6, <1>7 DEF Swept

\* A sweep does in every scope what it would do without the others.
LEMMA ExpireOwn ==
    ASSUME NEW d, IsDb(d), NEW s, NEW o, o = OnlyScope(d, s), NEW as_of,
           NEW e, e = ExpireEffect(d, as_of), NEW f, f = ExpireEffect(o, as_of)
    PROVE  OnlyScope(e, s) = f
<1>1. Swept(e, d, as_of) /\ Swept(f, o, as_of)
  BY OwnDb, ExpireDb
<1>2. \A k : k \in Expirable(o, as_of) <=> k \in Expirable(d, as_of) /\ k[1] = s
  BY OwnRows DEF Expirable
<1>3. Own(e.raw_event_content, s) = f.raw_event_content
  BY <1>1, <1>2, OwnDelete, OwnDb DEF Swept
<1>4. Own(e.raw_events, s) = f.raw_events
  <2>1. /\ DOMAIN o.raw_events = {k \in DOMAIN d.raw_events : k[1] = s}
        /\ \A k \in DOMAIN o.raw_events : o.raw_events[k] = d.raw_events[k]
    <3>1. o.raw_events = Own(d.raw_events, s)
      BY OwnDb
    <3>2. QED
      BY <3>1 DEF Own, Restrict
  <2>2. \A k \in DOMAIN o.raw_events : SweptEvents(o, as_of)[k] = SweptEvents(d, as_of)[k]
    BY <1>2, <2>1 DEF SweptEvents
  <2>3. /\ DOMAIN SweptEvents(d, as_of) = DOMAIN d.raw_events
        /\ SweptEvents(o, as_of) = [k \in DOMAIN o.raw_events |-> SweptEvents(o, as_of)[k]]
    BY DEF SweptEvents
  <2>4. Own(SweptEvents(d, as_of), s) =
          [k \in {k \in DOMAIN d.raw_events : k[1] = s} |-> SweptEvents(d, as_of)[k]]
    BY <2>3 DEF Own, Restrict
  <2>5. QED
    BY <1>1, <2>1, <2>2, <2>3, <2>4 DEF Swept
<1>5. OwnLog(e.audit_log, s) = f.audit_log
  <2>1. \A k : SweepRecord(k).scope = k[1]
    BY DEF SweepRecord, AuditRecord
  <2>2. SweepRecords(o, as_of) = {r \in SweepRecords(d, as_of) : r.scope = s}
    BY <1>2, <2>1 DEF SweepRecords
  <2>3. QED
    BY <1>1, <2>2, OwnDb, OwnAppendAll DEF Swept
<1>6. /\ Own(e.memories, s) = f.memories /\ Own(e.memory_sources, s) = f.memory_sources
      /\ Own(e.tombstones, s) = f.tombstones
  BY <1>1, OwnDb DEF Swept
<1>7. IsDb(f)
  BY <1>1 DEF Swept
<1>8. QED
  BY <1>3, <1>4, <1>5, <1>6, <1>7, OwnDb, SameStore

-----------------------------------------------------------------------------
(* Theorem.                                                                *)

\* A consistent store keeps scopes apart.
LEMMA ScopesApart ==
    ASSUME DbType(db), DbConsistent(db)
    PROVE  ScopeIsolation
<1>0. Filed(db)
  BY DEF DbType, IsTable, Filed
<1> SUFFICES ASSUME NEW s \in Scopes, NEW own, own = OnlyScope(db, s)
    PROVE  /\ \A draft \in {x \in EventDrafts : x.scope = s}, now \in Clocks :
                 ConfinedTo(s, IngestOutcome(db, draft), IngestEffect(db, draft, now),
                            IngestOutcome(own, draft), IngestEffect(own, draft, now))
           /\ \A draft \in {x \in MemoryDrafts : x.scope = s} :
                 ConfinedTo(s, MaterializeOutcome(db, draft), MaterializeEffect(db, draft),
                            MaterializeOutcome(own, draft), MaterializeEffect(own, draft))
           /\ \A c \in {x \in GovernanceCommand : x.scope = s} :
                 ConfinedTo(s, GovernOutcome(db, c), GovernEffect(db, c),
                            GovernOutcome(own, c), GovernEffect(own, c))
           /\ RecallOutcome(db, s) = RecallOutcome(own, s)
           /\ \A as_of \in 0..MaxTime :
                 RecallCandidates(db, s, as_of, {}) = RecallCandidates(own, s, as_of, {})
  BY DEF ScopeIsolation
<1>1. ASSUME NEW draft \in {x \in EventDrafts : x.scope = s}, NEW now \in Clocks
      PROVE  ConfinedTo(s, IngestOutcome(db, draft), IngestEffect(db, draft, now),
                        IngestOutcome(own, draft), IngestEffect(own, draft, now))
  <2>1. draft.scope = s /\ draft \in EventDrafts
    OBVIOUS
  <2>2. IngestOutcome(own, draft) = IngestOutcome(db, draft)
    BY <2>1, IngestAnswer
  <2>3. /\ OnlyScope(IngestEffect(db, draft, now), s) = IngestEffect(own, draft, now)
        /\ \A t : t # s => OnlyScope(IngestEffect(db, draft, now), t) = OnlyScope(db, t)
    BY <1>0, <2>1, IngestOwn
  <2>4. QED
    BY <2>2, <2>3 DEF ConfinedTo
<1>2. ASSUME NEW draft \in {x \in MemoryDrafts : x.scope = s}
      PROVE  ConfinedTo(s, MaterializeOutcome(db, draft), MaterializeEffect(db, draft),
                        MaterializeOutcome(own, draft), MaterializeEffect(own, draft))
  <2>1. draft.scope = s /\ draft \in MemoryDrafts
    OBVIOUS
  <2>2. Blur(MaterializeOutcome(own, draft)) = Blur(MaterializeOutcome(db, draft))
    BY <2>1, MaterializeAnswer
  <2>3. MaterializeOutcome(db, draft) \in {"created", "done"} =>
          SourcesOutcome(db, draft) = "ok"
    BY <2>1, SettledSources
  <2>4. SourcesOutcome(db, draft) = "ok" =>
        /\ OnlyScope(MaterializeEffect(db, draft), s) = MaterializeEffect(own, draft)
        /\ \A t : t # s => OnlyScope(MaterializeEffect(db, draft), t) = OnlyScope(db, t)
    BY <1>0, <2>1, MaterializeOwn
  <2>5. QED
    BY <2>2, <2>3, <2>4 DEF ConfinedTo
<1>3. ASSUME NEW c \in {x \in GovernanceCommand : x.scope = s}
      PROVE  ConfinedTo(s, GovernOutcome(db, c), GovernEffect(db, c),
                        GovernOutcome(own, c), GovernEffect(own, c))
  <2>1. c.scope = s /\ c \in GovernanceCommand
    OBVIOUS
  <2>2. Blur(GovernOutcome(own, c)) = Blur(GovernOutcome(db, c))
    BY <2>1, GovernAnswer
  <2>3. GovernOutcome(db, c) = "done" =>
        /\ OnlyScope(GovernEffect(db, c), s) = GovernEffect(own, c)
        /\ \A t : t # s => OnlyScope(GovernEffect(db, c), t) = OnlyScope(db, t)
    BY <1>0, <2>1, GovernOwn
  <2>4. GovernOutcome(db, c) # "created"
    BY DEF GovernOutcome, GovernMemoryOutcome, DeleteRawEventOutcome, MissingEntity
  <2>5. QED
    BY <2>2, <2>3, <2>4 DEF ConfinedTo
<1>4. RecallOutcome(db, s) = RecallOutcome(own, s)
  BY RecallOwn
<1>5. \A as_of \in 0..MaxTime :
        RecallCandidates(db, s, as_of, {}) = RecallCandidates(own, s, as_of, {})
  BY RecallOwn
<1>6. QED
  BY <1>1, <1>2, <1>3, <1>4, <1>5

\* Scopes never interfere, in any reachable state.
THEOREM ScopesIsolated == Spec => []ScopeIsolation
<1>1. TypeOK /\ Consistent => ScopeIsolation
  BY ScopesApart DEF TypeOK, Consistent
<1>2. QED
  BY <1>1, TypeCorrect, Consistency, PTL
=============================================================================
