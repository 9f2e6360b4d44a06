--------------------------- MODULE IntegrityProofs ---------------------------
(***************************************************************************)
(* What one damaged row can do to the answers.  A request, a sweep and the *)
(* damage itself change the rows of the other scopes as if those were the  *)
(* only ones, so the store cut down to any scope but the damaged one stays *)
(* a consistent store.  In the damaged scope itself every memory on record *)
(* stays tied to what it was materialized from: its row or its edges are   *)
(* what they were then, and of the other one only a part has changed.      *)
(***************************************************************************)
EXTENDS Integrity, ScopeProofs

\* The rows of one scope are a consistent store.
Sound(d, t) == DbType(OnlyScope(d, t)) /\ DbConsistent(OnlyScope(d, t))

\* Every scope but the damaged one is a consistent store.
OthersSound == Filed(db) /\ \A t \in Scopes : t # damaged => Sound(db, t)

-----------------------------------------------------------------------------
(* Whatever is appended, the log stays a log.                              *)

LEMMA LogFiled ==
    ASSUME NEW log, IsTable(log, DOMAIN log, Nat \ {0}), NEW records
    PROVE  IsTable(LogAudit(log, records), DOMAIN LogAudit(log, records), Nat \ {0})
BY DEF IsTable, LogAudit, Copies

LEMMA IngestFiled ==
    ASSUME NEW d, Filed(d), NEW draft, NEW now, NEW e, e = IngestEffect(d, draft, now)
    PROVE  Filed(e)
<1> DEFINE record == AuditRecord(draft.scope, "ingest", "raw_event",
                                 draft.event_id, "event ingested")
<1>1. IsDb(e)
  BY IngestDb DEF Filed
<1>2. e.audit_log = LogAudit(d.audit_log, {record})
  BY DEF Filed, IsDb, IngestEffect
<1>3. QED
  BY <1>1, <1>2, LogFiled DEF Filed

LEMMA MaterializeFiled ==
    ASSUME NEW d, Filed(d), NEW draft, NEW e, e = MaterializeEffect(d, draft)
    PROVE  Filed(e)
<1> DEFINE record == AuditRecord(draft.scope, "materialize", "memory",
                                 draft.memory_id, "memory materialized")
<1>1. IsDb(e)
  BY MaterializeDb DEF Filed
<1>2. e.audit_log = LogAudit(d.audit_log, {record})
  BY DEF Filed, IsDb, MaterializeEffect
<1>3. QED
  BY <1>1, <1>2, LogFiled DEF Filed

LEMMA GovernFiled ==
    ASSUME NEW d, Filed(d), NEW c, NEW e, e = GovernEffect(d, c)
    PROVE  Filed(e)
<1>0. IsDb(d)
  BY DEF Filed
<1>1. ASSUME NEW g, IsDb(g), g.audit_log = d.audit_log, e = Logged(g, GovernanceAudit(c))
      PROVE  Filed(e)
  <2>1. IsDb(e) /\ e.audit_log = LogAudit(d.audit_log, {GovernanceAudit(c)})
    BY <1>1, LoggedDb
  <2>2. QED
    BY <2>1, LogFiled DEF Filed
<1>2. \A status : SetStatus(d, c, status).audit_log = d.audit_log
  BY <1>0 DEF IsDb, SetStatus
<1>3. Erase(d, c).audit_log = d.audit_log
  BY <1>0 DEF IsDb, Erase
<1>4. CASE c.action = "seal"
  <2>1. e = Logged(SetStatus(d, c, "sealed"), GovernanceAudit(c))
    BY <1>4 DEF GovernEffect, Logged
  <2>2. QED
    BY <1>0, <1>1, <1>2, <2>1, StatusDb
<1>5. CASE c.action = "restore"
  <2>1. e = Logged(SetStatus(d, c, "active"), GovernanceAudit(c))
    BY <1>5 DEF GovernEffect, Logged
  <2>2. QED
    BY <1>0, <1>1, <1>2, <2>1, StatusDb
<1>6. CASE c.action # "seal" /\ c.action # "restore"
  <2>1. e = Logged(Erase(d, c), GovernanceAudit(c))
    BY <1>6 DEF GovernEffect, Logged
  <2>2. QED
    BY <1>0, <1>1, <1>3, <2>1, EraseDb
<1>7. QED
  BY <1>4, <1>5, <1>6

LEMMA ExpireFiled ==
    ASSUME NEW d, Filed(d), NEW as_of, NEW e, e = ExpireEffect(d, as_of)
    PROVE  Filed(e)
<1>1. Swept(e, d, as_of)
  BY ExpireDb DEF Filed
<1>2. QED
  BY <1>1, LogFiled DEF Swept, Filed

-----------------------------------------------------------------------------
(* A sound scope stays sound, whoever makes the request.                   *)

LEMMA IngestKeepsSound ==
    ASSUME NEW d, Filed(d), NEW draft \in EventDrafts, NEW now \in Clocks,
           IngestOutcome(d, draft) = "created", NEW e, e = IngestEffect(d, draft, now),
           NEW t \in Scopes, Sound(d, t)
    PROVE  Sound(e, t)
<1>1. CASE t # draft.scope
  BY <1>1, IngestOwn DEF Sound
<1>2. CASE t = draft.scope
  <2>1. PICK o : o = OnlyScope(d, t)
    OBVIOUS
  <2>2. OnlyScope(e, t) = IngestEffect(o, draft, now)
    BY <1>2, <2>1, IngestOwn
  <2>3. IngestOutcome(o, draft) = "created"
    BY <1>2, <2>1, IngestAnswer
  <2>4. DbType(o) /\ DbConsistent(o)
    BY <2>1 DEF Sound
  <2>5. QED
    BY <2>2, <2>3, <2>4, IngestType, IngestConsistent DEF Sound
<1>3. QED
  BY <1>1, <1>2

LEMMA MaterializeKeepsSound ==
    ASSUME NEW d, Filed(d), NEW draft \in MemoryDrafts,
           MaterializeOutcome(d, draft) = "created",
           NEW e, e = MaterializeEffect(d, draft), NEW t \in Scopes, Sound(d, t)
    PROVE  Sound(e, t)
<1>0. SourcesOutcome(d, draft) = "ok"
  BY SettledSources
<1>1. CASE t # draft.scope
  BY <1>0, <1>1, MaterializeOwn DEF Sound
<1>2. CASE t = draft.scope
  <2>1. PICK o : o = OnlyScope(d, t)
    OBVIOUS
  <2>2. OnlyScope(e, t) = MaterializeEffect(o, draft)
    BY <1>0, <1>2, <2>1, MaterializeOwn
  <2>3. MaterializeOutcome(o, draft) = "created"
    BY <1>2, <2>1, MaterializeAnswer DEF Blur
  <2>4. DbType(o) /\ DbConsistent(o)
    BY <2>1 DEF Sound
  <2>5. QED
    BY <2>2, <2>3, <2>4, MaterializeType, MaterializeConsistent DEF Sound
<1>3. QED
  BY <1>1, <1>2

LEMMA GovernKeepsSound ==
    ASSUME NEW d, Filed(d), NEW c \in GovernanceCommand, GovernOutcome(d, c) = "done",
           NEW e, e = GovernEffect(d, c), NEW t \in Scopes, Sound(d, t)
    PROVE  Sound(e, t)
<1>1. CASE t # c.scope
  BY <1>1, GovernOwn DEF Sound
<1>2. CASE t = c.scope
  <2>1. PICK o : o = OnlyScope(d, t)
    OBVIOUS
  <2>2. OnlyScope(e, t) = GovernEffect(o, c)
    BY <1>2, <2>1, GovernOwn
  <2>3. GovernOutcome(o, c) = "done"
    BY <1>2, <2>1, GovernDone, RecordedAnswer DEF EntityType
  <2>4. DbType(o) /\ DbConsistent(o)
    BY <2>1 DEF Sound
  <2>5. QED
    BY <2>2, <2>3, <2>4, GovernOk DEF Sound
<1>3. QED
  BY <1>1, <1>2

LEMMA ExpireKeepsSound ==
    ASSUME NEW d, Filed(d), NEW as_of, NEW e, e = ExpireEffect(d, as_of),
           NEW t \in Scopes, Sound(d, t)
    PROVE  Sound(e, t)
<1>1. PICK o : o = OnlyScope(d, t)
  OBVIOUS
<1>2. OnlyScope(e, t) = ExpireEffect(o, as_of)
  BY <1>1, ExpireOwn DEF Filed
<1>3. DbType(o) /\ DbConsistent(o)
  BY <1>1 DEF Sound
<1>4. QED
  BY <1>2, <1>3, ExpireType, ExpireConsistent DEF Sound

LEMMA OperationKeepsSound ==
    ASSUME Filed(db), Next
    PROVE  Filed(db') /\ \A t \in Scopes : Sound(db, t) => Sound(db', t)
<1>1. CASE db' = db
  BY <1>1
<1>2. ASSUME NEW draft \in EventDrafts, NEW now \in Clocks, IngestEvent(draft, now),
             db' # db
      PROVE  Filed(db') /\ \A t \in Scopes : Sound(db, t) => Sound(db', t)
  <2>1. IngestOutcome(db, draft) = "created" /\ db' = IngestEffect(db, draft, now)
    BY <1>2 DEF IngestEvent
  <2>2. QED
    BY <2>1, IngestFiled, IngestKeepsSound
<1>3. ASSUME NEW draft \in MemoryDrafts, MaterializeOnce(draft), db' # db
      PROVE  Filed(db') /\ \A t \in Scopes : Sound(db, t) => Sound(db', t)
  <2>1. MaterializeOutcome(db, draft) = "created" /\ db' = MaterializeEffect(db, draft)
    BY <1>3 DEF MaterializeOnce
  <2>2. QED
    BY <2>1, MaterializeFiled, MaterializeKeepsSound
<1>4. ASSUME NEW c \in GovernanceCommand, Govern(c), db' # db
      PROVE  Filed(db') /\ \A t \in Scopes : Sound(db, t) => Sound(db', t)
  <2>1. GovernOutcome(db, c) = "done" /\ db' = GovernEffect(db, c)
    BY <1>4 DEF Govern
  <2>2. QED
    BY <2>1, GovernFiled, GovernKeepsSound
<1>5. ASSUME NEW as_of \in Sweeps, ExpireRawContent(as_of), db' # db
      PROVE  Filed(db') /\ \A t \in Scopes : Sound(db, t) => Sound(db', t)
  <2>1. db' = ExpireEffect(db, as_of)
    BY <1>5 DEF ExpireRawContent
  <2>2. QED
    BY <2>1, ExpireFiled, ExpireKeepsSound
<1>6. QED
  BY <1>1, <1>2, <1>3, <1>4, <1>5 DEF Next

-----------------------------------------------------------------------------
(* Damage touches the rows of its scope alone.                             *)

Tables == {"raw_events", "raw_event_content", "memories", "memory_sources", "tombstones"}

\* What damage leaves of the store.
Spared(d, e, s) == Filed(e) /\ \A t : t # s => OnlyScope(e, t) = OnlyScope(d, t)

\* The rows of the other scopes are the same in two tables.
OthersSame(table, rows, s) == \A t : t # s => Own(rows, t) = Own(table, t)

LEMMA ReplacedTable ==
    ASSUME NEW d, Filed(d), NEW name \in Tables, NEW table, table = d[name],
           NEW rows, NEW s, OthersSame(table, rows, s),
           NEW e, e = [d EXCEPT ![name] = rows]
    PROVE  Spared(d, e, s)
<1>1. /\ IsDb(e) /\ e.audit_log = d.audit_log
      /\ e[name] = rows
      /\ \A other \in Tables : other # name => e[other] = d[other]
  BY DEF Filed, IsDb, Tables
<1>2. ASSUME NEW t, t # s
      PROVE  OnlyScope(e, t) = OnlyScope(d, t)
  <2>1. \A other \in Tables : Own(e[other], t) = Own(d[other], t)
    BY <1>1, <1>2 DEF OthersSame
  <2>2. OwnLog(e.audit_log, t) = OwnLog(d.audit_log, t)
    BY <1>1
  <2>3. QED
    BY <2>1, <2>2, Untouched DEF Tables
<1>3. QED
  BY <1>1, <1>2 DEF Filed, Spared

LEMMA OtherRow ==
    ASSUME NEW table, NEW key, NEW row, NEW rows, rows = [table EXCEPT ![key] = row]
    PROVE  OthersSame(table, rows, key[1])
<1> SUFFICES ASSUME NEW t, t # key[1] PROVE Own(rows, t) = Own(table, t)
  BY DEF OthersSame
<1> DEFINE ours == {k \in DOMAIN table : k[1] = t}
<1>1. DOMAIN rows = DOMAIN table
  OBVIOUS
<1>2. \A k \in ours : rows[k] = table[k]
  OBVIOUS
<1>3. Own(rows, t) = [k \in ours |-> rows[k]] /\ Own(table, t) = [k \in ours |-> table[k]]
  BY <1>1 DEF Own, Restrict
<1>4. QED
  BY <1>2, <1>3

LEMMA OtherLoss ==
    ASSUME NEW table, NEW key, NEW rows, rows = Delete(table, {key})
    PROVE  OthersSame(table, rows, key[1])
BY OtherDelete DEF OthersSame

LEMMA AlterSpares ==
    ASSUME Filed(db), NEW name \in Tables, NEW key, NEW row, Alter(name, key, row)
    PROVE  Spared(db, db', damaged')
<1>1. PICK table : table = db[name]
  OBVIOUS
<1>2. PICK rows : rows = [table EXCEPT ![key] = row]
  OBVIOUS
<1>3. db' = [db EXCEPT ![name] = rows] /\ damaged' = key[1]
  BY <1>1, <1>2 DEF Alter
<1>4. OthersSame(table, rows, key[1])
  BY <1>2, OtherRow
<1>5. QED
  BY <1>1, <1>3, <1>4, ReplacedTable

LEMMA LoseSpares ==
    ASSUME Filed(db), NEW name \in Tables, NEW key, Lose(name, key)
    PROVE  Spared(db, db', damaged')
<1>1. PICK table : table = db[name]
  OBVIOUS
<1>2. PICK rows : rows = Delete(table, {key})
  OBVIOUS
<1>3. db' = [db EXCEPT ![name] = rows] /\ damaged' = key[1]
  BY <1>1, <1>2 DEF Lose
<1>4. OthersSame(table, rows, key[1])
  BY <1>2, OtherLoss
<1>5. QED
  BY <1>1, <1>3, <1>4, ReplacedTable

LEMMA RecordSpares ==
    ASSUME Filed(db), NEW s \in Scopes,
           db' = [db EXCEPT !.audit_log = LogAudit(@, {ForeignRecord(s)})],
           damaged' = s
    PROVE  Spared(db, db', damaged')
<1>1. IsDb(db) /\ IsTable(db.audit_log, DOMAIN db.audit_log, Nat \ {0})
  BY DEF Filed
<1>2. ForeignRecord(s).scope = s
  BY DEF ForeignRecord, AuditRecord
<1>3. db' = Logged(db, ForeignRecord(s))
  BY DEF Logged
<1>4. /\ IsDb(db')
      /\ db'.audit_log = LogAudit(db.audit_log, {ForeignRecord(s)})
  BY <1>1, <1>3, LoggedDb
<1>5. \A t : t # s => OnlyScope(db', t) = OnlyScope(db, t)
  BY <1>1, <1>2, <1>3, RecordOwn
<1>6. QED
  BY <1>1, <1>4, <1>5, LogFiled DEF Spared, Filed

LEMMA DamageSpares ==
    ASSUME Filed(db), Damage
    PROVE  Spared(db, db', damaged')
<1>1. \/ \E name \in Tables : \E key, row : Alter(name, key, row)
      \/ \E name \in Tables : \E key : Lose(name, key)
      \/ \E s \in Scopes :
            /\ db' = [db EXCEPT !.audit_log = LogAudit(@, {ForeignRecord(s)})]
            /\ damaged' = s
  BY DEF Damage, Tables
<1>2. QED
  BY <1>1, AlterSpares, LoseSpares, RecordSpares

-----------------------------------------------------------------------------
(* Theorem.                                                                *)

LEMMA OthersSoundInit == IntegrityInit => OthersSound
<1> SUFFICES ASSUME IntegrityInit PROVE OthersSound
  OBVIOUS
<1>1. DbType(db) /\ DbConsistent(db)
  BY InitOk DEF IntegrityInit, TypeOK, Consistent
<1>2. Filed(db)
  BY <1>1 DEF DbType, IsTable, Filed
<1>3. \A t \in Scopes : Sound(db, t)
  BY <1>1, OwnStore DEF Sound
<1>4. QED
  BY <1>2, <1>3 DEF OthersSound

LEMMA OthersSoundStep == OthersSound /\ [IntegrityNext]_integrityVars => OthersSound'
<1> SUFFICES ASSUME OthersSound, [IntegrityNext]_integrityVars PROVE OthersSound'
  OBVIOUS
<1>1. CASE UNCHANGED integrityVars
  BY <1>1 DEF integrityVars, OthersSound
<1>2. CASE Operation
  <2>1. Next /\ damaged' = damaged
    BY <1>2 DEF Operation
  <2>2. QED
    BY <2>1, OperationKeepsSound DEF OthersSound
<1>3. CASE Damage
  <2>1. damaged = NoScope /\ Filed(db)
    BY <1>3 DEF Damage, OthersSound
  <2>2. \A t \in Scopes : Sound(db, t)
    BY <2>1, NoScopeAssumption DEF OthersSound
  <2>3. Spared(db, db', damaged')
    BY <1>3, <2>1, DamageSpares
  <2>4. QED
    BY <2>2, <2>3 DEF OthersSound, Spared, Sound
<1>4. QED
  BY <1>1, <1>2, <1>3 DEF IntegrityNext

\* Receipts and tombstones belong to scopes.
KeysScoped(d) ==
    /\ \A k \in DOMAIN d.raw_events : k[1] \in Scopes
    /\ \A t \in DOMAIN d.tombstones : t[1] \in Scopes

LEMMA GovernScoped ==
    ASSUME NEW d, IsDb(d), KeysScoped(d), NEW c \in GovernanceCommand,
           NEW e, e = GovernEffect(d, c)
    PROVE  KeysScoped(e)
<1>1. CASE c.action \in {"seal", "restore"}
  BY <1>1 DEF IsDb, GovernEffect, SetStatus, KeysScoped
<1>2. CASE c.action \notin {"seal", "restore"}
  <2> DEFINE events == IF c.entity_type = "raw_event"
                       THEN {<<c.scope, c.entity_id>>} ELSE {}
             new == NewTombstones(d, c)
  <2>1. /\ e.raw_events = Delete(d.raw_events, events)
        /\ e.tombstones = Insert(d.tombstones, new)
    BY <1>2 DEF IsDb, GovernEffect, Erase
  <2>2. \A t \in DOMAIN new : t[1] \in Scopes
    BY DEF NewTombstones, GovernanceCommand
  <2> HIDE DEF events, new
  <2>3. /\ DOMAIN e.raw_events \subseteq DOMAIN d.raw_events
        /\ DOMAIN e.tombstones = DOMAIN d.tombstones \cup DOMAIN new
    BY <2>1 DEF Delete, Restrict, Insert
  <2>4. QED
    BY <2>2, <2>3 DEF KeysScoped
<1>3. QED
  BY <1>1, <1>2

LEMMA OperationScoped ==
    ASSUME IsDb(db), KeysScoped(db), Next
    PROVE  KeysScoped(db')
<1>1. CASE db' = db
  BY <1>1 DEF KeysScoped
<1>2. ASSUME NEW draft \in EventDrafts, NEW now \in Clocks, IngestEvent(draft, now),
             db' # db
      PROVE  KeysScoped(db')
  <2>1. db' = IngestEffect(db, draft, now) /\ draft.scope \in Scopes
    BY <1>2, EventDraftAssumption DEF IngestEvent, RawEventDraft
  <2>2. /\ DOMAIN db'.raw_events = DOMAIN db.raw_events \cup {EventKey(draft)}
        /\ db'.tombstones = db.tombstones
    BY <2>1 DEF IsDb, IngestEffect, Insert, Row
  <2>3. QED
    BY <2>1, <2>2 DEF KeysScoped, EventKey
<1>3. ASSUME NEW draft \in MemoryDrafts, MaterializeOnce(draft), db' # db
      PROVE  KeysScoped(db')
  BY <1>3 DEF MaterializeOnce, MaterializeEffect, IsDb, KeysScoped
<1>4. ASSUME NEW c \in GovernanceCommand, Govern(c), db' # db
      PROVE  KeysScoped(db')
  BY <1>4, GovernScoped DEF Govern
<1>5. ASSUME NEW as_of \in Sweeps, ExpireRawContent(as_of), db' # db
      PROVE  KeysScoped(db')
  BY <1>5 DEF ExpireRawContent, ExpireEffect, IsDb, KeysScoped
<1>6. QED
  BY <1>1, <1>2, <1>3, <1>4, <1>5 DEF Next

LEMMA DamageScoped ==
    ASSUME IsDb(db), KeysScoped(db), Damage
    PROVE  KeysScoped(db')
<1>1. ASSUME NEW name \in Tables, NEW key, NEW row, Alter(name, key, row)
      PROVE  KeysScoped(db')
  <2>1. DOMAIN db'.raw_events = DOMAIN db.raw_events
        /\ DOMAIN db'.tombstones = DOMAIN db.tombstones
    BY <1>1 DEF Alter, IsDb, Tables
  <2>2. QED
    BY <2>1 DEF KeysScoped
<1>2. ASSUME NEW name \in Tables, NEW key, Lose(name, key)
      PROVE  KeysScoped(db')
  <2>1. DOMAIN Delete(db[name], {key}) \subseteq DOMAIN db[name]
    BY DEF Delete, Restrict
  <2>2. /\ DOMAIN db'.raw_events \subseteq DOMAIN db.raw_events
        /\ DOMAIN db'.tombstones \subseteq DOMAIN db.tombstones
    BY <1>2, <2>1 DEF Lose, IsDb, Tables
  <2>3. QED
    BY <2>2 DEF KeysScoped
<1>3. ASSUME NEW s \in Scopes,
             db' = [db EXCEPT !.audit_log = LogAudit(@, {ForeignRecord(s)})]
      PROVE  KeysScoped(db')
  BY <1>3 DEF IsDb, KeysScoped
<1>4. \/ \E name \in Tables : \E key, row : Alter(name, key, row)
      \/ \E name \in Tables : \E key : Lose(name, key)
      \/ \E s \in Scopes : db' = [db EXCEPT !.audit_log = LogAudit(@, {ForeignRecord(s)})]
  BY DEF Damage, Tables
<1>5. QED
  BY <1>1, <1>2, <1>3, <1>4

LEMMA KeysStayScoped ==
    /\ IntegrityInit => KeysScoped(db)
    /\ OthersSound /\ KeysScoped(db) /\ [IntegrityNext]_integrityVars => KeysScoped(db)'
<1>1. IntegrityInit => KeysScoped(db)
  BY DEF IntegrityInit, Init, EmptyDb, EmptyTable, KeysScoped
<1>2. ASSUME OthersSound, KeysScoped(db), [IntegrityNext]_integrityVars
      PROVE  KeysScoped(db')
  <2>1. IsDb(db)
    BY <1>2 DEF OthersSound, Filed
  <2>2. CASE UNCHANGED integrityVars
    BY <1>2, <2>2 DEF integrityVars
  <2>3. CASE Operation
    BY <1>2, <2>1, <2>3, OperationScoped DEF Operation
  <2>4. CASE Damage
    BY <1>2, <2>1, <2>4, DamageScoped
  <2>5. QED
    BY <1>2, <2>2, <2>3, <2>4 DEF IntegrityNext
<1>3. QED
  BY <1>1, <1>2

\* A sound scope refuses nothing it is asked of its own rows.
LEMMA SoundAnswers ==
    ASSUME Filed(db), NEW s \in Scopes, Sound(db, s)
    PROVE  /\ ~Refused(s)
           /\ \A c \in GovernanceCommand :
                c.scope = s /\ OnRecord(c) => GovernOutcome(db, c) # "RepositoryCorruption"
           /\ \A t \in DOMAIN db.tombstones : t[1] = s => TombstoneOk(db, t)
           /\ \A key \in DOMAIN db.raw_events : key[1] = s => ReceiptOk(db, key)
<1>1. PICK o : o = OnlyScope(db, s)
  OBVIOUS
<1>2. DbType(o) /\ DbConsistent(o)
  BY <1>1 DEF Sound
<1>3. RecallOutcome(db, s) # "RepositoryCorruption"
  BY <1>1, <1>2, RecallOwn, RecallSound
<1>4. AuditOutcome(db, s) # "RepositoryCorruption"
  <2>1. AuditOutcome(o, s) # "RepositoryCorruption"
    BY <1>2 DEF DbConsistent, AuditOutcome
  <2>2. QED
    BY <1>1, <2>1, AuditOwn
<1>5. \A draft \in EventDrafts : draft.scope = s =>
        IngestOutcome(db, draft) # "RepositoryCorruption"
  BY <1>1, <1>2, IngestAnswer, IngestSound
<1>6. \A draft \in MemoryDrafts : draft.scope = s =>
        MaterializeOutcome(db, draft) # "RepositoryCorruption"
  BY <1>1, <1>2, MaterializeAnswer, MaterializeSound DEF Blur
<1>7. \A c \in GovernanceCommand :
        c.scope = s /\ OnRecord(c) => GovernOutcome(db, c) # "RepositoryCorruption"
  BY <1>1, <1>2, RecordedAnswer, GovernSound DEF OnRecord
<1>8. \A t \in DOMAIN db.tombstones : t[1] = s => TombstoneOk(db, t)
  <2>1. \A t : t[1] = s /\ t \in DOMAIN db.tombstones =>
          t \in DOMAIN o.tombstones /\ o.tombstones[t] = db.tombstones[t]
    BY <1>1, OwnRows
  <2>2. \A t \in DOMAIN o.tombstones : TombstoneOk(o, t)
    BY <1>2 DEF DbConsistent
  <2>3. QED
    BY <2>1, <2>2 DEF TombstoneOk
<1>9. \A key \in DOMAIN db.raw_events : key[1] = s => ReceiptOk(db, key)
  <2>1. \A key : key[1] = s /\ key \in DOMAIN db.raw_events =>
          /\ key \in DOMAIN o.raw_events /\ o.raw_events[key] = db.raw_events[key]
          /\ key \in DOMAIN o.raw_event_content <=> key \in DOMAIN db.raw_event_content
    BY <1>1, OwnRows
  <2>2. \A key \in DOMAIN o.raw_events : ReceiptOk(o, key)
    BY <1>2 DEF DbConsistent
  <2>3. QED
    BY <2>1, <2>2 DEF ReceiptOk
<1>10. QED
  BY <1>3, <1>4, <1>5, <1>6, <1>7, <1>8, <1>9 DEF Refused

\* One damaged row refuses no scope but its own what is asked of that scope's
\* rows; where a request reads every scope's rows, it is the bad row itself that
\* refuses it.
THEOREM DamageIsContained == IntegritySpec => []DamageContained
<1>1. OthersSound /\ KeysScoped(db) => DamageContained
  <2> SUFFICES ASSUME OthersSound, KeysScoped(db) PROVE DamageContained
    OBVIOUS
  <2>1. Filed(db) /\ \A t \in Scopes : t # damaged => Sound(db, t)
    BY DEF OthersSound
  <2>2. \A s \in Scopes : s # damaged =>
          /\ ~Refused(s)
          /\ \A c \in GovernanceCommand :
               c.scope = s /\ OnRecord(c) => GovernOutcome(db, c) # "RepositoryCorruption"
          /\ \A t \in DOMAIN db.tombstones : t[1] = s => TombstoneOk(db, t)
          /\ \A key \in DOMAIN db.raw_events : key[1] = s => ReceiptOk(db, key)
    BY <2>1, SoundAnswers
  <2>3. ASSUME NEW c \in GovernanceCommand, GovernOutcome(db, c) = "RepositoryCorruption",
               c.scope # damaged
        PROVE  /\ ~OnRecord(c)
               /\ \E t \in DOMAIN db.tombstones :
                    t[1] = damaged /\ t[3] = c.entity_id /\ ~TombstoneOk(db, t)
    <3>1. c.scope \in Scopes /\ c.entity_type \in EntityType
      BY DEF GovernanceCommand
    <3>2. ~OnRecord(c)
      BY <2>2, <2>3, <3>1
    <3>3. MissingEntity(db, c) = "RepositoryCorruption"
      BY <2>3, <3>1, <3>2
         DEF OnRecord, EntityType, GovernOutcome, GovernMemoryOutcome, DeleteRawEventOutcome
    <3>4. Corrupt(db, {t \in DOMAIN db.tombstones : t[3] = c.entity_id})
      BY <3>3 DEF MissingEntity
    <3>5. PICK t \in DOMAIN db.tombstones : t[3] = c.entity_id /\ ~TombstoneOk(db, t)
      BY <3>4 DEF Corrupt
    <3>6. t[1] \in Scopes
      BY DEF KeysScoped
    <3>7. t[1] = damaged
      BY <2>2, <3>5, <3>6
    <3>8. QED
      BY <3>2, <3>5, <3>7
  <2>4. ASSUME ExpireOutcome(db) = "RepositoryCorruption"
        PROVE  \E key \in DOMAIN db.raw_events : key[1] = damaged /\ ~ReceiptOk(db, key)
    <3>1. PICK key \in DOMAIN db.raw_events : ~ReceiptOk(db, key)
      BY <2>4 DEF ExpireOutcome
    <3>2. key[1] \in Scopes
      BY DEF KeysScoped
    <3>3. QED
      BY <2>2, <3>1, <3>2
  <2>5. QED
    BY <2>2, <2>3, <2>4 DEF DamageContained
<1>2. QED
  BY <1>1, OthersSoundInit, OthersSoundStep, KeysStayScoped, PTL DEF IntegritySpec

-----------------------------------------------------------------------------
(* What an operation does to the memories of any store, damaged or not.    *)

ReceiptRow == EventRow \cup {[row EXCEPT !.status = "other"] : row \in EventRow}

\* A store whose rows respect their columns, as those of a damaged one do.
Columns(d) ==
    /\ IsDb(d)
    /\ IsTable(d.raw_events, Key, ReceiptRow)
    /\ IsTable(d.memories, Key, MemoryRow)
    /\ IsTable(d.memory_sources, Scopes \X Ids \X Ids, Snapshot)

\* What a memory was materialized with; its status is what may change.
Terms == {"dependency_fingerprint", "kind", "trust", "created_at", "clear_until",
          "recall_until"}
SameTerms(row, was) == \A f \in Terms : row[f] = was[f]

SameEdges(d, e, m) ==
    /\ Lineage(e, m[1], m[2]) = Lineage(d, m[1], m[2])
    /\ \A x \in Lineage(d, m[1], m[2]) :
         e.memory_sources[<<m[1], m[2], x>>] = d.memory_sources[<<m[1], m[2], x>>]

\* A memory whose deadlines, trust and fingerprint follow from its sources.
WellMade(was, s) ==
    LET ids == DOMAIN was.sources
        row == was.row
    IN  /\ row \in MemoryRow
        /\ ids # {} /\ ids \subseteq Ids
        /\ \A x \in ids : was.sources[x] \in Snapshot /\ row.trust <= was.sources[x].trust
        /\ row.dependency_fingerprint = DependencyFingerprint(s, row.kind, ids)
        /\ row.clear_until =
             Deadline(row.created_at, {was.sources[x].clear_for : x \in ids})
        /\ row.recall_until =
             Deadline(row.created_at, {was.sources[x].recall_for : x \in ids})

\* No deleted event is on record.
DeletedGone(d) ==
    \A t \in DOMAIN d.tombstones :
        t[2] = "raw_event" => <<t[1], t[3]>> \notin DOMAIN d.raw_events

\* Memories stay as they are or leave a tombstone, edges without a memory stay,
\* and what is new takes no used identifier.
Carried(d, e) ==
    \A m \in DOMAIN d.memories :
        IF m \in DOMAIN e.memories
        THEN SameTerms(e.memories[m], d.memories[m]) /\ SameEdges(d, e, m)
        ELSE <<m[1], "memory", m[2]>> \in DOMAIN e.tombstones
StraysKept(d, e) ==
    \A m \in Key \ DOMAIN d.memories :
        Lineage(d, m[1], m[2]) \subseteq Lineage(e, m[1], m[2])
NewWellMade(d, e) ==
    \A m \in DOMAIN e.memories \ DOMAIN d.memories :
        /\ <<m[1], "memory", m[2]>> \notin DOMAIN d.tombstones
        /\ Lineage(d, m[1], m[2]) = {}
        /\ WellMade(Materialized(e, m), m[1])
Frame(d, e) ==
    /\ Columns(e)
    /\ Carried(d, e) /\ StraysKept(d, e) /\ NewWellMade(d, e)
    /\ DOMAIN d.tombstones \subseteq DOMAIN e.tombstones
    /\ DeletedGone(d) => DeletedGone(e)

\* An operation on events and bodies.
LEMMA MemoriesUntouched ==
    ASSUME NEW d, Columns(d), NEW e, Columns(e),
           e.memories = d.memories, e.memory_sources = d.memory_sources,
           e.tombstones = d.tombstones, DeletedGone(d) => DeletedGone(e)
    PROVE  Frame(d, e)
<1>1. \A s, i : Lineage(e, s, i) = Lineage(d, s, i)
  BY DEF Lineage
<1>2. Carried(d, e)
  BY <1>1 DEF Carried, SameTerms, SameEdges
<1>3. StraysKept(d, e) /\ NewWellMade(d, e)
  BY <1>1 DEF StraysKept, NewWellMade
<1>4. QED
  BY <1>2, <1>3 DEF Frame

LEMMA IngestFrame ==
    ASSUME NEW d, Columns(d), NEW draft \in EventDrafts, NEW now \in Clocks,
           IngestOutcome(d, draft) = "created", NEW e, e = IngestEffect(d, draft, now)
    PROVE  Frame(d, e)
<1>1. /\ IsDb(e)
      /\ e.raw_events = Insert(d.raw_events, Row(EventKey(draft), NewEventRow(draft, now)))
      /\ e.memories = d.memories /\ e.memory_sources = d.memory_sources
      /\ e.tombstones = d.tombstones
  BY IngestDb DEF Columns, IsDb, IngestEffect
<1>2. NewEventRow(draft, now) \in ReceiptRow /\ EventKey(draft) \in Key
  BY IngestCreated, NewEventRowType DEF ReceiptRow
<1>3. /\ IsTable(e.raw_events, Key, ReceiptRow)
      /\ DOMAIN e.raw_events = DOMAIN d.raw_events \cup {EventKey(draft)}
  <2>1. IsTable(d.raw_events, Key, ReceiptRow)
    BY DEF Columns
  <2>2. IsTable(Insert(d.raw_events, Row(EventKey(draft), NewEventRow(draft, now))),
                Key, ReceiptRow)
    BY <1>2, <2>1, InsertRow
  <2>3. DOMAIN Insert(d.raw_events, Row(EventKey(draft), NewEventRow(draft, now))) =
          DOMAIN d.raw_events \cup {EventKey(draft)}
    BY DEF Insert, Row
  <2>4. QED
    BY <1>1, <2>2, <2>3
<1>4. Columns(e)
  BY <1>1, <1>3 DEF Columns
<1>5. DeletedGone(d) => DeletedGone(e)
  <2>1. \A t \in DOMAIN d.tombstones :
          t[1] = draft.scope /\ t[3] = draft.event_id => t[2] # "raw_event"
    BY IngestCreated
  <2>2. QED
    BY <1>1, <1>3, <2>1 DEF DeletedGone, EventKey
<1>6. QED
  BY <1>1, <1>4, <1>5, MemoriesUntouched

LEMMA ExpireFrame ==
    ASSUME NEW d, Columns(d), ExpireOutcome(d) = "done", NEW as_of,
           NEW e, e = ExpireEffect(d, as_of)
    PROVE  Frame(d, e)
<1>1. Swept(e, d, as_of)
  BY ExpireDb DEF Columns
<1>2. \A k \in DOMAIN d.raw_events : d.raw_events[k] \in EventRow
  <2>1. \A k \in DOMAIN d.raw_events : ReceiptOk(d, k)
    BY DEF ExpireOutcome
  <2>2. QED
    BY <2>1 DEF Columns, IsTable, ReceiptOk, ReceiptRow, EventRow
<1>3. \A k \in DOMAIN d.raw_events : SweptEvents(d, as_of)[k] \in ReceiptRow
  BY <1>2 DEF SweptEvents, ReceiptRow, EventRow
<1>4. Columns(e)
  <2>1. IsTable(SweptEvents(d, as_of), Key, ReceiptRow)
    BY <1>3 DEF SweptEvents, Columns, IsTable
  <2>2. QED
    BY <1>1, <2>1 DEF Swept, Columns
<1>5. DeletedGone(d) => DeletedGone(e)
  BY <1>1 DEF DeletedGone, Swept, SweptEvents
<1>6. QED
  BY <1>1, <1>4, <1>5, MemoriesUntouched DEF Swept

LEMMA MaterializeFrame ==
    ASSUME NEW d, Columns(d), NEW draft \in MemoryDrafts,
           MaterializeOutcome(d, draft) = "created",
           NEW e, e = MaterializeEffect(d, draft)
    PROVE  Frame(d, e)
<1>1. PICK s, i : s = draft.scope /\ i = draft.memory_id
  OBVIOUS
<1>2. MemoryAdded(d, e, draft, s, i)
  BY <1>1, MaterializeShape DEF Columns
<1>3. /\ <<s, "memory", i>> \notin DOMAIN d.tombstones
      /\ \A x \in SourceIds(draft) : <<s, x>> \in DOMAIN d.raw_events
      /\ \A x \in SourceIds(draft) : ReceiptOk(d, <<s, x>>)
      /\ Lineage(d, s, i) = {}
  BY <1>1, MaterializeCreated
<1>4. \A x \in SourceIds(draft) : d.raw_events[<<s, x>>] \in EventRow
  BY <1>3 DEF Columns, IsTable, ReceiptOk, ReceiptRow, EventRow
<1>5. /\ NewMemoryRow(d, draft) \in MemoryRow
      /\ IsTable(NewLineage(d, draft), Scopes \X Ids \X Ids, Snapshot)
      /\ MemoryKey(draft) \in Key
  BY <1>1, <1>4, NewMemoryType
<1>6. Columns(e)
  <2>1. /\ IsDb(e) /\ e.raw_events = d.raw_events
        /\ e.memories = Insert(d.memories, Row(MemoryKey(draft), NewMemoryRow(d, draft)))
        /\ e.memory_sources = Insert(d.memory_sources, NewLineage(d, draft))
    BY DEF Columns, IsDb, MaterializeEffect
  <2>2. IsTable(Insert(d.memories, Row(MemoryKey(draft), NewMemoryRow(d, draft))),
                Key, MemoryRow)
    BY <1>5, InsertRow DEF Columns
  <2>3. IsTable(Insert(d.memory_sources, NewLineage(d, draft)),
                Scopes \X Ids \X Ids, Snapshot)
    BY <1>5, InsertTable DEF Columns
  <2>4. QED
    BY <2>1, <2>2, <2>3 DEF Columns
<1>7. \A m : <<m[1], m[2]>> # <<s, i>> => SameEdges(d, e, m)
  <2>1. ASSUME NEW m, <<m[1], m[2]>> # <<s, i>>
        PROVE  SameEdges(d, e, m)
    <3>1. \A x : <<m[1], m[2], x>> \notin {<<s, i, y>> : y \in SourceIds(draft)}
      BY <2>1
    <3>2. QED
      BY <1>2, <3>1 DEF MemoryAdded, SameEdges, Lineage
  <2>2. QED
    BY <2>1
<1>8. Carried(d, e)
  <2>1. ASSUME NEW m \in DOMAIN d.memories
        PROVE  <<m[1], m[2]>> # <<s, i>>
    <3>1. m = <<m[1], m[2]>>
      BY DEF Columns, IsTable, Key
    <3>2. QED
      BY <1>2, <3>1 DEF MemoryAdded
  <2>2. QED
    BY <1>2, <1>7, <2>1 DEF Carried, MemoryAdded, SameTerms
<1>9. StraysKept(d, e)
  BY <1>3, <1>7 DEF StraysKept, SameEdges
<1>10. WellMade(Materialized(e, <<s, i>>), s)
  <2>1. MemoryRecordOk(e, s, i)
    BY <1>1, <1>4, NewMemoryOk DEF Columns
  <2>2. e.memories[<<s, i>>] \in MemoryRow
    BY <1>2, <1>5 DEF MemoryAdded
  <2>3. \A x \in Lineage(e, s, i) : e.memory_sources[<<s, i, x>>] \in Snapshot
    BY <1>6 DEF Columns, IsTable, Lineage
  <2>4. Lineage(e, s, i) \subseteq Ids
    BY DEF Lineage
  <2>5. PICK was : was = Materialized(e, <<s, i>>)
    OBVIOUS
  <2>6. /\ was.row = e.memories[<<s, i>>]
        /\ DOMAIN was.sources = Lineage(e, s, i)
        /\ \A x \in Lineage(e, s, i) : was.sources[x] = e.memory_sources[<<s, i, x>>]
    BY <2>5 DEF Materialized
  <2>7. /\ {was.sources[x].clear_for : x \in DOMAIN was.sources} =
            {e.memory_sources[<<s, i, x>>].clear_for : x \in Lineage(e, s, i)}
        /\ {was.sources[x].recall_for : x \in DOMAIN was.sources} =
            {e.memory_sources[<<s, i, x>>].recall_for : x \in Lineage(e, s, i)}
    <3> DEFINE mine(x) == was.sources[x]
               theirs(x) == e.memory_sources[<<s, i, x>>]
    <3>1. PICK ids : ids = DOMAIN was.sources /\ ids = Lineage(e, s, i)
      BY <2>6
    <3>2. \A x \in ids : mine(x) = theirs(x)
      BY <2>6, <3>1
    <3> HIDE DEF mine, theirs
    <3>3. /\ {mine(x).clear_for : x \in ids} = {theirs(x).clear_for : x \in ids}
          /\ {mine(x).recall_for : x \in ids} = {theirs(x).recall_for : x \in ids}
      BY <3>2
    <3>4. QED
      BY <3>1, <3>3 DEF mine, theirs
  <2>8. WellMade(was, s)
    BY <2>1, <2>2, <2>3, <2>4, <2>6, <2>7 DEF WellMade, MemoryRecordOk
  <2>9. QED
    BY <2>5, <2>8
<1>11. NewWellMade(d, e)
  <2>1. \A m \in DOMAIN e.memories \ DOMAIN d.memories : m = <<s, i>>
    BY <1>2 DEF MemoryAdded
  <2>2. QED
    BY <1>3, <1>10, <2>1 DEF NewWellMade
<1>12. QED
  BY <1>2, <1>6, <1>8, <1>9, <1>11 DEF Frame, MemoryAdded, DeletedGone

\* A change of status.
LEMMA StatusFrame ==
    ASSUME NEW d, Columns(d), NEW key \in DOMAIN d.memories, NEW status \in MemoryStatus,
           NEW e, IsDb(e), e.raw_events = d.raw_events,
           e.memories = [d.memories EXCEPT ![key].status = status],
           e.memory_sources = d.memory_sources, e.tombstones = d.tombstones
    PROVE  Frame(d, e)
<1>1. \A s, i : Lineage(e, s, i) = Lineage(d, s, i)
  BY DEF Lineage
<1>2. /\ DOMAIN e.memories = DOMAIN d.memories
      /\ \A m \in DOMAIN d.memories : d.memories[m] \in MemoryRow
      /\ \A m \in DOMAIN d.memories : m # key => e.memories[m] = d.memories[m]
      /\ e.memories[key] = [d.memories[key] EXCEPT !.status = status]
  BY DEF Columns, IsTable
<1>3. \A row \in MemoryRow : /\ [row EXCEPT !.status = status] \in MemoryRow
                              /\ SameTerms([row EXCEPT !.status = status], row)
  BY DEF MemoryRow, SameTerms, Terms
<1>4. \A m \in DOMAIN d.memories :
        e.memories[m] \in MemoryRow /\ SameTerms(e.memories[m], d.memories[m])
  BY <1>2, <1>3 DEF SameTerms
<1>5. Columns(e)
  BY <1>2, <1>4 DEF Columns, IsTable
<1>6. Carried(d, e)
  BY <1>1, <1>2, <1>4 DEF Carried, SameEdges
<1>7. StraysKept(d, e) /\ NewWellMade(d, e)
  BY <1>1, <1>2 DEF StraysKept, NewWellMade
<1>8. QED
  BY <1>5, <1>6, <1>7 DEF Frame, DeletedGone

\* Forget, delete and the cascade: what goes leaves a tombstone.
ErasedRows(d, e, c, events, edges, gone) ==
    /\ events = IF c.entity_type = "raw_event" THEN {<<c.scope, c.entity_id>>} ELSE {}
    /\ edges = {k \in DOMAIN d.memory_sources :
                  k[1] = c.scope /\ k[2] \in ErasedMemories(d, c)}
    /\ gone = {<<c.scope, m>> : m \in ErasedMemories(d, c)}
    /\ gone \subseteq DOMAIN d.memories
    /\ IsDb(e)
    /\ e.raw_events = Delete(d.raw_events, events)
    /\ e.memories = Delete(d.memories, gone)
    /\ e.memory_sources = Delete(d.memory_sources, edges)
    /\ e.tombstones = Insert(d.tombstones, NewTombstones(d, c))

LEMMA EraseFrame ==
    ASSUME NEW d, Columns(d), NEW c \in GovernanceCommand,
           NEW events, NEW edges, NEW gone, NEW e, ErasedRows(d, e, c, events, edges, gone)
    PROVE  Frame(d, e)
<1>1. Columns(e)
  <2>1. IsTable(Delete(d.raw_events, events), Key, ReceiptRow)
    BY DeleteTable DEF Columns
  <2>2. IsTable(Delete(d.memories, gone), Key, MemoryRow)
    BY DeleteTable DEF Columns
  <2>3. IsTable(Delete(d.memory_sources, edges), Scopes \X Ids \X Ids, Snapshot)
    BY DeleteTable DEF Columns
  <2>4. QED
    BY <2>1, <2>2, <2>3 DEF Columns, ErasedRows
<1>2. /\ DOMAIN e.raw_events = DOMAIN d.raw_events \ events
      /\ DOMAIN e.memories = DOMAIN d.memories \ gone
      /\ \A m \in DOMAIN e.memories : e.memories[m] = d.memories[m]
      /\ DOMAIN e.memory_sources = DOMAIN d.memory_sources \ edges
      /\ \A k \in DOMAIN e.memory_sources : e.memory_sources[k] = d.memory_sources[k]
  BY DEF Delete, Restrict, ErasedRows
<1>3. /\ DOMAIN e.tombstones = DOMAIN d.tombstones \cup DOMAIN NewTombstones(d, c)
      /\ DOMAIN NewTombstones(d, c) =
           {<<c.scope, "memory", m>> : m \in ErasedMemories(d, c)}
             \cup (IF c.entity_type = "raw_event"
                   THEN {<<c.scope, "raw_event", c.entity_id>>} ELSE {})
  BY DEF Insert, NewTombstones, ErasedRows
<1>4. \A k \in edges : <<k[1], k[2]>> \in gone
  BY DEF ErasedRows
<1>5. \A m : <<m[1], m[2]>> \notin gone => SameEdges(d, e, m)
  <2>1. ASSUME NEW m, <<m[1], m[2]>> \notin gone
        PROVE  SameEdges(d, e, m)
    <3>1. \A x : <<m[1], m[2], x>> \notin edges
      BY <1>4, <2>1
    <3>2. QED
      BY <1>2, <3>1 DEF SameEdges, Lineage
  <2>2. QED
    BY <2>1
<1>6. gone \subseteq DOMAIN d.memories
  BY DEF ErasedRows
<1>7. \A m \in DOMAIN d.memories : m = <<m[1], m[2]>>
  BY DEF Columns, IsTable, Key
<1>8. Carried(d, e)
  <2>1. ASSUME NEW m \in DOMAIN d.memories, m \in DOMAIN e.memories
        PROVE  SameTerms(e.memories[m], d.memories[m]) /\ SameEdges(d, e, m)
    BY <1>2, <1>5, <1>7, <2>1 DEF SameTerms
  <2>2. ASSUME NEW m \in DOMAIN d.memories, m \notin DOMAIN e.memories
        PROVE  <<m[1], "memory", m[2]>> \in DOMAIN e.tombstones
    <3>1. m \in gone
      BY <1>2, <2>2
    <3>2. PICK i \in ErasedMemories(d, c) : m = <<c.scope, i>>
      BY <3>1 DEF ErasedRows
    <3>3. <<m[1], "memory", m[2]>> = <<c.scope, "memory", i>>
      BY <3>2
    <3>4. QED
      BY <1>3, <3>3
  <2>3. QED
    BY <2>1, <2>2 DEF Carried
<1>9. StraysKept(d, e)
  <2>1. ASSUME NEW m \in Key \ DOMAIN d.memories
        PROVE  <<m[1], m[2]>> \notin gone
    BY <1>6 DEF Key
  <2>2. QED
    BY <1>5, <2>1 DEF StraysKept, SameEdges
<1>10. NewWellMade(d, e)
  BY <1>2 DEF NewWellMade
<1>11. DeletedGone(d) => DeletedGone(e)
  <2>1. ASSUME DeletedGone(d), NEW t \in DOMAIN e.tombstones, t[2] = "raw_event"
        PROVE  <<t[1], t[3]>> \notin DOMAIN e.raw_events
    <3>1. CASE t \in DOMAIN d.tombstones
      BY <1>2, <2>1, <3>1 DEF DeletedGone
    <3>2. CASE t \in DOMAIN NewTombstones(d, c)
      <4>1. c.entity_type = "raw_event" /\ t = <<c.scope, "raw_event", c.entity_id>>
        BY <1>3, <2>1, <3>2
      <4>2. <<t[1], t[3]>> \in events
        BY <4>1 DEF ErasedRows
      <4>3. QED
        BY <1>2, <4>2
    <3>3. QED
      BY <1>3, <3>1, <3>2
  <2>2. QED
    BY <2>1 DEF DeletedGone
<1>12. DOMAIN d.tombstones \subseteq DOMAIN e.tombstones
  BY <1>3
<1>13. QED
  BY <1>1, <1>8, <1>9, <1>10, <1>11, <1>12 DEF Frame

\* The audit record is no part of it.
LEMMA LoggedFrame ==
    ASSUME NEW d, NEW g, Frame(d, g), NEW record, NEW e, e = Logged(g, record)
    PROVE  Frame(d, e)
<1>1. IsDb(g)
  BY DEF Frame, Columns
<1>2. /\ IsDb(e)
      /\ e.raw_events = g.raw_events /\ e.raw_event_content = g.raw_event_content
      /\ e.memories = g.memories /\ e.memory_sources = g.memory_sources
      /\ e.tombstones = g.tombstones
      /\ e.audit_log = LogAudit(g.audit_log, {record})
  BY <1>1, LoggedDb
<1>3. \A s, i : Lineage(e, s, i) = Lineage(g, s, i)
  BY <1>2 DEF Lineage
<1>4. \A m : Materialized(e, m) = Materialized(g, m)
  BY <1>2, <1>3 DEF Materialized
<1>5. Columns(e) /\ (DeletedGone(g) => DeletedGone(e))
  BY <1>2 DEF Frame, Columns, DeletedGone
<1>6. Carried(d, e) /\ StraysKept(d, e)
  BY <1>2, <1>3 DEF Frame, Carried, SameEdges, StraysKept
<1>7. NewWellMade(d, e)
  BY <1>2, <1>4 DEF Frame, NewWellMade
<1>8. QED
  BY <1>2, <1>5, <1>6, <1>7 DEF Frame

LEMMA SetStatusFrame ==
    ASSUME NEW d, Columns(d), NEW c, <<c.scope, c.entity_id>> \in DOMAIN d.memories,
           NEW status \in MemoryStatus, NEW g, g = SetStatus(d, c, status)
    PROVE  Frame(d, g)
<1>0. IsDb(d)
  BY DEF Columns
<1>1. IsDb(g)
  BY <1>0, StatusDb
<1>2. /\ g.raw_events = d.raw_events
      /\ g.memories = [d.memories EXCEPT ![<<c.scope, c.entity_id>>].status = status]
      /\ g.memory_sources = d.memory_sources
      /\ g.tombstones = d.tombstones
  BY <1>0 DEF IsDb, SetStatus
<1>3. QED
  BY <1>1, <1>2, StatusFrame

LEMMA ErasureFrame ==
    ASSUME NEW d, Columns(d), NEW c \in GovernanceCommand,
           \A m \in ErasedMemories(d, c) : <<c.scope, m>> \in DOMAIN d.memories,
           NEW g, g = Erase(d, c)
    PROVE  Frame(d, g)
<1>0. IsDb(d)
  BY DEF Columns
<1>1. IsDb(g)
  BY <1>0, EraseDb
<1>2. PICK events, edges, gone :
        /\ events = (IF c.entity_type = "raw_event"
                     THEN {<<c.scope, c.entity_id>>} ELSE {})
        /\ edges = {k \in DOMAIN d.memory_sources :
                      k[1] = c.scope /\ k[2] \in ErasedMemories(d, c)}
        /\ gone = {<<c.scope, m>> : m \in ErasedMemories(d, c)}
  OBVIOUS
<1>3. ErasedRows(d, g, c, events, edges, gone)
  <2>1. /\ g.raw_events = Delete(d.raw_events, events)
        /\ g.memories = Delete(d.memories, gone)
        /\ g.memory_sources = Delete(d.memory_sources, edges)
        /\ g.tombstones = Insert(d.tombstones, NewTombstones(d, c))
    BY <1>0, <1>2 DEF IsDb, Erase
  <2>2. gone \subseteq DOMAIN d.memories
    BY <1>2
  <2>3. QED
    BY <1>1, <1>2, <2>1, <2>2 DEF ErasedRows
<1>4. QED
  BY <1>3, EraseFrame

LEMMA GovernFrame ==
    ASSUME NEW d, Columns(d), NEW c \in GovernanceCommand, GovernOutcome(d, c) = "done",
           NEW e, e = GovernEffect(d, c)
    PROVE  Frame(d, e)
<1>1. /\ c.entity_type = "memory" => <<c.scope, c.entity_id>> \in DOMAIN d.memories
      /\ c.entity_type # "memory" => c.action = "delete"
  BY GovernDone DEF EntityType
<1>2. PICK g : /\ Frame(d, g)
               /\ e = Logged(g, GovernanceAudit(c))
  <2>1. CASE c.action = "seal"
    <3>1. PICK g : g = SetStatus(d, c, "sealed")
      OBVIOUS
    <3>2. Frame(d, g)
      BY <1>1, <2>1, <3>1, SetStatusFrame DEF MemoryStatus
    <3>3. e = Logged(g, GovernanceAudit(c))
      BY <2>1, <3>1 DEF GovernEffect, Logged
    <3>4. QED
      BY <3>2, <3>3
  <2>2. CASE c.action = "restore"
    <3>1. PICK g : g = SetStatus(d, c, "active")
      OBVIOUS
    <3>2. Frame(d, g)
      BY <1>1, <2>2, <3>1, SetStatusFrame DEF MemoryStatus
    <3>3. e = Logged(g, GovernanceAudit(c))
      BY <2>2, <3>1 DEF GovernEffect, Logged
    <3>4. QED
      BY <3>2, <3>3
  <2>3. CASE c.action # "seal" /\ c.action # "restore"
    <3>1. PICK g : g = Erase(d, c)
      OBVIOUS
    <3>2. Frame(d, g)
      BY <3>1, ErasedFound, ErasureFrame
    <3>3. e = Logged(g, GovernanceAudit(c))
      BY <2>3, <3>1 DEF GovernEffect, Logged
    <3>4. QED
      BY <3>2, <3>3
  <2>4. QED
    BY <2>1, <2>2, <2>3
<1>3. QED
  BY <1>2, LoggedFrame

\* Nothing at all happens.
LEMMA StutterFrame ==
    ASSUME NEW d, Columns(d)
    PROVE  Frame(d, d)
BY MemoriesUntouched

LEMMA OperationFrame ==
    ASSUME Columns(db), Next
    PROVE  Frame(db, db')
<1>1. CASE db' = db
  BY <1>1, StutterFrame
<1>2. ASSUME NEW draft \in EventDrafts, NEW now \in Clocks, IngestEvent(draft, now),
             db' # db
      PROVE  Frame(db, db')
  <2>1. IngestOutcome(db, draft) = "created" /\ db' = IngestEffect(db, draft, now)
    BY <1>2 DEF IngestEvent
  <2>2. QED
    BY <2>1, IngestFrame
<1>3. ASSUME NEW draft \in MemoryDrafts, MaterializeOnce(draft), db' # db
      PROVE  Frame(db, db')
  <2>1. MaterializeOutcome(db, draft) = "created" /\ db' = MaterializeEffect(db, draft)
    BY <1>3 DEF MaterializeOnce
  <2>2. QED
    BY <2>1, MaterializeFrame
<1>4. ASSUME NEW c \in GovernanceCommand, Govern(c), db' # db
      PROVE  Frame(db, db')
  <2>1. GovernOutcome(db, c) = "done" /\ db' = GovernEffect(db, c)
    BY <1>4 DEF Govern
  <2>2. QED
    BY <2>1, GovernFrame
<1>5. ASSUME NEW as_of \in Sweeps, ExpireRawContent(as_of), db' # db
      PROVE  Frame(db, db')
  <2>1. ExpireOutcome(db) = "done" /\ db' = ExpireEffect(db, as_of)
    BY <1>5 DEF ExpireRawContent
  <2>2. QED
    BY <2>1, ExpireFrame
<1>6. QED
  BY <1>1, <1>2, <1>3, <1>4, <1>5 DEF Next

-----------------------------------------------------------------------------
(* What damage does to the memories of a consistent store.                 *)

OneAltered(row, was) == \E f \in Terms : \A g \in Terms \ {f} : row[g] = was[g]

\* One memory's row or one edge has changed, or a row is gone.
Altered(d, e) ==
    /\ Columns(e)
    /\ DOMAIN e.tombstones = DOMAIN d.tombstones
    /\ DOMAIN e.raw_events \subseteq DOMAIN d.raw_events
    /\ DOMAIN e.memories \subseteq DOMAIN d.memories
    /\ \A m \in DOMAIN d.memories \ DOMAIN e.memories :
         Lineage(e, m[1], m[2]) = Lineage(d, m[1], m[2])
    /\ \/ \A m \in DOMAIN e.memories :
            /\ SameTerms(e.memories[m], d.memories[m])
            /\ Lineage(e, m[1], m[2]) \subseteq Lineage(d, m[1], m[2])
       \/ \A m \in DOMAIN e.memories :
            OneAltered(e.memories[m], d.memories[m]) /\ SameEdges(d, e, m)

LEMMA AlteredRows ==
    /\ \A row \in EventRow : AlteredReceipts(row) \subseteq ReceiptRow
    /\ \A row \in MemoryRow : \A new \in AlteredMemories(row) :
         new \in MemoryRow /\ OneAltered(new, row)
    /\ \A row \in Snapshot : AlteredSnapshots(row) \subseteq Snapshot
<1>1. ASSUME NEW row \in EventRow, NEW new \in AlteredReceipts(row)
      PROVE  new \in ReceiptRow
  <2>1. ASSUME NEW x \in {"active", "expired", "other"}, new = [row EXCEPT !.status = x]
        PROVE  new \in ReceiptRow
    <3>1. CASE x = "other"
      BY <2>1, <3>1 DEF ReceiptRow
    <3>2. CASE x \in {"active", "expired"}
      BY <2>1, <3>2 DEF ReceiptRow, EventRow
    <3>3. QED
      BY <3>1, <3>2
  <2>2. ASSUME NEW x \in TrustLevel, new = [row EXCEPT !.trust = x]
        PROVE  new \in ReceiptRow
    BY <2>2 DEF ReceiptRow, EventRow
  <2>3. ASSUME NEW x \in 1..MaxInteger, new = [row EXCEPT !.clear_for = x]
        PROVE  new \in ReceiptRow
    BY <2>3 DEF ReceiptRow, EventRow
  <2>4. ASSUME NEW x \in 1..MaxInteger, new = [row EXCEPT !.recall_for = x]
        PROVE  new \in ReceiptRow
    BY <2>4 DEF ReceiptRow, EventRow
  <2>5. QED
    BY <2>1, <2>2, <2>3, <2>4 DEF AlteredReceipts
<1>2. ASSUME NEW row \in MemoryRow, NEW new \in AlteredMemories(row)
      PROVE  new \in MemoryRow /\ OneAltered(new, row)
  <2>1. ASSUME NEW x \in MemoryStatus, new = [row EXCEPT !.status = x]
        PROVE  new \in MemoryRow /\ OneAltered(new, row)
    BY <2>1 DEF MemoryRow, OneAltered, Terms
  <2>2. ASSUME NEW x \in TrustLevel, new = [row EXCEPT !.trust = x]
        PROVE  new \in MemoryRow /\ OneAltered(new, row)
    BY <2>2 DEF MemoryRow, OneAltered, Terms
  <2>3. ASSUME NEW x \in Kinds, new = [row EXCEPT !.kind = x]
        PROVE  new \in MemoryRow /\ OneAltered(new, row)
    BY <2>3 DEF MemoryRow, OneAltered, Terms
  <2>4. ASSUME NEW x \in SUBSET Ids, new = [row EXCEPT !.dependency_fingerprint.sources = x]
        PROVE  new \in MemoryRow /\ OneAltered(new, row)
    BY <2>4 DEF MemoryRow, Fingerprint, OneAltered, Terms
  <2>5. ASSUME NEW x \in 0..MaxTime, new = [row EXCEPT !.created_at = x]
        PROVE  new \in MemoryRow /\ OneAltered(new, row)
    BY <2>5 DEF MemoryRow, OneAltered, Terms
  <2>6. ASSUME NEW x \in 0..MaxTime, new = [row EXCEPT !.clear_until = x]
        PROVE  new \in MemoryRow /\ OneAltered(new, row)
    BY <2>6 DEF MemoryRow, OneAltered, Terms
  <2>7. ASSUME NEW x \in 0..MaxTime, new = [row EXCEPT !.recall_until = x]
        PROVE  new \in MemoryRow /\ OneAltered(new, row)
    BY <2>7 DEF MemoryRow, OneAltered, Terms
  <2>8. QED
    BY <2>1, <2>2, <2>3, <2>4, <2>5, <2>6, <2>7 DEF AlteredMemories
<1>3. ASSUME NEW row \in Snapshot, NEW new \in AlteredSnapshots(row)
      PROVE  new \in Snapshot
  BY BoundAssumption DEF AlteredSnapshots, Snapshot, TrustLevel
<1>4. QED
  BY <1>1, <1>2, <1>3

\* Damage to an event, a body, a tombstone or the log.
LEMMA EventsAltered ==
    ASSUME NEW d, Columns(d), NEW e, Columns(e),
           DOMAIN e.tombstones = DOMAIN d.tombstones,
           DOMAIN e.raw_events \subseteq DOMAIN d.raw_events,
           e.memories = d.memories, e.memory_sources = d.memory_sources
    PROVE  Altered(d, e)
<1>1. \A s, i : Lineage(e, s, i) = Lineage(d, s, i)
  BY DEF Lineage
<1>2. QED
  BY <1>1 DEF Altered, SameTerms

LEMMA ReceiptAltered ==
    ASSUME Columns(db), DbType(db), NEW key \in DOMAIN db.raw_events,
           NEW row \in AlteredReceipts(db.raw_events[key]), Alter("raw_events", key, row)
    PROVE  Altered(db, db')
<1>1. db' = [db EXCEPT !["raw_events"] = [db.raw_events EXCEPT ![key] = row]]
  BY DEF Alter
<1>2. /\ IsDb(db') /\ db'.raw_events = [db.raw_events EXCEPT ![key] = row]
      /\ db'.memories = db.memories /\ db'.memory_sources = db.memory_sources
      /\ db'.tombstones = db.tombstones
  BY <1>1 DEF Columns, IsDb
<1>3. row \in ReceiptRow
  BY AlteredRows DEF DbType, IsTable
<1>4. Columns(db')
  BY <1>2, <1>3 DEF Columns, IsTable
<1>5. QED
  BY <1>2, <1>4, EventsAltered

LEMMA MemoryAltered ==
    ASSUME Columns(db), NEW key \in DOMAIN db.memories,
           NEW row \in AlteredMemories(db.memories[key]), Alter("memories", key, row)
    PROVE  Altered(db, db')
<1>1. db' = [db EXCEPT !["memories"] = [db.memories EXCEPT ![key] = row]]
  BY DEF Alter
<1>2. /\ IsDb(db') /\ db'.memories = [db.memories EXCEPT ![key] = row]
      /\ db'.raw_events = db.raw_events /\ db'.memory_sources = db.memory_sources
      /\ db'.tombstones = db.tombstones
  BY <1>1 DEF Columns, IsDb
<1>3. row \in MemoryRow /\ OneAltered(row, db.memories[key])
  BY AlteredRows DEF Columns, IsTable
<1>4. /\ DOMAIN db'.memories = DOMAIN db.memories
      /\ db'.memories[key] = row
      /\ \A m \in DOMAIN db.memories : m # key => db'.memories[m] = db.memories[m]
  BY <1>2
<1>5. Columns(db')
  BY <1>2, <1>3, <1>4 DEF Columns, IsTable
<1>6. \A s, i : Lineage(db', s, i) = Lineage(db, s, i)
  BY <1>2 DEF Lineage
<1>7. \A m \in DOMAIN db'.memories :
        OneAltered(db'.memories[m], db.memories[m]) /\ SameEdges(db, db', m)
  BY <1>2, <1>3, <1>4, <1>6 DEF OneAltered, Terms, SameEdges
<1>8. QED
  BY <1>2, <1>4, <1>5, <1>7 DEF Altered

LEMMA EdgeAltered ==
    ASSUME Columns(db), NEW key \in DOMAIN db.memory_sources,
           NEW row \in AlteredSnapshots(db.memory_sources[key]),
           Alter("memory_sources", key, row)
    PROVE  Altered(db, db')
<1>1. db' = [db EXCEPT !["memory_sources"] = [db.memory_sources EXCEPT ![key] = row]]
  BY DEF Alter
<1>2. /\ IsDb(db') /\ db'.memory_sources = [db.memory_sources EXCEPT ![key] = row]
      /\ db'.raw_events = db.raw_events /\ db'.memories = db.memories
      /\ db'.tombstones = db.tombstones
  BY <1>1 DEF Columns, IsDb
<1>3. row \in Snapshot
  BY AlteredRows DEF Columns, IsTable
<1>4. Columns(db')
  BY <1>2, <1>3 DEF Columns, IsTable
<1>5. \A s, i : Lineage(db', s, i) = Lineage(db, s, i)
  BY <1>2 DEF Lineage
<1>6. QED
  BY <1>2, <1>4, <1>5 DEF Altered, SameTerms

LEMMA TombstoneAltered ==
    ASSUME Columns(db), NEW key \in DOMAIN db.tombstones, NEW row,
           Alter("tombstones", key, row)
    PROVE  Altered(db, db')
<1>1. db' = [db EXCEPT !["tombstones"] = [db.tombstones EXCEPT ![key] = row]]
  BY DEF Alter
<1>2. /\ IsDb(db') /\ db'.tombstones = [db.tombstones EXCEPT ![key] = row]
      /\ db'.raw_events = db.raw_events /\ db'.memories = db.memories
      /\ db'.memory_sources = db.memory_sources
  BY <1>1 DEF Columns, IsDb
<1>3. Columns(db')
  BY <1>2 DEF Columns
<1>4. QED
  BY <1>2, <1>3, EventsAltered

LEMMA RowLost ==
    ASSUME Columns(db), NEW key,
           NEW name \in {"raw_events", "raw_event_content", "memories", "memory_sources"},
           Lose(name, key)
    PROVE  Altered(db, db')
<1>1. db' = [db EXCEPT ![name] = Delete(db[name], {key})]
  BY DEF Lose
<1>2. /\ IsDb(db') /\ db'.tombstones = db.tombstones
      /\ db'.raw_events = IF name = "raw_events" THEN Delete(db.raw_events, {key})
                                                ELSE db.raw_events
      /\ db'.memories = IF name = "memories" THEN Delete(db.memories, {key})
                                            ELSE db.memories
      /\ db'.memory_sources =
           IF name = "memory_sources" THEN Delete(db.memory_sources, {key})
                                      ELSE db.memory_sources
  BY <1>1 DEF Columns, IsDb
<1>3. \A table : /\ DOMAIN Delete(table, {key}) \subseteq DOMAIN table
                 /\ \A k \in DOMAIN Delete(table, {key}) : Delete(table, {key})[k] = table[k]
  BY DEF Delete, Restrict
<1>4. Columns(db')
  <2>1. IsTable(Delete(db.raw_events, {key}), Key, ReceiptRow)
    BY DeleteTable DEF Columns
  <2>2. IsTable(Delete(db.memories, {key}), Key, MemoryRow)
    BY DeleteTable DEF Columns
  <2>3. IsTable(Delete(db.memory_sources, {key}), Scopes \X Ids \X Ids, Snapshot)
    BY DeleteTable DEF Columns
  <2>4. QED
    BY <1>2, <2>1, <2>2, <2>3 DEF Columns
<1>5. \A s, i : Lineage(db', s, i) \subseteq Lineage(db, s, i)
  BY <1>2, <1>3 DEF Lineage
<1>6. \A m \in DOMAIN db'.memories :
        m \in DOMAIN db.memories /\ db'.memories[m] = db.memories[m]
  BY <1>2, <1>3
<1>7. ASSUME NEW m \in DOMAIN db.memories \ DOMAIN db'.memories
      PROVE  Lineage(db', m[1], m[2]) = Lineage(db, m[1], m[2])
  <2>1. db'.memory_sources = db.memory_sources
    BY <1>2, <1>7
  <2>2. QED
    BY <2>1 DEF Lineage
<1>8. DOMAIN db'.raw_events \subseteq DOMAIN db.raw_events
  BY <1>2, <1>3
<1>9. QED
  BY <1>2, <1>4, <1>5, <1>6, <1>7, <1>8 DEF Altered, SameTerms

LEMMA DamageAlters ==
    ASSUME Columns(db), DbType(db), Damage
    PROVE  Altered(db, db') /\ damaged' \in Scopes
<1>1. ASSUME NEW key \in DOMAIN db.raw_events,
             NEW row \in AlteredReceipts(db.raw_events[key]), Alter("raw_events", key, row)
      PROVE  Altered(db, db') /\ damaged' \in Scopes
  BY <1>1, ReceiptAltered DEF Alter, DbType, IsTable, Key
<1>2. ASSUME NEW key \in DOMAIN db.memories,
             NEW row \in AlteredMemories(db.memories[key]), Alter("memories", key, row)
      PROVE  Altered(db, db') /\ damaged' \in Scopes
  BY <1>2, MemoryAltered DEF Alter, DbType, IsTable, Key
<1>3. ASSUME NEW key \in DOMAIN db.memory_sources,
             NEW row \in AlteredSnapshots(db.memory_sources[key]),
             Alter("memory_sources", key, row)
      PROVE  Altered(db, db') /\ damaged' \in Scopes
  BY <1>3, EdgeAltered DEF Alter, DbType, IsTable
<1>4. ASSUME NEW key \in DOMAIN db.tombstones,
             Alter("tombstones", key, AlteredFingerprint(key))
      PROVE  Altered(db, db') /\ damaged' \in Scopes
  BY <1>4, TombstoneAltered DEF Alter, DbType, IsTable
<1>5. ASSUME NEW table \in {"raw_events", "raw_event_content", "memories", "memory_sources"},
             NEW key \in DOMAIN db[table], Lose(table, key)
      PROVE  Altered(db, db') /\ damaged' \in Scopes
  <2>1. key[1] \in Scopes
    BY DEF DbType, IsTable, Key
  <2>2. QED
    BY <1>5, <2>1, RowLost DEF Lose
<1>6. ASSUME NEW s \in Scopes, damaged' = s,
             db' = [db EXCEPT !.audit_log = LogAudit(@, {ForeignRecord(s)})]
      PROVE  Altered(db, db') /\ damaged' \in Scopes
  <2>1. /\ IsDb(db') /\ db'.tombstones = db.tombstones
        /\ db'.raw_events = db.raw_events /\ db'.memories = db.memories
        /\ db'.memory_sources = db.memory_sources
    BY <1>6 DEF Columns, IsDb
  <2>2. Columns(db')
    BY <2>1 DEF Columns
  <2>3. QED
    BY <1>6, <2>1, <2>2, EventsAltered
<1>7. QED
  BY <1>1, <1>2, <1>3, <1>4, <1>5, <1>6 DEF Damage

-----------------------------------------------------------------------------
(* The invariant: what ties a memory on record to what it was made from.   *)

\* The edges of a memory are the ones it was materialized with.
LineageKept(d, m, sources) ==
    /\ Lineage(d, m[1], m[2]) = DOMAIN sources
    /\ \A x \in DOMAIN sources : d.memory_sources[<<m[1], m[2], x>>] = sources[x]

Faithful(d, m, was) == SameTerms(d.memories[m], was.row) /\ LineageKept(d, m, was.sources)

\* Either the row is as it was, and edges may have changed or gone, or one term
\* of the row has changed and the edges are as they were.
Traced(d, m, was) ==
    \/ /\ SameTerms(d.memories[m], was.row)
       /\ Lineage(d, m[1], m[2]) \subseteq DOMAIN was.sources
    \/ OneAltered(d.memories[m], was.row) /\ LineageKept(d, m, was.sources)

AllTraced == \A m \in DOMAIN db.memories : m \in DOMAIN origin /\ Traced(db, m, origin[m])

OriginsWellMade == \A m \in DOMAIN origin : m \in Key /\ WellMade(origin[m], m[1])

\* An identifier that has had a memory is never free again.
NeverReused ==
    \A m \in DOMAIN origin :
        \/ m \in DOMAIN db.memories
        \/ <<m[1], "memory", m[2]>> \in DOMAIN db.tombstones
        \/ Lineage(db, m[1], m[2]) # {}

Undamaged ==
    damaged = NoScope =>
        /\ TypeOK /\ Consistent
        /\ \A m \in DOMAIN db.memories : Faithful(db, m, origin[m])

HistoryInv ==
    /\ Columns(db) /\ DeletedGone(db)
    /\ AllTraced /\ OriginsWellMade /\ NeverReused /\ Undamaged

LEMMA TypedColumns ==
    ASSUME NEW d, DbType(d)
    PROVE  Columns(d)
BY DEF DbType, Columns, IsTable, ReceiptRow

LEMMA HistoryInit == IntegrityInit => HistoryInv
<1> SUFFICES ASSUME IntegrityInit PROVE HistoryInv
  OBVIOUS
<1>1. TypeOK /\ Consistent
  BY InitOk DEF IntegrityInit
<1>2. Columns(db)
  BY <1>1, TypedColumns DEF TypeOK
<1>3. DOMAIN db.memories = {} /\ DOMAIN db.tombstones = {} /\ DOMAIN origin = {}
  BY DEF IntegrityInit, Init, EmptyDb, EmptyTable
<1>4. QED
  BY <1>1, <1>2, <1>3
     DEF HistoryInv, DeletedGone, AllTraced, OriginsWellMade, NeverReused, Undamaged

\* The history is extended by the new memories, which are as they were made.
LEMMA HistoryExtended ==
    ASSUME HistoryInv, Operation
    PROVE  /\ Frame(db, db')
           /\ \A m \in DOMAIN origin : m \in DOMAIN origin' /\ origin'[m] = origin[m]
           /\ \A m \in DOMAIN origin' : m \notin DOMAIN origin =>
                m \in DOMAIN db'.memories \ DOMAIN db.memories
           /\ \A m \in DOMAIN db'.memories \ DOMAIN db.memories :
                /\ m \in DOMAIN origin' /\ origin'[m] = Materialized(db', m)
                /\ Faithful(db', m, origin'[m])
                /\ m \in Key /\ WellMade(origin'[m], m[1])
<1>1. Frame(db, db')
  BY OperationFrame DEF HistoryInv, Operation
<1>2. /\ DOMAIN origin' = DOMAIN origin \cup (DOMAIN db'.memories \ DOMAIN db.memories)
      /\ \A m \in DOMAIN origin' :
           origin'[m] = IF m \in DOMAIN origin THEN origin[m] ELSE Materialized(db', m)
  BY DEF Operation
<1>3. ASSUME NEW m \in DOMAIN db'.memories \ DOMAIN db.memories
      PROVE  /\ m \in DOMAIN origin' /\ origin'[m] = Materialized(db', m)
             /\ Faithful(db', m, origin'[m])
             /\ m \in Key /\ WellMade(origin'[m], m[1])
  <2>1. /\ <<m[1], "memory", m[2]>> \notin DOMAIN db.tombstones
        /\ Lineage(db, m[1], m[2]) = {}
        /\ WellMade(Materialized(db', m), m[1])
    BY <1>1 DEF Frame, NewWellMade
  <2>2. m \notin DOMAIN origin
    BY <2>1 DEF HistoryInv, NeverReused
  <2>3. m \in DOMAIN origin' /\ origin'[m] = Materialized(db', m)
    BY <1>2, <2>2
  <2>4. Faithful(db', m, Materialized(db', m))
    BY DEF Faithful, SameTerms, LineageKept, Materialized
  <2>5. m \in Key
    BY <1>1 DEF Frame, Columns, IsTable
  <2>6. QED
    BY <2>1, <2>3, <2>4, <2>5
<1>4. QED
  BY <1>1, <1>2, <1>3

\* A memory that is carried over is tied to its origin as before.
LEMMA CarriedTraced ==
    ASSUME NEW d, NEW e, Carried(d, e),
           NEW m \in DOMAIN d.memories, m \in DOMAIN e.memories, NEW was
    PROVE  /\ Traced(d, m, was) => Traced(e, m, was)
           /\ Faithful(d, m, was) => Faithful(e, m, was)
<1>1. SameTerms(e.memories[m], d.memories[m]) /\ SameEdges(d, e, m)
  BY DEF Carried
<1>2. SameTerms(d.memories[m], was.row) => SameTerms(e.memories[m], was.row)
  BY <1>1 DEF SameTerms
<1>3. OneAltered(d.memories[m], was.row) => OneAltered(e.memories[m], was.row)
  BY <1>1 DEF SameTerms, OneAltered
<1>4. LineageKept(d, m, was.sources) => LineageKept(e, m, was.sources)
  BY <1>1 DEF SameEdges, LineageKept
<1>5. Lineage(e, m[1], m[2]) = Lineage(d, m[1], m[2])
  BY <1>1 DEF SameEdges
<1>6. QED
  BY <1>2, <1>3, <1>4, <1>5 DEF Traced, Faithful

LEMMA FaithfulTraced ==
    ASSUME NEW d, NEW m, NEW was, Faithful(d, m, was)
    PROVE  Traced(d, m, was)
BY DEF Faithful, Traced, LineageKept

LEMMA OperationHistory ==
    ASSUME HistoryInv, Operation
    PROVE  HistoryInv'
<1>0. /\ Columns(db) /\ DeletedGone(db)
      /\ AllTraced /\ OriginsWellMade /\ NeverReused /\ Undamaged
  BY DEF HistoryInv
<1>1. /\ Frame(db, db')
      /\ \A m \in DOMAIN origin : m \in DOMAIN origin' /\ origin'[m] = origin[m]
      /\ \A m \in DOMAIN origin' : m \notin DOMAIN origin =>
           m \in DOMAIN db'.memories \ DOMAIN db.memories
  BY HistoryExtended
<1>2. \A m \in DOMAIN db'.memories \ DOMAIN db.memories :
        /\ m \in DOMAIN origin'
        /\ Faithful(db', m, origin'[m])
        /\ m \in Key /\ WellMade(origin'[m], m[1])
  BY HistoryExtended
<1>3. Columns(db') /\ DeletedGone(db')
  BY <1>0, <1>1 DEF Frame
<1>4. ASSUME NEW m \in DOMAIN db'.memories
      PROVE  m \in DOMAIN origin' /\ Traced(db', m, origin'[m])
  <2>1. CASE m \in DOMAIN db.memories
    BY <1>0, <1>1, <2>1, CarriedTraced DEF AllTraced, Frame
  <2>2. CASE m \notin DOMAIN db.memories
    BY <1>2, <2>2, FaithfulTraced
  <2>3. QED
    BY <2>1, <2>2
<1>5. ASSUME NEW m \in DOMAIN origin'
      PROVE  m \in Key /\ WellMade(origin'[m], m[1])
  <2>1. CASE m \in DOMAIN origin
    BY <1>0, <1>1, <2>1 DEF OriginsWellMade
  <2>2. CASE m \notin DOMAIN origin
    BY <1>1, <1>2, <2>2
  <2>3. QED
    BY <2>1, <2>2
<1>6. ASSUME NEW m \in DOMAIN origin'
      PROVE  \/ m \in DOMAIN db'.memories
             \/ <<m[1], "memory", m[2]>> \in DOMAIN db'.tombstones
             \/ Lineage(db', m[1], m[2]) # {}
  <2>1. CASE m \in DOMAIN db.memories
    BY <1>1, <2>1 DEF Frame, Carried
  <2>2. CASE m \notin DOMAIN origin
    BY <1>1, <2>2
  <2>3. CASE m \in DOMAIN origin /\ m \notin DOMAIN db.memories
    <3>1. m \in Key
      BY <1>0, <2>3 DEF OriginsWellMade
    <3>2. Lineage(db, m[1], m[2]) \subseteq Lineage(db', m[1], m[2])
      BY <1>1, <2>3, <3>1 DEF Frame, StraysKept
    <3>3. \/ <<m[1], "memory", m[2]>> \in DOMAIN db.tombstones
          \/ Lineage(db, m[1], m[2]) # {}
      BY <1>0, <2>3 DEF NeverReused
    <3>4. QED
      BY <1>1, <3>2, <3>3 DEF Frame
  <2>4. QED
    BY <2>1, <2>2, <2>3
<1>7. ASSUME damaged' = NoScope
      PROVE  /\ TypeOK' /\ Consistent'
             /\ \A m \in DOMAIN db'.memories : Faithful(db', m, origin'[m])
  <2>1. damaged = NoScope /\ Next
    BY <1>7 DEF Operation
  <2>2. /\ TypeOK /\ Consistent
        /\ \A m \in DOMAIN db.memories : Faithful(db, m, origin[m])
    BY <1>0, <2>1 DEF Undamaged
  <2>3. TypeOK' /\ Consistent'
    BY <2>1, <2>2, InductiveStep
  <2>4. ASSUME NEW m \in DOMAIN db'.memories
        PROVE  Faithful(db', m, origin'[m])
    <3>1. CASE m \in DOMAIN db.memories
      BY <1>0, <1>1, <2>2, <3>1, CarriedTraced DEF AllTraced, Frame
    <3>2. CASE m \notin DOMAIN db.memories
      BY <1>2, <3>2
    <3>3. QED
      BY <3>1, <3>2
  <2>5. QED
    BY <2>3, <2>4
<1>8. AllTraced' /\ OriginsWellMade' /\ NeverReused' /\ Undamaged'
  BY <1>4, <1>5, <1>6, <1>7 DEF AllTraced, OriginsWellMade, NeverReused, Undamaged
<1>9. QED
  BY <1>3, <1>8 DEF HistoryInv

LEMMA DamageHistory ==
    ASSUME HistoryInv, Damage
    PROVE  HistoryInv'
<1>1. /\ Columns(db) /\ DeletedGone(db) /\ AllTraced /\ OriginsWellMade /\ NeverReused
      /\ TypeOK /\ Consistent
      /\ \A m \in DOMAIN db.memories : Faithful(db, m, origin[m])
      /\ origin' = origin
  BY DEF HistoryInv, Undamaged, Damage
<1>2. Altered(db, db') /\ damaged' \in Scopes
  BY <1>1, DamageAlters DEF TypeOK
<1>3. Columns(db') /\ DeletedGone(db')
  BY <1>1, <1>2 DEF Altered, DeletedGone
<1>4. ASSUME NEW m \in DOMAIN db'.memories
      PROVE  m \in DOMAIN origin /\ Traced(db', m, origin[m])
  <2>1. m \in DOMAIN db.memories /\ m \in DOMAIN origin
    BY <1>1, <1>2 DEF Altered, AllTraced
  <2>2. /\ SameTerms(db.memories[m], origin[m].row)
        /\ LineageKept(db, m, origin[m].sources)
    BY <1>1, <2>1 DEF Faithful
  <2>3. CASE /\ SameTerms(db'.memories[m], db.memories[m])
             /\ Lineage(db', m[1], m[2]) \subseteq Lineage(db, m[1], m[2])
    BY <2>1, <2>2, <2>3 DEF Traced, SameTerms, LineageKept
  <2>4. CASE OneAltered(db'.memories[m], db.memories[m]) /\ SameEdges(db, db', m)
    <3>1. OneAltered(db'.memories[m], origin[m].row)
      BY <2>2, <2>4 DEF OneAltered, SameTerms
    <3>2. LineageKept(db', m, origin[m].sources)
      BY <2>2, <2>4 DEF LineageKept, SameEdges
    <3>3. QED
      BY <2>1, <3>1, <3>2 DEF Traced
  <2>5. QED
    BY <1>2, <2>3, <2>4 DEF Altered
<1>5. ASSUME NEW m \in DOMAIN origin
      PROVE  \/ m \in DOMAIN db'.memories
             \/ <<m[1], "memory", m[2]>> \in DOMAIN db'.tombstones
             \/ Lineage(db', m[1], m[2]) # {}
  <2>1. CASE m \in DOMAIN db.memories /\ m \notin DOMAIN db'.memories
    <3>1. Lineage(db', m[1], m[2]) = Lineage(db, m[1], m[2])
      BY <1>2, <2>1 DEF Altered
    <3>2. Lineage(db, m[1], m[2]) # {}
      BY <1>1, <2>1 DEF Consistent, DbConsistent, LineageOk
    <3>3. QED
      BY <3>1, <3>2
  <2>2. CASE m \notin DOMAIN db.memories
    <3>1. Lineage(db, m[1], m[2]) = {}
      <4>1. m = <<m[1], m[2]>>
        BY <1>1 DEF OriginsWellMade, Key
      <4>2. \A k \in DOMAIN db.memory_sources : <<k[1], k[2]>> \in DOMAIN db.memories
        BY <1>1 DEF Consistent, DbConsistent
      <4>3. \A x : <<m[1], m[2], x>> \notin DOMAIN db.memory_sources
        BY <2>2, <4>1, <4>2
      <4>4. QED
        BY <4>3 DEF Lineage
    <3>2. <<m[1], "memory", m[2]>> \in DOMAIN db.tombstones
      BY <1>1, <2>2, <3>1 DEF NeverReused
    <3>3. QED
      BY <1>2, <3>2 DEF Altered
  <2>3. QED
    BY <2>1, <2>2
<1>6. Undamaged'
  BY <1>2, NoScopeAssumption DEF Undamaged
<1>7. QED
  BY <1>1, <1>3, <1>4, <1>5, <1>6 DEF HistoryInv, AllTraced, OriginsWellMade, NeverReused

LEMMA HistoryStep == HistoryInv /\ [IntegrityNext]_integrityVars => HistoryInv'
<1> SUFFICES ASSUME HistoryInv, [IntegrityNext]_integrityVars PROVE HistoryInv'
  OBVIOUS
<1>1. CASE UNCHANGED integrityVars
  BY <1>1 DEF integrityVars, HistoryInv, AllTraced, OriginsWellMade, NeverReused, Undamaged,
              TypeOK, Consistent
<1>2. CASE Operation
  BY <1>2, OperationHistory
<1>3. CASE Damage
  BY <1>3, DamageHistory
<1>4. QED
  BY <1>1, <1>2, <1>3 DEF IntegrityNext

-----------------------------------------------------------------------------
(* What the checks of recall establish about an altered row.               *)

\* The terms a recall may rely on.
AsMade(row, was) ==
    /\ row.kind = was.row.kind
    /\ row.dependency_fingerprint.sources = DOMAIN was.sources
    /\ row.created_at = was.row.created_at
    /\ row.clear_until = was.row.clear_until
    /\ row.recall_until = was.row.recall_until
    /\ \A e \in DOMAIN was.sources : row.trust <= was.sources[e].trust

\* The least period exists, and only the creation instant and the deadline can
\* disagree about it.
LEMMA DeadlinePinned ==
    ASSUME NEW periods \in SUBSET Nat, periods # {}, NEW a \in Nat, NEW b \in Nat
    PROVE  Deadline(a, periods) = Deadline(b, periods) <=> a = b
<1>1. Min(periods) \in Nat
  BY MinNat
<1>2. PICK k \in Nat : k = Min(periods)
  BY <1>1
<1>3. a + k = b + k <=> a = b
  OBVIOUS
<1>4. QED
  BY <1>2, <1>3 DEF Deadline

\* Edges that may have changed under a row that has not: the fingerprint in the
\* row gives the sources away.
LEMMA UnalteredAsMade ==
    ASSUME NEW d, NEW s \in Scopes, NEW i \in Ids, MemoryRecordOk(d, s, i),
           NEW was, WellMade(was, s), SameTerms(d.memories[<<s, i>>], was.row)
    PROVE  /\ Lineage(d, s, i) = DOMAIN was.sources
           /\ AsMade(d.memories[<<s, i>>], was)
<1>1. PICK row : row = d.memories[<<s, i>>]
  OBVIOUS
<1>2. row.dependency_fingerprint = DependencyFingerprint(s, row.kind, Lineage(d, s, i))
  BY <1>1 DEF MemoryRecordOk
<1>3. /\ row.dependency_fingerprint = was.row.dependency_fingerprint
      /\ row.kind = was.row.kind /\ row.trust = was.row.trust
      /\ row.created_at = was.row.created_at
      /\ row.clear_until = was.row.clear_until
      /\ row.recall_until = was.row.recall_until
  BY <1>1 DEF SameTerms, Terms
<1>4. /\ was.row.dependency_fingerprint =
           DependencyFingerprint(s, was.row.kind, DOMAIN was.sources)
      /\ \A x \in DOMAIN was.sources : was.row.trust <= was.sources[x].trust
  BY DEF WellMade
<1>5. /\ row.dependency_fingerprint.sources = Lineage(d, s, i)
      /\ was.row.dependency_fingerprint.sources = DOMAIN was.sources
  BY <1>2, <1>4 DEF DependencyFingerprint
<1>6. QED
  BY <1>1, <1>3, <1>4, <1>5 DEF AsMade

\* One altered term under edges that have not changed: the fingerprint gives the
\* kind away, the snapshots the trust and two of the three instants the third.
LEMMA AlteredAsMade ==
    ASSUME NEW d, NEW s \in Scopes, NEW i \in Ids, MemoryRecordOk(d, s, i),
           d.memories[<<s, i>>] \in MemoryRow, NEW was, WellMade(was, s),
           OneAltered(d.memories[<<s, i>>], was.row),
           LineageKept(d, <<s, i>>, was.sources)
    PROVE  /\ Lineage(d, s, i) = DOMAIN was.sources
           /\ AsMade(d.memories[<<s, i>>], was)
<1> DEFINE snapshot(x) == d.memory_sources[<<s, i, x>>]
           clear == {was.sources[x].clear_for : x \in DOMAIN was.sources}
           recall == {was.sources[x].recall_for : x \in DOMAIN was.sources}
<1>1. PICK row : row = d.memories[<<s, i>>]
  OBVIOUS
<1>2. Lineage(d, s, i) = DOMAIN was.sources
  BY DEF LineageKept
<1>3. \A x \in DOMAIN was.sources : snapshot(x) = was.sources[x]
  BY DEF LineageKept
<1>4. /\ {snapshot(x).clear_for : x \in Lineage(d, s, i)} = clear
      /\ {snapshot(x).recall_for : x \in Lineage(d, s, i)} = recall
  BY <1>2, <1>3
<1>5. /\ row.dependency_fingerprint = DependencyFingerprint(s, row.kind, DOMAIN was.sources)
      /\ \A x \in DOMAIN was.sources : row.trust <= was.sources[x].trust
  BY <1>1, <1>2, <1>3 DEF MemoryRecordOk
<1>6. /\ row.clear_until = Deadline(row.created_at, clear)
      /\ row.recall_until = Deadline(row.created_at, recall)
  BY <1>1, <1>4 DEF MemoryRecordOk
<1>7. /\ was.row \in MemoryRow
      /\ \A x \in DOMAIN was.sources : was.sources[x] \in Snapshot
      /\ DOMAIN was.sources # {}
      /\ was.row.dependency_fingerprint =
           DependencyFingerprint(s, was.row.kind, DOMAIN was.sources)
      /\ was.row.clear_until = Deadline(was.row.created_at, clear)
      /\ was.row.recall_until = Deadline(was.row.created_at, recall)
  BY DEF WellMade
<1>8. /\ clear \in SUBSET Nat /\ clear # {}
      /\ row.created_at \in Nat /\ was.row.created_at \in Nat
  <2>1. row.created_at \in Nat /\ was.row.created_at \in Nat
    BY <1>1, <1>7, BoundAssumption DEF MemoryRow
  <2>2. \A x \in DOMAIN was.sources : was.sources[x].clear_for \in Nat
    BY <1>7, BoundAssumption DEF Snapshot
  <2>3. QED
    BY <1>7, <2>1, <2>2
<1> HIDE DEF clear, recall, snapshot
<1>9. /\ row.created_at = was.row.created_at \/ row.clear_until = was.row.clear_until
      /\ row.kind = was.row.kind
           \/ row.dependency_fingerprint = was.row.dependency_fingerprint
  BY <1>1 DEF OneAltered, Terms
<1>10. row.created_at = was.row.created_at
  BY <1>6, <1>7, <1>8, <1>9, DeadlinePinned
<1>11. row.kind = was.row.kind
  BY <1>5, <1>7, <1>9 DEF DependencyFingerprint
<1>12. row.dependency_fingerprint.sources = DOMAIN was.sources
  BY <1>5 DEF DependencyFingerprint
<1>13. row.clear_until = was.row.clear_until /\ row.recall_until = was.row.recall_until
  BY <1>6, <1>7, <1>10
<1>14. QED
  BY <1>1, <1>2, <1>5, <1>10, <1>11, <1>12, <1>13 DEF AsMade

\* Whatever the damage, a memory that is handed out is as it was materialized.
LEMMA AcceptedAsMade ==
    ASSUME HistoryInv, NEW s \in Scopes, NEW as_of, NEW i \in HandedOut(s, as_of)
    PROVE  /\ MemoryRecordOk(db, s, i)
           /\ Lineage(db, s, i) = DOMAIN origin[<<s, i>>].sources
           /\ AsMade(db.memories[<<s, i>>], origin[<<s, i>>])
<1>1. RecallOutcome(db, s) = "done" /\ i \in RecallCandidates(db, s, as_of, {})
  BY DEF HandedOut
<1>2. i \in Ids /\ <<s, i>> \in DOMAIN db.memories
  BY <1>1 DEF RecallCandidates, MemoriesIn
<1>3. MemoryRecordOk(db, s, i)
  BY <1>1, <1>2 DEF RecallOutcome, MemoriesIn
<1>4. PICK was : was = origin[<<s, i>>]
  OBVIOUS
<1>5. Traced(db, <<s, i>>, was) /\ WellMade(was, s)
  BY <1>2, <1>4 DEF HistoryInv, AllTraced, OriginsWellMade
<1>6. db.memories[<<s, i>>] \in MemoryRow
  BY <1>2 DEF HistoryInv, Columns, IsTable
<1>7. CASE SameTerms(db.memories[<<s, i>>], was.row)
  BY <1>2, <1>3, <1>4, <1>5, <1>7, UnalteredAsMade
<1>8. CASE /\ OneAltered(db.memories[<<s, i>>], was.row)
           /\ LineageKept(db, <<s, i>>, was.sources)
  BY <1>2, <1>3, <1>4, <1>5, <1>6, <1>8, AlteredAsMade
<1>9. QED
  BY <1>5, <1>7, <1>8 DEF Traced

\* Recall hands out only memories with the sources, kind, trust ceiling and
\* deadlines of their materialization, whichever row has been damaged.
THEOREM RecallAsMaterialized == IntegritySpec => []RecalledAsMaterialized
<1>1. HistoryInv => RecalledAsMaterialized
  <2> SUFFICES ASSUME HistoryInv, NEW s \in Scopes, NEW as_of \in 0..MaxTime,
                      NEW i \in HandedOut(s, as_of)
               PROVE  AsMade(db.memories[<<s, i>>], origin[<<s, i>>])
    BY DEF RecalledAsMaterialized, AsMade
  <2>1. QED
    BY AcceptedAsMade
<1>2. QED
  BY <1>1, HistoryInit, HistoryStep, PTL DEF IntegritySpec

\* No memory derived from a deleted event is ever handed out, not even when the
\* cascade of the deletion missed it because its edge had been lost.
THEOREM RecallNeverErased == IntegritySpec => []ErasedNeverRecalled
<1>1. HistoryInv => ErasedNeverRecalled
  <2> SUFFICES ASSUME HistoryInv, NEW s \in Scopes, NEW as_of \in 0..MaxTime,
                      NEW i \in HandedOut(s, as_of),
                      NEW e \in DOMAIN origin[<<s, i>>].sources,
                      <<s, "raw_event", e>> \in DOMAIN db.tombstones
               PROVE  FALSE
    BY DEF ErasedNeverRecalled
  <2>1. MemoryRecordOk(db, s, i) /\ e \in Lineage(db, s, i)
    BY AcceptedAsMade
  <2>2. <<s, e>> \in DOMAIN db.raw_events
    BY <2>1 DEF MemoryRecordOk
  <2>3. QED
    BY <2>2 DEF HistoryInv, DeletedGone
<1>2. QED
  BY <1>1, HistoryInit, HistoryStep, PTL DEF IntegritySpec

-----------------------------------------------------------------------------
(* A refusal to recall lasts.                                              *)

\* A record that is carried over passes the checks of recall only if it passed
\* them before, unless the receipt of one of its sources has come back.
LEMMA CarriedRecord ==
    ASSUME NEW d, Columns(d), NEW e, Carried(d, e), NEW s \in Scopes, NEW i \in Ids,
           <<s, i>> \in DOMAIN d.memories, <<s, i>> \in DOMAIN e.memories,
           MemoryRecordOk(e, s, i),
           \A k \in DOMAIN e.raw_events : k[1] = s => k \in DOMAIN d.raw_events
    PROVE  MemoryRecordOk(d, s, i)
<1> DEFINE old(x) == d.memory_sources[<<s, i, x>>]
           new(x) == e.memory_sources[<<s, i, x>>]
<1>1. PICK L, row, was :
        L = Lineage(d, s, i) /\ row = d.memories[<<s, i>>] /\ was = e.memories[<<s, i>>]
  OBVIOUS
<1>2. /\ was.dependency_fingerprint = row.dependency_fingerprint
      /\ was.kind = row.kind /\ was.trust = row.trust
      /\ was.created_at = row.created_at
      /\ was.clear_until = row.clear_until
      /\ was.recall_until = row.recall_until
  BY <1>1 DEF Carried, SameTerms, Terms
<1>3. Lineage(e, s, i) = L /\ \A x \in L : new(x) = old(x)
  BY <1>1 DEF Carried, SameEdges
<1>4. /\ {new(x).clear_for : x \in L} = {old(x).clear_for : x \in L}
      /\ {new(x).recall_for : x \in L} = {old(x).recall_for : x \in L}
  BY <1>3
<1>5. /\ L # {}
      /\ \A x \in L :
           /\ <<s, x>> \in DOMAIN d.raw_events
           /\ 0 < old(x).clear_for
           /\ old(x).clear_for <= old(x).recall_for
           /\ row.trust <= old(x).trust
  BY <1>1, <1>2, <1>3 DEF MemoryRecordOk
<1>6. /\ row.dependency_fingerprint = DependencyFingerprint(s, row.kind, L)
      /\ row.clear_until <= row.recall_until
  BY <1>1, <1>2, <1>3 DEF MemoryRecordOk
<1>7. /\ row.clear_until = Deadline(row.created_at, {old(x).clear_for : x \in L})
      /\ row.recall_until = Deadline(row.created_at, {old(x).recall_for : x \in L})
  BY <1>1, <1>2, <1>3, <1>4 DEF MemoryRecordOk
<1>8. row.status \in MemoryStatus
  BY <1>1 DEF Columns, IsTable, MemoryRow
<1>9. QED
  BY <1>1, <1>5, <1>6, <1>7, <1>8 DEF MemoryRecordOk

\* The memories of the edges of one scope.
LEMMA EdgesOf ==
    ASSUME NEW d, Columns(d), NEW s \in Scopes
    PROVE  {k[2] : k \in {x \in DOMAIN d.memory_sources : x[1] = s}}
             = {i \in Ids : Lineage(d, s, i) # {}}
<1> DEFINE ids == {k[2] : k \in {x \in DOMAIN d.memory_sources : x[1] = s}}
<1>1. DOMAIN d.memory_sources \subseteq Scopes \X Ids \X Ids
  BY DEF Columns, IsTable
<1>2. ASSUME NEW k \in DOMAIN d.memory_sources, k[1] = s
      PROVE  k[2] \in Ids /\ k[3] \in Lineage(d, s, k[2])
  <2>1. k = <<k[1], k[2], k[3]>> /\ k[2] \in Ids /\ k[3] \in Ids
    BY <1>1
  <2>2. <<s, k[2], k[3]>> \in DOMAIN d.memory_sources
    BY <1>2, <2>1
  <2>3. QED
    BY <2>1, <2>2 DEF Lineage
<1>3. ASSUME NEW i \in Ids, NEW x \in Lineage(d, s, i)
      PROVE  i \in ids
  <2>1. PICK k : k = <<s, i, x>>
    OBVIOUS
  <2>2. k \in DOMAIN d.memory_sources /\ k[1] = s /\ k[2] = i
    BY <2>1 DEF Lineage
  <2>3. QED
    BY <2>2
<1>4. ASSUME NEW i \in ids
      PROVE  i \in Ids /\ Lineage(d, s, i) # {}
  BY <1>2
<1> HIDE DEF ids
<1>5. ids = {i \in Ids : Lineage(d, s, i) # {}}
  BY <1>3, <1>4
<1>6. QED
  BY <1>5 DEF ids

\* An operation that erases no memory and brings no receipt back.
LEMMA OperationKeepsRefusal ==
    ASSUME NEW d, Columns(d), NEW e, Frame(d, e), NEW s \in Scopes,
           RecallOutcome(e, s) = "done",
           \A m \in DOMAIN d.memories : m[1] = s => m \in DOMAIN e.memories,
           \A k \in DOMAIN e.raw_events : k[1] = s => k \in DOMAIN d.raw_events
    PROVE  RecallOutcome(d, s) = "done"
<1>1. /\ \A i \in Ids : <<s, i>> \in DOMAIN e.memories => MemoryRecordOk(e, s, i)
      /\ {k[2] : k \in {x \in DOMAIN e.memory_sources : x[1] = s}} = MemoriesIn(e, s)
  BY DEF RecallOutcome, MemoriesIn
<1>2. \A i \in Ids : Lineage(e, s, i) # {} => <<s, i>> \in DOMAIN e.memories
  BY <1>1, EdgesOf DEF Frame, MemoriesIn
<1>3. \A i \in Ids : <<s, i>> \in DOMAIN d.memories => MemoryRecordOk(d, s, i)
  <2> SUFFICES ASSUME NEW i \in Ids, <<s, i>> \in DOMAIN d.memories
               PROVE  MemoryRecordOk(d, s, i)
    OBVIOUS
  <2>1. <<s, i>> \in DOMAIN e.memories
    OBVIOUS
  <2>2. Carried(d, e) /\ MemoryRecordOk(e, s, i)
    BY <1>1, <2>1 DEF Frame
  <2>3. QED
    BY <2>1, <2>2, CarriedRecord
<1>4. ASSUME NEW i \in Ids, Lineage(d, s, i) # {}, <<s, i>> \notin DOMAIN d.memories
      PROVE  FALSE
  <2>1. PICK m : m = <<s, i>>
    OBVIOUS
  <2>2. m \in Key \ DOMAIN d.memories /\ m[1] = s /\ m[2] = i
    BY <1>4, <2>1 DEF Key
  <2>3. Lineage(e, s, i) # {}
    BY <1>4, <2>2 DEF Frame, StraysKept
  <2>4. m \in DOMAIN e.memories \ DOMAIN d.memories
    BY <1>2, <2>1, <2>2, <2>3
  <2>5. QED
    BY <1>4, <2>2, <2>4 DEF Frame, NewWellMade
<1>5. \A i \in Ids : <<s, i>> \in DOMAIN d.memories => Lineage(d, s, i) # {}
  BY <1>3 DEF MemoryRecordOk
<1>6. {i \in Ids : Lineage(d, s, i) # {}} = MemoriesIn(d, s)
  BY <1>4, <1>5 DEF MemoriesIn
<1>7. {k[2] : k \in {x \in DOMAIN d.memory_sources : x[1] = s}} = MemoriesIn(d, s)
  BY <1>6, EdgesOf
<1>8. QED
  BY <1>3, <1>7 DEF RecallOutcome, MemoriesIn

LEMMA RefusalStep ==
    HistoryInv /\ OthersSound /\ [IntegrityNext]_integrityVars
        => [RefusalKept]_integrityVars
<1> SUFFICES ASSUME HistoryInv, OthersSound, IntegrityNext PROVE RefusalKept
  OBVIOUS
<1> SUFFICES ASSUME NEW s \in Scopes,
                    RecallOutcome(db, s) = "RepositoryCorruption",
                    \A m \in DOMAIN db.memories : m[1] = s => m \in DOMAIN db'.memories,
                    \A e \in DOMAIN db'.raw_events : e[1] = s => e \in DOMAIN db.raw_events
             PROVE  RecallOutcome(db', s) = "RepositoryCorruption"
  BY DEF RefusalKept
<1>1. RecallOutcome(db', s) \in {"done", "RepositoryCorruption"}
  BY DEF RecallOutcome
<1>2. CASE Operation
  <2>1. Columns(db) /\ Frame(db, db')
    BY <1>2, HistoryExtended DEF HistoryInv
  <2>2. QED
    BY <1>1, <2>1, OperationKeepsRefusal
<1>3. CASE Damage
  <2>1. Filed(db) /\ Sound(db, s)
    BY <1>3, NoScopeAssumption DEF Damage, OthersSound
  <2>2. ~Refused(s)
    BY <2>1, SoundAnswers
  <2>3. QED
    BY <2>2 DEF Refused
<1>4. QED
  BY <1>2, <1>3 DEF IntegrityNext

\* The library neither skips nor repairs a damaged row: a scope whose recall is
\* refused stays refused through every request that neither erases a memory of
\* it nor brings the receipt of an event back.
THEOREM RefusalLasts == IntegritySpec => StaysRefused
BY HistoryInit, HistoryStep, OthersSoundInit, OthersSoundStep, RefusalStep, PTL
   DEF IntegritySpec, StaysRefused

=============================================================================
