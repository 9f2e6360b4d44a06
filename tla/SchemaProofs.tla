---------------------------- MODULE SchemaProofs ----------------------------
(***************************************************************************)
(* Proofs about Schema for every number of openers, every file they may    *)
(* find and every value of Store's constants.  The argument: a client is   *)
(* the only one between BEGIN IMMEDIATE and its commit, so that what it    *)
(* has found out about the catalog at each phase (Building) still holds at *)
(* the next one, and its commit turns one of three known catalogs into the *)
(* complete one.                                                           *)
(***************************************************************************)
EXTENDS Schema, StoreProofs, FiniteSetTheorems

Holding == {"converting", "operating"} \cup Initializing

Legacy == [Complete EXCEPT !.lineage = "legacy"]
Rebuilt == [db EXCEPT !.memory_sources = MigratedSources(db)]

\* What the transaction will commit.
Built ==
    \/ schema \in {NoSchema, Complete} /\ work.db = db
    \/ schema = Legacy /\ Migratable(db) /\ work.db = Rebuilt

\* What is known of the file at each phase of a client's transaction.
BuildingAt(c) ==
    /\ phase[c] = "begun" => work.schema = schema /\ work.db = db
    /\ phase[c] = "migrating" =>
         /\ schema.versions = {1} /\ schema.tables = CoreTables
         /\ work.schema = schema /\ work.db = db
    /\ phase[c] = "rebuilt" =>
         schema = Legacy /\ work.schema = Complete /\ Insertable(db) /\ work.db = Rebuilt
    /\ phase[c] = "creating" =>
         Built /\ work.schema = IF schema = NoSchema THEN NoSchema ELSE Complete
    /\ phase[c] = "created" =>
         Built /\ work.schema \in {Complete, [Complete EXCEPT !.versions = {}]}
    /\ phase[c] = "stamped" => Built /\ work.schema = Complete

Building == \A c \in Clients : BuildingAt(c)

\* The inductive invariant.
SchemaInv ==
    SchemaTypeOK /\ found \in FoundFiles /\ FileIntact /\ OpenMeansComplete /\ Building

-----------------------------------------------------------------------------
(* Types and the lock.                                                     *)

\* Every operation of Store leaves the six tables.
LEMMA NextIsDb ==
    ASSUME IsDb(db), Next
    PROVE  IsDb(db')
<1>1. ASSUME NEW draft \in EventDrafts, NEW now \in Clocks, IngestEvent(draft, now)
      PROVE  IsDb(db')
  BY <1>1 DEF IngestEvent, IngestEffect, IsDb
<1>2. ASSUME NEW draft \in MemoryDrafts, MaterializeOnce(draft)
      PROVE  IsDb(db')
  BY <1>2 DEF MaterializeOnce, MaterializeEffect, IsDb
<1>3. ASSUME NEW c \in GovernanceCommand, Govern(c)
      PROVE  IsDb(db')
  <2>1. IsDb(GovernEffect(db, c))
    <3>1. ASSUME NEW g, IsDb(g), NEW log
          PROVE  IsDb([g EXCEPT !.audit_log = log])
      BY <3>1 DEF IsDb
    <3>2. ASSUME NEW status
          PROVE  IsDb(SetStatus(db, c, status))
      BY DEF SetStatus, IsDb
    <3>3. IsDb(Erase(db, c))
      <4>1. ASSUME NEW g, g = Erase(db, c)
            PROVE  IsDb(g)
        BY <4>1 DEF Erase, IsDb
      <4>2. QED
        BY <4>1
    <3>4. \E g : IsDb(g) /\ \E log : GovernEffect(db, c) = [g EXCEPT !.audit_log = log]
      <4>1. CASE c.action = "seal"
        BY <4>1, <3>2 DEF GovernEffect
      <4>2. CASE c.action = "restore"
        BY <4>2, <3>2 DEF GovernEffect
      <4>3. CASE c.action \notin {"seal", "restore"}
        BY <4>3, <3>3 DEF GovernEffect
      <4>4. QED
        BY <4>1, <4>2, <4>3
    <3>5. QED
      BY <3>1, <3>4
  <2>2. QED
    BY <2>1, <1>3 DEF Govern
<1>4. ASSUME NEW as_of \in Sweeps, ExpireRawContent(as_of)
      PROVE  IsDb(db')
  BY <1>4 DEF ExpireRawContent, ExpireEffect, IsDb
<1>5. QED
  BY <1>1, <1>2, <1>3, <1>4 DEF Next

\* A transaction or a constructor that ends lets go of the file.
LEMMA FinishType ==
    ASSUME SchemaTypeOK, NEW c \in Clients, NEW next \in {"closed", "open"},
           next = "open" => phase[c] \in {"stamped", "operating"},
           NEW result \in Outcomes, Finish(c, next, result)
    PROVE  SchemaTypeOK'
<1>1. NoClient \notin Clients /\ MaxAttempts \in Nat \ {0}
  BY OpenerAssumption
<1>2. /\ work' = [schema |-> work'.schema, db |-> work'.db]
      /\ IsDb(work.db)' /\ work.schema' \in Catalog
  BY DEF Finish, SchemaTypeOK, NoWork, NoSchema, EmptyDb, IsDb, Catalog
<1>3. /\ UNCHANGED <<db, schema, journal>>
      /\ phase' = [phase EXCEPT ![c] = next]
      /\ attempts' = [attempts EXCEPT ![c] = 0]
      /\ lock' = IF lock = c THEN NoClient ELSE lock
  BY DEF Finish, Goto, Unlock, fileVars
<1>4. /\ phase' \in [Clients -> Phase]
      /\ attempts' \in [Clients -> 0..(MaxAttempts - 1)]
      /\ outcome' \in [Clients -> Outcomes]
      /\ lock' \in Clients \cup {NoClient}
  BY <1>1, <1>3 DEF Finish, SchemaTypeOK, Phase
<1>5. ASSUME NEW x \in Clients
      PROVE  /\ lock' = x <=> phase'[x] \in {"converting", "operating"} \cup Initializing
             /\ attempts'[x] > 0 => phase'[x] \in {"connected", "converting"}
             /\ phase'[x] \in {"ready", "open", "operating"} \cup Initializing =>
                  journal' = "wal"
  BY <1>1, <1>3 DEF SchemaTypeOK, Initializing
<1>6. QED
  BY <1>2, <1>3, <1>4, <1>5 DEF SchemaTypeOK

\* A step within a constructor or an operation: one client moves on, and takes
\* the file, keeps it or lets go of it as its phases say.
LEMMA MoveType ==
    ASSUME SchemaTypeOK, NEW c \in Clients, NEW next \in Phase, Goto(c, next),
           (work = [schema |-> work.schema, db |-> work.db])',
           IsDb(db)', IsDb(work.db)', schema' \in Catalog, work.schema' \in Catalog,
           journal' \in {"delete", "wal"}, journal = "wal" => journal' = "wal",
           next \in {"ready", "open", "operating"} \cup Initializing => journal' = "wal",
           attempts' = attempts \/ attempts' = [attempts EXCEPT ![c] = 0],
           outcome' = outcome \/ \E result \in Outcomes : outcome' = [outcome EXCEPT ![c] = result],
           next \in {"connected", "converting"} \/ attempts'[c] = 0,
           lock' = IF next \in Holding THEN c
                   ELSE IF lock = c THEN NoClient ELSE lock,
           next \in Holding => lock \in {c, NoClient}
    PROVE  SchemaTypeOK'
<1>1. NoClient \notin Clients /\ MaxAttempts \in Nat \ {0}
  BY OpenerAssumption
<1>2. phase' = [phase EXCEPT ![c] = next]
  BY DEF Goto
<1>3. /\ phase' \in [Clients -> Phase]
      /\ attempts' \in [Clients -> 0..(MaxAttempts - 1)]
      /\ outcome' \in [Clients -> Outcomes]
      /\ lock' \in Clients \cup {NoClient}
  BY <1>1, <1>2 DEF SchemaTypeOK
<1>4. ASSUME NEW x \in Clients
      PROVE  /\ lock' = x <=> phase'[x] \in {"converting", "operating"} \cup Initializing
             /\ attempts'[x] > 0 => phase'[x] \in {"connected", "converting"}
             /\ phase'[x] \in {"ready", "open", "operating"} \cup Initializing =>
                  journal' = "wal"
  <2>1. CASE x = c
    BY <1>1, <1>2, <1>3, <2>1 DEF SchemaTypeOK, Holding
  <2>2. CASE x # c
    <3>1. phase'[x] = phase[x] /\ attempts'[x] = attempts[x]
      BY <1>2, <2>2 DEF SchemaTypeOK
    <3>2. lock' = x <=> lock = x
      BY <1>1, <2>2
    <3>3. QED
      BY <3>1, <3>2 DEF SchemaTypeOK
  <2>3. QED
    BY <2>1, <2>2
<1>5. QED
  BY <1>3, <1>4 DEF SchemaTypeOK

\* Every file is found well-typed and free.
LEMMA InitType ==
    ASSUME SchemaInit
    PROVE  SchemaTypeOK
<1>1. NoClient \notin Clients /\ MaxAttempts \in Nat \ {0}
  BY OpenerAssumption
<1>2. IsDb(db) /\ schema \in Catalog
  BY FoundAssumption DEF SchemaInit
<1>3. /\ work = [schema |-> work.schema, db |-> work.db]
      /\ IsDb(work.db) /\ work.schema \in Catalog
  BY DEF SchemaInit, NoWork, NoSchema, EmptyDb, IsDb, Catalog
<1>4. QED
  BY <1>1, <1>2, <1>3 DEF SchemaInit, SchemaTypeOK, Phase, Outcomes, Initializing

\* Types, the lock and the counters are kept by every step.
LEMMA TypeNext ==
    ASSUME SchemaTypeOK, SchemaNext
    PROVE  SchemaTypeOK'
<1> USE DEF SchemaTypeOK, fileVars, Outcomes
<1>0. /\ NoClient \notin Clients /\ MaxAttempts \in Nat \ {0}
      /\ \A c \in Clients : phase[c] \in Phase /\ attempts[c] \in 0..(MaxAttempts - 1)
  BY OpenerAssumption
<1>1. ASSUME NEW c \in Clients, Connect(c)
      PROVE  SchemaTypeOK'
  BY <1>0, <1>1, MoveType DEF Connect, Phase, Initializing, Holding
<1>2. ASSUME NEW c \in Clients, FindWal(c)
      PROVE  SchemaTypeOK'
  BY <1>0, <1>2, MoveType DEF FindWal, Phase, Initializing, Holding
<1>3. ASSUME NEW c \in Clients, StartWal(c)
      PROVE  SchemaTypeOK'
  BY <1>0, <1>3, MoveType DEF StartWal, Phase, Initializing, Holding
<1>4. ASSUME NEW c \in Clients, EnableWal(c)
      PROVE  SchemaTypeOK'
  BY <1>0, <1>4, MoveType DEF EnableWal, Unlock, Phase, Initializing, Holding
<1>5. ASSUME NEW c \in Clients, RetryWal(c)
      PROVE  SchemaTypeOK'
  <2>1. CASE attempts[c] + 1 = MaxAttempts
    BY <1>5, <2>1, FinishType DEF RetryWal, Refuse
  <2>2. CASE attempts[c] + 1 # MaxAttempts
    <3>1. attempts' = [attempts EXCEPT ![c] = attempts[c] + 1] /\ phase[c] = "connected"
      BY <1>5, <2>2 DEF RetryWal
    <3>2. attempts[c] + 1 \in 0..(MaxAttempts - 1)
      BY <1>0, <2>2
    <3>3. attempts' \in [Clients -> 0..(MaxAttempts - 1)]
      BY <3>1, <3>2
    <3>4. QED
      BY <1>5, <2>2, <3>1, <3>3 DEF RetryWal
  <2>3. QED
    BY <2>1, <2>2
<1>6. ASSUME NEW c \in Clients, BeginImmediate(c)
      PROVE  SchemaTypeOK'
  BY <1>0, <1>6, MoveType DEF BeginImmediate, Phase, Initializing, Holding
<1>7. ASSUME NEW c \in Clients, LockTimeout(c)
      PROVE  SchemaTypeOK'
  BY <1>7, FinishType DEF LockTimeout, Refuse
<1>8. ASSUME NEW c \in Clients, Inspect(c)
      PROVE  SchemaTypeOK'
  <2>1. CASE RequiresFreshSchema(work.schema) = "RepositoryCorruption"
    BY <1>8, <2>1, FinishType DEF Inspect, Refuse
  <2>2. CASE RequiresFreshSchema(work.schema) # "RepositoryCorruption"
    BY <1>0, <1>8, <2>2, MoveType DEF Inspect, Phase, Initializing, Holding
  <2>3. QED
    BY <2>1, <2>2
<1>9. ASSUME NEW c \in Clients, RebuildLineage(c)
      PROVE  SchemaTypeOK'
  <2>1. CASE work.schema.lineage = "current"
    BY <1>0, <1>9, <2>1, MoveType DEF RebuildLineage, Phase, Initializing, Holding
  <2>2. CASE work.schema.lineage = "legacy" /\ Insertable(work.db)
    <3>1. /\ phase[c] = "migrating" /\ Goto(c, "rebuilt")
          /\ work' = [schema |-> [work.schema EXCEPT !.lineage = "current"],
                      db |-> [work.db EXCEPT !.memory_sources = MigratedSources(work.db)]]
          /\ UNCHANGED <<db, schema, journal, lock, attempts, outcome>>
      BY <1>9, <2>2 DEF RebuildLineage
    <3>2. /\ work' = [schema |-> work'.schema, db |-> work'.db]
          /\ IsDb(work.db)' /\ work.schema' \in Catalog
      BY <3>1 DEF IsDb, Catalog
    <3>3. QED
      BY <1>0, <3>1, <3>2, MoveType DEF Phase, Initializing, Holding
  <2>3. CASE ~(work.schema.lineage = "legacy" /\ Insertable(work.db))
             /\ work.schema.lineage # "current"
    BY <1>9, <2>3, FinishType DEF RebuildLineage, Refuse
  <2>4. QED
    BY <2>1, <2>2, <2>3
<1>10. ASSUME NEW c \in Clients, DropLegacy(c)
       PROVE  SchemaTypeOK'
  <2>1. CASE Cardinality(DOMAIN work.db.memory_sources) = Cardinality(DOMAIN db.memory_sources)
    BY <1>0, <1>10, <2>1, MoveType DEF DropLegacy, Phase, Initializing, Holding
  <2>2. CASE Cardinality(DOMAIN work.db.memory_sources) # Cardinality(DOMAIN db.memory_sources)
    BY <1>10, <2>2, FinishType DEF DropLegacy, Refuse
  <2>3. QED
    BY <2>1, <2>2
<1>11. ASSUME NEW c \in Clients, CreateTables(c)
       PROVE  SchemaTypeOK'
  <2>1. work' = [work EXCEPT !.schema.tables = CoreTables, !.schema.lineage = "current"]
    BY <1>11 DEF CreateTables
  <2>2. /\ work' = [schema |-> work'.schema, db |-> work'.db]
        /\ work.db' = work.db /\ work.schema' \in Catalog
    <3>1. /\ work.schema \in Catalog /\ CoreTables \in SUBSET CoreTables
          /\ work.schema.versions \cup {1} \in SUBSET Nat
      BY DEF Catalog
    <3>2. QED
      BY <2>1, <3>1 DEF Catalog
  <2>3. IsDb(work.db)'
    BY <2>2
  <2>4. QED
    BY <1>0, <1>11, <2>2, <2>3, MoveType DEF CreateTables, Phase, Initializing, Holding
<1>12. ASSUME NEW c \in Clients, Stamp(c)
       PROVE  SchemaTypeOK'
  <2>1. work' = [work EXCEPT !.schema.versions = work.schema.versions \cup {1}]
    BY <1>12 DEF Stamp
  <2>2. /\ work' = [schema |-> work'.schema, db |-> work'.db]
        /\ work.db' = work.db /\ work.schema' \in Catalog
    <3>1. /\ work.schema \in Catalog /\ CoreTables \in SUBSET CoreTables
          /\ work.schema.versions \cup {1} \in SUBSET Nat
      BY DEF Catalog
    <3>2. QED
      BY <2>1, <3>1 DEF Catalog
  <2>3. IsDb(work.db)'
    BY <2>2
  <2>4. /\ phase[c] = "created" /\ Goto(c, "stamped")
        /\ UNCHANGED <<db, schema, journal, lock, attempts, outcome>>
    BY <1>12 DEF Stamp
  <2>5. QED
    BY <1>0, <2>2, <2>3, <2>4, MoveType DEF Phase, Initializing, Holding
<1>13. ASSUME NEW c \in Clients, Commit(c)
       PROVE  SchemaTypeOK'
  <2>1. /\ work' = [schema |-> work'.schema, db |-> work'.db]
        /\ IsDb(work.db)' /\ work.schema' \in Catalog
    BY <1>13 DEF Commit, NoWork, NoSchema, EmptyDb, IsDb, Catalog
  <2>2. IsDb(db)' /\ schema' \in Catalog
    BY <1>13 DEF Commit
  <2>3. /\ phase[c] = "stamped" /\ Goto(c, "open") /\ lock = c
        /\ lock' = NoClient /\ UNCHANGED <<journal, attempts>> /\ journal = "wal"
        /\ outcome' = [outcome EXCEPT ![c] = "opened"]
    BY <1>13 DEF Commit, Unlock, Initializing
  <2>4. /\ "open" \in Phase /\ "open" \notin Holding
        /\ attempts[c] = 0
    BY <1>0, <2>3 DEF Phase, Initializing, Holding
  <2>5. QED
    BY <2>1, <2>2, <2>3, <2>4, MoveType
<1>14. ASSUME NEW c \in Clients, BeginOperation(c)
       PROVE  SchemaTypeOK'
  BY <1>0, <1>14, MoveType DEF BeginOperation, Phase, Initializing, Holding
<1>15. ASSUME NEW c \in Clients, Operate(c)
       PROVE  SchemaTypeOK'
  <2>1. CASE schema.versions = {1}
    <3>1. IsDb(db)'
      BY <1>15, <2>1, NextIsDb DEF Operate
    <3>2. QED
      BY <1>0, <1>15, <2>1, <3>1, MoveType
         DEF Operate, Unlock, Phase, Initializing, Holding
  <2>2. CASE schema.versions # {1}
    BY <1>15, <2>2, FinishType DEF Operate
  <2>3. QED
    BY <2>1, <2>2
<1>16. ASSUME NEW c \in Clients, StatementFails(c)
       PROVE  SchemaTypeOK'
  BY <1>16, FinishType DEF StatementFails
<1>17. ASSUME NEW c \in Clients, Crash(c)
       PROVE  SchemaTypeOK'
  BY <1>17, FinishType DEF Crash, Refuse
<1>18. ASSUME Upgrade
       PROVE  SchemaTypeOK'
  <2>1. schema' \in Catalog
    BY <1>18 DEF Upgrade, Complete, Catalog, CoreTables
  <2>2. QED
    BY <1>18, <2>1 DEF Upgrade
<1>19. QED
  BY <1>1, <1>2, <1>3, <1>4, <1>5, <1>6, <1>7, <1>8, <1>9, <1>10, <1>11, <1>12,
     <1>13, <1>14, <1>15, <1>16, <1>17, <1>18 DEF SchemaNext, Step

-----------------------------------------------------------------------------
(* What is known of the file.                                              *)

\* The catalogs, spelt out.
LEMMA Catalogs ==
    /\ NoSchema.versions = {} /\ NoSchema.tables = {} /\ NoSchema.lineage = "absent"
    /\ Complete.versions = {1} /\ Complete.tables = CoreTables
    /\ Complete.lineage = "current"
    /\ Legacy = [versions |-> {1}, tables |-> CoreTables, lineage |-> "legacy"]
    /\ NoSchema # Complete /\ NoSchema # Legacy /\ Complete # Legacy
    /\ CoreTables # {}
    /\ \A s \in Upgraded : s.versions \notin {{}, {1}} /\ s \notin {NoSchema, Complete, Legacy}
<1>1. {1} # {2} /\ {1} # {1, 2} /\ {2} # {} /\ {1, 2} # {} /\ {1} # {}
  <2>1. 2 \notin {1} /\ 2 \in {2} /\ 2 \in {1, 2} /\ 1 \in {1}
    OBVIOUS
  <2>2. QED
    BY <2>1
<1>2. /\ Legacy = [versions |-> {1}, tables |-> CoreTables, lineage |-> "legacy"]
      /\ Legacy.versions = {1} /\ Legacy.lineage = "legacy"
  BY DEF Legacy, Complete
<1>3. ASSUME NEW s \in Upgraded
      PROVE  s.versions \in {{2}, {1, 2}}
  BY DEF Upgraded, Complete
<1>4. "tombstones" \in CoreTables
  BY DEF CoreTables
<1>5. QED
  BY <1>1, <1>2, <1>3, <1>4 DEF NoSchema, Complete

\* A file that no opener has completed yet is as it was found, and the
\* inspection tells the three catalogs it accepts apart.
LEMMA KnownFile ==
    ASSUME SchemaInv
    PROVE  /\ schema.tables = {} /\ schema.versions = {} => schema = NoSchema
           /\ schema.versions = {1} /\ schema.tables = CoreTables =>
                /\ (schema.lineage = "current" => schema = Complete)
                /\ (schema.lineage = "legacy" => schema = Legacy)
           /\ schema = Legacy =>
                /\ db = found.db /\ found.schema = Legacy
                /\ IsFiniteSet(DOMAIN db.memory_sources)
           /\ schema \in {NoSchema, Complete} => Openable(found)
<1>1. /\ schema \in Catalog
      /\ schema = [versions |-> schema.versions, tables |-> schema.tables,
                  lineage |-> schema.lineage]
  BY DEF SchemaInv, SchemaTypeOK, Catalog
<1>2. schema \notin {Complete} \cup Upgraded => schema = found.schema /\ db = found.db
  BY DEF SchemaInv, FileIntact
<1>3. found.schema.tables = {} => found.schema.lineage = "absent"
  <2>1. /\ found.schema \in Catalog
        /\ "memory_sources" \in found.schema.tables <=> found.schema.lineage # "absent"
    BY FoundAssumption DEF SchemaInv
  <2>2. QED
    BY <2>1 DEF Catalog
<1>4. ASSUME schema.tables = {}, schema.versions = {}
      PROVE  schema = NoSchema
  <2>1. schema \notin {Complete} \cup Upgraded
    BY <1>4, Catalogs
  <2>2. schema.lineage = "absent"
    BY <1>2, <1>3, <1>4, <2>1
  <2>3. QED
    BY <1>1, <1>4, <2>2 DEF NoSchema
<1>5. ASSUME schema.versions = {1}, schema.tables = CoreTables
      PROVE  /\ schema.lineage = "current" => schema = Complete
             /\ schema.lineage = "legacy" => schema = Legacy
  BY <1>1, <1>5, Catalogs DEF Complete
<1>6. ASSUME schema = Legacy
      PROVE  /\ db = found.db /\ found.schema = Legacy
             /\ IsFiniteSet(DOMAIN db.memory_sources)
  <2>1. db = found.db /\ found.schema = Legacy
    BY <1>2, <1>6, Catalogs
  <2>2. IsFiniteSet(DOMAIN found.db.memory_sources)
    BY FoundAssumption DEF SchemaInv
  <2>3. QED
    BY <2>1, <2>2
<1>7. ASSUME schema \in {NoSchema, Complete}
      PROVE  Openable(found)
  <2>1. ~Openable(found) => schema = found.schema
    BY DEF SchemaInv, FileIntact
  <2>2. QED
    BY <1>7, <2>1 DEF Openable
<1>8. QED
  BY <1>4, <1>5, <1>6, <1>7

\* The count finds every edge without a receipt: if as many rows were copied as
\* there are, all of them were.
LEMMA CountIsComplete ==
    ASSUME IsFiniteSet(DOMAIN db.memory_sources), Insertable(db),
           Cardinality(DOMAIN MigratedSources(db)) = Cardinality(DOMAIN db.memory_sources)
    PROVE  Migratable(db)
<1>1. DOMAIN MigratedSources(db) = Joined(db)
  BY DEF MigratedSources
<1>2. Joined(db) \subseteq DOMAIN db.memory_sources
  BY DEF Joined
<1>3. Joined(db) = DOMAIN db.memory_sources
  BY <1>1, <1>2, FS_Subset
<1>4. QED
  BY <1>3 DEF Insertable, Migratable, Joined

-----------------------------------------------------------------------------
(* Every phase builds on the one before.                                   *)

\* The client that holds the file is the only one that builds.
LEMMA Solo ==
    ASSUME SchemaTypeOK, NEW c \in Clients, lock \in {c, NoClient}, NEW next,
           Goto(c, next), BuildingAt(c)'
    PROVE  Building'
<1>1. SUFFICES ASSUME NEW x \in Clients, x # c PROVE BuildingAt(x)'
  BY DEF Building
<1>2. phase'[x] = phase[x]
  BY <1>1 DEF Goto, SchemaTypeOK
<1>3. phase[x] \notin Initializing
  BY <1>1, OpenerAssumption DEF SchemaTypeOK
<1>4. QED
  BY <1>2, <1>3 DEF BuildingAt, Initializing

\* A client that is outside a transaction after its step disturbs nobody.
LEMMA Outside ==
    ASSUME SchemaTypeOK, Building, NEW c \in Clients, NEW next, Goto(c, next),
           next \notin Initializing, lock = c \/ UNCHANGED <<db, schema, work>>
    PROVE  Building'
<1>1. phase'[c] = next
  BY DEF Goto, SchemaTypeOK
<1>2. BuildingAt(c)'
  BY <1>1 DEF BuildingAt, Initializing
<1>3. CASE lock = c
  BY <1>2, <1>3, Solo
<1>4. CASE UNCHANGED <<db, schema, work>>
  <2>1. ASSUME NEW x \in Clients, x # c
        PROVE  BuildingAt(x)'
    <3>1. phase'[x] = phase[x] /\ BuildingAt(x)
      BY <2>1 DEF Goto, SchemaTypeOK, Building
    <3>2. QED
      BY <1>4, <3>1 DEF BuildingAt, Built, Rebuilt
  <2>2. QED
    BY <1>2, <2>1 DEF Building
<1>5. QED
  BY <1>3, <1>4

\* A transaction that ends builds no longer.
LEMMA FinishBuilding ==
    ASSUME SchemaTypeOK, Building, NEW c \in Clients, NEW next \in {"closed", "open"},
           NEW result, Finish(c, next, result)
    PROVE  Building'
<1>1. Goto(c, next) /\ next \notin Initializing
  BY DEF Finish, Initializing
<1>2. lock = c \/ UNCHANGED <<db, schema, work>>
  BY DEF Finish, fileVars
<1>3. QED
  BY <1>1, <1>2, Outside

\* Every step leaves what is known of the transaction in progress true.
LEMMA BuildingNext ==
    ASSUME SchemaInv, SchemaNext
    PROVE  Building'
<1>0. SchemaTypeOK /\ Building /\ OpenMeansComplete
  BY DEF SchemaInv
<1>1. ASSUME NEW c \in Clients, phase[c] \in Initializing
      PROVE  lock = c /\ BuildingAt(c)
  BY <1>0, <1>1 DEF SchemaTypeOK, Building
<1>2. ASSUME NEW c \in Clients,
             Connect(c) \/ FindWal(c) \/ StartWal(c) \/ EnableWal(c) \/ RetryWal(c)
               \/ LockTimeout(c) \/ StatementFails(c) \/ Crash(c)
      PROVE  Building'
  <2>1. CASE Connect(c)
    BY <1>0, <2>1, Outside DEF Connect, fileVars, Initializing
  <2>2. CASE FindWal(c)
    BY <1>0, <2>2, Outside DEF FindWal, fileVars, Initializing
  <2>3. CASE StartWal(c)
    BY <1>0, <2>3, Outside DEF StartWal, fileVars, Initializing
  <2>4. CASE EnableWal(c)
    BY <1>0, <2>4, Outside DEF EnableWal, Initializing
  <2>5. CASE RetryWal(c)
    <3>1. CASE attempts[c] + 1 = MaxAttempts
      BY <1>0, <2>5, <3>1, FinishBuilding DEF RetryWal, Refuse
    <3>2. CASE attempts[c] + 1 # MaxAttempts
      BY <1>0, <2>5, <3>2
         DEF RetryWal, fileVars, Building, BuildingAt, Built, Rebuilt
    <3>3. QED
      BY <3>1, <3>2
  <2>6. CASE LockTimeout(c)
    BY <1>0, <2>6, FinishBuilding DEF LockTimeout, Refuse
  <2>7. CASE StatementFails(c)
    BY <1>0, <2>7, FinishBuilding DEF StatementFails
  <2>8. CASE Crash(c)
    BY <1>0, <2>8, FinishBuilding DEF Crash, Refuse
  <2>9. QED
    BY <1>2, <2>1, <2>2, <2>3, <2>4, <2>5, <2>6, <2>7, <2>8
<1>3. ASSUME NEW c \in Clients, BeginImmediate(c)
      PROVE  Building'
  <2>1. /\ lock = NoClient /\ Goto(c, "begun") /\ phase'[c] = "begun"
        /\ work' = [schema |-> schema, db |-> db] /\ UNCHANGED <<db, schema>>
    BY <1>0, <1>3 DEF BeginImmediate, fileVars, Goto, SchemaTypeOK
  <2>2. BuildingAt(c)'
    BY <2>1 DEF BuildingAt
  <2>3. QED
    BY <1>0, <2>1, <2>2, Solo
<1>4. ASSUME NEW c \in Clients, Inspect(c)
      PROVE  Building'
  <2> DEFINE answer == RequiresFreshSchema(work.schema)
  <2>1. phase[c] = "begun" /\ lock = c /\ work.schema = schema /\ work.db = db
    BY <1>1, <1>4 DEF Inspect, BuildingAt, Initializing
  <2>2. CASE answer = "RepositoryCorruption"
    BY <1>0, <1>4, <2>2, FinishBuilding DEF Inspect, Refuse
  <2>3. CASE answer = "fresh"
    <3>1. schema = NoSchema
      BY <2>1, <2>3, KnownFile DEF RequiresFreshSchema
    <3>2. Goto(c, "creating") /\ UNCHANGED <<db, schema, work>>
      BY <1>4, <2>3 DEF Inspect, fileVars
    <3>3. phase'[c] = "creating"
      BY <1>0, <3>2 DEF Goto, SchemaTypeOK
    <3>4. BuildingAt(c)'
      BY <2>1, <3>1, <3>2, <3>3 DEF BuildingAt, Built
    <3>5. QED
      BY <1>0, <2>1, <3>2, <3>4, Solo
  <2>4. CASE answer = "initialized"
    <3>1. schema.versions = {1} /\ schema.tables = CoreTables
      BY <2>1, <2>4 DEF RequiresFreshSchema
    <3>2. Goto(c, "migrating") /\ UNCHANGED <<db, schema, work>>
      BY <1>4, <2>4 DEF Inspect, fileVars
    <3>3. phase'[c] = "migrating"
      BY <1>0, <3>2 DEF Goto, SchemaTypeOK
    <3>4. BuildingAt(c)'
      BY <2>1, <3>1, <3>2, <3>3 DEF BuildingAt
    <3>5. QED
      BY <1>0, <2>1, <3>2, <3>4, Solo
  <2>5. answer \in {"RepositoryCorruption", "fresh", "initialized"}
    BY DEF RequiresFreshSchema
  <2>6. QED
    BY <2>2, <2>3, <2>4, <2>5
<1>5. ASSUME NEW c \in Clients, RebuildLineage(c)
      PROVE  Building'
  <2>1. /\ phase[c] = "migrating" /\ lock = c /\ work.schema = schema /\ work.db = db
        /\ schema.versions = {1} /\ schema.tables = CoreTables
    BY <1>1, <1>5 DEF RebuildLineage, BuildingAt, Initializing
  <2>2. CASE work.schema.lineage = "current"
    <3>1. schema = Complete
      BY <2>1, <2>2, KnownFile
    <3>2. Goto(c, "creating") /\ UNCHANGED <<db, schema, work>>
      BY <1>5, <2>2 DEF RebuildLineage, fileVars
    <3>3. phase'[c] = "creating"
      BY <1>0, <3>2 DEF Goto, SchemaTypeOK
    <3>4. BuildingAt(c)'
      BY <2>1, <3>1, <3>2, <3>3, Catalogs DEF BuildingAt, Built
    <3>5. QED
      BY <1>0, <2>1, <3>2, <3>4, Solo
  <2>3. CASE work.schema.lineage = "legacy" /\ Insertable(work.db)
    <3>1. schema = Legacy
      BY <2>1, <2>3, KnownFile
    <3>2. /\ Goto(c, "rebuilt") /\ UNCHANGED <<db, schema>>
          /\ work' = [schema |-> [schema EXCEPT !.lineage = "current"],
                      db |-> [db EXCEPT !.memory_sources = MigratedSources(db)]]
      BY <1>5, <2>1, <2>3 DEF RebuildLineage, fileVars
    <3>3. phase'[c] = "rebuilt"
      BY <1>0, <3>2 DEF Goto, SchemaTypeOK
    <3>4. [schema EXCEPT !.lineage = "current"] = Complete
      <4>1. schema = [versions |-> {1}, tables |-> CoreTables, lineage |-> "legacy"]
        BY <3>1, Catalogs
      <4>2. QED
        BY <4>1 DEF Complete
    <3>5. BuildingAt(c)'
      BY <2>1, <2>3, <3>1, <3>2, <3>3, <3>4 DEF BuildingAt, Rebuilt
    <3>6. QED
      BY <1>0, <2>1, <3>2, <3>5, Solo
  <2>4. CASE ~(work.schema.lineage = "legacy" /\ Insertable(work.db))
             /\ work.schema.lineage # "current"
    BY <1>0, <1>5, <2>4, FinishBuilding DEF RebuildLineage, Refuse
  <2>5. QED
    BY <2>2, <2>3, <2>4
<1>6. ASSUME NEW c \in Clients, DropLegacy(c)
      PROVE  Building'
  <2>1. /\ phase[c] = "rebuilt" /\ lock = c
        /\ schema = Legacy /\ work.schema = Complete /\ Insertable(db) /\ work.db = Rebuilt
    BY <1>1, <1>6 DEF DropLegacy, BuildingAt, Initializing
  <2>2. CASE Cardinality(DOMAIN work.db.memory_sources) = Cardinality(DOMAIN db.memory_sources)
    <3>1. work.db.memory_sources = MigratedSources(db)
      BY <1>0, <2>1 DEF Rebuilt, SchemaTypeOK, IsDb
    <3>2. IsFiniteSet(DOMAIN db.memory_sources)
      BY <2>1, KnownFile
    <3>3. Migratable(db)
      BY <2>1, <2>2, <3>1, <3>2, CountIsComplete
    <3>4. Goto(c, "creating") /\ UNCHANGED <<db, schema, work>>
      BY <1>6, <2>2 DEF DropLegacy, fileVars
    <3>5. phase'[c] = "creating"
      BY <1>0, <3>4 DEF Goto, SchemaTypeOK
    <3>6. Migratable(db)' /\ Rebuilt' = Rebuilt
      BY <3>3, <3>4 DEF Rebuilt
    <3>7. BuildingAt(c)'
      BY <2>1, <3>4, <3>5, <3>6, Catalogs DEF BuildingAt, Built
    <3>8. QED
      BY <1>0, <2>1, <3>4, <3>7, Solo
  <2>3. CASE Cardinality(DOMAIN work.db.memory_sources) # Cardinality(DOMAIN db.memory_sources)
    BY <1>0, <1>6, <2>3, FinishBuilding DEF DropLegacy, Refuse
  <2>4. QED
    BY <2>2, <2>3
<1>7. ASSUME NEW c \in Clients, CreateTables(c)
      PROVE  Building'
  <2>1. /\ phase[c] = "creating" /\ lock = c /\ Built
        /\ work.schema = IF schema = NoSchema THEN NoSchema ELSE Complete
    BY <1>1, <1>7 DEF CreateTables, BuildingAt, Initializing
  <2>2. /\ Goto(c, "created") /\ UNCHANGED <<db, schema>>
        /\ work' = [work EXCEPT !.schema.tables = CoreTables, !.schema.lineage = "current"]
    BY <1>7 DEF CreateTables, fileVars
  <2>3. work.db' = work.db
        /\ work.schema' = [work.schema EXCEPT !.tables = CoreTables, !.lineage = "current"]
    BY <1>0, <2>2 DEF SchemaTypeOK
  <2>4. work.schema' \in {Complete, [Complete EXCEPT !.versions = {}]}
    <3> DEFINE made(s) == [s EXCEPT !.tables = CoreTables, !.lineage = "current"]
    <3>0. ASSUME NEW v, NEW t, NEW l, NEW s, s = [versions |-> v, tables |-> t, lineage |-> l],
                 NEW g, g = made(s)
          PROVE  g = [versions |-> v, tables |-> CoreTables, lineage |-> "current"]
      BY <3>0
    <3>m. work.schema' = made(work.schema)
      BY <2>3
    <3> HIDE DEF made
    <3>1. CASE work.schema = NoSchema
      <4>1. work.schema' = [versions |-> {}, tables |-> CoreTables, lineage |-> "current"]
        BY <3>m, <3>0, <3>1 DEF NoSchema
      <4>2. QED
        BY <4>1 DEF Complete
    <3>2. CASE work.schema = Complete
      <4>1. work.schema' = [versions |-> {1}, tables |-> CoreTables, lineage |-> "current"]
        BY <3>m, <3>0, <3>2 DEF Complete
      <4>2. QED
        BY <4>1 DEF Complete
    <3>3. QED
      BY <2>1, <3>1, <3>2
  <2>5. phase'[c] = "created"
    BY <1>0, <2>2 DEF Goto, SchemaTypeOK
  <2>6. Built'
    BY <2>1, <2>2, <2>3 DEF Built, Rebuilt
  <2>7. BuildingAt(c)'
    BY <2>4, <2>5, <2>6 DEF BuildingAt
  <2>8. QED
    BY <1>0, <2>1, <2>2, <2>7, Solo
<1>8. ASSUME NEW c \in Clients, Stamp(c)
      PROVE  Building'
  <2>1. /\ phase[c] = "created" /\ lock = c /\ Built
        /\ work.schema \in {Complete, [Complete EXCEPT !.versions = {}]}
    BY <1>1, <1>8 DEF Stamp, BuildingAt, Initializing
  <2>2. /\ Goto(c, "stamped") /\ UNCHANGED <<db, schema>>
        /\ work' = [work EXCEPT !.schema.versions = work.schema.versions \cup {1}]
    BY <1>8 DEF Stamp, fileVars
  <2>3. work.db' = work.db
        /\ work.schema' = [work.schema EXCEPT !.versions = work.schema.versions \cup {1}]
    BY <1>0, <2>2 DEF SchemaTypeOK
  <2>4. work.schema' = Complete
    <3>1. {1} \cup {1} = {1} /\ {} \cup {1} = {1}
      OBVIOUS
    <3>2. QED
      BY <2>1, <2>3, <3>1 DEF Complete
  <2>5. phase'[c] = "stamped"
    BY <1>0, <2>2 DEF Goto, SchemaTypeOK
  <2>6. Built'
    BY <2>1, <2>2, <2>3 DEF Built, Rebuilt
  <2>7. BuildingAt(c)'
    BY <2>4, <2>5, <2>6 DEF BuildingAt
  <2>8. QED
    BY <1>0, <2>1, <2>2, <2>7, Solo
<1>9. ASSUME NEW c \in Clients, Commit(c)
      PROVE  Building'
  <2>1. lock = c /\ Goto(c, "open") /\ "open" \notin Initializing
    BY <1>1, <1>9 DEF Commit, Initializing
  <2>2. QED
    BY <1>0, <2>1, Outside
<1>10. ASSUME NEW c \in Clients, BeginOperation(c)
       PROVE  Building'
  BY <1>0, <1>10, Outside DEF BeginOperation, fileVars, Initializing
<1>11. ASSUME NEW c \in Clients, Operate(c)
       PROVE  Building'
  <2>1. lock = c
    BY <1>0, <1>11 DEF Operate, SchemaTypeOK
  <2>2. CASE schema.versions = {1}
    BY <1>0, <1>11, <2>1, <2>2, Outside DEF Operate, Initializing
  <2>3. CASE schema.versions # {1}
    BY <1>0, <1>11, <2>3, FinishBuilding DEF Operate
  <2>4. QED
    BY <2>2, <2>3
<1>12. ASSUME Upgrade
       PROVE  Building'
  <2>1. ASSUME NEW c \in Clients
        PROVE  phase'[c] \notin Initializing
    BY <1>0, <1>12, OpenerAssumption DEF Upgrade, SchemaTypeOK
  <2>2. QED
    BY <2>1 DEF Building, BuildingAt, Initializing
<1>13. QED
  BY <1>2, <1>3, <1>4, <1>5, <1>6, <1>7, <1>8, <1>9, <1>10, <1>11, <1>12
     DEF SchemaNext, Step

-----------------------------------------------------------------------------
(* What a step does to the file.                                           *)

Committing ==
    /\ Built /\ work.schema = Complete
    /\ schema' = Complete /\ db' = work.db
Operating == schema = Complete /\ schema' = schema /\ Next
Upgrading == schema = Complete /\ schema' \in Upgraded /\ db' = db

\* A step leaves the file alone, commits what was built, performs one operation
\* of Store on a complete file, or raises the version of one.
LEMMA FileChanges ==
    ASSUME SchemaInv, SchemaNext
    PROVE  /\ \/ UNCHANGED <<db, schema>>
              \/ Committing \/ Operating \/ Upgrading
           /\ found' = found
<1>0. SchemaTypeOK /\ Building /\ OpenMeansComplete
  BY DEF SchemaInv
<1>1. ASSUME NEW c \in Clients, Commit(c)
      PROVE  Committing /\ found' = found
  <2>1. phase[c] = "stamped"
    BY <1>1 DEF Commit
  <2>2. Built /\ work.schema = Complete
    BY <1>0, <2>1 DEF Building, BuildingAt
  <2>3. QED
    BY <1>1, <2>2 DEF Commit, Committing
<1>2. ASSUME NEW c \in Clients, Operate(c)
      PROVE  (Operating \/ UNCHANGED <<db, schema>>) /\ found' = found
  <2>1. schema \in {Complete} \cup Upgraded
    BY <1>0, <1>2 DEF Operate, OpenMeansComplete
  <2>2. CASE schema.versions = {1}
    BY <1>2, <2>1, <2>2, Catalogs DEF Operate, Operating
  <2>3. CASE schema.versions # {1}
    BY <1>2, <2>3 DEF Operate, Finish, fileVars
  <2>4. QED
    BY <2>2, <2>3
<1>3. ASSUME Upgrade
      PROVE  Upgrading /\ found' = found
  BY <1>3 DEF Upgrade, Upgrading, Upgraded
<1>4. ASSUME NEW c \in Clients,
             Connect(c) \/ FindWal(c) \/ StartWal(c) \/ EnableWal(c) \/ RetryWal(c)
               \/ BeginImmediate(c) \/ LockTimeout(c) \/ BeginOperation(c)
               \/ StatementFails(c) \/ Crash(c)
      PROVE  UNCHANGED <<db, schema>> /\ found' = found
  BY <1>4 DEF Connect, FindWal, StartWal, EnableWal, RetryWal, BeginImmediate,
              LockTimeout, BeginOperation, StatementFails, Crash, Refuse, Finish, fileVars
<1>5. ASSUME NEW c \in Clients,
             Inspect(c) \/ RebuildLineage(c) \/ DropLegacy(c) \/ CreateTables(c) \/ Stamp(c)
      PROVE  UNCHANGED <<db, schema>> /\ found' = found
  BY <1>5 DEF Inspect, RebuildLineage, DropLegacy, CreateTables, Stamp, Refuse,
              Finish, fileVars
<1>6. QED
  BY <1>1, <1>2, <1>3, <1>4, <1>5 DEF SchemaNext, Step

\* Only a commit opens a repository, and who had one keeps it.
LEMMA WhoIsOpen ==
    ASSUME SchemaTypeOK, SchemaNext, NEW c \in Clients,
           phase'[c] \in {"open", "operating"}
    PROVE  phase[c] \in {"open", "operating"} \/ Commit(c)
<1>1. ASSUME NEW x \in Clients, x # c, Connect(x) \/ Step(x) \/ BeginOperation(x)
               \/ StatementFails(x) \/ Crash(x)
      PROVE  phase'[c] = phase[c]
  <2>1. ASSUME NEW next, Goto(x, next)
        PROVE  phase'[c] = phase[c]
    BY <1>1, <2>1 DEF Goto, SchemaTypeOK
  <2>2. phase' = phase \/ \E next : Goto(x, next)
    <3>1. CASE Connect(x) \/ BeginOperation(x) \/ StatementFails(x) \/ Crash(x)
      BY <3>1 DEF Connect, BeginOperation, StatementFails, Crash, Refuse, Finish
    <3>2. CASE FindWal(x) \/ StartWal(x) \/ EnableWal(x) \/ RetryWal(x)
                 \/ BeginImmediate(x) \/ LockTimeout(x) \/ Operate(x)
      BY <3>2 DEF FindWal, StartWal, EnableWal, RetryWal, BeginImmediate, LockTimeout,
                  Operate, Refuse, Finish
    <3>3. CASE Inspect(x) \/ RebuildLineage(x) \/ DropLegacy(x) \/ CreateTables(x)
                 \/ Stamp(x) \/ Commit(x)
      BY <3>3 DEF Inspect, RebuildLineage, DropLegacy, CreateTables, Stamp, Commit,
                  Refuse, Finish
    <3>4. QED
      BY <1>1, <3>1, <3>2, <3>3 DEF Step
  <2>3. QED
    BY <2>1, <2>2
<1>2. ASSUME NEW next, Goto(c, next)
      PROVE  phase'[c] = next
  BY <1>2 DEF Goto, SchemaTypeOK
<1>3. CASE Connect(c) \/ BeginOperation(c) \/ StatementFails(c) \/ Crash(c)
  BY <1>2, <1>3 DEF Connect, BeginOperation, StatementFails, Crash, Refuse, Finish
<1>4. CASE FindWal(c) \/ StartWal(c) \/ EnableWal(c) \/ RetryWal(c)
             \/ BeginImmediate(c) \/ LockTimeout(c) \/ Operate(c)
  BY <1>2, <1>4 DEF FindWal, StartWal, EnableWal, RetryWal, BeginImmediate, LockTimeout,
              Operate, Refuse, Finish
<1>5. CASE Inspect(c) \/ RebuildLineage(c) \/ DropLegacy(c) \/ CreateTables(c) \/ Stamp(c)
  BY <1>2, <1>5 DEF Inspect, RebuildLineage, DropLegacy, CreateTables, Stamp,
              Refuse, Finish
<1>6. CASE Upgrade
  BY <1>6 DEF Upgrade
<1>7. QED
  BY <1>1, <1>3, <1>4, <1>5, <1>6 DEF SchemaNext, Step

\* The file stays as it was found until it is complete, and is complete for all
\* who have opened it.
LEMMA FileNext ==
    ASSUME SchemaInv, SchemaNext
    PROVE  FileIntact' /\ OpenMeansComplete'
<1>0. SchemaTypeOK /\ FileIntact /\ OpenMeansComplete /\ Building
  BY DEF SchemaInv
<1>1. found' = found
  BY FileChanges
<1>2. CASE UNCHANGED <<db, schema>>
  <2>1. FileIntact'
    BY <1>0, <1>1, <1>2 DEF FileIntact, Openable, Migratable
  <2>2. ASSUME NEW c \in Clients, phase'[c] \in {"open", "operating"}
        PROVE  schema' \in {Complete} \cup Upgraded
    <3>1. CASE phase[c] \in {"open", "operating"}
      BY <1>0, <1>2, <3>1 DEF OpenMeansComplete
    <3>2. CASE Commit(c)
      BY <1>0, <3>2 DEF Commit, Building, BuildingAt
    <3>3. QED
      BY <1>0, <2>2, <3>1, <3>2, WhoIsOpen
  <2>3. QED
    BY <2>1, <2>2 DEF OpenMeansComplete
<1>3. ASSUME Committing \/ Operating \/ Upgrading
      PROVE  schema' \in {Complete} \cup Upgraded /\ Openable(found)
  <2>1. CASE Committing
    <3>1. CASE schema \in {NoSchema, Complete}
      BY <2>1, <3>1, KnownFile DEF Committing
    <3>2. CASE schema = Legacy /\ Migratable(db)
      BY <2>1, <3>2, KnownFile DEF Committing, Openable, Legacy
    <3>3. QED
      BY <2>1, <3>1, <3>2 DEF Committing, Built
  <2>2. CASE Operating \/ Upgrading
    BY <2>2, KnownFile DEF Operating, Upgrading
  <2>3. QED
    BY <1>3, <2>1, <2>2
<1>4. ASSUME schema' \in {Complete} \cup Upgraded, Openable(found)
      PROVE  FileIntact' /\ OpenMeansComplete'
  <2>1. Openable(found)'
    BY <1>1, <1>4
  <2>2. QED
    BY <1>4, <2>1 DEF FileIntact, OpenMeansComplete
<1>5. QED
  BY <1>2, <1>3, <1>4, FileChanges

-----------------------------------------------------------------------------
(* Theorems.                                                               *)

\* The invariant holds at the start: nobody holds the file, nobody builds.
LEMMA InvInit ==
    ASSUME SchemaInit
    PROVE  SchemaInv
<1>1. SchemaTypeOK /\ found \in FoundFiles
  BY InitType DEF SchemaInit
<1>2. FileIntact
  <2>1. schema = found.schema /\ db = found.db
    BY DEF SchemaInit
  <2>2. QED
    BY <2>1 DEF FileIntact
<1>3. OpenMeansComplete /\ Building
  BY DEF SchemaInit, OpenMeansComplete, Building, BuildingAt
<1>4. QED
  BY <1>1, <1>2, <1>3 DEF SchemaInv

\* Nothing changes in a stuttering step.
LEMMA InvStutter ==
    ASSUME SchemaInv, UNCHANGED schemaVars
    PROVE  SchemaInv'
<1>1. UNCHANGED <<db, schema, journal, lock, work, phase, attempts, outcome, found>>
  BY DEF schemaVars, fileVars
<1>2. SchemaTypeOK'
  BY <1>1 DEF SchemaInv, SchemaTypeOK
<1>3. FileIntact' /\ found' \in FoundFiles
  BY <1>1 DEF SchemaInv, FileIntact, Openable, Migratable
<1>4. OpenMeansComplete' /\ Building'
  BY <1>1 DEF SchemaInv, OpenMeansComplete, Building, BuildingAt, Built, Rebuilt
<1>5. QED
  BY <1>2, <1>3, <1>4 DEF SchemaInv

\* The invariant of the openers.
LEMMA SchemaInvariant == SchemaSpec => []SchemaInv
<1>1. SchemaInit => SchemaInv
  BY InvInit
<1>2. ASSUME SchemaInv, [SchemaNext]_schemaVars
      PROVE  SchemaInv'
  <2>1. CASE SchemaNext
    <3>1. SchemaTypeOK'
      BY <2>1, TypeNext, <1>2 DEF SchemaInv
    <3>2. FileIntact' /\ OpenMeansComplete' /\ Building' /\ found' = found
      BY <1>2, <2>1, FileNext, BuildingNext, FileChanges
    <3>3. QED
      BY <1>2, <3>1, <3>2 DEF SchemaInv
  <2>2. CASE UNCHANGED schemaVars
    BY <1>2, <2>2, InvStutter
  <2>3. QED
    BY <1>2, <2>1, <2>2
<1>3. QED
  BY <1>1, <1>2, PTL DEF SchemaSpec

\* The file is held by exactly the client that is changing it, and every opener
\* counts its attempts up to the bound.
THEOREM OpenersTyped == SchemaSpec => []SchemaTypeOK
<1>1. SchemaInv => SchemaTypeOK
  BY DEF SchemaInv
<1>2. QED
  BY <1>1, SchemaInvariant, PTL

\* However many openers compete, crash and fail: the file is as it was found or
\* complete, and a file that is refused is left alone.
THEOREM HalfSchemaNeverSeen == SchemaSpec => []FileIntact
<1>1. SchemaInv => FileIntact
  BY DEF SchemaInv
<1>2. QED
  BY <1>1, SchemaInvariant, PTL

\* A constructor that returned has made its schema durable.
THEOREM OpenedIsComplete == SchemaSpec => []OpenMeansComplete
<1>1. SchemaInv => OpenMeansComplete
  BY DEF SchemaInv
<1>2. QED
  BY <1>1, SchemaInvariant, PTL

\* A file of another version is never written to.
THEOREM NewerFilesUntouched == SchemaSpec => OtherVersionUntouched
<1>1. ASSUME SchemaInv, [SchemaNext]_schemaVars, schema.versions \notin {{}, {1}}
      PROVE  db' = db /\ schema' = schema
  <2>1. CASE UNCHANGED schemaVars
    BY <2>1 DEF schemaVars, fileVars
  <2>2. CASE SchemaNext
    <3>1. schema \notin {NoSchema, Complete, Legacy}
      BY <1>1, Catalogs
    <3>2. ~Committing /\ ~Operating /\ ~Upgrading
      BY <3>1 DEF Committing, Built, Operating, Upgrading
    <3>3. QED
      BY <1>1, <2>2, <3>2, FileChanges
  <2>3. QED
    BY <1>1, <2>1, <2>2
<1>2. SchemaInv /\ [SchemaNext]_schemaVars =>
        [schema.versions \notin {{}, {1}} => db' = db /\ schema' = schema]_fileVars
  BY <1>1
<1>3. QED
  BY <1>2, SchemaInvariant, PTL DEF SchemaSpec, OtherVersionUntouched

-----------------------------------------------------------------------------
(* A migrated store is as consistent as it was.                            *)

\* The rows with their snapshots, as every reader after the migration has them.
Migrated ==
    Sound(Lift(found.db)) =>
        Sound(Lift(db)) /\ (schema = Complete => Lift(db) = db)

\* Where no edge lacks its snapshot there is nothing to fill in.
LEMMA LiftNothing ==
    ASSUME NEW d, IsDb(d), NEW K, NEW R, IsTable(d.memory_sources, K, R),
           \A e \in DOMAIN d.memory_sources : d.memory_sources[e] # Null
    PROVE  Lift(d) = d
<1>1. [e \in DOMAIN d.memory_sources |->
          IF d.memory_sources[e] = Null /\ <<e[1], e[3]>> \in DOMAIN d.raw_events
          THEN SnapshotOf(d.raw_events[<<e[1], e[3]>>]) ELSE d.memory_sources[e]]
        = d.memory_sources
  BY DEF IsTable
<1>2. [d EXCEPT !.memory_sources = d.memory_sources] = d
  BY DEF IsDb
<1>3. QED
  BY <1>1, <1>2 DEF Lift

\* A well-typed store has its snapshots.
LEMMA LiftTyped ==
    ASSUME NEW d, DbType(d)
    PROVE  Lift(d) = d
<1>1. \A e \in DOMAIN d.memory_sources : d.memory_sources[e] # Null
  BY SnapshotAssumption DEF DbType, IsTable
<1>2. QED
  BY <1>1, LiftNothing DEF DbType

\* The migration fills in what Lift does, and leaves nothing to fill in.
LEMMA LiftRebuilt ==
    ASSUME IsDb(db), Migratable(db),
           \A e \in DOMAIN db.memory_sources : db.memory_sources[e] = Null
    PROVE  Lift(db) = Rebuilt /\ Lift(Rebuilt) = Rebuilt
<1> DEFINE receipt(e) == SnapshotOf(db.raw_events[<<e[1], e[3]>>])
           edges == [e \in DOMAIN db.memory_sources |-> receipt(e)]
<1>1. Joined(db) = DOMAIN db.memory_sources
  BY DEF Joined, Migratable
<1>2. MigratedSources(db) = edges
  BY <1>1 DEF MigratedSources
<1>3. Lift(db) = [db EXCEPT !.memory_sources = edges]
  BY DEF Lift, Migratable
<1>4. Rebuilt = [db EXCEPT !.memory_sources = edges]
  BY <1>2 DEF Rebuilt
<1>5. /\ IsDb(Rebuilt) /\ Rebuilt.memory_sources = edges
      /\ Rebuilt.raw_events = db.raw_events
  BY <1>4 DEF IsDb
<1>6. [e \in DOMAIN edges |->
          IF edges[e] = Null /\ <<e[1], e[3]>> \in DOMAIN db.raw_events
          THEN receipt(e) ELSE edges[e]] = edges
  OBVIOUS
<1>7. Lift(Rebuilt) = [Rebuilt EXCEPT !.memory_sources = edges]
  BY <1>5, <1>6 DEF Lift
<1>8. QED
  BY <1>3, <1>4, <1>5, <1>7 DEF IsDb

\* A file of this release, or a new one, is found with all its snapshots.
LEMMA LiftFound ==
    ASSUME found \in FoundFiles, found.schema.lineage # "legacy"
    PROVE  Lift(found.db) = found.db
<1>1. /\ IsDb(found.db)
      /\ IsTable(found.db.memory_sources, Scopes \X Ids \X Ids, Snapshot \cup {Null})
      /\ \A e \in DOMAIN found.db.memory_sources : found.db.memory_sources[e] # Null
  BY FoundAssumption
<1>2. QED
  BY <1>1, LiftNothing

\* A commit changes no row but for the snapshots, and leaves none to fill in.
LEMMA CommitLifts ==
    ASSUME SchemaInv, Migrated, Committing, Sound(Lift(found.db))
    PROVE  Lift(work.db) = Lift(db) /\ Lift(work.db) = work.db
<1>0. FileIntact /\ found \in FoundFiles /\ IsDb(db)
  BY DEF SchemaInv, SchemaTypeOK
<1>1. CASE schema = NoSchema /\ work.db = db
  <2>1. schema \notin {Complete} \cup Upgraded
    BY <1>1, Catalogs
  <2>2. found.schema = NoSchema /\ db = found.db
    BY <1>0, <1>1, <2>1 DEF FileIntact
  <2>3. Lift(db) = db
    BY <1>0, <2>2, LiftFound, Catalogs
  <2>4. QED
    BY <1>1, <2>3
<1>2. CASE schema = Complete /\ work.db = db
  BY <1>2 DEF Migrated
<1>3. CASE schema = Legacy /\ Migratable(db) /\ work.db = Rebuilt
  <2>1. db = found.db /\ found.schema = Legacy
    BY <1>3, KnownFile
  <2>2. found.schema.lineage = "legacy"
    BY <2>1, Catalogs
  <2>3. \A e \in DOMAIN db.memory_sources : db.memory_sources[e] = Null
    BY <1>0, <2>1, <2>2, FoundAssumption
  <2>4. QED
    BY <1>0, <1>3, <2>3, LiftRebuilt
<1>4. QED
  BY <1>1, <1>2, <1>3 DEF Committing, Built

\* Every step keeps the rows sound: a commit because it changes only snapshots,
\* an operation because Store keeps its rows consistent.
LEMMA MigratedNext ==
    ASSUME SchemaInv, Migrated, SchemaNext
    PROVE  Migrated'
<1>0. found' = found
  BY FileChanges
<1>1. SUFFICES ASSUME Sound(Lift(found.db))
               PROVE  Sound(Lift(db))' /\ (schema' = Complete => Lift(db)' = db')
  BY <1>0 DEF Migrated
<1>2. Sound(Lift(db)) /\ (schema = Complete => Lift(db) = db)
  BY <1>1 DEF Migrated
<1>3. CASE UNCHANGED <<db, schema>>
  <2>1. Lift(db)' = Lift(db)
    BY <1>3
  <2>2. QED
    BY <1>2, <1>3, <2>1
<1>4. CASE Committing
  <2>1. db' = work.db /\ Lift(work.db) = Lift(db) /\ Lift(work.db) = work.db
    BY <1>1, <1>4, CommitLifts DEF Committing
  <2>2. Lift(db)' = Lift(work.db)
    BY <2>1
  <2>3. QED
    BY <1>2, <2>1, <2>2
<1>5. CASE Operating
  <2>1. TypeOK /\ Consistent
    BY <1>2, <1>5 DEF Operating, Sound, TypeOK, Consistent
  <2>2. TypeOK' /\ Consistent'
    BY <1>5, <2>1, InductiveStep DEF Operating
  <2>3. DbType(db') /\ DbConsistent(db')
    BY <2>2 DEF TypeOK, Consistent
  <2>4. Lift(db') = db'
    BY <2>3, LiftTyped
  <2>5. Lift(db)' = Lift(db')
    OBVIOUS
  <2>6. QED
    BY <2>3, <2>4, <2>5 DEF Sound
<1>6. CASE Upgrading
  <2>1. Lift(db)' = Lift(db)
    BY <1>6 DEF Upgrading
  <2>2. schema' # Complete
    BY <1>6, Catalogs DEF Upgrading
  <2>3. QED
    BY <1>2, <2>1, <2>2
<1>7. QED
  BY <1>3, <1>4, <1>5, <1>6, FileChanges

\* The lifted rows are sound throughout.
LEMMA MigratedInvariant == SchemaSpec => []Migrated
<1>1. ASSUME SchemaInit
      PROVE  Migrated
  <2>1. schema = found.schema /\ db = found.db /\ found \in FoundFiles
    BY <1>1 DEF SchemaInit
  <2>2. schema = Complete => Lift(db) = db
    BY <2>1, LiftFound, Catalogs
  <2>3. QED
    BY <2>1, <2>2 DEF Migrated
<1>2. ASSUME SchemaInv, Migrated, [SchemaNext]_schemaVars
      PROVE  Migrated'
  <2>1. CASE UNCHANGED schemaVars
    BY <1>2, <2>1 DEF schemaVars, fileVars, Migrated
  <2>2. QED
    BY <1>2, <2>1, MigratedNext
<1>3. QED
  BY <1>1, <1>2, SchemaInvariant, PTL DEF SchemaSpec

\* A store that is consistent stays so through the migration and after it,
\* whoever opens it, crashes, and works with it.
THEOREM MigrationConsistent == SchemaSpec => []ConsistencyKept
<1>1. Migrated => ConsistencyKept
  BY DEF Migrated, ConsistencyKept
<1>2. QED
  BY <1>1, MigratedInvariant, PTL

-----------------------------------------------------------------------------
(* Openers do not make each other fail.                                    *)

\* No step reports that a file that can be opened is corrupt.
LEMMA NoRefusalStep ==
    ASSUME SchemaInv, SchemaNext, DiskFaults = FALSE, Openable(found),
           schema \notin Upgraded, NEW c \in Clients,
           outcome[c] # "RepositoryCorruption"
    PROVE  outcome'[c] # "RepositoryCorruption"
<1>0. SchemaTypeOK /\ Building /\ FileIntact /\ OpenMeansComplete /\ found \in FoundFiles
  BY DEF SchemaInv
<1>1. schema \in {NoSchema, Complete, Legacy} /\ (schema = Legacy => Migratable(db))
  <2>1. CASE schema = Complete
    BY <2>1, Catalogs
  <2>2. CASE schema # Complete
    <3>1. schema = found.schema /\ db = found.db
      BY <1>0, <2>2 DEF FileIntact
    <3>2. QED
      BY <2>2, <3>1, Catalogs DEF Openable, Legacy
  <2>3. QED
    BY <2>1, <2>2
<1>2. ASSUME NEW x \in Clients, NEW next, NEW result, Finish(x, next, result),
             result # "RepositoryCorruption"
      PROVE  outcome'[c] # "RepositoryCorruption"
  BY <1>0, <1>2 DEF Finish, SchemaTypeOK
<1>3. ASSUME NEW x \in Clients, NEW result,
             outcome' = outcome \/ outcome' = [outcome EXCEPT ![x] = result],
             result # "RepositoryCorruption"
      PROVE  outcome'[c] # "RepositoryCorruption"
  BY <1>0, <1>3 DEF SchemaTypeOK
<1>4. ASSUME NEW x \in Clients, Inspect(x)
      PROVE  outcome'[c] # "RepositoryCorruption"
  <2>1. work.schema = schema
    BY <1>0, <1>4 DEF Inspect, Building, BuildingAt
  <2>2. RequiresFreshSchema(work.schema) # "RepositoryCorruption"
    BY <1>1, <2>1, Catalogs DEF RequiresFreshSchema
  <2>3. QED
    BY <1>4, <2>2 DEF Inspect
<1>5. ASSUME NEW x \in Clients, RebuildLineage(x)
      PROVE  outcome'[c] # "RepositoryCorruption"
  <2>1. work.schema = schema /\ work.db = db /\ schema.versions = {1}
    BY <1>0, <1>5 DEF RebuildLineage, Building, BuildingAt
  <2>2. schema \in {Complete, Legacy}
    BY <1>1, <2>1, Catalogs
  <2>3. schema = Legacy => Insertable(db)
    BY <1>1 DEF Migratable, Insertable, Joined
  <2>4. \/ work.schema.lineage = "current"
        \/ work.schema.lineage = "legacy" /\ Insertable(work.db)
    BY <2>1, <2>2, <2>3, Catalogs
  <2>5. QED
    BY <1>5, <2>4 DEF RebuildLineage
<1>6. ASSUME NEW x \in Clients, DropLegacy(x)
      PROVE  outcome'[c] # "RepositoryCorruption"
  <2>1. schema = Legacy /\ work.db = Rebuilt
    BY <1>0, <1>6 DEF DropLegacy, Building, BuildingAt
  <2>2. Joined(db) = DOMAIN db.memory_sources
    BY <1>1, <2>1 DEF Joined, Migratable
  <2>3. DOMAIN work.db.memory_sources = DOMAIN db.memory_sources
    BY <1>0, <2>1, <2>2 DEF Rebuilt, MigratedSources, SchemaTypeOK, IsDb
  <2>4. QED
    BY <1>6, <2>3 DEF DropLegacy
<1>7. ASSUME NEW x \in Clients, Operate(x)
      PROVE  outcome'[c] # "RepositoryCorruption"
  <2>1. schema = Complete
    BY <1>0, <1>7 DEF Operate, OpenMeansComplete
  <2>2. outcome' = [outcome EXCEPT ![x] = "done"]
    BY <1>7, <2>1, Catalogs DEF Operate
  <2>3. QED
    BY <1>3, <2>2
<1>8. ASSUME NEW x \in Clients,
             RetryWal(x) \/ LockTimeout(x) \/ StatementFails(x) \/ Crash(x)
      PROVE  outcome'[c] # "RepositoryCorruption"
  <2>1. CASE RetryWal(x)
    BY <1>2, <2>1 DEF RetryWal, Refuse
  <2>2. CASE LockTimeout(x)
    BY <1>2, <2>2 DEF LockTimeout, Refuse
  <2>3. CASE StatementFails(x)
    BY <2>3 DEF StatementFails
  <2>4. CASE Crash(x)
    BY <1>2, <2>4 DEF Crash, Refuse
  <2>5. QED
    BY <1>8, <2>1, <2>2, <2>3, <2>4
<1>9. ASSUME NEW x \in Clients,
             Connect(x) \/ FindWal(x) \/ StartWal(x) \/ EnableWal(x) \/ BeginImmediate(x)
               \/ CreateTables(x) \/ Stamp(x) \/ Commit(x) \/ BeginOperation(x)
      PROVE  outcome'[c] # "RepositoryCorruption"
  BY <1>3, <1>9 DEF Connect, FindWal, StartWal, EnableWal, BeginImmediate, CreateTables,
                    Stamp, Commit, BeginOperation
<1>10. CASE Upgrade
  BY <1>10 DEF Upgrade
<1>11. QED
  BY <1>4, <1>5, <1>6, <1>7, <1>8, <1>9, <1>10 DEF SchemaNext, Step

\* On a disk without faults a file that can be opened is never reported as
\* corrupt, however many open it at once.
THEOREM NoRefusal == SchemaSpec => []NoFalseRefusal
<1>1. SchemaInit => NoFalseRefusal
  BY DEF SchemaInit, NoFalseRefusal
<1>2. ASSUME SchemaInv, NoFalseRefusal, [SchemaNext]_schemaVars
      PROVE  NoFalseRefusal'
  <2>1. CASE UNCHANGED schemaVars
    BY <1>2, <2>1 DEF schemaVars, fileVars, NoFalseRefusal, Openable, Migratable
  <2>2. CASE SchemaNext
    <3>1. found' = found /\ (schema \in Upgraded => schema' \in Upgraded)
      <4>1. ASSUME schema \in Upgraded
            PROVE  schema \notin {NoSchema, Complete, Legacy}
        BY <4>1, Catalogs
      <4>2. QED
        BY <1>2, <2>2, <4>1, FileChanges DEF Committing, Built, Operating, Upgrading
    <3>2. SUFFICES ASSUME DiskFaults = FALSE, Openable(found)', schema' \notin Upgraded,
                          NEW c \in Clients
                   PROVE  outcome'[c] # "RepositoryCorruption"
      BY DEF NoFalseRefusal
    <3>3. Openable(found) /\ schema \notin Upgraded
      BY <3>1, <3>2
    <3>4. outcome[c] # "RepositoryCorruption"
      BY <1>2, <3>2, <3>3 DEF NoFalseRefusal
    <3>5. QED
      BY <1>2, <2>2, <3>2, <3>3, <3>4, NoRefusalStep
  <2>3. QED
    BY <1>2, <2>1, <2>2
<1>3. QED
  BY <1>1, <1>2, SchemaInvariant, PTL DEF SchemaSpec

-----------------------------------------------------------------------------
(* Opening loses nothing.                                                  *)

\* A receipt has the columns a snapshot is taken from, within their constraints.
Copyable(row) ==
    DOMAIN SnapshotOf(row) \subseteq DOMAIN row /\ SnapshotOf(row) \in Snapshot

\* What the columns of the two tables guarantee, however inconsistent the rows
\* are otherwise.
Constrained(d) == \A k \in DOMAIN d.raw_events : Copyable(d.raw_events[k])
Snapped(d) == IsTable(d.memory_sources, Scopes \X Ids \X Ids, Snapshot)

\* A file of this release or the earlier one keeps to its constraints, and no
\* edge of a complete file lacks its snapshot.
Rowwise ==
    /\ schema \in {NoSchema, Complete, Legacy} => Constrained(db)
    /\ schema = Complete => Snapped(db)

\* A row that changes at most in its status is copied as before.
LEMMA StatusCopyable ==
    ASSUME NEW row, Copyable(row), NEW status
    PROVE  Copyable([row EXCEPT !.status = status])
<1>1. DOMAIN SnapshotOf(row) = {"trust", "clear_for", "recall_for"}
  BY DEF SnapshotOf
<1>2. {"trust", "clear_for", "recall_for"} \subseteq DOMAIN row
  BY <1>1 DEF Copyable
<1>3. SnapshotOf([row EXCEPT !.status = status]) = SnapshotOf(row)
  BY <1>2 DEF SnapshotOf
<1>4. DOMAIN [row EXCEPT !.status = status] = DOMAIN row
  OBVIOUS
<1>5. QED
  BY <1>3, <1>4 DEF Copyable

\* Every operation writes rows within the constraints.
LEMMA NextRowwise ==
    ASSUME IsDb(db), Constrained(db), Snapped(db), Next
    PROVE  Constrained(db') /\ Snapped(db')
<1>1. ASSUME NEW draft \in EventDrafts, NEW now \in Clocks,
             IngestOutcome(db, draft) = "created", db' = IngestEffect(db, draft, now)
      PROVE  Constrained(db') /\ Snapped(db')
  <2> DEFINE key == EventKey(draft)
  <2>1. /\ db'.raw_events = Insert(db.raw_events, Row(key, NewEventRow(draft, now)))
        /\ db'.memory_sources = db.memory_sources
    BY <1>1 DEF IngestEffect, IsDb
  <2>2. NewEventRow(draft, now) \in EventRow
    BY <1>1, IngestCreated, NewEventRowType
  <2>3. \A row \in EventRow : Copyable(row)
    BY DEF EventRow, Copyable, SnapshotOf, Snapshot
  <2>4. \A k \in DOMAIN db'.raw_events :
          \/ k \in DOMAIN db.raw_events /\ db'.raw_events[k] = db.raw_events[k]
          \/ db'.raw_events[k] = NewEventRow(draft, now)
    BY <2>1 DEF Insert, Row
  <2>5. QED
    BY <2>1, <2>2, <2>3, <2>4 DEF Constrained, Snapped
<1>2. ASSUME NEW draft \in MemoryDrafts, MaterializeOutcome(db, draft) = "created",
             db' = MaterializeEffect(db, draft)
      PROVE  Constrained(db') /\ Snapped(db')
  <2>1. /\ db'.raw_events = db.raw_events
        /\ db'.memory_sources = Insert(db.memory_sources, NewLineage(db, draft))
    BY <1>2 DEF MaterializeEffect, IsDb
  <2>2. draft \in MemoryDraft /\ SourceIds(draft) \in SUBSET Ids
    BY DraftSources
  <2>3. \A x \in SourceIds(draft) :
          SnapshotOf(db.raw_events[<<draft.scope, x>>]) \in Snapshot
    BY <1>2, MaterializeCreated DEF Constrained, Copyable
  <2>4. \A x \in SourceIds(draft) :
          <<draft.scope, draft.memory_id, x>> \in Scopes \X Ids \X Ids
    BY <2>2 DEF MemoryDraft
  <2>5. IsTable(NewLineage(db, draft), Scopes \X Ids \X Ids, Snapshot)
    BY <2>3, <2>4 DEF NewLineage, IsTable
  <2>6. IsTable(Insert(db.memory_sources, NewLineage(db, draft)),
                Scopes \X Ids \X Ids, Snapshot)
    BY <2>5, InsertTable DEF Snapped
  <2>7. QED
    BY <2>1, <2>6 DEF Constrained, Snapped
<1>3. ASSUME NEW c \in GovernanceCommand, db' = GovernEffect(db, c)
      PROVE  Constrained(db') /\ Snapped(db')
  <2>1. ASSUME NEW g, IsDb(g), NEW log,
               Constrained(g), Snapped(g), db' = [g EXCEPT !.audit_log = log]
        PROVE  Constrained(db') /\ Snapped(db')
    BY <2>1 DEF IsDb, Constrained, Snapped
  <2>2. ASSUME NEW status, NEW g, g = SetStatus(db, c, status)
        PROVE  IsDb(g) /\ Constrained(g) /\ Snapped(g)
    BY <2>2 DEF SetStatus, IsDb, Constrained, Snapped
  <2>3. ASSUME NEW g, g = Erase(db, c)
        PROVE  IsDb(g) /\ Constrained(g) /\ Snapped(g)
    <3>1. PICK events, edges :
            /\ g.raw_events = Delete(db.raw_events, events)
            /\ g.memory_sources = Delete(db.memory_sources, edges)
      BY <2>3 DEF Erase, IsDb
    <3>2. Constrained(g)
      BY <3>1 DEF Constrained, Delete, Restrict
    <3>3. Snapped(g)
      <4>1. IsTable(Delete(db.memory_sources, edges), Scopes \X Ids \X Ids, Snapshot)
        BY DeleteTable DEF Snapped
      <4>2. QED
        BY <3>1, <4>1 DEF Snapped
    <3>4. IsDb(g)
      BY <2>3 DEF Erase, IsDb
    <3>5. QED
      BY <3>2, <3>3, <3>4
  <2>4. CASE c.action = "seal"
    BY <1>3, <2>1, <2>2, <2>4 DEF GovernEffect
  <2>5. CASE c.action = "restore"
    BY <1>3, <2>1, <2>2, <2>5 DEF GovernEffect
  <2>6. CASE c.action \notin {"seal", "restore"}
    BY <1>3, <2>1, <2>3, <2>6 DEF GovernEffect
  <2>7. QED
    BY <2>4, <2>5, <2>6
<1>4. ASSUME NEW as_of \in Sweeps, db' = ExpireEffect(db, as_of)
      PROVE  Constrained(db') /\ Snapped(db')
  <2>1. /\ db'.memory_sources = db.memory_sources
        /\ db'.raw_events = [key \in DOMAIN db.raw_events |->
             IF key \in Expirable(db, as_of)
             THEN [db.raw_events[key] EXCEPT !.status = "expired"]
             ELSE db.raw_events[key]]
    BY <1>4 DEF ExpireEffect, IsDb
  <2>2. ASSUME NEW key \in DOMAIN db.raw_events
        PROVE  Copyable(db'.raw_events[key])
    <3>1. Copyable(db.raw_events[key])
      BY DEF Constrained
    <3>2. Copyable([db.raw_events[key] EXCEPT !.status = "expired"])
      BY <3>1, StatusCopyable
    <3>3. QED
      BY <2>1, <3>1, <3>2
  <2>3. QED
    BY <2>1, <2>2 DEF Constrained, Snapped
<1>5. CASE db' = db
  BY <1>5
<1>6. QED
  BY <1>1, <1>2, <1>3, <1>4, <1>5
     DEF Next, IngestEvent, MaterializeOnce, Govern, ExpireRawContent

\* The rebuilt lineage has a snapshot for every edge.
LEMMA RebuiltRowwise ==
    ASSUME IsDb(db), Constrained(db), IsTable(db.memory_sources, Scopes \X Ids \X Ids,
                                              Snapshot \cup {Null})
    PROVE  Constrained(Rebuilt) /\ Snapped(Rebuilt)
<1>1. /\ Rebuilt.raw_events = db.raw_events
      /\ Rebuilt.memory_sources = MigratedSources(db)
  BY DEF Rebuilt, IsDb
<1>2. \A e \in Joined(db) :
        /\ e \in Scopes \X Ids \X Ids
        /\ SnapshotOf(db.raw_events[<<e[1], e[3]>>]) \in Snapshot
  BY DEF Joined, IsTable, Constrained, Copyable
<1>3. IsTable(MigratedSources(db), Scopes \X Ids \X Ids, Snapshot)
  BY <1>2 DEF MigratedSources, IsTable
<1>4. QED
  BY <1>1, <1>3 DEF Constrained, Snapped

\* A file in one of the three catalogs is found within the constraints.
LEMMA FoundRowwise ==
    ASSUME found \in FoundFiles, found.schema \in {NoSchema, Complete, Legacy}
    PROVE  /\ Constrained(found.db)
           /\ found.schema = Complete => Snapped(found.db)
           /\ IsTable(found.db.memory_sources, Scopes \X Ids \X Ids, Snapshot \cup {Null})
<1>1. found.schema = NoSchema => found.db = EmptyDb
  BY FoundAssumption, Catalogs
<1>2. Constrained(EmptyDb)
  BY DEF Constrained, EmptyDb, EmptyTable
<1>3. found.schema # NoSchema => Constrained(found.db)
  <2>1. ASSUME found.schema # NoSchema
        PROVE  found.schema.lineage \in {"legacy", "current"}
    BY <2>1, Catalogs
  <2>2. QED
    BY <2>1, FoundAssumption DEF Constrained, Copyable
<1>4. IsTable(found.db.memory_sources, Scopes \X Ids \X Ids, Snapshot \cup {Null})
  BY FoundAssumption
<1>5. found.schema = Complete => Snapped(found.db)
  <2>1. ASSUME found.schema = Complete
        PROVE  \A e \in DOMAIN found.db.memory_sources : found.db.memory_sources[e] # Null
    BY <2>1, FoundAssumption, Catalogs
  <2>2. QED
    BY <1>4, <2>1 DEF Snapped, IsTable
<1>6. QED
  BY <1>1, <1>2, <1>3, <1>4, <1>5

\* Every step of an opener or a client keeps to the constraints.
LEMMA RowwiseNext ==
    ASSUME SchemaInv, Rowwise, SchemaNext
    PROVE  Rowwise'
<1>0. IsDb(db) /\ found \in FoundFiles
  BY DEF SchemaInv, SchemaTypeOK
<1>1. CASE UNCHANGED <<db, schema>>
  BY <1>1 DEF Rowwise
<1>2. CASE Committing
  <2>1. ASSUME schema = NoSchema, work.db = db
        PROVE  Constrained(db) /\ Snapped(db)
    <3>1. schema = found.schema /\ db = found.db
      BY <2>1, Catalogs DEF SchemaInv, FileIntact
    <3>2. db = EmptyDb
      BY <1>0, <2>1, <3>1, FoundAssumption, Catalogs
    <3>3. QED
      BY <3>2 DEF Constrained, Snapped, IsTable, EmptyDb, EmptyTable
  <2>2. ASSUME schema = Complete, work.db = db
        PROVE  Constrained(db) /\ Snapped(db)
    BY <2>2 DEF Rowwise
  <2>3. ASSUME schema = Legacy, work.db = Rebuilt
        PROVE  Constrained(Rebuilt) /\ Snapped(Rebuilt)
    <3>1. db = found.db /\ found.schema = Legacy
      BY <2>3, KnownFile
    <3>2. QED
      BY <1>0, <3>1, FoundRowwise, RebuiltRowwise
  <2>4. Constrained(work.db) /\ Snapped(work.db)
    BY <1>2, <2>1, <2>2, <2>3 DEF Committing, Built
  <2>5. QED
    BY <1>2, <2>4 DEF Committing, Rowwise
<1>3. CASE Operating
  BY <1>0, <1>3, NextRowwise DEF Operating, Rowwise
<1>4. CASE Upgrading
  <2>1. schema' \notin {NoSchema, Complete, Legacy}
    BY <1>4, Catalogs DEF Upgrading
  <2>2. QED
    BY <2>1, Catalogs DEF Rowwise
<1>5. QED
  BY <1>1, <1>2, <1>3, <1>4, FileChanges

LEMMA RowwiseInvariant == SchemaSpec => []Rowwise
<1>1. ASSUME SchemaInit
      PROVE  Rowwise
  <2>1. schema = found.schema /\ db = found.db /\ found \in FoundFiles
    BY <1>1 DEF SchemaInit
  <2>2. QED
    BY <2>1, FoundRowwise DEF Rowwise
<1>2. ASSUME SchemaInv, Rowwise, [SchemaNext]_schemaVars
      PROVE  Rowwise'
  <2>1. CASE UNCHANGED schemaVars
    BY <1>2, <2>1 DEF schemaVars, fileVars, Rowwise
  <2>2. QED
    BY <1>2, <2>1, RowwiseNext
<1>3. QED
  BY <1>1, <1>2, SchemaInvariant, PTL DEF SchemaSpec

\* The operations of the instance are the operations: Repository's operators do
\* not read db.
LEMMA SameOperations ==
    /\ \A d, draft : Rows!IngestOutcome(d, draft) = IngestOutcome(d, draft)
    /\ \A d, draft, now : Rows!IngestEffect(d, draft, now) = IngestEffect(d, draft, now)
    /\ \A d, draft : Rows!MaterializeOutcome(d, draft) = MaterializeOutcome(d, draft)
    /\ \A d, draft : Rows!MaterializeEffect(d, draft) = MaterializeEffect(d, draft)
    /\ \A d, c : Rows!GovernOutcome(d, c) = GovernOutcome(d, c)
    /\ \A d, c : Rows!GovernEffect(d, c) = GovernEffect(d, c)
    /\ \A d : Rows!ExpireOutcome(d) = ExpireOutcome(d)
    /\ \A d, as_of : Rows!ExpireEffect(d, as_of) = ExpireEffect(d, as_of)
<1>1. ASSUME NEW d, NEW draft
      PROVE  Rows!IngestOutcome(d, draft) = IngestOutcome(d, draft)
  BY DEF EventKey, Rows!EventKey, TombstonesById, Rows!TombstonesById, RawExpiresAt,
         Rows!RawExpiresAt, Fingerprint, Rows!Fingerprint, TombstoneOk,
         Rows!TombstoneOk, Corrupt, Rows!Corrupt, ReceiptOk, Rows!ReceiptOk,
         ContentHash, Rows!ContentHash, SameMetadata, Rows!SameMetadata, IsIdentical,
         Rows!IsIdentical, Storable, Rows!Storable, IngestOutcome, Rows!IngestOutcome
<1>2. ASSUME NEW d, NEW draft, NEW now
      PROVE  Rows!IngestEffect(d, draft, now) = IngestEffect(d, draft, now)
  BY DEF Insert, Rows!Insert, Row, Rows!Row, EventKey, Rows!EventKey, ContentHash,
         Rows!ContentHash, RawExpiresAt, Rows!RawExpiresAt, NewEventRow,
         Rows!NewEventRow, Copies, Rows!Copies, LogAudit, Rows!LogAudit, AuditRecord,
         Rows!AuditRecord, IngestEffect, Rows!IngestEffect
<1>3. ASSUME NEW d, NEW draft
      PROVE  Rows!MaterializeOutcome(d, draft) = MaterializeOutcome(d, draft)
  BY DEF Min, Rows!Min, MemoryKey, Rows!MemoryKey, TombstonesById,
         Rows!TombstonesById, TombstonesByFingerprint, Rows!TombstonesByFingerprint,
         DependencyFingerprint, Rows!DependencyFingerprint, SourceIds, Rows!SourceIds,
         DraftFingerprint, Rows!DraftFingerprint, Fingerprint, Rows!Fingerprint,
         TombstoneOk, Rows!TombstoneOk, Corrupt, Rows!Corrupt, Lineage, Rows!Lineage,
         Deadline, Rows!Deadline, MemoryStatus, Rows!MemoryStatus, MemoryRecordOk,
         Rows!MemoryRecordOk, SameMetadata, Rows!SameMetadata, IsIdenticalMemory,
         Rows!IsIdenticalMemory, ReceiptOk, Rows!ReceiptOk, SourceOutcome,
         Rows!SourceOutcome, SourcesOutcome, Rows!SourcesOutcome, SourceRows,
         Rows!SourceRows, ClearUntil, Rows!ClearUntil, RecallUntil, Rows!RecallUntil,
         MaterializeOutcome, Rows!MaterializeOutcome
<1>4. ASSUME NEW d, NEW draft
      PROVE  Rows!MaterializeEffect(d, draft) = MaterializeEffect(d, draft)
  BY DEF Min, Rows!Min, Insert, Rows!Insert, Row, Rows!Row, MemoryKey, Rows!MemoryKey,
         DependencyFingerprint, Rows!DependencyFingerprint, SourceIds, Rows!SourceIds,
         DraftFingerprint, Rows!DraftFingerprint, Deadline, Rows!Deadline, SourceRows,
         Rows!SourceRows, ClearUntil, Rows!ClearUntil, RecallUntil, Rows!RecallUntil,
         NewMemoryRow, Rows!NewMemoryRow, SnapshotOf, Rows!SnapshotOf, NewLineage,
         Rows!NewLineage, Copies, Rows!Copies, LogAudit, Rows!LogAudit, AuditRecord,
         Rows!AuditRecord, MaterializeEffect, Rows!MaterializeEffect
<1>5. ASSUME NEW d, NEW c
      PROVE  Rows!GovernOutcome(d, c) = GovernOutcome(d, c)
  BY DEF Fingerprint, Rows!Fingerprint, TombstoneOk, Rows!TombstoneOk, Corrupt,
         Rows!Corrupt, MissingEntity, Rows!MissingEntity, MemoryStatus,
         Rows!MemoryStatus, Lineage, Rows!Lineage, ReceiptOk, Rows!ReceiptOk,
         SnapshotOf, Rows!SnapshotOf, DependencyFingerprint,
         Rows!DependencyFingerprint, LineageOk, Rows!LineageOk, Dependents,
         Rows!Dependents, ErasedMemories, Rows!ErasedMemories, NewTombstones,
         Rows!NewTombstones, TombstoneClash, Rows!TombstoneClash, GovernMemoryOutcome,
         Rows!GovernMemoryOutcome, DeleteRawEventOutcome, Rows!DeleteRawEventOutcome,
         GovernOutcome, Rows!GovernOutcome
<1>6. ASSUME NEW d, NEW c
      PROVE  Rows!GovernEffect(d, c) = GovernEffect(d, c)
  BY DEF Restrict, Rows!Restrict, SetStatus, Rows!SetStatus, Dependents,
         Rows!Dependents, ErasedMemories, Rows!ErasedMemories, Delete, Rows!Delete,
         Insert, Rows!Insert, NewTombstones, Rows!NewTombstones, Erase, Rows!Erase,
         Copies, Rows!Copies, LogAudit, Rows!LogAudit, AuditRecord, Rows!AuditRecord,
         GovernanceAudit, Rows!GovernanceAudit, GovernEffect, Rows!GovernEffect
<1>7. ASSUME NEW d
      PROVE  Rows!ExpireOutcome(d) = ExpireOutcome(d)
  BY DEF ReceiptOk, Rows!ReceiptOk, ExpireOutcome, Rows!ExpireOutcome
<1>8. ASSUME NEW d, NEW as_of
      PROVE  Rows!ExpireEffect(d, as_of) = ExpireEffect(d, as_of)
  BY DEF Restrict, Rows!Restrict, Expirable, Rows!Expirable, Delete, Rows!Delete,
         Copies, Rows!Copies, LogAudit, Rows!LogAudit, AuditRecord, Rows!AuditRecord,
         ExpireEffect, Rows!ExpireEffect
<1>9. QED
  BY <1>1, <1>2, <1>3, <1>4, <1>5, <1>6, <1>7, <1>8

\* Where no snapshot is missing, an operation on the file is one on its rows.
LEMMA SameStep ==
    ASSUME Lift(db) = db, Lift(db)' = db', Next
    PROVE  Rows!Next
<1>1. ASSUME NEW draft \in EventDrafts, NEW now \in Clocks, IngestEvent(draft, now)
      PROVE  Rows!IngestEvent(draft, now)
  BY <1>1, SameOperations DEF IngestEvent, Rows!IngestEvent
<1>2. ASSUME NEW draft \in MemoryDrafts, MaterializeOnce(draft)
      PROVE  Rows!MaterializeOnce(draft)
  BY <1>2, SameOperations DEF MaterializeOnce, Rows!MaterializeOnce
<1>3. ASSUME NEW c \in GovernanceCommand, Govern(c)
      PROVE  Rows!Govern(c)
  <2>1. Rows!Copies(db.audit_log, Rows!GovernanceAudit(c))
          = Copies(db.audit_log, GovernanceAudit(c))
    BY DEF Copies, Rows!Copies, GovernanceAudit, Rows!GovernanceAudit,
           AuditRecord, Rows!AuditRecord
  <2>2. QED
    BY <1>3, <2>1, SameOperations DEF Govern, Rows!Govern
<1>4. ASSUME NEW as_of \in Sweeps, ExpireRawContent(as_of)
      PROVE  Rows!ExpireRawContent(as_of)
  BY <1>4, SameOperations DEF ExpireRawContent, Rows!ExpireRawContent
<1>5. GovernanceCommand = Rows!GovernanceCommand
  BY DEF GovernanceCommand, Rows!GovernanceCommand, GovernanceAction,
         Rows!GovernanceAction, EntityType, Rows!EntityType
<1>6. QED
  BY <1>1, <1>2, <1>3, <1>4, <1>5 DEF Next, Rows!Next

\* Creation, migration, rollback and refusal change no row but for the missing
\* snapshots; what else changes is one operation of Store.
LEMMA StepKeepsRows ==
    ASSUME SchemaInv, Rowwise, SchemaNext
    PROVE  Rows!Next \/ Lift(db)' = Lift(db)
<1>0. IsDb(db) /\ found \in FoundFiles
  BY DEF SchemaInv, SchemaTypeOK
<1>1. CASE db' = db
  BY <1>1
<1>2. CASE Committing
  <2>1. CASE work.db = db
    BY <1>2, <2>1 DEF Committing
  <2>2. CASE schema = Legacy /\ Migratable(db) /\ work.db = Rebuilt
    <3>1. db = found.db /\ found.schema = Legacy
      BY <2>2, KnownFile
    <3>2. \A e \in DOMAIN db.memory_sources : db.memory_sources[e] = Null
      BY <1>0, <3>1, FoundAssumption, Catalogs
    <3>3. Lift(db) = Rebuilt /\ Lift(Rebuilt) = Rebuilt
      BY <1>0, <2>2, <3>2, LiftRebuilt
    <3>4. db' = Rebuilt
      BY <1>2, <2>2 DEF Committing
    <3>5. Lift(db)' = Lift(db')
      OBVIOUS
    <3>6. QED
      BY <3>3, <3>4, <3>5
  <2>3. QED
    BY <1>2, <2>1, <2>2 DEF Committing, Built
<1>3. CASE Operating
  <2>1. Constrained(db) /\ Snapped(db) /\ Next
    BY <1>3 DEF Rowwise, Operating
  <2>2. ASSUME NEW d, IsDb(d), Snapped(d)
        PROVE  Lift(d) = d
    <3>1. \A e \in DOMAIN d.memory_sources : d.memory_sources[e] # Null
      BY <2>2, SnapshotAssumption DEF Snapped, IsTable
    <3>2. QED
      BY <2>2, <3>1, LiftNothing DEF Snapped
  <2>3. IsDb(db') /\ Snapped(db')
    BY <1>0, <2>1, NextIsDb, NextRowwise
  <2>4. Lift(db) = db /\ Lift(db') = db'
    BY <1>0, <2>1, <2>2, <2>3
  <2>5. Lift(db)' = db'
    BY <2>4
  <2>6. QED
    BY <2>1, <2>4, <2>5, SameStep
<1>4. QED
  BY <1>1, <1>2, <1>3, FileChanges DEF Upgrading

\* Opening loses nothing: whoever creates, migrates, rolls back or is refused,
\* the rows with their snapshots change by the operations of Store alone.
THEOREM OpeningLosesNothing == SchemaSpec => MigrationKeepsRows
<1>1. ASSUME SchemaInv, Rowwise, [SchemaNext]_schemaVars
      PROVE  [Rows!Next]_(Lift(db))
  <2>1. CASE UNCHANGED schemaVars
    <3>1. db' = db
      BY <2>1 DEF schemaVars, fileVars
    <3>2. Lift(db)' = Lift(db)
      BY <3>1
    <3>3. QED
      BY <3>2
  <2>2. QED
    BY <1>1, <2>1, StepKeepsRows
<1>2. QED
  BY <1>1, SchemaInvariant, RowwiseInvariant, PTL DEF SchemaSpec, MigrationKeepsRows

-----------------------------------------------------------------------------
(* Every constructor and every operation is of a bounded length.           *)

\* The measure of an opener at a phase and after a number of attempts.
Left(at, tried) ==
    CASE at \in {"closed", "open"} -> 0
      [] at = "connected" -> (MaxAttempts - tried) + 8
      [] at = "converting" -> 8
      [] at = "ready" -> 7
      [] at = "begun" -> 6
      [] at = "migrating" -> 5
      [] at = "rebuilt" -> 4
      [] at = "creating" -> 3
      [] at = "created" -> 2
      [] at \in {"stamped", "operating"} -> 1

\* What is left to do at each phase.
LEMMA LeftAt ==
    ASSUME NEW tried
    PROVE  /\ Left("closed", tried) = 0 /\ Left("open", tried) = 0
           /\ Left("connected", tried) = (MaxAttempts - tried) + 8
           /\ Left("converting", tried) = 8
           /\ Left("ready", tried) = 7
           /\ Left("begun", tried) = 6
           /\ Left("migrating", tried) = 5
           /\ Left("rebuilt", tried) = 4
           /\ Left("creating", tried) = 3
           /\ Left("created", tried) = 2
           /\ Left("stamped", tried) = 1 /\ Left("operating", tried) = 1
<1>1. Left("closed", tried) = 0 /\ Left("open", tried) = 0
  BY DEF Left
<1>2. Left("connected", tried) = (MaxAttempts - tried) + 8
  BY DEF Left
<1>3. Left("converting", tried) = 8 /\ Left("ready", tried) = 7
  BY DEF Left
<1>4. Left("begun", tried) = 6 /\ Left("migrating", tried) = 5
  BY DEF Left
<1>5. Left("rebuilt", tried) = 4 /\ Left("creating", tried) = 3
  BY DEF Left
<1>6. Left("created", tried) = 2
  BY DEF Left
<1>7. Left("stamped", tried) = 1 /\ Left("operating", tried) = 1
  BY DEF Left
<1>8. QED
  BY <1>1, <1>2, <1>3, <1>4, <1>5, <1>6, <1>7

\* A step of one opener to a later phase, or to the next attempt.
Moves(c, next, tried) ==
    /\ phase' = [phase EXCEPT ![c] = next]
    /\ attempts' = [attempts EXCEPT ![c] = tried]
    /\ \/ phase[c] \in {"closed", "open"} /\ next # phase[c]
       \/ Left(next, tried) < Left(phase[c], attempts[c])

LEMMA MoveAdvances ==
    ASSUME SchemaTypeOK, NEW c \in Clients, NEW next, NEW tried, Moves(c, next, tried)
    PROVE  OpenAdvances
<1>1. /\ \A b \in Clients : StepsLeft(b) = Left(phase[b], attempts[b])
      /\ \A b \in Clients : StepsLeft(b)' = Left(phase[b]', attempts[b]')
  BY DEF StepsLeft, Left
<1>2. /\ phase[c]' = next /\ attempts[c]' = tried
      /\ \A b \in Clients \ {c} : phase[b]' = phase[b] /\ attempts[b]' = attempts[b]
  BY DEF Moves, SchemaTypeOK
<1>3. \/ phase[c] \in {"closed", "open"} /\ phase[c]' # phase[c]
      \/ StepsLeft(c)' < StepsLeft(c)
  BY <1>1, <1>2 DEF Moves
<1>4. \A b \in Clients \ {c} : StepsLeft(b)' = StepsLeft(b)
  BY <1>1, <1>2
<1>5. QED
  BY <1>3, <1>4 DEF OpenAdvances

\* However a constructor or an operation is given up, nothing is left of it.
LEMMA FinishAdvances ==
    ASSUME SchemaTypeOK, NEW c \in Clients, NEW next \in {"closed", "open"}, NEW result,
           Finish(c, next, result), phase[c] # next
    PROVE  OpenAdvances
<1>1. /\ phase[c] \in Phase /\ attempts[c] \in 0..(MaxAttempts - 1)
      /\ MaxAttempts \in Nat \ {0}
  BY OpenerAssumption DEF SchemaTypeOK
<1>2. Left(next, 0) = 0
  BY LeftAt
<1>3. phase[c] \in {"closed", "open"} \/ 0 < Left(phase[c], attempts[c])
  BY <1>1, LeftAt DEF Phase
<1>4. Moves(c, next, 0)
  BY <1>2, <1>3 DEF Finish, Goto, Moves
<1>5. QED
  BY <1>4, MoveAdvances

\* Every step brings its opener nearer to its end, and no other one away from it.
LEMMA StepAdvances ==
    ASSUME SchemaTypeOK, NEW c \in Clients,
           Connect(c) \/ Step(c) \/ BeginOperation(c) \/ StatementFails(c) \/ Crash(c)
    PROVE  OpenAdvances
<1>0. /\ phase[c] \in Phase /\ attempts[c] \in 0..(MaxAttempts - 1)
      /\ attempts = [attempts EXCEPT ![c] = attempts[c]]
      /\ phase = [phase EXCEPT ![c] = phase[c]]
      /\ MaxAttempts \in Nat \ {0}
  BY OpenerAssumption DEF SchemaTypeOK
<1>1. ASSUME NEW next, Goto(c, next), attempts' = attempts,
             \/ phase[c] \in {"closed", "open"} /\ next # phase[c]
             \/ Left(next, attempts[c]) < Left(phase[c], attempts[c])
      PROVE  OpenAdvances
  <2>1. Moves(c, next, attempts[c])
    BY <1>0, <1>1 DEF Goto, Moves
  <2>2. QED
    BY <2>1, MoveAdvances
<1>2. CASE Connect(c) \/ BeginOperation(c)
  BY <1>1, <1>2 DEF Connect, BeginOperation
<1>3. CASE FindWal(c) \/ EnableWal(c)
  <2>1. /\ phase[c] \in {"connected", "converting"} /\ Goto(c, "ready")
        /\ attempts' = [attempts EXCEPT ![c] = 0]
    BY <1>3 DEF FindWal, EnableWal
  <2>2. Left("ready", 0) < Left(phase[c], attempts[c])
    BY <1>0, <2>1, LeftAt
  <2>3. Moves(c, "ready", 0)
    BY <2>1, <2>2 DEF Goto, Moves
  <2>4. QED
    BY <2>3, MoveAdvances
<1>4. CASE StartWal(c)
  <2>1. phase[c] = "connected" /\ Goto(c, "converting") /\ attempts' = attempts
    BY <1>4 DEF StartWal
  <2>2. Left("converting", attempts[c]) < Left("connected", attempts[c])
    BY <1>0, LeftAt
  <2>3. QED
    BY <1>1, <2>1, <2>2
<1>5. CASE RetryWal(c)
  <2>1. CASE Refuse(c, "RepositoryBusy")
    BY <1>5, <2>1, FinishAdvances DEF Refuse, RetryWal
  <2>2. CASE attempts' = [attempts EXCEPT ![c] = attempts[c] + 1] /\ phase' = phase
    <3>1. phase[c] = "connected"
      BY <1>5 DEF RetryWal
    <3>2. Left("connected", attempts[c] + 1) < Left("connected", attempts[c])
      <4>1. Left("connected", attempts[c]) = (MaxAttempts - attempts[c]) + 8
        BY LeftAt
      <4>2. Left("connected", attempts[c] + 1) = (MaxAttempts - (attempts[c] + 1)) + 8
        BY LeftAt
      <4>3. QED
        BY <1>0, <4>1, <4>2
    <3>3. Moves(c, "connected", attempts[c] + 1)
      BY <1>0, <2>2, <3>1, <3>2 DEF Moves
    <3>4. QED
      BY <3>3, MoveAdvances
  <2>3. QED
    BY <1>5, <2>1, <2>2 DEF RetryWal
<1>6. CASE BeginImmediate(c)
  BY <1>1, <1>6, LeftAt DEF BeginImmediate
<1>7. CASE CreateTables(c)
  BY <1>1, <1>7, LeftAt DEF CreateTables
<1>8. CASE Stamp(c)
  BY <1>1, <1>8, LeftAt DEF Stamp
<1>9. CASE Commit(c)
  BY <1>1, <1>9, LeftAt DEF Commit
<1>10. CASE Inspect(c)
  <2>1. CASE \E answer : Refuse(c, answer)
    BY <1>10, <2>1, FinishAdvances DEF Refuse, Inspect
  <2>2. CASE /\ phase[c] = "begun" /\ attempts' = attempts
             /\ \E next \in {"creating", "migrating"} : Goto(c, next)
    BY <1>1, <2>2, LeftAt
  <2>3. QED
    BY <1>10, <2>1, <2>2 DEF Inspect
<1>11. CASE RebuildLineage(c)
  <2>1. CASE \E answer : Refuse(c, answer)
    BY <1>11, <2>1, FinishAdvances DEF Refuse, RebuildLineage
  <2>2. CASE /\ phase[c] = "migrating" /\ attempts' = attempts
             /\ \E next \in {"creating", "rebuilt"} : Goto(c, next)
    BY <1>1, <2>2, LeftAt
  <2>3. QED
    BY <1>11, <2>1, <2>2 DEF RebuildLineage
<1>12. CASE DropLegacy(c)
  <2>1. CASE \E answer : Refuse(c, answer)
    BY <1>12, <2>1, FinishAdvances DEF Refuse, DropLegacy
  <2>2. CASE /\ phase[c] = "rebuilt" /\ attempts' = attempts /\ Goto(c, "creating")
    BY <1>1, <2>2, LeftAt
  <2>3. QED
    BY <1>12, <2>1, <2>2 DEF DropLegacy
<1>13. CASE Operate(c)
  <2>1. CASE \E result : Finish(c, "open", result)
    BY <1>13, <2>1, FinishAdvances DEF Operate
  <2>2. CASE /\ phase[c] = "operating" /\ attempts' = attempts /\ Goto(c, "open")
    BY <1>1, <2>2, LeftAt
  <2>3. QED
    BY <1>13, <2>1, <2>2 DEF Operate
<1>14. CASE LockTimeout(c) \/ StatementFails(c) \/ Crash(c)
  <2>1. \E next \in {"closed", "open"} : phase[c] # next /\ \E result : Finish(c, next, result)
    BY <1>14 DEF LockTimeout, StatementFails, Crash, Refuse
  <2>2. QED
    BY <2>1, FinishAdvances
<1>15. QED
  BY <1>2, <1>3, <1>4, <1>5, <1>6, <1>7, <1>8, <1>9, <1>10, <1>11, <1>12, <1>13,
     <1>14 DEF Step

\* However many processes open the file, in whatever order they meet, fail and
\* die: no constructor and no operation is set back, so that one of a process that
\* is not killed is over after its attempts to enable WAL and eight steps more.
THEOREM OpensBounded == SchemaSpec => OpenersNeverSetBack
<1>1. ASSUME SchemaInv, [SchemaNext]_schemaVars
      PROVE  [OpenAdvances]_<<phase, attempts>>
  <2>1. CASE UNCHANGED schemaVars \/ Upgrade
    BY <2>1 DEF schemaVars, Upgrade
  <2>2. ASSUME NEW c \in Clients,
               Connect(c) \/ Step(c) \/ BeginOperation(c) \/ StatementFails(c) \/ Crash(c)
        PROVE  OpenAdvances
    BY <1>1, <2>2, StepAdvances DEF SchemaInv
  <2>3. QED
    BY <1>1, <2>1, <2>2 DEF SchemaNext
<1>2. QED
  BY <1>1, SchemaInvariant, PTL DEF SchemaSpec, OpenersNeverSetBack
=============================================================================
