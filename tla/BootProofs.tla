------------------------------ MODULE BootProofs ------------------------------
(***************************************************************************)
(* Proofs about Boot, for any number of processes, ports and kills: the     *)
(* schema is complete before a request is served, and each migration is     *)
(* recorded exactly when it is applied, and applied once.                   *)
(*                                                                         *)
(* The three need one another, and an invariant of the open transactions:   *)
(* between DDL and COMMIT a transaction holds what it has created, no two   *)
(* hold the same, and what is not left to do is recorded.                   *)
(***************************************************************************)
EXTENDS Boot, TLAPS

InMigration == {"begin", "ddl", "record", "commit"}
Migrated == {"warm", "listen"} \cup Listening

Recorded == /\ recorded = schema
            /\ times = [m \in Migrations |-> IF m \in recorded THEN 1 ELSE 0]

TxOK(p) ==
    /\ pc[p] \notin {"record", "commit"} => tx[p] = NoTx
    /\ pc[p] \in {"ddl", "record", "commit"} => todo[p] # {}
    /\ pc[p] = "record" => /\ tx[p].row = {} /\ tx[p].ddl \subseteq {Current(p)}
                           /\ Current(p) \in schema \cup tx[p].ddl
    /\ pc[p] = "commit" => /\ tx[p].row = {Current(p)} /\ tx[p].ddl = {Current(p)}
                           /\ Current(p) \notin recorded
    /\ pc[p] \in InMigration => Migrations \ todo[p] \subseteq recorded
    /\ pc[p] \in Migrated => recorded = Migrations

Exclusive ==
    \A p, q \in Procs : p # q => /\ tx[p].ddl \cap tx[q].ddl = {}
                                 /\ tx[p].row \cap tx[q].row = {}

IInv == TypeOK /\ Recorded /\ (\A p \in Procs : TxOK(p)) /\ Exclusive

-----------------------------------------------------------------------------
(* Lemmas *)

\* migrations.ts:16-18: the migration under way is one of those left to do.
LEMMA CurrentIsLeft ==
    ASSUME NEW p \in Procs, TypeOK, todo[p] # {}
    PROVE  Current(p) \in todo[p] /\ Current(p) \in Migrations
<1>1. todo[p] \subseteq Migrations
    BY DEF TypeOK
<1>2. \E x \in todo[p] : \A y \in todo[p] : x =< y
    BY <1>1 DEF Migrations
<1> QED
    BY <1>1, <1>2 DEF Current, Min

\* A step in which one process goes elsewhere, keeping or losing its transaction,
\* and no table changes, preserves the invariant of the transactions.
LEMMA ElsewhereKept ==
    ASSUME TypeOK, Recorded, \A p \in Procs : TxOK(p), Exclusive,
           NEW p \in Procs, NEW there,
           pc' = [pc EXCEPT ![p] = there],
           \/ tx' = tx /\ pc[p] \notin {"record", "commit"}
           \/ tx' = [tx EXCEPT ![p] = NoTx],
           there \notin InMigration,
           there \in Migrated => recorded = Migrations,
           UNCHANGED <<todo, dbVars>>
    PROVE  Recorded' /\ (\A q \in Procs : TxOK(q)') /\ Exclusive'
<1>1. Recorded'
    BY DEF Recorded, dbVars
<1>2. tx'[p] = NoTx /\ \A q \in Procs \ {p} : tx'[q] = tx[q] /\ pc'[q] = pc[q]
    BY DEF TypeOK, TxOK
<1>3. TxOK(p)'
    BY <1>2 DEF TxOK, TypeOK, InMigration, dbVars
<1>4. ASSUME NEW q \in Procs \ {p} PROVE TxOK(q)'
    BY <1>2 DEF TxOK, Current, dbVars
<1>5. Exclusive'
    BY <1>2 DEF Exclusive, NoTx
<1> QED
    BY <1>1, <1>3, <1>4, <1>5

\* So does a step that changes neither where a process is nor a table.
LEMMA NowhereKept ==
    ASSUME TypeOK, Recorded, \A p \in Procs : TxOK(p), Exclusive,
           UNCHANGED <<pc, tx, todo, dbVars>>
    PROVE  Recorded' /\ (\A q \in Procs : TxOK(q)') /\ Exclusive'
BY DEF Recorded, TxOK, Exclusive, Current, dbVars

\* And so does the end of a postmaster.
LEMMA DisconnectKept ==
    ASSUME TypeOK, Recorded, \A p \in Procs : TxOK(p), Exclusive,
           NEW r \in Procs, Disconnect(r), UNCHANGED <<todo, dbVars>>
    PROVE  Recorded' /\ (\A q \in Procs : TxOK(q)') /\ Exclusive'
<1>1. CASE pm[r] = "up"
    <2>1. Recorded'
        BY DEF Recorded, dbVars
    <2>2. ASSUME NEW q \in Procs PROVE TxOK(q)'
        BY <1>1 DEF Disconnect, TxOK, Current, InMigration, Migrated, Migrating,
                    Listening, dbVars, TypeOK
    <2>3. Exclusive'
        BY <1>1 DEF Disconnect, Exclusive, NoTx
    <2> QED
        BY <2>1, <2>2, <2>3
<1>2. CASE pm[r] # "up"
    BY <1>2, NowhereKept DEF Disconnect
<1> QED
    BY <1>1, <1>2

-----------------------------------------------------------------------------
(* Types *)

\* Every point a step goes to is one of those listed.
LEMMA Places ==
    {"probe", "pidcheck", "unlink", "version", "initdb", "initwait", "pgstart", "wait",
     "target", "ledger", "create", "read", "begin", "ddl", "record", "commit", "warm",
     "listen", "recover", "refresh", "serving", "failed", "closed", "killed", "off"}
    \subseteq Place
BY DEF Place, Alive, Gone, Booting, Migrating, Listening

LEMMA PlaceStep ==
    ASSUME TypeOK, [Next]_vars
    PROVE  pc' \in [Procs -> Place]
<1>0. pc \in [Procs -> Place]
    BY DEF TypeOK
<1> USE <1>0, Places
<1>1. CASE UNCHANGED vars
    BY <1>1 DEF vars
<1>2. ASSUME NEW p \in Procs, Start(p) \/ Probe(p) \/ PidCheck(p) \/ Recover(p) \/ Close(p)
      PROVE  pc' \in [Procs -> Place]
    BY <1>2 DEF Start, Probe, PidCheck, Recover, Close, Move, Goto
<1>3. ASSUME NEW p \in Procs, Unlink(p) \/ Version(p) \/ InitBegin(p) \/ InitDone(p)
                              \/ PgStarted(p) \/ Wait(p) \/ Listen(p) \/ LosePool(p)
      PROVE  pc' \in [Procs -> Place]
    BY <1>3 DEF Unlink, Version, InitBegin, InitDone, PgStarted, Wait, Listen, LosePool,
                Goto, Fail
<1>4. ASSUME NEW p \in Procs, Target(p) \/ Ledger(p) \/ Begin(p) \/ Warm(p) \/ Refresh(p)
      PROVE  pc' \in [Procs -> Place]
    BY <1>4 DEF Target, Ledger, Begin, Warm, Refresh, Ask, Query, Goto, Fail
<1>5. ASSUME NEW p \in Procs, Create(p) \/ ReadApplied(p) \/ Ddl(p) \/ Record(p) \/ Commit(p)
      PROVE  pc' \in [Procs -> Place]
    BY <1>5 DEF Create, ReadApplied, Ddl, Record, Commit, Query, Goto, Fail
<1>6. ASSUME NEW p \in Procs, PgInit(p) \/ PgLock(p) \/ PgOpen(p)
      PROVE  pc' \in [Procs -> Place]
    BY <1>6 DEF PgInit, PgLock, PgOpen
<1>7. ASSUME NEW p \in Procs, PgStop(p) \/ PgKilled(p) \/ Kill(p)
      PROVE  pc' \in [Procs -> Place]
    BY <1>7 DEF PgStop, PgKilled, Kill, Disconnect, Goto
<1> QED
    BY <1>1, <1>2, <1>3, <1>4, <1>5, <1>6, <1>7 DEF Next, BootStep, PgStep

LEMMA TypeStep ==
    ASSUME IInv, [Next]_vars
    PROVE  TypeOK'
<1> USE KillsAssumption DEF IInv
<1>0. pc' \in [Procs -> Place]
    BY PlaceStep
<1>n. NoTx \in Tx /\ \A d \in SUBSET Migrations, r \in SUBSET Migrations :
                         [ddl |-> d, row |-> r] \in Tx
    BY DEF NoTx, Tx
<1>1. CASE UNCHANGED vars
    BY <1>1 DEF TypeOK, vars, dbVars
<1>2. ASSUME NEW p \in Procs, Start(p) \/ Probe(p) \/ PidCheck(p) \/ Recover(p) \/ Close(p)
      PROVE  TypeOK'
    BY <1>0, <1>2 DEF Start, Probe, PidCheck, Recover, Close, Move, TypeOK, dbVars
<1>3. ASSUME NEW p \in Procs, Unlink(p) \/ Version(p) \/ InitBegin(p) \/ InitDone(p)
      PROVE  TypeOK'
    BY <1>0, <1>n, <1>3 DEF Unlink, Version, InitBegin, InitDone, Fail, TypeOK, Postmaster,
                            dbVars
<1>4. ASSUME NEW p \in Procs, PgStarted(p) \/ Wait(p) \/ Listen(p) \/ LosePool(p)
      PROVE  TypeOK'
    BY <1>0, <1>n, <1>4 DEF PgStarted, Wait, Listen, LosePool, Fail, TypeOK, dbVars
<1>5. ASSUME NEW p \in Procs, Target(p) \/ Ledger(p) \/ Begin(p) \/ Warm(p) \/ Refresh(p)
      PROVE  TypeOK'
    BY <1>0, <1>n, <1>5 DEF Target, Ledger, Begin, Warm, Refresh, Ask, Query, Fail, TypeOK,
                            dbVars
<1>6. ASSUME NEW p \in Procs, Create(p) \/ ReadApplied(p)
      PROVE  TypeOK'
    <2>1. CASE Create(p)
        BY <1>0, <1>n, <2>1 DEF Create, Query, Fail, TypeOK, dbVars
    <2>2. CASE ReadApplied(p)
        BY <1>0, <1>n, <2>2 DEF ReadApplied, Query, Fail, TypeOK, dbVars
    <2> QED
        BY <1>6, <2>1, <2>2
<1>7. ASSUME NEW p \in Procs, Ddl(p) \/ Record(p) \/ Commit(p)
      PROVE  TypeOK'
    <2>1. Current(p) \in Migrations /\ Current(p) \in todo[p]
        BY <1>7, CurrentIsLeft DEF Ddl, Record, Commit, Query, At, TxOK
    <2>2. CASE ~PortUp
        BY <1>0, <1>n, <1>7, <2>2 DEF Ddl, Record, Commit, Query, Fail, TypeOK, dbVars
    <2>3. CASE PortUp /\ Ddl(p)
        <3>1. [tx[p] EXCEPT !.ddl = {Current(p)} \ schema] \in Tx
            BY <2>1 DEF Tx, TypeOK
        <3>2. tx' \in [Procs -> Tx]
            BY <2>3, <3>1 DEF Ddl, Query, TypeOK
        <3> QED
            BY <1>0, <2>3, <3>2 DEF Ddl, Query, TypeOK, dbVars
    <2>4. CASE PortUp /\ Record(p)
        <3>1. [tx[p] EXCEPT !.row = {Current(p)}] \in Tx
            BY <2>1 DEF Tx, TypeOK
        <3>2. tx' \in [Procs -> Tx]
            BY <1>n, <2>4, <3>1 DEF Record, Query, Fail, TypeOK
        <3> QED
            BY <1>0, <2>4, <3>2 DEF Record, Query, Fail, TypeOK, dbVars
    <2>5. CASE PortUp /\ Commit(p)
        <3>1. tx[p] \in Tx /\ times[Current(p)] + 1 \in Nat
            BY <2>1 DEF TypeOK
        <3>2. /\ tx' \in [Procs -> Tx] /\ todo' \in [Procs -> SUBSET Migrations]
              /\ times' \in [Migrations -> Nat]
            BY <1>n, <2>5, <3>1 DEF Commit, Query, TypeOK
        <3>3. recorded' \subseteq Migrations /\ schema' \subseteq Migrations
            BY <2>5, <3>1 DEF Commit, Query, TypeOK, Tx
        <3> QED
            BY <1>0, <2>5, <3>2, <3>3 DEF Commit, Query, TypeOK
    <2> QED
        BY <1>7, <2>2, <2>3, <2>4, <2>5
<1>8. ASSUME NEW p \in Procs, PgInit(p) \/ PgLock(p) \/ PgOpen(p)
      PROVE  TypeOK'
    BY <1>0, <1>8 DEF PgInit, PgLock, PgOpen, TypeOK, Postmaster, dbVars
<1>9. ASSUME NEW p \in Procs, PgStop(p) \/ PgKilled(p) \/ Kill(p)
      PROVE  TypeOK'
    <2>1. tx' \in [Procs -> Tx]
        BY <1>n, <1>9 DEF PgStop, PgKilled, Kill, Disconnect, TypeOK
    <2>2. kills' \in 0..MaxKills
        BY <1>9 DEF PgStop, PgKilled, Kill, TypeOK
    <2> QED
        BY <1>0, <1>9, <2>1, <2>2 DEF PgStop, PgKilled, Kill, Disconnect, TypeOK, dbVars
<1> QED
    BY <1>1, <1>2, <1>3, <1>4, <1>5, <1>6, <1>7, <1>8, <1>9 DEF Next, BootStep, PgStep

-----------------------------------------------------------------------------
(* Transactions *)

\* The steps of migrate() that change a table or a transaction.
LEMMA MigrateStep ==
    ASSUME IInv, NEW p \in Procs, PortUp,
           ReadApplied(p) \/ Begin(p) \/ Ddl(p) \/ (Record(p) /\ Current(p) \notin recorded)
           \/ Commit(p)
    PROVE  Recorded' /\ (\A q \in Procs : TxOK(q)') /\ Exclusive'
<1> USE DEF IInv
<1>1. \A q \in Procs \ {p} : tx'[q] = tx[q] /\ pc'[q] = pc[q] /\ todo'[q] = todo[q]
    BY DEF ReadApplied, Begin, Ask, Ddl, Record, Commit, Query, Goto, TypeOK
<1>2. CASE ReadApplied(p)
    <2>1. TxOK(p)'
        BY <1>2 DEF ReadApplied, Query, At, Goto, TypeOK, TxOK, InMigration, Migrated,
                    Listening, dbVars
    <2>2. Recorded' /\ Exclusive' /\ \A q \in Procs \ {p} : TxOK(q)'
        BY <1>1, <1>2 DEF ReadApplied, Query, Recorded, Exclusive, TxOK, Current, dbVars
    <2> QED
        BY <2>1, <2>2
<1>3. CASE Begin(p)
    <2>0. /\ pc[p] = "begin" /\ pc'[p] = IF todo[p] = {} THEN "warm" ELSE "ddl"
          /\ UNCHANGED <<tx, todo, dbVars>>
        BY <1>3 DEF Begin, Ask, Query, At, Goto, TypeOK
    <2>1. TxOK(p)'
        <3>1. Migrations \ todo[p] \subseteq recorded /\ tx[p] = NoTx
            BY <2>0 DEF TxOK, InMigration
        <3>2. todo[p] = {} => recorded = Migrations
            BY <3>1 DEF TypeOK
        <3> QED
            BY <2>0, <3>1, <3>2 DEF TxOK, InMigration, Migrated, Listening, dbVars
    <2>2. Recorded' /\ Exclusive' /\ \A q \in Procs \ {p} : TxOK(q)'
        BY <1>1, <1>3 DEF Begin, Ask, Query, Recorded, Exclusive, TxOK, Current, dbVars
    <2> QED
        BY <2>1, <2>2
<1>4. CASE Ddl(p)
    <2>1. /\ pc[p] = "ddl" /\ pc' = [pc EXCEPT ![p] = "record"]
          /\ tx' = [tx EXCEPT ![p].ddl = {Current(p)} \ schema]
          /\ \A q \in Procs \ {p} : Current(p) \notin tx[q].ddl
          /\ UNCHANGED <<todo, dbVars>>
        BY <1>4 DEF Ddl, Query, At, Goto
    <2>2. tx'[p].ddl = {Current(p)} \ schema /\ tx'[p].row = {}
        BY <2>1 DEF TypeOK, TxOK, NoTx
    <2>3. TxOK(p)'
        BY <2>1, <2>2 DEF TypeOK, TxOK, InMigration, Migrated, Listening, dbVars, Current
    <2>4. Exclusive'
        BY <1>1, <2>1, <2>2 DEF Exclusive
    <2>5. Recorded' /\ \A q \in Procs \ {p} : TxOK(q)'
        BY <1>1, <2>1 DEF Recorded, TxOK, Current, dbVars
    <2> QED
        BY <2>3, <2>4, <2>5
<1>5. CASE Record(p) /\ Current(p) \notin recorded
    <2>1. /\ pc[p] = "record" /\ pc' = [pc EXCEPT ![p] = "commit"]
          /\ tx' = [tx EXCEPT ![p].row = {Current(p)}]
          /\ \A q \in Procs \ {p} : Current(p) \notin tx[q].row
          /\ UNCHANGED <<todo, dbVars>>
        BY <1>5 DEF Record, Query, At, Goto
    <2>2. tx'[p].row = {Current(p)} /\ tx'[p].ddl = tx[p].ddl
        BY <2>1 DEF TypeOK
    <2>3. TxOK(p)'
        BY <1>5, <2>1, <2>2 DEF TypeOK, TxOK, Recorded, InMigration, Migrated, Listening,
                                dbVars, Current
    <2>4. Exclusive'
        BY <1>1, <2>1, <2>2 DEF Exclusive
    <2>5. Recorded' /\ \A q \in Procs \ {p} : TxOK(q)'
        BY <1>1, <2>1 DEF Recorded, TxOK, Current, dbVars
    <2> QED
        BY <2>3, <2>4, <2>5
<1>6. CASE Commit(p)
    <2> DEFINE c == Current(p)
    <2>1. /\ pc[p] = "commit" /\ pc' = [pc EXCEPT ![p] = "begin"]
          /\ schema' = schema \cup tx[p].ddl /\ recorded' = recorded \cup tx[p].row
          /\ times' = [times EXCEPT ![c] = @ + 1]
          /\ todo' = [todo EXCEPT ![p] = @ \ {c}]
          /\ tx' = [tx EXCEPT ![p] = NoTx]
        BY <1>6 DEF Commit, Query, At, Goto
    <2>2. tx[p].row = {c} /\ tx[p].ddl = {c} /\ c \notin recorded /\ todo[p] # {}
        BY <2>1 DEF TxOK
    <2>3. c \in Migrations
        BY <2>2, CurrentIsLeft
    <2>4. Recorded'
        BY <2>1, <2>2, <2>3 DEF Recorded
    <2>5. TxOK(p)'
        BY <2>1, <2>2 DEF TypeOK, TxOK, InMigration, Migrated, Listening
    <2>6. ASSUME NEW q \in Procs \ {p} PROVE TxOK(q)'
        <3>1. pc[q] = "commit" => Current(q) # c
            BY <2>2 DEF TxOK, Exclusive
        <3>2. recorded = Migrations => recorded' = Migrations
            BY <2>1, <2>2, <2>3
        <3>3. Current(q)' = Current(q)
            BY <1>1 DEF Current
        <3> QED
            BY <1>1, <2>1, <2>2, <3>1, <3>2, <3>3 DEF TxOK
    <2>7. Exclusive'
        BY <1>1, <2>1 DEF Exclusive, NoTx, TypeOK
    <2> QED
        BY <2>4, <2>5, <2>6, <2>7
<1> QED
    BY <1>2, <1>3, <1>4, <1>5, <1>6

LEMMA TxStep ==
    ASSUME IInv, [Next]_vars
    PROVE  Recorded' /\ (\A q \in Procs : TxOK(q)') /\ Exclusive'
<1> USE DEF IInv
<1>1. CASE UNCHANGED vars
    BY <1>1, NowhereKept DEF vars
<1>2. ASSUME NEW p \in Procs, Start(p) \/ Probe(p) \/ PidCheck(p) \/ Recover(p) \/ Close(p)
      PROVE  Recorded' /\ (\A q \in Procs : TxOK(q)') /\ Exclusive'
    <2>1. PICK there \in {"probe", "wait", "pidcheck", "unlink", "version", "refresh", "closed"} :
              /\ pc' = [pc EXCEPT ![p] = there]
              /\ there \in Migrated => pc[p] \in Migrated
              /\ pc[p] \notin {"record", "commit"}
              /\ UNCHANGED <<tx, todo, dbVars>>
        BY <1>2 DEF Start, Probe, PidCheck, Recover, Close, Move, At, Goto, Migrated, Listening
    <2>2. there \notin InMigration
        BY DEF InMigration
    <2>3. there \in Migrated => recorded = Migrations
        BY <2>1 DEF TxOK
    <2> QED
        BY <2>1, <2>2, <2>3, ElsewhereKept
<1>3. ASSUME NEW p \in Procs,
             \/ Unlink(p) \/ Version(p) \/ InitBegin(p) \/ InitDone(p) \/ PgStarted(p)
             \/ Wait(p) \/ Listen(p) \/ LosePool(p) \/ Kill(p)
      PROVE  Recorded' /\ (\A q \in Procs : TxOK(q)') /\ Exclusive'
    <2>1. PICK there \in {"version", "initdb", "pgstart", "initwait", "wait", "target",
                          "recover", "failed", "killed"} :
              /\ pc' = [pc EXCEPT ![p] = there]
              /\ there \in Migrated => pc[p] \in Migrated
              /\ \/ tx' = tx /\ pc[p] \notin {"record", "commit"}
                 \/ tx' = [tx EXCEPT ![p] = NoTx]
              /\ UNCHANGED <<todo, dbVars>>
        BY <1>3 DEF Unlink, Version, InitBegin, InitDone, PgStarted, Wait, Listen, LosePool,
                    Kill, At, Goto, Fail, Migrated, Listening
    <2>2. there \notin InMigration
        BY DEF InMigration
    <2>3. there \in Migrated => recorded = Migrations
        BY <2>1 DEF TxOK
    <2> QED
        BY <2>1, <2>2, <2>3, ElsewhereKept
<1>4. ASSUME NEW p \in Procs,
             \/ Target(p) \/ Ledger(p) \/ Warm(p) \/ Refresh(p)
             \/ ~PortUp /\ (Create(p) \/ ReadApplied(p) \/ Begin(p) \/ Ddl(p) \/ Record(p)
                            \/ Commit(p))
             \/ Record(p) /\ Current(p) \in recorded
      PROVE  Recorded' /\ (\A q \in Procs : TxOK(q)') /\ Exclusive'
    <2>1. PICK there \in {"ledger", "read", "create", "listen", "serving", "failed"} :
              /\ pc' = [pc EXCEPT ![p] = there]
              /\ there \in Migrated => pc[p] \in Migrated
              /\ \/ tx' = tx /\ pc[p] \notin {"record", "commit"}
                 \/ tx' = [tx EXCEPT ![p] = NoTx]
              /\ UNCHANGED <<todo, dbVars>>
        BY <1>4 DEF Target, Ledger, Warm, Refresh, Ask, Create, ReadApplied, Begin, Ddl,
                    Record, Commit, Query, At, Goto, Fail, Migrated, Listening
    <2>2. there \notin InMigration
        BY DEF InMigration
    <2>3. there \in Migrated => recorded = Migrations
        BY <2>1 DEF TxOK
    <2> QED
        BY <2>1, <2>2, <2>3, ElsewhereKept
<1>5. ASSUME NEW p \in Procs, PortUp, Create(p)
      PROVE  Recorded' /\ (\A q \in Procs : TxOK(q)') /\ Exclusive'
    <2>1. /\ pc[p] = "create" /\ tx'[p] = NoTx
          /\ \A q \in Procs \ {p} : pc'[q] = pc[q] /\ tx'[q] = tx[q]
          /\ pc'[p] \in {"read", "failed"}
          /\ UNCHANGED <<todo, recorded, schema, times>>
        BY <1>5 DEF Create, Query, At, Goto, Fail, TypeOK, TxOK, dbVars
    <2> QED
        BY <2>1 DEF Recorded, Exclusive, NoTx, TxOK, Current, InMigration, Migrated, Listening
<1>6. ASSUME NEW p \in Procs, PortUp,
             ReadApplied(p) \/ Begin(p) \/ Ddl(p) \/ (Record(p) /\ Current(p) \notin recorded)
             \/ Commit(p)
      PROVE  Recorded' /\ (\A q \in Procs : TxOK(q)') /\ Exclusive'
    BY <1>6, MigrateStep
<1>7. ASSUME NEW p \in Procs, PgInit(p) \/ PgLock(p) \/ PgOpen(p)
      PROVE  Recorded' /\ (\A q \in Procs : TxOK(q)') /\ Exclusive'
    BY <1>7, NowhereKept DEF PgInit, PgLock, PgOpen
<1>8. ASSUME NEW p \in Procs, PgStop(p) \/ PgKilled(p)
      PROVE  Recorded' /\ (\A q \in Procs : TxOK(q)') /\ Exclusive'
    BY <1>8, DisconnectKept DEF PgStop, PgKilled
<1> QED
    BY <1>1, <1>2, <1>3, <1>4, <1>5, <1>6, <1>7, <1>8 DEF Next, BootStep, PgStep

-----------------------------------------------------------------------------
(* Theorems *)

LEMMA InductiveInvariant == Spec => []IInv
<1>1. ASSUME Init PROVE IInv
    <2>1. TypeOK
        <3>1. NoTx \in Tx /\ "off" \in Place
            BY Places DEF NoTx, Tx
        <3>2. /\ times \in [Migrations -> Nat] /\ kills \in 0..MaxKills
              /\ todo \in [Procs -> SUBSET Migrations]
            BY <1>1, KillsAssumption DEF Init
        <3> QED
            BY <1>1, <3>1, <3>2 DEF Init, TypeOK
    <2>2. Recorded
        BY <1>1 DEF Init, Recorded
    <2>3. (\A p \in Procs : TxOK(p)) /\ Exclusive
        BY <1>1 DEF Init, TxOK, Exclusive, NoTx, InMigration, Migrated, Listening
    <2> QED
        BY <2>1, <2>2, <2>3 DEF IInv
<1>2. IInv /\ [Next]_vars => IInv'
    BY TypeStep, TxStep DEF IInv
<1> QED
    BY <1>1, <1>2, PTL DEF Spec

\* Where every process is, what it has left to do and what it holds open keep
\* their types; so do postmasters, data directory and tables.
THEOREM TypeCorrect == Spec => []TypeOK
BY InductiveInvariant, PTL DEF IInv

\* server.ts:41-138: no request is served before every migration is in place.
THEOREM SchemaServed == Spec => []SchemaBeforeServing
<1>1. IInv => SchemaBeforeServing
    BY DEF IInv, TxOK, Recorded, SchemaBeforeServing, Migrated
<1> QED
    BY <1>1, InductiveInvariant, PTL

\* migrations.ts:20-23: a migration is recorded exactly when it is applied.
THEOREM AppliedIsRecorded == Spec => []RecordedIffApplied
<1>1. IInv => RecordedIffApplied
    BY DEF IInv, Recorded, RecordedIffApplied
<1> QED
    BY <1>1, InductiveInvariant, PTL

\* migrations.ts:14-18: no two processes apply the same migration.
THEOREM AppliedOnce == Spec => []EachMigrationOnce
<1>1. IInv => EachMigrationOnce
    BY DEF IInv, Recorded, EachMigrationOnce
<1> QED
    BY <1>1, InductiveInvariant, PTL

=============================================================================
