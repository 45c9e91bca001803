-------------------------------- MODULE Boot ---------------------------------
(***************************************************************************)
(* How a server process comes up: startServer() of server.ts with the      *)
(* adopt-or-boot of embeddedPg.ts and the migrations of db/migrations.ts.   *)
(*                                                                         *)
(* Every process of Procs runs startServer() once: `pnpm dev' (index.ts),  *)
(* demo/reset.ts and demo/scenario.ts all do, and a restart is another      *)
(* process.  They share a data directory, the port of PostgreSQL, the       *)
(* tables, and possibly the HTTP port.                                     *)
(*                                                                         *)
(* initdb, the postmaster and the transactions of PostgreSQL are not part   *)
(* of the repository: they are modelled by what embeddedPg.ts and           *)
(* migrations.ts rely on.                                                  *)
(***************************************************************************)
EXTENDS Naturals, FiniteSets, Functions, FiniteSetsExt

CONSTANTS
    Procs,          \* the server processes
    NoProc,
    Port,           \* the HTTP port (config.port) of each process
    MaxKills        \* bound: processes, postmasters and initdb killed without warning

Migrations == 1..2

ASSUME NoProcAssumption == NoProc \notin Procs
ASSUME PortAssumption == DOMAIN Port = Procs
ASSUME KillsAssumption == MaxKills \in Nat

VARIABLES
    pc,             \* where startServer() of each process is
    todo,           \* migrate(): what is left of MIGRATIONS
    tx,             \* migrate(): the open transaction of each process
    pm,             \* the initdb or postmaster each process has spawned
    cluster,        \* the data directory: absent, bare (files, but no PG_VERSION yet),
                    \* partial (incomplete), ready
    pidFile,        \* postmaster.pid: the process whose postmaster it names
    ledger,         \* the table schema_migrations exists
    recorded,       \* the names in schema_migrations
    schema,         \* the migrations whose tables and columns exist
    times,          \* how often each migration was committed
    kills

dbVars == <<ledger, recorded, schema, times>>
vars == <<pc, todo, tx, pm, cluster, pidFile, dbVars, kills>>

\* What an open transaction has created, and the names it has inserted.
Tx == [ddl : SUBSET Migrations, row : SUBSET Migrations]
NoTx == [ddl |-> {}, row |-> {}]

Migrating == {"ledger", "create", "read", "begin", "ddl", "record", "commit"}
Listening == {"recover", "refresh", "serving"}
Booting == {"probe", "pidcheck", "unlink", "version", "initdb", "initwait",
            "pgstart", "wait", "target"} \cup Migrating \cup {"warm", "listen"}
Alive == Booting \cup Listening
Gone == {"failed", "closed", "killed"}
Place == {"off"} \cup Alive \cup Gone

Postmaster == {"spawned", "starting", "up"}

TypeOK ==
    /\ pc \in [Procs -> Place]
    /\ todo \in [Procs -> SUBSET Migrations]
    /\ tx \in [Procs -> Tx]
    /\ pm \in [Procs -> {"none", "initdb"} \cup Postmaster]
    /\ cluster \in {"absent", "bare", "partial", "ready"}
    /\ pidFile \in Procs \cup {NoProc}
    /\ ledger \in BOOLEAN
    /\ recorded \subseteq Migrations /\ schema \subseteq Migrations
    /\ times \in [Migrations -> Nat]
    /\ kills \in 0..MaxKills

Init ==
    /\ pc = [p \in Procs |-> "off"]
    /\ todo = [p \in Procs |-> {}]
    /\ tx = [p \in Procs |-> NoTx]
    /\ pm = [p \in Procs |-> "none"]
    /\ cluster = "absent" /\ pidFile = NoProc
    /\ ledger = FALSE /\ recorded = {} /\ schema = {}
    /\ times = [m \in Migrations |-> 0]
    /\ kills = 0

-----------------------------------------------------------------------------
(* Helpers *)

\* Something answers on the port of PostgreSQL.
PortUp == \E q \in Procs : pm[q] = "up"

At(p, here) == pc[p] = here
Goto(p, there) == pc' = [pc EXCEPT ![p] = there]

\* A step that changes nothing but where the process is.
Move(p, here, there) ==
    /\ At(p, here) /\ Goto(p, there)
    /\ UNCHANGED <<todo, tx, pm, cluster, pidFile, dbVars, kills>>

\* main().catch of index.ts, reset.ts, scenario.ts: process.exit(1).  A client
\* that goes away takes its open transaction with it.
Fail(p) ==
    /\ Goto(p, "failed")
    /\ tx' = [tx EXCEPT ![p] = NoTx]

\* A postmaster ends: every client loses its connection and its transaction.
\* migrate() holds one client from its first statement to its last.
Disconnect(q) ==
    /\ pm' = [pm EXCEPT ![q] = "none"]
    /\ IF pm[q] = "up"
       THEN /\ pc' = [p \in Procs |-> IF pc[p] \in Migrating THEN "failed" ELSE pc[p]]
            /\ tx' = [p \in Procs |-> NoTx]
       ELSE UNCHANGED <<pc, tx>>

\* A statement or a connection attempt at point `here': it does Work, or
\* PostgreSQL is not there and startServer() rejects.
Query(p, here, Work) ==
    /\ At(p, here)
    /\ IF PortUp THEN Work ELSE Fail(p) /\ UNCHANGED <<todo, dbVars>>
    /\ UNCHANGED <<pm, cluster, pidFile, kills>>

Ask(p, here, there) ==
    Query(p, here, Goto(p, there) /\ UNCHANGED <<todo, tx, dbVars>>)

-----------------------------------------------------------------------------
(* PostgreSQL, as embeddedPg.ts uses it *)

\* initdb writes PG_VERSION, then everything else.  It runs to its end, also when
\* the process that spawned it has died.
PgInit(p) ==
    /\ pm[p] = "initdb"
    /\ \/ cluster = "bare" /\ cluster' = "partial" /\ UNCHANGED pm
       \/ cluster = "partial" /\ cluster' = "ready" /\ pm' = [pm EXCEPT ![p] = "none"]
    /\ UNCHANGED <<pc, todo, tx, pidFile, dbVars, kills>>

\* A new postmaster writes postmaster.pid; it may take over the file of a
\* postmaster that is gone, or refuse to start, as over an incomplete cluster.
PgLock(p) ==
    /\ pm[p] = "spawned"
    /\ LET held == pidFile # NoProc
           stale == held /\ pm[pidFile] \notin {"starting", "up"}
       IN  \/ /\ ~held \/ stale
              /\ pm' = [pm EXCEPT ![p] = "starting"] /\ pidFile' = p
           \/ /\ cluster # "ready" \/ held
              /\ pm' = [pm EXCEPT ![p] = "none"] /\ UNCHANGED pidFile
    /\ UNCHANGED <<pc, todo, tx, cluster, dbVars, kills>>

\* Then it opens the port.  If another one serves the directory it gives up,
\* and removes postmaster.pid as it exits.
PgOpen(p) ==
    /\ pm[p] = "starting"
    /\ IF PortUp
       THEN pm' = [pm EXCEPT ![p] = "none"] /\ pidFile' = NoProc
       ELSE pm' = [pm EXCEPT ![p] = "up"] /\ UNCHANGED pidFile
    /\ UNCHANGED <<pc, todo, tx, cluster, dbVars, kills>>

\* A postmaster ends in order: it notices that postmaster.pid is not its own,
\* or the process that spawned it has exited and embedded-postgres stops it.
PgStop(p) ==
    /\ pm[p] \in {"starting", "up"}
    /\ pidFile # p \/ pc[p] \in {"failed", "closed"}
    /\ Disconnect(p) /\ pidFile' = NoProc
    /\ UNCHANGED <<todo, cluster, dbVars, kills>>

\* A postmaster is killed (taskkill, reboot) and leaves postmaster.pid behind; a
\* killed initdb leaves the directory as far as it has come.
PgKilled(p) ==
    /\ kills < MaxKills /\ kills' = kills + 1
    /\ pm[p] \in {"initdb", "starting", "up"}
    /\ Disconnect(p)
    /\ UNCHANGED <<todo, cluster, pidFile, dbVars>>

-----------------------------------------------------------------------------
(* ensurePostgres(), waitForPostgres(), ensureVitalsDatabase() *)

Start(p) == Move(p, "off", "probe")

\* tcpAlive(): adopt what answers, or boot.  An answer that takes more than
\* 1200 ms, which counts as none, is left out.
Probe(p) == Move(p, "probe", IF PortUp THEN "wait" ELSE "pidcheck")

\* Mutant of PidCheck: postmaster.pid is left to PostgreSQL.
PidFileKept(p) == Move(p, "pidcheck", "version")

PidCheck(p) == Move(p, "pidcheck", IF pidFile # NoProc THEN "unlink" ELSE "version")

\* rmSync without force: throws when the file has gone since.
Unlink(p) ==
    /\ At(p, "unlink")
    /\ IF pidFile = NoProc
       THEN Fail(p)
       ELSE Goto(p, "version") /\ UNCHANGED tx
    /\ pidFile' = NoProc
    /\ UNCHANGED <<todo, pm, cluster, dbVars, kills>>

\* alreadyInitialized: PG_VERSION exists, complete cluster or not.
Version(p) ==
    /\ At(p, "version")
    /\ IF cluster \in {"absent", "bare"}
       THEN Goto(p, "initdb") /\ UNCHANGED pm
       ELSE Goto(p, "pgstart") /\ pm' = [pm EXCEPT ![p] = "spawned"]
    /\ UNCHANGED <<todo, tx, cluster, pidFile, dbVars, kills>>

\* initialise() spawns initdb, which refuses a directory that is not empty.
InitBegin(p) ==
    /\ At(p, "initdb")
    /\ IF cluster = "absent"
       THEN /\ cluster' = "bare" /\ pm' = [pm EXCEPT ![p] = "initdb"]
            /\ Goto(p, "initwait") /\ UNCHANGED tx
       ELSE Fail(p) /\ UNCHANGED <<cluster, pm>>
    /\ UNCHANGED <<todo, pidFile, dbVars, kills>>

\* It rejects when initdb has been killed.
InitDone(p) ==
    /\ At(p, "initwait") /\ pm[p] = "none"
    /\ IF cluster = "ready"
       THEN Goto(p, "pgstart") /\ pm' = [pm EXCEPT ![p] = "spawned"] /\ UNCHANGED tx
       ELSE Fail(p) /\ UNCHANGED pm
    /\ UNCHANGED <<todo, cluster, pidFile, dbVars, kills>>

\* start() resolves when the postmaster is ready, rejects when it has exited.
PgStarted(p) ==
    /\ At(p, "pgstart") /\ pm[p] \in {"none", "up"}
    /\ IF pm[p] = "up" THEN Goto(p, "wait") /\ UNCHANGED tx ELSE Fail(p)
    /\ UNCHANGED <<todo, pm, cluster, pidFile, dbVars, kills>>

\* waitForPostgres(): connect until it works, for 20 seconds, which an incomplete
\* cluster does not let it; then ensureVitalsDatabase() connects to the same
\* database once more.
Wait(p) ==
    /\ At(p, "wait")
    /\ IF PortUp /\ cluster = "ready" THEN Goto(p, "target") /\ UNCHANGED tx ELSE Fail(p)
    /\ UNCHANGED <<todo, pm, cluster, pidFile, dbVars, kills>>

Target(p) == Ask(p, "target", "ledger")

-----------------------------------------------------------------------------
(* migrate() *)

\* Mutant of Ledger: a database that has the table counts as migrated.
LedgerMeansMigrated(p) == Ask(p, "ledger", IF ledger THEN "warm" ELSE "create")

\* CREATE TABLE IF NOT EXISTS schema_migrations looks first and creates then:
\* of two processes that both saw no table, one gets an error.
Ledger(p) == Ask(p, "ledger", IF ledger THEN "read" ELSE "create")

Create(p) ==
    Query(p, "create",
          IF ledger
          THEN Fail(p) /\ UNCHANGED <<todo, dbVars>>
          ELSE /\ ledger' = TRUE /\ Goto(p, "read")
               /\ UNCHANGED <<todo, tx, recorded, schema, times>>)

\* SELECT name: the migrations to apply are those not recorded now.
ReadApplied(p) ==
    Query(p, "read", /\ todo' = [todo EXCEPT ![p] = Migrations \ recorded]
                     /\ Goto(p, "begin") /\ UNCHANGED <<tx, dbVars>>)

Current(p) == Min(todo[p])

Begin(p) == Ask(p, "begin", IF todo[p] = {} THEN "warm" ELSE "ddl")

\* Mutant of Ddl: without BEGIN every statement commits by itself.
DdlCommits(p) ==
    /\ At(p, "ddl")
    /\ Query(p, "ddl", /\ schema' = schema \cup {Current(p)} /\ Goto(p, "record")
                       /\ UNCHANGED <<todo, tx, ledger, recorded, times>>)

\* The statements of a migration all say IF NOT EXISTS.  They wait for a
\* transaction that has created the same tables and is still open.
Ddl(p) ==
    /\ At(p, "ddl") /\ \A q \in Procs \ {p} : Current(p) \notin tx[q].ddl
    /\ Query(p, "ddl", /\ tx' = [tx EXCEPT ![p].ddl = {Current(p)} \ schema]
                       /\ Goto(p, "record") /\ UNCHANGED <<todo, dbVars>>)

\* Mutant of Record: ON CONFLICT DO NOTHING.
RecordIfAbsent(p) ==
    /\ At(p, "record") /\ \A q \in Procs \ {p} : Current(p) \notin tx[q].row
    /\ Query(p, "record", /\ tx' = [tx EXCEPT ![p].row = {Current(p)} \ recorded]
                          /\ Goto(p, "commit") /\ UNCHANGED <<todo, dbVars>>)

\* INSERT INTO schema_migrations: name is the primary key, so it waits for an
\* open transaction that has inserted the name, and fails on a committed one.
\* The catch rolls back and throws.
Record(p) ==
    /\ At(p, "record") /\ \A q \in Procs \ {p} : Current(p) \notin tx[q].row
    /\ Query(p, "record",
             IF Current(p) \in recorded
             THEN Fail(p) /\ UNCHANGED <<todo, dbVars>>
             ELSE /\ tx' = [tx EXCEPT ![p].row = {Current(p)}]
                  /\ Goto(p, "commit") /\ UNCHANGED <<todo, dbVars>>)

Commit(p) ==
    Query(p, "commit", /\ schema' = schema \cup tx[p].ddl
                       /\ recorded' = recorded \cup tx[p].row
                       /\ times' = [times EXCEPT ![Current(p)] = @ + 1]
                       /\ todo' = [todo EXCEPT ![p] = @ \ {Current(p)}]
                       /\ tx' = [tx EXCEPT ![p] = NoTx]
                       /\ Goto(p, "begin") /\ UNCHANGED ledger)

-----------------------------------------------------------------------------
(* The rest of startServer(), and how a server ends *)

\* events.warm().
Warm(p) == Ask(p, "warm", "listen")

\* app.listen() throws EADDRINUSE when another process listens on the port.
Listen(p) ==
    /\ At(p, "listen")
    /\ IF \E q \in Procs : pc[q] \in Listening /\ Port[q] = Port[p]
       THEN Fail(p)
       ELSE Goto(p, "recover") /\ UNCHANGED tx
    /\ UNCHANGED <<todo, pm, cluster, pidFile, dbVars, kills>>

\* One tick of the reaper, which catches its errors, then both timers start.
Recover(p) == Move(p, "recover", "refresh")

\* The first refresh() is awaited: its error rejects startServer().  Then the
\* initial workers are spawned and waitUntilHealthy() finds the server up.
Refresh(p) == Ask(p, "refresh", "serving")

\* SIGTERM and SIGINT: close() and exit(0); demo scripts exit without close().
Close(p) == Move(p, "serving", "closed")

\* The pool has no listener for errors: an idle client that loses its connection
\* ends the process.
LosePool(p) ==
    /\ pc[p] \in {"warm", "listen"} \cup Listening /\ ~PortUp /\ Fail(p)
    /\ UNCHANGED <<todo, pm, cluster, pidFile, dbVars, kills>>

\* SIGKILL: what the process has spawned lives on.
Kill(p) ==
    /\ kills < MaxKills /\ kills' = kills + 1
    /\ pc[p] \in Alive /\ Goto(p, "killed")
    /\ tx' = [tx EXCEPT ![p] = NoTx]
    /\ UNCHANGED <<todo, pm, cluster, pidFile, dbVars>>

-----------------------------------------------------------------------------
(* The specification *)

PgStep(p) == PgInit(p) \/ PgLock(p) \/ PgOpen(p)

BootStep(p) ==
    \/ Probe(p) \/ PidCheck(p) \/ Unlink(p) \/ Version(p)
    \/ InitBegin(p) \/ InitDone(p) \/ PgStarted(p) \/ Wait(p) \/ Target(p)
    \/ Ledger(p) \/ Create(p) \/ ReadApplied(p)
    \/ Begin(p) \/ Ddl(p) \/ Record(p) \/ Commit(p)
    \/ Warm(p) \/ Listen(p) \/ Recover(p) \/ Refresh(p)

Next == \E p \in Procs :
    \/ Start(p) \/ BootStep(p) \/ PgStep(p)
    \/ PgStop(p) \/ PgKilled(p) \/ Close(p) \/ LosePool(p) \/ Kill(p)

Spec == Init /\ [][Next]_vars

\* A process that boots goes on, and so do the programs it spawns.  Nothing is
\* assumed of who starts, kills or stops a server.
Fairness == \A p \in Procs : WF_vars(BootStep(p)) /\ WF_vars(PgStep(p))

FairSpec == Spec /\ Fairness

-----------------------------------------------------------------------------
(* What a boot promises *)

\* server.ts:41-138: a server that answers requests has every table and column,
\* whoever else was migrating, died, or lost its connection in the meantime.
SchemaBeforeServing ==
    \A p \in Procs : pc[p] \in Listening => schema = Migrations

\* migrations.ts:20-23: DDL and name are one transaction: a migration is recorded
\* exactly when it is there, so that a crash never makes a later boot skip it.
RecordedIffApplied == recorded = schema

\* migrations.ts:14-18: two servers that both read an empty schema_migrations do
\* not both apply a migration.
EachMigrationOnce == \A m \in Migrations : times[m] <= 1

\* p boots, nobody else does, and what earlier servers left behind is at rest and
\* not the directory of a killed initdb, which TROUBLESHOOTING.md:9 has one remove.
Alone(p) ==
    /\ cluster \in {"absent", "ready"}
    /\ \A q \in Procs \ {p} : pc[q] \notin Alive
    /\ \A q \in Procs : pm[q] \in {"none", "up"} /\ (pm[q] = "up" => pidFile = q)
    /\ ~\E q \in Procs : pm[q] = "up" /\ pc[q] \in {"failed", "closed"}

\* TROUBLESHOOTING.md:14: "Server was SIGKILLed: rerun pnpm dev; it adopts the
\* running Postgres".  From what killed servers and postmasters leave (but not what
\* a killed initdb does), a boot that nobody interferes with gets the server up.
AloneBootServes ==
    \A p \in Procs : \A k \in 0..MaxKills :
        (pc[p] = "probe" /\ Alone(p) /\ kills = k)
        ~> (pc[p] = "serving" \/ kills > k \/ \E q \in Procs \ {p} : pc[q] \in Alive)

-----------------------------------------------------------------------------
(* What the code does not keep. *)

\* embeddedPg.ts:40: "Safe: the port is provably dead, so this PID file is stale".
\* A process removes postmaster.pid only when no postmaster that lives has
\* written it.
RemovesStalePidFileOnly ==
    [][\A p \in Procs : pc[p] = "unlink" /\ pc'[p] = "version"
            => pidFile = NoProc \/ pm[pidFile] \notin {"starting", "up"}]_vars

\* embeddedPg.ts:44: a boot after a killed initdb gets the server up as well.
KilledInitIsRepaired ==
    \A p \in Procs : \A k \in 0..MaxKills :
        (pc[p] = "probe" /\ cluster \in {"bare", "partial"} /\ kills = k
         /\ \A q \in Procs : pm[q] = "none")
        ~> (pc[p] = "serving" \/ kills > k \/ \E q \in Procs \ {p} : pc[q] \in Alive)

=============================================================================
