---------------------------- MODULE DemoScenario -----------------------------
(***************************************************************************)
(* `pnpm demo': demo/scenario.ts, which starts a server in its own process,   *)
(* seeds tasks of which one kills its worker, and concludes from polls         *)
(* whether the task was recovered, reassigned and completed in time.          *)
(*                                                                         *)
(* The script polls every tenth of a second; here it polls at least once in    *)
(* every unit of the clock.  Its calls stay in one machine and take no time.    *)
(* When it ends so does its server, and with it this model.                  *)
(***************************************************************************)
EXTENDS FailureDetection, SeedPlan

CONSTANTS
    Draws,          \* what the generator may draw
    CrashCount,     \* crash tasks asked for (1)
    Deadline        \* when the script gives up (60 seconds)

VARIABLES plan, script

svars == <<vars, plan, script>>

ASSUME ScenarioAssumption ==
    /\ Draws \subseteq 0..9 /\ CrashCount \in Nat /\ Deadline \in Nat
    /\ IsFiniteSet(Tasks) /\ Tasks = 1..Cardinality(Tasks)

CrashIds == {t \in Tasks : row[t].status # "none" /\ row[t].kind = "demo.crash"}

Ended == script.at \in {"pass", "fail", "abort"}

ScriptSet == [at : {"seed", "list", "watch", "pass", "fail", "abort"},
              next : Nat, victim : Tasks \cup {NoTask},
              recovered : BOOLEAN, reassigned : BOOLEAN,
              elapsed : 0..Deadline, polled : BOOLEAN]

STypeOK == TypeOK /\ plan \in [Tasks -> DemoTypes] /\ script \in ScriptSet

SInit ==
    /\ Init
    /\ \E draws \in [Tasks -> Draws] : plan = CapCrashes(PlanSeedMix(draws), CrashCount)
    /\ script = [at |-> "seed", next |-> 1, victim |-> NoTask, recovered |-> FALSE,
                 reassigned |-> FALSE, elapsed |-> 0, polled |-> FALSE]

\* The loop over the items: one create() after the other.
Seed ==
    /\ script.at = "seed"
    /\ \/ /\ script.next \in Tasks
          /\ Create(script.next, plan[script.next])
          /\ script' = [script EXCEPT !.next = @ + 1]
       \/ /\ script.next \notin Tasks
          /\ script' = [script EXCEPT !.at = "list"]
          /\ UNCHANGED vars
    /\ UNCHANGED plan

List ==
    /\ script.at = "list"
    /\ script' = [script EXCEPT !.at = IF CrashIds = {} THEN "abort" ELSE "watch"]
    /\ UNCHANGED <<vars, plan>>

\* Mutant: PASS also waits for a look at the second execution.
SeenReassigned(s, t) ==
    LET v == IF s.victim = NoTask /\ row[t].status = "running" /\ row[t].attempt = 1
             THEN t ELSE s.victim
        again == row[t].attempt >= 2
    IN IF t # v THEN [s EXCEPT !.victim = v]
       ELSE [s EXCEPT !.victim = v, !.recovered = @ \/ row[t].status = "pending" \/ again,
                      !.reassigned = @ \/ (row[t].status = "running" /\ again),
                      !.at = IF row[t].status = "completed" /\ s.reassigned
                             THEN "pass" ELSE @]

\* What one look at task t makes of the findings so far; t is the victim or
\* becomes it when it is seen running for the first time.
Seen(s, t) ==
    LET v == IF s.victim = NoTask /\ row[t].status = "running" /\ row[t].attempt = 1
             THEN t ELSE s.victim
        again == row[t].attempt >= 2
        recovered == s.recovered \/ row[t].status = "pending" \/ again
    IN IF t # v THEN [s EXCEPT !.victim = v]
       ELSE [s EXCEPT !.victim = v, !.recovered = recovered,
                      !.reassigned = @ \/ (row[t].status = "running" /\ again),
                      !.at = IF row[t].status = "completed" /\ again /\ recovered
                             THEN "pass" ELSE @]

\* One turn of the loop; with one crash task it looks at one task.
Watch ==
    /\ script.at = "watch" /\ script.elapsed < Deadline
    /\ \E t \in CrashIds : script' = [Seen(script, t) EXCEPT !.polled = TRUE]
    /\ UNCHANGED <<vars, plan>>

GiveUp ==
    /\ script.at = "watch" /\ script.elapsed = Deadline
    /\ script' = [script EXCEPT !.at = "fail"]
    /\ UNCHANGED <<vars, plan>>

SystemStep ==
    /\ ~Ended
    /\ (\E w \in Workers : WorkerStep(w)) \/ Reaper
    /\ UNCHANGED <<plan, script>>

Passes ==
    /\ script.at = "watch" /\ script.polled /\ script.elapsed < Deadline
    /\ Tick
    /\ script' = [script EXCEPT !.elapsed = @ + 1, !.polled = FALSE]
    /\ UNCHANGED plan

ScriptStep == Seed \/ List \/ Watch \/ GiveUp

\* The script has ended, and the server with it.
Over == Ended /\ UNCHANGED svars

SNext == ScriptStep \/ SystemStep \/ Passes \/ Over

SSpec == SInit /\ [][SNext]_svars

-----------------------------------------------------------------------------
(* Properties                                                                *)

(***************************************************************************)
(* "the guided demo kills exactly one worker instead of cascading through the *)
(* fleet" (seedBridge.ts:6-7): besides kills from outside, no more processes   *)
(* die than crash tasks were asked for, however often tasks are recovered.     *)
(***************************************************************************)
NoCascade == Cardinality({w \in Workers : Dead(w)}) <= CrashCount + kills

(***************************************************************************)
(* PASS tells the truth: "attempt>=2 can ONLY follow a lease-expiry recovery   *)
(* for the crash task (the first execution dies mid-run)" (scenario.ts:71-73): *)
(* the worker that was given the first attempt has died with it, unless a      *)
(* process had stopped running for longer than its lease.                    *)
(***************************************************************************)
PassIsRecovery ==
    script.at = "pass" /\ stalls = 0 =>
        /\ script.recovered /\ row[script.victim].status = "completed"
        /\ \E w \in Workers :
            /\ Dead(w)
            /\ [task |-> script.victim, attempt |-> 1] \in {job[w].lease, claim[w].lease}

(***************************************************************************)
(* With nobody but the crash task killing workers the script passes before    *)
(* its deadline, whatever the phases of the loops, the delays of the calls     *)
(* and the failures of the reaper (README.md:5: "in about 9 seconds").        *)
(***************************************************************************)
PassesInTime == script.at = "fail" => kills + stalls > 0

=============================================================================
