-------------------------- MODULE ChaosConsoleProofs --------------------------
(***************************************************************************)
(* What the chaos supervisor keeps and the fencing demo claims, for any    *)
(* number of boots, children, resets and disturbances.                     *)
(***************************************************************************)
EXTENDS ChaosConsole, FiniteSetTheorems, TLAPS

-----------------------------------------------------------------------------
(* The supervisor.  Names are given in the order of a counter that only a   *)
(* boot sets back, and a boot forgets both sets of names: so no name above  *)
(* the counter is in a set, and no process of this server has one.          *)

SupervisorInv ==
    /\ up => boot > 0
    /\ ~up => managed = {} /\ paused = {}
    /\ managed \subseteq 1..counter /\ paused \subseteq 1..counter
    /\ \A c \in Child : c[1] > boot => life[c] = "none"
    /\ up => \A n \in Numbers : n > counter => life[Mine(n)] = "none"
    /\ NoChildForgotten

\* A flow polls with tries left; a reset under way has been paid for.
BudgetInv ==
    /\ flow.at \in {"find", "wait"} => flow.tries > 0
    /\ wiping => wipes < MaxWipes

-----------------------------------------------------------------------------
(* The fencing demo.  What it has seen of the task is overtaken only by a   *)
(* new claim, or by a wipe.                                                 *)

FlowInv ==
    /\ flow.at \in {"spawn", "nap", "seed", "submit", "find"} => flow.step = 0
    /\ flow.at \in {"kill", "wait"} => flow.step >= 1
    /\ flow.at = "replay" => flow.step >= 2
    /\ flow.era <= wipes
    /\ flow.step >= 1 /\ task.status # "none" =>
         \/ wipes > flow.era
         \/ /\ task.attempt >= flow.attempt
            /\ task.status = "running" /\ task.attempt = flow.attempt =>
                 task.worker = flow.holder
            /\ flow.step >= 2 => task.attempt > flow.attempt

IInv == TypeOK /\ SupervisorInv /\ BudgetInv /\ FlowInv

-----------------------------------------------------------------------------

LEMMA ChildOf ==
    /\ \A c \in Child : c[1] \in 1..MaxBoots /\ c[2] \in Numbers /\ c = <<c[1], c[2]>>
    /\ TypeOK /\ boot > 0 => \A n \in Numbers : Mine(n) \in Child /\ Mine(n)[1] = boot
                                                  /\ Mine(n)[2] = n
    /\ \A c \in Child : c[1] = boot => c = Mine(c[2])
  <1>1. \A c \in Child : c[1] \in 1..MaxBoots /\ c[2] \in Numbers /\ c = <<c[1], c[2]>>
    BY DEF Child
  <1>2. ASSUME TypeOK, boot > 0, NEW n \in Numbers
        PROVE  Mine(n) \in Child /\ Mine(n)[1] = boot /\ Mine(n)[2] = n
    <2>1. boot \in 1..MaxBoots
      BY <1>2, BoundsAssumption DEF TypeOK
    <2> QED BY <2>1 DEF Child, Mine
  <1>3. \A c \in Child : c[1] = boot => c = Mine(c[2])
    BY <1>1 DEF Mine
  <1> QED BY <1>1, <1>2, <1>3

\* The next name is given to a process that is started; the set gets the name.
LEMMA SpawnedInv ==
    ASSUME TypeOK, SupervisorInv, up, Spawned, UNCHANGED <<up, boot, paused, spared>>
    PROVE  SupervisorInv'
  <1> DEFINE k == counter + 1
  <1>1. /\ counter \in Nat /\ k \in Numbers /\ counter' = k /\ managed' = managed \cup {k}
        /\ life' = [life EXCEPT ![Mine(k)] = "booting"] /\ boot > 0 /\ boot \in Nat
        /\ life \in [Child -> {"none", "booting", "running", "dead"}]
    BY BoundsAssumption DEF TypeOK, SupervisorInv, Spawned, Numbers
  <1>2. /\ Mine(k) \in Child /\ Mine(k)[1] = boot
        /\ \A n \in Numbers : Mine(n) \in Child /\ (Mine(n) = Mine(k) => n = k)
    BY <1>1, ChildOf
  <1>3. managed' \subseteq 1..counter' /\ paused' \subseteq 1..counter'
    BY <1>1 DEF SupervisorInv
  <1>4. \A c \in Child : c[1] > boot' => life'[c] = "none"
    BY <1>1, <1>2 DEF SupervisorInv
  <1>5. \A n \in Numbers : n > counter' => life'[Mine(n)'] = "none"
    <2> SUFFICES ASSUME NEW n \in Numbers, n > k PROVE life'[Mine(n)] = "none"
      BY <1>1 DEF Mine
    <2>1. n \in Nat /\ n # k /\ n > counter
      BY <1>1 DEF Numbers
    <2> QED BY <1>1, <1>2, <2>1 DEF SupervisorInv
  <1>6. NoChildForgotten'
    <2> SUFFICES ASSUME NEW n \in Numbers, Lives(Mine(n))'
                 PROVE  n \in managed' \/ Mine(n)' \in spared
      BY DEF NoChildForgotten
    <2>1. CASE n = k
      BY <1>1, <2>1
    <2>2. CASE n # k
      <3>1. life'[Mine(n)] = life[Mine(n)] /\ Mine(n)' = Mine(n)
        BY <1>1, <1>2, <2>2 DEF Mine
      <3> QED BY <1>1, <3>1 DEF SupervisorInv, NoChildForgotten, Lives
    <2> QED BY <2>1, <2>2
  <1> QED BY <1>1, <1>3, <1>4, <1>5, <1>6 DEF SupervisorInv

\* Processes start and end, but none is born without a name of its own; names go
\* only with processes that do not live, or whose kill has failed.
LEMMA FewerInv ==
    ASSUME TypeOK, SupervisorInv, up, UNCHANGED <<up, boot, counter>>,
           managed' \subseteq managed, paused' \subseteq 1..counter, spared \subseteq spared',
           \A c \in Child : c[1] > boot \/ (c[1] = boot /\ c[2] > counter) => life'[c] = life[c],
           \A n \in Numbers :
               Lives(Mine(n))' => /\ Lives(Mine(n))
                                  /\ n \in managed => n \in managed' \/ Mine(n) \in spared'
    PROVE  SupervisorInv'
  <1>1. \A n \in Numbers : /\ Mine(n)' = Mine(n) /\ Mine(n) \in Child
                           /\ Mine(n)[1] = boot /\ Mine(n)[2] = n
    BY ChildOf DEF Mine, SupervisorInv
  <1>2. NoChildForgotten'
    <2> SUFFICES ASSUME NEW n \in Numbers, Lives(Mine(n))'
                 PROVE  n \in managed' \/ Mine(n)' \in spared'
      BY DEF NoChildForgotten
    <2>1. Lives(Mine(n)) /\ (n \in managed \/ Mine(n) \in spared)
      BY DEF SupervisorInv, NoChildForgotten
    <2> QED BY <1>1, <2>1
  <1>3. \A c \in Child : c[1] > boot => life'[c] = "none"
    <2> SUFFICES ASSUME NEW c \in Child, c[1] > boot PROVE life'[c] = "none"
      OBVIOUS
    <2>1. life'[c] = life[c]
      OBVIOUS
    <2> QED BY <2>1 DEF SupervisorInv
  <1>4. \A n \in Numbers : n > counter => life'[Mine(n)] = "none"
    <2> SUFFICES ASSUME NEW n \in Numbers, n > counter PROVE life'[Mine(n)] = "none"
      OBVIOUS
    <2>1. life'[Mine(n)] = life[Mine(n)]
      BY <1>1
    <2> QED BY <2>1 DEF SupervisorInv
  <1>5. managed' \subseteq 1..counter
    BY DEF SupervisorInv
  <1> QED BY <1>1, <1>2, <1>3, <1>4, <1>5 DEF SupervisorInv

LEMMA KilledInv ==
    ASSUME TypeOK, SupervisorInv, up, NEW names \in SUBSET managed, Killed(names),
           UNCHANGED <<up, boot, counter, paused>>
    PROVE  SupervisorInv'
  <1>1. PICK failed \in SUBSET names :
            /\ managed' = managed \ names
            /\ spared' = spared \cup {Mine(n) : n \in failed}
            /\ life' = [c \in Child |->
                          IF c[1] = boot /\ c[2] \in names \ failed THEN "dead" ELSE life[c]]
    BY DEF Killed
  <1>2. /\ boot > 0 /\ boot \in Nat /\ counter \in Nat
        /\ \A n \in Numbers : /\ Mine(n) \in Child /\ Mine(n)' = Mine(n)
                              /\ Mine(n)[1] = boot /\ Mine(n)[2] = n
    BY ChildOf DEF TypeOK, SupervisorInv, Mine
  <1>3. \A c \in Child : c[1] > boot \/ (c[1] = boot /\ c[2] > counter) => life'[c] = life[c]
    <2> SUFFICES ASSUME NEW c \in Child, c[1] > boot \/ (c[1] = boot /\ c[2] > counter)
                 PROVE  ~(c[1] = boot /\ c[2] \in names)
      BY <1>1
    <2>1. c[1] \in Nat /\ c[2] \in Nat
      BY ChildOf, BoundsAssumption DEF Numbers
    <2> QED BY <1>2, <2>1 DEF SupervisorInv
  <1>4. ASSUME NEW n \in Numbers, Lives(Mine(n))'
        PROVE  /\ Lives(Mine(n))
               /\ n \in managed => n \in managed' \/ Mine(n) \in spared'
    <2>1. life'[Mine(n)] = life[Mine(n)] /\ n \notin names \ failed
      BY <1>1, <1>2, <1>4 DEF Lives
    <2>2. n \in failed => Mine(n) \in spared'
      BY <1>1
    <2> QED BY <1>1, <1>2, <1>4, <2>1, <2>2 DEF Lives
  <1>5. managed' \subseteq managed /\ paused' \subseteq 1..counter /\ spared \subseteq spared'
    BY <1>1 DEF SupervisorInv
  <1> QED BY <1>3, <1>4, <1>5, FewerInv

\* What happens to a process of any boot.
LEMMA ProcessInv ==
    ASSUME TypeOK, SupervisorInv, up, UNCHANGED <<up, boot, counter, managed, paused, spared>>,
           NEW c \in Child, Lives(c), NEW s \in {"running", "dead"},
           life' = [life EXCEPT ![c] = s]
    PROVE  SupervisorInv'
  <1>1. life[c] # "none" /\ life \in [Child -> {"none", "booting", "running", "dead"}]
    BY DEF Lives, TypeOK
  <1>2. /\ boot > 0 /\ boot \in Nat /\ counter \in Nat /\ c[1] \in Nat /\ c[2] \in Numbers
        /\ c[1] = boot => c = Mine(c[2])
        /\ \A n \in Numbers : Mine(n) \in Child /\ Mine(n)' = Mine(n)
    BY ChildOf DEF TypeOK, SupervisorInv, Mine
  <1>3. \A k \in Child : k[1] > boot \/ (k[1] = boot /\ k[2] > counter) => life'[k] = life[k]
    BY <1>1, <1>2, ChildOf DEF SupervisorInv
  <1>4. \A n \in Numbers : Lives(Mine(n))' => Lives(Mine(n))
    BY <1>1, <1>2 DEF Lives
  <1> QED BY <1>3, <1>4, FewerInv DEF SupervisorInv

\* A process may also end while no server runs.
LEMMA CrashInv ==
    ASSUME TypeOK, SupervisorInv, NEW c \in Child, Crash(c)
    PROVE  SupervisorInv'
  <1>1. Lives(c) /\ life' = [life EXCEPT ![c] = "dead"] /\ UNCHANGED supervisor
    BY DEF Crash
  <1>2. CASE up
    BY <1>1, <1>2, ProcessInv DEF supervisor
  <1>3. CASE ~up
    <2>1. /\ ~up' /\ UNCHANGED <<counter, managed, paused, boot>>
          /\ life[c] # "none" /\ life \in [Child -> {"none", "booting", "running", "dead"}]
      BY <1>1, <1>3 DEF supervisor, Lives, TypeOK
    <2>2. \A k \in Child : k[1] > boot' => life'[k] = "none"
      BY <1>1, <2>1 DEF SupervisorInv
    <2> QED BY <1>3, <2>1, <2>2 DEF SupervisorInv, NoChildForgotten
  <1> QED BY <1>2, <1>3 DEF TypeOK

LEMMA StartInv ==
    ASSUME TypeOK, SupervisorInv, Start
    PROVE  SupervisorInv'
  <1>1. /\ boot \in Nat /\ boot' = boot + 1 /\ boot' \in 1..MaxBoots /\ up' = TRUE
        /\ counter' = Initial /\ managed' = 1..Initial /\ paused' = {}
        /\ life' = [c \in Child |->
                  IF c[1] = boot + 1 /\ c[2] <= Initial THEN "booting" ELSE life[c]]
        /\ Initial \in Nat
    BY BoundsAssumption DEF Start, TypeOK
  <1>2. \A n \in Numbers : /\ <<boot + 1, n>> \in Child /\ Mine(n)' = <<boot + 1, n>>
                           /\ life[<<boot + 1, n>>] = "none"
    <2> SUFFICES ASSUME NEW n \in Numbers
                 PROVE  /\ <<boot + 1, n>> \in Child /\ Mine(n)' = <<boot + 1, n>>
                        /\ life[<<boot + 1, n>>] = "none"
      OBVIOUS
    <2>1. <<boot + 1, n>> \in Child /\ <<boot + 1, n>>[1] = boot + 1
      BY <1>1 DEF Child
    <2>2. boot + 1 > boot
      BY <1>1
    <2> QED BY <1>1, <2>1, <2>2 DEF Mine, SupervisorInv
  <1>3. \A c \in Child : c[1] > boot' => life'[c] = "none"
    <2> SUFFICES ASSUME NEW c \in Child, c[1] > boot + 1 PROVE life'[c] = "none"
      BY <1>1
    <2>1. c[1] > boot /\ c[1] # boot + 1
      BY <1>1, ChildOf
    <2> QED BY <1>1, <2>1 DEF SupervisorInv
  <1>4. \A n \in Numbers : /\ n \in Nat /\ n > 0
                           /\ n > Initial => life'[Mine(n)'] = "none"
                           /\ n <= Initial => n \in managed'
    <2> SUFFICES ASSUME NEW n \in Numbers
                 PROVE  /\ n \in Nat /\ n > 0
                        /\ n > Initial => life'[Mine(n)'] = "none"
                        /\ n <= Initial => n \in managed'
      OBVIOUS
    <2>1. n \in Nat /\ n > 0
      BY BoundsAssumption DEF Numbers
    <2>2. <<boot + 1, n>>[2] = n /\ <<boot + 1, n>> \in Child
      BY <1>2
    <2>3. n > Initial => ~(n <= Initial)
      BY <1>1, <2>1
    <2>4. n > Initial => life'[<<boot + 1, n>>] = life[<<boot + 1, n>>]
      BY <1>1, <2>2, <2>3
    <2> QED BY <1>1, <1>2, <2>1, <2>4
  <1>5. NoChildForgotten'
    BY <1>1, <1>4 DEF NoChildForgotten, Lives
  <1> QED BY <1>1, <1>3, <1>4, <1>5 DEF SupervisorInv

LEMMA StopInv ==
    ASSUME TypeOK, SupervisorInv, Stop
    PROVE  SupervisorInv'
  BY DEF Stop, SupervisorInv, fleet, NoChildForgotten

LEMMA ResetInv ==
    ASSUME TypeOK, SupervisorInv, ResetKills
    PROVE  SupervisorInv'
  BY KilledInv DEF ResetKills

LEMMA NamesInv ==
    ASSUME TypeOK, SupervisorInv, up, UNCHANGED <<up, boot, counter, spared, life>>,
           paused' \subseteq 1..counter,
           \/ managed' = managed
           \/ \E n \in managed : managed' = managed \ {n} /\ life[Mine(n)] = "dead"
    PROVE  SupervisorInv'
  <1>1. \A n \in Numbers : Mine(n)' = Mine(n) /\ Lives(Mine(n))' = Lives(Mine(n))
    BY DEF Mine, Lives
  <1>2. \A n \in Numbers :
            Lives(Mine(n))' => /\ Lives(Mine(n))
                               /\ n \in managed => n \in managed' \/ Mine(n) \in spared'
    BY <1>1 DEF Lives
  <1> QED BY <1>2, FewerInv DEF SupervisorInv


\* The page deploys and kills through the same two calls as everybody else.
LEMMA SupervisorStep == TypeOK /\ SupervisorInv /\ [Next]_vars => SupervisorInv'
  <1> SUFFICES ASSUME TypeOK, SupervisorInv, [Next]_vars PROVE SupervisorInv'
    OBVIOUS
  <1>0. up \in BOOLEAN /\ boot \in Nat /\ counter \in Nat /\ managed \subseteq Numbers
    BY BoundsAssumption DEF TypeOK
  <1>1. CASE UNCHANGED <<up, boot, counter, managed, paused, spared, life>>
    BY <1>1 DEF SupervisorInv, NoChildForgotten, Lives, Mine
  <1>2. CASE Start
    BY <1>2, StartInv
  <1>3. CASE Stop
    BY <1>3, StopInv
  <1>4. CASE ResetKills
    BY <1>4, ResetInv
  <1>5. CASE SpawnWorker
    BY <1>5, SpawnedInv DEF SpawnWorker
  <1>6. CASE AskWorker
    <2>1. up /\ UNCHANGED <<up, boot, paused, spared>>
      BY <1>6 DEF AskWorker
    <2>2. Spawned \/ UNCHANGED <<counter, managed, life>>
      BY <1>6 DEF AskWorker
    <2> QED BY <1>1, <2>1, <2>2, SpawnedInv
  <1>7. ASSUME NEW n \in Numbers, KillWorker(n) PROVE SupervisorInv'
    <2>1. up /\ {n} \in SUBSET managed /\ Killed({n}) /\ UNCHANGED <<up, boot, counter, paused>>
      BY <1>7 DEF KillWorker
    <2> QED BY <2>1, KilledInv
  <1>8. CASE KillHolder
    <2>1. up /\ UNCHANGED <<up, boot, counter, paused>>
      BY <1>8 DEF KillHolder
    <2>2. \/ {flow.holder[1]} \in SUBSET managed /\ Killed({flow.holder[1]})
          \/ UNCHANGED <<managed, spared, life>>
      BY <1>8 DEF KillHolder, KillTarget
    <2> QED BY <1>1, <2>1, <2>2, KilledInv
  <1>9. ASSUME NEW n \in Numbers, PauseHeartbeats(n) PROVE SupervisorInv'
    <2>1. /\ up /\ n \in managed /\ paused' = paused \cup {n}
          /\ UNCHANGED <<up, boot, counter, life, managed, spared>>
      BY <1>9 DEF PauseHeartbeats, fleet
    <2>2. paused' \subseteq 1..counter
      BY <2>1 DEF SupervisorInv
    <2> QED BY <2>1, <2>2, NamesInv
  <1>10. ASSUME NEW n \in Numbers, ResumeHeartbeats(n) PROVE SupervisorInv'
    <2>1. /\ up /\ paused' = paused \ {n} /\ UNCHANGED <<up, boot, counter, life, managed, spared>>
      BY <1>10 DEF ResumeHeartbeats, fleet
    <2>2. paused' \subseteq 1..counter
      BY <2>1 DEF SupervisorInv
    <2> QED BY <2>1, <2>2, NamesInv
  <1>11. ASSUME NEW n \in Numbers, ChildExits(n) PROVE SupervisorInv'
    <2>1. /\ up /\ n \in managed /\ life[Mine(n)] = "dead" /\ managed' = managed \ {n}
          /\ UNCHANGED <<up, boot, counter, life, paused, spared>>
      BY <1>11 DEF ChildExits, fleet
    <2>2. paused' \subseteq 1..counter
      BY <2>1 DEF SupervisorInv
    <2> QED BY <2>1, <2>2, NamesInv
  <1>12. ASSUME NEW c \in Child, Crash(c) PROVE SupervisorInv'
    BY <1>12, CrashInv
  <1>13. ASSUME NEW c \in Child, Register(c) PROVE SupervisorInv'
    <2>1. up /\ Lives(c) /\ life' = [life EXCEPT ![c] = "running"] /\ UNCHANGED supervisor
      BY <1>13 DEF Register, Lives
    <2> QED BY <2>1, ProcessInv DEF supervisor
  <1>14. \/ UNCHANGED <<up, boot, counter, managed, paused, spared, life>>
         \/ Start \/ Stop \/ ResetKills \/ SpawnWorker \/ AskWorker \/ KillHolder
         \/ \E n \in Numbers : \/ KillWorker(n) \/ PauseHeartbeats(n) \/ ResumeHeartbeats(n)
                               \/ ChildExits(n)
         \/ \E c \in Child : Crash(c) \/ Register(c)
    <2>1. CASE UNCHANGED vars
      BY <2>1 DEF vars, supervisor, fleet
    <2>2. CASE FlowStep
      BY <2>2 DEF FlowStep, Nap, SeedLoad, Submit, FindHolder, WaitMoved, ReplayStale, Unreachable,
         supervisor, fleet
    <2>3. CASE ResetWipes \/ Complete \/ Recover \/ \E k \in Flows : Click(k)
      BY <2>3 DEF ResetWipes, Complete, Recover, Click, supervisor, fleet
    <2>4. CASE \/ \E n \in Numbers : TimesOut(n)
               \/ \E c \in Child : Heartbeat(c) \/ Claim(c)
      BY <2>4 DEF TimesOut, Heartbeat, Claim, supervisor, fleet
    <2> QED BY <2>1, <2>2, <2>3, <2>4 DEF Next
  <1> QED BY <1>1, <1>2, <1>3, <1>4, <1>5, <1>6, <1>7, <1>8, <1>9, <1>10, <1>11, <1>12, <1>13,
             <1>14

-----------------------------------------------------------------------------
(* The page.                                                                *)

LEMMA FlowInvOf ==
    ASSUME FlowInv, flow' = flow, wipes' = wipes, task' = task
    PROVE  FlowInv'
  BY DEF FlowInv

\* The task is claimed again, completed or recovered.
LEMMA TaskFlow ==
    ASSUME TypeOK, FlowInv, flow' = flow, wipes' = wipes, task.status # "none",
           \/ task'.attempt = task.attempt /\ task'.status # "running"
           \/ task'.attempt = task.attempt + 1
    PROVE  FlowInv'
  <1>1. task.attempt \in Nat /\ flow.attempt \in Nat /\ wipes \in Nat /\ flow.era \in Nat
    BY BoundsAssumption DEF TypeOK, Task, Flow
  <1> QED BY <1>1 DEF FlowInv

\* The flow takes its next step.
LEMMA PageFlow ==
    ASSUME TypeOK, FlowInv, FlowStep
    PROVE  FlowInv'
  <1>0. /\ task.attempt \in Nat /\ flow.attempt \in Nat /\ wipes \in Nat /\ flow.era \in Nat
        /\ flow \in Flow /\ flow.step \in 0..3 /\ task \in Task /\ wipes' = wipes
    BY BoundsAssumption DEF TypeOK, Task, Flow, FlowStep, AskWorker, Nap, SeedLoad, Submit,
       FindHolder, KillHolder, WaitMoved, ReplayStale, Unreachable, bounds
  <1>1. ASSUME flow' = Idle PROVE FlowInv'
    BY <1>0, <1>1 DEF FlowInv, Idle
  <1>2. ASSUME NEW a \in {"spawn", "nap", "seed", "submit"}, flow' = [flow EXCEPT !.at = a],
               flow.step = 0, task' = task
        PROVE  FlowInv'
    <2>1. flow'.step = 0 /\ flow'.era = flow.era /\ flow'.at = a
      BY <1>0, <1>2 DEF Flow
    <2> QED BY <1>0, <2>1 DEF FlowInv
  <1>3. CASE AskWorker \/ Nap
    <2>1. flow.step = 0 /\ task' = task
      BY <1>3 DEF AskWorker, Nap, FlowInv
    <2>2. \E a \in {"spawn", "nap", "seed", "submit"} : flow' = [flow EXCEPT !.at = a]
      BY <1>3 DEF AskWorker, Nap, Go, AfterSpawn
    <2> QED BY <1>2, <2>1, <2>2
  <1>4. CASE SeedLoad \/ Unreachable
    BY <1>1, <1>4 DEF SeedLoad, Unreachable, GiveUp
  <1>5. CASE Submit
    <2>1. flow.step = 0 /\ flow' = [flow EXCEPT !.at = "find", !.tries = Tries]
      BY <1>5 DEF Submit, FlowInv
    <2>2. flow'.step = 0 /\ flow'.era = flow.era /\ flow'.at = "find"
      BY <1>0, <2>1 DEF Flow
    <2> QED BY <1>0, <2>2 DEF FlowInv
  <1>6. CASE TryAgain /\ task' = task
    <2>1. CASE flow' = [flow EXCEPT !.tries = @ - 1]
      <3>1. /\ flow'.at = flow.at /\ flow'.step = flow.step /\ flow'.era = flow.era
            /\ flow'.attempt = flow.attempt /\ flow'.holder = flow.holder
        BY <1>0, <2>1 DEF Flow
      <3> QED BY <1>0, <1>6, <3>1 DEF FlowInv
    <2> QED BY <1>1, <1>6, <2>1 DEF TryAgain, GiveUp
  <1>7. CASE FindHolder
    <2>1. CASE flow' = [flow EXCEPT !.at = "kill", !.holder = task.worker, !.victim = task.by,
                                 !.attempt = task.attempt, !.step = 1]
      <3>1. /\ flow'.at = "kill" /\ flow'.step = 1 /\ flow'.era = flow.era
            /\ flow'.attempt = task.attempt /\ flow'.holder = task.worker /\ task' = task
        BY <1>0, <1>7, <2>1 DEF Flow, FindHolder
      <3> QED BY <1>0, <3>1 DEF FlowInv
    <2> QED BY <1>1, <1>6, <1>7, <2>1 DEF FindHolder, GiveUp
  <1>8. CASE KillHolder
    <2>1. CASE \E a : flow' = [flow EXCEPT !.at = a, !.tries = Tries] /\ a \in {"stages", "wait"}
      <3>1. /\ flow'.at \in {"stages", "wait"} /\ flow'.step = flow.step /\ flow'.era = flow.era
            /\ flow'.attempt = flow.attempt /\ flow'.holder = flow.holder /\ task' = task
        BY <1>0, <1>8, <2>1 DEF Flow, KillHolder
      <3> QED BY <1>0, <1>8, <3>1 DEF FlowInv, KillHolder
    <2> QED BY <1>1, <1>8, <2>1 DEF KillHolder, GiveUp
  <1>9. CASE WaitMoved
    <2>1. CASE Moved /\ flow' = [flow EXCEPT !.at = "replay", !.step = 2]
      <3>1. /\ flow'.at = "replay" /\ flow'.step = 2 /\ flow'.era = flow.era
            /\ flow'.attempt = flow.attempt /\ flow'.holder = flow.holder /\ task' = task
        BY <1>0, <1>9, <2>1 DEF Flow, WaitMoved
      <3>2. task.status = "running" /\ task.worker # flow.holder
        BY <2>1 DEF Moved
      <3>3. flow.step >= 1
        BY <1>9 DEF WaitMoved, FlowInv
      <3> QED BY <1>0, <3>1, <3>2, <3>3 DEF FlowInv
    <2> QED BY <1>6, <1>9, <2>1 DEF WaitMoved
  <1>10. CASE ReplayStale
    <2>1. /\ flow'.at = "idle" /\ flow'.step = 3 /\ flow'.era = flow.era
          /\ flow'.attempt = flow.attempt /\ flow'.holder = flow.holder /\ task' = task
          /\ flow.step >= 2
      BY <1>0, <1>10 DEF Flow, ReplayStale, FlowInv
    <2> QED BY <1>0, <2>1 DEF FlowInv
  <1> QED BY <1>3, <1>4, <1>5, <1>7, <1>8, <1>9, <1>10 DEF FlowStep


LEMMA FlowInvStep == TypeOK /\ BudgetInv /\ FlowInv /\ [Next]_vars => FlowInv'
  <1> SUFFICES ASSUME TypeOK, BudgetInv, FlowInv, [Next]_vars PROVE FlowInv'
    OBVIOUS
  <1>1. CASE UNCHANGED <<flow, wipes, task>>
    BY <1>1 DEF FlowInv
  <1>2. CASE FlowStep
    BY <1>2, PageFlow
  <1>3. CASE ResetWipes
    <2>1. /\ task'.status = "none" /\ flow' = flow /\ wipes' = wipes + 1
          /\ wipes \in Nat /\ flow.era \in Nat
      BY <1>3, BoundsAssumption DEF ResetWipes, NoTask, TypeOK, Flow
    <2> QED BY <2>1 DEF FlowInv
  <1>4. ASSUME NEW k \in Flows, Click(k) PROVE FlowInv'
    <2>1. flow'.step = 0 /\ flow'.era = wipes /\ wipes' = wipes
          /\ flow'.at \in {"spawn", "seed", "submit"}
      BY <1>4 DEF Click, Clicked, Idle
    <2> QED BY <2>1, BoundsAssumption DEF FlowInv, TypeOK
  <1>5. CASE Complete \/ Recover \/ \E c \in Child : Claim(c)
    <2>1. /\ flow' = flow /\ wipes' = wipes /\ task.status # "none" /\ task \in Task
      BY <1>5 DEF Complete, Recover, Claim, bounds, TypeOK
    <2>2. \/ task'.attempt = task.attempt /\ task'.status # "running"
          \/ task'.attempt = task.attempt + 1
      <3>1. Complete \/ Recover => task'.attempt = task.attempt /\ task'.status # "running"
        BY <2>1 DEF Complete, Recover, Task
      <3>2. (\E c \in Child : Claim(c)) => task'.attempt = task.attempt + 1
        BY DEF Claim
      <3> QED BY <1>5, <3>1, <3>2
    <2> QED BY <2>1, <2>2, TaskFlow
  <1>6. \/ UNCHANGED <<flow, wipes, task>> \/ FlowStep \/ ResetWipes
        \/ \E k \in Flows : Click(k)
        \/ Complete \/ Recover \/ \E c \in Child : Claim(c)
    BY DEF Next, vars, bounds, Start, Stop, SpawnWorker, ResetKills, KillWorker, PauseHeartbeats,
       ResumeHeartbeats, ChildExits, TimesOut, Crash, Register, Heartbeat
  <1> QED BY <1>1, <1>2, <1>3, <1>4, <1>5, <1>6

-----------------------------------------------------------------------------
(* Types.                                                                   *)

SupervisorType ==
    /\ up \in BOOLEAN /\ boot \in 0..MaxBoots /\ counter \in 0..MaxSpawns
    /\ managed \subseteq Numbers /\ paused \subseteq Numbers /\ wiping \in BOOLEAN
    /\ spared \subseteq Child

FleetType ==
    /\ life \in [Child -> {"none", "booting", "running", "dead"}]
    /\ era \in [Child -> 0..MaxWipes] /\ held \in [Child -> BOOLEAN]
    /\ row \in [Numbers -> {"none", "online", "offline"}]

BoundsType == wipes \in 0..MaxWipes /\ troubles \in 0..MaxTroubles /\ clicks \in 0..MaxClicks

LEMMA TypeParts ==
    TypeOK <=> SupervisorType /\ FleetType /\ BoundsType /\ task \in Task /\ flow \in Flow
  BY DEF TypeOK, SupervisorType, FleetType, BoundsType

LEMMA SpawnedType ==
    ASSUME SupervisorType, FleetType, Spawned
    PROVE  /\ counter' \in 0..MaxSpawns /\ managed' \subseteq Numbers
           /\ life' \in [Child -> {"none", "booting", "running", "dead"}]
  <1>1. counter \in 0..MaxSpawns /\ MaxSpawns \in Nat /\ counter < MaxSpawns
    BY BoundsAssumption DEF Spawned, SupervisorType
  <1>2. counter' \in 0..MaxSpawns /\ counter + 1 \in Numbers
    BY <1>1 DEF Spawned, Numbers
  <1>3. managed' \subseteq Numbers
    BY <1>2 DEF Spawned, SupervisorType
  <1>4. life' \in [Child -> {"none", "booting", "running", "dead"}]
    BY DEF Spawned, FleetType
  <1> QED BY <1>2, <1>3, <1>4

LEMMA KilledType ==
    ASSUME TypeOK, boot > 0, NEW names \in SUBSET managed, Killed(names)
    PROVE  /\ managed' \subseteq Numbers /\ spared' \subseteq Child
           /\ life' \in [Child -> {"none", "booting", "running", "dead"}]
  <1>1. PICK failed \in SUBSET names :
            /\ managed' = managed \ names
            /\ spared' = spared \cup {Mine(n) : n \in failed}
            /\ life' = [c \in Child |->
                          IF c[1] = boot /\ c[2] \in names \ failed THEN "dead" ELSE life[c]]
    BY DEF Killed
  <1>2. \A n \in failed : Mine(n) \in Child
    BY ChildOf DEF TypeOK
  <1> QED BY <1>1, <1>2 DEF TypeOK

LEMMA SupervisorTypeStep == TypeOK /\ SupervisorInv /\ [Next]_vars => SupervisorType'
  <1> SUFFICES ASSUME TypeOK, SupervisorInv, [Next]_vars PROVE SupervisorType'
    OBVIOUS
  <1>0. SupervisorType /\ FleetType /\ (up => boot > 0)
    BY TypeParts DEF SupervisorInv
  <1>1. CASE UNCHANGED supervisor
    BY <1>0, <1>1 DEF supervisor, SupervisorType, Numbers
  <1>2. CASE Start
    BY <1>0, <1>2, BoundsAssumption DEF Start, SupervisorType, Numbers
  <1>3. CASE Stop
    <2>1. 0 \in 0..MaxSpawns
      BY BoundsAssumption
    <2>2. /\ up' = FALSE /\ counter' = 0 /\ managed' = {} /\ paused' = {} /\ wiping' = FALSE
          /\ UNCHANGED <<boot, spared>>
      BY <1>3 DEF Stop
    <2> QED BY <1>0, <2>1, <2>2 DEF SupervisorType
  <1>4. CASE ResetKills \/ ResetWipes
    <2>1. CASE ResetKills
      <3>1. managed' \subseteq Numbers /\ spared' \subseteq Child
        BY <1>0, <2>1, KilledType DEF ResetKills
      <3> QED BY <1>0, <2>1, <3>1 DEF ResetKills, SupervisorType, Numbers
    <2>2. CASE ResetWipes
      BY <1>0, <2>2 DEF ResetWipes, SupervisorType, Numbers
    <2> QED BY <1>4, <2>1, <2>2
  <1>5. CASE SpawnWorker \/ AskWorker
    <2>1. UNCHANGED <<up, boot, paused, wiping, spared>>
      BY <1>5 DEF SpawnWorker, AskWorker
    <2>2. Spawned \/ UNCHANGED <<counter, managed>>
      BY <1>5 DEF SpawnWorker, AskWorker
    <2> QED BY <1>0, <2>1, <2>2, SpawnedType DEF SupervisorType, Numbers
  <1>6. CASE KillHolder \/ \E n \in Numbers : KillWorker(n)
    <2>1. UNCHANGED <<up, boot, counter, paused, wiping>>
      BY <1>6 DEF KillHolder, KillWorker
    <2>2. \/ up /\ \E n \in managed : {n} \in SUBSET managed /\ Killed({n})
          \/ UNCHANGED <<managed, spared>>
      BY <1>6 DEF KillHolder, KillTarget, KillWorker
    <2>3. managed' \subseteq Numbers /\ spared' \subseteq Child
      BY <1>0, <2>2, KilledType DEF SupervisorType
    <2> QED BY <1>0, <2>1, <2>3 DEF SupervisorType, Numbers
  <1>7. ASSUME NEW n \in Numbers, PauseHeartbeats(n) \/ ResumeHeartbeats(n) \/ ChildExits(n)
        PROVE  SupervisorType'
    BY <1>0, <1>7 DEF PauseHeartbeats, ResumeHeartbeats, ChildExits, SupervisorType, Numbers
  <1>8. \/ UNCHANGED supervisor \/ Start \/ Stop \/ ResetKills \/ ResetWipes
        \/ SpawnWorker \/ AskWorker \/ KillHolder
        \/ \E n \in Numbers : \/ KillWorker(n) \/ PauseHeartbeats(n) \/ ResumeHeartbeats(n)
                              \/ ChildExits(n)
    <2>1. CASE UNCHANGED vars
      BY <2>1 DEF vars
    <2>2. CASE FlowStep
      BY <2>2 DEF FlowStep, Nap, SeedLoad, Submit, FindHolder, WaitMoved, ReplayStale, Unreachable
    <2>3. CASE \/ Complete \/ Recover \/ \E k \in Flows : Click(k)
               \/ \E n \in Numbers : TimesOut(n)
               \/ \E c \in Child : Crash(c) \/ Register(c) \/ Heartbeat(c) \/ Claim(c)
      BY <2>3 DEF Complete, Recover, Click, TimesOut, Crash, Register, Heartbeat, Claim
    <2> QED BY <2>1, <2>2, <2>3 DEF Next
  <1> QED BY <1>1, <1>2, <1>3, <1>4, <1>5, <1>6, <1>7, <1>8


LEMMA FleetTypeStep == TypeOK /\ SupervisorInv /\ BudgetInv /\ [Next]_vars => FleetType'
  <1> SUFFICES ASSUME TypeOK, SupervisorInv, BudgetInv, [Next]_vars PROVE FleetType'
    OBVIOUS
  <1>0. /\ SupervisorType /\ FleetType /\ wipes \in 0..MaxWipes
        /\ \A c \in Child : c[2] \in Numbers
        /\ up => boot > 0
    BY TypeParts, ChildOf DEF BoundsType, SupervisorInv
  <1>1. CASE UNCHANGED fleet
    BY <1>0, <1>1 DEF fleet, FleetType
  <1>2. CASE Start
    BY <1>0, <1>2 DEF Start, FleetType
  <1>3. CASE ResetKills \/ ResetWipes
    <2>1. CASE ResetKills
      <3>1. life' \in [Child -> {"none", "booting", "running", "dead"}]
        BY <1>0, <2>1, KilledType DEF ResetKills
      <3> QED BY <1>0, <2>1, <3>1 DEF ResetKills, FleetType
    <2>2. CASE ResetWipes
      BY <1>0, <2>2 DEF ResetWipes, FleetType
    <2> QED BY <1>3, <2>1, <2>2
  <1>4. CASE SpawnWorker \/ AskWorker
    <2>1. UNCHANGED <<era, held, row>> /\ (Spawned \/ UNCHANGED life)
      BY <1>4 DEF SpawnWorker, AskWorker
    <2> QED BY <1>0, <2>1, SpawnedType DEF FleetType
  <1>5. CASE KillHolder \/ \E n \in Numbers : KillWorker(n)
    <2>1. /\ UNCHANGED <<era, held, row>>
          /\ \/ up /\ \E n \in managed : {n} \in SUBSET managed /\ Killed({n})
             \/ UNCHANGED life
      BY <1>5 DEF KillHolder, KillTarget, KillWorker
    <2>2. life' \in [Child -> {"none", "booting", "running", "dead"}]
      BY <1>0, <2>1, KilledType DEF FleetType
    <2> QED BY <1>0, <2>1, <2>2 DEF FleetType
  <1>6. ASSUME NEW c \in Child, Crash(c) PROVE FleetType'
    BY <1>0, <1>6 DEF Crash, FleetType
  <1>7. ASSUME NEW c \in Child, Register(c) PROVE FleetType'
    BY <1>0, <1>7 DEF Register, Registered, FleetType
  <1>8. ASSUME NEW c \in Child, Heartbeat(c) PROVE FleetType'
    <2>1. /\ life' = life
          /\ held' \in {held, [held EXCEPT ![c] = c[2] \in paused]}
          /\ \/ UNCHANGED <<era, row>>
             \/ row' = [row EXCEPT ![c[2]] = "online"] /\ era' = [era EXCEPT ![c] = wipes]
      BY <1>8 DEF Heartbeat, Registered
    <2>2. (c[2] \in paused) \in BOOLEAN
      OBVIOUS
    <2>3. held' \in [Child -> BOOLEAN]
      BY <1>0, <2>1, <2>2 DEF FleetType
    <2> QED BY <1>0, <2>1, <2>3 DEF FleetType
  <1>9. ASSUME NEW n \in Numbers, TimesOut(n) PROVE FleetType'
    BY <1>0, <1>9 DEF TimesOut, FleetType
  <1>10. \/ UNCHANGED fleet \/ Start \/ ResetKills \/ ResetWipes
         \/ SpawnWorker \/ AskWorker \/ KillHolder \/ \E n \in Numbers : KillWorker(n)
         \/ \E c \in Child : Crash(c) \/ Register(c) \/ Heartbeat(c)
         \/ \E n \in Numbers : TimesOut(n)
    <2>1. CASE UNCHANGED vars
      BY <2>1 DEF vars
    <2>2. CASE FlowStep
      BY <2>2 DEF FlowStep, Nap, SeedLoad, Submit, FindHolder, WaitMoved, ReplayStale, Unreachable
    <2>3. CASE \/ Complete \/ Recover \/ Stop \/ \E k \in Flows : Click(k)
               \/ \E n \in Numbers : \/ PauseHeartbeats(n) \/ ResumeHeartbeats(n)
                                     \/ ChildExits(n)
               \/ \E c \in Child : Claim(c)
      BY <2>3 DEF Complete, Recover, Stop, Click, PauseHeartbeats, ResumeHeartbeats, ChildExits,
         Claim
    <2> QED BY <2>1, <2>2, <2>3 DEF Next
  <1> QED BY <1>1, <1>2, <1>3, <1>4, <1>5, <1>6, <1>7, <1>8, <1>9, <1>10

LEMMA TroubleType ==
    ASSUME troubles \in 0..MaxTroubles, Trouble
    PROVE  troubles' \in 0..MaxTroubles
  BY BoundsAssumption DEF Trouble

LEMMA BoundsTypeStep == TypeOK /\ BudgetInv /\ [Next]_vars => BoundsType'
  <1> SUFFICES ASSUME TypeOK, BudgetInv, [Next]_vars PROVE BoundsType'
    OBVIOUS
  <1>0. BoundsType /\ MaxWipes \in Nat /\ MaxClicks \in Nat
    BY TypeParts, BoundsAssumption
  <1>1. CASE UNCHANGED <<wipes, clicks>> /\ (Trouble \/ UNCHANGED troubles)
    BY <1>0, <1>1, TroubleType DEF BoundsType
  <1>2. CASE ResetWipes
    BY <1>0, <1>2 DEF ResetWipes, BudgetInv, BoundsType
  <1>3. ASSUME NEW k \in Flows, Click(k) PROVE BoundsType'
    BY <1>0, <1>3 DEF Click, BoundsType
  <1>4. \/ UNCHANGED <<wipes, clicks>> /\ (Trouble \/ UNCHANGED troubles)
        \/ ResetWipes \/ \E k \in Flows : Click(k)
    <2>1. CASE UNCHANGED vars
      BY <2>1 DEF vars, bounds
    <2>2. CASE FlowStep
      BY <2>2 DEF FlowStep, AskWorker, Nap, SeedLoad, Submit, FindHolder, KillHolder, WaitMoved,
         ReplayStale, Unreachable, bounds
    <2>3. CASE Start \/ Stop \/ SpawnWorker \/ ResetKills \/ Complete \/ Recover
      BY <2>3 DEF Start, Stop, SpawnWorker, ResetKills, Complete, Recover, bounds
    <2>4. CASE \/ \E n \in Numbers :
                    \/ KillWorker(n) \/ PauseHeartbeats(n) \/ ResumeHeartbeats(n)
                    \/ ChildExits(n) \/ TimesOut(n)
               \/ \E c \in Child : Crash(c) \/ Register(c) \/ Heartbeat(c) \/ Claim(c)
      BY <2>4 DEF KillWorker, PauseHeartbeats, ResumeHeartbeats, ChildExits, TimesOut, Crash,
         Register, Heartbeat, Claim, bounds
    <2> QED BY <2>1, <2>2, <2>3, <2>4 DEF Next
  <1> QED BY <1>1, <1>2, <1>3, <1>4

LEMMA TaskTypeStep == TypeOK /\ [Next]_vars => task' \in Task
  <1> SUFFICES ASSUME TypeOK, [Next]_vars PROVE task' \in Task
    OBVIOUS
  <1>0. task \in Task /\ FleetType /\ MaxAttempts \in Nat
    BY TypeParts, BoundsAssumption
  <1>1. NoTask \in Task /\ [NoTask EXCEPT !.status = "pending"] \in Task
    BY <1>0 DEF NoTask, Task
  <1>2. ASSUME NEW c \in Child, Claim(c) PROVE task' \in Task
    <2>1. <<c[2], era[c]>> \in WorkerId
      BY <1>0, ChildOf DEF FleetType, WorkerId
    <2>2. task.attempt + 1 \in 0..MaxAttempts
      BY <1>0, <1>2 DEF Claim, Task
    <2> QED BY <1>2, <2>1, <2>2 DEF Claim, Task
  <1>3. CASE Complete \/ Recover
    BY <1>0, <1>3 DEF Complete, Recover, Task
  <1>4. \/ task' \in {task, NoTask, [NoTask EXCEPT !.status = "pending"]}
        \/ Complete \/ Recover \/ \E c \in Child : Claim(c)
    <2>1. CASE UNCHANGED vars
      BY <2>1 DEF vars
    <2>2. CASE FlowStep
      BY <2>2 DEF FlowStep, AskWorker, Nap, SeedLoad, Submit, FindHolder, KillHolder, WaitMoved,
         ReplayStale, Unreachable
    <2>3. CASE Start \/ Stop \/ SpawnWorker \/ ResetKills \/ ResetWipes \/ \E k \in Flows : Click(k)
      BY <2>3 DEF Start, Stop, SpawnWorker, ResetKills, ResetWipes, Click
    <2>4. CASE \/ \E n \in Numbers :
                    \/ KillWorker(n) \/ PauseHeartbeats(n) \/ ResumeHeartbeats(n)
                    \/ ChildExits(n) \/ TimesOut(n)
               \/ \E c \in Child : Crash(c) \/ Register(c) \/ Heartbeat(c)
      BY <2>4 DEF KillWorker, PauseHeartbeats, ResumeHeartbeats, ChildExits, TimesOut, Crash,
         Register, Heartbeat
    <2> QED BY <2>1, <2>2, <2>3, <2>4 DEF Next
  <1> QED BY <1>0, <1>1, <1>2, <1>3, <1>4


LEMMA FlowTypeStep == TypeOK /\ BudgetInv /\ [Next]_vars => flow' \in Flow
  <1> SUFFICES ASSUME TypeOK, BudgetInv, [Next]_vars PROVE flow' \in Flow
    OBVIOUS
  <1>0. /\ flow \in Flow /\ task \in Task /\ wipes \in 0..MaxWipes
        /\ Tries \in Nat \ {0} /\ MaxSpawns \in Nat /\ MaxWipes \in Nat /\ MaxAttempts \in Nat
    BY TypeParts, BoundsAssumption DEF BoundsType
  <1>1. Idle \in Flow
    BY <1>0 DEF Idle, Flow
  <1>2. ASSUME NEW k \in Flows, Click(k) PROVE flow' \in Flow
    <2>1. Cardinality(OnlineNames) \in 0..MaxSpawns
      <3>1. IsFiniteSet(Numbers) /\ Cardinality(Numbers) = MaxSpawns
        BY <1>0, FS_Interval DEF Numbers
      <3>2. OnlineNames \in SUBSET Numbers
        BY DEF OnlineNames
      <3>3. Cardinality(OnlineNames) \in Nat /\ Cardinality(OnlineNames) <= MaxSpawns
        BY <3>1, <3>2, FS_Subset, FS_CardinalityType
      <3> QED BY <1>0, <3>3
    <2>2. Clicked(k) \in Flow
      BY <1>0, <1>1, <2>1 DEF Clicked, Flow
    <2>3. \E a \in {"spawn", "seed", "submit"} : flow' = [Clicked(k) EXCEPT !.at = a]
      BY <1>2 DEF Click
    <2> QED BY <2>2, <2>3 DEF Flow
  <1>3. CASE \E a \in {"nap", "spawn", "seed", "submit"} : flow' = [flow EXCEPT !.at = a]
    BY <1>0, <1>3 DEF Flow
  <1>4. CASE \E a \in {"find", "stages", "wait"} : flow' = [flow EXCEPT !.at = a, !.tries = Tries]
    <2>1. Tries \in 0..Tries
      BY <1>0
    <2> QED BY <1>0, <1>4, <2>1 DEF Flow
  <1>5. CASE \E a \in {"replay", "idle"}, n \in {2, 3} :
               flow' = [flow EXCEPT !.at = a, !.step = n]
    <2>1. {2, 3} \subseteq 0..3
      OBVIOUS
    <2> QED BY <1>0, <1>5, <2>1 DEF Flow
  <1>6. CASE flow.tries > 0 /\ TryAgain
    <2>1. CASE flow' = [flow EXCEPT !.tries = @ - 1]
      <3>1. flow.tries - 1 \in 0..Tries
        BY <1>0, <1>6 DEF Flow
      <3> QED BY <1>0, <2>1, <3>1 DEF Flow
    <2> QED BY <1>1, <1>6, <2>1 DEF TryAgain, GiveUp
  <1>7. CASE flow' = [flow EXCEPT !.at = "kill", !.holder = task.worker, !.victim = task.by,
                                  !.attempt = task.attempt, !.step = 1]
    <2>1. /\ 1 \in 0..3 /\ task.worker \in WorkerId \cup {NoId}
          /\ task.by \in Child \cup {NoChild} /\ task.attempt \in 0..MaxAttempts
      BY <1>0 DEF Task
    <2> QED BY <1>0, <1>7, <2>1 DEF Flow
  <1>8. CASE FlowStep
    <2>1. CASE AskWorker \/ Nap
      BY <1>3, <2>1 DEF AskWorker, Nap, Go, AfterSpawn
    <2>2. CASE SeedLoad \/ Unreachable
      BY <1>1, <2>2 DEF SeedLoad, Unreachable, GiveUp
    <2>3. CASE Submit
      BY <1>4, <2>3 DEF Submit
    <2>4. CASE FindHolder
      <3>1. flow.tries > 0
        BY <2>4 DEF FindHolder, BudgetInv
      <3>2. \/ TryAgain \/ flow' = Idle
            \/ flow' = [flow EXCEPT !.at = "kill", !.holder = task.worker, !.victim = task.by,
                                    !.attempt = task.attempt, !.step = 1]
        BY <2>4 DEF FindHolder, GiveUp
      <3> QED BY <1>1, <1>6, <1>7, <3>1, <3>2
    <2>5. CASE KillHolder
      <3>1. \/ flow' = Idle
            \/ \E a \in {"stages", "wait"} : flow' = [flow EXCEPT !.at = a, !.tries = Tries]
        BY <2>5 DEF KillHolder, GiveUp
      <3> QED BY <1>1, <1>4, <3>1
    <2>6. CASE WaitMoved
      <3>1. flow.tries > 0
        BY <2>6 DEF WaitMoved, BudgetInv
      <3>2. TryAgain \/ flow' = [flow EXCEPT !.at = "replay", !.step = 2]
        BY <2>6 DEF WaitMoved
      <3> QED BY <1>5, <1>6, <3>1, <3>2
    <2>7. CASE ReplayStale
      BY <1>5, <2>7 DEF ReplayStale
    <2> QED BY <1>8, <2>1, <2>2, <2>3, <2>4, <2>5, <2>6, <2>7 DEF FlowStep
  <1>9. CASE ~FlowStep /\ ~\E k \in Flows : Click(k)
    <2>1. flow' = flow
      BY <1>9 DEF Next, vars, Start, Stop, SpawnWorker, ResetKills, ResetWipes, KillWorker,
         PauseHeartbeats, ResumeHeartbeats, ChildExits, TimesOut, Crash, Register, Heartbeat,
         Claim, Complete, Recover
    <2> QED BY <1>0, <2>1
  <1> QED BY <1>2, <1>8, <1>9

LEMMA BudgetStep == TypeOK /\ BudgetInv /\ [Next]_vars => BudgetInv'
  <1> SUFFICES ASSUME TypeOK, BudgetInv, [Next]_vars PROVE BudgetInv'
    OBVIOUS
  <1>0. flow \in Flow /\ Tries \in Nat \ {0}
    BY TypeParts, BoundsAssumption
  <1>1. wiping' => wipes' < MaxWipes
    <2>1. CASE UNCHANGED <<wiping, wipes>>
      BY <2>1 DEF BudgetInv
    <2>2. CASE ResetKills \/ ResetWipes \/ Stop
      BY <2>2 DEF ResetKills, ResetWipes, Stop, bounds
    <2>3. CASE FlowStep
      BY <2>1, <2>3 DEF FlowStep, AskWorker, Nap, SeedLoad, Submit, FindHolder, KillHolder,
         WaitMoved, ReplayStale, Unreachable, supervisor, bounds
    <2>4. CASE ~FlowStep /\ ~ResetKills /\ ~ResetWipes /\ ~Stop
      <3>1. UNCHANGED <<wiping, wipes>>
        BY <2>4 DEF Next, vars, supervisor, bounds, Start, SpawnWorker, KillWorker,
           PauseHeartbeats, ResumeHeartbeats, ChildExits, TimesOut, Crash, Register, Heartbeat,
           Claim, Complete, Recover, Click
      <3> QED BY <2>1, <3>1
    <2> QED BY <2>2, <2>3, <2>4
  <1>2. flow'.at \in {"find", "wait"} => flow'.tries > 0
    <2>1. CASE flow' = flow \/ flow' = Idle
      BY <2>1 DEF BudgetInv, Idle
    <2>2. CASE TryAgain /\ flow.at \in {"find", "wait"}
      <3>1. CASE flow' = [flow EXCEPT !.tries = @ - 1] /\ flow.tries # 1
        <4>1. flow.tries \in Nat /\ flow.tries > 0 /\ flow'.tries = flow.tries - 1
          BY <1>0, <2>2, <3>1 DEF Flow, BudgetInv
        <4> QED BY <3>1, <4>1
      <3> QED BY <2>1, <2>2, <3>1 DEF TryAgain, GiveUp
    <2>3. CASE \E a : flow' = [flow EXCEPT !.at = a, !.tries = Tries]
      BY <1>0, <2>3 DEF Flow
    <2>4. CASE flow'.at \notin {"find", "wait"}
      BY <2>4
    <2>5. CASE FlowStep
      <3>1. CASE AskWorker \/ Nap \/ ReplayStale
        <4>1. \/ \E a \in {"nap", "spawn", "seed", "submit"} : flow' = [flow EXCEPT !.at = a]
              \/ flow' = [flow EXCEPT !.at = "idle", !.step = 3]
          BY <3>1 DEF AskWorker, Nap, ReplayStale, Go, AfterSpawn
        <4>2. flow'.at \in {"nap", "spawn", "seed", "submit", "idle"}
          BY <1>0, <4>1 DEF Flow
        <4> QED BY <2>4, <4>2
      <3>2. CASE SeedLoad \/ Unreachable
        BY <2>1, <3>2 DEF SeedLoad, Unreachable, GiveUp
      <3>3. CASE Submit \/ KillHolder
        BY <2>1, <2>3, <3>3 DEF Submit, KillHolder, GiveUp
      <3>4. CASE FindHolder
        <4>1. CASE flow' = [flow EXCEPT !.at = "kill", !.holder = task.worker, !.victim = task.by,
                                        !.attempt = task.attempt, !.step = 1]
          <5>1. flow'.at = "kill"
            BY <1>0, <4>1 DEF Flow
          <5> QED BY <2>4, <5>1
        <4> QED BY <2>1, <2>2, <3>4, <4>1 DEF FindHolder, GiveUp
      <3>5. CASE WaitMoved
        <4>1. CASE flow' = [flow EXCEPT !.at = "replay", !.step = 2]
          <5>1. flow'.at = "replay"
            BY <1>0, <4>1 DEF Flow
          <5> QED BY <2>4, <5>1
        <4> QED BY <2>2, <3>5, <4>1 DEF WaitMoved
      <3> QED BY <2>5, <3>1, <3>2, <3>3, <3>4, <3>5 DEF FlowStep
    <2>6. ASSUME NEW k \in Flows, Click(k) PROVE flow'.at \notin {"find", "wait"}
      BY <2>6 DEF Click, Clicked, Idle
    <2>7. CASE ~FlowStep /\ ~\E k \in Flows : Click(k)
      <3>1. flow' = flow
        BY <2>7 DEF Next, vars, Start, Stop, SpawnWorker, ResetKills, ResetWipes, KillWorker,
           PauseHeartbeats, ResumeHeartbeats, ChildExits, TimesOut, Crash, Register, Heartbeat,
           Claim, Complete, Recover
      <3> QED BY <2>1, <3>1
    <2> QED BY <2>4, <2>5, <2>6, <2>7
  <1> QED BY <1>1, <1>2 DEF BudgetInv

-----------------------------------------------------------------------------

LEMMA InitInv == Init => IInv
  <1> SUFFICES ASSUME Init PROVE IInv
    OBVIOUS
  <1>1. /\ 0 \in 0..MaxBoots /\ 0 \in 0..MaxSpawns /\ 0 \in 0..MaxWipes /\ 0 \in 0..MaxTroubles
        /\ 0 \in 0..MaxClicks /\ 0 \in 0..MaxAttempts /\ 0 \in 0..Tries
    BY BoundsAssumption
  <1>2. NoTask \in Task /\ Idle \in Flow
    BY <1>1 DEF NoTask, Task, Idle, Flow
  <1>3. SupervisorType /\ FleetType /\ BoundsType
    BY <1>1 DEF Init, SupervisorType, FleetType, BoundsType
  <1>4. TypeOK
    BY <1>2, <1>3, TypeParts DEF Init
  <1>5. SupervisorInv
    BY DEF Init, SupervisorInv, NoChildForgotten
  <1>6. BudgetInv /\ FlowInv
    BY <1>1 DEF Init, BudgetInv, FlowInv, Idle, NoTask
  <1> QED BY <1>4, <1>5, <1>6 DEF IInv

LEMMA NextInv == IInv /\ [Next]_vars => IInv'
  <1> SUFFICES ASSUME IInv, [Next]_vars PROVE IInv'
    OBVIOUS
  <1>1. SupervisorType' /\ FleetType' /\ BoundsType' /\ task' \in Task /\ flow' \in Flow
    BY SupervisorTypeStep, FleetTypeStep, BoundsTypeStep, TaskTypeStep, FlowTypeStep DEF IInv
  <1>2. TypeOK'
    BY <1>1 DEF TypeOK, SupervisorType, FleetType, BoundsType, Task, Flow
  <1>3. SupervisorInv' /\ BudgetInv' /\ FlowInv'
    BY SupervisorStep, BudgetStep, FlowInvStep DEF IInv
  <1> QED BY <1>2, <1>3 DEF IInv

\* What supervisor and page keep; FairSpec only adds fairness.
THEOREM Invariance == Spec => []IInv
  BY InitInv, NextInv, PTL DEF Spec

\* chaosSupervisor.ts:64-81: every living child of the server that runs is in its map.
THEOREM NoneForgotten == Spec => []NoChildForgotten
  <1>1. IInv => NoChildForgotten
    BY DEF IInv, SupervisorInv
  <1> QED BY <1>1, Invariance, PTL

\* chaosSupervisor.ts:36-38: no name is in the set of pauses when it is given.
THEOREM BornUnpaused == Spec => NeverBornPaused
  <1>1. IInv /\ [Next]_vars => [\A n \in managed' \ managed : n \notin paused']_vars
    <2> SUFFICES ASSUME IInv, Next, NEW n \in managed', n \notin managed
                 PROVE  n \notin paused'
      OBVIOUS
    <2>1. managed \subseteq Numbers /\ counter \in Nat /\ paused \subseteq 1..counter
      BY BoundsAssumption DEF IInv, TypeOK, SupervisorInv
    <2>2. CASE Start
      BY <2>2 DEF Start
    <2>3. CASE SpawnWorker \/ AskWorker
      <3>1. managed' = managed \cup {counter + 1} /\ paused' = paused
        BY <2>3 DEF SpawnWorker, AskWorker, Spawned
      <3> QED BY <2>1, <3>1
    <2>4. \/ Start \/ SpawnWorker \/ AskWorker \/ managed' \subseteq managed
      <3>1. CASE FlowStep
        BY <3>1 DEF FlowStep, Nap, SeedLoad, Submit, FindHolder, KillHolder, Killed, WaitMoved,
           ReplayStale, Unreachable, supervisor
      <3>2. CASE Stop \/ ResetKills \/ ResetWipes \/ Complete \/ Recover \/ \E k \in Flows : Click(k)
        BY <3>2 DEF Stop, ResetKills, Killed, ResetWipes, Complete, Recover, Click, supervisor
      <3>3. CASE \E m \in Numbers : \/ KillWorker(m) \/ PauseHeartbeats(m) \/ ResumeHeartbeats(m)
                                    \/ ChildExits(m) \/ TimesOut(m)
        BY <3>3 DEF KillWorker, Killed, PauseHeartbeats, ResumeHeartbeats, ChildExits, TimesOut,
           supervisor
      <3>4. CASE \E c \in Child : Crash(c) \/ Register(c) \/ Heartbeat(c) \/ Claim(c)
        BY <3>4 DEF Crash, Register, Heartbeat, Claim, supervisor
      <3> QED BY <3>1, <3>2, <3>3, <3>4 DEF Next
    <2> QED BY <2>2, <2>3, <2>4
  <1> QED BY <1>1, Invariance, PTL DEF Spec, NeverBornPaused

\* ChaosPage.tsx:149-159: when the page says that the task was reassigned it has
\* been claimed again since the claim whose holder was killed.
THEOREM ReassignedTruly == Spec => []ReassignedIsReclaimed
  <1>1. IInv => ReassignedIsReclaimed
    <2> SUFFICES ASSUME IInv, flow.step >= 2, task.status # "none"
                 PROVE  task.attempt > flow.attempt \/ wipes > flow.era
      BY DEF ReassignedIsReclaimed
    <2>1. flow.step \in 0..3
      BY DEF IInv, TypeOK, Flow
    <2> QED BY <2>1 DEF IInv, FlowInv
  <1> QED BY <1>1, Invariance, PTL

=============================================================================
