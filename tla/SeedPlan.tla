------------------------------ MODULE SeedPlan -------------------------------
(***************************************************************************)
(* The planner of the demo's tasks: planSeedMix() of core/seed.ts and the     *)
(* cap on crash tasks of seedBridge.ts, as functions of what the generator     *)
(* draws.  A draw is a number of tenths; the generator itself, seeded by a     *)
(* hash, only makes the draws the same in every run.  The failUntilAttempt of  *)
(* a payload is part of the name of its type.                                *)
(***************************************************************************)
EXTENDS Naturals, FiniteSets

DemoTypes == {"demo.echo", "demo.fail_until_1", "demo.fail_until_2", "demo.always_fail",
              "demo.crash"}

TypeOfDraw(r) ==
    CASE r < 6 -> "demo.echo"
      [] r = 6 -> "demo.fail_until_1"
      [] r = 7 -> "demo.fail_until_2"
      [] r = 8 -> "demo.always_fail"
      [] OTHER -> "demo.crash"

\* planSeedMix(): one item per draw.
PlanSeedMix(draws) == [i \in DOMAIN draws |-> TypeOfDraw(draws[i])]

\* The loop of seedTasksDeterministic(): crashes counts the crash tasks passed.
CrashesPassed(items, i) == Cardinality({j \in 1..i : items[j] = "demo.crash"})

CapCrashes(items, crashCount) ==
    [i \in DOMAIN items |->
        IF items[i] = "demo.crash" /\ CrashesPassed(items, i) > crashCount
        THEN "demo.echo" ELSE items[i]]

=============================================================================
