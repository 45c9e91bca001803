--------------------------- MODULE MCDemoScenario ----------------------------
(***************************************************************************)
(* A small instance of DemoScenario: two tasks, any of which may be crash      *)
(* tasks, and two workers, who may be exchanged for one another.               *)
(***************************************************************************)
EXTENDS DemoScenario, TLC

CONSTANTS w1, w2

TwoTasks == 1..2
ShortBackoff == [n \in 1..MaxAttempts |-> n]
Symmetry == Permutations(Workers)

=============================================================================
