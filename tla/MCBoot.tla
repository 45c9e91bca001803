------------------------------- MODULE MCBoot --------------------------------
(***************************************************************************)
(* Small instances of Boot: the first two processes want the same HTTP      *)
(* port, a third one has been given a port of its own (PORT=9090 pnpm dev).  *)
(***************************************************************************)
EXTENDS Boot, TLC

CONSTANTS p1, p2, p3

TwoProcs == {p1, p2}
ThreeProcs == {p1, p2, p3}

Ports == [p \in Procs |-> IF p = p3 THEN 9090 ELSE 8080]

=============================================================================
