--------------------------- MODULE MCChaosConsole ----------------------------
(***************************************************************************)
(* Small instances of ChaosConsole.                                        *)
(***************************************************************************)
EXTENDS ChaosConsole, TLC

=============================================================================
