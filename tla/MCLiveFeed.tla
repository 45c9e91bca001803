---------------------------- MODULE MCLiveFeed -------------------------------
(***************************************************************************)
(* Small instances of LiveFeed.                                            *)
(***************************************************************************)
EXTENDS LiveFeed

CONSTANTS t1, t2

OneTask == {t1}
TwoTasks == {t1, t2}

=============================================================================
