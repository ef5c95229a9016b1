----------------------------- MODULE MCNodeTable -----------------------------
(***************************************************************************)
(* NodeTable for TLC: more connections than numbers, so that connections   *)
(* wait in ResetIndex while others leave.                                  *)
(***************************************************************************)
EXTENDS NodeTable

CONSTANTS c1, c2, c3, c4

MCConn == {c1, c2, c3, c4}
=============================================================================
