------------------------------ MODULE MCBroker ------------------------------
(***************************************************************************)
(* Broker for TLC: more connections than numbers, one or two topics, up to *)
(* two data messages.                                                      *)
(***************************************************************************)
EXTENDS Broker, TLC

CONSTANTS c1, c2, c3

MCConn == {c1, c2, c3}
MCConnLive == {c1, c2}
Symmetry == Permutations(MCConn)
=============================================================================
