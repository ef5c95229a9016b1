------------------------------ MODULE MCMaster ------------------------------
(***************************************************************************)
(* Master for TLC: a publisher, as node.cpp, and a subscriber, as          *)
(* node2.cpp, that wants to publish the same topic and has one of its own. *)
(* The publisher was started twice, and registers as often.  Each table    *)
(* has room for what is asked for, if the requests do not race.            *)
(***************************************************************************)
EXTENDS Master

CONSTANTS n1, n2, t1, t2

Reg == [op |-> "reg"]
Ask(o, t) == [op |-> o, topic |-> t]

MCProg ==
  [n \in {n1, n2} |->
     IF n = n1 THEN <<Reg, Reg, Ask("pub", t1), Ask("data", t1), Ask("data", t1)>>
     ELSE <<Reg, Ask("pub", t2), Ask("pub", t1), Ask("sub", t1)>>]
=============================================================================
