---------------------------- MODULE MCTopicTable ----------------------------
(***************************************************************************)
(* TopicTable for TLC: three nodes and two names.  One of the names is     *)
(* "all" itself, which any client may publish or subscribe to and no       *)
(* client can then give up on its own.                                     *)
(***************************************************************************)
EXTENDS TopicTable, Naturals

MCIndex == 1..3
MCName == {"chatter", "all"}
MCAllName == "all"
=============================================================================
