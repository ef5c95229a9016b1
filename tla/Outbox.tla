------------------------------- MODULE Outbox -------------------------------
(***************************************************************************)
(* What the send side of a node promises the rest of the program: a queue  *)
(* that any thread may put messages in, from which they are sent in order  *)
(* until the node is closed.  SendQueue implements it; the module Broker   *)
(* uses it for every connection.                                           *)
(***************************************************************************)
EXTENDS Naturals, Sequences

CONSTANTS Msg, MaxPut  \* bound: the number of messages put in a behaviour

VARIABLES queue,  \* put and not yet sent
          sent,   \* sent to the peer
          open    \* not yet closed

vars == <<queue, sent, open>>

Init == queue = <<>> /\ sent = <<>> /\ open = TRUE

Put(m) ==
  /\ Len(queue) + Len(sent) < MaxPut
  /\ queue' = Append(queue, m)
  /\ UNCHANGED <<sent, open>>

Send ==
  /\ open /\ queue # <<>>
  /\ sent' = Append(sent, Head(queue))
  /\ queue' = Tail(queue)
  /\ UNCHANGED open

Shut == open /\ open' = FALSE /\ UNCHANGED <<queue, sent>>

Next == (\E m \in Msg : Put(m)) \/ Send \/ Shut

Safety == Init /\ [][Next]_vars

Spec == Safety /\ WF_vars(Send)
=============================================================================
