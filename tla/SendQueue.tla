------------------------------ MODULE SendQueue ------------------------------
(***************************************************************************)
(* The send side of one class Node: the deque Message, the semaphore       *)
(* Msg_Sem that counts what to do, the WriteThread that empties the deque, *)
(* and the ReadThread that closes the node and posts once more so that the *)
(* writer wakes up and stops.  The v2 broker and the v2 client have the    *)
(* same code for it; only the broker initialises the semaphore.            *)
(***************************************************************************)
EXTENDS Naturals, Sequences

CONSTANTS Msg,      \* the messages
          SemInit,  \* what Msg_Sem may hold before the first post
          MaxPush   \* bound: the number of messages pushed in a behaviour

ASSUME SendQueueAssumption == SemInit \subseteq Nat /\ MaxPush \in Nat

VARIABLES Message,  \* Node::Message
          Msg_Sem,  \* the count of the semaphore
          rd,       \* the reader: reading, closed (after SetState(_close)), done
          wt,       \* the writer: wait (in sem_wait), check, pop, done
          pushed,   \* history: the messages queued
          written   \* history: the messages written to the socket

vars == <<Message, Msg_Sem, rd, wt, pushed, written>>

TypeOK ==
  /\ Message \in Seq(Msg)
  /\ Msg_Sem \in Nat
  /\ rd \in {"reading", "closed", "done"}
  /\ wt \in {"wait", "check", "pop", "done"}
  /\ pushed \in Seq(Msg)
  /\ written \in Seq(Msg)

Init ==
  /\ Message = <<>>
  /\ Msg_Sem \in SemInit
  /\ rd = "reading"
  /\ wt = "wait"
  /\ pushed = <<>>
  /\ written = <<>>

-----------------------------------------------------------------------------
(***************************************************************************)
(* Node::SendData and its twins SendCheckHeart, SendCheckReg, SendReg and  *)
(* SendTopic, called by any thread that has the node, also after the node  *)
(* is closed: queue the message and post, all under MsgLock.               *)
(***************************************************************************)
Push(m) ==
  /\ Len(pushed) < MaxPush
  /\ Message' = Append(Message, m)
  /\ Msg_Sem' = Msg_Sem + 1
  /\ pushed' = Append(pushed, m)
  /\ UNCHANGED <<rd, wt, written>>

\* The end of ReadThread: SetState(_close), then CloseWrite.
Close ==
  /\ rd = "reading"
  /\ rd' = "closed"
  /\ UNCHANGED <<Message, Msg_Sem, wt, pushed, written>>

\* A faulty end of ReadThread that forgets the post.
CloseWriteNoPost ==
  /\ rd = "closed"
  /\ rd' = "done"
  /\ UNCHANGED <<Message, Msg_Sem, wt, pushed, written>>

CloseWrite ==
  /\ rd = "closed"
  /\ rd' = "done"
  /\ Msg_Sem' = Msg_Sem + 1
  /\ UNCHANGED <<Message, wt, pushed, written>>

(***************************************************************************)
(* WriteThread: WaitForSendMsg, then GetState, then GetTopMsg and write.   *)
(* front() of an empty deque is undefined, so Pop has no step for it; that *)
(* the writer never stands there is NeverPopsEmpty.                        *)
(***************************************************************************)
Wake ==
  /\ wt = "wait" /\ Msg_Sem > 0
  /\ Msg_Sem' = Msg_Sem - 1
  /\ wt' = "check"
  /\ UNCHANGED <<Message, rd, pushed, written>>

\* A faulty check that has the writer drain the deque of a closed node.
CheckDrains ==
  /\ wt = "check"
  /\ wt' = IF rd # "reading" /\ Message = <<>> THEN "done" ELSE "pop"
  /\ UNCHANGED <<Message, Msg_Sem, rd, pushed, written>>

Check ==
  /\ wt = "check"
  /\ wt' = IF rd = "reading" THEN "pop" ELSE "done"
  /\ UNCHANGED <<Message, Msg_Sem, rd, pushed, written>>

Pop ==
  /\ wt = "pop" /\ Message # <<>>
  /\ written' = Append(written, Head(Message))
  /\ Message' = Tail(Message)
  /\ wt' = "wait"
  /\ UNCHANGED <<Msg_Sem, rd, pushed>>

-----------------------------------------------------------------------------
Next ==
  \/ \E m \in Msg : Push(m)
  \/ Close
  \/ CloseWrite
  \/ Wake
  \/ Check
  \/ Pop

Spec == Init /\ [][Next]_vars

\* The scheduler runs both threads; write returns as long as the peer reads.
Fairness == WF_vars(CloseWrite) /\ WF_vars(Wake) /\ WF_vars(Check) /\ WF_vars(Pop)

FairSpec == Spec /\ Fairness

-----------------------------------------------------------------------------
(***************************************************************************)
(* WriteThread never takes the front of an empty deque, although the last  *)
(* post comes without a message: it reads the state after it was woken,    *)
(* and only then the deque.                                                *)
(***************************************************************************)
NeverPopsEmpty == wt = "pop" => Message # <<>>

(***************************************************************************)
(* What has been written and what is still queued are together what was    *)
(* pushed, in that order: nothing is lost, repeated or overtaken.          *)
(***************************************************************************)
InOrder == pushed = written \o Message

(***************************************************************************)
(* After the node is closed only the message the writer was already        *)
(* committed to goes out; what is still queued is dropped.                 *)
(***************************************************************************)
QuietAfterClose == [][rd # "reading" /\ wt # "pop" => wt' # "pop" /\ UNCHANGED written]_vars

(***************************************************************************)
(* The writer of a closed node stops, so that the node can be destroyed.   *)
(***************************************************************************)
WriterStops == rd = "closed" ~> wt = "done"

(***************************************************************************)
(* To the rest of the program the two threads, the semaphore and the deque *)
(* are an Outbox, in which a message counts as sent as soon as the writer  *)
(* has passed its check of the state: from there on it goes out whatever   *)
(* happens to the node.                                                    *)
(***************************************************************************)
Committed == wt = "pop"

Box == INSTANCE Outbox WITH
  MaxPut <- MaxPush,
  queue <- IF Committed THEN Tail(Message) ELSE Message,
  sent <- IF Committed THEN Append(written, Head(Message)) ELSE written,
  open <- rd = "reading"

ImplementsOutbox == Box!Spec
=============================================================================
