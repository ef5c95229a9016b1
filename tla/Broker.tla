------------------------------- MODULE Broker -------------------------------
(***************************************************************************)
(* The whole v2 broker: the register of nodes (NodeTable), the topic table *)
(* (TopicTable) and every node's send queue (as an Outbox), composed by    *)
(* the handlers of ReadThread and by the detached MsgCopyToNode threads    *)
(* that forward data.                                                      *)
(*                                                                         *)
(* The peers are the v2 clients: each registers first, learns its node     *)
(* number from the reply and writes that number into its later requests,   *)
(* so that the number in a header is the number of the connection it comes *)
(* on.  A data message is a number in the order of handling; the reply to  *)
(* regnode is the message Reply.                                           *)
(***************************************************************************)
EXTENDS Naturals, Sequences, FiniteSets

CONSTANTS Conn, MaxNode, NoNode,  \* as in NodeTable
          Name, AllName,          \* as in TopicTable
          MaxData                 \* bound: the number of data messages handled

ASSUME BrokerAssumption ==
  /\ MaxNode \in Nat \ {0}
  /\ NoNode \notin Conn
  /\ AllName \notin Name
  /\ MaxData \in Nat

VARIABLES totalNode, index2nodeptr, State, nodeIndex, IndexFlag, TimeOutflag,
          ct, rt, indexTemp, rd                   \* NodeTable
VARIABLES sub2name, pub2name, topics, name2pub, name2sub  \* TopicTable
VARIABLES Message,     \* the queue of each node
          written,     \* history: what each connection was sent
          copiers,     \* the MsgCopyToNode threads, one for each data message;
                       \* by and past are history: the connection that sent the
                       \* message, and the copiers that had ended when it came
          subscribed   \* history: the names each connection ever subscribed to

Index == 1..MaxNode
Data == 1..MaxData
Reply == 0

NT == INSTANCE NodeTable
TT == INSTANCE TopicTable

nodeVars == <<totalNode, index2nodeptr, State, nodeIndex, IndexFlag, TimeOutflag,
              ct, rt, indexTemp, rd>>
topicVars == <<sub2name, pub2name, topics, name2pub, name2sub>>
vars == <<nodeVars, topicVars, Message, written, copiers, subscribed>>

Copier == [pc : {"lookup", "copy", "done"}, by : Conn, from : Index, topic : Name,
           todo : SUBSET Index, past : SUBSET Data]

TypeOK ==
  /\ NT!TypeOK /\ TT!TypeOK
  /\ Message \in [Conn -> Seq({Reply} \cup Data)]
  /\ written \in [Conn -> Seq({Reply} \cup Data)]
  /\ copiers \in Seq(Copier) /\ Len(copiers) <= MaxData
  /\ subscribed \in [Conn -> SUBSET Name]

Init ==
  /\ NT!Init /\ TT!Init
  /\ Message = [c \in Conn |-> <<>>]
  /\ written = [c \in Conn |-> <<>>]
  /\ copiers = <<>>
  /\ subscribed = [c \in Conn |-> {}]

-----------------------------------------------------------------------------
\* A faulty queue that puts a message in front of what waits.
QueueFront(c, m) == Message' = [Message EXCEPT ![c] = <<m>> \o @]

\* The node queues a message (Node::SendData and its twins).
Queue(c, m) == Message' = [Message EXCEPT ![c] = Append(@, m)]

InSeq(m, s) == \E k \in 1..Len(s) : s[k] = m

(***************************************************************************)
(* The steps that concern the register alone: what the threads of a        *)
(* connection do by themselves, and what waits for the peer or for a free  *)
(* number.                                                                 *)
(***************************************************************************)
ThreadStep(c) ==
  /\ \/ NT!RetrySet(c)
     \/ NT!ResetWake(c)
     \/ NT!ResetTimeout(c)
     \/ NT!AddNode(c)
     \/ NT!Spawn(c)
     \/ NT!ReadOnline(c)
  /\ UNCHANGED <<topicVars, Message, written, copiers, subscribed>>

OutsideStep(c) ==
  /\ \/ NT!Accept(c)
     \/ NT!RetryAlloc(c)
     \/ NT!ReadClose(c)
  /\ UNCHANGED <<topicVars, Message, written, copiers, subscribed>>

\* A faulty DelNode that leaves the node's topics in the table.
DeleteKeepsTopics(c) ==
  /\ NT!Delete(c)
  /\ Message' = [Message EXCEPT ![c] = <<>>]
  /\ UNCHANGED <<topicVars, written, copiers, subscribed>>

(***************************************************************************)
(* DelNode with its delTopic("all"), both under the broker's locks.  A     *)
(* node without a number has no bits to clear.  The node goes, and what    *)
(* its queue still holds with it.                                          *)
(***************************************************************************)
Delete(c) ==
  /\ NT!Delete(c)
  /\ \/ nodeIndex[c] \in Index /\ TT!delTopic(AllName, nodeIndex[c])
     \/ nodeIndex[c] \notin Index /\ UNCHANGED topicVars
  /\ Message' = [Message EXCEPT ![c] = <<>>]
  /\ UNCHANGED <<written, copiers, subscribed>>

-----------------------------------------------------------------------------
(***************************************************************************)
(* Broke::MsgHandler, run by the connection's ReadThread.                  *)
(***************************************************************************)
Handling(c) == rd[c] = "online"

\* The client has the reply to its regnode, hence its number.
Registered(c) == InSeq(Reply, written[c])

HandleReg(c) ==
  /\ Handling(c) /\ ~Registered(c) /\ ~InSeq(Reply, Message[c])
  /\ Queue(c, Reply)
  /\ UNCHANGED <<nodeVars, topicVars, written, copiers, subscribed>>

HandleTopic(c) ==
  /\ Handling(c) /\ Registered(c)
  /\ \E n \in Name :
       \/ TT!pubTopic(n, nodeIndex[c]) /\ UNCHANGED subscribed
       \/ /\ TT!subTopic(n, nodeIndex[c])
          /\ subscribed' = [subscribed EXCEPT ![c] = @ \cup {n}]
       \/ TT!delTopic(n, nodeIndex[c]) /\ UNCHANGED subscribed
  /\ UNCHANGED <<nodeVars, Message, written, copiers>>

HandleData(c) ==
  /\ Handling(c) /\ Registered(c) /\ Len(copiers) < MaxData
  /\ \E n \in Name :
       copiers' = Append(copiers, [pc |-> "lookup", by |-> c, from |-> nodeIndex[c],
                                   topic |-> n, todo |-> {},
                                   past |-> {d \in 1..Len(copiers) : copiers[d].pc = "done"}])
  /\ UNCHANGED <<nodeVars, topicVars, Message, written, subscribed>>

(***************************************************************************)
(* MsgCopyToNode: first the set of the subscribers, then for each of them, *)
(* lowest bit first, GetNodePtr and SendData.  The two calls are one step: *)
(* a node that is removed between them is closed, and nothing queued on a  *)
(* closed node is sent.                                                    *)
(***************************************************************************)
Lookup(d) ==
  /\ copiers[d].pc = "lookup"
  /\ LET nodeset == TT!GetSubNodeSet(copiers[d].topic, copiers[d].from)
     IN  copiers' = [copiers EXCEPT ![d].todo = nodeset,
                                    ![d].pc = IF nodeset = {} THEN "done" ELSE "copy"]
  /\ UNCHANGED <<nodeVars, topicVars, Message, written, subscribed>>

Lowest(S) == CHOOSE a \in S : \A b \in S : a <= b

\* A faulty loop that ends at the first number without a node.
CopyOneOrStop(d) ==
  /\ copiers[d].pc = "copy"
  /\ LET a == Lowest(copiers[d].todo)
         rest == copiers[d].todo \ {a}
         c == index2nodeptr[a]
     IN  /\ IF c = NoNode THEN UNCHANGED Message ELSE Queue(c, d)
         /\ copiers' = [copiers EXCEPT ![d].todo = IF c = NoNode THEN {} ELSE rest,
                                       ![d].pc = IF c = NoNode \/ rest = {} THEN "done" ELSE "copy"]
  /\ UNCHANGED <<nodeVars, topicVars, written, subscribed>>

\* A faulty loop that does not shift the bit after a send.
CopyOneAgain(d) ==
  /\ copiers[d].pc = "copy"
  /\ LET c == index2nodeptr[Lowest(copiers[d].todo)]
     IN  /\ IF c = NoNode THEN UNCHANGED Message ELSE Queue(c, d)
         /\ \/ copiers' = [copiers EXCEPT ![d].todo = {}, ![d].pc = "done"]
            \/ UNCHANGED copiers
  /\ UNCHANGED <<nodeVars, topicVars, written, subscribed>>

CopyOne(d) ==
  /\ copiers[d].pc = "copy"
  /\ LET a == Lowest(copiers[d].todo)
         rest == copiers[d].todo \ {a}
         c == index2nodeptr[a]
     IN  /\ IF c = NoNode THEN UNCHANGED Message ELSE Queue(c, d)
         /\ copiers' = [copiers EXCEPT ![d].todo = rest,
                                       ![d].pc = IF rest = {} THEN "done" ELSE "copy"]
  /\ UNCHANGED <<nodeVars, topicVars, written, subscribed>>

(***************************************************************************)
(* WriteThread, as the Outbox that SendQueue implements: it sends in order *)
(* while the node is not closed.                                           *)
(***************************************************************************)
Write(c) ==
  /\ rd[c] # "none" /\ State[c] # "close" /\ Message[c] # <<>>
  /\ written' = [written EXCEPT ![c] = Append(@, Head(Message[c]))]
  /\ Message' = [Message EXCEPT ![c] = Tail(@)]
  /\ UNCHANGED <<nodeVars, topicVars, copiers, subscribed>>

-----------------------------------------------------------------------------
Next ==
  \/ \E c \in Conn :
       \/ OutsideStep(c) \/ ThreadStep(c) \/ Delete(c)
       \/ HandleReg(c) \/ HandleTopic(c) \/ HandleData(c)
       \/ Write(c)
  \/ \E d \in 1..Len(copiers) : Lookup(d) \/ CopyOne(d)

Spec == Init /\ [][Next]_vars

(***************************************************************************)
(* Threads that can run do run.  What clients ask for and when they leave  *)
(* is up to them.                                                          *)
(***************************************************************************)
Fairness ==
  /\ \A c \in Conn : WF_vars(ThreadStep(c)) /\ WF_vars(Delete(c)) /\ WF_vars(Write(c))
  /\ \A d \in Data : WF_vars(d <= Len(copiers) /\ (Lookup(d) \/ CopyOne(d)))

FairSpec == Spec /\ Fairness

-----------------------------------------------------------------------------
(***************************************************************************)
(* Whoever has a bit in the topic table is a node in the register that has *)
(* been online: a number is never given out again with the topics of the   *)
(* node that had it before.                                                *)
(***************************************************************************)
RowsHaveNodes ==
  \A i \in Index : TT!NamesOf(i) # {} =>
    /\ i \in totalNode
    /\ index2nodeptr[i] # NoNode
    /\ rd[index2nodeptr[i]] \in {"online", "done"}

(***************************************************************************)
(* No connection is ever sent the same data message twice, although the    *)
(* copying threads work on a set of numbers that may have changed hands.   *)
(***************************************************************************)
AtMostOnce ==
  \A c \in Conn :
    LET s == written[c] \o Message[c]
    IN  \A j, k \in 1..Len(s) : s[j] \in Data /\ s[j] = s[k] => j = k

(***************************************************************************)
(* A node the copying thread still has on its list gets the message, or    *)
(* has hung up.                                                            *)
(***************************************************************************)
Forwarded ==
  \A d \in Data : \A c \in Conn :
    (/\ d \in 1..Len(copiers) /\ copiers[d].pc = "copy"
     /\ nodeIndex[c] \in copiers[d].todo /\ index2nodeptr[nodeIndex[c]] = c)
      ~> (InSeq(d, written[c]) \/ State[c] = "close")

(***************************************************************************)
(* Messages may overtake each other, also those of one publisher, since    *)
(* each has a thread of its own, but only while the thread of the earlier  *)
(* one is still at work when the later one comes.                          *)
(***************************************************************************)
OvertakesOnlyInFlight ==
  \A c \in Conn :
    LET s == written[c] \o Message[c]
    IN  \A j, k \in 1..Len(s) :
          j < k /\ s[j] \in Data /\ s[k] \in Data => s[k] \notin copiers[s[j]].past

(***************************************************************************)
(* Data goes to the set of the subscribers, as the comment in              *)
(* MsgCopyToNode has it: no node gets data of a topic it never subscribed  *)
(* to.                                                                     *)
(***************************************************************************)
OnlySubscribersServed ==
  \A c \in Conn : \A k \in 1..Len(written[c]) :
    written[c][k] \in Data => copiers[written[c][k]].topic \in subscribed[c]
=============================================================================
