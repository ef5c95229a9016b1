----------------------------- MODULE ClientNode -----------------------------
(***************************************************************************)
(* A v2 client process: the program that uses class MyNode, the threads    *)
(* ManageClient, ReadThread and WriteThread behind it, and the connection  *)
(* to the broker.  Every program of the repository starts the client,      *)
(* registers, calls MyNode and deletes it; the calls here come in any      *)
(* order.                                                                  *)
(*                                                                         *)
(* The broker is the peer: it answers requests in order, may refuse a      *)
(* publication because of another node, sends data, and may be gone.  It   *)
(* does so once it has a number, and a thread, for the connection: when    *)
(* all numbers stay taken it never has (served), and the client waits.     *)
(*                                                                         *)
(* Undefined behaviour and failed assertions end the process (crashed).    *)
(***************************************************************************)
EXTENDS Naturals, Sequences

CONSTANTS Name,      \* topic names
          Own,       \* the node number the broker gives this client
          IndexInit, \* what nodeIndex, which no constructor sets, may hold at first
          SemInit,   \* what Msg_Sem, which the client never initialises, may hold
          MaxTries,  \* the seconds Reg waits (10 in the code)
          MaxCalls,  \* bound: the calls of MyNode after Reg
          MaxData    \* bound: the data messages the broker sends

ASSUME ClientAssumption ==
  /\ Own \in Nat \ {0}
  /\ IndexInit \subseteq Nat /\ SemInit \subseteq Nat
  /\ MaxTries \in Nat /\ MaxCalls \in Nat /\ MaxData \in Nat

VARIABLES State, nodeIndex,            \* class Node: life cycle and number
          subTopicList, pubTopicList,  \* class Node: the client's own lists
          Message, Msg_Sem,            \* class Node: what is to be sent
          RecvMessage,                 \* class Node: data for the program
          mt, rd, wt,                  \* ManageClient, ReadThread, WriteThread
          app, tries, calls,           \* the program; seconds waited, calls made
          toBroker, toClient,          \* the two directions of the connection
          shut, peer,                  \* the client's FIN is sent; the broker is there
          served,                      \* the broker gets the client a number, and starts its ReadThread
          bSub, bPub,                  \* the broker's topics of the number Own
          forwarded,                   \* the data messages the broker has sent
          leftover,                    \* history: what Msg_Sem held at first
          gaveUp,                      \* history: Reg returned without being online
          refused,                     \* history: publications the broker refused
          halved,                      \* history: names withdrawn while in both lists
          unasked,                     \* history: WaitForData woke without a notification
          arrived, taken               \* history: data received, data taken

nodeVars == <<State, nodeIndex>>
listVars == <<subTopicList, pubTopicList, halved>>
sendVars == <<Message, Msg_Sem>>
recvVars == <<RecvMessage, unasked, arrived, taken>>
appVars == <<app, tries, calls, gaveUp>>
brokerVars == <<bSub, bPub, refused, forwarded>>
netVars == <<toBroker, toClient, shut, peer, served>>
elsewhere == <<mt, rd, wt, netVars, brokerVars, leftover>>  \* what the program's calls leave alone
vars == <<nodeVars, listVars, sendVars, recvVars, appVars, elsewhere>>

States == {"newconnect", "connecting", "connected", "connect_wait", "close", "online"}
TopicType == {"subtopic", "pubtopic", "deltopic", "data"}
Request == [type : {"regnode"}, node_index : Nat, topic : {""}]
             \cup [type : TopicType, node_index : Nat, topic : Name]
GetRegNode == 0    \* the reply to regnode; k > 0 is the k-th data message
Datum == 1..MaxData
Incoming == 0..MaxData

TypeOK ==
  /\ State \in States /\ nodeIndex \in Nat
  /\ subTopicList \subseteq Name /\ pubTopicList \subseteq Name /\ halved \subseteq Name
  /\ Message \in Seq(Request) /\ Msg_Sem \in Nat /\ leftover \in Nat
  /\ RecvMessage \in Seq(Datum) /\ unasked \in BOOLEAN
  /\ arrived \in Seq(Datum) /\ taken \in Seq(Datum)
  /\ mt \in {"none", "start", "wait"}
  /\ rd \in {"none", "test", "head", "read", "online", "end", "post", "done"}
  /\ wt \in {"none", "start", "wait", "pop", "done"}
  /\ app \in {"start", "noconnect", "node", "reg", "run", "waiting", "woken",
              "delete", "gone", "crashed"}
  /\ tries \in 0..MaxTries /\ calls \in 0..MaxCalls /\ gaveUp \in BOOLEAN
  /\ toBroker \in Seq(Request) /\ toClient \in Seq(Incoming)
  /\ shut \in BOOLEAN /\ peer \in BOOLEAN /\ served \in BOOLEAN
  /\ bSub \subseteq Name /\ bPub \subseteq Name /\ refused \subseteq Name
  /\ forwarded \in Incoming

Init ==
  /\ State = "newconnect" /\ nodeIndex \in IndexInit
  /\ subTopicList = {} /\ pubTopicList = {} /\ halved = {}
  /\ Message = <<>> /\ Msg_Sem \in SemInit /\ leftover = Msg_Sem
  /\ RecvMessage = <<>> /\ unasked = FALSE /\ arrived = <<>> /\ taken = <<>>
  /\ mt = "none" /\ rd = "none" /\ wt = "none"
  /\ app = "start" /\ tries = 0 /\ calls = 0 /\ gaveUp = FALSE
  /\ toBroker = <<>> /\ toClient = <<>> /\ shut = FALSE /\ peer = TRUE
  /\ served \in BOOLEAN
  /\ bSub = {} /\ bPub = {} /\ refused = {} /\ forwarded = 0

-----------------------------------------------------------------------------
\* The transitions between two different states that the table allows.
state_transfer ==
  {<<"newconnect", "connecting">>, <<"newconnect", "connect_wait">>,
   <<"connecting", "connected">>, <<"connecting", "close">>,
   <<"connected", "close">>, <<"connected", "online">>,
   <<"connect_wait", "connecting">>, <<"connect_wait", "close">>,
   <<"online", "close">>}

\* Node::SetState does nothing when the table does not have the transition.
SetState(s) == State' = IF <<State, s>> \in state_transfer THEN s ELSE State

\* A faulty queue that posts only when it was empty.
QueueQuietly(type, n) ==
  /\ Message' = Append(Message, [type |-> type, node_index |-> nodeIndex, topic |-> n])
  /\ Msg_Sem' = IF Message = <<>> THEN Msg_Sem + 1 ELSE Msg_Sem

\* SendReg, SendTopic and SendData of class Node: queue and post under MsgLock.
Queue(type, n) ==
  /\ Message' = Append(Message, [type |-> type, node_index |-> nodeIndex, topic |-> n])
  /\ Msg_Sem' = Msg_Sem + 1

-----------------------------------------------------------------------------
(***************************************************************************)
(* The program.                                                            *)
(***************************************************************************)
\* MyNode::StartClient: without a connection there is no node.
StartClient ==
  /\ app = "start"
  /\ \/ app' = "node" /\ mt' = "start"
     \/ app' = "noconnect" /\ UNCHANGED mt
  /\ UNCHANGED <<nodeVars, listVars, sendVars, recvVars, rd, wt, tries, calls, gaveUp,
                 netVars, brokerVars, leftover>>

\* MyNode::Reg asks the node for its name, then sends it.
Reg ==
  /\ app \in {"node", "noconnect"}
  /\ IF app = "node"
     THEN app' = "reg" /\ Queue("regnode", "")
     ELSE app' = "crashed" /\ UNCHANGED sendVars
  /\ UNCHANGED <<nodeVars, listVars, recvVars, tries, calls, gaveUp, elsewhere>>

\* A faulty Reg that takes any progress of the connection for an answer.
RegPollConnected ==
  /\ app = "reg"
  /\ IF State \in {"connected", "online"} THEN app' = "run" /\ UNCHANGED <<tries, gaveUp>>
     ELSE IF tries = MaxTries THEN app' = "run" /\ gaveUp' = TRUE /\ UNCHANGED tries
     ELSE tries' = tries + 1 /\ UNCHANGED <<app, gaveUp>>
  /\ UNCHANGED <<nodeVars, listVars, sendVars, recvVars, calls, elsewhere>>

\* ... and looks once a second whether the node is online.
RegPoll ==
  /\ app = "reg"
  /\ IF State = "online" THEN app' = "run" /\ UNCHANGED <<tries, gaveUp>>
     ELSE IF tries = MaxTries THEN app' = "run" /\ gaveUp' = TRUE /\ UNCHANGED tries
     ELSE tries' = tries + 1 /\ UNCHANGED <<app, gaveUp>>
  /\ UNCHANGED <<nodeVars, listVars, sendVars, recvVars, calls, elsewhere>>

Running == app = "run" /\ calls < MaxCalls /\ calls' = calls + 1

\* A call that sends: node_index2int8 asserts that the number is not zero.
Send(type, n) ==
  /\ IF nodeIndex = 0 THEN app' = "crashed" /\ UNCHANGED sendVars
     ELSE Queue(type, n) /\ UNCHANGED app
  /\ UNCHANGED <<nodeVars, recvVars, tries, gaveUp, elsewhere>>

\* The name is in the list already (or not in one): the call does nothing.
Refuse == UNCHANGED <<listVars, nodeVars, sendVars, recvVars, app, tries, gaveUp, elsewhere>>

AddSub(n) ==
  /\ Running
  /\ IF n \in subTopicList THEN Refuse
     ELSE /\ subTopicList' = subTopicList \cup {n}
          /\ Send("subtopic", n)
          /\ UNCHANGED <<pubTopicList, halved>>

AddPub(n) ==
  /\ Running
  /\ IF n \in pubTopicList THEN Refuse
     ELSE /\ pubTopicList' = pubTopicList \cup {n}
          /\ Send("pubtopic", n)
          /\ UNCHANGED <<subTopicList, halved>>

\* A faulty deltopic that looks at the subscriptions first.
DelTopicSubFirst(n) ==
  /\ Running
  /\ IF n \notin pubTopicList \cup subTopicList THEN Refuse
     ELSE /\ IF n \in subTopicList
             THEN subTopicList' = subTopicList \ {n} /\ UNCHANGED pubTopicList
             ELSE pubTopicList' = pubTopicList \ {n} /\ UNCHANGED subTopicList
          /\ halved' = IF n \in pubTopicList \cap subTopicList
                       THEN halved \cup {n} ELSE halved \ {n}
          /\ Send("deltopic", n)

\* deltopic takes the name from one list only; the broker clears both rights.
DelTopic(n) ==
  /\ Running
  /\ IF n \notin pubTopicList \cup subTopicList THEN Refuse
     ELSE /\ IF n \in pubTopicList
             THEN pubTopicList' = pubTopicList \ {n} /\ UNCHANGED subTopicList
             ELSE subTopicList' = subTopicList \ {n} /\ UNCHANGED pubTopicList
          /\ halved' = IF n \in pubTopicList \cap subTopicList
                       THEN halved \cup {n} ELSE halved \ {n}
          /\ Send("deltopic", n)

\* SendData does not look at the lists.
SendData(n) == Running /\ Send("data", n) /\ UNCHANGED listVars

\* WaitForData waits without looking at the queue first ...
WaitForData ==
  /\ Running /\ app' = "waiting"
  /\ UNCHANGED <<nodeVars, listVars, sendVars, recvVars, tries, gaveUp, elsewhere>>

\* ... and has no condition to look at again: a condition variable may also
\* wake a thread that nobody notified.
WakeUnasked ==
  /\ app = "waiting" /\ app' = "woken"
  /\ unasked' = TRUE
  /\ UNCHANGED <<nodeVars, listVars, sendVars, RecvMessage, arrived, taken, tries, calls, gaveUp,
                 elsewhere>>

\* A faulty Take that returns the newest message.
TakeBack ==
  /\ app = "woken"
  /\ IF RecvMessage = <<>> THEN app' = "crashed" /\ UNCHANGED recvVars
     ELSE /\ taken' = Append(taken, RecvMessage[Len(RecvMessage)])
          /\ RecvMessage' = SubSeq(RecvMessage, 1, Len(RecvMessage) - 1)
          /\ app' = "run" /\ unasked' = FALSE /\ UNCHANGED arrived
  /\ UNCHANGED <<nodeVars, listVars, sendVars, tries, calls, gaveUp, elsewhere>>

\* ... and takes the front; an empty deque has none.
Take ==
  /\ app = "woken"
  /\ IF RecvMessage = <<>> THEN app' = "crashed" /\ UNCHANGED recvVars
     ELSE /\ taken' = Append(taken, Head(RecvMessage))
          /\ RecvMessage' = Tail(RecvMessage)
          /\ app' = "run" /\ unasked' = FALSE /\ UNCHANGED arrived
  /\ UNCHANGED <<nodeVars, listVars, sendVars, tries, calls, gaveUp, elsewhere>>

\* ~MyNode closes the node, whatever its threads are doing ...
Delete ==
  /\ app = "run"
  /\ SetState("close")
  /\ app' = "delete"
  /\ UNCHANGED <<nodeIndex, listVars, sendVars, recvVars, tries, calls, gaveUp, elsewhere>>

\* A faulty ~Client that does not shut the connection down.
CloseClientOpen ==
  /\ app = "delete" /\ app' = "gone"
  /\ UNCHANGED <<nodeVars, listVars, sendVars, recvVars, tries, calls, gaveUp, elsewhere>>

\* ... and ~Client ends the sending direction of the connection.
CloseClient ==
  /\ app = "delete" /\ app' = "gone"
  /\ shut' = TRUE
  /\ UNCHANGED <<nodeVars, listVars, sendVars, recvVars, mt, rd, wt, tries, calls, gaveUp,
                 toBroker, toClient, peer, served, brokerVars, leftover>>

App ==
  \/ StartClient \/ Reg \/ RegPoll
  \/ \E n \in Name : AddSub(n) \/ AddPub(n) \/ DelTopic(n) \/ SendData(n)
  \/ WaitForData \/ WakeUnasked \/ Take \/ Delete \/ CloseClient

-----------------------------------------------------------------------------
(***************************************************************************)
(* ManageClient: the first state, then the two threads.  It then waits for *)
(* the state close and ends.                                               *)
(***************************************************************************)
programVars == <<listVars, recvVars, appVars>>  \* what the threads leave alone

Manage ==
  /\ mt = "start"
  /\ SetState("connecting")
  /\ mt' = "wait" /\ rd' = "test" /\ wt' = "start"
  /\ UNCHANGED <<nodeIndex, programVars, sendVars, netVars, brokerVars, leftover>>

-----------------------------------------------------------------------------
(***************************************************************************)
(* ReadThread, a message at a time.  It looks at the state before the      *)
(* message and again before it goes into read, where it stays until        *)
(* something comes.  How a message may arrive in pieces is Wire's subject. *)
(***************************************************************************)
ReadTest ==
  /\ rd = "test"
  /\ rd' = IF State = "close" THEN "end" ELSE "head"
  /\ UNCHANGED <<nodeVars, programVars, sendVars, mt, wt, netVars, brokerVars, leftover>>

ReadWait ==
  /\ rd = "head" /\ State # "close"
  /\ rd' = "read"
  /\ UNCHANGED <<nodeVars, programVars, sendVars, mt, wt, netVars, brokerVars, leftover>>

(***************************************************************************)
(* Closed in between: nothing is read, and the assertion looks at a buffer *)
(* that nobody wrote.  If it holds, MsgHandler may change the number or    *)
(* the queue of data; the program is past its last call, and nobody looks  *)
(* at them again.                                                          *)
(***************************************************************************)
ReadUnwritten ==
  /\ rd = "head" /\ State = "close"
  /\ \/ app' = "crashed" /\ UNCHANGED rd
     \/ rd' = "test" /\ UNCHANGED app
  /\ UNCHANGED <<nodeVars, listVars, recvVars, tries, calls, gaveUp, sendVars, mt, wt,
                 netVars, brokerVars, leftover>>

\* A faulty getregnode case that goes online before it has the number.
ReadRegEarly ==
  /\ rd = "read" /\ toClient # <<>> /\ Head(toClient) = GetRegNode
  /\ toClient' = Tail(toClient)
  /\ SetState("online")
  /\ rd' = "online"
  /\ UNCHANGED <<nodeIndex, programVars, sendVars, mt, wt, toBroker, shut, peer, served,
                 brokerVars, leftover>>

\* MsgHandler, getregnode: first the number, then the state.
ReadReg ==
  /\ rd = "read" /\ toClient # <<>> /\ Head(toClient) = GetRegNode
  /\ toClient' = Tail(toClient)
  /\ nodeIndex' = Own
  /\ rd' = "online"
  /\ UNCHANGED <<State, programVars, sendVars, mt, wt, toBroker, shut, peer, served,
                 brokerVars, leftover>>

ReadOnline ==
  /\ rd = "online"
  /\ SetState("online")
  /\ rd' = "test"
  /\ UNCHANGED <<nodeIndex, programVars, sendVars, mt, wt, netVars, brokerVars, leftover>>

\* MsgHandler, data: a notification nobody waits for is gone.
GetData ==
  /\ rd = "read" /\ toClient # <<>> /\ Head(toClient) # GetRegNode
  /\ toClient' = Tail(toClient)
  /\ RecvMessage' = Append(RecvMessage, Head(toClient))
  /\ arrived' = Append(arrived, Head(toClient))
  /\ app' = IF app = "waiting" THEN "woken" ELSE app
  /\ rd' = "test"
  /\ UNCHANGED <<nodeVars, listVars, unasked, taken, tries, calls, gaveUp, sendVars, mt, wt,
                 toBroker, shut, peer, served, brokerVars, leftover>>

(***************************************************************************)
(* The body is not read, because the node is closed, or not whole, because *)
(* the broker is gone: the assertion looks at it all the same.             *)
(***************************************************************************)
ReadCut ==
  /\ rd = "read" /\ toClient # <<>> /\ Head(toClient) # GetRegNode
  /\ State = "close" \/ ~peer
  /\ app' = "crashed"
  /\ UNCHANGED <<nodeVars, listVars, recvVars, tries, calls, gaveUp, sendVars, mt, rd, wt,
                 netVars, brokerVars, leftover>>

\* The end of the file; what was under way when the broker went may be lost.
ReadEnd ==
  /\ rd = "read" /\ ~peer
  /\ rd' = "end"
  /\ UNCHANGED <<nodeVars, programVars, sendVars, mt, wt, netVars, brokerVars, leftover>>

ReadClose ==
  /\ rd = "end"
  /\ SetState("close")
  /\ rd' = "post"
  /\ UNCHANGED <<nodeIndex, programVars, sendVars, mt, wt, netVars, brokerVars, leftover>>

CloseWrite ==
  /\ rd = "post"
  /\ Msg_Sem' = Msg_Sem + 1
  /\ rd' = "done"
  /\ UNCHANGED <<nodeVars, programVars, Message, mt, wt, netVars, brokerVars, leftover>>

Reader ==
  \/ ReadTest \/ ReadWait \/ ReadUnwritten \/ ReadReg \/ ReadOnline \/ GetData
  \/ ReadCut \/ ReadEnd \/ ReadClose \/ CloseWrite

-----------------------------------------------------------------------------
(***************************************************************************)
(* WriteThread, the same code as in the broker.                            *)
(***************************************************************************)
\* A faulty WriteThread that reports the connection after its first message.
WriteStartLate ==
  /\ wt = "start"
  /\ wt' = "wait"
  /\ UNCHANGED <<nodeVars, programVars, sendVars, mt, rd, netVars, brokerVars, leftover>>

WriteStart ==
  /\ wt = "start"
  /\ SetState("connected")
  /\ wt' = "wait"
  /\ UNCHANGED <<nodeIndex, programVars, sendVars, mt, rd, netVars, brokerVars, leftover>>

\* The writer looks at the state only after it was woken.
Wake ==
  /\ wt = "wait" /\ Msg_Sem > 0
  /\ Msg_Sem' = Msg_Sem - 1
  /\ wt' = IF State = "close" THEN "done" ELSE "pop"
  /\ UNCHANGED <<nodeVars, programVars, Message, mt, rd, netVars, brokerVars, leftover>>

(***************************************************************************)
(* The front of an empty deque is undefined.  What is written after the    *)
(* FIN, or to a broker that is gone, is lost or raises SIGPIPE, which      *)
(* ends the process.                                                       *)
(***************************************************************************)
Pop ==
  /\ wt = "pop"
  /\ IF Message = <<>>
     THEN app' = "crashed" /\ UNCHANGED <<Message, toBroker>>
     ELSE /\ Message' = Tail(Message)
          /\ IF peer /\ ~shut
             THEN toBroker' = Append(toBroker, Head(Message)) /\ UNCHANGED app
             ELSE app' \in {app, "crashed"} /\ UNCHANGED toBroker
  /\ wt' = "wait"
  /\ UNCHANGED <<nodeVars, listVars, recvVars, tries, calls, gaveUp, Msg_Sem, mt, rd,
                 toClient, shut, peer, served, brokerVars, leftover>>

Writer == WriteStart \/ Wake \/ Pop

-----------------------------------------------------------------------------
(***************************************************************************)
(* The broker, as the client meets it: its ReadThread, started when the    *)
(* connection has a number (see NodeTable), handles the requests           *)
(* in order, files each under the number it carries, refuses to publish a  *)
(* topic of another node, and does not answer.                             *)
(***************************************************************************)
Handle ==
  /\ peer /\ served /\ toBroker # <<>>
  /\ toBroker' = Tail(toBroker)
  /\ LET m == Head(toBroker) IN
       /\ toClient' = IF m.type = "regnode" THEN Append(toClient, GetRegNode) ELSE toClient
       /\ IF m.node_index # Own THEN UNCHANGED <<bSub, bPub, refused>>
          ELSE \/ m.type \in {"regnode", "data"} /\ UNCHANGED <<bSub, bPub, refused>>
               \/ m.type = "subtopic" /\ bSub' = bSub \cup {m.topic}
                    /\ UNCHANGED <<bPub, refused>>
               \/ m.type = "pubtopic" /\ bPub' = bPub \cup {m.topic}
                    /\ refused' = refused \ {m.topic} /\ UNCHANGED bSub
               \/ m.type = "pubtopic" /\ refused' = refused \cup {m.topic}
                    /\ UNCHANGED <<bSub, bPub>>
               \/ m.type = "deltopic" /\ bSub' = bSub \ {m.topic} /\ bPub' = bPub \ {m.topic}
                    /\ refused' = refused \ {m.topic}
  /\ UNCHANGED <<nodeVars, programVars, sendVars, mt, rd, wt, shut, peer, served,
                 forwarded, leftover>>

Forward ==
  /\ peer /\ bSub # {} /\ forwarded < MaxData
  /\ forwarded' = forwarded + 1
  /\ toClient' = Append(toClient, forwarded')
  /\ UNCHANGED <<nodeVars, programVars, sendVars, mt, rd, wt, toBroker, shut, peer, served,
                 bSub, bPub, refused, leftover>>

\* The broker closes, or is gone.
Gone ==
  /\ peer /\ peer' = FALSE
  /\ UNCHANGED <<nodeVars, programVars, sendVars, mt, rd, wt, toBroker, toClient, shut, served,
                 brokerVars, leftover>>

-----------------------------------------------------------------------------
Next ==
  /\ app # "crashed"
  /\ App \/ Manage \/ Reader \/ Writer \/ Handle \/ Forward \/ Gone

Spec == Init /\ [][Next]_vars

(***************************************************************************)
(* The threads run, Reg and ~MyNode go on, and the broker closes once its  *)
(* ReadThread has read the client's FIN.  Without such a thread it need    *)
(* not: a connection that gets no number is kept open by the thread that   *)
(* tries to get it one.  What the program calls is up to it.               *)
(***************************************************************************)
Fairness ==
  /\ WF_vars(app # "crashed" /\ Manage)
  /\ WF_vars(app # "crashed" /\ Reader)
  /\ WF_vars(app # "crashed" /\ Writer)
  /\ WF_vars(app # "crashed" /\ (RegPoll \/ Take \/ CloseClient))
  /\ WF_vars(app # "crashed" /\ served /\ shut /\ Gone)

FairSpec == Spec /\ Fairness

-----------------------------------------------------------------------------
(***************************************************************************)
(* A client that is online has its own number, and every request carries   *)
(* it, since Reg waits for the state and MsgHandler sets the number first. *)
(* Only when Reg gave up may a request go out under a number left over in  *)
(* memory.                                                                 *)
(***************************************************************************)
CarriesOwn(s) == \A k \in 1..Len(s) : s[k].type = "regnode" \/ s[k].node_index = Own

OwnNumberUnlessGivenUp ==
  /\ State = "online" => nodeIndex = Own
  /\ gaveUp \/ (CarriesOwn(Message) /\ CarriesOwn(toBroker))

(***************************************************************************)
(* The process ends by itself only if there was no connection, Reg gave    *)
(* up, the semaphore was not zero at first, WaitForData woke without a     *)
(* notification, or the connection or the node is closed.                  *)
(***************************************************************************)
CrashExplained ==
  app = "crashed" => mt = "none" \/ gaveUp \/ leftover > 0 \/ unasked \/ shut \/ ~peer \/ State = "close"

(***************************************************************************)
(* The reply to regnode is never refused by the table of states, although  *)
(* the state is set by three threads: it can only come after the writer    *)
(* has made the node connected.                                            *)
(***************************************************************************)
ReplyAccepted == rd = "online" => State \in {"connected", "close"}

(***************************************************************************)
(* Once all requests are handled, the client's lists and the broker's      *)
(* table differ only by publications the broker refused without a word,    *)
(* and by subscriptions it dropped when the same name was withdrawn as a   *)
(* publication.                                                            *)
(***************************************************************************)
ListsAgree ==
  peer /\ ~gaveUp /\ app # "crashed" /\ State = "online" /\ Message = <<>> /\ toBroker = <<>> =>
    /\ bSub \subseteq subTopicList /\ subTopicList \ bSub \subseteq halved
    /\ bPub \subseteq pubTopicList /\ pubTopicList \ bPub \subseteq refused

(***************************************************************************)
(* WaitForData takes the front of an empty queue only when it woke without *)
(* a notification: between a notification and the take nobody else empties *)
(* the queue.                                                              *)
(***************************************************************************)
NeverTakesEmpty == app = "woken" /\ RecvMessage = <<>> => unasked

(***************************************************************************)
(* The program gets the data in the order in which it arrived, every       *)
(* message at most once.                                                   *)
(***************************************************************************)
InOrder == arrived = taken \o RecvMessage

(***************************************************************************)
(* After ~MyNode the threads of a client that the broker has served, or    *)
(* whose broker is gone, stop, even when it came so early that the table   *)
(* refused the close.                                                      *)
(***************************************************************************)
ThreadsStop ==
  app = "gone" /\ (served \/ ~peer) ~> (State = "close" /\ rd = "done" /\ wt = "done") \/ app = "crashed"

(***************************************************************************)
(* What the program sent before the connection ended is written.           *)
(***************************************************************************)
EverythingWritten == Message # <<>> ~> Message = <<>> \/ State = "close" \/ app = "crashed"

(***************************************************************************)
(* A program that waits for data does not wait while there is some, as the *)
(* loop of clientv2-1 expects.                                             *)
(***************************************************************************)
WaitReturns == app = "waiting" /\ RecvMessage # <<>> ~> app # "waiting"
=============================================================================
