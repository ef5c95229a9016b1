------------------------------- MODULE Master -------------------------------
(***************************************************************************)
(* The first broker, master.h and master.cpp, with the nodes of node.h     *)
(* that use it.  A node sends each request on a connection of its own; the *)
(* broker handles each connection in a thread of its own (AddNode, AddSub, *)
(* AddPub, GetData), its main thread starts a thread for each queue with   *)
(* data (sendThread), and that one a thread for each subscriber            *)
(* (realsendthread).                                                       *)
(*                                                                         *)
(* The two mutexes are taken with try_lock, whose result nobody looks at:  *)
(* a thread that does not get one goes on, and later unlocks it for its    *)
(* owner.  They exclude nobody, and the model does not have them.          *)
(*                                                                         *)
(* Slots and queues are counted from 1, and 0 is the code's -1.            *)
(***************************************************************************)
EXTENDS Integers, Sequences, SequencesExt, FiniteSets, FiniteSetsExt

CONSTANTS Node, Topic,
          Prog,          \* what each node does: its sequence of requests
          MAX_SIZE_NODE, MAX_SIZE_MQ,
          MaxThreads     \* bound: connections that are open at once

Request == [op : {"reg"}] \cup [op : {"sub", "pub", "data"}, topic : Topic]

\* The k-th request of node n; a datum is named by the request that carries it.
Req == UNION {{n} \X (1..Len(Prog[n])) : n \in Node}

op(r) == Prog[r[1]][r[2]].op
topic(r) == Prog[r[1]][r[2]].topic

Nobody == "nobody"

\* Nothing is said of how long the tables are: they may be too short for the requests.
ASSUME MasterAssumption ==
  /\ IsFiniteSet(Node) /\ Prog \in [Node -> Seq(Request)] /\ MaxThreads \in Nat
  /\ Nobody \notin Node /\ Nobody \notin Topic
  /\ MAX_SIZE_NODE \in Nat /\ MAX_SIZE_MQ \in Nat

Slots == 1..MAX_SIZE_NODE
Queues == 1..MAX_SIZE_MQ

VARIABLES
  nodes,     \* name, sub_list and pub_list of each slot
  num_node, name2index,
  MQ,        \* name, pubnode, subnodelist, data, flag and savedataflag of each queue
  num_mq,
  next,      \* the number of requests each node has made
  at,        \* how far the thread of each request is
  idx,       \* its local variable index, or the queue it found
  senders,   \* the sendThreads of each queue
  alive,     \* the broker runs, and has done nothing that leaves it undefined
  inbox,     \* what each node was sent
  raced,     \* history: two of AddNode, AddSub, AddPub overlapped
  granted,   \* history: the publications that were accepted
  queued,    \* history: the data that was put into each queue
  audience,  \* history: the subscribers of a queue when a datum was put into it
  tried      \* history: the subscribers a datum was sent to, whether it got there or not

tables == <<nodes, num_node, name2index, raced, granted>>
threads == <<at, idx>>
delivery == <<senders, inbox, tried>>
vars == <<tables, MQ, num_mq, next, threads, alive, delivery, queued, audience>>

NoNode == [name |-> Nobody, sub_list |-> <<>>, pub_list |-> <<>>]
NoQueue == [name |-> Nobody, pubnode |-> 0, subnodelist |-> <<>>, data |-> <<>>,
            flag |-> FALSE, savedataflag |-> FALSE]

Adding == {"add", "fill", "count"}
Saving == {"claim", "push"}
Progress == {"none", "sent", "done"} \cup Adding \cup Saving

\* A sendThread: its datum, if any, and the subscribers it is still being sent to.
Sender == [pc : {"test", "send", "end"}, x : Seq(Req), todo : SUBSET Nat]

TypeOK ==
  /\ nodes \in [Slots -> [name : Node \cup {Nobody}, sub_list : Seq(Topic), pub_list : Seq(Topic)]]
  /\ num_node \in Nat /\ name2index \in [Node -> 0..MAX_SIZE_NODE]
  /\ MQ \in [Queues -> [name : Topic \cup {Nobody}, pubnode : 0..MAX_SIZE_NODE,
                        subnodelist : Seq(Slots), data : Seq(Req),
                        flag : BOOLEAN, savedataflag : BOOLEAN]]
  /\ num_mq \in Nat
  /\ next \in [Node -> Nat]
  /\ at \in [Req -> Progress] /\ idx \in [Req -> 0..MAX_SIZE_MQ]
  /\ senders \in [Queues -> Seq(Sender)]
  /\ alive \in BOOLEAN
  /\ inbox \in [Node -> Seq(Topic \X Req)]
  /\ raced \in BOOLEAN /\ granted \subseteq Node \X Topic
  /\ queued \in [Queues -> Seq(Req)]
  /\ audience \in [Req -> SUBSET Slots] /\ tried \in [Req -> SUBSET Slots]

Init ==
  /\ nodes = [i \in Slots |-> NoNode] /\ num_node = 0 /\ name2index = [n \in Node |-> 0]
  /\ MQ = [i \in Queues |-> NoQueue] /\ num_mq = 0
  /\ next = [n \in Node |-> 0]
  /\ at = [r \in Req |-> "none"] /\ idx = [r \in Req |-> 0]
  /\ senders = [i \in Queues |-> <<>>]
  /\ alive = TRUE
  /\ inbox = [n \in Node |-> <<>>]
  /\ raced = FALSE /\ granted = {}
  /\ queued = [i \in Queues |-> <<>>]
  /\ audience = [r \in Req |-> {}] /\ tried = [r \in Req |-> {}]

InThread(r, pc) == alive /\ at[r] = pc
Goto(r, pc) == at' = [at EXCEPT ![r] = pc]

\* Whatever happens next is not defined, and not followed.
Undefined ==
  /\ alive' = FALSE
  /\ UNCHANGED <<tables, MQ, num_mq, next, threads, delivery, queued, audience>>

-----------------------------------------------------------------------------
(***************************************************************************)
(* The nodes.                                                              *)
(***************************************************************************)
(***************************************************************************)
(* The next request of a node, Reg, Sub, Pub or Data: the broker accepts   *)
(* the connection and starts a thread for it.  A node that is stopped      *)
(* makes no further request: nothing says that it must.                    *)
(***************************************************************************)
CreateClient(n) ==
  /\ alive /\ next[n] < Len(Prog[n])
  /\ Cardinality({r \in Req : at[r] \notin {"none", "done"}}) < MaxThreads
  /\ next' = [next EXCEPT ![n] = @ + 1]
  /\ Goto(<<n, next[n] + 1>>, "sent")
  /\ UNCHANGED <<tables, MQ, num_mq, idx, alive, delivery, queued, audience>>

-----------------------------------------------------------------------------
(***************************************************************************)
(* The threads that handle the requests.                                   *)
(***************************************************************************)
\* AddNode, AddSub or AddPub of r is past its tests; raced if another one is.
Enter(r, pc) ==
  /\ Goto(r, pc)
  /\ raced' = (raced \/ \E s \in Req \ {r} : at[s] \in Adding)
  /\ UNCHANGED <<nodes, num_node, name2index, granted>>

Refuse(r) == Goto(r, "done") /\ UNCHANGED <<tables, idx>>

AddNodeCheck(r) ==
  /\ InThread(r, "sent")
  /\ IF name2index[r[1]] # 0 THEN Refuse(r) ELSE Enter(r, "fill") /\ UNCHANGED idx
  /\ UNCHANGED <<MQ, num_mq>>

\* A faulty AddNode that counts the node before it fills its slot, and again.
AddNodeFillTwice(r) ==
  /\ InThread(r, "fill")
  /\ num_node' = num_node + 1
  /\ nodes' = [nodes EXCEPT ![num_node'].name = r[1]]
  /\ name2index' = [name2index EXCEPT ![r[1]] = num_node']
  /\ Goto(r, "count")
  /\ UNCHANGED <<raced, granted, MQ, num_mq, idx>>

AddNodeFill(r) ==
  /\ InThread(r, "fill") /\ num_node < MAX_SIZE_NODE
  /\ nodes' = [nodes EXCEPT ![num_node + 1].name = r[1]]
  /\ name2index' = [name2index EXCEPT ![r[1]] = num_node + 1]
  /\ Goto(r, "count")
  /\ UNCHANGED <<num_node, raced, granted, MQ, num_mq, idx>>

AddNodeCount(r) ==
  /\ InThread(r, "count")
  /\ num_node' = num_node + 1
  /\ Goto(r, "done")
  /\ UNCHANGED <<nodes, name2index, raced, granted, MQ, num_mq, idx>>

AddNode(r) == AddNodeCheck(r) \/ AddNodeFill(r) \/ AddNodeCount(r)

\* The queues that are counted.  Two that race for one count it twice, even past the table's end.
Used == {i \in Queues : i <= num_mq}

\* A faulty search that leaves out the last queue.
QueueOfFew(t) ==
  LET found == {i \in Used \ {num_mq} : MQ[i].name = t} IN IF found = {} THEN 0 ELSE Min(found)

\* The first queue of the topic, or 0.
QueueOf(t) ==
  LET found == {i \in Used : MQ[i].name = t} IN IF found = {} THEN 0 ELSE Min(found)

SubRefused(r) ==
  LET index == name2index[r[1]] IN index # 0 => topic(r) \in ToSet(nodes[index].sub_list)

PubRefused(r) ==
  LET index == name2index[r[1]] q == QueueOf(topic(r)) IN
    \/ index # 0 => topic(r) \in ToSet(nodes[index].pub_list)
    \/ q # 0 /\ MQ[q].pubnode # 0

\* The tests of AddSub or AddPub, and the search for the queue.
Seek(r, refused) ==
  /\ InThread(r, "sent")
  /\ IF refused THEN Refuse(r)
     ELSE Enter(r, "add") /\ idx' = [idx EXCEPT ![r] = QueueOf(topic(r))]
  /\ UNCHANGED <<MQ, num_mq>>

Slot(r) == name2index[r[1]]
Queue(r) == IF idx[r] = 0 THEN num_mq + 1 ELSE idx[r]

\* The request is done, unless there is a new queue to count.
Added(r, new) ==
  /\ Goto(r, IF new THEN "count" ELSE "done")
  /\ granted' = IF new \/ op(r) # "pub" THEN granted ELSE granted \cup {<<r[1], topic(r)>>}
  /\ UNCHANGED <<num_node, name2index, raced, idx>>

EnterSub(r) ==
  /\ InThread(r, "add") /\ Queue(r) \in Queues
  /\ MQ' = [MQ EXCEPT ![Queue(r)].name = topic(r), ![Queue(r)].subnodelist = Append(@, Slot(r))]
  /\ nodes' = [nodes EXCEPT ![Slot(r)].sub_list = Append(@, topic(r))]
  /\ Added(r, idx[r] = 0) /\ UNCHANGED num_mq

EnterPub(r) ==
  /\ InThread(r, "add") /\ Queue(r) \in Queues
  /\ MQ' = [MQ EXCEPT ![Queue(r)].name = topic(r), ![Queue(r)].pubnode = Slot(r)]
  /\ nodes' = [nodes EXCEPT ![Slot(r)].pub_list = Append(@, topic(r))]
  /\ Added(r, idx[r] = 0) /\ UNCHANGED num_mq

CountQueue(r) ==
  /\ InThread(r, "count")
  /\ num_mq' = num_mq + 1
  /\ Added(r, FALSE) /\ UNCHANGED <<nodes, MQ>>

AddSub(r) == Seek(r, SubRefused(r)) \/ EnterSub(r) \/ CountQueue(r)
AddPub(r) == Seek(r, PubRefused(r)) \/ EnterPub(r) \/ CountQueue(r)

(***************************************************************************)
(* AddNode, AddSub or AddPub writes past the end of its table, whose       *)
(* length nothing looks at.  A search past the end finds nothing first.    *)
(***************************************************************************)
Beyond(r) ==
  /\ \/ InThread(r, "fill") /\ num_node >= MAX_SIZE_NODE
     \/ InThread(r, "add") /\ Queue(r) \notin Queues
  /\ Undefined

\* A faulty search of GetData that leaves out the last queue.
MatchingFew(r) ==
  {i \in Used \ {num_mq} : /\ MQ[i].pubnode # 0 /\ nodes[MQ[i].pubnode].name = r[1]
                           /\ MQ[i].name = topic(r) /\ ~MQ[i].savedataflag}

\* The queues that GetData of r may save to.
Matching(r) ==
  {i \in Used : /\ MQ[i].pubnode # 0 /\ nodes[MQ[i].pubnode].name = r[1]
                /\ MQ[i].name = topic(r) /\ ~MQ[i].savedataflag}

(***************************************************************************)
(* The search of GetData.  When it finds nothing, index is what happened   *)
(* to be there: a queue, or anything.                                      *)
(***************************************************************************)
Find(r) ==
  /\ InThread(r, "sent")
  /\ \E i \in IF Matching(r) = {} THEN Queues ELSE {Min(Matching(r))} :
       idx' = [idx EXCEPT ![r] = i]
  /\ Goto(r, IF Matching(r) = {} THEN "push" ELSE "claim")
  /\ UNCHANGED <<tables, MQ, num_mq, next, alive, delivery, queued, audience>>

\* The search reads nodes[-1], or its result is no queue.
FindUndefined(r) ==
  /\ InThread(r, "sent")
  /\ \/ Matching(r) = {}
     \/ \E i \in Used : MQ[i].pubnode = 0 /\ \A j \in Matching(r) : i < j
  /\ Undefined

Claim(r) ==
  /\ InThread(r, "claim")
  /\ MQ' = [MQ EXCEPT ![idx[r]].savedataflag = TRUE]
  /\ Goto(r, "push")
  /\ UNCHANGED <<tables, num_mq, next, idx, alive, delivery, queued, audience>>

\* Another thread is in the loop that pushes to the same queue, so that one push may undo another.
Crowded(r) == \E s \in Req \ {r} : at[s] = "push" /\ idx[s] = idx[r]

Push(r) ==
  /\ InThread(r, "push")
  /\ \E kept \in {TRUE} \cup {~Crowded(r)} :
       /\ MQ' = [MQ EXCEPT ![idx[r]].data = IF kept THEN Append(@, r) ELSE @,
                           ![idx[r]].savedataflag = FALSE]
       /\ queued' = IF kept THEN [queued EXCEPT ![idx[r]] = Append(@, r)] ELSE queued
  /\ audience' = [audience EXCEPT ![r] = ToSet(MQ[idx[r]].subnodelist)]
  /\ Goto(r, "done")
  /\ UNCHANGED <<tables, num_mq, next, idx, alive, delivery>>

GetData(r) == Find(r) \/ Claim(r) \/ Push(r)

\* The request is read, and the function of its first byte called.
MyServerCallBack(r) ==
  \/ /\ \/ op(r) = "reg" /\ AddNode(r)
        \/ op(r) = "sub" /\ AddSub(r)
        \/ op(r) = "pub" /\ AddPub(r)
     /\ UNCHANGED <<next, alive, delivery, queued, audience>>
  \/ op(r) = "data" /\ (GetData(r) \/ FindUndefined(r))
  \/ Beyond(r)

-----------------------------------------------------------------------------
(***************************************************************************)
(* The main thread and the threads that send.                              *)
(***************************************************************************)
\* A faulty TransmitData that starts with the second queue.
TransmitDataFew(i) ==
  /\ alive /\ i > 1 /\ ~MQ[i].flag /\ MQ[i].data # <<>> /\ MQ[i].subnodelist # <<>>
  /\ MQ' = [MQ EXCEPT ![i].flag = TRUE]
  /\ senders' = [senders EXCEPT ![i] = Append(@, [pc |-> "test", x |-> <<>>, todo |-> {}])]
  /\ UNCHANGED <<tables, num_mq, next, threads, alive, inbox, tried, queued, audience>>

\* A faulty TransmitData that does not look whether the queue is being sent.
TransmitDataAnyway(i) ==
  /\ alive /\ Len(senders[i]) < 2 /\ MQ[i].data # <<>> /\ MQ[i].subnodelist # <<>>
  /\ MQ' = [MQ EXCEPT ![i].flag = TRUE]
  /\ senders' = [senders EXCEPT ![i] = Append(@, [pc |-> "test", x |-> <<>>, todo |-> {}])]
  /\ UNCHANGED <<tables, num_mq, next, threads, alive, inbox, tried, queued, audience>>

TransmitData(i) ==
  /\ alive /\ ~MQ[i].flag /\ MQ[i].data # <<>> /\ MQ[i].subnodelist # <<>>
  /\ MQ' = [MQ EXCEPT ![i].flag = TRUE]
  /\ senders' = [senders EXCEPT ![i] = Append(@, [pc |-> "test", x |-> <<>>, todo |-> {}])]
  /\ UNCHANGED <<tables, num_mq, next, threads, alive, inbox, tried, queued, audience>>

In(i, k, pc) == alive /\ k \in DOMAIN senders[i] /\ senders[i][k].pc = pc

\* A faulty sendThread that leaves out the first subscriber.
TakeFrontFew(i, k) ==
  /\ In(i, k, "test")
  /\ senders' = [senders EXCEPT ![i][k] =
       IF MQ[i].data = <<>> THEN [@ EXCEPT !.pc = "end"]
       ELSE [pc |-> "send", x |-> <<Head(MQ[i].data)>>, todo |-> 2..Len(MQ[i].subnodelist)]]
  /\ UNCHANGED <<MQ, inbox, tried>>

\* The head of the loop of sendThread: a thread for each subscriber of now, or the end.
TakeFront(i, k) ==
  /\ In(i, k, "test")
  /\ senders' = [senders EXCEPT ![i][k] =
       IF MQ[i].data = <<>> THEN [@ EXCEPT !.pc = "end"]
       ELSE [pc |-> "send", x |-> <<Head(MQ[i].data)>>, todo |-> DOMAIN MQ[i].subnodelist]]
  /\ UNCHANGED <<MQ, inbox, tried>>

\* A faulty sendThread that does not pop.
PopNot(i, k) ==
  /\ In(i, k, "send") /\ senders[i][k].todo = {}
  /\ senders' = [senders EXCEPT ![i][k].pc = "test"]
  /\ UNCHANGED <<MQ, inbox, tried>>

\* The busy-wait for send_num_flag is over.
Pop(i, k) ==
  /\ In(i, k, "send") /\ senders[i][k].todo = {}
  /\ MQ' = [MQ EXCEPT ![i].data = Tail(@)]
  /\ senders' = [senders EXCEPT ![i][k].pc = "test"]
  /\ UNCHANGED <<inbox, tried>>

Finish(i, k) ==
  /\ In(i, k, "end")
  /\ MQ' = [MQ EXCEPT ![i].flag = FALSE]
  /\ senders' = [senders EXCEPT ![i] = RemoveAt(@, k)]
  /\ UNCHANGED <<inbox, tried>>

sendThread(i, k) ==
  /\ TakeFront(i, k) \/ Pop(i, k) \/ Finish(i, k)
  /\ UNCHANGED <<tables, num_mq, next, threads, alive, queued, audience>>

\* What is written arrives.
MyClientCallBack(n, m) == inbox' = [inbox EXCEPT ![n] = Append(@, m)]

(***************************************************************************)
(* A node that was stopped is not reached, and one that makes requests may *)
(* itself close the connection it has just accepted.                       *)
(***************************************************************************)
ClientBindIpAndPort(n, m) == MyClientCallBack(n, m) \/ UNCHANGED inbox

(***************************************************************************)
(* ~Client closes what MyClientCallBack has closed.  In between the number *)
(* may become that of a request: its thread then reads nothing and ends.   *)
(***************************************************************************)
CloseAgain ==
  \/ UNCHANGED at
  \/ \E r \in Req : at[r] = "sent" /\ Goto(r, "done")

realsendthread(i, k, j) ==
  LET x == senders[i][k].x[1]
      slot == MQ[i].subnodelist[j] IN
  /\ In(i, k, "send") /\ j \in senders[i][k].todo
  /\ ClientBindIpAndPort(nodes[slot].name, <<MQ[i].name, x>>)
  /\ CloseAgain
  /\ tried' = [tried EXCEPT ![x] = @ \cup {slot}]
  /\ senders' = [senders EXCEPT ![i][k].todo = @ \ {j}]
  /\ UNCHANGED <<tables, MQ, num_mq, next, idx, alive, queued, audience>>

-----------------------------------------------------------------------------
Broker ==
  \/ \E r \in Req : MyServerCallBack(r)
  \/ \E i \in Queues : TransmitData(i)
  \/ \E i \in Queues, k \in 1..2 :
       sendThread(i, k) \/ \E j \in DOMAIN MQ[i].subnodelist : realsendthread(i, k, j)

Next == Broker \/ \E n \in Node : CreateClient(n)

Spec == Init /\ [][Next]_vars

\* Every thread of the broker ends, but for the main thread, which does not stop looking.
FairSpec == Spec /\ WF_vars(Broker)

-----------------------------------------------------------------------------
Quiet == \A r \in Req : at[r] \notin Adding

(***************************************************************************)
(* Unless two of AddNode, AddSub, AddPub overlapped: each node has one     *)
(* slot and each topic one queue, and the queue of a topic names its       *)
(* subscribers and its publisher as the lists of the nodes do.             *)
(***************************************************************************)
TablesAgree ==
  Quiet /\ ~raced /\ alive =>
    /\ \A n \in Node, i \in Slots : name2index[n] = i <=> nodes[i].name = n
    /\ \A i, j \in Used : MQ[i].name = MQ[j].name => i = j
    /\ \A t \in Topic, i \in Slots :
         /\ t \in ToSet(nodes[i].sub_list) <=>
              \E q \in Used : MQ[q].name = t /\ i \in ToSet(MQ[q].subnodelist)
         /\ t \in ToSet(nodes[i].pub_list) <=>
              \E q \in Used : MQ[q].name = t /\ i = MQ[q].pubnode
    /\ \A q \in Queues : IsInjective(MQ[q].subnodelist)

(***************************************************************************)
(* A queue has one sendThread at most, and flag says whether it has one.   *)
(***************************************************************************)
OneSender == \A i \in Queues : Len(senders[i]) = (IF MQ[i].flag THEN 1 ELSE 0)

(***************************************************************************)
(* A datum is saved in a queue of another topic, or nowhere, only if its   *)
(* node was not granted the topic, or another datum of the topic is being  *)
(* saved, or two requests raced for the tables.                            *)
(***************************************************************************)
SavedWhereItBelongs ==
  [][\A r \in Req :
       at[r] = "sent" /\ at'[r] = "push" =>
         \/ raced \/ <<r[1], topic(r)>> \notin granted
         \/ \E s \in Req \ {r} : at[s] \in Saving /\ topic(s) = topic(r)]_vars

(***************************************************************************)
(* A node is sent the data of a topic in the order of its queue, and none  *)
(* of it twice, whichever threads sent it.                                 *)
(***************************************************************************)
OrderOf(x) == CHOOSE p \in DOMAIN queued[idx[x]] : queued[idx[x]][p] = x

SentInOrder ==
  ~raced => \A n \in Node : \A a, b \in DOMAIN inbox[n] :
    LET x == inbox[n][a][2] y == inbox[n][b][2] IN
      a < b /\ idx[x] = idx[y] => OrderOf(x) < OrderOf(y)

(***************************************************************************)
(* A datum that has left its queue was sent to everyone who was subscribed *)
(* when it came.                                                           *)
(***************************************************************************)
AudienceServed ==
  \A i \in Queues : \A x \in ToSet(queued[i]) \ ToSet(MQ[i].data) : audience[x] \subseteq tried[x]

(***************************************************************************)
(* A queue with a subscriber does not keep data, also not what came        *)
(* between the last test of sendThread and the reset of its flag.          *)
(***************************************************************************)
NothingStranded ==
  \A i \in Queues : <>[](MQ[i].data = <<>> \/ MQ[i].subnodelist = <<>> \/ ~alive)
=============================================================================
