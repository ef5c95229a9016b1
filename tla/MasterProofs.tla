---------------------------- MODULE MasterProofs ----------------------------
(***************************************************************************)
(* The safety properties of Master, for any nodes, programs and bounds     *)
(* that leave the tables long enough: one sendThread for each queue, the   *)
(* types, the delivery of each datum to its audience, the agreement of the *)
(* tables and the place of a datum unless requests raced, and the order of *)
(* what a node is sent.                                                    *)
(***************************************************************************)
EXTENDS Master, TLAPS, FiniteSetTheorems

-----------------------------------------------------------------------------
(***************************************************************************)
(* The sendThreads.  The main thread, which alone starts one, looks at     *)
(* flag first, and only the sendThread itself resets it.                   *)
(***************************************************************************)
\* The fields of a queue; no step adds one or takes one away.
Fields == {"name", "pubnode", "subnodelist", "data", "flag", "savedataflag"}

Shape ==
  /\ DOMAIN MQ = Queues /\ DOMAIN senders = Queues
  /\ \A i \in Queues : DOMAIN MQ[i] = Fields

\* flag says whether there is a sendThread.
Sole ==
  \A i \in Queues : IF MQ[i].flag THEN \E a : senders[i] = <<a>> ELSE senders[i] = <<>>

\* No step of a server thread touches flag.
Saves == UNCHANGED senders /\ DOMAIN MQ' = DOMAIN MQ
           /\ \A i \in Queues : DOMAIN MQ'[i] = DOMAIN MQ[i] /\ MQ'[i].flag = MQ[i].flag

LEMMA InitSole == Init => Shape /\ Sole
  BY DEF Init, Shape, Sole, Fields, NoQueue, Queues

LEMMA ServersSave == ASSUME Shape, NEW r \in Req, MyServerCallBack(r) PROVE Saves
<1> USE DEF Shape, Fields, Saves
<1>1. CASE UNCHANGED <<MQ, senders>>
  BY <1>1
<1>2. CASE EnterSub(r) /\ UNCHANGED delivery
  BY <1>2 DEF EnterSub, delivery
<1>3. CASE EnterPub(r) /\ UNCHANGED delivery
  BY <1>3 DEF EnterPub, delivery
<1>4. CASE Claim(r)
  BY <1>4 DEF Claim, delivery
<1>5. CASE Push(r)
  BY <1>5 DEF Push, delivery
<1> QED
  BY <1>1, <1>2, <1>3, <1>4, <1>5 DEF MyServerCallBack, AddNode, AddNodeCheck, AddNodeFill,
     AddNodeCount, AddSub, AddPub, Seek, CountQueue, GetData, Find, FindUndefined, Beyond, Undefined, delivery

LEMMA StepSole == Shape /\ Sole /\ [Next]_vars => Shape' /\ Sole'
<1> SUFFICES ASSUME Shape, Sole, [Next]_vars PROVE Shape' /\ Sole'
  OBVIOUS
<1>1. ASSUME Saves PROVE Shape' /\ Sole'
  BY <1>1 DEF Saves, Shape, Sole
<1>2. ASSUME NEW r \in Req, MyServerCallBack(r) PROVE Saves
  BY <1>2, ServersSave
<1>3. ASSUME NEW i \in Queues, TransmitData(i) PROVE Shape' /\ Sole'
  <2> DEFINE a == [pc |-> "test", x |-> <<>>, todo |-> {}]
  <2>1. senders[i] = <<>>
    BY <1>3 DEF TransmitData, Sole
  <2>2. Append(senders[i], a) = <<a>>
    BY <2>1
  <2>3. MQ' = [MQ EXCEPT ![i].flag = TRUE] /\ senders' = [senders EXCEPT ![i] = <<a>>]
    BY <1>3, <2>2 DEF TransmitData
  <2> HIDE DEF a
  <2> QED
    BY <2>3 DEF Shape, Sole, Fields
<1>4. ASSUME NEW i \in Queues, NEW k \in 1..2, sendThread(i, k) PROVE Shape' /\ Sole'
  <2>1. k \in DOMAIN senders[i]
    BY <1>4 DEF sendThread, TakeFront, Pop, Finish, In
  <2>2. k = 1 /\ \E a : senders[i] = <<a>>
    BY <2>1 DEF Sole
  <2>3. CASE TakeFront(i, k) \/ Pop(i, k)
    <3>1. \E b : senders' = [senders EXCEPT ![i][k] = b]
      BY <2>3 DEF TakeFront, Pop
    <3>2. DOMAIN MQ' = DOMAIN MQ /\ \A q \in Queues : DOMAIN MQ'[q] = DOMAIN MQ[q] /\ MQ'[q].flag = MQ[q].flag
      BY <2>3 DEF TakeFront, Pop, Shape, Fields
    <3> QED
      BY <2>2, <3>1, <3>2 DEF Shape, Sole
  <2>4. CASE Finish(i, k)
    <3>1. RemoveAt(senders[i], k) = <<>>
      BY <2>2 DEF RemoveAt
    <3>2. MQ' = [MQ EXCEPT ![i].flag = FALSE] /\ senders' = [senders EXCEPT ![i] = <<>>]
      BY <2>4, <3>1 DEF Finish
    <3> QED
      BY <3>2 DEF Shape, Sole, Fields
  <2> QED
    BY <1>4, <2>3, <2>4 DEF sendThread
<1>5. ASSUME NEW i \in Queues, NEW k \in 1..2, NEW j, realsendthread(i, k, j) PROVE Shape' /\ Sole'
  <2>1. MQ' = MQ /\ k \in DOMAIN senders[i] /\ \E b : senders' = [senders EXCEPT ![i][k] = b]
    BY <1>5 DEF realsendthread, In
  <2>2. k = 1 /\ \E a : senders[i] = <<a>>
    BY <2>1 DEF Sole
  <2> QED
    BY <2>1, <2>2 DEF Shape, Sole
<1>6. ASSUME NEW n \in Node, CreateClient(n) PROVE Saves
  BY <1>6 DEF CreateClient, Saves, delivery
<1>7. CASE UNCHANGED vars
  BY <1>7 DEF vars, delivery, Shape, Sole
<1> QED
  BY <1>1, <1>2, <1>3, <1>4, <1>5, <1>6, <1>7 DEF Next, Broker

\* TransmitData and sendThread: a queue has one sender at most, and flag says so.
THEOREM AlwaysOneSender == Spec => []OneSender
<1>1. Shape /\ Sole => OneSender
  <2> SUFFICES ASSUME Sole, NEW i \in Queues
               PROVE  Len(senders[i]) = IF MQ[i].flag THEN 1 ELSE 0
    BY DEF OneSender
  <2>1. CASE MQ[i].flag
    <3>1. PICK a : senders[i] = <<a>>
      BY <2>1 DEF Sole
    <3>2. Len(<<a>>) = 1
      OBVIOUS
    <3> QED
      BY <2>1, <3>1, <3>2
  <2>2. CASE ~MQ[i].flag
    <3>1. senders[i] = <<>> /\ Len(<<>>) = 0
      BY <2>2 DEF Sole
    <3> QED
      BY <2>2, <3>1
  <2> QED
    BY <2>1, <2>2
<1> QED
  BY <1>1, InitSole, StepSole, PTL DEF Spec

-----------------------------------------------------------------------------
(***************************************************************************)
(* Types.  What has to be shown is that the slots and the queues are       *)
(* enough: one is taken for a request that is done, if any is.             *)
(***************************************************************************)
LEMMA LeastNat ==
  ASSUME NEW T \in SUBSET Nat, T # {}
  PROVE  \E m \in T : \A k \in T : m <= k
<1> DEFINE U == {0..(m - 1) : m \in T}
<1>1. U \subseteq FiniteSubsetsOf(Nat) /\ U # {}
  <2>1. ASSUME NEW m \in T PROVE 0..(m - 1) \in FiniteSubsetsOf(Nat)
    <3>1. IsFiniteSet(0..(m - 1))
      BY FS_Interval
    <3>2. 0..(m - 1) \subseteq Nat
      OBVIOUS
    <3> QED
      BY <3>1, <3>2, Zenon DEF FiniteSubsetsOf
  <2> QED
    BY <2>1
<1>2. IsWellFoundedOn(StrictSubsetOrdering(Nat), FiniteSubsetsOf(Nat))
  BY FS_StrictSubsetOrderingWellFounded
<1>3. PICK x \in U : \A y \in U : ~ (<<y, x>> \in StrictSubsetOrdering(Nat))
  <2> HIDE DEF U
  <2> QED
    BY <1>1, <1>2, WFMin
<1>4. PICK m \in T : x = 0..(m - 1)
  OBVIOUS
<1>5. ASSUME NEW k \in T, k < m PROVE FALSE
  <2>1. 0..(k - 1) \in U
    OBVIOUS
  <2>2. 0..(k - 1) \subseteq 0..(m - 1) /\ 0..(k - 1) # 0..(m - 1)
    <3>1. k \in 0..(m - 1) /\ k \notin 0..(k - 1)
      BY <1>5
    <3> QED
      BY <3>1, <1>5
  <2>3. <<0..(k - 1), x>> \in StrictSubsetOrdering(Nat)
    BY <1>4, <2>2 DEF StrictSubsetOrdering
  <2> QED
    BY <1>3, <2>1, <2>3
<1> QED
  BY <1>5

LEMMA MinOf ==
  ASSUME NEW S \in SUBSET Nat, S # {}
  PROVE  Min(S) \in S /\ \A k \in S : Min(S) <= k
BY LeastNat DEF Min

LEMMA ReqFinite == IsFiniteSet(Req)
<1> DEFINE Of(n) == {n} \X (1..Len(Prog[n]))
           All == {Of(n) : n \in Node}
           f == [n \in Node |-> Of(n)]
<1>1. IsFiniteSet(Node) /\ \A n \in Node : Len(Prog[n]) \in Nat
  BY MasterAssumption
<1>2. ASSUME NEW n \in Node PROVE IsFiniteSet(Of(n))
  <2>1. IsFiniteSet({n})
    BY ONLY FS_Singleton
  <2>2. IsFiniteSet(1..Len(Prog[n]))
    <3>1. Len(Prog[n]) \in Int
      BY <1>1
    <3> QED
      BY ONLY <3>1, FS_Interval
  <2> QED
    BY ONLY <2>1, <2>2, FS_Product
<1>3. f \in Surjection(Node, All)
  BY DEF Surjection
<1>4. IsFiniteSet(All)
  <2> HIDE DEF f, All
  <2> QED
    BY ONLY <1>1, <1>3, FS_Surjection
<1>5. \A T \in All : IsFiniteSet(T)
  BY <1>2
<1>6. IsFiniteSet(UNION All)
  <2> HIDE DEF All
  <2> QED
    BY ONLY <1>4, <1>5, FS_UNION
<1> QED
  BY <1>6, Zenon DEF Req

LEMMA ReqType ==
  ASSUME NEW r \in Req
  PROVE  /\ r = <<r[1], r[2]>> /\ r[1] \in Node /\ r[2] \in 1..Len(Prog[r[1]])
         /\ op(r) \in {"reg", "sub", "pub", "data"}
         /\ op(r) # "reg" => topic(r) \in Topic
<1>1. PICK n \in Node : r \in {n} \X (1..Len(Prog[n]))
  BY DEF Req
<1>2. r = <<r[1], r[2]>> /\ r[1] = n /\ r[2] \in 1..Len(Prog[n])
  BY <1>1
<1>3. Prog[n] \in Seq(Request)
  BY MasterAssumption
<1>4. Prog[n][r[2]] \in Request
  BY <1>2, <1>3
<1>5. Prog[r[1]][r[2]] \in Request
  BY <1>2, <1>4
<1>6. op(r) \in {"reg", "sub", "pub", "data"}
  BY <1>5 DEF op, Request
<1>7. op(r) # "reg" => topic(r) \in Topic
  BY <1>5 DEF op, topic, Request
<1> QED
  BY <1>2, <1>6, <1>7

\* The requests that may take a slot or a queue, and those of them that are done.
Regs == {r \in Req : op(r) = "reg"}
Adds == {r \in Req : op(r) \in {"sub", "pub"}}
RegsDone == {r \in Regs : at[r] = "done"}
AddsDone == {r \in Adds : at[r] = "done"}

Counted == num_node <= Cardinality(RegsDone) /\ num_mq <= Cardinality(AddsDone)

\* What the type of a step's result rests on.
Entered == \A r \in Req : at[r] = "add" => name2index[r[1]] # 0
Aimed == \A r \in Req : at[r] \in Saving => idx[r] \in Queues
Named == \A i \in Queues : Len(MQ[i].subnodelist) # 0 => MQ[i].name \in Topic
Busy == \A i \in Queues : \A k \in DOMAIN senders[i] : senders[i][k].pc = "send" => Len(senders[i][k].x) # 0

\* A request that its node has not made has no thread yet.
Unmade == \A r \in Req : r[2] > next[r[1]] => at[r] = "none"

TypeInv == TypeOK /\ Shape /\ Sole /\ Counted /\ Entered /\ Aimed /\ Named /\ Busy /\ Unmade

LEMMA Sizes == MAX_SIZE_NODE \in Nat /\ MAX_SIZE_MQ \in Nat
  BY MasterAssumption

LEMMA Counting ==
  /\ IsFiniteSet(Regs) /\ IsFiniteSet(Adds)
  /\ IsFiniteSet(RegsDone) /\ IsFiniteSet(AddsDone)
  /\ Cardinality(RegsDone) \in Nat /\ Cardinality(AddsDone) \in Nat
<1>1. IsFiniteSet(Regs) /\ IsFiniteSet(Adds)
  <2>1. Regs \in SUBSET Req /\ Adds \in SUBSET Req
    BY DEF Regs, Adds
  <2> QED
    BY ONLY <2>1, ReqFinite, FS_Subset
<1>2. IsFiniteSet(RegsDone) /\ IsFiniteSet(AddsDone)
  <2>1. RegsDone \in SUBSET Regs /\ AddsDone \in SUBSET Adds
    BY DEF RegsDone, AddsDone
  <2> QED
    BY ONLY <1>1, <2>1, FS_Subset
<1> QED
  BY <1>1, <1>2, FS_CardinalityType

\* No request that is done is at work again.
Onward == \A r \in Req : at[r] = "done" => at'[r] = "done"

\* A step that counts a slot or a queue ends the request it was taken for.
Counts(r) ==
  /\ num_node' # num_node => num_node' = num_node + 1 /\ r \in Regs \ RegsDone /\ at'[r] = "done"
  /\ num_mq' # num_mq => num_mq' = num_mq + 1 /\ r \in Adds \ AddsDone /\ at'[r] = "done"

LEMMA StepCounted ==
  ASSUME Counted, Onward, NEW r, Counts(r), num_node \in Nat, num_mq \in Nat
  PROVE  Counted'
<1>1. ASSUME NEW A, NEW B, IsFiniteSet(B), A \in SUBSET B
      PROVE  Cardinality(A) <= Cardinality(B)
  BY <1>1, FS_Subset
<1>2. ASSUME NEW A, NEW B, IsFiniteSet(B), A \in SUBSET B, r \in B, r \notin A
      PROVE  Cardinality(A) + 1 <= Cardinality(B)
  <2>1. IsFiniteSet(A)
    BY <1>2, FS_Subset
  <2>2. Cardinality(A \cup {r}) = Cardinality(A) + 1
    BY <1>2, <2>1, FS_AddElement
  <2>3. A \cup {r} \in SUBSET B
    BY <1>2
  <2>4. Cardinality(A \cup {r}) <= Cardinality(B)
    BY ONLY <1>2, <2>3, FS_Subset
  <2> QED
    BY <2>2, <2>4
<1>3. IsFiniteSet(RegsDone') /\ IsFiniteSet(AddsDone')
  <2>1. RegsDone' \in SUBSET Regs /\ AddsDone' \in SUBSET Adds
    BY DEF RegsDone, AddsDone
  <2> QED
    BY ONLY <2>1, Counting, FS_Subset
<1>4. RegsDone \in SUBSET RegsDone' /\ AddsDone \in SUBSET AddsDone'
  BY DEF RegsDone, AddsDone, Onward, Regs, Adds
<1>5. Cardinality(RegsDone) <= Cardinality(RegsDone')
  BY ONLY <1>1, <1>3, <1>4
<1>6. Cardinality(AddsDone) <= Cardinality(AddsDone')
  BY ONLY <1>1, <1>3, <1>4
<1>7. /\ Cardinality(RegsDone) \in Nat /\ Cardinality(AddsDone) \in Nat
      /\ Cardinality(RegsDone') \in Nat /\ Cardinality(AddsDone') \in Nat
  BY <1>3, Counting, FS_CardinalityType
<1>8. num_node' <= Cardinality(RegsDone')
  <2>1. CASE num_node' = num_node
    BY <1>5, <1>7, <2>1 DEF Counted
  <2>2. CASE num_node' # num_node
    <3>1. r \in RegsDone' /\ r \notin RegsDone
      BY <2>2 DEF Counts, RegsDone
    <3>2. Cardinality(RegsDone) + 1 <= Cardinality(RegsDone')
      BY ONLY <1>2, <1>3, <1>4, <3>1
    <3> QED
      BY <1>7, <2>2, <3>2 DEF Counted, Counts
  <2> QED
    BY <2>1, <2>2
<1>9. num_mq' <= Cardinality(AddsDone')
  <2>1. CASE num_mq' = num_mq
    BY <1>6, <1>7, <2>1 DEF Counted
  <2>2. CASE num_mq' # num_mq
    <3>1. r \in AddsDone' /\ r \notin AddsDone
      BY <2>2 DEF Counts, AddsDone
    <3>2. Cardinality(AddsDone) + 1 <= Cardinality(AddsDone')
      BY ONLY <1>2, <1>3, <1>4, <3>1
    <3> QED
      BY <1>7, <2>2, <3>2 DEF Counted, Counts
  <2> QED
    BY <2>1, <2>2
<1> QED
  BY <1>8, <1>9 DEF Counted

\* A slot and a queue with some of their fields written.
NodeRec == [name : Node \cup {Nobody}, sub_list : Seq(Topic), pub_list : Seq(Topic)]
QueueRec == [name : Topic \cup {Nobody}, pubnode : 0..MAX_SIZE_NODE,
             subnodelist : Seq(Slots), data : Seq(Req), flag : BOOLEAN, savedataflag : BOOLEAN]

LEMMA NodeRecords ==
  ASSUME NEW f \in [Slots -> NodeRec], NEW i \in Slots
  PROVE  /\ \A n \in Node : [f EXCEPT ![i].name = n] \in [Slots -> NodeRec]
         /\ \A t \in Topic : [f EXCEPT ![i].sub_list = Append(@, t)] \in [Slots -> NodeRec]
         /\ \A t \in Topic : [f EXCEPT ![i].pub_list = Append(@, t)] \in [Slots -> NodeRec]
<1>1. ASSUME NEW n \in Node PROVE [f EXCEPT ![i].name = n] \in [Slots -> NodeRec]
  BY DEF NodeRec
<1>2. ASSUME NEW t \in Topic
      PROVE  /\ [f EXCEPT ![i].sub_list = Append(@, t)] \in [Slots -> NodeRec]
             /\ [f EXCEPT ![i].pub_list = Append(@, t)] \in [Slots -> NodeRec]
  <2>1. Append(f[i].sub_list, t) \in Seq(Topic) /\ Append(f[i].pub_list, t) \in Seq(Topic)
    BY DEF NodeRec
  <2>2. /\ [f[i] EXCEPT !.sub_list = Append(@, t)] \in NodeRec
        /\ [f[i] EXCEPT !.pub_list = Append(@, t)] \in NodeRec
    BY <2>1 DEF NodeRec
  <2> QED
    BY <2>2
<1> QED
  BY <1>1, <1>2

LEMMA QueueRecords ==
  ASSUME NEW f \in [Queues -> QueueRec], NEW q \in Queues
  PROVE  /\ \A t \in Topic, s \in Slots :
              /\ [f EXCEPT ![q].name = t, ![q].subnodelist = Append(@, s)] \in [Queues -> QueueRec]
              /\ [f EXCEPT ![q].name = t, ![q].pubnode = s] \in [Queues -> QueueRec]
         /\ \A b \in BOOLEAN :
              /\ [f EXCEPT ![q].flag = b] \in [Queues -> QueueRec]
              /\ [f EXCEPT ![q].savedataflag = b] \in [Queues -> QueueRec]
         /\ \A d \in Seq(Req) : /\ [f EXCEPT ![q].data = d] \in [Queues -> QueueRec]
                                /\ [f EXCEPT ![q].data = d, ![q].savedataflag = FALSE] \in [Queues -> QueueRec]
<1>1. ASSUME NEW t \in Topic, NEW s \in Slots
      PROVE  /\ [f EXCEPT ![q].name = t, ![q].subnodelist = Append(@, s)] \in [Queues -> QueueRec]
             /\ [f EXCEPT ![q].name = t, ![q].pubnode = s] \in [Queues -> QueueRec]
  <2>1. Append(f[q].subnodelist, s) \in Seq(Slots) /\ s \in 0..MAX_SIZE_NODE
    BY Sizes DEF QueueRec, Slots
  <2>2. /\ [f[q] EXCEPT !.name = t, !.subnodelist = Append(@, s)] \in QueueRec
        /\ [f[q] EXCEPT !.name = t, !.pubnode = s] \in QueueRec
    BY <2>1 DEF QueueRec
  <2> QED
    BY <2>2
<1>2. ASSUME NEW b \in BOOLEAN
      PROVE  /\ [f EXCEPT ![q].flag = b] \in [Queues -> QueueRec]
             /\ [f EXCEPT ![q].savedataflag = b] \in [Queues -> QueueRec]
  <2>1. [f[q] EXCEPT !.flag = b] \in QueueRec /\ [f[q] EXCEPT !.savedataflag = b] \in QueueRec
    BY DEF QueueRec
  <2> QED
    BY <2>1
<1>3. ASSUME NEW d \in Seq(Req)
      PROVE  /\ [f EXCEPT ![q].data = d] \in [Queues -> QueueRec]
             /\ [f EXCEPT ![q].data = d, ![q].savedataflag = FALSE] \in [Queues -> QueueRec]
  <2>1. [f[q] EXCEPT !.data = d] \in QueueRec /\ [f[q] EXCEPT !.data = d, !.savedataflag = FALSE] \in QueueRec
    BY DEF QueueRec
  <2> QED
    BY <2>1
<1> QED
  BY <1>1, <1>2, <1>3

LEMMA Tables == ASSUME TypeOK PROVE nodes \in [Slots -> NodeRec] /\ MQ \in [Queues -> QueueRec]
  BY DEF TypeOK, NodeRec, QueueRec

\* What each step is shown to do.
Typed(r) == TypeOK' /\ Onward /\ Counts(r) /\ Entered' /\ Aimed' /\ Named' /\ Busy' /\ Unmade'

LEMMA GotoType ==
  ASSUME at \in [Req -> Progress], NEW r \in Req, NEW pc \in Progress,
         at[r] \notin {"none", "done"}, Goto(r, pc)
  PROVE  /\ at' \in [Req -> Progress] /\ Onward /\ at'[r] = pc
         /\ \A s \in Req \ {r} : at'[s] = at[s]
         /\ Unmade /\ UNCHANGED next => Unmade'
BY DEF Goto, Onward, Unmade

LEMMA TypeAddNode ==
  ASSUME TypeInv, NEW r \in Req, op(r) = "reg", AddNode(r),
         UNCHANGED <<next, alive, delivery, queued, audience>>
  PROVE  Typed(r)
<1> USE DEF TypeInv, TypeOK
<1>0. r[1] \in Node /\ at[r] \notin {"none", "done"} /\ UNCHANGED next
  BY ReqType DEF AddNode, AddNodeCheck, AddNodeFill, AddNodeCount, InThread
<1>1. CASE AddNodeCheck(r)
  <2>1. PICK pc \in {"done", "fill"} :
          /\ Goto(r, pc) /\ raced' \in BOOLEAN
          /\ UNCHANGED <<nodes, num_node, name2index, granted, MQ, num_mq, idx>>
    <3>1. CASE name2index[r[1]] # 0
      BY <1>1, <3>1 DEF AddNodeCheck, Refuse, tables
    <3>2. CASE name2index[r[1]] = 0
      BY <1>1, <3>2 DEF AddNodeCheck, Enter
    <3> QED
      BY <3>1, <3>2
  <2>2. at' \in [Req -> Progress] /\ Onward /\ at'[r] = pc /\ Unmade' /\ \A s \in Req \ {r} : at'[s] = at[s]
    BY <1>0, <2>1, GotoType DEF Progress, Adding
  <2> QED
    BY <2>1, <2>2 DEF Typed, delivery, Counts, Entered, Aimed, Named, Busy, Saving
<1>2. CASE AddNodeFill(r)
  <2>1. at' \in [Req -> Progress] /\ Onward /\ at'[r] = "count" /\ Unmade' /\ \A s \in Req \ {r} : at'[s] = at[s]
    BY <1>0, <1>2, GotoType DEF Progress, Adding, AddNodeFill
  <2>2. num_node + 1 \in Slots
    BY <1>2, Sizes DEF Slots, AddNodeFill
  <2>3. /\ nodes' = [nodes EXCEPT ![num_node + 1].name = r[1]]
        /\ name2index' = [name2index EXCEPT ![r[1]] = num_node + 1]
        /\ UNCHANGED <<num_node, raced, granted, MQ, num_mq, idx>>
    BY <1>2 DEF AddNodeFill
  <2>4. nodes' \in [Slots -> NodeRec]
    BY ONLY <1>0, <2>2, <2>3, Tables, NodeRecords, TypeOK
  <2>5. name2index' \in [Node -> 0..MAX_SIZE_NODE] /\ \A n \in Node : name2index[n] # 0 => name2index'[n] # 0
    BY <1>0, <2>2, <2>3 DEF Slots
  <2>6. Entered'
    BY <2>1, <2>5, ReqType DEF Entered
  <2> QED
    BY <2>1, <2>3, <2>4, <2>5, <2>6 DEF Typed, NodeRec, delivery, Counts, Aimed, Named, Busy, Saving
<1>3. CASE AddNodeCount(r)
  <2>1. at' \in [Req -> Progress] /\ Onward /\ at'[r] = "done" /\ Unmade' /\ \A s \in Req \ {r} : at'[s] = at[s]
    BY <1>0, <1>3, GotoType DEF Progress, Adding, AddNodeCount
  <2>2. num_node + 1 \in Nat
    OBVIOUS
  <2>3. num_node' = num_node + 1 /\ UNCHANGED <<nodes, name2index, raced, granted, MQ, num_mq, idx>>
    BY <1>3 DEF AddNodeCount
  <2>4. Counts(r)
    BY <1>0, <2>1, <2>3 DEF Counts, Regs, RegsDone
  <2> QED
    BY <2>1, <2>2, <2>3, <2>4 DEF Typed, delivery, Entered, Aimed, Named, Busy, Saving
<1> QED
  BY <1>1, <1>2, <1>3 DEF AddNode

LEMMA QueueOfType ==
  ASSUME num_mq \in Nat, NEW t
  PROVE  /\ QueueOf(t) \in 0..MAX_SIZE_MQ /\ QueueOf(t) <= num_mq
         /\ QueueOf(t) # 0 => MQ[QueueOf(t)].name = t
         /\ QueueOf(t) = 0 => \A i \in Used : MQ[i].name # t
<1> DEFINE found == {i \in Used : MQ[i].name = t}
<1>1. found \in SUBSET Nat
  BY DEF Used, Queues
<1>2. CASE found = {}
  BY <1>2, Sizes DEF QueueOf
<1>3. CASE found # {}
  <2>1. Min(found) \in found
    <3> HIDE DEF found
    <3> QED
      BY <1>1, <1>3, MinOf
  <2> QED
    BY <1>3, <2>1, Sizes DEF QueueOf, Used, Queues
<1> QED
  BY <1>2, <1>3

\* The tests of AddSub and AddPub.
LEMMA TypeSeek ==
  ASSUME TypeInv, NEW r \in Req, op(r) \in {"sub", "pub"}, NEW refused \in BOOLEAN,
         ~refused => name2index[r[1]] # 0,
         Seek(r, refused), UNCHANGED <<next, alive, delivery, queued, audience>>
  PROVE  Typed(r)
<1> USE DEF TypeInv, TypeOK
<1>0. r[1] \in Node /\ at[r] = "sent" /\ UNCHANGED <<MQ, num_mq, next>>
  BY ReqType DEF Seek, InThread
<1>1. CASE refused
  <2>1. Goto(r, "done") /\ UNCHANGED <<nodes, num_node, name2index, raced, granted, idx>>
    BY <1>1 DEF Seek, Refuse, tables
  <2>2. at' \in [Req -> Progress] /\ Onward /\ at'[r] = "done" /\ Unmade' /\ \A s \in Req \ {r} : at'[s] = at[s]
    BY <1>0, <2>1, GotoType DEF Progress
  <2> QED
    BY <1>0, <2>1, <2>2 DEF Typed, delivery, Counts, Entered, Aimed, Named, Busy, Saving
<1>2. CASE ~refused
  <2>1. /\ Goto(r, "add") /\ idx' = [idx EXCEPT ![r] = QueueOf(topic(r))]
        /\ UNCHANGED <<nodes, num_node, name2index, granted>> /\ raced' \in BOOLEAN
    BY <1>2 DEF Seek, Enter
  <2>2. at' \in [Req -> Progress] /\ Onward /\ at'[r] = "add" /\ Unmade' /\ \A s \in Req \ {r} : at'[s] = at[s]
    BY <1>0, <2>1, GotoType DEF Progress, Adding
  <2>3. QueueOf(topic(r)) \in 0..MAX_SIZE_MQ
    BY QueueOfType
  <2>4. idx' \in [Req -> 0..MAX_SIZE_MQ] /\ \A s \in Req \ {r} : idx'[s] = idx[s]
    BY <2>1, <2>3, Sizes
  <2> QED
    BY <1>0, <1>2, <2>1, <2>2, <2>4 DEF Typed, delivery, Counts, Entered, Aimed, Named, Busy, Saving
<1> QED
  BY <1>1, <1>2

\* EnterSub and EnterPub: the queue that is entered into.
LEMMA TypeEntered ==
  ASSUME TypeInv, NEW r \in Req, op(r) \in {"sub", "pub"}, InThread(r, "add")
  PROVE  /\ r[1] \in Node /\ Slot(r) \in Slots /\ topic(r) \in Topic
         /\ Added(r, idx[r] = 0) /\ UNCHANGED next =>
              /\ Unmade' /\ at' \in [Req -> Progress] /\ Onward /\ at'[r] \in {"count", "done"}
              /\ \A s \in Req \ {r} : at'[s] = at[s]
              /\ granted' \subseteq Node \X Topic
              /\ UNCHANGED <<num_node, name2index, raced, idx>>
<1> USE DEF TypeInv, TypeOK
<1>1. r[1] \in Node /\ topic(r) \in Topic /\ at[r] = "add"
  BY ReqType DEF InThread
<1>2. Slot(r) \in Slots
  BY <1>1, Sizes DEF Entered, Slot, Slots
<1>5. ASSUME Added(r, idx[r] = 0), UNCHANGED next
      PROVE  /\ Unmade' /\ at' \in [Req -> Progress] /\ Onward /\ at'[r] \in {"count", "done"}
             /\ \A s \in Req \ {r} : at'[s] = at[s]
             /\ granted' \subseteq Node \X Topic
             /\ UNCHANGED <<num_node, name2index, raced, idx>>
  <2>1. PICK pc \in {"count", "done"} : Goto(r, pc)
    BY <1>5 DEF Added
  <2>2. at' \in [Req -> Progress] /\ Onward /\ at'[r] = pc /\ Unmade' /\ \A s \in Req \ {r} : at'[s] = at[s]
    BY <1>1, <1>5, <2>1, GotoType DEF Progress, Adding
  <2>3. granted' \subseteq Node \X Topic
    BY <1>1, <1>5 DEF Added
  <2> QED
    BY <1>5, <2>2, <2>3 DEF Added
<1> QED
  BY <1>1, <1>2, <1>5

LEMMA TypeEnterSub ==
  ASSUME TypeInv, NEW r \in Req, op(r) = "sub", EnterSub(r),
         UNCHANGED <<next, alive, delivery, queued, audience>>
  PROVE  Typed(r)
<1> USE DEF TypeInv, TypeOK
<1>1. InThread(r, "add") /\ Added(r, idx[r] = 0) /\ UNCHANGED num_mq /\ Queue(r) \in Queues
  BY DEF EnterSub
<1>2. r[1] \in Node /\ Slot(r) \in Slots /\ Queue(r) \in Queues /\ topic(r) \in Topic
  BY <1>1, TypeEntered
<1>3. /\ Unmade' /\ at' \in [Req -> Progress] /\ Onward /\ at'[r] \in {"count", "done"}
      /\ \A s \in Req \ {r} : at'[s] = at[s]
      /\ granted' \subseteq Node \X Topic
      /\ UNCHANGED <<num_node, name2index, raced, idx>>
  BY <1>1, TypeEntered
<1>4. /\ MQ' = [MQ EXCEPT ![Queue(r)].name = topic(r), ![Queue(r)].subnodelist = Append(@, Slot(r))]
      /\ nodes' = [nodes EXCEPT ![Slot(r)].sub_list = Append(@, topic(r))]
  BY DEF EnterSub
<1>5. nodes' \in [Slots -> NodeRec]
  BY ONLY <1>2, <1>4, Tables, NodeRecords, TypeOK
<1>6. MQ' \in [Queues -> QueueRec]
  BY ONLY <1>2, <1>4, Tables, QueueRecords, TypeOK
<1>7. Named'
  <2>1. MQ \in [Queues -> QueueRec]
    BY Tables
  <2>2. \A i \in Queues : \/ MQ'[i].name = topic(r)
                          \/ MQ'[i].name = MQ[i].name /\ MQ'[i].subnodelist = MQ[i].subnodelist
    BY ONLY <1>2, <1>4, <2>1 DEF QueueRec
  <2>3. Named /\ topic(r) \in Topic
    BY <1>2
  <2> QED
    BY ONLY <2>2, <2>3 DEF Named
<1> QED
  BY <1>1, <1>3, <1>5, <1>6, <1>7 DEF Typed, NodeRec, QueueRec, delivery, Counts, Entered, Aimed, Busy, Saving

LEMMA TypeEnterPub ==
  ASSUME TypeInv, NEW r \in Req, op(r) = "pub", EnterPub(r),
         UNCHANGED <<next, alive, delivery, queued, audience>>
  PROVE  Typed(r)
<1> USE DEF TypeInv, TypeOK
<1>1. InThread(r, "add") /\ Added(r, idx[r] = 0) /\ UNCHANGED num_mq /\ Queue(r) \in Queues
  BY DEF EnterPub
<1>2. r[1] \in Node /\ Slot(r) \in Slots /\ Queue(r) \in Queues /\ topic(r) \in Topic
  BY <1>1, TypeEntered
<1>3. /\ Unmade' /\ at' \in [Req -> Progress] /\ Onward /\ at'[r] \in {"count", "done"}
      /\ \A s \in Req \ {r} : at'[s] = at[s]
      /\ granted' \subseteq Node \X Topic
      /\ UNCHANGED <<num_node, name2index, raced, idx>>
  BY <1>1, TypeEntered
<1>4. /\ MQ' = [MQ EXCEPT ![Queue(r)].name = topic(r), ![Queue(r)].pubnode = Slot(r)]
      /\ nodes' = [nodes EXCEPT ![Slot(r)].pub_list = Append(@, topic(r))]
  BY DEF EnterPub
<1>5. nodes' \in [Slots -> NodeRec]
  BY ONLY <1>2, <1>4, Tables, NodeRecords, TypeOK
<1>6. MQ' \in [Queues -> QueueRec]
  BY ONLY <1>2, <1>4, Tables, QueueRecords, TypeOK
<1>7. Named'
  <2>1. MQ \in [Queues -> QueueRec]
    BY Tables
  <2>2. \A i \in Queues : \/ MQ'[i].name = topic(r)
                          \/ MQ'[i].name = MQ[i].name /\ MQ'[i].subnodelist = MQ[i].subnodelist
    BY ONLY <1>2, <1>4, <2>1 DEF QueueRec
  <2>3. Named /\ topic(r) \in Topic
    BY <1>2
  <2> QED
    BY ONLY <2>2, <2>3 DEF Named
<1> QED
  BY <1>1, <1>3, <1>5, <1>6, <1>7 DEF Typed, NodeRec, QueueRec, delivery, Counts, Entered, Aimed, Busy, Saving

LEMMA TypeCountQueue ==
  ASSUME TypeInv, NEW r \in Req, op(r) \in {"sub", "pub"}, CountQueue(r),
         UNCHANGED <<next, alive, delivery, queued, audience>>
  PROVE  Typed(r)
<1> USE DEF TypeInv, TypeOK
<1>1. at[r] = "count" /\ Goto(r, "done") /\ r[1] \in Node /\ topic(r) \in Topic
  BY ReqType DEF CountQueue, InThread, Added
<1>2. at' \in [Req -> Progress] /\ Onward /\ at'[r] = "done" /\ Unmade' /\ \A s \in Req \ {r} : at'[s] = at[s]
  BY <1>1, GotoType DEF Progress
<1>3. num_mq + 1 \in Nat
  OBVIOUS
<1>4. num_mq' = num_mq + 1 /\ UNCHANGED <<nodes, MQ, num_node, name2index, raced, idx>>
  BY DEF CountQueue, Added
<1>5. granted' \subseteq Node \X Topic
  BY <1>1 DEF CountQueue, Added
<1>6. Counts(r)
  BY <1>1, <1>2, <1>4 DEF Counts, Adds, AddsDone
<1> QED
  BY <1>2, <1>3, <1>4, <1>5, <1>6 DEF Typed, delivery, Entered, Aimed, Named, Busy, Saving

LEMMA MatchingMin ==
  ASSUME TypeOK, NEW r \in Req, Matching(r) # {}
  PROVE  Min(Matching(r)) \in Matching(r) /\ Min(Matching(r)) \in Queues
<1>1. Matching(r) \in SUBSET Nat
  BY DEF Matching, Used, Queues, TypeOK
<1>2. Min(Matching(r)) \in Matching(r)
  BY <1>1, MinOf
<1>3. Matching(r) \subseteq Queues
  BY Sizes DEF Matching, Used, Queues, TypeOK, Queues
<1> QED
  BY <1>2, <1>3

LEMMA TypeGetData ==
  ASSUME TypeInv, NEW r \in Req, op(r) = "data", GetData(r)
  PROVE  Typed(r)
<1> USE DEF TypeInv, TypeOK
<1>0. at[r] \notin {"none", "done"} /\ UNCHANGED <<tables, num_mq, next, alive, delivery>>
  BY DEF GetData, Find, Claim, Push, InThread
<1>1. CASE Find(r)
  <2>1. PICK i \in IF Matching(r) = {} THEN Queues ELSE {Min(Matching(r))} : idx' = [idx EXCEPT ![r] = i]
    BY <1>1 DEF Find
  <2>2. i \in Queues
    <3>1. Matching(r) # {} => Min(Matching(r)) \in Queues
      BY MatchingMin
    <3> QED
      BY ONLY <2>1, <3>1
  <2>3. PICK pc \in Saving : Goto(r, pc)
    BY <1>1 DEF Find, Saving
  <2>4. at' \in [Req -> Progress] /\ Onward /\ at'[r] = pc /\ Unmade' /\ \A s \in Req \ {r} : at'[s] = at[s]
    BY <1>0, <2>3, GotoType DEF Progress, Saving
  <2>5. idx' \in [Req -> 0..MAX_SIZE_MQ] /\ idx'[r] = i /\ \A s \in Req \ {r} : idx'[s] = idx[s]
    BY <2>1, <2>2, Sizes DEF Queues
  <2>6. UNCHANGED <<tables, MQ, num_mq, next, alive, delivery, queued, audience>>
    BY <1>1 DEF Find
  <2> QED
    BY <2>2, <2>3, <2>4, <2>5, <2>6 DEF Typed, tables, delivery, Counts, Entered, Aimed, Named, Busy, Saving
<1>2. CASE Claim(r)
  <2>1. MQ' = [MQ EXCEPT ![idx[r]].savedataflag = TRUE] /\ UNCHANGED <<idx, queued, audience>>
    BY <1>2 DEF Claim
  <2>2. idx[r] \in Queues
    BY <1>2 DEF Claim, InThread, Aimed, Saving
  <2>3. at' \in [Req -> Progress] /\ Onward /\ at'[r] = "push" /\ Unmade' /\ \A s \in Req \ {r} : at'[s] = at[s]
    BY <1>0, <1>2, GotoType DEF Progress, Saving, Claim
  <2>4. MQ' \in [Queues -> QueueRec]
    BY ONLY <2>1, <2>2, Tables, QueueRecords, TypeOK
  <2>5. Named'
    BY <2>1, <2>2 DEF Named
  <2> QED
    BY <1>0, <2>1, <2>2, <2>3, <2>4, <2>5
       DEF Typed, QueueRec, tables, delivery, Counts, Entered, Aimed, Busy, Saving
<1>3. CASE Push(r)
  <2>1. idx[r] \in Queues
    BY <1>3 DEF Push, InThread, Aimed, Saving
  <2>2. PICK d \in Seq(Req), e \in Seq(Req) :
          /\ MQ' = [MQ EXCEPT ![idx[r]].data = d, ![idx[r]].savedataflag = FALSE]
          /\ queued' = [queued EXCEPT ![idx[r]] = e]
    <3>1. MQ[idx[r]].data \in Seq(Req) /\ queued[idx[r]] \in Seq(Req)
      BY <2>1
    <3>2. Append(MQ[idx[r]].data, r) \in Seq(Req) /\ Append(queued[idx[r]], r) \in Seq(Req)
      BY <3>1
    <3>3. queued = [queued EXCEPT ![idx[r]] = queued[idx[r]]]
      BY <2>1
    <3>4. PICK kept \in BOOLEAN :
            /\ MQ' = [MQ EXCEPT ![idx[r]].data = IF kept THEN Append(@, r) ELSE @,
                                ![idx[r]].savedataflag = FALSE]
            /\ queued' = IF kept THEN [queued EXCEPT ![idx[r]] = Append(@, r)] ELSE queued
      BY <1>3 DEF Push
    <3>5. CASE kept
      <4>1. /\ MQ' = [MQ EXCEPT ![idx[r]].data = Append(MQ[idx[r]].data, r), ![idx[r]].savedataflag = FALSE]
            /\ queued' = [queued EXCEPT ![idx[r]] = Append(queued[idx[r]], r)]
        BY <3>4, <3>5
      <4> QED
        BY ONLY <3>2, <4>1
    <3>6. CASE ~kept
      <4>1. /\ MQ' = [MQ EXCEPT ![idx[r]].data = MQ[idx[r]].data, ![idx[r]].savedataflag = FALSE]
            /\ queued' = [queued EXCEPT ![idx[r]] = queued[idx[r]]]
        BY <3>3, <3>4, <3>6
      <4> QED
        BY ONLY <3>1, <4>1
    <3> QED
      BY <3>5, <3>6
  <2>3. at' \in [Req -> Progress] /\ Onward /\ at'[r] = "done" /\ Unmade' /\ \A s \in Req \ {r} : at'[s] = at[s]
    BY <1>0, <1>3, GotoType DEF Progress, Saving, Push
  <2>4. MQ' \in [Queues -> QueueRec]
    BY ONLY <2>1, <2>2, Tables, QueueRecords, TypeOK
  <2>5. Named'
    BY <2>1, <2>2 DEF Named
  <2>6. queued' \in [Queues -> Seq(Req)]
    BY <2>1, <2>2
  <2>7. audience' \in [Req -> SUBSET Slots] /\ UNCHANGED idx
    <3>1. ToSet(MQ[idx[r]].subnodelist) \subseteq Slots
      BY <2>1 DEF ToSet
    <3> QED
      BY <1>3, <3>1 DEF Push
  <2> QED
    BY <1>0, <2>3, <2>4, <2>5, <2>6, <2>7
       DEF Typed, QueueRec, tables, delivery, Counts, Entered, Aimed, Busy, Saving
<1> QED
  BY <1>1, <1>2, <1>3 DEF GetData

LEMMA TypeCreateClient ==
  ASSUME TypeInv, NEW n \in Node, CreateClient(n)
  PROVE  Typed(<<n, next[n] + 1>>)
<1> USE DEF TypeInv, TypeOK
<1> DEFINE r == <<n, next[n] + 1>>
<1>1. next[n] \in Nat /\ next[n] < Len(Prog[n]) /\ Len(Prog[n]) \in Nat
  BY MasterAssumption DEF CreateClient
<1>2. r \in Req /\ r[1] = n /\ r[2] = next[n] + 1
  BY <1>1 DEF Req
<1>3. /\ next' = [next EXCEPT ![n] = @ + 1] /\ at' = [at EXCEPT ![r] = "sent"]
      /\ UNCHANGED <<tables, MQ, num_mq, idx, alive, delivery, queued, audience>>
  BY DEF CreateClient, Goto
<1>4. at[r] = "none"
  BY <1>1, <1>2 DEF Unmade
<1>5. \A s \in Req : s[1] \in Node /\ s[2] \in Nat /\ s = <<s[1], s[2]>>
  BY ReqType
<1> HIDE DEF r
<1>6. at' \in [Req -> Progress] /\ Onward /\ at'[r] = "sent" /\ \A s \in Req \ {r} : at'[s] = at[s]
  BY <1>2, <1>3, <1>4 DEF Progress, Onward
<1>7. next' \in [Node -> Nat]
  BY <1>1, <1>3
<1>8. Unmade'
  <2> SUFFICES ASSUME NEW s \in Req, s[2] > next'[s[1]] PROVE at'[s] = "none"
    BY DEF Unmade
  <2>1. s[2] > next[s[1]] /\ s # r
    BY <1>1, <1>2, <1>3, <1>5
  <2> QED
    BY <1>6, <2>1 DEF Unmade
<1> QED
  BY <1>3, <1>6, <1>7, <1>8 DEF Typed, r, tables, delivery, Counts, Entered, Aimed, Named, Busy, Saving

\* The senders of a queue: there is one, or none.
LEMMA OnlySender ==
  ASSUME Shape, Sole, NEW i \in Queues, NEW k \in 1..2, k \in DOMAIN senders[i]
  PROVE  k = 1 /\ senders[i] = <<senders[i][1]>>
BY DEF Sole

LEMMA SetSender ==
  ASSUME TypeOK, Shape, Sole, NEW i \in Queues, NEW k \in 1..2, k \in DOMAIN senders[i], NEW b \in Sender,
         senders' = [senders EXCEPT ![i][k] = b]
  PROVE  /\ senders' \in [Queues -> Seq(Sender)] /\ senders'[i] = <<b>>
         /\ \A q \in Queues \ {i} : senders'[q] = senders[q]
<1>1. k = 1 /\ senders[i] = <<senders[i][1]>>
  BY OnlySender
<1>2. senders \in [Queues -> Seq(Sender)]
  BY DEF TypeOK
<1>3. [senders[i] EXCEPT ![k] = b] = <<b>>
  BY <1>1
<1>4. senders' = [senders EXCEPT ![i] = <<b>>]
  BY <1>3
<1>5. <<b>> \in Seq(Sender)
  OBVIOUS
<1> QED
  BY ONLY <1>2, <1>4, <1>5, i \in Queues

LEMMA TypeTransmitData ==
  ASSUME TypeInv, NEW r, NEW i \in Queues, TransmitData(i)
  PROVE  Typed(r)
<1> DEFINE a == [pc |-> "test", x |-> <<>>, todo |-> {}]
<1>1. senders[i] = <<>>
  BY DEF TransmitData, TypeInv, Sole
<1>2. Append(senders[i], a) = <<a>>
  BY <1>1
<1>3. MQ' = [MQ EXCEPT ![i].flag = TRUE] /\ senders' = [senders EXCEPT ![i] = <<a>>]
  BY <1>2 DEF TransmitData
<1>4. UNCHANGED <<tables, num_mq, next, threads, alive, inbox, tried, queued, audience>>
  BY DEF TransmitData
<1>5. a \in Sender /\ a.pc = "test"
  BY DEF Sender
<1>6. MQ' \in [Queues -> QueueRec]
  BY ONLY <1>3, Tables, QueueRecords, TypeInv, i \in Queues DEF TypeInv
<1>7. senders' \in [Queues -> Seq(Sender)]
  <2> HIDE DEF a
  <2>1. senders \in [Queues -> Seq(Sender)]
    BY DEF TypeInv, TypeOK
  <2>2. <<a>> \in Seq(Sender)
    BY <1>5
  <2> QED
    BY ONLY <1>3, <2>1, <2>2
<1> HIDE DEF a
<1>8. Named'
  BY <1>3 DEF Named, TypeInv, TypeOK
<1>9. Busy'
  BY <1>3, <1>5 DEF Busy, TypeInv, TypeOK
<1> QED
  BY <1>4, <1>6, <1>7, <1>8, <1>9
     DEF Typed, TypeInv, TypeOK, QueueRec, tables, threads, delivery, Onward, Counts, Entered, Aimed, Unmade

LEMMA TypeSendThread ==
  ASSUME TypeInv, NEW r, NEW i \in Queues, NEW k \in 1..2, sendThread(i, k)
  PROVE  Typed(r)
<1>1. UNCHANGED <<tables, num_mq, next, threads, alive, queued, audience, inbox, tried>>
  BY DEF sendThread, TakeFront, Pop, Finish
<1>2. /\ k \in DOMAIN senders[i] /\ k = 1 /\ senders[i] = <<senders[i][1]>> /\ senders[i][k] \in Sender
      /\ MQ[i].data \in Seq(Req) /\ MQ[i].subnodelist \in Seq(Slots)
  <2>1. k \in DOMAIN senders[i]
    BY DEF sendThread, TakeFront, Pop, Finish, In
  <2>2. k = 1 /\ senders[i] = <<senders[i][1]>>
    BY <2>1, OnlySender DEF TypeInv
  <2>3. senders[i] \in Seq(Sender)
    BY DEF TypeInv, TypeOK
  <2>4. MQ[i].data \in Seq(Req) /\ MQ[i].subnodelist \in Seq(Slots)
    BY DEF TypeInv, TypeOK
  <2> QED
    BY <2>1, <2>2, <2>3, <2>4
<1>3. MQ' \in [Queues -> QueueRec] /\ Named'
  <2>1. CASE TakeFront(i, k)
    BY <2>1, Tables DEF TakeFront, TypeInv, Named
  <2>2. CASE Pop(i, k)
    <3>1. MQ' = [MQ EXCEPT ![i].data = Tail(MQ[i].data)]
      BY <2>2 DEF Pop
    <3>2. Tail(MQ[i].data) \in Seq(Req)
      <4>1. CASE MQ[i].data = <<>>
        BY <4>1
      <4>2. CASE MQ[i].data # <<>>
        BY <1>2, <4>2
      <4> QED
        BY <4>1, <4>2
    <3>3. MQ' \in [Queues -> QueueRec]
      BY ONLY <3>1, <3>2, Tables, QueueRecords, TypeInv, i \in Queues DEF TypeInv
    <3>4. MQ \in [Queues -> QueueRec]
      BY Tables DEF TypeInv
    <3>5. \A q \in Queues : MQ'[q].subnodelist = MQ[q].subnodelist /\ MQ'[q].name = MQ[q].name
      BY ONLY <3>1, <3>4 DEF QueueRec
    <3> QED
      BY <3>3, <3>5 DEF Named, TypeInv
  <2>3. CASE Finish(i, k)
    <3>1. MQ' = [MQ EXCEPT ![i].flag = FALSE]
      BY <2>3 DEF Finish
    <3>2. MQ' \in [Queues -> QueueRec]
      BY ONLY <3>1, Tables, QueueRecords, TypeInv, i \in Queues DEF TypeInv
    <3>3. MQ \in [Queues -> QueueRec]
      BY Tables DEF TypeInv
    <3>4. \A q \in Queues : MQ'[q].subnodelist = MQ[q].subnodelist /\ MQ'[q].name = MQ[q].name
      BY ONLY <3>1, <3>3 DEF QueueRec
    <3> QED
      BY <3>2, <3>4 DEF Named, TypeInv
  <2> QED
    BY <2>1, <2>2, <2>3 DEF sendThread
<1>4. senders' \in [Queues -> Seq(Sender)] /\ Busy'
  <2>1. ASSUME NEW b \in Sender, b.pc = "send" => Len(b.x) # 0, senders' = [senders EXCEPT ![i][k] = b]
        PROVE  senders' \in [Queues -> Seq(Sender)] /\ Busy'
    <3>1. /\ senders' \in [Queues -> Seq(Sender)] /\ senders'[i] = <<b>>
          /\ \A q \in Queues \ {i} : senders'[q] = senders[q]
      BY <1>2, <2>1, SetSender DEF TypeInv
    <3> QED
      BY <2>1, <3>1 DEF Busy, TypeInv
  <2>2. CASE TakeFront(i, k)
    <3>1. CASE MQ[i].data = <<>>
      <4>1. senders' = [senders EXCEPT ![i][k] = [senders[i][k] EXCEPT !.pc = "end"]]
        BY <2>2, <3>1 DEF TakeFront
      <4>2. [senders[i][k] EXCEPT !.pc = "end"] \in Sender /\ [senders[i][k] EXCEPT !.pc = "end"].pc = "end"
        BY <1>2 DEF Sender
      <4> QED
        BY ONLY <2>1, <4>1, <4>2
    <3>2. CASE MQ[i].data # <<>>
      <4> DEFINE b == [pc |-> "send", x |-> <<Head(MQ[i].data)>>, todo |-> DOMAIN MQ[i].subnodelist]
      <4>1. senders' = [senders EXCEPT ![i][k] = b]
        BY <2>2, <3>2 DEF TakeFront
      <4>2. Head(MQ[i].data) \in Req /\ DOMAIN MQ[i].subnodelist \subseteq Nat
        BY <1>2, <3>2
      <4>3. b \in Sender /\ Len(b.x) = 1
        BY <4>2 DEF Sender
      <4>4. b.pc = "send" => Len(b.x) # 0
        BY <4>3
      <4> HIDE DEF b
      <4> QED
        BY ONLY <2>1, <4>1, <4>3, <4>4
    <3> QED
      BY <3>1, <3>2
  <2>3. CASE Pop(i, k)
    <3>1. senders' = [senders EXCEPT ![i][k] = [senders[i][k] EXCEPT !.pc = "test"]]
      BY <1>2, <2>3 DEF Pop
    <3>2. [senders[i][k] EXCEPT !.pc = "test"] \in Sender /\ [senders[i][k] EXCEPT !.pc = "test"].pc = "test"
      BY <1>2 DEF Sender
    <3> QED
      BY ONLY <2>1, <3>1, <3>2
  <2>4. CASE Finish(i, k)
    <3>1. RemoveAt(senders[i], k) = <<>>
      <4>1. PICK a : senders[i] = <<a>> /\ k = 1
        BY <1>2
      <4> QED
        BY ONLY <4>1 DEF RemoveAt
    <3>2. senders' = [senders EXCEPT ![i] = <<>>]
      BY <2>4, <3>1 DEF Finish
    <3>3. senders \in [Queues -> Seq(Sender)] /\ Busy
      BY DEF TypeInv, TypeOK
    <3> QED
      BY ONLY <3>2, <3>3 DEF Busy
  <2> QED
    BY <2>2, <2>3, <2>4 DEF sendThread
<1> QED
  BY <1>1, <1>3, <1>4
     DEF Typed, TypeInv, TypeOK, QueueRec, tables, threads, delivery, Onward, Counts, Entered, Aimed, Unmade

\* The datum of a sendThread that is sending, and the slot it is sent to.
LEMMA Sending ==
  ASSUME TypeInv, NEW i \in Queues, NEW k \in 1..2, NEW j \in DOMAIN MQ[i].subnodelist, In(i, k, "send")
  PROVE  /\ k = 1 /\ senders[i] = <<senders[i][1]>> /\ senders[i][k] \in Sender
         /\ senders[i][k].x[1] \in Req /\ MQ[i].subnodelist[j] \in Slots /\ MQ[i].name \in Topic
<1>1. k \in DOMAIN senders[i] /\ senders[i][k].pc = "send"
  BY DEF In
<1>2. k = 1 /\ senders[i] = <<senders[i][1]>>
  BY <1>1, OnlySender DEF TypeInv
<1>3. senders[i][k] \in Sender
  BY <1>1 DEF TypeInv, TypeOK
<1>4. senders[i][k].x \in Seq(Req) /\ Len(senders[i][k].x) # 0
  BY <1>1, <1>3 DEF TypeInv, Busy, Sender
<1>5. MQ[i].subnodelist \in Seq(Slots)
  BY DEF TypeInv, TypeOK
<1> QED
  BY <1>2, <1>3, <1>4, <1>5 DEF TypeInv, Named

LEMMA TypeRealSend ==
  ASSUME TypeInv, NEW r, NEW i \in Queues, NEW k \in 1..2, NEW j \in DOMAIN MQ[i].subnodelist,
         realsendthread(i, k, j)
  PROVE  Typed(r)
<1> DEFINE x == senders[i][k].x[1]
           slot == MQ[i].subnodelist[j]
           n == nodes[slot].name
           b == [senders[i][k] EXCEPT !.todo = @ \ {j}]
<1>1. /\ In(i, k, "send") /\ CloseAgain
      /\ inbox' = [inbox EXCEPT ![n] = Append(@, <<MQ[i].name, x>>)] \/ UNCHANGED inbox
      /\ tried' = [tried EXCEPT ![x] = @ \cup {slot}]
      /\ UNCHANGED <<tables, MQ, num_mq, next, idx, alive, queued, audience>>
  BY DEF realsendthread, ClientBindIpAndPort, MyClientCallBack
<1>2. /\ k = 1 /\ senders[i] = <<senders[i][1]>> /\ senders[i][k] \in Sender
      /\ x \in Req /\ slot \in Slots /\ MQ[i].name \in Topic
  BY <1>1, Sending
<1>3. senders' = [senders EXCEPT ![i][k] = b]
  BY <1>2 DEF realsendthread
<1>4. inbox' \in [Node -> Seq(Topic \X Req)]
  <2>1. <<MQ[i].name, x>> \in Topic \X Req
    BY <1>2
  <2>2. inbox \in [Node -> Seq(Topic \X Req)]
    BY DEF TypeInv, TypeOK
  <2> HIDE DEF n, x
  <2>3. ASSUME NEW m \in Topic \X Req, inbox' = [inbox EXCEPT ![n] = Append(inbox[n], m)]
        PROVE  inbox' \in [Node -> Seq(Topic \X Req)]
    <3>1. CASE n \in Node
      <4>1. Append(inbox[n], m) \in Seq(Topic \X Req)
        BY ONLY <2>2, <2>3, <3>1
      <4> QED
        BY ONLY <2>2, <2>3, <4>1
    <3>2. CASE n \notin Node
      BY ONLY <2>2, <2>3, <3>2
    <3> QED
      BY <3>1, <3>2
  <2>4. CASE UNCHANGED inbox
    BY ONLY <2>2, <2>4
  <2> QED
    BY <1>1, <2>1, <2>3, <2>4
<1>5. tried' \in [Req -> SUBSET Slots]
  BY <1>1, <1>2 DEF TypeInv, TypeOK
<1>6. senders' \in [Queues -> Seq(Sender)] /\ Busy'
  <2>1. b \in Sender /\ b.x = senders[i][k].x /\ b.pc = senders[i][k].pc
    BY <1>2 DEF Sender
  <2>2. k \in DOMAIN senders[i] /\ (b.pc = "send" => Len(b.x) # 0)
    BY <1>1, <2>1 DEF In, TypeInv, Busy
  <2> HIDE DEF b
  <2>3. /\ senders' \in [Queues -> Seq(Sender)] /\ senders'[i] = <<b>>
        /\ \A q \in Queues \ {i} : senders'[q] = senders[q]
    BY <1>3, <2>1, <2>2, SetSender DEF TypeInv
  <2> QED
    BY <2>2, <2>3 DEF Busy, TypeInv
<1>7. /\ at' \in [Req -> Progress] /\ Onward
      /\ \A s \in Req : at'[s] = at[s] \/ (at[s] = "sent" /\ at'[s] = "done")
  <2>1. at \in [Req -> Progress]
    BY DEF TypeInv, TypeOK
  <2>2. PICK s \in Req : UNCHANGED at \/ (at[s] = "sent" /\ at' = [at EXCEPT ![s] = "done"])
    BY <1>1, <1>2 DEF CloseAgain, Goto
  <2>3. at' \in [Req -> Progress]
    BY ONLY <2>1, <2>2 DEF Progress
  <2>4. \A q \in Req : at'[q] = at[q] \/ (at[q] = "sent" /\ at'[q] = "done")
    BY ONLY <2>1, <2>2
  <2>5. Onward
    BY ONLY <2>4 DEF Onward
  <2> QED
    BY <2>3, <2>4, <2>5
<1>8. Entered' /\ Aimed' /\ Unmade'
  BY <1>1, <1>7 DEF TypeInv, Entered, Aimed, Unmade, tables, Saving
<1> QED
  BY <1>1, <1>4, <1>5, <1>6, <1>7, <1>8
     DEF Typed, TypeInv, TypeOK, tables, threads, delivery, Counts, Named

LEMMA TypeInit == Init => TypeInv
<1> SUFFICES ASSUME Init PROVE TypeInv
  OBVIOUS
<1> USE Sizes DEF Init
<1>1. nodes \in [Slots -> NodeRec]
  BY DEF NodeRec, NoNode
<1>2. MQ \in [Queues -> QueueRec]
  BY DEF QueueRec, NoQueue
<1>3. TypeOK
  <2>1. num_node \in Nat /\ name2index \in [Node -> 0..MAX_SIZE_NODE] /\ num_mq \in Nat
    OBVIOUS
  <2>2. next \in [Node -> Nat] /\ at \in [Req -> Progress] /\ idx \in [Req -> 0..MAX_SIZE_MQ]
    BY DEF Progress
  <2>3. senders \in [Queues -> Seq(Sender)] /\ inbox \in [Node -> Seq(Topic \X Req)] /\ queued \in [Queues -> Seq(Req)]
    OBVIOUS
  <2>4. /\ raced \in BOOLEAN /\ alive \in BOOLEAN /\ granted \subseteq Node \X Topic
        /\ audience \in [Req -> SUBSET Slots] /\ tried \in [Req -> SUBSET Slots]
    OBVIOUS
  <2> QED
    BY ONLY <1>1, <1>2, <2>1, <2>2, <2>3, <2>4 DEF TypeOK, NodeRec, QueueRec
<1>4. Counted
  BY Counting DEF Counted
<1>5. Entered /\ Aimed /\ Unmade
  BY DEF Entered, Aimed, Unmade, Saving
<1>6. Named /\ Busy
  BY DEF Named, Busy, NoQueue
<1> QED
  BY <1>3, <1>4, <1>5, <1>6, InitSole DEF TypeInv

LEMMA TypeServer ==
  ASSUME TypeInv, NEW r \in Req, MyServerCallBack(r)
  PROVE  Typed(r)
<1>1. CASE op(r) = "reg" /\ AddNode(r) /\ UNCHANGED <<next, alive, delivery, queued, audience>>
  BY <1>1, TypeAddNode
<1>2. CASE op(r) = "sub" /\ AddSub(r) /\ UNCHANGED <<next, alive, delivery, queued, audience>>
  <2>1. SubRefused(r) \in BOOLEAN /\ (~SubRefused(r) => name2index[r[1]] # 0)
    BY DEF SubRefused
  <2>2. CASE Seek(r, SubRefused(r))
    BY <1>2, <2>1, <2>2, TypeSeek
  <2> QED
    BY <1>2, <2>2, TypeEnterSub, TypeCountQueue DEF AddSub
<1>3. CASE op(r) = "pub" /\ AddPub(r) /\ UNCHANGED <<next, alive, delivery, queued, audience>>
  <2>1. PubRefused(r) \in BOOLEAN /\ (~PubRefused(r) => name2index[r[1]] # 0)
    BY DEF PubRefused
  <2>2. CASE Seek(r, PubRefused(r))
    BY <1>3, <2>1, <2>2, TypeSeek
  <2> QED
    BY <1>3, <2>2, TypeEnterPub, TypeCountQueue DEF AddPub
<1>4. CASE op(r) = "data" /\ GetData(r)
  BY <1>4, TypeGetData
<1>5. CASE FindUndefined(r) \/ Beyond(r)
  <2>1. alive' = FALSE /\ UNCHANGED <<tables, MQ, num_mq, next, threads, delivery, queued, audience>>
    BY <1>5 DEF FindUndefined, Beyond, Undefined
  <2> QED
    BY <2>1 DEF Typed, TypeInv, TypeOK, tables, threads, delivery, Onward, Counts, Entered, Aimed, Named, Busy, Unmade
<1> QED
  BY <1>1, <1>2, <1>3, <1>4, <1>5 DEF MyServerCallBack

LEMMA TypeStep == TypeInv /\ [Next]_vars => TypeInv' /\ (Onward \/ UNCHANGED vars)
<1> SUFFICES ASSUME TypeInv, [Next]_vars PROVE TypeInv' /\ (Onward \/ UNCHANGED vars)
  OBVIOUS
<1>1. CASE UNCHANGED vars
  BY <1>1 DEF vars, tables, threads, delivery, TypeInv, TypeOK, Shape, Sole, Counted, RegsDone, AddsDone,
     Entered, Aimed, Named, Busy, Unmade
<1>2. CASE Next
  <2>1. \E r : Typed(r)
    <3>1. ASSUME NEW r \in Req, MyServerCallBack(r) PROVE Typed(r)
      BY <3>1, TypeServer
    <3>2. ASSUME NEW i \in Queues, TransmitData(i) PROVE Typed(0)
      BY <3>2, TypeTransmitData
    <3>3. ASSUME NEW i \in Queues, NEW k \in 1..2, sendThread(i, k) PROVE Typed(0)
      BY <3>3, TypeSendThread
    <3>4. ASSUME NEW i \in Queues, NEW k \in 1..2, NEW j \in DOMAIN MQ[i].subnodelist, realsendthread(i, k, j)
          PROVE  Typed(0)
      BY <3>4, TypeRealSend
    <3>5. ASSUME NEW n \in Node, CreateClient(n) PROVE Typed(<<n, next[n] + 1>>)
      BY <3>5, TypeCreateClient
    <3> QED
      BY <1>2, <3>1, <3>2, <3>3, <3>4, <3>5, Zenon DEF Next, Broker
  <2>2. PICK r : Typed(r)
    BY <2>1
  <2>3. Shape' /\ Sole'
    BY StepSole DEF TypeInv
  <2>4. Counted'
    BY <2>2, StepCounted DEF Typed, TypeInv, TypeOK
  <2> QED
    BY <2>2, <2>3, <2>4 DEF Typed, TypeInv
<1> QED
  BY <1>1, <1>2

\* Every reachable state has the types of TypeOK, however short the tables are.
THEOREM TypeCorrect == Spec => []TypeOK
<1>1. TypeInv => TypeOK
  BY DEF TypeInv
<1> QED
  BY <1>1, TypeInit, TypeStep, PTL DEF Spec

\* Tables with a slot for every registration and a queue for every subscription or publication.
LongEnough == Cardinality(Regs) <= MAX_SIZE_NODE /\ Cardinality(Adds) <= MAX_SIZE_MQ

\* There is a slot for the node of a reg that is not done, and a queue for a sub or pub.
LEMMA Room ==
  ASSUME LongEnough, Counted, NEW r \in Req, at[r] # "done", num_node \in Nat, num_mq \in Nat
  PROVE  /\ op(r) = "reg" => num_node + 1 <= MAX_SIZE_NODE
         /\ op(r) \in {"sub", "pub"} => num_mq + 1 <= MAX_SIZE_MQ
<1>1. ASSUME NEW A, NEW S, IsFiniteSet(S), A \in SUBSET S, r \in S, r \notin A
      PROVE  Cardinality(A) + 1 <= Cardinality(S)
  <2>1. IsFiniteSet(A)
    BY <1>1, FS_Subset
  <2>2. Cardinality(A \cup {r}) = Cardinality(A) + 1
    BY <1>1, <2>1, FS_AddElement
  <2>3. A \cup {r} \in SUBSET S
    BY <1>1
  <2>4. Cardinality(A \cup {r}) <= Cardinality(S)
    BY ONLY <1>1, <2>3, FS_Subset
  <2> QED
    BY <2>2, <2>4
<1>2. RegsDone \in SUBSET Regs /\ AddsDone \in SUBSET Adds /\ r \notin RegsDone /\ r \notin AddsDone
  BY DEF RegsDone, AddsDone
<1>3. Cardinality(Regs) <= MAX_SIZE_NODE /\ Cardinality(Adds) <= MAX_SIZE_MQ
  BY DEF LongEnough
<1>4. Cardinality(Regs) \in Nat /\ Cardinality(Adds) \in Nat
  BY Counting, FS_CardinalityType
<1>5. CASE op(r) = "reg"
  <2>1. r \in Regs
    BY <1>5 DEF Regs
  <2>2. Cardinality(RegsDone) + 1 <= Cardinality(Regs)
    BY ONLY <1>1, <1>2, <2>1, Counting
  <2> QED
    BY <1>3, <1>4, <1>5, <2>2, Counting, Sizes DEF Counted
<1>6. CASE op(r) \in {"sub", "pub"}
  <2>1. r \in Adds
    BY <1>6 DEF Adds
  <2>2. Cardinality(AddsDone) + 1 <= Cardinality(Adds)
    BY ONLY <1>1, <1>2, <2>1, Counting
  <2> QED
    BY <1>3, <1>4, <1>6, <2>2, Counting, Sizes DEF Counted
<1> QED
  BY <1>5, <1>6

\* No request is about to write past the end of a table.
WithinTables ==
  \A r \in Req : /\ InThread(r, "fill") => num_node < MAX_SIZE_NODE
                 /\ InThread(r, "add") => Queue(r) \in Queues

\* Whose threads are at "fill", and whose at "add".
InTurn == \A r \in Req : (at[r] = "fill" => op(r) = "reg") /\ (at[r] = "add" => op(r) \in {"sub", "pub"})

LEMMA TurnStep == TypeInv /\ InTurn /\ [Next]_vars => InTurn'
<1> SUFFICES ASSUME TypeInv, InTurn, [Next]_vars PROVE InTurn'
  OBVIOUS
<1>1. CASE UNCHANGED vars
  BY <1>1 DEF vars, threads, InTurn
<1>2. ASSUME NEW r \in Req, MyServerCallBack(r) PROVE InTurn'
  <2>1. UNCHANGED at \/ \E pc \in Progress : Goto(r, pc) /\ (pc = "fill" => op(r) = "reg")
                                              /\ (pc = "add" => op(r) \in {"sub", "pub"})
    <3>1. CASE op(r) = "reg" /\ AddNode(r)
      BY <3>1 DEF AddNode, AddNodeCheck, AddNodeFill, AddNodeCount, Refuse, Enter, Progress, Adding, Saving
    <3>2. CASE op(r) = "sub" /\ AddSub(r)
      BY <3>2 DEF AddSub, Seek, Refuse, Enter, EnterSub, CountQueue, Added, Progress, Adding, Saving
    <3>3. CASE op(r) = "pub" /\ AddPub(r)
      BY <3>3 DEF AddPub, Seek, Refuse, Enter, EnterPub, CountQueue, Added, Progress, Adding, Saving
    <3>4. CASE GetData(r)
      BY <3>4 DEF GetData, Find, Claim, Push, Progress, Adding, Saving
    <3>5. CASE FindUndefined(r) \/ Beyond(r)
      BY <3>5 DEF FindUndefined, Beyond, Undefined, threads
    <3> QED
      BY <1>2, <3>1, <3>2, <3>3, <3>4, <3>5 DEF MyServerCallBack
  <2> QED
    BY <2>1 DEF Goto, InTurn, TypeInv, TypeOK
<1>3. ASSUME NEW i \in Queues, NEW k \in 1..2, NEW j \in DOMAIN MQ[i].subnodelist, realsendthread(i, k, j)
      PROVE  InTurn'
  BY <1>3 DEF realsendthread, CloseAgain, Goto, InTurn, TypeInv, TypeOK
<1>4. ASSUME NEW n \in Node, CreateClient(n) PROVE InTurn'
  BY <1>4 DEF CreateClient, Goto, InTurn, TypeInv, TypeOK
<1> QED
  BY <1>1, <1>2, <1>3, <1>4 DEF Next, Broker, TransmitData, sendThread, threads, InTurn

(***************************************************************************)
(* AddNode, AddSub, AddPub: although nothing looks at the lengths of the   *)
(* tables, no write leaves them as long as there are no more registrations *)
(* than slots, and no more subscriptions and publications than queues,     *)
(* also when requests race and count a slot or a queue twice.              *)
(***************************************************************************)
THEOREM TablesSuffice == LongEnough /\ Spec => []WithinTables
<1>1. Init => InTurn
  BY DEF Init, InTurn
<1>2. LongEnough /\ TypeInv /\ InTurn => WithinTables
  <2> SUFFICES ASSUME LongEnough, TypeInv, InTurn, NEW r \in Req
               PROVE  /\ InThread(r, "fill") => num_node < MAX_SIZE_NODE
                      /\ InThread(r, "add") => Queue(r) \in Queues
    BY DEF WithinTables
  <2>1. num_node \in Nat /\ num_mq \in Nat /\ idx[r] \in 0..MAX_SIZE_MQ
    BY DEF TypeInv, TypeOK
  <2>2. CASE InThread(r, "fill")
    <3>1. op(r) = "reg" /\ at[r] # "done"
      BY <2>2 DEF InTurn, InThread
    <3> QED
      BY <2>1, <2>2, <3>1, Room, Sizes DEF TypeInv, InThread
  <2>3. CASE InThread(r, "add")
    <3>1. op(r) \in {"sub", "pub"} /\ at[r] # "done"
      BY <2>3 DEF InTurn, InThread
    <3>2. num_mq + 1 <= MAX_SIZE_MQ
      BY <2>1, <3>1, Room DEF TypeInv
    <3> QED
      BY <2>1, <2>3, <3>2, Sizes DEF Queue, Queues, InThread
  <2> QED
    BY <2>2, <2>3
<1>3. LongEnough => LongEnough'
  BY DEF LongEnough, Regs, Adds
<1> QED
  BY <1>1, <1>2, <1>3, TypeInit, TypeStep, TurnStep, PTL DEF Spec

-----------------------------------------------------------------------------
(***************************************************************************)
(* The delivery.  A datum stays in its queue until the sendThread has      *)
(* nobody left to send it to; whoever subscribes meanwhile is appended to  *)
(* the list that the sendThread goes through, and disturbs no other entry. *)
(***************************************************************************)
Kept == \A i \in Queues : \A x \in ToSet(queued[i]) : at[x] = "done"
Within == \A i \in Queues : ToSet(MQ[i].data) \subseteq ToSet(queued[i])
Known == \A i \in Queues : \A x \in ToSet(MQ[i].data) : audience[x] \subseteq ToSet(MQ[i].subnodelist)

\* A sender sends the front of its queue, and has sent it to the audience but for todo.
Serves(a, data, list, heard, got) ==
  LET x == a.x[1] IN
    a.pc = "send" =>
      /\ Len(data) # 0 /\ x = data[1] /\ a.todo \subseteq DOMAIN list
      /\ \A s \in heard[x] : s \in got[x] \/ \E j \in a.todo : list[j] = s

Serving ==
  \A i \in Queues : \A k \in DOMAIN senders[i] :
    Serves(senders[i][k], MQ[i].data, MQ[i].subnodelist, audience, tried)

DeliveryInv == Kept /\ Within /\ Known /\ Serving /\ AudienceServed

\* A list of subscribers is only appended to.
Grows == \A i \in Queues : /\ DOMAIN MQ[i].subnodelist \subseteq DOMAIN MQ'[i].subnodelist
                           /\ \A j \in DOMAIN MQ[i].subnodelist : MQ'[i].subnodelist[j] = MQ[i].subnodelist[j]

LEMMA KeptStep == ASSUME TypeInv, Kept, Onward, UNCHANGED queued PROVE Kept'
<1>1. \A i \in Queues : ToSet(queued[i]) \subseteq Req
  BY DEF TypeInv, TypeOK, ToSet
<1> QED
  BY <1>1 DEF Kept, Onward

\* What is in a list stays in it.
LEMMA GrowsSet == ASSUME Grows, NEW i \in Queues PROVE ToSet(MQ[i].subnodelist) \subseteq ToSet(MQ'[i].subnodelist)
  BY DEF Grows, ToSet

LEMMA DeliveryFrame ==
  ASSUME TypeInv, DeliveryInv, Onward, Grows, UNCHANGED <<senders, queued, audience, tried>>,
         \A i \in Queues : MQ'[i].data = MQ[i].data
  PROVE  DeliveryInv'
<1>1. Kept'
  BY KeptStep DEF DeliveryInv
<1>2. Within'
  BY DEF DeliveryInv, Within
<1>3. Known'
  BY GrowsSet DEF DeliveryInv, Known
<1>4. Serving'
  BY DEF DeliveryInv, Serving, Serves, Grows
<1>5. AudienceServed'
  BY DEF DeliveryInv, AudienceServed
<1> QED
  BY <1>1, <1>2, <1>3, <1>4, <1>5 DEF DeliveryInv

LEMMA ToSetAppend == ASSUME NEW S, NEW s \in Seq(S), NEW x \in S PROVE ToSet(Append(s, x)) = ToSet(s) \cup {x}
<1>1. Len(Append(s, x)) = Len(s) + 1 /\ Append(s, x)[Len(s) + 1] = x /\ \A p \in 1..Len(s) : Append(s, x)[p] = s[p]
  OBVIOUS
<1>2. DOMAIN s = 1..Len(s) /\ DOMAIN Append(s, x) = 1..(Len(s) + 1) /\ Len(s) \in Nat
  OBVIOUS
<1> QED
  BY <1>1, <1>2 DEF ToSet

\* What is not in a list can be appended without being in it twice.
LEMMA InjectiveAppend ==
  ASSUME NEW S, NEW s \in Seq(S), NEW x \in S, IsInjective(s), x \notin ToSet(s)
  PROVE  IsInjective(Append(s, x))
<1>1. /\ DOMAIN s = 1..Len(s) /\ Len(s) \in Nat /\ DOMAIN Append(s, x) = 1..(Len(s) + 1)
      /\ Append(s, x)[Len(s) + 1] = x /\ \A p \in 1..Len(s) : Append(s, x)[p] = s[p]
  OBVIOUS
<1>2. \A p \in 1..Len(s) : s[p] # x
  BY <1>1 DEF ToSet
<1>3. \A p, o \in 1..Len(s) : s[p] = s[o] => p = o
  BY <1>1 DEF IsInjective
<1>4. \A p \in DOMAIN Append(s, x) : p \in 1..Len(s) \/ p = Len(s) + 1
  BY ONLY <1>1
<1> QED
  BY ONLY <1>1, <1>2, <1>3, <1>4 DEF IsInjective

LEMMA ToSetTail == ASSUME NEW S, NEW s \in Seq(S), Len(s) # 0 PROVE ToSet(s) = {s[1]} \cup ToSet(Tail(s))
<1> DEFINE t == Tail(s)
<1>1. Len(s) \in Nat /\ 1 \in 1..Len(s) /\ DOMAIN s = 1..Len(s) /\ DOMAIN t = 1..(Len(s) - 1)
  OBVIOUS
<1>2. \A p \in 1..(Len(s) - 1) : t[p] = s[p + 1]
  OBVIOUS
<1> HIDE DEF t
<1>3. ASSUME NEW p \in DOMAIN s PROVE s[p] \in {s[1]} \cup ToSet(t)
  <2>1. CASE p = 1
    BY <2>1
  <2>2. CASE p # 1
    <3>1. p - 1 \in DOMAIN t /\ t[p - 1] = s[p]
      BY <1>1, <1>2, <2>2
    <3> QED
      BY <3>1 DEF ToSet
  <2> QED
    BY <2>1, <2>2
<1>4. ASSUME NEW p \in DOMAIN t PROVE t[p] \in ToSet(s)
  <2>1. p + 1 \in DOMAIN s /\ t[p] = s[p + 1]
    BY <1>1, <1>2
  <2> QED
    BY <2>1 DEF ToSet
<1>5. s[1] \in ToSet(s)
  BY <1>1 DEF ToSet
<1>6. ToSet(s) \subseteq {s[1]} \cup ToSet(t)
  BY <1>3 DEF ToSet
<1>7. ToSet(t) \subseteq ToSet(s)
  BY <1>4 DEF ToSet
<1> QED
  BY <1>5, <1>6, <1>7 DEF t

\* A request that is no datum of a queue: every server thread but GetData at its push.
\* What a request does to the queues, but for the push of a datum.
LEMMA AddingLeaves ==
  ASSUME TypeInv, NEW r \in Req, MyServerCallBack(r), ~Push(r)
  PROVE  /\ UNCHANGED <<senders, inbox, queued, audience, tried>>
         /\ Grows /\ \A i \in Queues : MQ'[i].data = MQ[i].data
<1>1. CASE UNCHANGED <<MQ, delivery, queued, audience>>
  BY <1>1 DEF delivery, Grows
<1>2. CASE EnterSub(r) /\ UNCHANGED <<delivery, queued, audience>>
  <2>1. MQ' = [MQ EXCEPT ![Queue(r)].name = topic(r), ![Queue(r)].subnodelist = Append(@, Slot(r))]
    BY <1>2 DEF EnterSub
  <2>2. MQ \in [Queues -> QueueRec]
    BY Tables DEF TypeInv
  <2>3. \A i \in Queues : MQ'[i].data = MQ[i].data
    BY <2>1, <2>2 DEF QueueRec
  <2>4. Grows
    <3> SUFFICES ASSUME NEW i \in Queues
                 PROVE  /\ DOMAIN MQ[i].subnodelist \subseteq DOMAIN MQ'[i].subnodelist
                        /\ \A j \in DOMAIN MQ[i].subnodelist : MQ'[i].subnodelist[j] = MQ[i].subnodelist[j]
      BY DEF Grows
    <3>1. MQ[i].subnodelist \in Seq(Slots)
      BY <2>2 DEF QueueRec
    <3>2. MQ'[i].subnodelist \in {MQ[i].subnodelist, Append(MQ[i].subnodelist, Slot(r))}
      BY <2>1, <2>2 DEF QueueRec
    <3>3. CASE MQ'[i].subnodelist = MQ[i].subnodelist
      BY ONLY <3>3
    <3>4. CASE MQ'[i].subnodelist = Append(MQ[i].subnodelist, Slot(r))
      BY ONLY <3>1, <3>4
    <3> QED
      BY ONLY <3>2, <3>3, <3>4
  <2> QED
    BY <1>2, <2>3, <2>4 DEF delivery
<1>3. CASE EnterPub(r) /\ UNCHANGED <<delivery, queued, audience>>
  <2>1. MQ' = [MQ EXCEPT ![Queue(r)].name = topic(r), ![Queue(r)].pubnode = Slot(r)]
    BY <1>3 DEF EnterPub
  <2>2. MQ \in [Queues -> QueueRec]
    BY Tables DEF TypeInv
  <2> QED
    BY <1>3, <2>1, <2>2 DEF delivery, QueueRec, Grows
<1>4. CASE Claim(r)
  <2>1. MQ' = [MQ EXCEPT ![idx[r]].savedataflag = TRUE]
    BY <1>4 DEF Claim
  <2>2. MQ \in [Queues -> QueueRec]
    BY Tables DEF TypeInv
  <2> QED
    BY <1>4, <2>1, <2>2 DEF Claim, delivery, QueueRec, Grows
<1> QED
  BY <1>1, <1>2, <1>3, <1>4 DEF MyServerCallBack, AddNode, AddNodeCheck, AddNodeFill, AddNodeCount,
     AddSub, AddPub, Seek, CountQueue, GetData, Find, FindUndefined, Beyond, Undefined

LEMMA DeliveryAdding ==
  ASSUME TypeInv, DeliveryInv, NEW r \in Req, MyServerCallBack(r), ~Push(r)
  PROVE  DeliveryInv'
<1>1. Onward
  BY TypeServer DEF Typed
<1> QED
  BY <1>1, AddingLeaves, DeliveryFrame

LEMMA DeliveryPush ==
  ASSUME TypeInv, DeliveryInv, NEW r \in Req, op(r) = "data", Push(r)
  PROVE  DeliveryInv'
<1> DEFINE q == idx[r]
<1>1. q \in Queues /\ at[r] = "push"
  BY DEF Push, InThread, TypeInv, Aimed, Saving
<1>2. Onward /\ at'[r] = "done"
  BY <1>1, GotoType DEF Push, TypeInv, TypeOK, Progress, Saving
<1>3. /\ MQ[q].data \in Seq(Req) /\ queued[q] \in Seq(Req) /\ MQ \in [Queues -> QueueRec]
      /\ queued \in [Queues -> Seq(Req)] /\ audience \in [Req -> SUBSET Slots]
  BY <1>1, Tables DEF TypeInv, TypeOK
<1>4. PICK kept \in BOOLEAN :
        /\ MQ' = [MQ EXCEPT ![q].data = IF kept THEN Append(@, r) ELSE @, ![q].savedataflag = FALSE]
        /\ queued' = IF kept THEN [queued EXCEPT ![q] = Append(@, r)] ELSE queued
  BY DEF Push
<1>5. /\ audience' = [audience EXCEPT ![r] = ToSet(MQ[q].subnodelist)]
      /\ UNCHANGED <<senders, tried>>
  BY DEF Push, delivery
<1>6. \A i \in Queues : r \notin ToSet(queued[i]) /\ r \notin ToSet(MQ[i].data)
  BY <1>1 DEF DeliveryInv, Kept, Within
<1>7. /\ \A i \in Queues : MQ'[i].subnodelist = MQ[i].subnodelist
      /\ \A i \in Queues \ {q} : MQ'[i].data = MQ[i].data /\ queued'[i] = queued[i]
      /\ MQ'[q].data = (IF kept THEN Append(MQ[q].data, r) ELSE MQ[q].data)
      /\ queued'[q] = IF kept THEN Append(queued[q], r) ELSE queued[q]
  BY <1>1, <1>3, <1>4 DEF QueueRec
<1>8. /\ ToSet(MQ'[q].data) = IF kept THEN ToSet(MQ[q].data) \cup {r} ELSE ToSet(MQ[q].data)
      /\ ToSet(queued'[q]) = IF kept THEN ToSet(queued[q]) \cup {r} ELSE ToSet(queued[q])
  <2>1. MQ[q].data \in Seq(Req) /\ queued[q] \in Seq(Req) /\ r \in Req
    BY <1>3
  <2>2. ToSet(Append(MQ[q].data, r)) = ToSet(MQ[q].data) \cup {r}
    BY ONLY <2>1, ToSetAppend
  <2>3. ToSet(Append(queued[q], r)) = ToSet(queued[q]) \cup {r}
    BY ONLY <2>1, ToSetAppend
  <2> QED
    BY ONLY <1>7, <2>2, <2>3
<1>9. \A x \in Req \ {r} : audience'[x] = audience[x]
  BY <1>3, <1>5
<1>10. audience'[r] = ToSet(MQ[q].subnodelist)
  BY <1>3, <1>5
<1>11. \A i \in Queues : ToSet(queued[i]) \subseteq Req /\ ToSet(MQ[i].data) \subseteq Req
  BY <1>3 DEF QueueRec, ToSet
<1> HIDE DEF q
<1>12. Kept'
  BY <1>2, <1>7, <1>8, <1>11 DEF DeliveryInv, Kept, Onward
<1>13. Within'
  BY <1>7, <1>8 DEF DeliveryInv, Within
<1>14. Known'
  <2> SUFFICES ASSUME NEW i \in Queues, NEW x \in ToSet(MQ'[i].data)
               PROVE  audience'[x] \subseteq ToSet(MQ'[i].subnodelist)
    BY DEF Known
  <2>1. CASE x = r
    <3>1. i = q
      BY <1>6, <1>7, <2>1
    <3> QED
      BY <1>7, <1>10, <2>1, <3>1
  <2>2. CASE x # r
    <3>1. x \in ToSet(MQ[i].data)
      BY <1>7, <1>8, <2>2
    <3> QED
      BY <1>7, <1>9, <1>11, <2>2, <3>1 DEF DeliveryInv, Known
  <2> QED
    BY <2>1, <2>2
<1>15. Serving'
  <2> SUFFICES ASSUME NEW i \in Queues, NEW k \in DOMAIN senders[i], senders[i][k].pc = "send"
               PROVE  Serves(senders[i][k], MQ'[i].data, MQ'[i].subnodelist, audience', tried)
    BY <1>5 DEF Serving, Serves
  <2>1. /\ Len(MQ[i].data) # 0 /\ senders[i][k].x[1] = MQ[i].data[1] /\ MQ[i].data \in Seq(Req)
        /\ senders[i][k].todo \subseteq DOMAIN MQ[i].subnodelist
        /\ \A s \in audience[MQ[i].data[1]] :
             s \in tried[MQ[i].data[1]] \/ \E j \in senders[i][k].todo : MQ[i].subnodelist[j] = s
    BY <1>3 DEF DeliveryInv, Serving, Serves, QueueRec
  <2>2. Len(MQ'[i].data) # 0 /\ MQ'[i].data[1] = MQ[i].data[1]
    <3>1. MQ'[i].data \in {MQ[i].data, Append(MQ[i].data, r)}
      BY <1>7
    <3> QED
      BY ONLY <2>1, <3>1, r \in Req
  <2>3. MQ[i].data[1] \in ToSet(MQ[i].data)
    BY <2>1 DEF ToSet
  <2>4. audience'[MQ[i].data[1]] = audience[MQ[i].data[1]]
    BY <1>6, <1>9, <1>11, <2>3
  <2> QED
    BY <1>7, <2>1, <2>2, <2>4 DEF Serves
<1>16. AudienceServed'
  <2> SUFFICES ASSUME NEW i \in Queues, NEW x \in ToSet(queued'[i]) \ ToSet(MQ'[i].data)
               PROVE  audience'[x] \subseteq tried[x]
    BY <1>5 DEF AudienceServed
  <2>1. x \in ToSet(queued[i]) \ ToSet(MQ[i].data)
    BY <1>7, <1>8
  <2> QED
    BY <1>6, <1>9, <1>11, <2>1 DEF DeliveryInv, AudienceServed
<1> QED
  BY <1>12, <1>13, <1>14, <1>15, <1>16 DEF DeliveryInv

LEMMA DeliveryTransmit ==
  ASSUME TypeInv, DeliveryInv, NEW i \in Queues, TransmitData(i)
  PROVE  DeliveryInv'
<1>1. MQ' = [MQ EXCEPT ![i].flag = TRUE] /\ UNCHANGED <<at, queued, audience, tried>>
  BY DEF TransmitData, threads
<1>2. /\ MQ \in [Queues -> QueueRec]
      /\ \A q \in Queues : MQ'[q].data = MQ[q].data /\ MQ'[q].subnodelist = MQ[q].subnodelist
  <2>1. MQ \in [Queues -> QueueRec]
    BY Tables DEF TypeInv
  <2> QED
    BY ONLY <1>1, <2>1 DEF QueueRec
<1>3. \A q \in Queues \ {i} : senders'[q] = senders[q]
  BY DEF TransmitData, TypeInv, TypeOK
<1>5. DOMAIN senders'[i] = {1} /\ senders'[i][1].pc = "test"
  <2> DEFINE a == [pc |-> "test", x |-> <<>>, todo |-> {}]
  <2>1. senders[i] = <<>> /\ senders \in [Queues -> Seq(Sender)]
    BY DEF TransmitData, TypeInv, TypeOK, Sole
  <2>2. Append(senders[i], a) = <<a>>
    BY <2>1
  <2>3. senders' = [senders EXCEPT ![i] = <<a>>] /\ a.pc = "test"
    BY <2>2 DEF TransmitData
  <2> HIDE DEF a
  <2> QED
    BY ONLY <2>1, <2>3, i \in Queues
<1>6. Serving'
  <2> SUFFICES ASSUME NEW q \in Queues, NEW k \in DOMAIN senders'[q]
               PROVE  Serves(senders'[q][k], MQ'[q].data, MQ'[q].subnodelist, audience', tried')
    BY DEF Serving
  <2>1. CASE q = i
    <3>1. senders'[q][k].pc # "send"
      BY <1>5, <2>1
    <3> QED
      BY <3>1 DEF Serves
  <2>2. CASE q # i
    BY <1>1, <1>2, <1>3, <2>2 DEF DeliveryInv, Serving
  <2> QED
    BY <2>1, <2>2
<1>7. Kept' /\ Within' /\ Known' /\ AudienceServed'
  BY <1>1, <1>2 DEF DeliveryInv, Kept, Within, Known, AudienceServed
<1> QED
  BY <1>6, <1>7 DEF DeliveryInv
\* The steps of a sendThread: it takes the front of its queue, and pops what it has sent to all.
LEMMA DeliverySend ==
  ASSUME TypeInv, DeliveryInv, NEW i \in Queues, NEW k \in 1..2, sendThread(i, k)
  PROVE  DeliveryInv'
<1>1. UNCHANGED <<at, queued, audience, tried>>
  BY DEF sendThread, TakeFront, Pop, Finish, threads
<1>2. Kept'
  BY <1>1 DEF DeliveryInv, Kept
<1>3. k \in DOMAIN senders[i] /\ k = 1 /\ senders[i][1] \in Sender
  <2>1. k \in DOMAIN senders[i]
    BY DEF sendThread, TakeFront, Pop, Finish, In
  <2> QED
    BY <2>1, OnlySender DEF TypeInv, TypeOK
<1>4. \E a : senders[i] = <<a>>
  BY <1>3, OnlySender DEF TypeInv
<1>5. MQ \in [Queues -> QueueRec] /\ senders \in [Queues -> Seq(Sender)]
  BY Tables DEF TypeInv, TypeOK
\* A sender that is not sending, or is gone, and a queue that is as it was.
<1>6. ASSUME NEW b, DOMAIN senders'[i] \subseteq {1}, senders'[i][1] = b, b.pc # "send",
             \A q \in Queues \ {i} : /\ senders'[q] = senders[q]
                                    /\ MQ'[q].data = MQ[q].data /\ MQ'[q].subnodelist = MQ[q].subnodelist
      PROVE  Serving'
  <2> SUFFICES ASSUME NEW q \in Queues, NEW l \in DOMAIN senders'[q]
               PROVE  Serves(senders'[q][l], MQ'[q].data, MQ'[q].subnodelist, audience', tried')
    BY DEF Serving
  <2>1. CASE q = i
    <3>1. senders'[q][l].pc # "send"
      BY <1>6, <2>1
    <3> QED
      BY <3>1 DEF Serves
  <2>2. CASE q # i
    BY <1>1, <1>6, <2>2 DEF DeliveryInv, Serving
  <2> QED
    BY <2>1, <2>2
<1>7. CASE TakeFront(i, k)
  <2>1. UNCHANGED MQ
    BY <1>7 DEF TakeFront
  <2>2. Within' /\ Known' /\ AudienceServed'
    BY <1>1, <2>1 DEF DeliveryInv, Within, Known, AudienceServed
  <2>3. CASE MQ[i].data = <<>>
    <3> DEFINE b == [senders[i][1] EXCEPT !.pc = "end"]
    <3>1. senders' = [senders EXCEPT ![i][1] = b] /\ b.pc = "end"
      BY <1>3, <1>7, <2>3 DEF TakeFront, Sender
    <3> HIDE DEF b
    <3>2. DOMAIN senders'[i] \subseteq {1} /\ senders'[i][1] = b /\ \A q \in Queues \ {i} : senders'[q] = senders[q]
      BY ONLY <1>4, <1>5, <3>1, i \in Queues
    <3> QED
      BY <1>2, <1>6, <2>1, <2>2, <3>1, <3>2 DEF DeliveryInv
  <2>4. CASE MQ[i].data # <<>>
    <3> DEFINE x == Head(MQ[i].data)
               b == [pc |-> "send", x |-> <<x>>, todo |-> DOMAIN MQ[i].subnodelist]
    <3>1. senders' = [senders EXCEPT ![i][1] = b]
      BY <1>3, <1>7, <2>4 DEF TakeFront
    <3>2. b.pc = "send" /\ b.x[1] = x /\ b.todo = DOMAIN MQ[i].subnodelist
      OBVIOUS
    <3>3. Len(MQ[i].data) # 0 /\ x = MQ[i].data[1] /\ x \in ToSet(MQ[i].data)
      BY <1>5, <2>4 DEF QueueRec, ToSet
    <3> HIDE DEF b, x
    <3>4. /\ DOMAIN senders'[i] \subseteq {1} /\ senders'[i][1] = b
          /\ \A q \in Queues \ {i} : senders'[q] = senders[q]
      BY ONLY <1>4, <1>5, <3>1, i \in Queues
    <3>5. \A s \in audience[x] : \E j \in DOMAIN MQ[i].subnodelist : MQ[i].subnodelist[j] = s
      BY <3>3 DEF DeliveryInv, Known, ToSet
    <3>6. Serving'
      <4> SUFFICES ASSUME NEW q \in Queues, NEW l \in DOMAIN senders'[q]
                   PROVE  Serves(senders'[q][l], MQ'[q].data, MQ'[q].subnodelist, audience', tried')
        BY DEF Serving
      <4>1. CASE q # i
        BY <1>1, <2>1, <3>4, <4>1 DEF DeliveryInv, Serving
      <4>2. CASE q = i
        <5>1. senders'[q][l] = b
          BY <3>4, <4>2
        <5> QED
          BY <1>1, <2>1, <3>2, <3>3, <3>5, <4>2, <5>1 DEF Serves
      <4> QED
        BY <4>1, <4>2
    <3> QED
      BY <1>2, <2>2, <3>6 DEF DeliveryInv
  <2> QED
    BY <2>3, <2>4
<1>8. CASE Pop(i, k)
  <2> DEFINE b == [senders[i][1] EXCEPT !.pc = "test"]
             d == MQ[i].data
  <2>1. /\ senders' = [senders EXCEPT ![i][1] = b] /\ b.pc = "test" /\ MQ' = [MQ EXCEPT ![i].data = Tail(d)]
        /\ senders[i][1].pc = "send" /\ senders[i][1].todo = {}
    BY <1>3, <1>8 DEF Pop, Sender, In
  <2>2. Len(d) # 0 /\ d \in Seq(Req) /\ audience[d[1]] \subseteq tried[d[1]]
    BY <1>3, <1>5, <2>1 DEF DeliveryInv, Serving, Serves, QueueRec
  <2>3. ToSet(d) = {d[1]} \cup ToSet(Tail(d))
    <3> HIDE DEF d
    <3> QED
      BY ONLY <2>2, ToSetTail
  <2>4. /\ MQ'[i].data = Tail(d) /\ \A q \in Queues : MQ'[q].subnodelist = MQ[q].subnodelist
        /\ \A q \in Queues \ {i} : MQ'[q].data = MQ[q].data
    BY <1>5, <2>1 DEF QueueRec
  <2> HIDE DEF b
  <2>5. DOMAIN senders'[i] \subseteq {1} /\ senders'[i][1] = b /\ \A q \in Queues \ {i} : senders'[q] = senders[q]
    BY ONLY <1>4, <1>5, <2>1, i \in Queues
  <2>6. Serving'
    BY <1>6, <2>1, <2>4, <2>5
  <2>7. \A q \in Queues : ToSet(MQ'[q].data) \subseteq ToSet(MQ[q].data)
    BY <2>3, <2>4
  <2>8. Within' /\ Known'
    BY <1>1, <2>4, <2>7 DEF DeliveryInv, Within, Known
  <2>9. AudienceServed'
    <3> SUFFICES ASSUME NEW q \in Queues, NEW x \in ToSet(queued[q]) \ ToSet(MQ'[q].data)
                 PROVE  audience[x] \subseteq tried[x]
      BY <1>1 DEF AudienceServed
    <3>1. CASE x \notin ToSet(MQ[q].data)
      BY <3>1 DEF DeliveryInv, AudienceServed
    <3>2. CASE x \in ToSet(MQ[q].data)
      <4>1. q = i /\ x = d[1]
        BY <2>3, <2>4, <3>2
      <4> QED
        BY <2>2, <4>1
    <3> QED
      BY <3>1, <3>2
  <2> QED
    BY <1>2, <2>6, <2>8, <2>9 DEF DeliveryInv
<1>9. CASE Finish(i, k)
  <2>1. RemoveAt(senders[i], k) = <<>>
    BY ONLY <1>3, <1>4 DEF RemoveAt
  <2>2. MQ' = [MQ EXCEPT ![i].flag = FALSE] /\ senders' = [senders EXCEPT ![i] = <<>>]
    BY <1>9, <2>1 DEF Finish
  <2>3. \A q \in Queues : MQ'[q].data = MQ[q].data /\ MQ'[q].subnodelist = MQ[q].subnodelist
    BY <1>5, <2>2 DEF QueueRec
  <2>4. DOMAIN senders'[i] = {} /\ \A q \in Queues \ {i} : senders'[q] = senders[q]
    BY <1>5, <2>2
  <2>5. Serving'
    BY <1>1, <2>3, <2>4 DEF DeliveryInv, Serving
  <2>6. Within' /\ Known' /\ AudienceServed'
    BY <1>1, <2>3 DEF DeliveryInv, Within, Known, AudienceServed
  <2> QED
    BY <1>2, <2>5, <2>6 DEF DeliveryInv
<1> QED
  BY <1>7, <1>8, <1>9 DEF sendThread

LEMMA DeliveryRealSend ==
  ASSUME TypeInv, DeliveryInv, NEW i \in Queues, NEW k \in 1..2, NEW j \in DOMAIN MQ[i].subnodelist,
         realsendthread(i, k, j)
  PROVE  DeliveryInv'
<1> DEFINE x == senders[i][k].x[1]
           slot == MQ[i].subnodelist[j]
           b == [senders[i][k] EXCEPT !.todo = @ \ {j}]
<1>1. /\ In(i, k, "send") /\ tried' = [tried EXCEPT ![x] = @ \cup {slot}]
      /\ UNCHANGED <<MQ, queued, audience>>
  BY DEF realsendthread
<1>2. /\ k = 1 /\ \E a : senders[i] = <<a>>
      /\ senders[i][k] \in Sender /\ x \in Req /\ slot \in Slots
  BY <1>1, Sending
<1>3. senders' = [senders EXCEPT ![i][1] = b]
  BY <1>2 DEF realsendthread
<1>4. b.x = senders[i][1].x /\ b.pc = "send" /\ b.todo = senders[i][1].todo \ {j} /\ senders[i][1].pc = "send"
  BY <1>1, <1>2 DEF Sender, In
<1> HIDE DEF b
<1>5. /\ DOMAIN senders'[i] = {1} /\ DOMAIN senders[i] = {1} /\ senders'[i][1] = b
      /\ \A q \in Queues \ {i} : senders'[q] = senders[q]
  <2>1. senders \in [Queues -> Seq(Sender)]
    BY DEF TypeInv, TypeOK
  <2> QED
    BY ONLY <1>2, <1>3, <2>1, i \in Queues
<1>6. DOMAIN tried = Req
  BY DEF TypeInv, TypeOK
<1>7. (\A y : tried[y] \subseteq tried'[y]) /\ tried'[x] = tried[x] \cup {slot}
  BY ONLY <1>1, <1>2, <1>6
<1>8. Kept' /\ Within' /\ Known'
  <2>1. Onward
    BY TypeRealSend DEF Typed
  <2> QED
    BY <1>1, <2>1, KeptStep DEF DeliveryInv, Within, Known
<1>9. AudienceServed'
  BY <1>1, <1>7 DEF DeliveryInv, AudienceServed
<1>10. Serving'
  <2> SUFFICES ASSUME NEW q \in Queues, NEW l \in DOMAIN senders'[q]
               PROVE  Serves(senders'[q][l], MQ'[q].data, MQ'[q].subnodelist, audience', tried')
    BY DEF Serving
  <2>1. CASE q # i
    <3>1. Serves(senders[q][l], MQ[q].data, MQ[q].subnodelist, audience, tried)
      BY <1>5, <2>1 DEF DeliveryInv, Serving
    <3> QED
      BY <1>1, <1>5, <1>7, <2>1, <3>1 DEF Serves
  <2>2. CASE q = i
    <3>1. l = 1 /\ senders'[q][l] = b /\ b.x[1] = x
      BY <1>2, <1>4, <1>5, <2>2
    <3>2. /\ Len(MQ[i].data) # 0 /\ x = MQ[i].data[1]
          /\ senders[i][1].todo \subseteq DOMAIN MQ[i].subnodelist
          /\ \A s \in audience[x] : s \in tried[x] \/ \E m \in senders[i][1].todo : MQ[i].subnodelist[m] = s
      BY <1>2, <1>4, <1>5 DEF DeliveryInv, Serving, Serves
    <3>3. \A s \in audience[x] : s \in tried'[x] \/ \E m \in b.todo : MQ[i].subnodelist[m] = s
      BY <1>4, <1>7, <3>2
    <3> QED
      BY <1>1, <1>4, <2>2, <3>1, <3>2, <3>3 DEF Serves
  <2> QED
    BY <2>1, <2>2
<1> QED
  BY <1>8, <1>9, <1>10 DEF DeliveryInv

LEMMA DeliveryStep == TypeInv /\ DeliveryInv /\ [Next]_vars => DeliveryInv'
<1> SUFFICES ASSUME TypeInv, DeliveryInv, [Next]_vars PROVE DeliveryInv'
  OBVIOUS
<1>1. CASE UNCHANGED vars
  BY <1>1 DEF vars, tables, threads, delivery, DeliveryInv, Kept, Within, Known, Serving, AudienceServed
<1>2. ASSUME NEW r \in Req, MyServerCallBack(r) PROVE DeliveryInv'
  <2>1. Push(r) => op(r) = "data"
    <3>1. Push(r) => ~Beyond(r)
      BY DEF Push, Beyond, InThread
    <3> QED
      BY <1>2, <3>1 DEF MyServerCallBack, AddNode, AddNodeCheck, AddNodeFill, AddNodeCount, AddSub, AddPub,
         Seek, EnterSub, EnterPub, CountQueue, Push, InThread
  <2> QED
    BY <1>2, <2>1, DeliveryAdding, DeliveryPush
<1>3. ASSUME NEW n \in Node, CreateClient(n) PROVE DeliveryInv'
  <2>1. Onward
    BY <1>3, TypeCreateClient DEF Typed
  <2> QED
    BY <1>3, <2>1, DeliveryFrame DEF CreateClient, delivery, Grows
<1> QED
  BY <1>1, <1>2, <1>3, DeliveryTransmit, DeliverySend, DeliveryRealSend DEF Next, Broker

LEMMA DeliveryInit == Init => DeliveryInv
  BY DEF Init, DeliveryInv, Kept, Within, Known, Serving, AudienceServed, NoQueue, ToSet

\* realsendthread: what is popped was sent to everyone who was subscribed when it was pushed.
THEOREM EveryoneServed == Spec => []AudienceServed
<1>1. DeliveryInv => AudienceServed
  BY DEF DeliveryInv
<1> QED
  BY <1>1, TypeInit, TypeStep, DeliveryInit, DeliveryStep, PTL DEF Spec

-----------------------------------------------------------------------------
(***************************************************************************)
(* The tables, as long as no two of AddNode, AddSub and AddPub overlap.    *)
(* The slot or queue that is filled and not yet counted belongs to the one *)
(* request that is at "count".                                             *)
(***************************************************************************)
RegCounting == \E r \in Req : op(r) = "reg" /\ at[r] = "count"
AddCounting == \E r \in Req : op(r) \in {"sub", "pub"} /\ at[r] = "count"
FilledSlots == {i \in Slots : i <= num_node \/ (i = num_node + 1 /\ RegCounting)}
FilledQueues == {q \in Queues : q <= num_mq \/ (q = num_mq + 1 /\ AddCounting)}

One == \A r, s \in Req : at[r] \in Adding /\ at[s] \in Adding => r = s

\* The slots: each node has one, and those that are not filled are as they were.
NamesAgree == \A n \in Node, i \in Slots : name2index[n] = i <=> nodes[i].name = n
FreeSlots == \A i \in Slots \ FilledSlots : nodes[i].name = Nobody
Filling == \A r \in Req : at[r] = "fill" => name2index[r[1]] = 0
SubsNamed == \A q \in Queues : \A i \in ToSet(MQ[q].subnodelist) : nodes[i].name \in Node

\* The queues: each topic has one, and those that are not filled have neither name nor list.
FreeQueues ==
  \A q \in Queues :
    IF q \in FilledQueues THEN MQ[q].name \in Topic
    ELSE MQ[q].name = Nobody /\ MQ[q].pubnode = 0 /\ Len(MQ[q].subnodelist) = 0
Unique == \A q, p \in Queues : MQ[q].name = MQ[p].name /\ MQ[q].name \in Topic => q = p
SubLists == \A t \in Topic, i \in Slots :
  t \in ToSet(nodes[i].sub_list) <=> \E q \in Queues : MQ[q].name = t /\ i \in ToSet(MQ[q].subnodelist)
PubLists == \A t \in Topic, i \in Slots :
  t \in ToSet(nodes[i].pub_list) <=> \E q \in Queues : MQ[q].name = t /\ i = MQ[q].pubnode
Once == \A q \in Queues : IsInjective(MQ[q].subnodelist)

\* What AddSub or AddPub has found is still so when it fills the queue.
Found ==
  \A r \in Req : at[r] = "add" =>
    /\ idx[r] = 0 => \A q \in Queues : MQ[q].name # topic(r)
    /\ idx[r] # 0 => /\ idx[r] <= num_mq /\ MQ[idx[r]].name = topic(r)
                     /\ op(r) = "pub" => MQ[idx[r]].pubnode = 0
    /\ op(r) = "sub" => topic(r) \notin ToSet(nodes[name2index[r[1]]].sub_list)

\* A publication that is granted, or is about to be, has a queue that says so.
Publishes(n, t, q) == MQ[q].name = t /\ MQ[q].pubnode # 0 /\ nodes[MQ[q].pubnode].name = n
Granted == \A g \in granted : \E q \in Used : Publishes(g[1], g[2], q)
Granting ==
  \A r \in Req : at[r] = "count" /\ op(r) = "pub" =>
    num_mq + 1 \in Queues /\ Publishes(r[1], topic(r), num_mq + 1)

SlotInv == One /\ NamesAgree /\ FreeSlots /\ Filling /\ SubsNamed
QueueInv == FreeQueues /\ Unique /\ SubLists /\ PubLists /\ Once /\ Found
TableInv == SlotInv /\ QueueInv /\ Granted /\ Granting

\* What a step that is none of AddNode, AddSub and AddPub leaves alone.
SameTables ==
  /\ UNCHANGED <<nodes, num_node, name2index, num_mq, granted>>
  /\ \A q \in Queues : /\ MQ'[q].name = MQ[q].name /\ MQ'[q].pubnode = MQ[q].pubnode
                       /\ MQ'[q].subnodelist = MQ[q].subnodelist
  /\ \A r \in Req : \/ at'[r] = at[r] /\ (at[r] = "add" => idx'[r] = idx[r])
                    \/ at'[r] \notin Adding /\ at[r] \notin Adding

LEMMA SameFilled ==
  ASSUME UNCHANGED <<num_node, num_mq>>, \A r \in Req : at'[r] = "count" <=> at[r] = "count"
  PROVE  FilledSlots' = FilledSlots /\ FilledQueues' = FilledQueues
BY DEF FilledSlots, FilledQueues, RegCounting, AddCounting

LEMMA GrantedInQueues == Used \subseteq Queues
  BY DEF Used

LEMMA PublishesType ==
  ASSUME TypeInv, NEW q \in Used, NEW n, NEW t, Publishes(n, t, q)
  PROVE  q \in Queues /\ MQ[q].pubnode \in Slots
<1>1. q \in Queues
  BY GrantedInQueues
<1>2. MQ[q].pubnode \in 0..MAX_SIZE_NODE /\ MQ[q].pubnode # 0
  BY <1>1 DEF Publishes, TypeInv, TypeOK
<1> QED
  BY <1>1, <1>2, Sizes DEF Slots

LEMMA TablesFrame == ASSUME TypeInv, TableInv, SameTables PROVE TableInv'
<1>1. \A r \in Req : at'[r] = "count" <=> at[r] = "count"
  BY DEF SameTables, Adding
<1>2. FilledSlots' = FilledSlots /\ FilledQueues' = FilledQueues
  BY <1>1, SameFilled DEF SameTables
<1>3. One' /\ Filling'
  BY DEF SameTables, TableInv, SlotInv, One, Filling, Adding
<1>4. NamesAgree' /\ FreeSlots' /\ SubsNamed'
  BY <1>2 DEF SameTables, TableInv, SlotInv, NamesAgree, FreeSlots, SubsNamed
<1>5. FreeQueues' /\ Unique' /\ Once'
  BY <1>2 DEF SameTables, TableInv, QueueInv, FreeQueues, Unique, Once
<1>6. SubLists' /\ PubLists'
  BY DEF SameTables, TableInv, QueueInv, SubLists, PubLists
<1>7. Found'
  <2>1. \A r \in Req : at'[r] = "add" => at[r] = "add" /\ idx'[r] = idx[r]
    BY DEF SameTables, Adding
  <2>2. \A r \in Req : at[r] = "add" /\ idx[r] # 0 /\ idx[r] <= num_mq => idx[r] \in Queues
    BY Sizes DEF TypeInv, TypeOK, Queues
  <2> QED
    BY <2>1, <2>2 DEF SameTables, TableInv, QueueInv, Found
<1>8. Granted'
  BY DEF SameTables, TableInv, Granted, Publishes, Used
<1>9. Granting'
  <2> SUFFICES ASSUME NEW r \in Req, at'[r] = "count", op(r) = "pub"
               PROVE  num_mq + 1 \in Queues /\ Publishes(r[1], topic(r), num_mq + 1)'
    BY DEF Granting, SameTables
  <2>1. at[r] = "count" /\ num_mq + 1 \in Queues /\ Publishes(r[1], topic(r), num_mq + 1)
    BY <1>1 DEF TableInv, Granting
  <2> QED
    BY <2>1 DEF SameTables, Publishes
<1> QED
  BY <1>3, <1>4, <1>5, <1>6, <1>7, <1>8, <1>9 DEF TableInv, SlotInv, QueueInv

\* A request that adds does so alone: nothing else is filled and not counted.
LEMMA Alone ==
  ASSUME One, NEW r \in Req, at[r] \in {"fill", "add"}
  PROVE  /\ \A s \in Req \ {r} : at[s] \notin Adding
         /\ FilledSlots = {i \in Slots : i <= num_node}
         /\ FilledQueues = {q \in Queues : q <= num_mq}
<1>1. \A s \in Req \ {r} : at[s] \notin Adding
  BY DEF One, Adding
<1>2. ~RegCounting /\ ~AddCounting
  BY <1>1 DEF RegCounting, AddCounting, Adding
<1> QED
  BY <1>1, <1>2 DEF FilledSlots, FilledQueues

\* AddNode, AddSub or AddPub begins, and no other is at work.
LEMMA TablesEnter ==
  ASSUME TypeInv, TableInv, NEW r \in Req, NEW pc \in {"fill", "add"},
         at[r] = "sent", at' = [at EXCEPT ![r] = pc], \A s \in Req \ {r} : at[s] \notin Adding,
         \A s \in Req \ {r} : idx'[s] = idx[s],
         UNCHANGED <<nodes, num_node, name2index, MQ, num_mq, granted>>,
         pc = "fill" => name2index[r[1]] = 0,
         pc = "add" => /\ op(r) \in {"sub", "pub"} /\ idx'[r] = QueueOf(topic(r))
                       /\ op(r) = "sub" => topic(r) \notin ToSet(nodes[name2index[r[1]]].sub_list)
                       /\ op(r) = "pub" => idx'[r] = 0 \/ MQ[idx'[r]].pubnode = 0
  PROVE  TableInv'
<1>1. at'[r] = pc /\ \A s \in Req \ {r} : at'[s] = at[s]
  BY DEF TypeInv, TypeOK
<1>2. \A s \in Req : at'[s] = "count" <=> at[s] = "count"
  BY <1>1
<1>3. FilledSlots' = FilledSlots /\ FilledQueues' = FilledQueues
  BY <1>2, SameFilled
<1>4. One' /\ Filling'
  BY <1>1 DEF TableInv, SlotInv, One, Filling, Adding
<1>5. NamesAgree' /\ FreeSlots' /\ SubsNamed'
  BY <1>3 DEF TableInv, SlotInv, NamesAgree, FreeSlots, SubsNamed
<1>6. FreeQueues' /\ Unique' /\ Once'
  BY <1>3 DEF TableInv, QueueInv, FreeQueues, Unique, Once
<1>7. SubLists' /\ PubLists'
  BY DEF TableInv, QueueInv, SubLists, PubLists
<1>8. Found'
  <2> SUFFICES ASSUME NEW s \in Req, at'[s] = "add"
               PROVE  /\ idx'[s] = 0 => \A q \in Queues : MQ[q].name # topic(s)
                      /\ idx'[s] # 0 => /\ idx'[s] <= num_mq /\ MQ[idx'[s]].name = topic(s)
                                        /\ op(s) = "pub" => MQ[idx'[s]].pubnode = 0
                      /\ op(s) = "sub" => topic(s) \notin ToSet(nodes[name2index[s[1]]].sub_list)
    BY DEF Found
  <2>1. s = r /\ pc = "add"
    BY <1>1 DEF Adding
  <2>2. topic(r) \in Topic /\ Nobody \notin Topic
    BY <2>1, ReqType, MasterAssumption
  <2>3. /\ idx'[r] <= num_mq /\ (idx'[r] # 0 => MQ[idx'[r]].name = topic(r))
        /\ idx'[r] = 0 => \A q \in Used : MQ[q].name # topic(r)
    BY <2>1, QueueOfType DEF TypeInv, TypeOK
  <2>4. ASSUME idx'[r] = 0, NEW q \in Queues PROVE MQ[q].name # topic(r)
    <3>1. ~AddCounting
      BY <1>1, <1>2, <2>1 DEF AddCounting, Adding
    <3>2. CASE q <= num_mq
      BY <2>3, <2>4, <3>2 DEF Used
    <3>3. CASE ~(q <= num_mq)
      <4>1. q \notin FilledQueues
        BY <3>1, <3>3 DEF FilledQueues
      <4> QED
        BY <2>2, <4>1 DEF TableInv, QueueInv, FreeQueues
    <3> QED
      BY <3>2, <3>3
  <2> QED
    BY <2>1, <2>3, <2>4
<1>9. Granted' /\ Granting'
  BY <1>1 DEF TableInv, Granted, Granting, Publishes, Used
<1> QED
  BY <1>4, <1>5, <1>6, <1>7, <1>8, <1>9 DEF TableInv, SlotInv, QueueInv

LEMMA TablesFill ==
  ASSUME TypeInv, TableInv, NEW r \in Req, op(r) = "reg", AddNodeFill(r)
  PROVE  TableInv'
<1> DEFINE new == num_node + 1
<1>1. at[r] = "fill" /\ r[1] \in Node /\ name2index[r[1]] = 0
  BY ReqType DEF AddNodeFill, InThread, TableInv, SlotInv, Filling
<1>2. /\ \A s \in Req \ {r} : at[s] \notin Adding
      /\ FilledSlots = {i \in Slots : i <= num_node} /\ FilledQueues = {q \in Queues : q <= num_mq}
  BY <1>1, Alone DEF TableInv, SlotInv
<1>3. new \in Slots /\ num_node \in Nat
  BY Sizes DEF Slots, AddNodeFill, TypeInv, TypeOK
<1>4. nodes[new].name = Nobody /\ Nobody \notin Node
  BY <1>2, <1>3, MasterAssumption DEF TableInv, SlotInv, FreeSlots
<1>5. at'[r] = "count" /\ \A s \in Req \ {r} : at'[s] = at[s]
  BY DEF AddNodeFill, Goto, TypeInv, TypeOK
<1>6. /\ nodes' = [nodes EXCEPT ![new].name = r[1]] /\ name2index' = [name2index EXCEPT ![r[1]] = new]
      /\ UNCHANGED <<num_node, granted, MQ, num_mq, idx>>
  BY DEF AddNodeFill
<1>7. /\ nodes'[new].name = r[1]
      /\ \A i \in Slots \ {new} : nodes'[i] = nodes[i]
      /\ \A i \in Slots : nodes'[i].sub_list = nodes[i].sub_list /\ nodes'[i].pub_list = nodes[i].pub_list
  BY <1>3, <1>6, Tables DEF NodeRec, TypeInv
<1>8. name2index'[r[1]] = new /\ \A n \in Node \ {r[1]} : name2index'[n] = name2index[n]
  BY <1>1, <1>6 DEF TypeInv, TypeOK
<1> HIDE DEF new
<1>9. FilledSlots' = FilledSlots \cup {new} /\ FilledQueues' = FilledQueues
  <2>1. RegCounting' /\ ~AddCounting'
    BY <1>2, <1>5 DEF RegCounting, AddCounting, Adding
  <2> QED
    BY <1>2, <1>3, <1>6, <2>1 DEF FilledSlots, FilledQueues, new
<1>10. One' /\ Filling'
  BY <1>2, <1>5, <1>6 DEF One, Filling, Adding
<1>11. NamesAgree'
  <2> SUFFICES ASSUME NEW n \in Node, NEW i \in Slots PROVE name2index'[n] = i <=> nodes'[i].name = n
    BY DEF NamesAgree
  <2>1. name2index[n] = i <=> nodes[i].name = n
    BY DEF TableInv, SlotInv, NamesAgree
  <2>2. i # 0 /\ nodes[new].name # n
    BY <1>4 DEF Slots
  <2> QED
    BY <1>1, <1>7, <1>8, <2>1, <2>2
<1>12. FreeSlots'
  BY <1>7, <1>9 DEF TableInv, SlotInv, FreeSlots
<1>13. SubsNamed'
  BY <1>1, <1>6, <1>7 DEF TableInv, SlotInv, SubsNamed, ToSet, TypeInv, TypeOK
<1>14. FreeQueues' /\ Unique' /\ Once'
  BY <1>6, <1>9 DEF TableInv, QueueInv, FreeQueues, Unique, Once
<1>15. SubLists' /\ PubLists'
  BY <1>6, <1>7 DEF TableInv, QueueInv, SubLists, PubLists
<1>16. Found'
  BY <1>2, <1>5 DEF Found, Adding
<1>17. Granted'
  <2> SUFFICES ASSUME NEW g \in granted PROVE \E q \in Used : Publishes(g[1], g[2], q)'
    BY <1>6 DEF Granted, Used
  <2>1. PICK q \in Used : Publishes(g[1], g[2], q)
    BY DEF TableInv, Granted
  <2>2. g[1] \in Node /\ MQ[q].pubnode \in Slots
    BY <2>1, PublishesType DEF TypeInv, TypeOK
  <2>3. MQ[q].pubnode \in Slots \ {new}
    BY <1>4, <2>1, <2>2 DEF Publishes
  <2> QED
    BY <1>6, <1>7, <2>1, <2>3 DEF Publishes
<1>18. Granting'
  BY <1>2, <1>5 DEF Granting, Adding
<1> QED
  BY <1>10, <1>11, <1>12, <1>13, <1>14, <1>15, <1>16, <1>17, <1>18 DEF TableInv, SlotInv, QueueInv

LEMMA TablesCount ==
  ASSUME TypeInv, TableInv, NEW r \in Req, op(r) = "reg", AddNodeCount(r)
  PROVE  TableInv'
<1>1. at[r] = "count" /\ \A s \in Req \ {r} : at[s] \notin Adding
  BY DEF AddNodeCount, InThread, TableInv, SlotInv, One, Adding
<1>2. at'[r] = "done" /\ \A s \in Req \ {r} : at'[s] = at[s]
  BY DEF AddNodeCount, Goto, TypeInv, TypeOK
<1>3. num_node' = num_node + 1 /\ UNCHANGED <<nodes, name2index, granted, MQ, num_mq, idx>>
  BY DEF AddNodeCount
<1>4. FilledSlots' = FilledSlots /\ FilledQueues' = FilledQueues
  <2>1. RegCounting /\ ~RegCounting' /\ ~AddCounting /\ ~AddCounting'
    BY <1>1, <1>2 DEF RegCounting, AddCounting, Adding
  <2>2. num_node \in Nat
    BY Sizes DEF TypeInv, TypeOK
  <2> QED
    BY <1>3, <2>1, <2>2 DEF FilledSlots, FilledQueues, Slots
<1>5. One' /\ Filling' /\ Found' /\ Granting'
  BY <1>1, <1>2 DEF One, Filling, Found, Granting, Adding
<1>6. NamesAgree' /\ FreeSlots' /\ SubsNamed'
  BY <1>3, <1>4 DEF TableInv, SlotInv, NamesAgree, FreeSlots, SubsNamed
<1>7. FreeQueues' /\ Unique' /\ Once'
  BY <1>3, <1>4 DEF TableInv, QueueInv, FreeQueues, Unique, Once
<1>8. SubLists' /\ PubLists'
  BY <1>3 DEF TableInv, QueueInv, SubLists, PubLists
<1>9. Granted'
  BY <1>3 DEF TableInv, Granted, Publishes, Used
<1> QED
  BY <1>5, <1>6, <1>7, <1>8, <1>9 DEF TableInv, SlotInv, QueueInv

\* The queue that AddSub or AddPub of r fills: that of its topic, or the first free one.
LEMMA Target ==
  ASSUME TypeInv, TableInv, NEW r \in Req, op(r) \in {"sub", "pub"}, InThread(r, "add"), Queue(r) \in Queues
  PROVE  /\ Slot(r) \in Slots /\ Queue(r) \in Queues /\ topic(r) \in Topic
         /\ nodes[Slot(r)].name = r[1] /\ r[1] \in Node
         /\ \A s \in Req \ {r} : at[s] \notin Adding
         /\ FilledQueues = {q \in Queues : q <= num_mq}
         /\ \A q \in Queues \ {Queue(r)} : MQ[q].name # topic(r)
         /\ idx[r] = 0 => /\ Queue(r) = num_mq + 1 /\ MQ[Queue(r)].name = Nobody
                          /\ MQ[Queue(r)].pubnode = 0 /\ MQ[Queue(r)].subnodelist = <<>>
         /\ idx[r] # 0 => Queue(r) = idx[r] /\ Queue(r) <= num_mq /\ MQ[Queue(r)].name = topic(r)
<1>1. Slot(r) \in Slots /\ Queue(r) \in Queues /\ topic(r) \in Topic /\ r[1] \in Node /\ at[r] = "add"
  BY TypeEntered DEF InThread
<1>2. nodes[Slot(r)].name = r[1]
  BY <1>1 DEF TableInv, SlotInv, NamesAgree, Slot
<1>3. /\ \A s \in Req \ {r} : at[s] \notin Adding
      /\ FilledQueues = {q \in Queues : q <= num_mq}
  BY <1>1, Alone DEF TableInv, SlotInv
<1>4. CASE idx[r] = 0
  <2>1. Queue(r) = num_mq + 1 /\ num_mq \in Nat
    BY <1>4, Sizes DEF Queue, TypeInv, TypeOK
  <2>2. Queue(r) \notin FilledQueues
    BY <1>3, <2>1
  <2>3. MQ[Queue(r)].name = Nobody /\ MQ[Queue(r)].pubnode = 0 /\ Len(MQ[Queue(r)].subnodelist) = 0
    BY <1>1, <2>2 DEF TableInv, QueueInv, FreeQueues
  <2>4. MQ[Queue(r)].subnodelist \in Seq(Slots)
    BY <1>1 DEF TypeInv, TypeOK
  <2>5. MQ[Queue(r)].subnodelist = <<>>
    BY ONLY <2>3, <2>4
  <2>6. \A q \in Queues : MQ[q].name # topic(r)
    BY <1>1, <1>4 DEF TableInv, QueueInv, Found
  <2> QED
    BY <1>1, <1>2, <1>3, <1>4, <2>1, <2>3, <2>5, <2>6
<1>5. CASE idx[r] # 0
  <2>1. Queue(r) = idx[r] /\ Queue(r) <= num_mq /\ MQ[Queue(r)].name = topic(r)
    BY <1>1, <1>5 DEF Queue, TableInv, QueueInv, Found
  <2>2. \A q \in Queues \ {Queue(r)} : MQ[q].name # topic(r)
    BY <1>1, <2>1 DEF TableInv, QueueInv, Unique
  <2> QED
    BY <1>1, <1>2, <1>3, <1>5, <2>1, <2>2
<1> QED
  BY <1>4, <1>5

\* The queue and the request once it is filled, by either.
LEMMA TargetFilled ==
  ASSUME TypeInv, TableInv, NEW r \in Req, op(r) \in {"sub", "pub"}, InThread(r, "add"), Queue(r) \in Queues,
         Added(r, idx[r] = 0), UNCHANGED num_mq
  PROVE  /\ at'[r] = (IF idx[r] = 0 THEN "count" ELSE "done")
         /\ \A s \in Req \ {r} : at'[s] = at[s] /\ at[s] \notin Adding
         /\ FilledQueues' = FilledQueues \cup {Queue(r)}
         /\ FilledSlots' = FilledSlots
         /\ One' /\ Filling' /\ Found'
<1>1. /\ Queue(r) \in Queues /\ \A s \in Req \ {r} : at[s] \notin Adding
      /\ FilledQueues = {q \in Queues : q <= num_mq}
      /\ idx[r] = 0 => Queue(r) = num_mq + 1
      /\ idx[r] # 0 => Queue(r) <= num_mq
  BY Target
<1>2. /\ at'[r] = (IF idx[r] = 0 THEN "count" ELSE "done") /\ UNCHANGED <<num_node, name2index>>
      /\ \A s \in Req \ {r} : at'[s] = at[s]
  BY DEF Added, Goto, TypeInv, TypeOK
<1>3. AddCounting' <=> idx[r] = 0
  BY <1>1, <1>2 DEF AddCounting, Adding
<1>4. RegCounting' <=> RegCounting
  BY <1>1, <1>2 DEF RegCounting, Adding, InThread
<1>5. FilledQueues' = FilledQueues \cup {Queue(r)}
  BY <1>1, <1>3 DEF FilledQueues
<1>6. FilledSlots' = FilledSlots
  BY <1>2, <1>4 DEF FilledSlots
<1>7. One' /\ Filling' /\ Found'
  BY <1>1, <1>2 DEF One, Filling, Found, Adding
<1> QED
  BY <1>1, <1>2, <1>5, <1>6, <1>7

LEMMA TablesEnterSub ==
  ASSUME TypeInv, TableInv, NEW r \in Req, op(r) = "sub", EnterSub(r)
  PROVE  TableInv'
<1> DEFINE k == Queue(r)
           slot == Slot(r)
           t == topic(r)
<1>1. InThread(r, "add") /\ Added(r, idx[r] = 0) /\ UNCHANGED num_mq /\ Queue(r) \in Queues
  BY DEF EnterSub
<1>2. /\ slot \in Slots /\ k \in Queues /\ t \in Topic /\ nodes[slot].name = r[1] /\ r[1] \in Node
      /\ \A q \in Queues \ {k} : MQ[q].name # t
      /\ idx[r] = 0 => /\ k = num_mq + 1 /\ MQ[k].name = Nobody
                       /\ MQ[k].pubnode = 0 /\ MQ[k].subnodelist = <<>>
      /\ idx[r] # 0 => k <= num_mq /\ MQ[k].name = t
  BY <1>1, Target
<1>3. /\ \A s \in Req \ {r} : at'[s] = at[s] /\ at[s] \notin Adding
      /\ FilledQueues' = FilledQueues \cup {k}
      /\ FilledSlots' = FilledSlots
      /\ One' /\ Filling' /\ Found'
  BY <1>1, TargetFilled
<1>4. /\ MQ' = [MQ EXCEPT ![k].name = t, ![k].subnodelist = Append(@, slot)]
      /\ nodes' = [nodes EXCEPT ![slot].sub_list = Append(@, t)]
      /\ UNCHANGED <<num_node, name2index, granted>>
  BY DEF EnterSub, Added
<1>5. /\ \A q \in Queues : MQ'[q].pubnode = MQ[q].pubnode
      /\ \A q \in Queues \ {k} : MQ'[q] = MQ[q]
      /\ MQ'[k].name = t /\ MQ'[k].subnodelist = Append(MQ[k].subnodelist, slot)
  BY <1>2, <1>4, Tables DEF QueueRec, TypeInv
<1>6. /\ \A i \in Slots : nodes'[i].name = nodes[i].name /\ nodes'[i].pub_list = nodes[i].pub_list
      /\ \A i \in Slots \ {slot} : nodes'[i] = nodes[i]
      /\ nodes'[slot].sub_list = Append(nodes[slot].sub_list, t)
  BY <1>2, <1>4, Tables DEF NodeRec, TypeInv
<1>7. MQ[k].subnodelist \in Seq(Slots) /\ nodes[slot].sub_list \in Seq(Topic) /\ Nobody \notin Topic
  BY <1>2, MasterAssumption DEF TypeInv, TypeOK
<1>8. t \notin ToSet(nodes[slot].sub_list)
  BY <1>1 DEF TableInv, QueueInv, Found, InThread, Slot
<1> HIDE DEF k, slot, t
<1>9. ToSet(MQ'[k].subnodelist) = ToSet(MQ[k].subnodelist) \cup {slot}
  <2>1. ToSet(Append(MQ[k].subnodelist, slot)) = ToSet(MQ[k].subnodelist) \cup {slot}
    BY ONLY <1>2, <1>7, ToSetAppend
  <2> QED
    BY <1>5, <2>1
<1>10. ToSet(nodes'[slot].sub_list) = ToSet(nodes[slot].sub_list) \cup {t}
  <2>1. ToSet(Append(nodes[slot].sub_list, t)) = ToSet(nodes[slot].sub_list) \cup {t}
    BY ONLY <1>2, <1>7, ToSetAppend
  <2> QED
    BY <1>6, <2>1
<1>11. idx[r] = 0 => ToSet(MQ[k].subnodelist) = {}
  BY <1>2 DEF ToSet
<1>12. slot \notin ToSet(MQ[k].subnodelist)
  BY <1>2, <1>8, <1>11 DEF TableInv, QueueInv, SubLists
<1>13. NamesAgree' /\ FreeSlots'
  BY <1>3, <1>4, <1>6 DEF TableInv, SlotInv, NamesAgree, FreeSlots
<1>14. SubsNamed'
  <2> SUFFICES ASSUME NEW q \in Queues, NEW i \in ToSet(MQ'[q].subnodelist) PROVE nodes'[i].name \in Node
    BY DEF SubsNamed
  <2>1. i \in ToSet(MQ[q].subnodelist) \/ i = slot
    BY <1>5, <1>9
  <2>2. ToSet(MQ[q].subnodelist) \subseteq Slots
    BY DEF TypeInv, TypeOK, ToSet
  <2> QED
    BY <1>2, <1>6, <2>1, <2>2 DEF TableInv, SlotInv, SubsNamed
<1>15. FreeQueues'
  BY <1>2, <1>3, <1>5 DEF TableInv, QueueInv, FreeQueues
<1>16. Unique'
  BY <1>2, <1>5 DEF TableInv, QueueInv, Unique
<1>17. Once'
  <2>1. IsInjective(Append(MQ[k].subnodelist, slot))
    <3>1. IsInjective(MQ[k].subnodelist)
      BY <1>2 DEF TableInv, QueueInv, Once
    <3> QED
      BY ONLY <1>2, <1>7, <1>12, <3>1, InjectiveAppend
  <2> QED
    BY <1>5, <2>1 DEF TableInv, QueueInv, Once
<1>18. SubLists'
  <2> SUFFICES ASSUME NEW u \in Topic, NEW i \in Slots
               PROVE  u \in ToSet(nodes'[i].sub_list) <=>
                        \E q \in Queues : MQ'[q].name = u /\ i \in ToSet(MQ'[q].subnodelist)
    BY DEF SubLists
  <2>1. u \in ToSet(nodes[i].sub_list) <=> \E q \in Queues : MQ[q].name = u /\ i \in ToSet(MQ[q].subnodelist)
    BY DEF TableInv, QueueInv, SubLists
  <2>2. u \in ToSet(nodes'[i].sub_list) <=> (u \in ToSet(nodes[i].sub_list) \/ (u = t /\ i = slot))
    BY <1>6, <1>10
  <2>3. CASE u # t
    <3>1. \A q \in Queues : MQ[q].name = u /\ i \in ToSet(MQ[q].subnodelist)
                            <=> MQ'[q].name = u /\ i \in ToSet(MQ'[q].subnodelist)
      BY <1>2, <1>5, <1>7, <2>3
    <3> QED
      BY <2>1, <2>2, <2>3, <3>1
  <2>4. CASE u = t
    <3>1. (\E q \in Queues : MQ[q].name = t /\ i \in ToSet(MQ[q].subnodelist)) <=> i \in ToSet(MQ[k].subnodelist)
      BY <1>2, <1>11
    <3>2. (\E q \in Queues : MQ'[q].name = t /\ i \in ToSet(MQ'[q].subnodelist)) <=> i \in ToSet(MQ'[k].subnodelist)
      BY <1>2, <1>5
    <3> QED
      BY <1>9, <2>1, <2>2, <2>4, <3>1, <3>2
  <2> QED
    BY <2>3, <2>4
<1>19. PubLists'
  <2> SUFFICES ASSUME NEW u \in Topic, NEW i \in Slots
               PROVE  (\E q \in Queues : MQ'[q].name = u /\ i = MQ'[q].pubnode)
                        <=> \E q \in Queues : MQ[q].name = u /\ i = MQ[q].pubnode
    BY <1>6 DEF TableInv, QueueInv, PubLists
  <2>1. i # 0
    BY DEF Slots
  <2>2. ASSUME NEW q \in Queues
        PROVE  MQ'[q].name = u /\ i = MQ'[q].pubnode <=> MQ[q].name = u /\ i = MQ[q].pubnode
    BY <1>2, <1>5, <1>7, <2>1
  <2> QED
    BY <2>2
<1>20. Granted'
  <2> SUFFICES ASSUME NEW g \in granted PROVE \E q \in Used : Publishes(g[1], g[2], q)'
    BY <1>1, <1>4 DEF Granted, Used
  <2>1. PICK q \in Used : Publishes(g[1], g[2], q)
    BY DEF TableInv, Granted
  <2>2. q \in Queues /\ MQ[q].pubnode \in Slots
    BY <2>1, PublishesType
  <2>3. MQ'[q].name = MQ[q].name
    <3>1. num_mq \in Nat
      BY DEF TypeInv, TypeOK
    <3>2. q = k => MQ[q].name = t
      BY <1>2, <2>1, <3>1 DEF Used
    <3> QED
      BY <1>5, <2>2, <3>2
  <2> QED
    BY <1>5, <1>6, <2>1, <2>2, <2>3 DEF Publishes
<1>21. Granting'
  BY <1>3 DEF Granting, Adding
<1> QED
  BY <1>3, <1>13, <1>14, <1>15, <1>16, <1>17, <1>18, <1>19, <1>20, <1>21 DEF TableInv, SlotInv, QueueInv

LEMMA TablesEnterPub ==
  ASSUME TypeInv, TableInv, NEW r \in Req, op(r) = "pub", EnterPub(r)
  PROVE  TableInv'
<1> DEFINE k == Queue(r)
           slot == Slot(r)
           t == topic(r)
<1>1. InThread(r, "add") /\ Added(r, idx[r] = 0) /\ UNCHANGED num_mq /\ Queue(r) \in Queues
  BY DEF EnterPub
<1>2. /\ slot \in Slots /\ k \in Queues /\ t \in Topic /\ nodes[slot].name = r[1] /\ r[1] \in Node
      /\ \A q \in Queues \ {k} : MQ[q].name # t
      /\ idx[r] = 0 => /\ k = num_mq + 1 /\ MQ[k].name = Nobody
                       /\ MQ[k].pubnode = 0 /\ MQ[k].subnodelist = <<>>
      /\ idx[r] # 0 => k = idx[r] /\ k <= num_mq /\ MQ[k].name = t
  BY <1>1, Target
<1>3. /\ at'[r] = (IF idx[r] = 0 THEN "count" ELSE "done")
      /\ \A s \in Req \ {r} : at'[s] = at[s] /\ at[s] \notin Adding
      /\ FilledQueues' = FilledQueues \cup {k}
      /\ FilledSlots' = FilledSlots
      /\ One' /\ Filling' /\ Found'
  BY <1>1, TargetFilled
<1>4. /\ MQ' = [MQ EXCEPT ![k].name = t, ![k].pubnode = slot]
      /\ nodes' = [nodes EXCEPT ![slot].pub_list = Append(@, t)]
      /\ UNCHANGED <<num_node, name2index>>
      /\ granted' \subseteq granted \cup {<<r[1], t>>}
      /\ idx[r] = 0 => granted' = granted
  BY DEF EnterPub, Added
<1>5. /\ \A q \in Queues : MQ'[q].subnodelist = MQ[q].subnodelist
      /\ \A q \in Queues \ {k} : MQ'[q] = MQ[q]
      /\ MQ'[k].name = t /\ MQ'[k].pubnode = slot
  BY <1>2, <1>4, Tables DEF QueueRec, TypeInv
<1>6. /\ \A i \in Slots : nodes'[i].name = nodes[i].name /\ nodes'[i].sub_list = nodes[i].sub_list
      /\ \A i \in Slots \ {slot} : nodes'[i] = nodes[i]
      /\ nodes'[slot].pub_list = Append(nodes[slot].pub_list, t)
  BY <1>2, <1>4, Tables DEF NodeRec, TypeInv
<1>7. MQ[k].subnodelist \in Seq(Slots) /\ nodes[slot].pub_list \in Seq(Topic) /\ Nobody \notin Topic
  BY <1>2, MasterAssumption DEF TypeInv, TypeOK
<1>8. MQ[k].pubnode = 0 /\ 0 \notin Slots
  BY <1>1, <1>2 DEF TableInv, QueueInv, Found, InThread, Slots
<1> HIDE DEF k, slot, t
<1>10. ToSet(nodes'[slot].pub_list) = ToSet(nodes[slot].pub_list) \cup {t}
  <2>1. ToSet(Append(nodes[slot].pub_list, t)) = ToSet(nodes[slot].pub_list) \cup {t}
    BY ONLY <1>2, <1>7, ToSetAppend
  <2> QED
    BY <1>6, <2>1
<1>11. idx[r] = 0 => ToSet(MQ[k].subnodelist) = {}
  BY <1>2 DEF ToSet
<1>13. NamesAgree' /\ FreeSlots'
  BY <1>3, <1>4, <1>6 DEF TableInv, SlotInv, NamesAgree, FreeSlots
<1>14. SubsNamed'
  <2>1. \A q \in Queues : ToSet(MQ[q].subnodelist) \subseteq Slots
    BY DEF TypeInv, TypeOK, ToSet
  <2> QED
    BY <1>5, <1>6, <2>1 DEF TableInv, SlotInv, SubsNamed
<1>15. FreeQueues'
  BY <1>2, <1>3, <1>5 DEF TableInv, QueueInv, FreeQueues
<1>16. Unique'
  BY <1>2, <1>5 DEF TableInv, QueueInv, Unique
<1>17. Once'
  BY <1>5 DEF TableInv, QueueInv, Once
<1>18. SubLists'
  <2> SUFFICES ASSUME NEW u \in Topic, NEW i \in Slots
               PROVE  (\E q \in Queues : MQ'[q].name = u /\ i \in ToSet(MQ'[q].subnodelist))
                        <=> \E q \in Queues : MQ[q].name = u /\ i \in ToSet(MQ[q].subnodelist)
    BY <1>6 DEF TableInv, QueueInv, SubLists
  <2>2. ASSUME NEW q \in Queues
        PROVE  MQ'[q].name = u /\ i \in ToSet(MQ'[q].subnodelist) <=> MQ[q].name = u /\ i \in ToSet(MQ[q].subnodelist)
    BY <1>2, <1>5, <1>7, <1>11
  <2> QED
    BY <2>2
<1>19. PubLists'
  <2> SUFFICES ASSUME NEW u \in Topic, NEW i \in Slots
               PROVE  u \in ToSet(nodes'[i].pub_list) <=> \E q \in Queues : MQ'[q].name = u /\ i = MQ'[q].pubnode
    BY DEF PubLists
  <2>1. u \in ToSet(nodes[i].pub_list) <=> \E q \in Queues : MQ[q].name = u /\ i = MQ[q].pubnode
    BY DEF TableInv, QueueInv, PubLists
  <2>2. u \in ToSet(nodes'[i].pub_list) <=> (u \in ToSet(nodes[i].pub_list) \/ (u = t /\ i = slot))
    BY <1>6, <1>10
  <2>3. CASE u # t
    <3>1. \A q \in Queues : MQ[q].name = u /\ i = MQ[q].pubnode <=> MQ'[q].name = u /\ i = MQ'[q].pubnode
      BY <1>2, <1>5, <1>7, <2>3
    <3> QED
      BY <2>1, <2>2, <2>3, <3>1
  <2>4. CASE u = t
    <3>1. ~ \E q \in Queues : MQ[q].name = t /\ i = MQ[q].pubnode
      BY <1>2, <1>8
    <3>2. (\E q \in Queues : MQ'[q].name = t /\ i = MQ'[q].pubnode) <=> i = slot
      BY <1>2, <1>5
    <3> QED
      BY <2>1, <2>2, <2>4, <3>1, <3>2
  <2> QED
    BY <2>3, <2>4
<1>20. Granted'
  <2> SUFFICES ASSUME NEW g \in granted' PROVE \E q \in Used : Publishes(g[1], g[2], q)'
    BY <1>1 DEF Granted, Used
  <2>1. CASE g \in granted
    <3>1. PICK q \in Used : Publishes(g[1], g[2], q)
      BY <2>1 DEF TableInv, Granted
    <3>2. q \in Queues /\ MQ[q].pubnode \in Slots /\ q # k
      BY <1>8, <3>1, PublishesType
    <3> QED
      BY <1>5, <1>6, <3>1, <3>2 DEF Publishes
  <2>2. CASE g \notin granted
    <3>1. g[1] = r[1] /\ g[2] = t /\ idx[r] # 0
      BY <1>4, <2>2
    <3>2. k \in Used
      BY <1>2, <3>1 DEF Used
    <3>3. MQ'[k].name = g[2] /\ MQ'[k].pubnode # 0 /\ nodes'[MQ'[k].pubnode].name = g[1]
      BY <1>2, <1>5, <1>6, <1>8, <3>1
    <3> QED
      BY <3>2, <3>3 DEF Publishes
  <2> QED
    BY <2>1, <2>2
<1>21. Granting'
  <2> SUFFICES ASSUME NEW s \in Req, at'[s] = "count", op(s) = "pub"
               PROVE  num_mq + 1 \in Queues /\ Publishes(s[1], topic(s), num_mq + 1)'
    BY <1>1 DEF Granting
  <2>1. s = r /\ idx[r] = 0
    BY <1>3 DEF Adding
  <2> QED
    BY <1>1, <1>2, <1>5, <1>6, <1>8, <2>1 DEF Publishes, t
<1> QED
  BY <1>3, <1>13, <1>14, <1>15, <1>16, <1>17, <1>18, <1>19, <1>20, <1>21 DEF TableInv, SlotInv, QueueInv

LEMMA TablesCountQueue ==
  ASSUME TypeInv, TableInv, NEW r \in Req, op(r) \in {"sub", "pub"}, CountQueue(r)
  PROVE  TableInv'
<1>1. at[r] = "count" /\ \A s \in Req \ {r} : at[s] \notin Adding
  BY DEF CountQueue, InThread, TableInv, SlotInv, One, Adding
<1>2. at'[r] = "done" /\ \A s \in Req \ {r} : at'[s] = at[s]
  BY DEF CountQueue, Added, Goto, TypeInv, TypeOK
<1>3. /\ num_mq' = num_mq + 1 /\ UNCHANGED <<nodes, num_node, name2index, MQ, idx>>
      /\ granted' = IF op(r) # "pub" THEN granted ELSE granted \cup {<<r[1], topic(r)>>}
  BY DEF CountQueue, Added
<1>4. num_mq \in Nat
  BY Sizes DEF TypeInv, TypeOK
<1>5. FilledSlots' = FilledSlots /\ FilledQueues' = FilledQueues
  <2>1. ~RegCounting /\ ~RegCounting' /\ AddCounting /\ ~AddCounting'
    BY <1>1, <1>2 DEF RegCounting, AddCounting, Adding
  <2> QED
    BY <1>3, <1>4, <2>1 DEF FilledSlots, FilledQueues, Queues
<1>6. One' /\ Filling' /\ Found' /\ Granting'
  BY <1>1, <1>2 DEF One, Filling, Found, Granting, Adding
<1>7. NamesAgree' /\ FreeSlots' /\ SubsNamed'
  BY <1>3, <1>5 DEF TableInv, SlotInv, NamesAgree, FreeSlots, SubsNamed
<1>8. FreeQueues' /\ Unique' /\ Once'
  BY <1>3, <1>5 DEF TableInv, QueueInv, FreeQueues, Unique, Once
<1>9. SubLists' /\ PubLists'
  BY <1>3 DEF TableInv, QueueInv, SubLists, PubLists
<1>10. Granted'
  <2> DEFINE Counted1 == {q \in Queues : q <= num_mq + 1}
  <2> SUFFICES ASSUME NEW g \in granted' PROVE \E q \in Counted1 : Publishes(g[1], g[2], q)'
    BY <1>3 DEF Granted, Used
  <2>0. Used \subseteq Counted1
    BY <1>4 DEF Used, Queues
  <2>1. CASE g \in granted
    BY <1>3, <2>0, <2>1 DEF TableInv, Granted, Publishes
  <2>2. CASE g \notin granted
    <3>1. op(r) = "pub" /\ g[1] = r[1] /\ g[2] = topic(r)
      BY <1>3, <2>2
    <3>2. num_mq + 1 \in Counted1 /\ Publishes(g[1], g[2], num_mq + 1)
      BY <1>1, <1>4, <3>1 DEF TableInv, Granting
    <3> QED
      BY <1>3, <1>4, <3>2 DEF Publishes
  <2> QED
    BY <2>1, <2>2
<1> QED
  BY <1>6, <1>7, <1>8, <1>9, <1>10 DEF TableInv, SlotInv, QueueInv

\* Unless two of AddNode, AddSub, AddPub overlap, a request keeps the tables as they should be.
LEMMA TablesServer ==
  ASSUME TypeInv, TableInv, NEW r \in Req, MyServerCallBack(r), ~raced'
  PROVE  TableInv'
<1>1. ASSUME NEW pc, Enter(r, pc) PROVE /\ \A s \in Req \ {r} : at[s] \notin Adding
                                       /\ UNCHANGED <<nodes, num_node, name2index, granted>>
                                       /\ at' = [at EXCEPT ![r] = pc]
  BY <1>1 DEF Enter, Goto
<1>2. ASSUME at[r] = "sent", Goto(r, "done"), UNCHANGED <<tables, MQ, num_mq, idx>> PROVE TableInv'
  <2>1. SameTables
    BY <1>2 DEF SameTables, tables, Goto, Adding, TypeInv, TypeOK
  <2> QED
    BY <2>1, TablesFrame
<1>3. ASSUME op(r) = "reg", AddNode(r) PROVE TableInv'
  <2>1. CASE AddNodeCheck(r)
    <3>1. CASE name2index[r[1]] # 0
      BY <1>2, <2>1, <3>1 DEF AddNodeCheck, Refuse, InThread
    <3>2. CASE name2index[r[1]] = 0
      <4>1. Enter(r, "fill") /\ at[r] = "sent" /\ UNCHANGED <<idx, MQ, num_mq>>
        BY <2>1, <3>2 DEF AddNodeCheck, InThread
      <4> QED
        BY <1>1, <3>2, <4>1, TablesEnter
    <3> QED
      BY <3>1, <3>2
  <2> QED
    BY <1>3, <2>1, TablesFill, TablesCount DEF AddNode
<1>4. ASSUME op(r) = "sub", AddSub(r) PROVE TableInv'
  <2>1. CASE Seek(r, SubRefused(r))
    <3>1. CASE SubRefused(r)
      BY <1>2, <2>1, <3>1 DEF Seek, Refuse, InThread
    <3>2. CASE ~SubRefused(r)
      <4>1. Enter(r, "add") /\ at[r] = "sent" /\ idx' = [idx EXCEPT ![r] = QueueOf(topic(r))] /\ UNCHANGED <<MQ, num_mq>>
        BY <2>1, <3>2 DEF Seek, InThread
      <4>2. topic(r) \notin ToSet(nodes[name2index[r[1]]].sub_list)
        BY <3>2 DEF SubRefused
      <4>3. idx'[r] = QueueOf(topic(r)) /\ \A s \in Req \ {r} : idx'[s] = idx[s]
        BY <4>1 DEF TypeInv, TypeOK
      <4> QED
        BY <1>1, <1>4, <4>1, <4>2, <4>3, TablesEnter
    <3> QED
      BY <3>1, <3>2
  <2> QED
    BY <1>4, <2>1, TablesEnterSub, TablesCountQueue DEF AddSub
<1>5. ASSUME op(r) = "pub", AddPub(r) PROVE TableInv'
  <2>1. CASE Seek(r, PubRefused(r))
    <3>1. CASE PubRefused(r)
      BY <1>2, <2>1, <3>1 DEF Seek, Refuse, InThread
    <3>2. CASE ~PubRefused(r)
      <4>1. Enter(r, "add") /\ at[r] = "sent" /\ idx' = [idx EXCEPT ![r] = QueueOf(topic(r))] /\ UNCHANGED <<MQ, num_mq>>
        BY <2>1, <3>2 DEF Seek, InThread
      <4>2. QueueOf(topic(r)) = 0 \/ MQ[QueueOf(topic(r))].pubnode = 0
        BY <3>2 DEF PubRefused
      <4>3. idx'[r] = QueueOf(topic(r)) /\ \A s \in Req \ {r} : idx'[s] = idx[s]
        BY <4>1 DEF TypeInv, TypeOK
      <4> QED
        BY <1>1, <1>5, <4>1, <4>2, <4>3, TablesEnter
    <3> QED
      BY <3>1, <3>2
  <2> QED
    BY <1>5, <2>1, TablesEnterPub, TablesCountQueue DEF AddPub
<1>6. ASSUME GetData(r) \/ FindUndefined(r) \/ Beyond(r) PROVE SameTables
  <2>1. MQ \in [Queues -> QueueRec]
    BY Tables DEF TypeInv
  <2>2. CASE Find(r)
    BY <2>2 DEF Find, SameTables, tables, InThread, Goto, Adding, TypeInv, TypeOK
  <2>3. CASE Claim(r)
    BY <2>1, <2>3 DEF Claim, SameTables, tables, InThread, Goto, Adding, TypeInv, TypeOK, QueueRec
  <2>4. CASE Push(r)
    BY <2>1, <2>4 DEF Push, SameTables, tables, InThread, Goto, Adding, TypeInv, TypeOK, QueueRec
  <2>5. CASE FindUndefined(r) \/ Beyond(r)
    BY <2>5 DEF FindUndefined, Beyond, Undefined, SameTables, tables, threads
  <2> QED
    BY <1>6, <2>2, <2>3, <2>4, <2>5 DEF GetData
<1> QED
  BY <1>3, <1>4, <1>5, <1>6, TablesFrame DEF MyServerCallBack

TablesHold == ~raced => TableInv

LEMMA TablesStep == TypeInv /\ TablesHold /\ [Next]_vars => TablesHold'
<1> SUFFICES ASSUME TypeInv, TablesHold, [Next]_vars, ~raced' PROVE TableInv'
  BY DEF TablesHold
<1>1. MQ \in [Queues -> QueueRec]
  BY Tables DEF TypeInv
<1>2. CASE UNCHANGED vars
  <2>1. SameTables /\ UNCHANGED raced
    BY <1>2 DEF vars, tables, threads, SameTables
  <2> QED
    BY <2>1, TablesFrame DEF TablesHold
<1>3. ASSUME NEW r \in Req, MyServerCallBack(r) PROVE TableInv'
  <2>1. ~raced
    BY <1>3 DEF MyServerCallBack, AddNode, AddNodeCheck, AddNodeFill, AddNodeCount, AddSub, AddPub, Seek, Refuse,
       Enter, EnterSub, EnterPub, CountQueue, Added, GetData, Find, Claim, Push, FindUndefined, Beyond, Undefined, tables
  <2> QED
    BY <1>3, <2>1, TablesServer DEF TablesHold
<1>4. ASSUME NEW i \in Queues, TransmitData(i) PROVE TableInv'
  <2>1. SameTables /\ UNCHANGED raced
    BY <1>1, <1>4 DEF TransmitData, tables, threads, SameTables, QueueRec
  <2> QED
    BY <2>1, TablesFrame DEF TablesHold
<1>5. ASSUME NEW i \in Queues, NEW k \in 1..2, sendThread(i, k) PROVE TableInv'
  <2>1. \A q \in Queues : /\ MQ'[q].name = MQ[q].name /\ MQ'[q].pubnode = MQ[q].pubnode
                          /\ MQ'[q].subnodelist = MQ[q].subnodelist
    <3>1. CASE TakeFront(i, k)
      BY <3>1 DEF TakeFront
    <3>2. CASE Pop(i, k)
      BY <1>1, <3>2 DEF Pop, QueueRec
    <3>3. CASE Finish(i, k)
      BY <1>1, <3>3 DEF Finish, QueueRec
    <3> QED
      BY <1>5, <3>1, <3>2, <3>3 DEF sendThread
  <2>2. SameTables /\ UNCHANGED raced
    BY <1>5, <2>1 DEF sendThread, tables, threads, SameTables
  <2> QED
    BY <2>2, TablesFrame DEF TablesHold
<1>6. ASSUME NEW i \in Queues, NEW k \in 1..2, NEW j \in DOMAIN MQ[i].subnodelist, realsendthread(i, k, j)
      PROVE  TableInv'
  <2>1. SameTables /\ UNCHANGED raced
    BY <1>6 DEF realsendthread, CloseAgain, Goto, tables, SameTables, Adding, TypeInv, TypeOK
  <2> QED
    BY <2>1, TablesFrame DEF TablesHold
<1>7. ASSUME NEW n \in Node, CreateClient(n) PROVE TableInv'
  <2>1. at[<<n, next[n] + 1>>] = "none" /\ <<n, next[n] + 1>> \in Req
    <3>1. next[n] \in Nat /\ next[n] < Len(Prog[n]) /\ Len(Prog[n]) \in Nat
      BY <1>7, MasterAssumption DEF CreateClient, TypeInv, TypeOK
    <3> QED
      BY <3>1 DEF Req, TypeInv, Unmade
  <2>2. SameTables /\ UNCHANGED raced
    BY <1>7, <2>1 DEF CreateClient, Goto, tables, SameTables, Adding, TypeInv, TypeOK
  <2> QED
    BY <2>2, TablesFrame DEF TablesHold
<1> QED
  BY <1>2, <1>3, <1>4, <1>5, <1>6, <1>7 DEF Next, Broker

LEMMA TablesInit == Init => TablesHold
<1> SUFFICES ASSUME Init PROVE TableInv
  BY DEF TablesHold
<1> USE MasterAssumption DEF Init, NoNode, NoQueue
<1>1. SlotInv
  BY DEF SlotInv, One, NamesAgree, FreeSlots, Filling, SubsNamed, Adding, ToSet, Slots
<1>2. FreeQueues /\ Unique /\ Once /\ Found
  BY DEF FreeQueues, FilledQueues, AddCounting, Unique, Once, IsInjective, Found, Queues
<1>3. SubLists /\ PubLists
  BY DEF SubLists, PubLists, ToSet
<1>4. Granted /\ Granting
  BY DEF Granted, Granting
<1> QED
  BY <1>1, <1>2, <1>3, <1>4 DEF TableInv, QueueInv

LEMMA TablesDo == TypeInv /\ TablesHold => TablesAgree
<1> SUFFICES ASSUME TypeInv, TableInv, Quiet
             PROVE  /\ \A n \in Node, i \in Slots : name2index[n] = i <=> nodes[i].name = n
                    /\ \A i, j \in Used : MQ[i].name = MQ[j].name => i = j
                    /\ \A t \in Topic, i \in Slots :
                         /\ t \in ToSet(nodes[i].sub_list) <=>
                              \E q \in Used : MQ[q].name = t /\ i \in ToSet(MQ[q].subnodelist)
                         /\ t \in ToSet(nodes[i].pub_list) <=>
                              \E q \in Used : MQ[q].name = t /\ i = MQ[q].pubnode
                    /\ \A q \in Queues : IsInjective(MQ[q].subnodelist)
  BY DEF TablesHold, TablesAgree
<1>1. FilledQueues = Used
  <2>1. ~AddCounting
    BY DEF AddCounting, Quiet, Adding
  <2> QED
    BY <2>1 DEF FilledQueues, Used
<1>2. \A q \in Queues : q \in Used <=> MQ[q].name \in Topic
  BY <1>1, MasterAssumption DEF TableInv, QueueInv, FreeQueues
<1>3. Used \subseteq Queues
  BY GrantedInQueues
<1>4. \A n \in Node, i \in Slots : name2index[n] = i <=> nodes[i].name = n
  BY DEF TableInv, SlotInv, NamesAgree
<1>5. \A i, j \in Used : MQ[i].name = MQ[j].name => i = j
  BY <1>2, <1>3 DEF TableInv, QueueInv, Unique
<1>6. ASSUME NEW t \in Topic, NEW i \in Slots
      PROVE  /\ t \in ToSet(nodes[i].sub_list) <=>
                  \E q \in Used : MQ[q].name = t /\ i \in ToSet(MQ[q].subnodelist)
             /\ t \in ToSet(nodes[i].pub_list) <=>
                  \E q \in Used : MQ[q].name = t /\ i = MQ[q].pubnode
  <2>1. t \in ToSet(nodes[i].sub_list) <=> \E q \in Queues : MQ[q].name = t /\ i \in ToSet(MQ[q].subnodelist)
    BY DEF TableInv, QueueInv, SubLists
  <2>2. t \in ToSet(nodes[i].pub_list) <=> \E q \in Queues : MQ[q].name = t /\ i = MQ[q].pubnode
    BY DEF TableInv, QueueInv, PubLists
  <2> QED
    BY <1>2, <1>3, <2>1, <2>2
<1>7. \A q \in Queues : IsInjective(MQ[q].subnodelist)
  BY DEF TableInv, QueueInv, Once
<1> QED
  BY <1>4, <1>5, <1>6, <1>7

\* AddNode, AddSub, AddPub: without a race the tables of nodes and queues say the same.
THEOREM TablesAlwaysAgree == Spec => []TablesAgree
  BY TypeInit, TypeStep, TablesInit, TablesStep, TablesDo, PTL DEF Spec

-----------------------------------------------------------------------------
(***************************************************************************)
(* Where a datum is saved.  The search of GetData passes over a queue only *)
(* while another datum of its topic is being saved.                        *)
(***************************************************************************)
Claiming == \A s \in Req : at[s] = "claim" => op(s) = "data" /\ MQ[idx[s]].name = topic(s)
Claimed == \A q \in Queues : MQ[q].savedataflag =>
  \E s \in Req : at[s] = "push" /\ op(s) = "data" /\ idx[s] = q /\ topic(s) = MQ[q].name

SaveInv == Claiming /\ Claimed
SavesHold == ~raced => SaveInv

\* A queue does not change its name.
NamesStay == \A q \in Queues : MQ[q].name \in Topic => MQ'[q].name = MQ[q].name

LEMMA SavesFrame ==
  ASSUME TypeInv, SaveInv, NamesStay,
         \A q \in Queues : MQ'[q].savedataflag = MQ[q].savedataflag,
         \A s \in Req : (at'[s] = at[s] /\ (at[s] \in Saving => idx'[s] = idx[s]))
                        \/ (at[s] \notin Saving /\ at'[s] \notin Saving)
  PROVE  SaveInv'
<1>1. \A s \in Req : (at'[s] = "claim" <=> at[s] = "claim") /\ (at'[s] = "push" <=> at[s] = "push")
  BY DEF Saving
<1>2. \A s \in Req : at[s] \in Saving => idx'[s] = idx[s] /\ idx[s] \in Queues
  BY DEF TypeInv, Aimed
<1>3. \A s \in Req : op(s) = "data" => topic(s) \in Topic
  BY ReqType
<1>4. Claiming'
  BY <1>1, <1>2, <1>3 DEF SaveInv, Claiming, NamesStay, Saving
<1>5. Claimed'
  <2> SUFFICES ASSUME NEW q \in Queues, MQ'[q].savedataflag
               PROVE  \E s \in Req : at'[s] = "push" /\ op(s) = "data" /\ idx'[s] = q /\ topic(s) = MQ'[q].name
    BY DEF Claimed
  <2>1. PICK s \in Req : at[s] = "push" /\ op(s) = "data" /\ idx[s] = q /\ topic(s) = MQ[q].name
    BY DEF SaveInv, Claimed
  <2>2. MQ'[q].name = MQ[q].name
    BY <1>3, <2>1 DEF NamesStay
  <2>3. at'[s] = "push" /\ idx'[s] = q
    BY <1>1, <1>2, <2>1 DEF Saving
  <2> QED
    BY <2>1, <2>2, <2>3
<1> QED
  BY <1>4, <1>5 DEF SaveInv

LEMMA SavesData ==
  ASSUME TypeInv, SaveInv, NEW r \in Req, op(r) = "data", GetData(r)
  PROVE  SaveInv'
<1>1. MQ \in [Queues -> QueueRec] /\ at \in [Req -> Progress] /\ idx \in [Req -> 0..MAX_SIZE_MQ]
  BY Tables DEF TypeInv, TypeOK
<1>2. ASSUME NEW s \in Req, at[s] \in Saving PROVE idx[s] \in Queues
  BY <1>2 DEF TypeInv, Aimed
<1>3. CASE Find(r)
  <2>1. PICK i \in IF Matching(r) = {} THEN Queues ELSE {Min(Matching(r))} : idx' = [idx EXCEPT ![r] = i]
    BY <1>3 DEF Find
  <2>2. /\ at[r] = "sent" /\ UNCHANGED MQ
        /\ at' = [at EXCEPT ![r] = IF Matching(r) = {} THEN "push" ELSE "claim"]
    BY <1>3 DEF Find, InThread, Goto
  <2>3. at'[r] = "claim" => MQ[i].name = topic(r) /\ idx'[r] = i
    <3>1. CASE Matching(r) = {}
      BY <1>1, <2>2, <3>1
    <3>2. CASE Matching(r) # {}
      <4>1. i \in Matching(r)
        BY <2>1, <3>2, MatchingMin DEF TypeInv
      <4> QED
        BY <1>1, <2>1, <4>1 DEF Matching
    <3> QED
      BY <3>1, <3>2
  <2>4. \A s \in Req \ {r} : at'[s] = at[s] /\ idx'[s] = idx[s]
    BY <1>1, <2>1, <2>2
  <2>5. Claiming'
    BY <2>2, <2>3, <2>4 DEF SaveInv, Claiming
  <2>6. Claimed'
    BY <2>2, <2>4 DEF SaveInv, Claimed
  <2> QED
    BY <2>5, <2>6 DEF SaveInv
<1>4. CASE Claim(r)
  <2> DEFINE k == idx[r]
  <2>1. at[r] = "claim" /\ k \in Queues
    BY <1>2, <1>4 DEF Claim, InThread, Saving
  <2>2. MQ' = [MQ EXCEPT ![k].savedataflag = TRUE] /\ at' = [at EXCEPT ![r] = "push"] /\ UNCHANGED idx
    BY <1>4 DEF Claim, Goto
  <2>3. /\ \A q \in Queues : MQ'[q].name = MQ[q].name
        /\ \A q \in Queues \ {k} : MQ'[q] = MQ[q]
    BY <1>1, <2>1, <2>2 DEF QueueRec
  <2>4. at'[r] = "push" /\ \A s \in Req \ {r} : at'[s] = at[s]
    BY <1>1, <2>2
  <2>5. MQ[k].name = topic(r)
    BY <2>1 DEF SaveInv, Claiming
  <2>6. Claiming'
    BY <1>2, <2>2, <2>3, <2>4 DEF SaveInv, Claiming, Saving
  <2> HIDE DEF k
  <2>7. Claimed'
    <3> SUFFICES ASSUME NEW q \in Queues, MQ'[q].savedataflag
                 PROVE  \E s \in Req : at'[s] = "push" /\ op(s) = "data" /\ idx[s] = q /\ topic(s) = MQ[q].name
      BY <2>2, <2>3 DEF Claimed
    <3>1. CASE q = k
      BY <2>4, <2>5, <3>1 DEF k
    <3>2. CASE q # k
      <4>1. PICK s \in Req : at[s] = "push" /\ op(s) = "data" /\ idx[s] = q /\ topic(s) = MQ[q].name
        BY <2>3, <3>2 DEF SaveInv, Claimed
      <4> QED
        BY <2>1, <2>4, <4>1
    <3> QED
      BY <3>1, <3>2
  <2> QED
    BY <2>6, <2>7 DEF SaveInv
<1>5. CASE Push(r)
  <2> DEFINE k == idx[r]
  <2>1. at[r] = "push" /\ k \in Queues
    BY <1>2, <1>5 DEF Push, InThread, Saving
  <2>2. \E d : MQ' = [MQ EXCEPT ![k].data = d, ![k].savedataflag = FALSE]
    BY <1>5 DEF Push
  <2>3. /\ at' = [at EXCEPT ![r] = "done"] /\ UNCHANGED idx
    BY <1>5 DEF Push, Goto
  <2>4. /\ \A q \in Queues : MQ'[q].name = MQ[q].name
        /\ \A q \in Queues \ {k} : MQ'[q] = MQ[q]
        /\ MQ'[k].savedataflag = FALSE
    BY <1>1, <2>1, <2>2 DEF QueueRec
  <2>5. at'[r] = "done" /\ \A s \in Req \ {r} : at'[s] = at[s]
    BY <1>1, <2>3
  <2>6. Claiming'
    BY <1>2, <2>3, <2>4, <2>5 DEF SaveInv, Claiming, Saving
  <2> HIDE DEF k
  <2>7. Claimed'
    <3> SUFFICES ASSUME NEW q \in Queues, MQ'[q].savedataflag
                 PROVE  \E s \in Req : at'[s] = "push" /\ op(s) = "data" /\ idx[s] = q /\ topic(s) = MQ[q].name
      BY <2>3, <2>4 DEF Claimed
    <3>1. q # k
      BY <2>4
    <3>2. PICK s \in Req : at[s] = "push" /\ op(s) = "data" /\ idx[s] = q /\ topic(s) = MQ[q].name
      BY <2>4, <3>1 DEF SaveInv, Claimed
    <3>3. s # r
      BY <3>1, <3>2 DEF k
    <3> QED
      BY <2>5, <3>2, <3>3
  <2> QED
    BY <2>6, <2>7 DEF SaveInv
<1> QED
  BY <1>3, <1>4, <1>5 DEF GetData

\* An accepted AddSub or AddPub leaves the names of the queues, too.
LEMMA EnterNames ==
  ASSUME TypeInv, TableInv, NEW r \in Req,
         (op(r) = "sub" /\ EnterSub(r)) \/ (op(r) = "pub" /\ EnterPub(r))
  PROVE  NamesStay /\ \A q \in Queues : MQ'[q].savedataflag = MQ[q].savedataflag
<1> DEFINE k == Queue(r)
<1>1. InThread(r, "add") /\ op(r) \in {"sub", "pub"} /\ Queue(r) \in Queues
  BY DEF EnterSub, EnterPub
<1>2. /\ k \in Queues /\ topic(r) \in Topic
      /\ idx[r] = 0 => MQ[k].name = Nobody
      /\ idx[r] # 0 => MQ[k].name = topic(r)
  BY <1>1, Target
<1>3. /\ \A q \in Queues \ {k} : MQ'[q] = MQ[q]
      /\ MQ'[k].name = topic(r) /\ MQ'[k].savedataflag = MQ[k].savedataflag
  <2>1. MQ \in [Queues -> QueueRec]
    BY Tables DEF TypeInv
  <2>2. \/ MQ' = [MQ EXCEPT ![k].name = topic(r), ![k].subnodelist = Append(@, Slot(r))]
        \/ MQ' = [MQ EXCEPT ![k].name = topic(r), ![k].pubnode = Slot(r)]
    BY DEF EnterSub, EnterPub
  <2> HIDE DEF k
  <2> QED
    BY ONLY <1>2, <2>1, <2>2 DEF QueueRec
<1> HIDE DEF k
<1>4. NamesStay
  BY <1>2, <1>3, MasterAssumption DEF NamesStay
<1> QED
  BY <1>3, <1>4

LEMMA SavesStep == TypeInv /\ TablesHold /\ SavesHold /\ [Next]_vars => SavesHold'
<1> SUFFICES ASSUME TypeInv, TablesHold, SavesHold, [Next]_vars, ~raced' PROVE SaveInv'
  BY DEF SavesHold
<1>1. MQ \in [Queues -> QueueRec]
  BY Tables DEF TypeInv
<1>2. CASE UNCHANGED vars
  BY <1>2 DEF vars, tables, threads, SavesHold, SaveInv, Claiming, Claimed
<1>3. ASSUME NEW r \in Req, MyServerCallBack(r) PROVE SaveInv'
  <2>1. ~raced
    BY <1>3 DEF MyServerCallBack, AddNode, AddNodeCheck, AddNodeFill, AddNodeCount, AddSub, AddPub, Seek, Refuse,
       Enter, EnterSub, EnterPub, CountQueue, Added, GetData, Find, Claim, Push, FindUndefined, Beyond, Undefined, tables
  <2>2. TableInv /\ SaveInv
    BY <2>1 DEF TablesHold, SavesHold
  <2>3. CASE op(r) = "data" /\ GetData(r)
    BY <2>2, <2>3, SavesData
  <2>4. CASE FindUndefined(r) \/ Beyond(r)
    BY <2>2, <2>4, SavesFrame DEF FindUndefined, Beyond, Undefined, threads, NamesStay
  <2>5. CASE (op(r) = "sub" /\ EnterSub(r)) \/ (op(r) = "pub" /\ EnterPub(r))
    <3>1. at' = [at EXCEPT ![r] = IF idx[r] = 0 THEN "count" ELSE "done"] /\ UNCHANGED idx /\ at[r] = "add"
      BY <2>5 DEF EnterSub, EnterPub, Added, Goto, InThread
    <3>2. NamesStay /\ \A q \in Queues : MQ'[q].savedataflag = MQ[q].savedataflag
      BY <2>2, <2>5, EnterNames
    <3>3. \A s \in Req : (at'[s] = at[s] /\ (at[s] \in Saving => idx'[s] = idx[s]))
                         \/ (at[s] \notin Saving /\ at'[s] \notin Saving)
      BY <3>1 DEF TypeInv, TypeOK, Saving
    <3> QED
      BY <2>2, <3>2, <3>3, SavesFrame
  <2>6. ASSUME UNCHANGED MQ, NEW pc \in {"fill", "add", "count", "done"}, at' = [at EXCEPT ![r] = pc],
               at[r] \notin Saving, \A s \in Req \ {r} : idx'[s] = idx[s]
        PROVE  SaveInv'
    <3>1. NamesStay /\ \A q \in Queues : MQ'[q].savedataflag = MQ[q].savedataflag
      BY <2>6 DEF NamesStay
    <3>2. \A s \in Req : (at'[s] = at[s] /\ (at[s] \in Saving => idx'[s] = idx[s]))
                         \/ (at[s] \notin Saving /\ at'[s] \notin Saving)
      BY <2>6 DEF TypeInv, TypeOK, Saving
    <3> QED
      BY <2>2, <3>1, <3>2, SavesFrame
  <2>7. CASE AddNode(r)
    <3>1. PICK pc \in {"fill", "count", "done"} : at' = [at EXCEPT ![r] = pc]
      BY <2>7 DEF AddNode, AddNodeCheck, AddNodeFill, AddNodeCount, Refuse, Enter, Goto
    <3>2. UNCHANGED <<MQ, idx>> /\ at[r] \notin Saving
      BY <2>7 DEF AddNode, AddNodeCheck, AddNodeFill, AddNodeCount, Refuse, InThread, Saving
    <3> QED
      BY <2>6, <3>1, <3>2
  <2>8. ASSUME NEW refused \in BOOLEAN, Seek(r, refused) PROVE SaveInv'
    <3>1. PICK pc \in {"add", "done"} : at' = [at EXCEPT ![r] = pc]
      BY <2>8 DEF Seek, Refuse, Enter, Goto
    <3>2. UNCHANGED MQ /\ at[r] \notin Saving /\ \A s \in Req \ {r} : idx'[s] = idx[s]
      BY <2>8 DEF Seek, Refuse, InThread, Saving, TypeInv, TypeOK
    <3> QED
      BY <2>6, <3>1, <3>2
  <2>9. CASE CountQueue(r)
    <3>1. at' = [at EXCEPT ![r] = "done"] /\ UNCHANGED <<MQ, idx>> /\ at[r] \notin Saving
      BY <2>9 DEF CountQueue, Added, Goto, InThread, Saving
    <3> QED
      BY <2>6, <3>1
  <2>10. SubRefused(r) \in BOOLEAN /\ PubRefused(r) \in BOOLEAN
    BY DEF SubRefused, PubRefused
  <2> QED
    BY <1>3, <2>3, <2>4, <2>5, <2>7, <2>8, <2>9, <2>10 DEF MyServerCallBack, AddSub, AddPub
<1>4. ASSUME ~raced, UNCHANGED <<at, idx>>,
             \A q \in Queues : MQ'[q].name = MQ[q].name /\ MQ'[q].savedataflag = MQ[q].savedataflag
      PROVE  SaveInv'
  BY <1>4, SavesFrame DEF SavesHold, NamesStay
<1>5. ASSUME NEW i \in Queues, TransmitData(i) PROVE SaveInv'
  <2>1. ~raced /\ UNCHANGED <<at, idx>> /\ MQ' = [MQ EXCEPT ![i].flag = TRUE]
    BY <1>5 DEF TransmitData, tables, threads
  <2> QED
    BY <1>1, <1>4, <2>1 DEF QueueRec
<1>6. ASSUME NEW i \in Queues, NEW k \in 1..2, sendThread(i, k) PROVE SaveInv'
  <2>1. ~raced /\ UNCHANGED <<at, idx>>
    BY <1>6 DEF sendThread, tables, threads
  <2>2. \A q \in Queues : MQ'[q].name = MQ[q].name /\ MQ'[q].savedataflag = MQ[q].savedataflag
    <3>1. CASE TakeFront(i, k)
      BY <3>1 DEF TakeFront
    <3>2. CASE Pop(i, k)
      BY <1>1, <3>2 DEF Pop, QueueRec
    <3>3. CASE Finish(i, k)
      BY <1>1, <3>3 DEF Finish, QueueRec
    <3> QED
      BY <1>6, <3>1, <3>2, <3>3 DEF sendThread
  <2> QED
    BY <1>4, <2>1, <2>2
<1>7. ASSUME NEW i \in Queues, NEW k \in 1..2, NEW j \in DOMAIN MQ[i].subnodelist, realsendthread(i, k, j)
      PROVE  SaveInv'
  <2>1. /\ ~raced /\ UNCHANGED <<MQ, idx>>
        /\ \A s \in Req : at'[s] = at[s] \/ (at[s] \notin Saving /\ at'[s] \notin Saving)
    BY <1>7 DEF realsendthread, CloseAgain, Goto, tables, Saving, TypeInv, TypeOK
  <2> QED
    BY <2>1, SavesFrame DEF SavesHold, NamesStay
<1>8. ASSUME NEW n \in Node, CreateClient(n) PROVE SaveInv'
  <2>1. at[<<n, next[n] + 1>>] = "none" /\ <<n, next[n] + 1>> \in Req
    <3>1. next[n] \in Nat /\ next[n] < Len(Prog[n]) /\ Len(Prog[n]) \in Nat
      BY <1>8, MasterAssumption DEF CreateClient, TypeInv, TypeOK
    <3> QED
      BY <3>1 DEF Req, TypeInv, Unmade
  <2>2. /\ ~raced /\ UNCHANGED <<MQ, idx>>
        /\ \A s \in Req : at'[s] = at[s] \/ (at[s] \notin Saving /\ at'[s] \notin Saving)
    BY <1>8, <2>1 DEF CreateClient, Goto, tables, Saving, TypeInv, TypeOK
  <2> QED
    BY <2>2, SavesFrame DEF SavesHold, NamesStay
<1> QED
  BY <1>2, <1>3, <1>5, <1>6, <1>7, <1>8 DEF Next, Broker

LEMMA SavesInit == Init => SavesHold
  BY DEF Init, SavesHold, SaveInv, Claiming, Claimed, NoQueue

\* Only a search that finds nothing takes a request from "sent" to "push".
LEMMA SavedNowhere ==
  ASSUME TypeInv, [Next]_vars, NEW r \in Req, at[r] = "sent", at'[r] = "push"
  PROVE  op(r) = "data" /\ Matching(r) = {}
<1>1. CASE UNCHANGED at
  BY <1>1
<1>2. ASSUME NEW s \in Req, NEW pc, at' = [at EXCEPT ![s] = pc]
      PROVE  s = r /\ pc = "push"
  BY <1>2 DEF TypeInv, TypeOK
<1>3. ASSUME NEW s \in Req, MyServerCallBack(s) PROVE op(r) = "data" /\ Matching(r) = {}
  <2>1. CASE op(s) = "data" /\ GetData(s)
    <3>1. CASE Find(s)
      BY <1>2, <2>1, <3>1 DEF Find, Goto
    <3>2. CASE Claim(s)
      <4>1. s = r
        BY <1>2, <3>2 DEF Claim, Goto
      <4> QED
        BY <3>2, <4>1 DEF Claim, InThread
    <3>3. CASE Push(s)
      BY <1>2, <3>3 DEF Push, Goto
    <3> QED
      BY <2>1, <3>1, <3>2, <3>3 DEF GetData
  <2>2. CASE FindUndefined(s) \/ Beyond(s)
    BY <1>1, <2>2 DEF FindUndefined, Beyond, Undefined, threads
  <2>3. CASE AddNode(s)
    BY <1>2, <2>3 DEF AddNode, AddNodeCheck, AddNodeFill, AddNodeCount, Refuse, Enter, Goto
  <2>4. CASE AddSub(s)
    BY <1>2, <2>4 DEF AddSub, Seek, EnterSub, CountQueue, Added, Refuse, Enter, Goto
  <2>5. CASE AddPub(s)
    BY <1>2, <2>5 DEF AddPub, Seek, EnterPub, CountQueue, Added, Refuse, Enter, Goto
  <2> QED
    BY <1>3, <2>1, <2>2, <2>3, <2>4, <2>5 DEF MyServerCallBack
<1>4. ASSUME NEW i \in Queues, NEW k \in 1..2, NEW j \in DOMAIN MQ[i].subnodelist, realsendthread(i, k, j)
      PROVE  FALSE
  BY <1>1, <1>2, <1>4 DEF realsendthread, CloseAgain, Goto
<1>5. ASSUME NEW n \in Node, CreateClient(n) PROVE FALSE
  BY <1>5 DEF CreateClient, Goto, TypeInv, TypeOK
<1>6. CASE UNCHANGED vars
  BY <1>1, <1>6 DEF vars, threads
<1>7. ASSUME NEW i \in Queues, TransmitData(i) PROVE FALSE
  BY <1>7 DEF TransmitData, threads
<1>8. ASSUME NEW i \in Queues, NEW k \in 1..2, sendThread(i, k) PROVE FALSE
  BY <1>8 DEF sendThread, threads
<1> QED
  BY <1>3, <1>4, <1>5, <1>6, <1>7, <1>8 DEF Next, Broker

\* GetData: a datum goes to its own queue, or two requests were in each other's way.
THEOREM AlwaysSavedWhereItBelongs == Spec => SavedWhereItBelongs
<1>1. TypeInv /\ TablesHold /\ SavesHold /\ [Next]_vars =>
        [\A r \in Req :
           at[r] = "sent" /\ at'[r] = "push" =>
             \/ raced \/ <<r[1], topic(r)>> \notin granted
             \/ \E s \in Req \ {r} : at[s] \in Saving /\ topic(s) = topic(r)]_vars
  <2> SUFFICES ASSUME TypeInv, TablesHold, SavesHold, [Next]_vars,
                      NEW r \in Req, at[r] = "sent", at'[r] = "push",
                      ~raced, <<r[1], topic(r)>> \in granted
               PROVE  \E s \in Req \ {r} : at[s] \in Saving /\ topic(s) = topic(r)
    OBVIOUS
  <2>1. op(r) = "data" /\ Matching(r) = {}
    BY SavedNowhere
  <2>2. PICK q \in Used : Publishes(r[1], topic(r), q)
    BY DEF TablesHold, TableInv, Granted
  <2>3. q \in Queues /\ MQ[q].savedataflag
    <3>1. q \in Queues
      BY GrantedInQueues
    <3> QED
      BY <2>1, <2>2, <3>1 DEF Matching, Publishes
  <2>4. PICK s \in Req : at[s] = "push" /\ topic(s) = MQ[q].name
    BY <2>3 DEF SavesHold, SaveInv, Claimed
  <2> QED
    BY <2>2, <2>4 DEF Publishes, Saving
<1> QED
  BY <1>1, TypeInit, TypeStep, TablesInit, TablesStep, SavesInit, SavesStep, PTL DEF Spec, SavedWhereItBelongs

-----------------------------------------------------------------------------
(***************************************************************************)
(* The order of what a node is sent.                                       *)
(***************************************************************************)
\* How much of what was put into a queue has left it.
Popped(i) == Len(queued[i]) - Len(MQ[i].data)

\* The queue holds the rest of what was put into it, each datum at one place of one queue.
InQueue ==
  \A i \in Queues :
    /\ IsInjective(queued[i]) /\ \A x \in ToSet(queued[i]) : idx[x] = i
    /\ Popped(i) \in Nat
    /\ \A p \in DOMAIN MQ[i].data : MQ[i].data[p] = queued[i][Popped(i) + p]

\* The a-th that node n was sent is x, and it was sent x.
SentAt(n, a, x) == a \in DOMAIN inbox[n] /\ inbox[n][a][2] = x
Got(n, x) == \E a \in Nat : SentAt(n, a, x)

Sent == \A n \in Node, x \in Req : Got(n, x) => idx[x] \in Queues /\ x \in ToSet(queued[idx[x]])

\* The sendThread of queue i is not to send its datum to n, or not again.
Skips(n, i) ==
  \E k \in DOMAIN senders[i] :
    /\ senders[i][k].pc = "send"
    /\ \A j \in senders[i][k].todo : nodes[MQ[i].subnodelist[j]].name # n

\* The p-th datum of queue i has left it, or is being sent and n skipped.
Behind(n, i, p) == p <= Popped(i) \/ (p = Popped(i) + 1 /\ Skips(n, i))

AllBehind == \A n \in Node, x \in Req : Got(n, x) => Behind(n, idx[x], OrderOf(x))

\* SentInOrder, of the data rather than of the messages.
InOrder ==
  \A n \in Node, x \in Req, y \in Req : \A a, b \in Nat :
    SentAt(n, a, x) /\ SentAt(n, b, y) /\ a < b /\ idx[x] = idx[y] => OrderOf(x) < OrderOf(y)

PlaceInv == InQueue /\ Sent
OrderInv == AllBehind /\ InOrder
OrderHolds == ~raced => OrderInv

\* A datum of a queue has one place in it.
LEMMA Place ==
  ASSUME NEW i \in Queues, IsInjective(queued[i]), NEW x, x \in ToSet(queued[i]), idx[x] = i
  PROVE  /\ OrderOf(x) \in DOMAIN queued[i] /\ queued[i][OrderOf(x)] = x
         /\ \A p \in DOMAIN queued[i] : queued[i][p] = x => p = OrderOf(x)
<1>1. \E p \in DOMAIN queued[i] : queued[i][p] = x
  BY DEF ToSet
<1>2. OrderOf(x) \in DOMAIN queued[i] /\ queued[i][OrderOf(x)] = x
  BY <1>1 DEF OrderOf
<1> QED
  BY <1>2 DEF IsInjective

\* What is in a queue is done, and a request that is done keeps its queue.
Settled == \A x \in Req : at[x] = "done" => idx'[x] = idx[x]

LEMMA QueuedDone ==
  ASSUME TypeInv, DeliveryInv, NEW i \in Queues, NEW x \in ToSet(queued[i])
  PROVE  x \in Req /\ at[x] = "done"
BY DEF DeliveryInv, Kept, TypeInv, TypeOK, ToSet

LEMMA SettledStep == ASSUME TypeInv, [Next]_vars PROVE Settled
<1>1. ASSUME UNCHANGED idx PROVE Settled
  BY <1>1 DEF Settled
<1>2. ASSUME NEW r \in Req, at[r] # "done", \A s \in Req \ {r} : idx'[s] = idx[s] PROVE Settled
  BY <1>2 DEF Settled
<1>3. ASSUME NEW r \in Req, MyServerCallBack(r) PROVE Settled
  <2>1. ASSUME NEW refused, Seek(r, refused) PROVE Settled
    BY <1>2, <2>1 DEF Seek, Refuse, Enter, InThread, Settled, TypeInv, TypeOK
  <2>2. CASE Find(r)
    BY <1>2, <2>2 DEF Find, InThread, TypeInv, TypeOK
  <2>3. CASE UNCHANGED idx
    BY <1>1, <2>3
  <2> QED
    BY <1>3, <2>1, <2>2, <2>3 DEF MyServerCallBack, AddNode, AddNodeCheck, AddNodeFill, AddNodeCount, AddSub, AddPub,
       Refuse, EnterSub, EnterPub, CountQueue, Added, GetData, Claim, Push, FindUndefined, Beyond, Undefined, threads
<1> QED
  BY <1>1, <1>3 DEF Next, Broker, CreateClient, TransmitData, sendThread, realsendthread, vars, threads

\* What is in a queue keeps its place.
Stays == \A i \in Queues : \A p \in DOMAIN queued[i] : p \in DOMAIN queued'[i] /\ queued'[i][p] = queued[i][p]

LEMMA KeepsPlace ==
  ASSUME TypeInv, DeliveryInv, InQueue, InQueue', Settled, Stays,
         NEW x, NEW i \in Queues, x \in ToSet(queued[i]), idx[x] = i
  PROVE  idx'[x] = i /\ OrderOf(x)' = OrderOf(x) /\ x \in ToSet(queued'[i])
<1>1. idx'[x] = i
  BY QueuedDone DEF Settled
<1>2. OrderOf(x) \in DOMAIN queued[i] /\ queued[i][OrderOf(x)] = x
  BY Place DEF InQueue
<1>3. OrderOf(x) \in DOMAIN queued'[i] /\ queued'[i][OrderOf(x)] = x
  BY <1>2 DEF Stays
<1>4. x \in ToSet(queued'[i])
  BY <1>3 DEF ToSet
<1>5. \E p \in DOMAIN queued'[i] : queued'[i][p] = x
  BY <1>3
<1>6. OrderOf(x)' \in DOMAIN queued'[i] /\ queued'[i][OrderOf(x)'] = x
  BY <1>1, <1>5 DEF OrderOf
<1>7. OrderOf(x)' = OrderOf(x)
  BY <1>3, <1>6 DEF InQueue, IsInjective
<1> QED
  BY <1>1, <1>4, <1>7

\* So does what a node was sent.
Fixed == \A n \in Node, x \in Req : Got(n, x) => idx'[x] = idx[x] /\ OrderOf(x)' = OrderOf(x)

LEMMA FixedStep ==
  ASSUME TypeInv, DeliveryInv, PlaceInv, InQueue', Settled, Stays
  PROVE  /\ Fixed
         /\ \A n \in Node, x \in Req : Got(n, x) => idx'[x] \in Queues /\ x \in ToSet(queued'[idx'[x]])
<1> SUFFICES ASSUME NEW n \in Node, NEW x \in Req, Got(n, x)
             PROVE  /\ idx'[x] = idx[x] /\ OrderOf(x)' = OrderOf(x)
                    /\ idx'[x] \in Queues /\ x \in ToSet(queued'[idx'[x]])
  BY DEF Fixed
<1>1. PICK i \in Queues : idx[x] = i /\ x \in ToSet(queued[i])
  BY DEF PlaceInv, Sent
<1>2. idx'[x] = i /\ OrderOf(x)' = OrderOf(x) /\ x \in ToSet(queued'[i])
  BY <1>1, KeepsPlace DEF PlaceInv
<1> QED
  BY <1>1, <1>2

\* A queue only advances, and while it does not, nobody is to be sent its front again.
Advances(i) ==
  /\ Popped(i)' >= Popped(i)
  /\ Popped(i)' = Popped(i) => \A n \in Node : Skips(n, i) => Skips(n, i)'

LEMMA BehindStays ==
  ASSUME NEW n \in Node, NEW i \in Queues, NEW p \in Nat, Popped(i) \in Nat, Popped(i)' \in Nat,
         Advances(i), Behind(n, i, p)
  PROVE  Behind(n, i, p)'
BY DEF Behind, Advances

\* A step that sends nothing.
LEMMA PlaceFrame ==
  ASSUME TypeInv, DeliveryInv, PlaceInv, InQueue', Settled, Stays, UNCHANGED inbox
  PROVE  PlaceInv'
<1>1. \A n \in Node, x \in Req : Got(n, x) => idx'[x] \in Queues /\ x \in ToSet(queued'[idx'[x]])
  BY FixedStep
<1>2. \A n \in Node, x \in Req : Got(n, x)' <=> Got(n, x)
  BY DEF Got, SentAt
<1>3. Sent'
  BY <1>1, <1>2 DEF Sent
<1> QED
  BY <1>3 DEF PlaceInv

\* A datum that a node was sent stays behind, when its queue only advances.
LEMMA GotBehind ==
  ASSUME TypeInv, DeliveryInv, PlaceInv, OrderInv, InQueue', Fixed, \A i \in Queues : Advances(i),
         NEW n \in Node, NEW x \in Req, Got(n, x)
  PROVE  Behind(n, idx[x], OrderOf(x))'
<1>1. PICK i \in Queues : idx[x] = i /\ x \in ToSet(queued[i])
  BY DEF PlaceInv, Sent
<1>2. PICK p \in Nat : OrderOf(x) = p
  <2>1. queued[i] \in Seq(Req)
    BY DEF TypeInv, TypeOK
  <2> QED
    BY <1>1, <2>1, Place DEF PlaceInv, InQueue
<1>3. Behind(n, i, p)
  BY <1>1, <1>2 DEF OrderInv, AllBehind
<1>4. Behind(n, i, p)'
  BY <1>3, BehindStays DEF PlaceInv, InQueue
<1>5. idx'[x] = i /\ OrderOf(x)' = p
  BY <1>1, <1>2 DEF Fixed
<1> QED
  BY <1>4, <1>5

\* What a node was sent stays in order.
LEMMA GotInOrder ==
  ASSUME InOrder, Fixed, NEW n \in Node, NEW x \in Req, NEW y \in Req, NEW a \in Nat, NEW b \in Nat,
         SentAt(n, a, x), SentAt(n, b, y), a < b, idx'[x] = idx'[y]
  PROVE  OrderOf(x)' < OrderOf(y)'
<1>1. Got(n, x) /\ Got(n, y)
  BY DEF Got
<1>2. idx'[x] = idx[x] /\ idx'[y] = idx[y] /\ OrderOf(x)' = OrderOf(x) /\ OrderOf(y)' = OrderOf(y)
  BY <1>1 DEF Fixed
<1>3. OrderOf(x) < OrderOf(y)
  BY <1>2 DEF InOrder
<1> QED
  BY <1>2, <1>3

LEMMA OrderFrame ==
  ASSUME TypeInv, DeliveryInv, PlaceInv, OrderInv, InQueue', Settled, Stays, UNCHANGED inbox,
         \A i \in Queues : Advances(i)
  PROVE  OrderInv'
<1>1. Fixed
  BY FixedStep
<1>2. /\ \A n \in Node, x \in Req : Got(n, x)' <=> Got(n, x)
      /\ \A n \in Node, x \in Req, a \in Nat : SentAt(n, a, x)' <=> SentAt(n, a, x)
  BY DEF Got, SentAt
<1>3. AllBehind'
  BY <1>1, <1>2, GotBehind DEF AllBehind
<1>4. InOrder'
  <2> SUFFICES ASSUME NEW n \in Node, NEW x \in Req, NEW y \in Req, NEW a \in Nat, NEW b \in Nat,
                      SentAt(n, a, x)', SentAt(n, b, y)', a < b, idx'[x] = idx'[y]
               PROVE  OrderOf(x)' < OrderOf(y)'
    BY DEF InOrder
  <2>1. SentAt(n, a, x) /\ SentAt(n, b, y)
    BY <1>2
  <2> QED
    BY <1>1, <2>1, GotInOrder DEF OrderInv
<1> QED
  BY <1>3, <1>4 DEF OrderInv

\* A queue that is left alone, but for a subscriber that is appended.
LEMMA SkipsStay ==
  ASSUME DeliveryInv, Grows, NEW i \in Queues, senders'[i] = senders[i], NEW n, Skips(n, i),
         \A j \in DOMAIN MQ[i].subnodelist : nodes'[MQ[i].subnodelist[j]].name = nodes[MQ[i].subnodelist[j]].name
  PROVE  Skips(n, i)'
<1>1. PICK k \in DOMAIN senders[i] :
        senders[i][k].pc = "send" /\ \A j \in senders[i][k].todo : nodes[MQ[i].subnodelist[j]].name # n
  BY DEF Skips
<1>2. \A j \in senders[i][k].todo : j \in DOMAIN MQ[i].subnodelist
  BY <1>1 DEF DeliveryInv, Serving, Serves
<1>3. \A j \in senders[i][k].todo : nodes'[MQ'[i].subnodelist[j]].name # n
  BY <1>1, <1>2 DEF Grows
<1> QED
  BY <1>1, <1>3 DEF Skips

LEMMA InQueueFrame ==
  ASSUME TypeInv, DeliveryInv, InQueue, Settled, UNCHANGED queued, \A i \in Queues : MQ'[i].data = MQ[i].data
  PROVE  InQueue' /\ Stays /\ \A i \in Queues : Popped(i)' = Popped(i)
<1>1. \A i \in Queues : Popped(i)' = Popped(i)
  BY DEF Popped
<1>2. \A i \in Queues : \A x \in ToSet(queued[i]) : idx'[x] = idx[x]
  BY QueuedDone DEF Settled
<1>3. InQueue'
  BY <1>1, <1>2 DEF InQueue
<1> QED
  BY <1>1, <1>3 DEF Stays

\* GetData puts its datum at the end of the queue and of its history, or at neither.
LEMMA InQueuePush ==
  ASSUME TypeInv, DeliveryInv, InQueue, NEW r \in Req, Push(r)
  PROVE  InQueue' /\ Stays /\ \A i \in Queues : Popped(i)' = Popped(i) /\ MQ'[i].subnodelist = MQ[i].subnodelist
<1>1. /\ idx[r] \in Queues /\ at[r] = "push" /\ UNCHANGED idx
  BY DEF Push, InThread, TypeInv, Aimed, Saving
<1> PICK q \in Queues : q = idx[r]
  BY <1>1
<1>2. /\ MQ[q].data \in Seq(Req) /\ queued[q] \in Seq(Req) /\ MQ \in [Queues -> QueueRec]
      /\ queued \in [Queues -> Seq(Req)]
  BY <1>1, Tables DEF TypeInv, TypeOK
<1>3. PICK kept \in BOOLEAN :
        /\ MQ' = [MQ EXCEPT ![q].data = IF kept THEN Append(@, r) ELSE @, ![q].savedataflag = FALSE]
        /\ queued' = IF kept THEN [queued EXCEPT ![q] = Append(@, r)] ELSE queued
  BY DEF Push
<1>4. /\ \A i \in Queues : MQ'[i].subnodelist = MQ[i].subnodelist
      /\ \A i \in Queues \ {q} : MQ'[i].data = MQ[i].data /\ queued'[i] = queued[i]
      /\ MQ'[q].data = (IF kept THEN Append(MQ[q].data, r) ELSE MQ[q].data)
      /\ queued'[q] = IF kept THEN Append(queued[q], r) ELSE queued[q]
  <2>1. \A i \in Queues : MQ'[i].subnodelist = MQ[i].subnodelist
    BY ONLY <1>2, <1>3 DEF QueueRec
  <2>2. \A i \in Queues \ {q} : MQ'[i].data = MQ[i].data
    BY ONLY <1>2, <1>3 DEF QueueRec
  <2>3. MQ'[q].data = (IF kept THEN Append(MQ[q].data, r) ELSE MQ[q].data)
    BY ONLY <1>2, <1>3, q \in Queues DEF QueueRec
  <2>4. /\ \A i \in Queues \ {q} : queued'[i] = queued[i]
        /\ queued'[q] = IF kept THEN Append(queued[q], r) ELSE queued[q]
    BY ONLY <1>2, <1>3, q \in Queues
  <2> QED
    BY ONLY <2>1, <2>2, <2>3, <2>4
<1>5. r \notin ToSet(queued[q])
  BY <1>1 DEF DeliveryInv, Kept
<1>6. /\ IsInjective(queued[q]) /\ \A x \in ToSet(queued[q]) : idx[x] = q
      /\ Popped(q) \in Nat /\ \A p \in DOMAIN MQ[q].data : MQ[q].data[p] = queued[q][Popped(q) + p]
  BY <1>1 DEF InQueue
<1>7. /\ IsInjective(queued'[q]) /\ \A x \in ToSet(queued'[q]) : idx'[x] = q
      /\ Popped(q)' = Popped(q) /\ \A p \in DOMAIN MQ'[q].data : MQ'[q].data[p] = queued'[q][Popped(q) + p]
      /\ \A p \in DOMAIN queued[q] : p \in DOMAIN queued'[q] /\ queued'[q][p] = queued[q][p]
  <2>1. CASE ~kept
    BY <1>1, <1>4, <1>6, <2>1 DEF Popped
  <2>2. CASE kept
    <3>1. MQ'[q].data = Append(MQ[q].data, r) /\ queued'[q] = Append(queued[q], r)
      BY <1>4, <2>2
    <3>2. ToSet(queued'[q]) = ToSet(queued[q]) \cup {r}
      BY ONLY <1>2, <3>1, ToSetAppend, r \in Req
    <3>3. /\ Len(queued'[q]) = Len(queued[q]) + 1 /\ Len(MQ'[q].data) = Len(MQ[q].data) + 1
          /\ queued'[q][Len(queued[q]) + 1] = r /\ MQ'[q].data[Len(MQ[q].data) + 1] = r
          /\ DOMAIN queued'[q] = 1..(Len(queued[q]) + 1) /\ DOMAIN MQ'[q].data = 1..(Len(MQ[q].data) + 1)
          /\ DOMAIN queued[q] = 1..Len(queued[q]) /\ DOMAIN MQ[q].data = 1..Len(MQ[q].data)
          /\ \A p \in 1..Len(queued[q]) : queued'[q][p] = queued[q][p]
          /\ \A p \in 1..Len(MQ[q].data) : MQ'[q].data[p] = MQ[q].data[p]
          /\ Len(queued[q]) \in Nat /\ Len(MQ[q].data) \in Nat
      BY ONLY <1>2, <3>1
    <3>4. IsInjective(queued'[q])
      BY ONLY <1>2, <1>5, <1>6, <3>1, r \in Req, InjectiveAppend
    <3>5. \A x \in ToSet(queued'[q]) : idx'[x] = q
      BY <1>1, <1>6, <3>2
    <3>6. Popped(q)' = Popped(q)
      BY ONLY <3>3 DEF Popped
    <3>7. \A p \in DOMAIN MQ'[q].data : MQ'[q].data[p] = queued'[q][Popped(q) + p]
      <4> SUFFICES ASSUME NEW p \in DOMAIN MQ'[q].data PROVE MQ'[q].data[p] = queued'[q][Popped(q) + p]
        OBVIOUS
      <4> PICK l \in Nat, m \in Nat : l = Len(queued[q]) /\ m = Len(MQ[q].data)
        BY <3>3
      <4>1. Popped(q) = l - m /\ l >= m /\ p \in 1..(m + 1)
        BY <1>6, <3>3 DEF Popped
      <4>2. CASE p \in 1..m
        <5>1. Popped(q) + p \in 1..l
          BY ONLY <4>1, <4>2, l \in Nat, m \in Nat
        <5> QED
          BY <1>6, <3>3, <4>2, <5>1
      <4>3. CASE p = m + 1
        <5>1. Popped(q) + p = l + 1
          BY ONLY <4>1, <4>3, l \in Nat, m \in Nat
        <5> QED
          BY <3>3, <4>3, <5>1
      <4>4. p \in 1..m \/ p = m + 1
        BY ONLY <4>1, m \in Nat
      <4> QED
        BY <4>2, <4>3, <4>4
    <3> QED
      BY <3>3, <3>4, <3>5, <3>6, <3>7
  <2> QED
    BY <2>1, <2>2
<1>8. \A i \in Queues : Popped(i)' = Popped(i)
  BY <1>4, <1>7 DEF Popped
<1>9. InQueue'
  <2> SUFFICES ASSUME NEW i \in Queues
               PROVE  /\ IsInjective(queued'[i]) /\ \A x \in ToSet(queued'[i]) : idx'[x] = i
                      /\ Popped(i)' \in Nat
                      /\ \A p \in DOMAIN MQ'[i].data : MQ'[i].data[p] = queued'[i][Popped(i)' + p]
    BY DEF InQueue
  <2>1. CASE i = q
    BY <1>6, <1>7, <2>1
  <2>2. CASE i # q
    BY <1>1, <1>4, <1>8, <2>2 DEF InQueue
  <2> QED
    BY <2>1, <2>2
<1>10. Stays
  BY <1>4, <1>7 DEF Stays
<1> QED
  BY <1>4, <1>8, <1>9, <1>10

\* The sendThread takes the front off its queue.
LEMMA InQueuePop ==
  ASSUME TypeInv, DeliveryInv, InQueue, NEW i \in Queues, NEW k \in 1..2, Pop(i, k), UNCHANGED <<queued, idx>>
  PROVE  /\ InQueue' /\ Stays /\ Popped(i)' = Popped(i) + 1
         /\ \A q \in Queues \ {i} : MQ'[q] = MQ[q]
<1>1. MQ \in [Queues -> QueueRec] /\ queued \in [Queues -> Seq(Req)]
  BY Tables DEF TypeInv, TypeOK
<1>2. MQ' = [MQ EXCEPT ![i].data = Tail(@)] /\ k \in DOMAIN senders[i] /\ senders[i][k].pc = "send"
  BY DEF Pop, In
<1>3. Len(MQ[i].data) # 0 /\ MQ[i].data \in Seq(Req)
  BY <1>1, <1>2 DEF DeliveryInv, Serving, Serves, QueueRec
<1>4. MQ'[i].data = Tail(MQ[i].data) /\ \A q \in Queues \ {i} : MQ'[q] = MQ[q]
  BY <1>1, <1>2 DEF QueueRec
<1>5. /\ Len(MQ'[i].data) = Len(MQ[i].data) - 1 /\ Len(MQ[i].data) \in Nat \ {0}
      /\ DOMAIN MQ'[i].data = 1..(Len(MQ[i].data) - 1) /\ DOMAIN MQ[i].data = 1..Len(MQ[i].data)
      /\ \A p \in 1..(Len(MQ[i].data) - 1) : MQ'[i].data[p] = MQ[i].data[p + 1]
  BY ONLY <1>3, <1>4
<1>6. Len(queued[i]) \in Nat
  BY <1>1
<1>7. Popped(i)' = Popped(i) + 1
  BY ONLY <1>5, <1>6, UNCHANGED queued DEF Popped
<1>8. Popped(i) \in Nat /\ \A p \in DOMAIN MQ[i].data : MQ[i].data[p] = queued[i][Popped(i) + p]
  BY DEF InQueue
<1>9. \A p \in DOMAIN MQ'[i].data : MQ'[i].data[p] = queued[i][(Popped(i) + 1) + p]
  <2> SUFFICES ASSUME NEW p \in 1..(Len(MQ[i].data) - 1) PROVE MQ[i].data[p + 1] = queued[i][(Popped(i) + 1) + p]
    BY <1>5
  <2>1. p + 1 \in DOMAIN MQ[i].data /\ Popped(i) + (p + 1) = (Popped(i) + 1) + p
    BY <1>5, <1>8
  <2> QED
    BY <1>8, <2>1
<1>10. \A q \in Queues \ {i} : Popped(q)' = Popped(q)
  BY <1>4 DEF Popped
<1>11. InQueue'
  <2> SUFFICES ASSUME NEW q \in Queues
               PROVE  /\ IsInjective(queued'[q]) /\ \A x \in ToSet(queued'[q]) : idx'[x] = q
                      /\ Popped(q)' \in Nat
                      /\ \A p \in DOMAIN MQ'[q].data : MQ'[q].data[p] = queued'[q][Popped(q)' + p]
    BY DEF InQueue
  <2>1. IsInjective(queued'[q]) /\ \A x \in ToSet(queued'[q]) : idx'[x] = q
    BY DEF InQueue
  <2>2. CASE q = i
    BY <1>7, <1>8, <1>9, <2>1, <2>2
  <2>3. CASE q # i
    BY <1>4, <1>10, <2>1, <2>3 DEF InQueue
  <2> QED
    BY <2>2, <2>3
<1> QED
  BY <1>4, <1>7, <1>11 DEF Stays

\* The datum that is being sent is the front of its queue.
LEMMA FrontPlace ==
  ASSUME TypeInv, DeliveryInv, InQueue, NEW i \in Queues, NEW k \in DOMAIN senders[i], senders[i][k].pc = "send",
         NEW x, x = senders[i][k].x[1]
  PROVE  x \in Req /\ x \in ToSet(queued[i]) /\ idx[x] = i /\ OrderOf(x) = Popped(i) + 1
<1>1. x = MQ[i].data[1] /\ Len(MQ[i].data) # 0 /\ MQ[i].data \in Seq(Req)
  BY Tables DEF DeliveryInv, Serving, Serves, TypeInv, QueueRec
<1>2. 1 \in DOMAIN MQ[i].data
  BY ONLY <1>1
<1>3. x \in ToSet(MQ[i].data)
  BY <1>1, <1>2 DEF ToSet
<1>4. x \in ToSet(queued[i])
  BY <1>3 DEF DeliveryInv, Within
<1>5. x = queued[i][Popped(i) + 1] /\ idx[x] = i /\ IsInjective(queued[i])
  BY <1>1, <1>2, <1>4 DEF InQueue
<1>6. Popped(i) + 1 \in DOMAIN queued[i]
  <2> PICK l \in Nat, m \in Nat : l = Len(queued[i]) /\ m = Len(MQ[i].data)
    BY <1>1 DEF TypeInv, TypeOK
  <2>1. Popped(i) = l - m /\ Popped(i) \in Nat
    BY DEF Popped, InQueue
  <2>2. m # 0 /\ DOMAIN queued[i] = 1..l
    BY <1>1 DEF TypeInv, TypeOK
  <2> QED
    BY ONLY <2>1, <2>2, l \in Nat, m \in Nat
<1>7. OrderOf(x) = Popped(i) + 1
  BY <1>4, <1>5, <1>6, Place
<1>8. x \in Req
  BY ONLY <1>1, <1>2
<1> QED
  BY <1>4, <1>5, <1>7, <1>8

\* What realsendthread writes comes last.
LEMMA Arrives ==
  ASSUME TypeInv, NEW i \in Queues, NEW k \in 1..2, NEW j \in DOMAIN MQ[i].subnodelist, realsendthread(i, k, j),
         NEW n \in Node, NEW a \in Nat, NEW y \in Req
  PROVE  /\ SentAt(n, a, y) => a \in 1..Len(inbox[n])
         /\ SentAt(n, a, y)' => \/ SentAt(n, a, y)
                               \/ /\ n = nodes[MQ[i].subnodelist[j]].name /\ y = senders[i][k].x[1]
                                  /\ a = Len(inbox[n]) + 1
<1> DEFINE x == senders[i][k].x[1]
           m == <<MQ[i].name, x>>
           name == nodes[MQ[i].subnodelist[j]].name
<1>1. inbox' = [inbox EXCEPT ![name] = Append(@, m)] \/ UNCHANGED inbox
  BY DEF realsendthread, ClientBindIpAndPort, MyClientCallBack
<1>2. inbox \in [Node -> Seq(Topic \X Req)]
  BY DEF TypeInv, TypeOK
<1>3. m[2] = x
  OBVIOUS
<1>4. m \in Topic \X Req
  BY Sending DEF realsendthread
<1> HIDE DEF m, name
<1>5. DOMAIN inbox[n] = 1..Len(inbox[n])
  BY <1>2
<1>6. CASE inbox'[n] = inbox[n]
  BY <1>5, <1>6 DEF SentAt
<1>7. CASE n = name /\ inbox'[n] = Append(inbox[n], m)
  <2>1. /\ DOMAIN inbox'[n] = 1..(Len(inbox[n]) + 1) /\ inbox'[n][Len(inbox[n]) + 1] = m
        /\ \A b \in 1..Len(inbox[n]) : inbox'[n][b] = inbox[n][b]
        /\ Len(inbox[n]) \in Nat
    BY ONLY <1>2, <1>4, <1>7, n \in Node
  <2>2. a \in 1..(Len(inbox[n]) + 1) => a \in 1..Len(inbox[n]) \/ a = Len(inbox[n]) + 1
    BY <2>1
  <2> QED
    BY <1>3, <1>5, <1>7, <2>1, <2>2 DEF SentAt, name
<1>8. inbox'[n] = inbox[n] \/ (n = name /\ inbox'[n] = Append(inbox[n], m))
  BY ONLY <1>1, <1>2, n \in Node
<1> QED
  BY <1>6, <1>7, <1>8

\* Only a push changes what was queued, and only a pop and a push what a queue holds.
LEMMA InQueueStep ==
  ASSUME TypeInv, DeliveryInv, InQueue, [Next]_vars
  PROVE  InQueue' /\ Stays
<1>1. Settled
  BY SettledStep
<1>2. ASSUME UNCHANGED queued, \A i \in Queues : MQ'[i].data = MQ[i].data PROVE InQueue' /\ Stays
  BY <1>1, <1>2, InQueueFrame
<1>3. CASE UNCHANGED vars
  BY <1>2, <1>3 DEF vars
<1>4. ASSUME NEW r \in Req, MyServerCallBack(r) PROVE InQueue' /\ Stays
  BY <1>2, <1>4, AddingLeaves, InQueuePush
<1>5. MQ \in [Queues -> QueueRec]
  BY Tables DEF TypeInv
<1>6. ASSUME NEW i \in Queues, TransmitData(i) PROVE InQueue' /\ Stays
  BY <1>2, <1>5, <1>6 DEF TransmitData, QueueRec
<1>7. ASSUME NEW i \in Queues, NEW k \in 1..2, sendThread(i, k) PROVE InQueue' /\ Stays
  <2>1. UNCHANGED <<queued, idx>>
    BY <1>7 DEF sendThread, threads
  <2>2. CASE TakeFront(i, k)
    BY <1>2, <2>1, <2>2 DEF TakeFront
  <2>3. CASE Pop(i, k)
    BY <2>1, <2>3, InQueuePop
  <2>4. CASE Finish(i, k)
    BY <1>2, <1>5, <2>1, <2>4 DEF Finish, QueueRec
  <2> QED
    BY <1>7, <2>2, <2>3, <2>4 DEF sendThread
<1>8. ASSUME NEW i \in Queues, NEW k \in 1..2, NEW j \in DOMAIN MQ[i].subnodelist, realsendthread(i, k, j)
      PROVE  InQueue' /\ Stays
  BY <1>2, <1>8 DEF realsendthread
<1>9. ASSUME NEW n \in Node, CreateClient(n) PROVE InQueue' /\ Stays
  BY <1>2, <1>9 DEF CreateClient
<1> QED
  BY <1>3, <1>4, <1>6, <1>7, <1>8, <1>9 DEF Next, Broker

LEMMA PlaceStep == TypeInv /\ DeliveryInv /\ PlaceInv /\ [Next]_vars => PlaceInv'
<1> SUFFICES ASSUME TypeInv, DeliveryInv, PlaceInv, [Next]_vars PROVE PlaceInv'
  OBVIOUS
<1>1. Settled /\ InQueue' /\ Stays
  BY SettledStep, InQueueStep DEF PlaceInv
<1>2. CASE UNCHANGED inbox
  BY <1>1, <1>2, PlaceFrame
<1>3. ASSUME NEW i \in Queues, NEW k \in 1..2, NEW j \in DOMAIN MQ[i].subnodelist, realsendthread(i, k, j)
      PROVE  PlaceInv'
  <2>1. UNCHANGED <<idx, queued>> /\ k \in DOMAIN senders[i] /\ senders[i][k].pc = "send"
    BY <1>3 DEF realsendthread, In
  <2>2. PICK x : x = senders[i][k].x[1]
    OBVIOUS
  <2>3. x \in ToSet(queued[i]) /\ idx[x] = i
    <3>1. InQueue
      BY DEF PlaceInv
    <3> QED
      BY ONLY <2>1, <2>2, <3>1, FrontPlace, TypeInv, DeliveryInv, i \in Queues
  <2>4. \A n \in Node, y \in Req : Got(n, y)' => Got(n, y) \/ y = x
    <3>1. ASSUME NEW n \in Node, NEW y \in Req, NEW a \in Nat, SentAt(n, a, y)'
          PROVE  SentAt(n, a, y) \/ y = x
      <4>1. SentAt(n, a, y)' => \/ SentAt(n, a, y)
                               \/ /\ n = nodes[MQ[i].subnodelist[j]].name /\ y = senders[i][k].x[1]
                                  /\ a = Len(inbox[n]) + 1
        BY ONLY <1>3, Arrives, TypeInv, i \in Queues, k \in 1..2, j \in DOMAIN MQ[i].subnodelist,
                n \in Node, y \in Req, a \in Nat, Zenon
      <4> QED
        BY ONLY <2>2, <3>1, <4>1
    <3> QED
      BY <3>1 DEF Got
  <2>5. Sent'
    BY <2>1, <2>3, <2>4 DEF PlaceInv, Sent
  <2> QED
    BY <1>1, <2>5 DEF PlaceInv
<1>4. ASSUME NEW r \in Req, MyServerCallBack(r) PROVE UNCHANGED inbox
  BY <1>4, AddingLeaves DEF Push, delivery
<1> QED
  BY <1>2, <1>3, <1>4 DEF Next, Broker, vars, delivery, CreateClient, TransmitData, sendThread, TakeFront, Pop, Finish

\* A slot that has a name keeps it.
LEMMA NamesKept ==
  ASSUME TypeInv, TableInv, NEW r \in Req, MyServerCallBack(r), NEW s \in Slots, nodes[s].name \in Node
  PROVE  nodes'[s].name = nodes[s].name
<1>1. nodes \in [Slots -> NodeRec]
  BY Tables DEF TypeInv
<1>2. CASE UNCHANGED nodes
  BY <1>2
<1>3. CASE op(r) = "reg" /\ AddNodeFill(r)
  <2>1. at[r] = "fill"
    BY <1>3 DEF AddNodeFill, InThread
  <2>2. num_node + 1 \in Slots /\ FilledSlots = {i \in Slots : i <= num_node} /\ num_node \in Nat
    BY <1>3, <2>1, Alone, Sizes DEF AddNodeFill, TableInv, SlotInv, Slots, TypeInv, TypeOK
  <2>3. nodes[num_node + 1].name = Nobody
    BY <2>2 DEF TableInv, SlotInv, FreeSlots
  <2>4. s # num_node + 1
    BY <2>3, MasterAssumption
  <2>5. nodes' = [nodes EXCEPT ![num_node + 1].name = r[1]]
    BY <1>3 DEF AddNodeFill
  <2> QED
    BY ONLY <1>1, <2>2, <2>4, <2>5, s \in Slots
<1>4. CASE EnterSub(r)
  <2>1. nodes' = [nodes EXCEPT ![Slot(r)].sub_list = Append(@, topic(r))]
    BY <1>4 DEF EnterSub
  <2> QED
    BY ONLY <1>1, <2>1, s \in Slots DEF NodeRec
<1>5. CASE EnterPub(r)
  <2>1. nodes' = [nodes EXCEPT ![Slot(r)].pub_list = Append(@, topic(r))]
    BY <1>5 DEF EnterPub
  <2> QED
    BY ONLY <1>1, <2>1, s \in Slots DEF NodeRec
<1> QED
  BY <1>2, <1>3, <1>4, <1>5 DEF MyServerCallBack, AddNode, AddNodeCheck, AddNodeCount, AddSub, AddPub, Seek,
     Refuse, Enter, CountQueue, GetData, Find, Claim, Push, FindUndefined, Beyond, Undefined, tables

\* A queue whose sendThread does nothing advances, if only by standing still.
LEMMA AdvancesFrame ==
  ASSUME TypeInv, DeliveryInv, InQueue, Grows, NEW i \in Queues, Popped(i)' = Popped(i), senders'[i] = senders[i],
         \A j \in DOMAIN MQ[i].subnodelist : nodes'[MQ[i].subnodelist[j]].name = nodes[MQ[i].subnodelist[j]].name
  PROVE  Advances(i)
<1>1. Popped(i) \in Nat
  BY DEF InQueue
<1>2. \A n \in Node : Skips(n, i) => Skips(n, i)'
  BY SkipsStay
<1> QED
  BY <1>1, <1>2 DEF Advances

LEMMA OrderServer ==
  ASSUME TypeInv, TableInv, DeliveryInv, PlaceInv, OrderInv, [Next]_vars, NEW r \in Req, MyServerCallBack(r)
  PROVE  OrderInv'
<1>1. Settled /\ InQueue' /\ Stays
  BY SettledStep, InQueueStep DEF PlaceInv
<1>2. UNCHANGED <<inbox, senders>> /\ Grows /\ \A i \in Queues : Popped(i)' = Popped(i)
  <2>1. CASE Push(r)
    <3>1. \A i \in Queues : Popped(i)' = Popped(i) /\ MQ'[i].subnodelist = MQ[i].subnodelist
      BY <2>1, InQueuePush DEF PlaceInv
    <3> QED
      BY <2>1, <3>1 DEF Push, delivery, Grows
  <2>2. CASE ~Push(r)
    BY <2>2, AddingLeaves DEF Popped
  <2> QED
    BY <2>1, <2>2
<1>3. ASSUME NEW i \in Queues, NEW j \in DOMAIN MQ[i].subnodelist
      PROVE  nodes'[MQ[i].subnodelist[j]].name = nodes[MQ[i].subnodelist[j]].name
  <2>1. MQ[i].subnodelist[j] \in Slots /\ MQ[i].subnodelist[j] \in ToSet(MQ[i].subnodelist)
    BY DEF TypeInv, TypeOK, ToSet
  <2>2. nodes[MQ[i].subnodelist[j]].name \in Node
    BY <2>1 DEF TableInv, SlotInv, SubsNamed
  <2> QED
    BY <2>1, <2>2, NamesKept
<1>4. \A i \in Queues : Advances(i)
  BY <1>2, <1>3, AdvancesFrame DEF PlaceInv
<1> QED
  BY <1>1, <1>2, <1>4, OrderFrame

\* A queue with no sendThread that is sending skips nobody.
LEMMA OrderQueue ==
  ASSUME TypeInv, DeliveryInv, PlaceInv, OrderInv, [Next]_vars, UNCHANGED <<inbox, nodes>>, Grows,
         NEW i \in Queues, Advances(i),
         \A q \in Queues \ {i} : senders'[q] = senders[q] /\ Popped(q)' = Popped(q)
  PROVE  OrderInv'
<1>1. Settled /\ InQueue' /\ Stays
  BY SettledStep, InQueueStep DEF PlaceInv
<1>2. \A q \in Queues \ {i} : Advances(q)
  BY AdvancesFrame DEF PlaceInv
<1> QED
  BY <1>1, <1>2, OrderFrame

LEMMA OrderTransmit ==
  ASSUME TypeInv, DeliveryInv, PlaceInv, OrderInv, [Next]_vars, NEW i \in Queues, TransmitData(i)
  PROVE  OrderInv'
<1>1. /\ UNCHANGED <<inbox, nodes, queued>> /\ MQ' = [MQ EXCEPT ![i].flag = TRUE]
      /\ \A q \in Queues \ {i} : senders'[q] = senders[q]
  BY DEF TransmitData, tables, TypeInv, TypeOK
<1>2. \A q \in Queues : MQ'[q].data = MQ[q].data /\ MQ'[q].subnodelist = MQ[q].subnodelist
  <2>1. MQ \in [Queues -> QueueRec]
    BY Tables DEF TypeInv
  <2> QED
    BY ONLY <1>1, <2>1 DEF QueueRec
<1>3. \A q \in Queues : Popped(q)' = Popped(q)
  BY <1>1, <1>2 DEF Popped
<1>4. \A n : ~Skips(n, i)
  <2>1. DOMAIN senders[i] = {}
    BY DEF TransmitData, TypeInv, Sole
  <2> QED
    BY <2>1 DEF Skips
<1>5. Advances(i)
  BY <1>3, <1>4 DEF Advances, PlaceInv, InQueue
<1> QED
  BY <1>1, <1>2, <1>3, <1>5, OrderQueue DEF Grows

LEMMA OrderSendThread ==
  ASSUME TypeInv, DeliveryInv, PlaceInv, OrderInv, [Next]_vars, NEW i \in Queues, NEW k \in 1..2, sendThread(i, k)
  PROVE  OrderInv'
<1>1. UNCHANGED <<inbox, nodes, queued, idx>>
  BY DEF sendThread, TakeFront, Pop, Finish, tables, threads
<1>2. /\ MQ \in [Queues -> QueueRec] /\ senders \in [Queues -> Seq(Sender)]
      /\ Popped(i) \in Nat
  BY Tables DEF TypeInv, TypeOK, PlaceInv, InQueue
<1>3. \A q \in Queues \ {i} : senders'[q] = senders[q]
  BY <1>2 DEF sendThread, TakeFront, Pop, Finish
<1>4. CASE Pop(i, k)
  <2>1. Popped(i)' = Popped(i) + 1 /\ \A q \in Queues \ {i} : MQ'[q] = MQ[q]
    BY <1>1, <1>4, InQueuePop DEF PlaceInv
  <2>2. Advances(i)
    BY <1>2, <2>1 DEF Advances
  <2>3. Grows
    <3>1. MQ' = [MQ EXCEPT ![i].data = Tail(@)]
      BY <1>4 DEF Pop
    <3>2. \A q \in Queues : MQ'[q].subnodelist = MQ[q].subnodelist
      BY ONLY <1>2, <3>1 DEF QueueRec
    <3> QED
      BY <3>2 DEF Grows
  <2>4. \A q \in Queues \ {i} : Popped(q)' = Popped(q)
    BY <1>1, <2>1 DEF Popped
  <2> QED
    BY <1>1, <1>3, <2>2, <2>3, <2>4, OrderQueue
<1>5. CASE TakeFront(i, k) \/ Finish(i, k)
  <2>1. k \in DOMAIN senders[i] /\ senders[i][k].pc # "send" /\ DOMAIN senders[i] = {k}
    <3>1. k \in DOMAIN senders[i] /\ senders[i][k].pc # "send"
      BY <1>5 DEF TakeFront, Finish, In
    <3>2. k = 1 /\ senders[i] = <<senders[i][1]>>
      BY <3>1, OnlySender DEF TypeInv
    <3> QED
      BY <3>1, <3>2
  <2>2. \A n : ~Skips(n, i)
    BY <2>1 DEF Skips
  <2>3. UNCHANGED MQ \/ MQ' = [MQ EXCEPT ![i].flag = FALSE]
    BY <1>5 DEF TakeFront, Finish
  <2>4. \A q \in Queues : MQ'[q].data = MQ[q].data /\ MQ'[q].subnodelist = MQ[q].subnodelist
    <3>1. CASE UNCHANGED MQ
      BY <3>1
    <3>2. CASE MQ' = [MQ EXCEPT ![i].flag = FALSE]
      BY ONLY <1>2, <3>2 DEF QueueRec
    <3> QED
      BY <2>3, <3>1, <3>2
  <2>5. \A q \in Queues : Popped(q)' = Popped(q)
    BY <1>1, <2>4 DEF Popped
  <2>6. Advances(i)
    BY <1>2, <2>2, <2>5 DEF Advances
  <2> QED
    BY <1>1, <1>3, <2>4, <2>5, <2>6, OrderQueue DEF Grows
<1> QED
  BY <1>4, <1>5 DEF sendThread

\* A node is sent the front of a queue once, after all that left the queue before.
LEMMA OrderRealSend ==
  ASSUME TypeInv, TableInv, DeliveryInv, PlaceInv, OrderInv, [Next]_vars,
         NEW i \in Queues, NEW k \in 1..2, NEW j \in DOMAIN MQ[i].subnodelist, realsendthread(i, k, j)
  PROVE  OrderInv'
<1>1. /\ UNCHANGED <<nodes, MQ, queued, idx>> /\ k \in DOMAIN senders[i]
      /\ senders[i][k].pc = "send" /\ j \in senders[i][k].todo
      /\ senders' = [senders EXCEPT ![i][k].todo = @ \ {j}]
  BY DEF realsendthread, In, tables
<1>2. k = 1 /\ \E s : senders[i] = <<s>>
  BY <1>1, OnlySender DEF TypeInv
<1>3. Settled /\ InQueue' /\ Stays
  BY SettledStep, InQueueStep DEF PlaceInv
<1>4. Fixed
  BY <1>3, FixedStep
<1>5. \A q \in Queues : Popped(q)' = Popped(q) /\ Popped(q) \in Nat
  BY <1>1 DEF Popped, PlaceInv, InQueue
<1>6. /\ DOMAIN senders[i] = {1} /\ DOMAIN senders'[i] = {1} /\ senders'[i][1].pc = "send"
      /\ senders'[i][1].todo = senders[i][1].todo \ {j} /\ \A q \in Queues \ {i} : senders'[q] = senders[q]
  <2> DEFINE b == [senders[i][k] EXCEPT !.todo = @ \ {j}]
  <2>1. senders \in [Queues -> Seq(Sender)] /\ senders[i][k] \in Sender
    BY <1>1 DEF TypeInv, TypeOK
  <2>2. b.pc = "send" /\ b.todo = senders[i][1].todo \ {j}
    BY <1>1, <1>2, <2>1 DEF Sender
  <2>3. senders' = [senders EXCEPT ![i][1] = b]
    BY <1>1, <1>2
  <2> HIDE DEF b
  <2> QED
    BY ONLY <1>2, <2>1, <2>2, <2>3, i \in Queues
<1>7. \A q \in Queues : Advances(q)
  <2>1. Grows
    BY <1>1 DEF Grows
  <2>2. \A q \in Queues \ {i} : Advances(q)
    BY <1>1, <1>5, <1>6, <2>1, AdvancesFrame DEF PlaceInv
  <2>3. \A n : Skips(n, i) => Skips(n, i)'
    BY <1>1, <1>6 DEF Skips
  <2>4. Advances(i)
    BY <1>5, <2>3 DEF Advances
  <2> QED
    BY <2>2, <2>4
<1>8. PICK x, name : x = senders[i][k].x[1] /\ name = nodes[MQ[i].subnodelist[j]].name
  OBVIOUS
<1>9. x \in Req /\ x \in ToSet(queued[i]) /\ idx[x] = i /\ OrderOf(x) = Popped(i) + 1
  BY <1>1, <1>8, FrontPlace DEF PlaceInv
<1>10. idx'[x] = i /\ OrderOf(x)' = Popped(i) + 1
  BY <1>1, <1>9 DEF OrderOf
<1>11. ~Skips(name, i)
  BY <1>1, <1>2, <1>6, <1>8 DEF Skips
<1>12. ASSUME name \in Node PROVE Skips(name, i)'
  <2>1. ASSUME NEW m \in senders'[i][1].todo PROVE nodes[MQ[i].subnodelist[m]].name # name
    <3>1. m # j /\ m \in DOMAIN MQ[i].subnodelist
      BY <1>1, <1>2, <1>6, <2>1 DEF DeliveryInv, Serving, Serves
    <3>2. MQ[i].subnodelist[m] # MQ[i].subnodelist[j]
      BY <3>1 DEF TableInv, QueueInv, Once, IsInjective
    <3>3. MQ[i].subnodelist[m] \in Slots /\ MQ[i].subnodelist[j] \in Slots
      BY <3>1 DEF TypeInv, TypeOK
    <3> QED
      BY <1>8, <1>12, <3>2, <3>3 DEF TableInv, SlotInv, NamesAgree
  <2> QED
    BY <1>1, <1>6, <2>1 DEF Skips
<1>13. ASSUME NEW n \in Node, NEW a \in Nat, NEW y \in Req
       PROVE  /\ SentAt(n, a, y) => a \in 1..Len(inbox[n])
              /\ SentAt(n, a, y)' => SentAt(n, a, y) \/ (n = name /\ y = x /\ a = Len(inbox[n]) + 1)
  <2>1. realsendthread(i, k, j)
    OBVIOUS
  <2>2. SentAt(n, a, y) => a \in 1..Len(inbox[n])
    BY ONLY <1>13, <2>1, Arrives, TypeInv, i \in Queues, k \in 1..2, j \in DOMAIN MQ[i].subnodelist
  <2>3. SentAt(n, a, y)' =>
          \/ SentAt(n, a, y)
          \/ /\ n = nodes[MQ[i].subnodelist[j]].name /\ y = senders[i][k].x[1]
             /\ a = Len(inbox[n]) + 1
    BY ONLY <1>13, <2>1, Arrives, TypeInv, i \in Queues, k \in 1..2, j \in DOMAIN MQ[i].subnodelist
  <2> QED
    BY <1>8, <2>2, <2>3
<1>14. AllBehind'
  <2> SUFFICES ASSUME NEW n \in Node, NEW y \in Req, Got(n, y)'
               PROVE  Behind(n, idx[y], OrderOf(y))'
    BY DEF AllBehind
  <2>1. CASE Got(n, y)
    BY <1>3, <1>4, <1>7, <2>1, GotBehind
  <2>2. CASE n = name /\ y = x
    <3>1. Skips(n, i)'
      BY <1>1, <1>12, <2>2
    <3> QED
      BY <1>5, <1>10, <2>2, <3>1 DEF Behind
  <2> QED
    BY <1>13, <2>1, <2>2 DEF Got
<1>15. InOrder'
  <2> SUFFICES ASSUME NEW n \in Node, NEW y \in Req, NEW z \in Req, NEW a \in Nat, NEW b \in Nat,
                      SentAt(n, a, y)', SentAt(n, b, z)', a < b, idx'[y] = idx'[z]
               PROVE  OrderOf(y)' < OrderOf(z)'
    BY DEF InOrder
  <2>1. Len(inbox[n]) \in Nat
    BY DEF TypeInv, TypeOK
  <2>2. CASE SentAt(n, a, y) /\ SentAt(n, b, z)
    BY <1>4, <2>2, GotInOrder DEF OrderInv
  <2>3. CASE SentAt(n, a, y) /\ n = name /\ z = x
    <3>1. Got(n, y)
      BY <2>3 DEF Got
    <3>2. idx[y] = i /\ OrderOf(y)' = OrderOf(y)
      BY <1>4, <1>10, <2>3, <3>1 DEF Fixed
    <3>3. Behind(n, i, OrderOf(y))
      BY <3>1, <3>2 DEF OrderInv, AllBehind
    <3>4. OrderOf(y) \in Nat
      <4>1. y \in ToSet(queued[i]) /\ IsInjective(queued[i])
        BY <3>1, <3>2 DEF PlaceInv, Sent, InQueue
      <4>2. OrderOf(y) \in DOMAIN queued[i]
        BY <3>2, <4>1, Place
      <4>3. queued[i] \in Seq(Req)
        BY DEF TypeInv, TypeOK
      <4> QED
        BY ONLY <4>2, <4>3
    <3>5. OrderOf(y) <= Popped(i)
      BY <1>11, <2>3, <3>3 DEF Behind
    <3> QED
      BY <1>5, <1>10, <2>3, <3>2, <3>4, <3>5
  <2>4. CASE ~SentAt(n, a, y)
    <3>1. a = Len(inbox[n]) + 1
      BY <1>13, <2>4
    <3>2. b \in 1..Len(inbox[n]) \/ b = Len(inbox[n]) + 1
      BY <1>13
    <3> QED
      BY ONLY <2>1, <3>1, <3>2, a < b
  <2> QED
    BY <1>13, <2>2, <2>3, <2>4
<1> QED
  BY <1>14, <1>15 DEF OrderInv

LEMMA OrderStep == TypeInv /\ TablesHold /\ DeliveryInv /\ PlaceInv /\ OrderHolds /\ [Next]_vars => OrderHolds'
<1> SUFFICES ASSUME TypeInv, TablesHold, DeliveryInv, PlaceInv, OrderHolds, [Next]_vars, ~raced' PROVE OrderInv'
  BY DEF OrderHolds
<1>1. ~raced
  <2>1. ASSUME NEW r \in Req, MyServerCallBack(r) PROVE ~raced
    BY <2>1 DEF MyServerCallBack, AddNode, AddNodeCheck, AddNodeFill, AddNodeCount, AddSub, AddPub, Seek, Refuse,
       Enter, EnterSub, EnterPub, CountQueue, Added, GetData, Find, Claim, Push, FindUndefined, Beyond, Undefined, tables
  <2> QED
    BY <2>1 DEF Next, Broker, vars, tables, TransmitData, sendThread, realsendthread, CreateClient
<1>2. TableInv /\ OrderInv
  BY <1>1 DEF TablesHold, OrderHolds
<1>3. Settled /\ InQueue' /\ Stays
  BY SettledStep, InQueueStep DEF PlaceInv
<1>4. ASSUME UNCHANGED <<inbox, nodes, MQ, senders, queued>> PROVE OrderInv'
  <2>1. Grows /\ \A q \in Queues : Popped(q)' = Popped(q)
    BY <1>4 DEF Grows, Popped
  <2>2. \A q \in Queues : Advances(q)
    BY <1>4, <2>1, AdvancesFrame DEF PlaceInv
  <2> QED
    BY <1>2, <1>3, <1>4, <2>2, OrderFrame
<1>5. CASE UNCHANGED vars
  BY <1>4, <1>5 DEF vars, tables, delivery
<1>6. ASSUME NEW n \in Node, CreateClient(n) PROVE OrderInv'
  BY <1>4, <1>6 DEF CreateClient, tables, delivery
<1>7. ASSUME NEW r \in Req, MyServerCallBack(r) PROVE OrderInv'
  BY <1>2, <1>7, OrderServer
<1>8. ASSUME NEW i \in Queues, TransmitData(i) PROVE OrderInv'
  BY <1>2, <1>8, OrderTransmit
<1>9. ASSUME NEW i \in Queues, NEW k \in 1..2, sendThread(i, k) PROVE OrderInv'
  BY <1>2, <1>9, OrderSendThread
<1>10. ASSUME NEW i \in Queues, NEW k \in 1..2, NEW j \in DOMAIN MQ[i].subnodelist, realsendthread(i, k, j)
       PROVE  OrderInv'
  BY <1>2, <1>10, OrderRealSend
<1> QED
  BY <1>5, <1>6, <1>7, <1>8, <1>9, <1>10 DEF Next, Broker

LEMMA OrderInit == Init => PlaceInv /\ OrderHolds
<1> SUFFICES ASSUME Init PROVE PlaceInv /\ OrderInv
  BY DEF OrderHolds
<1>1. InQueue
  BY DEF Init, NoQueue, InQueue, IsInjective, ToSet, Popped
<1>2. \A n \in Node : \A a \in Nat, x \in Req : ~SentAt(n, a, x)
  BY DEF Init, SentAt
<1>3. Sent /\ AllBehind /\ InOrder
  BY <1>2 DEF Sent, AllBehind, InOrder, Got
<1> QED
  BY <1>1, <1>3 DEF PlaceInv, OrderInv

\* sendThread and realsendthread: a node is sent the data of a queue in their order, and none of it twice.
THEOREM AlwaysInOrder == Spec => []SentInOrder
<1>1. TypeInv /\ OrderHolds => SentInOrder
  <2> SUFFICES ASSUME TypeInv, OrderInv, NEW n \in Node, NEW a \in DOMAIN inbox[n], NEW b \in DOMAIN inbox[n],
                      a < b, idx[inbox[n][a][2]] = idx[inbox[n][b][2]]
               PROVE  OrderOf(inbox[n][a][2]) < OrderOf(inbox[n][b][2])
    BY DEF SentInOrder, OrderHolds
  <2>1. inbox[n] \in Seq(Topic \X Req)
    BY DEF TypeInv, TypeOK
  <2>2. PICK x \in Req, y \in Req : x = inbox[n][a][2] /\ y = inbox[n][b][2]
    BY <2>1
  <2>3. a \in Nat /\ b \in Nat /\ SentAt(n, a, x) /\ SentAt(n, b, y)
    BY <2>1, <2>2 DEF SentAt
  <2>4. OrderOf(x) < OrderOf(y)
    BY <2>2, <2>3 DEF OrderInv, InOrder
  <2> QED
    BY <2>2, <2>4
<1> QED
  BY <1>1, TypeInit, TypeStep, TablesInit, TablesStep, DeliveryInit, DeliveryStep, OrderInit, PlaceStep, OrderStep,
     PTL DEF Spec
=============================================================================
