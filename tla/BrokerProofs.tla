---------------------------- MODULE BrokerProofs ----------------------------
(***************************************************************************)
(* What holds of the whole broker, for any numbers of connections, node    *)
(* numbers, names and messages.  The broker's steps are steps of the       *)
(* register or leave it alone, so that what is proved of NodeTable holds   *)
(* of the broker too; RowsHaveNodes is then inductive relative to it.      *)
(***************************************************************************)
EXTENDS Broker, WellFoundedInduction, TLAPS

NTP == INSTANCE NodeTableProofs

LEMMA SameRegister ==
  /\ NT!Init <=> NTP!Init
  /\ NT!Next <=> NTP!Next
  BY DEF NT!Init, NTP!Init, NT!Next, NTP!Next, NT!Step, NTP!Step,
    NT!Accept, NTP!Accept, NT!RetryAlloc, NTP!RetryAlloc, NT!RetrySet, NTP!RetrySet,
    NT!ResetWake, NTP!ResetWake, NT!ResetTimeout, NTP!ResetTimeout, NT!AddNode, NTP!AddNode,
    NT!Spawn, NTP!Spawn, NT!ReadOnline, NTP!ReadOnline, NT!ReadClose, NTP!ReadClose,
    NT!Delete, NTP!Delete, NT!DelNode, NTP!DelNode, NT!AllocIndex, NTP!AllocIndex,
    NT!NoneFree, NTP!NoneFree, NT!SetState, NTP!SetState, NT!Transfer, NTP!Transfer,
    NT!state_transfer, NTP!state_transfer, NT!Index, NTP!Index, NT!NoIndex, NTP!NoIndex

(***************************************************************************)
(* Every step of the broker is a step of the register or leaves it alone.  *)
(***************************************************************************)
THEOREM UsesNodeTable == Spec => NTP!Spec
<1>1. Init => NTP!Init
  BY SameRegister DEF Init
<1>2. [Next]_vars => [NTP!Next]_(NTP!vars)
  <2> SUFFICES ASSUME [Next]_vars PROVE NT!Next \/ UNCHANGED nodeVars
    BY SameRegister DEF nodeVars, NTP!vars
  <2>1. ASSUME NEW c \in Conn, OutsideStep(c) PROVE NT!Next
    BY <2>1 DEF OutsideStep, NT!Next, NT!Step
  <2>2. ASSUME NEW c \in Conn, ThreadStep(c) PROVE NT!Next
    BY <2>2 DEF ThreadStep, NT!Next, NT!Step
  <2>3. ASSUME NEW c \in Conn, Delete(c) PROVE NT!Next
    BY <2>3 DEF Delete, NT!Next, NT!Step
  <2>4. ASSUME NEW c \in Conn, HandleReg(c) \/ HandleTopic(c) \/ HandleData(c) \/ Write(c)
        PROVE  UNCHANGED nodeVars
    BY <2>4 DEF HandleReg, HandleTopic, HandleData, Write
  <2>5. ASSUME NEW d, Lookup(d) \/ CopyOne(d) PROVE UNCHANGED nodeVars
    BY <2>5 DEF Lookup, CopyOne
  <2>6. CASE UNCHANGED vars
    BY <2>6 DEF vars
  <2> QED
    BY <2>1, <2>2, <2>3, <2>4, <2>5, <2>6 DEF Next
<1> QED
  BY <1>1, <1>2, PTL DEF Spec, NTP!Spec

(***************************************************************************)
(* So the register's invariant holds in the broker.                        *)
(***************************************************************************)
THEOREM RegisterInvariant == Spec => []NTP!IInv
<1>1. NTP!NodeAssumption
  BY BrokerAssumption DEF NTP!NodeAssumption
<1> QED
  BY <1>1, UsesNodeTable, NTP!Invariance, PTL

-----------------------------------------------------------------------------
(***************************************************************************)
(* The part of the register's invariant that the topic table relies on.    *)
(***************************************************************************)
RegisterFacts ==
  /\ index2nodeptr \in [Index -> Conn \cup {NoNode}]
  /\ rd \in [Conn -> {"none", "start", "online", "done"}]
  /\ nodeIndex \in [Conn -> Index \cup {0}]
  /\ \A c \in Conn : rd[c] = "online" =>
       nodeIndex[c] \in Index /\ index2nodeptr[nodeIndex[c]] = c
  /\ \A i \in Index : index2nodeptr[i] # NoNode =>
       i \in totalNode /\ nodeIndex[index2nodeptr[i]] = i
  /\ \A c \in Conn : ct[c] = "spawn" => rd[c] = "none"

LEMMA FactsHold == NTP!IInv => RegisterFacts
  BY BrokerAssumption DEF RegisterFacts, Index, NTP!IInv, NTP!TypeOK, NTP!Threads,
     NTP!ConnectPhase, NTP!ReadPhase, NTP!RetryPhase, NTP!IndexUnique, NTP!MapAgrees,
     NTP!Claims, NTP!Owner, NTP!Number, NTP!Index, NTP!NoIndex, NTP!States

(***************************************************************************)
(* The topic table keeps its types in the broker.                          *)
(***************************************************************************)
TopicsTyped ==
  /\ sub2name \in [Index -> SUBSET Name]
  /\ pub2name \in [Index -> SUBSET Name]

LEMMA StepTyped == TopicsTyped /\ [Next]_vars => TopicsTyped'
<1> SUFFICES ASSUME TopicsTyped, [Next]_vars PROVE TopicsTyped'
  OBVIOUS
<1> USE DEF TopicsTyped
<1>1. ASSUME NEW c \in Conn, HandleTopic(c) PROVE TopicsTyped'
  BY <1>1 DEF HandleTopic, TT!pubTopic, TT!subTopic, TT!delTopic, TT!delAll, TT!delName, TT!vars
<1>2. ASSUME NEW c \in Conn, Delete(c) PROVE TopicsTyped'
  BY <1>2 DEF Delete, TT!delTopic, TT!delAll, TT!delName, topicVars
<1>3. CASE UNCHANGED topicVars
  BY <1>3 DEF topicVars
<1> QED
  BY <1>1, <1>2, <1>3 DEF Next, vars, OutsideStep, ThreadStep, HandleReg, HandleData, Write,
     Lookup, CopyOne

\* A node with topics is in the map, and has been online.
Rows ==
  \A i \in Index : sub2name[i] \cup pub2name[i] # {} =>
    /\ index2nodeptr[i] # NoNode
    /\ rd[index2nodeptr[i]] \in {"online", "done"}

LEMMA StepRows == RegisterFacts /\ TopicsTyped /\ Rows /\ [Next]_vars => Rows'
<1> SUFFICES ASSUME RegisterFacts, TopicsTyped, Rows, [Next]_vars PROVE Rows'
  OBVIOUS
<1> USE DEF RegisterFacts, TopicsTyped, Rows
<1>1. ASSUME NEW c \in Conn, HandleTopic(c) PROVE Rows'
  <2>1. rd[c] = "online" /\ UNCHANGED <<index2nodeptr, rd>>
    BY <1>1 DEF HandleTopic, Handling, nodeVars
  <2>2. \A j \in Index \ {nodeIndex[c]} : sub2name'[j] = sub2name[j] /\ pub2name'[j] = pub2name[j]
    BY <1>1, <2>1 DEF HandleTopic, TT!pubTopic, TT!subTopic, TT!delTopic, TT!delAll, TT!delName,
       TT!vars
  <2>3. index2nodeptr[nodeIndex[c]] = c /\ c # NoNode
    BY <2>1, BrokerAssumption
  <2> QED
    BY <2>1, <2>2, <2>3
<1>2. ASSUME NEW c \in Conn, Delete(c) PROVE Rows'
  <2>1. /\ UNCHANGED rd
        /\ \A j \in Index \ {nodeIndex[c]} : index2nodeptr'[j] = index2nodeptr[j]
    BY <1>2 DEF Delete, NT!Delete, NT!DelNode, NT!Index, Index
  <2>2. CASE nodeIndex[c] \in Index
    <3>1. TT!delAll(nodeIndex[c])
      BY <1>2, <2>2, BrokerAssumption DEF Delete, TT!delTopic
    <3>2. sub2name'[nodeIndex[c]] \cup pub2name'[nodeIndex[c]] = {}
      BY <2>2, <3>1 DEF TT!delAll
    <3>3. \A j \in Index \ {nodeIndex[c]} : sub2name'[j] = sub2name[j] /\ pub2name'[j] = pub2name[j]
      BY <2>2, <3>1 DEF TT!delAll
    <3> QED
      BY <2>1, <3>2, <3>3
  <2>3. CASE nodeIndex[c] \notin Index
    BY <1>2, <2>1, <2>3 DEF Delete, topicVars
  <2> QED
    BY <2>2, <2>3
<1>3. ASSUME NEW c \in Conn, ThreadStep(c) PROVE Rows'
  <2>1. UNCHANGED <<sub2name, pub2name>>
    BY <1>3 DEF ThreadStep, topicVars
  <2>2. CASE NT!AddNode(c)
    <3>1. \/ index2nodeptr' = index2nodeptr
          \/ /\ index2nodeptr[nodeIndex[c]] = NoNode
             /\ index2nodeptr' = [index2nodeptr EXCEPT ![nodeIndex[c]] = c]
      BY <2>2 DEF NT!AddNode
    <3>2. \A j \in Index : index2nodeptr[j] # NoNode => index2nodeptr'[j] = index2nodeptr[j]
      BY <3>1
    <3>3. rd' = rd
      BY <2>2 DEF NT!AddNode
    <3> QED
      BY <2>1, <3>2, <3>3
  <2>3. CASE NT!Spawn(c) \/ NT!ReadOnline(c)
    BY <2>1, <2>3 DEF NT!Spawn, NT!ReadOnline
  <2>4. CASE NT!RetrySet(c) \/ NT!ResetWake(c) \/ NT!ResetTimeout(c)
    BY <2>1, <2>4 DEF NT!RetrySet, NT!ResetWake, NT!ResetTimeout
  <2> QED
    BY <1>3, <2>2, <2>3, <2>4 DEF ThreadStep
<1>4. ASSUME NEW c \in Conn, OutsideStep(c) PROVE Rows'
  BY <1>4 DEF OutsideStep, topicVars, NT!Accept, NT!RetryAlloc, NT!ReadClose
<1>5. CASE UNCHANGED <<sub2name, pub2name, index2nodeptr, rd>>
  BY <1>5
<1> QED
  BY <1>1, <1>2, <1>3, <1>4, <1>5 DEF Next, vars, nodeVars, topicVars, HandleReg, HandleData,
     Write, Lookup, CopyOne

(***************************************************************************)
(* A number that DelNode gave back carries no topics: whoever has a bit in *)
(* the topic table is a live node that has been online.                    *)
(***************************************************************************)
THEOREM NoStaleRows == Spec => []RowsHaveNodes
<1>1. Init => TopicsTyped /\ Rows
  BY DEF Init, TT!Init, TopicsTyped, Rows
<1>2. RegisterFacts /\ Rows => RowsHaveNodes
  BY DEF RegisterFacts, Rows, RowsHaveNodes, TT!NamesOf
<1> QED
  BY <1>1, <1>2, RegisterInvariant, FactsHold, StepTyped, StepRows, PTL DEF Spec

-----------------------------------------------------------------------------
(***************************************************************************)
(* The topic table in the broker: only calls of class Topic change it, for *)
(* numbers that are node numbers.                                          *)
(***************************************************************************)
TTP == INSTANCE TopicTableProofs

LEMMA SameTopics ==
  /\ TT!Init <=> TTP!Init
  /\ \A i : /\ \A n : TT!pubTopic(n, i) <=> TTP!pubTopic(n, i)
            /\ \A n : TT!subTopic(n, i) <=> TTP!subTopic(n, i)
            /\ \A n : TT!delTopic(n, i) <=> TTP!delTopic(n, i)
  BY DEF TT!Init, TTP!Init, TT!pubTopic, TTP!pubTopic, TT!subTopic, TTP!subTopic,
     TT!delTopic, TTP!delTopic, TT!delAll, TTP!delAll, TT!delName, TTP!delName,
     TT!ClearBits, TTP!ClearBits, TT!NamesOf, TTP!NamesOf, TT!vars, TTP!vars

LEMMA TopicStep == RegisterFacts /\ [Next]_vars => [TTP!Next]_(TTP!vars)
<1> SUFFICES ASSUME RegisterFacts, [Next]_vars PROVE TTP!Next \/ UNCHANGED topicVars
  BY DEF topicVars, TTP!vars
<1>1. ASSUME NEW c \in Conn, HandleTopic(c) PROVE TTP!Next
  <2>1. nodeIndex[c] \in Index
    BY <1>1 DEF HandleTopic, Handling, RegisterFacts
  <2>2. \E n \in Name : \/ TTP!pubTopic(n, nodeIndex[c])
                        \/ TTP!subTopic(n, nodeIndex[c])
                        \/ TTP!delTopic(n, nodeIndex[c])
    BY <1>1, SameTopics DEF HandleTopic
  <2> QED
    BY <2>1, <2>2 DEF TTP!Next
<1>2. ASSUME NEW c \in Conn, Delete(c) PROVE TTP!Next \/ UNCHANGED topicVars
  BY <1>2, SameTopics DEF Delete, TTP!Next
<1>3. CASE UNCHANGED topicVars
  BY <1>3
<1> QED
  BY <1>1, <1>2, <1>3 DEF Next, vars, OutsideStep, ThreadStep, HandleReg, HandleData, Write,
     Lookup, CopyOne

(***************************************************************************)
(* Every step of the broker is a call of class Topic or leaves its maps    *)
(* alone.                                                                  *)
(***************************************************************************)
THEOREM UsesTopicTable == Spec => TTP!Spec
<1>1. Init => TTP!Init
  BY SameTopics DEF Init
<1> QED
  BY <1>1, RegisterInvariant, FactsHold, TopicStep, PTL DEF Spec, TTP!Spec

(***************************************************************************)
(* So, in the whole broker, a topic has one publisher and the three maps   *)
(* agree, whoever comes and goes.                                          *)
(***************************************************************************)
THEOREM OnePublisherEach == Spec => [](TTP!Consistent /\ TTP!SinglePublisher)
  BY UsesTopicTable, TTP!AlwaysConsistent, TTP!AlwaysSinglePublisher, PTL

-----------------------------------------------------------------------------
(***************************************************************************)
(* The types of what the broker adds to its two parts.                     *)
(***************************************************************************)
QueuesTyped ==
  /\ Message \in [Conn -> Seq({Reply} \cup Data)]
  /\ written \in [Conn -> Seq({Reply} \cup Data)]
  /\ copiers \in Seq(Copier) /\ Len(copiers) <= MaxData
  /\ subscribed \in [Conn -> SUBSET Name]

LEMMA SetOfNumbers ==
  ASSUME TTP!TypeOK, NEW n \in Name, NEW i PROVE TT!GetSubNodeSet(n, i) \subseteq Index
  BY DEF TTP!TypeOK, TT!GetSubNodeSet

LEMMA CopierSet ==
  ASSUME NEW s \in Seq(Copier), NEW d \in 1..Len(s), NEW r \in Copier
  PROVE  [s EXCEPT ![d] = r] \in Seq(Copier) /\ Len([s EXCEPT ![d] = r]) = Len(s)
  OBVIOUS

LEMMA CopyQueues ==
  ASSUME QueuesTyped, NEW d, CopyOne(d)
  PROVE  \/ UNCHANGED Message
         \/ \E c \in Conn : /\ c = index2nodeptr[Lowest(copiers[d].todo)]
                            /\ Message' = [Message EXCEPT ![c] = Append(@, d)]
<1> DEFINE c == index2nodeptr[Lowest(copiers[d].todo)]
<1>1. Message' = Message \/ Message' = [Message EXCEPT ![c] = Append(@, d)]
  BY DEF CopyOne, Queue
<1>2. c \notin Conn => [Message EXCEPT ![c] = Append(@, d)] = Message
  BY DEF QueuesTyped
<1> QED
  BY <1>1, <1>2

LEMMA StepQueues == TTP!TypeOK /\ RegisterFacts /\ QueuesTyped /\ [Next]_vars => QueuesTyped'
<1> SUFFICES ASSUME TTP!TypeOK, RegisterFacts, QueuesTyped, [Next]_vars PROVE QueuesTyped'
  OBVIOUS
<1> USE DEF QueuesTyped
<1>1. ASSUME NEW c \in Conn, HandleReg(c) PROVE QueuesTyped'
  BY <1>1 DEF HandleReg, Queue
<1>2. ASSUME NEW c \in Conn, HandleTopic(c) PROVE QueuesTyped'
  BY <1>2 DEF HandleTopic
<1>3. ASSUME NEW c \in Conn, HandleData(c) PROVE QueuesTyped'
  <2>1. nodeIndex[c] \in Index
    BY <1>3 DEF HandleData, Handling, RegisterFacts
  <2>2. \A d \in 1..Len(copiers) : d \in Data
    BY BrokerAssumption DEF Data
  <2>3. PICK n \in Name :
          copiers' = Append(copiers, [pc |-> "lookup", by |-> c, from |-> nodeIndex[c],
                                      topic |-> n, todo |-> {},
                                      past |-> {d \in 1..Len(copiers) : copiers[d].pc = "done"}])
    BY <1>3 DEF HandleData
  <2>4. copiers' \in Seq(Copier) /\ Len(copiers') <= MaxData
    BY <1>3, <2>1, <2>2, <2>3, BrokerAssumption DEF HandleData, Copier
  <2> QED
    BY <1>3, <2>4 DEF HandleData
<1>4. ASSUME NEW d \in 1..Len(copiers), Lookup(d) PROVE QueuesTyped'
  <2>1. copiers[d] \in Copier
    OBVIOUS
  <2>2. TT!GetSubNodeSet(copiers[d].topic, copiers[d].from) \subseteq Index
    BY <2>1, SetOfNumbers DEF Copier
  <2> DEFINE nodeset == TT!GetSubNodeSet(copiers[d].topic, copiers[d].from)
             r == [copiers[d] EXCEPT !.todo = nodeset,
                                     !.pc = IF nodeset = {} THEN "done" ELSE "copy"]
  <2>4. r \in Copier
    BY <2>1, <2>2 DEF Copier
  <2>5. copiers' = [copiers EXCEPT ![d] = r]
    BY <1>4 DEF Lookup
  <2>3. copiers' \in Seq(Copier) /\ Len(copiers') = Len(copiers)
    BY <2>4, <2>5, CopierSet
  <2> QED
    BY <1>4, <2>3 DEF Lookup
<1>5. ASSUME NEW d \in 1..Len(copiers), CopyOne(d) PROVE QueuesTyped'
  <2>1. copiers[d] \in Copier
    OBVIOUS
  <2> DEFINE rest == copiers[d].todo \ {Lowest(copiers[d].todo)}
             r == [copiers[d] EXCEPT !.todo = rest,
                                     !.pc = IF rest = {} THEN "done" ELSE "copy"]
  <2>4. r \in Copier
    BY <2>1 DEF Copier
  <2>5. copiers' = [copiers EXCEPT ![d] = r]
    BY <1>5 DEF CopyOne
  <2>2. copiers' \in Seq(Copier) /\ Len(copiers') = Len(copiers)
    BY <2>4, <2>5, CopierSet
  <2>3. d \in Data
    BY BrokerAssumption DEF Data
  <2>6. Message' \in [Conn -> Seq({Reply} \cup Data)]
    <3>1. \A c \in Conn : Append(Message[c], d) \in Seq({Reply} \cup Data)
      BY <2>3
    <3>2. \A c \in Conn : [Message EXCEPT ![c] = Append(@, d)] \in [Conn -> Seq({Reply} \cup Data)]
      BY <3>1
    <3>3. \/ Message' = Message
          \/ \E c \in Conn : Message' = [Message EXCEPT ![c] = Append(@, d)]
      BY <1>5, CopyQueues
    <3> QED
      BY <3>2, <3>3
  <2> QED
    BY <1>5, <2>2, <2>6 DEF CopyOne
<1>6. ASSUME NEW c \in Conn, Write(c) PROVE QueuesTyped'
  <2>1. Head(Message[c]) \in {Reply} \cup Data /\ Tail(Message[c]) \in Seq({Reply} \cup Data)
    BY <1>6 DEF Write
  <2> QED
    BY <1>6, <2>1 DEF Write
<1>7. ASSUME NEW c \in Conn, Delete(c) PROVE QueuesTyped'
  BY <1>7 DEF Delete
<1>8. ASSUME NEW c \in Conn, OutsideStep(c) \/ ThreadStep(c) PROVE QueuesTyped'
  BY <1>8 DEF OutsideStep, ThreadStep
<1>9. CASE UNCHANGED vars
  BY <1>9 DEF vars
<1> QED
  BY <1>1, <1>2, <1>3, <1>4, <1>5, <1>6, <1>7, <1>8, <1>9 DEF Next

THEOREM QueuesInvariant == Spec => []QueuesTyped
<1>1. Init => QueuesTyped
  BY BrokerAssumption DEF Init, QueuesTyped
<1> QED
  BY <1>1, RegisterInvariant, FactsHold, UsesTopicTable, TTP!TypeCorrect, StepQueues, PTL DEF Spec

(***************************************************************************)
(* The broker keeps its types.                                             *)
(***************************************************************************)
THEOREM TypeCorrect == Spec => []TypeOK
<1>1. NTP!IInv => NT!TypeOK
  BY DEF NTP!IInv, NTP!TypeOK, NT!TypeOK, NTP!States, NT!States, NTP!Index, NT!Index,
     NTP!NoIndex, NT!NoIndex
<1>2. TTP!TypeOK => TT!TypeOK
  BY DEF TTP!TypeOK, TT!TypeOK
<1>3. NT!TypeOK /\ TT!TypeOK /\ QueuesTyped => TypeOK
  BY DEF TypeOK, QueuesTyped
<1> QED
  BY <1>1, <1>2, <1>3, RegisterInvariant, UsesTopicTable, TTP!TypeCorrect, QueuesInvariant, PTL

-----------------------------------------------------------------------------
(***************************************************************************)
(* No connection gets a message twice.  The copying thread crosses numbers *)
(* off its set and a connection keeps its number for life, so that the     *)
(* number of whoever has the message is off the set (Passed).              *)
(***************************************************************************)
Msgs == {Reply} \cup Data
Out(c) == written[c] \o Message[c]

Passed(d, a) ==
  d <= Len(copiers) /\ a \in Index /\ copiers[d].pc # "lookup" /\ a \notin copiers[d].todo

OnceIn(s) == \A j, k \in 1..Len(s) : s[j] \in Data /\ s[j] = s[k] => j = k
PassedAll(s, a) == \A k \in 1..Len(s) : s[k] \in Data => Passed(s[k], a)

Once == \A c \in Conn : OnceIn(Out(c)) /\ PassedAll(Out(c), nodeIndex[c])

\* A copying thread in its loop has a number left to go.
Busy == \A d \in 1..Len(copiers) : copiers[d].pc = "copy" => copiers[d].todo # {}

LEMMA MinExists ==
  ASSUME NEW S \in SUBSET Nat, S # {}
  PROVE  \E a \in S : \A b \in S : a <= b
<1> DEFINE R == {ss \in Nat \X Nat : ss[1] < ss[2]}
<1>1. OpToRel(<, Nat) = R
  BY DEF OpToRel
<1>2. IsWellFoundedOn(R, Nat)
  BY <1>1, NatLessThanWellFounded, Zenon
<1>3. PICK x \in S : \A y \in S : ~(<<y, x>> \in R)
  <2> HIDE DEF R
  <2> QED
    BY <1>2, WFMin, Zenon
<1>4. \A y \in S : ~(y < x)
  BY <1>3
<1> QED
  BY <1>4

LEMMA LowestIsIn ==
  ASSUME NEW S \in SUBSET Index, S # {}
  PROVE  Lowest(S) \in S
<1>1. S \in SUBSET Nat
  BY BrokerAssumption DEF Index
<1> QED
  BY <1>1, MinExists DEF Lowest

\* A node that has a number keeps it.
LEMMA NumbersKept ==
  NTP!IInv /\ [Next]_vars => \A c \in Conn : nodeIndex[c] \in Index => nodeIndex'[c] = nodeIndex[c]
<1> SUFFICES ASSUME NTP!IInv, [Next]_vars, NEW c \in Conn, nodeIndex[c] \in Index
             PROVE  nodeIndex'[c] = nodeIndex[c]
  OBVIOUS
<1>1. nodeIndex[c] # 0 /\ ct[c] # "none" /\ IndexFlag[c]
  BY BrokerAssumption DEF Index, NTP!IInv, NTP!TypeOK, NTP!Threads, NTP!ConnectPhase,
     NTP!RetryPhase, NTP!NoIndex
<1>2. nodeIndex \in [Conn -> Index \cup {0}]
  BY DEF NTP!IInv, NTP!TypeOK, NTP!Index, NTP!NoIndex, Index
<1>3. ASSUME NEW e \in Conn, NT!Accept(e) PROVE nodeIndex'[c] = nodeIndex[c]
  BY <1>1, <1>2, <1>3 DEF NT!Accept
<1>4. ASSUME NEW e \in Conn, NT!RetrySet(e) PROVE nodeIndex'[c] = nodeIndex[c]
  BY <1>1, <1>2, <1>4, FactsHold DEF NT!RetrySet, NTP!IInv, NTP!Threads, NTP!RetryPhase
<1>5. CASE UNCHANGED nodeIndex
  BY <1>5
<1> QED
  BY <1>3, <1>4, <1>5 DEF Next, vars, nodeVars, OutsideStep, ThreadStep, Delete, HandleReg, HandleTopic,
     HandleData, Write, Lookup, CopyOne, NT!RetryAlloc, NT!ResetWake, NT!ResetTimeout, NT!AddNode,
     NT!Spawn, NT!ReadOnline, NT!ReadClose, NT!Delete

\* What a copying thread does to the others and to itself.
LEMMA CopierSteps ==
  ASSUME QueuesTyped, [Next]_vars
  PROVE  \A d \in 1..Len(copiers) :
           /\ Len(copiers) <= Len(copiers') /\ copiers'[d].past = copiers[d].past
           /\ \/ copiers'[d] = copiers[d]
              \/ Lookup(d) /\ copiers[d].pc = "lookup"
                   /\ copiers'[d].pc = (IF copiers'[d].todo = {} THEN "done" ELSE "copy")
              \/ CopyOne(d) /\ copiers[d].pc = "copy"
                   /\ copiers'[d].todo = copiers[d].todo \ {Lowest(copiers[d].todo)}
                   /\ copiers'[d].pc = (IF copiers'[d].todo = {} THEN "done" ELSE "copy")
<1> USE DEF QueuesTyped
<1>1. ASSUME NEW c \in Conn, HandleData(c)
      PROVE  Len(copiers') = Len(copiers) + 1 /\ \A d \in 1..Len(copiers) : copiers'[d] = copiers[d]
  BY <1>1 DEF HandleData
<1>2. ASSUME NEW d \in 1..Len(copiers), Lookup(d)
      PROVE  /\ Len(copiers') = Len(copiers) /\ copiers[d].pc = "lookup"
             /\ copiers'[d].past = copiers[d].past
             /\ copiers'[d].pc = (IF copiers'[d].todo = {} THEN "done" ELSE "copy")
             /\ \A e \in 1..Len(copiers) \ {d} : copiers'[e] = copiers[e]
  BY <1>2 DEF Lookup, Copier
<1>3. ASSUME NEW d \in 1..Len(copiers), CopyOne(d)
      PROVE  /\ Len(copiers') = Len(copiers) /\ copiers[d].pc = "copy"
             /\ copiers'[d].past = copiers[d].past
             /\ copiers'[d].todo = copiers[d].todo \ {Lowest(copiers[d].todo)}
             /\ copiers'[d].pc = (IF copiers'[d].todo = {} THEN "done" ELSE "copy")
             /\ \A e \in 1..Len(copiers) \ {d} : copiers'[e] = copiers[e]
  BY <1>3 DEF CopyOne, Copier
<1>4. CASE UNCHANGED copiers
  BY <1>4
<1> QED
  BY <1>1, <1>2, <1>3, <1>4 DEF Next, vars, OutsideStep, ThreadStep, Delete, HandleReg,
     HandleTopic, Write

LEMMA StepBusy == QueuesTyped /\ Busy /\ [Next]_vars => Busy'
<1> SUFFICES ASSUME QueuesTyped, Busy, [Next]_vars, NEW d \in 1..Len(copiers'),
                    copiers'[d].pc = "copy"
             PROVE  copiers'[d].todo # {}
  BY DEF Busy
<1>1. CASE d \in 1..Len(copiers)
  BY <1>1, CopierSteps DEF Busy
<1>2. CASE d \notin 1..Len(copiers)
  <2>0. \A e \in 1..Len(copiers) : Lookup(e) \/ CopyOne(e) => Len(copiers') = Len(copiers)
    BY DEF Lookup, CopyOne, QueuesTyped
  <2>1. PICK c \in Conn : HandleData(c)
    BY <1>2, <2>0 DEF Next, vars, OutsideStep, ThreadStep, Delete, HandleReg,
     HandleTopic, Write
  <2> QED
    BY <1>2, <2>1 DEF HandleData, QueuesTyped
<1> QED
  BY <1>1, <1>2

\* A number once crossed off stays so.
LEMMA PassedKept ==
  ASSUME QueuesTyped, [Next]_vars, NEW d \in Data, NEW a, Passed(d, a)
  PROVE  Passed(d, a)'
<1>1. d \in 1..Len(copiers)
  BY DEF Passed, Data, QueuesTyped
<1>2. /\ Len(copiers) <= Len(copiers')
      /\ copiers'[d].pc # "lookup" /\ copiers'[d].todo \subseteq copiers[d].todo
  <2>1. CASE copiers'[d] = copiers[d]
    BY <1>1, <2>1, CopierSteps DEF Passed
  <2>2. CASE copiers'[d] # copiers[d]
    BY <1>1, <2>2, CopierSteps DEF Passed
  <2> QED
    BY <2>1, <2>2
<1> QED
  BY <1>1, <1>2 DEF Passed

LEMMA OutMoves ==
  ASSUME NEW w \in Seq(Msgs), NEW q \in Seq(Msgs)
  PROVE  /\ q # <<>> => w \o q = Append(w, Head(q)) \o Tail(q)
         /\ \A m \in Msgs : w \o Append(q, m) = Append(w \o q, m)
         /\ w \o <<>> = w
         /\ w \o q \in Seq(Msgs)
<1>1. q # <<>> => w \o q = Append(w, Head(q)) \o Tail(q)
  OBVIOUS
<1>2. \A m \in Msgs : w \o Append(q, m) = Append(w \o q, m)
  OBVIOUS
<1>3. w \o <<>> = w /\ w \o q \in Seq(Msgs)
  OBVIOUS
<1> QED
  BY <1>1, <1>2, <1>3

LEMMA OnceAppend ==
  ASSUME NEW s \in Seq(Msgs), NEW m \in Msgs, OnceIn(s),
         m \in Data => \A k \in 1..Len(s) : s[k] # m
  PROVE  OnceIn(Append(s, m))
  BY DEF OnceIn

LEMMA PrefixOf ==
  ASSUME NEW w \in Seq(Msgs), NEW q \in Seq(Msgs)
  PROVE  \A k \in 1..Len(w) : k \in 1..Len(w \o q) /\ (w \o q)[k] = w[k]
  OBVIOUS

LEMMA OncePrefix ==
  ASSUME NEW w \in Seq(Msgs), NEW q \in Seq(Msgs), NEW a, OnceIn(w \o q), PassedAll(w \o q, a)
  PROVE  OnceIn(w) /\ PassedAll(w, a)
  BY PrefixOf DEF OnceIn, PassedAll

\* What a step does to what a connection has been and will be sent.
LEMMA OutSteps ==
  ASSUME RegisterFacts, QueuesTyped, [Next]_vars, NEW c \in Conn
  PROVE  \/ Out(c)' = Out(c)
         \/ Out(c)' = Append(Out(c), Reply)
         \/ Out(c)' = written[c]
         \/ \E d \in 1..Len(copiers) : /\ CopyOne(d)
                                       /\ c = index2nodeptr[Lowest(copiers[d].todo)]
                                       /\ Out(c)' = Append(Out(c), d)
<1> USE DEF QueuesTyped, Msgs
<1>1. ASSUME NEW e \in Conn, HandleReg(e) PROVE Out(c)' = Out(c) \/ Out(c)' = Append(Out(c), Reply)
  <2>1. written' = written /\ Message' = [Message EXCEPT ![e] = Append(@, Reply)]
    BY <1>1 DEF HandleReg, Queue
  <2>2. Message'[c] = Message[c] \/ Message'[c] = Append(Message[c], Reply)
    BY <2>1
  <2>3. written[c] \o Append(Message[c], Reply) = Append(written[c] \o Message[c], Reply)
    BY OutMoves
  <2> QED
    BY <2>1, <2>2, <2>3 DEF Out
<1>2. ASSUME NEW e \in Conn, Write(e) PROVE Out(c)' = Out(c)
  <2>1. CASE c = e
    <3>1. /\ Message[c] # <<>> /\ Message'[c] = Tail(Message[c])
          /\ written'[c] = Append(written[c], Head(Message[c]))
      BY <1>2, <2>1 DEF Write
    <3> QED
      BY <3>1, OutMoves DEF Out
  <2>2. CASE c # e
    BY <1>2, <2>2 DEF Write, Out
  <2> QED
    BY <2>1, <2>2
<1>3. ASSUME NEW e \in Conn, Delete(e) PROVE Out(c)' = Out(c) \/ Out(c)' = written[c]
  <2>1. written' = written /\ (Message'[c] = Message[c] \/ Message'[c] = <<>>)
    BY <1>3 DEF Delete
  <2> QED
    BY <2>1, OutMoves DEF Out
<1>4. ASSUME NEW d \in 1..Len(copiers), CopyOne(d)
      PROVE  \/ Out(c)' = Out(c)
             \/ c = index2nodeptr[Lowest(copiers[d].todo)] /\ Out(c)' = Append(Out(c), d)
  <2>1. written' = written
    BY <1>4 DEF CopyOne
  <2>2. d \in Msgs
    BY BrokerAssumption DEF Data
  <2>3. CASE Message' = Message
    BY <2>1, <2>3 DEF Out
  <2>4. ASSUME NEW e \in Conn, e = index2nodeptr[Lowest(copiers[d].todo)],
               Message' = [Message EXCEPT ![e] = Append(@, d)]
        PROVE  \/ Out(c)' = Out(c)
               \/ c = index2nodeptr[Lowest(copiers[d].todo)] /\ Out(c)' = Append(Out(c), d)
    <3>1. CASE c = e
      <4>1. Message'[c] = Append(Message[c], d)
        BY <2>4, <3>1
      <4>2. Out(c)' = Append(Out(c), d)
        BY <4>1, <2>1, <2>2, OutMoves DEF Out
      <4> QED
        BY <4>2, <3>1, <2>4
    <3>2. CASE c # e
      BY <2>1, <2>4, <3>2 DEF Out
    <3> QED
      BY <3>1, <3>2
  <2> QED
    BY <1>4, <2>3, <2>4, CopyQueues
<1>5. CASE UNCHANGED <<written, Message>>
  BY <1>5 DEF Out
<1> QED
  BY <1>1, <1>2, <1>3, <1>4, <1>5 DEF Next, vars, OutsideStep, ThreadStep, HandleTopic, HandleData,
     Lookup

LEMMA StepOnce ==
  NTP!IInv /\ QueuesTyped /\ Busy /\ Once /\ [Next]_vars => Once'
<1> SUFFICES ASSUME NTP!IInv, QueuesTyped, Busy, Once, [Next]_vars, NEW c \in Conn
             PROVE  OnceIn(Out(c)') /\ PassedAll(Out(c), nodeIndex[c])'
  BY DEF Once, OnceIn, Data
<1>1. RegisterFacts
  BY FactsHold
<1>2. OnceIn(Out(c)) /\ PassedAll(Out(c), nodeIndex[c]) /\ Out(c) \in Seq(Msgs)
  BY OutMoves DEF Once, QueuesTyped, Out, Msgs
<1>3. ASSUME NEW s, PassedAll(s, nodeIndex[c])
      PROVE  \A k \in 1..Len(s) : s[k] \in Data => Passed(s[k], nodeIndex[c])'
  <2> SUFFICES ASSUME NEW k \in 1..Len(s), s[k] \in Data PROVE Passed(s[k], nodeIndex[c])'
    OBVIOUS
  <2>1. Passed(s[k], nodeIndex[c])
    BY <1>3 DEF PassedAll
  <2>2. nodeIndex'[c] = nodeIndex[c]
    BY <2>1, NumbersKept DEF Passed
  <2> DEFINE d == s[k]
             a == nodeIndex[c]
  <2>3. Passed(d, a)
    BY <2>1
  <2> QED
    BY <2>1, <2>2, PassedKept DEF Passed
<1>4. CASE Out(c)' = Out(c)
  BY <1>2, <1>3, <1>4 DEF PassedAll
<1>5. CASE Out(c)' = Append(Out(c), Reply)
  <2>1. Reply \notin Data /\ Reply \in Msgs
    BY DEF Reply, Data, Msgs
  <2>2. OnceIn(Append(Out(c), Reply))
    BY <1>2, <2>1, OnceAppend
  <2> QED
    BY <1>2, <1>3, <1>5, <2>1, <2>2 DEF PassedAll
<1>6. CASE Out(c)' = written[c]
  <2>1. OnceIn(written[c]) /\ PassedAll(written[c], nodeIndex[c])
    BY <1>2, OncePrefix DEF Out, QueuesTyped, Msgs
  <2> QED
    BY <1>3, <1>6, <2>1 DEF PassedAll
<1>7. ASSUME NEW d \in 1..Len(copiers), CopyOne(d), c = index2nodeptr[Lowest(copiers[d].todo)],
             Out(c)' = Append(Out(c), d)
      PROVE  OnceIn(Out(c)') /\ PassedAll(Out(c), nodeIndex[c])'
  <2> DEFINE a == Lowest(copiers[d].todo)
  <2>1. copiers[d] \in Copier /\ copiers[d].pc = "copy" /\ copiers[d].todo # {}
    BY <1>7 DEF QueuesTyped, CopyOne, Busy
  <2>2. a \in copiers[d].todo /\ a \in Index
    BY <2>1, LowestIsIn DEF Copier
  <2>3. nodeIndex[c] = a /\ nodeIndex'[c] = a
    <3>1. c # NoNode
      BY BrokerAssumption
    <3>2. nodeIndex[c] = a
      BY <1>1, <1>7, <2>2, <3>1 DEF RegisterFacts
    <3> QED
      BY <2>2, <3>2, NumbersKept
  <2>4. \A k \in 1..Len(Out(c)) : Out(c)[k] # d
    <3>1. d \in Data /\ ~Passed(d, nodeIndex[c])
      BY <2>2, <2>3, BrokerAssumption DEF Passed, Data, QueuesTyped
    <3> QED
      BY <1>2, <3>1 DEF PassedAll
  <2>5. d \in Data
    BY BrokerAssumption DEF Data, QueuesTyped
  <2>6. OnceIn(Append(Out(c), d))
    BY <1>2, <2>4, <2>5, OnceAppend DEF Msgs
  <2>7. Passed(d, nodeIndex[c])'
    <3>1. copiers'[d].todo = copiers[d].todo \ {a} /\ copiers'[d].pc # "lookup" /\ d <= Len(copiers')
      BY <1>7, <2>1 DEF CopyOne, Copier, QueuesTyped
    <3> QED
      BY <2>2, <2>3, <3>1 DEF Passed
  <2> QED
    BY <1>2, <1>3, <1>7, <2>6, <2>7 DEF PassedAll
<1> QED
  BY <1>1, <1>4, <1>5, <1>6, <1>7, OutSteps

(***************************************************************************)
(* However numbers change hands while messages are copied, no connection   *)
(* is sent a data message twice.                                           *)
(***************************************************************************)
THEOREM DeliveredOnce == Spec => []AtMostOnce
<1>1. Init => Busy /\ Once
  BY DEF Init, Busy, Once, Out, OnceIn, PassedAll
<1>2. Once => AtMostOnce
  BY DEF Once, OnceIn, Out, AtMostOnce
<1> QED
  BY <1>1, <1>2, RegisterInvariant, QueuesInvariant, StepBusy, StepOnce, PTL DEF Spec

-----------------------------------------------------------------------------
(***************************************************************************)
(* The order of messages.  A copying thread that has ended stays ended, so *)
(* it queues nothing behind a message that came after its end.             *)
(***************************************************************************)
Ended == \A e \in 1..Len(copiers) : \A d \in copiers[e].past :
  d \in 1..Len(copiers) /\ copiers[d].pc = "done"

Ordered(s) == \A j, k \in 1..Len(s) :
  j < k /\ s[j] \in Data /\ s[k] \in Data => s[k] \notin copiers[s[j]].past

LEMMA StepEnded == QueuesTyped /\ Ended /\ [Next]_vars => Ended'
<1> SUFFICES ASSUME QueuesTyped, Ended, [Next]_vars, NEW e \in 1..Len(copiers'),
                    NEW d \in copiers'[e].past
             PROVE  d \in 1..Len(copiers') /\ copiers'[d].pc = "done"
  BY DEF Ended
<1>1. CASE e \in 1..Len(copiers)
  <2>1. d \in 1..Len(copiers) /\ copiers[d].pc = "done"
    BY <1>1, CopierSteps DEF Ended
  <2>2. copiers'[d] = copiers[d] /\ Len(copiers) <= Len(copiers')
    BY <2>1, CopierSteps
  <2> QED
    BY <2>1, <2>2 DEF QueuesTyped
<1>2. CASE e \notin 1..Len(copiers)
  <2>1. \A f \in 1..Len(copiers) : Lookup(f) \/ CopyOne(f) => Len(copiers') = Len(copiers)
    BY DEF Lookup, CopyOne, QueuesTyped
  <2>2. PICK c \in Conn : HandleData(c)
    BY <1>2, <2>1 DEF Next, vars, OutsideStep, ThreadStep, Delete, HandleReg,
     HandleTopic, Write
  <2> QED
    BY <1>2, <2>2 DEF HandleData, QueuesTyped
<1> QED
  BY <1>1, <1>2

LEMMA StepOrdered ==
  NTP!IInv /\ QueuesTyped /\ Once /\ Ended /\ (\A c \in Conn : Ordered(Out(c))) /\ [Next]_vars
    => (\A c \in Conn : Ordered(Out(c)))'
<1> SUFFICES ASSUME NTP!IInv, QueuesTyped, Once, Ended, [Next]_vars, NEW c \in Conn,
                    Ordered(Out(c))
             PROVE  Ordered(Out(c))'
  OBVIOUS
<1>1. Out(c) \in Seq(Msgs) /\ written[c] \in Seq(Msgs) /\ Message[c] \in Seq(Msgs)
  BY OutMoves DEF QueuesTyped, Out, Msgs
<1>2. \A k \in 1..Len(Out(c)) : Out(c)[k] \in Data =>
        Out(c)[k] \in 1..Len(copiers) /\ copiers'[Out(c)[k]].past = copiers[Out(c)[k]].past
  BY CopierSteps DEF Once, PassedAll, Passed, Data
<1>3. CASE Out(c)' = Out(c)
  BY <1>2, <1>3 DEF Ordered, Data
<1>4. CASE Out(c)' = Append(Out(c), Reply)
  <2>1. Reply \notin Data
    BY DEF Reply, Data
  <2> QED
    BY <1>1, <1>2, <1>4, <2>1 DEF Ordered, Data
<1>5. CASE Out(c)' = written[c]
  <2>1. \A k \in 1..Len(written[c]) : k \in 1..Len(Out(c)) /\ Out(c)[k] = written[c][k]
    BY <1>1, PrefixOf DEF Out
  <2> SUFFICES ASSUME NEW j \in 1..Len(written[c]), NEW k \in 1..Len(written[c]), j < k,
                      written[c][j] \in Data, written[c][k] \in Data
               PROVE  written[c][k] \notin copiers'[written[c][j]].past
    <3>1. /\ Len(Out(c)') = Len(written[c])
          /\ \A k \in 1..Len(written[c]) : Out(c)'[k] = written[c][k]
      BY <1>5
    <3> QED
      BY <3>1 DEF Ordered, Data
  <2> QED
    BY <1>2, <2>1 DEF Ordered
<1>6. ASSUME NEW d \in 1..Len(copiers), CopyOne(d), Out(c)' = Append(Out(c), d)
      PROVE  Ordered(Out(c))'
  <2>1. copiers[d].pc # "done"
    BY <1>6 DEF CopyOne
  <2>2. \A e \in 1..Len(copiers) : d \notin copiers[e].past
    BY <2>1 DEF Ended
  <2>3. /\ Len(Out(c)') = Len(Out(c)) + 1 /\ Out(c)'[Len(Out(c)')] = d
        /\ \A k \in 1..Len(Out(c)) : Out(c)'[k] = Out(c)[k]
    BY <1>1, <1>6
  <2>4. Len(Out(c)) \in Nat
    BY <1>1
  <2> SUFFICES ASSUME NEW j \in 1..Len(Out(c)), NEW k \in 1..(Len(Out(c)) + 1), j < k,
                      Out(c)[j] \in Data, Out(c)'[k] \in Data
               PROVE  Out(c)'[k] \notin copiers'[Out(c)[j]].past
    BY <2>3, <2>4 DEF Ordered, Data
  <2>5. CASE k \in 1..Len(Out(c))
    BY <1>2, <2>3, <2>5 DEF Ordered
  <2>6. CASE k = Len(Out(c)) + 1
    BY <1>2, <2>2, <2>3, <2>6
  <2> QED
    BY <2>4, <2>5, <2>6
<1> QED
  BY <1>3, <1>4, <1>5, <1>6, OutSteps, FactsHold

(***************************************************************************)
(* A message overtakes another one only while that one is being copied.    *)
(***************************************************************************)
THEOREM OvertakingBounded == Spec => []OvertakesOnlyInFlight
<1>1. Init => Busy /\ Once /\ Ended /\ \A c \in Conn : Ordered(Out(c))
  BY DEF Init, Busy, Once, Out, OnceIn, PassedAll, Ended, Ordered
<1>2. (\A c \in Conn : Ordered(Out(c))) => OvertakesOnlyInFlight
  BY DEF Ordered, Out, OvertakesOnlyInFlight
<1> QED
  BY <1>1, <1>2, RegisterInvariant, QueuesInvariant, StepBusy, StepOnce, StepEnded, StepOrdered,
     PTL DEF Spec
=============================================================================
