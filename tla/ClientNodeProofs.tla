-------------------------- MODULE ClientNodeProofs --------------------------
(***************************************************************************)
(* What holds of a client for any names, numbers and bounds.               *)
(*                                                                         *)
(* Four facts carry the rest.  The number is set before the state, and the *)
(* program waits for the state (Numbered).  The semaphore counts the       *)
(* queued messages, the post of CloseWrite and what it held at first       *)
(* (Counted), so that the writer meets an empty queue only by what it held *)
(* at first.  There is one request for a number, and it is in one place    *)
(* (OneRequest).  The last request about a topic says what the client's    *)
(* list says (Agree).                                                      *)
(***************************************************************************)
EXTENDS ClientNode, TLAPS

\* TypeOK in two parts: the Boolean variables, and all others.
Booleans ==
  /\ gaveUp \in BOOLEAN /\ shut \in BOOLEAN /\ peer \in BOOLEAN
  /\ served \in BOOLEAN /\ unasked \in BOOLEAN

Typed ==
  /\ State \in States /\ nodeIndex \in Nat
  /\ subTopicList \subseteq Name /\ pubTopicList \subseteq Name /\ halved \subseteq Name
  /\ Message \in Seq(Request) /\ Msg_Sem \in Nat /\ leftover \in Nat
  /\ RecvMessage \in Seq(Datum)
  /\ arrived \in Seq(Datum) /\ taken \in Seq(Datum)
  /\ mt \in {"none", "start", "wait"}
  /\ rd \in {"none", "test", "head", "read", "online", "end", "post", "done"}
  /\ wt \in {"none", "start", "wait", "pop", "done"}
  /\ app \in {"start", "noconnect", "node", "reg", "run", "waiting", "woken",
              "delete", "gone", "crashed"}
  /\ tries \in 0..MaxTries /\ calls \in 0..MaxCalls
  /\ toBroker \in Seq(Request) /\ toClient \in Seq(Incoming)
  /\ bSub \subseteq Name /\ bPub \subseteq Name /\ refused \subseteq Name
  /\ forwarded \in Incoming

LEMMA TypeParts == TypeOK <=> Booleans /\ Typed
  BY DEF TypeOK, Booleans, Typed

LEMMA InitType == Init => TypeOK
<1>1. Init => Booleans
  BY Zenon DEF Init, Booleans
<1>2. Init => Typed
  BY ClientAssumption DEF Init, Typed, States, Incoming
<1> QED
  BY <1>1, <1>2, TypeParts

LEMMA StepBooleans == Booleans /\ [Next]_vars => Booleans'
<1> SUFFICES ASSUME Booleans, [Next]_vars PROVE Booleans'
  OBVIOUS
<1>1. gaveUp' = gaveUp \/ gaveUp' = TRUE
  BY DEF Next, App, Manage, Reader, Writer, Handle, Forward, Gone, StartClient, Reg, RegPoll, AddSub,
     AddPub, DelTopic, SendData, Send, Refuse, WaitForData, WakeUnasked, Take, Delete, CloseClient,
     ReadTest, ReadWait, ReadUnwritten,
     ReadReg, ReadOnline, GetData, ReadCut, ReadEnd, ReadClose, CloseWrite, WriteStart, Wake, Pop,
     programVars, appVars, vars
<1>2. shut' = shut \/ shut' = TRUE
  BY DEF Next, App, Manage, Reader, Writer, Handle, Forward, Gone, StartClient, Reg, RegPoll, AddSub,
     AddPub, DelTopic, SendData, Send, Refuse, WaitForData, WakeUnasked, Take, Delete, CloseClient,
     ReadTest, ReadWait, ReadUnwritten,
     ReadReg, ReadOnline, GetData, ReadCut, ReadEnd, ReadClose, CloseWrite, WriteStart, Wake, Pop,
     elsewhere, netVars, vars
<1>3. peer' = peer \/ peer' = FALSE
  BY DEF Next, App, Manage, Reader, Writer, Handle, Forward, Gone, StartClient, Reg, RegPoll, AddSub,
     AddPub, DelTopic, SendData, Send, Refuse, WaitForData, WakeUnasked, Take, Delete, CloseClient,
     ReadTest, ReadWait, ReadUnwritten,
     ReadReg, ReadOnline, GetData, ReadCut, ReadEnd, ReadClose, CloseWrite, WriteStart, Wake, Pop,
     elsewhere, netVars, vars
<1>4. served' = served
  BY DEF Next, App, Manage, Reader, Writer, Handle, Forward, Gone, StartClient, Reg, RegPoll, AddSub,
     AddPub, DelTopic, SendData, Send, Refuse, WaitForData, WakeUnasked, Take, Delete, CloseClient,
     ReadTest, ReadWait, ReadUnwritten,
     ReadReg, ReadOnline, GetData, ReadCut, ReadEnd, ReadClose, CloseWrite, WriteStart, Wake, Pop,
     elsewhere, netVars, vars
<1>5. unasked' = unasked \/ unasked' = TRUE \/ unasked' = FALSE
  BY DEF Next, App, Manage, Reader, Writer, Handle, Forward, Gone, StartClient, Reg, RegPoll, AddSub,
     AddPub, DelTopic, SendData, Send, Refuse, WaitForData, WakeUnasked, Take, Delete, CloseClient,
     ReadTest, ReadWait, ReadUnwritten,
     ReadReg, ReadOnline, GetData, ReadCut, ReadEnd, ReadClose, CloseWrite, WriteStart, Wake, Pop,
     programVars, recvVars, vars
<1> QED
  BY <1>1, <1>2, <1>3, <1>4, <1>5, Zenon DEF Booleans

LEMMA StateTyped == \A s \in States : State \in States /\ SetState(s) => State' \in States
  BY DEF SetState

\* Queues of requests and of data.
LEMMA RequestQueue ==
  ASSUME NEW s \in Seq(Request), NEW m \in Request
  PROVE  /\ Append(s, m) \in Seq(Request)
         /\ s # <<>> => Head(s) \in Request /\ Tail(s) \in Seq(Request)
  OBVIOUS

LEMMA DataQueue ==
  ASSUME NEW s \in Seq(Datum), NEW m \in Datum
  PROVE  /\ Append(s, m) \in Seq(Datum)
         /\ s # <<>> => Head(s) \in Datum /\ Tail(s) \in Seq(Datum)
  OBVIOUS

LEMMA NotEmptied ==
  ASSUME NEW s \in Seq(Datum), NEW m \in Datum
  PROVE  Append(s, m) # <<>>
<1>1. Len(Append(s, m)) = Len(s) + 1 /\ Len(s) \in Nat
  OBVIOUS
<1> QED
  BY <1>1

LEMMA OneMore == \A x \in Nat : x + 1 \in Nat
  OBVIOUS

\* What the calls that send do to the queue.
LEMMA QueueTyped ==
  ASSUME Typed, NEW type, NEW n,
         (type = "regnode" /\ n = "") \/ (type \in TopicType /\ n \in Name), Queue(type, n)
  PROVE  Message' \in Seq(Request) /\ Msg_Sem' \in Nat
<1> DEFINE m == [type |-> type, node_index |-> nodeIndex, topic |-> n]
<1>1. m \in Request
  BY DEF Typed, Request
<1>2. Message' = Append(Message, m) /\ Msg_Sem' = Msg_Sem + 1
  BY DEF Queue
<1>3. Message \in Seq(Request) /\ Msg_Sem \in Nat
  BY DEF Typed
<1> HIDE DEF m
<1>4. Append(Message, m) \in Seq(Request)
  BY <1>1, <1>3, RequestQueue
<1>5. Message' \in Seq(Request)
  BY <1>2, <1>4, Zenon
<1>6. Msg_Sem' \in Nat
  <2>1. Msg_Sem' = Msg_Sem + 1
    BY <1>2, Zenon
  <2>2. Msg_Sem \in Nat
    BY <1>3, Zenon
  <2> QED
    BY <2>1, <2>2, OneMore, Zenon
<1> QED
  BY <1>5, <1>6, Zenon

LEMMA SendTyped ==
  ASSUME Typed, NEW type \in TopicType, NEW n \in Name, Send(type, n)
  PROVE  /\ Message' \in Seq(Request) /\ Msg_Sem' \in Nat
         /\ app' \in {app, "crashed"}
         /\ UNCHANGED <<nodeVars, recvVars, tries, gaveUp, elsewhere>>
<1>1. CASE Queue(type, n)
  BY <1>1, QueueTyped DEF Send
<1>2. CASE UNCHANGED sendVars
  BY <1>2 DEF Send, sendVars, Typed
<1> QED
  BY <1>1, <1>2 DEF Send

LEMMA StepTyped == Typed /\ [Next]_vars => Typed'
<1> SUFFICES ASSUME Typed, [Next]_vars PROVE Typed'
  OBVIOUS
<1> USE DEF Typed
<1>1. CASE App
  <2>1. CASE StartClient
    BY <2>1 DEF StartClient, nodeVars, listVars, sendVars, recvVars, netVars, brokerVars
  <2>2. CASE Reg
    <3>1. Message' \in Seq(Request) /\ Msg_Sem' \in Nat
      <4>1. CASE Queue("regnode", "")
        BY <4>1, QueueTyped
      <4>2. CASE UNCHANGED sendVars
        BY <4>2 DEF sendVars
      <4> QED
        BY <2>2, <4>1, <4>2 DEF Reg
    <3> QED
      BY <2>2, <3>1 DEF Reg, nodeVars, listVars, recvVars, elsewhere, netVars, brokerVars
  <2>3. CASE RegPoll
    BY <2>3, ClientAssumption DEF RegPoll, nodeVars, listVars, sendVars, recvVars, elsewhere, netVars,
       brokerVars
  <2>4. ASSUME NEW n \in Name, AddSub(n) PROVE Typed'
    <3>1. calls' \in 0..MaxCalls
      BY <2>4, ClientAssumption DEF AddSub, Running
    <3>2. CASE Refuse
      BY <3>1, <3>2 DEF Refuse, nodeVars, listVars, sendVars, recvVars, elsewhere, netVars, brokerVars
    <3>3. CASE Send("subtopic", n)
      <4>1. subTopicList' \subseteq Name /\ pubTopicList' \subseteq Name /\ halved' \subseteq Name
        BY <2>4 DEF AddSub, Refuse, listVars
      <4> QED
        BY <3>1, <3>3, <4>1, SendTyped, SMTT(30) DEF TopicType, nodeVars, recvVars, elsewhere,
           netVars, brokerVars
    <3> QED
      BY <2>4, <3>2, <3>3 DEF AddSub
  <2>5. ASSUME NEW n \in Name, AddPub(n) PROVE Typed'
    <3>1. calls' \in 0..MaxCalls
      BY <2>5, ClientAssumption DEF AddPub, Running
    <3>2. CASE Refuse
      BY <3>1, <3>2 DEF Refuse, nodeVars, listVars, sendVars, recvVars, elsewhere, netVars, brokerVars
    <3>3. CASE Send("pubtopic", n)
      <4>1. subTopicList' \subseteq Name /\ pubTopicList' \subseteq Name /\ halved' \subseteq Name
        BY <2>5 DEF AddPub, Refuse, listVars
      <4> QED
        BY <3>1, <3>3, <4>1, SendTyped, SMTT(30) DEF TopicType, nodeVars, recvVars, elsewhere,
           netVars, brokerVars
    <3> QED
      BY <2>5, <3>2, <3>3 DEF AddPub
  <2>6. ASSUME NEW n \in Name, DelTopic(n) PROVE Typed'
    <3>1. calls' \in 0..MaxCalls
      BY <2>6, ClientAssumption DEF DelTopic, Running
    <3>2. CASE Refuse
      BY <3>1, <3>2 DEF Refuse, nodeVars, listVars, sendVars, recvVars, elsewhere, netVars, brokerVars
    <3>3. CASE Send("deltopic", n)
      <4>1. subTopicList' \subseteq Name /\ pubTopicList' \subseteq Name /\ halved' \subseteq Name
        BY <2>6 DEF DelTopic, Refuse, listVars
      <4> QED
        BY <3>1, <3>3, <4>1, SendTyped, SMTT(30) DEF TopicType, nodeVars, recvVars, elsewhere,
           netVars, brokerVars
    <3> QED
      BY <2>6, <3>2, <3>3 DEF DelTopic
  <2>7. ASSUME NEW n \in Name, SendData(n) PROVE Typed'
    <3>1. Send("data", n) /\ UNCHANGED listVars /\ calls' \in 0..MaxCalls
      BY <2>7, ClientAssumption DEF SendData, Running
    <3> QED
      BY <3>1, SendTyped, SMTT(30) DEF TopicType, nodeVars, listVars, recvVars, elsewhere, netVars,
         brokerVars
  <2>8. CASE WaitForData
    BY <2>8, ClientAssumption DEF WaitForData, Running, nodeVars, listVars, sendVars, recvVars,
       elsewhere, netVars, brokerVars
  <2>9. CASE Take
    <3>1. RecvMessage' \in Seq(Datum) /\ taken' \in Seq(Datum) /\ arrived' = arrived
      <4>1. CASE RecvMessage = <<>>
        BY <2>9, <4>1 DEF Take, recvVars
      <4>2. CASE RecvMessage # <<>>
        <5>1. /\ taken' = Append(taken, Head(RecvMessage)) /\ RecvMessage' = Tail(RecvMessage)
              /\ arrived' = arrived
          BY <2>9, <4>2 DEF Take
        <5>2. Head(RecvMessage) \in Datum /\ Tail(RecvMessage) \in Seq(Datum)
          BY <4>2
        <5> QED
          BY <5>1, <5>2, DataQueue
      <4> QED
        BY <4>1, <4>2
    <3> QED
      BY <2>9, <3>1 DEF Take, nodeVars, listVars, sendVars, elsewhere, netVars, brokerVars
  <2>12. CASE WakeUnasked
    BY <2>12 DEF WakeUnasked, nodeVars, listVars, sendVars, elsewhere, netVars, brokerVars
  <2>10. CASE Delete
    BY <2>10, StateTyped DEF Delete, States, nodeVars, listVars, sendVars, recvVars, elsewhere,
       netVars, brokerVars
  <2>11. CASE CloseClient
    BY <2>11 DEF CloseClient, nodeVars, listVars, sendVars, recvVars, brokerVars
  <2> QED
    BY <1>1, <2>1, <2>2, <2>3, <2>4, <2>5, <2>6, <2>7, <2>8, <2>9, <2>10, <2>11, <2>12 DEF App
<1>2. CASE Manage
  BY <1>2, StateTyped DEF Manage, States, programVars, appVars, listVars, sendVars, recvVars, netVars,
     brokerVars
<1>3. CASE Reader
  <2> USE DEF programVars, appVars, nodeVars, listVars, sendVars, recvVars, netVars, brokerVars
  <2>1. CASE ReadTest
    BY <2>1 DEF ReadTest
  <2>9. CASE ReadWait \/ ReadUnwritten
    BY <2>9 DEF ReadWait, ReadUnwritten
  <2>2. CASE ReadReg
    BY <2>2, ClientAssumption DEF ReadReg
  <2>3. CASE ReadOnline
    BY <2>3, StateTyped DEF ReadOnline, States
  <2>4. CASE GetData
    <3>1. Head(toClient) \in Datum
      BY <2>4, ClientAssumption DEF GetData, Datum, Incoming, GetRegNode
    <3> QED
      BY <2>4, <3>1 DEF GetData
  <2>5. CASE ReadCut
    BY <2>5 DEF ReadCut
  <2>6. CASE ReadEnd
    BY <2>6 DEF ReadEnd
  <2>7. CASE ReadClose
    BY <2>7, StateTyped DEF ReadClose, States
  <2>8. CASE CloseWrite
    BY <2>8 DEF CloseWrite
  <2> QED
    BY <1>3, <2>1, <2>2, <2>3, <2>4, <2>5, <2>6, <2>7, <2>8, <2>9 DEF Reader
<1>4. CASE Writer
  <2> USE DEF programVars, appVars, nodeVars, listVars, sendVars, recvVars, netVars, brokerVars
  <2>1. CASE WriteStart
    BY <2>1, StateTyped DEF WriteStart, States
  <2>2. CASE Wake
    BY <2>2 DEF Wake
  <2>3. CASE Pop
    <3>1. Message' \in Seq(Request) /\ toBroker' \in Seq(Request)
      <4>1. CASE Message = <<>>
        BY <2>3, <4>1 DEF Pop
      <4>2. CASE Message # <<>>
        <5>1. Head(Message) \in Request /\ Tail(Message) \in Seq(Request)
          BY <4>2
        <5>2. Append(toBroker, Head(Message)) \in Seq(Request)
          BY <5>1, RequestQueue
        <5> QED
          BY <2>3, <4>2, <5>1, <5>2 DEF Pop
      <4> QED
        BY <4>1, <4>2
    <3> QED
      BY <2>3, <3>1 DEF Pop
  <2> QED
    BY <1>4, <2>1, <2>2, <2>3 DEF Writer
<1>5. CASE Handle
  <2> USE DEF programVars, appVars, nodeVars, listVars, sendVars, recvVars, netVars, brokerVars
  <2> DEFINE m == Head(toBroker)
  <2>1. m \in Request /\ Tail(toBroker) \in Seq(Request)
    BY <1>5 DEF Handle
  <2>2. toClient' \in Seq(Incoming)
    <3>1. GetRegNode \in Incoming
      BY ClientAssumption DEF Incoming, GetRegNode
    <3> QED
      BY <1>5, <3>1 DEF Handle
  <2>3. m.type \in {"subtopic", "pubtopic", "deltopic"} => m.topic \in Name
    BY <2>1, <1>5 DEF Request
  <2> QED
    BY <1>5, <2>1, <2>2, <2>3 DEF Handle
<1>6. CASE Forward
  BY <1>6, ClientAssumption DEF Forward, Datum, Incoming, programVars, appVars, nodeVars, listVars,
     sendVars, recvVars
<1>7. CASE Gone
  BY <1>7 DEF Gone, programVars, appVars, nodeVars, listVars, sendVars, recvVars, netVars, brokerVars
<1>8. CASE UNCHANGED vars
  BY <1>8 DEF vars, appVars, nodeVars, listVars, sendVars, recvVars, elsewhere, netVars, brokerVars
<1> QED
  BY <1>1, <1>2, <1>3, <1>4, <1>5, <1>6, <1>7, <1>8 DEF Next

LEMMA StepType == TypeOK /\ [Next]_vars => TypeOK'
<1>1. Booleans' /\ Typed' => TypeOK'
  BY DEF TypeOK, Booleans, Typed
<1> QED
  BY <1>1, TypeParts, StepBooleans, StepTyped, Zenon

THEOREM TypeCorrect == Spec => []TypeOK
<1> QED
  BY InitType, StepType, PTL DEF Spec

-----------------------------------------------------------------------------
(***************************************************************************)
(* The number.                                                             *)
(***************************************************************************)
Late == {"run", "waiting", "woken", "delete", "gone"}  \* Reg has returned

\* The number comes before the state.
Numbered ==
  /\ rd = "online" => nodeIndex = Own
  /\ State = "online" => nodeIndex = Own

\* Whoever calls MyNode after Reg knows the number, or Reg gave up.
Known == app \in Late => gaveUp \/ nodeIndex = Own

Carried == gaveUp \/ (CarriesOwn(Message) /\ CarriesOwn(toBroker))

LEMMA InitNumber == Init => Numbered /\ Known /\ Carried
  BY DEF Init, Numbered, Known, Late, Carried, CarriesOwn

LEMMA GaveUpStays == [Next]_vars => gaveUp' = gaveUp \/ gaveUp' = TRUE
  BY DEF Next, App, Manage, Reader, Writer, Handle, Forward, Gone, StartClient, Reg, RegPoll, AddSub,
     AddPub, DelTopic, SendData, Send, Refuse, WaitForData, WakeUnasked, Take, Delete, CloseClient,
     ReadTest, ReadWait, ReadUnwritten,
     ReadReg, ReadOnline, GetData, ReadCut, ReadEnd, ReadClose, CloseWrite, WriteStart, Wake, Pop,
     programVars, appVars, vars

LEMMA NumberStays == [Next]_vars => nodeIndex' = nodeIndex \/ nodeIndex' = Own
  BY DEF Next, App, Manage, Reader, Writer, Handle, Forward, Gone, StartClient, Reg, RegPoll, AddSub,
     AddPub, DelTopic, SendData, Send, Refuse, WaitForData, WakeUnasked, Take, Delete, CloseClient,
     ReadTest, ReadWait, ReadUnwritten,
     ReadReg, ReadOnline, GetData, ReadCut, ReadEnd, ReadClose, CloseWrite, WriteStart, Wake, Pop,
     programVars, nodeVars, vars

\* Reg returns to its caller when the node is online, or gives up.
LEMMA RegReturns ==
  [Next]_vars /\ app' \in Late => app \in Late \/ State = "online" \/ gaveUp' = TRUE
  BY DEF Next, App, Manage, Reader, Writer, Handle, Forward, Gone, StartClient, Reg, RegPoll, AddSub,
     AddPub, DelTopic, SendData, Send, Refuse, Running, WaitForData, WakeUnasked, Take, Delete,
     CloseClient, ReadTest, ReadWait, ReadUnwritten,
     ReadReg, ReadOnline, GetData, ReadCut, ReadEnd, ReadClose, CloseWrite, WriteStart, Wake, Pop,
     programVars, appVars, vars, Late

LEMMA OnlineBy ==
  /\ [Next]_vars /\ State' = "online" => State = "online" \/ rd = "online"
  /\ [Next]_vars /\ rd' = "online" => rd = "online" \/ nodeIndex' = Own
<1> SUFFICES ASSUME [Next]_vars
             PROVE  /\ State' = "online" => State = "online" \/ rd = "online"
                    /\ rd' = "online" => rd = "online" \/ nodeIndex' = Own
  OBVIOUS
<1> USE DEF SetState, nodeVars, elsewhere
<1>1. CASE App
  BY <1>1 DEF App, StartClient, Reg, RegPoll, AddSub,
     AddPub, DelTopic, SendData, Send, Refuse, Running, WaitForData, WakeUnasked, Take, Delete,
     CloseClient
<1>2. CASE Manage
  BY <1>2 DEF Manage
<1>3. CASE Reader
  BY <1>3 DEF Reader, ReadTest, ReadWait, ReadUnwritten, ReadReg, ReadOnline, GetData, ReadCut,
     ReadEnd, ReadClose, CloseWrite
<1>4. CASE Writer
  BY <1>4 DEF Writer, WriteStart, Wake, Pop
<1>5. CASE Handle \/ Forward \/ Gone \/ UNCHANGED vars
  BY <1>5 DEF Handle, Forward, Gone, vars
<1> QED
  BY <1>1, <1>2, <1>3, <1>4, <1>5 DEF Next

LEMMA StepNumbered == Numbered /\ [Next]_vars => Numbered'
  BY NumberStays, OnlineBy DEF Numbered

LEMMA StepKnown == Numbered /\ Known /\ [Next]_vars => Known'
<1> SUFFICES ASSUME Numbered, Known, [Next]_vars, app' \in Late PROVE gaveUp' \/ nodeIndex' = Own
  BY Zenon DEF Known
<1>1. gaveUp => gaveUp'
  BY GaveUpStays, Zenon
<1>2. nodeIndex = Own => nodeIndex' = Own
  BY NumberStays, Zenon
<1>3. State = "online" => nodeIndex = Own
  BY DEF Numbered
<1>4. app \in Late => gaveUp \/ nodeIndex = Own
  BY Zenon DEF Known
<1> QED
  BY <1>1, <1>2, <1>3, <1>4, RegReturns, Zenon

LEMMA OwnAppend ==
  ASSUME NEW s \in Seq(Request), CarriesOwn(s), NEW m \in Request,
         m.type = "regnode" \/ m.node_index = Own
  PROVE  CarriesOwn(Append(s, m))
  BY DEF CarriesOwn

LEMMA OwnTail ==
  ASSUME NEW s \in Seq(Request), CarriesOwn(s), s # <<>>
  PROVE  CarriesOwn(Tail(s)) /\ (Head(s).type = "regnode" \/ Head(s).node_index = Own)
<1>1. \A k \in 1..Len(Tail(s)) : Tail(s)[k] = s[k + 1] /\ k + 1 \in 1..Len(s)
  OBVIOUS
<1>2. Head(s) = s[1] /\ 1 \in 1..Len(s)
  OBVIOUS
<1> QED
  BY <1>1, <1>2 DEF CarriesOwn

\* A call queues a request that carries the number.
LEMMA QueueCarries ==
  ASSUME Typed, CarriesOwn(Message), NEW type, NEW n,
         (type = "regnode" /\ n = "") \/ (type \in TopicType /\ n \in Name),
         type = "regnode" \/ nodeIndex = Own, Queue(type, n)
  PROVE  CarriesOwn(Message')
<1> DEFINE m == [type |-> type, node_index |-> nodeIndex, topic |-> n]
<1>1. m \in Request
  BY DEF Typed, Request
<1>2. m.type = "regnode" \/ m.node_index = Own
  OBVIOUS
<1>3. Message' = Append(Message, m)
  BY DEF Queue
<1>4. Message \in Seq(Request)
  BY DEF Typed
<1> HIDE DEF m
<1> QED
  BY <1>1, <1>2, <1>3, <1>4, OwnAppend, Zenon

LEMMA SendCarries ==
  ASSUME Typed, CarriesOwn(Message), nodeIndex = Own,
         NEW type \in TopicType, NEW n \in Name, Send(type, n)
  PROVE  CarriesOwn(Message') /\ toBroker' = toBroker
<1>1. toBroker' = toBroker
  BY DEF Send, elsewhere, netVars
<1>2. CASE Queue(type, n)
  BY <1>1, <1>2, QueueCarries
<1>3. CASE UNCHANGED sendVars
  BY <1>1, <1>3 DEF sendVars
<1> QED
  BY <1>2, <1>3 DEF Send

LEMMA CallCarries ==
  ASSUME Typed, CarriesOwn(Message), nodeIndex = Own, NEW n \in Name,
         AddSub(n) \/ AddPub(n) \/ DelTopic(n) \/ SendData(n)
  PROVE  CarriesOwn(Message') /\ toBroker' = toBroker
<1>1. CASE Refuse
  BY <1>1 DEF Refuse, sendVars, elsewhere, netVars
<1>2. ASSUME NEW type \in TopicType, Send(type, n)
      PROVE  CarriesOwn(Message') /\ toBroker' = toBroker
  BY <1>2, SendCarries
<1> QED
  BY <1>1, <1>2 DEF AddSub, AddPub, DelTopic, SendData, TopicType

LEMMA StepCarries ==
  ASSUME Typed, CarriesOwn(Message), CarriesOwn(toBroker), [Next]_vars,
         app = "run" => nodeIndex = Own
  PROVE  CarriesOwn(Message') /\ CarriesOwn(toBroker')
<1> SUFFICES CarriesOwn(Message') /\ CarriesOwn(toBroker')
  OBVIOUS
<1>1. CASE App
  <2>1. CASE Reg
    <3>1. toBroker' = toBroker
      BY <2>1 DEF Reg, elsewhere, netVars
    <3>2. CASE Queue("regnode", "")
      BY <3>1, <3>2, QueueCarries
    <3>3. CASE UNCHANGED sendVars
      BY <3>1, <3>3 DEF sendVars
    <3> QED
      BY <2>1, <3>2, <3>3 DEF Reg
  <2>2. ASSUME NEW n \in Name, AddSub(n) \/ AddPub(n) \/ DelTopic(n) \/ SendData(n)
        PROVE  CarriesOwn(Message') /\ CarriesOwn(toBroker')
    <3>1. nodeIndex = Own
      BY <2>2 DEF AddSub, AddPub, DelTopic, SendData, Running
    <3> QED
      BY <2>2, <3>1, CallCarries
  <2>3. CASE StartClient \/ RegPoll \/ WaitForData \/ WakeUnasked \/ Take \/ Delete \/ CloseClient
    BY <2>3 DEF StartClient, RegPoll, WaitForData, WakeUnasked, Take, Delete, CloseClient, sendVars,
       elsewhere, netVars
  <2> QED
    BY <1>1, <2>1, <2>2, <2>3 DEF App
<1>2. CASE Manage \/ Reader
  BY <1>2 DEF Manage, Reader, ReadTest, ReadWait, ReadUnwritten, ReadReg, ReadOnline, GetData,
     ReadCut, ReadEnd, ReadClose,
     CloseWrite, sendVars, netVars
<1>3. CASE Writer
  <2>1. CASE WriteStart \/ Wake
    BY <2>1 DEF WriteStart, Wake, sendVars, netVars
  <2>2. CASE Pop
    <3>1. CASE Message = <<>>
      BY <2>2, <3>1 DEF Pop
    <3>2. CASE Message # <<>>
      <4>1. CarriesOwn(Tail(Message))
              /\ (Head(Message).type = "regnode" \/ Head(Message).node_index = Own)
              /\ Head(Message) \in Request
        BY <3>2, OwnTail DEF Typed
      <4>2. CarriesOwn(Append(toBroker, Head(Message)))
        BY <4>1, OwnAppend DEF Typed
      <4>3. Message' = Tail(Message)
              /\ toBroker' \in {toBroker, Append(toBroker, Head(Message))}
        BY <2>2, <3>2 DEF Pop
      <4> QED
        BY <4>1, <4>2, <4>3
    <3> QED
      BY <3>1, <3>2
  <2> QED
    BY <1>3, <2>1, <2>2 DEF Writer
<1>4. CASE Handle
  <2>1. CarriesOwn(Tail(toBroker))
    BY <1>4, OwnTail DEF Handle, Typed
  <2> QED
    BY <1>4, <2>1 DEF Handle, sendVars
<1>5. CASE Forward \/ Gone \/ UNCHANGED vars
  BY <1>5 DEF Forward, Gone, vars, sendVars, elsewhere, netVars
<1> QED
  BY <1>1, <1>2, <1>3, <1>4, <1>5 DEF Next

LEMMA StepCarried == TypeOK /\ Known /\ Carried /\ [Next]_vars => Carried'
<1> SUFFICES ASSUME TypeOK, Known, Carried, [Next]_vars PROVE Carried'
  OBVIOUS
<1>1. CASE gaveUp
  BY <1>1, GaveUpStays, Zenon DEF Carried
<1>2. CASE ~gaveUp
  <2>1. app = "run" => nodeIndex = Own
    BY <1>2, Zenon DEF Known, Late
  <2>2. CarriesOwn(Message) /\ CarriesOwn(toBroker)
    BY <1>2, Zenon DEF Carried
  <2> QED
    BY <2>1, <2>2, TypeParts, StepCarries, Zenon DEF Carried
<1> QED
  BY <1>1, <1>2, Zenon

\* A client uses only its own number, unless Reg gave up: class MyNode with MsgHandler.
THEOREM NumberIsOwn == Spec => []OwnNumberUnlessGivenUp
<1> DEFINE Inv == TypeOK /\ Numbered /\ Known /\ Carried
<1>1. Init => Inv
  BY InitType, InitNumber
<1>2. Inv /\ [Next]_vars => Inv'
  BY StepType, StepNumbered, StepKnown, StepCarried, Zenon
<1>3. Inv => OwnNumberUnlessGivenUp
  BY Zenon DEF OwnNumberUnlessGivenUp, Numbered, Carried
<1> QED
  BY <1>1, <1>2, <1>3, PTL DEF Spec

-----------------------------------------------------------------------------
(***************************************************************************)
(* The data.                                                               *)
(***************************************************************************)
LEMMA Received ==
  ASSUME NEW t \in Seq(Datum), NEW r \in Seq(Datum), NEW x \in Datum
  PROVE  /\ Append(t \o r, x) = t \o Append(r, x) /\ Append(r, x) # <<>>
         /\ r # <<>> => t \o r = Append(t, Head(r)) \o Tail(r)
<1>1. Append(t \o r, x) = t \o Append(r, x) /\ Append(r, x) # <<>>
  OBVIOUS
<1>2. ASSUME r # <<>> PROVE t \o r = Append(t, Head(r)) \o Tail(r)
  <2> DEFINE u == Append(t, Head(r)) \o Tail(r)
  <2>1. Head(r) \in Datum /\ Tail(r) \in Seq(Datum) /\ Append(t, Head(r)) \in Seq(Datum)
    BY <1>2
  <2>2. u \in Seq(Datum) /\ t \o r \in Seq(Datum) /\ Len(u) = Len(t \o r)
    BY <1>2, <2>1
  <2>3. \A k \in 1..Len(u) : u[k] = (t \o r)[k]
    BY <1>2, <2>1
  <2> QED
    BY <2>2, <2>3
<1> QED
  BY <1>1, <1>2

\* What waits and what was taken changes in two places only.
LEMMA DataSteps ==
  ASSUME TypeOK, [Next]_vars
  PROVE  \/ UNCHANGED <<RecvMessage, arrived, taken>>
         \/ \E x \in Datum : /\ RecvMessage' = Append(RecvMessage, x)
                             /\ arrived' = Append(arrived, x) /\ taken' = taken
         \/ /\ RecvMessage # <<>> /\ RecvMessage' = Tail(RecvMessage) /\ app' = "run"
            /\ taken' = Append(taken, Head(RecvMessage)) /\ arrived' = arrived
<1> DEFINE Same == UNCHANGED <<RecvMessage, arrived, taken>>
<1>1. CASE App /\ ~Take
  <2>1. Same
    BY <1>1 DEF App, StartClient, Reg, RegPoll, AddSub, AddPub, DelTopic, SendData, Send, Refuse,
       Running, WaitForData, WakeUnasked, Delete, CloseClient, recvVars
  <2> QED
    BY <2>1
<1>2. CASE Take
  BY <1>2 DEF Take, recvVars
<1>3. CASE GetData
  <2>1. Head(toClient) \in Datum
    BY <1>3, ClientAssumption DEF GetData, TypeOK, Datum, Incoming, GetRegNode
  <2> QED
    BY <1>3, <2>1 DEF GetData
<1>4. CASE Manage \/ (Reader /\ ~GetData) \/ Writer
  <2>1. Same
    BY <1>4 DEF Manage, Reader, ReadTest, ReadWait, ReadUnwritten, ReadReg, ReadOnline, ReadCut,
       ReadEnd,
       ReadClose, CloseWrite, Writer, WriteStart, Wake, Pop, programVars, appVars, recvVars
  <2> QED
    BY <2>1
<1>5. CASE Handle \/ Forward \/ Gone \/ UNCHANGED vars
  BY <1>5 DEF Handle, Forward, Gone, vars, programVars, appVars, recvVars
<1> QED
  BY <1>1, <1>2, <1>3, <1>4, <1>5 DEF Next

\* The program is woken by a message it then finds, or unasked.
LEMMA Woken ==
  ASSUME [Next]_vars, app' = "woken"
  PROVE  \/ unasked'
         \/ app = "woken" /\ (unasked => unasked') /\ RecvMessage' = RecvMessage
         \/ GetData
<1>1. CASE App
  <2>1. CASE WakeUnasked
    BY <2>1, Zenon DEF WakeUnasked
  <2>2. CASE ~WakeUnasked
    BY <1>1, <2>2 DEF App, StartClient, Reg, RegPoll, AddSub, AddPub, DelTopic, SendData, Send, Refuse,
       Running, WaitForData, Take, Delete, CloseClient, recvVars
  <2> QED
    BY <2>1, <2>2
<1>2. CASE Manage \/ (Reader /\ ~GetData) \/ Writer
  <2>1. UNCHANGED <<app, RecvMessage, unasked>>
    BY <1>2 DEF Manage, Reader, ReadTest, ReadWait, ReadUnwritten, ReadReg, ReadOnline, ReadCut,
       ReadEnd,
       ReadClose, CloseWrite, Writer, WriteStart, Wake, Pop, programVars, appVars, recvVars
  <2> QED
    BY <2>1, Zenon
<1>3. CASE Handle \/ Forward \/ Gone \/ UNCHANGED vars
  <2>1. UNCHANGED <<app, RecvMessage, unasked>>
    BY <1>3 DEF Handle, Forward, Gone, vars, programVars, appVars, recvVars
  <2> QED
    BY <2>1, Zenon
<1> QED
  BY <1>1, <1>2, <1>3, Zenon DEF Next

LEMMA StepTakes == TypeOK /\ NeverTakesEmpty /\ [Next]_vars => NeverTakesEmpty'
<1> SUFFICES ASSUME TypeOK, NeverTakesEmpty, [Next]_vars, app' = "woken", RecvMessage' = <<>>
             PROVE  unasked'
  BY Zenon DEF NeverTakesEmpty
<1>1. ~GetData
  <2>1. RecvMessage \in Seq(Datum)
    BY TypeParts DEF Typed
  <2>2. ASSUME GetData PROVE FALSE
    <3>1. RecvMessage' = Append(RecvMessage, Head(toClient))
      BY <2>2 DEF GetData
    <3>2. Head(toClient) \in Datum
      BY <2>2, ClientAssumption DEF GetData, TypeOK, Datum, Incoming, GetRegNode
    <3>3. Append(RecvMessage, Head(toClient)) # <<>>
      BY ONLY <2>1, <3>2, NotEmptied
    <3> QED
      BY <3>1, <3>3
  <2> QED
    BY <2>2
<1> QED
  BY <1>1, Woken, Zenon DEF NeverTakesEmpty

(***************************************************************************)
(* WaitForData takes the front of an empty queue only when it woke without *)
(* a notification: only the program takes, and a notification comes with   *)
(* a message.  The code looks at no condition that would rule the other    *)
(* case out.                                                               *)
(***************************************************************************)
THEOREM TakeSafe == Spec => []NeverTakesEmpty
<1>1. Init => NeverTakesEmpty
  BY DEF Init, NeverTakesEmpty
<1> QED
  BY <1>1, InitType, StepType, StepTakes, PTL DEF Spec

LEMMA StepInOrder == TypeOK /\ InOrder /\ [Next]_vars => InOrder'
<1> SUFFICES ASSUME TypeOK, InOrder, [Next]_vars PROVE InOrder'
  OBVIOUS
<1>1. RecvMessage \in Seq(Datum) /\ taken \in Seq(Datum)
  BY TypeParts DEF Typed
<1>2. CASE UNCHANGED <<RecvMessage, arrived, taken>>
  BY <1>2 DEF InOrder
<1>3. CASE \E x \in Datum : /\ RecvMessage' = Append(RecvMessage, x)
                            /\ arrived' = Append(arrived, x) /\ taken' = taken
  <2>1. PICK x \in Datum : /\ RecvMessage' = Append(RecvMessage, x)
                           /\ arrived' = Append(arrived, x) /\ taken' = taken
    BY <1>3
  <2>2. Append(taken \o RecvMessage, x) = taken \o Append(RecvMessage, x)
    BY <1>1, Received
  <2> QED
    BY <2>1, <2>2, Zenon DEF InOrder
<1>4. CASE /\ RecvMessage # <<>> /\ RecvMessage' = Tail(RecvMessage)
           /\ taken' = Append(taken, Head(RecvMessage)) /\ arrived' = arrived
  <2>1. Head(RecvMessage) \in Datum
    BY <1>1, <1>4
  <2>2. taken \o RecvMessage = Append(taken, Head(RecvMessage)) \o Tail(RecvMessage)
    BY <1>1, <1>4, <2>1, Received
  <2> QED
    BY <1>4, <2>2, Zenon DEF InOrder
<1> QED
  BY <1>2, <1>3, <1>4, DataSteps

\* MsgHandler and WaitForData work on one queue: data are taken in order, each once.
THEOREM DeliveredInOrder == Spec => []InOrder
<1>1. Init => InOrder
  BY DEF Init, InOrder
<1> QED
  BY <1>1, InitType, StepType, StepInOrder, PTL DEF Spec

-----------------------------------------------------------------------------
(***************************************************************************)
(* The end of the process.                                                 *)
(***************************************************************************)
\* The reader's post is the last of its steps, after it has closed the node.
Closing ==
  /\ app \in {"start", "noconnect"} => mt = "none"
  /\ mt # "wait" => rd = "none" /\ wt = "none"
  /\ rd # "none" => State # "newconnect"
  /\ rd \in {"post", "done"} => State = "close"

Posted == IF rd = "done" THEN 1 ELSE 0    \* CloseWrite has posted
Awake == IF wt = "pop" THEN 1 ELSE 0      \* the writer has taken one off

\* The semaphore counts the queue, the post of CloseWrite and what it held at first.
Counted ==
  wt # "done" /\ app # "crashed" => Msg_Sem + Awake = Len(Message) + Posted + leftover

LEMMA InitCount == Init => Closing /\ Counted
  BY ClientAssumption DEF Init, Closing, Counted, Posted, Awake

LEMMA StepClosing == TypeOK /\ Closing /\ [Next]_vars => Closing'
<1> SUFFICES ASSUME State \in States, Closing, [Next]_vars PROVE Closing'
  BY TypeParts DEF Typed
<1> USE DEF Closing, SetState, state_transfer
<1>1. CASE App
  BY <1>1 DEF App, StartClient, Reg, RegPoll, AddSub, AddPub, DelTopic, SendData, Send, Refuse,
     Running, WaitForData, WakeUnasked, Take, Delete, CloseClient, nodeVars, elsewhere
<1>2. CASE Manage
  BY <1>2 DEF Manage, programVars, appVars
<1>3. CASE Reader
  <2> USE DEF programVars, appVars, nodeVars
  <2>1. CASE ReadTest \/ ReadWait \/ ReadUnwritten \/ ReadReg \/ ReadEnd \/ CloseWrite
    BY <2>1 DEF ReadTest, ReadWait, ReadUnwritten, ReadReg, ReadEnd, CloseWrite
  <2>2. CASE GetData \/ ReadCut
    BY <2>2 DEF GetData, ReadCut
  <2>3. CASE ReadOnline
    BY <2>3 DEF ReadOnline
  <2>4. CASE ReadClose
    BY <2>4 DEF ReadClose, States
  <2> QED
    BY <1>3, <2>1, <2>2, <2>3, <2>4 DEF Reader
<1>4. CASE Writer
  BY <1>4 DEF Writer, WriteStart, Wake, Pop, programVars, appVars, nodeVars
<1>5. CASE Handle \/ Forward \/ Gone \/ UNCHANGED vars
  BY <1>5 DEF Handle, Forward, Gone, vars, programVars, appVars, nodeVars, elsewhere
<1> QED
  BY <1>1, <1>2, <1>3, <1>4, <1>5 DEF Next

LEMMA Length ==
  ASSUME NEW s \in Seq(Request), NEW m \in Request
  PROVE  /\ Len(s) \in Nat /\ Len(Append(s, m)) = Len(s) + 1
         /\ s # <<>> => Len(Tail(s)) = Len(s) - 1 /\ Len(s) > 0
         /\ Len(s) > 0 => s # <<>>
  OBVIOUS

\* The calls queue a request and post, or leave both alone.
LEMMA QueueCounts ==
  ASSUME Typed, NEW type, NEW n,
         (type = "regnode" /\ n = "") \/ (type \in TopicType /\ n \in Name), Queue(type, n)
  PROVE  Len(Message') = Len(Message) + 1 /\ Msg_Sem' = Msg_Sem + 1
<1> DEFINE m == [type |-> type, node_index |-> nodeIndex, topic |-> n]
<1>1. m \in Request
  BY DEF Typed, Request
<1>2. Message' = Append(Message, m) /\ Msg_Sem' = Msg_Sem + 1
  BY DEF Queue
<1>3. Message \in Seq(Request)
  BY DEF Typed
<1> HIDE DEF m
<1> QED
  BY <1>1, <1>2, <1>3, Length, Zenon

SameCount == Message' = Message /\ Msg_Sem' = Msg_Sem
OneQueued == Len(Message') = Len(Message) + 1 /\ Msg_Sem' = Msg_Sem + 1

LEMMA AppCounts ==
  ASSUME Typed, App
  PROVE  UNCHANGED <<rd, wt, leftover>> /\ (SameCount \/ OneQueued)
<1>1. UNCHANGED <<rd, wt, leftover>>
  BY DEF App, StartClient, Reg, RegPoll, AddSub, AddPub, DelTopic, SendData, Send, Refuse,
     WaitForData, WakeUnasked, Take, Delete, CloseClient, elsewhere
<1>2. ASSUME NEW type \in TopicType, NEW n \in Name, Send(type, n)
      PROVE  SameCount \/ OneQueued
  <2>1. CASE Queue(type, n)
    BY <2>1, QueueCounts DEF OneQueued
  <2>2. CASE UNCHANGED sendVars
    BY <2>2 DEF sendVars, SameCount
  <2> QED
    BY <1>2, <2>1, <2>2 DEF Send
<1>3. CASE Reg
  <2>1. CASE Queue("regnode", "")
    BY <1>1, <2>1, QueueCounts DEF OneQueued
  <2>2. CASE UNCHANGED sendVars
    BY <1>1, <2>2 DEF sendVars, SameCount
  <2> QED
    BY <1>3, <2>1, <2>2 DEF Reg
<1>4. ASSUME NEW n \in Name, AddSub(n) \/ AddPub(n) \/ DelTopic(n) \/ SendData(n)
      PROVE  SameCount \/ OneQueued
  <2>1. CASE Refuse
    BY <2>1 DEF Refuse, sendVars, SameCount
  <2> QED
    BY <1>2, <1>4, <2>1 DEF AddSub, AddPub, DelTopic, SendData, TopicType
<1>5. CASE StartClient \/ RegPoll \/ WaitForData \/ WakeUnasked \/ Take \/ Delete \/ CloseClient
  BY <1>1, <1>5 DEF StartClient, RegPoll, WaitForData, WakeUnasked, Take, Delete, CloseClient,
     sendVars, SameCount
<1> QED
  BY <1>1, <1>3, <1>4, <1>5 DEF App

LEMMA StepCounted == TypeOK /\ Closing /\ Counted /\ [Next]_vars => Counted'
<1> SUFFICES ASSUME Typed, Closing, Counted, [Next]_vars, wt' # "done", app' # "crashed"
             PROVE  Msg_Sem' + Awake' = Len(Message') + Posted' + leftover'
  BY TypeParts DEF Counted
<1>1. Msg_Sem \in Nat /\ leftover \in Nat /\ Message \in Seq(Request) /\ Len(Message) \in Nat
  BY DEF Typed
<1> USE DEF Counted, Posted, Awake
<1>2. CASE Next /\ App
  BY <1>1, <1>2, AppCounts DEF Next, SameCount, OneQueued
<1>3. CASE Next /\ Manage
  BY <1>1, <1>3 DEF Next, Manage, Closing, sendVars
<1>4. CASE Next /\ Reader
  BY <1>1, <1>4 DEF Next, Reader, ReadTest, ReadWait, ReadUnwritten, ReadReg, ReadOnline, GetData,
     ReadCut, ReadEnd, ReadClose,
     CloseWrite, sendVars, programVars, appVars
<1>5. CASE Next /\ Writer
  <2>1. CASE WriteStart \/ Wake
    BY <1>1, <1>5, <2>1 DEF Next, WriteStart, Wake, sendVars, programVars, appVars
  <2>2. CASE Pop
    <3>1. Message # <<>> /\ Message' = Tail(Message)
      BY <2>2 DEF Pop
    <3>2. Len(Message') = Len(Message) - 1
      BY <1>1, <3>1
    <3> QED
      BY <1>1, <1>5, <2>2, <3>2 DEF Next, Pop
  <2> QED
    BY <1>5, <2>1, <2>2 DEF Writer
<1>6. CASE Next /\ (Handle \/ Forward \/ Gone)
  BY <1>1, <1>6 DEF Next, Handle, Forward, Gone, sendVars, programVars, appVars
<1>7. CASE UNCHANGED vars
  BY <1>1, <1>7 DEF vars, sendVars, appVars, elsewhere
<1> QED
  BY <1>2, <1>3, <1>4, <1>5, <1>6, <1>7 DEF Next

\* Which steps end the process.
LEMMA Ends ==
  ASSUME TypeOK, Known, Closing, Counted, NeverTakesEmpty, Next, app' = "crashed"
  PROVE  mt' = "none" \/ gaveUp' \/ leftover' > 0 \/ unasked' \/ shut' \/ ~peer' \/ State' = "close"
<1>0. app # "crashed" /\ Typed
  BY TypeParts, Zenon DEF Next
<1>1. CASE App
  <2>1. CASE Reg
    BY <1>0, <2>1, Zenon DEF Reg, Closing, elsewhere
  <2>2. ASSUME NEW n \in Name, AddSub(n) \/ AddPub(n) \/ DelTopic(n) \/ SendData(n)
        PROVE  gaveUp'
    <3>1. app = "run" /\ nodeIndex = 0 /\ gaveUp' = gaveUp
      BY <1>0, <2>2 DEF AddSub, AddPub, DelTopic, SendData, Running, Send, Refuse
    <3>2. nodeIndex # Own
      BY <3>1, ClientAssumption
    <3> QED
      BY <3>1, <3>2, Zenon DEF Known, Late
  <2>3. ~(StartClient \/ RegPoll \/ WaitForData \/ WakeUnasked \/ Delete \/ CloseClient)
    BY <1>0 DEF StartClient, RegPoll, WaitForData, WakeUnasked, Delete, CloseClient
  <2>4. CASE Take
    <3>1. app = "woken" /\ RecvMessage = <<>> /\ UNCHANGED recvVars
      BY <1>0, <2>4 DEF Take
    <3>2. unasked' = unasked
      BY <3>1 DEF recvVars
    <3> QED
      BY <3>1, <3>2, Zenon DEF NeverTakesEmpty
  <2> QED
    BY <1>1, <2>1, <2>2, <2>3, <2>4, Zenon DEF App
<1>2. CASE Reader
  <2>1. ReadCut \/ ReadUnwritten
    BY <1>0, <1>2 DEF Reader, ReadTest, ReadWait, ReadReg, ReadOnline, GetData, ReadEnd, ReadClose,
       CloseWrite, programVars, appVars, nodeVars
  <2>2. State' = State /\ peer' = peer
    BY <2>1 DEF ReadCut, ReadUnwritten, nodeVars, netVars
  <2> QED
    BY <2>1, <2>2, Zenon DEF ReadCut, ReadUnwritten
<1>3. CASE Writer
  <2>1. Pop
    BY <1>0, <1>3 DEF Writer, WriteStart, Wake, programVars, appVars
  <2>2. CASE Message = <<>>
    <3>1. State' = State /\ leftover' = leftover
      BY <2>1 DEF Pop, nodeVars
    <3>2. leftover > 0 \/ State = "close"
      BY <1>0, <2>1, <2>2 DEF Pop, Counted, Posted, Awake, Closing, Typed
    <3> QED
      BY <3>1, <3>2, Zenon
  <2>3. CASE Message # <<>> /\ peer /\ ~shut
    BY <1>0, <2>1, <2>3, Zenon DEF Pop
  <2>4. CASE ~peer \/ shut
    BY <2>1, <2>4, Zenon DEF Pop
  <2> QED
    BY <2>2, <2>3, <2>4, Zenon
<1>4. CASE Manage \/ Handle \/ Forward \/ Gone
  BY <1>0, <1>4, Zenon DEF Manage, Handle, Forward, Gone, programVars, appVars
<1> QED
  BY <1>1, <1>2, <1>3, <1>4, Zenon DEF Next

\* The process ends by itself only for the reasons CrashExplained lists.
THEOREM CrashesExplained == Spec => []CrashExplained
<1> DEFINE Inv == TypeOK /\ Numbered /\ Known /\ Closing /\ Counted /\ NeverTakesEmpty /\ CrashExplained
<1>1. Init => Inv
  <2>1. Init => CrashExplained /\ NeverTakesEmpty
    BY DEF Init, CrashExplained, NeverTakesEmpty
  <2> QED
    BY <2>1, InitType, InitNumber, InitCount
<1>2. Inv /\ [Next]_vars => Inv'
  <2> SUFFICES ASSUME Inv, [Next]_vars PROVE CrashExplained'
    BY StepType, StepNumbered, StepKnown, StepClosing, StepCounted, StepTakes, Zenon
  <2>1. CASE Next
    BY <2>1, Ends, Zenon DEF CrashExplained
  <2>2. CASE UNCHANGED vars
    BY <2>2, Zenon DEF CrashExplained, vars, appVars, elsewhere, nodeVars, netVars, recvVars
  <2> QED
    BY <2>1, <2>2, Zenon
<1> QED
  BY <1>1, <1>2, PTL DEF Spec

-----------------------------------------------------------------------------
(***************************************************************************)
(* The reply to regnode.                                                   *)
(***************************************************************************)
\* Where a regnode waits in a queue of requests, and its replies in the other direction.
Spots(s, V) == {k \in DOMAIN s : s[k] \in V}
RegNode == [type : {"regnode"}, node_index : Nat, topic : {""}]
Asks(s) == Spots(s, RegNode)
Answers(q) == Spots(q, {GetRegNode})
Single(S) == \A i, j \in S : i = j

Asked == Asks(Message) # {} \/ Asks(toBroker) # {} \/ Answers(toClient) # {}

\* Which states the threads have left behind them.
Started ==
  /\ mt \in {"none", "start"} => State = "newconnect" /\ wt = "none" /\ rd = "none"
  /\ mt = "wait" => wt # "none" /\ State \in {"connecting", "connected", "online", "close"}
  /\ wt \in {"wait", "pop", "done"} => State \in {"connected", "online", "close"}

\* A request for a number is written by the writer, so after its first step.
AfterStart ==
  wt \in {"none", "start"} => Asks(toBroker) = {} /\ Answers(toClient) = {} /\ rd # "online"

\* There is one request for a number, and it is in one place.
OneRequest ==
  /\ Single(Asks(Message)) /\ Single(Asks(toBroker)) /\ Single(Answers(toClient))
  /\ Asks(toBroker) # {} => Asks(Message) = {}
  /\ Answers(toClient) # {} => Asks(Message) = {} /\ Asks(toBroker) = {}
  /\ rd = "online" => State # "online" /\ ~Asked
  /\ State = "online" => ~Asked
  /\ app \in {"start", "noconnect", "node"} => rd # "online" /\ State # "online" /\ ~Asked

LEMMA SpotsAppend ==
  ASSUME NEW S, NEW V, NEW s \in Seq(S), NEW x \in S
  PROVE  /\ x \notin V => Spots(Append(s, x), V) = Spots(s, V)
         /\ Spots(s, V) = {} => Single(Spots(Append(s, x), V))
<1> DEFINE t == Append(s, x)
<1>1. DOMAIN t = 1..(Len(s) + 1) /\ DOMAIN s = 1..Len(s) /\ Len(s) \in Nat /\ t[Len(s) + 1] = x
  OBVIOUS
<1>2. \A k \in 1..Len(s) : t[k] = s[k]
  OBVIOUS
<1> HIDE DEF t
<1>3. x \notin V => Spots(t, V) = Spots(s, V)
  BY <1>1, <1>2 DEF Spots
<1>4. Spots(s, V) = {} => Spots(t, V) \subseteq {Len(s) + 1}
  BY <1>1, <1>2 DEF Spots
<1> QED
  BY <1>3, <1>4 DEF Single, t

LEMMA SpotsTail ==
  ASSUME NEW S, NEW V, NEW s \in Seq(S), s # <<>>, Single(Spots(s, V))
  PROVE  /\ Single(Spots(Tail(s), V))
         /\ Head(s) \in V => Spots(Tail(s), V) = {} /\ Spots(s, V) # {}
         /\ Spots(s, V) = {} => Spots(Tail(s), V) = {}
<1> DEFINE t == Tail(s)
<1>1. DOMAIN t = 1..(Len(s) - 1) /\ DOMAIN s = 1..Len(s) /\ Len(s) \in Nat \ {0} /\ Head(s) = s[1]
  OBVIOUS
<1>2. \A k \in 1..(Len(s) - 1) : t[k] = s[k + 1]
  OBVIOUS
<1> HIDE DEF t
<1>3. \A k \in Spots(t, V) : k \in Nat /\ k > 0 /\ k + 1 \in Spots(s, V)
  BY <1>1, <1>2 DEF Spots
<1>4. Head(s) \in V => 1 \in Spots(s, V)
  BY <1>1 DEF Spots
<1>5. Single(Spots(t, V))
  <2>1. ASSUME NEW i \in Spots(t, V), NEW j \in Spots(t, V) PROVE i = j
    <3>1. i + 1 = j + 1 /\ i \in Nat /\ j \in Nat
      BY <1>3 DEF Single
    <3> QED
      BY <3>1
  <2> QED
    BY <2>1 DEF Single
<1>6. ASSUME Head(s) \in V, NEW i \in Spots(t, V) PROVE FALSE
  <2>1. i + 1 = 1 /\ i \in Nat /\ i > 0
    BY <1>3, <1>4, <1>6 DEF Single
  <2> QED
    BY <2>1
<1> QED
  BY <1>3, <1>4, <1>5, <1>6 DEF t

LEMMA SpotsEmpty == \A V : Spots(<<>>, V) = {} /\ Single({})
  BY DEF Spots, Single

LEMMA InitOne == Init => Started /\ AfterStart /\ OneRequest
  BY SpotsEmpty DEF Init, Started, AfterStart, OneRequest, Asks, Answers, Asked

LEMMA StepStarted == TypeOK /\ Closing /\ Started /\ [Next]_vars => Started'
<1> SUFFICES ASSUME State \in States, wt \in {"none", "start", "wait", "pop", "done"}, mt \in {"none", "start", "wait"},
                    app \in {"start", "noconnect"} => mt = "none", Started, [Next]_vars
             PROVE  Started'
  BY TypeParts DEF Typed, Closing
<1> USE DEF Started, SetState, state_transfer, States
<1>1. CASE App
  <2> USE DEF nodeVars, elsewhere
  <2>1. CASE StartClient
    BY <2>1 DEF StartClient
  <2>2. CASE Delete
    BY <2>2 DEF Delete
  <2>3. UNCHANGED <<State, mt, rd, wt>> \/ StartClient \/ Delete
    BY <1>1 DEF App, Reg, RegPoll, AddSub, AddPub, DelTopic, SendData, Send, Refuse,
       WaitForData, WakeUnasked, Take, CloseClient
  <2> QED
    BY <2>1, <2>2, <2>3
<1>2. CASE Manage
  BY <1>2 DEF Manage
<1>3. CASE Reader
  <2> USE DEF programVars, appVars, nodeVars
  <2>1. CASE ReadTest \/ ReadWait \/ ReadUnwritten \/ ReadReg \/ ReadEnd \/ CloseWrite \/ GetData \/ ReadCut
    BY <2>1 DEF ReadTest, ReadWait, ReadUnwritten, ReadReg, ReadEnd, CloseWrite, GetData, ReadCut
  <2>2. CASE ReadOnline
    BY <2>2 DEF ReadOnline
  <2>3. CASE ReadClose
    BY <2>3 DEF ReadClose
  <2> QED
    BY <1>3, <2>1, <2>2, <2>3 DEF Reader
<1>4. CASE Writer
  BY <1>4 DEF Writer, WriteStart, Wake, Pop, nodeVars
<1>5. CASE Handle \/ Forward \/ Gone \/ UNCHANGED vars
  BY <1>5 DEF Handle, Forward, Gone, vars, nodeVars, elsewhere
<1> QED
  BY <1>1, <1>2, <1>3, <1>4, <1>5 DEF Next

\* The calls of the program leave the requests for a number alone, but for Reg.
LEMMA AppAsks ==
  ASSUME TypeOK, App
  PROVE  /\ UNCHANGED <<rd, toBroker, toClient, wt>> /\ State' \in {State, "close"}
         /\ app' \in {"start", "noconnect", "node"} => app \in {"start", "noconnect", "node"}
         /\ \/ Asks(Message') = Asks(Message)
            \/ /\ app = "node" /\ app' = "reg"
               /\ Asks(Message) = {} => Single(Asks(Message'))
<1>1. UNCHANGED <<rd, toBroker, toClient, wt>>
  BY DEF App, StartClient, Reg, RegPoll, AddSub, AddPub, DelTopic, SendData, Send, Refuse,
     WaitForData, WakeUnasked, Take, Delete, CloseClient, elsewhere, netVars
<1>2. State' \in {State, "close"}
  BY DEF App, StartClient, Reg, RegPoll, AddSub, AddPub, DelTopic, SendData, Send, Refuse,
     WaitForData, WakeUnasked, Take, Delete, CloseClient, nodeVars, SetState
<1>3. app' \in {"start", "noconnect", "node"} => app \in {"start", "noconnect", "node"}
  BY DEF App, StartClient, Reg, RegPoll, AddSub, AddPub, DelTopic, SendData, Send, Refuse, Running,
     WaitForData, WakeUnasked, Take, Delete, CloseClient
<1> DEFINE Same == Asks(Message') = Asks(Message)
<1>4. Message \in Seq(Request) /\ nodeIndex \in Nat
  BY TypeParts DEF Typed
<1>5. ASSUME NEW type \in TopicType, NEW n \in Name, Send(type, n) PROVE Same
  <2>1. CASE Queue(type, n)
    <3> DEFINE m == [type |-> type, node_index |-> nodeIndex, topic |-> n]
    <3>1. m \in Request /\ m \notin RegNode
      BY <1>4 DEF Request, RegNode, TopicType
    <3>2. Message' = Append(Message, m)
      BY <2>1 DEF Queue
    <3> HIDE DEF m
    <3>3. Spots(Append(Message, m), RegNode) = Spots(Message, RegNode)
      BY <1>4, <3>1, SpotsAppend
    <3> QED
      BY <3>2, <3>3 DEF Asks
  <2>2. CASE UNCHANGED sendVars
    BY <2>2 DEF sendVars
  <2> QED
    BY <1>5, <2>1, <2>2 DEF Send
<1>6. CASE Reg
  <2>1. CASE Queue("regnode", "") /\ app = "node" /\ app' = "reg"
    <3> DEFINE m == [type |-> "regnode", node_index |-> nodeIndex, topic |-> ""]
    <3>1. m \in Request
      BY <1>4 DEF Request
    <3>2. Message' = Append(Message, m)
      BY <2>1 DEF Queue
    <3> HIDE DEF m
    <3>3. Spots(Message, RegNode) = {} => Single(Spots(Append(Message, m), RegNode))
      BY <1>4, <3>1, SpotsAppend
    <3>4. Asks(Message) = {} => Single(Asks(Message'))
      BY <3>2, <3>3 DEF Asks
    <3> QED
      BY <1>1, <1>2, <1>3, <2>1, <3>4
  <2>2. CASE UNCHANGED sendVars
    BY <1>1, <1>2, <1>3, <2>2 DEF sendVars
  <2> QED
    BY <1>6, <2>1, <2>2 DEF Reg
<1>7. ASSUME NEW n \in Name, AddSub(n) \/ AddPub(n) \/ DelTopic(n) \/ SendData(n) PROVE Same
  <2>1. CASE Refuse
    BY <2>1 DEF Refuse, sendVars
  <2> QED
    BY <1>5, <1>7, <2>1 DEF AddSub, AddPub, DelTopic, SendData, TopicType
<1>8. ASSUME StartClient \/ RegPoll \/ WaitForData \/ WakeUnasked \/ Take \/ Delete \/ CloseClient PROVE Same
  BY <1>8 DEF StartClient, RegPoll, WaitForData, WakeUnasked, Take, Delete, CloseClient, sendVars
<1> HIDE DEF Same
<1>9. Same \/ Reg
  BY <1>7, <1>8 DEF App, Same
<1> QED
  BY <1>1, <1>2, <1>3, <1>6, <1>9 DEF Same

LEMMA StepOne == TypeOK /\ Started /\ AfterStart /\ OneRequest /\ [Next]_vars => AfterStart' /\ OneRequest'
<1> SUFFICES ASSUME Typed, TypeOK, Started, AfterStart, OneRequest, [Next]_vars PROVE AfterStart' /\ OneRequest'
  BY TypeParts
<1> USE DEF AfterStart, OneRequest, Asked
<1>1. CASE App
  BY <1>1, AppAsks
<1>2. ASSUME UNCHANGED <<Message, toBroker, toClient>>, app' = app \/ app' = "crashed",
             rd' = "online" => rd = "online", State' = "online" => State = "online",
             wt' \in {"none", "start"} => wt \in {"none", "start"}
      PROVE  AfterStart' /\ OneRequest'
  BY <1>2
<1>3. CASE Manage
  BY <1>3 DEF Manage, SetState, Started, sendVars, netVars, programVars, appVars
<1>4. CASE Reader
  <2> USE DEF programVars, appVars, sendVars, netVars, nodeVars
  <2>1. CASE ReadTest \/ ReadWait \/ ReadUnwritten \/ ReadEnd \/ CloseWrite \/ ReadCut
    BY <2>1, <1>2 DEF ReadTest, ReadWait, ReadUnwritten, ReadEnd, CloseWrite, ReadCut
  <2>2. CASE ReadClose
    BY <2>2, <1>2 DEF ReadClose, SetState
  <2>3. CASE ReadOnline
    BY <2>3 DEF ReadOnline, SetState
  <2>4. CASE ReadReg
    <3>1. /\ toClient \in Seq(Incoming) /\ toClient # <<>> /\ toClient' = Tail(toClient)
          /\ Head(toClient) \in {GetRegNode}
      BY <2>4 DEF ReadReg, Typed
    <3>2. Answers(toClient)' = {} /\ Answers(toClient) # {}
      BY <3>1, SpotsTail DEF Answers
    <3> QED
      BY <2>4, <3>2, SpotsEmpty DEF ReadReg
  <2>5. CASE GetData
    <3>1. toClient \in Seq(Incoming) /\ toClient # <<>> /\ toClient' = Tail(toClient)
      BY <2>5 DEF GetData, Typed
    <3>2. Single(Answers(toClient)') /\ (Answers(toClient) = {} => Answers(toClient)' = {})
      BY <3>1, SpotsTail DEF Answers
    <3> QED
      BY <2>5, <3>2 DEF GetData
  <2> QED
    BY <1>4, <2>1, <2>2, <2>3, <2>4, <2>5 DEF Reader
<1>5. CASE Writer
  <2> USE DEF programVars, appVars, sendVars, netVars, nodeVars
  <2>1. CASE WriteStart
    BY <2>1 DEF WriteStart, SetState
  <2>2. CASE Wake
    BY <2>2 DEF Wake
  <2>3. CASE Pop
    <3>1. CASE Message = <<>>
      BY <2>3, <3>1, <1>2 DEF Pop
    <3>2. CASE Message # <<>>
      <4>1. /\ Message \in Seq(Request) /\ Head(Message) \in Request /\ toBroker \in Seq(Request)
            /\ Message' = Tail(Message) /\ toBroker' \in {toBroker, Append(toBroker, Head(Message))}
        BY <2>3, <3>2 DEF Pop, Typed
      <4>2. /\ Single(Asks(Message')) /\ (Asks(Message) = {} => Asks(Message') = {})
            /\ Head(Message) \in RegNode => Asks(Message') = {} /\ Asks(Message) # {}
        BY <3>2, <4>1, SpotsTail DEF Asks
      <4>3. /\ Head(Message) \notin RegNode => Asks(toBroker') = Asks(toBroker)
            /\ Asks(toBroker) = {} => Single(Asks(toBroker'))
        <5>1. /\ Head(Message) \notin RegNode => Spots(Append(toBroker, Head(Message)), RegNode) = Spots(toBroker, RegNode)
              /\ Spots(toBroker, RegNode) = {} => Single(Spots(Append(toBroker, Head(Message)), RegNode))
          BY <4>1, SpotsAppend
        <5> QED
          BY <4>1, <5>1 DEF Asks
      <4>4. /\ wt = "pop" /\ wt' = "wait" /\ UNCHANGED <<toClient, rd, State>>
            /\ app' \in {app, "crashed"}
        BY <2>3, <3>2 DEF Pop
      <4> QED
        BY <4>2, <4>3, <4>4
    <3> QED
      BY <3>1, <3>2
  <2> QED
    BY <1>5, <2>1, <2>2, <2>3 DEF Writer
<1>6. CASE Handle
  <2>1. /\ toBroker \in Seq(Request) /\ toBroker # <<>> /\ toBroker' = Tail(toBroker) /\ Head(toBroker) \in Request
        /\ toClient \in Seq(Incoming) /\ GetRegNode \in Incoming
        /\ UNCHANGED <<Message, rd, wt, State, app>>
    BY <1>6, ClientAssumption DEF Handle, Typed, programVars, appVars, sendVars, nodeVars, GetRegNode,
       Incoming
  <2>2. /\ Single(Asks(toBroker')) /\ (Asks(toBroker) = {} => Asks(toBroker') = {})
        /\ Head(toBroker) \in RegNode => Asks(toBroker') = {} /\ Asks(toBroker) # {}
    BY <2>1, SpotsTail DEF Asks
  <2>3. CASE Head(toBroker).type # "regnode"
    <3>1. toClient' = toClient
      BY <1>6, <2>3 DEF Handle
    <3> QED
      BY <2>1, <2>2, <3>1
  <2>4. CASE Head(toBroker).type = "regnode"
    <3>1. Head(toBroker) \in RegNode
      BY <2>1, <2>4 DEF Request, RegNode, TopicType
    <3>2. Single(Answers(toClient'))
      <4>1. Answers(toClient) = {}
        BY <2>2, <3>1
      <4>2. Spots(toClient, {GetRegNode}) = {} => Single(Spots(Append(toClient, GetRegNode), {GetRegNode}))
        BY ONLY <2>1, SpotsAppend
      <4>3. toClient' = Append(toClient, GetRegNode)
        BY <1>6, <2>4 DEF Handle
      <4> QED
        BY <4>1, <4>2, <4>3 DEF Answers
    <3> QED
      BY <2>1, <2>2, <3>1, <3>2
  <2> QED
    BY <2>3, <2>4
<1>7. CASE Forward
  <2>1. /\ toClient \in Seq(Incoming) /\ forwarded' \in Incoming /\ forwarded' \notin {GetRegNode}
        /\ UNCHANGED <<Message, toBroker, rd, wt, State, app>>
        /\ toClient' = Append(toClient, forwarded')
    BY <1>7, ClientAssumption DEF Forward, Typed, programVars, appVars, sendVars, nodeVars,
       GetRegNode, Incoming
  <2>2. Spots(Append(toClient, forwarded'), {GetRegNode}) = Spots(toClient, {GetRegNode})
    BY ONLY <2>1, SpotsAppend
  <2>3. Answers(toClient') = Answers(toClient)
    BY <2>1, <2>2 DEF Answers
  <2> QED
    BY <2>1, <2>3
<1>8. CASE Gone \/ UNCHANGED vars
  BY <1>8, <1>2 DEF Gone, vars, programVars, appVars, sendVars, nodeVars, elsewhere, netVars
<1> QED
  BY <1>1, <1>3, <1>4, <1>5, <1>6, <1>7, <1>8 DEF Next

(***************************************************************************)
(* The reply to regnode is never refused by the table of states, although  *)
(* the state is set by three threads: it can only come after the writer    *)
(* has made the node connected.                                            *)
(***************************************************************************)
THEOREM ReplyTaken == Spec => []ReplyAccepted
<1>1. Started /\ AfterStart /\ OneRequest /\ TypeOK => ReplyAccepted
  <2> SUFFICES ASSUME Started, AfterStart, OneRequest, Typed, rd = "online" PROVE State \in {"connected", "close"}
    BY TypeParts DEF ReplyAccepted
  <2> QED
    BY DEF Started, AfterStart, OneRequest, Typed
<1> QED
  BY <1>1, InitType, StepType, InitCount, StepClosing, InitOne, StepStarted, StepOne, PTL DEF Spec

-----------------------------------------------------------------------------
(***************************************************************************)
(* The lists.                                                              *)
(***************************************************************************)
\* Names that keep the provers from taking a sequence apart.
Join(s, t) == s \o t
More(s, x) == Append(s, x)
Rest(s) == Tail(s)

LEMMA JoinMore ==
  ASSUME NEW S, NEW s \in Seq(S), NEW t \in Seq(S), NEW x \in S
  PROVE  Join(s, More(t, x)) = More(Join(s, t), x)
  BY DEF Join, More

LEMMA JoinShift ==
  ASSUME NEW S, NEW s \in Seq(S), NEW t \in Seq(S), t # <<>>
  PROVE  Join(More(s, Head(t)), Rest(t)) = Join(s, t)
<1> DEFINE u == Append(s, Head(t)) \o Tail(t)
<1>1. Head(t) \in S /\ Tail(t) \in Seq(S) /\ Append(s, Head(t)) \in Seq(S)
  OBVIOUS
<1>2. u \in Seq(S) /\ s \o t \in Seq(S) /\ Len(u) = Len(s \o t)
  BY <1>1
<1>3. \A k \in 1..Len(u) : u[k] = (s \o t)[k]
  BY <1>1
<1> QED
  BY <1>2, <1>3 DEF Join, More, Rest

LEMMA JoinRest ==
  ASSUME NEW S, NEW s \in Seq(S), NEW t \in Seq(S), s # <<>>
  PROVE  Join(Rest(s), t) = Rest(Join(s, t)) /\ Join(s, t) # <<>> /\ Head(Join(s, t)) = Head(s)
<1> DEFINE u == Tail(s) \o t
           v == Tail(s \o t)
<1>1. u \in Seq(S) /\ v \in Seq(S) /\ Len(u) = Len(v) /\ s \o t # <<>> /\ Head(s \o t) = Head(s)
  OBVIOUS
<1>2. \A k \in 1..Len(u) : u[k] = v[k]
  <2>1. ASSUME NEW k \in 1..Len(u) PROVE u[k] = v[k]
    <3>1. v[k] = (s \o t)[k + 1]
      BY <1>1
    <3>2. CASE k <= Len(s) - 1
      <4>1. u[k] = s[k + 1] /\ (s \o t)[k + 1] = s[k + 1]
        BY <3>2
      <4> QED
        BY <3>1, <4>1
    <3>3. CASE k > Len(s) - 1
      <4>1. u[k] = t[k - (Len(s) - 1)] /\ (s \o t)[k + 1] = t[k + 1 - Len(s)]
        BY <3>3
      <4> QED
        BY <3>1, <4>1
    <3> QED
      BY <3>2, <3>3
  <2> QED
    BY <2>1
<1>3. u = v
  BY <1>1, <1>2
<1> QED
  BY <1>1, <1>3 DEF Join, Rest

LEMMA JoinType ==
  ASSUME NEW S, NEW s \in Seq(S), NEW t \in Seq(S)
  PROVE  Join(s, t) \in Seq(S)
  BY DEF Join

\* The requests on their way to the broker, in the order in which it will handle them.
Due == Join(toBroker, Message)

Matters(m, n, T) == m.topic = n /\ m.type \in T
NoneOf(s, n, T) == \A k \in DOMAIN s : ~Matters(s[k], n, T)
LastIs(s, n, T, t) ==
  \E k \in DOMAIN s :
    Matters(s[k], n, T) /\ s[k].type = t /\ \A j \in DOMAIN s : j > k => ~Matters(s[j], n, T)

SubOps == {"subtopic", "deltopic"}
PubOps == {"pubtopic", "deltopic"}

\* What the broker will make of a topic, against the client's lists.
SubAgrees(n) ==
  /\ LastIs(Due, n, SubOps, "subtopic") => n \in subTopicList
  /\ LastIs(Due, n, SubOps, "deltopic") => n \notin subTopicList \/ n \in halved
  /\ NoneOf(Due, n, SubOps) => /\ n \in bSub => n \in subTopicList
                               /\ n \in subTopicList => n \in bSub \/ n \in halved

PubAgrees(n) ==
  /\ LastIs(Due, n, PubOps, "pubtopic") => n \in pubTopicList
  /\ LastIs(Due, n, PubOps, "deltopic") => n \notin pubTopicList
  /\ NoneOf(Due, n, PubOps) => /\ n \in bPub => n \in pubTopicList
                               /\ n \in pubTopicList => n \in bPub \/ n \in refused

\* While nothing is lost.
Whole == peer /\ ~shut /\ ~gaveUp /\ app # "crashed"
Agree == Whole => \A n \in Name : SubAgrees(n) /\ PubAgrees(n)

\* A program that was online and deletes its node has closed it.
Past ==
  /\ app \in {"run", "waiting", "woken"} => State \in {"online", "close"}
  /\ app \in {"delete", "gone"} => State = "close"
Left == (shut => app \in {"gone", "crashed"}) /\ (gaveUp \/ Past)

\* A request more, and one handled.
LEMMA Later ==
  ASSUME NEW s \in Seq(Request), NEW m \in Request, NEW n, NEW T
  PROVE  /\ Matters(m, n, T) => /\ ~NoneOf(More(s, m), n, T)
                                /\ \A t : LastIs(More(s, m), n, T, t) => t = m.type
         /\ ~Matters(m, n, T) => /\ NoneOf(More(s, m), n, T) => NoneOf(s, n, T)
                                 /\ \A t : LastIs(More(s, m), n, T, t) => LastIs(s, n, T, t)
<1> DEFINE u == More(s, m)
<1>1. DOMAIN u = 1..(Len(s) + 1) /\ DOMAIN s = 1..Len(s) /\ Len(s) \in Nat /\ u[Len(s) + 1] = m
  BY DEF More
<1>2. \A k \in 1..Len(s) : u[k] = s[k]
  BY DEF More
<1> HIDE DEF u
<1>3. CASE Matters(m, n, T)
  <2>1. ~NoneOf(u, n, T)
    BY <1>1, <1>3 DEF NoneOf
  <2>2. ASSUME NEW t, LastIs(u, n, T, t) PROVE t = m.type
    <3>1. PICK k \in 1..(Len(s) + 1) : u[k].type = t /\ \A j \in 1..(Len(s) + 1) : j > k => ~Matters(u[j], n, T)
      BY <1>1, <2>2 DEF LastIs
    <3>2. k = Len(s) + 1
      BY <1>1, <1>3, <3>1
    <3> QED
      BY <1>1, <3>1, <3>2
  <2> QED
    BY <1>3, <2>1, <2>2 DEF u
<1>4. CASE ~Matters(m, n, T)
  <2>1. NoneOf(u, n, T) => NoneOf(s, n, T)
    BY <1>1, <1>2 DEF NoneOf
  <2>2. ASSUME NEW t, LastIs(u, n, T, t) PROVE LastIs(s, n, T, t)
    <3>1. PICK k \in 1..(Len(s) + 1) : /\ Matters(u[k], n, T) /\ u[k].type = t
                                       /\ \A j \in 1..(Len(s) + 1) : j > k => ~Matters(u[j], n, T)
      BY <1>1, <2>2 DEF LastIs
    <3>2. k \in 1..Len(s)
      BY <1>1, <1>4, <3>1
    <3>3. Matters(s[k], n, T) /\ s[k].type = t
      BY <1>2, <3>1, <3>2
    <3>4. \A j \in 1..Len(s) : j > k => ~Matters(s[j], n, T)
      BY <1>1, <1>2, <3>1
    <3> QED
      BY <1>1, <3>2, <3>3, <3>4 DEF LastIs
  <2> QED
    BY <1>4, <2>1, <2>2 DEF u
<1> QED
  BY <1>3, <1>4

LEMMA Sooner ==
  ASSUME NEW s \in Seq(Request), s # <<>>, NEW n, NEW T
  PROVE  /\ \A t : LastIs(Rest(s), n, T, t) => LastIs(s, n, T, t)
         /\ NoneOf(Rest(s), n, T) => IF Matters(Head(s), n, T) THEN LastIs(s, n, T, Head(s).type)
                                     ELSE NoneOf(s, n, T)
<1> DEFINE u == Rest(s)
<1>1. DOMAIN u = 1..(Len(s) - 1) /\ DOMAIN s = 1..Len(s) /\ Len(s) \in Nat \ {0} /\ Head(s) = s[1]
  BY DEF Rest
<1>2. \A k \in 1..(Len(s) - 1) : u[k] = s[k + 1]
  BY DEF Rest
<1> HIDE DEF u
<1>3. \A j \in 2..Len(s) : j - 1 \in 1..(Len(s) - 1) /\ s[j] = u[j - 1]
  <2>1. ASSUME NEW j \in 2..Len(s) PROVE j - 1 \in 1..(Len(s) - 1) /\ (j - 1) + 1 = j
    BY <1>1
  <2> QED
    BY <1>2, <2>1
<1>4. ASSUME NEW t, LastIs(u, n, T, t) PROVE LastIs(s, n, T, t)
  <2>1. PICK k \in 1..(Len(s) - 1) : /\ Matters(u[k], n, T) /\ u[k].type = t
                                     /\ \A j \in 1..(Len(s) - 1) : j > k => ~Matters(u[j], n, T)
    BY <1>1, <1>4 DEF LastIs
  <2>2. k + 1 \in 1..Len(s) /\ Matters(s[k + 1], n, T) /\ s[k + 1].type = t
    BY <1>1, <1>2, <2>1
  <2>3. ASSUME NEW j \in 1..Len(s), j > k + 1 PROVE ~Matters(s[j], n, T)
    <3>1. j \in 2..Len(s) /\ j - 1 > k
      BY <1>1, <2>1, <2>3
    <3> QED
      BY <1>3, <2>1, <3>1
  <2> QED
    BY <1>1, <2>2, <2>3 DEF LastIs
<1>5. ASSUME NoneOf(u, n, T) PROVE IF Matters(s[1], n, T) THEN LastIs(s, n, T, s[1].type) ELSE NoneOf(s, n, T)
  <2>1. \A j \in 2..Len(s) : ~Matters(s[j], n, T)
    BY <1>1, <1>3, <1>5 DEF NoneOf
  <2>2. 1 \in DOMAIN s /\ \A j \in DOMAIN s : j > 1 => j \in 2..Len(s)
    BY <1>1
  <2>3. \A j \in DOMAIN s : j = 1 \/ j \in 2..Len(s)
    BY <1>1
  <2>4. CASE Matters(s[1], n, T)
    BY <2>1, <2>2, <2>4 DEF LastIs
  <2>5. CASE ~Matters(s[1], n, T)
    BY <2>1, <2>3, <2>5 DEF NoneOf
  <2> QED
    BY <2>4, <2>5
<1> QED
  BY <1>1, <1>4, <1>5 DEF u

LEMMA InitAgree == Init => Agree /\ Left
<1> SUFFICES ASSUME Init PROVE Agree /\ Left
  OBVIOUS
<1>1. Message = <<>> /\ toBroker = <<>> /\ app = "start" /\ bSub = {} /\ bPub = {}
        /\ subTopicList = {} /\ pubTopicList = {}
  BY DEF Init
<1>2. Due = <<>>
  BY <1>1 DEF Due, Join
<1>3. \A n, T, t : ~LastIs(Due, n, T, t)
  BY <1>2 DEF LastIs
<1>4. Agree
  BY <1>1, <1>3 DEF Agree, SubAgrees, PubAgrees
<1>5. Left
  <2>1. shut = FALSE
    BY DEF Init
  <2> QED
    BY <1>1, <2>1 DEF Left, Past
<1> QED
  BY <1>4, <1>5

\* What is lost stays lost.
LEMMA WholeStays == [Next]_vars /\ Whole' => Whole
<1> SUFFICES ASSUME [Next]_vars, Whole' PROVE Whole
  OBVIOUS
<1>1. gaveUp => gaveUp'
  BY GaveUpStays, Zenon
<1>2. shut' = shut \/ shut' = TRUE
  BY DEF Next, App, Manage, Reader, Writer, Handle, Forward, Gone, StartClient, Reg, RegPoll, AddSub,
     AddPub, DelTopic, SendData, Send, Refuse, WaitForData, WakeUnasked, Take, Delete, CloseClient,
     ReadTest, ReadWait, ReadUnwritten,
     ReadReg, ReadOnline, GetData, ReadCut, ReadEnd, ReadClose, CloseWrite, WriteStart, Wake, Pop,
     elsewhere, netVars, vars
<1>3. peer' = peer \/ peer' = FALSE
  BY DEF Next, App, Manage, Reader, Writer, Handle, Forward, Gone, StartClient, Reg, RegPoll, AddSub,
     AddPub, DelTopic, SendData, Send, Refuse, WaitForData, WakeUnasked, Take, Delete, CloseClient,
     ReadTest, ReadWait, ReadUnwritten,
     ReadReg, ReadOnline, GetData, ReadCut, ReadEnd, ReadClose, CloseWrite, WriteStart, Wake, Pop,
     elsewhere, netVars, vars
<1>4. app # "crashed" \/ app' = app
  BY DEF Next, vars, appVars
<1>5. peer' /\ ~shut' /\ ~gaveUp' /\ app' # "crashed"
  BY Zenon DEF Whole
<1>6. app # "crashed"
  BY <1>4, <1>5
<1>7. ~gaveUp
  BY <1>1, <1>5, Zenon
<1>8. shut => shut'
  BY <1>2, Zenon
<1>9. peer' => peer
  BY <1>3, Zenon
<1> QED
  BY <1>5, <1>6, <1>7, <1>8, <1>9, Zenon DEF Whole

\* A request of the program is the last of those that matter to its topic.
LEMMA Queued ==
  ASSUME Typed, NEW type \in TopicType, NEW x \in Name, Queue(type, x), toBroker' = toBroker,
         NEW n \in Name, NEW T
  PROVE  IF n = x /\ type \in T
         THEN ~NoneOf(Due', n, T) /\ \A t : LastIs(Due', n, T, t) => t = type
         ELSE /\ NoneOf(Due', n, T) => NoneOf(Due, n, T)
              /\ \A t : LastIs(Due', n, T, t) => LastIs(Due, n, T, t)
<1> DEFINE m == [type |-> type, node_index |-> nodeIndex, topic |-> x]
<1>1. m \in Request /\ m.type = type /\ m.topic = x
  BY DEF Typed, Request
<1>2. Message' = More(Message, m) /\ Message \in Seq(Request) /\ toBroker \in Seq(Request)
  BY DEF Queue, More, Typed
<1> HIDE DEF m
<1>3. Join(toBroker, More(Message, m)) = More(Due, m) /\ Due \in Seq(Request)
  <2>1. Join(toBroker, More(Message, m)) = More(Join(toBroker, Message), m)
    BY ONLY <1>1, <1>2, JoinMore
  <2>2. Join(toBroker, Message) \in Seq(Request)
    BY ONLY <1>2, JoinType
  <2> QED
    BY ONLY <2>1, <2>2 DEF Due
<1>4. Due' = More(Due, m)
  BY <1>2, <1>3 DEF Due
<1>5. Matters(m, n, T) <=> n = x /\ type \in T
  BY <1>1 DEF Matters
<1> QED
  BY <1>1, <1>3, <1>4, <1>5, Later

\* The program's calls keep the lists in step with the requests.
LEMMA CallAgrees ==
  ASSUME Typed, NEW x \in Name, AddSub(x) \/ AddPub(x) \/ DelTopic(x) \/ SendData(x), app' # "crashed",
         NEW n \in Name, SubAgrees(n) /\ PubAgrees(n)
  PROVE  SubAgrees(n)' /\ PubAgrees(n)'
<1>1. UNCHANGED <<toBroker, bSub, bPub, refused>>
  BY DEF AddSub, AddPub, DelTopic, SendData, Send, Refuse, elsewhere, netVars, brokerVars
<1>2. CASE Refuse
  <2>1. UNCHANGED <<subTopicList, pubTopicList, halved, Due>>
    BY <1>1, <1>2 DEF Refuse, listVars, sendVars, Due
  <2> QED
    BY <1>1, <2>1 DEF SubAgrees, PubAgrees
<1>3. CASE AddSub(x) /\ ~Refuse
  <2>1. Queue("subtopic", x) /\ subTopicList' = subTopicList \cup {x} /\ UNCHANGED <<pubTopicList, halved>>
    BY <1>3 DEF AddSub, Send
  <2> QED
    BY <1>1, <2>1, Queued DEF SubAgrees, PubAgrees, SubOps, PubOps, TopicType
<1>4. CASE AddPub(x) /\ ~Refuse
  <2>1. Queue("pubtopic", x) /\ pubTopicList' = pubTopicList \cup {x} /\ UNCHANGED <<subTopicList, halved>>
    BY <1>4 DEF AddPub, Send
  <2> QED
    BY <1>1, <2>1, Queued DEF SubAgrees, PubAgrees, SubOps, PubOps, TopicType
<1>5. CASE DelTopic(x) /\ ~Refuse
  <2>1. /\ Queue("deltopic", x)
        /\ IF x \in pubTopicList
           THEN pubTopicList' = pubTopicList \ {x} /\ UNCHANGED subTopicList
           ELSE subTopicList' = subTopicList \ {x} /\ UNCHANGED pubTopicList
        /\ halved' = IF x \in pubTopicList \cap subTopicList THEN halved \cup {x} ELSE halved \ {x}
    BY <1>5 DEF DelTopic, Send
  <2> QED
    BY <1>1, <2>1, Queued DEF SubAgrees, PubAgrees, SubOps, PubOps, TopicType
<1>6. CASE SendData(x)
  <2>1. Queue("data", x) /\ UNCHANGED <<subTopicList, pubTopicList, halved>>
    BY <1>6 DEF SendData, Send, listVars
  <2> QED
    BY <1>1, <2>1, Queued DEF SubAgrees, PubAgrees, SubOps, PubOps, TopicType
<1> QED
  BY <1>2, <1>3, <1>4, <1>5, <1>6

\* The broker takes the first request, and its table is then in step with the rest.
LEMMA HandleAgrees ==
  ASSUME Typed, CarriesOwn(toBroker), Handle, NEW n \in Name, SubAgrees(n) /\ PubAgrees(n)
  PROVE  SubAgrees(n)' /\ PubAgrees(n)'
<1> DEFINE m == Head(toBroker)
<1>1. /\ toBroker \in Seq(Request) /\ toBroker # <<>> /\ Message \in Seq(Request) /\ m \in Request
      /\ toBroker' = Rest(toBroker) /\ UNCHANGED <<Message, subTopicList, pubTopicList, halved>>
  BY DEF Handle, Typed, Rest, programVars, sendVars, listVars
<1>2. Due \in Seq(Request) /\ Due # <<>> /\ Head(Due) = m
  <2>1. Join(toBroker, Message) \in Seq(Request)
    BY ONLY <1>1, JoinType
  <2>2. Join(toBroker, Message) # <<>> /\ Head(Join(toBroker, Message)) = Head(toBroker)
    BY ONLY <1>1, JoinRest
  <2> QED
    BY <2>1, <2>2 DEF Due
<1>3. Due' = Rest(Due)
  <2>1. Join(Rest(toBroker), Message) = Rest(Join(toBroker, Message))
    BY ONLY <1>1, JoinRest
  <2> QED
    BY <1>1, <2>1 DEF Due
<1>4. m.type # "regnode" => m.node_index = Own
  BY <1>1, OwnTail
<1>5. /\ m.type \in {"regnode", "data"} => UNCHANGED <<bSub, bPub, refused>>
      /\ m.type = "subtopic" => bSub' = bSub \cup {m.topic} /\ UNCHANGED <<bPub, refused>>
      /\ m.type = "pubtopic" => /\ UNCHANGED bSub
                                /\ \/ bPub' = bPub \cup {m.topic} /\ refused' = refused \ {m.topic}
                                   \/ UNCHANGED bPub /\ refused' = refused \cup {m.topic}
      /\ m.type = "deltopic" => /\ bSub' = bSub \ {m.topic} /\ bPub' = bPub \ {m.topic}
                                /\ refused' = refused \ {m.topic}
  BY <1>4 DEF Handle
<1>6. m.type \in {"regnode", "data", "subtopic", "pubtopic", "deltopic"}
  BY <1>1 DEF Request, TopicType
<1> HIDE DEF m
<1>7. \A T : /\ \A t : LastIs(Due', n, T, t) => LastIs(Due, n, T, t)
             /\ NoneOf(Due', n, T) => IF Matters(m, n, T) THEN LastIs(Due, n, T, m.type) ELSE NoneOf(Due, n, T)
  BY <1>2, <1>3, Sooner
<1>8. SubAgrees(n)'
  BY <1>1, <1>5, <1>6, <1>7 DEF SubAgrees, SubOps, Matters
<1>9. PubAgrees(n)'
  BY <1>1, <1>5, <1>6, <1>7 DEF PubAgrees, PubOps, Matters
<1> QED
  BY <1>8, <1>9

LEMMA StepPast == TypeOK /\ Closing /\ Past /\ [Next]_vars => Past' \/ gaveUp' = TRUE
<1> SUFFICES ASSUME State \in States, Closing, Past, [Next]_vars PROVE Past' \/ gaveUp' = TRUE
  BY TypeParts DEF Typed
<1> USE DEF Past, SetState, state_transfer, States
<1>1. CASE App
  <2> USE DEF nodeVars, elsewhere
  <2>1. CASE StartClient \/ Reg \/ WaitForData \/ WakeUnasked \/ Take \/ CloseClient
    BY <2>1 DEF StartClient, Reg, WaitForData, WakeUnasked, Running, Take, CloseClient
  <2>2. CASE Delete
    BY <2>2 DEF Delete
  <2>3. CASE RegPoll
    BY <2>3 DEF RegPoll
  <2>4. ASSUME NEW n \in Name, AddSub(n) \/ AddPub(n) \/ DelTopic(n) \/ SendData(n) PROVE Past'
    BY <2>4 DEF AddSub, AddPub, DelTopic, SendData, Send, Refuse, Running
  <2> QED
    BY <1>1, <2>1, <2>2, <2>3, <2>4 DEF App
<1>2. CASE Manage
  BY <1>2 DEF Manage, programVars, appVars
<1>3. CASE Reader
  <2> USE DEF programVars, appVars, nodeVars
  <2>1. CASE ReadTest \/ ReadWait \/ ReadUnwritten \/ ReadReg \/ ReadEnd \/ CloseWrite \/ GetData \/ ReadCut
    BY <2>1 DEF ReadTest, ReadWait, ReadUnwritten, ReadReg, ReadEnd, CloseWrite, GetData, ReadCut
  <2>2. CASE ReadOnline
    BY <2>2 DEF ReadOnline
  <2>3. CASE ReadClose
    BY <2>3 DEF ReadClose
  <2> QED
    BY <1>3, <2>1, <2>2, <2>3 DEF Reader
<1>4. CASE Writer
  BY <1>4 DEF Writer, WriteStart, Wake, Pop, programVars, appVars, nodeVars
<1>5. CASE Handle \/ Forward \/ Gone \/ UNCHANGED vars
  BY <1>5 DEF Handle, Forward, Gone, vars, programVars, appVars, nodeVars, elsewhere
<1> QED
  BY <1>1, <1>2, <1>3, <1>4, <1>5 DEF Next

LEMMA StepLeft == TypeOK /\ Closing /\ Left /\ [Next]_vars => Left'
<1> SUFFICES ASSUME TypeOK, Closing, Left, [Next]_vars PROVE Left'
  OBVIOUS
<1>1. shut' = shut \/ app' = "gone"
  BY DEF Next, App, Manage, Reader, Writer, Handle, Forward, Gone, StartClient, Reg, RegPoll, AddSub,
     AddPub, DelTopic, SendData, Send, Refuse, WaitForData, WakeUnasked, Take, Delete, CloseClient,
     ReadTest, ReadWait, ReadUnwritten,
     ReadReg, ReadOnline, GetData, ReadCut, ReadEnd, ReadClose, CloseWrite, WriteStart, Wake, Pop,
     elsewhere, netVars, vars
<1>2. app \in {"gone", "crashed"} => app' \in {"gone", "crashed"}
  BY DEF Next, App, Manage, Reader, Writer, Handle, Forward, Gone, StartClient, Reg, RegPoll, AddSub,
     AddPub, DelTopic, SendData, Send, Refuse, Running, WaitForData, WakeUnasked, Take, Delete,
     CloseClient, ReadTest, ReadWait, ReadUnwritten,
     ReadReg, ReadOnline, GetData, ReadCut, ReadEnd, ReadClose, CloseWrite, WriteStart, Wake, Pop,
     programVars, appVars, vars
<1>3. app' = "gone" => app' \in {"gone", "crashed"}
  OBVIOUS
<1>4. shut' => app' \in {"gone", "crashed"}
  BY <1>1, <1>2, <1>3, Zenon DEF Left
<1>5. gaveUp' \/ Past'
  BY StepPast, GaveUpStays, Zenon DEF Left
<1> QED
  BY <1>4, <1>5, Zenon DEF Left

LEMMA StepAgree == TypeOK /\ Carried /\ Agree /\ [Next]_vars => Agree'
<1> SUFFICES ASSUME Typed, Carried, Agree, [Next]_vars, Whole', NEW n \in Name
             PROVE  SubAgrees(n)' /\ PubAgrees(n)'
  BY TypeParts, Zenon DEF Agree
<1>1. Whole /\ app' # "crashed"
  BY WholeStays, Zenon DEF Whole
<1>2. SubAgrees(n) /\ PubAgrees(n) /\ CarriesOwn(toBroker)
  BY <1>1, Zenon DEF Agree, Carried, Whole
<1>3. ASSUME UNCHANGED <<listVars, brokerVars>>, Due' = Due PROVE SubAgrees(n)' /\ PubAgrees(n)'
  <2>1. UNCHANGED <<subTopicList, pubTopicList, halved, bSub, bPub, refused>>
    BY <1>3 DEF listVars, brokerVars
  <2> QED
    BY <1>2, <1>3, <2>1 DEF SubAgrees, PubAgrees
<1>4. CASE App
  <2>1. CASE Reg
    <3>1. CASE Queue("regnode", "")
      <4> DEFINE m == [type |-> "regnode", node_index |-> nodeIndex, topic |-> ""]
      <4>1. m \in Request /\ \A T \in {SubOps, PubOps} : ~Matters(m, n, T)
        BY DEF Typed, Request, Matters, SubOps, PubOps
      <4>2. /\ Message' = More(Message, m) /\ Message \in Seq(Request) /\ toBroker \in Seq(Request)
            /\ toBroker' = toBroker
        BY <2>1, <3>1 DEF Queue, More, Typed, Reg, elsewhere, netVars
      <4> HIDE DEF m
      <4>3. Join(toBroker, More(Message, m)) = More(Join(toBroker, Message), m)
        BY ONLY <4>1, <4>2, JoinMore
      <4>4. Join(toBroker, Message) \in Seq(Request)
        BY ONLY <4>2, JoinType
      <4>5. Due' = More(Due, m) /\ Due \in Seq(Request)
        BY <4>2, <4>3, <4>4 DEF Due
      <4>6. \A T \in {SubOps, PubOps} :
              /\ NoneOf(Due', n, T) => NoneOf(Due, n, T)
              /\ \A t : LastIs(Due', n, T, t) => LastIs(Due, n, T, t)
        BY <4>1, <4>5, Later
      <4>7. UNCHANGED <<subTopicList, pubTopicList, halved, bSub, bPub, refused>>
        BY <2>1 DEF Reg, listVars, elsewhere, brokerVars
      <4> QED
        BY <1>2, <4>6, <4>7 DEF SubAgrees, PubAgrees
    <3>2. CASE app' = "crashed"
      BY <1>1, <3>2
    <3> QED
      BY <2>1, <3>1, <3>2 DEF Reg
  <2>2. ASSUME NEW x \in Name, AddSub(x) \/ AddPub(x) \/ DelTopic(x) \/ SendData(x)
        PROVE  SubAgrees(n)' /\ PubAgrees(n)'
    BY <1>1, <1>2, <2>2, CallAgrees
  <2>3. CASE StartClient \/ RegPoll \/ WaitForData \/ WakeUnasked \/ Take \/ Delete \/ CloseClient
    <3>1. UNCHANGED <<listVars, brokerVars, Message, toBroker>>
      BY <2>3 DEF StartClient, RegPoll, WaitForData, WakeUnasked, Take, Delete, CloseClient, sendVars,
         elsewhere, netVars
    <3> QED
      BY <1>3, <3>1 DEF Due
  <2> QED
    BY <1>4, <2>1, <2>2, <2>3 DEF App
<1>5. CASE Manage \/ Reader
  <2>1. UNCHANGED <<listVars, brokerVars, Message, toBroker>>
    BY <1>5 DEF Manage, Reader, ReadTest, ReadWait, ReadUnwritten, ReadReg, ReadOnline, GetData,
       ReadCut, ReadEnd, ReadClose,
       CloseWrite, sendVars, netVars, programVars
  <2> QED
    BY <1>3, <2>1 DEF Due
<1>6. CASE Writer
  <2>1. CASE WriteStart \/ Wake
    <3>1. UNCHANGED <<listVars, brokerVars, Message, toBroker>>
      BY <2>1 DEF WriteStart, Wake, sendVars, netVars, programVars
    <3> QED
      BY <1>3, <3>1 DEF Due
  <2>2. CASE Pop
    <3>1. peer /\ ~shut
      BY <1>1, Zenon DEF Whole
    <3>2. Message # <<>> /\ Message' = Tail(Message) /\ toBroker' = Append(toBroker, Head(Message))
      BY <1>1, <2>2, <3>1, Zenon DEF Pop
    <3>3. Message \in Seq(Request) /\ toBroker \in Seq(Request) /\ Message # <<>>
      BY <3>2 DEF Typed
    <3>4. Join(More(toBroker, Head(Message)), Rest(Message)) = Join(toBroker, Message)
      BY ONLY <3>3, JoinShift
    <3>5. Due' = Due
      BY <3>2, <3>4 DEF Due, More, Rest
    <3>6. UNCHANGED <<listVars, brokerVars>>
      BY <2>2 DEF Pop
    <3> QED
      BY <1>3, <3>5, <3>6
  <2> QED
    BY <1>6, <2>1, <2>2 DEF Writer
<1>7. CASE Handle
  BY <1>2, <1>7, HandleAgrees
<1>8. CASE Forward \/ Gone \/ UNCHANGED vars
  <2>1. UNCHANGED <<subTopicList, pubTopicList, halved, bSub, bPub, refused, Message, toBroker>>
    BY <1>8 DEF Forward, Gone, vars, programVars, listVars, sendVars, brokerVars, elsewhere, netVars
  <2>2. Due' = Due
    BY <2>1 DEF Due
  <2> QED
    BY <1>2, <2>1, <2>2 DEF SubAgrees, PubAgrees
<1> QED
  BY <1>4, <1>5, <1>6, <1>7, <1>8 DEF Next

(***************************************************************************)
(* Once all requests are handled, the client's lists and the broker's      *)
(* table differ only by publications the broker refused without a word,    *)
(* and by subscriptions it dropped when the same name was withdrawn as a   *)
(* publication.                                                            *)
(***************************************************************************)
THEOREM ListsInStep == Spec => []ListsAgree
<1>1. TypeOK /\ Left /\ Agree => ListsAgree
  <2> SUFFICES ASSUME Typed, Left, Agree, peer, ~gaveUp, app # "crashed", State = "online",
                      Message = <<>>, toBroker = <<>>
               PROVE  /\ bSub \subseteq subTopicList /\ subTopicList \ bSub \subseteq halved
                      /\ bPub \subseteq pubTopicList /\ pubTopicList \ bPub \subseteq refused
    BY TypeParts, Zenon DEF ListsAgree
  <2>1. app = "gone" => State = "close"
    <3>1. Past
      BY Zenon DEF Left
    <3> QED
      BY <3>1 DEF Past
  <2>2. app \notin {"gone", "crashed"}
    BY <2>1
  <2>3. ~shut
    BY <2>2, Zenon DEF Left
  <2>4. \A n \in Name : SubAgrees(n) /\ PubAgrees(n)
    BY <2>3, Zenon DEF Agree, Whole
  <2>5. Due = <<>>
    BY DEF Due, Join
  <2>6. \A n, T : NoneOf(Due, n, T)
    BY <2>5 DEF NoneOf
  <2>7. subTopicList \subseteq Name /\ pubTopicList \subseteq Name /\ bSub \subseteq Name /\ bPub \subseteq Name
    BY DEF Typed
  <2> QED
    BY <2>4, <2>6, <2>7 DEF SubAgrees, PubAgrees
<1> DEFINE Inv == TypeOK /\ Numbered /\ Known /\ Carried /\ Closing /\ Left /\ Agree
<1>2. Init => Inv
  BY InitType, InitNumber, InitCount, InitAgree
<1>3. Inv /\ [Next]_vars => Inv'
  BY StepType, StepNumbered, StepKnown, StepCarried, StepClosing, StepLeft, StepAgree, Zenon
<1> QED
  BY <1>1, <1>2, <1>3, PTL DEF Spec
=============================================================================
