--------------------------- MODULE SendQueueProofs ---------------------------
(***************************************************************************)
(* What holds of the send queue for any messages.  NeverPopsEmpty is not   *)
(* inductive: the writer is safe because the semaphore counts the queued   *)
(* messages (Tokens), plus the one post of CloseWrite, and that one comes  *)
(* after the state that the writer checks.  The count is right only when   *)
(* the semaphore starts at zero, which is the hypothesis of Tokens.        *)
(***************************************************************************)
EXTENDS SendQueue, TLAPS

Token(b) == IF b THEN 1 ELSE 0

(***************************************************************************)
(* The posts that nobody has taken, and the one the writer has in hand,    *)
(* are the queued messages and the post of CloseWrite.                     *)
(***************************************************************************)
Tokens ==
  /\ wt # "done" =>
       Msg_Sem + Token(wt \in {"check", "pop"}) = Len(Message) + Token(rd = "done")
  /\ wt = "pop" => Len(Message) > 0

LEMMA InitType == Init => TypeOK /\ InOrder
  BY SendQueueAssumption DEF Init, TypeOK, InOrder

LEMMA StepType == TypeOK /\ [Next]_vars => TypeOK'
<1> SUFFICES ASSUME TypeOK, [Next]_vars PROVE TypeOK'
  OBVIOUS
<1> USE DEF TypeOK
<1>1. ASSUME NEW m \in Msg, Push(m) PROVE TypeOK'
  BY <1>1 DEF Push
<1>2. CASE Close
  BY <1>2 DEF Close
<1>3. CASE CloseWrite
  BY <1>3 DEF CloseWrite
<1>4. CASE Wake
  BY <1>4 DEF Wake
<1>5. CASE Check
  BY <1>5 DEF Check
<1>6. CASE Pop
  BY <1>6 DEF Pop
<1>7. CASE UNCHANGED vars
  BY <1>7 DEF vars
<1> QED
  BY <1>1, <1>2, <1>3, <1>4, <1>5, <1>6, <1>7 DEF Next

LEMMA StepTokens == TypeOK /\ Tokens /\ [Next]_vars => Tokens'
<1> SUFFICES ASSUME TypeOK, Tokens, [Next]_vars PROVE Tokens'
  OBVIOUS
<1> USE DEF TypeOK, Tokens, Token
<1>1. ASSUME NEW m \in Msg, Push(m) PROVE Tokens'
  <2>1. Len(Message') = Len(Message) + 1
    BY <1>1 DEF Push
  <2> QED
    BY <1>1, <2>1 DEF Push
<1>2. CASE Close
  BY <1>2 DEF Close
<1>3. CASE CloseWrite
  BY <1>3 DEF CloseWrite
<1>4. CASE Wake
  BY <1>4 DEF Wake
<1>5. CASE Check
  BY <1>5 DEF Check
<1>6. CASE Pop
  <2>1. Len(Message') = Len(Message) - 1
    BY <1>6 DEF Pop
  <2> QED
    BY <1>6, <2>1 DEF Pop
<1>7. CASE UNCHANGED vars
  BY <1>7 DEF vars
<1> QED
  BY <1>1, <1>2, <1>3, <1>4, <1>5, <1>6, <1>7 DEF Next

(***************************************************************************)
(* The queue keeps its types.                                              *)
(***************************************************************************)
THEOREM TypeCorrect == Spec => []TypeOK
<1>1. Init => TypeOK
  BY InitType
<1> QED
  BY <1>1, StepType, PTL DEF Spec

(***************************************************************************)
(* With the semaphore initialised, as the broker's Node does, the writer   *)
(* never reaches for the front of an empty deque, whenever the node is     *)
(* closed and however many threads push.                                   *)
(***************************************************************************)
THEOREM PopSafe == ASSUME SemInit = {0} PROVE Spec => []NeverPopsEmpty
<1>1. Init => Tokens
  BY DEF Init, Tokens, Token
<1>2. TypeOK /\ Tokens => NeverPopsEmpty
  BY DEF TypeOK, Tokens, NeverPopsEmpty
<1> QED
  BY <1>1, <1>2, StepTokens, TypeCorrect, PTL DEF Spec

LEMMA HeadMoves ==
  ASSUME NEW w \in Seq(Msg), NEW q \in Seq(Msg), q # <<>>
  PROVE  w \o q = Append(w, Head(q)) \o Tail(q)
  OBVIOUS

LEMMA AppendMoves ==
  ASSUME NEW w \in Seq(Msg), NEW q \in Seq(Msg), NEW m \in Msg
  PROVE  Append(w \o q, m) = w \o Append(q, m)
  OBVIOUS

LEMMA StepInOrder == TypeOK /\ InOrder /\ [Next]_vars => InOrder'
<1> SUFFICES ASSUME TypeOK, InOrder, [Next]_vars PROVE InOrder'
  OBVIOUS
<1>1. ASSUME NEW m \in Msg, Push(m) PROVE InOrder'
  <2>1. Append(written \o Message, m) = written \o Append(Message, m)
    BY AppendMoves DEF TypeOK
  <2> QED
    BY <1>1, <2>1 DEF Push, InOrder
<1>2. CASE Pop
  <2>1. written \o Message = Append(written, Head(Message)) \o Tail(Message)
    BY <1>2, HeadMoves DEF Pop, TypeOK
  <2> QED
    BY <1>2, <2>1 DEF Pop, InOrder
<1>3. CASE Close \/ CloseWrite \/ Wake \/ Check \/ UNCHANGED vars
  BY <1>3 DEF Close, CloseWrite, Wake, Check, vars, InOrder
<1> QED
  BY <1>1, <1>2, <1>3 DEF Next

(***************************************************************************)
(* The socket gets the messages in the order in which they were queued,    *)
(* none twice and none left out.  This needs no assumption on the          *)
(* semaphore.                                                              *)
(***************************************************************************)
THEOREM WrittenInOrder == Spec => []InOrder
<1>1. Init => InOrder
  BY InitType
<1> QED
  BY <1>1, StepInOrder, TypeCorrect, PTL DEF Spec

(***************************************************************************)
(* Once the node is closed the writer does not commit to another message.  *)
(***************************************************************************)
THEOREM ClosedIsQuiet == Spec => QuietAfterClose
<1>1. [Next]_vars => [rd # "reading" /\ wt # "pop" => wt' # "pop" /\ UNCHANGED written]_vars
  BY DEF Next, vars, Push, Close, CloseWrite, Wake, Check, Pop
<1> QED
  BY <1>1, PTL DEF Spec, QuietAfterClose

(***************************************************************************)
(* The two threads, the semaphore and the deque implement the Outbox: the  *)
(* check of the writer is the step at which a message is sent.  Safety     *)
(* part of ImplementsOutbox.                                               *)
(***************************************************************************)
Inv == TypeOK /\ Tokens /\ InOrder

LEMMA BoxPut ==
  ASSUME Inv, NEW m \in Msg, Push(m) PROVE Box!Next
<1> USE DEF Inv, TypeOK
<1>1. Len(written \o Message) = Len(written) + Len(Message)
  OBVIOUS
<1>2. CASE Committed
  <2>1. Message # <<>>
    BY <1>2 DEF Tokens, Committed
  <2>2. /\ Tail(Append(Message, m)) = Append(Tail(Message), m)
        /\ Head(Append(Message, m)) = Head(Message)
    BY <2>1
  <2>3. Len(Tail(Message)) + Len(Append(written, Head(Message))) = Len(pushed)
    BY <1>1, <2>1 DEF InOrder
  <2> QED
    BY <1>2, <2>2, <2>3 DEF Push, Committed, Box!Next, Box!Put
<1>3. CASE ~Committed
  BY <1>1, <1>3 DEF Push, Committed, Box!Next, Box!Put, InOrder
<1> QED
  BY <1>2, <1>3

THEOREM OutboxImplemented == ASSUME SemInit = {0} PROVE Spec => Box!Safety
<1>1. Init => Inv
  BY InitType DEF Inv, Init, Tokens, Token
<1>2. Inv /\ [Next]_vars => Inv'
  <2>1. TypeOK /\ InOrder /\ [Next]_vars => InOrder'
    BY StepInOrder
  <2> QED
    BY <2>1, StepType, StepTokens DEF Inv
<1>3. Init => Box!Init
  BY DEF Init, Box!Init, Committed
<1>4. Inv /\ [Next]_vars => [Box!Next]_(Box!vars)
  <2> SUFFICES ASSUME Inv, [Next]_vars PROVE Box!Next \/ UNCHANGED Box!vars
    OBVIOUS
  <2> USE DEF Inv, TypeOK
  <2>1. ASSUME NEW m \in Msg, Push(m) PROVE Box!Next
    BY <2>1, BoxPut
  <2>2. CASE Close
    BY <2>2 DEF Close, Committed, Box!Next, Box!Shut
  <2>3. CASE CloseWrite
    BY <2>3 DEF CloseWrite, Committed, Box!vars
  <2>4. CASE Wake
    BY <2>4 DEF Wake, Committed, Box!vars
  <2>5. CASE Check
    <3>1. CASE rd = "reading"
      <4>1. Message # <<>>
        BY <2>5, <3>1 DEF Check, Tokens, Token
      <4> QED
        BY <2>5, <3>1, <4>1 DEF Check, Committed, Box!Next, Box!Send
    <3>2. CASE rd # "reading"
      BY <2>5, <3>2 DEF Check, Committed, Box!vars
    <3> QED
      BY <3>1, <3>2
  <2>6. CASE Pop
    BY <2>6 DEF Pop, Committed, Box!vars
  <2>7. CASE UNCHANGED vars
    BY <2>7 DEF vars, Committed, Box!vars
  <2> QED
    BY <2>1, <2>2, <2>3, <2>4, <2>5, <2>6, <2>7 DEF Next
<1> QED
  BY <1>1, <1>2, <1>3, <1>4, PTL DEF Spec, Box!Safety
=============================================================================
