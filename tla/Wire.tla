-------------------------------- MODULE Wire --------------------------------
(***************************************************************************)
(* A v2 connection as a stream of bytes: MyNode composes messages with an  *)
(* 8-byte head of one-byte fields and a check code, WriteThread writes     *)
(* them, the network delivers the bytes in pieces, and the broker's        *)
(* ReadThread cuts them into messages again.                               *)
(*                                                                         *)
(* read() returns what has arrived, up to what was asked for.  Both        *)
(* reading loops of the code ask again when that was too little, but every *)
(* call writes to the same place of the buffer, so that the bytes of the   *)
(* call before are lost.  The buffer has room for a body as long as one    *)
(* length byte can say, and a head has two: a body that is longer is       *)
(* written behind the buffer.  What the program does from then on is       *)
(* undefined; the reader is in a place of its own, overrun, and the model  *)
(* says nothing of what follows.                                           *)
(*                                                                         *)
(* A byte is its position in the stream.  A topic name and a data string   *)
(* are their lengths and the number of one bits in each of their bytes.    *)
(* What the code makes of a head or a body it does not have whole is       *)
(* anything.  A 32-bit mask is the set of its one bits.                    *)
(***************************************************************************)
EXTENDS Integers, Sequences

CONSTANTS Byte,        \* the number of values of a uint8_t, 256 in the code
          Bits,        \* the number of bits of a uint32_t, 32 in the code
          HeadLength,  \* headlength, 8 in the code
          BufferSize,  \* MAX_BUFFER_SIZE, 263 in the code
          Inputs,      \* the messages the program may give to MyNode
          MaxSent,     \* bound: the number of messages sent
          StrayHeads,  \* bound: what GetHead makes of bytes that are no head
          CutAt        \* bound: the offsets in a head or a body at which the
                       \* network may cut it, any of them in the code

Bytes == 0..(Byte - 1)
Index == {{b} : b \in 0..(Bits - 1)}
Heads == [node_index : Bytes, topic_name_len : Bytes, data_len : Bytes, check_code : Bytes]

ASSUME WireAssumption ==
  /\ Bits \in Nat \ {0} /\ Byte \in Nat /\ Byte > Bits
  /\ HeadLength \in Nat \ {0} /\ BufferSize \in Nat /\ HeadLength <= BufferSize
  /\ MaxSent \in Nat
  /\ Inputs \subseteq [topic : Nat, data : Nat, topicOnes : Nat, dataOnes : Nat, index : Index]
  /\ StrayHeads # {} /\ StrayHeads \subseteq Heads
  /\ CutAt \subseteq Nat

VARIABLES sent,     \* the messages written: what the program gave, and its head
          arrived,  \* the number of bytes that have arrived
          closed,   \* the peer has closed the connection, or is gone
          taken,    \* the number of bytes read() has returned
          pc,       \* the place in ReadThread: head, body, check, stopped, overrun
          left,     \* RecvHeadLen or RecvBodylen
          buffer,   \* the bytes of the last read
          from,     \* the message whose head was read, 0: none that was sent
          head,     \* the head as parsed
          ok,       \* whether the assertion on the check code holds
          torn,     \* history: a read has overwritten a part of a head or a body
          handled   \* what MsgHandler was given

vars == <<sent, arrived, closed, taken, pc, left, buffer, from, head, ok, torn, handled>>
readVars == <<taken, pc, left, buffer, from, head, ok, torn, handled>>

Received == [topic : Bytes, data : Bytes, index : SUBSET (0..(Bits - 1))]
\* The bytes behind the head in new char[MAX_BUFFER_SIZE].
BodyRoom == BufferSize - HeadLength
NoHead == [node_index |-> 0, topic_name_len |-> 0, data_len |-> 0, check_code |-> 0]

TypeOK ==
  /\ sent \in Seq([input : Inputs, head : Heads])
  /\ arrived \in Nat /\ taken \in 0..arrived /\ closed \in BOOLEAN
  /\ pc \in {"head", "body", "check", "stopped", "overrun"}
  /\ left \in 0..(HeadLength + 2 * Byte)
  /\ buffer \in Seq(1..arrived)
  /\ pc = "head" => left <= HeadLength /\ Len(buffer) <= HeadLength
  /\ pc \in {"body", "check"} => Len(buffer) <= BodyRoom
  /\ from \in 0..Len(sent) /\ head \in Heads
  /\ ok \in BOOLEAN /\ torn \in BOOLEAN
  /\ handled \in Seq(Received)

Init ==
  /\ sent = <<>> /\ arrived = 0 /\ closed = FALSE
  /\ taken = 0 /\ pc = "head" /\ left = HeadLength /\ buffer = <<>>
  /\ from = 0 /\ head = NoHead /\ ok = TRUE /\ torn = FALSE /\ handled = <<>>

-----------------------------------------------------------------------------
(***************************************************************************)
(* The conversions.                                                        *)
(***************************************************************************)
\* What a uint8_t keeps of a number.
ToByte(n) == n % Byte

ShiftRight(S) == {b - 1 : b \in S \ {0}}
ShiftLeft(S) == {b + 1 : b \in S \ {Bits - 1}}

\* node_index2int8 counts the shifts until the mask is empty.
node_index2int8(S) ==
  LET count[R \in SUBSET (0..(Bits - 1))] == IF R = {} THEN 0 ELSE 1 + count[ShiftRight(R)]
  IN  ToByte(count[S])

\* A faulty int82node_index that counts down after the test.
int82node_indexLate(n) ==
  LET shifted[k \in Bytes] == IF k = 0 THEN {0} ELSE ShiftLeft(shifted[k - 1])
  IN  shifted[n]

\* int82node_index shifts back, counting its own byte down to zero.
int82node_index(n) ==
  LET shifted[k \in Bytes] == IF k = 0 THEN {0} ELSE ShiftLeft(shifted[k - 1])
  IN  shifted[ToByte(n - 1)]

\* A faulty codeGenera that saturates.
codeGeneraSaturating(n) == IF n < Byte THEN n ELSE Byte - 1

\* A faulty codeGenera whose result is wider than a byte.
codeGeneraWide(n) ==
  LET res[k \in 0..n] == IF k = 0 THEN 0 ELSE (res[k - 1] % Byte) + 1
  IN  res[n]

\* codeGenera over a text with n one bits: res = res % 256 + 1 for each.
codeGenera(n) ==
  LET res[k \in 0..n] == IF k = 0 THEN 0 ELSE ToByte((res[k - 1] % Byte) + 1)
  IN  res[n]

\* The one bits in the first n bytes of the text of a message.
OnesIn(m, n) ==
  IF n <= m.topic THEN n * m.topicOnes ELSE m.topic * m.topicOnes + (n - m.topic) * m.dataOnes

BodyLength(h) == h.topic_name_len + h.data_len

-----------------------------------------------------------------------------
(***************************************************************************)
(* The sender and the network.                                             *)
(***************************************************************************)
\* MyNode::SendData with string2Msg: the head of a message.
Compose(m) ==
  [node_index |-> node_index2int8(m.index),
   topic_name_len |-> ToByte(m.topic),
   data_len |-> ToByte(m.data),
   check_code |-> codeGenera(OnesIn(m, m.topic + m.data))]

\* WriteThread writes the head and as many bytes as the head says.
Write(m) ==
  /\ ~closed /\ Len(sent) < MaxSent
  /\ sent' = Append(sent, [input |-> m, head |-> Compose(m)])
  /\ UNCHANGED <<arrived, closed, readVars>>

\* EndOf[i] is the position of the last byte written for message i.
EndOf[i \in 0..Len(sent)] ==
  IF i = 0 THEN 0 ELSE EndOf[i - 1] + HeadLength + BodyLength(sent[i].head)

\* Where the bytes of a delivery may end: behind a head or a body, or inside it.
Cuts ==
  LET starts == UNION {{EndOf[i - 1], EndOf[i - 1] + HeadLength} : i \in DOMAIN sent}
  IN  {n \in 1..EndOf[Len(sent)] : \/ n = EndOf[Len(sent)]
                                  \/ \E p \in starts : n - p \in CutAt \cup {0}}

Arrive ==
  /\ ~closed
  /\ \E n \in Cuts : n > arrived /\ arrived' = n
  /\ UNCHANGED <<sent, closed, readVars>>

\* The peer hangs up or is gone: what has not arrived is lost.
HangUp ==
  /\ ~closed
  /\ closed' = TRUE
  /\ UNCHANGED <<sent, arrived, readVars>>

-----------------------------------------------------------------------------
(***************************************************************************)
(* ReadThread.                                                             *)
(***************************************************************************)
Least(a, b) == IF a < b THEN a ELSE b

\* read(): the bytes that are there, at most left of them, at the beginning.
Read ==
  /\ taken < arrived
  /\ LET n == Least(left, arrived - taken) IN
     /\ buffer' = [i \in 1..n |-> taken + i]
     /\ taken' = taken + n
     /\ left' = left - n

\* read() returns 0: MsgFlag is false, the loops end.
EndOfFile == taken = arrived /\ closed

\* The buffer has the n bytes behind position p, each in its place.
Holds(p, n) == buffer = [i \in 1..n |-> p + i]

\* The message whose head is in the buffer, 0 when it is not a head that was sent.
HeadInBuffer ==
  LET whole == {i \in DOMAIN sent : Holds(EndOf[i - 1], HeadLength)}
  IN  IF whole = {} THEN {0} ELSE whole

ReadHead ==
  /\ pc = "head" /\ left > 0
  /\ Read
  /\ torn' = (torn \/ left < HeadLength)
  /\ UNCHANGED <<sent, arrived, closed, pc, from, head, ok, handled>>

\* A faulty ReadThread that leaves the topic name out of what it reads.
GetHeadDataOnly ==
  /\ pc = "head" /\ left = 0
  /\ \E i \in HeadInBuffer :
       from' = i /\ head' \in (IF i = 0 THEN StrayHeads ELSE {sent[i].head})
  /\ left' = head'.data_len
  /\ pc' = "body" /\ buffer' = <<>>
  /\ UNCHANGED <<sent, arrived, closed, taken, ok, torn, handled>>

\* GetHead, and how much body there is to read.
GetHead ==
  /\ pc = "head" /\ left = 0
  /\ \E i \in HeadInBuffer :
       from' = i /\ head' \in (IF i = 0 THEN StrayHeads ELSE {sent[i].head})
  /\ left' = BodyLength(head')
  /\ pc' = "body" /\ buffer' = <<>>
  /\ UNCHANGED <<sent, arrived, closed, taken, ok, torn, handled>>

HeadEnds ==
  /\ pc = "head" /\ left > 0 /\ EndOfFile
  /\ pc' = "stopped"
  /\ UNCHANGED <<sent, arrived, closed, taken, left, buffer, from, head, ok, torn, handled>>

\* Behind the head in the buffer, whether there is room or not.
ReadBody ==
  /\ pc = "body" /\ left > 0
  /\ Read
  /\ torn' = (torn \/ left < BodyLength(head))
  /\ pc' = IF Len(buffer') > BodyRoom THEN "overrun" ELSE "body"
  /\ UNCHANGED <<sent, arrived, closed, from, head, ok, handled>>

BodyIsWhole == from # 0 /\ Holds(EndOf[from - 1] + HeadLength, BodyLength(head))

(***************************************************************************)
(* assert(head.check_code == codeGenera(...)).  When the file ended inside *)
(* the body it is evaluated all the same.  out and codeGenera read as many *)
(* bytes as the head says, those behind the buffer included.               *)
(***************************************************************************)
CheckCode ==
  /\ pc = "body" /\ (left = 0 \/ EndOfFile) /\ BodyLength(head) <= BodyRoom
  /\ ok' \in (IF BodyIsWhole
              THEN {head.check_code = codeGenera(OnesIn(sent[from].input, BodyLength(head)))}
              ELSE BOOLEAN)
  /\ pc' = "check"
  /\ UNCHANGED <<sent, arrived, closed, taken, left, buffer, from, head, torn, handled>>

CheckBehindBuffer ==
  /\ pc = "body" /\ (left = 0 \/ EndOfFile) /\ BodyLength(head) > BodyRoom
  /\ pc' = "overrun"
  /\ UNCHANGED <<sent, arrived, closed, taken, left, buffer, from, head, ok, torn, handled>>

\* A faulty end of the loop that looks at the connection before the message.
HandleUnlessClosed ==
  /\ pc = "check" /\ ok
  /\ IF ~closed
     THEN /\ handled' = Append(handled, [topic |-> head.topic_name_len, data |-> head.data_len,
                                         index |-> int82node_index(head.node_index)])
          /\ pc' = "head" /\ left' = HeadLength
     ELSE pc' = "stopped" /\ UNCHANGED <<left, handled>>
  /\ buffer' = <<>> /\ from' = 0 /\ head' = NoHead
  /\ UNCHANGED <<sent, arrived, closed, taken, ok, torn>>

\* MsgHandler and the next round, or, after a short body, the end.
Handle ==
  /\ pc = "check" /\ ok
  /\ IF left = 0
     THEN /\ handled' = Append(handled, [topic |-> head.topic_name_len, data |-> head.data_len,
                                         index |-> int82node_index(head.node_index)])
          /\ pc' = "head" /\ left' = HeadLength
     ELSE pc' = "stopped" /\ UNCHANGED <<left, handled>>
  /\ buffer' = <<>> /\ from' = 0 /\ head' = NoHead
  /\ UNCHANGED <<sent, arrived, closed, taken, ok, torn>>

ReadThread ==
  ReadHead \/ GetHead \/ HeadEnds \/ ReadBody \/ CheckCode \/ CheckBehindBuffer \/ Handle

-----------------------------------------------------------------------------
Next == (\E m \in Inputs : Write(m)) \/ Arrive \/ HangUp \/ ReadThread

Spec == Init /\ [][Next]_vars

\* The reader is a thread of its own and is scheduled.
FairSpec == Spec /\ WF_vars(ReadThread)

-----------------------------------------------------------------------------
\* Each length fits its byte, and both texts together fit the buffer.
Fits(m) == m.topic < Byte /\ m.data < Byte /\ HeadLength + m.topic + m.data <= BufferSize

(***************************************************************************)
(* As long as no read overwrites the beginning of a head or a body,        *)
(* MsgHandler is given the messages of the peer in the order in which they *)
(* were sent, none twice and none left out, each with its node number and, *)
(* when it fits, with its whole text.                                      *)
(***************************************************************************)
RoundTrip ==
  ~torn =>
    \A i \in DOMAIN handled :
      /\ i \in DOMAIN sent
      /\ handled[i].index = sent[i].input.index
      /\ Fits(sent[i].input) =>
           handled[i].topic = sent[i].input.topic /\ handled[i].data = sent[i].input.data

(***************************************************************************)
(* The check code is the number of one bits modulo 256, as its comment     *)
(* says, although the code only ever reduces its own byte.                 *)
(***************************************************************************)
CodeIsOnesModulo ==
  \A i \in DOMAIN sent :
    LET m == sent[i].input
    IN  sent[i].head.check_code = OnesIn(m, m.topic + m.data) % Byte

(***************************************************************************)
(* The receiver's assertion, which ends the broker for all its clients,    *)
(* fails, and the memory behind its buffer is touched, only over a message *)
(* that does not fit, over one that the peer left unfinished (the          *)
(* assertion only), or after a read has overwritten a part of a message.   *)
(***************************************************************************)
FailureExplained ==
  ~ok \/ pc = "overrun" =>
    \/ torn
    \/ ~Fits(sent[from].input)
    \/ ~ok /\ closed /\ arrived < EndOf[from]

(***************************************************************************)
(* After a hang-up the reader stops, having handled every message that     *)
(* arrived whole unless a read has overwritten a part of one, or else the  *)
(* assertion has ended the program or the buffer was overrun.              *)
(***************************************************************************)
AllHandled ==
  \A i \in DOMAIN sent : EndOf[i] <= arrived => i \in DOMAIN handled

EverythingHandled ==
  closed ~> \/ pc = "stopped" /\ (torn \/ AllHandled)
            \/ ~ok \/ pc = "overrun"

(***************************************************************************)
(* The assertion itself: while the connection is open and every message    *)
(* fits, the check code matches, in whatever pieces the network delivers.  *)
(***************************************************************************)
CheckCodeMatches ==
  ~closed /\ (\A i \in DOMAIN sent : Fits(sent[i].input)) => ok
=============================================================================
