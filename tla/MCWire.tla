------------------------------- MODULE MCWire -------------------------------
(***************************************************************************)
(* Wire for TLC, with bytes of 16 values and masks of 8 bits, in the same  *)
(* proportions as in the code: a byte holds every number of shifts,        *)
(* counting down from zero shifts the mask out, and the buffer holds a     *)
(* head and as much as one length byte can say.                            *)
(***************************************************************************)
EXTENDS Wire

\* Empty strings, full length bytes, one length that does not fit, two that do
\* not fit together, and check codes before, at and behind the wrap.
MCInputs ==
  [topic : {0, 15}, data : {0, 3, 17}, topicOnes : {3}, dataOnes : {0, 1},
   index : {{0}, {7}}]

\* A head with nothing behind it, and one too long for the buffer.
MCStrayHeads ==
  {[node_index |-> 1, topic_name_len |-> n, data_len |-> n, check_code |-> 0] : n \in {0, 15}}

\* Short strings that fit, and any head at all.
MCShortInputs ==
  [topic : {1}, data : {0, 1}, topicOnes : {1}, dataOnes : {1}, index : {{0}}]
MCAnyHead == Heads
=============================================================================
