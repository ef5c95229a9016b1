----------------------------- MODULE MCEpollEcho -----------------------------
(***************************************************************************)
(* EpollEcho for TLC: lines of different lengths, so that a short line may *)
(* be read over a long one, and the last line of c1 fills the buffers.     *)
(* What the client's buffer holds at first leaves room for a zero or not.  *)
(***************************************************************************)
EXTENDS EpollEcho

CONSTANTS c1, c2

MCLines == [c \in Conn |-> IF c = c1 THEN <<2, 3>> ELSE <<1>>]
MCGarbage == {<<>>, <<Junk, Junk>>}
MCBehind == {<<Junk>>}
=============================================================================
