------------------------------ MODULE NodeTable ------------------------------
(***************************************************************************)
(* Class Broke's register of nodes in the v2 broker: how a connection gets *)
(* one of the broker's node numbers, is entered in index2nodeptr, lives    *)
(* and is removed again.                                                   *)
(*                                                                         *)
(* Each accepted connection c has a ConnectThread (program counter ct[c])  *)
(* and, once it is connected, a ReadThread (rd[c]).  When the 32 bits of   *)
(* totalNode were taken at accept time, a further thread (rt[c]) keeps     *)
(* calling AllocIndex while ConnectThread waits up to 3 seconds in         *)
(* ResetIndex.  A step ends where a thread releases a lock that another    *)
(* thread takes; steps no other thread can observe are part of the step    *)
(* before them.                                                            *)
(***************************************************************************)
EXTENDS Naturals

CONSTANTS Conn,     \* the connections the broker accepts, each once
          MaxNode,  \* the number of bits of totalNode, 32 in the code
          NoNode    \* no entry in index2nodeptr

ASSUME NodeAssumption ==
  /\ MaxNode \in Nat \ {0}
  /\ NoNode \notin Conn

Index == 1..MaxNode  \* index i stands for the mask 1 << (i - 1)
NoIndex == 0

VARIABLES totalNode,      \* Broke::totalNode, the set of its one bits
          index2nodeptr,  \* Broke::index2nodeptr
          State, nodeIndex, IndexFlag, TimeOutflag,  \* fields of class Node
          ct,             \* where ConnectThread is
          rt, indexTemp,  \* where the retry thread is, and its index_temp
          rd              \* where ReadThread is

vars == <<totalNode, index2nodeptr, State, nodeIndex, IndexFlag, TimeOutflag,
          ct, rt, indexTemp, rd>>

States == {"newconnect", "connecting", "connected", "connect_wait", "close", "online"}

TypeOK ==
  /\ totalNode \in SUBSET Index
  /\ index2nodeptr \in [Index -> Conn \cup {NoNode}]
  /\ State \in [Conn -> States]
  /\ nodeIndex \in [Conn -> Index \cup {NoIndex}]
  /\ IndexFlag \in [Conn -> BOOLEAN]
  /\ TimeOutflag \in [Conn -> BOOLEAN]
  /\ ct \in [Conn -> {"none", "reset", "add", "spawn", "waitclose", "done"}]
  /\ rt \in [Conn -> {"none", "alloc", "set", "done"}]
  /\ indexTemp \in [Conn -> Index \cup {NoIndex}]
  /\ rd \in [Conn -> {"none", "start", "online", "done"}]

Init ==
  /\ totalNode = {}
  /\ index2nodeptr = [i \in Index |-> NoNode]
  /\ State = [c \in Conn |-> "newconnect"]
  /\ nodeIndex = [c \in Conn |-> NoIndex]
  /\ IndexFlag = [c \in Conn |-> FALSE]
  /\ TimeOutflag = [c \in Conn |-> FALSE]
  /\ ct = [c \in Conn |-> "none"]
  /\ rt = [c \in Conn |-> "none"]
  /\ indexTemp = [c \in Conn |-> NoIndex]
  /\ rd = [c \in Conn |-> "none"]

-----------------------------------------------------------------------------
\* A faulty table that has no way from online to close.
state_transferNoHangup ==
  {<<"newconnect", "connecting">>, <<"newconnect", "connect_wait">>,
   <<"connecting", "connected">>, <<"connecting", "close">>,
   <<"connected", "close">>, <<"connected", "online">>,
   <<"connect_wait", "connecting">>, <<"connect_wait", "close">>}

\* The transitions between two different states that the table allows.
state_transfer ==
  {<<"newconnect", "connecting">>, <<"newconnect", "connect_wait">>,
   <<"connecting", "connected">>, <<"connecting", "close">>,
   <<"connected", "close">>, <<"connected", "online">>,
   <<"connect_wait", "connecting">>, <<"connect_wait", "close">>,
   <<"online", "close">>}

(***************************************************************************)
(* Node::SetState leaves the state alone, and says nothing, when the       *)
(* transition is not in the table.                                         *)
(***************************************************************************)
Transfer(from, to) == IF <<from, to>> \in state_transfer THEN to ELSE from

SetState(c, s) == State' = [State EXCEPT ![c] = Transfer(@, s)]

-----------------------------------------------------------------------------
\* A faulty AllocIndex that finds the bit and sets it under another locking.
AllocIndexUnmarked(i) ==
  /\ i \in Index \ totalNode
  /\ \A j \in Index \ totalNode : i <= j
  /\ UNCHANGED totalNode

(***************************************************************************)
(* Broke::AllocIndex takes the lowest free bit; it returns 0 when there is *)
(* none, and then changes nothing.                                         *)
(***************************************************************************)
AllocIndex(i) ==
  /\ i \in Index \ totalNode
  /\ \A j \in Index \ totalNode : i <= j
  /\ totalNode' = totalNode \cup {i}

NoneFree == totalNode = Index

(***************************************************************************)
(* ConnectThread from the accepted socket to the switch: the node is not   *)
(* shared yet, so only AllocIndex is seen by others.                       *)
(***************************************************************************)
Accept(c) ==
  /\ ct[c] = "none"
  /\ \/ \E i \in Index :
          /\ AllocIndex(i)
          /\ nodeIndex' = [nodeIndex EXCEPT ![c] = i]
          /\ IndexFlag' = [IndexFlag EXCEPT ![c] = TRUE]
          /\ SetState(c, "connecting")
          /\ ct' = [ct EXCEPT ![c] = "add"]
          /\ UNCHANGED rt
     \/ /\ NoneFree
        /\ SetState(c, "connect_wait")
        /\ ct' = [ct EXCEPT ![c] = "reset"]
        /\ rt' = [rt EXCEPT ![c] = "alloc"]
        /\ UNCHANGED <<totalNode, nodeIndex, IndexFlag>>
  /\ UNCHANGED <<index2nodeptr, TimeOutflag, indexTemp, rd>>

(***************************************************************************)
(* The retry thread: AllocIndex until it returns a number, then SetIndex.  *)
(* The loop condition only ends it with a number in hand, whatever has     *)
(* become of the node meanwhile.                                           *)
(***************************************************************************)
RetryAlloc(c) ==
  /\ rt[c] = "alloc"
  /\ \E i \in Index : AllocIndex(i) /\ indexTemp' = [indexTemp EXCEPT ![c] = i]
  /\ rt' = [rt EXCEPT ![c] = "set"]
  /\ UNCHANGED <<index2nodeptr, State, nodeIndex, IndexFlag, TimeOutflag, ct, rd>>

\* A faulty SetIndex that does not look at TimeOutflag.
RetrySetAnyway(c) ==
  /\ rt[c] = "set"
  /\ nodeIndex' = [nodeIndex EXCEPT ![c] = indexTemp[c]]
  /\ IndexFlag' = [IndexFlag EXCEPT ![c] = TRUE]
  /\ rt' = [rt EXCEPT ![c] = "done"]
  /\ UNCHANGED <<totalNode, index2nodeptr, State, TimeOutflag, ct, indexTemp, rd>>

(***************************************************************************)
(* Node::SetIndex as the retry thread calls it: -1 after the timeout and 1 *)
(* when it sets the number both end the thread, 0 sends it back to         *)
(* AllocIndex.                                                             *)
(***************************************************************************)
RetrySet(c) ==
  /\ rt[c] = "set"
  /\ \/ /\ TimeOutflag[c]
        /\ rt' = [rt EXCEPT ![c] = "done"]
        /\ UNCHANGED <<nodeIndex, IndexFlag>>
     \/ /\ ~TimeOutflag[c] /\ ~IndexFlag[c]
        /\ nodeIndex' = [nodeIndex EXCEPT ![c] = indexTemp[c]]
        /\ IndexFlag' = [IndexFlag EXCEPT ![c] = TRUE]
        /\ rt' = [rt EXCEPT ![c] = "done"]
     \/ /\ ~TimeOutflag[c] /\ IndexFlag[c]
        /\ rt' = [rt EXCEPT ![c] = "alloc"]
        /\ UNCHANGED <<nodeIndex, IndexFlag>>
  /\ UNCHANGED <<totalNode, index2nodeptr, State, TimeOutflag, ct, indexTemp, rd>>

(***************************************************************************)
(* Node::ResetIndex returns true once the number is set, or gives up after *)
(* 3 seconds without one; ConnectThread then goes on or closes the node.   *)
(***************************************************************************)
ResetWake(c) ==
  /\ ct[c] = "reset" /\ IndexFlag[c]
  /\ SetState(c, "connecting")
  /\ ct' = [ct EXCEPT ![c] = "add"]
  /\ UNCHANGED <<totalNode, index2nodeptr, nodeIndex, IndexFlag, TimeOutflag, rt, indexTemp, rd>>

\* A faulty ResetTimeout that leaves the switch without SetState(_close).
ResetTimeoutUnclosed(c) ==
  /\ ct[c] = "reset" /\ ~IndexFlag[c]
  /\ TimeOutflag' = [TimeOutflag EXCEPT ![c] = TRUE]
  /\ ct' = [ct EXCEPT ![c] = "waitclose"]
  /\ UNCHANGED <<totalNode, index2nodeptr, State, nodeIndex, IndexFlag, rt, indexTemp, rd>>

ResetTimeout(c) ==
  /\ ct[c] = "reset" /\ ~IndexFlag[c]
  /\ TimeOutflag' = [TimeOutflag EXCEPT ![c] = TRUE]
  /\ SetState(c, "close")
  /\ ct' = [ct EXCEPT ![c] = "waitclose"]
  /\ UNCHANGED <<totalNode, index2nodeptr, nodeIndex, IndexFlag, rt, indexTemp, rd>>

(***************************************************************************)
(* Broke::AddNode and the SetState that follows it.                        *)
(***************************************************************************)
AddNode(c) ==
  /\ ct[c] = "add"
  /\ \/ /\ index2nodeptr[nodeIndex[c]] = NoNode
        /\ index2nodeptr' = [index2nodeptr EXCEPT ![nodeIndex[c]] = c]
        /\ SetState(c, "connected")
        /\ ct' = [ct EXCEPT ![c] = "spawn"]
     \/ /\ index2nodeptr[nodeIndex[c]] # NoNode
        /\ SetState(c, "close")
        /\ ct' = [ct EXCEPT ![c] = "waitclose"]
        /\ UNCHANGED index2nodeptr
  /\ UNCHANGED <<totalNode, nodeIndex, IndexFlag, TimeOutflag, rt, indexTemp, rd>>

\* The two threads of the node start.
Spawn(c) ==
  /\ ct[c] = "spawn"
  /\ rd' = [rd EXCEPT ![c] = "start"]
  /\ ct' = [ct EXCEPT ![c] = "waitclose"]
  /\ UNCHANGED <<totalNode, index2nodeptr, State, nodeIndex, IndexFlag, TimeOutflag, rt, indexTemp>>

(***************************************************************************)
(* ReadThread goes online, and closes the node when the peer hangs up.     *)
(***************************************************************************)
ReadOnline(c) ==
  /\ rd[c] = "start"
  /\ SetState(c, "online")
  /\ rd' = [rd EXCEPT ![c] = "online"]
  /\ UNCHANGED <<totalNode, index2nodeptr, nodeIndex, IndexFlag, TimeOutflag, ct, rt, indexTemp>>

ReadClose(c) ==
  /\ rd[c] = "online"
  /\ SetState(c, "close")
  /\ rd' = [rd EXCEPT ![c] = "done"]
  /\ UNCHANGED <<totalNode, index2nodeptr, nodeIndex, IndexFlag, TimeOutflag, ct, rt, indexTemp>>

\* A faulty DelNode that removes the first entry it finds.
DelNodeAnyEntry(c) ==
  /\ totalNode' = totalNode \ {nodeIndex[c]}
  /\ \E i \in Index : index2nodeptr' = [index2nodeptr EXCEPT ![i] = NoNode]

\* A faulty DelNode that does not give the number back.
DelNodeKeepsBit(c) ==
  /\ UNCHANGED totalNode
  /\ index2nodeptr' = [i \in Index |-> IF i = nodeIndex[c] THEN NoNode ELSE index2nodeptr[i]]

(***************************************************************************)
(* Broke::DelNode, as far as the register goes, when ConnectThread returns *)
(* from WaitForClose.  A node without a number frees nothing.              *)
(***************************************************************************)
DelNode(c) ==
  /\ totalNode' = totalNode \ {nodeIndex[c]}
  /\ index2nodeptr' = [i \in Index |-> IF i = nodeIndex[c] THEN NoNode ELSE index2nodeptr[i]]

Delete(c) ==
  /\ ct[c] = "waitclose" /\ State[c] = "close"
  /\ DelNode(c)
  /\ ct' = [ct EXCEPT ![c] = "done"]
  /\ UNCHANGED <<State, nodeIndex, IndexFlag, TimeOutflag, rt, indexTemp, rd>>

-----------------------------------------------------------------------------
Step(c) ==
  \/ Accept(c)
  \/ RetryAlloc(c)
  \/ RetrySet(c)
  \/ ResetWake(c)
  \/ ResetTimeout(c)
  \/ AddNode(c)
  \/ Spawn(c)
  \/ ReadOnline(c)
  \/ ReadClose(c)
  \/ Delete(c)

Next == \E c \in Conn : Step(c)

Spec == Init /\ [][Next]_vars

(***************************************************************************)
(* The scheduler runs every thread that can run, and the 3 seconds of      *)
(* ResetIndex pass.  Nothing makes a client connect or hang up, and the    *)
(* retry thread may find every number taken each time it looks.            *)
(***************************************************************************)
Fairness ==
  \A c \in Conn :
    /\ WF_vars(RetrySet(c))
    /\ WF_vars(ResetWake(c) \/ ResetTimeout(c))
    /\ WF_vars(AddNode(c))
    /\ WF_vars(Spawn(c))
    /\ WF_vars(ReadOnline(c))
    /\ WF_vars(Delete(c))

FairSpec == Spec /\ Fairness

-----------------------------------------------------------------------------
\* The node has a number and has not given it back.
Owner(c) == IndexFlag[c] /\ ct[c] # "done"

\* The number c speaks for: its node's, or the one its retry thread holds.
Claims(c) == Owner(c) \/ rt[c] = "set"
Number(c) == IF rt[c] = "set" THEN indexTemp[c] ELSE nodeIndex[c]

(***************************************************************************)
(* No two connections speak for one number, counting the number a retry    *)
(* thread has taken and not yet handed to its node, and each such number   *)
(* is marked in totalNode (AllocIndex, SetIndex, DelNode).                 *)
(***************************************************************************)
IndexUnique ==
  \A c \in Conn : Claims(c) =>
    /\ Number(c) \in totalNode
    /\ \A d \in Conn \ {c} : Claims(d) => Number(d) # Number(c)

(***************************************************************************)
(* index2nodeptr leads from a number to the live node that has it, and to  *)
(* every node whose threads run: what DelNode erases by number is the node *)
(* it means, and GetNodePtr finds whoever can have subscribed.             *)
(***************************************************************************)
MapAgrees ==
  /\ \A i \in Index : index2nodeptr[i] # NoNode =>
       /\ Owner(index2nodeptr[i])
       /\ nodeIndex[index2nodeptr[i]] = i
  /\ \A c \in Conn : ct[c] = "spawn" \/ (ct[c] = "waitclose" /\ rd[c] # "none") =>
       index2nodeptr[nodeIndex[c]] = c

(***************************************************************************)
(* AddNode never meets its "Index exsit" branch: a number is out of the    *)
(* map before it is free again (DelNode does both under its two locks).    *)
(***************************************************************************)
AddNeverRefused ==
  \A c \in Conn : ct[c] = "add" => index2nodeptr[nodeIndex[c]] = NoNode

(***************************************************************************)
(* Of a retry thread's SetIndex and the timeout of ResetIndex exactly one  *)
(* wins: a node that was given up never has a number.                      *)
(***************************************************************************)
TimedOutHasNoIndex ==
  \A c \in Conn : TimeOutflag[c] => ~IndexFlag[c]

(***************************************************************************)
(* WaitForClose is never left waiting for nobody: the node is closed or    *)
(* its ReadThread will still close it.  A SetState the table refuses       *)
(* without a word would break this.                                        *)
(***************************************************************************)
NeverStuck ==
  \A c \in Conn : ct[c] = "waitclose" => State[c] = "close" \/ rd[c] \in {"start", "online"}

(***************************************************************************)
(* Every bit of totalNode is a node's, in a retry thread's hand, or was    *)
(* taken by a retry thread for a node that had timed out: DelNode returns  *)
(* all others.                                                             *)
(***************************************************************************)
Accounted ==
  \A i \in totalNode : \E c \in Conn :
    \/ Claims(c) /\ Number(c) = i
    \/ TimeOutflag[c] /\ indexTemp[c] = i

(***************************************************************************)
(* A connection that waits in ResetIndex is served or given up, and one    *)
(* that was given up or whose peer hung up leaves the register.            *)
(***************************************************************************)
Released ==
  \A c \in Conn :
    /\ ct[c] = "reset" ~> rd[c] = "online" \/ ct[c] = "done"
    /\ rd[c] = "done" ~> ct[c] = "done"
=============================================================================
