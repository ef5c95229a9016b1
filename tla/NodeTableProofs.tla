-------------------------- MODULE NodeTableProofs ---------------------------
(***************************************************************************)
(* What holds of the register of nodes for any number of connections and   *)
(* node numbers.                                                           *)
(*                                                                         *)
(* IndexUnique and MapAgrees are not inductive: SetIndex hands over a      *)
(* number without asking whether the node has one, AddNode enters a node   *)
(* without asking whether its number is marked, DelNode erases by number.  *)
(* What makes them safe is where the threads of one connection can be at   *)
(* the same time, which Threads states.                                    *)
(***************************************************************************)
EXTENDS NodeTable, TLAPS

(***************************************************************************)
(* Where the threads of one connection are together, and what its node's   *)
(* fields are then.                                                        *)
(***************************************************************************)
ConnectPhase(c) ==
  /\ ct[c] = "none" => /\ State[c] = "newconnect" /\ ~IndexFlag[c] /\ ~TimeOutflag[c]
                       /\ rt[c] = "none" /\ rd[c] = "none"
  /\ ct[c] = "reset" => /\ State[c] = "connect_wait" /\ ~TimeOutflag[c] /\ rd[c] = "none"
                        /\ IndexFlag[c] \/ rt[c] \in {"alloc", "set"}
  /\ ct[c] = "add" => /\ State[c] = "connecting" /\ IndexFlag[c] /\ ~TimeOutflag[c]
                      /\ rd[c] = "none"
  /\ ct[c] = "spawn" => /\ State[c] = "connected" /\ IndexFlag[c] /\ ~TimeOutflag[c]
                        /\ rd[c] = "none"
  /\ ct[c] = "waitclose" => State[c] = "close" \/ rd[c] \in {"start", "online"}
  /\ ct[c] = "done" => State[c] = "close"

ReadPhase(c) ==
  /\ rd[c] # "none" => ct[c] \in {"waitclose", "done"} /\ IndexFlag[c]
  /\ rd[c] = "start" => State[c] = "connected"
  /\ rd[c] = "online" => State[c] = "online"
  /\ rd[c] = "done" => State[c] = "close"

RetryPhase(c) ==
  /\ rt[c] \in {"alloc", "set"} => ~IndexFlag[c] /\ (ct[c] = "reset" \/ TimeOutflag[c])
  /\ TimeOutflag[c] => ~IndexFlag[c] /\ ct[c] \in {"waitclose", "done"}
  /\ rt[c] = "set" => indexTemp[c] # NoIndex
  /\ rt[c] \in {"none", "alloc"} => indexTemp[c] = NoIndex
  /\ IndexFlag[c] <=> nodeIndex[c] # NoIndex

Threads == \A c \in Conn : ConnectPhase(c) /\ ReadPhase(c) /\ RetryPhase(c)

\* Only a node that AddNode entered and DelNode has not removed is in the map.
MapLive ==
  \A i \in Index : index2nodeptr[i] # NoNode =>
    ct[index2nodeptr[i]] \in {"spawn", "waitclose"}

IInv == TypeOK /\ Threads /\ IndexUnique /\ MapAgrees /\ MapLive /\ Accounted
-----------------------------------------------------------------------------
LEMMA NoIndexIsNone == NoIndex \notin Index
  BY NodeAssumption DEF NoIndex, Index

LEMMA InitInv == Init => IInv
  BY NoIndexIsNone DEF Init, IInv, TypeOK, States, Threads, ConnectPhase, ReadPhase, RetryPhase,
     IndexUnique, MapAgrees, MapLive, Accounted, Claims, Owner

(***************************************************************************)
(* The fields keep their types over every step.                            *)
(***************************************************************************)
LEMMA StepType == TypeOK /\ [Next]_vars => TypeOK'
<1> SUFFICES ASSUME TypeOK, [Next]_vars PROVE TypeOK'
  OBVIOUS
<1> USE DEF TypeOK, States
<1>1. ASSUME NEW c \in Conn, Accept(c) PROVE TypeOK'
  <2>1. State' \in [Conn -> States]
    BY <1>1 DEF Accept, SetState, Transfer, state_transfer
  <2>2. /\ totalNode' \in SUBSET Index
        /\ nodeIndex' \in [Conn -> Index \cup {NoIndex}]
        /\ IndexFlag' \in [Conn -> BOOLEAN]
    <3>1. CASE UNCHANGED <<totalNode, nodeIndex, IndexFlag>>
      BY <3>1
    <3>2. ASSUME NEW i \in Index, AllocIndex(i),
                 nodeIndex' = [nodeIndex EXCEPT ![c] = i],
                 IndexFlag' = [IndexFlag EXCEPT ![c] = TRUE]
          PROVE  /\ totalNode' \in SUBSET Index
                 /\ nodeIndex' \in [Conn -> Index \cup {NoIndex}]
                 /\ IndexFlag' \in [Conn -> BOOLEAN]
      BY <3>2 DEF AllocIndex
    <3> QED
      BY <1>1, <3>1, <3>2 DEF Accept
  <2>3. /\ ct' \in [Conn -> {"none", "reset", "add", "spawn", "waitclose", "done"}]
        /\ rt' \in [Conn -> {"none", "alloc", "set", "done"}]
    BY <1>1 DEF Accept
  <2> QED
    BY <1>1, <2>1, <2>2, <2>3 DEF Accept
<1>2. ASSUME NEW c \in Conn, RetryAlloc(c) PROVE TypeOK'
  BY <1>2 DEF RetryAlloc, AllocIndex
<1>3. ASSUME NEW c \in Conn, RetrySet(c) PROVE TypeOK'
  BY <1>3 DEF RetrySet
<1>4. ASSUME NEW c \in Conn, ResetWake(c) PROVE TypeOK'
  BY <1>4 DEF ResetWake, SetState, Transfer, state_transfer
<1>5. ASSUME NEW c \in Conn, ResetTimeout(c) PROVE TypeOK'
  BY <1>5 DEF ResetTimeout, SetState, Transfer, state_transfer
<1>6. ASSUME NEW c \in Conn, AddNode(c) PROVE TypeOK'
  BY <1>6 DEF AddNode, SetState, Transfer, state_transfer
<1>7. ASSUME NEW c \in Conn, Spawn(c) PROVE TypeOK'
  BY <1>7 DEF Spawn
<1>8. ASSUME NEW c \in Conn, ReadOnline(c) PROVE TypeOK'
  BY <1>8 DEF ReadOnline, SetState, Transfer, state_transfer
<1>9. ASSUME NEW c \in Conn, ReadClose(c) PROVE TypeOK'
  BY <1>9 DEF ReadClose, SetState, Transfer, state_transfer
<1>10. ASSUME NEW c \in Conn, Delete(c) PROVE TypeOK'
  BY <1>10 DEF Delete, DelNode
<1>11. CASE UNCHANGED vars
  BY <1>11 DEF vars
<1> QED
  BY <1>1, <1>2, <1>3, <1>4, <1>5, <1>6, <1>7, <1>8, <1>9, <1>10, <1>11 DEF Next, Step

LEMMA StepThreads == TypeOK /\ Threads /\ [Next]_vars => Threads'
<1> SUFFICES ASSUME TypeOK, Threads, [Next]_vars PROVE Threads'
  OBVIOUS
<1> USE DEF TypeOK, Threads, ConnectPhase, ReadPhase, RetryPhase
<1>1. ASSUME NEW c \in Conn, Accept(c) PROVE Threads'
  BY <1>1, NoIndexIsNone DEF Accept, AllocIndex, NoneFree, SetState, Transfer, state_transfer
<1>2. ASSUME NEW c \in Conn, RetryAlloc(c) PROVE Threads'
  BY <1>2, NoIndexIsNone DEF RetryAlloc, AllocIndex
<1>3. ASSUME NEW c \in Conn, RetrySet(c) PROVE Threads'
  BY <1>3, NoIndexIsNone DEF RetrySet
<1>4. ASSUME NEW c \in Conn, ResetWake(c) PROVE Threads'
  BY <1>4, NoIndexIsNone DEF ResetWake, SetState, Transfer, state_transfer
<1>5. ASSUME NEW c \in Conn, ResetTimeout(c) PROVE Threads'
  BY <1>5, NoIndexIsNone DEF ResetTimeout, SetState, Transfer, state_transfer
<1>6. ASSUME NEW c \in Conn, AddNode(c) PROVE Threads'
  BY <1>6, NoIndexIsNone DEF AddNode, SetState, Transfer, state_transfer
<1>7. ASSUME NEW c \in Conn, Spawn(c) PROVE Threads'
  BY <1>7, NoIndexIsNone DEF Spawn
<1>8. ASSUME NEW c \in Conn, ReadOnline(c) PROVE Threads'
  BY <1>8, NoIndexIsNone DEF ReadOnline, SetState, Transfer, state_transfer
<1>9. ASSUME NEW c \in Conn, ReadClose(c) PROVE Threads'
  BY <1>9, NoIndexIsNone DEF ReadClose, SetState, Transfer, state_transfer
<1>10. ASSUME NEW c \in Conn, Delete(c) PROVE Threads'
  BY <1>10, NoIndexIsNone DEF Delete, DelNode
<1>11. CASE UNCHANGED vars
  BY <1>11 DEF vars
<1> QED
  BY <1>1, <1>2, <1>3, <1>4, <1>5, <1>6, <1>7, <1>8, <1>9, <1>10, <1>11 DEF Next, Step

LEMMA StepUnique == TypeOK /\ Threads /\ IndexUnique /\ [Next]_vars => IndexUnique'
<1> SUFFICES ASSUME TypeOK, Threads, IndexUnique, [Next]_vars PROVE IndexUnique'
  OBVIOUS
<1> USE DEF TypeOK, Threads, ConnectPhase, RetryPhase, IndexUnique, Claims, Owner, Number
<1>1. ASSUME NEW c \in Conn, Accept(c) PROVE IndexUnique'
  BY <1>1, NoIndexIsNone DEF Accept, AllocIndex, NoneFree, SetState, Transfer, state_transfer
<1>2. ASSUME NEW c \in Conn, RetryAlloc(c) PROVE IndexUnique'
  BY <1>2, NoIndexIsNone DEF RetryAlloc, AllocIndex
<1>3. ASSUME NEW c \in Conn, RetrySet(c) PROVE IndexUnique'
  BY <1>3, NoIndexIsNone DEF RetrySet
<1>4. ASSUME NEW c \in Conn, ResetWake(c) PROVE IndexUnique'
  BY <1>4, NoIndexIsNone DEF ResetWake, SetState, Transfer, state_transfer
<1>5. ASSUME NEW c \in Conn, ResetTimeout(c) PROVE IndexUnique'
  BY <1>5, NoIndexIsNone DEF ResetTimeout, SetState, Transfer, state_transfer
<1>6. ASSUME NEW c \in Conn, AddNode(c) PROVE IndexUnique'
  BY <1>6, NoIndexIsNone DEF AddNode, SetState, Transfer, state_transfer
<1>7. ASSUME NEW c \in Conn, Spawn(c) PROVE IndexUnique'
  BY <1>7, NoIndexIsNone DEF Spawn
<1>8. ASSUME NEW c \in Conn, ReadOnline(c) PROVE IndexUnique'
  BY <1>8, NoIndexIsNone DEF ReadOnline, SetState, Transfer, state_transfer
<1>9. ASSUME NEW c \in Conn, ReadClose(c) PROVE IndexUnique'
  BY <1>9, NoIndexIsNone DEF ReadClose, SetState, Transfer, state_transfer
<1>10. ASSUME NEW c \in Conn, Delete(c) PROVE IndexUnique'
  BY <1>10, NoIndexIsNone DEF Delete, DelNode
<1>11. CASE UNCHANGED vars
  BY <1>11 DEF vars
<1> QED
  BY <1>1, <1>2, <1>3, <1>4, <1>5, <1>6, <1>7, <1>8, <1>9, <1>10, <1>11 DEF Next, Step

LEMMA StepMap == TypeOK /\ Threads /\ IndexUnique /\ MapAgrees /\ MapLive /\ [Next]_vars => (MapAgrees /\ MapLive)'
<1> SUFFICES ASSUME TypeOK, Threads, IndexUnique, MapAgrees, MapLive, [Next]_vars PROVE (MapAgrees /\ MapLive)'
  OBVIOUS
<1> USE DEF TypeOK, Threads, ConnectPhase, ReadPhase, RetryPhase, IndexUnique, Claims, Owner, Number, MapAgrees, MapLive
<1>1. ASSUME NEW c \in Conn, Accept(c) PROVE (MapAgrees /\ MapLive)'
  BY <1>1, NoIndexIsNone, NodeAssumption DEF Accept, AllocIndex, NoneFree, SetState, Transfer, state_transfer
<1>2. ASSUME NEW c \in Conn, RetryAlloc(c) PROVE (MapAgrees /\ MapLive)'
  BY <1>2, NoIndexIsNone, NodeAssumption DEF RetryAlloc, AllocIndex
<1>3. ASSUME NEW c \in Conn, RetrySet(c) PROVE (MapAgrees /\ MapLive)'
  BY <1>3, NoIndexIsNone, NodeAssumption DEF RetrySet
<1>4. ASSUME NEW c \in Conn, ResetWake(c) PROVE (MapAgrees /\ MapLive)'
  BY <1>4, NoIndexIsNone, NodeAssumption DEF ResetWake, SetState, Transfer, state_transfer
<1>5. ASSUME NEW c \in Conn, ResetTimeout(c) PROVE (MapAgrees /\ MapLive)'
  BY <1>5, NoIndexIsNone, NodeAssumption DEF ResetTimeout, SetState, Transfer, state_transfer
<1>6. ASSUME NEW c \in Conn, AddNode(c) PROVE (MapAgrees /\ MapLive)'
  BY <1>6, NoIndexIsNone, NodeAssumption DEF AddNode, SetState, Transfer, state_transfer
<1>7. ASSUME NEW c \in Conn, Spawn(c) PROVE (MapAgrees /\ MapLive)'
  BY <1>7, NoIndexIsNone, NodeAssumption DEF Spawn
<1>8. ASSUME NEW c \in Conn, ReadOnline(c) PROVE (MapAgrees /\ MapLive)'
  BY <1>8, NoIndexIsNone, NodeAssumption DEF ReadOnline, SetState, Transfer, state_transfer
<1>9. ASSUME NEW c \in Conn, ReadClose(c) PROVE (MapAgrees /\ MapLive)'
  BY <1>9, NoIndexIsNone, NodeAssumption DEF ReadClose, SetState, Transfer, state_transfer
<1>10. ASSUME NEW c \in Conn, Delete(c) PROVE (MapAgrees /\ MapLive)'
  BY <1>10, NoIndexIsNone, NodeAssumption DEF Delete, DelNode
<1>11. CASE UNCHANGED vars
  BY <1>11 DEF vars
<1> QED
  BY <1>1, <1>2, <1>3, <1>4, <1>5, <1>6, <1>7, <1>8, <1>9, <1>10, <1>11 DEF Next, Step

LEMMA StepAccounted == TypeOK /\ Threads /\ Accounted /\ [Next]_vars => Accounted'
<1> SUFFICES ASSUME TypeOK, Threads, Accounted, [Next]_vars PROVE Accounted'
  OBVIOUS
<1> USE DEF TypeOK, Threads, ConnectPhase, RetryPhase, Accounted, Claims, Owner, Number
<1>1. ASSUME NEW c \in Conn, Accept(c) PROVE Accounted'
  BY <1>1, NoIndexIsNone DEF Accept, AllocIndex, SetState
<1>2. ASSUME NEW c \in Conn, RetryAlloc(c) PROVE Accounted'
  BY <1>2, NoIndexIsNone DEF RetryAlloc, AllocIndex
<1>3. ASSUME NEW c \in Conn, RetrySet(c) PROVE Accounted'
  BY <1>3, NoIndexIsNone DEF RetrySet
<1>4. ASSUME NEW c \in Conn, ResetWake(c) PROVE Accounted'
  BY <1>4, NoIndexIsNone DEF ResetWake
<1>5. ASSUME NEW c \in Conn, ResetTimeout(c) PROVE Accounted'
  BY <1>5, NoIndexIsNone DEF ResetTimeout
<1>6. ASSUME NEW c \in Conn, AddNode(c) PROVE Accounted'
  BY <1>6, NoIndexIsNone DEF AddNode
<1>7. ASSUME NEW c \in Conn, Spawn(c) PROVE Accounted'
  BY <1>7, NoIndexIsNone DEF Spawn
<1>8. ASSUME NEW c \in Conn, ReadOnline(c) PROVE Accounted'
  BY <1>8, NoIndexIsNone DEF ReadOnline
<1>9. ASSUME NEW c \in Conn, ReadClose(c) PROVE Accounted'
  BY <1>9, NoIndexIsNone DEF ReadClose
<1>10. ASSUME NEW c \in Conn, Delete(c) PROVE Accounted'
  BY <1>10, NoIndexIsNone DEF Delete, DelNode
<1>11. CASE UNCHANGED vars
  BY <1>11 DEF vars
<1> QED
  BY <1>1, <1>2, <1>3, <1>4, <1>5, <1>6, <1>7, <1>8, <1>9, <1>10, <1>11 DEF Next, Step

(***************************************************************************)
(* The inductive invariant holds in every reachable state.                 *)
(***************************************************************************)
THEOREM Invariance == Spec => []IInv
<1>1. Init => IInv
  BY InitInv
<1>2. IInv /\ [Next]_vars => IInv'
  BY StepType, StepThreads, StepUnique, StepMap, StepAccounted DEF IInv
<1> QED
  BY <1>1, <1>2, PTL DEF Spec

(***************************************************************************)
(* The register's fields keep their types.                                 *)
(***************************************************************************)
THEOREM TypeCorrect == Spec => []TypeOK
<1>1. IInv => TypeOK
  BY DEF IInv
<1> QED
  BY <1>1, Invariance, PTL

(***************************************************************************)
(* However accepts, retries, timeouts and hang-ups interleave, no number   *)
(* of the broker speaks for two connections.                               *)
(***************************************************************************)
THEOREM NumbersUnique == Spec => []IndexUnique
<1>1. IInv => IndexUnique
  BY DEF IInv
<1> QED
  BY <1>1, Invariance, PTL

(***************************************************************************)
(* The map leads from a number to the live node that has it.               *)
(***************************************************************************)
THEOREM MapFaithful == Spec => []MapAgrees
<1>1. IInv => MapAgrees
  BY DEF IInv
<1> QED
  BY <1>1, Invariance, PTL

(***************************************************************************)
(* No bit of totalNode is lost except to a retry thread whose node had     *)
(* timed out.                                                              *)
(***************************************************************************)
THEOREM NumbersAccounted == Spec => []Accounted
<1>1. IInv => Accounted
  BY DEF IInv
<1> QED
  BY <1>1, Invariance, PTL

(***************************************************************************)
(* AddNode always finds the place of its node free: if the map had another *)
(* node there, that node would be live with the same number.               *)
(***************************************************************************)
THEOREM NeverRefused == Spec => []AddNeverRefused
<1>1. IInv => AddNeverRefused
  <2> SUFFICES ASSUME IInv, NEW c \in Conn, ct[c] = "add",
                      index2nodeptr[nodeIndex[c]] # NoNode
               PROVE  FALSE
    BY DEF AddNeverRefused
  <2> DEFINE d == index2nodeptr[nodeIndex[c]]
  <2>1. nodeIndex[c] \in Index /\ Owner(c) /\ rt[c] # "set"
    BY NoIndexIsNone DEF IInv, TypeOK, Threads, ConnectPhase, RetryPhase, Owner
  <2>2. d \in Conn /\ Owner(d) /\ nodeIndex[d] = nodeIndex[c] /\ rt[d] # "set" /\ d # c
    BY <2>1 DEF IInv, TypeOK, MapAgrees, MapLive, Threads, RetryPhase, Owner
  <2> QED
    BY <2>1, <2>2 DEF IInv, IndexUnique, Claims, Number
<1> QED
  BY <1>1, Invariance, PTL

(***************************************************************************)
(* The timeout of ResetIndex and the retry thread's SetIndex exclude each  *)
(* other.                                                                  *)
(***************************************************************************)
THEOREM TimeoutExcludesNumber == Spec => []TimedOutHasNoIndex
<1>1. IInv => TimedOutHasNoIndex
  BY DEF IInv, Threads, RetryPhase, TimedOutHasNoIndex
<1> QED
  BY <1>1, Invariance, PTL

(***************************************************************************)
(* No SetState the table refuses leaves WaitForClose waiting for nobody.   *)
(***************************************************************************)
THEOREM CloseIsAwaitable == Spec => []NeverStuck
<1>1. IInv => NeverStuck
  BY DEF IInv, Threads, ConnectPhase, NeverStuck
<1> QED
  BY <1>1, Invariance, PTL
=============================================================================
