-------------------------- MODULE TopicTableProofs --------------------------
(***************************************************************************)
(* What holds of class Topic for every set of node indexes and names.  The *)
(* inductive invariant is TypeOK /\ Consistent: delTopic("all") finds the  *)
(* names to clear through the maps by index, so that SinglePublisher and   *)
(* Consistent survive it only because the three maps agree.                *)
(***************************************************************************)
EXTENDS TopicTable, TLAPS

(***************************************************************************)
(* The maps keep their shape, and agree, initially and over every call.    *)
(***************************************************************************)
LEMMA InitConsistent == Init => TypeOK /\ Consistent
  BY DEF Init, TypeOK, Consistent

LEMMA StepType == TypeOK /\ [Next]_vars => TypeOK'
<1> SUFFICES ASSUME TypeOK, [Next]_vars PROVE TypeOK'
  OBVIOUS
<1> USE DEF TypeOK
<1>1. ASSUME NEW i \in Index, NEW n \in Name, pubTopic(n, i) PROVE TypeOK'
  BY <1>1 DEF pubTopic, vars
<1>2. ASSUME NEW i \in Index, NEW n \in Name, subTopic(n, i) PROVE TypeOK'
  BY <1>2 DEF subTopic, vars
<1>3. ASSUME NEW i \in Index, delAll(i) PROVE TypeOK'
  BY <1>3 DEF delAll, ClearBits
<1>4. ASSUME NEW i \in Index, NEW n, delName(n, i) PROVE TypeOK'
  BY <1>4 DEF delName, ClearBits
<1>5. CASE UNCHANGED vars
  BY <1>5 DEF vars
<1> QED
  BY <1>1, <1>2, <1>3, <1>4, <1>5 DEF Next, delTopic

LEMMA StepConsistent == TypeOK /\ Consistent /\ [Next]_vars => Consistent'
<1> SUFFICES ASSUME TypeOK, Consistent, [Next]_vars PROVE Consistent'
  OBVIOUS
<1> USE DEF TypeOK, Consistent
<1>1. ASSUME NEW i \in Index, NEW n \in Name, pubTopic(n, i) PROVE Consistent'
  BY <1>1 DEF pubTopic, vars
<1>2. ASSUME NEW i \in Index, NEW n \in Name, subTopic(n, i) PROVE Consistent'
  BY <1>2 DEF subTopic, vars
<1>3. ASSUME NEW i \in Index, delAll(i) PROVE Consistent'
  BY <1>3 DEF delAll, ClearBits, NamesOf
<1>4. ASSUME NEW i \in Index, NEW n, delName(n, i) PROVE Consistent'
  BY <1>4 DEF delName, ClearBits
<1>5. CASE UNCHANGED vars
  BY <1>5 DEF vars
<1> QED
  BY <1>1, <1>2, <1>3, <1>4, <1>5 DEF Next, delTopic

(***************************************************************************)
(* Every call of class Topic keeps its three maps in their types.          *)
(***************************************************************************)
THEOREM TypeCorrect == Spec => []TypeOK
<1>1. Init => TypeOK
  BY InitConsistent
<1> QED
  BY <1>1, StepType, PTL DEF Spec

(***************************************************************************)
(* The maps by index and the masks by name always agree.                   *)
(***************************************************************************)
THEOREM AlwaysConsistent == Spec => []Consistent
<1>1. Init => TypeOK /\ Consistent
  BY InitConsistent
<1>2. TypeOK /\ Consistent /\ [Next]_vars => (TypeOK /\ Consistent)'
  BY StepType, StepConsistent
<1> QED
  BY <1>1, <1>2, PTL DEF Spec

(***************************************************************************)
(* However nodes ask, leave and ask again, a topic has one publisher.      *)
(***************************************************************************)
THEOREM AlwaysSinglePublisher == Spec => []SinglePublisher
<1>1. Init => SinglePublisher
  BY DEF Init, SinglePublisher
<1>2. TypeOK /\ SinglePublisher /\ [Next]_vars => SinglePublisher'
  <2> SUFFICES ASSUME TypeOK, SinglePublisher, [Next]_vars PROVE SinglePublisher'
    OBVIOUS
  <2> USE DEF TypeOK, SinglePublisher
  <2>1. ASSUME NEW i \in Index, NEW n \in Name, pubTopic(n, i) PROVE SinglePublisher'
    BY <2>1 DEF pubTopic, vars
  <2>2. ASSUME NEW i \in Index, NEW n \in Name, subTopic(n, i) PROVE SinglePublisher'
    BY <2>2 DEF subTopic, vars
  <2>3. ASSUME NEW i \in Index, NEW n, delTopic(n, i) PROVE SinglePublisher'
    BY <2>3 DEF delTopic, delAll, delName, ClearBits
  <2>4. CASE UNCHANGED vars
    BY <2>4 DEF vars
  <2> QED
    BY <2>1, <2>2, <2>3, <2>4 DEF Next
<1> QED
  BY <1>1, <1>2, TypeCorrect, PTL DEF Spec

(***************************************************************************)
(* No single call moves a topic from one publisher to another.  A name     *)
(* without a key is free to take because, by Consistent, nobody has it.    *)
(***************************************************************************)
THEOREM NeverTakenOver == Spec => NoTakeover
<1>1. TypeOK /\ Consistent /\ [Next]_vars
        => [\A n \in Name : name2pub[n] # {} => name2pub'[n] \subseteq name2pub[n]]_vars
  <2> SUFFICES ASSUME TypeOK, Consistent, Next, NEW n \in Name, name2pub[n] # {}
               PROVE  name2pub'[n] \subseteq name2pub[n]
    OBVIOUS
  <2> USE DEF TypeOK
  <2>1. ASSUME NEW i \in Index, NEW m \in Name, pubTopic(m, i)
        PROVE  name2pub'[n] \subseteq name2pub[n]
    BY <2>1 DEF pubTopic, vars, Consistent
  <2>2. ASSUME NEW i \in Index, NEW m \in Name, subTopic(m, i)
        PROVE  name2pub'[n] \subseteq name2pub[n]
    BY <2>2 DEF subTopic, vars
  <2>3. ASSUME NEW i \in Index, NEW m, delTopic(m, i)
        PROVE  name2pub'[n] \subseteq name2pub[n]
    BY <2>3 DEF delTopic, delAll, delName, ClearBits
  <2> QED
    BY <2>1, <2>2, <2>3 DEF Next
<1> QED
  BY <1>1, TypeCorrect, AlwaysConsistent, PTL DEF Spec, NoTakeover

\* Nothing of node j is changed.
Kept(j) ==
  /\ sub2name'[j] = sub2name[j] /\ pub2name'[j] = pub2name[j]
  /\ \A n \in Name : /\ j \in name2pub'[n] <=> j \in name2pub[n]
                     /\ j \in name2sub'[n] <=> j \in name2sub[n]

(***************************************************************************)
(* A call for one node leaves the topics and the bits of every other node  *)
(* as they are.  For a publication that rests on Consistent: it replaces a *)
(* mask only when the name has no key or nobody is on it.                  *)
(***************************************************************************)
THEOREM CallsStayApart == Spec => OthersUntouched
<1>1. TypeOK /\ Consistent /\ [Next]_vars => [\E i \in Index : \A j \in Index \ {i} : Kept(j)]_vars
  <2> SUFFICES ASSUME TypeOK, Consistent, Next
               PROVE  \E i \in Index : \A j \in Index \ {i} : Kept(j)
    OBVIOUS
  <2> USE DEF TypeOK
  <2>1. ASSUME NEW i \in Index, NEW n \in Name, pubTopic(n, i), NEW j \in Index \ {i}
        PROVE  Kept(j)
    BY <2>1 DEF pubTopic, vars, Consistent, Kept
  <2>2. ASSUME NEW i \in Index, NEW n \in Name, subTopic(n, i), NEW j \in Index \ {i}
        PROVE  Kept(j)
    BY <2>2 DEF subTopic, vars, Kept
  <2>3. ASSUME NEW i \in Index, NEW n, delTopic(n, i), NEW j \in Index \ {i}
        PROVE  Kept(j)
    BY <2>3 DEF delTopic, delAll, delName, ClearBits, Kept
  <2> QED
    BY <2>1, <2>2, <2>3 DEF Next
<1>2. [\E i \in Index : \A j \in Index \ {i} : Kept(j)]_vars
        => [\E i \in Index : \A j \in Index \ {i} :
              /\ sub2name'[j] = sub2name[j] /\ pub2name'[j] = pub2name[j]
              /\ \A n \in Name : /\ j \in name2pub'[n] <=> j \in name2pub[n]
                                 /\ j \in name2sub'[n] <=> j \in name2sub[n]]_vars
  BY DEF Kept
<1> QED
  BY <1>1, <1>2, TypeCorrect, AlwaysConsistent, PTL DEF Spec, OthersUntouched
=============================================================================
