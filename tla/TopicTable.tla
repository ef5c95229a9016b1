----------------------------- MODULE TopicTable -----------------------------
(***************************************************************************)
(* The class Topic of the v2 broker (testv2.0/include/server_class.h and   *)
(* server_class_define.h): who publishes and who subscribes to which       *)
(* topic.  The class keeps the relation three times: from a node index to  *)
(* the names it subscribes to, from a node index to the names it           *)
(* publishes, and from a name to the pair of bit masks (publishers,        *)
(* subscribers).                                                           *)
(*                                                                         *)
(* A bit mask is the set of the node indexes whose bit is set.  Every      *)
(* public method runs under NameLock, so one method is one step.           *)
(***************************************************************************)
EXTENDS FiniteSets

CONSTANTS Index,   \* the node indexes, one bit of a mask each
          Name,    \* the topic names
          AllName  \* the name "all", by which delTopic means every topic

VARIABLES sub2name,  \* [Index -> SUBSET Name]
          pub2name,  \* [Index -> SUBSET Name]
          topics,    \* the keys of the map name2subANDpub
          name2pub,  \* name2subANDpub[name].first, {} without the key
          name2sub   \* name2subANDpub[name].second, {} without the key

vars == <<sub2name, pub2name, topics, name2pub, name2sub>>

TypeOK ==
  /\ sub2name \in [Index -> SUBSET Name]
  /\ pub2name \in [Index -> SUBSET Name]
  /\ topics \in SUBSET Name
  /\ name2pub \in [Name -> SUBSET Index]
  /\ name2sub \in [Name -> SUBSET Index]

Init ==
  /\ sub2name = [i \in Index |-> {}]
  /\ pub2name = [i \in Index |-> {}]
  /\ topics = {}
  /\ name2pub = [n \in Name |-> {}]
  /\ name2sub = [n \in Name |-> {}]

-----------------------------------------------------------------------------
(***************************************************************************)
(* Topic::pubTopic: the first publisher of a name keeps it, a later one is *)
(* told "already pubed".                                                   *)
(***************************************************************************)
\* A faulty pubTopic that tests the asker's own bit, not the whole mask.
pubTopicBesideOther(n, i) ==
  IF n \in topics /\ i \in name2pub[n]
  THEN UNCHANGED vars
  ELSE /\ topics' = topics \cup {n}
       /\ name2pub' = [name2pub EXCEPT ![n] = @ \cup {i}]
       /\ pub2name' = [pub2name EXCEPT ![i] = @ \cup {n}]
       /\ UNCHANGED <<sub2name, name2sub>>

\* A faulty pubTopic by which the last publisher to ask gets the name.
pubTopicTakesOver(n, i) ==
  /\ topics' = topics \cup {n}
  /\ name2pub' = [name2pub EXCEPT ![n] = {i}]
  /\ pub2name' = [j \in Index |-> IF j = i THEN pub2name[j] \cup {n} ELSE pub2name[j] \ {n}]
  /\ UNCHANGED <<sub2name, name2sub>>

pubTopic(n, i) ==
  \/ /\ n \notin topics \/ name2pub[n] = {}
     /\ topics' = topics \cup {n}
     /\ name2pub' = [name2pub EXCEPT ![n] = {i}]
     /\ pub2name' = [pub2name EXCEPT ![i] = @ \cup {n}]
     /\ UNCHANGED <<sub2name, name2sub>>
  \/ /\ n \in topics /\ name2pub[n] # {}
     /\ UNCHANGED vars

(***************************************************************************)
(* Topic::subTopic: a name has any number of subscribers.                  *)
(***************************************************************************)
subTopic(n, i) ==
  \/ /\ n \notin topics \/ i \notin name2sub[n]
     /\ topics' = topics \cup {n}
     /\ name2sub' = [name2sub EXCEPT ![n] = @ \cup {i}]
     /\ sub2name' = [sub2name EXCEPT ![i] = @ \cup {n}]
     /\ UNCHANGED <<pub2name, name2pub>>
  \/ /\ n \in topics /\ i \in name2sub[n]
     /\ UNCHANGED vars

(***************************************************************************)
(* Topic::delTopic.  The branch for "all" finds the names in the two maps  *)
(* by index and drops a name nobody is left on; the branch for one name    *)
(* clears the node's bits and keeps the key.                               *)
(***************************************************************************)
\* A faulty lookup that reads one of the two maps.
NamesSubscribed(i) == sub2name[i]

NamesOf(i) == sub2name[i] \cup pub2name[i]

\* A faulty clearing that drops the whole mask with the leaving publisher.
ClearMasks(names, i) ==
  /\ name2pub' = [n \in Name |-> IF n \in names THEN name2pub[n] \ {i} ELSE name2pub[n]]
  /\ name2sub' = [n \in Name |->
                    IF n \in names THEN IF i \in name2pub[n] THEN {} ELSE name2sub[n] \ {i}
                    ELSE name2sub[n]]

ClearBits(names, i) ==
  /\ name2pub' = [n \in Name |-> IF n \in names THEN name2pub[n] \ {i} ELSE name2pub[n]]
  /\ name2sub' = [n \in Name |-> IF n \in names THEN name2sub[n] \ {i} ELSE name2sub[n]]

delAll(i) ==
  /\ ClearBits(NamesOf(i), i)
  /\ topics' = topics \ {n \in NamesOf(i) : name2pub[n] \cup name2sub[n] \subseteq {i}}
  /\ sub2name' = [sub2name EXCEPT ![i] = {}]
  /\ pub2name' = [pub2name EXCEPT ![i] = {}]

delName(n, i) ==
  /\ ClearBits({n} \cap topics, i)
  /\ sub2name' = [sub2name EXCEPT ![i] = @ \ {n}]
  /\ pub2name' = [pub2name EXCEPT ![i] = @ \ {n}]
  /\ UNCHANGED topics

delTopic(n, i) ==
  \/ n = AllName /\ delAll(i)
  \/ n # AllName /\ delName(n, i)

(***************************************************************************)
(* Topic::GetSubNodeSet: the subscribers, for a caller who publishes.      *)
(***************************************************************************)
GetSubNodeSet(n, i) ==
  IF n \in topics /\ i \in name2pub[n] THEN name2sub[n] ELSE {}

-----------------------------------------------------------------------------
Next ==
  \E i \in Index :
    \/ \E n \in Name : pubTopic(n, i)
    \/ \E n \in Name : subTopic(n, i)
    \/ \E n \in Name \cup {AllName} : delTopic(n, i)

Spec == Init /\ [][Next]_vars

-----------------------------------------------------------------------------
(***************************************************************************)
(* The three maps of class Topic tell the same story: a node is in a       *)
(* name's mask exactly when the name is in the node's set, and a name      *)
(* without a key has nobody.  delTopic("all") relies on it: it looks up    *)
(* the names to clear in the maps by index only.                           *)
(***************************************************************************)
Consistent ==
  \A n \in Name :
    /\ \A i \in Index : /\ i \in name2pub[n] <=> n \in pub2name[i]
                        /\ i \in name2sub[n] <=> n \in sub2name[i]
    /\ n \notin topics => name2pub[n] = {} /\ name2sub[n] = {}

(***************************************************************************)
(* A topic has at most one publisher, whichever nodes ask, leave and ask   *)
(* again (pubTopic's "already pubed by").                                  *)
(***************************************************************************)
SinglePublisher ==
  \A n \in Name : \A i, j \in name2pub[n] : i = j

(***************************************************************************)
(* No call takes a topic over from its publisher: the role is given up     *)
(* before another node gets it.                                            *)
(***************************************************************************)
NoTakeover ==
  [][\A n \in Name : name2pub[n] # {} => name2pub'[n] \subseteq name2pub[n]]_vars

(***************************************************************************)
(* One call speaks for one node: no other node's topics or bits change,    *)
(* delTopic("all") included.                                               *)
(***************************************************************************)
OthersUntouched ==
  [][\E i \in Index : \A j \in Index \ {i} :
        /\ sub2name'[j] = sub2name[j] /\ pub2name'[j] = pub2name[j]
        /\ \A n \in Name : /\ j \in name2pub'[n] <=> j \in name2pub[n]
                           /\ j \in name2sub'[n] <=> j \in name2sub[n]]_vars
=============================================================================
