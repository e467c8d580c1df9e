------------------------ MODULE MCCommissionHierarchy ------------------------
(* Instances of CommissionHierarchy for TLC. *)
EXTENDS CommissionHierarchy, FiniteSets, TLC

CONSTANTS u1, u2, u3, e1, e2, r1, service

UserSymmetry == Permutations(HierUsers)

Editing == {e \in HierEditors : hierEditor[e].at \notin {"Idle", "Deactivate"}}
Busy == {e \in HierEditors : hierEditor[e].at # "Idle"}

Children ==
  {hierarchy[i].child : i \in DOMAIN hierarchy} \cup {hierEditor[e].edit.child : e \in Editing}

(* Requests that overlap are about one child and two relationships; three  *)
(* relationships, and requests while there are three, are all of one scope; *)
(* a resolution overlaps with one request at a time and two relationships. *)
Small ==
  /\ hierOverlap => Cardinality(Children) <= 1 /\ Len(hierarchy) <= 2
  /\ Len(hierarchy) = 3 =>
       /\ \A i, j \in 1 .. 3 : hierarchy[i].scope = hierarchy[j].scope
       /\ \A e \in Editing : hierEditor[e].edit.scope = hierarchy[1].scope
  /\ \A r \in HierReaders : hierReader[r].at # "Idle" =>
       Cardinality(Busy) <= 1 /\ Len(hierarchy) <= 2 /\ ~hierOverlap
=============================================================================
