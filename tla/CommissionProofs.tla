-------------------------- MODULE CommissionProofs --------------------------
(* Proofs about CommissionHierarchy and CommissionPlan, for any users,      *)
(* services, editors, readers, distributions, incomes and requests.         *)
EXTENDS CommissionHierarchy, CommissionPlan, FiniteSetTheorems, WellFoundedInduction, TLAPS

-----------------------------------------------------------------------------
(* Types. *)

EditorState ==
  {IdleEditor} \cup [at: {"Deactivate"}, id: Nat] \cup
  [at: {"Relation", "Active", "Write"}, edit: HierEdit] \cup
  [at: {"Walk", "Fallback"}, edit: HierEdit, current: HierUsers,
   visited: SUBSET HierUsers, depth: Nat]

ReaderState ==
  {IdleReader} \cup
  [at: {"Walk", "Fallback", "Resolved", "Refused"}, service: HierServices,
   chain: Seq(HierUsers)]

LEMMA HierTypes ==
  HierTypeOK <=> /\ hierarchy \in Seq(Hierarchy)
                 /\ hierEditor \in [HierEditors -> EditorState]
                 /\ hierReader \in [HierReaders -> ReaderState]
                 /\ hierOverlap \in BOOLEAN
  BY DEF HierTypeOK, EditorState, ReaderState

LEMMA EditFacts ==
  ASSUME HierTypeOK, NEW e \in HierEditors,
         hierEditor[e].at \in {"Relation", "Active", "Write", "Walk", "Fallback"}
  PROVE  hierEditor[e].edit \in HierEdit
  <1>1. hierEditor[e] \in EditorState
    BY HierTypes
  <1>2. QED
    BY <1>1 DEF EditorState, IdleEditor

LEMMA WalkFacts ==
  ASSUME HierTypeOK, NEW e \in HierEditors, hierEditor[e].at \in {"Walk", "Fallback"}
  PROVE  hierEditor[e] \in [at: {"Walk", "Fallback"}, edit: HierEdit, current: HierUsers,
                            visited: SUBSET HierUsers, depth: Nat]
  <1>1. hierEditor[e] \in EditorState
    BY HierTypes
  <1>2. QED
    BY <1>1 DEF EditorState, IdleEditor

LEMMA ReaderFacts ==
  ASSUME HierTypeOK, NEW r \in HierReaders, hierReader[r].at # "Idle"
  PROVE  hierReader[r] \in [at: {"Walk", "Fallback", "Resolved", "Refused"},
                            service: HierServices, chain: Seq(HierUsers)]
  <1>1. hierReader[r] \in ReaderState
    BY HierTypes
  <1>2. QED
    BY <1>1 DEF ReaderState, IdleReader

(* The parents of a child are users. *)
LEMMA ParentsAreUsers ==
  ASSUME HierTypeOK, NEW child, NEW scope
  PROVE  Parents(child, scope) \subseteq HierUsers
  <1>1. \A i \in DOMAIN hierarchy : hierarchy[i] \in Hierarchy
    BY DEF HierTypeOK
  <1>2. QED
    BY <1>1 DEF Parents, Hierarchy

LEMMA ToEditorTyped ==
  ASSUME HierTypeOK, NEW e \in HierEditors, NEW state \in EditorState, ToEditor(e, state)
  PROVE  hierEditor' \in [HierEditors -> EditorState]
  BY HierTypes DEF ToEditor

(* A step towards the root keeps the type of the check. *)
LEMMA AdvanceTyped ==
  ASSUME HierTypeOK, NEW e \in HierEditors, hierEditor[e].at \in {"Walk", "Fallback"},
         NEW parent \in HierUsers, HierAdvance(e, parent)
  PROVE  hierEditor' \in [HierEditors -> EditorState]
  <1> DEFINE s == hierEditor[e]
             t == [s EXCEPT !.at = "Walk", !.current = parent,
                            !.visited = @ \cup {s.current}, !.depth = @ + 1]
  <1>1. t \in EditorState
    <2>1. /\ s \in [at: {"Walk", "Fallback"}, edit: HierEdit, current: HierUsers,
                   visited: SUBSET HierUsers, depth: Nat]
          /\ s.visited \cup {s.current} \in SUBSET HierUsers
          /\ s.depth + 1 \in Nat
      BY WalkFacts
    <2>2. t \in [at: {"Walk", "Fallback"}, edit: HierEdit, current: HierUsers,
                visited: SUBSET HierUsers, depth: Nat]
      BY <2>1
    <2>3. QED
      BY <2>2 DEF EditorState
  <1>2. IdleEditor \in EditorState
    BY DEF EditorState
  <1>3. ToEditor(e, IdleEditor) \/ ToEditor(e, t)
    BY DEF HierAdvance
  <1>4. QED
    BY <1>1, <1>2, <1>3, ToEditorTyped

(* The row a request writes. *)
Row(edit) ==
  [parent |-> edit.parent, child |-> edit.child, scope |-> edit.scope,
   isActive |-> edit.active, activeScope |-> IF edit.active THEN edit.scope ELSE NoScope]

LEMMA RowTyped ==
  ASSUME NEW edit \in HierEdit
  PROVE  Row(edit) \in Hierarchy
  BY DEF Row, Hierarchy, HierEdit

(* What writing a row does to the others. *)
LEMMA WrittenRows ==
  ASSUME HierTypeOK, NEW e \in HierEditors, WriteHierarchy(e)
  PROVE  LET edit == hierEditor[e].edit IN
         \/ hierarchy' = hierarchy
         \/ /\ ~ViolatesKey(edit)
            /\ hierarchy' \in Seq(Hierarchy)
            /\ \E n \in DOMAIN hierarchy' :
                 /\ hierarchy'[n] = Row(edit)
                 /\ edit.id \in DOMAIN hierarchy => n = edit.id
                 /\ \A i \in DOMAIN hierarchy' \ {n} :
                      i \in DOMAIN hierarchy /\ hierarchy'[i] = hierarchy[i]
  <1> DEFINE edit == hierEditor[e].edit
  <1>1. edit \in HierEdit /\ edit.id \in Nat
    BY EditFacts DEF WriteHierarchy, HierEditing, HierEdit
  <1>2. Row(edit) \in Hierarchy
    BY <1>1, RowTyped
  <1>3. hierarchy \in Seq(Hierarchy)
    BY DEF HierTypeOK
  <1>4. hierarchy' = CASE ViolatesKey(edit) -> hierarchy
                       [] ~ViolatesKey(edit) /\ edit.id = 0 -> Append(hierarchy, Row(edit))
                       [] OTHER -> [hierarchy EXCEPT ![edit.id] = Row(edit)]
    BY DEF WriteHierarchy, Row
  <1> HIDE DEF edit
  <1>5. CASE ViolatesKey(edit)
    BY <1>4, <1>5 DEF edit
  <1>6. CASE ~ViolatesKey(edit) /\ edit.id = 0
    <2>1. hierarchy' = Append(hierarchy, Row(edit))
      BY <1>4, <1>6
    <2>2. /\ hierarchy' \in Seq(Hierarchy)
          /\ Len(hierarchy') = Len(hierarchy) + 1
          /\ hierarchy'[Len(hierarchy) + 1] = Row(edit)
          /\ \A i \in 1 .. Len(hierarchy) : hierarchy'[i] = hierarchy[i]
      BY <1>2, <1>3, <2>1
    <2>3. 0 \notin DOMAIN hierarchy
      BY <1>3
    <2>4. Len(hierarchy) + 1 \in DOMAIN hierarchy'
      BY <1>3, <2>2
    <2>5. \A i \in DOMAIN hierarchy' \ {Len(hierarchy) + 1} :
             i \in DOMAIN hierarchy /\ hierarchy'[i] = hierarchy[i]
      BY <1>3, <2>2
    <2>6. QED
      BY <1>6, <2>2, <2>3, <2>4, <2>5 DEF edit
  <1>7. CASE ~ViolatesKey(edit) /\ edit.id # 0
    <2>1. hierarchy' = [hierarchy EXCEPT ![edit.id] = Row(edit)]
      BY <1>4, <1>7
    <2>2. CASE edit.id \notin DOMAIN hierarchy
      <3>1. hierarchy' = hierarchy
        BY <1>3, <2>1, <2>2
      <3>2. QED
        BY <3>1
    <2>3. CASE edit.id \in DOMAIN hierarchy
      <3>1. /\ hierarchy' \in Seq(Hierarchy)
            /\ DOMAIN hierarchy' = DOMAIN hierarchy
            /\ hierarchy'[edit.id] = Row(edit)
            /\ \A i \in DOMAIN hierarchy \ {edit.id} : hierarchy'[i] = hierarchy[i]
        BY <1>1, <1>2, <1>3, <2>1, <2>3
      <3>2. QED
        BY <1>7, <2>3, <3>1 DEF edit
    <2>4. QED
      BY <2>2, <2>3
  <1>8. QED
    BY <1>5, <1>6, <1>7

Inactive(row) == [row EXCEPT !.isActive = FALSE, !.activeScope = NoScope]

LEMMA InactiveTyped ==
  ASSUME NEW row \in Hierarchy
  PROVE  Inactive(row) \in Hierarchy
  BY DEF Hierarchy, Inactive

(* What a deletion does to the row. *)
LEMMA DeactivatedRows ==
  ASSUME HierTypeOK, NEW e \in HierEditors, Deactivate(e)
  PROVE  /\ hierarchy' \in Seq(Hierarchy)
         /\ DOMAIN hierarchy' = DOMAIN hierarchy
         /\ \A i \in DOMAIN hierarchy :
              hierarchy'[i] = hierarchy[i] \/ hierarchy'[i] = Inactive(hierarchy[i])
  <1> DEFINE n == hierEditor[e].id
  <1>1. hierarchy \in Seq(Hierarchy) /\ \A i \in DOMAIN hierarchy : hierarchy[i] \in Hierarchy
    BY DEF HierTypeOK
  <1>2. hierarchy' = [hierarchy EXCEPT ![n] = Inactive(hierarchy[n])]
    BY <1>1 DEF Deactivate, Inactive
  <1>3. n \in DOMAIN hierarchy => Inactive(hierarchy[n]) \in Hierarchy
    BY <1>1, InactiveTyped
  <1> HIDE DEF n
  <1>4. DOMAIN hierarchy' = DOMAIN hierarchy
    BY <1>2
  <1>5. \A i \in DOMAIN hierarchy :
          hierarchy'[i] = IF i = n THEN Inactive(hierarchy[i]) ELSE hierarchy[i]
    BY <1>2
  <1>6. hierarchy' \in Seq(Hierarchy)
    <2>1. CASE n \in DOMAIN hierarchy
      BY <1>1, <1>2, <1>3, <2>1
    <2>2. CASE n \notin DOMAIN hierarchy
      <3>1. hierarchy' = hierarchy
        BY <1>1, <1>2, <2>2
      <3>2. QED
        BY <1>1, <3>1
    <2>3. QED
      BY <2>1, <2>2
  <1>7. QED
    BY <1>4, <1>5, <1>6

-----------------------------------------------------------------------------
(* The types are kept. *)

LEMMA ToStart ==
  ASSUME HierTypeOK, NEW e \in HierEditors, NEW state \in EditorState, HierStart(e, state)
  PROVE  hierEditor' \in [HierEditors -> EditorState] /\ hierOverlap' \in BOOLEAN
  BY ToEditorTyped DEF HierStart

LEMMA EditorTypeStep ==
  ASSUME HierTypeOK, NEW e \in HierEditors, HierEditorStep(e)
  PROVE  HierTypeOK'
  <1> USE HierTypes
  <1>0. IdleEditor \in EditorState
    BY DEF EditorState
  <1>1. ASSUME hierReader' = hierReader, hierarchy' = hierarchy,
               hierEditor' \in [HierEditors -> EditorState], hierOverlap' \in BOOLEAN
        PROVE  HierTypeOK'
    BY <1>1 DEF HierTypeOK, EditorState
  <1>2. CASE CreateHierarchy(e)
    <2>1. PICK parent, child \in HierUsers, scope \in HierScopes, active \in BOOLEAN :
            HierStart(e, [at |-> "Relation", edit |-> [id |-> 0, parent |-> parent,
                          child |-> child, scope |-> scope, active |-> active]])
      BY <1>2 DEF CreateHierarchy
    <2>2. [at |-> "Relation", edit |-> [id |-> 0, parent |-> parent, child |-> child,
           scope |-> scope, active |-> active]] \in EditorState
      BY DEF EditorState, HierEdit
    <2>3. QED
      BY <1>1, <1>2, <2>1, <2>2, ToStart DEF CreateHierarchy, HierEditing
  <1>3. CASE UpdateHierarchy(e)
    <2>1. PICK id \in DOMAIN hierarchy, scope \in HierScopes, active \in BOOLEAN :
            HierStart(e, [at |-> "Relation", edit |-> [id |-> id,
                          parent |-> hierarchy[id].parent, child |-> hierarchy[id].child,
                          scope |-> scope, active |-> active]])
      BY <1>3 DEF UpdateHierarchy
    <2>2. id \in Nat /\ hierarchy[id] \in Hierarchy
      BY <2>1
    <2>3. hierarchy[id].parent \in HierUsers /\ hierarchy[id].child \in HierUsers
      BY <2>2 DEF Hierarchy
    <2>4. [at |-> "Relation", edit |-> [id |-> id, parent |-> hierarchy[id].parent,
           child |-> hierarchy[id].child, scope |-> scope, active |-> active]] \in EditorState
      BY <2>2, <2>3 DEF EditorState, HierEdit
    <2>5. QED
      BY <1>1, <1>3, <2>1, <2>4, ToStart DEF UpdateHierarchy, HierEditing
  <1>4. CASE DeleteHierarchy(e)
    <2>1. PICK id \in DOMAIN hierarchy : HierStart(e, [at |-> "Deactivate", id |-> id])
      BY <1>4 DEF DeleteHierarchy
    <2>2. [at |-> "Deactivate", id |-> id] \in EditorState
      BY <2>1 DEF EditorState
    <2>3. QED
      BY <1>1, <1>4, <2>1, <2>2, ToStart DEF DeleteHierarchy, HierEditing
  <1>5. CASE Deactivate(e)
    <2>1. ToEditor(e, IdleEditor)
      BY <1>5 DEF Deactivate
    <2>2. QED
      BY <1>0, <1>5, <2>1, DeactivatedRows, ToEditorTyped
         DEF Deactivate, HierEditing, HierTypeOK, EditorState
  <1>6. CASE CheckRelation(e)
    <2>1. hierEditor[e].edit \in HierEdit
      BY <1>6, EditFacts DEF CheckRelation, HierEditing
    <2>2. /\ [at |-> "Active", edit |-> hierEditor[e].edit] \in EditorState
          /\ [at |-> "Write", edit |-> hierEditor[e].edit] \in EditorState
      BY <2>1 DEF EditorState
    <2>3. \/ ToEditor(e, IdleEditor)
          \/ ToEditor(e, [at |-> "Active", edit |-> hierEditor[e].edit])
          \/ ToEditor(e, [at |-> "Write", edit |-> hierEditor[e].edit])
      BY <1>6, <2>1 DEF CheckRelation, HierEdit
    <2>4. hierEditor' \in [HierEditors -> EditorState]
      BY <1>0, <2>2, <2>3, ToEditorTyped
    <2>5. QED
      BY <1>1, <1>6, <2>4 DEF CheckRelation, HierEditing
  <1>7. CASE CheckActive(e)
    <2> DEFINE edit == hierEditor[e].edit
    <2>1. edit \in HierEdit /\ edit.parent \in HierUsers /\ edit.child \in HierUsers
      BY <1>7, EditFacts DEF CheckActive, HierEditing, HierEdit
    <2>2. [at |-> "Walk", edit |-> edit, current |-> edit.parent, visited |-> {edit.child},
           depth |-> 0] \in EditorState
      BY <2>1 DEF EditorState
    <2>3. \/ ToEditor(e, IdleEditor)
          \/ ToEditor(e, [at |-> "Walk", edit |-> edit, current |-> edit.parent,
                          visited |-> {edit.child}, depth |-> 0])
      BY <1>7 DEF CheckActive
    <2>4. hierEditor' \in [HierEditors -> EditorState]
      BY <1>0, <2>2, <2>3, ToEditorTyped
    <2>5. QED
      BY <1>1, <1>7, <2>4 DEF CheckActive, HierEditing
  <1>8. CASE CheckCycle(e)
    <2>1. hierEditor[e].at = "Walk"
      BY <1>8 DEF CheckCycle, HierEditing
    <2>2. [hierEditor[e] EXCEPT !.at = "Fallback"] \in EditorState
      BY <2>1, WalkFacts DEF EditorState
    <2>3. \/ ToEditor(e, IdleEditor)
          \/ \E parent \in Parents(hierEditor[e].current, hierEditor[e].edit.scope) :
               HierAdvance(e, parent)
          \/ ToEditor(e, [hierEditor[e] EXCEPT !.at = "Fallback"])
      BY <1>8 DEF CheckCycle
    <2>4. hierEditor' \in [HierEditors -> EditorState]
      BY <1>0, <2>1, <2>2, <2>3, ToEditorTyped, AdvanceTyped, ParentsAreUsers
    <2>5. QED
      BY <1>1, <1>8, <2>4 DEF CheckCycle, HierEditing
  <1>9. CASE CheckCycleFallback(e)
    <2>1. hierEditor[e].at = "Fallback"
      BY <1>9 DEF CheckCycleFallback, HierEditing
    <2>2. [at |-> "Write", edit |-> hierEditor[e].edit] \in EditorState
      BY <2>1, EditFacts DEF EditorState
    <2>3. \/ \E parent \in Parents(hierEditor[e].current, Global) : HierAdvance(e, parent)
          \/ ToEditor(e, [at |-> "Write", edit |-> hierEditor[e].edit])
      BY <1>9 DEF CheckCycleFallback
    <2>4. hierEditor' \in [HierEditors -> EditorState]
      BY <2>1, <2>2, <2>3, ToEditorTyped, AdvanceTyped, ParentsAreUsers
    <2>5. QED
      BY <1>1, <1>9, <2>4 DEF CheckCycleFallback, HierEditing
  <1>10. CASE WriteHierarchy(e)
    <2>1. ToEditor(e, IdleEditor)
      BY <1>10 DEF WriteHierarchy
    <2>2. hierarchy' \in Seq(Hierarchy)
      BY <1>10, WrittenRows
    <2>3. QED
      BY <1>0, <1>10, <2>1, <2>2, ToEditorTyped
         DEF WriteHierarchy, HierEditing, HierTypeOK, EditorState
  <1>11. QED
    BY <1>2, <1>3, <1>4, <1>5, <1>6, <1>7, <1>8, <1>9, <1>10 DEF HierEditorStep

(* A parent that was met refuses; another one is appended. *)
LEMMA FollowFacts ==
  ASSUME HierTypeOK, NEW r \in HierReaders, hierReader[r].at # "Idle",
         NEW parent \in HierUsers, Follow(r, parent)
  PROVE  \/ \E state \in ReaderState :
              hierReader' = [hierReader EXCEPT ![r] = state] /\ state.chain = hierReader[r].chain
         \/ /\ ~Met(hierReader[r].chain, parent)
            /\ \E state \in ReaderState :
                 /\ hierReader' = [hierReader EXCEPT ![r] = state]
                 /\ state.chain = Append(hierReader[r].chain, parent)
  <1> DEFINE s == hierReader[r]
             full == Met(s.chain, parent) \/ Len(s.chain) = MAX_DEPTH
             t == [s EXCEPT !.at = IF full THEN "Refused" ELSE "Walk",
                            !.chain = IF Met(s.chain, parent) THEN @ ELSE Append(@, parent)]
  <1>1. s \in [at: {"Walk", "Fallback", "Resolved", "Refused"},
               service: HierServices, chain: Seq(HierUsers)]
    BY ReaderFacts
  <1>2. Append(s.chain, parent) \in Seq(HierUsers)
    BY <1>1
  <1>3. hierReader' = [hierReader EXCEPT ![r] = t]
    BY DEF Follow
  <1>4. t \in ReaderState
    BY <1>1, <1>2 DEF ReaderState
  <1>5. t.chain = IF Met(s.chain, parent) THEN s.chain ELSE Append(s.chain, parent)
    BY <1>1
  <1> HIDE DEF t
  <1>6. QED
    BY <1>3, <1>4, <1>5

LEMMA ReaderTypeStep ==
  ASSUME HierTypeOK, NEW r \in HierReaders, HierReaderStep(r)
  PROVE  HierTypeOK'
  <1> USE HierTypes
  <1>1. ASSUME UNCHANGED <<hierarchy, hierEditor, hierOverlap>>,
               hierReader' \in [HierReaders -> ReaderState]
        PROVE  HierTypeOK'
    BY <1>1 DEF HierTypeOK, ReaderState
  <1>2. CASE ResolveHierarchy(r)
    <2>1. PICK user \in HierUsers, service \in HierServices :
            hierReader' = [hierReader EXCEPT ![r] =
                             [at |-> "Walk", service |-> service, chain |-> <<user>>]]
      BY <1>2 DEF ResolveHierarchy
    <2>2. [at |-> "Walk", service |-> service, chain |-> <<user>>] \in ReaderState
      BY DEF ReaderState
    <2>3. QED
      BY <1>1, <1>2, <2>1, <2>2 DEF ResolveHierarchy, HierReading
  <1>3. ASSUME hierReader[r].at \in {"Walk", "Fallback"},
               NEW at \in {"Fallback", "Resolved"}, NEW scope,
               \/ \E parent \in Parents(LastOf(hierReader[r].chain), scope) : Follow(r, parent)
               \/ hierReader' = [hierReader EXCEPT ![r].at = at]
        PROVE  hierReader' \in [HierReaders -> ReaderState]
    <2>1. [hierReader[r] EXCEPT !.at = at] \in ReaderState
      BY <1>3, ReaderFacts DEF ReaderState
    <2>2. CASE hierReader' = [hierReader EXCEPT ![r].at = at]
      BY <2>1, <2>2
    <2>3. CASE \E parent \in Parents(LastOf(hierReader[r].chain), scope) : Follow(r, parent)
      <3>1. PICK parent \in HierUsers : Follow(r, parent)
        BY <2>3, ParentsAreUsers
      <3>2. PICK state \in ReaderState : hierReader' = [hierReader EXCEPT ![r] = state]
        BY <1>3, <3>1, FollowFacts
      <3>3. QED
        BY <3>2
    <2>4. QED
      BY <1>3, <2>2, <2>3
  <1>4. CASE FollowService(r)
    BY <1>1, <1>3, <1>4 DEF FollowService, HierReading
  <1>5. CASE FollowGlobal(r)
    BY <1>1, <1>3, <1>5 DEF FollowGlobal, HierReading
  <1>6. CASE Answer(r)
    <2>1. hierReader' = [hierReader EXCEPT ![r] = IdleReader] /\ IdleReader \in ReaderState
      BY <1>6 DEF Answer, ReaderState
    <2>2. QED
      BY <1>1, <1>6, <2>1 DEF Answer, HierReading
  <1>7. QED
    BY <1>2, <1>4, <1>5, <1>6 DEF HierReaderStep

(* HierTypeOK: rows, requests and resolutions keep their types. *)
THEOREM TypeCorrect == HierSpec => []HierTypeOK
  <1>1. HierInit => HierTypeOK
    <2>1. << >> \in Seq(Hierarchy) /\ IdleEditor \in EditorState /\ IdleReader \in ReaderState
      BY DEF EditorState, ReaderState
    <2>2. QED
      BY <2>1, HierTypes DEF HierInit
  <1>2. HierTypeOK /\ [HierNext]_hierVars => HierTypeOK'
    <2> SUFFICES ASSUME HierTypeOK, [HierNext]_hierVars PROVE HierTypeOK'
      OBVIOUS
    <2>1. CASE UNCHANGED hierVars
      BY <2>1 DEF hierVars, HierTypeOK
    <2>2. QED
      BY <2>1, EditorTypeStep, ReaderTypeStep DEF HierNext
  <1>3. QED
    BY <1>1, <1>2, PTL DEF HierSpec

-----------------------------------------------------------------------------
(* One active parent: the unique keys hold the requests apart.  The claim   *)
(* needs that the key of the scope follows the activity of its row.         *)

KeysInv == HierTypeOK /\ ScopeKeyFollowsActivity /\ OneActiveParent

LEMMA KeysStep ==
  ASSUME KeysInv, [HierNext]_hierVars
  PROVE  ScopeKeyFollowsActivity' /\ OneActiveParent'
  <1>1. HierTypeOK /\ ScopeKeyFollowsActivity /\ OneActiveParent
    BY DEF KeysInv
  <1>2. ASSUME hierarchy' = hierarchy
        PROVE  ScopeKeyFollowsActivity' /\ OneActiveParent'
    BY <1>1, <1>2 DEF ScopeKeyFollowsActivity, OneActiveParent
  <1>3. ASSUME NEW e \in HierEditors, Deactivate(e)
        PROVE  ScopeKeyFollowsActivity' /\ OneActiveParent'
    <2>1. \A i \in DOMAIN hierarchy : hierarchy[i] \in Hierarchy
      BY <1>1 DEF HierTypeOK
    <2>2. \A i \in DOMAIN hierarchy :
             /\ Inactive(hierarchy[i]).isActive = FALSE
             /\ Inactive(hierarchy[i]).activeScope = NoScope
      BY <2>1 DEF Inactive, Hierarchy
    <2>3. /\ DOMAIN hierarchy' = DOMAIN hierarchy
          /\ \A i \in DOMAIN hierarchy :
               hierarchy'[i] = hierarchy[i] \/ hierarchy'[i] = Inactive(hierarchy[i])
      BY <1>1, <1>3, DeactivatedRows
    <2>4. ScopeKeyFollowsActivity'
      BY <1>1, <2>2, <2>3 DEF ScopeKeyFollowsActivity
    <2>5. OneActiveParent'
      BY <1>1, <2>2, <2>3 DEF OneActiveParent
    <2>6. QED
      BY <2>4, <2>5
  <1>4. ASSUME NEW e \in HierEditors, WriteHierarchy(e)
        PROVE  ScopeKeyFollowsActivity' /\ OneActiveParent'
    <2> DEFINE edit == hierEditor[e].edit
    <2>1. SUFFICES ASSUME ~ViolatesKey(edit),
                          NEW n \in DOMAIN hierarchy',
                          hierarchy'[n] = Row(edit),
                          edit.id \in DOMAIN hierarchy => n = edit.id,
                          \A i \in DOMAIN hierarchy' \ {n} :
                            i \in DOMAIN hierarchy /\ hierarchy'[i] = hierarchy[i]
                   PROVE  ScopeKeyFollowsActivity' /\ OneActiveParent'
      BY <1>1, <1>2, <1>4, WrittenRows
    <2>2. /\ Row(edit).child = edit.child /\ Row(edit).scope = edit.scope
          /\ Row(edit).isActive = edit.active
          /\ Row(edit).activeScope = IF edit.active THEN edit.scope ELSE NoScope
      BY DEF Row
    <2>3. ScopeKeyFollowsActivity'
      BY <1>1, <2>1, <2>2 DEF ScopeKeyFollowsActivity
    <2>4. ASSUME NEW i \in DOMAIN hierarchy' \ {n}, edit.active,
                 hierarchy'[i].isActive, hierarchy'[i].child = edit.child,
                 hierarchy'[i].scope = edit.scope
          PROVE  FALSE
      <3>1. i \in DOMAIN hierarchy /\ hierarchy'[i] = hierarchy[i]
        BY <2>1
      <3>2. i # edit.id
        BY <2>1, <3>1
      <3>3. hierarchy[i].activeScope = edit.scope
        BY <1>1, <2>4, <3>1 DEF ScopeKeyFollowsActivity
      <3>4. SameActiveScope(edit.id, edit)
        BY <2>4, <3>1, <3>2, <3>3 DEF SameActiveScope
      <3>5. QED
        BY <2>1, <2>4, <3>4 DEF ViolatesKey
    <2>5. ASSUME NEW i \in DOMAIN hierarchy', NEW j \in DOMAIN hierarchy',
                 hierarchy'[i].isActive, hierarchy'[j].isActive,
                 hierarchy'[i].child = hierarchy'[j].child,
                 hierarchy'[i].scope = hierarchy'[j].scope
          PROVE  i = j
      <3>1. CASE i # n /\ j # n
        BY <1>1, <2>1, <2>5, <3>1 DEF OneActiveParent
      <3>2. CASE i = n
        BY <2>1, <2>2, <2>4, <2>5, <3>2
      <3>3. CASE j = n
        BY <2>1, <2>2, <2>4, <2>5, <3>3
      <3>4. QED
        BY <3>1, <3>2, <3>3
    <2>6. OneActiveParent'
      BY <2>5 DEF OneActiveParent
    <2>7. QED
      BY <2>3, <2>6
  <1>5. QED
    BY <1>2, <1>3, <1>4
       DEF HierNext, HierEditorStep, HierReaderStep, hierVars, CreateHierarchy,
           UpdateHierarchy, DeleteHierarchy, CheckRelation, CheckActive, CheckCycle,
           CheckCycleFallback, ResolveHierarchy, FollowService, FollowGlobal, Answer, HierReading

LEMMA KeysInvariant == HierSpec => []KeysInv
  <1>1. HierInit => ScopeKeyFollowsActivity /\ OneActiveParent
    BY DEF HierInit, ScopeKeyFollowsActivity, OneActiveParent
  <1>2. (ScopeKeyFollowsActivity /\ OneActiveParent) /\ HierTypeOK /\ [HierNext]_hierVars
          => (ScopeKeyFollowsActivity /\ OneActiveParent)'
    BY KeysStep DEF KeysInv
  <1>3. QED
    BY <1>1, <1>2, TypeCorrect, PTL DEF HierSpec, KeysInv

(* ScopeKeyFollowsActivity: an inactive row never holds the key of a scope. *)
THEOREM ScopeKeyIsReleased == HierSpec => []ScopeKeyFollowsActivity
  BY KeysInvariant, PTL DEF KeysInv

(* OneActiveParent: a child has one active parent in a scope, for any       *)
(* number of requests that check, wait and write in any order.              *)
THEOREM ParentIsUnique == HierSpec => []OneActiveParent
  BY KeysInvariant, PTL DEF KeysInv

-----------------------------------------------------------------------------
(* Recipients. *)

LEMMA DistinctStep ==
  ASSUME HierTypeOK, RecipientsDistinct, [HierNext]_hierVars
  PROVE  RecipientsDistinct'
  <1> DEFINE Distinct(c) == \A i, j \in DOMAIN c : c[i] = c[j] => i = j
  <1>1. ASSUME hierReader' = hierReader
        PROVE  RecipientsDistinct'
    BY <1>1 DEF RecipientsDistinct
  <1>2. ASSUME NEW r \in HierReaders, NEW state \in ReaderState,
               hierReader' = [hierReader EXCEPT ![r] = state],
               state.at # "Idle" => Distinct(state.chain)
        PROVE  RecipientsDistinct'
    <2>1. hierReader \in [HierReaders -> ReaderState]
      BY HierTypes
    <2>2. QED
      BY <1>2, <2>1 DEF RecipientsDistinct
  <1>3. ASSUME NEW r \in HierReaders, hierReader[r].at # "Idle",
               NEW parent \in HierUsers, Follow(r, parent)
        PROVE  RecipientsDistinct'
    <2> DEFINE c == hierReader[r].chain
    <2>1. c \in Seq(HierUsers) /\ Distinct(c)
      BY <1>3, ReaderFacts DEF RecipientsDistinct
    <2> HIDE DEF c
    <2>2. ~Met(c, parent) => Distinct(Append(c, parent))
      <3>1. /\ DOMAIN Append(c, parent) = 1 .. Len(c) + 1 /\ DOMAIN c = 1 .. Len(c)
            /\ Append(c, parent)[Len(c) + 1] = parent
            /\ \A i \in 1 .. Len(c) : Append(c, parent)[i] = c[i]
            /\ Len(c) \in Nat
        BY <2>1
      <3>2. \A i \in 1 .. Len(c) + 1 : i \in 1 .. Len(c) \/ i = Len(c) + 1
        BY <3>1
      <3>3. QED
        BY <2>1, <3>1, <3>2 DEF Met
    <2>3. PICK state \in ReaderState :
            /\ hierReader' = [hierReader EXCEPT ![r] = state]
            /\ state.chain = c \/ (~Met(c, parent) /\ state.chain = Append(c, parent))
      <3>1. \/ \E state \in ReaderState :
                 hierReader' = [hierReader EXCEPT ![r] = state] /\ state.chain = c
            \/ /\ ~Met(c, parent)
               /\ \E state \in ReaderState :
                    /\ hierReader' = [hierReader EXCEPT ![r] = state]
                    /\ state.chain = Append(c, parent)
        BY <1>3, FollowFacts DEF c
      <3>2. QED
        BY <3>1
    <2>4. Distinct(state.chain)
      BY <2>1, <2>2, <2>3
    <2>5. QED
      BY <1>2, <2>3, <2>4
  <1>4. ASSUME NEW r \in HierReaders, NEW at \in {"Fallback", "Resolved"},
               hierReader[r].at \in {"Walk", "Fallback"},
               hierReader' = [hierReader EXCEPT ![r].at = at]
        PROVE  RecipientsDistinct'
    <2>1. [hierReader[r] EXCEPT !.at = at] \in ReaderState
      BY <1>4, ReaderFacts DEF ReaderState
    <2>2. [hierReader[r] EXCEPT !.at = at].chain = hierReader[r].chain
      BY <1>4, ReaderFacts
    <2>3. Distinct(hierReader[r].chain)
      BY <1>4 DEF RecipientsDistinct
    <2>4. QED
      BY <1>2, <1>4, <2>1, <2>2, <2>3
  <1>5. ASSUME NEW r \in HierReaders, HierReaderStep(r)
        PROVE  RecipientsDistinct'
    <2>1. CASE ResolveHierarchy(r)
      <3>1. PICK user \in HierUsers, service \in HierServices :
              hierReader' = [hierReader EXCEPT ![r] =
                               [at |-> "Walk", service |-> service, chain |-> <<user>>]]
        BY <2>1 DEF ResolveHierarchy
      <3>2. [at |-> "Walk", service |-> service, chain |-> <<user>>] \in ReaderState
        BY DEF ReaderState
      <3>3. Distinct(<<user>>)
        OBVIOUS
      <3>4. QED
        BY <1>2, <3>1, <3>2, <3>3
    <2>2. CASE FollowService(r)
      <3>1. hierReader[r].at = "Walk"
        BY <2>2 DEF FollowService, HierReading
      <3>2. CASE hierReader' = [hierReader EXCEPT ![r].at = "Fallback"]
        BY <1>4, <3>1, <3>2
      <3>3. CASE \E parent \in Parents(LastOf(hierReader[r].chain), hierReader[r].service) :
                   Follow(r, parent)
        BY <1>3, <3>1, <3>3, ParentsAreUsers
      <3>4. QED
        BY <2>2, <3>2, <3>3 DEF FollowService
    <2>3. CASE FollowGlobal(r)
      <3>1. hierReader[r].at = "Fallback"
        BY <2>3 DEF FollowGlobal, HierReading
      <3>2. CASE hierReader' = [hierReader EXCEPT ![r].at = "Resolved"]
        BY <1>4, <3>1, <3>2
      <3>3. CASE \E parent \in Parents(LastOf(hierReader[r].chain), Global) : Follow(r, parent)
        BY <1>3, <3>1, <3>3, ParentsAreUsers
      <3>4. QED
        BY <2>3, <3>2, <3>3 DEF FollowGlobal
    <2>4. CASE Answer(r)
      <3>1. hierReader' = [hierReader EXCEPT ![r] = IdleReader] /\ IdleReader \in ReaderState
        BY <2>4 DEF Answer, ReaderState
      <3>2. QED
        BY <1>2, <3>1 DEF IdleReader
    <2>5. QED
      BY <1>5, <2>1, <2>2, <2>3, <2>4 DEF HierReaderStep
  <1>6. ASSUME NEW e \in HierEditors, HierEditorStep(e)
        PROVE  hierReader' = hierReader
    BY <1>6 DEF HierEditorStep, CreateHierarchy, UpdateHierarchy, DeleteHierarchy, Deactivate,
                CheckRelation, CheckActive, CheckCycle, CheckCycleFallback, WriteHierarchy,
                HierEditing
  <1>7. CASE UNCHANGED hierVars
    BY <1>1, <1>7 DEF hierVars
  <1>8. QED
    BY <1>1, <1>5, <1>6, <1>7 DEF HierNext

(* RecipientsDistinct: a resolution names each user once, whatever circles  *)
(* the hierarchy has and whoever changes it meanwhile.                      *)
THEOREM RecipientsAreDistinct == HierSpec => []RecipientsDistinct
  <1>1. HierInit => RecipientsDistinct
    BY DEF HierInit, RecipientsDistinct, IdleReader
  <1>2. QED
    BY <1>1, DistinctStep, TypeCorrect, PTL DEF HierSpec

-----------------------------------------------------------------------------
(* No circle in a scope, as long as requests do not overlap.  Writing the   *)
(* row of an edit closes a circle only around a set that holds its parent   *)
(* and child and a parent of every other member: the check walks within     *)
(* such a set, so that it ends at the child and never at a missing parent.  *)

Closing(S, edit) ==
  /\ edit.parent \in S /\ edit.child \in S
  /\ \A u \in S \ {edit.child} : Parents(u, edit.scope) \cap S # {}

NoClosing(edit) == \A S \in SUBSET HierUsers : ~Closing(S, edit)

Editable == {"Relation", "Active", "Write", "Walk", "Fallback"}

(* What is known about the only request that is under way. *)
Checked(s) ==
  /\ s.at \in Editable =>
       (s.edit.id \in DOMAIN hierarchy => hierarchy[s.edit.id].child = s.edit.child)
  /\ s.at \in {"Walk", "Fallback"} =>
       /\ s.edit.child \in s.visited
       /\ \A S \in SUBSET HierUsers : Closing(S, s.edit) => s.current \in S
  /\ s.at = "Fallback" => (s.edit.scope # Global => NoClosing(s.edit))
  /\ s.at = "Fallback" => s.current # s.edit.child
  /\ s.at = "Write" => (s.edit.active => NoClosing(s.edit))

Alone == \A e, f \in HierEditors :
  hierEditor[e].at # "Idle" /\ hierEditor[f].at # "Idle" => e = f

Uncircled == \A scope \in HierScopes : \A S \in (SUBSET HierUsers) \ {{}} :
  \E u \in S : Parents(u, scope) \cap S = {}

CircleInv ==
  /\ KeysInv
  /\ ~hierOverlap => Alone /\ Uncircled /\ \A e \in HierEditors : Checked(hierEditor[e])

LEMMA UncircledIsNoCircle ==
  NoCircleInScope <=> (~hierOverlap => Uncircled)
  BY DEF NoCircleInScope, Circular, Uncircled

(* Fewer parents make no circle. *)
LEMMA FewerParents ==
  ASSUME Uncircled, \A u \in HierUsers, scope \in HierScopes : Parents(u, scope)' \subseteq Parents(u, scope)
  PROVE  Uncircled'
  BY DEF Uncircled

LEMMA OneParent ==
  ASSUME HierTypeOK, OneActiveParent, NEW u, NEW scope,
         NEW a \in Parents(u, scope), NEW b \in Parents(u, scope)
  PROVE  a = b
  BY DEF OneActiveParent, Parents

(* Every other request is idle, and stays so. *)
LEMMA OthersIdle ==
  ASSUME HierTypeOK, NEW e \in HierEditors, NEW state, ToEditor(e, state),
         \A f \in HierEditors \ {e} : hierEditor[f].at = "Idle"
  PROVE  /\ hierEditor'[e] = state
         /\ \A f \in HierEditors \ {e} : hierEditor'[f].at = "Idle"
         /\ Alone'
  <1>1. hierEditor \in [HierEditors -> EditorState]
    BY HierTypes
  <1>2. /\ hierEditor'[e] = state
        /\ \A f \in HierEditors \ {e} : hierEditor'[f] = hierEditor[f]
    BY <1>1 DEF ToEditor
  <1>3. QED
    BY <1>2 DEF Alone

(* A circle the write would make is one the check excluded. *)
LEMMA WriteKeepsUncircled ==
  ASSUME KeysInv, KeysInv', NEW e \in HierEditors, WriteHierarchy(e), Uncircled, Checked(hierEditor[e]),
         NEW edit, edit = hierEditor[e].edit
  PROVE  Uncircled'
  <1>0. HierTypeOK /\ OneActiveParent /\ OneActiveParent' /\ HierTypeOK'
    BY DEF KeysInv
  <1>1. CASE hierarchy' = hierarchy
    BY <1>1 DEF Uncircled, Parents
  <1>2. ASSUME NEW n \in DOMAIN hierarchy',
               hierarchy'[n] = Row(edit),
               edit.id \in DOMAIN hierarchy => n = edit.id,
               \A i \in DOMAIN hierarchy' \ {n} :
                 i \in DOMAIN hierarchy /\ hierarchy'[i] = hierarchy[i]
        PROVE  Uncircled'
    <2>1. /\ Row(edit).child = edit.child /\ Row(edit).scope = edit.scope
          /\ Row(edit).isActive = edit.active /\ Row(edit).parent = edit.parent
      BY DEF Row
    <2>2. ASSUME NEW u, NEW scope, u # edit.child \/ scope # edit.scope \/ ~edit.active
          PROVE  Parents(u, scope)' \subseteq Parents(u, scope)
      BY <1>2, <2>1, <2>2 DEF Parents
    <2>3. CASE ~edit.active
      BY <2>2, <2>3, FewerParents
    <2>4. CASE edit.active
      <3>1. edit.parent \in Parents(edit.child, edit.scope)'
        BY <1>2, <2>1, <2>4 DEF Parents
      <3>2. NoClosing(edit)
        BY <2>4 DEF Checked, WriteHierarchy, HierEditing
      <3>3. SUFFICES ASSUME NEW scope \in HierScopes, NEW S \in (SUBSET HierUsers) \ {{}},
                            \A u \in S : Parents(u, scope)' \cap S # {}
                     PROVE  FALSE
        BY DEF Uncircled
      <3>4. CASE scope # edit.scope \/ edit.child \notin S
        <4>1. \A u \in S : Parents(u, scope)' \subseteq Parents(u, scope)
          BY <2>2, <3>4
        <4>2. QED
          BY <3>3, <4>1 DEF Uncircled
      <3>5. CASE scope = edit.scope /\ edit.child \in S
        <4>1. PICK p \in Parents(edit.child, edit.scope)' : p \in S
          BY <3>3, <3>5
        <4>2. p = edit.parent
          <5>1. hierarchy'[n].isActive /\ hierarchy'[n].child = edit.child
                  /\ hierarchy'[n].scope = edit.scope /\ hierarchy'[n].parent = edit.parent
            BY <1>2, <2>1, <2>4
          <5>2. PICK i \in DOMAIN hierarchy' :
                  /\ hierarchy'[i].isActive /\ hierarchy'[i].child = edit.child
                  /\ hierarchy'[i].scope = edit.scope /\ hierarchy'[i].parent = p
            BY <4>1 DEF Parents
          <5>3. i = n
            BY <1>0, <5>1, <5>2 DEF OneActiveParent
          <5>4. QED
            BY <5>1, <5>2, <5>3
        <4>3. \A u \in S \ {edit.child} : Parents(u, edit.scope) \cap S # {}
          <5>1. \A u \in S \ {edit.child} :
                  Parents(u, edit.scope)' \subseteq Parents(u, edit.scope)
            BY <2>2
          <5>2. QED
            BY <3>3, <3>5, <5>1
        <4>4. Closing(S, edit)
          BY <3>5, <4>1, <4>2, <4>3 DEF Closing
        <4>5. QED
          BY <3>2, <4>4 DEF NoClosing
      <3>6. QED
        BY <3>4, <3>5
    <2>5. QED
      BY <1>0, <2>3, <2>4, EditFacts DEF WriteHierarchy, HierEditing, HierEdit
  <1>3. QED
    BY <1>0, <1>1, <1>2, WrittenRows

(* What is known of a state of a request stays true as long as the rows do. *)
LEMMA CheckedKept ==
  ASSUME hierarchy' = hierarchy, NEW s, Checked(s)
  PROVE  Checked(s)'
  <1>1. \A u, scope : Parents(u, scope)' = Parents(u, scope)
    BY DEF Parents
  <1>2. \A S : Closing(S, s.edit)' <=> Closing(S, s.edit)
    BY <1>1 DEF Closing
  <1>3. NoClosing(s.edit)' <=> NoClosing(s.edit)
    BY <1>2 DEF NoClosing
  <1>4. QED
    BY <1>2, <1>3 DEF Checked

(* A request that goes on alone, without a write. *)
LEMMA CheckedStep ==
  ASSUME CircleInv, KeysInv', hierarchy' = hierarchy, ~hierOverlap, ~hierOverlap',
         NEW e \in HierEditors, NEW state, ToEditor(e, state), Checked(state),
         \A f \in HierEditors \ {e} : hierEditor[f].at = "Idle"
  PROVE  CircleInv'
  <1>1. /\ HierTypeOK /\ Uncircled
        /\ \A f \in HierEditors : Checked(hierEditor[f])
    BY DEF CircleInv, KeysInv
  <1>2. Uncircled'
    BY <1>1 DEF Uncircled, Parents
  <1>3. /\ hierEditor'[e] = state
        /\ \A f \in HierEditors \ {e} : hierEditor'[f].at = "Idle"
        /\ Alone'
    BY <1>1, OthersIdle
  <1>4. ASSUME NEW f \in HierEditors
        PROVE  Checked(hierEditor[f])'
    <2>1. CASE f = e
      <3>1. Checked(state)'
        BY CheckedKept
      <3>2. QED
        BY <1>3, <2>1, <3>1
    <2>2. CASE f # e
      BY <1>3, <2>2 DEF Checked, Editable
    <2>3. QED
      BY <2>1, <2>2
  <1>5. QED
    BY <1>2, <1>3, <1>4 DEF CircleInv

(* A step of the check within a closing set stays in it. *)
LEMMA AdvanceChecked ==
  ASSUME HierTypeOK, OneActiveParent, NEW e \in HierEditors,
         Checked(hierEditor[e]), hierEditor[e].at \in {"Walk", "Fallback"},
         ~Seen(e) \/ hierEditor[e].at = "Fallback",
         NEW parent,
         \/ parent \in Parents(hierEditor[e].current, hierEditor[e].edit.scope)
         \/ NoClosing(hierEditor[e].edit)
  PROVE  Checked([hierEditor[e] EXCEPT !.at = "Walk", !.current = parent,
                    !.visited = @ \cup {hierEditor[e].current}, !.depth = @ + 1])
  <1> DEFINE s == hierEditor[e]
             t == [s EXCEPT !.at = "Walk", !.current = parent,
                            !.visited = @ \cup {s.current}, !.depth = @ + 1]
  <1>1. s \in [at: {"Walk", "Fallback"}, edit: HierEdit, current: HierUsers,
               visited: SUBSET HierUsers, depth: Nat]
    BY WalkFacts
  <1>2. /\ t.at = "Walk" /\ t.edit = s.edit /\ t.current = parent
        /\ t.visited = s.visited \cup {s.current}
    BY <1>1
  <1>3. /\ s.edit.id \in DOMAIN hierarchy => hierarchy[s.edit.id].child = s.edit.child
        /\ s.edit.child \in s.visited
        /\ \A S \in SUBSET HierUsers : Closing(S, s.edit) => s.current \in S
        /\ s.at = "Fallback" => s.current # s.edit.child
    BY DEF Checked, Editable
  <1>4. s.current # s.edit.child
    BY <1>3 DEF Seen
  <1>5. \A S \in SUBSET HierUsers : Closing(S, s.edit) => parent \in S
    <2>1. CASE NoClosing(s.edit)
      BY <2>1 DEF NoClosing
    <2>2. CASE parent \in Parents(s.current, s.edit.scope)
      BY <1>3, <1>4, <2>2, OneParent DEF Closing
    <2>3. QED
      BY <2>1, <2>2
  <1> HIDE DEF s, t
  <1>6. Checked(t)
    BY <1>2, <1>3, <1>5 DEF Checked, Editable
  <1>7. QED
    BY <1>6 DEF s, t

LEMMA CircleEditorStep ==
  ASSUME CircleInv, KeysInv', NEW e \in HierEditors, HierEditorStep(e)
  PROVE  CircleInv'
  <1>1. SUFFICES ASSUME ~hierOverlap' PROVE CircleInv'
    BY DEF CircleInv
  <1>2. /\ HierTypeOK /\ OneActiveParent
        /\ ~hierOverlap =>
             Alone /\ Uncircled /\ \A f \in HierEditors : Checked(hierEditor[f])
    BY DEF CircleInv, KeysInv
  <1>3. \A i \in DOMAIN hierarchy : i \in Nat \ {0} /\ hierarchy[i] \in Hierarchy
    BY <1>2 DEF HierTypeOK
  <1>4. Checked(IdleEditor)
    BY DEF Checked, IdleEditor, Editable
  <1>5. ASSUME NEW state, HierStart(e, state), Checked(state), hierarchy' = hierarchy
        PROVE  CircleInv'
    <2>1. ~hierOverlap /\ \A f \in HierEditors : hierEditor[f].at = "Idle"
      BY <1>1, <1>2, <1>5 DEF HierStart, HierTypeOK
    <2>2. QED
      BY <1>1, <1>5, <2>1, CheckedStep DEF HierStart
  <1>6. ASSUME hierEditor[e].at # "Idle", hierOverlap' = hierOverlap
        PROVE  /\ ~hierOverlap /\ Uncircled /\ Checked(hierEditor[e])
               /\ \A f \in HierEditors \ {e} : hierEditor[f].at = "Idle"
    BY <1>1, <1>2, <1>6 DEF Alone
  <1>7. CASE CreateHierarchy(e)
    <2>1. PICK parent, child \in HierUsers, scope \in HierScopes, active \in BOOLEAN :
            HierStart(e, [at |-> "Relation", edit |-> [id |-> 0, parent |-> parent,
                          child |-> child, scope |-> scope, active |-> active]])
      BY <1>7 DEF CreateHierarchy
    <2>2. Checked([at |-> "Relation", edit |-> [id |-> 0, parent |-> parent,
                   child |-> child, scope |-> scope, active |-> active]])
      BY <1>3 DEF Checked, Editable
    <2>3. QED
      BY <1>5, <1>7, <2>1, <2>2 DEF CreateHierarchy
  <1>8. CASE UpdateHierarchy(e)
    <2>1. PICK id \in DOMAIN hierarchy, scope \in HierScopes, active \in BOOLEAN :
            HierStart(e, [at |-> "Relation", edit |-> [id |-> id,
                          parent |-> hierarchy[id].parent, child |-> hierarchy[id].child,
                          scope |-> scope, active |-> active]])
      BY <1>8 DEF UpdateHierarchy
    <2>2. Checked([at |-> "Relation", edit |-> [id |-> id,
                   parent |-> hierarchy[id].parent, child |-> hierarchy[id].child,
                   scope |-> scope, active |-> active]])
      BY DEF Checked, Editable
    <2>3. QED
      BY <1>5, <1>8, <2>1, <2>2 DEF UpdateHierarchy
  <1>9. CASE DeleteHierarchy(e)
    <2>1. PICK id \in DOMAIN hierarchy : HierStart(e, [at |-> "Deactivate", id |-> id])
      BY <1>9 DEF DeleteHierarchy
    <2>2. Checked([at |-> "Deactivate", id |-> id])
      BY DEF Checked, Editable
    <2>3. QED
      BY <1>5, <1>9, <2>1, <2>2 DEF DeleteHierarchy
  <1>10. CASE Deactivate(e)
    <2>1. hierEditor[e].at = "Deactivate" /\ hierOverlap' = hierOverlap /\ ToEditor(e, IdleEditor)
      BY <1>10 DEF Deactivate, HierEditing
    <2>2. /\ ~hierOverlap /\ Uncircled
          /\ \A f \in HierEditors \ {e} : hierEditor[f].at = "Idle"
      BY <1>6, <2>1
    <2>3. \A f \in HierEditors : hierEditor'[f].at = "Idle"
      BY <1>2, <2>1, <2>2, OthersIdle DEF IdleEditor
    <2>4. \A u \in HierUsers, scope \in HierScopes : Parents(u, scope)' \subseteq Parents(u, scope)
      <3>1. \A i \in DOMAIN hierarchy : Inactive(hierarchy[i]).isActive = FALSE
        BY <1>3 DEF Inactive, Hierarchy
      <3>2. /\ DOMAIN hierarchy' = DOMAIN hierarchy
            /\ \A i \in DOMAIN hierarchy : hierarchy'[i].isActive => hierarchy'[i] = hierarchy[i]
        BY <1>2, <1>10, <3>1, DeactivatedRows
      <3>3. QED
        BY <3>2 DEF Parents
    <2>5. Uncircled'
      BY <2>2, <2>4, FewerParents
    <2>6. QED
      BY <2>3, <2>5 DEF CircleInv, Alone, Checked, Editable
  <1>11. CASE CheckRelation(e)
    <2> DEFINE s == hierEditor[e]
    <2>1. s.at = "Relation" /\ hierOverlap' = hierOverlap /\ hierarchy' = hierarchy
      BY <1>11 DEF CheckRelation, HierEditing
    <2>2. s.edit \in HierEdit
      BY <1>2, <2>1, EditFacts
    <2>3. /\ Checked([at |-> "Active", edit |-> s.edit])
          /\ ~s.edit.active => Checked([at |-> "Write", edit |-> s.edit])
      BY <1>6, <2>1 DEF Checked, Editable
    <2>4. \/ ToEditor(e, IdleEditor)
          \/ ToEditor(e, [at |-> "Active", edit |-> s.edit])
          \/ ~s.edit.active /\ ToEditor(e, [at |-> "Write", edit |-> s.edit])
      BY <1>11, <2>2 DEF CheckRelation, HierEdit
    <2> HIDE DEF s
    <2>5. PICK state : ToEditor(e, state) /\ Checked(state)
      BY <1>4, <2>3, <2>4
    <2>6. QED
      BY <1>1, <1>6, <2>1, <2>5, CheckedStep DEF s
  <1>12. CASE CheckActive(e)
    <2> DEFINE s == hierEditor[e]
               t == [at |-> "Walk", edit |-> s.edit, current |-> s.edit.parent,
                     visited |-> {s.edit.child}, depth |-> 0]
    <2>1. s.at = "Active" /\ hierOverlap' = hierOverlap /\ hierarchy' = hierarchy
      BY <1>12 DEF CheckActive, HierEditing
    <2>2. Checked(t)
      BY <1>6, <2>1 DEF Checked, Editable, Closing
    <2>3. ToEditor(e, IdleEditor) \/ ToEditor(e, t)
      BY <1>12 DEF CheckActive
    <2> HIDE DEF s, t
    <2>4. PICK state : ToEditor(e, state) /\ Checked(state)
      BY <1>4, <2>2, <2>3
    <2>5. QED
      BY <1>1, <1>6, <2>1, <2>4, CheckedStep DEF s
  <1>13. CASE CheckCycle(e)
    <2> DEFINE s == hierEditor[e]
    <2>1. s.at = "Walk" /\ hierOverlap' = hierOverlap /\ hierarchy' = hierarchy
      BY <1>13 DEF CheckCycle, HierEditing
    <2>2. Checked(s)
      BY <1>6, <2>1
    <2>3. CASE Seen(e) /\ ToEditor(e, IdleEditor)
      BY <1>1, <1>4, <1>6, <2>1, <2>3, CheckedStep
    <2>4. CASE ~Seen(e) /\ \E parent \in Parents(s.current, s.edit.scope) : HierAdvance(e, parent)
      <3>1. PICK parent \in Parents(s.current, s.edit.scope) : HierAdvance(e, parent)
        BY <2>4
      <3>2. Checked([s EXCEPT !.at = "Walk", !.current = parent,
                       !.visited = @ \cup {s.current}, !.depth = @ + 1])
        BY <1>2, <2>1, <2>2, <2>4, <3>1, AdvanceChecked
      <3>3. PICK state : ToEditor(e, state) /\ Checked(state)
        BY <1>4, <3>1, <3>2 DEF HierAdvance
      <3>4. QED
        BY <1>1, <1>6, <2>1, <3>3, CheckedStep
    <2>5. CASE /\ ~Seen(e)
               /\ s.edit.scope # Global => Parents(s.current, s.edit.scope) = {}
               /\ ToEditor(e, [s EXCEPT !.at = "Fallback"])
      <3> DEFINE t == [s EXCEPT !.at = "Fallback"]
      <3>1. /\ t.at = "Fallback" /\ t.edit = s.edit /\ t.current = s.current
            /\ t.visited = s.visited
        BY <1>2, <2>1, WalkFacts
      <3>2. s.current # s.edit.child
        BY <2>1, <2>2, <2>5 DEF Checked, Seen
      <3>3. s.edit.scope # Global => NoClosing(s.edit)
        BY <2>1, <2>2, <2>5, <3>2 DEF Checked, NoClosing, Closing
      <3>4. Checked(t)
        BY <2>1, <2>2, <3>1, <3>2, <3>3 DEF Checked, Editable
      <3>5. QED
        BY <1>1, <1>6, <2>1, <2>5, <3>4, CheckedStep
    <2>6. QED
      BY <1>13, <2>3, <2>4, <2>5 DEF CheckCycle
  <1>14. CASE CheckCycleFallback(e)
    <2> DEFINE s == hierEditor[e]
    <2>1. s.at = "Fallback" /\ hierOverlap' = hierOverlap /\ hierarchy' = hierarchy
      BY <1>14 DEF CheckCycleFallback, HierEditing
    <2>2. Checked(s)
      BY <1>6, <2>1
    <2>3. CASE \E parent \in Parents(s.current, Global) : HierAdvance(e, parent)
      <3>1. PICK parent \in Parents(s.current, Global) : HierAdvance(e, parent)
        BY <2>3
      <3>2. parent \in Parents(s.current, s.edit.scope) \/ NoClosing(s.edit)
        BY <2>1, <2>2, <3>1 DEF Checked
      <3>3. Checked([s EXCEPT !.at = "Walk", !.current = parent,
                       !.visited = @ \cup {s.current}, !.depth = @ + 1])
        BY <1>2, <2>1, <2>2, <3>2, AdvanceChecked
      <3>4. PICK state : ToEditor(e, state) /\ Checked(state)
        BY <1>4, <3>1, <3>3 DEF HierAdvance
      <3>5. QED
        BY <1>1, <1>6, <2>1, <3>4, CheckedStep
    <2>4. CASE Parents(s.current, Global) = {} /\ ToEditor(e, [at |-> "Write", edit |-> s.edit])
      <3>1. NoClosing(s.edit)
        BY <2>1, <2>2, <2>4 DEF Checked, NoClosing, Closing
      <3>2. Checked([at |-> "Write", edit |-> s.edit])
        BY <2>1, <2>2, <3>1 DEF Checked, Editable
      <3>3. QED
        BY <1>1, <1>6, <2>1, <2>4, <3>2, CheckedStep
    <2>5. QED
      BY <1>14, <2>3, <2>4 DEF CheckCycleFallback
  <1>15. CASE WriteHierarchy(e)
    <2>1. hierEditor[e].at = "Write" /\ hierOverlap' = hierOverlap /\ ToEditor(e, IdleEditor)
      BY <1>15 DEF WriteHierarchy, HierEditing
    <2>2. /\ ~hierOverlap /\ Uncircled /\ Checked(hierEditor[e])
          /\ \A f \in HierEditors \ {e} : hierEditor[f].at = "Idle"
      BY <1>6, <2>1
    <2>3. \A f \in HierEditors : hierEditor'[f].at = "Idle"
      BY <1>2, <2>1, <2>2, OthersIdle DEF IdleEditor
    <2>4. KeysInv
      BY DEF CircleInv
    <2>5. Uncircled'
      BY <1>15, <2>2, <2>4, WriteKeepsUncircled
    <2>6. QED
      BY <2>3, <2>5 DEF CircleInv, Alone, Checked, Editable
  <1>16. QED
    BY <1>7, <1>8, <1>9, <1>10, <1>11, <1>12, <1>13, <1>14, <1>15 DEF HierEditorStep

LEMMA CircleReaderStep ==
  ASSUME CircleInv, KeysInv', UNCHANGED <<hierarchy, hierEditor, hierOverlap>>
  PROVE  CircleInv'
  <1>1. ASSUME NEW e \in HierEditors, Checked(hierEditor[e])
        PROVE  Checked(hierEditor[e])'
    BY <1>1, CheckedKept
  <1>2. Uncircled => Uncircled'
    BY DEF Uncircled, Parents
  <1>3. QED
    BY <1>1, <1>2 DEF CircleInv, Alone

(* NoCircleInScope: as long as requests do not overlap, nobody is above     *)
(* himself in one scope, in a hierarchy of any size and after any number of *)
(* creations, moves, deletions and reactivations.                           *)
THEOREM NoCircles == HierSpec => []NoCircleInScope
  <1>1. HierInit => Alone /\ Uncircled /\ \A e \in HierEditors : Checked(hierEditor[e])
    <2> SUFFICES ASSUME HierInit
                 PROVE  Alone /\ Uncircled /\ \A e \in HierEditors : Checked(hierEditor[e])
      OBVIOUS
    <2>1. \A u, scope : Parents(u, scope) = {}
      BY DEF HierInit, Parents
    <2>2. Uncircled
      <3>1. SUFFICES ASSUME NEW scope \in HierScopes, NEW S \in (SUBSET HierUsers) \ {{}}
                     PROVE  \E u \in S : Parents(u, scope) \cap S = {}
        BY DEF Uncircled
      <3>2. PICK u : u \in S
        BY <3>1
      <3>3. Parents(u, scope) = {}
        BY <2>1
      <3>4. QED
        BY <3>2, <3>3
    <2>3. \A e \in HierEditors : hierEditor[e].at = "Idle"
      BY DEF HierInit, IdleEditor
    <2>4. QED
      BY <2>2, <2>3 DEF Alone, Checked, Editable
  <1>2. CircleInv /\ KeysInv' /\ [HierNext]_hierVars => CircleInv'
    BY CircleEditorStep, CircleReaderStep
       DEF HierNext, hierVars, HierReaderStep, ResolveHierarchy, FollowService, FollowGlobal,
           Answer, HierReading
  <1>3. CircleInv => NoCircleInScope
    BY UncircledIsNoCircle DEF CircleInv
  <1>4. HierSpec => []CircleInv
    <2>1. HierInit /\ KeysInv => CircleInv
      BY <1>1 DEF CircleInv
    <2>2. QED
      BY <1>2, <2>1, KeysInvariant, PTL DEF HierSpec
  <1>5. QED
    BY <1>3, <1>4, PTL

-----------------------------------------------------------------------------
(* Sums of shares.  Induction over naturals and over the subsets of a      *)
(* finite set is stated of a set that is closed under the step.             *)

LEMMA LeastNatural ==
  ASSUME NEW T, T \subseteq Nat, T # {}
  PROVE  \E x \in T : \A y \in T : x <= y
<1> DEFINE R == {ss \in Nat \X Nat : ss[1] < ss[2]}
<1>1. IsWellFoundedOn(R, Nat)
  BY NatLessThanWellFounded DEF OpToRel
<1> HIDE DEF R
<1>2. PICK x \in T : \A y \in T : ~ (<<y, x>> \in R)
  BY <1>1, WFMin
<1>3. ASSUME NEW y \in T PROVE x <= y
  <2>1. x \in Nat /\ y \in Nat
    OBVIOUS
  <2>2. ~(y < x)
    BY <1>2, <2>1 DEF R
  <2> QED BY <2>1, <2>2
<1> QED BY <1>3

LEMMA NaturalsFromZero ==
  ASSUME NEW Good \in SUBSET Nat, 0 \in Good, \A n \in Good : n + 1 \in Good
  PROVE  Good = Nat
<1> DEFINE Bad == Nat \ Good
<1>1. ASSUME Bad # {} PROVE FALSE
  <2>1. PICK n \in Bad : \A m \in Bad : n <= m
    BY <1>1, LeastNatural
  <2>2. n \in Nat /\ n # 0
    OBVIOUS
  <2>3. n - 1 \in Nat /\ ~(n <= n - 1) /\ (n - 1) + 1 = n
    BY <2>2
  <2>4. n - 1 \in Good
    BY <2>1, <2>3
  <2> QED BY <2>3, <2>4
<1> QED BY <1>1

LEMMA SubsetsFromSmaller ==
  ASSUME NEW S, IsFiniteSet(S), NEW Good \in SUBSET SUBSET S,
         \A s \in SUBSET S : (\A x \in s : s \ {x} \in Good) => s \in Good
  PROVE  \A s \in SUBSET S : s \in Good
<1>1. \A s \in SUBSET S : IsFiniteSet(s) /\ Cardinality(s) \in Nat
  BY FS_Subset, FS_CardinalityType
<1> DEFINE Bad == (SUBSET S) \ Good
           Sizes == {Cardinality(s) : s \in Bad}
<1>2. ASSUME Bad # {} PROVE FALSE
  <2>1. Sizes \subseteq Nat /\ Sizes # {}
    BY <1>1, <1>2
  <2>2. PICK n \in Sizes : \A m \in Sizes : n <= m
    BY <2>1, LeastNatural
  <2>3. PICK s \in Bad : n = Cardinality(s)
    OBVIOUS
  <2>4. ASSUME NEW x \in s PROVE s \ {x} \in Good
    <3>1. s \ {x} \in SUBSET S /\ Cardinality(s \ {x}) = n - 1 /\ n \in Nat
      BY <1>1, <2>3, FS_RemoveElement
    <3> QED BY <2>2, <3>1
  <2> QED BY <2>4
<1> QED BY <1>2

AnElement(s) == CHOOSE x \in s : TRUE

(* The sum over each set of D, from the sums over the sets with one less. *)
Sums(plan, D, f) ==
  f = [s \in D |-> IF s = {} THEN 0 ELSE plan[AnElement(s)] + f[s \ {AnElement(s)}]]

(* "more" is the plan with the share of r larger by a. *)
Raised(S, plan, more, r, a) ==
  \A x \in S : plan[x] \in Nat /\ more[x] = plan[x] + IF x = r THEN a ELSE 0

LEMMA AnElementIn == \A s : s # {} => AnElement(s) \in s
  BY DEF AnElement

LEMMA AllocatedIsSum ==
  ASSUME NEW plan
  PROVE  Allocated(plan) = (CHOOSE f : Sums(plan, SUBSET RecipientRoles, f))[RecipientRoles]
  BY DEF Allocated, MapThenSumSet, MapThenFoldSet, Sums, AnElement

LEMMA SumsExist ==
  ASSUME NEW S, IsFiniteSet(S), NEW plan
  PROVE  \E f : Sums(plan, SUBSET S, f)
<1> DEFINE D(n) == {s \in SUBSET S : Cardinality(s) <= n}
           Good == {n \in Nat : \E f : Sums(plan, D(n), f)}
<1>1. \A s \in SUBSET S : /\ IsFiniteSet(s) /\ Cardinality(s) \in Nat
                          /\ Cardinality(s) = 0 => s = {}
  BY FS_Subset, FS_CardinalityType, FS_EmptySet
<1>2. 0 \in Good
  <2> DEFINE f == [s \in D(0) |-> 0]
  <2>1. \A s \in D(0) : s = {}
    BY <1>1
  <2>2. Sums(plan, D(0), f)
    BY <2>1 DEF Sums
  <2> QED BY <2>2
<1>3. ASSUME NEW n \in Good PROVE n + 1 \in Good
  <2>1. PICK f : Sums(plan, D(n), f)
    OBVIOUS
  <2> DEFINE g == [s \in D(n + 1) |->
                IF s = {} THEN 0 ELSE plan[AnElement(s)] + f[s \ {AnElement(s)}]]
  <2>2. n \in Nat
    OBVIOUS
  <2>3. \A s \in D(n) : s \in D(n + 1)
    BY <1>1, <2>2
  <2>4. \A s \in D(n) : g[s] = f[s]
    <3> TAKE s \in D(n)
    <3>1. f[s] = IF s = {} THEN 0 ELSE plan[AnElement(s)] + f[s \ {AnElement(s)}]
      <4> HIDE DEF D
      <4> QED BY <2>1 DEF Sums
    <3> QED BY <2>3, <3>1
  <2>5. ASSUME NEW s \in D(n + 1), s # {} PROVE s \ {AnElement(s)} \in D(n)
    <3>1. AnElement(s) \in s
      BY <2>5, AnElementIn
    <3>2. s \in SUBSET S /\ Cardinality(s) <= n + 1
      OBVIOUS
    <3>3. Cardinality(s \ {AnElement(s)}) = Cardinality(s) - 1
      BY <1>1, <3>1, <3>2, FS_RemoveElement
    <3> QED BY <1>1, <2>2, <3>2, <3>3
  <2>6. \A s \in D(n + 1) :
          g[s] = IF s = {} THEN 0 ELSE plan[AnElement(s)] + g[s \ {AnElement(s)}]
    <3> TAKE s \in D(n + 1)
    <3>1. g[s] = IF s = {} THEN 0 ELSE plan[AnElement(s)] + f[s \ {AnElement(s)}]
      OBVIOUS
    <3> HIDE DEF g, D
    <3> QED BY <2>4, <2>5, <3>1
  <2>7. g = [s \in D(n + 1) |-> g[s]]
    OBVIOUS
  <2> HIDE DEF g, D
  <2>8. Sums(plan, D(n + 1), g)
    BY <2>6, <2>7 DEF Sums
  <2> QED BY <2>2, <2>8
<1> HIDE DEF Good
<1>4. Good = Nat
  <2>1. Good \in SUBSET Nat
    BY DEF Good
  <2> QED BY <1>2, <1>3, <2>1, NaturalsFromZero
<1>5. Cardinality(S) \in Nat /\ \A s \in SUBSET S : Cardinality(s) <= Cardinality(S)
  BY FS_CardinalityType, FS_Subset
<1>6. D(Cardinality(S)) = SUBSET S
  BY <1>5
<1> HIDE DEF D
<1>7. \E f : Sums(plan, D(Cardinality(S)), f)
  BY <1>4, <1>5 DEF Good
<1> QED BY <1>6, <1>7

(* Sums are in whatever set has zero, the shares and their sums. *)
LEMMA SumsStayIn ==
  ASSUME NEW S, IsFiniteSet(S), NEW V, 0 \in V, \A v, w \in V : v + w \in V,
         NEW plan, \A x \in S : plan[x] \in V,
         NEW f, Sums(plan, SUBSET S, f)
  PROVE  \A s \in SUBSET S : f[s] \in V
<1> DEFINE Good == {s \in SUBSET S : f[s] \in V}
<1>1. ASSUME NEW s \in SUBSET S, \A x \in s : s \ {x} \in Good PROVE s \in Good
  <2>1. f[s] = IF s = {} THEN 0 ELSE plan[AnElement(s)] + f[s \ {AnElement(s)}]
    BY DEF Sums
  <2>2. CASE s = {}
    BY <2>1, <2>2
  <2>3. CASE s # {}
    <3>1. AnElement(s) \in s
      BY <2>3, AnElementIn
    <3>2. f[s \ {AnElement(s)}] \in V /\ plan[AnElement(s)] \in V
      BY <1>1, <3>1
    <3> QED BY <2>1, <2>3, <3>2
  <2> QED BY <2>2, <2>3
<1> HIDE DEF Good
<1>2. Good \in SUBSET SUBSET S
  BY DEF Good
<1>3. \A s \in SUBSET S : s \in Good
  BY <1>1, <1>2, SubsetsFromSmaller
<1> QED BY <1>3 DEF Good

(* A larger share makes the sum larger by as much. *)
LEMMA SumsGrow ==
  ASSUME NEW S, IsFiniteSet(S), NEW plan, NEW more, NEW r, NEW a \in Nat,
         Raised(S, plan, more, r, a),
         NEW f, Sums(plan, SUBSET S, f), NEW g, Sums(more, SUBSET S, g)
  PROVE  \A s \in SUBSET S : g[s] = f[s] + IF r \in s THEN a ELSE 0
<1>0. \A s \in SUBSET S : f[s] \in Nat
  <2>1. 0 \in Nat /\ \A v, w \in Nat : v + w \in Nat
    OBVIOUS
  <2>2. \A x \in S : plan[x] \in Nat
    BY DEF Raised
  <2> QED BY <2>1, <2>2, SumsStayIn
<1> DEFINE Good == {s \in SUBSET S : g[s] = f[s] + IF r \in s THEN a ELSE 0}
<1>1. ASSUME NEW s \in SUBSET S, \A x \in s : s \ {x} \in Good PROVE s \in Good
  <2>1. f[s] = IF s = {} THEN 0 ELSE plan[AnElement(s)] + f[s \ {AnElement(s)}]
    BY DEF Sums
  <2>2. g[s] = IF s = {} THEN 0 ELSE more[AnElement(s)] + g[s \ {AnElement(s)}]
    BY DEF Sums
  <2>3. CASE s = {}
    BY <2>1, <2>2, <2>3
  <2>4. CASE s # {}
    <3>1. PICK x \in s : x = AnElement(s)
      BY <2>4, AnElementIn
    <3>2. g[s \ {x}] = f[s \ {x}] + IF r \in s \ {x} THEN a ELSE 0
      BY <1>1
    <3>3. f[s \ {x}] \in Nat /\ plan[x] \in Nat /\ more[x] = plan[x] + IF x = r THEN a ELSE 0
      BY <1>0 DEF Raised
    <3>4. f[s] = plan[x] + f[s \ {x}] /\ g[s] = more[x] + g[s \ {x}]
      BY <2>1, <2>2, <2>4, <3>1
    <3>5. CASE x = r
      BY <3>2, <3>3, <3>4, <3>5
    <3>6. CASE x # r
      BY <3>2, <3>3, <3>4, <3>6
    <3> QED BY <3>5, <3>6
  <2> QED BY <2>3, <2>4
<1> HIDE DEF Good
<1>2. Good \in SUBSET SUBSET S
  BY DEF Good
<1>3. \A s \in SUBSET S : s \in Good
  BY <1>1, <1>2, SubsetsFromSmaller
<1> QED BY <1>3 DEF Good

(* What AllocateShare and CompletePlan need to know of Allocated. *)
LEMMA AllocatedIn ==
  ASSUME NEW V, 0 \in V, \A v, w \in V : v + w \in V,
         NEW plan, \A to \in RecipientRoles : plan[to] \in V
  PROVE  Allocated(plan) \in V
<1>1. IsFiniteSet(RecipientRoles)
  BY PlanAssumption
<1>2. PICK f : Sums(plan, SUBSET RecipientRoles, f) /\ Allocated(plan) = f[RecipientRoles]
  BY <1>1, SumsExist, AllocatedIsSum
<1>3. \A s \in SUBSET RecipientRoles : f[s] \in V
  BY <1>1, <1>2, SumsStayIn
<1> QED BY <1>2, <1>3

LEMMA AllocatedGrows ==
  ASSUME NEW plan, NEW more, NEW r, NEW a \in Nat, Raised(RecipientRoles, plan, more, r, a)
  PROVE  Allocated(more) = Allocated(plan) + IF r \in RecipientRoles THEN a ELSE 0
<1>1. IsFiniteSet(RecipientRoles)
  BY PlanAssumption
<1>2. PICK f : Sums(plan, SUBSET RecipientRoles, f) /\ Allocated(plan) = f[RecipientRoles]
  BY <1>1, SumsExist, AllocatedIsSum
<1>3. PICK g : Sums(more, SUBSET RecipientRoles, g) /\ Allocated(more) = g[RecipientRoles]
  BY <1>1, SumsExist, AllocatedIsSum
<1>4. \A s \in SUBSET RecipientRoles : g[s] = f[s] + IF r \in s THEN a ELSE 0
  BY <1>1, <1>2, <1>3, SumsGrow
<1> QED BY <1>2, <1>3, <1>4

(* A larger share, of a plan of natural shares. *)
LEMMA ShareAdded ==
  ASSUME NEW plan \in [RecipientRoles \cup {SourceUser} -> Nat],
         NEW r \in RecipientRoles, NEW a \in Nat
  PROVE  Allocated([plan EXCEPT ![r] = @ + a]) = Allocated(plan) + a
<1> DEFINE more == [plan EXCEPT ![r] = @ + a]
<1>1. Raised(RecipientRoles, plan, more, r, a)
  BY DEF Raised
<1> HIDE DEF more
<1>2. Allocated(more) = Allocated(plan) + IF r \in RecipientRoles THEN a ELSE 0
  BY <1>1, AllocatedGrows
<1> QED BY <1>2 DEF more

(* The remainder of the source is none of the recipients' shares. *)
LEMMA SourceIsApart ==
  ASSUME NEW plan \in [RecipientRoles \cup {SourceUser} -> Nat], NEW a \in Nat
  PROVE  Allocated([plan EXCEPT ![SourceUser] = a]) = Allocated(plan)
<1> DEFINE more == [plan EXCEPT ![SourceUser] = a]
<1>1. SourceUser \notin RecipientRoles
  BY PlanAssumption
<1>2. \A to \in RecipientRoles : plan[to] \in Nat
  OBVIOUS
<1>3. Raised(RecipientRoles, plan, more, SourceUser, a)
  BY <1>1, <1>2 DEF Raised
<1>4. Allocated(plan) \in Nat
  <2>1. 0 \in Nat /\ \A v, w \in Nat : v + w \in Nat
    OBVIOUS
  <2> QED BY <1>2, <2>1, AllocatedIn
<1> HIDE DEF more
<1>5. Allocated(more) = Allocated(plan) + IF SourceUser \in RecipientRoles THEN a ELSE 0
  BY <1>3, AllocatedGrows
<1> QED BY <1>1, <1>4, <1>5 DEF more

LEMMA NothingAllocated == Allocated(EmptyPlan) = 0
<1> DEFINE V == {0}
<1>1. 0 \in V /\ \A v, w \in V : v + w \in V
  OBVIOUS
<1>2. \A to \in RecipientRoles : EmptyPlan[to] \in V
  BY DEF EmptyPlan
<1> HIDE DEF V
<1>3. Allocated(EmptyPlan) \in V
  BY <1>1, <1>2, AllocatedIn
<1> QED BY <1>3 DEF V


-----------------------------------------------------------------------------
(* The distributions of a rule, and the edits that are on their way.        *)

DistEditorIn(e) ==
  /\ distEditor[e].at \in {"Create", "Reactivate", "Update"} => distEditor[e].row \in Requested
  /\ distEditor[e].at \in {"Reactivate", "Update"} => distEditor[e].id \in DOMAIN distribution
  /\ distEditor[e].at = "Update" => distEditor[e].keep \in BOOLEAN

DistributionsInv ==
  /\ distribution \in Seq(Distribution)
  /\ DOMAIN distEditor = DistEditors
  /\ \A e \in DistEditors : DistEditorIn(e)
  /\ PercentWithinHundred

(* A commission, once stored, is the one that every request has answered   *)
(* with; an income of zero has none.                                       *)
CommissionInv ==
  /\ DOMAIN creator = Creators
  /\ commission = NoCommission \/ commission.stored = TRUE
  /\ AnswersAgree

LEMMA StoredIsSome ==
  ASSUME NEW plan
  PROVE  [stored |-> TRUE, plan |-> plan] # NoCommission
<1>1. [stored |-> TRUE, plan |-> plan].stored = TRUE /\ NoCommission.stored = FALSE
  BY DEF NoCommission
<1> QED BY <1>1

LEMMA PlanInitially == PlanInit => DistributionsInv /\ CommissionInv
<1> SUFFICES ASSUME PlanInit PROVE DistributionsInv /\ CommissionInv
  OBVIOUS
<1>1. \A e \in DistEditors : distEditor[e].at = "Idle"
  BY DEF PlanInit, StillEditor
<1>2. \A c \in Creators : creator[c].at = "New"
  BY DEF PlanInit, NewCreator
<1>3. distribution = << >> /\ commission = NoCommission /\ DOMAIN distEditor = DistEditors
      /\ DOMAIN creator = Creators
  BY DEF PlanInit
<1>4. DistributionsInv
  BY <1>1, <1>3 DEF DistributionsInv, DistEditorIn, PercentWithinHundred
<1> QED BY <1>2, <1>3, <1>4 DEF CommissionInv, AnswersAgree

(* A step that moves one editor, and leaves no distribution out.            *)
LEMMA EditorMoves ==
  ASSUME DistributionsInv, NEW e \in DistEditors, NEW state,
         ToDistEditor(e, state),
         distribution' \in Seq(Distribution),
         DOMAIN distribution \subseteq DOMAIN distribution',
         PercentWithinHundred',
         state.at \in {"Create", "Reactivate", "Update"} => state.row \in Requested,
         state.at \in {"Reactivate", "Update"} => state.id \in DOMAIN distribution,
         state.at = "Update" => state.keep \in BOOLEAN
  PROVE  DistributionsInv'
<1>1. DOMAIN distEditor' = DistEditors
  BY DEF DistributionsInv, ToDistEditor
<1>2. distEditor'[e] = state /\ \A o \in DistEditors \ {e} : distEditor'[o] = distEditor[o]
  BY DEF DistributionsInv, ToDistEditor
<1>3. ASSUME NEW o \in DistEditors PROVE DistEditorIn(o)'
  <2>1. CASE o = e
    BY <1>2, <2>1 DEF DistEditorIn
  <2>2. CASE o # e
    BY <1>2, <2>2 DEF DistEditorIn, DistributionsInv
  <2> QED BY <2>1, <2>2
<1> QED BY <1>1, <1>3 DEF DistributionsInv

(* A valid row put in place of a distribution.                              *)
LEMMA RowReplaced ==
  ASSUME DistributionsInv, NEW i \in DOMAIN distribution, NEW row \in Distribution,
         ValidDistribution(row), distribution' = [distribution EXCEPT ![i] = row]
  PROVE  /\ distribution' \in Seq(Distribution)
         /\ DOMAIN distribution' = DOMAIN distribution
         /\ PercentWithinHundred'
<1>1. distribution \in Seq(Distribution)
  BY DEF DistributionsInv
<1>2. distribution' \in Seq(Distribution) /\ DOMAIN distribution' = DOMAIN distribution
  BY <1>1
<1>3. \A j \in DOMAIN distribution : distribution'[j] = IF j = i THEN row ELSE distribution[j]
  BY <1>1
<1>4. \A j \in DOMAIN distribution : ValidDistribution(distribution'[j])
  BY <1>3 DEF DistributionsInv, PercentWithinHundred
<1>5. PercentWithinHundred'
  BY <1>2, <1>4 DEF PercentWithinHundred
<1> QED BY <1>2, <1>5

LEMMA DistributionsStep ==
  ASSUME DistributionsInv, [PlanNext]_planVars
  PROVE  DistributionsInv'
<1>1. distribution \in Seq(Distribution) /\ PercentWithinHundred
  BY DEF DistributionsInv
<1>2. ASSUME UNCHANGED <<distribution, distEditor>> PROVE DistributionsInv'
  BY <1>2 DEF DistributionsInv, DistEditorIn, PercentWithinHundred
<1>3. ASSUME NEW e \in DistEditors, NEW state, UNCHANGED distribution, ToDistEditor(e, state),
             state.at \in {"Create", "Reactivate", "Update"} => state.row \in Requested,
             state.at \in {"Reactivate", "Update"} => state.id \in DOMAIN distribution,
             state.at = "Update" => state.keep \in BOOLEAN
      PROVE  DistributionsInv'
  <2>1. PercentWithinHundred'
    BY <1>1, <1>3 DEF PercentWithinHundred
  <2> QED BY <1>1, <1>3, <2>1, EditorMoves
<1>4. \A d \in Requested : d \in Distribution /\ ValidDistribution(d)
  BY DEF Requested
<1>5. ASSUME NEW e \in DistEditors,
             \/ CreateDistribution(e) \/ UpdateDistribution(e) \/ DeleteDistribution(e)
             \/ InsertDistribution(e) \/ WriteReactivated(e) \/ WriteDistribution(e) \/ EditorStops(e)
      PROVE  DistributionsInv'
  <2>1. CASE CreateDistribution(e)
    <3>1. PICK d \in Requested :
            \/ ToDistEditor(e, [at |-> "Create", row |-> d])
            \/ \E i \in DOMAIN distribution :
                 ToDistEditor(e, [at |-> "Reactivate", id |-> i, row |-> d])
      BY <2>1 DEF CreateDistribution
    <3>2. UNCHANGED distribution
      BY <2>1 DEF CreateDistribution
    <3>3. CASE ToDistEditor(e, [at |-> "Create", row |-> d])
      BY <1>3, <3>2, <3>3
    <3>4. ASSUME NEW i \in DOMAIN distribution,
                 ToDistEditor(e, [at |-> "Reactivate", id |-> i, row |-> d])
          PROVE  DistributionsInv'
      BY <1>3, <3>2, <3>4
    <3> QED BY <3>1, <3>3, <3>4
  <2>2. CASE UpdateDistribution(e)
    <3>1. PICK i \in DOMAIN distribution, d \in Requested, keep \in BOOLEAN :
            ToDistEditor(e, [at |-> "Update", id |-> i, row |-> d, keep |-> keep])
      BY <2>2 DEF UpdateDistribution
    <3>2. UNCHANGED distribution
      BY <2>2 DEF UpdateDistribution
    <3> QED BY <1>3, <3>1, <3>2
  <2>3. CASE DeleteDistribution(e)
    <3>1. PICK i \in DOMAIN distribution :
            distribution' = [distribution EXCEPT ![i].active = FALSE]
      BY <2>3 DEF DeleteDistribution
    <3>2. distEditor' = distEditor
      BY <2>3 DEF DeleteDistribution
    <3> DEFINE row == [distribution[i] EXCEPT !.active = FALSE]
    <3>3. distribution[i] \in Distribution /\ ValidDistribution(distribution[i])
      BY <1>1 DEF PercentWithinHundred
    <3>4. row \in Distribution /\ ValidDistribution(row)
      BY <3>3 DEF Distribution, ValidDistribution
    <3>5. distribution' = [distribution EXCEPT ![i] = row]
      BY <3>1
    <3> HIDE DEF row
    <3>6. /\ distribution' \in Seq(Distribution) /\ DOMAIN distribution' = DOMAIN distribution
          /\ PercentWithinHundred'
      BY <3>4, <3>5, RowReplaced
    <3> QED BY <3>2, <3>6 DEF DistributionsInv, DistEditorIn
  <2>4. CASE InsertDistribution(e)
    <3>1. /\ distEditor[e].at = "Create" /\ ToDistEditor(e, StillEditor)
          /\ distribution' = Append(distribution, distEditor[e].row)
      BY <2>4 DEF InsertDistribution, DistEditing
    <3>2. distEditor[e].row \in Distribution /\ ValidDistribution(distEditor[e].row)
      BY <1>4, <3>1 DEF DistributionsInv, DistEditorIn
    <3>3. /\ distribution' \in Seq(Distribution)
          /\ Len(distribution') = Len(distribution) + 1
          /\ \A j \in 1..Len(distribution) : distribution'[j] = distribution[j]
          /\ distribution'[Len(distribution) + 1] = distEditor[e].row
      BY <1>1, <3>1, <3>2
    <3>4. /\ DOMAIN distribution = 1..Len(distribution)
          /\ DOMAIN distribution' = 1..(Len(distribution) + 1) /\ Len(distribution) \in Nat
      BY <1>1, <3>3
    <3>5. \A j \in DOMAIN distribution' : j \in DOMAIN distribution \/ j = Len(distribution) + 1
      BY <3>4
    <3>6. \A j \in DOMAIN distribution' : ValidDistribution(distribution'[j])
      BY <1>1, <3>2, <3>3, <3>4, <3>5 DEF PercentWithinHundred
    <3>7. PercentWithinHundred'
      BY <3>6 DEF PercentWithinHundred
    <3>8. DOMAIN distribution \subseteq DOMAIN distribution'
      BY <3>4
    <3>9. StillEditor.at = "Idle"
      BY DEF StillEditor
    <3> QED BY <3>1, <3>3, <3>7, <3>8, <3>9, EditorMoves
  <2>5. ASSUME NEW row \in Distribution, ValidDistribution(row),
               distEditor[e].at \in {"Reactivate", "Update"},
               distribution' = [distribution EXCEPT ![distEditor[e].id] = row],
               ToDistEditor(e, StillEditor)
        PROVE  DistributionsInv'
    <3>1. distEditor[e].id \in DOMAIN distribution
      BY <2>5 DEF DistributionsInv, DistEditorIn
    <3>2. /\ distribution' \in Seq(Distribution) /\ DOMAIN distribution' = DOMAIN distribution
          /\ PercentWithinHundred'
      BY <2>5, <3>1, RowReplaced
    <3>3. StillEditor.at = "Idle"
      BY DEF StillEditor
    <3> QED BY <2>5, <3>2, <3>3, EditorMoves
  <2>6. CASE WriteReactivated(e)
    <3> DEFINE row == [distEditor[e].row EXCEPT !.key = distribution[distEditor[e].id].key]
    <3>1. /\ distEditor[e].at = "Reactivate" /\ ToDistEditor(e, StillEditor)
          /\ distribution' = [distribution EXCEPT ![distEditor[e].id] = row]
      BY <2>6 DEF WriteReactivated, DistEditing
    <3>2. distEditor[e].row \in Distribution /\ ValidDistribution(distEditor[e].row)
      BY <1>4, <3>1 DEF DistributionsInv, DistEditorIn
    <3>3. distribution[distEditor[e].id] \in Distribution
      BY <1>1, <3>1 DEF DistributionsInv, DistEditorIn
    <3>4. row \in Distribution /\ ValidDistribution(row)
      BY <3>2, <3>3 DEF Distribution, ValidDistribution
    <3> HIDE DEF row
    <3> QED BY <2>5, <3>1, <3>4
  <2>7. CASE WriteDistribution(e)
    <3> DEFINE row == [Written(e) EXCEPT !.active = IF distEditor[e].keep
                         THEN distribution[distEditor[e].id].active ELSE @]
    <3>1. /\ distEditor[e].at = "Update" /\ ToDistEditor(e, StillEditor)
          /\ distribution' = [distribution EXCEPT ![distEditor[e].id] = row]
      BY <2>7 DEF WriteDistribution, DistEditing
    <3>2. Written(e) \in Distribution /\ ValidDistribution(Written(e))
      BY <1>4, <3>1 DEF DistributionsInv, DistEditorIn, Written
    <3>3. distribution[distEditor[e].id] \in Distribution
      BY <1>1, <3>1 DEF DistributionsInv, DistEditorIn
    <3>4. row \in Distribution /\ ValidDistribution(row)
      BY <3>2, <3>3 DEF Distribution, ValidDistribution
    <3> HIDE DEF row
    <3> QED BY <2>5, <3>1, <3>4
  <2>8. CASE EditorStops(e)
    <3>1. StillEditor.at = "Idle"
      BY DEF StillEditor
    <3> QED BY <1>3, <2>8, <3>1 DEF EditorStops
  <2> QED BY <1>5, <2>1, <2>2, <2>3, <2>4, <2>6, <2>7, <2>8
<1>6. ASSUME NEW c \in Creators,
             \/ FindCommission(c) \/ ReadDistributions(c) \/ AllocateShare(c) \/ CompletePlan(c)
             \/ StoreCommission(c) \/ CreatorFails(c) \/ RepeatRequest(c)
      PROVE  DistributionsInv'
  <2>1. UNCHANGED <<distribution, distEditor>>
    BY <1>6 DEF FindCommission, ReadDistributions, AllocateShare, CompletePlan, StoreCommission,
       CreatorFails, RepeatRequest, Creating
  <2> QED BY <1>2, <2>1
<1>7. CASE UNCHANGED planVars
  BY <1>2, <1>7 DEF planVars
<1> QED BY <1>5, <1>6, <1>7 DEF PlanNext

-----------------------------------------------------------------------------
(* The requests for the commission. *)

(* A step that moves one request, and changes no commission that is stored. *)
LEMMA CreatorMoves ==
  ASSUME CommissionInv, NEW c \in Creators, NEW state, ToCreator(c, state), UNCHANGED pool,
         commission # NoCommission => commission' = commission,
         commission' = NoCommission \/ commission'.stored = TRUE,
         state.at = "Answered" /\ pool > 0 =>
           commission' # NoCommission /\ state.plan = commission'.plan
  PROVE  CommissionInv'
<1>1. DOMAIN creator' = Creators
  BY DEF CommissionInv, ToCreator
<1>2. creator'[c] = state /\ \A o \in Creators \ {c} : creator'[o] = creator[o]
  BY DEF CommissionInv, ToCreator
<1>3. ASSUME NEW o \in Creators, creator'[o].at = "Answered", pool > 0
      PROVE  commission' # NoCommission /\ creator'[o].plan = commission'.plan
  <2>1. CASE o = c
    BY <1>2, <1>3, <2>1
  <2>2. CASE o # c
    BY <1>2, <1>3, <2>2 DEF CommissionInv, AnswersAgree
  <2> QED BY <2>1, <2>2
<1>4. AnswersAgree'
  BY <1>3 DEF AnswersAgree
<1> QED BY <1>1, <1>4 DEF CommissionInv

LEMMA CommissionStep ==
  ASSUME CommissionInv, pool \in Nat, [PlanNext]_planVars
  PROVE  CommissionInv'
<1>1. ASSUME UNCHANGED <<pool, commission, creator>> PROVE CommissionInv'
  BY <1>1 DEF CommissionInv, AnswersAgree
<1>2. ASSUME NEW c \in Creators, NEW state, ToCreator(c, state), UNCHANGED <<pool, commission>>,
             state.at # "Answered"
      PROVE  CommissionInv'
  <2>1. commission = NoCommission \/ commission.stored = TRUE
    BY DEF CommissionInv
  <2> QED BY <1>2, <2>1, CreatorMoves
<1>3. ASSUME NEW c \in Creators,
             \/ FindCommission(c) \/ ReadDistributions(c) \/ AllocateShare(c) \/ CompletePlan(c)
             \/ StoreCommission(c) \/ CreatorFails(c) \/ RepeatRequest(c)
      PROVE  CommissionInv'
  <2>1. UNCHANGED pool
    BY <1>3 DEF FindCommission, ReadDistributions, AllocateShare, CompletePlan, StoreCommission,
       CreatorFails, RepeatRequest, Creating
  <2>2. CASE FindCommission(c)
    <3>1. UNCHANGED commission
      BY <2>2 DEF FindCommission
    <3>2. CASE commission # NoCommission
      <4>1. ToCreator(c, [at |-> "Answered", plan |-> commission.plan])
        BY <2>2, <3>2 DEF FindCommission, AnswerCreator
      <4>2. commission'.stored = TRUE
        BY <3>1, <3>2 DEF CommissionInv
      <4> QED BY <2>1, <3>1, <3>2, <4>1, <4>2, CreatorMoves
    <3>3. CASE commission = NoCommission /\ pool = 0
      <4>1. ToCreator(c, [at |-> "Answered", plan |-> EmptyPlan])
        BY <2>2, <3>3 DEF FindCommission, AnswerCreator
      <4> QED BY <2>1, <3>1, <3>3, <4>1, CreatorMoves
    <3>4. CASE commission = NoCommission /\ pool # 0
      <4>1. ToCreator(c, [at |-> "Snapshot"])
        BY <2>2, <3>4 DEF FindCommission
      <4> QED BY <1>2, <2>1, <3>1, <4>1
    <3> QED BY <3>2, <3>3, <3>4
  <2>3. CASE ReadDistributions(c)
    <3>1. PICK todo : ToCreator(c, [at |-> "Share", plan |-> EmptyPlan, todo |-> todo])
      BY <2>3 DEF ReadDistributions
    <3> QED BY <1>2, <2>1, <2>3, <3>1 DEF ReadDistributions
  <2>4. CASE AllocateShare(c)
    <3>1. PICK d \in creator[c].todo :
            LET rest == [creator[c] EXCEPT !.todo = @ \ {d}] IN
              \/ ToCreator(c, rest)
              \/ ToCreator(c, [at |-> "Refused"])
              \/ ToCreator(c, [rest EXCEPT !.plan[d.role] = @ + Paise(d)])
      BY <2>4 DEF AllocateShare
    <3> DEFINE rest == [creator[c] EXCEPT !.todo = @ \ {d}]
               more == [rest EXCEPT !.plan[d.role] = @ + Paise(d)]
    <3>2. creator[c].at = "Share" /\ UNCHANGED commission
      BY <2>4 DEF AllocateShare, Creating
    <3>3. rest.at = creator[c].at /\ more.at = creator[c].at
      OBVIOUS
    <3>4. ToCreator(c, rest) \/ ToCreator(c, [at |-> "Refused"]) \/ ToCreator(c, more)
      BY <3>1
    <3> HIDE DEF rest, more
    <3> QED BY <1>2, <2>1, <3>2, <3>3, <3>4
  <2>5. CASE CompletePlan(c)
    <3>1. \/ ToCreator(c, [at |-> "Mismatch"])
          \/ \E plan : ToCreator(c, [at |-> "Write", plan |-> plan])
      BY <2>5 DEF CompletePlan
    <3> QED BY <1>2, <2>1, <2>5, <3>1 DEF CompletePlan
  <2>6. CASE StoreCommission(c)
    <3> DEFINE stored == [stored |-> TRUE, plan |-> creator[c].plan]
    <3>1. ToCreator(c, [at |-> "Answered", plan |-> StoredPlan(c)])
      BY <2>6 DEF StoreCommission, AnswerCreator
    <3>2. CASE commission = NoCommission
      <4>1. commission' = stored /\ StoredPlan(c) = creator[c].plan
        BY <2>6, <3>2 DEF StoreCommission, StoredPlan
      <4>2. commission'.stored = TRUE /\ commission'.plan = creator[c].plan
        BY <4>1
      <4>3. commission' # NoCommission
        BY <4>1, StoredIsSome
      <4> HIDE DEF stored
      <4> QED BY <2>1, <3>1, <3>2, <4>1, <4>2, <4>3, CreatorMoves
    <3>3. CASE commission # NoCommission
      <4>1. UNCHANGED commission /\ StoredPlan(c) = commission.plan
        BY <2>6, <3>3 DEF StoreCommission, StoredPlan
      <4>2. commission'.stored = TRUE
        BY <3>3, <4>1 DEF CommissionInv
      <4> QED BY <2>1, <3>1, <3>3, <4>1, <4>2, CreatorMoves
    <3> QED BY <3>2, <3>3
  <2>7. CASE CreatorFails(c)
    BY <1>2, <2>1, <2>7 DEF CreatorFails
  <2>8. CASE RepeatRequest(c)
    <3>1. NewCreator.at = "New"
      BY DEF NewCreator
    <3> QED BY <1>2, <2>1, <2>8, <3>1 DEF RepeatRequest
  <2> QED BY <1>3, <2>2, <2>3, <2>4, <2>5, <2>6, <2>7, <2>8
<1>4. ASSUME NEW e \in DistEditors,
             \/ CreateDistribution(e) \/ UpdateDistribution(e) \/ DeleteDistribution(e)
             \/ InsertDistribution(e) \/ WriteReactivated(e) \/ WriteDistribution(e) \/ EditorStops(e)
      PROVE  CommissionInv'
  <2>1. UNCHANGED <<pool, commission, creator>>
    BY <1>4 DEF CreateDistribution, UpdateDistribution, DeleteDistribution, InsertDistribution,
       WriteReactivated, WriteDistribution, EditorStops, DistEditing
  <2> QED BY <1>1, <2>1
<1>5. CASE UNCHANGED planVars
  BY <1>1, <1>5 DEF planVars
<1> QED BY <1>3, <1>4, <1>5 DEF PlanNext

CreationInv == CommissionInv /\ pool \in Nat

LEMMA PoolIsFixed ==
  ASSUME pool \in Nat, [PlanNext]_planVars
  PROVE  pool' \in Nat
<1>1. pool' = pool
  BY DEF PlanNext, planVars, CreateDistribution, UpdateDistribution, DeleteDistribution,
     InsertDistribution, WriteReactivated, WriteDistribution, EditorStops, DistEditing,
     FindCommission, ReadDistributions, AllocateShare, CompletePlan, StoreCommission,
     CreatorFails, RepeatRequest, Creating
<1> QED BY <1>1

LEMMA CommissionsInvariant == PlanSpec => []CreationInv
<1>1. PlanInit => CreationInv
  BY PlanInitially, PlanAssumption DEF PlanInit, CreationInv
<1>2. CreationInv /\ [PlanNext]_planVars => CreationInv'
  BY PoolIsFixed, CommissionStep DEF CreationInv
<1> QED BY <1>1, <1>2, PTL DEF PlanSpec

(* PercentWithinHundred: no edits together leave a percentage above 100,    *)
(* for any number of edits that overlap.                                    *)
THEOREM PercentagesStayWithin == PlanSpec => []PercentWithinHundred
<1>1. DistributionsInv => PercentWithinHundred
  BY DEF DistributionsInv
<1> QED BY <1>1, PlanInitially, DistributionsStep, PTL DEF PlanSpec

(* AnswersAgree: requests under one key are answered with the plan that is  *)
(* stored, whatever was edited between them and however many overlap.       *)
THEOREM OneDivisionPerKey == PlanSpec => []AnswersAgree
<1>1. CreationInv => AnswersAgree
  BY DEF CreationInv, CommissionInv
<1> QED BY <1>1, CommissionsInvariant, PTL

-----------------------------------------------------------------------------
(* The division of the income. *)

Shares == [RecipientRoles \cup {SourceUser} -> Nat]

(* What is allocated, as a function. *)
Total == [plan \in Shares |-> Allocated(plan)]

Divided(plan) == plan \in Shares /\ Total[plan] + plan[SourceUser] = pool

Sharing == [at: {"Share"}, plan: Shares, todo: SUBSET Distribution]

(* What a request has given away so far is within the income. *)
DivisionBy(c) ==
  /\ creator[c].at = "Share" => creator[c] \in Sharing /\ Total[creator[c].plan] <= pool
  /\ creator[c].at = "Write" => Divided(creator[c].plan)
  /\ creator[c].at # "Mismatch"

DivisionInv ==
  /\ DistributionsInv
  /\ DOMAIN creator = Creators /\ pool \in Nat
  /\ \A c \in Creators : DivisionBy(c)
  /\ commission # NoCommission => Divided(commission.plan)

LEMMA AllocatedIsNatural ==
  ASSUME NEW plan \in Shares
  PROVE  Allocated(plan) \in Nat
<1>1. 0 \in Nat /\ \A v, w \in Nat : v + w \in Nat
  OBVIOUS
<1>2. \A to \in RecipientRoles : plan[to] \in Nat
  BY DEF Shares
<1> QED BY <1>1, <1>2, AllocatedIn

LEMMA PaiseAreNatural ==
  ASSUME pool \in Nat, NEW d \in Distribution
  PROVE  Paise(d) \in Nat
<1>1. d.value \in Nat
  BY PlanAssumption DEF Distribution
<1>2. pool * d.value \in Nat
  BY <1>1
<1>3. (2 * pool * d.value + 100) \div 200 \in Nat
  <2> DEFINE n == pool * d.value
  <2>1. 2 * pool * d.value = 2 * n
    BY <1>1
  <2> HIDE DEF n
  <2>2. n \in Nat
    BY <1>2 DEF n
  <2>3. (2 * n + 100) \div 200 \in Nat
    BY <2>2
  <2> QED BY <2>1, <2>3
<1> QED BY <1>1, <1>3 DEF Paise

LEMMA DivisionInitially == PlanInit => DivisionInv
<1> SUFFICES ASSUME PlanInit PROVE DivisionInv
  OBVIOUS
<1>1. \A c \in Creators : creator[c].at = "New"
  BY DEF PlanInit, NewCreator
<1>2. commission = NoCommission /\ pool \in Nat /\ DOMAIN creator = Creators
  BY PlanAssumption DEF PlanInit
<1> QED BY <1>1, <1>2, PlanInitially DEF DivisionInv, DivisionBy

(* A step that moves one request, and stores at most what it has divided. *)
LEMMA DivisionMoves ==
  ASSUME DivisionInv, DistributionsInv', UNCHANGED pool,
         NEW c \in Creators, NEW state, ToCreator(c, state),
         state.at = "Share" => state \in Sharing /\ Total[state.plan] <= pool,
         state.at = "Write" => Divided(state.plan),
         state.at # "Mismatch",
         commission' # NoCommission => Divided(commission'.plan)
  PROVE  DivisionInv'
<1>1. DOMAIN creator' = Creators
  BY DEF DivisionInv, ToCreator
<1>2. creator'[c] = state /\ \A o \in Creators \ {c} : creator'[o] = creator[o]
  BY DEF DivisionInv, ToCreator
<1>3. \A plan : Divided(plan) => plan \in Shares /\ Total[plan] + plan[SourceUser] = pool'
  BY DEF Divided
<1>4. ASSUME NEW o \in Creators PROVE DivisionBy(o)'
  <2>1. CASE o = c
    BY <1>2, <1>3, <2>1 DEF DivisionBy, Divided
  <2>2. CASE o # c
    BY <1>2, <1>3, <2>2 DEF DivisionBy, DivisionInv, Divided
  <2> QED BY <2>1, <2>2
<1>5. commission' # NoCommission => Divided(commission.plan)'
  BY <1>3 DEF Divided
<1> QED BY <1>1, <1>4, <1>5 DEF DivisionInv

LEMMA DivisionStep ==
  ASSUME DivisionInv, [PlanNext]_planVars
  PROVE  DivisionInv'
<1>1. DistributionsInv' /\ pool \in Nat
  BY DistributionsStep DEF DivisionInv
<1>2. ASSUME UNCHANGED <<pool, commission, creator>> PROVE DivisionInv'
  BY <1>1, <1>2 DEF DivisionInv, DivisionBy, Divided
<1>3. \A plan \in Shares : Total[plan] = Allocated(plan) /\ Total[plan] \in Nat
  BY AllocatedIsNatural DEF Total
<1>4. ASSUME NEW c \in Creators, NEW state, ToCreator(c, state), UNCHANGED <<pool, commission>>,
             state.at = "Share" => state \in Sharing /\ Total[state.plan] <= pool,
             state.at = "Write" => Divided(state.plan),
             state.at # "Mismatch"
      PROVE  DivisionInv'
  <2>1. commission' # NoCommission => Divided(commission'.plan)
    BY <1>4 DEF DivisionInv
  <2> QED BY <1>1, <1>4, <2>1, DivisionMoves
<1>5. ASSUME NEW c \in Creators,
             \/ FindCommission(c) \/ ReadDistributions(c) \/ AllocateShare(c) \/ CompletePlan(c)
             \/ StoreCommission(c) \/ CreatorFails(c) \/ RepeatRequest(c)
      PROVE  DivisionInv'
  <2>1. UNCHANGED pool
    BY <1>5 DEF FindCommission, ReadDistributions, AllocateShare, CompletePlan, StoreCommission,
       CreatorFails, RepeatRequest, Creating
  <2>2. CASE FindCommission(c)
    <3>1. PICK state :
            /\ ToCreator(c, state) /\ UNCHANGED commission
            /\ state.at \in {"Answered", "Snapshot"}
      <4>1. \/ ToCreator(c, [at |-> "Answered", plan |-> commission.plan])
            \/ ToCreator(c, [at |-> "Answered", plan |-> EmptyPlan])
            \/ ToCreator(c, [at |-> "Snapshot"])
        BY <2>2 DEF FindCommission, AnswerCreator
      <4>2. UNCHANGED commission
        BY <2>2 DEF FindCommission
      <4> QED BY <4>1, <4>2
    <3> QED BY <1>4, <2>1, <3>1
  <2>3. CASE ReadDistributions(c)
    <3> DEFINE todo == {distribution[i] : i \in {j \in DOMAIN distribution : distribution[j].active}}
    <3>1. ToCreator(c, [at |-> "Share", plan |-> EmptyPlan, todo |-> todo]) /\ UNCHANGED commission
      BY <2>3 DEF ReadDistributions
    <3>2. todo \subseteq Distribution
      <4>1. distribution \in Seq(Distribution)
        BY DEF DivisionInv, DistributionsInv
      <4> QED BY <4>1
    <3>3. EmptyPlan \in Shares
      BY DEF EmptyPlan, Shares
    <3>4. Total[EmptyPlan] <= pool
      BY <1>1, <1>3, <3>3, NothingAllocated
    <3> DEFINE state == [at |-> "Share", plan |-> EmptyPlan, todo |-> todo]
    <3>5. state \in Sharing /\ state.plan = EmptyPlan /\ state.at = "Share"
      BY <3>2, <3>3 DEF Sharing
    <3> HIDE DEF state
    <3>6. ToCreator(c, state) /\ UNCHANGED commission
      BY <3>1 DEF state
    <3> QED BY <1>4, <2>1, <3>4, <3>5, <3>6
  <2>4. CASE AllocateShare(c)
    <3>1. creator[c].at = "Share" /\ UNCHANGED commission
      BY <2>4 DEF AllocateShare, Creating
    <3>2. PICK d \in creator[c].todo :
            LET rest == [creator[c] EXCEPT !.todo = @ \ {d}] IN
              \/ ToCreator(c, rest)
              \/ ToCreator(c, [at |-> "Refused"])
              \/ /\ ~Overflows(creator[c].plan, d)
                 /\ ToCreator(c, [rest EXCEPT !.plan[d.role] = @ + Paise(d)])
      BY <2>4 DEF AllocateShare
    <3> DEFINE rest == [creator[c] EXCEPT !.todo = @ \ {d}]
               plan == creator[c].plan
               larger == [plan EXCEPT ![d.role] = @ + Paise(d)]
               more == [rest EXCEPT !.plan[d.role] = @ + Paise(d)]
    <3>3. creator[c] \in Sharing /\ plan \in Shares /\ Total[plan] <= pool
      BY <3>1 DEF DivisionInv, DivisionBy, Sharing
    <3>4. d \in Distribution /\ d.role \in RecipientRoles /\ Paise(d) \in Nat
      BY <1>1, <3>3, PaiseAreNatural DEF Distribution, Sharing
    <3>5. rest \in Sharing /\ rest.plan = plan /\ rest.at = "Share"
      BY <3>3 DEF Sharing
    <3>6. larger \in Shares
      <4>1. plan[d.role] + Paise(d) \in Nat
        BY <3>3, <3>4 DEF Shares
      <4> QED BY <3>3, <4>1 DEF Shares
    <3>7. more \in Sharing /\ more.plan = larger /\ more.at = "Share"
      BY <3>5, <3>6 DEF Sharing
    <3>8. Total[larger] = Total[plan] + Paise(d)
      <4>1. Allocated(larger) = Allocated(plan) + Paise(d)
        BY <3>3, <3>4, ShareAdded DEF Shares
      <4> HIDE DEF larger, plan
      <4> QED BY <1>3, <3>3, <3>6, <4>1
    <3>9. ~Overflows(plan, d) => Total[larger] <= pool
      <4>1. Overflows(plan, d) <=> Total[plan] + Paise(d) > pool
        BY <1>3, <3>3 DEF Overflows
      <4> HIDE DEF larger, plan
      <4> QED BY <1>1, <1>3, <3>3, <3>4, <3>8, <4>1
    <3>10. \/ ToCreator(c, rest)
           \/ ToCreator(c, [at |-> "Refused"])
           \/ ~Overflows(plan, d) /\ ToCreator(c, more)
      BY <3>2
    <3> HIDE DEF rest, more, larger, plan
    <3>11. CASE ToCreator(c, rest)
      BY <1>4, <2>1, <3>1, <3>3, <3>5, <3>11
    <3>12. CASE ToCreator(c, [at |-> "Refused"])
      BY <1>4, <2>1, <3>1, <3>12
    <3>13. CASE ~Overflows(plan, d) /\ ToCreator(c, more)
      BY <1>4, <2>1, <3>1, <3>7, <3>9, <3>13
    <3> QED BY <3>10, <3>11, <3>12, <3>13
  <2>5. CASE CompletePlan(c)
    <3> DEFINE before == creator[c].plan
               plan == [before EXCEPT ![SourceUser] = Remainder(before)]
    <3>1. creator[c].at = "Share" /\ UNCHANGED commission
      BY <2>5 DEF CompletePlan, Creating
    <3>2. before \in Shares /\ Total[before] \in Nat /\ Total[before] <= pool
      BY <1>3, <3>1 DEF DivisionInv, DivisionBy, Sharing
    <3>3. Remainder(before) = pool - Total[before]
      <4> HIDE DEF before
      <4> QED BY <1>1, <1>3, <3>2 DEF Remainder
    <3>4. Remainder(before) \in Nat /\ Total[before] + Remainder(before) = pool
      BY <1>1, <3>2, <3>3
    <3>5. plan \in Shares /\ plan[SourceUser] = Remainder(before)
      <4> HIDE DEF before
      <4> QED BY <3>2, <3>4 DEF Shares
    <3>6. Allocated(plan) = Allocated(before)
      <4> HIDE DEF before
      <4> QED BY <3>2, <3>4, SourceIsApart DEF Shares
    <3>7. IF Allocated(plan) + plan[SourceUser] # pool THEN ToCreator(c, [at |-> "Mismatch"])
          ELSE ToCreator(c, [at |-> "Write", plan |-> plan])
      BY <2>5 DEF CompletePlan
    <3> HIDE DEF plan, before
    <3>8. Divided(plan)
      BY <1>3, <3>2, <3>4, <3>5, <3>6 DEF Divided
    <3>9. ToCreator(c, [at |-> "Write", plan |-> plan])
      BY <1>3, <3>2, <3>4, <3>5, <3>6, <3>7
    <3> QED BY <1>4, <2>1, <3>1, <3>8, <3>9
  <2>6. CASE StoreCommission(c)
    <3>1. PICK plan : ToCreator(c, [at |-> "Answered", plan |-> plan])
      BY <2>6 DEF StoreCommission, AnswerCreator
    <3>2. Divided(creator[c].plan)
      BY <2>6 DEF StoreCommission, Creating, DivisionInv, DivisionBy
    <3>3. \/ commission' = [stored |-> TRUE, plan |-> creator[c].plan]
          \/ commission' = commission
      BY <2>6 DEF StoreCommission
    <3>4. commission' # NoCommission => Divided(commission'.plan)
      BY <3>2, <3>3 DEF DivisionInv
    <3> QED BY <1>1, <2>1, <3>1, <3>4, DivisionMoves
  <2>7. CASE CreatorFails(c)
    BY <1>4, <2>1, <2>7 DEF CreatorFails
  <2>8. CASE RepeatRequest(c)
    <3>1. NewCreator.at = "New"
      BY DEF NewCreator
    <3> QED BY <1>4, <2>1, <2>8, <3>1 DEF RepeatRequest
  <2> QED BY <1>5, <2>2, <2>3, <2>4, <2>5, <2>6, <2>7, <2>8
<1>6. ASSUME NEW e \in DistEditors,
             \/ CreateDistribution(e) \/ UpdateDistribution(e) \/ DeleteDistribution(e)
             \/ InsertDistribution(e) \/ WriteReactivated(e) \/ WriteDistribution(e) \/ EditorStops(e)
      PROVE  DivisionInv'
  <2>1. UNCHANGED <<pool, commission, creator>>
    BY <1>6 DEF CreateDistribution, UpdateDistribution, DeleteDistribution, InsertDistribution,
       WriteReactivated, WriteDistribution, EditorStops, DistEditing
  <2> QED BY <1>2, <2>1
<1>7. CASE UNCHANGED planVars
  BY <1>2, <1>7 DEF planVars
<1> QED BY <1>5, <1>6, <1>7 DEF PlanNext

LEMMA DivisionInvariant == PlanSpec => []DivisionInv
  BY DivisionInitially, DivisionStep, PTL DEF PlanSpec

PlanTypeInv ==
  /\ DivisionInv
  /\ Len(distribution) <= MaxDistributions /\ pool \in Pools
  /\ \A c \in Creators : creator[c].at \in
       {"New", "Snapshot", "Share", "Write", "Answered", "Refused", "Mismatch"}

LEMMA PlanTypeStep ==
  ASSUME PlanTypeInv, [PlanNext]_planVars
  PROVE  PlanTypeInv'
<1> DEFINE Places == {"New", "Snapshot", "Share", "Write", "Answered", "Refused", "Mismatch"}
<1>1. DivisionInv /\ DivisionInv'
  BY DivisionStep DEF PlanTypeInv
<1>2. DOMAIN creator = Creators /\ distribution \in Seq(Distribution) /\ MaxDistributions \in Nat
  BY <1>1, PlanAssumption DEF DivisionInv, DistributionsInv
<1>3. ASSUME UNCHANGED planVars PROVE PlanTypeInv'
  BY <1>1, <1>3 DEF PlanTypeInv, planVars
<1>4. ASSUME NEW e \in DistEditors,
             \/ CreateDistribution(e) \/ UpdateDistribution(e) \/ DeleteDistribution(e)
             \/ InsertDistribution(e) \/ WriteReactivated(e) \/ WriteDistribution(e) \/ EditorStops(e)
      PROVE  PlanTypeInv'
  <2>1. UNCHANGED <<pool, creator>>
    BY <1>4 DEF CreateDistribution, UpdateDistribution, DeleteDistribution, InsertDistribution,
       WriteReactivated, WriteDistribution, EditorStops, DistEditing
  <2>2. CASE InsertDistribution(e)
    <3>1. Len(distribution) < MaxDistributions
          /\ distribution' = Append(distribution, distEditor[e].row)
      BY <2>2 DEF InsertDistribution
    <3>2. Len(distribution') = Len(distribution) + 1 /\ Len(distribution) \in Nat
      BY <1>2, <3>1
    <3> QED BY <1>1, <1>2, <2>1, <3>1, <3>2 DEF PlanTypeInv
  <2>3. ASSUME NEW row, NEW i, distribution' = [distribution EXCEPT ![i] = row]
        PROVE  PlanTypeInv'
    <3>1. distribution' \in Seq(Distribution) /\ DOMAIN distribution' = DOMAIN distribution
      BY <1>1, <1>2, <2>3 DEF DivisionInv, DistributionsInv
    <3>2. Len(distribution') = Len(distribution)
      BY <1>2, <3>1
    <3> QED BY <1>1, <2>1, <3>2 DEF PlanTypeInv
  <2>4. CASE CreateDistribution(e) \/ UpdateDistribution(e) \/ EditorStops(e)
    BY <1>1, <2>1, <2>4 DEF PlanTypeInv, CreateDistribution, UpdateDistribution, EditorStops
  <2>5. CASE DeleteDistribution(e)
    <3>1. PICK i \in DOMAIN distribution :
            distribution' = [distribution EXCEPT ![i].active = FALSE]
      BY <2>5 DEF DeleteDistribution
    <3>2. distribution' = [distribution EXCEPT ![i] = [distribution[i] EXCEPT !.active = FALSE]]
      BY <3>1
    <3> QED BY <2>3, <3>2
  <2>6. CASE WriteReactivated(e)
    BY <2>3, <2>6 DEF WriteReactivated
  <2>7. CASE WriteDistribution(e)
    BY <2>3, <2>7 DEF WriteDistribution
  <2> QED BY <1>4, <2>2, <2>4, <2>5, <2>6, <2>7
<1>5. ASSUME NEW c \in Creators, NEW state, ToCreator(c, state), UNCHANGED <<distribution, pool>>,
             state.at \in Places
      PROVE  PlanTypeInv'
  <2>1. creator'[c] = state /\ \A o \in Creators \ {c} : creator'[o] = creator[o]
    BY <1>2, <1>5 DEF ToCreator
  <2> QED BY <1>1, <1>5, <2>1 DEF PlanTypeInv
<1>6. ASSUME NEW c \in Creators,
             \/ FindCommission(c) \/ ReadDistributions(c) \/ AllocateShare(c) \/ CompletePlan(c)
             \/ StoreCommission(c) \/ CreatorFails(c) \/ RepeatRequest(c)
      PROVE  PlanTypeInv'
  <2>1. UNCHANGED <<distribution, pool>>
    BY <1>6 DEF FindCommission, ReadDistributions, AllocateShare, CompletePlan, StoreCommission,
       CreatorFails, RepeatRequest, Creating
  <2>2. CASE AllocateShare(c)
    <3>1. creator[c].at = "Share"
      BY <2>2 DEF AllocateShare, Creating
    <3>2. PICK d \in creator[c].todo :
            LET rest == [creator[c] EXCEPT !.todo = @ \ {d}] IN
              \/ ToCreator(c, rest)
              \/ ToCreator(c, [at |-> "Refused"])
              \/ ToCreator(c, [rest EXCEPT !.plan[d.role] = @ + Paise(d)])
      BY <2>2 DEF AllocateShare
    <3> DEFINE rest == [creator[c] EXCEPT !.todo = @ \ {d}]
               more == [rest EXCEPT !.plan[d.role] = @ + Paise(d)]
    <3>3. creator[c] \in Sharing
      BY <1>1, <3>1 DEF DivisionInv, DivisionBy
    <3>4. rest.at = "Share" /\ more.at = "Share"
      BY <3>3 DEF Sharing
    <3>5. ToCreator(c, rest) \/ ToCreator(c, [at |-> "Refused"]) \/ ToCreator(c, more)
      BY <3>2
    <3> HIDE DEF rest, more
    <3> QED BY <1>5, <2>1, <3>4, <3>5
  <2>3. CASE FindCommission(c)
    <3>1. \/ ToCreator(c, [at |-> "Answered", plan |-> commission.plan])
          \/ ToCreator(c, [at |-> "Answered", plan |-> EmptyPlan])
          \/ ToCreator(c, [at |-> "Snapshot"])
      BY <2>3 DEF FindCommission, AnswerCreator
    <3> QED BY <1>5, <2>1, <3>1
  <2>4. CASE ReadDistributions(c)
    <3>1. PICK todo : ToCreator(c, [at |-> "Share", plan |-> EmptyPlan, todo |-> todo])
      BY <2>4 DEF ReadDistributions
    <3> QED BY <1>5, <2>1, <3>1
  <2>5. CASE CompletePlan(c)
    <3>1. \/ ToCreator(c, [at |-> "Mismatch"])
          \/ \E plan : ToCreator(c, [at |-> "Write", plan |-> plan])
      BY <2>5 DEF CompletePlan
    <3> QED BY <1>5, <2>1, <3>1
  <2>6. CASE StoreCommission(c)
    <3>1. ToCreator(c, [at |-> "Answered", plan |-> StoredPlan(c)])
      BY <2>6 DEF StoreCommission, AnswerCreator
    <3> QED BY <1>5, <2>1, <3>1
  <2>7. CASE CreatorFails(c)
    BY <1>5, <2>1, <2>7 DEF CreatorFails
  <2>8. CASE RepeatRequest(c)
    <3>1. NewCreator.at = "New"
      BY DEF NewCreator
    <3> QED BY <1>5, <2>1, <2>8, <3>1 DEF RepeatRequest
  <2> QED BY <1>6, <2>2, <2>3, <2>4, <2>5, <2>6, <2>7, <2>8
<1>7. QED
  BY <1>3, <1>4, <1>6 DEF PlanNext

(* PlanTypeOK: distributions, commission and requests keep their types.     *)
THEOREM PlanTypeCorrect == PlanSpec => []PlanTypeOK
<1>1. PlanInit => PlanTypeInv
  <2> SUFFICES ASSUME PlanInit PROVE PlanTypeInv
    OBVIOUS
  <2>1. Len(distribution) = 0 /\ pool \in Pools /\ MaxDistributions \in Nat
    BY PlanAssumption DEF PlanInit
  <2>2. \A c \in Creators : creator[c].at = "New"
    BY DEF PlanInit, NewCreator
  <2> QED BY <2>1, <2>2, DivisionInitially DEF PlanTypeInv
<1>2. PlanTypeInv => PlanTypeOK
  <2>1. Shares \subseteq Plan
    BY DEF Shares, Plan
  <2> QED BY <2>1 DEF PlanTypeInv, DivisionInv, DistributionsInv, Divided, PlanTypeOK
<1> QED BY <1>1, <1>2, PlanTypeStep, PTL DEF PlanSpec

(* PlanAddsUp: the conservation of money that createProviderCommission      *)
(* checks before it stores a plan never fails, for any roles, percentages,  *)
(* fixed shares and rounding.                                               *)
THEOREM PlansAddUp == PlanSpec => []PlanAddsUp
<1>1. DivisionInv => PlanAddsUp
  BY DEF DivisionInv, DivisionBy, PlanAddsUp
<1> QED BY <1>1, DivisionInvariant, PTL

(* IncomeIsDivided: a stored commission gives away exactly the income.      *)
THEOREM IncomeGivenInFull == PlanSpec => []IncomeIsDivided
<1>1. \A plan \in Shares : Total[plan] = Allocated(plan)
  BY DEF Total
<1>2. DivisionInv => IncomeIsDivided
  BY <1>1 DEF DivisionInv, Divided, IncomeIsDivided, Shares
<1> QED BY <1>2, DivisionInvariant, PTL
=============================================================================
