------------------------- MODULE CommissionHierarchy -------------------------
(* The commission hierarchy of the commission-service: who gets a share of *)
(* whose commission, per service or for all services.  The administrators' *)
(* create, update and delete each check what they read, one query after    *)
(* the other, and write at the end; only unique keys hold them apart.      *)
EXTENDS Naturals, Sequences

CONSTANTS
  HierUsers,       \* users that may be parents and children
  HierServices,    \* service types
  Global,          \* the scope of a relationship without a service type
  NoScope,         \* the activeScopeKey of an inactive relationship
  HierEditors,     \* requests that change the hierarchy, one after the other
  HierReaders,     \* resolutions of a hierarchy for a commission
  MAX_DEPTH,       \* how many parents are followed
  MaxHierarchies   \* bound on relationships

ASSUME HierarchyAssumption ==
  /\ Global \notin HierServices /\ NoScope \notin HierServices \cup {Global}
  /\ MAX_DEPTH \in Nat \ {0} /\ MaxHierarchies \in Nat \ {0}

HierScopes == HierServices \cup {Global}

VARIABLES
  hierarchy,    \* the CommissionHierarchy rows, in the order they were created
  hierEditor,   \* what each request does next
  hierReader,   \* what each resolution has read
  hierOverlap   \* has a request started while another was under way?

hierVars == <<hierarchy, hierEditor, hierReader, hierOverlap>>

Hierarchy ==
  [parent: HierUsers, child: HierUsers, scope: HierScopes, isActive: BOOLEAN,
   activeScope: HierScopes \cup {NoScope}]

IdleEditor == [at |-> "Idle"]
IdleReader == [at |-> "Idle"]

HierEdit ==
  [id: Nat, parent: HierUsers, child: HierUsers, scope: HierScopes, active: BOOLEAN]

HierTypeOK ==
  /\ hierarchy \in Seq(Hierarchy)
  /\ hierEditor \in [HierEditors ->
       {IdleEditor} \cup [at: {"Deactivate"}, id: Nat] \cup
       [at: {"Relation", "Active", "Write"}, edit: HierEdit] \cup
       [at: {"Walk", "Fallback"}, edit: HierEdit, current: HierUsers,
        visited: SUBSET HierUsers, depth: Nat]]
  /\ hierReader \in [HierReaders ->
       {IdleReader} \cup
       [at: {"Walk", "Fallback", "Resolved", "Refused"}, service: HierServices,
        chain: Seq(HierUsers)]]
  /\ hierOverlap \in BOOLEAN

HierInit ==
  /\ hierarchy = << >>
  /\ hierEditor = [e \in HierEditors |-> IdleEditor]
  /\ hierReader = [r \in HierReaders |-> IdleReader]
  /\ hierOverlap = FALSE

-----------------------------------------------------------------------------
(* resolveParentRecord: the relationship of the service first, then the    *)
(* one for all services.                                                   *)
Parents(child, scope) ==
  {hierarchy[i].parent : i \in {j \in DOMAIN hierarchy :
     hierarchy[j].child = child /\ hierarchy[j].scope = scope /\ hierarchy[j].isActive}}

(* relationshipKey and activeScopeKey of the other rows. *)
SameRelation(id, edit) ==
  \E i \in DOMAIN hierarchy \ {id} :
    /\ hierarchy[i].parent = edit.parent /\ hierarchy[i].child = edit.child
    /\ hierarchy[i].scope = edit.scope

SameActiveScope(id, edit) ==
  \E i \in DOMAIN hierarchy \ {id} :
    hierarchy[i].child = edit.child /\ hierarchy[i].activeScope = edit.scope

-----------------------------------------------------------------------------
(* createHierarchy, updateHierarchy and deleteHierarchy. *)

HierEditing(e, at) ==
  hierEditor[e].at = at /\ UNCHANGED hierReader

ToEditor(e, state) == hierEditor' = [hierEditor EXCEPT ![e] = state]

HierStart(e, state) ==
  /\ ToEditor(e, state)
  /\ hierOverlap' = (hierOverlap \/ \E f \in HierEditors : hierEditor[f].at # "Idle")

CreateHierarchy(e) ==
  /\ HierEditing(e, "Idle")
  /\ Len(hierarchy) < MaxHierarchies
  /\ \E parent, child \in HierUsers, scope \in HierScopes, active \in BOOLEAN :
       /\ parent # child
       /\ HierStart(e, [at |-> "Relation", edit |-> [id |-> 0, parent |-> parent,
                        child |-> child, scope |-> scope, active |-> active]])
  /\ UNCHANGED hierarchy

(* What the request leaves out is taken from the row that was read. *)
UpdateHierarchy(e) ==
  /\ HierEditing(e, "Idle")
  /\ \E id \in DOMAIN hierarchy, scope \in HierScopes, active \in BOOLEAN :
       HierStart(e, [at |-> "Relation", edit |-> [id |-> id, parent |-> hierarchy[id].parent,
                     child |-> hierarchy[id].child, scope |-> scope, active |-> active]])
  /\ UNCHANGED hierarchy

DeleteHierarchy(e) ==
  /\ HierEditing(e, "Idle")
  /\ \E id \in DOMAIN hierarchy :
       hierarchy[id].isActive /\ HierStart(e, [at |-> "Deactivate", id |-> id])
  /\ UNCHANGED hierarchy

Deactivate(e) ==
  /\ HierEditing(e, "Deactivate")
  /\ hierarchy' = [hierarchy EXCEPT ![hierEditor[e].id].isActive = FALSE,
                                    ![hierEditor[e].id].activeScope = NoScope]
  /\ ToEditor(e, IdleEditor)
  /\ UNCHANGED hierOverlap

CheckRelation(e) ==
  LET edit == hierEditor[e].edit IN
  /\ HierEditing(e, "Relation")
  /\ ToEditor(e, CASE SameRelation(edit.id, edit) -> IdleEditor
                   [] ~SameRelation(edit.id, edit) /\ edit.active ->
                        [at |-> "Active", edit |-> edit]
                   [] OTHER -> [at |-> "Write", edit |-> edit])
  /\ UNCHANGED <<hierarchy, hierOverlap>>

CheckActive(e) ==
  LET edit == hierEditor[e].edit IN
  /\ HierEditing(e, "Active")
  /\ ToEditor(e, IF SameActiveScope(edit.id, edit) THEN IdleEditor
                 ELSE [at |-> "Walk", edit |-> edit, current |-> edit.parent,
                       visited |-> {edit.child}, depth |-> 0])
  /\ UNCHANGED <<hierarchy, hierOverlap>>

(* assertNoCircularHierarchy: on to a parent that was read. *)
HierAdvance(e, parent) ==
  ToEditor(e, IF hierEditor[e].depth + 1 = MAX_DEPTH THEN IdleEditor
              ELSE [hierEditor[e] EXCEPT !.at = "Walk", !.current = parent,
                      !.visited = @ \cup {hierEditor[e].current}, !.depth = @ + 1])

(* Mutant: only the direct parent is compared with the child. *)
MutSeen(e) == hierEditor[e].depth = 0 /\ hierEditor[e].current \in hierEditor[e].visited

Seen(e) == hierEditor[e].current \in hierEditor[e].visited

CheckCycle(e) ==
  LET s == hierEditor[e]
      specific == IF s.edit.scope = Global THEN {} ELSE Parents(s.current, s.edit.scope) IN
  /\ HierEditing(e, "Walk")
  /\ \/ Seen(e) /\ ToEditor(e, IdleEditor)
     \/ ~Seen(e) /\ \E parent \in specific : HierAdvance(e, parent)
     \/ ~Seen(e) /\ specific = {} /\ ToEditor(e, [s EXCEPT !.at = "Fallback"])
  /\ UNCHANGED <<hierarchy, hierOverlap>>

CheckCycleFallback(e) ==
  LET parents == Parents(hierEditor[e].current, Global) IN
  /\ HierEditing(e, "Fallback")
  /\ \/ \E parent \in parents : HierAdvance(e, parent)
     \/ parents = {} /\ ToEditor(e, [at |-> "Write", edit |-> hierEditor[e].edit])
  /\ UNCHANGED <<hierarchy, hierOverlap>>

(* Mutant: activeScopeKey is not unique. *)
MutViolatesKey(edit) == SameRelation(edit.id, edit)

ViolatesKey(edit) ==
  SameRelation(edit.id, edit) \/ (edit.active /\ SameActiveScope(edit.id, edit))

WriteHierarchy(e) ==
  LET edit == hierEditor[e].edit
      row == [parent |-> edit.parent, child |-> edit.child, scope |-> edit.scope,
              isActive |-> edit.active,
              activeScope |-> IF edit.active THEN edit.scope ELSE NoScope] IN
  /\ HierEditing(e, "Write")
  /\ hierarchy' = CASE ViolatesKey(edit) -> hierarchy
                    [] ~ViolatesKey(edit) /\ edit.id = 0 -> Append(hierarchy, row)
                    [] OTHER -> [hierarchy EXCEPT ![edit.id] = row]
  /\ ToEditor(e, IdleEditor)
  /\ UNCHANGED hierOverlap

-----------------------------------------------------------------------------
(* resolveHierarchyForUser. *)

HierReading(r, at) ==
  hierReader[r].at = at /\ UNCHANGED <<hierarchy, hierEditor, hierOverlap>>

ResolveHierarchy(r) ==
  /\ HierReading(r, "Idle")
  /\ \E user \in HierUsers, service \in HierServices :
       hierReader' = [hierReader EXCEPT ![r] =
                        [at |-> "Walk", service |-> service, chain |-> <<user>>]]

LastOf(s) == s[Len(s)]

Met(chain, parent) == \E i \in DOMAIN chain : chain[i] = parent

Follow(r, parent) ==
  LET chain == hierReader[r].chain IN
  hierReader' = [hierReader EXCEPT
    ![r].at = IF Met(chain, parent) \/ Len(chain) = MAX_DEPTH THEN "Refused" ELSE "Walk",
    ![r].chain = IF Met(chain, parent) THEN @ ELSE Append(@, parent)]

FollowService(r) ==
  LET parents == Parents(LastOf(hierReader[r].chain), hierReader[r].service) IN
  /\ HierReading(r, "Walk")
  /\ \/ \E parent \in parents : Follow(r, parent)
     \/ parents = {} /\ hierReader' = [hierReader EXCEPT ![r].at = "Fallback"]

FollowGlobal(r) ==
  LET parents == Parents(LastOf(hierReader[r].chain), Global) IN
  /\ HierReading(r, "Fallback")
  /\ \/ \E parent \in parents : Follow(r, parent)
     \/ parents = {} /\ hierReader' = [hierReader EXCEPT ![r].at = "Resolved"]

Answer(r) ==
  /\ \E at \in {"Resolved", "Refused"} : HierReading(r, at)
  /\ hierReader' = [hierReader EXCEPT ![r] = IdleReader]

HierEditorStep(e) ==
  \/ CreateHierarchy(e) \/ UpdateHierarchy(e) \/ DeleteHierarchy(e) \/ Deactivate(e)
  \/ CheckRelation(e) \/ CheckActive(e) \/ CheckCycle(e) \/ CheckCycleFallback(e)
  \/ WriteHierarchy(e)

HierReaderStep(r) ==
  ResolveHierarchy(r) \/ FollowService(r) \/ FollowGlobal(r) \/ Answer(r)

HierNext ==
  (\E e \in HierEditors : HierEditorStep(e)) \/ (\E r \in HierReaders : HierReaderStep(r))

HierSpec == HierInit /\ [][HierNext]_hierVars

-----------------------------------------------------------------------------
(* A child has at most one active parent in a scope, whatever requests     *)
(* create, reactivate, move and delete relationships at the same time.     *)
OneActiveParent ==
  \A i, j \in DOMAIN hierarchy :
    /\ hierarchy[i].isActive /\ hierarchy[j].isActive
    /\ hierarchy[i].child = hierarchy[j].child /\ hierarchy[i].scope = hierarchy[j].scope
    => i = j

(* A deleted relationship can be replaced: an inactive row never holds the *)
(* key of its scope, an active one always does.                            *)
ScopeKeyFollowsActivity ==
  \A i \in DOMAIN hierarchy :
    hierarchy[i].activeScope = IF hierarchy[i].isActive THEN hierarchy[i].scope ELSE NoScope

(* A set of users each of which has a parent in the set. *)
Circular(ParentsOf(_)) ==
  \E S \in (SUBSET HierUsers) \ {{}} : \A u \in S : ParentsOf(u) \cap S # {}

(* As long as no two requests overlap, the relationships of one scope      *)
(* never form a circle, also after moves between scopes and reactivations. *)
NoCircleInScope ==
  ~hierOverlap => \A scope \in HierScopes :
    LET InScope(u) == Parents(u, scope) IN ~Circular(InScope)

(* No user gets two shares of one commission: a resolution names each user *)
(* once, also in a hierarchy that is circular or changes under it.         *)
RecipientsDistinct ==
  \A r \in HierReaders : hierReader[r].at # "Idle" =>
    \A i, j \in DOMAIN hierReader[r].chain :
      hierReader[r].chain[i] = hierReader[r].chain[j] => i = j

(* The comment "CYCLE PROTECTION": a user is never above himself, in the   *)
(* hierarchy a commission is distributed along, as long as no two requests *)
(* overlap.                                                                *)
NoCircularHierarchy ==
  ~hierOverlap => \A service \in HierServices :
    LET Resolved(u) ==
          IF Parents(u, service) # {} THEN Parents(u, service) ELSE Parents(u, Global)
    IN ~Circular(Resolved)
=============================================================================
