--------------------------- MODULE CommissionPlan ---------------------------
(* The distributions of one commission rule, as administrators edit them,  *)
(* and createProviderCommission, which divides the income of one provider  *)
(* transaction by them and freezes the result under one idempotency key.   *)
(* Amounts are in paise.  Every query is a step.                           *)
EXTENDS Integers, Sequences, FiniteSetsExt

CONSTANTS
  Creators,          \* requests to create the commission, under one key
  DistEditors,       \* edits of distributions, one after the other
  RecipientRoles,    \* the roles a distribution can name
  Values,            \* distribution values
  Pools,             \* the incomes of the provider
  MaxDistributions,  \* bound on distributions
  SourceUser         \* the merchant, who gets the remainder

ASSUME PlanAssumption ==
  /\ Values \subseteq Nat /\ Pools \subseteq Nat /\ MaxDistributions \in Nat
  /\ SourceUser \notin RecipientRoles /\ IsFiniteSet(RecipientRoles)

VARIABLES
  distribution,   \* the CommissionDistribution rows, in the order they were created
  distEditor,     \* what each edit does next
  pool,           \* the income of the provider
  commission,     \* the plan that is stored under the key
  creator         \* what each request does next

planVars == <<distribution, distEditor, pool, commission, creator>>

(* "key" is the role the unique distribution key was made of. *)
Distribution ==
  [key: RecipientRoles, role: RecipientRoles, kind: {"FIXED", "PERCENTAGE"}, value: Values, active: BOOLEAN]

Plan == [RecipientRoles \cup {SourceUser} -> Int]
EmptyPlan == [to \in RecipientRoles \cup {SourceUser} |-> 0]
NoCommission == [stored |-> FALSE]
StillEditor == [at |-> "Idle"]
NewCreator == [at |-> "New"]

(* validateDistribution. *)
ValidDistribution(d) == d.kind = "PERCENTAGE" => d.value <= 100

PlanTypeOK ==
  /\ distribution \in Seq(Distribution) /\ Len(distribution) <= MaxDistributions
  /\ pool \in Pools
  /\ commission = NoCommission \/ commission.plan \in Plan
  /\ \A c \in Creators : creator[c].at \in
       {"New", "Snapshot", "Share", "Write", "Answered", "Refused", "Mismatch"}

PlanInit ==
  /\ distribution = << >> /\ commission = NoCommission /\ pool \in Pools
  /\ distEditor = [e \in DistEditors |-> StillEditor]
  /\ creator = [c \in Creators |-> NewCreator]

-----------------------------------------------------------------------------
(* createDistribution, updateDistribution, deleteDistribution.  What an    *)
(* edit writes is put together from its request and the row it has read.   *)
(* A check that refuses is one of the ways an edit stops.                  *)

DistEditing(e, at) ==
  distEditor[e].at = at /\ UNCHANGED <<pool, commission, creator>>

Requested == {d \in Distribution : ValidDistribution(d) /\ d.key = d.role}
KeyIsFree(key, others) == \A i \in others : distribution[i].key # key

ToDistEditor(e, state) == distEditor' = [distEditor EXCEPT ![e] = state]

(* The row with the key of the role is read: one that is inactive will be  *)
(* reactivated, whatever it becomes until then.                            *)
CreateDistribution(e) ==
  /\ DistEditing(e, "Idle")
  /\ \E d \in Requested :
       \/ /\ KeyIsFree(d.key, DOMAIN distribution)
          /\ ToDistEditor(e, [at |-> "Create", row |-> d])
       \/ \E i \in DOMAIN distribution :
            /\ distribution[i].key = d.key /\ ~distribution[i].active
            /\ ToDistEditor(e, [at |-> "Reactivate", id |-> i, row |-> d])
  /\ UNCHANGED distribution

(* "keep": the request leaves isActive alone. *)
UpdateDistribution(e) ==
  /\ DistEditing(e, "Idle")
  /\ \E i \in DOMAIN distribution, d \in Requested, keep \in BOOLEAN :
       ToDistEditor(e, [at |-> "Update", id |-> i, row |-> d, keep |-> keep])
  /\ UNCHANGED distribution

InsertDistribution(e) ==
  /\ DistEditing(e, "Create") /\ Len(distribution) < MaxDistributions
  /\ KeyIsFree(distEditor[e].row.key, DOMAIN distribution)
  /\ distribution' = Append(distribution, distEditor[e].row)
  /\ ToDistEditor(e, StillEditor)

(* A reactivation writes the role, but not the key. *)
WriteReactivated(e) ==
  /\ DistEditing(e, "Reactivate")
  /\ distribution' = [distribution EXCEPT ![distEditor[e].id] =
       [distEditor[e].row EXCEPT !.key = distribution[distEditor[e].id].key]]
  /\ ToDistEditor(e, StillEditor)

Written(e) == distEditor[e].row

WriteDistribution(e) ==
  /\ DistEditing(e, "Update")
  /\ KeyIsFree(distEditor[e].row.key, DOMAIN distribution \ {distEditor[e].id})
  /\ distribution' = [distribution EXCEPT ![distEditor[e].id] =
       [Written(e) EXCEPT !.active = IF distEditor[e].keep
          THEN distribution[distEditor[e].id].active ELSE @]]
  /\ ToDistEditor(e, StillEditor)

DeleteDistribution(e) ==
  /\ DistEditing(e, "Idle")
  /\ \E i \in DOMAIN distribution :
       distribution[i].active /\ distribution' = [distribution EXCEPT ![i].active = FALSE]
  /\ UNCHANGED distEditor

EditorStops(e) ==
  /\ distEditor[e].at # "Idle" /\ DistEditing(e, distEditor[e].at)
  /\ ToDistEditor(e, StillEditor)
  /\ UNCHANGED distribution

-----------------------------------------------------------------------------
(* createProviderCommission and buildDistributionPlan. *)

Creating(c, at) ==
  creator[c].at = at /\ UNCHANGED <<distribution, distEditor, pool>>

ToCreator(c, state) == creator' = [creator EXCEPT ![c] = state]
AnswerCreator(c, plan) == ToCreator(c, [at |-> "Answered", plan |-> plan])

(* A commission that is stored is answered; no income needs no commission. *)
FindCommission(c) ==
  /\ Creating(c, "New")
  /\ IF commission # NoCommission THEN AnswerCreator(c, commission.plan)
     ELSE IF pool = 0 THEN AnswerCreator(c, EmptyPlan)
     ELSE ToCreator(c, [at |-> "Snapshot"])
  /\ UNCHANGED commission

(* The active distributions are read once; their order is that of their    *)
(* priorities, which may be any.                                           *)
ReadDistributions(c) ==
  /\ Creating(c, "Snapshot")
  /\ ToCreator(c, [at |-> "Share", plan |-> EmptyPlan,
       todo |-> {distribution[i] : i \in {j \in DOMAIN distribution : distribution[j].active}}])
  /\ UNCHANGED commission

Allocated(plan) == MapThenSumSet(LAMBDA to : plan[to], RecipientRoles)

(* A percentage is of the pool, rounded to the paisa, half up. *)
Paise(d) == IF d.kind = "FIXED" THEN d.value ELSE (2 * pool * d.value + 100) \div 200

(* Mutant: each share alone is compared with the income. *)
MutOverflows(plan, d) == Paise(d) > pool

Overflows(plan, d) == Allocated(plan) + Paise(d) > pool

(* The next distribution.  Its recipient may be missing from the hierarchy *)
(* or not eligible, and is skipped.                                        *)
AllocateShare(c) ==
  /\ Creating(c, "Share")
  /\ \E d \in creator[c].todo :
       LET rest == [creator[c] EXCEPT !.todo = @ \ {d}] IN
       \/ ToCreator(c, rest)
       \/ IF Overflows(creator[c].plan, d) THEN ToCreator(c, [at |-> "Refused"])
          ELSE ToCreator(c, [rest EXCEPT !.plan[d.role] = @ + Paise(d)])
  /\ UNCHANGED commission

Remainder(plan) == IF Allocated(plan) < pool THEN pool - Allocated(plan) ELSE 0

(* The remainder is the source's; the plan must add up to the pool. *)
CompletePlan(c) ==
  /\ Creating(c, "Share") /\ creator[c].todo = {}
  /\ LET plan == [creator[c].plan EXCEPT ![SourceUser] = Remainder(creator[c].plan)] IN
     IF Allocated(plan) + plan[SourceUser] # pool THEN ToCreator(c, [at |-> "Mismatch"])
     ELSE ToCreator(c, [at |-> "Write", plan |-> plan])
  /\ UNCHANGED commission

(* Mutant: the request answers with the plan it has computed. *)
MutStoredPlan(c) == creator[c].plan

StoredPlan(c) == IF commission = NoCommission THEN creator[c].plan ELSE commission.plan

(* One serializable transaction: a commission that another request stored  *)
(* in the meantime is answered as it is.                                   *)
StoreCommission(c) ==
  /\ Creating(c, "Write")
  /\ IF commission = NoCommission
     THEN commission' = [stored |-> TRUE, plan |-> creator[c].plan]
     ELSE UNCHANGED commission
  /\ AnswerCreator(c, StoredPlan(c))

(* No rule, a role that is no longer active, a conflict, a failing query:  *)
(* the request is refused, and may be repeated.                            *)
CreatorFails(c) ==
  /\ creator[c].at \in {"Snapshot", "Share", "Write"} /\ Creating(c, creator[c].at)
  /\ ToCreator(c, [at |-> "Refused"])
  /\ UNCHANGED commission

RepeatRequest(c) ==
  /\ Creating(c, "Refused")
  /\ ToCreator(c, NewCreator)
  /\ UNCHANGED commission

PlanNext ==
  \/ \E e \in DistEditors :
       \/ CreateDistribution(e) \/ UpdateDistribution(e) \/ DeleteDistribution(e)
       \/ InsertDistribution(e) \/ WriteReactivated(e) \/ WriteDistribution(e) \/ EditorStops(e)
  \/ \E c \in Creators :
       \/ FindCommission(c) \/ ReadDistributions(c) \/ AllocateShare(c) \/ CompletePlan(c)
       \/ StoreCommission(c) \/ CreatorFails(c) \/ RepeatRequest(c)

PlanSpec == PlanInit /\ [][PlanNext]_planVars

-----------------------------------------------------------------------------
(* A plan always adds up to the pool by itself, whatever is skipped, edited *)
(* or rounded: the check before it is stored never has to refuse one.      *)
PlanAddsUp == \A c \in Creators : creator[c].at # "Mismatch"

(* A commission that is stored gives away the whole income, to the paisa,  *)
(* and takes nothing from anybody.                                         *)
IncomeIsDivided ==
  commission # NoCommission =>
    /\ Allocated(commission.plan) + commission.plan[SourceUser] = pool
    /\ \A to \in RecipientRoles \cup {SourceUser} : commission.plan[to] >= 0

(* All requests of a key are answered with the same division, the one that *)
(* is stored, also when they overlap and the distributions were edited     *)
(* between them.                                                           *)
AnswersAgree ==
  \A c \in Creators :
    creator[c].at = "Answered" /\ pool > 0 =>
      commission # NoCommission /\ creator[c].plan = commission.plan

(* No two edits together leave a percentage above 100, although each is    *)
(* only checked against the row it read.                                   *)
PercentWithinHundred ==
  \A i \in DOMAIN distribution : ValidDistribution(distribution[i])

(* "ONE RECIPIENT ROLE = ONE distribution configuration"                   *)
(* (createDistributionKey): no two active distributions have one role.     *)
OneDistributionPerRole ==
  \A i, j \in DOMAIN distribution :
    /\ distribution[i].active /\ distribution[j].active
    /\ distribution[i].role = distribution[j].role
    => i = j
=============================================================================
