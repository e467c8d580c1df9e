--------------------------- MODULE ProviderReversal ---------------------------
(* The reversal of one provider transaction whose principal is settled     *)
(* (requestProviderTransactionReversal, processProviderTransactionReversal *)
(* of the transaction-service), while its provider income may still be     *)
(* distributed: settleProviderIncome and executeDistributions of the       *)
(* aeps-service, the allocations of the commission-service, and the wallet *)
(* entries both sides post.  The three services share no transaction.      *)
(*                                                                         *)
(* A call may fail, performed or not, and a settlement or a processing may *)
(* stop anywhere, MaxFaults times in all.  A refusal for want of balance   *)
(* is one of these failures: the owner of a wallet may have spent it.      *)
EXTENDS Naturals

CONSTANTS
  NumAllocations,  \* allocations of the commission, in the order they were created
  Settlers,        \* settlements of provider income: the handler's, the admins' retries
  Admins,          \* admins that process the reversal
  MaxFaults        \* bound on failed calls and stops

ASSUME ReversalAssumption == NumAllocations \in Nat \ {0} /\ MaxFaults \in Nat

Allocations == 1 .. NumAllocations

VARIABLES
  row,          \* the ProviderTransaction
  commission,   \* status of the commission record, "none" before it is created
  alloc,        \* status of each CommissionDistributionTransaction
  wallet,       \* entries: principal reversals, PROFIT credits and debits of each allocation
  reversal,     \* the ProviderTransactionReversal
  settler,      \* what each settlement does next
  admin,        \* what each processing of the reversal does next
  faults,       \* failed calls and stops so far
  interrupted   \* has a processing stopped without recording a failure?

vars == <<row, commission, alloc, wallet, reversal, settler, admin, faults, interrupted>>
services == <<row, commission, alloc, wallet, reversal>>

Components == {"PENDING", "PROCESSING", "COMPLETED", "FAILED", "NOT_REQUIRED"}

TypeOK ==
  /\ row \in [status: {"SUCCESS", "REVERSED"}, settlement: {"SETTLED", "COMPENSATED"},
              commission: {"NOT_REQUIRED", "WAITING_PROVIDER_INCOME", "PENDING", "SETTLED",
                           "REVERSED"},
              ref: BOOLEAN]
  /\ commission \in {"none", "PENDING", "SUCCESS", "REVERSED"}
  /\ alloc \in [Allocations -> {"PENDING", "SUCCESS", "FAILED", "REVERSED"}]
  /\ wallet \in [principal: Nat, credited: [Allocations -> Nat], debited: [Allocations -> Nat]]
  /\ reversal \in [status: {"none", "REQUESTED", "PROCESSING", "COMPLETED", "FAILED"},
                   principal: Components, commission: Components,
                   paid: BOOLEAN, quiet: BOOLEAN]
  /\ settler \in [Settlers ->
       [at: {"Idle", "Create", "StateRead", "StateWrite", "Get", "Credit", "CreditCommit",
             "MarkSuccess", "MarkSuccessWrite", "MarkFailed", "MarkFailedWrite",
             "Finalize", "FinalizeWrite"},
        call: {"Observe", "Pending", "Settled", "SafePending"},
        todo: SUBSET Allocations, seen: {"PENDING", "SUCCESS"}]]
  /\ admin \in [Admins ->
       [at: {"Idle", "Claim", "Principal", "PrincipalDone", "PrincipalFailed", "Commission",
             "Debit", "MarkReversed", "MarkReversedWrite", "Finalize", "FinalizeWrite",
             "CommissionDone", "CommissionFailed", "Verify", "Complete", "Incomplete"},
        principal: BOOLEAN, commission: BOOLEAN, ref: BOOLEAN, todo: SUBSET Allocations]]
  /\ faults \in 0 .. MaxFaults /\ interrupted \in BOOLEAN

IdleSettler == [at |-> "Idle", call |-> "Observe", todo |-> {}, seen |-> "PENDING"]
IdleAdmin ==
  [at |-> "Idle", principal |-> FALSE, commission |-> FALSE, ref |-> FALSE, todo |-> {}]

(* The principal was just settled.  Either the handler settles the income  *)
(* at once (UAT), or the transaction waits for the income to be observed.  *)
Init ==
  /\ \E handler \in Settlers, waits \in BOOLEAN :
       /\ row = [status |-> "SUCCESS", settlement |-> "SETTLED", ref |-> FALSE,
                 commission |-> IF waits THEN "WAITING_PROVIDER_INCOME" ELSE "NOT_REQUIRED"]
       /\ settler = [s \in Settlers |->
            IF s = handler /\ ~waits THEN [IdleSettler EXCEPT !.at = "Create"] ELSE IdleSettler]
  /\ commission = "none"
  /\ alloc = [a \in Allocations |-> "PENDING"]
  /\ wallet = [principal |-> 0, credited |-> [a \in Allocations |-> 0],
               debited |-> [a \in Allocations |-> 0]]
  /\ reversal = [status |-> "none", principal |-> "PENDING", commission |-> "PENDING",
                 paid |-> FALSE, quiet |-> FALSE]
  /\ admin = [a \in Admins |-> IdleAdmin]
  /\ faults = 0 /\ interrupted = FALSE

First(S) == CHOOSE a \in S : \A b \in S : a <= b
Fault == faults < MaxFaults /\ faults' = faults + 1

-----------------------------------------------------------------------------
(* settleProviderIncome. *)

Settling(s, at) ==
  settler[s].at = at /\ UNCHANGED <<reversal, admin, interrupted>>

Goto(s, at) == settler' = [settler EXCEPT ![s].at = at]
Restart(s, at) == settler' = [settler EXCEPT ![s] = [IdleSettler EXCEPT !.at = at]]

(* A call of updateCommissionState, and where its answer and its error     *)
(* lead.  An error of the first one is thrown to the admin.                *)
UpdateState(s, call) ==
  settler' = [settler EXCEPT ![s] = [IdleSettler EXCEPT !.at = "StateRead", !.call = call]]
MarkPendingSafely(s) == UpdateState(s, "SafePending")

AfterState == [Observe |-> "Create", Pending |-> "Get", Settled |-> "Idle", SafePending |-> "Idle"]

StateRefused(s) ==
  IF settler[s].call \in {"Observe", "SafePending"} THEN Restart(s, "Idle") ELSE MarkPendingSafely(s)

(* The next allocation of the loop, or the end of it. *)
NextAllocation(s) ==
  LET rest == settler[s].todo \ {First(settler[s].todo)}
  IN settler' = [settler EXCEPT ![s].todo = rest,
                                ![s].at = IF rest = {} THEN "Finalize" ELSE "Credit"]

CallFailed(s) ==
  CASE settler[s].at \in {"StateRead", "StateWrite"} -> StateRefused(s)
    [] settler[s].at \in {"Credit", "CreditCommit", "MarkSuccess", "MarkSuccessWrite"} ->
         Goto(s, "MarkFailed")
    [] settler[s].at \in {"MarkFailed", "MarkFailedWrite"} -> NextAllocation(s)
    [] OTHER -> MarkPendingSafely(s)

(* A call is answered, or it was performed and its answer is lost. *)
Answered(s, next) == (next /\ UNCHANGED faults) \/ (CallFailed(s) /\ Fault)

(* A call that is not performed; a settlement that stops. *)
SettlerFault(s) ==
  /\ settler[s].at # "Idle" /\ Fault
  /\ CallFailed(s) \/ Restart(s, "Idle")
  /\ UNCHANGED <<services, admin, interrupted>>

(* reconcileProviderIncome: an income already SETTLED is not observed again. *)
Reconcile(s) ==
  /\ Settling(s, "Idle")
  /\ row.status = "SUCCESS" /\ row.settlement = "SETTLED"
  /\ row.commission \in {"WAITING_PROVIDER_INCOME", "PENDING", "SETTLED"}
  /\ IF row.commission = "SETTLED" THEN Restart(s, "Create") ELSE UpdateState(s, "Observe")
  /\ UNCHANGED <<row, commission, alloc, wallet, faults>>

(* createProviderCommission; a commission that is already paid is not      *)
(* announced as pending.                                                   *)
Create(s) ==
  /\ Settling(s, "Create")
  /\ commission' = IF commission = "none" THEN "PENDING" ELSE commission
  /\ Answered(s, IF commission' = "SUCCESS" THEN Goto(s, "Get") ELSE UpdateState(s, "Pending"))
  /\ UNCHANGED <<row, alloc, wallet>>

(* Mutant: the state moves forward although a reversal exists. *)
MutStateRefuses(status) ==
  \/ status = "SETTLED" /\ row.status # "SUCCESS"
  \/ status # "SETTLED" /\ row.commission = "SETTLED"

(* updateProviderCommissionState reads the row and its reversal ... *)
StateRefuses(status) ==
  \/ reversal.status # "none"
  \/ status = "SETTLED" /\ row.status # "SUCCESS"
  \/ status # "SETTLED" /\ row.commission = "SETTLED"

StateOf(call) == IF call = "Settled" THEN "SETTLED" ELSE "PENDING"

StateRead(s) ==
  /\ Settling(s, "StateRead")
  /\ \/ StateRefuses(StateOf(settler[s].call)) /\ StateRefused(s)
     \/ /\ ~StateRefuses(StateOf(settler[s].call))
        /\ IF row.commission = "SETTLED" THEN Restart(s, AfterState[settler[s].call])
                                         ELSE Goto(s, "StateWrite")
  /\ UNCHANGED <<row, commission, alloc, wallet, faults>>

(* ... and updates it later, whatever it has become. *)
StateWrite(s) ==
  /\ Settling(s, "StateWrite")
  /\ row' = [row EXCEPT !.commission = StateOf(settler[s].call),
                        !.ref = @ \/ settler[s].call \in {"Pending", "Settled"}]
  /\ Answered(s, Restart(s, AfterState[settler[s].call]))
  /\ UNCHANGED <<commission, alloc, wallet>>

(* executeDistributions: the allocations that are neither SUCCESS nor      *)
(* REVERSED in one snapshot.                                               *)
Get(s) ==
  LET todo == {a \in Allocations : alloc[a] \in {"PENDING", "FAILED"}} IN
  /\ Settling(s, "Get")
  /\ settler' = [settler EXCEPT ![s].todo = todo,
                                ![s].at = IF todo = {} THEN "Finalize" ELSE "Credit"]
  /\ UNCHANGED <<row, commission, alloc, wallet, faults>>

Current(s) == First(settler[s].todo)

(* creditProviderCommissionDistribution: the entry of the key is returned; *)
(* a new one needs a snapshot without a reversal.                          *)
CreditBlocked == reversal.status # "none" \/ row.status # "SUCCESS"

Credit(s) ==
  /\ Settling(s, "Credit")
  /\ CASE wallet.credited[Current(s)] > 0 -> Goto(s, "MarkSuccess")
       [] wallet.credited[Current(s)] = 0 /\ CreditBlocked -> CallFailed(s)
       [] OTHER -> Goto(s, "CreditCommit")
  /\ UNCHANGED <<row, commission, alloc, wallet, faults>>

(* Mutant: the key is not unique. *)
MutPosted(count) == count + 1

(* The key of an entry is unique: a second insert answers with the first. *)
Posted(count) == IF count = 0 THEN 1 ELSE count

CreditCommit(s) ==
  /\ Settling(s, "CreditCommit")
  /\ wallet' = [wallet EXCEPT !.credited[Current(s)] = Posted(@)]
  /\ Answered(s, Goto(s, "MarkSuccess"))
  /\ UNCHANGED <<row, commission, alloc>>

(* markDistributionSuccess and markDistributionFailed read, then update. *)
MarkSuccess(s) ==
  /\ Settling(s, "MarkSuccess")
  /\ CASE alloc[Current(s)] = "SUCCESS" -> NextAllocation(s)
       [] alloc[Current(s)] = "REVERSED" -> CallFailed(s)
       [] OTHER -> Goto(s, "MarkSuccessWrite")
  /\ UNCHANGED <<row, commission, alloc, wallet, faults>>

MarkSuccessWrite(s) ==
  /\ Settling(s, "MarkSuccessWrite")
  /\ alloc' = [alloc EXCEPT ![Current(s)] = "SUCCESS"]
  /\ Answered(s, NextAllocation(s))
  /\ UNCHANGED <<row, commission, wallet>>

MarkFailed(s) ==
  /\ Settling(s, "MarkFailed")
  /\ IF alloc[Current(s)] \in {"SUCCESS", "REVERSED"} THEN NextAllocation(s)
                                                      ELSE Goto(s, "MarkFailedWrite")
  /\ UNCHANGED <<row, commission, alloc, wallet, faults>>

MarkFailedWrite(s) ==
  /\ Settling(s, "MarkFailedWrite")
  /\ alloc' = [alloc EXCEPT ![Current(s)] = "FAILED"]
  /\ NextAllocation(s)
  /\ UNCHANGED <<row, commission, wallet, faults>>

(* Mutant: failed allocations do not keep a commission open. *)
MutPaid == \A a \in Allocations : alloc[a] # "PENDING"

Paid == \A a \in Allocations : alloc[a] = "SUCCESS"

(* finalizeProviderDistributions reads the commission and its allocations, *)
(* then updates the commission, a reversed one too.                        *)
SettlerFinalize(s) ==
  /\ Settling(s, "Finalize")
  /\ IF commission = "SUCCESS" THEN UpdateState(s, "Settled")
     ELSE settler' = [settler EXCEPT ![s].at = "FinalizeWrite",
                                     ![s].seen = IF Paid THEN "SUCCESS" ELSE "PENDING"]
  /\ UNCHANGED <<row, commission, alloc, wallet, faults>>

SettlerFinalizeWrite(s) ==
  /\ Settling(s, "FinalizeWrite")
  /\ commission' = settler[s].seen
  /\ Answered(s, UpdateState(s, IF settler[s].seen = "SUCCESS" THEN "Settled" ELSE "SafePending"))
  /\ UNCHANGED <<row, alloc, wallet>>

SettlerStep(s) ==
  \/ SettlerFault(s) \/ Reconcile(s) \/ Create(s) \/ StateRead(s) \/ StateWrite(s) \/ Get(s)
  \/ Credit(s) \/ CreditCommit(s) \/ MarkSuccess(s) \/ MarkSuccessWrite(s)
  \/ MarkFailed(s) \/ MarkFailedWrite(s) \/ SettlerFinalize(s) \/ SettlerFinalizeWrite(s)

-----------------------------------------------------------------------------
(* requestProviderTransactionReversal: one reversal per transaction.       *)
(* "paid" and "quiet" remember what was true when it was requested.        *)
Request ==
  /\ reversal.status = "none"
  /\ row.status = "SUCCESS" /\ row.settlement = "SETTLED"
  /\ reversal' = [status |-> "REQUESTED", principal |-> "PENDING",
       commission |-> IF row.ref \/ row.commission \in {"SETTLED", "PENDING"} THEN "PENDING"
                                                                               ELSE "NOT_REQUIRED",
       paid |-> \A x \in Allocations : alloc[x] = "SUCCESS",
       quiet |-> \A s \in Settlers : settler[s].at = "Idle"]
  /\ UNCHANGED <<row, commission, alloc, wallet, settler, admin, faults, interrupted>>

-----------------------------------------------------------------------------
(* processProviderTransactionReversal. *)

Processing(a, at) == admin[a].at = at /\ UNCHANGED <<settler, interrupted>>

Proceed(a, at) == admin' = [admin EXCEPT ![a].at = at]

PrincipalCalls == {"Principal", "PrincipalDone"}
CommissionCalls ==
  {"Commission", "Debit", "MarkReversed", "MarkReversedWrite", "Finalize", "FinalizeWrite",
   "CommissionDone"}

OnFailure ==
  [at \in PrincipalCalls \cup CommissionCalls |->
     IF at \in PrincipalCalls THEN "PrincipalFailed" ELSE "CommissionFailed"]

(* A call is answered, or it was performed and reports an error. *)
Performed(a, next) ==
  \/ Proceed(a, next) /\ UNCHANGED faults
  \/ Proceed(a, OnFailure[admin[a].at]) /\ Fault

(* A call that is not performed, a refused debit. *)
AdminFault(a) ==
  /\ admin[a].at \in DOMAIN OnFailure /\ Fault
  /\ Proceed(a, OnFailure[admin[a].at])
  /\ UNCHANGED <<services, settler, interrupted>>

(* A processing stops, or an update outside of its error handling fails. *)
Stop(a) ==
  /\ admin[a].at # "Idle" /\ Fault
  /\ admin' = [admin EXCEPT ![a] = IdleAdmin]
  /\ interrupted' = (interrupted \/ admin[a].at # "Claim")
  /\ UNCHANGED <<services, settler>>

(* Mutant: a failed reversal is not processed again. *)
MutProcess(a) ==
  /\ Processing(a, "Idle")
  /\ reversal.status = "REQUESTED"
  /\ admin' = [admin EXCEPT ![a] = [IdleAdmin EXCEPT !.at = "Claim",
       !.principal = TRUE, !.commission = reversal.commission = "PENDING"]]
  /\ UNCHANGED <<services, faults>>

(* The decision to process is made on one read ... *)
Process(a) ==
  /\ Processing(a, "Idle")
  /\ reversal.status \in {"REQUESTED", "FAILED"}
  /\ row.status \in {"SUCCESS", "REVERSED"}
  /\ admin' = [admin EXCEPT ![a] = [IdleAdmin EXCEPT !.at = "Claim",
       !.principal = reversal.principal # "COMPLETED",
       !.commission = reversal.commission \notin {"COMPLETED", "NOT_REQUIRED"}]]
  /\ UNCHANGED <<services, faults>>

(* Mutant: the commission is known by its state, not by its reference. *)
MutClaim(a) ==
  /\ Processing(a, "Claim")
  /\ reversal' = [reversal EXCEPT !.status = "PROCESSING",
       !.principal = IF admin[a].principal THEN "PROCESSING" ELSE @,
       !.commission = IF admin[a].commission THEN "PROCESSING" ELSE @]
  /\ admin' = [admin EXCEPT ![a] = [IdleAdmin EXCEPT !.ref = row.commission = "SETTLED",
       !.at = IF reversal'.principal = "COMPLETED" THEN "Commission" ELSE "Principal"]]
  /\ UNCHANGED <<row, commission, alloc, wallet, faults>>

(* ... and the update that claims the reversal has no guard. *)
Claim(a) ==
  /\ Processing(a, "Claim")
  /\ reversal' = [reversal EXCEPT !.status = "PROCESSING",
       !.principal = IF admin[a].principal THEN "PROCESSING" ELSE @,
       !.commission = IF admin[a].commission THEN "PROCESSING" ELSE @]
  /\ admin' = [admin EXCEPT ![a] = [IdleAdmin EXCEPT !.ref = row.ref,
       !.at = IF reversal'.principal = "COMPLETED" THEN "Commission" ELSE "Principal"]]
  /\ UNCHANGED <<row, commission, alloc, wallet, faults>>

(* createReversalWalletEntry under the key of the reversal. *)
PrincipalEntry(a) ==
  /\ Processing(a, "Principal")
  /\ wallet' = [wallet EXCEPT !.principal = Posted(@)]
  /\ Performed(a, "PrincipalDone")
  /\ UNCHANGED <<row, commission, alloc, reversal>>

(* Mutant: the settlement of the transaction is left alone. *)
MutPrincipalDone(a) ==
  /\ Processing(a, "PrincipalDone")
  /\ reversal' = [reversal EXCEPT !.principal = "COMPLETED"]
  /\ Performed(a, "Commission")
  /\ UNCHANGED <<row, commission, alloc, wallet>>

PrincipalDone(a) ==
  /\ Processing(a, "PrincipalDone")
  /\ reversal' = [reversal EXCEPT !.principal = "COMPLETED"]
  /\ row' = [row EXCEPT !.settlement = "COMPENSATED"]
  /\ Performed(a, "Commission")
  /\ UNCHANGED <<commission, alloc, wallet>>

PrincipalFailed(a) ==
  /\ Processing(a, "PrincipalFailed")
  /\ reversal' = [reversal EXCEPT !.status = "FAILED", !.principal = "FAILED"]
  /\ admin' = [admin EXCEPT ![a] = IdleAdmin]
  /\ UNCHANGED <<row, commission, alloc, wallet, faults>>

CommissionFailed(a) ==
  /\ Processing(a, "CommissionFailed")
  /\ reversal' = [reversal EXCEPT !.status = "FAILED", !.commission = "FAILED"]
  /\ admin' = [admin EXCEPT ![a] = IdleAdmin]
  /\ UNCHANGED <<row, commission, alloc, wallet, faults>>

(* No commission record is known: nothing was distributed. *)
NoCommission(a) ==
  /\ Processing(a, "Commission") /\ ~admin[a].ref
  /\ reversal' = [reversal EXCEPT !.commission = "NOT_REQUIRED"]
  /\ row' = [row EXCEPT !.commission = "REVERSED"]
  /\ Performed(a, "Verify")
  /\ UNCHANGED <<commission, alloc, wallet>>

(* Mutant: every allocation is debited that was tried. *)
MutUndoable == {x \in Allocations : alloc[x] \in {"SUCCESS", "FAILED"}}

Undoable == {x \in Allocations : alloc[x] = "SUCCESS"}

(* The allocations that one snapshot shows as SUCCESS are undone in turn. *)
GetExecution(a) ==
  /\ Processing(a, "Commission") /\ admin[a].ref
  /\ admin' = [admin EXCEPT ![a] = [IdleAdmin EXCEPT !.todo = Undoable,
       !.at = IF Undoable = {} THEN "Finalize" ELSE "Debit"]]
  /\ UNCHANGED <<services, faults>>

Debit(a) ==
  /\ Processing(a, "Debit")
  /\ wallet' = [wallet EXCEPT !.debited[First(admin[a].todo)] = Posted(@)]
  /\ Performed(a, "MarkReversed")
  /\ UNCHANGED <<row, commission, alloc, reversal>>

Undone(a) ==
  LET rest == admin[a].todo \ {First(admin[a].todo)}
  IN [admin EXCEPT ![a].todo = rest, ![a].at = IF rest = {} THEN "Finalize" ELSE "Debit"]

(* markDistributionReversed reads, then updates. *)
MarkReversed(a) ==
  /\ Processing(a, "MarkReversed")
  /\ admin' = CASE alloc[First(admin[a].todo)] = "REVERSED" -> Undone(a)
                [] alloc[First(admin[a].todo)] = "SUCCESS" ->
                     [admin EXCEPT ![a].at = "MarkReversedWrite"]
                [] OTHER -> [admin EXCEPT ![a].at = "CommissionFailed"]
  /\ UNCHANGED <<services, faults>>

MarkReversedWrite(a) ==
  /\ Processing(a, "MarkReversedWrite")
  /\ alloc' = [alloc EXCEPT ![First(admin[a].todo)] = "REVERSED"]
  /\ \/ admin' = Undone(a) /\ UNCHANGED faults
     \/ Proceed(a, "CommissionFailed") /\ Fault
  /\ UNCHANGED <<row, commission, wallet, reversal>>

(* finalizeProviderCommissionReversal refuses while an allocation is SUCCESS. *)
ReversalFinalize(a) ==
  /\ Processing(a, "Finalize")
  /\ Proceed(a, CASE commission = "REVERSED" -> "CommissionDone"
                  [] commission # "REVERSED" /\ Undoable # {} -> "CommissionFailed"
                  [] OTHER -> "FinalizeWrite")
  /\ UNCHANGED <<services, faults>>

ReversalFinalizeWrite(a) ==
  /\ Processing(a, "FinalizeWrite")
  /\ commission' = "REVERSED"
  /\ Performed(a, "CommissionDone")
  /\ UNCHANGED <<row, alloc, wallet, reversal>>

CommissionDone(a) ==
  /\ Processing(a, "CommissionDone")
  /\ reversal' = [reversal EXCEPT !.commission = "COMPLETED"]
  /\ row' = [row EXCEPT !.commission = "REVERSED"]
  /\ Performed(a, "Verify")
  /\ UNCHANGED <<commission, alloc, wallet>>

Verified ==
  /\ reversal.principal \in {"COMPLETED", "NOT_REQUIRED"}
  /\ reversal.commission \in {"COMPLETED", "NOT_REQUIRED"}

(* The final verification reads the reversal again ... *)
Verify(a) ==
  /\ Processing(a, "Verify")
  /\ Proceed(a, IF Verified THEN "Complete" ELSE "Incomplete")
  /\ UNCHANGED <<services, faults>>

Incomplete(a) ==
  /\ Processing(a, "Incomplete")
  /\ reversal' = [reversal EXCEPT !.status = "FAILED"]
  /\ admin' = [admin EXCEPT ![a] = IdleAdmin]
  /\ UNCHANGED <<row, commission, alloc, wallet, faults>>

(* ... and the last transaction marks the reversal and the transaction. *)
Finish(a) ==
  /\ Processing(a, "Complete")
  /\ reversal' = [reversal EXCEPT !.status = "COMPLETED"]
  /\ row' = [row EXCEPT !.status = "REVERSED", !.commission = "REVERSED"]
  /\ admin' = [admin EXCEPT ![a] = IdleAdmin]
  /\ UNCHANGED <<commission, alloc, wallet, faults>>

AdminStep(a) ==
  \/ Process(a) \/ Claim(a) \/ PrincipalEntry(a) \/ PrincipalDone(a) \/ PrincipalFailed(a)
  \/ NoCommission(a) \/ GetExecution(a) \/ Debit(a) \/ MarkReversed(a) \/ MarkReversedWrite(a)
  \/ ReversalFinalize(a) \/ ReversalFinalizeWrite(a) \/ CommissionDone(a) \/ CommissionFailed(a)
  \/ Verify(a) \/ Incomplete(a) \/ Finish(a)

Next ==
  \/ Request
  \/ \E s \in Settlers : SettlerStep(s)
  \/ \E a \in Admins : AdminStep(a) \/ AdminFault(a) \/ Stop(a)

Spec == Init /\ [][Next]_vars
FairSpec == Spec /\ \A a \in Admins : WF_vars(AdminStep(a))

-----------------------------------------------------------------------------
(* No entry is posted twice, whoever processes the reversal and however    *)
(* often it is retried: the principal and each allocation are compensated  *)
(* at most once, and each allocation is credited at most once.             *)
CompensatedOnce ==
  /\ wallet.principal <= 1
  /\ \A a \in Allocations : wallet.credited[a] <= 1 /\ wallet.debited[a] <= 1

(* A recipient is debited only what was credited before, although the      *)
(* processing goes by the commission-service's statuses, not by the ledger. *)
DebitedOnlyIfCredited == \A a \in Allocations : wallet.debited[a] <= wallet.credited[a]

(* A transaction shown as REVERSED has its principal back in the wallets   *)
(* and says so, whatever two admins and failed processings left behind.    *)
ReversedIsCompensated ==
  row.status = "REVERSED" => wallet.principal = 1 /\ row.settlement = "COMPENSATED"

(* If every distribution was recorded as paid and no settlement was under  *)
(* way when the reversal was requested, a completed reversal has taken     *)
(* every one of them back, whatever failed and was repeated.               *)
PaidIsUndone ==
  reversal.quiet /\ reversal.paid /\ reversal.status = "COMPLETED" =>
    \A a \in Allocations : wallet.debited[a] = 1

(* If no settlement was under way when the reversal was requested, the     *)
(* income of a reversed transaction stays reversed.                        *)
ReversedStaysReversed ==
  reversal.quiet /\ row.status = "REVERSED" => row.commission = "REVERSED"

(* A comment at the loop over the allocations says that those which are    *)
(* PENDING or FAILED were never credited: a completed reversal would leave *)
(* no credit standing.                                                     *)
CompletedUndoesCredits ==
  reversal.status = "COMPLETED" /\ reversal.quiet =>
    \A a \in Allocations : wallet.debited[a] = wallet.credited[a]

(* A requested reversal is completed, or a processing stopped and left it  *)
(* PROCESSING, once it is left to one admin who keeps processing it.  Two  *)
(* admins can make each other's final verification fail again and again:   *)
(* the claim of one resets the principal that the other is about to check. *)
OneAdmin == \E a \in Admins : \A b \in Admins \ {a} : admin[b].at = "Idle"

RequestedIsReversed ==
  <>[]OneAdmin =>
    (reversal.status = "REQUESTED" ~> (reversal.status = "COMPLETED" \/ interrupted))
=============================================================================
