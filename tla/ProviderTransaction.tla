------------------------ MODULE ProviderTransaction ------------------------
(***************************************************************************)
(* The provider-transaction table (PTXN) of the transaction-service, the   *)
(* wallet entries linked to its rows, its reconciliation records, and      *)
(* the RPC handlers of TransactionService that change them.                *)
(*                                                                         *)
(* A handler that runs in one Serializable database transaction is one     *)
(* action: every such transaction writes the row it decided on, so         *)
(* PostgreSQL aborts it if the row changed after its snapshot.  A handler  *)
(* that reads the row and later updates it outside a transaction is two    *)
(* actions, and what it read is kept in exec[w] in between.  A worker is   *)
(* one execution of such a handler; a worker may stop between two steps    *)
(* (Stop), which is an error, a timeout or a crash of the service.         *)
(*                                                                         *)
(* Amounts are not modelled: every entry of a row is for the row's amount, *)
(* so entries[r] is the set of derived idempotency keys that were posted.  *)
(***************************************************************************)
EXTENDS FiniteSets

CONSTANTS
  Refs,          \* provider transactions; one per client idempotency key
  CashDeposits,  \* the references whose operation is CD; the others are CW or AP
  Workers,       \* handler executions that may be in progress at the same time
  NoRef          \* the reference of a worker that executes nothing

ASSUME RefsAssumption == CashDeposits \subseteq Refs /\ NoRef \notin Refs

VARIABLES
  ptxn,           \* the provider_transactions row of each reference
  entries,        \* the wallet entries posted for each reference, by key
  reconciliation, \* the provider_transaction_reconciliations row of each reference
  exec            \* the execution of each worker

ptVars == <<ptxn, entries, reconciliation, exec>>

-----------------------------------------------------------------------------
(* Rows. *)

Resolutions == {"SUCCESS", "FAILED"}
Statuses == {"NONE", "INITIATED", "PROCESSING", "PENDING", "UNKNOWN"} \cup Resolutions
(* The schema's settlement statuses FAILED and UNKNOWN are read by some     *)
(* guards but written by no handler, so no row ever has them.              *)
SettlementStatuses ==
  {"NOT_REQUIRED", "PENDING", "RESERVED", "SETTLED", "COMPENSATED"}
CommissionStatuses ==
  {"NOT_REQUIRED", "WAITING_PROVIDER_INCOME", "PENDING", "SETTLED"}
EntryKeys ==
  {"RESERVE", "PRINCIPAL", "COMPENSATE", "RECON_SETTLE", "RECON_COMPENSATE"}

PtxnRow == [status: Statuses, settlement: SettlementStatuses,
            commission: CommissionStatuses, needsReconciliation: BOOLEAN]
ReconciliationRow == [status: {"NONE", "PROCESSING", "COMPLETED", "FAILED"},
                      resolution: Resolutions]

(* Where a worker stands: the step it takes next. *)
Steps == {"Idle", "ProcessingWrite", "FinalizeWrite", "UnknownWrite",
          "ConfirmWrite", "CommissionWrite", "ResolveApply", "ResolveUndo",
          "RecoverEffect", "RecoverConfirm", "RecoverVerify", "RecoverClear"}

Execution == [at: Steps, ref: Refs \cup {NoRef},
              arg: Statuses \cup CommissionStatuses,
              seen: SettlementStatuses]

Idle == [at |-> "Idle", ref |-> NoRef, arg |-> "NONE", seen |-> "NOT_REQUIRED"]

TypeOK ==
  /\ ptxn \in [Refs -> PtxnRow]
  /\ entries \in [Refs -> SUBSET EntryKeys]
  /\ reconciliation \in [Refs -> ReconciliationRow]
  /\ exec \in [Workers -> Execution]

PtInit ==
  /\ ptxn = [r \in Refs |-> [status |-> "NONE", settlement |-> "NOT_REQUIRED",
                             commission |-> "NOT_REQUIRED",
                             needsReconciliation |-> FALSE]]
  /\ entries = [r \in Refs |-> {}]
  /\ reconciliation = [r \in Refs |-> [status |-> "NONE", resolution |-> "FAILED"]]
  /\ exec = [w \in Workers |-> Idle]

Exists(r) == ptxn[r].status # "NONE"

Enter(w, step, r, arg, seen) ==
  exec' = [exec EXCEPT ![w] = [at |-> step, ref |-> r, arg |-> arg, seen |-> seen]]

Leave(w) == exec' = [exec EXCEPT ![w] = Idle]

-----------------------------------------------------------------------------
(* Creation.  The unique idempotency key makes the insert idempotent: a    *)
(* second call returns the existing row, whatever its state.               *)

CreateProviderTransaction(r) ==
  /\ r \notin CashDeposits
  /\ ptxn' = IF Exists(r) THEN ptxn
             ELSE [ptxn EXCEPT ![r].status = "INITIATED",
                               ![r].settlement = "PENDING"]
  /\ UNCHANGED <<entries, reconciliation, exec>>

(* Mutant: the row survives a debit that failed. *)
MutPrepare(r) ==
  /\ r \in CashDeposits /\ ~Exists(r)
  /\ ptxn' = [ptxn EXCEPT ![r].status = "INITIATED", ![r].settlement = "RESERVED"]
  /\ UNCHANGED <<entries, reconciliation, exec>>

(* A cash deposit is funded before the provider is called: the row and the *)
(* wallet DEBIT are inserted together.                                     *)
PrepareProviderWalletDebit(r) ==
  /\ r \in CashDeposits
  /\ \/ Exists(r) /\ "RESERVE" \in entries[r] /\ UNCHANGED <<ptxn, entries>>
     \/ /\ ~Exists(r)
        /\ ptxn' = [ptxn EXCEPT ![r].status = "INITIATED",
                                ![r].settlement = "RESERVED"]
        /\ entries' = [entries EXCEPT ![r] = @ \cup {"RESERVE"}]
  /\ UNCHANGED <<reconciliation, exec>>

-----------------------------------------------------------------------------
(* Provider status. *)

MarkProcessingRead(w, r) ==
  /\ exec[w] = Idle
  /\ ptxn[r].status \in {"INITIATED", "PROCESSING"}
  /\ Enter(w, "ProcessingWrite", r, "PROCESSING", ptxn[r].settlement)
  /\ UNCHANGED <<ptxn, entries, reconciliation>>

MarkProcessingWrite(w) ==
  /\ exec[w].at = "ProcessingWrite"
  /\ ptxn' = [ptxn EXCEPT ![exec[w].ref].status = "PROCESSING",
                          ![exec[w].ref].needsReconciliation = FALSE]
  /\ Leave(w)
  /\ UNCHANGED <<entries, reconciliation>>

(* The handler answers with the row it read when it is past PROCESSING. *)
MarkProcessingSkipped(r) == Exists(r) /\ ptxn[r].status \notin {"INITIATED", "PROCESSING"}

(* No guard on the status; the settlement status that was read is written  *)
(* back.                                                                   *)
FinalizeRead(w, r, s) ==
  /\ exec[w] = Idle /\ Exists(r)
  /\ s \in Resolutions \cup {"PENDING"}
  /\ Enter(w, "FinalizeWrite", r, s, ptxn[r].settlement)
  /\ UNCHANGED <<ptxn, entries, reconciliation>>

FinalizeWrite(w) ==
  LET e == exec[w] IN
  /\ e.at = "FinalizeWrite"
  /\ ptxn' = [ptxn EXCEPT
                ![e.ref].status = e.arg,
                ![e.ref].needsReconciliation = (e.arg = "PENDING"),
                ![e.ref].settlement =
                   IF e.arg = "FAILED" /\ e.seen = "PENDING" THEN "NOT_REQUIRED"
                   ELSE e.seen]
  /\ Leave(w)
  /\ UNCHANGED <<entries, reconciliation>>

MarkUnknownRead(w, r) ==
  /\ exec[w] = Idle /\ Exists(r)
  /\ ptxn[r].status \notin Resolutions
  /\ Enter(w, "UnknownWrite", r, "UNKNOWN", ptxn[r].settlement)
  /\ UNCHANGED <<ptxn, entries, reconciliation>>

MarkUnknownWrite(w) ==
  /\ exec[w].at = "UnknownWrite"
  /\ ptxn' = [ptxn EXCEPT ![exec[w].ref].status = "UNKNOWN",
                          ![exec[w].ref].needsReconciliation = TRUE]
  /\ Leave(w)
  /\ UNCHANGED <<entries, reconciliation>>

(* A definitive status is not downgraded: the row is returned as it is. *)
MarkUnknownSkipped(r) == ptxn[r].status \in Resolutions

(* Sets the recovery flag and nothing else, whatever the status. *)
MarkFinancialRecoveryRequired(r) ==
  /\ Exists(r)
  /\ ptxn' = [ptxn EXCEPT ![r].needsReconciliation = TRUE]
  /\ UNCHANGED <<entries, reconciliation, exec>>

-----------------------------------------------------------------------------
(* Principal entries: postProviderWalletEntry with action SETTLE and       *)
(* COMPENSATE.  The entry and the settlement status change together, but   *)
(* an entry that is already there is returned with the row left alone.     *)

Settled(r) == [ptxn EXCEPT ![r].settlement = "SETTLED"]
Compensated(r) == [ptxn EXCEPT ![r].settlement = "COMPENSATED"]

PostSettle(r) ==
  /\ Exists(r) /\ r \notin CashDeposits
  /\ \/ "PRINCIPAL" \in entries[r] /\ UNCHANGED <<ptxn, entries>>
     \/ /\ "PRINCIPAL" \notin entries[r]
        /\ ptxn[r].status = "SUCCESS"
        /\ entries' = [entries EXCEPT ![r] = @ \cup {"PRINCIPAL"}]
        /\ ptxn' = Settled(r)

PostCompensate(r) ==
  /\ r \in CashDeposits
  /\ ptxn[r].status = "FAILED" /\ ptxn[r].settlement = "RESERVED"
  /\ \/ "COMPENSATE" \in entries[r] /\ UNCHANGED <<ptxn, entries>>
     \/ /\ "COMPENSATE" \notin entries[r]
        /\ entries' = [entries EXCEPT ![r] = @ \cup {"COMPENSATE"}]
        /\ ptxn' = Compensated(r)

SettlePrincipal(r) == PostSettle(r) /\ UNCHANGED <<reconciliation, exec>>
CompensateDeposit(r) == PostCompensate(r) /\ UNCHANGED <<reconciliation, exec>>

(* Confirming a reservation reads the row and updates it later. *)
Confirmable(r) == ptxn[r].status = "SUCCESS" /\ ptxn[r].settlement = "RESERVED"
ConfirmDone(r) == Exists(r) /\ ptxn[r].settlement = "SETTLED"

ConfirmRead(w, r) ==
  /\ exec[w] = Idle /\ r \in CashDeposits
  /\ Confirmable(r)
  /\ Enter(w, "ConfirmWrite", r, "SUCCESS", ptxn[r].settlement)
  /\ UNCHANGED <<ptxn, entries, reconciliation>>

ConfirmWrite(w) ==
  /\ exec[w].at = "ConfirmWrite"
  /\ ptxn' = Settled(exec[w].ref)
  /\ Leave(w)
  /\ UNCHANGED <<entries, reconciliation>>

-----------------------------------------------------------------------------
(* Commission state.  SETTLED is only written over a SUCCESS transaction   *)
(* and is never left, as far as the row that was read tells.               *)

CommissionRead(w, r, s) ==
  /\ exec[w] = Idle /\ Exists(r)
  /\ s \in CommissionStatuses
  /\ s = "SETTLED" => ptxn[r].status = "SUCCESS"
  /\ ptxn[r].commission # "SETTLED"
  /\ Enter(w, "CommissionWrite", r, s, ptxn[r].settlement)
  /\ UNCHANGED <<ptxn, entries, reconciliation>>

CommissionWrite(w) ==
  /\ exec[w].at = "CommissionWrite"
  /\ ptxn' = [ptxn EXCEPT ![exec[w].ref].commission = exec[w].arg]
  /\ Leave(w)
  /\ UNCHANGED <<entries, reconciliation>>

-----------------------------------------------------------------------------
(* Admin reconciliation: a claim transaction, then an apply transaction;   *)
(* when the apply fails, for whatever reason, the reconciliation record    *)
(* is marked FAILED in a third, separate update.                           *)

(* Mutant: a retry may ask for the other resolution. *)
MutResolveClaim(w, r, s) ==
  /\ exec[w] = Idle /\ s \in Resolutions
  /\ reconciliation[r].status # "COMPLETED"
  /\ ptxn[r].needsReconciliation
  /\ ptxn[r].status \in {"PENDING", "UNKNOWN"}
  /\ reconciliation' = [reconciliation EXCEPT ![r] =
                          [status |-> "PROCESSING", resolution |-> s]]
  /\ Enter(w, "ResolveApply", r, s, ptxn[r].settlement)
  /\ UNCHANGED <<ptxn, entries>>

ResolveClaim(w, r, s) ==
  /\ exec[w] = Idle /\ s \in Resolutions
  /\ reconciliation[r].status # "COMPLETED"
  /\ ptxn[r].needsReconciliation
  /\ ptxn[r].status \in {"PENDING", "UNKNOWN"}
  /\ reconciliation[r].status # "NONE" => reconciliation[r].resolution = s
  /\ reconciliation' = [reconciliation EXCEPT ![r] =
                          [status |-> "PROCESSING", resolution |-> s]]
  /\ Enter(w, "ResolveApply", r, s, ptxn[r].settlement)
  /\ UNCHANGED <<ptxn, entries>>

(* Mutant: nothing is posted for a row that is settled elsewhere later. *)
MutResolveEntry(r, s) == {}

(* The financial effect of a resolution: the entry it posts, if any, and   *)
(* the settlement status it leaves.                                        *)
ResolveEntry(r, s) ==
  IF s = "SUCCESS" /\ r \notin CashDeposits /\ ptxn[r].settlement = "PENDING"
    THEN {"RECON_SETTLE"}
  ELSE IF s = "FAILED" /\ r \in CashDeposits /\ ptxn[r].settlement = "RESERVED"
    THEN {"RECON_COMPENSATE"}
  ELSE {}

Resolvable(r, s) ==
  IF r \in CashDeposits
  THEN ptxn[r].settlement \in
         {"RESERVED", IF s = "SUCCESS" THEN "SETTLED" ELSE "COMPENSATED"}
  ELSE IF s = "SUCCESS" THEN ptxn[r].settlement \in {"PENDING", "SETTLED"}
  ELSE ptxn[r].settlement # "SETTLED"

(* Mutant: the settlement status is left for somebody else to update. *)
MutResolvedSettlement(r, s) == ptxn[r].settlement

ResolvedSettlement(r, s) ==
  IF s = "SUCCESS" THEN "SETTLED"
  ELSE IF r \in CashDeposits THEN "COMPENSATED" ELSE "NOT_REQUIRED"

(* The apply transaction reads the row again but does not look at its      *)
(* status again.                                                           *)
ResolveApply(w) ==
  LET r == exec[w].ref
      s == exec[w].arg
  IN
  /\ exec[w].at = "ResolveApply"
  /\ reconciliation[r].status = "PROCESSING"
  /\ Resolvable(r, s)
  /\ entries' = [entries EXCEPT ![r] = @ \cup ResolveEntry(r, s)]
  /\ ptxn' = [ptxn EXCEPT ![r] =
                [status |-> s, settlement |-> ResolvedSettlement(r, s),
                 commission |-> IF s = "SUCCESS" THEN "WAITING_PROVIDER_INCOME"
                                ELSE "NOT_REQUIRED",
                 needsReconciliation |-> FALSE]]
  /\ reconciliation' = [reconciliation EXCEPT ![r].status = "COMPLETED"]
  /\ Leave(w)

(* Somebody else completed the same reconciliation first. *)
ResolveDuplicate(w) ==
  /\ exec[w].at = "ResolveApply"
  /\ reconciliation[exec[w].ref].status = "COMPLETED"
  /\ Leave(w)
  /\ UNCHANGED <<ptxn, entries, reconciliation>>

(* The apply transaction rolls back: a guard refuses, the serialization    *)
(* check aborts it, or the database is not reachable.                      *)
ResolveAbort(w) ==
  /\ exec[w].at = "ResolveApply"
  /\ exec' = [exec EXCEPT ![w].at = "ResolveUndo"]
  /\ UNCHANGED <<ptxn, entries, reconciliation>>

ResolveUndo(w) ==
  /\ exec[w].at = "ResolveUndo"
  /\ reconciliation' = [reconciliation EXCEPT ![exec[w].ref].status = "FAILED"]
  /\ Leave(w)
  /\ UNCHANGED <<ptxn, entries>>

-----------------------------------------------------------------------------
(* Admin recovery of a known provider result whose financial effect is     *)
(* missing: read, effect, read again and verify, then clear the flag.      *)

RecoveryRequired(r) ==
  \/ ptxn[r].status = "SUCCESS" /\ r \in CashDeposits /\ ptxn[r].settlement = "RESERVED"
  \/ ptxn[r].status = "FAILED" /\ r \in CashDeposits /\ ptxn[r].settlement = "RESERVED"
  \/ /\ ptxn[r].status \in Resolutions /\ r \notin CashDeposits
     /\ ptxn[r].settlement = "PENDING"

(* What listProviderReconciliationQueue shows to admins. *)
Listed(r) ==
  \/ ptxn[r].needsReconciliation /\ ptxn[r].status \in {"PENDING", "UNKNOWN"}
  \/ ptxn[r].status = "SUCCESS" /\ r \notin CashDeposits /\ ptxn[r].settlement = "PENDING"
  \/ ptxn[r].status \in Resolutions /\ r \in CashDeposits /\ ptxn[r].settlement = "RESERVED"

RecoverStart(w, r) ==
  /\ exec[w] = Idle
  /\ RecoveryRequired(r)
  /\ Enter(w, "RecoverEffect", r, ptxn[r].status, ptxn[r].settlement)
  /\ UNCHANGED <<ptxn, entries, reconciliation>>

RecoverTo(w, step) == exec' = [exec EXCEPT ![w].at = step]

RecoverEffect(w) ==
  LET r == exec[w].ref
      success == exec[w].arg = "SUCCESS"
  IN
  /\ exec[w].at = "RecoverEffect"
  /\ \/ success /\ r \notin CashDeposits /\ PostSettle(r) /\ RecoverTo(w, "RecoverVerify")
     \/ ~success /\ r \in CashDeposits /\ PostCompensate(r) /\ RecoverTo(w, "RecoverVerify")
     \/ /\ ~success /\ r \notin CashDeposits
        /\ ptxn' = [ptxn EXCEPT ![r].settlement = "NOT_REQUIRED"]
        /\ UNCHANGED entries
        /\ RecoverTo(w, "RecoverVerify")
     \/ /\ success /\ r \in CashDeposits
        /\ \/ ConfirmDone(r) /\ RecoverTo(w, "RecoverVerify")
           \/ Confirmable(r) /\ RecoverTo(w, "RecoverConfirm")
        /\ UNCHANGED <<ptxn, entries>>
  /\ UNCHANGED reconciliation

RecoverConfirm(w) ==
  /\ exec[w].at = "RecoverConfirm"
  /\ ptxn' = Settled(exec[w].ref)
  /\ RecoverTo(w, "RecoverVerify")
  /\ UNCHANGED <<entries, reconciliation>>

(* The principal state that the provider's result calls for. *)
PrincipalSettled(r) ==
  \/ ptxn[r].status = "SUCCESS" /\ ptxn[r].settlement = "SETTLED"
  \/ /\ ptxn[r].status = "FAILED"
     /\ ptxn[r].settlement = IF r \in CashDeposits THEN "COMPENSATED" ELSE "NOT_REQUIRED"

(* The commission statuses the last update may write; NONE leaves the row's. *)
(* A PENDING commission may have a commission reference, which keeps it.    *)
RecoveredCommission(r) ==
  CASE ptxn[r].status = "FAILED" -> {"NOT_REQUIRED"}
    [] ptxn[r].status # "SUCCESS" \/ ptxn[r].commission = "SETTLED" -> {"NONE"}
    [] ptxn[r].commission = "PENDING" -> {"WAITING_PROVIDER_INCOME", "NONE"}
    [] OTHER -> {"WAITING_PROVIDER_INCOME"}

(* The update that follows is fixed by this read; a status other than      *)
(* SUCCESS or FAILED passes unverified.                                    *)
RecoverVerify(w) ==
  LET r == exec[w].ref IN
  /\ exec[w].at = "RecoverVerify"
  /\ ptxn[r].status \in Resolutions => PrincipalSettled(r)
  /\ \E c \in RecoveredCommission(r) :
       Enter(w, "RecoverClear", r, c, ptxn[r].settlement)
  /\ UNCHANGED <<ptxn, entries, reconciliation>>

(* Mutant: a commission status that is to be left alone is written. *)
MutRecoverClear(w) ==
  LET r == exec[w].ref IN
  /\ exec[w].at = "RecoverClear"
  /\ ptxn' = [ptxn EXCEPT ![r].needsReconciliation = FALSE, ![r].commission = exec[w].arg]
  /\ Leave(w)
  /\ UNCHANGED <<entries, reconciliation>>

RecoverClear(w) ==
  LET r == exec[w].ref IN
  /\ exec[w].at = "RecoverClear"
  /\ ptxn' = [ptxn EXCEPT ![r].needsReconciliation = FALSE,
                          ![r].commission = IF exec[w].arg = "NONE" THEN @ ELSE exec[w].arg]
  /\ Leave(w)
  /\ UNCHANGED <<entries, reconciliation>>

-----------------------------------------------------------------------------
(* A handler stops between two of its steps; a claimed reconciliation      *)
(* stays claimed.                                                          *)
Stop(w) ==
  /\ exec[w] # Idle
  /\ Leave(w)
  /\ UNCHANGED <<ptxn, entries, reconciliation>>
-----------------------------------------------------------------------------
(* The table on its own: any handler may be called at any time, in any     *)
(* order, any number of times and concurrently.  The order in which the    *)
(* callers call is in module CashFlow.                                     *)

CreateSteps(r) ==
  \/ CreateProviderTransaction(r)
  \/ PrepareProviderWalletDebit(r)

StatusSteps(w, r) ==
  \/ MarkProcessingRead(w, r) \/ MarkProcessingWrite(w)
  \/ \E s \in {"SUCCESS", "FAILED", "PENDING"} : FinalizeRead(w, r, s)
  \/ FinalizeWrite(w)
  \/ MarkUnknownRead(w, r) \/ MarkUnknownWrite(w)
  \/ MarkFinancialRecoveryRequired(r)

PrincipalSteps(w, r) ==
  \/ SettlePrincipal(r)
  \/ CompensateDeposit(r)
  \/ ConfirmRead(w, r) \/ ConfirmWrite(w)

CommissionSteps(w, r) ==
  \/ \E s \in CommissionStatuses : CommissionRead(w, r, s)
  \/ CommissionWrite(w)

ResolveSteps(w, r) ==
  \/ \E s \in Resolutions : ResolveClaim(w, r, s)
  \/ ResolveApply(w) \/ ResolveDuplicate(w) \/ ResolveAbort(w) \/ ResolveUndo(w)

RecoverSteps(w, r) ==
  \/ RecoverStart(w, r) \/ RecoverEffect(w) \/ RecoverConfirm(w)
  \/ RecoverVerify(w) \/ RecoverClear(w)

PtNext ==
  \/ \E r \in Refs : CreateSteps(r)
  \/ \E w \in Workers, r \in Refs :
       \/ StatusSteps(w, r) \/ PrincipalSteps(w, r) \/ CommissionSteps(w, r)
       \/ ResolveSteps(w, r) \/ RecoverSteps(w, r)
  \/ \E w \in Workers : Stop(w)

PtSpec == PtInit /\ [][PtNext]_ptVars

-----------------------------------------------------------------------------
(* Properties that hold for every order of calls. *)

Credits == {"PRINCIPAL", "RECON_SETTLE"}
Refunds == {"COMPENSATE", "RECON_COMPENSATE"}

(* What the wallet must show for a settlement status. *)
Backed(r, settlement, posted) ==
  /\ r \in CashDeposits /\ settlement \in {"RESERVED", "SETTLED", "COMPENSATED"}
       => "RESERVE" \in posted
  /\ r \notin CashDeposits /\ settlement = "SETTLED" => posted \cap Credits # {}
  /\ settlement = "COMPENSATED" => posted \cap Refunds # {}

(* The settlement status of a row never claims a wallet movement that was  *)
(* not made, although finalizeProviderTransaction writes back a settlement *)
(* status it read earlier and the confirmations update a row they read     *)
(* before.                                                                 *)
SettlementBacked == \A r \in Refs : Backed(r, ptxn[r].settlement, entries[r])

(* A reconciliation that is COMPLETED moved the principal it had to move:  *)
(* a successful withdrawal is credited, a failed deposit is refunded.      *)
ReconciliationBacked ==
  \A r \in Refs : reconciliation[r].status = "COMPLETED" =>
    /\ r \notin CashDeposits /\ reconciliation[r].resolution = "SUCCESS"
         => entries[r] \cap Credits # {}
    /\ r \in CashDeposits /\ reconciliation[r].resolution = "FAILED"
         => entries[r] \cap Refunds # {}

(* A reconciliation marked FAILED has no financial effect ("Financial DB    *)
(* transaction rollback ho chuki hogi", when the record is marked).        *)
FailedReconciliationRolledBack ==
  \A r \in Refs : reconciliation[r].status = "FAILED" =>
    entries[r] \cap {"RECON_SETTLE", "RECON_COMPENSATE"} = {}

(* What a handler in progress carries is still backed when it writes it:   *)
(* wallet entries are never taken back and a claim keeps its resolution,   *)
(* so what the row it read claimed stays true.  With TypeOK this makes     *)
(* SettlementBacked and ReconciliationBacked inductive.                    *)
Carried(e, posted, claims) ==
  e.at # "Idle" =>
    /\ e.ref \in Refs
    /\ Backed(e.ref, e.seen, posted[e.ref])
    /\ e.at = "FinalizeWrite" => e.arg \in Resolutions \cup {"PENDING"}
    /\ e.at = "CommissionWrite" => e.arg \in CommissionStatuses
    /\ e.at = "RecoverClear" => e.arg \in CommissionStatuses \cup {"NONE"}
    /\ e.at \in {"ConfirmWrite", "RecoverConfirm"} =>
         e.ref \in CashDeposits /\ "RESERVE" \in posted[e.ref]
    /\ e.at \in {"ResolveApply", "ResolveUndo"} =>
         /\ e.arg \in Resolutions
         /\ claims[e.ref].status # "NONE"
         /\ claims[e.ref].resolution = e.arg

ExecutionsBacked == \A w \in Workers : Carried(exec[w], entries, reconciliation)

(* A transaction is reconciled one way only: whatever admins call, and     *)
(* however claims, failures and retries interleave, once a resolution is   *)
(* recorded it is the one that is retried, and no entry of the opposite    *)
(* resolution is ever posted by reconciliation.                            *)
OneResolution ==
  [][\A r \in Refs :
       /\ reconciliation[r].status # "NONE" =>
            reconciliation'[r].resolution = reconciliation[r].resolution
       /\ "RECON_SETTLE" \in entries'[r] \ entries[r] =>
            reconciliation'[r].resolution = "SUCCESS"
       /\ "RECON_COMPENSATE" \in entries'[r] \ entries[r] =>
            reconciliation'[r].resolution = "FAILED"]_ptVars
=============================================================================
