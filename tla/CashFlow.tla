------------------------------ MODULE CashFlow ------------------------------
(* How cash withdrawals and cash deposits use the idempotency records of   *)
(* the aeps-service and the provider-transaction table: the handlers       *)
(* cashWithdrawal and cashDeposit of VimopayTransactionService, the calls  *)
(* they make over Kafka, and the gateway's admin operations.               *)
(*                                                                         *)
(* A call is performed and answered, performed with its answer lost or an  *)
(* error reported after the commit, or not performed at all; the handler   *)
(* may also stop anywhere.  Kafka delivers at least once: a call that was  *)
(* sent may be performed again later (Redeliver), at most MaxRedeliveries  *)
(* times.  The provider's answer is arbitrary.                             *)
EXTENDS ProviderTransaction, VimopayIdempotency, Naturals

CONSTANTS
  Admins,          \* admin requests at the gateway
  Duplicates,      \* consumers that perform a redelivered call
  MaxRedeliveries  \* bound on redelivered calls

(* A row has the idempotency key of the request; a handler's remote calls  *)
(* are executed by the worker of the same name.                            *)
ASSUME CashFlowAssumption ==
  /\ Refs = Keys
  /\ Workers = Handlers \cup Admins \cup Duplicates
  /\ Handlers \cap Admins = {} /\ (Handlers \cup Admins) \cap Duplicates = {}
  /\ MaxRedeliveries \in Nat

VARIABLES
  flow,        \* what each handler does next, the provider's answer, what it settled
  admin,       \* what each admin request does next
  sent,        \* the calls that were sent for each key
  answers,     \* the answers the provider gave for each key; "error" is a lost one
  calls,       \* provider calls started for each key
  redelivered, \* redelivered calls so far
  resolved     \* the keys whose reconciliation was applied at some time

(* resolved is a history variable: no step reads it.  The status of a      *)
(* reconciliation does not tell, because ResolveUndo overwrites it.        *)
flowVars == <<flow, admin, sent, answers, calls, redelivered, resolved>>
vars == <<ptVars, idemVars, flowVars>>

(* A finalize call is named by the status it carries. *)
Calls == {"create", "mark", "SUCCESS", "FAILED", "PENDING", "unknown", "flag",
          "settle", "compensate", "confirm"}

FlowTypeOK ==
  /\ flow \in [Handlers ->
       [at: {"Begin", "Create", "Mark", "LocalFinalize", "LocalFlag", "LocalCompensate",
             "LocalUnknown", "Abandon", "Provider", "ErrorRecord", "ErrorTrack", "Finalize",
             "Principal", "Flag", "Commission", "CommissionRetry", "Complete", "Done"},
        answer: Answers \cup {"none"}, settled: BOOLEAN]]
  /\ admin \in [Admins -> [at: {"Idle", "Resolving", "Sync", "Recovering"},
                           ref: Keys \cup {NoRef}, resolution: Resolutions]]
  /\ sent \in [Keys -> SUBSET Calls]
  /\ answers \in [Keys -> SUBSET (Answers \cup {"error"})]
  /\ calls \in [Keys -> Nat] /\ redelivered \in Nat /\ resolved \subseteq Keys

NoAdmin == [at |-> "Idle", ref |-> NoRef, resolution |-> "FAILED"]

Init ==
  /\ PtInit /\ IdemInit
  /\ flow = [h \in Handlers |-> [at |-> "Begin", answer |-> "none", settled |-> FALSE]]
  /\ admin = [a \in Admins |-> NoAdmin]
  /\ sent = [k \in Keys |-> {}]
  /\ answers = [k \in Keys |-> {}]
  /\ calls = [k \in Keys |-> 0]
  /\ redelivered = 0
  /\ resolved = {}

KeyOf(h) == attempt[h].key
Deposit(h) == KeyOf(h) \in CashDeposits

Goto(h, at) == flow' = [flow EXCEPT ![h].at = at]
Send(h, call) == sent' = [sent EXCEPT ![KeyOf(h)] = @ \cup {call}]
Elsewhere == UNCHANGED <<admin, answers, calls, redelivered, resolved>>

-----------------------------------------------------------------------------
(* The handler's local calls. *)

HandlerBegin(h, q) ==
  /\ flow[h].at = "Begin"
  /\ \/ BeginExecute(h, q) /\ Goto(h, "Create")
     \/ (BeginReplay(h, q) \/ BeginRefused(h, q)) /\ Goto(h, "Done")
  /\ Elsewhere /\ UNCHANGED <<ptVars, sent>>

(* The last update of the record, which may fail. *)
HandlerAbandon(h) ==
  /\ flow[h].at = "Abandon"
  /\ AbandonBeforeProvider(h) \/ Lose(h)
  /\ Goto(h, "Done")
  /\ Elsewhere /\ UNCHANGED <<ptVars, sent>>

HandlerLocalUnknown(h) ==
  /\ flow[h].at = "LocalUnknown"
  /\ IdemMarkUnknown(h) \/ Lose(h)
  /\ Goto(h, "Done")
  /\ Elsewhere /\ UNCHANGED <<ptVars, sent>>

(* An error of the provider call: the record first, then the transaction;  *)
(* if the record cannot be updated the transaction is not tried.           *)
HandlerErrorRecord(h) ==
  /\ flow[h].at = "ErrorRecord"
  /\ \/ IdemMarkUnknown(h) /\ Goto(h, "ErrorTrack")
     \/ Lose(h) /\ Goto(h, "Done")
  /\ Elsewhere /\ UNCHANGED <<ptVars, sent>>

HandlerComplete(h) ==
  /\ flow[h].at = "Complete"
  /\ Complete(h, flow[h].answer) \/ Lose(h)
  /\ Goto(h, "Done")
  /\ Elsewhere /\ UNCHANGED <<ptVars, sent>>

(* The provider call, its answer and the money it moves are outside.  "001" *)
(* also stands for 003, "other" for every unexpected status.               *)
CallProvider(h) ==
  /\ flow[h].at = "Provider"
  /\ calls' = [calls EXCEPT ![KeyOf(h)] = @ + 1]
  /\ \/ \E answer \in Answers :
          /\ flow' = [flow EXCEPT ![h].at = "Finalize", ![h].answer = answer]
          /\ answers' = [answers EXCEPT ![KeyOf(h)] = @ \cup {answer}]
     \/ Goto(h, "ErrorRecord") /\ answers' = [answers EXCEPT ![KeyOf(h)] = @ \cup {"error"}]
  /\ UNCHANGED <<ptVars, idemVars, admin, sent, redelivered, resolved>>

-----------------------------------------------------------------------------
(* The handler's remote calls.  OnReply and OnError say where the handler  *)
(* goes when the call is answered and when it throws.                      *)

(* Mutants: 002 taken for a success; 000 taken for a failure. *)
MutPendingIsSuccess(answer) ==
  CASE answer \in {"000", "002"} -> "SUCCESS" [] answer = "001" -> "FAILED"
MutSuccessIsFailure(answer) ==
  CASE answer = "002" -> "PENDING" [] OTHER -> "FAILED"

mapProviderTransactionStatus(answer) ==
  CASE answer = "000" -> "SUCCESS" [] answer = "001" -> "FAILED" [] answer = "002" -> "PENDING"

AfterFinalize(h) ==
  IF flow[h].answer = "000" \/ (flow[h].answer = "001" /\ Deposit(h))
  THEN "Principal" ELSE "Commission"

OnReply(h) ==
  LET at == flow[h].at IN
  CASE at = "Create" -> "Mark"
    [] at = "Mark" -> "Provider"
    [] at = "LocalFinalize" -> "LocalCompensate"
    [] at = "LocalFlag" -> "LocalCompensate"
    [] at = "LocalCompensate" -> "Abandon"
    [] at = "ErrorTrack" -> "Done"
    [] at = "Finalize" -> AfterFinalize(h)
    [] at = "Principal" -> "Commission"
    [] at = "Flag" -> "Commission"

OnError(h) ==
  LET at == flow[h].at IN
  CASE at = "Create" -> "Abandon"
    [] at = "Mark" -> IF Deposit(h) THEN "LocalFinalize" ELSE "Abandon"
    [] at = "LocalFinalize" -> "LocalFlag"
    [] at = "LocalFlag" -> "LocalCompensate"
    [] at = "LocalCompensate" -> "LocalUnknown"
    [] at = "ErrorTrack" -> "Done"
    [] at = "Finalize" -> AfterFinalize(h)
    [] at = "Principal" -> "Flag"
    [] at = "Flag" -> "Commission"

RemoteCalls == {"Create", "Mark", "LocalFinalize", "LocalFlag", "LocalCompensate",
                "ErrorTrack", "Finalize", "Principal", "Flag"}

Replied(h) ==
  flow' = [flow EXCEPT ![h].at = OnReply(h),
                       ![h].settled = @ \/ flow[h].at = "Principal"]
Thrown(h) == Goto(h, OnError(h))

(* One-transaction calls: performed, with or without an answer. *)
HandlerCall(h) ==
  LET k == KeyOf(h)
      at == flow[h].at
  IN
  /\ exec[h] = Idle
  /\ \/ /\ at = "Create" /\ Send(h, "create")
        /\ IF Deposit(h) THEN PrepareProviderWalletDebit(k) ELSE CreateProviderTransaction(k)
        /\ Replied(h) \/ Thrown(h)
     \/ /\ at = "Mark" /\ MarkProcessingSkipped(k) /\ UNCHANGED ptVars /\ Send(h, "mark")
        /\ Replied(h)
     \/ /\ at \in {"LocalCompensate", "Principal"} /\ Deposit(h)
        /\ at = "Principal" => flow[h].answer = "001"
        /\ CompensateDeposit(k) /\ Send(h, "compensate")
        /\ Replied(h) \/ Thrown(h)
     \/ /\ at = "Principal" /\ ~Deposit(h)
        /\ SettlePrincipal(k) /\ Send(h, "settle")
        /\ Replied(h) \/ Thrown(h)
     \/ /\ at = "Principal" /\ Deposit(h) /\ flow[h].answer = "000" /\ ConfirmDone(k)
        /\ UNCHANGED ptVars /\ Send(h, "confirm")
        /\ Replied(h)
     \/ /\ at = "ErrorTrack" \/ (at = "Finalize" /\ flow[h].answer = "other")
        /\ MarkUnknownSkipped(k) /\ UNCHANGED ptVars /\ Send(h, "unknown")
        /\ Replied(h)
     \/ /\ at \in {"LocalFlag", "Flag"}
        /\ MarkFinancialRecoveryRequired(k) /\ Send(h, "flag")
        /\ Replied(h) \/ Thrown(h)
  /\ Elsewhere /\ UNCHANGED idemVars

(* Calls that read and then write: the read. *)
HandlerCallRead(h) ==
  LET k == KeyOf(h)
      at == flow[h].at
  IN
  /\ \/ at = "Mark" /\ MarkProcessingRead(h, k) /\ Send(h, "mark")
     \/ /\ at = "LocalFinalize"
        /\ FinalizeRead(h, k, "FAILED") /\ Send(h, "FAILED")
     \/ /\ at = "Finalize" /\ flow[h].answer # "other"
        /\ LET s == mapProviderTransactionStatus(flow[h].answer) IN
             FinalizeRead(h, k, s) /\ Send(h, s)
     \/ /\ at = "ErrorTrack" \/ (at = "Finalize" /\ flow[h].answer = "other")
        /\ MarkUnknownRead(h, k) /\ Send(h, "unknown")
     \/ /\ at = "Principal" /\ Deposit(h) /\ flow[h].answer = "000"
        /\ ConfirmRead(h, k) /\ Send(h, "confirm")
  /\ Elsewhere /\ UNCHANGED <<idemVars, flow>>

PendingWrite(w) ==
  \/ MarkProcessingWrite(w) \/ FinalizeWrite(w) \/ MarkUnknownWrite(w)
  \/ ConfirmWrite(w)

(* The write; when the handler has stopped it still happens. *)
HandlerCallWrite(h) ==
  /\ \/ /\ flow[h].at # "Done"
        /\ \/ PendingWrite(h) /\ (Replied(h) \/ Thrown(h))
           \/ exec[h].at # "CommissionWrite" /\ Stop(h) /\ Thrown(h)
     \/ /\ flow[h].at = "Done"
        /\ PendingWrite(h) \/ CommissionWrite(h) \/ Stop(h)
        /\ UNCHANGED flow
  /\ Elsewhere /\ UNCHANGED <<idemVars, sent>>

(* The call throws and nothing was performed. *)
HandlerCallFails(h) ==
  /\ flow[h].at \in RemoteCalls
  /\ exec[h] = Idle
  /\ Thrown(h)
  /\ Elsewhere /\ UNCHANGED <<ptVars, idemVars, sent>>

(* Mutant: income is settled although the principal was not. *)
MutCommissionUpdates(h) ==
  IF flow[h].answer = "000" THEN {"WAITING_PROVIDER_INCOME", "SETTLED"} ELSE {}

(* Commission state.  When the principal is settled the provider income    *)
(* decides: it is awaited, distributed (the commission services, which end *)
(* with SETTLED), or it failed (PENDING); if that update throws, PENDING   *)
(* is tried.  Errors are swallowed.                                        *)
CommissionUpdates(h) ==
  IF flow[h].answer = "000" /\ flow[h].settled
  THEN IF flow[h].at = "Commission" THEN {"WAITING_PROVIDER_INCOME", "SETTLED", "PENDING"}
       ELSE {"PENDING"}
  ELSE IF ~Deposit(h) THEN {}
  ELSE IF flow[h].answer = "001" THEN {"NOT_REQUIRED"}
  ELSE {"PENDING"}

CommissionThrown(h) ==
  IF flow[h].at = "Commission" /\ flow[h].answer = "000" /\ flow[h].settled
  THEN "CommissionRetry" ELSE "Complete"

HandlerCommission(h) ==
  /\ flow[h].at \in {"Commission", "CommissionRetry"}
  /\ \/ (\E s \in CommissionUpdates(h) : CommissionRead(h, KeyOf(h), s)) /\ UNCHANGED flow
     \/ CommissionWrite(h) /\ (Goto(h, "Complete") \/ Goto(h, CommissionThrown(h)))
     \/ Stop(h) /\ Goto(h, CommissionThrown(h))
     \/ exec[h] = Idle /\ UNCHANGED ptVars /\ Goto(h, CommissionThrown(h))
  /\ Elsewhere /\ UNCHANGED <<idemVars, sent>>

HandlerNext(h) ==
  \/ \E q \in Requests : HandlerBegin(h, q)
  \/ HandlerCall(h) \/ HandlerCallRead(h) \/ HandlerCallWrite(h) \/ HandlerCallFails(h)
  \/ CallProvider(h) \/ HandlerCommission(h) \/ HandlerComplete(h)
  \/ HandlerAbandon(h) \/ HandlerLocalUnknown(h) \/ HandlerErrorRecord(h)

(* The handler stops; a remote call in progress goes on without it. *)
Crash(h) ==
  /\ flow[h].at \notin {"Begin", "Done"}
  /\ Goto(h, "Done")
  /\ IF attempt[h].at = "Executing" THEN Lose(h) ELSE UNCHANGED idemVars
  /\ Elsewhere /\ UNCHANGED <<ptVars, sent>>

-----------------------------------------------------------------------------
(* A call that was sent is performed once more. *)

Redeliver(d, k) ==
  /\ redelivered < MaxRedeliveries
  /\ redelivered' = redelivered + 1
  /\ \/ "create" \in sent[k] /\ CreateSteps(k)
     \/ "mark" \in sent[k] /\ MarkProcessingRead(d, k)
     \/ \E s \in {"SUCCESS", "FAILED", "PENDING"} \cap sent[k] : FinalizeRead(d, k, s)
     \/ "unknown" \in sent[k] /\ MarkUnknownRead(d, k)
     \/ "flag" \in sent[k] /\ MarkFinancialRecoveryRequired(k)
     \/ "settle" \in sent[k] /\ SettlePrincipal(k)
     \/ "compensate" \in sent[k] /\ CompensateDeposit(k)
     \/ "confirm" \in sent[k] /\ ConfirmRead(d, k)
  /\ UNCHANGED <<idemVars, flow, admin, sent, answers, calls, resolved>>

RedeliveredWrite(d) ==
  /\ PendingWrite(d) \/ Stop(d)
  /\ UNCHANGED <<idemVars, flowVars>>

-----------------------------------------------------------------------------
(* Admin requests at the gateway.  Resolving reconciles the transaction    *)
(* and then, if that was answered, settles the idempotency record; an      *)
(* error of the second call is swallowed.                                  *)

Ask(a, at, k, s) ==
  /\ admin[a] = NoAdmin
  /\ admin' = [admin EXCEPT ![a] = [at |-> at, ref |-> k, resolution |-> s]]
  /\ UNCHANGED <<idemVars, flow, sent, answers, calls, redelivered, resolved>>

(* Mutant: a completed reconciliation is refused instead of answered. *)
MutResolve(a, k, s) == ResolveClaim(a, k, s) /\ Ask(a, "Resolving", k, s)

resolveProviderTransaction(a, k, s) ==
  \/ ResolveClaim(a, k, s) /\ Ask(a, "Resolving", k, s)
  \/ /\ reconciliation[k].status = "COMPLETED" /\ reconciliation[k].resolution = s
     /\ UNCHANGED ptVars /\ Ask(a, "Sync", k, s)

recoverProviderFinancialEffects(a, k) ==
  RecoverStart(a, k) /\ Ask(a, "Recovering", k, "FAILED")

AdminAt(a, at) == admin' = [admin EXCEPT ![a].at = at]
AdminDone(a) == admin' = [admin EXCEPT ![a] = NoAdmin]

AdminResolving(a) ==
  /\ admin[a].at = "Resolving"
  /\ \/ /\ ResolveApply(a) /\ resolved' = resolved \cup {exec[a].ref}
        /\ AdminAt(a, "Sync") \/ AdminDone(a)
     \/ /\ \/ ResolveDuplicate(a) /\ (AdminAt(a, "Sync") \/ AdminDone(a))
           \/ ResolveAbort(a) /\ UNCHANGED admin
           \/ (ResolveUndo(a) \/ Stop(a)) /\ AdminDone(a)
        /\ UNCHANGED resolved
  /\ UNCHANGED <<idemVars, flow, sent, answers, calls, redelivered>>

syncIdempotencyAfterReconciliation(a) ==
  /\ admin[a].at = "Sync"
  /\ \/ ResolveAfterReconciliation(admin[a].ref, admin[a].resolution)
     \/ UNCHANGED idemVars
  /\ AdminDone(a)
  /\ UNCHANGED <<ptVars, flow, sent, answers, calls, redelivered, resolved>>

AdminRecovering(a) ==
  /\ admin[a].at = "Recovering"
  /\ \/ (RecoverEffect(a) \/ RecoverConfirm(a) \/ RecoverVerify(a)) /\ UNCHANGED admin
     \/ (RecoverClear(a) \/ Stop(a)) /\ AdminDone(a)
  /\ UNCHANGED <<idemVars, flow, sent, answers, calls, redelivered, resolved>>

AdminNext(a) ==
  \/ \E k \in Keys, s \in Resolutions : resolveProviderTransaction(a, k, s)
  \/ \E k \in Keys : recoverProviderFinancialEffects(a, k)
  \/ AdminResolving(a) \/ syncIdempotencyAfterReconciliation(a) \/ AdminRecovering(a)

-----------------------------------------------------------------------------
Next ==
  \/ \E h \in Handlers : HandlerNext(h) \/ Crash(h)
  \/ \E d \in Duplicates : (\E k \in Keys : Redeliver(d, k)) \/ RedeliveredWrite(d)
  \/ \E a \in Admins : AdminNext(a)

Spec == Init /\ [][Next]_vars

-----------------------------------------------------------------------------
(* Properties. *)

Answered(k, answer) == answer \in answers[k]
Reconciled(k, s) == reconciliation[k].resolution = s /\ reconciliation[k].status # "NONE"

(* One withdrawal is credited at most once and one deposit refunded at     *)
(* most once, by the handler, by reconciliation and by recovery together.  *)
MovedOnce == \A k \in Keys : ~(Credits \subseteq entries[k]) /\ ~(Refunds \subseteq entries[k])

(* A withdrawal is credited only if the provider reported success or an    *)
(* admin resolved the transaction as successful.                           *)
CreditEarned ==
  \A k \in Keys : entries[k] \cap Credits # {} => Answered(k, "000") \/ Reconciled(k, "SUCCESS")

(* A deposit the provider reported successful keeps its wallet debit.      *)
SuccessfulDepositKeepsDebit ==
  \A k \in Keys : Answered(k, "000") => entries[k] \cap Refunds = {}

(* The provider is called at most once for one idempotency key.            *)
ProviderOncePerKey == \A k \in Keys : calls[k] <= 1

(* What a client is told by a final record agrees with the wallet: FAILED  *)
(* means a withdrawal was not credited, SUCCESS that a deposit was not     *)
(* refunded.                                                               *)
RecordAgreesWithWallet ==
  \A k \in Keys : Recorded(k) =>
    /\ idem[k].status = "FAILED" => entries[k] \cap Credits = {}
    /\ idem[k].status = "SUCCESS" => entries[k] \cap Refunds = {}

(* The outcome of a provider call is not known and nobody resolved it.     *)
InDoubt(k) ==
  /\ calls[k] > 0 /\ answers[k] \subseteq {"002", "other", "error"}
  /\ k \notin resolved

(* While the outcome of one provider call is in doubt the same financial   *)
(* intent is not sent to the provider under another key ("A previous       *)
(* matching transaction has an uncertain status and must be reconciled     *)
(* before retry", begin).                                                  *)
OneCallInDoubt ==
  \A k, l \in Keys :
    k # l /\ InDoubt(k) /\ calls[l] > 0 /\ IntentOf[idem[k].request] = IntentOf[idem[l].request]
      => ~InDoubt(l)

(* Provider income is distributed only for a transaction whose principal   *)
(* was settled: a credited withdrawal, a deposit that was not refunded.    *)
IncomeAfterPrincipal ==
  \A k \in Keys : ptxn[k].commission = "SETTLED" =>
    IF k \in CashDeposits THEN entries[k] \cap Refunds = {} ELSE entries[k] \cap Credits # {}

(* A failed deposit whose refund failed, and which was marked for recovery *)
(* ("Ensure recovery queue catches it"), is on the queue admins work from. *)
FailedDepositIsQueued ==
  \A h \in Handlers :
    /\ Deposit(h) /\ flow[h].answer = "001" /\ flow[h].at \in {"Complete", "Done"}
    /\ "flag" \in sent[KeyOf(h)] /\ entries[KeyOf(h)] \cap Refunds = {}
    => Listed(KeyOf(h))

-----------------------------------------------------------------------------
(* Liveness.  No handler has to finish and no call has to be answered.     *)
(* What is assumed is that admins do not give up: requests that are made   *)
(* end, a transaction that can be resolved is asked for again and again,   *)
(* and neither the apply transaction nor the second call fails forever.    *)

AdminResolved(a) == AdminResolving(a) /\ admin'[a].at = "Sync"
AdminSynced(a) ==
  syncIdempotencyAfterReconciliation(a) /\ idem' # idem

AdminFairness(a) ==
  /\ WF_vars(AdminResolving(a) \/ AdminRecovering(a) \/ syncIdempotencyAfterReconciliation(a))
  /\ \A k \in Keys : SF_vars(\E s \in Resolutions : resolveProviderTransaction(a, k, s))
  /\ SF_vars(AdminResolved(a)) /\ SF_vars(AdminSynced(a))

(* A record the provider left pending or unknown, whose transaction waits  *)
(* for reconciliation, is settled in the end, so that its intent does not  *)
(* stay blocked ("otherwise future identical intent permanently            *)
(* PREVIOUS_TRANSACTION_PENDING se blocked rahega"), even if the answer of *)
(* the first resolve request was lost before the record was synchronised.  *)
Reconcilable(k) ==
  /\ Recorded(k) /\ idem[k].status \in {"PENDING", "UNKNOWN"}
  /\ ptxn[k].needsReconciliation /\ ptxn[k].status \in {"PENDING", "UNKNOWN"}

Disturbed ==
  \/ redelivered > 0
  \/ \E a, b \in Admins : a # b /\ admin[a] # NoAdmin /\ admin[b] # NoAdmin

BlockedIntentIsReleased ==
  \A k \in Keys :
    Reconcilable(k) ~> \/ Recorded(k) /\ idem[k].status \in Final
                       \/ Disturbed
=============================================================================
