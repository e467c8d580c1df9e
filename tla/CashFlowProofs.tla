--------------------------- MODULE CashFlowProofs ---------------------------
(* What holds of withdrawals and deposits for any keys, handlers, admins   *)
(* and number of redelivered calls, proved with TLAPS.  The first part is  *)
(* about the idempotency records on their own, as ProviderTransactionProofs *)
(* is about the rows; the second composes the two.                         *)
EXTENDS CashFlow, ProviderTransactionProofs

-----------------------------------------------------------------------------
(* The idempotency promises hold for any keys, requests and handlers.      *)

(* OneUnsettledPerIntent and HeldByExecutor are inductive together: only a *)
(* holder's own statement moves the record it holds.                       *)
IdemInv == IdemTypeOK /\ OneUnsettledPerIntent /\ HeldByExecutor

LEMMA HeldKey ==
  ASSUME IdemInv, NEW h \in Handlers, Holds(h)
  PROVE  /\ Recorded(attempt[h].key) /\ attempt[h].key \in Keys
         /\ idem[attempt[h].key].lock = h
         /\ idem[attempt[h].key].status = "PROCESSING"
  BY IdempotencyAssumption DEF IdemInv, IdemTypeOK, Attempt, HeldByExecutor, Holds

LEMMA RecordType ==
  ASSUME IdemTypeOK, NEW k \in Keys
  PROVE  Recorded(k) <=> idem[k] \in Record
  BY DEF IdemTypeOK, Recorded, Record, NoRecord, Unsettled, Final

(* Closing an attempt and leaving the records alone. *)
LEMMA CloseKeeps ==
  ASSUME IdemInv, NEW h \in Handlers, Close(h), UNCHANGED idem
  PROVE  IdemInv'
<1>1. /\ attempt' \in [Handlers -> Attempt]
      /\ \A g \in Handlers : /\ attempt'[g].key = attempt[g].key
                             /\ attempt[g].at # "New" => attempt'[g].at # "New"
  BY DEF IdemInv, IdemTypeOK, Attempt, Close
<1>2. IdemTypeOK' /\ OneUnsettledPerIntent'
  BY <1>1 DEF IdemInv, IdemTypeOK, OneUnsettledPerIntent, Blocking, Recorded
<1>3. HeldByExecutor'
  <2>1. \A k \in Keys : Recorded(k) => idem[k].lock \in Handlers \cup {NoHandler}
    BY RecordType DEF IdemInv, Record
  <2> QED BY <1>1, <2>1 DEF IdemInv, HeldByExecutor, Recorded
<1> QED BY <1>2, <1>3 DEF IdemInv

(* Settling or deleting one record unblocks, and never blocks, an intent.  *)
LEMMA SetHeldKeeps ==
  ASSUME IdemInv, NEW h \in Handlers, NEW s \in {"SUCCESS", "FAILED", "PENDING", "UNKNOWN"},
         attempt[h].at = "Executing", SetHeld(h, s), Close(h)
  PROVE  IdemInv'
<1> DEFINE k == attempt[h].key
<1>1. CASE ~Holds(h)
  <2>1. idem' = idem
    BY <1>1 DEF SetHeld
  <2> QED BY <2>1, CloseKeeps
<1>2. CASE Holds(h)
  <2>1. /\ Recorded(k) /\ k \in Keys /\ idem[k] \in Record
        /\ idem[k].lock = h /\ idem[k].status = "PROCESSING"
    BY <1>2, HeldKey, RecordType DEF IdemInv
  <2>2. idem' = [idem EXCEPT ![k].status = s, ![k].lock = NoHandler]
    BY <1>2 DEF SetHeld
  <2>3. /\ idem'[k] \in Record /\ idem'[k].status = s /\ idem'[k].lock = NoHandler
        /\ idem'[k].request = idem[k].request
        /\ \A j \in Keys \ {k} : idem'[j] = idem[j]
    BY <2>1, <2>2 DEF IdemInv, IdemTypeOK, Record, Unsettled, Final
  <2>4. IdemTypeOK'
    BY <2>1, <2>2, <2>3 DEF IdemInv, IdemTypeOK, Attempt, Close
  <2>5. \A j \in Keys : Recorded(j)' <=> Recorded(j)
    BY <2>1, <2>3, <2>4, RecordType DEF Recorded, Record, NoRecord, Unsettled, Final
  <2>6. \A q \in Intents : Blocking(q)' \subseteq Blocking(q)
    BY <2>1, <2>3, <2>5 DEF Blocking, Unsettled, Recorded
  <2>7. OneUnsettledPerIntent'
    BY <2>6 DEF IdemInv, OneUnsettledPerIntent
  <2>8. HeldByExecutor'
    BY <2>1, <2>3, <2>5, IdempotencyAssumption
    DEF IdemInv, IdemTypeOK, Attempt, HeldByExecutor, Close, Record
  <2> QED BY <2>4, <2>7, <2>8 DEF IdemInv
<1> QED BY <1>1, <1>2

LEMMA BeginKeeps ==
  ASSUME IdemInv, NEW h \in Handlers, NEW q \in Requests, BeginSteps(h, q)
  PROVE  IdemInv'
<1> DEFINE k == attempt[h].key
<1>1. CASE BeginExecute(h, q)
  <2>1. k \in Keys /\ ~Recorded(k) /\ Blocking(IntentOf[q]) \ {k} = {}
    BY <1>1 DEF BeginExecute, IdemInv, IdemTypeOK, Attempt
  <2>2. /\ idem'[k] = [status |-> "PROCESSING", request |-> q, lock |-> h]
        /\ idem'[k] \in Record
        /\ \A j \in Keys \ {k} : idem'[j] = idem[j]
    BY <1>1, <2>1 DEF BeginExecute, IdemInv, IdemTypeOK, Record, Unsettled
  <2>3. IdemTypeOK'
    BY <1>1, <2>1, <2>2 DEF BeginExecute, IdemInv, IdemTypeOK, Attempt
  <2>4. \A i \in Intents : Blocking(i)' \subseteq Blocking(i) \cup {k}
    BY <2>2 DEF Blocking, Recorded
  <2>5. \A i \in Intents : i # IntentOf[q] => Blocking(i)' \subseteq Blocking(i)
    BY <2>2 DEF Blocking, Recorded
  <2>6. OneUnsettledPerIntent'
    BY <2>1, <2>4, <2>5 DEF IdemInv, OneUnsettledPerIntent
  <2>7. HeldByExecutor'
    BY <1>1, <2>1, <2>2, IdempotencyAssumption
    DEF BeginExecute, IdemInv, IdemTypeOK, Attempt, HeldByExecutor, Recorded, NoRecord
  <2> QED BY <2>3, <2>6, <2>7 DEF IdemInv
<1>2. CASE BeginReplay(h, q) \/ BeginRefused(h, q)
  BY <1>2, CloseKeeps DEF BeginReplay, BeginRefused
<1> QED BY <1>1, <1>2 DEF BeginSteps

LEMMA AbandonKeeps ==
  ASSUME IdemInv, NEW h \in Handlers, AbandonBeforeProvider(h)
  PROVE  IdemInv'
<1> DEFINE k == attempt[h].key
<1>1. CASE ~Holds(h)
  BY <1>1, CloseKeeps DEF AbandonBeforeProvider
<1>2. CASE Holds(h)
  <2>1. k \in Keys /\ idem' = [idem EXCEPT ![k] = NoRecord]
    BY <1>2, HeldKey DEF AbandonBeforeProvider
  <2>2. idem'[k] = NoRecord /\ \A j \in Keys \ {k} : idem'[j] = idem[j]
    BY <2>1 DEF IdemInv, IdemTypeOK
  <2>3. IdemTypeOK'
    BY <2>1 DEF AbandonBeforeProvider, IdemInv, IdemTypeOK, Attempt, Close
  <2>4. \A i \in Intents : Blocking(i)' \subseteq Blocking(i)
    BY <2>2 DEF Blocking, Recorded
  <2>5. OneUnsettledPerIntent'
    BY <2>4 DEF IdemInv, OneUnsettledPerIntent
  <2>6. HeldByExecutor'
    BY <2>2 DEF AbandonBeforeProvider, IdemInv, IdemTypeOK, Attempt, HeldByExecutor, Close,
                Recorded
  <2> QED BY <2>3, <2>5, <2>6 DEF IdemInv
<1> QED BY <1>1, <1>2

LEMMA ResolveKeeps ==
  ASSUME IdemInv, NEW k \in Keys, NEW s \in Final, ResolveAfterReconciliation(k, s)
  PROVE  IdemInv'
<1>1. Recorded(k) /\ idem[k] \in Record
  BY RecordType DEF IdemInv, ResolveAfterReconciliation
<1>2. /\ idem'[k] = [idem[k] EXCEPT !.status = s, !.lock = NoHandler]
      /\ \A j \in Keys \ {k} : idem'[j] = idem[j]
  BY <1>1 DEF IdemInv, IdemTypeOK, ResolveAfterReconciliation
<1>3. idem'[k] \in Record /\ idem'[k].status = s /\ idem'[k].lock = NoHandler
  BY <1>1, <1>2 DEF Record
<1>4. IdemTypeOK'
  BY <1>3 DEF IdemInv, IdemTypeOK, ResolveAfterReconciliation
<1>5. \A q \in Intents : Blocking(q)' \subseteq Blocking(q)
  BY <1>2, <1>3 DEF Blocking, Recorded, Unsettled, Final
<1>6. OneUnsettledPerIntent'
  BY <1>5 DEF IdemInv, OneUnsettledPerIntent
<1>7. HeldByExecutor'
  BY <1>2, <1>3 DEF IdemInv, HeldByExecutor, ResolveAfterReconciliation, Recorded, Final
<1> QED BY <1>4, <1>6, <1>7 DEF IdemInv

LEMMA IdemStepKeeps == IdemInv /\ [IdemNext]_idemVars => IdemInv'
<1> SUFFICES ASSUME IdemInv, [IdemNext]_idemVars PROVE IdemInv'
  OBVIOUS
<1>1. ASSUME NEW h \in Handlers, HolderSteps(h) PROVE IdemInv'
  <2>1. ASSUME NEW answer \in Answers, Complete(h, answer) PROVE IdemInv'
    <3>1. mapProviderStatus(answer) \in {"SUCCESS", "FAILED", "PENDING", "UNKNOWN"}
      BY DEF mapProviderStatus
    <3> QED BY <2>1, <3>1, SetHeldKeeps DEF Complete
  <2>2. CASE IdemMarkUnknown(h)
    BY <2>2, SetHeldKeeps DEF IdemMarkUnknown
  <2>3. CASE Lose(h)
    BY <2>3, CloseKeeps DEF Lose
  <2> QED BY <1>1, <2>1, <2>2, <2>3, AbandonKeeps DEF HolderSteps
<1>2. CASE UNCHANGED idemVars
  BY <1>2 DEF idemVars, IdemInv, IdemTypeOK, OneUnsettledPerIntent, Blocking, HeldByExecutor,
              Recorded
<1> QED BY <1>1, <1>2, BeginKeeps, ResolveKeeps DEF IdemNext

LEMMA IdemInitInv == IdemInit => IdemInv
  BY DEF IdemInit, IdemInv, IdemTypeOK, Attempt, OneUnsettledPerIntent, Blocking,
         HeldByExecutor, Recorded

LEMMA IdemInvariance == IdemSpec => []IdemInv
  BY IdemInitInv, IdemStepKeeps, PTL DEF IdemSpec

(* Two parallel requests cannot both hold one financial intent. *)
THEOREM IntentIsExclusive == IdemSpec => []OneUnsettledPerIntent
<1>1. IdemInv => OneUnsettledPerIntent
  BY DEF IdemInv
<1> QED BY IdemInvariance, <1>1, PTL

(* A record in PROCESSING is held by the handler that created it. *)
THEOREM LockIsHeld == IdemSpec => []HeldByExecutor
<1>1. IdemInv => HeldByExecutor
  BY DEF IdemInv
<1> QED BY IdemInvariance, <1>1, PTL

(* A record that left PROCESSING is never executed again, and a final      *)
(* record never changes.                                                   *)
THEOREM ProviderNotCalledAgain == IdemSpec => NeverReopened
<1> DEFINE Step(k) ==
      /\ Recorded(k) /\ idem[k].status # "PROCESSING" =>
           /\ idem'[k] # NoRecord
           /\ idem'[k].status # "PROCESSING"
           /\ idem'[k].request = idem[k].request
      /\ Recorded(k) /\ idem[k].status \in Final => idem'[k] = idem[k]
<1>1. ASSUME IdemInv, IdemNext, NEW k \in Keys PROVE Step(k)
  <2>1. Recorded(k) <=> idem[k] \in Record
    BY <1>1, RecordType DEF IdemInv
  <2>2. CASE idem'[k] = idem[k]
    BY <2>2 DEF Recorded
  <2>3. ASSUME NEW h \in Handlers, Holds(h) PROVE attempt[h].key = k => idem[k].status = "PROCESSING"
    BY <1>1, <2>3, HeldKey
  <2>4. ASSUME NEW h \in Handlers, HolderSteps(h) PROVE Step(k)
    <3>1. CASE ~Holds(h) \/ attempt[h].key # k
      <4>1. idem'[k] = idem[k]
        BY <1>1, <2>4, <3>1 DEF HolderSteps, Complete, IdemMarkUnknown, AbandonBeforeProvider,
                                Lose, SetHeld, IdemInv, IdemTypeOK, Attempt
      <4> QED BY <2>2, <4>1
    <3>2. CASE Holds(h) /\ attempt[h].key = k
      BY <2>3, <3>2 DEF Final
    <3> QED BY <3>1, <3>2
  <2>5. ASSUME NEW h \in Handlers, NEW q \in Requests, BeginSteps(h, q) PROVE Step(k)
    <3>1. Recorded(k) => idem'[k] = idem[k]
      BY <1>1, <2>5 DEF BeginSteps, BeginExecute, BeginReplay, BeginRefused, IdemInv, IdemTypeOK
    <3> QED BY <2>2, <3>1
  <2>6. ASSUME NEW j \in Keys, NEW s \in Final, ResolveAfterReconciliation(j, s) PROVE Step(k)
    <3>1. CASE j # k
      BY <1>1, <2>2, <2>6, <3>1 DEF ResolveAfterReconciliation, IdemInv, IdemTypeOK
    <3>2. CASE j = k
      <4>1. idem[k] \in Record /\ idem[k].status \in Unsettled
        BY <2>1, <2>6, <3>2 DEF ResolveAfterReconciliation
      <4>2. idem'[k] = [idem[k] EXCEPT !.status = s, !.lock = NoHandler]
        BY <1>1, <2>6, <3>2, <4>1 DEF ResolveAfterReconciliation, IdemInv, IdemTypeOK
      <4> QED BY <4>1, <4>2 DEF Record, Final, Unsettled, NoRecord
    <3> QED BY <3>1, <3>2
  <2> QED BY <1>1, <2>4, <2>5, <2>6 DEF IdemNext
<1>2. IdemInv /\ [IdemNext]_idemVars => [\A k \in Keys : Step(k)]_idemVars
  BY <1>1
<1> QED BY IdemInvariance, <1>2, PTL DEF IdemSpec, NeverReopened

-----------------------------------------------------------------------------
(* Withdrawals and deposits. *)

(* A handler that has not called the provider; one that will not any more; *)
(* one that was answered.                                                  *)
Early == {"Create", "Mark", "LocalFinalize", "LocalFlag", "LocalCompensate", "LocalUnknown",
          "Abandon", "Provider"}
AfterAnswer == {"Finalize", "Principal", "Flag", "Commission", "CommissionRetry", "Complete"}

(* A deposit that was reported FAILED before its provider call, and whose  *)
(* call was then made after all with another answer, is finding 1: what    *)
(* the first attempt refunded, the second completed.                       *)
Regular(k) == k \in CashDeposits /\ "FAILED" \in sent[k] => answers[k] \subseteq {"001"}

(* The provider reported a failure, or the handler of a deposit did so     *)
(* without calling it.                                                     *)
Failed(k) == Answered(k, "001") \/ (k \in CashDeposits /\ "FAILED" \in sent[k])

(* What a call that carries status s was told by the provider. *)
Told(k, s) ==
  \/ s = "SUCCESS" /\ Answered(k, "000")
  \/ s = "FAILED" /\ Failed(k)
  \/ s = "PENDING" /\ Answered(k, "002")
  \/ s = "UNKNOWN" /\ (Answered(k, "other") \/ Answered(k, "error"))

Uncertain(k) == answers[k] \cap {"002", "other", "error"} # {}
Earned(k) == Answered(k, "000") /\ (k \notin CashDeposits => "PRINCIPAL" \in entries[k])

Sendable(k, call) ==
  /\ call \in {"SUCCESS", "FAILED", "PENDING"} => Told(k, call)
  /\ call = "unknown" => Told(k, "UNKNOWN")
  /\ call = "settle" => Told(k, "SUCCESS")

(* One call, one answer, and only calls that follow from it are sent. *)
CallInv(k) ==
  /\ calls[k] <= 1
  /\ calls[k] = 0 <=> answers[k] = {}
  /\ \A x, y \in answers[k] : x = y
  /\ calls[k] > 0 => Recorded(k)
  /\ \A call \in sent[k] : Sendable(k, call)

(* A final record tells the provider's answer or an applied resolution. *)
RecordInv(k) ==
  Recorded(k) =>
  /\ idem[k].status = "SUCCESS" =>
       Answered(k, "000") \/ (Reconciled(k, "SUCCESS") /\ k \in resolved)
  /\ idem[k].status = "FAILED" =>
       Answered(k, "001") \/ (Reconciled(k, "FAILED") /\ k \in resolved)

(* A row's status was told or resolved, an uncertain one that was resolved *)
(* has nothing left to recover, and each entry was earned.                 *)
RowInv(k) ==
  /\ ptxn[k].status \in {"PENDING", "UNKNOWN"} => Told(k, ptxn[k].status)
  /\ ptxn[k].status \in Resolutions =>
       Told(k, ptxn[k].status) \/ Reconciled(k, ptxn[k].status)
  /\ ptxn[k].status \in Resolutions /\ Uncertain(k) /\ Regular(k) =>
       ptxn[k].settlement \notin {"PENDING", "RESERVED"}
  /\ ptxn[k].commission = "SETTLED" => Earned(k)
  /\ reconciliation[k].status # "NONE" => Uncertain(k)
  /\ reconciliation[k].status = "COMPLETED" => k \in resolved
  /\ "PRINCIPAL" \in entries[k] => k \notin CashDeposits /\ Answered(k, "000")
  /\ "COMPENSATE" \in entries[k] => k \in CashDeposits /\ Failed(k)
  /\ "RECON_SETTLE" \in entries[k] => k \notin CashDeposits /\ Reconciled(k, "SUCCESS")
  /\ "RECON_COMPENSATE" \in entries[k] => k \in CashDeposits /\ Reconciled(k, "FAILED")

(* What a worker is about to write was told, and stays so. *)
WorkInv(w) ==
  LET e == exec[w] IN
  /\ e.at = "FinalizeWrite" => Told(e.ref, e.arg)
  /\ e.at = "UnknownWrite" => Told(e.ref, "UNKNOWN")
  /\ e.at = "RecoverEffect" /\ e.arg = "SUCCESS" /\ e.ref \notin CashDeposits =>
       Answered(e.ref, "000")
  /\ e.at = "CommissionWrite" /\ e.arg = "SETTLED" => Earned(e.ref)
  /\ e.at = "RecoverClear" => e.arg # "SETTLED"

PendingSteps == {"ProcessingWrite", "FinalizeWrite", "UnknownWrite", "ConfirmWrite"}

(* A handler that has not called the provider holds the record of its key. *)
StandInv(h) ==
  LET k == KeyOf(h)
      at == flow[h].at
  IN
  /\ at = "Begin" <=> attempt[h].at = "New"
  /\ at \in Early => Recorded(k) /\ idem[k].lock = h /\ answers[k] = {}
  /\ at \in Early \cup {"Begin"} => ~flow[h].settled
  /\ at \in AfterAnswer => flow[h].answer \in Answers /\ Answered(k, flow[h].answer)
  /\ at \in {"ErrorRecord", "ErrorTrack"} => Answered(k, "error")
  /\ at \in {"LocalFinalize", "LocalFlag", "LocalCompensate"} => Deposit(h)
  /\ at = "Principal" => flow[h].answer = "000" \/ (flow[h].answer = "001" /\ Deposit(h))
  /\ flow[h].settled /\ flow[h].answer = "000" /\ ~Deposit(h) => "PRINCIPAL" \in entries[k]
  /\ exec[h].at \in {"Idle", "CommissionWrite"} \cup PendingSteps
  /\ exec[h].at \in PendingSteps =>
       /\ at \in {"Mark", "LocalFinalize", "Finalize", "ErrorTrack", "Principal", "Done"}
       /\ at = "Principal" => Deposit(h)
  /\ exec[h].at = "CommissionWrite" => at \in {"Commission", "CommissionRetry", "Done"}

(* What an admin asked for is what the claim holds. *)
AskInv(a) ==
  /\ admin[a].at \in {"Resolving", "Sync"} =>
       admin[a].ref \in Keys /\ Reconciled(admin[a].ref, admin[a].resolution)
  /\ admin[a].at = "Resolving" => exec[a].ref = admin[a].ref
  /\ admin[a].at = "Sync" => admin[a].ref \in resolved

CallsInv == \A k \in Keys : CallInv(k)
RecordsInv == \A k \in Keys : RecordInv(k)
TableInv == (\A k \in Keys : RowInv(k)) /\ (\A w \in Workers : WorkInv(w))
HandlersInv == \A h \in Handlers : StandInv(h)
AsksInv == \A a \in Admins : AskInv(a)

(* A worker that is at no step carries nothing. *)
RestInv == \A w \in Workers : exec[w].at = "Idle" => exec[w] = Idle

FlowInv ==
  /\ PtInv /\ IdemInv /\ FlowTypeOK /\ RestInv
  /\ CallsInv /\ RecordsInv /\ TableInv /\ HandlersInv /\ AsksInv

-----------------------------------------------------------------------------
(* Every step is a step of the rows or leaves them alone, and a step of    *)
(* the records or leaves them alone.                                       *)

LEMMA Actors ==
  /\ Keys = Refs /\ Handlers \subseteq Workers /\ Admins \subseteq Workers
  /\ Duplicates \subseteq Workers
  BY CashFlowAssumption

LEMMA HandlerKey ==
  ASSUME FlowInv, NEW h \in Handlers
  PROVE  KeyOf(h) \in Keys
  BY DEF FlowInv, IdemInv, IdemTypeOK, Attempt, KeyOf

(* A worker that is in the middle of something is at work on a row. *)
LEMMA WorkerRef ==
  ASSUME FlowInv, NEW w \in Workers, exec[w].at # "Idle"
  PROVE  exec[w].ref \in Refs
  BY DEF FlowInv, PtInv, ExecutionsBacked, Carried

LEMMA StopIsStep ==
  ASSUME NEW w \in Workers, Stop(w)
  PROVE  [PtNext]_ptVars
  BY DEF PtNext

LEMMA PendingWriteIsStep ==
  ASSUME FlowInv, NEW w \in Workers, PendingWrite(w)
  PROVE  PtNext
<1>1. exec[w].ref \in Refs
  BY WorkerRef DEF PendingWrite, MarkProcessingWrite, FinalizeWrite, MarkUnknownWrite, ConfirmWrite
<1> QED BY <1>1 DEF PendingWrite, PtNext, StatusSteps, PrincipalSteps

LEMMA CommissionWriteIsStep ==
  ASSUME FlowInv, NEW w \in Workers, CommissionWrite(w)
  PROVE  PtNext
<1>1. exec[w].ref \in Refs
  BY WorkerRef DEF CommissionWrite
<1> QED BY <1>1 DEF PtNext, CommissionSteps

LEMMA HandlerStepsTable ==
  ASSUME FlowInv, NEW h \in Handlers, HandlerNext(h) \/ Crash(h)
  PROVE  [PtNext]_ptVars
<1> DEFINE k == KeyOf(h)
<1>1. k \in Refs /\ h \in Workers
  BY Actors, HandlerKey
<1>2. ASSUME NEW q \in Requests, HandlerBegin(h, q) PROVE [PtNext]_ptVars
  BY <1>2 DEF HandlerBegin, ptVars
<1>3. CASE HandlerCall(h)
  <2>1. PtNext \/ UNCHANGED ptVars
    BY <1>1, <1>3 DEF HandlerCall, PtNext, CreateSteps, PrincipalSteps, StatusSteps
  <2> QED BY <2>1
<1>4. CASE HandlerCallRead(h)
  <2>1. flow[h].answer \in Answers => mapProviderTransactionStatus(flow[h].answer) \in
          {"SUCCESS", "FAILED", "PENDING"} \/ flow[h].answer = "other"
    BY DEF mapProviderTransactionStatus, Answers
  <2>2. flow[h].at = "Finalize" => flow[h].answer \in Answers
    BY DEF FlowInv, HandlersInv, StandInv, AfterAnswer
  <2> QED BY <1>1, <1>4, <2>1, <2>2 DEF HandlerCallRead, PtNext, StatusSteps, PrincipalSteps
<1>5. CASE HandlerCallWrite(h)
  BY <1>1, <1>5, PendingWriteIsStep, CommissionWriteIsStep, StopIsStep DEF HandlerCallWrite
<1>6. CASE HandlerCommission(h)
  <2>1. CommissionUpdates(h) \subseteq CommissionStatuses
    BY DEF CommissionUpdates, CommissionStatuses
  <2>2. ASSUME NEW s \in CommissionUpdates(h), CommissionRead(h, k, s) PROVE PtNext
    BY <1>1, <2>1, <2>2 DEF PtNext, CommissionSteps
  <2> QED BY <1>1, <1>6, <2>2, CommissionWriteIsStep, StopIsStep DEF HandlerCommission
<1>7. CASE \/ HandlerCallFails(h) \/ CallProvider(h) \/ HandlerComplete(h) \/ HandlerAbandon(h)
           \/ HandlerLocalUnknown(h) \/ HandlerErrorRecord(h) \/ Crash(h)
  BY <1>7 DEF HandlerCallFails, CallProvider, HandlerComplete, HandlerAbandon,
              HandlerLocalUnknown, HandlerErrorRecord, Crash, ptVars
<1> QED BY <1>2, <1>3, <1>4, <1>5, <1>6, <1>7 DEF HandlerNext

LEMMA DuplicateStepsTable ==
  ASSUME FlowInv, NEW d \in Duplicates, (\E k \in Keys : Redeliver(d, k)) \/ RedeliveredWrite(d)
  PROVE  PtNext
<1>1. d \in Workers /\ Keys = Refs
  BY Actors
<1>2. ASSUME NEW k \in Keys, Redeliver(d, k) PROVE PtNext
  BY <1>1, <1>2 DEF Redeliver, PtNext, StatusSteps, PrincipalSteps
<1>3. CASE RedeliveredWrite(d)
  BY <1>1, <1>3, PendingWriteIsStep DEF RedeliveredWrite, PtNext
<1> QED BY <1>2, <1>3

LEMMA AdminStepsTable ==
  ASSUME FlowInv, NEW a \in Admins, AdminNext(a)
  PROVE  [PtNext]_ptVars
<1>1. a \in Workers /\ Keys = Refs
  BY Actors
<1>2. ASSUME NEW k \in Keys, NEW s \in Resolutions, resolveProviderTransaction(a, k, s)
      PROVE  [PtNext]_ptVars
  BY <1>1, <1>2 DEF resolveProviderTransaction, PtNext, ResolveSteps
<1>3. ASSUME NEW k \in Keys, recoverProviderFinancialEffects(a, k) PROVE [PtNext]_ptVars
  BY <1>1, <1>3 DEF recoverProviderFinancialEffects, PtNext, RecoverSteps
<1>4. CASE AdminResolving(a)
  <2>1. CASE Stop(a)
    BY <1>1, <2>1, StopIsStep
  <2>2. CASE ResolveApply(a) \/ ResolveDuplicate(a) \/ ResolveAbort(a) \/ ResolveUndo(a)
    <3>1. exec[a].ref \in Refs
      BY <1>1, <2>2, WorkerRef DEF ResolveApply, ResolveDuplicate, ResolveAbort, ResolveUndo
    <3> QED BY <1>1, <2>2, <3>1 DEF PtNext, ResolveSteps
  <2> QED BY <1>4, <2>1, <2>2 DEF AdminResolving
<1>5. CASE syncIdempotencyAfterReconciliation(a)
  BY <1>5 DEF syncIdempotencyAfterReconciliation, ptVars
<1>6. CASE AdminRecovering(a)
  <2>1. CASE Stop(a)
    BY <1>1, <2>1, StopIsStep
  <2>2. CASE RecoverEffect(a) \/ RecoverConfirm(a) \/ RecoverVerify(a) \/ RecoverClear(a)
    <3>1. exec[a].ref \in Refs
      BY <1>1, <2>2, WorkerRef DEF RecoverEffect, RecoverConfirm, RecoverVerify, RecoverClear
    <3> QED BY <1>1, <2>2, <3>1 DEF PtNext, RecoverSteps
  <2> QED BY <1>6, <2>1, <2>2 DEF AdminRecovering
<1> QED BY <1>2, <1>3, <1>4, <1>5, <1>6 DEF AdminNext

LEMMA TableStep ==
  ASSUME FlowInv, [Next]_vars
  PROVE  [PtNext]_ptVars
  BY HandlerStepsTable, DuplicateStepsTable, AdminStepsTable DEF Next, vars

LEMMA RecordStep ==
  ASSUME FlowInv, [Next]_vars
  PROVE  [IdemNext]_idemVars
<1>1. ASSUME NEW h \in Handlers, HandlerNext(h) \/ Crash(h) PROVE [IdemNext]_idemVars
  <2>1. ASSUME NEW q \in Requests, HandlerBegin(h, q) PROVE IdemNext
    BY <2>1 DEF HandlerBegin, IdemNext, BeginSteps
  <2>2. CASE HandlerComplete(h)
    <3>1. flow[h].answer \in Answers
      BY <2>2 DEF HandlerComplete, FlowInv, HandlersInv, StandInv, AfterAnswer
    <3> QED BY <2>2, <3>1 DEF HandlerComplete, IdemNext, HolderSteps
  <2>3. CASE \/ HandlerAbandon(h) \/ HandlerLocalUnknown(h) \/ HandlerErrorRecord(h) \/ Crash(h)
    BY <2>3 DEF HandlerAbandon, HandlerLocalUnknown, HandlerErrorRecord, Crash, IdemNext, HolderSteps
  <2>4. CASE \/ HandlerCall(h) \/ HandlerCallRead(h) \/ HandlerCallWrite(h)
             \/ HandlerCallFails(h) \/ CallProvider(h) \/ HandlerCommission(h)
    BY <2>4 DEF HandlerCall, HandlerCallRead, HandlerCallWrite, HandlerCallFails, CallProvider,
                HandlerCommission
  <2> QED BY <1>1, <2>1, <2>2, <2>3, <2>4 DEF HandlerNext
<1>2. ASSUME NEW d \in Duplicates, (\E k \in Keys : Redeliver(d, k)) \/ RedeliveredWrite(d)
      PROVE  UNCHANGED idemVars
  BY <1>2 DEF Redeliver, RedeliveredWrite
<1>3. ASSUME NEW a \in Admins, AdminNext(a) PROVE [IdemNext]_idemVars
  <2>1. CASE syncIdempotencyAfterReconciliation(a)
    <3>1. admin[a].ref \in Keys /\ admin[a].resolution \in Final
      BY <2>1 DEF syncIdempotencyAfterReconciliation, FlowInv, AsksInv, AskInv, FlowTypeOK,
                  Resolutions, Final
    <3> QED BY <2>1, <3>1 DEF syncIdempotencyAfterReconciliation, IdemNext
  <2>2. CASE \/ \E k \in Keys, s \in Resolutions : resolveProviderTransaction(a, k, s)
             \/ \E k \in Keys : recoverProviderFinancialEffects(a, k)
             \/ AdminResolving(a) \/ AdminRecovering(a)
    BY <2>2 DEF resolveProviderTransaction, recoverProviderFinancialEffects, Ask, AdminResolving,
                AdminRecovering
  <2> QED BY <1>3, <2>1, <2>2 DEF AdminNext
<1> QED BY <1>1, <1>2, <1>3 DEF Next, vars

-----------------------------------------------------------------------------
(* What was told stays told while no provider call is made. *)

KeysKept == \A h \in Handlers : attempt'[h].key = attempt[h].key

Steady ==
  /\ KeysKept /\ UNCHANGED answers /\ resolved \subseteq resolved'
  /\ \A k \in Keys : sent[k] \subseteq sent'[k]

LEMMA FactsStay ==
  ASSUME Steady, NEW k \in Keys
  PROVE  /\ Regular(k)' => Regular(k)
         /\ Uncertain(k)' = Uncertain(k)
         /\ \A answer : Answered(k, answer)' = Answered(k, answer)
         /\ Failed(k) => Failed(k)'
         /\ \A s : Told(k, s) => Told(k, s)'
         /\ \A call : Sendable(k, call) => Sendable(k, call)'
<1>1. Regular(k)' => Regular(k)
  BY DEF Steady, Regular
<1>2. Uncertain(k)' = Uncertain(k) /\ \A answer : Answered(k, answer)' = Answered(k, answer)
  BY DEF Steady, Uncertain, Answered
<1>3. Failed(k) => Failed(k)'
  BY <1>2 DEF Steady, Failed
<1>4. ASSUME NEW s, Told(k, s) PROVE Told(k, s)'
  BY <1>2, <1>3, <1>4 DEF Told
<1>5. ASSUME NEW call, Sendable(k, call) PROVE Sendable(k, call)'
  BY <1>4, <1>5 DEF Sendable
<1> QED BY <1>1, <1>2, <1>3, <1>4, <1>5

(* The answer of an uncertain call is none of the provider's final ones. *)
LEMMA UncertainIsNotFinal ==
  ASSUME NEW k \in Keys, CallInv(k), Uncertain(k), Regular(k)
  PROVE  \A s \in Resolutions : ~Told(k, s)
<1>1. ~Answered(k, "000") /\ ~Answered(k, "001")
  BY DEF CallInv, Uncertain, Answered
<1>2. ~(k \in CashDeposits /\ "FAILED" \in sent[k])
  BY DEF Uncertain, Regular
<1> QED BY <1>1, <1>2 DEF Told, Failed, Resolutions

(* A row and a worker that a step leaves alone keep their facts. *)
LEMMA ReconciledStays ==
  ASSUME Grows, NEW k \in Keys, NEW s, Reconciled(k, s)
  PROVE  Reconciled(k, s)'
  BY Actors DEF Grows, Reconciled

LEMMA EarnedStays ==
  ASSUME Steady, Grows, NEW k \in Keys, Earned(k)
  PROVE  Earned(k)'
  BY Actors DEF Steady, Grows, Earned, Answered

LEMMA RowStays ==
  ASSUME Steady, Grows, NEW k \in Keys, RowInv(k),
         ptxn'[k] = ptxn[k], entries'[k] = entries[k], reconciliation'[k] = reconciliation[k]
  PROVE  RowInv(k)'
<1>1. \A s : Reconciled(k, s) => Reconciled(k, s)'
  BY ReconciledStays
<1>2. k \in resolved => k \in resolved'
  BY DEF Steady
<1> QED BY <1>1, <1>2, FactsStay, EarnedStays DEF RowInv

LEMMA WorkStays ==
  ASSUME FlowInv, Steady, Grows, NEW w \in Workers, WorkInv(w), exec'[w] = exec[w]
  PROVE  WorkInv(w)'
<1>1. CASE exec[w].at = "Idle"
  BY <1>1 DEF WorkInv
<1>2. CASE exec[w].at # "Idle"
  <2>1. exec[w].ref \in Keys
    BY <1>2, WorkerRef, Actors
  <2> QED BY <2>1, FactsStay, EarnedStays DEF WorkInv
<1> QED BY <1>1, <1>2

(* A step on row r by worker w. *)
LEMMA TableKept ==
  ASSUME FlowInv, Steady, Grows, NEW r \in Keys, NEW w \in Workers,
         \A k \in Keys \ {r} : /\ ptxn'[k] = ptxn[k] /\ entries'[k] = entries[k]
                               /\ reconciliation'[k] = reconciliation[k],
         \A v \in Workers \ {w} : exec'[v] = exec[v],
         RowInv(r)', WorkInv(w)'
  PROVE  TableInv'
<1>1. ASSUME NEW k \in Keys PROVE RowInv(k)'
  BY RowStays DEF FlowInv, TableInv
<1>2. ASSUME NEW v \in Workers PROVE WorkInv(v)'
  BY WorkStays DEF FlowInv, TableInv
<1> QED BY <1>1, <1>2 DEF TableInv

(* A step that only moves worker w. *)
LEMMA MoveKeepsTable ==
  ASSUME FlowInv, Steady, NEW w \in Workers, UNCHANGED <<ptxn, entries, reconciliation>>,
         \A v \in Workers \ {w} : exec'[v] = exec[v], WorkInv(w)'
  PROVE  TableInv' /\ Grows
<1>1. Grows
  BY DEF Grows
<1>2. ASSUME NEW k \in Keys PROVE RowInv(k)'
  BY <1>1, RowStays DEF FlowInv, TableInv
<1>3. ASSUME NEW v \in Workers PROVE WorkInv(v)'
  BY <1>1, WorkStays DEF FlowInv, TableInv
<1> QED BY <1>1, <1>2, <1>3 DEF TableInv

(* A step on row r that moves no worker. *)
LEMMA RowStepKeepsTable ==
  ASSUME FlowInv, Steady, Grows, NEW r \in Keys, UNCHANGED exec,
         \A k \in Keys \ {r} : /\ ptxn'[k] = ptxn[k] /\ entries'[k] = entries[k]
                               /\ reconciliation'[k] = reconciliation[k],
         RowInv(r)'
  PROVE  TableInv'
<1>1. ASSUME NEW k \in Keys PROVE RowInv(k)'
  BY RowStays DEF FlowInv, TableInv
<1>2. ASSUME NEW v \in Workers PROVE WorkInv(v)'
  BY WorkStays DEF FlowInv, TableInv
<1> QED BY <1>1, <1>2 DEF TableInv

LEMMA IdleWorks ==
  ASSUME NEW w \in Workers, exec'[w].at \in {"Idle", "ProcessingWrite", "ConfirmWrite", "ResolveApply",
         "ResolveUndo", "RecoverConfirm", "RecoverVerify"}
  PROVE  WorkInv(w)'
  BY DEF WorkInv

LEMMA Left ==
  ASSUME FlowInv, NEW w \in Workers, Leave(w)
  PROVE  exec'[w].at = "Idle" /\ \A v \in Workers \ {w} : exec'[v] = exec[v]
  BY DEF FlowInv, PtInv, TypeOK, Leave, Idle

-----------------------------------------------------------------------------
(* The handlers of the rows, one by one. *)

LEMMA CreateTable ==
  ASSUME FlowInv, Steady, NEW k \in Keys, CreateSteps(k)
  PROVE  TableInv' /\ Grows
<1> USE DEF CreateSteps, CreateProviderTransaction, PrepareProviderWalletDebit, Exists
<1>1. /\ ptxn \in [Keys -> PtxnRow] /\ entries \in [Keys -> SUBSET EntryKeys]
      /\ UNCHANGED <<reconciliation, exec>>
  BY Actors DEF FlowInv, PtInv, TypeOK
<1>2. Grows
  BY <1>1, Actors DEF Grows
<1>3. \A j \in Keys \ {k} : ptxn'[j] = ptxn[j] /\ entries'[j] = entries[j]
  BY <1>1
<1>4. CASE UNCHANGED <<ptxn, entries>>
  BY <1>1, <1>2, <1>4, RowStays, RowStepKeepsTable DEF FlowInv, TableInv
<1>5. CASE ~UNCHANGED <<ptxn, entries>>
  <2>1. /\ ptxn'[k].status = "INITIATED" /\ ptxn'[k].commission = ptxn[k].commission
        /\ \A e \in entries'[k] : e = "RESERVE" \/ e \in entries[k]
    BY <1>1, <1>5 DEF PtxnRow
  <2>2. RowInv(k)
    BY DEF FlowInv, TableInv
  <2>3. RowInv(k)'
    BY <1>1, <1>2, <2>1, <2>2, FactsStay, EarnedStays, ReconciledStays
    DEF RowInv, Resolutions, Steady
  <2> QED BY <1>1, <1>2, <1>3, <2>3, RowStepKeepsTable
<1> QED BY <1>4, <1>5

LEMMA FlagTable ==
  ASSUME FlowInv, Steady, NEW k \in Keys, MarkFinancialRecoveryRequired(k)
  PROVE  TableInv' /\ Grows
<1> USE DEF MarkFinancialRecoveryRequired
<1>1. /\ ptxn'[k].status = ptxn[k].status /\ ptxn'[k].settlement = ptxn[k].settlement
      /\ ptxn'[k].commission = ptxn[k].commission
      /\ \A j \in Keys \ {k} : ptxn'[j] = ptxn[j]
  BY Actors DEF FlowInv, PtInv, TypeOK, PtxnRow
<1>2. Grows
  BY DEF Grows
<1>3. RowInv(k) /\ UNCHANGED <<entries, reconciliation, exec>>
  BY DEF FlowInv, TableInv
<1>4. RowInv(k)'
  BY <1>1, <1>2, <1>3, FactsStay, EarnedStays, ReconciledStays DEF RowInv, Steady
<1> QED BY <1>1, <1>2, <1>3, <1>4, RowStepKeepsTable

(* A credit of the principal that was told, whoever posts it. *)
LEMMA PostSettleRow ==
  ASSUME FlowInv, Steady, NEW k \in Keys, PostSettle(k), Answered(k, "000"), UNCHANGED reconciliation
  PROVE  /\ Grows /\ RowInv(k)'
         /\ \A j \in Keys \ {k} : ptxn'[j] = ptxn[j] /\ entries'[j] = entries[j]
<1> USE DEF PostSettle, Settled
<1>1. ptxn \in [Keys -> PtxnRow] /\ entries \in [Keys -> SUBSET EntryKeys]
  BY Actors DEF FlowInv, PtInv, TypeOK
<1>2. /\ \A j \in Keys \ {k} : ptxn'[j] = ptxn[j] /\ entries'[j] = entries[j]
      /\ \A j \in Keys : entries[j] \subseteq entries'[j]
  BY <1>1
<1>3. Grows
  BY <1>2, Actors DEF Grows
<1>4. /\ k \notin CashDeposits
      /\ ptxn'[k].status = ptxn[k].status /\ ptxn'[k].commission = ptxn[k].commission
      /\ ptxn'[k].settlement \in {ptxn[k].settlement, "SETTLED"}
      /\ \A e \in entries'[k] : e = "PRINCIPAL" \/ e \in entries[k]
  BY <1>1 DEF PtxnRow
<1>5. RowInv(k)
  BY DEF FlowInv, TableInv
<1>6. RowInv(k)'
  BY <1>3, <1>4, <1>5, FactsStay, EarnedStays, ReconciledStays DEF RowInv, Steady
<1> QED BY <1>2, <1>3, <1>6

LEMMA SettleTable ==
  ASSUME FlowInv, Steady, NEW k \in Keys, SettlePrincipal(k), Answered(k, "000")
  PROVE  TableInv' /\ Grows
  BY PostSettleRow, RowStepKeepsTable DEF SettlePrincipal

(* A refund: a failed row that still holds the reservation was told so. *)
LEMMA PostCompensateRow ==
  ASSUME FlowInv, Steady, NEW k \in Keys, PostCompensate(k), UNCHANGED reconciliation
  PROVE  /\ Grows /\ RowInv(k)'
         /\ \A j \in Keys \ {k} : ptxn'[j] = ptxn[j] /\ entries'[j] = entries[j]
<1> USE DEF PostCompensate, Compensated
<1>1. ptxn \in [Keys -> PtxnRow] /\ entries \in [Keys -> SUBSET EntryKeys]
  BY Actors DEF FlowInv, PtInv, TypeOK
<1>2. /\ \A j \in Keys \ {k} : ptxn'[j] = ptxn[j] /\ entries'[j] = entries[j]
      /\ \A j \in Keys : entries[j] \subseteq entries'[j]
  BY <1>1
<1>3. Grows
  BY <1>2, Actors DEF Grows
<1>4. /\ k \in CashDeposits
      /\ ptxn'[k].status = ptxn[k].status /\ ptxn'[k].commission = ptxn[k].commission
      /\ ptxn'[k].settlement \in {ptxn[k].settlement, "COMPENSATED"}
      /\ \A e \in entries'[k] : e = "COMPENSATE" \/ e \in entries[k]
  BY <1>1 DEF PtxnRow
<1>5. RowInv(k) /\ ptxn[k].status = "FAILED" /\ ptxn[k].settlement = "RESERVED"
  BY DEF FlowInv, TableInv
<1>6. Failed(k)
  <2>1. Told(k, "FAILED") \/ (Uncertain(k) /\ ~Regular(k))
    BY <1>5 DEF RowInv, Resolutions, Reconciled
  <2> QED BY <1>4, <2>1 DEF Told, Failed, Regular
<1>7. RowInv(k)'
  BY <1>3, <1>4, <1>5, <1>6, FactsStay, EarnedStays, ReconciledStays DEF RowInv, Steady
<1> QED BY <1>2, <1>3, <1>7

LEMMA CompensateTable ==
  ASSUME FlowInv, Steady, NEW k \in Keys, CompensateDeposit(k)
  PROVE  TableInv' /\ Grows
  BY PostCompensateRow, RowStepKeepsTable DEF CompensateDeposit

-----------------------------------------------------------------------------
(* The reads: what is read was told. *)

LEMMA ProcessingReadTable ==
  ASSUME FlowInv, Steady, NEW w \in Workers, NEW k \in Keys, MarkProcessingRead(w, k)
  PROVE  TableInv' /\ Grows
<1>1. exec'[w].at = "ProcessingWrite" /\ \A v \in Workers \ {w} : exec'[v] = exec[v]
  BY DEF FlowInv, PtInv, TypeOK, Enter, MarkProcessingRead
<1> QED BY <1>1, IdleWorks, MoveKeepsTable DEF MarkProcessingRead

LEMMA FinalizeReadTable ==
  ASSUME FlowInv, Steady, NEW w \in Workers, NEW k \in Keys, NEW s, FinalizeRead(w, k, s), Told(k, s)'
  PROVE  TableInv' /\ Grows
<1>1. /\ exec'[w].at = "FinalizeWrite" /\ exec'[w].ref = k /\ exec'[w].arg = s
      /\ \A v \in Workers \ {w} : exec'[v] = exec[v]
  BY DEF FlowInv, PtInv, TypeOK, Enter, FinalizeRead
<1>2. WorkInv(w)'
  BY <1>1 DEF WorkInv
<1> QED BY <1>1, <1>2, MoveKeepsTable DEF FinalizeRead

LEMMA UnknownReadTable ==
  ASSUME FlowInv, Steady, NEW w \in Workers, NEW k \in Keys, MarkUnknownRead(w, k), Told(k, "UNKNOWN")
  PROVE  TableInv' /\ Grows
<1>1. /\ exec'[w].at = "UnknownWrite" /\ exec'[w].ref = k
      /\ \A v \in Workers \ {w} : exec'[v] = exec[v]
  BY DEF FlowInv, PtInv, TypeOK, Enter, MarkUnknownRead
<1>2. WorkInv(w)'
  BY <1>1, FactsStay DEF WorkInv
<1> QED BY <1>1, <1>2, MoveKeepsTable DEF MarkUnknownRead

LEMMA ConfirmReadTable ==
  ASSUME FlowInv, Steady, NEW w \in Workers, NEW k \in Keys, ConfirmRead(w, k)
  PROVE  TableInv' /\ Grows
<1>1. exec'[w].at = "ConfirmWrite" /\ \A v \in Workers \ {w} : exec'[v] = exec[v]
  BY DEF FlowInv, PtInv, TypeOK, Enter, ConfirmRead
<1> QED BY <1>1, IdleWorks, MoveKeepsTable DEF ConfirmRead

LEMMA CommissionReadTable ==
  ASSUME FlowInv, Steady, NEW w \in Workers, NEW k \in Keys, NEW s, CommissionRead(w, k, s),
         s = "SETTLED" => Earned(k)
  PROVE  TableInv' /\ Grows
<1>1. /\ exec'[w].at = "CommissionWrite" /\ exec'[w].ref = k /\ exec'[w].arg = s
      /\ \A v \in Workers \ {w} : exec'[v] = exec[v]
      /\ UNCHANGED <<ptxn, entries, reconciliation>>
  BY DEF FlowInv, PtInv, TypeOK, Enter, CommissionRead
<1>2. WorkInv(w)'
  BY <1>1, EarnedStays DEF WorkInv, Grows
<1> QED BY <1>1, <1>2, MoveKeepsTable

(* An uncertain withdrawal that was resolved needs no recovery, so that    *)
(* recovery pays only what the provider confirmed.                         *)
LEMMA RecoverStartTable ==
  ASSUME FlowInv, Steady, NEW w \in Workers, NEW k \in Keys, RecoverStart(w, k)
  PROVE  TableInv' /\ Grows
<1>1. /\ exec'[w].at = "RecoverEffect" /\ exec'[w].ref = k /\ exec'[w].arg = ptxn[k].status
      /\ \A v \in Workers \ {w} : exec'[v] = exec[v]
  BY DEF FlowInv, PtInv, TypeOK, Enter, RecoverStart
<1>2. ptxn[k].status = "SUCCESS" /\ k \notin CashDeposits => Answered(k, "000")
  <2>1. RowInv(k) /\ RecoveryRequired(k)
    BY DEF FlowInv, TableInv, RecoverStart
  <2> QED BY <2>1 DEF RowInv, RecoveryRequired, Reconciled, Regular, Told, Resolutions
<1>3. WorkInv(w)'
  BY <1>1, <1>2, FactsStay DEF WorkInv
<1> QED BY <1>1, <1>3, MoveKeepsTable DEF RecoverStart

LEMMA MovesTable ==
  ASSUME FlowInv, Steady, NEW w \in Workers, Stop(w) \/ ResolveDuplicate(w) \/ ResolveAbort(w)
  PROVE  TableInv' /\ Grows
<1>1. /\ UNCHANGED <<ptxn, entries, reconciliation>>
      /\ exec'[w].at \in {"Idle", "ResolveUndo"} /\ \A v \in Workers \ {w} : exec'[v] = exec[v]
  BY Left DEF Stop, ResolveDuplicate, ResolveAbort, FlowInv, PtInv, TypeOK, Execution
<1> QED BY <1>1, IdleWorks, MoveKeepsTable

-----------------------------------------------------------------------------
(* The writes, and the steps of reconciliation and recovery. *)

(* An update of row r that posts nothing, by worker w. *)
LEMMA WriteTable ==
  ASSUME FlowInv, Steady, NEW w \in Workers, NEW r \in Keys,
         \A k \in Keys \ {r} : ptxn'[k] = ptxn[k], UNCHANGED <<entries, reconciliation>>,
         \A v \in Workers \ {w} : exec'[v] = exec[v], WorkInv(w)',
         ptxn'[r].status \in {"PENDING", "UNKNOWN"} => Told(r, ptxn'[r].status),
         ptxn'[r].status \in Resolutions =>
           Told(r, ptxn'[r].status) \/ Reconciled(r, ptxn'[r].status),
         ptxn'[r].status \in Resolutions /\ Uncertain(r) /\ Regular(r) =>
           ptxn'[r].settlement \notin {"PENDING", "RESERVED"},
         ptxn'[r].commission = "SETTLED" => Earned(r)
  PROVE  TableInv' /\ Grows
<1>1. Grows
  BY DEF Grows
<1>2. RowInv(r)
  BY DEF FlowInv, TableInv
<1>3. RowInv(r)'
  BY <1>1, <1>2, FactsStay, EarnedStays, ReconciledStays DEF RowInv, Steady
<1> QED BY <1>1, <1>3, TableKept

(* What is known of the row a worker is about to write. *)
LEMMA WrittenRow ==
  ASSUME FlowInv, NEW w \in Workers, exec[w].at # "Idle"
  PROVE  /\ exec[w].ref \in Keys /\ RowInv(exec[w].ref) /\ WorkInv(w)
         /\ CallInv(exec[w].ref)
         /\ ptxn \in [Keys -> PtxnRow] /\ Carried(exec[w], entries, reconciliation)
<1>1. exec[w].ref \in Keys
  BY WorkerRef, Actors
<1> QED BY <1>1, Actors DEF FlowInv, TableInv, CallsInv, PtInv, TypeOK, ExecutionsBacked

LEMMA PendingWriteTable ==
  ASSUME FlowInv, Steady, NEW w \in Workers, PendingWrite(w)
  PROVE  TableInv' /\ Grows
<1> DEFINE r == exec[w].ref
<1>1. exec[w].at \in PendingSteps /\ exec[w].at # "Idle" /\ Leave(w)
      /\ UNCHANGED <<entries, reconciliation>>
  BY DEF PendingWrite, MarkProcessingWrite, FinalizeWrite, MarkUnknownWrite, ConfirmWrite,
         PendingSteps
<1>2. /\ r \in Keys /\ RowInv(r) /\ WorkInv(w) /\ CallInv(r) /\ ptxn \in [Keys -> PtxnRow]
      /\ Carried(exec[w], entries, reconciliation)
  BY <1>1, WrittenRow
<1>3. WorkInv(w)' /\ \A v \in Workers \ {w} : exec'[v] = exec[v]
  BY <1>1, Left, IdleWorks
<1>4. \A k \in Keys \ {r} : ptxn'[k] = ptxn[k]
  BY <1>2 DEF PendingWrite, MarkProcessingWrite, FinalizeWrite, MarkUnknownWrite, ConfirmWrite,
              Settled
<1>5. CASE MarkProcessingWrite(w)
  <2>1. ptxn'[r].status = "PROCESSING" /\ ptxn'[r].commission = ptxn[r].commission
    BY <1>2, <1>5 DEF MarkProcessingWrite, PtxnRow
  <2> QED BY <1>1, <1>2, <1>3, <1>4, <2>1, WriteTable DEF RowInv, Resolutions
<1>6. CASE FinalizeWrite(w)
  <2>1. ptxn'[r].status = exec[w].arg /\ ptxn'[r].commission = ptxn[r].commission
    BY <1>2, <1>6 DEF FinalizeWrite, PtxnRow
  <2>2. Told(r, exec[w].arg) /\ exec[w].arg # "UNKNOWN"
    BY <1>1, <1>2, <1>6 DEF FinalizeWrite, WorkInv, Carried, Resolutions
  <2>3. ~(exec[w].arg \in Resolutions /\ Uncertain(r) /\ Regular(r))
    BY <1>2, <2>2, UncertainIsNotFinal
  <2> QED BY <1>1, <1>2, <1>3, <1>4, <2>1, <2>2, <2>3, WriteTable DEF RowInv
<1>7. CASE MarkUnknownWrite(w)
  <2>1. ptxn'[r].status = "UNKNOWN" /\ ptxn'[r].commission = ptxn[r].commission
    BY <1>2, <1>7 DEF MarkUnknownWrite, PtxnRow
  <2>2. Told(r, "UNKNOWN")
    BY <1>2, <1>7 DEF MarkUnknownWrite, WorkInv
  <2> QED BY <1>1, <1>2, <1>3, <1>4, <2>1, <2>2, WriteTable DEF RowInv, Resolutions
<1>8. CASE ConfirmWrite(w)
  <2>1. /\ ptxn'[r].status = ptxn[r].status /\ ptxn'[r].commission = ptxn[r].commission
        /\ ptxn'[r].settlement = "SETTLED"
    BY <1>2, <1>8 DEF ConfirmWrite, Settled, PtxnRow
  <2> QED BY <1>1, <1>2, <1>3, <1>4, <2>1, WriteTable DEF RowInv
<1> QED BY <1>5, <1>6, <1>7, <1>8 DEF PendingWrite

LEMMA CommissionWriteTable ==
  ASSUME FlowInv, Steady, NEW w \in Workers, CommissionWrite(w)
  PROVE  TableInv' /\ Grows
<1> DEFINE r == exec[w].ref
<1>1. r \in Keys /\ RowInv(r) /\ WorkInv(w) /\ ptxn \in [Keys -> PtxnRow]
  BY WrittenRow DEF CommissionWrite
<1>2. WorkInv(w)' /\ \A v \in Workers \ {w} : exec'[v] = exec[v]
  BY Left, IdleWorks DEF CommissionWrite
<1>3. /\ \A k \in Keys \ {r} : ptxn'[k] = ptxn[k]
      /\ ptxn'[r].status = ptxn[r].status /\ ptxn'[r].settlement = ptxn[r].settlement
      /\ ptxn'[r].commission = exec[w].arg
  BY <1>1 DEF CommissionWrite, PtxnRow
<1>4. exec[w].arg = "SETTLED" => Earned(r)
  BY <1>1 DEF CommissionWrite, WorkInv
<1> QED BY <1>1, <1>2, <1>3, <1>4, WriteTable DEF RowInv, CommissionWrite

(* A transaction is only claimed while its provider call is uncertain. *)
LEMMA ClaimTable ==
  ASSUME FlowInv, Steady, NEW w \in Workers, NEW r \in Keys, NEW s \in Resolutions,
         ResolveClaim(w, r, s)
  PROVE  TableInv' /\ Grows /\ Reconciled(r, s)' /\ exec'[w].ref = r
<1>1. /\ reconciliation'[r] = [status |-> "PROCESSING", resolution |-> s]
      /\ \A k \in Keys \ {r} : reconciliation'[k] = reconciliation[k]
      /\ exec'[w].at = "ResolveApply" /\ exec'[w].ref = r
      /\ \A v \in Workers \ {w} : exec'[v] = exec[v]
  BY Actors DEF ResolveClaim, Enter, FlowInv, PtInv, TypeOK
<1>2. Grows
  BY <1>1, Actors DEF Grows, ResolveClaim
<1>3. RowInv(r) /\ Uncertain(r)
  BY DEF FlowInv, TableInv, RowInv, ResolveClaim, Told, Uncertain, Answered
<1>4. RowInv(r)'
  BY <1>1, <1>2, <1>3, FactsStay, EarnedStays, ReconciledStays DEF RowInv, Steady, ResolveClaim
<1>5. Reconciled(r, s)'
  BY <1>1 DEF Reconciled
<1> QED BY <1>1, <1>2, <1>4, <1>5, IdleWorks, TableKept DEF ResolveClaim

LEMMA ApplyTable ==
  ASSUME FlowInv, Steady, NEW w \in Workers, ResolveApply(w), exec[w].ref \in resolved'
  PROVE  TableInv' /\ Grows
<1>1. PICK r \in Keys :
        /\ r = exec[w].ref /\ RowInv(r) /\ ptxn \in [Keys -> PtxnRow]
        /\ Carried(exec[w], entries, reconciliation)
  BY WrittenRow DEF ResolveApply
<1>2. PICK s \in Resolutions : s = exec[w].arg /\ Reconciled(r, s)
  BY <1>1 DEF ResolveApply, Carried, Reconciled
<1>3. /\ entries \in [Keys -> SUBSET EntryKeys] /\ reconciliation \in [Keys -> ReconciliationRow]
  BY Actors DEF FlowInv, PtInv, TypeOK
<1>4. /\ \A k \in Keys \ {r} : /\ ptxn'[k] = ptxn[k] /\ entries'[k] = entries[k]
                               /\ reconciliation'[k] = reconciliation[k]
      /\ entries'[r] = entries[r] \cup ResolveEntry(r, s)
      /\ reconciliation'[r].status = "COMPLETED"
      /\ reconciliation'[r].resolution = reconciliation[r].resolution
      /\ ptxn'[r].status = s /\ ptxn'[r].settlement = ResolvedSettlement(r, s)
      /\ ptxn'[r].commission # "SETTLED"
  BY <1>1, <1>2, <1>3 DEF ResolveApply, ReconciliationRow
<1>5. Grows
  BY <1>3, <1>4, Actors DEF Grows
<1>6. WorkInv(w)' /\ \A v \in Workers \ {w} : exec'[v] = exec[v]
  BY Left, IdleWorks DEF ResolveApply
<1>7. \A t \in Resolutions : Reconciled(r, t)' <=> t = s
  BY <1>2, <1>4 DEF Reconciled
<1>8. Uncertain(r)
  BY <1>1, <1>2 DEF RowInv, Reconciled
<1>9. RowInv(r)'
  <2>1. /\ "RECON_SETTLE" \in ResolveEntry(r, s) => r \notin CashDeposits /\ s = "SUCCESS"
        /\ "RECON_COMPENSATE" \in ResolveEntry(r, s) => r \in CashDeposits /\ s = "FAILED"
        /\ "PRINCIPAL" \notin ResolveEntry(r, s) /\ "COMPENSATE" \notin ResolveEntry(r, s)
    BY DEF ResolveEntry
  <2>2. ResolvedSettlement(r, s) \notin {"PENDING", "RESERVED"}
    BY DEF ResolvedSettlement
  <2>3. /\ "RECON_SETTLE" \in entries[r] => s = "SUCCESS"
        /\ "RECON_COMPENSATE" \in entries[r] => s = "FAILED"
    BY <1>1, <1>2 DEF RowInv, Reconciled
  <2> QED BY <1>1, <1>2, <1>4, <1>7, <1>8, <2>1, <2>2, <2>3, FactsStay DEF RowInv, Resolutions
<1> QED BY <1>1, <1>4, <1>5, <1>6, <1>9, TableKept

LEMMA UndoTable ==
  ASSUME FlowInv, Steady, NEW w \in Workers, ResolveUndo(w)
  PROVE  TableInv' /\ Grows
<1>1. PICK r \in Keys :
        r = exec[w].ref /\ RowInv(r) /\ Carried(exec[w], entries, reconciliation)
  BY WrittenRow DEF ResolveUndo
<1>2. /\ \A k \in Keys \ {r} : reconciliation'[k] = reconciliation[k]
      /\ reconciliation'[r].status = "FAILED"
      /\ reconciliation'[r].resolution = reconciliation[r].resolution
      /\ reconciliation[r].status # "NONE"
  BY <1>1, Actors DEF ResolveUndo, Carried, FlowInv, PtInv, TypeOK, ReconciliationRow
<1>3. Grows
  BY <1>1, <1>2, Actors DEF Grows, ResolveUndo
<1>4. \A s \in Resolutions : Reconciled(r, s)' <=> Reconciled(r, s)
  BY <1>2 DEF Reconciled
<1>5. RowInv(r)'
  BY <1>1, <1>2, <1>3, <1>4, FactsStay, EarnedStays DEF RowInv, ResolveUndo, Resolutions
<1>6. WorkInv(w)' /\ \A v \in Workers \ {w} : exec'[v] = exec[v]
  BY Left, IdleWorks DEF ResolveUndo
<1> QED BY <1>1, <1>2, <1>3, <1>5, <1>6, TableKept DEF ResolveUndo

(* What recovery does next, wherever it stands. *)
LEMMA RecoveredTo ==
  ASSUME FlowInv, NEW w \in Workers, NEW step \in {"RecoverConfirm", "RecoverVerify"},
         RecoverTo(w, step)
  PROVE  WorkInv(w)' /\ \A v \in Workers \ {w} : exec'[v] = exec[v]
<1>1. exec'[w].at = step /\ \A v \in Workers \ {w} : exec'[v] = exec[v]
  BY DEF RecoverTo, FlowInv, PtInv, TypeOK, Execution
<1> QED BY <1>1, IdleWorks

LEMMA RecoverEffectTable ==
  ASSUME FlowInv, Steady, NEW w \in Workers, RecoverEffect(w)
  PROVE  TableInv' /\ Grows
<1> DEFINE r == exec[w].ref
<1>1. r \in Keys /\ RowInv(r) /\ WorkInv(w) /\ ptxn \in [Keys -> PtxnRow]
  BY WrittenRow DEF RecoverEffect
<1>2. WorkInv(w)' /\ \A v \in Workers \ {w} : exec'[v] = exec[v]
  BY RecoveredTo DEF RecoverEffect
<1>3. CASE exec[w].arg = "SUCCESS" /\ r \notin CashDeposits
  <2>1. Answered(r, "000") /\ PostSettle(r) /\ UNCHANGED reconciliation
    BY <1>1, <1>3 DEF RecoverEffect, WorkInv
  <2> QED BY <1>1, <1>2, <2>1, PostSettleRow, TableKept
<1>4. CASE exec[w].arg # "SUCCESS" /\ r \in CashDeposits
  <2>1. PostCompensate(r) /\ UNCHANGED reconciliation
    BY <1>4 DEF RecoverEffect
  <2> QED BY <1>1, <1>2, <2>1, PostCompensateRow, TableKept
<1>5. CASE exec[w].arg # "SUCCESS" /\ r \notin CashDeposits
  <2>1. /\ ptxn' = [ptxn EXCEPT ![r].settlement = "NOT_REQUIRED"]
        /\ UNCHANGED <<entries, reconciliation>>
    BY <1>5 DEF RecoverEffect
  <2>2. /\ \A k \in Keys \ {r} : ptxn'[k] = ptxn[k]
        /\ ptxn'[r].status = ptxn[r].status /\ ptxn'[r].commission = ptxn[r].commission
        /\ ptxn'[r].settlement = "NOT_REQUIRED"
    BY <1>1, <2>1 DEF PtxnRow
  <2> QED BY <1>1, <1>2, <2>1, <2>2, WriteTable DEF RowInv
<1>6. CASE exec[w].arg = "SUCCESS" /\ r \in CashDeposits
  <2>1. UNCHANGED <<ptxn, entries, reconciliation>>
    BY <1>6 DEF RecoverEffect
  <2> QED BY <1>2, <2>1, MoveKeepsTable
<1> QED BY <1>3, <1>4, <1>5, <1>6

LEMMA RecoverTable ==
  ASSUME FlowInv, Steady, NEW w \in Workers, RecoverConfirm(w) \/ RecoverVerify(w) \/ RecoverClear(w)
  PROVE  TableInv' /\ Grows
<1> DEFINE r == exec[w].ref
<1>1. r \in Keys /\ RowInv(r) /\ WorkInv(w) /\ ptxn \in [Keys -> PtxnRow]
  BY WrittenRow DEF RecoverConfirm, RecoverVerify, RecoverClear
<1>2. CASE RecoverConfirm(w)
  <2>1. /\ \A k \in Keys \ {r} : ptxn'[k] = ptxn[k]
        /\ ptxn'[r].status = ptxn[r].status /\ ptxn'[r].commission = ptxn[r].commission
        /\ ptxn'[r].settlement = "SETTLED"
    BY <1>1, <1>2 DEF RecoverConfirm, Settled, PtxnRow
  <2> QED BY <1>1, <1>2, <2>1, RecoveredTo, WriteTable DEF RecoverConfirm, RowInv
<1>3. CASE RecoverVerify(w)
  <2>1. exec'[w].at = "RecoverClear" /\ exec'[w].arg \in RecoveredCommission(r)
        /\ \A v \in Workers \ {w} : exec'[v] = exec[v]
    BY <1>3 DEF RecoverVerify, Enter, FlowInv, PtInv, TypeOK
  <2>2. "SETTLED" \notin RecoveredCommission(r)
    BY DEF RecoveredCommission
  <2>3. WorkInv(w)'
    BY <2>1, <2>2 DEF WorkInv
  <2> QED BY <1>3, <2>1, <2>3, MoveKeepsTable DEF RecoverVerify
<1>4. CASE RecoverClear(w)
  <2>1. WorkInv(w)' /\ \A v \in Workers \ {w} : exec'[v] = exec[v]
    BY <1>4, Left, IdleWorks DEF RecoverClear
  <2>2. exec[w].arg # "SETTLED"
    BY <1>1, <1>4 DEF RecoverClear, WorkInv
  <2>3. /\ \A k \in Keys \ {r} : ptxn'[k] = ptxn[k]
        /\ ptxn'[r].status = ptxn[r].status /\ ptxn'[r].settlement = ptxn[r].settlement
        /\ ptxn'[r].commission \in {ptxn[r].commission, exec[w].arg}
    BY <1>1, <1>4 DEF RecoverClear, PtxnRow
  <2> QED BY <1>1, <1>4, <2>1, <2>2, <2>3, WriteTable DEF RecoverClear, RowInv
<1> QED BY <1>2, <1>3, <1>4

-----------------------------------------------------------------------------
(* What a step leaves alone stays in order. *)

LEMMA CallStays ==
  ASSUME Steady, NEW k \in Keys, CallInv(k), UNCHANGED calls,
         calls[k] > 0 /\ Recorded(k) => Recorded(k)',
         \A call \in sent'[k] : call \in sent[k] \/ Sendable(k, call)'
  PROVE  CallInv(k)'
<1>1. answers'[k] = answers[k] /\ calls'[k] = calls[k]
  BY DEF Steady
<1>2. ASSUME NEW call \in sent'[k] PROVE Sendable(k, call)'
  BY <1>2, FactsStay DEF CallInv
<1> QED BY <1>1, <1>2 DEF CallInv

LEMMA RecordStays ==
  ASSUME Steady, Grows, NEW k \in Keys, RecordInv(k), idem'[k] = idem[k]
  PROVE  RecordInv(k)'
<1>1. \A s \in Resolutions : Reconciled(k, s) => Reconciled(k, s)'
  BY ReconciledStays
<1>2. \A answer : Answered(k, answer)' = Answered(k, answer)
  BY FactsStay
<1> QED BY <1>1, <1>2 DEF RecordInv, Recorded, Steady, Resolutions

LEMMA AskStays ==
  ASSUME FlowInv, Steady, Grows, NEW a \in Admins, AskInv(a), admin'[a] = admin[a],
         exec'[a] = exec[a]
  PROVE  AskInv(a)'
<1>1. admin[a].ref \in Keys /\ Reconciled(admin[a].ref, admin[a].resolution) =>
        Reconciled(admin[a].ref, admin[a].resolution)'
  BY ReconciledStays DEF Grows, Reconciled
<1> QED BY <1>1 DEF AskInv, Steady, Reconciled

LEMMA StandStays ==
  ASSUME FlowInv, Steady, Grows, NEW h \in Handlers, flow'[h] = flow[h], exec'[h] = exec[h],
         attempt'[h] = attempt[h],
         flow[h].at \in Early => idem'[KeyOf(h)] = idem[KeyOf(h)]
  PROVE  StandInv(h)'
<1>1. PICK k \in Keys : k = KeyOf(h) /\ KeyOf(h)' = k
  BY HandlerKey DEF KeyOf
<1>2. entries[k] \subseteq entries'[k] /\ answers'[k] = answers[k]
  BY Actors DEF Grows, Steady
<1>3. StandInv(h)
  BY DEF FlowInv, HandlersInv
<1> QED BY <1>1, <1>2, <1>3 DEF StandInv, Deposit, Answered, Recorded

(* A record is held by one handler. *)
LEMMA HolderOfKey ==
  ASSUME FlowInv, NEW h \in Handlers, Holds(h)
  PROVE  /\ KeyOf(h) \in Keys /\ Recorded(KeyOf(h)) /\ idem[KeyOf(h)].lock = h
         /\ idem[KeyOf(h)].status = "PROCESSING"
  BY HeldKey DEF FlowInv, KeyOf

LEMMA EarlyHolds ==
  ASSUME FlowInv, NEW h \in Handlers, flow[h].at \in Early
  PROVE  /\ KeyOf(h) \in Keys /\ Recorded(KeyOf(h)) /\ idem[KeyOf(h)].lock = h
         /\ answers[KeyOf(h)] = {}
         /\ \A g \in Handlers : flow[g].at \in Early /\ KeyOf(g) = KeyOf(h) => g = h
  BY HandlerKey DEF FlowInv, HandlersInv, StandInv

-----------------------------------------------------------------------------
(* Redelivered calls. *)

LEMMA RedeliverTable ==
  ASSUME FlowInv, Steady, NEW d \in Duplicates, NEW k \in Keys, Redeliver(d, k)
  PROVE  TableInv' /\ Grows
<1>1. d \in Workers /\ \A call \in sent[k] : Sendable(k, call)
  BY Actors DEF FlowInv, CallsInv, CallInv
<1>2. CASE "create" \in sent[k] /\ CreateSteps(k)
  BY <1>2, CreateTable
<1>3. CASE "mark" \in sent[k] /\ MarkProcessingRead(d, k)
  BY <1>1, <1>3, ProcessingReadTable
<1>4. ASSUME NEW s \in {"SUCCESS", "FAILED", "PENDING"} \cap sent[k], FinalizeRead(d, k, s)
      PROVE  TableInv' /\ Grows
  <2>1. Told(k, s)'
    BY <1>1, FactsStay DEF Sendable
  <2> QED BY <1>1, <1>4, <2>1, FinalizeReadTable
<1>5. CASE "unknown" \in sent[k] /\ MarkUnknownRead(d, k)
  <2>1. Told(k, "UNKNOWN")
    BY <1>1, <1>5 DEF Sendable
  <2> QED BY <1>1, <1>5, <2>1, UnknownReadTable
<1>6. CASE "flag" \in sent[k] /\ MarkFinancialRecoveryRequired(k)
  BY <1>6, FlagTable
<1>7. CASE "settle" \in sent[k] /\ SettlePrincipal(k)
  <2>1. Answered(k, "000")
    BY <1>1, <1>7 DEF Sendable, Told
  <2> QED BY <1>7, <2>1, SettleTable
<1>8. CASE "compensate" \in sent[k] /\ CompensateDeposit(k)
  BY <1>8, CompensateTable
<1>9. CASE "confirm" \in sent[k] /\ ConfirmRead(d, k)
  BY <1>1, <1>9, ConfirmReadTable
<1> QED BY <1>2, <1>3, <1>4, <1>5, <1>6, <1>7, <1>8, <1>9 DEF Redeliver

LEMMA DuplicateKeeps ==
  ASSUME FlowInv, NEW d \in Duplicates, (\E k \in Keys : Redeliver(d, k)) \/ RedeliveredWrite(d)
  PROVE  FlowTypeOK' /\ CallsInv' /\ RecordsInv' /\ TableInv' /\ HandlersInv' /\ AsksInv'
<1>1. /\ UNCHANGED <<idemVars, flow, admin, sent, answers, calls, resolved>>
      /\ redelivered' \in {redelivered, redelivered + 1}
  BY DEF Redeliver, RedeliveredWrite, flowVars
<1>2. Steady
  BY <1>1 DEF Steady, KeysKept, idemVars
<1>3. d \in Workers
  BY Actors
<1>4. TableInv' /\ Grows
  <2>1. CASE RedeliveredWrite(d)
    BY <1>2, <1>3, <2>1, PendingWriteTable, MovesTable DEF RedeliveredWrite
  <2> QED BY <1>2, <2>1, RedeliverTable
<1>5. \A w \in Workers \ {d} : exec'[w] = exec[w]
  BY DEF FlowInv, PtInv, TypeOK, Redeliver, RedeliveredWrite, CreateSteps, CreateProviderTransaction,
         PrepareProviderWalletDebit, MarkProcessingRead, FinalizeRead, MarkUnknownRead,
         MarkFinancialRecoveryRequired, SettlePrincipal, CompensateDeposit, ConfirmRead, Enter,
         PendingWrite, MarkProcessingWrite, FinalizeWrite, MarkUnknownWrite, ConfirmWrite, Stop, Leave
<1>6. /\ \A h \in Handlers : exec'[h] = exec[h]
      /\ \A a \in Admins : exec'[a] = exec[a]
  BY <1>5, CashFlowAssumption
<1>7. FlowTypeOK'
  BY <1>1 DEF FlowInv, FlowTypeOK
<1>8. ASSUME NEW k \in Keys PROVE CallInv(k)' /\ RecordInv(k)'
  BY <1>1, <1>2, <1>4, CallStays, RecordStays DEF FlowInv, CallsInv, RecordsInv, idemVars, Recorded
<1>9. ASSUME NEW h \in Handlers PROVE StandInv(h)'
  BY <1>1, <1>2, <1>4, <1>6, StandStays DEF idemVars
<1>10. ASSUME NEW a \in Admins PROVE AskInv(a)'
  BY <1>1, <1>2, <1>4, <1>6, AskStays DEF FlowInv, AsksInv
<1> QED BY <1>4, <1>7, <1>8, <1>9, <1>10 DEF CallsInv, RecordsInv, HandlersInv, AsksInv

-----------------------------------------------------------------------------
(* Admin requests. *)

LEMMA StillTable ==
  ASSUME FlowInv, Steady, UNCHANGED ptVars
  PROVE  TableInv' /\ Grows
<1>1. Grows
  BY DEF Grows, ptVars
<1>2. ASSUME NEW k \in Keys PROVE RowInv(k)'
  BY <1>1, RowStays DEF FlowInv, TableInv, ptVars
<1>3. ASSUME NEW w \in Workers PROVE WorkInv(w)'
  BY <1>1, WorkStays DEF FlowInv, TableInv, ptVars
<1> QED BY <1>1, <1>2, <1>3 DEF TableInv

LEMMA AdminSteady ==
  ASSUME FlowInv, NEW a \in Admins, AdminNext(a)
  PROVE  /\ Steady /\ UNCHANGED <<flow, sent, answers, calls, redelivered, attempt>>
         /\ \A b \in Admins \ {a} : admin'[b] = admin[b]
         /\ \A w \in Workers \ {a} : exec'[w] = exec[w]
         /\ admin' \in [Admins -> [at: {"Idle", "Resolving", "Sync", "Recovering"},
                                   ref: Keys \cup {NoRef}, resolution: Resolutions]]
         /\ resolved' \subseteq Keys
<1> USE DEF FlowInv, FlowTypeOK
<1>1. /\ UNCHANGED <<flow, sent, answers, calls, redelivered, attempt>>
      /\ \A b \in Admins \ {a} : admin'[b] = admin[b]
  BY DEF AdminNext, resolveProviderTransaction, recoverProviderFinancialEffects, Ask, AdminResolving,
         syncIdempotencyAfterReconciliation, AdminRecovering, AdminAt, AdminDone,
         ResolveAfterReconciliation, idemVars
<1>2. admin' \in [Admins -> [at: {"Idle", "Resolving", "Sync", "Recovering"},
                             ref: Keys \cup {NoRef}, resolution: Resolutions]]
  <2>1. NoAdmin \in [at: {"Idle", "Resolving", "Sync", "Recovering"},
                     ref: Keys \cup {NoRef}, resolution: Resolutions]
    BY DEF NoAdmin, Resolutions
  <2> QED BY <2>1 DEF AdminNext, resolveProviderTransaction, recoverProviderFinancialEffects, Ask,
                      AdminResolving, syncIdempotencyAfterReconciliation, AdminRecovering, AdminAt,
                      AdminDone, Resolutions
<1>3. \A w \in Workers \ {a} : exec'[w] = exec[w]
  BY DEF PtInv, TypeOK, AdminNext, resolveProviderTransaction, recoverProviderFinancialEffects, Ask,
         AdminResolving, syncIdempotencyAfterReconciliation, AdminRecovering, ResolveClaim,
         RecoverStart, Enter, Leave, ResolveApply, ResolveDuplicate, ResolveAbort, ResolveUndo, Stop,
         RecoverEffect, RecoverTo, RecoverConfirm, RecoverVerify, RecoverClear, ptVars
<1>4. resolved \subseteq resolved' /\ resolved' \subseteq Keys
  <2>1. ResolveApply(a) => exec[a].ref \in Keys
    BY Actors, WorkerRef DEF ResolveApply
  <2> QED BY <2>1 DEF AdminNext, resolveProviderTransaction, recoverProviderFinancialEffects, Ask,
                      AdminResolving, syncIdempotencyAfterReconciliation, AdminRecovering
<1>5. Steady
  BY <1>1, <1>4 DEF Steady, KeysKept
<1> QED BY <1>1, <1>2, <1>3, <1>4, <1>5

LEMMA AdminTable ==
  ASSUME FlowInv, Steady, NEW a \in Admins, AdminNext(a)
  PROVE  TableInv' /\ Grows
<1>1. a \in Workers
  BY Actors
<1>2. ASSUME NEW k \in Keys, NEW s \in Resolutions, resolveProviderTransaction(a, k, s)
      PROVE  TableInv' /\ Grows
  BY <1>1, <1>2, ClaimTable, StillTable DEF resolveProviderTransaction
<1>3. ASSUME NEW k \in Keys, recoverProviderFinancialEffects(a, k) PROVE TableInv' /\ Grows
  BY <1>1, <1>3, RecoverStartTable DEF recoverProviderFinancialEffects
<1>4. CASE AdminResolving(a)
  BY <1>1, <1>4, ApplyTable, UndoTable, MovesTable DEF AdminResolving
<1>5. CASE syncIdempotencyAfterReconciliation(a)
  BY <1>5, StillTable DEF syncIdempotencyAfterReconciliation
<1>6. CASE AdminRecovering(a)
  BY <1>1, <1>6, RecoverEffectTable, RecoverTable, MovesTable DEF AdminRecovering
<1> QED BY <1>2, <1>3, <1>4, <1>5, <1>6 DEF AdminNext

(* A resolve request goes on to the record only when it was applied. *)
LEMMA AdminAsks ==
  ASSUME FlowInv, Steady, Grows, NEW a \in Admins, AdminNext(a)
  PROVE  AskInv(a)'
<1> USE DEF FlowInv, FlowTypeOK
<1>1. a \in Workers /\ AskInv(a)
  BY Actors DEF AsksInv
<1>2. ASSUME NEW k \in Keys, NEW s \in Resolutions, resolveProviderTransaction(a, k, s)
      PROVE  AskInv(a)'
  <2>1. CASE ResolveClaim(a, k, s) /\ Ask(a, "Resolving", k, s)
    <3>1. Reconciled(k, s)' /\ exec'[a].ref = k
      BY <1>1, <2>1, ClaimTable
    <3>2. admin'[a] = [at |-> "Resolving", ref |-> k, resolution |-> s]
      BY <2>1 DEF Ask
    <3> QED BY <3>1, <3>2 DEF AskInv, Reconciled
  <2>2. CASE /\ reconciliation[k].status = "COMPLETED" /\ reconciliation[k].resolution = s
             /\ UNCHANGED ptVars /\ Ask(a, "Sync", k, s)
    <3>1. k \in resolved'
      BY <2>2 DEF TableInv, RowInv, Steady
    <3>2. admin'[a] = [at |-> "Sync", ref |-> k, resolution |-> s]
      BY <2>2 DEF Ask
    <3> QED BY <2>2, <3>1, <3>2 DEF AskInv, Reconciled, ptVars
  <2> QED BY <1>2, <2>1, <2>2 DEF resolveProviderTransaction
<1>3. ASSUME NEW k \in Keys, recoverProviderFinancialEffects(a, k) PROVE AskInv(a)'
  <2>1. admin'[a].at = "Recovering"
    BY <1>3 DEF recoverProviderFinancialEffects, Ask
  <2> QED BY <2>1 DEF AskInv
<1>4. CASE AdminDone(a)
  <2>1. admin'[a].at = "Idle"
    BY <1>4 DEF AdminDone, NoAdmin
  <2> QED BY <2>1 DEF AskInv
<1>5. CASE AdminResolving(a) /\ ~AdminDone(a)
  <2>1. PICK k \in Keys : k = admin[a].ref /\ exec[a].ref = k
    BY <1>1, <1>5 DEF AdminResolving, AskInv
  <2>2. PICK s \in Resolutions : s = admin[a].resolution /\ Reconciled(k, s)
    BY <1>1, <1>5, <2>1 DEF AdminResolving, AskInv
  <2>3. Reconciled(k, s)'
    BY <2>2, ReconciledStays
  <2>4. CASE ResolveAbort(a) /\ UNCHANGED admin
    <3>1. exec'[a].ref = k
      BY <1>1, <2>1, <2>4 DEF ResolveAbort, PtInv, TypeOK, Execution
    <3> QED BY <1>5, <2>1, <2>2, <2>3, <2>4, <3>1 DEF AdminResolving, AskInv, Reconciled
  <2>5. CASE AdminAt(a, "Sync")
    <3>1. admin'[a].at = "Sync" /\ admin'[a].ref = k /\ admin'[a].resolution = s
      BY <2>1, <2>2, <2>5 DEF AdminAt
    <3>2. k \in resolved'
      BY <1>5, <2>1, <2>5 DEF AdminResolving, AdminAt, AdminDone, ResolveDuplicate, TableInv, RowInv, Steady, ResolveAbort,
             ResolveUndo, Stop
    <3> QED BY <2>3, <3>1, <3>2 DEF AskInv, Reconciled
  <2> QED BY <1>5, <2>4, <2>5 DEF AdminResolving
<1>6. CASE AdminRecovering(a) /\ ~AdminDone(a)
  BY <1>6 DEF AdminRecovering, AskInv
<1> QED BY <1>2, <1>3, <1>4, <1>5, <1>6 DEF AdminNext, syncIdempotencyAfterReconciliation

(* The record is settled with the resolution that was applied; no handler  *)
(* is about to call the provider for it.                                   *)
LEMMA SyncKeeps ==
  ASSUME FlowInv, Steady, Grows, NEW k \in Keys, NEW s \in Resolutions,
         ResolveAfterReconciliation(k, s), Reconciled(k, s), k \in resolved
  PROVE  /\ RecordInv(k)' /\ Recorded(k)'
         /\ \A j \in Keys \ {k} : idem'[j] = idem[j]
         /\ \A h \in Handlers : flow[h].at \in Early => KeyOf(h) # k
<1>1. Recorded(k) /\ idem[k] \in Record
  BY RecordType DEF FlowInv, IdemInv, ResolveAfterReconciliation
<1>2. /\ idem'[k] = [idem[k] EXCEPT !.status = s, !.lock = NoHandler]
      /\ \A j \in Keys \ {k} : idem'[j] = idem[j]
  BY <1>1 DEF FlowInv, IdemInv, IdemTypeOK, ResolveAfterReconciliation
<1>3. idem'[k] \in Record /\ idem'[k].status = s
  BY <1>1, <1>2 DEF Record, Resolutions, Final
<1>4. Recorded(k)'
  BY <1>3 DEF Recorded, Record, NoRecord, Final, Unsettled
<1>5. Reconciled(k, s)'
  BY ReconciledStays
<1>6. RecordInv(k)'
  BY <1>3, <1>5 DEF RecordInv, Steady, Resolutions
<1>7. answers[k] # {}
  BY DEF FlowInv, TableInv, RowInv, Reconciled, Uncertain
<1> QED BY <1>2, <1>4, <1>6, <1>7, EarlyHolds

LEMMA AdminKeeps ==
  ASSUME FlowInv, NEW a \in Admins, AdminNext(a)
  PROVE  FlowTypeOK' /\ CallsInv' /\ RecordsInv' /\ TableInv' /\ HandlersInv' /\ AsksInv'
<1>1. /\ Steady /\ UNCHANGED <<flow, sent, answers, calls, redelivered, attempt>>
      /\ \A b \in Admins \ {a} : admin'[b] = admin[b]
      /\ \A w \in Workers \ {a} : exec'[w] = exec[w]
      /\ admin' \in [Admins -> [at: {"Idle", "Resolving", "Sync", "Recovering"},
                                ref: Keys \cup {NoRef}, resolution: Resolutions]]
      /\ resolved' \subseteq Keys
  BY AdminSteady
<1>2. TableInv' /\ Grows
  BY <1>1, AdminTable
<1>3. FlowTypeOK'
  BY <1>1 DEF FlowInv, FlowTypeOK
<1>4. \A h \in Handlers : exec'[h] = exec[h]
  BY <1>1, CashFlowAssumption
<1>5. AsksInv'
  <2>1. ASSUME NEW b \in Admins PROVE AskInv(b)'
    BY <1>1, <1>2, AdminAsks, AskStays, Actors DEF FlowInv, AsksInv
  <2> QED BY <2>1 DEF AsksInv
<1>6. CASE UNCHANGED idem
  <2>1. ASSUME NEW k \in Keys PROVE CallInv(k)' /\ RecordInv(k)'
    BY <1>1, <1>2, <1>6, CallStays, RecordStays DEF FlowInv, CallsInv, RecordsInv, Recorded
  <2>2. ASSUME NEW h \in Handlers PROVE StandInv(h)'
    BY <1>1, <1>2, <1>4, <1>6, StandStays
  <2> QED BY <1>2, <1>3, <1>5, <2>1, <2>2 DEF CallsInv, RecordsInv, HandlersInv
<1>7. CASE ~UNCHANGED idem
  <2>1. /\ admin[a].at = "Sync" /\ admin[a].ref \in Keys /\ admin[a].resolution \in Resolutions
        /\ ResolveAfterReconciliation(admin[a].ref, admin[a].resolution)
        /\ Reconciled(admin[a].ref, admin[a].resolution) /\ admin[a].ref \in resolved
    BY <1>7 DEF AdminNext, resolveProviderTransaction, recoverProviderFinancialEffects, Ask,
           AdminResolving, syncIdempotencyAfterReconciliation, AdminRecovering, idemVars,
           FlowInv, FlowTypeOK, AsksInv, AskInv
  <2>2. PICK k \in Keys :
          /\ RecordInv(k)' /\ Recorded(k)'
          /\ \A j \in Keys \ {k} : idem'[j] = idem[j]
          /\ \A h \in Handlers : flow[h].at \in Early => KeyOf(h) # k
    BY <1>1, <1>2, <2>1, SyncKeeps
  <2>3. ASSUME NEW j \in Keys PROVE CallInv(j)' /\ RecordInv(j)'
    <3>1. Recorded(j) => Recorded(j)'
      BY <2>2 DEF Recorded
    <3> QED BY <1>1, <1>2, <2>2, <3>1, CallStays, RecordStays DEF FlowInv, CallsInv, RecordsInv
  <2>4. ASSUME NEW h \in Handlers PROVE StandInv(h)'
    <3>1. flow[h].at \in Early => idem'[KeyOf(h)] = idem[KeyOf(h)]
      BY <2>2, HandlerKey
    <3> QED BY <1>1, <1>2, <1>4, <3>1, StandStays
  <2> QED BY <1>2, <1>3, <1>5, <2>3, <2>4 DEF CallsInv, RecordsInv, HandlersInv
<1> QED BY <1>6, <1>7

-----------------------------------------------------------------------------
(* A handler's own bookkeeping. *)

LEMMA AttemptSteps ==
  ASSUME FlowInv, NEW h \in Handlers, UNCHANGED idemVars \/ (\E q \in Requests : BeginSteps(h, q)) \/ HolderSteps(h)
  PROVE  /\ KeysKept /\ \A g \in Handlers \ {h} : attempt'[g] = attempt[g]
         /\ \A k \in Keys : idem'[k] # idem[k] => KeyOf(h) = k
         /\ \A g \in Handlers \ {h} : flow[g].at \in Early => idem'[KeyOf(g)] = idem[KeyOf(g)]
<1> USE DEF FlowInv, IdemInv, IdemTypeOK, Attempt
<1>1. KeysKept /\ \A g \in Handlers \ {h} : attempt'[g] = attempt[g]
  <2>1. \/ UNCHANGED attempt \/ Close(h)
        \/ attempt' = [attempt EXCEPT ![h].at = "Executing"]
    BY DEF BeginSteps, BeginExecute, BeginReplay, BeginRefused, HolderSteps, Complete,
           IdemMarkUnknown, AbandonBeforeProvider, Lose, idemVars
  <2> QED BY <2>1 DEF KeysKept, Close
<1>2. \A k \in Keys : idem'[k] # idem[k] => KeyOf(h) = k /\ (Holds(h) \/ ~Recorded(k))
  BY DEF BeginSteps, BeginExecute, BeginReplay, BeginRefused, HolderSteps, Complete,
         IdemMarkUnknown, AbandonBeforeProvider, Lose, SetHeld, Close, KeyOf, idemVars
<1>3. ASSUME NEW g \in Handlers \ {h}, flow[g].at \in Early PROVE idem'[KeyOf(g)] = idem[KeyOf(g)]
  BY <1>2, <1>3, EarlyHolds, HolderOfKey
<1> QED BY <1>1, <1>2, <1>3

(* Where a step of handler h takes it. *)
Stations == {"Begin", "Create", "Mark", "LocalFinalize", "LocalFlag", "LocalCompensate",
             "LocalUnknown", "Abandon", "Provider", "ErrorRecord", "ErrorTrack", "Finalize",
             "Principal", "Flag", "Commission", "CommissionRetry", "Complete", "Done"}

LEMMA FlowType ==
  ASSUME FlowInv, NEW h \in Handlers
  PROVE  /\ flow \in [Handlers -> [at: Stations, answer: Answers \cup {"none"}, settled: BOOLEAN]]
         /\ flow[h].at \in Stations /\ flow[h].answer \in Answers \cup {"none"}
         /\ flow[h].settled \in BOOLEAN
  BY DEF FlowInv, FlowTypeOK, Stations

LEMMA WentTo ==
  ASSUME FlowInv, NEW h \in Handlers, NEW at \in Stations, Goto(h, at)
  PROVE  /\ flow' \in [Handlers -> [at: Stations, answer: Answers \cup {"none"}, settled: BOOLEAN]]
         /\ flow'[h].at = at /\ flow'[h].answer = flow[h].answer
         /\ flow'[h].settled = flow[h].settled
         /\ \A g \in Handlers \ {h} : flow'[g] = flow[g]
  BY FlowType DEF Goto

(* What handler h may do on its own, with the records or by stopping. *)
OwnStep(h) ==
  \/ \E q \in Requests : HandlerBegin(h, q)
  \/ HandlerAbandon(h) \/ HandlerLocalUnknown(h) \/ HandlerErrorRecord(h) \/ HandlerComplete(h)
  \/ Crash(h)

LEMMA OwnSteps ==
  ASSUME FlowInv, NEW h \in Handlers, OwnStep(h)
  PROVE  /\ UNCHANGED <<ptVars, admin, sent, answers, calls, redelivered, resolved>>
         /\ UNCHANGED idemVars \/ (\E q \in Requests : BeginSteps(h, q)) \/ HolderSteps(h)
         /\ \E at \in {"Create", "ErrorTrack", "Done"} :
              /\ Goto(h, at)
              /\ at = "Create" => \E q \in Requests : BeginExecute(h, q)
              /\ at = "ErrorTrack" => flow[h].at = "ErrorRecord"
              /\ at = "Done" => attempt'[h].at = "Closed" \/ (UNCHANGED idemVars /\ flow[h].at # "Begin")
<1>1. flow[h].at = "Complete" => flow[h].answer \in Answers
  BY DEF FlowInv, HandlersInv, StandInv, AfterAnswer
<1> QED BY <1>1
    DEF OwnStep, HandlerBegin, HandlerAbandon, HandlerLocalUnknown, HandlerErrorRecord,
        HandlerComplete, Crash, BeginSteps, HolderSteps, Elsewhere, BeginExecute, BeginReplay,
        BeginRefused, Complete, IdemMarkUnknown, AbandonBeforeProvider, Lose, Close, FlowInv, IdemInv,
        IdemTypeOK, Attempt

(* The record of h's key after such a step. *)
LEMMA HeldRecord ==
  ASSUME FlowInv, NEW h \in Handlers, NEW k \in Keys, k = KeyOf(h),
         NEW s \in {"SUCCESS", "FAILED", "PENDING", "UNKNOWN"}, SetHeld(h, s)
  PROVE  /\ Recorded(k) => Recorded(k)'
         /\ idem'[k] # idem[k] => idem'[k].status = s
<1>1. CASE Holds(h)
  <2>1. idem[k] \in Record /\ idem' = [idem EXCEPT ![k].status = s, ![k].lock = NoHandler]
    BY <1>1, HolderOfKey, RecordType DEF SetHeld, KeyOf, FlowInv, IdemInv
  <2>2. idem'[k].status = s /\ idem'[k] \in Record
    BY <2>1 DEF FlowInv, IdemInv, IdemTypeOK, Record, Unsettled, Final
  <2> QED BY <2>2 DEF Recorded, Record, NoRecord, Unsettled, Final
<1> QED BY <1>1 DEF SetHeld, Recorded

LEMMA OwnRecord ==
  ASSUME FlowInv, Steady, Grows, NEW h \in Handlers, OwnStep(h), NEW k \in Keys, k = KeyOf(h)
  PROVE  /\ RecordInv(k)'
         /\ calls[k] > 0 /\ Recorded(k) => Recorded(k)'
<1>1. RecordInv(k) /\ CallInv(k)
  BY DEF FlowInv, RecordsInv, CallsInv
<1>2. CASE idem'[k] = idem[k]
  BY <1>1, <1>2, RecordStays DEF Recorded
<1>3. ASSUME NEW q \in Requests, BeginExecute(h, q) PROVE idem'[k].status = "PROCESSING" /\ ~Recorded(k)
  BY <1>3 DEF BeginExecute, FlowInv, IdemInv, IdemTypeOK, KeyOf
<1>4. CASE HandlerAbandon(h)
  <2>1. calls[k] = 0
    BY <1>1, <1>4, EarlyHolds DEF HandlerAbandon, Early, CallInv
  <2>2. idem'[k] = idem[k] \/ ~Recorded(k)'
    BY <1>4 DEF HandlerAbandon, AbandonBeforeProvider, Lose, KeyOf, FlowInv, IdemInv, IdemTypeOK, Recorded
  <2> QED BY <1>2, <2>1, <2>2 DEF RecordInv, FlowInv, FlowTypeOK
<1>5. CASE HandlerLocalUnknown(h) \/ HandlerErrorRecord(h)
  <2>1. idem' = idem \/ SetHeld(h, "UNKNOWN")
    BY <1>5 DEF HandlerLocalUnknown, HandlerErrorRecord, IdemMarkUnknown, Lose
  <2> QED BY <1>2, <2>1, HeldRecord DEF RecordInv
<1>6. CASE HandlerComplete(h)
  <2>1. PICK answer \in Answers :
          Answered(k, answer) /\ (idem' = idem \/ SetHeld(h, mapProviderStatus(answer)))
    BY <1>6 DEF HandlerComplete, Complete, Lose, FlowInv, HandlersInv, StandInv, AfterAnswer
  <2>2. /\ mapProviderStatus(answer) \in {"SUCCESS", "FAILED", "PENDING", "UNKNOWN"}
        /\ mapProviderStatus(answer) = "SUCCESS" => answer = "000"
        /\ mapProviderStatus(answer) = "FAILED" => answer = "001"
    BY DEF mapProviderStatus, Answers
  <2>3. Answered(k, answer)'
    BY <2>1 DEF Steady, Answered
  <2> QED BY <1>2, <2>1, <2>2, <2>3, HeldRecord DEF RecordInv
<1>7. CASE (\E q \in Requests : HandlerBegin(h, q)) \/ Crash(h)
  <2>1. idem' = idem \/ \E q \in Requests : BeginExecute(h, q)
    BY <1>7 DEF HandlerBegin, BeginReplay, BeginRefused, Crash, Lose, idemVars
  <2> QED BY <1>2, <1>3, <2>1 DEF RecordInv
<1> QED BY <1>4, <1>5, <1>6, <1>7 DEF OwnStep

LEMMA OwnStand ==
  ASSUME FlowInv, Steady, Grows, NEW h \in Handlers, OwnStep(h)
  PROVE  StandInv(h)'
<1>1. PICK k \in Keys : k = KeyOf(h) /\ KeyOf(h)' = k
  BY HandlerKey DEF Steady, KeysKept, KeyOf
<1>2. PICK at \in {"Create", "ErrorTrack", "Done"} :
        /\ Goto(h, at)
        /\ at = "Create" => \E q \in Requests : BeginExecute(h, q)
        /\ at = "ErrorTrack" => flow[h].at = "ErrorRecord"
        /\ at = "Done" => attempt'[h].at = "Closed" \/ (UNCHANGED idemVars /\ flow[h].at # "Begin")
  BY OwnSteps
<1>3. /\ flow'[h].at = at /\ flow'[h].answer = flow[h].answer /\ flow'[h].settled = flow[h].settled
  BY <1>2, WentTo DEF Stations
<1>4. StandInv(h) /\ UNCHANGED <<answers, entries, exec>> /\ CallInv(k)
  BY OwnSteps DEF FlowInv, HandlersInv, CallsInv, ptVars
<1>5. CASE at = "Create"
  <2>1. PICK q \in Requests : BeginExecute(h, q)
    BY <1>2, <1>5
  <2>2. /\ ~Recorded(k) /\ attempt[h].at = "New" /\ attempt'[h].at = "Executing"
        /\ idem'[k] = [status |-> "PROCESSING", request |-> q, lock |-> h]
    BY <1>1, <2>1 DEF BeginExecute, FlowInv, IdemInv, IdemTypeOK, KeyOf
  <2>3. Recorded(k)' /\ idem'[k].lock = h
    BY <2>2 DEF Recorded, NoRecord
  <2>4. answers'[k] = {}
    BY <1>4, <2>2 DEF CallInv, FlowInv, FlowTypeOK
  <2>5. ~flow'[h].settled /\ exec'[h].at = "Idle"
    BY <1>3, <1>4, <2>2 DEF StandInv
  <2> QED BY <1>1, <1>3, <1>5, <2>2, <2>3, <2>4, <2>5
          DEF StandInv, AfterAnswer, PendingSteps
<1>6. CASE at = "ErrorTrack"
  <2>1. attempt[h].at # "New" => attempt'[h].at # "New"
    BY OwnSteps DEF FlowInv, IdemInv, IdemTypeOK, Attempt, idemVars, BeginSteps, BeginExecute,
           BeginReplay, BeginRefused, HolderSteps, Complete, IdemMarkUnknown, AbandonBeforeProvider,
           Lose, Close
  <2> QED BY <1>1, <1>2, <1>3, <1>4, <1>6, <2>1 DEF StandInv, AfterAnswer, PendingSteps, Answered, Early,
                                                                  Deposit
<1>7. CASE at = "Done"
  <2>1. attempt'[h].at # "New"
    BY <1>2, <1>4, <1>7 DEF StandInv, idemVars
  <2> QED BY <1>1, <1>3, <1>4, <1>7, <2>1 DEF StandInv, AfterAnswer, Early, PendingSteps, Deposit
<1> QED BY <1>2, <1>5, <1>6, <1>7

LEMMA OwnKeeps ==
  ASSUME FlowInv, NEW h \in Handlers, OwnStep(h)
  PROVE  FlowTypeOK' /\ CallsInv' /\ RecordsInv' /\ TableInv' /\ HandlersInv' /\ AsksInv'
<1>1. /\ UNCHANGED <<ptVars, admin, sent, answers, calls, redelivered, resolved>>
      /\ UNCHANGED idemVars \/ (\E q \in Requests : BeginSteps(h, q)) \/ HolderSteps(h)
  BY OwnSteps
<1>2. PICK at \in {"Create", "ErrorTrack", "Done"} :
        /\ Goto(h, at)
        /\ at = "Create" => \E q \in Requests : BeginExecute(h, q)
        /\ at = "ErrorTrack" => flow[h].at = "ErrorRecord"
  BY OwnSteps
<1>3. /\ flow' \in [Handlers -> [at: Stations, answer: Answers \cup {"none"}, settled: BOOLEAN]]
      /\ flow'[h].at = at /\ \A g \in Handlers \ {h} : flow'[g] = flow[g]
  BY <1>2, WentTo DEF Stations
<1>4. /\ KeysKept /\ \A g \in Handlers \ {h} : attempt'[g] = attempt[g]
      /\ \A k \in Keys : idem'[k] # idem[k] => KeyOf(h) = k
      /\ \A g \in Handlers \ {h} : flow[g].at \in Early => idem'[KeyOf(g)] = idem[KeyOf(g)]
  BY <1>1, AttemptSteps
<1>5. Steady
  BY <1>1, <1>4 DEF Steady
<1>6. TableInv' /\ Grows
  BY <1>1, <1>5, StillTable
<1>7. FlowTypeOK'
  BY <1>1, <1>3 DEF FlowInv, FlowTypeOK, Stations
<1>8. ASSUME NEW k \in Keys PROVE CallInv(k)' /\ RecordInv(k)'
  <2>1. CASE k = KeyOf(h)
    BY <1>1, <1>5, <1>6, <2>1, OwnRecord, CallStays DEF FlowInv, CallsInv
  <2>2. CASE k # KeyOf(h)
    BY <1>1, <1>4, <1>5, <1>6, <2>2, RecordStays, CallStays
    DEF FlowInv, CallsInv, RecordsInv, Recorded
  <2> QED BY <2>1, <2>2
<1>9. ASSUME NEW g \in Handlers PROVE StandInv(g)'
  BY <1>1, <1>3, <1>4, <1>5, <1>6, OwnStand, StandStays DEF ptVars
<1>10. ASSUME NEW a \in Admins PROVE AskInv(a)'
  BY <1>1, <1>5, <1>6, AskStays DEF FlowInv, AsksInv, ptVars
<1> QED BY <1>6, <1>7, <1>8, <1>9, <1>10 DEF CallsInv, RecordsInv, HandlersInv, AsksInv

-----------------------------------------------------------------------------
(* The provider call.  Nobody else can be about to call the provider for   *)
(* the same key, and nothing was told of the key before.                   *)

LEMMA ProviderCalled ==
  ASSUME FlowInv, NEW h \in Handlers, CallProvider(h)
  PROVE  \E answer \in Answers \cup {"error"}, at \in {"Finalize", "ErrorRecord"} :
           /\ flow' \in [Handlers -> [at: Stations, answer: Answers \cup {"none"}, settled: BOOLEAN]]
           /\ flow'[h].at = at /\ flow'[h].settled = flow[h].settled
           /\ at = "Finalize" => answer \in Answers /\ flow'[h].answer = answer
           /\ at = "ErrorRecord" => answer = "error"
           /\ \A g \in Handlers \ {h} : flow'[g] = flow[g]
           /\ answers' \in [Keys -> SUBSET (Answers \cup {"error"})]
           /\ answers'[KeyOf(h)] = answers[KeyOf(h)] \cup {answer}
           /\ calls' \in [Keys -> Nat] /\ calls'[KeyOf(h)] = calls[KeyOf(h)] + 1
           /\ \A k \in Keys \ {KeyOf(h)} : answers'[k] = answers[k] /\ calls'[k] = calls[k]
<1>1. PICK k \in Keys : k = KeyOf(h)
  BY HandlerKey
<1>2. answers \in [Keys -> SUBSET (Answers \cup {"error"})] /\ calls \in [Keys -> Nat]
  BY DEF FlowInv, FlowTypeOK
<1>3. /\ calls' \in [Keys -> Nat] /\ calls'[k] = calls[k] + 1
      /\ \A j \in Keys \ {k} : calls'[j] = calls[j]
  BY <1>1, <1>2 DEF CallProvider
<1>4. ASSUME NEW answer \in Answers \cup {"error"}, answers' = [answers EXCEPT ![k] = @ \cup {answer}]
      PROVE  /\ answers' \in [Keys -> SUBSET (Answers \cup {"error"})]
             /\ answers'[k] = answers[k] \cup {answer}
             /\ \A j \in Keys \ {k} : answers'[j] = answers[j]
  BY <1>2, <1>4
<1>5. CASE Goto(h, "ErrorRecord") /\ answers' = [answers EXCEPT ![k] = @ \cup {"error"}]
  BY <1>1, <1>3, <1>4, <1>5, WentTo DEF Stations
<1>6. ASSUME NEW answer \in Answers,
             flow' = [flow EXCEPT ![h].at = "Finalize", ![h].answer = answer],
             answers' = [answers EXCEPT ![k] = @ \cup {answer}]
      PROVE  /\ flow' \in [Handlers -> [at: Stations, answer: Answers \cup {"none"}, settled: BOOLEAN]]
             /\ flow'[h].at = "Finalize" /\ flow'[h].settled = flow[h].settled
             /\ flow'[h].answer = answer /\ \A g \in Handlers \ {h} : flow'[g] = flow[g]
  BY <1>6, FlowType DEF Stations
<1> QED BY <1>1, <1>3, <1>4, <1>5, <1>6 DEF CallProvider

LEMMA ProviderFacts ==
  ASSUME FlowInv, NEW h \in Handlers, CallProvider(h), NEW k \in Keys
  PROVE  /\ Regular(k)' => Regular(k)
         /\ \A answer : Answered(k, answer) => Answered(k, answer)'
         /\ \A s : Told(k, s) => Told(k, s)'
         /\ \A call : Sendable(k, call) => Sendable(k, call)'
         /\ Earned(k) => Earned(k)'
         /\ k # KeyOf(h) => answers'[k] = answers[k] /\ calls'[k] = calls[k]
<1>1. /\ UNCHANGED <<ptVars, idemVars, sent>>
      /\ \A j \in Keys \ {KeyOf(h)} : answers'[j] = answers[j] /\ calls'[j] = calls[j]
      /\ \A j \in Keys : answers[j] \subseteq answers'[j]
  BY ProviderCalled DEF CallProvider
<1>2. Regular(k)' => Regular(k)
  BY <1>1 DEF Regular
<1>3. \A answer : Answered(k, answer) => Answered(k, answer)'
  BY <1>1 DEF Answered
<1>5. Failed(k) => Failed(k)'
  BY <1>1, <1>3 DEF Failed
<1>6. ASSUME NEW s, Told(k, s) PROVE Told(k, s)'
  BY <1>3, <1>5, <1>6 DEF Told
<1>7. ASSUME NEW call, Sendable(k, call) PROVE Sendable(k, call)'
  BY <1>6, <1>7 DEF Sendable
<1>8. Earned(k) => Earned(k)'
  BY <1>1, <1>3 DEF Earned, ptVars
<1> QED BY <1>1, <1>2, <1>3, <1>6, <1>7, <1>8

LEMMA ProviderTable ==
  ASSUME FlowInv, NEW h \in Handlers, CallProvider(h)
  PROVE  TableInv'
<1>1. UNCHANGED <<ptxn, entries, reconciliation, exec, resolved, sent>>
  BY DEF CallProvider, ptVars
<1>2. answers[KeyOf(h)] = {} /\ KeyOf(h) \in Keys
  BY EarlyHolds DEF CallProvider, Early
<1>3. ASSUME NEW k \in Keys PROVE RowInv(k)'
  <2>1. RowInv(k)
    BY DEF FlowInv, TableInv
  <2>2. /\ reconciliation[k].status # "NONE" => Uncertain(k)'
        /\ ptxn[k].status \in Resolutions /\ Uncertain(k)' /\ Regular(k)' =>
             ptxn[k].settlement \notin {"PENDING", "RESERVED"}
    <3>1. CASE k # KeyOf(h)
      BY <2>1, <3>1, ProviderFacts DEF RowInv, Uncertain
    <3>2. CASE k = KeyOf(h)
      <4>1. reconciliation[k].status = "NONE"
        BY <1>2, <2>1, <3>2 DEF RowInv, Uncertain
      <4>2. ptxn[k].status \in Resolutions => k \in CashDeposits /\ "FAILED" \in sent[k]
        BY <1>2, <2>1, <3>2, <4>1 DEF RowInv, Told, Answered, Failed, Reconciled, Resolutions
      <4>3. ptxn[k].status \in Resolutions => ~(Uncertain(k)' /\ Regular(k)')
        BY <1>1, <4>2 DEF Uncertain, Regular
      <4> QED BY <4>1, <4>3
    <3> QED BY <3>1, <3>2
  <2>3. \A s : Reconciled(k, s)' = Reconciled(k, s)
    BY <1>1 DEF Reconciled
  <2>4. Failed(k) => Failed(k)'
    BY ProviderFacts DEF Told
  <2> QED BY <1>1, <2>1, <2>2, <2>3, <2>4, ProviderFacts DEF RowInv
<1>4. ASSUME NEW w \in Workers PROVE WorkInv(w)'
  <2>1. WorkInv(w) /\ (exec[w].at # "Idle" => exec[w].ref \in Keys)
    BY WorkerRef, Actors DEF FlowInv, TableInv
  <2> QED BY <1>1, <2>1, ProviderFacts DEF WorkInv
<1> QED BY <1>3, <1>4 DEF TableInv

LEMMA ProviderKeeps ==
  ASSUME FlowInv, NEW h \in Handlers, CallProvider(h)
  PROVE  FlowTypeOK' /\ CallsInv' /\ RecordsInv' /\ TableInv' /\ HandlersInv' /\ AsksInv'
<1>1. /\ UNCHANGED <<ptVars, idemVars, admin, sent, redelivered, resolved>>
      /\ \A g \in Handlers \ {h} : flow'[g] = flow[g]
      /\ flow[h].at = "Provider"
  BY ProviderCalled DEF CallProvider
<1>2. /\ KeyOf(h) \in Keys /\ Recorded(KeyOf(h)) /\ answers[KeyOf(h)] = {}
      /\ \A g \in Handlers : flow[g].at \in Early /\ KeyOf(g) = KeyOf(h) => g = h
  BY <1>1, EarlyHolds DEF Early
<1>3. PICK answer \in Answers \cup {"error"}, at \in {"Finalize", "ErrorRecord"} :
        /\ flow' \in [Handlers -> [at: Stations, answer: Answers \cup {"none"}, settled: BOOLEAN]]
        /\ flow'[h].at = at /\ flow'[h].settled = flow[h].settled
        /\ at = "Finalize" => answer \in Answers /\ flow'[h].answer = answer
        /\ at = "ErrorRecord" => answer = "error"
        /\ answers' \in [Keys -> SUBSET (Answers \cup {"error"})]
        /\ answers'[KeyOf(h)] = answers[KeyOf(h)] \cup {answer}
        /\ calls' \in [Keys -> Nat] /\ calls'[KeyOf(h)] = calls[KeyOf(h)] + 1
  BY ProviderCalled
<1>4. FlowTypeOK'
  BY <1>1, <1>3 DEF FlowInv, FlowTypeOK, Stations
<1>5. ASSUME NEW k \in Keys PROVE CallInv(k)' /\ RecordInv(k)'
  <2>1. CallInv(k) /\ RecordInv(k)
    BY DEF FlowInv, CallsInv, RecordsInv
  <2>2. RecordInv(k)'
    BY <1>1, <2>1, ProviderFacts DEF RecordInv, Recorded, idemVars, ptVars, Reconciled
  <2>3. \A call \in sent'[k] : Sendable(k, call)'
    BY <1>1, <2>1, ProviderFacts DEF CallInv
  <2>4. Recorded(k)' = Recorded(k)
    BY <1>1 DEF Recorded, idemVars
  <2>5. CASE k # KeyOf(h)
    <3>1. answers'[k] = answers[k] /\ calls'[k] = calls[k]
      BY <2>5, ProviderFacts
    <3> QED BY <2>1, <2>2, <2>3, <2>4, <3>1 DEF CallInv
  <2>6. CASE k = KeyOf(h)
    <3>1. calls'[k] = 1 /\ answers'[k] = {answer} /\ Recorded(k)
      BY <1>2, <1>3, <2>1, <2>6 DEF CallInv, FlowInv, FlowTypeOK
    <3> QED BY <2>2, <2>3, <2>4, <3>1 DEF CallInv
  <2> QED BY <2>2, <2>5, <2>6
<1>6. ASSUME NEW g \in Handlers \ {h} PROVE StandInv(g)'
  <2>1. PICK k \in Keys : k = KeyOf(g) /\ KeyOf(g)' = k
    BY <1>1, HandlerKey DEF KeyOf, idemVars
  <2>2. StandInv(g)
    BY DEF FlowInv, HandlersInv
  <2>3. flow[g].at \in Early => answers'[k] = answers[k]
    BY <1>1, <1>2, <2>1, ProviderFacts DEF Early
  <2>4. \A call : Answered(k, call) => Answered(k, call)'
    BY ProviderFacts
  <2> QED BY <1>1, <2>1, <2>2, <2>3, <2>4 DEF StandInv, Deposit, Recorded, idemVars, ptVars
<1>7. StandInv(h)'
  <2>1. PICK k \in Keys : k = KeyOf(h) /\ KeyOf(h)' = k
    BY <1>1, <1>2 DEF KeyOf, idemVars
  <2>2. attempt[h].at # "New" /\ ~flow[h].settled /\ exec[h].at = "Idle"
    BY <1>1 DEF FlowInv, HandlersInv, StandInv, Early, PendingSteps
  <2>3. Answered(k, answer)'
    BY <1>3, <2>1 DEF Answered
  <2> QED BY <1>1, <1>3, <2>1, <2>2, <2>3
          DEF StandInv, Early, AfterAnswer, PendingSteps, idemVars, ptVars
<1>8. ASSUME NEW a \in Admins PROVE AskInv(a)'
  BY <1>1 DEF FlowInv, AsksInv, AskInv, Reconciled, ptVars
<1> QED BY <1>4, <1>5, <1>6, <1>7, <1>8, ProviderTable DEF CallsInv, RecordsInv, HandlersInv, AsksInv

-----------------------------------------------------------------------------
(* A handler's remote calls. *)

RemoteStep(h) ==
  \/ HandlerCall(h) \/ HandlerCallRead(h) \/ HandlerCallWrite(h) \/ HandlerCallFails(h)
  \/ HandlerCommission(h)

LEMMA RemoteElsewhere ==
  ASSUME NEW h \in Handlers, RemoteStep(h)
  PROVE  UNCHANGED <<idemVars, admin, answers, calls, redelivered, resolved>>
  BY DEF RemoteStep, HandlerCall, HandlerCallRead, HandlerCallWrite, HandlerCallFails,
         HandlerCommission, Elsewhere

LEMMA PendingAt ==
  ASSUME FlowInv, NEW h \in Handlers, PendingWrite(h)
  PROVE  /\ flow[h].at \in {"Mark", "LocalFinalize", "Finalize", "ErrorTrack", "Principal", "Done"}
         /\ flow[h].at = "Principal" => Deposit(h)
         /\ exec'[h].at = "Idle" /\ \A w \in Workers \ {h} : exec'[w] = exec[w]
<1>1. exec[h].at \in PendingSteps /\ Leave(h)
  BY DEF PendingWrite, MarkProcessingWrite, FinalizeWrite, MarkUnknownWrite, ConfirmWrite,
         PendingSteps
<1>2. StandInv(h) /\ h \in Workers
  BY Actors DEF FlowInv, HandlersInv
<1> QED BY <1>1, <1>2, Left DEF StandInv

(* Where a remote call takes its handler. *)
LEMMA RepliedTo ==
  ASSUME FlowInv, NEW h \in Handlers, flow[h].at \in RemoteCalls, Replied(h) \/ Thrown(h)
  PROVE  /\ flow' \in [Handlers -> [at: Stations, answer: Answers \cup {"none"}, settled: BOOLEAN]]
         /\ \A g \in Handlers \ {h} : flow'[g] = flow[g]
         /\ flow'[h].answer = flow[h].answer
         /\ flow'[h].settled => flow[h].settled \/ (flow[h].at = "Principal" /\ Replied(h))
         /\ flow'[h].at \in Early => flow[h].at \in Early
         /\ flow'[h].at \in AfterAnswer => flow[h].at \in AfterAnswer
         /\ flow'[h].at \in {"LocalFinalize", "LocalFlag", "LocalCompensate"} => Deposit(h)
         /\ flow'[h].at = "Principal" => flow[h].answer = "000" \/ (flow[h].answer = "001" /\ Deposit(h))
         /\ flow'[h].at \notin {"Begin", "ErrorRecord", "ErrorTrack"}
<1> DEFINE Goes(at) ==
             /\ at \in Stations \ {"Begin", "ErrorRecord", "ErrorTrack"}
             /\ at \in Early => flow[h].at \in Early
             /\ at \in AfterAnswer => flow[h].at \in AfterAnswer
             /\ at \in {"LocalFinalize", "LocalFlag", "LocalCompensate"} => Deposit(h)
             /\ at = "Principal" => flow[h].answer = "000" \/ (flow[h].answer = "001" /\ Deposit(h))
<1>1. StandInv(h)
  BY DEF FlowInv, HandlersInv
<1>2. flow[h].at \in {"LocalFinalize", "LocalFlag", "LocalCompensate"} => Deposit(h)
  BY <1>1 DEF StandInv
<1>3. Goes(OnReply(h))
  BY <1>2 DEF OnReply, AfterFinalize, RemoteCalls, Stations, Early, AfterAnswer
<1>4. Goes(OnError(h))
  BY <1>2 DEF OnError, AfterFinalize, RemoteCalls, Stations, Early, AfterAnswer
<1>5. CASE Thrown(h)
  BY <1>4, <1>5, WentTo DEF Thrown
<1>6. CASE Replied(h)
  <2>1. /\ flow' \in [Handlers -> [at: Stations, answer: Answers \cup {"none"}, settled: BOOLEAN]]
        /\ \A g \in Handlers \ {h} : flow'[g] = flow[g]
        /\ flow'[h].at = OnReply(h) /\ flow'[h].answer = flow[h].answer
    BY <1>3, <1>6, FlowType DEF Replied
  <2>2. flow'[h].settled = (flow[h].settled \/ flow[h].at = "Principal")
    BY <1>6, FlowType DEF Replied
  <2> QED BY <1>3, <1>6, <2>1, <2>2
<1> QED BY <1>5, <1>6

LEMMA WriteReplied ==
  ASSUME FlowInv, NEW h \in Handlers, HandlerCallWrite(h), flow' # flow
  PROVE  flow[h].at \in RemoteCalls /\ (Replied(h) \/ Thrown(h))
<1>1. CASE PendingWrite(h) /\ flow[h].at # "Done"
  BY <1>1, PendingAt DEF HandlerCallWrite, RemoteCalls
<1>2. CASE flow[h].at # "Done" /\ exec[h].at # "CommissionWrite" /\ Stop(h) /\ Thrown(h)
  <2>1. exec[h].at # "Idle"
    BY <1>2, Actors DEF Stop, FlowInv, RestInv
  <2>2. flow[h].at \in RemoteCalls
    BY <1>2, <2>1 DEF FlowInv, HandlersInv, StandInv, RemoteCalls
  <2> QED BY <1>2, <2>2
<1> QED BY <1>1, <1>2 DEF HandlerCallWrite

LEMMA RemoteGoes ==
  ASSUME FlowInv, NEW h \in Handlers, RemoteStep(h)
  PROVE  \/ UNCHANGED flow
         \/ flow[h].at \in RemoteCalls /\ (Replied(h) \/ Thrown(h))
         \/ /\ flow[h].at \in {"Commission", "CommissionRetry"}
            /\ \E at \in {"CommissionRetry", "Complete"} : Goto(h, at)
<1>1. CASE HandlerCall(h)
  BY <1>1 DEF HandlerCall, RemoteCalls
<1>2. CASE HandlerCallRead(h)
  BY <1>2 DEF HandlerCallRead
<1>3. CASE HandlerCallWrite(h)
  BY <1>3, WriteReplied
<1>4. CASE HandlerCallFails(h)
  BY <1>4 DEF HandlerCallFails
<1>5. CASE HandlerCommission(h)
  BY <1>5 DEF HandlerCommission, CommissionThrown
<1> QED BY <1>1, <1>2, <1>3, <1>4, <1>5 DEF RemoteStep

LEMMA RemoteSends ==
  ASSUME FlowInv, NEW h \in Handlers, RemoteStep(h)
  PROVE  UNCHANGED sent \/ \E call \in Calls : Send(h, call)
<1>1. flow[h].at = "Finalize" /\ flow[h].answer # "other" =>
        mapProviderTransactionStatus(flow[h].answer) \in Calls
  BY DEF FlowInv, HandlersInv, StandInv, AfterAnswer, Answers, mapProviderTransactionStatus, Calls
<1>2. CASE HandlerCall(h)
  BY <1>2 DEF HandlerCall, Calls
<1>3. CASE HandlerCallRead(h)
  BY <1>1, <1>3 DEF HandlerCallRead, Calls
<1> QED BY <1>2, <1>3 DEF RemoteStep, HandlerCallWrite, HandlerCallFails, HandlerCommission

LEMMA RemoteSteady ==
  ASSUME FlowInv, NEW h \in Handlers, RemoteStep(h)
  PROVE  /\ Steady
         /\ flow' \in [Handlers -> [at: Stations, answer: Answers \cup {"none"}, settled: BOOLEAN]]
         /\ \A g \in Handlers \ {h} : flow'[g] = flow[g]
<1>1. /\ flow' \in [Handlers -> [at: Stations, answer: Answers \cup {"none"}, settled: BOOLEAN]]
      /\ \A g \in Handlers \ {h} : flow'[g] = flow[g]
  <2>1. CASE UNCHANGED flow
    BY <2>1, FlowType
  <2>2. CASE flow[h].at \in RemoteCalls /\ (Replied(h) \/ Thrown(h))
    BY <2>2, RepliedTo
  <2>3. CASE /\ flow[h].at \in {"Commission", "CommissionRetry"}
             /\ \E at \in {"CommissionRetry", "Complete"} : Goto(h, at)
    BY <2>3, WentTo DEF Stations
  <2> QED BY <2>1, <2>2, <2>3, RemoteGoes
<1>2. KeysKept /\ UNCHANGED <<answers, resolved>>
  BY RemoteElsewhere DEF KeysKept, idemVars
<1>3. ASSUME NEW k \in Keys PROVE sent[k] \subseteq sent'[k]
  BY RemoteSends, HandlerKey DEF Send, FlowInv, FlowTypeOK
<1> QED BY <1>1, <1>2, <1>3 DEF Steady

(* The handler of a deposit that turns away from the provider reports a    *)
(* failure itself.                                                         *)
LEMMA LocalFailure ==
  ASSUME FlowInv, NEW h \in Handlers, flow[h].at = "LocalFinalize", Send(h, "FAILED"),
         NEW k \in Keys, k = KeyOf(h)
  PROVE  Told(k, "FAILED")'
<1>1. k \in CashDeposits
  BY DEF FlowInv, HandlersInv, StandInv, Deposit
<1>2. "FAILED" \in sent'[k]
  BY DEF Send, FlowInv, FlowTypeOK
<1> QED BY <1>1, <1>2 DEF Told, Failed

LEMMA FinalizeTold ==
  ASSUME FlowInv, NEW h \in Handlers, flow[h].at = "Finalize"
  PROVE  IF flow[h].answer = "other" THEN Told(KeyOf(h), "UNKNOWN")
         ELSE /\ Told(KeyOf(h), mapProviderTransactionStatus(flow[h].answer))
              /\ mapProviderTransactionStatus(flow[h].answer) \in {"SUCCESS", "FAILED", "PENDING"}
<1>1. flow[h].answer \in Answers /\ Answered(KeyOf(h), flow[h].answer)
  BY DEF FlowInv, HandlersInv, StandInv, AfterAnswer
<1> QED BY <1>1 DEF Answers, mapProviderTransactionStatus, Told, Failed

LEMMA UnknownTold ==
  ASSUME FlowInv, NEW h \in Handlers,
         flow[h].at = "ErrorTrack" \/ (flow[h].at = "Finalize" /\ flow[h].answer = "other")
  PROVE  Told(KeyOf(h), "UNKNOWN")
<1>1. flow[h].at = "ErrorTrack" => Answered(KeyOf(h), "error")
  BY DEF FlowInv, HandlersInv, StandInv
<1> QED BY <1>1, FinalizeTold DEF Told

LEMMA PrincipalTold ==
  ASSUME FlowInv, NEW h \in Handlers, flow[h].at = "Principal", ~Deposit(h)
  PROVE  flow[h].answer = "000" /\ Answered(KeyOf(h), "000")
  BY DEF FlowInv, HandlersInv, StandInv, AfterAnswer

LEMMA SettledEarned ==
  ASSUME FlowInv, NEW h \in Handlers, flow[h].at \in {"Commission", "CommissionRetry"},
         "SETTLED" \in CommissionUpdates(h)
  PROVE  Earned(KeyOf(h))
<1>1. flow[h].answer = "000" /\ flow[h].settled
  BY DEF CommissionUpdates
<1> QED BY <1>1 DEF FlowInv, HandlersInv, StandInv, AfterAnswer, Earned, Deposit

-----------------------------------------------------------------------------
(* What the remote calls do to the rows. *)

LEMMA RemoteTable ==
  ASSUME FlowInv, NEW h \in Handlers, RemoteStep(h)
  PROVE  TableInv' /\ Grows
<1>1. h \in Workers /\ Steady
  BY Actors, RemoteSteady
<1>2. PICK k \in Keys : k = KeyOf(h)
  BY HandlerKey
<1>3. CASE UNCHANGED ptVars
  BY <1>1, <1>3, StillTable
<1>4. CASE PendingWrite(h) \/ CommissionWrite(h) \/ Stop(h)
  BY <1>1, <1>4, PendingWriteTable, CommissionWriteTable, MovesTable
<1>5. CASE HandlerCall(h)
  <2>1. CASE CreateSteps(k)
    BY <1>1, <2>1, CreateTable
  <2>2. CASE CompensateDeposit(k)
    BY <1>1, <2>2, CompensateTable
  <2>3. CASE flow[h].at = "Principal" /\ ~Deposit(h) /\ SettlePrincipal(k)
    BY <1>1, <1>2, <2>3, PrincipalTold, SettleTable
  <2>4. CASE MarkFinancialRecoveryRequired(k)
    BY <1>1, <2>4, FlagTable
  <2> QED BY <1>2, <1>3, <1>5, <2>1, <2>2, <2>3, <2>4 DEF HandlerCall, CreateSteps
<1>6. CASE HandlerCallRead(h)
  <2>1. CASE MarkProcessingRead(h, k)
    BY <1>1, <2>1, ProcessingReadTable
  <2>2. CASE flow[h].at = "LocalFinalize" /\ FinalizeRead(h, k, "FAILED") /\ Send(h, "FAILED")
    BY <1>1, <1>2, <2>2, LocalFailure, FinalizeReadTable
  <2>3. CASE /\ flow[h].at = "Finalize" /\ flow[h].answer # "other"
             /\ FinalizeRead(h, k, mapProviderTransactionStatus(flow[h].answer))
    <3>1. PICK s \in {"SUCCESS", "FAILED", "PENDING"} : Told(k, s) /\ FinalizeRead(h, k, s)
      BY <1>2, <2>3, FinalizeTold
    <3>2. Told(k, s)'
      BY <1>1, <3>1, FactsStay
    <3> QED BY <1>1, <3>1, <3>2, FinalizeReadTable
  <2>4. CASE /\ flow[h].at = "ErrorTrack" \/ (flow[h].at = "Finalize" /\ flow[h].answer = "other")
             /\ MarkUnknownRead(h, k)
    BY <1>1, <1>2, <2>4, UnknownTold, UnknownReadTable
  <2>5. CASE ConfirmRead(h, k)
    BY <1>1, <2>5, ConfirmReadTable
  <2> QED BY <1>2, <1>6, <2>1, <2>2, <2>3, <2>4, <2>5 DEF HandlerCallRead
<1>7. CASE HandlerCommission(h)
  <2>1. ASSUME NEW s \in CommissionUpdates(h), flow[h].at \in {"Commission", "CommissionRetry"},
               CommissionRead(h, k, s)
        PROVE  TableInv' /\ Grows
    BY <1>1, <1>2, <2>1, SettledEarned, CommissionReadTable
  <2> QED BY <1>2, <1>3, <1>4, <1>7, <2>1 DEF HandlerCommission
<1> QED BY <1>3, <1>4, <1>5, <1>6, <1>7
        DEF RemoteStep, HandlerCallWrite, HandlerCallFails

(* Only calls that follow from what the provider told are sent. *)
LEMMA SentKeeps ==
  ASSUME FlowInv, NEW h \in Handlers, NEW k \in Keys, k = KeyOf(h), NEW call \in Calls,
         Send(h, call), Sendable(k, call)'
  PROVE  /\ sent' \in [Keys -> SUBSET Calls]
         /\ \A j \in Keys : \A c \in sent'[j] : c \in sent[j] \/ Sendable(j, c)'
<1>1. sent \in [Keys -> SUBSET Calls] /\ sent' = [sent EXCEPT ![k] = @ \cup {call}]
  BY DEF FlowInv, FlowTypeOK, Send
<1> QED BY <1>1

LEMMA RemoteSent ==
  ASSUME FlowInv, NEW h \in Handlers, RemoteStep(h)
  PROVE  /\ sent' \in [Keys -> SUBSET Calls]
         /\ \A k \in Keys : \A call \in sent'[k] : call \in sent[k] \/ Sendable(k, call)'
<1>1. PICK k \in Keys : k = KeyOf(h)
  BY HandlerKey
<1>2. \A call : Sendable(k, call) => Sendable(k, call)'
  BY RemoteSteady, FactsStay
<1>3. CASE UNCHANGED sent
  BY <1>3 DEF FlowInv, FlowTypeOK
<1>4. CASE \E call \in {"create", "mark", "flag", "compensate", "confirm"} : Send(h, call)
  <2>1. PICK call \in {"create", "mark", "flag", "compensate", "confirm"} : Send(h, call)
    BY <1>4
  <2>2. call \in Calls /\ Sendable(k, call)'
    BY DEF Calls, Sendable
  <2> QED BY <1>1, <2>1, <2>2, SentKeeps
<1>5. CASE flow[h].at = "Principal" /\ ~Deposit(h) /\ Send(h, "settle")
  <2>1. Sendable(k, "settle")'
    BY <1>1, <1>2, <1>5, PrincipalTold DEF Sendable, Told
  <2> QED BY <1>1, <1>5, <2>1, SentKeeps DEF Calls
<1>6. CASE /\ flow[h].at = "ErrorTrack" \/ (flow[h].at = "Finalize" /\ flow[h].answer = "other")
           /\ Send(h, "unknown")
  <2>1. Sendable(k, "unknown")'
    BY <1>1, <1>2, <1>6, UnknownTold DEF Sendable
  <2> QED BY <1>1, <1>6, <2>1, SentKeeps DEF Calls
<1>7. CASE flow[h].at = "LocalFinalize" /\ Send(h, "FAILED")
  <2>1. Sendable(k, "FAILED")'
    BY <1>1, <1>7, LocalFailure DEF Sendable
  <2> QED BY <1>1, <1>7, <2>1, SentKeeps DEF Calls
<1>8. CASE /\ flow[h].at = "Finalize" /\ flow[h].answer # "other"
           /\ Send(h, mapProviderTransactionStatus(flow[h].answer))
  <2>1. PICK s \in {"SUCCESS", "FAILED", "PENDING"} : Told(k, s) /\ Send(h, s)
    BY <1>1, <1>8, FinalizeTold
  <2>2. Sendable(k, s)'
    BY <1>2, <2>1 DEF Sendable
  <2> QED BY <1>1, <2>1, <2>2, SentKeeps DEF Calls
<1>9. CASE HandlerCall(h)
  BY <1>4, <1>5, <1>6, <1>9 DEF HandlerCall
<1>10. CASE HandlerCallRead(h)
  BY <1>4, <1>6, <1>7, <1>8, <1>10 DEF HandlerCallRead
<1> QED BY <1>3, <1>9, <1>10
        DEF RemoteStep, HandlerCallWrite, HandlerCallFails, HandlerCommission

(* Which worker moves, and what a reply about the principal means. *)
LEMMA RemoteMoves ==
  ASSUME FlowInv, NEW h \in Handlers, RemoteStep(h)
  PROVE  \A w \in Workers \ {h} : exec'[w] = exec[w]
<1>1. h \in Workers
  BY Actors
<1>2. CASE UNCHANGED exec
  BY <1>2
<1>3. CASE PendingWrite(h) \/ CommissionWrite(h) \/ Stop(h)
  BY <1>1, <1>3, PendingAt, Left DEF CommissionWrite, Stop
<1>4. CASE \E step, r, arg, seen : Enter(h, step, r, arg, seen)
  BY <1>4 DEF Enter, FlowInv, PtInv, TypeOK
<1>5. HandlerCall(h) \/ HandlerCallFails(h) => UNCHANGED exec
  BY DEF HandlerCall, HandlerCallFails, CreateProviderTransaction, PrepareProviderWalletDebit,
         CompensateDeposit, SettlePrincipal, MarkFinancialRecoveryRequired, ptVars
<1>6. HandlerCallRead(h) => \E step, r, arg, seen : Enter(h, step, r, arg, seen)
  BY DEF HandlerCallRead, MarkProcessingRead, FinalizeRead, MarkUnknownRead, ConfirmRead
<1>7. HandlerCommission(h) =>
        \/ \E step, r, arg, seen : Enter(h, step, r, arg, seen)
        \/ UNCHANGED exec \/ CommissionWrite(h) \/ Stop(h)
  BY DEF HandlerCommission, CommissionRead, ptVars
<1> QED BY <1>2, <1>3, <1>4, <1>5, <1>6, <1>7 DEF RemoteStep, HandlerCallWrite

LEMMA RestKept ==
  ASSUME FlowInv, [PtNext]_ptVars
  PROVE  RestInv'
<1>1. CASE UNCHANGED exec
  BY <1>1 DEF FlowInv, RestInv
<1>2. ASSUME NEW w \in Workers, \A v \in Workers \ {w} : exec'[v] = exec[v],
             exec'[w].at = "Idle" => exec'[w] = Idle
      PROVE  RestInv'
  BY <1>2 DEF FlowInv, RestInv
<1>3. ASSUME NEW w \in Workers, Leave(w) PROVE RestInv'
  BY <1>2, <1>3 DEF Leave, FlowInv, PtInv, TypeOK
<1>4. ASSUME NEW w \in Workers, NEW step, NEW r, NEW arg, NEW seen, Enter(w, step, r, arg, seen),
             step # "Idle"
      PROVE  RestInv'
  BY <1>2, <1>4 DEF Enter, FlowInv, PtInv, TypeOK
<1>5. ASSUME NEW w \in Workers, RecoverTo(w, "RecoverVerify") \/ RecoverTo(w, "RecoverConfirm")
      PROVE  RestInv'
  BY <1>2, <1>5 DEF RecoverTo, FlowInv, PtInv, TypeOK, Execution
<1>6. ASSUME NEW w \in Workers, ResolveAbort(w) PROVE RestInv'
  BY <1>2, <1>6 DEF ResolveAbort, FlowInv, PtInv, TypeOK, Execution
<1>7. ASSUME NEW r \in Refs, CreateSteps(r) PROVE UNCHANGED exec
  BY <1>7 DEF CreateSteps, CreateProviderTransaction, PrepareProviderWalletDebit
<1>8. ASSUME NEW w \in Workers, NEW r \in Refs,
             StatusSteps(w, r) \/ PrincipalSteps(w, r) \/ CommissionSteps(w, r)
      PROVE  RestInv'
  BY <1>1, <1>3, <1>4, <1>8
  DEF StatusSteps, PrincipalSteps, CommissionSteps, MarkProcessingRead, MarkProcessingWrite,
      FinalizeRead, FinalizeWrite, MarkUnknownRead, MarkUnknownWrite, MarkFinancialRecoveryRequired,
      SettlePrincipal, CompensateDeposit, ConfirmRead, ConfirmWrite, CommissionRead, CommissionWrite
<1>9. ASSUME NEW w \in Workers, NEW r \in Refs, ResolveSteps(w, r) \/ RecoverSteps(w, r)
      PROVE  RestInv'
  BY <1>3, <1>4, <1>5, <1>6, <1>9
  DEF ResolveSteps, RecoverSteps, ResolveClaim, ResolveApply, ResolveDuplicate, ResolveUndo,
      RecoverStart, RecoverEffect, RecoverConfirm, RecoverVerify, RecoverClear
<1>10. ASSUME NEW w \in Workers, Stop(w) PROVE RestInv'
  BY <1>3, <1>10 DEF Stop
<1> QED BY <1>1, <1>7, <1>8, <1>9, <1>10 DEF PtNext, ptVars

-----------------------------------------------------------------------------
(* Where a handler stands after a remote call. *)

LEMMA StandWaiting ==
  ASSUME FlowInv, Steady, Grows, NEW h \in Handlers, UNCHANGED <<idemVars, flow>>,
         exec'[h].at \in {"Idle", "CommissionWrite"} \cup PendingSteps,
         exec'[h].at \in PendingSteps =>
           /\ flow[h].at \in {"Mark", "LocalFinalize", "Finalize", "ErrorTrack", "Principal", "Done"}
           /\ flow[h].at = "Principal" => Deposit(h),
         exec'[h].at = "CommissionWrite" => flow[h].at \in {"Commission", "CommissionRetry", "Done"}
  PROVE  StandInv(h)'
<1>1. PICK k \in Keys : k = KeyOf(h) /\ KeyOf(h)' = k
  BY HandlerKey DEF KeyOf, idemVars
<1>2. entries[k] \subseteq entries'[k] /\ answers'[k] = answers[k] /\ StandInv(h)
  BY Actors DEF Grows, Steady, FlowInv, HandlersInv
<1> QED BY <1>1, <1>2 DEF StandInv, Deposit, Answered, Recorded, idemVars

LEMMA StandReplied ==
  ASSUME FlowInv, Steady, Grows, NEW h \in Handlers, UNCHANGED idemVars, exec'[h].at = "Idle",
         flow[h].at \in RemoteCalls, Replied(h) \/ Thrown(h),
         Replied(h) /\ flow[h].at = "Principal" /\ ~Deposit(h) => "PRINCIPAL" \in entries'[KeyOf(h)]
  PROVE  StandInv(h)'
<1>1. PICK k \in Keys : k = KeyOf(h) /\ KeyOf(h)' = k
  BY HandlerKey DEF KeyOf, idemVars
<1>2. entries[k] \subseteq entries'[k] /\ answers'[k] = answers[k] /\ StandInv(h)
  BY Actors DEF Grows, Steady, FlowInv, HandlersInv
<1>3. /\ flow'[h].answer = flow[h].answer
      /\ flow'[h].settled => flow[h].settled \/ (flow[h].at = "Principal" /\ Replied(h))
      /\ flow'[h].at \in Early => flow[h].at \in Early
      /\ flow'[h].at \in AfterAnswer => flow[h].at \in AfterAnswer
      /\ flow'[h].at \in {"LocalFinalize", "LocalFlag", "LocalCompensate"} => Deposit(h)
      /\ flow'[h].at = "Principal" => flow[h].answer = "000" \/ (flow[h].answer = "001" /\ Deposit(h))
      /\ flow'[h].at \notin {"Begin", "ErrorRecord", "ErrorTrack"}
  BY RepliedTo
<1>4. /\ flow'[h].at \in Early \cup {"Begin"} => ~flow'[h].settled
      /\ flow'[h].settled /\ flow[h].answer = "000" /\ ~Deposit(h) => "PRINCIPAL" \in entries'[k]
  BY <1>1, <1>2, <1>3 DEF StandInv, Early
<1>5. attempt'[h].at # "New" /\ Deposit(h)' = Deposit(h)
  BY <1>1, <1>2 DEF StandInv, RemoteCalls, Deposit, idemVars
<1> QED BY <1>1, <1>2, <1>3, <1>4, <1>5
        DEF StandInv, Answered, Recorded, idemVars, PendingSteps

LEMMA StandOn ==
  ASSUME FlowInv, Steady, Grows, NEW h \in Handlers, UNCHANGED idemVars, exec'[h].at = "Idle",
         flow[h].at \in {"Commission", "CommissionRetry"},
         NEW at \in {"CommissionRetry", "Complete"}, Goto(h, at)
  PROVE  StandInv(h)'
<1>1. PICK k \in Keys : k = KeyOf(h) /\ KeyOf(h)' = k
  BY HandlerKey DEF KeyOf, idemVars
<1>2. entries[k] \subseteq entries'[k] /\ answers'[k] = answers[k] /\ StandInv(h)
  BY Actors DEF Grows, Steady, FlowInv, HandlersInv
<1>3. flow'[h].at = at /\ flow'[h].answer = flow[h].answer /\ flow'[h].settled = flow[h].settled
  BY WentTo DEF Stations
<1> QED BY <1>1, <1>2, <1>3
        DEF StandInv, Deposit, Answered, idemVars, PendingSteps, Early, AfterAnswer

LEMMA RemoteStand ==
  ASSUME FlowInv, Steady, Grows, NEW h \in Handlers, RemoteStep(h)
  PROVE  StandInv(h)'
<1>1. h \in Workers /\ UNCHANGED idemVars
  BY Actors, RemoteElsewhere
<1>2. PICK k \in Keys : k = KeyOf(h)
  BY HandlerKey
<1>3. exec[h] = Idle /\ UNCHANGED exec => exec'[h].at = "Idle"
  BY DEF Idle
<1>4. CommissionWrite(h) \/ Stop(h) => exec'[h].at = "Idle"
  BY <1>1, Left DEF CommissionWrite, Stop
<1>5. CASE HandlerCall(h)
  <2>1. exec'[h].at = "Idle"
    BY <1>3, <1>5 DEF HandlerCall, CreateProviderTransaction, PrepareProviderWalletDebit,
                      CompensateDeposit, SettlePrincipal, MarkFinancialRecoveryRequired, ptVars
  <2>2. flow[h].at \in RemoteCalls /\ (Replied(h) \/ Thrown(h))
    BY <1>5 DEF HandlerCall, RemoteCalls
  <2>3. flow[h].at = "Principal" /\ ~Deposit(h) => "PRINCIPAL" \in entries'[k]
    <3>1. SettlePrincipal(k) => "PRINCIPAL" \in entries'[k]
      BY Actors DEF SettlePrincipal, PostSettle, FlowInv, PtInv, TypeOK
    <3> QED BY <1>2, <1>5, <3>1 DEF HandlerCall
  <2> QED BY <1>1, <1>2, <2>1, <2>2, <2>3, StandReplied
<1>6. CASE HandlerCallRead(h)
  <2>1. exec'[h].at \in PendingSteps
    BY <1>1, <1>6 DEF HandlerCallRead, MarkProcessingRead, FinalizeRead, MarkUnknownRead, ConfirmRead,
                      Enter, PendingSteps, FlowInv, PtInv, TypeOK
  <2>2. /\ flow[h].at \in {"Mark", "LocalFinalize", "Finalize", "ErrorTrack", "Principal", "Done"}
        /\ flow[h].at = "Principal" => Deposit(h)
        /\ UNCHANGED flow
    BY <1>6 DEF HandlerCallRead
  <2> QED BY <1>1, <2>1, <2>2, StandWaiting DEF PendingSteps
<1>7. CASE HandlerCallWrite(h)
  <2>1. exec'[h].at = "Idle"
    BY <1>4, <1>7, PendingAt DEF HandlerCallWrite
  <2>2. CASE UNCHANGED flow
    BY <1>1, <2>1, <2>2, StandWaiting DEF PendingSteps
  <2>3. CASE ~UNCHANGED flow
    <3>1. flow[h].at \in RemoteCalls /\ (Replied(h) \/ Thrown(h))
      BY <1>7, <2>3, WriteReplied
    <3>2. Thrown(h) \/ (flow[h].at = "Principal" => Deposit(h))
      BY <1>7, <2>3, PendingAt DEF HandlerCallWrite
    <3>3. Replied(h) /\ flow[h].at = "Principal" /\ ~Deposit(h) => ~Thrown(h)
      BY <2>1, FlowType DEF Replied, Thrown, Goto, OnReply, OnError
    <3> QED BY <1>1, <1>2, <2>1, <3>1, <3>2, <3>3, StandReplied
  <2> QED BY <2>2, <2>3
<1>8. CASE HandlerCallFails(h)
  <2>1. exec'[h].at = "Idle" /\ flow[h].at \in RemoteCalls /\ Thrown(h)
    BY <1>3, <1>8 DEF HandlerCallFails, ptVars
  <2>2. Replied(h) /\ flow[h].at = "Principal" => FALSE
    BY <2>1, FlowType DEF Replied, Thrown, Goto, OnReply, OnError
  <2> QED BY <1>1, <2>1, <2>2, StandReplied
<1>9. CASE HandlerCommission(h)
  <2>1. CASE UNCHANGED flow /\ \E s \in CommissionUpdates(h) : CommissionRead(h, k, s)
    <3>1. exec'[h].at = "CommissionWrite"
      BY <1>1, <2>1 DEF CommissionRead, Enter, FlowInv, PtInv, TypeOK
    <3> QED BY <1>1, <1>9, <2>1, <3>1, StandWaiting DEF HandlerCommission, PendingSteps
  <2>2. CASE /\ CommissionWrite(h) \/ Stop(h) \/ (exec[h] = Idle /\ UNCHANGED ptVars)
             /\ \E at \in {"CommissionRetry", "Complete"} : Goto(h, at)
    <3>1. exec'[h].at = "Idle"
      BY <1>3, <1>4, <2>2 DEF ptVars
    <3> QED BY <1>1, <1>9, <2>2, <3>1, StandOn DEF HandlerCommission
  <2> QED BY <1>2, <1>9, <2>1, <2>2 DEF HandlerCommission, CommissionThrown
<1> QED BY <1>5, <1>6, <1>7, <1>8, <1>9 DEF RemoteStep

LEMMA RemoteKeeps ==
  ASSUME FlowInv, NEW h \in Handlers, RemoteStep(h)
  PROVE  FlowTypeOK' /\ CallsInv' /\ RecordsInv' /\ TableInv' /\ HandlersInv' /\ AsksInv'
<1>1. /\ UNCHANGED <<idemVars, admin, answers, calls, redelivered, resolved>>
      /\ \A w \in Workers \ {h} : exec'[w] = exec[w]
  BY RemoteElsewhere, RemoteMoves
<1>2. /\ Steady
      /\ flow' \in [Handlers -> [at: Stations, answer: Answers \cup {"none"}, settled: BOOLEAN]]
      /\ \A g \in Handlers \ {h} : flow'[g] = flow[g]
  BY RemoteSteady
<1>3. TableInv' /\ Grows
  BY RemoteTable
<1>4. /\ sent' \in [Keys -> SUBSET Calls]
      /\ \A k \in Keys : \A call \in sent'[k] : call \in sent[k] \/ Sendable(k, call)'
  BY RemoteSent
<1>5. FlowTypeOK'
  BY <1>1, <1>2, <1>4 DEF FlowInv, FlowTypeOK, Stations
<1>6. ASSUME NEW k \in Keys PROVE CallInv(k)' /\ RecordInv(k)'
  BY <1>1, <1>2, <1>3, <1>4, CallStays, RecordStays
  DEF FlowInv, CallsInv, RecordsInv, idemVars, Recorded
<1>7. ASSUME NEW g \in Handlers \ {h} PROVE StandInv(g)'
  BY <1>1, <1>2, <1>3, StandStays, Actors DEF idemVars
<1>8. ASSUME NEW a \in Admins PROVE AskInv(a)'
  BY <1>1, <1>2, <1>3, AskStays, CashFlowAssumption DEF FlowInv, AsksInv
<1> QED BY <1>2, <1>3, <1>5, <1>6, <1>7, <1>8, RemoteStand
        DEF CallsInv, RecordsInv, HandlersInv, AsksInv

-----------------------------------------------------------------------------
(* The inductive invariant. *)

LEMMA FlowInitInv == Init => FlowInv
<1> SUFFICES ASSUME Init PROVE FlowInv
  OBVIOUS
<1> USE DEF Init
<1>1. PtInv /\ IdemInv
  BY InitInv, IdemInitInv
<1>2. FlowTypeOK
  BY DEF FlowTypeOK, NoAdmin, Resolutions
<1>3. RestInv /\ \A w \in Workers : exec[w].at = "Idle"
  BY DEF PtInit, RestInv, Idle
<1>4. CallsInv
  BY DEF CallsInv, CallInv
<1>5. RecordsInv
  BY DEF RecordsInv, RecordInv, IdemInit, Recorded
<1>6. TableInv
  <2>1. ASSUME NEW k \in Keys PROVE RowInv(k)
    BY Actors DEF RowInv, PtInit, Resolutions
  <2>2. ASSUME NEW w \in Workers PROVE WorkInv(w)
    BY <1>3 DEF WorkInv
  <2> QED BY <2>1, <2>2 DEF TableInv
<1>7. HandlersInv
  BY <1>3, Actors DEF HandlersInv, StandInv, IdemInit, Early, AfterAnswer, PendingSteps
<1>8. AsksInv
  BY DEF AsksInv, AskInv, NoAdmin
<1> QED BY <1>1, <1>2, <1>3, <1>4, <1>5, <1>6, <1>7, <1>8 DEF FlowInv

LEMMA StutterKeeps ==
  ASSUME FlowInv, UNCHANGED vars
  PROVE  FlowTypeOK' /\ CallsInv' /\ RecordsInv' /\ TableInv' /\ HandlersInv' /\ AsksInv'
<1>1. UNCHANGED <<ptVars, idemVars, flow, admin, sent, answers, calls, redelivered, resolved>>
  BY DEF vars, flowVars
<1>2. Steady
  BY <1>1 DEF Steady, KeysKept, idemVars
<1>3. TableInv' /\ Grows
  BY <1>1, <1>2, StillTable
<1>4. FlowTypeOK'
  BY <1>1 DEF FlowInv, FlowTypeOK
<1>5. ASSUME NEW k \in Keys PROVE CallInv(k)' /\ RecordInv(k)'
  BY <1>1, <1>2, <1>3, CallStays, RecordStays DEF FlowInv, CallsInv, RecordsInv, idemVars, Recorded
<1>6. ASSUME NEW h \in Handlers PROVE StandInv(h)'
  BY <1>1, <1>2, <1>3, StandStays DEF idemVars, ptVars
<1>7. ASSUME NEW a \in Admins PROVE AskInv(a)'
  BY <1>1, <1>2, <1>3, AskStays DEF FlowInv, AsksInv, ptVars
<1> QED BY <1>3, <1>4, <1>5, <1>6, <1>7 DEF CallsInv, RecordsInv, HandlersInv, AsksInv

LEMMA FlowNextKeeps == FlowInv /\ [Next]_vars => FlowInv'
<1> SUFFICES ASSUME FlowInv, [Next]_vars PROVE FlowInv'
  OBVIOUS
<1>1. PtInv' /\ IdemInv' /\ RestInv'
  <2>1. PtInv /\ IdemInv
    BY DEF FlowInv
  <2> QED BY <2>1, TableStep, RecordStep, NextKeeps, IdemStepKeeps, RestKept
<1>2. FlowTypeOK' /\ CallsInv' /\ RecordsInv' /\ TableInv' /\ HandlersInv' /\ AsksInv'
  <2>1. ASSUME NEW h \in Handlers, HandlerNext(h) \/ Crash(h)
        PROVE  OwnStep(h) \/ CallProvider(h) \/ RemoteStep(h)
    BY <2>1 DEF HandlerNext, OwnStep, RemoteStep
  <2> QED BY <2>1, OwnKeeps, ProviderKeeps, RemoteKeeps, DuplicateKeeps, AdminKeeps, StutterKeeps
          DEF Next
<1> QED BY <1>1, <1>2 DEF FlowInv

LEMMA FlowInvariance == Spec => []FlowInv
  BY FlowInitInv, FlowNextKeeps, PTL DEF Spec

-----------------------------------------------------------------------------
(* What the invariant says of the money. *)

(* A call that was answered definitely was not uncertain. *)
LEMMA Definite ==
  ASSUME FlowInv, NEW k \in Keys
  PROVE  /\ ~(Answered(k, "000") /\ Answered(k, "001"))
         /\ Answered(k, "000") \/ Answered(k, "001") => ~Uncertain(k)
         /\ \A s : Reconciled(k, s) => Uncertain(k)
<1>1. CallInv(k) /\ RowInv(k)
  BY DEF FlowInv, CallsInv, TableInv
<1> QED BY <1>1 DEF CallInv, RowInv, Answered, Uncertain, Reconciled

(* A withdrawal's credit, and what it rules out. *)
LEMMA CreditOf ==
  ASSUME FlowInv, NEW k \in Keys
  PROVE  /\ "PRINCIPAL" \in entries[k] => k \notin CashDeposits /\ Answered(k, "000")
         /\ "RECON_SETTLE" \in entries[k] => k \notin CashDeposits /\ Reconciled(k, "SUCCESS")
<1>1. RowInv(k)
  BY DEF FlowInv, TableInv
<1> QED BY <1>1 DEF RowInv

(* A deposit's refund; Regular(k) rules out what finding 1 shows. *)
LEMMA RefundOf ==
  ASSUME FlowInv, NEW k \in Keys
  PROVE  /\ "COMPENSATE" \in entries[k] =>
              /\ k \in CashDeposits
              /\ Regular(k) => ~Answered(k, "000") /\ ~Uncertain(k)
         /\ "RECON_COMPENSATE" \in entries[k] => k \in CashDeposits /\ Reconciled(k, "FAILED")
<1>1. RowInv(k)
  BY DEF FlowInv, TableInv
<1>2. Failed(k) /\ Regular(k) => ~Answered(k, "000") /\ ~Uncertain(k)
  BY Definite DEF Failed, Regular, Answered, Uncertain
<1> QED BY <1>1, <1>2 DEF RowInv

LEMMA RefundExcludesSuccess ==
  ASSUME FlowInv, NEW k \in Keys, Regular(k), Answered(k, "000") \/ Reconciled(k, "SUCCESS")
  PROVE  entries[k] \cap Refunds = {}
<1>1. "COMPENSATE" \notin entries[k]
  BY Definite, RefundOf
<1>2. "RECON_COMPENSATE" \notin entries[k]
  BY Definite, RefundOf DEF Reconciled
<1> QED BY <1>1, <1>2 DEF Refunds

LEMMA CreditExcludesFailure ==
  ASSUME FlowInv, NEW k \in Keys, Answered(k, "001") \/ Reconciled(k, "FAILED")
  PROVE  entries[k] \cap Credits = {}
<1>1. "PRINCIPAL" \notin entries[k]
  BY Definite, CreditOf
<1>2. "RECON_SETTLE" \notin entries[k]
  BY Definite, CreditOf DEF Reconciled
<1> QED BY <1>1, <1>2 DEF Credits

-----------------------------------------------------------------------------
(* The theorems about withdrawals and deposits. *)

(* The handlers, the admins' requests and what was sent stay well formed.  *)
THEOREM FlowTypeCorrect == Spec => []FlowTypeOK
<1>1. FlowInv => FlowTypeOK
  BY DEF FlowInv
<1> QED BY FlowInvariance, <1>1, PTL

(* The provider is called at most once for one idempotency key, whatever   *)
(* is retried, redelivered or crashes.                                     *)
THEOREM OneProviderCall == Spec => []ProviderOncePerKey
<1>1. FlowInv => ProviderOncePerKey
  BY DEF FlowInv, CallsInv, CallInv, ProviderOncePerKey
<1> QED BY FlowInvariance, <1>1, PTL

(* A withdrawal is credited only if the provider reported success or an    *)
(* admin resolved the transaction as successful.                           *)
THEOREM CreditIsEarned == Spec => []CreditEarned
<1>1. FlowInv => CreditEarned
  BY CreditOf DEF CreditEarned, Credits
<1> QED BY FlowInvariance, <1>1, PTL

(* While one provider call is in doubt no other one for the same intent    *)
(* is: its record is unsettled, and blocks the intent.                     *)
THEOREM OneDoubtPerIntent == Spec => []OneCallInDoubt
<1>1. ASSUME FlowInv, NEW k \in Keys, InDoubt(k)
      PROVE  Recorded(k) /\ idem[k] \in Record /\ idem[k].status \in Unsettled
  <2>1. CallInv(k) /\ RecordInv(k) /\ Recorded(k) /\ answers[k] # {}
    BY <1>1 DEF InDoubt, FlowInv, FlowTypeOK, CallsInv, CallInv, RecordsInv
  <2>2. idem[k] \in Record
    BY <1>1, <2>1, RecordType DEF FlowInv, IdemInv
  <2>3. ~Answered(k, "000") /\ ~Answered(k, "001") /\ k \notin resolved
    BY <1>1 DEF InDoubt, Answered
  <2> QED BY <2>1, <2>2, <2>3 DEF RecordInv, Record, Final
<1>2. ASSUME FlowInv, NEW k \in Keys, NEW l \in Keys, k # l, InDoubt(k), InDoubt(l),
             IntentOf[idem[k].request] = IntentOf[idem[l].request]
      PROVE  FALSE
  <2>1. PICK intent \in Intents : intent = IntentOf[idem[k].request]
    BY <1>1, <1>2, IdempotencyAssumption DEF Record
  <2>2. {k, l} \subseteq Blocking(intent)
    BY <1>1, <1>2, <2>1 DEF Blocking
  <2> QED BY <1>2, <2>2 DEF FlowInv, IdemInv, OneUnsettledPerIntent
<1>3. FlowInv => OneCallInDoubt
  BY <1>2 DEF OneCallInDoubt
<1> QED BY FlowInvariance, <1>3, PTL

(* A withdrawal is credited at most once, by its handler, by admin         *)
(* reconciliation and by recovery together.                                *)
CreditedOnce == \A k \in Keys : ~(Credits \subseteq entries[k])

THEOREM WithdrawalCreditedOnce == Spec => []CreditedOnce
<1>1. ASSUME FlowInv, NEW k \in Keys PROVE ~(Credits \subseteq entries[k])
  BY <1>1, CreditOf, Definite DEF Credits
<1>2. FlowInv => CreditedOnce
  BY <1>1 DEF CreditedOnce
<1> QED BY FlowInvariance, <1>2, PTL

(* A record that says FAILED has no credit of a withdrawal beside it.      *)
FailedIsNotCredited ==
  \A k \in Keys : Recorded(k) /\ idem[k].status = "FAILED" => entries[k] \cap Credits = {}

THEOREM FailedRecordNotCredited == Spec => []FailedIsNotCredited
<1>1. ASSUME FlowInv, NEW k \in Keys, Recorded(k), idem[k].status = "FAILED"
      PROVE  entries[k] \cap Credits = {}
  BY <1>1, CreditExcludesFailure DEF FlowInv, RecordsInv, RecordInv
<1>2. FlowInv => FailedIsNotCredited
  BY <1>1 DEF FailedIsNotCredited
<1> QED BY FlowInvariance, <1>2, PTL

(* No deposit that was reported FAILED was sent to the provider with       *)
(* another outcome.  A retry with the same key after the handler turned    *)
(* away breaks this: finding 1 of the README, which the run deposit_retry  *)
(* shows.  The theorems about refunds hold in every other behaviour.       *)
NoFailedRetry == \A k \in CashDeposits \cap Keys : Regular(k)

LEMMA RegularKey == NoFailedRetry => \A k \in Keys : Regular(k)
  BY DEF NoFailedRetry, Regular

(* A deposit the provider reported successful keeps its wallet debit,      *)
(* unless it was reported FAILED before.                                   *)
THEOREM SuccessKeepsDebit == Spec => [](NoFailedRetry => SuccessfulDepositKeepsDebit)
<1>1. FlowInv /\ NoFailedRetry => SuccessfulDepositKeepsDebit
  BY RegularKey, RefundExcludesSuccess DEF SuccessfulDepositKeepsDebit
<1> QED BY FlowInvariance, <1>1, PTL

(* No principal moves twice, unless a failed deposit is retried.           *)
THEOREM PrincipalMovedOnce == Spec => [](NoFailedRetry => MovedOnce)
<1>1. ASSUME FlowInv, NoFailedRetry, NEW k \in Keys
      PROVE  ~(Credits \subseteq entries[k]) /\ ~(Refunds \subseteq entries[k])
  <2>1. ~(Credits \subseteq entries[k])
    BY <1>1, CreditOf, Definite DEF Credits
  <2>2. ~(Refunds \subseteq entries[k])
    BY <1>1, RegularKey, RefundOf, Definite DEF Refunds
  <2> QED BY <2>1, <2>2
<1>2. FlowInv /\ NoFailedRetry => MovedOnce
  BY <1>1 DEF MovedOnce
<1> QED BY FlowInvariance, <1>2, PTL

(* What a client is told by a final record agrees with the wallet, unless  *)
(* a failed deposit is retried.                                            *)
THEOREM RecordTellsWallet == Spec => [](NoFailedRetry => RecordAgreesWithWallet)
<1>1. ASSUME FlowInv, NoFailedRetry, NEW k \in Keys, Recorded(k)
      PROVE  /\ idem[k].status = "FAILED" => entries[k] \cap Credits = {}
             /\ idem[k].status = "SUCCESS" => entries[k] \cap Refunds = {}
  <2>1. RecordInv(k) /\ Regular(k)
    BY <1>1, RegularKey DEF FlowInv, RecordsInv
  <2> QED BY <1>1, <2>1, CreditExcludesFailure, RefundExcludesSuccess DEF RecordInv
<1>2. FlowInv /\ NoFailedRetry => RecordAgreesWithWallet
  BY <1>1 DEF RecordAgreesWithWallet
<1> QED BY FlowInvariance, <1>2, PTL

(* Provider income is distributed only for a principal that was settled,   *)
(* unless a failed deposit is retried.                                     *)
THEOREM IncomeIsLast == Spec => [](NoFailedRetry => IncomeAfterPrincipal)
<1>1. ASSUME FlowInv, NoFailedRetry, NEW k \in Keys, ptxn[k].commission = "SETTLED"
      PROVE  IF k \in CashDeposits THEN entries[k] \cap Refunds = {}
             ELSE entries[k] \cap Credits # {}
  <2>1. Earned(k) /\ Regular(k)
    BY <1>1, RegularKey DEF FlowInv, TableInv, RowInv
  <2> QED BY <1>1, <2>1, RefundExcludesSuccess DEF Earned, Credits
<1>2. FlowInv /\ NoFailedRetry => IncomeAfterPrincipal
  BY <1>1 DEF IncomeAfterPrincipal
<1> QED BY FlowInvariance, <1>2, PTL

-----------------------------------------------------------------------------
(* The composition implements its parts, so that what is proved of the     *)
(* rows and of the records on their own holds of withdrawals and deposits. *)

(* Handlers, redeliveries and admins use the provider-transaction table    *)
(* only through the transaction-service's operations.                      *)
THEOREM UsesTheTable == Spec => PtSpec
<1>1. Init => PtInit
  BY DEF Init
<1> QED BY <1>1, FlowInvariance, TableStep, PTL DEF Spec, PtSpec

(* They use the idempotency records only through the operations of         *)
(* VimopayIdempotencyService, a handler's own lock included.               *)
THEOREM UsesTheRecords == Spec => IdemSpec
<1>1. Init => IdemInit
  BY DEF Init
<1> QED BY <1>1, FlowInvariance, RecordStep, PTL DEF Spec, IdemSpec
=============================================================================
