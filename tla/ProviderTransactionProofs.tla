--------------------- MODULE ProviderTransactionProofs ---------------------
(* What holds of the provider-transaction table for any set of references  *)
(* and any number of handlers, proved with TLAPS.                          *)
EXTENDS ProviderTransaction, TLAPS

(* The inductive invariant: SettlementBacked alone is not inductive, since *)
(* FinalizeWrite writes back a settlement status that was read before.     *)
PtInv == TypeOK /\ ExecutionsBacked /\ SettlementBacked /\ ReconciliationBacked

-----------------------------------------------------------------------------
(* What a handler carries. *)

(* What is carried stays backed while entries are only added and claims    *)
(* keep their resolution.                                                  *)
LEMMA CarriedLater ==
  ASSUME NEW e, NEW posted, NEW later, NEW claims, NEW kept,
         Carried(e, posted, claims),
         \A r \in Refs : posted[r] \subseteq later[r],
         \A r \in Refs : claims[r].status # "NONE" =>
           kept[r].status # "NONE" /\ kept[r].resolution = claims[r].resolution
  PROVE  Carried(e, later, kept)
  BY DEF Carried, Backed

(* Entries are only added and claims keep their resolution. *)
Grows ==
  /\ \A r \in Refs : entries[r] \subseteq entries'[r]
  /\ \A r \in Refs : reconciliation[r].status # "NONE" =>
       /\ reconciliation'[r].status # "NONE"
       /\ reconciliation'[r].resolution = reconciliation[r].resolution

(* A step of no worker leaves what the workers carry backed. *)
LEMMA ExecutionsStay ==
  ASSUME ExecutionsBacked, Grows, exec' = exec
  PROVE  ExecutionsBacked'
<1> SUFFICES ASSUME NEW w \in Workers
             PROVE  Carried(exec'[w], entries', reconciliation')
  BY DEF ExecutionsBacked
<1> QED BY CarriedLater DEF ExecutionsBacked, Grows

(* A step of worker w leaves what the others carry backed. *)
LEMMA OthersStay ==
  ASSUME ExecutionsBacked, Grows, NEW w \in Workers,
         \A v \in Workers \ {w} : exec'[v] = exec[v],
         Carried(exec'[w], entries', reconciliation')
  PROVE  ExecutionsBacked'
<1> SUFFICES ASSUME NEW v \in Workers
             PROVE  Carried(exec'[v], entries', reconciliation')
  BY DEF ExecutionsBacked
<1>1. CASE v = w
  BY <1>1
<1>2. CASE v # w
  BY <1>2, CarriedLater DEF ExecutionsBacked, Grows
<1> QED BY <1>1, <1>2

LEMMA IdleCarried ==
  /\ Idle \in Execution
  /\ \A posted, claims : Carried(Idle, posted, claims)
  BY DEF Idle, Execution, Steps, Statuses, SettlementStatuses, Carried

(* A step that only moves worker w keeps the invariant when what w carries *)
(* next is backed.                                                         *)
LEMMA MoveKeeps ==
  ASSUME PtInv, NEW w \in Workers, NEW e \in Execution,
         Carried(e, entries, reconciliation),
         exec' = [exec EXCEPT ![w] = e],
         UNCHANGED <<ptxn, entries, reconciliation>>
  PROVE  PtInv'
<1>1. TypeOK'
  BY DEF PtInv, TypeOK
<1>2. ExecutionsBacked'
  <2>1. exec'[w] = e /\ \A v \in Workers \ {w} : exec'[v] = exec[v]
    BY DEF PtInv, TypeOK
  <2> QED BY <2>1, OthersStay DEF PtInv, Grows
<1>3. SettlementBacked' /\ ReconciliationBacked'
  BY DEF PtInv, SettlementBacked, ReconciliationBacked
<1> QED BY <1>1, <1>2, <1>3 DEF PtInv


-----------------------------------------------------------------------------
(* The reads: a handler keeps what it read. *)

LEMMA ProcessingReadKeeps ==
  ASSUME PtInv, NEW w \in Workers, NEW r \in Refs,
         MarkProcessingRead(w, r)
  PROVE  PtInv'
<1> DEFINE e == [at |-> "ProcessingWrite", ref |-> r, arg |-> "PROCESSING", seen |-> ptxn[r].settlement]
<1>1. ptxn[r] \in PtxnRow /\ Backed(r, ptxn[r].settlement, entries[r])
  BY DEF PtInv, TypeOK, SettlementBacked
<1>2. e \in Execution
  BY <1>1 DEF MarkProcessingRead, Execution, Steps, PtxnRow, Statuses, Resolutions
<1>3. Carried(e, entries, reconciliation)
  BY <1>1 DEF MarkProcessingRead, Carried, Backed, Resolutions
<1> QED BY <1>2, <1>3, MoveKeeps DEF MarkProcessingRead, Enter

LEMMA FinalizeReadKeeps ==
  ASSUME PtInv, NEW w \in Workers, NEW r \in Refs, NEW s \in {"SUCCESS", "FAILED", "PENDING"},
         FinalizeRead(w, r, s)
  PROVE  PtInv'
<1> DEFINE e == [at |-> "FinalizeWrite", ref |-> r, arg |-> s, seen |-> ptxn[r].settlement]
<1>1. ptxn[r] \in PtxnRow /\ Backed(r, ptxn[r].settlement, entries[r])
  BY DEF PtInv, TypeOK, SettlementBacked
<1>2. e \in Execution
  BY <1>1 DEF FinalizeRead, Execution, Steps, PtxnRow, Statuses, Resolutions
<1>3. Carried(e, entries, reconciliation)
  BY <1>1 DEF FinalizeRead, Carried, Backed, Resolutions, Exists
<1> QED BY <1>2, <1>3, MoveKeeps DEF FinalizeRead, Enter, Exists

LEMMA UnknownReadKeeps ==
  ASSUME PtInv, NEW w \in Workers, NEW r \in Refs,
         MarkUnknownRead(w, r)
  PROVE  PtInv'
<1> DEFINE e == [at |-> "UnknownWrite", ref |-> r, arg |-> "UNKNOWN", seen |-> ptxn[r].settlement]
<1>1. ptxn[r] \in PtxnRow /\ Backed(r, ptxn[r].settlement, entries[r])
  BY DEF PtInv, TypeOK, SettlementBacked
<1>2. e \in Execution
  BY <1>1 DEF MarkUnknownRead, Execution, Steps, PtxnRow, Statuses, Resolutions
<1>3. Carried(e, entries, reconciliation)
  BY <1>1 DEF MarkUnknownRead, Carried, Backed, Resolutions, Exists
<1> QED BY <1>2, <1>3, MoveKeeps DEF MarkUnknownRead, Enter, Exists

LEMMA ConfirmReadKeeps ==
  ASSUME PtInv, NEW w \in Workers, NEW r \in Refs,
         ConfirmRead(w, r)
  PROVE  PtInv'
<1> DEFINE e == [at |-> "ConfirmWrite", ref |-> r, arg |-> "SUCCESS", seen |-> ptxn[r].settlement]
<1>1. ptxn[r] \in PtxnRow /\ Backed(r, ptxn[r].settlement, entries[r])
  BY DEF PtInv, TypeOK, SettlementBacked
<1>2. e \in Execution
  BY <1>1 DEF ConfirmRead, Execution, Steps, PtxnRow, Statuses, Resolutions
<1>3. Carried(e, entries, reconciliation)
  BY <1>1 DEF ConfirmRead, Carried, Backed, Resolutions, Confirmable
<1> QED BY <1>2, <1>3, MoveKeeps DEF ConfirmRead, Enter, Confirmable

LEMMA CommissionReadKeeps ==
  ASSUME PtInv, NEW w \in Workers, NEW r \in Refs, NEW s \in CommissionStatuses,
         CommissionRead(w, r, s)
  PROVE  PtInv'
<1> DEFINE e == [at |-> "CommissionWrite", ref |-> r, arg |-> s, seen |-> ptxn[r].settlement]
<1>1. ptxn[r] \in PtxnRow /\ Backed(r, ptxn[r].settlement, entries[r])
  BY DEF PtInv, TypeOK, SettlementBacked
<1>2. e \in Execution
  BY <1>1 DEF CommissionRead, Execution, Steps, PtxnRow, Statuses, Resolutions
<1>3. Carried(e, entries, reconciliation)
  BY <1>1 DEF CommissionRead, Carried, Backed, Resolutions, Exists
<1> QED BY <1>2, <1>3, MoveKeeps DEF CommissionRead, Enter, Exists

LEMMA RecoverStartKeeps ==
  ASSUME PtInv, NEW w \in Workers, NEW r \in Refs,
         RecoverStart(w, r)
  PROVE  PtInv'
<1> DEFINE e == [at |-> "RecoverEffect", ref |-> r, arg |-> ptxn[r].status, seen |-> ptxn[r].settlement]
<1>1. ptxn[r] \in PtxnRow /\ Backed(r, ptxn[r].settlement, entries[r])
  BY DEF PtInv, TypeOK, SettlementBacked
<1>2. e \in Execution
  BY <1>1 DEF RecoverStart, Execution, Steps, PtxnRow, Statuses, Resolutions
<1>3. Carried(e, entries, reconciliation)
  BY <1>1 DEF RecoverStart, Carried, Backed, Resolutions, Enter
<1> QED BY <1>2, <1>3, MoveKeeps DEF RecoverStart, RecoveryRequired, Enter

-----------------------------------------------------------------------------
(* The steps of the table itself, and the writes of the handlers. *)

LEMMA CreateKeeps ==
  ASSUME PtInv, NEW r \in Refs, CreateProviderTransaction(r)
  PROVE  PtInv'
<1> USE DEF CreateProviderTransaction, Exists
<1>1. TypeOK'
  BY DEF PtInv, TypeOK, PtxnRow, Statuses, SettlementStatuses
<1>2. ExecutionsBacked'
  <2>1. Grows
    BY DEF PtInv, TypeOK, Grows
  <2> QED BY <2>1, ExecutionsStay DEF PtInv
<1>3. SettlementBacked'
  BY DEF PtInv, TypeOK, PtxnRow, SettlementBacked, Backed
<1>4. ReconciliationBacked'
  BY DEF PtInv, TypeOK, ReconciliationBacked
<1> QED BY <1>1, <1>2, <1>3, <1>4 DEF PtInv

LEMMA PrepareKeeps ==
  ASSUME PtInv, NEW r \in Refs, PrepareProviderWalletDebit(r)
  PROVE  PtInv'
<1> USE DEF PrepareProviderWalletDebit, Exists
<1>1. TypeOK'
  BY DEF PtInv, TypeOK, PtxnRow, Statuses, SettlementStatuses, EntryKeys
<1>2. ExecutionsBacked'
  <2>1. Grows
    BY DEF PtInv, TypeOK, Grows
  <2> QED BY <2>1, ExecutionsStay DEF PtInv
<1>3. SettlementBacked'
  BY DEF PtInv, TypeOK, PtxnRow, SettlementBacked, Backed
<1>4. ReconciliationBacked'
  BY DEF PtInv, TypeOK, ReconciliationBacked
<1> QED BY <1>1, <1>2, <1>3, <1>4 DEF PtInv

LEMMA SettleKeeps ==
  ASSUME PtInv, NEW r \in Refs, SettlePrincipal(r)
  PROVE  PtInv'
<1> USE DEF SettlePrincipal, PostSettle, Settled, Exists
<1>1. TypeOK'
  BY DEF PtInv, TypeOK, PtxnRow, SettlementStatuses, EntryKeys
<1>2. ExecutionsBacked'
  <2>1. Grows
    BY DEF PtInv, TypeOK, Grows
  <2> QED BY <2>1, ExecutionsStay DEF PtInv
<1>3. SettlementBacked'
  BY DEF PtInv, TypeOK, PtxnRow, SettlementBacked, Backed, Credits
<1>4. ReconciliationBacked'
  BY DEF PtInv, TypeOK, ReconciliationBacked
<1> QED BY <1>1, <1>2, <1>3, <1>4 DEF PtInv

LEMMA CompensateKeeps ==
  ASSUME PtInv, NEW r \in Refs, CompensateDeposit(r)
  PROVE  PtInv'
<1> USE DEF CompensateDeposit, PostCompensate, Compensated
<1>1. TypeOK'
  <2>1. ptxn' \in [Refs -> PtxnRow]
    BY DEF PtInv, TypeOK, PtxnRow, SettlementStatuses
  <2>2. entries' \in [Refs -> SUBSET EntryKeys]
    BY DEF PtInv, TypeOK, EntryKeys
  <2> QED BY <2>1, <2>2 DEF PtInv, TypeOK
<1>2. ExecutionsBacked'
  <2>1. Grows
    BY DEF PtInv, TypeOK, Grows
  <2> QED BY <2>1, ExecutionsStay DEF PtInv
<1>3. SettlementBacked'
  BY DEF PtInv, TypeOK, PtxnRow, SettlementBacked, Backed, Refunds
<1>4. ReconciliationBacked'
  BY DEF PtInv, TypeOK, ReconciliationBacked
<1> QED BY <1>1, <1>2, <1>3, <1>4 DEF PtInv

LEMMA FlagKeeps ==
  ASSUME PtInv, NEW r \in Refs, MarkFinancialRecoveryRequired(r)
  PROVE  PtInv'
<1> USE DEF MarkFinancialRecoveryRequired
<1>1. TypeOK'
  BY DEF PtInv, TypeOK, PtxnRow
<1>2. ExecutionsBacked'
  <2>1. Grows
    BY DEF PtInv, TypeOK, Grows
  <2> QED BY <2>1, ExecutionsStay DEF PtInv
<1>3. SettlementBacked'
  BY DEF PtInv, TypeOK, PtxnRow, SettlementBacked, Backed
<1>4. ReconciliationBacked'
  BY DEF PtInv, TypeOK, ReconciliationBacked
<1> QED BY <1>1, <1>2, <1>3, <1>4 DEF PtInv

LEMMA ProcessingWriteKeeps ==
  ASSUME PtInv, NEW w \in Workers, MarkProcessingWrite(w)
  PROVE  PtInv'
<1>1. exec[w].ref \in Refs
  BY DEF PtInv, TypeOK, ExecutionsBacked, Carried, Execution, MarkProcessingWrite
<1>2. TypeOK'
  BY <1>1, IdleCarried DEF PtInv, TypeOK, PtxnRow, Leave, MarkProcessingWrite, Statuses
<1>3. ExecutionsBacked'
  <2>1. Grows
    BY DEF Grows, MarkProcessingWrite
  <2>2. exec'[w] = Idle /\ \A v \in Workers \ {w} : exec'[v] = exec[v]
    BY DEF PtInv, TypeOK, Leave, MarkProcessingWrite
  <2> QED BY <2>1, <2>2, IdleCarried, OthersStay DEF PtInv
<1>4. SettlementBacked'
  BY <1>1 DEF PtInv, TypeOK, PtxnRow, SettlementBacked, Backed, MarkProcessingWrite
<1>5. ReconciliationBacked'
  BY DEF PtInv, ReconciliationBacked, MarkProcessingWrite
<1> QED BY <1>2, <1>3, <1>4, <1>5 DEF PtInv

LEMMA FinalizeWriteKeeps ==
  ASSUME PtInv, NEW w \in Workers, FinalizeWrite(w)
  PROVE  PtInv'
<1>1. /\ exec[w].ref \in Refs /\ exec[w].seen \in SettlementStatuses
      /\ exec[w].arg \in Resolutions \cup {"PENDING"}
      /\ Backed(exec[w].ref, exec[w].seen, entries[exec[w].ref])
  BY DEF PtInv, TypeOK, ExecutionsBacked, Carried, Execution, FinalizeWrite
<1>2. TypeOK'
  BY <1>1, IdleCarried DEF PtInv, TypeOK, PtxnRow, Leave, FinalizeWrite, Statuses, SettlementStatuses
<1>3. ExecutionsBacked'
  <2>1. Grows
    BY DEF Grows, FinalizeWrite
  <2>2. exec'[w] = Idle /\ \A v \in Workers \ {w} : exec'[v] = exec[v]
    BY DEF PtInv, TypeOK, Leave, FinalizeWrite
  <2> QED BY <2>1, <2>2, IdleCarried, OthersStay DEF PtInv
<1>4. SettlementBacked'
  BY <1>1 DEF PtInv, TypeOK, PtxnRow, SettlementBacked, Backed, FinalizeWrite
<1>5. ReconciliationBacked'
  BY DEF PtInv, ReconciliationBacked, FinalizeWrite
<1> QED BY <1>2, <1>3, <1>4, <1>5 DEF PtInv

LEMMA UnknownWriteKeeps ==
  ASSUME PtInv, NEW w \in Workers, MarkUnknownWrite(w)
  PROVE  PtInv'
<1>1. exec[w].ref \in Refs
  BY DEF PtInv, TypeOK, ExecutionsBacked, Carried, Execution, MarkUnknownWrite
<1>2. TypeOK'
  BY <1>1, IdleCarried DEF PtInv, TypeOK, PtxnRow, Leave, MarkUnknownWrite, Statuses
<1>3. ExecutionsBacked'
  <2>1. Grows
    BY DEF Grows, MarkUnknownWrite
  <2>2. exec'[w] = Idle /\ \A v \in Workers \ {w} : exec'[v] = exec[v]
    BY DEF PtInv, TypeOK, Leave, MarkUnknownWrite
  <2> QED BY <2>1, <2>2, IdleCarried, OthersStay DEF PtInv
<1>4. SettlementBacked'
  BY <1>1 DEF PtInv, TypeOK, PtxnRow, SettlementBacked, Backed, MarkUnknownWrite
<1>5. ReconciliationBacked'
  BY DEF PtInv, ReconciliationBacked, MarkUnknownWrite
<1> QED BY <1>2, <1>3, <1>4, <1>5 DEF PtInv

LEMMA ConfirmWriteKeeps ==
  ASSUME PtInv, NEW w \in Workers, ConfirmWrite(w)
  PROVE  PtInv'
<1>1. /\ exec[w].ref \in Refs /\ exec[w].ref \in CashDeposits
      /\ "RESERVE" \in entries[exec[w].ref]
  BY DEF PtInv, TypeOK, ExecutionsBacked, Carried, Execution, ConfirmWrite, Settled
<1>2. TypeOK'
  BY <1>1, IdleCarried DEF PtInv, TypeOK, PtxnRow, Leave, ConfirmWrite, Settled, SettlementStatuses
<1>3. ExecutionsBacked'
  <2>1. Grows
    BY DEF Grows, ConfirmWrite, Settled
  <2>2. exec'[w] = Idle /\ \A v \in Workers \ {w} : exec'[v] = exec[v]
    BY DEF PtInv, TypeOK, Leave, ConfirmWrite, Settled
  <2> QED BY <2>1, <2>2, IdleCarried, OthersStay DEF PtInv
<1>4. SettlementBacked'
  BY <1>1 DEF PtInv, TypeOK, PtxnRow, SettlementBacked, Backed, ConfirmWrite, Settled
<1>5. ReconciliationBacked'
  BY DEF PtInv, ReconciliationBacked, ConfirmWrite, Settled
<1> QED BY <1>2, <1>3, <1>4, <1>5 DEF PtInv

LEMMA CommissionWriteKeeps ==
  ASSUME PtInv, NEW w \in Workers, CommissionWrite(w)
  PROVE  PtInv'
<1>1. exec[w].ref \in Refs /\ exec[w].arg \in CommissionStatuses
  BY DEF PtInv, TypeOK, ExecutionsBacked, Carried, Execution, CommissionWrite
<1>2. TypeOK'
  BY <1>1, IdleCarried DEF PtInv, TypeOK, PtxnRow, Leave, CommissionWrite
<1>3. ExecutionsBacked'
  <2>1. Grows
    BY DEF Grows, CommissionWrite
  <2>2. exec'[w] = Idle /\ \A v \in Workers \ {w} : exec'[v] = exec[v]
    BY DEF PtInv, TypeOK, Leave, CommissionWrite
  <2> QED BY <2>1, <2>2, IdleCarried, OthersStay DEF PtInv
<1>4. SettlementBacked'
  BY <1>1 DEF PtInv, TypeOK, PtxnRow, SettlementBacked, Backed, CommissionWrite
<1>5. ReconciliationBacked'
  BY DEF PtInv, ReconciliationBacked, CommissionWrite
<1> QED BY <1>2, <1>3, <1>4, <1>5 DEF PtInv

LEMMA RecoverClearKeeps ==
  ASSUME PtInv, NEW w \in Workers, RecoverClear(w)
  PROVE  PtInv'
<1>1. exec[w].ref \in Refs /\ exec[w].arg \in CommissionStatuses \cup {"NONE"}
  BY DEF PtInv, TypeOK, ExecutionsBacked, Carried, Execution, RecoverClear
<1>2. TypeOK'
  BY <1>1, IdleCarried DEF PtInv, TypeOK, PtxnRow, Leave, RecoverClear
<1>3. ExecutionsBacked'
  <2>1. Grows
    BY DEF Grows, RecoverClear
  <2>2. exec'[w] = Idle /\ \A v \in Workers \ {w} : exec'[v] = exec[v]
    BY DEF PtInv, TypeOK, Leave, RecoverClear
  <2> QED BY <2>1, <2>2, IdleCarried, OthersStay DEF PtInv
<1>4. SettlementBacked'
  BY <1>1 DEF PtInv, TypeOK, PtxnRow, SettlementBacked, Backed, RecoverClear
<1>5. ReconciliationBacked'
  BY DEF PtInv, ReconciliationBacked, RecoverClear
<1> QED BY <1>2, <1>3, <1>4, <1>5 DEF PtInv

-----------------------------------------------------------------------------
(* Admin reconciliation. *)

LEMMA ResolveClaimKeeps ==
  ASSUME PtInv, NEW w \in Workers, NEW r \in Refs, NEW s \in Resolutions,
         ResolveClaim(w, r, s)
  PROVE  PtInv'
<1> DEFINE e == [at |-> "ResolveApply", ref |-> r, arg |-> s, seen |-> ptxn[r].settlement]
<1> USE DEF ResolveClaim
<1>1. ptxn[r] \in PtxnRow /\ Backed(r, ptxn[r].settlement, entries[r])
  BY DEF PtInv, TypeOK, SettlementBacked
<1>2. e \in Execution
  BY <1>1 DEF Execution, Steps, PtxnRow, Statuses
<1>3. TypeOK'
  BY <1>2 DEF PtInv, TypeOK, ReconciliationRow, Enter
<1>4. Grows
  BY DEF PtInv, TypeOK, ReconciliationRow, Grows
<1>5. ExecutionsBacked'
  <2>1. exec'[w] = e /\ \A v \in Workers \ {w} : exec'[v] = exec[v]
    BY DEF PtInv, TypeOK, Enter
  <2>2. Carried(e, entries', reconciliation')
    BY <1>1 DEF PtInv, TypeOK, Carried, ReconciliationRow
  <2> QED BY <1>4, <2>1, <2>2, OthersStay DEF PtInv
<1>6. SettlementBacked' /\ ReconciliationBacked'
  BY DEF PtInv, TypeOK, ReconciliationRow, SettlementBacked, ReconciliationBacked
<1> QED BY <1>3, <1>5, <1>6 DEF PtInv

(* A resolution leaves the settlement status it calls for backed: by the   *)
(* entry it posts, or by what already backed the status it found.          *)
LEMMA ResolveApplyKeeps ==
  ASSUME PtInv, NEW w \in Workers, ResolveApply(w)
  PROVE  PtInv'
<1> DEFINE r == exec[w].ref
           s == exec[w].arg
<1> USE DEF ResolveApply
<1>1. /\ r \in Refs /\ s \in Resolutions
      /\ reconciliation[r].resolution = s
      /\ Backed(r, ptxn[r].settlement, entries[r])
  BY DEF PtInv, ExecutionsBacked, Carried, SettlementBacked
<1>2. ptxn'[r].settlement = ResolvedSettlement(r, s)
  BY <1>1 DEF PtInv, TypeOK
<1>3. entries'[r] = entries[r] \cup ResolveEntry(r, s)
  BY <1>1 DEF PtInv, TypeOK
<1>4. Backed(r, ptxn'[r].settlement, entries'[r])
  <2>1. CASE r \in CashDeposits /\ s = "SUCCESS"
    BY <1>1, <1>2, <1>3, <2>1 DEF Backed, Resolvable, ResolvedSettlement
  <2>2. CASE r \in CashDeposits /\ s = "FAILED"
    BY <1>1, <1>2, <1>3, <2>2
    DEF Backed, Resolvable, ResolvedSettlement, ResolveEntry, Refunds
  <2>3. CASE r \notin CashDeposits
    BY <1>1, <1>2, <1>3, <2>3
    DEF Backed, Resolvable, ResolvedSettlement, ResolveEntry, Resolutions, Credits
  <2> QED BY <1>1, <2>1, <2>2, <2>3 DEF Resolutions
<1>5. TypeOK'
  <2>1. ptxn' \in [Refs -> PtxnRow]
    BY <1>1 DEF PtInv, TypeOK, PtxnRow, Statuses, ResolvedSettlement,
                SettlementStatuses, CommissionStatuses
  <2>2. entries' \in [Refs -> SUBSET EntryKeys]
    BY <1>1 DEF PtInv, TypeOK, ResolveEntry, EntryKeys
  <2>3. reconciliation' \in [Refs -> ReconciliationRow]
    BY <1>1 DEF PtInv, TypeOK, ReconciliationRow
  <2>4. exec' \in [Workers -> Execution]
    BY IdleCarried DEF PtInv, TypeOK, Leave
  <2> QED BY <2>1, <2>2, <2>3, <2>4 DEF TypeOK
<1>6. Grows
  BY <1>1 DEF PtInv, TypeOK, ReconciliationRow, Grows
<1>7. ExecutionsBacked'
  <2>1. exec'[w] = Idle /\ \A v \in Workers \ {w} : exec'[v] = exec[v]
    BY DEF PtInv, TypeOK, Leave
  <2> QED BY <1>6, <2>1, IdleCarried, OthersStay DEF PtInv
<1>8. \A q \in Refs \ {r} : /\ ptxn'[q] = ptxn[q] /\ entries'[q] = entries[q]
                            /\ reconciliation'[q] = reconciliation[q]
  BY <1>1 DEF PtInv, TypeOK
<1>9. SettlementBacked'
  BY <1>4, <1>8 DEF PtInv, SettlementBacked
<1>10. ReconciliationBacked'
  <2>1. reconciliation'[r].resolution = s
    BY <1>1 DEF PtInv, TypeOK, ReconciliationRow
  <2>2. /\ r \notin CashDeposits /\ s = "SUCCESS" => entries'[r] \cap Credits # {}
        /\ r \in CashDeposits /\ s = "FAILED" => entries'[r] \cap Refunds # {}
    BY <1>2, <1>4 DEF Backed, ResolvedSettlement
  <2> QED BY <1>8, <2>1, <2>2 DEF PtInv, ReconciliationBacked
<1> QED BY <1>5, <1>7, <1>9, <1>10 DEF PtInv

LEMMA ResolveDuplicateKeeps ==
  ASSUME PtInv, NEW w \in Workers, ResolveDuplicate(w)
  PROVE  PtInv'
  BY IdleCarried, MoveKeeps DEF ResolveDuplicate, Leave

LEMMA ResolveAbortKeeps ==
  ASSUME PtInv, NEW w \in Workers, ResolveAbort(w)
  PROVE  PtInv'
<1> DEFINE e == [exec[w] EXCEPT !.at = "ResolveUndo"]
<1>1. exec[w] \in Execution /\ Carried(exec[w], entries, reconciliation)
  BY DEF PtInv, TypeOK, ExecutionsBacked
<1>2. e \in Execution
  BY <1>1 DEF Execution, Steps
<1>3. Carried(e, entries, reconciliation)
  BY <1>1 DEF ResolveAbort, Carried, Execution
<1>4. exec' = [exec EXCEPT ![w] = e]
  BY DEF PtInv, TypeOK, ResolveAbort
<1> QED BY <1>2, <1>3, <1>4, MoveKeeps DEF ResolveAbort

LEMMA ResolveUndoKeeps ==
  ASSUME PtInv, NEW w \in Workers, ResolveUndo(w)
  PROVE  PtInv'
<1> USE DEF ResolveUndo
<1>1. exec[w].ref \in Refs
  BY DEF PtInv, ExecutionsBacked, Carried
<1>2. TypeOK'
  BY <1>1, IdleCarried DEF PtInv, TypeOK, ReconciliationRow, Leave
<1>3. ExecutionsBacked'
  <2>1. Grows
    BY <1>1 DEF PtInv, TypeOK, ReconciliationRow, Grows
  <2>2. exec'[w] = Idle /\ \A v \in Workers \ {w} : exec'[v] = exec[v]
    BY DEF PtInv, TypeOK, Leave
  <2> QED BY <2>1, <2>2, IdleCarried, OthersStay DEF PtInv
<1>4. SettlementBacked' /\ ReconciliationBacked'
  BY <1>1 DEF PtInv, TypeOK, ReconciliationRow, SettlementBacked, ReconciliationBacked
<1> QED BY <1>2, <1>3, <1>4 DEF PtInv

-----------------------------------------------------------------------------
(* Admin recovery, and stopping. *)

LEMMA RecoverEffectKeeps ==
  ASSUME PtInv, NEW w \in Workers, RecoverEffect(w)
  PROVE  PtInv'
<1> DEFINE r == exec[w].ref
<1>1. /\ exec[w] \in Execution /\ r \in Refs
      /\ exec[w].at = "RecoverEffect"
      /\ Carried(exec[w], entries, reconciliation)
      /\ Backed(r, ptxn[r].settlement, entries[r])
  BY DEF PtInv, TypeOK, ExecutionsBacked, SettlementBacked, Carried, RecoverEffect
<1>2. PICK step \in {"RecoverVerify", "RecoverConfirm"} :
        /\ RecoverTo(w, step)
        /\ step = "RecoverConfirm" => r \in CashDeposits /\ Confirmable(r)
  BY DEF RecoverEffect
<1>3. \/ PostSettle(r)
      \/ PostCompensate(r)
      \/ /\ r \notin CashDeposits
         /\ ptxn' = [ptxn EXCEPT ![r].settlement = "NOT_REQUIRED"]
         /\ UNCHANGED entries
      \/ UNCHANGED <<ptxn, entries>>
  BY DEF RecoverEffect
<1>4. ptxn' \in [Refs -> PtxnRow] /\ entries' \in [Refs -> SUBSET EntryKeys]
  BY <1>1, <1>3 DEF PtInv, TypeOK, PtxnRow, SettlementStatuses, EntryKeys,
                    PostSettle, PostCompensate, Settled, Compensated
<1>5. /\ \A q \in Refs : entries[q] \subseteq entries'[q]
      /\ \A q \in Refs : Backed(q, ptxn'[q].settlement, entries'[q])
  <2>1. CASE PostSettle(r)
    BY <1>1, <2>1 DEF PtInv, TypeOK, PtxnRow, SettlementBacked, Backed, PostSettle, Settled,
                      Credits
  <2>2. CASE PostCompensate(r)
    BY <1>1, <2>2 DEF PtInv, TypeOK, PtxnRow, SettlementBacked, Backed, PostCompensate,
                      Compensated, Refunds
  <2>3. CASE /\ r \notin CashDeposits
             /\ ptxn' = [ptxn EXCEPT ![r].settlement = "NOT_REQUIRED"]
             /\ UNCHANGED entries
    BY <1>1, <2>3 DEF PtInv, TypeOK, PtxnRow, SettlementBacked, Backed
  <2>4. CASE UNCHANGED <<ptxn, entries>>
    BY <2>4 DEF PtInv, SettlementBacked, Backed
  <2> QED BY <1>3, <2>1, <2>2, <2>3, <2>4
<1>6. reconciliation' = reconciliation
  BY DEF RecoverEffect
<1>7. exec'[w] = [exec[w] EXCEPT !.at = step] /\ \A v \in Workers \ {w} : exec'[v] = exec[v]
  BY <1>2 DEF PtInv, TypeOK, RecoverTo
<1>8. TypeOK'
  <2>1. [exec[w] EXCEPT !.at = step] \in Execution
    BY <1>1 DEF Execution, Steps
  <2>2. exec' \in [Workers -> Execution]
    BY <1>2, <2>1 DEF PtInv, TypeOK, RecoverTo
  <2> QED BY <1>4, <1>6, <2>2 DEF PtInv, TypeOK
<1>9. ExecutionsBacked'
  <2>1. Carried(exec'[w], entries', reconciliation')
    BY <1>1, <1>2, <1>5, <1>7 DEF Carried, Backed, Confirmable, Execution
  <2>2. Grows
    BY <1>5, <1>6 DEF Grows
  <2> QED BY <1>7, <2>1, <2>2, OthersStay DEF PtInv
<1>10. SettlementBacked' /\ ReconciliationBacked'
  BY <1>5, <1>6 DEF PtInv, SettlementBacked, ReconciliationBacked
<1> QED BY <1>8, <1>9, <1>10 DEF PtInv

LEMMA RecoverConfirmKeeps ==
  ASSUME PtInv, NEW w \in Workers, RecoverConfirm(w)
  PROVE  PtInv'
<1> USE DEF RecoverConfirm
<1>1. /\ exec[w] \in Execution /\ exec[w].ref \in Refs /\ exec[w].ref \in CashDeposits
      /\ "RESERVE" \in entries[exec[w].ref]
      /\ Carried(exec[w], entries, reconciliation)
  BY DEF PtInv, TypeOK, ExecutionsBacked, Carried
<1>2. /\ exec'[w] = [exec[w] EXCEPT !.at = "RecoverVerify"]
      /\ \A v \in Workers \ {w} : exec'[v] = exec[v]
  BY DEF PtInv, TypeOK, RecoverTo
<1>3. TypeOK'
  <2>1. ptxn' \in [Refs -> PtxnRow]
    BY <1>1 DEF PtInv, TypeOK, PtxnRow, SettlementStatuses, Settled
  <2>2. exec' \in [Workers -> Execution]
    BY <1>1 DEF PtInv, TypeOK, RecoverTo, Execution, Steps
  <2> QED BY <2>1, <2>2 DEF PtInv, TypeOK
<1>4. ExecutionsBacked'
  <2>1. Grows
    BY DEF Grows
  <2>2. Carried(exec'[w], entries', reconciliation')
    BY <1>1, <1>2 DEF Carried, Execution
  <2> QED BY <1>2, <2>1, <2>2, OthersStay DEF PtInv
<1>5. SettlementBacked' /\ ReconciliationBacked'
  BY <1>1 DEF PtInv, TypeOK, PtxnRow, SettlementBacked, ReconciliationBacked, Backed, Settled
<1> QED BY <1>3, <1>4, <1>5 DEF PtInv

LEMMA RecoverVerifyKeeps ==
  ASSUME PtInv, NEW w \in Workers, RecoverVerify(w)
  PROVE  PtInv'
<1> DEFINE r == exec[w].ref
<1>1. r \in Refs
  BY DEF PtInv, ExecutionsBacked, Carried, RecoverVerify
<1>2. ptxn[r] \in PtxnRow /\ Backed(r, ptxn[r].settlement, entries[r])
  BY <1>1 DEF PtInv, TypeOK, SettlementBacked
<1>3. PICK c \in RecoveredCommission(r) : Enter(w, "RecoverClear", r, c, ptxn[r].settlement)
  BY DEF RecoverVerify
<1>4. c \in CommissionStatuses \cup {"NONE"}
  BY <1>3 DEF RecoveredCommission, CommissionStatuses
<1> DEFINE e == [at |-> "RecoverClear", ref |-> r, arg |-> c, seen |-> ptxn[r].settlement]
<1>5. e \in Execution
  BY <1>1, <1>2, <1>4 DEF Execution, Steps, PtxnRow, Statuses
<1>6. Carried(e, entries, reconciliation)
  BY <1>1, <1>2, <1>4 DEF Carried
<1> QED BY <1>3, <1>5, <1>6, MoveKeeps DEF RecoverVerify, Enter

LEMMA StopKeeps ==
  ASSUME PtInv, NEW w \in Workers, Stop(w)
  PROVE  PtInv'
  BY IdleCarried, MoveKeeps DEF Stop, Leave

-----------------------------------------------------------------------------

LEMMA InitInv == PtInit => PtInv
<1> SUFFICES ASSUME PtInit PROVE PtInv
  OBVIOUS
<1>1. TypeOK
  BY IdleCarried DEF PtInit, TypeOK, PtxnRow, Statuses, SettlementStatuses,
                     CommissionStatuses, ReconciliationRow, Resolutions
<1>2. ExecutionsBacked
  BY IdleCarried DEF PtInit, ExecutionsBacked
<1>3. SettlementBacked /\ ReconciliationBacked
  BY DEF PtInit, SettlementBacked, ReconciliationBacked, Backed
<1> QED BY <1>1, <1>2, <1>3 DEF PtInv

LEMMA NextKeeps == PtInv /\ [PtNext]_ptVars => PtInv'
<1> SUFFICES ASSUME PtInv, [PtNext]_ptVars PROVE PtInv'
  OBVIOUS
<1>1. ASSUME NEW r \in Refs, CreateSteps(r) PROVE PtInv'
  BY <1>1, CreateKeeps, PrepareKeeps DEF CreateSteps
<1>2. ASSUME NEW w \in Workers, NEW r \in Refs, StatusSteps(w, r) PROVE PtInv'
  BY <1>2, ProcessingReadKeeps, ProcessingWriteKeeps, FinalizeReadKeeps, FinalizeWriteKeeps,
     UnknownReadKeeps, UnknownWriteKeeps, FlagKeeps DEF StatusSteps
<1>3. ASSUME NEW w \in Workers, NEW r \in Refs, PrincipalSteps(w, r) PROVE PtInv'
  BY <1>3, SettleKeeps, CompensateKeeps, ConfirmReadKeeps, ConfirmWriteKeeps DEF PrincipalSteps
<1>4. ASSUME NEW w \in Workers, NEW r \in Refs, CommissionSteps(w, r) PROVE PtInv'
  BY <1>4, CommissionReadKeeps, CommissionWriteKeeps DEF CommissionSteps
<1>5. ASSUME NEW w \in Workers, NEW r \in Refs, ResolveSteps(w, r) PROVE PtInv'
  BY <1>5, ResolveClaimKeeps, ResolveApplyKeeps, ResolveDuplicateKeeps, ResolveAbortKeeps,
     ResolveUndoKeeps DEF ResolveSteps
<1>6. ASSUME NEW w \in Workers, NEW r \in Refs, RecoverSteps(w, r) PROVE PtInv'
  BY <1>6, RecoverStartKeeps, RecoverEffectKeeps, RecoverConfirmKeeps, RecoverVerifyKeeps,
     RecoverClearKeeps DEF RecoverSteps
<1>7. ASSUME NEW w \in Workers, Stop(w) PROVE PtInv'
  BY <1>7, StopKeeps
<1>8. CASE UNCHANGED ptVars
  BY <1>8 DEF ptVars, PtInv, TypeOK, ExecutionsBacked, Carried, SettlementBacked, Backed,
              ReconciliationBacked
<1> QED BY <1>1, <1>2, <1>3, <1>4, <1>5, <1>6, <1>7, <1>8 DEF PtNext

LEMMA Invariance == PtSpec => []PtInv
  BY InitInv, NextKeeps, PTL DEF PtSpec

(* The table and the handlers' records stay well formed. *)
THEOREM TypeCorrect == PtSpec => []TypeOK
<1>1. PtInv => TypeOK
  BY DEF PtInv
<1> QED BY Invariance, <1>1, PTL

(* A row's settlement status is always backed by its wallet entries,       *)
(* whatever the handlers read before they write.                           *)
THEOREM SettlementIsBacked == PtSpec => []SettlementBacked
<1>1. PtInv => SettlementBacked
  BY DEF PtInv
<1> QED BY Invariance, <1>1, PTL

(* A completed reconciliation moved the principal it had to move. *)
THEOREM ReconciliationIsBacked == PtSpec => []ReconciliationBacked
<1>1. PtInv => ReconciliationBacked
  BY DEF PtInv
<1> QED BY Invariance, <1>1, PTL

(* Reconciliation never changes a resolution, and posts no entry of the    *)
(* opposite one.                                                           *)
THEOREM ResolvedOneWay == PtSpec => OneResolution
<1> DEFINE Kept == \A r \in Refs :
             /\ reconciliation[r].status # "NONE" =>
                  reconciliation'[r].resolution = reconciliation[r].resolution
             /\ "RECON_SETTLE" \in entries'[r] \ entries[r] =>
                  reconciliation'[r].resolution = "SUCCESS"
             /\ "RECON_COMPENSATE" \in entries'[r] \ entries[r] =>
                  reconciliation'[r].resolution = "FAILED"
<1>1. ASSUME PtInv, PtNext PROVE Kept
  <2>1. CASE UNCHANGED <<entries, reconciliation>>
    BY <2>1
  <2>2. ASSUME NEW w \in Workers, NEW r \in Refs, NEW s \in Resolutions, ResolveClaim(w, r, s)
        PROVE  Kept
    BY <1>1, <2>2 DEF PtInv, TypeOK, ReconciliationRow, ResolveClaim
  <2>3. ASSUME NEW w \in Workers, ResolveUndo(w) PROVE Kept
    BY <1>1, <2>3 DEF PtInv, TypeOK, ReconciliationRow, ResolveUndo
  <2>4. ASSUME NEW w \in Workers, ResolveApply(w) PROVE Kept
    <3>1. exec[w].ref \in Refs /\ reconciliation[exec[w].ref].resolution = exec[w].arg
      BY <1>1, <2>4 DEF PtInv, ExecutionsBacked, Carried, ResolveApply
    <3> QED BY <1>1, <2>4, <3>1 DEF PtInv, TypeOK, ReconciliationRow, ResolveApply, ResolveEntry
  <2>5. ASSUME NEW r \in Refs, CreateSteps(r) PROVE Kept
    BY <1>1, <2>5 DEF PtInv, TypeOK, CreateSteps, CreateProviderTransaction,
                      PrepareProviderWalletDebit
  <2>6. ASSUME NEW r \in Refs, PostSettle(r) \/ PostCompensate(r), UNCHANGED reconciliation
        PROVE  Kept
    BY <1>1, <2>6 DEF PtInv, TypeOK, PostSettle, PostCompensate
  <2>7. ASSUME NEW w \in Workers, RecoverEffect(w) PROVE Kept
    <3>1. exec[w].ref \in Refs /\ UNCHANGED reconciliation
      BY <1>1, <2>7 DEF PtInv, ExecutionsBacked, Carried, RecoverEffect
    <3>2. \/ PostSettle(exec[w].ref) \/ PostCompensate(exec[w].ref) \/ UNCHANGED entries
      BY <2>7 DEF RecoverEffect
    <3> QED BY <2>6, <3>1, <3>2, <2>1
  <2>8. ASSUME NEW w \in Workers, NEW r \in Refs,
               StatusSteps(w, r) \/ PrincipalSteps(w, r) \/ CommissionSteps(w, r)
        PROVE  Kept
    BY <2>1, <2>6, <2>8
    DEF StatusSteps, PrincipalSteps, CommissionSteps, MarkProcessingRead, MarkProcessingWrite,
        FinalizeRead, FinalizeWrite, MarkUnknownRead, MarkUnknownWrite,
        MarkFinancialRecoveryRequired, SettlePrincipal, CompensateDeposit, ConfirmRead,
        ConfirmWrite, CommissionRead, CommissionWrite
  <2>9. ASSUME NEW w \in Workers, NEW r \in Refs, RecoverSteps(w, r) PROVE Kept
    BY <2>1, <2>7, <2>9 DEF RecoverSteps, RecoverStart, RecoverConfirm, RecoverVerify, RecoverClear
  <2>10. ASSUME NEW w \in Workers, NEW r \in Refs, ResolveSteps(w, r) PROVE Kept
    BY <2>1, <2>2, <2>3, <2>4, <2>10 DEF ResolveSteps, ResolveDuplicate, ResolveAbort
  <2>11. ASSUME NEW w \in Workers, Stop(w) PROVE Kept
    BY <2>1, <2>11 DEF Stop
  <2> QED BY <1>1, <2>5, <2>8, <2>9, <2>10, <2>11 DEF PtNext
<1>2. PtInv /\ [PtNext]_ptVars => [Kept]_ptVars
  BY <1>1
<1> QED BY Invariance, <1>2, PTL DEF PtSpec, OneResolution
=============================================================================
