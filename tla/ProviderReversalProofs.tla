----------------------- MODULE ProviderReversalProofs -----------------------
(* Theorems about the reversal of a provider transaction, for any number   *)
(* of allocations, settlements, admins and failures.                       *)
EXTENDS ProviderReversal, WellFoundedInduction, TLAPS

(* Where a settlement is with an allocation, and an admin with one. *)
InLoop ==
  {"Credit", "CreditCommit", "MarkSuccess", "MarkSuccessWrite", "MarkFailed", "MarkFailedWrite"}
Undoing == {"Debit", "MarkReversed", "MarkReversedWrite"}

AllReversed == \A x \in Allocations : alloc[x] = "REVERSED"

(* All was paid, and nothing was under way, when the reversal was requested. *)
Settled == reversal.quiet /\ reversal.paid

(* The entries, and what the commission-service knows of them. *)
Entries ==
  /\ wallet.principal <= 1
  /\ \A x \in Allocations :
       /\ wallet.credited[x] <= 1 /\ wallet.debited[x] <= wallet.credited[x]
       /\ alloc[x] \in {"SUCCESS", "REVERSED"} => wallet.credited[x] = 1
       /\ alloc[x] = "REVERSED" => wallet.debited[x] = 1

(* The transaction knows the commission before anything is paid. *)
Known ==
  \/ row.ref
  \/ /\ commission # "SUCCESS" /\ row.commission # "SETTLED"
     /\ \A x \in Allocations : alloc[x] \notin {"SUCCESS", "REVERSED"}

Compensation ==
  /\ row.settlement = "COMPENSATED" => wallet.principal = 1
  /\ row.status = "REVERSED" \/ reversal.principal = "COMPLETED" => row.settlement = "COMPENSATED"
  /\ reversal.principal # "NOT_REQUIRED"

Quiet ==
  /\ reversal.status = "none" => ~reversal.quiet /\ commission # "REVERSED"
  /\ reversal.quiet /\ row.status = "REVERSED" => row.commission = "REVERSED"

UndoneInOrder ==
  Settled =>
    /\ row.ref
    /\ \A x \in Allocations : alloc[x] \in {"SUCCESS", "REVERSED"}
    /\ commission = "REVERSED" \/ reversal.commission = "COMPLETED"
         \/ reversal.status = "COMPLETED" => AllReversed
    /\ reversal.commission # "NOT_REQUIRED"

ServicesOK == Entries /\ Known /\ Compensation /\ Quiet /\ UndoneInOrder

SettlerOK(q) ==
  /\ q.at \in InLoop => q.todo # {}
  /\ q.at \in {"MarkSuccess", "MarkSuccessWrite"} => wallet.credited[First(q.todo)] = 1
  /\ q.at \in InLoop \cup {"Get", "Finalize", "FinalizeWrite"} \/ q.call = "Settled" => row.ref
  /\ reversal.quiet => q.at # "StateWrite"
  /\ Settled => q.at \notin InLoop

AdminOK(q) ==
  /\ \A x \in q.todo : wallet.credited[x] = 1
  /\ q.at \in Undoing => q.todo # {} /\ row.ref
  /\ q.at \in {"MarkReversed", "MarkReversedWrite"} => wallet.debited[First(q.todo)] = 1
  /\ q.at = "PrincipalDone" => wallet.principal = 1
  /\ q.at \in CommissionCalls \cup {"Verify", "Complete"} => row.settlement = "COMPENSATED"
  /\ reversal.status = "none" => q.at = "Idle"
  /\ Settled => /\ q.at \in PrincipalCalls \cup {"Commission"} => q.ref
                /\ q.at \in {"FinalizeWrite", "CommissionDone", "Complete"} => AllReversed

RevInv ==
  /\ TypeOK
  /\ ServicesOK
  /\ \A s \in Settlers : SettlerOK(settler[s])
  /\ \A a \in Admins : AdminOK(admin[a])

-----------------------------------------------------------------------------
LEMMA FirstIn ==
  ASSUME NEW S \in SUBSET Allocations, S # {}
  PROVE  First(S) \in S
<1>1. S \subseteq Nat
  BY ReversalAssumption DEF Allocations
<1>2. \E x \in S : \A y \in S : ~ (<<y, x>> \in OpToRel(<, Nat))
  BY <1>1, NatLessThanWellFounded, WFMin
<1>3. PICK x \in S : \A y \in S : ~ (<<y, x>> \in OpToRel(<, Nat))
  BY <1>2
<1>4. \A y \in S : ~(y < x)
  BY <1>1, <1>3 DEF OpToRel
<1>5. \A y \in S : x <= y
  BY <1>1, <1>4
<1>6. QED BY <1>5 DEF First

(* The parts of the type invariant. *)
RowState ==
  [status: {"SUCCESS", "REVERSED"}, settlement: {"SETTLED", "COMPENSATED"},
   commission: {"NOT_REQUIRED", "WAITING_PROVIDER_INCOME", "PENDING", "SETTLED", "REVERSED"},
   ref: BOOLEAN]
WalletState == [principal: Nat, credited: [Allocations -> Nat], debited: [Allocations -> Nat]]
ReversalState ==
  [status: {"none", "REQUESTED", "PROCESSING", "COMPLETED", "FAILED"},
   principal: Components, commission: Components, paid: BOOLEAN, quiet: BOOLEAN]
SettlerState ==
  [at: {"Idle", "Create", "StateRead", "StateWrite", "Get", "Credit", "CreditCommit",
        "MarkSuccess", "MarkSuccessWrite", "MarkFailed", "MarkFailedWrite",
        "Finalize", "FinalizeWrite"},
   call: {"Observe", "Pending", "Settled", "SafePending"},
   todo: SUBSET Allocations, seen: {"PENDING", "SUCCESS"}]
AdminState ==
  [at: {"Idle", "Claim", "Principal", "PrincipalDone", "PrincipalFailed", "Commission",
        "Debit", "MarkReversed", "MarkReversedWrite", "Finalize", "FinalizeWrite",
        "CommissionDone", "CommissionFailed", "Verify", "Complete", "Incomplete"},
   principal: BOOLEAN, commission: BOOLEAN, ref: BOOLEAN, todo: SUBSET Allocations]

LEMMA TypeParts ==
  TypeOK <=>
    /\ row \in RowState
    /\ commission \in {"none", "PENDING", "SUCCESS", "REVERSED"}
    /\ alloc \in [Allocations -> {"PENDING", "SUCCESS", "FAILED", "REVERSED"}]
    /\ wallet \in WalletState
    /\ reversal \in ReversalState
    /\ settler \in [Settlers -> SettlerState]
    /\ admin \in [Admins -> AdminState]
    /\ faults \in 0 .. MaxFaults /\ interrupted \in BOOLEAN
BY DEF TypeOK, RowState, WalletState, ReversalState, SettlerState, AdminState

LEMMA InitInv == Init => RevInv
<1> SUFFICES ASSUME Init PROVE RevInv
  OBVIOUS
<1>1. TypeOK
  <2>1. settler \in [Settlers -> SettlerState] /\ admin \in [Admins -> AdminState]
    BY DEF Init, SettlerState, AdminState, IdleSettler, IdleAdmin
  <2>2. 0 \in Nat /\ 0 \in 0 .. MaxFaults
    BY ReversalAssumption
  <2>3. wallet \in WalletState /\ alloc \in [Allocations -> {"PENDING", "SUCCESS", "FAILED", "REVERSED"}]
    BY <2>2 DEF Init, WalletState
  <2>4. row \in RowState /\ reversal \in ReversalState
    BY DEF Init, RowState, ReversalState, Components
  <2>5. QED BY <2>1, <2>2, <2>3, <2>4, TypeParts DEF Init
<1>2. ServicesOK
  BY DEF Init, ServicesOK, Entries, Known, Compensation, Quiet, UndoneInOrder, Settled
<1>3. \A s \in Settlers : SettlerOK(settler[s])
  BY DEF Init, SettlerOK, IdleSettler, InLoop, Settled
<1>4. \A a \in Admins : AdminOK(admin[a])
  BY DEF Init, AdminOK, IdleAdmin, Undoing, Settled, CommissionCalls, PrincipalCalls
<1>5. QED BY <1>1, <1>2, <1>3, <1>4 DEF RevInv

-----------------------------------------------------------------------------
(* What no step takes back.                                                *)
Grows ==
  /\ \A x \in Allocations :
       /\ wallet.credited[x] = 1 => wallet'.credited[x] = 1
       /\ wallet.debited[x] = 1 => wallet'.debited[x] = 1
  /\ wallet.principal = 1 => wallet'.principal = 1
  /\ row.ref => row'.ref
  /\ row.settlement = "COMPENSATED" => row'.settlement = "COMPENSATED"
  /\ reversal'.quiet = reversal.quiet /\ reversal'.paid = reversal.paid
  /\ reversal'.status = "none" => reversal.status = "none"
  /\ Settled /\ AllReversed => AllReversed'

LEMMA OthersKept ==
  ASSUME RevInv, Grows
  PROVE  /\ \A s \in Settlers : settler'[s] = settler[s] => SettlerOK(settler[s])'
         /\ \A a \in Admins : admin'[a] = admin[a] => AdminOK(admin[a])'
<1>1. ASSUME NEW s \in Settlers, settler'[s] = settler[s] PROVE SettlerOK(settler[s])'
  <2>1. SettlerOK(settler[s]) /\ settler[s].todo \subseteq Allocations
    BY DEF RevInv, TypeOK
  <2>2. settler[s].at \in InLoop => First(settler[s].todo) \in Allocations
    BY <2>1, FirstIn DEF SettlerOK
  <2>3. QED BY <1>1, <2>1, <2>2 DEF SettlerOK, Grows, Settled, InLoop
<1>2. ASSUME NEW a \in Admins, admin'[a] = admin[a] PROVE AdminOK(admin[a])'
  <2>1. AdminOK(admin[a]) /\ admin[a].todo \subseteq Allocations
    BY DEF RevInv, TypeOK
  <2>2. admin[a].at \in Undoing => First(admin[a].todo) \in Allocations
    BY <2>1, FirstIn DEF AdminOK
  <2>3. QED BY <1>2, <2>1, <2>2 DEF AdminOK, Grows, Settled, Undoing
<1>3. QED BY <1>1, <1>2

LEMMA SameServices ==
  ASSUME RevInv, UNCHANGED services
  PROVE  Grows /\ ServicesOK'
<1>1. Grows
  BY DEF services, Grows, AllReversed
<1>2. ServicesOK'
  BY DEF RevInv, services, ServicesOK, Entries, Known, Compensation, Quiet, UndoneInOrder,
         Settled, AllReversed
<1>3. QED BY <1>1, <1>2

-----------------------------------------------------------------------------
(* The steps of a settlement.                                              *)

ServicesType ==
  /\ row \in RowState
  /\ commission \in {"none", "PENDING", "SUCCESS", "REVERSED"}
  /\ alloc \in [Allocations -> {"PENDING", "SUCCESS", "FAILED", "REVERSED"}]
  /\ wallet \in WalletState
  /\ reversal \in ReversalState

LEMMA SameTypes ==
  ASSUME RevInv, UNCHANGED services
  PROVE  ServicesType'
BY TypeParts DEF RevInv, services, ServicesType

Moves(s) == \E q \in SettlerState : settler' = [settler EXCEPT ![s] = q] /\ SettlerOK(q)'

LEMMA SettlerKeeps ==
  ASSUME RevInv, ServicesType', ServicesOK', Grows, NEW s \in Settlers, Moves(s),
         UNCHANGED <<admin, interrupted>>, faults' = faults \/ Fault
  PROVE  RevInv'
<1>1. PICK q \in SettlerState : settler' = [settler EXCEPT ![s] = q] /\ SettlerOK(q)'
  BY DEF Moves
<1>2. settler \in [Settlers -> SettlerState] /\ admin \in [Admins -> AdminState]
      /\ faults \in 0 .. MaxFaults /\ interrupted \in BOOLEAN
  BY TypeParts DEF RevInv
<1>3. settler' \in [Settlers -> SettlerState] /\ settler'[s] = q
      /\ \A t \in Settlers \ {s} : settler'[t] = settler[t]
  BY <1>1, <1>2
<1>4. faults' \in 0 .. MaxFaults
  BY <1>2, ReversalAssumption DEF Fault
<1>5. TypeOK'
  BY <1>2, <1>3, <1>4, TypeParts DEF ServicesType, TypeOK, RowState, WalletState, ReversalState,
     SettlerState, AdminState
<1>6. \A t \in Settlers : SettlerOK(settler[t])'
  BY <1>1, <1>3, OthersKept
<1>7. \A a \in Admins : AdminOK(admin[a])'
  BY OthersKept
<1>8. QED BY <1>5, <1>6, <1>7 DEF RevInv

LEMMA RestartMoves ==
  ASSUME NEW s \in Settlers, NEW at \in {"Idle", "Create", "Get"}, at = "Get" => row'.ref,
         Restart(s, at)
  PROVE  Moves(s)
<1> DEFINE q == [IdleSettler EXCEPT !.at = at]
<1>1. q \in SettlerState /\ q.at = at /\ q.call = "Observe"
  BY DEF IdleSettler, SettlerState
<1>2. SettlerOK(q)'
  BY <1>1 DEF SettlerOK, InLoop
<1>3. QED BY <1>1, <1>2 DEF Moves, Restart

LEMMA StateMoves ==
  ASSUME NEW s \in Settlers, NEW call \in {"Observe", "Pending", "Settled", "SafePending"},
         call = "Settled" => row'.ref, UpdateState(s, call)
  PROVE  Moves(s)
<1> DEFINE q == [IdleSettler EXCEPT !.at = "StateRead", !.call = call]
<1>1. q \in SettlerState /\ q.at = "StateRead" /\ q.call = call
  BY DEF IdleSettler, SettlerState
<1>2. SettlerOK(q)'
  BY <1>1 DEF SettlerOK, InLoop
<1>3. QED BY <1>1, <1>2 DEF Moves, UpdateState

LEMMA SettlerHas ==
  ASSUME RevInv, NEW s \in Settlers
  PROVE  /\ settler[s] \in SettlerState /\ settler \in [Settlers -> SettlerState]
         /\ SettlerOK(settler[s])
         /\ settler[s].at \in InLoop => Current(s) \in Allocations
BY TypeParts, FirstIn DEF RevInv, SettlerState, SettlerOK, Current

LEMMA GotoMoves ==
  ASSUME RevInv, Grows, NEW s \in Settlers, NEW at \in InLoop, settler[s].at \in InLoop,
         at \in {"MarkSuccess", "MarkSuccessWrite"} => wallet'.credited[Current(s)] = 1,
         Goto(s, at)
  PROVE  Moves(s)
<1>1. settler[s] \in SettlerState /\ SettlerOK(settler[s])
  BY SettlerHas
<1>2. [settler[s] EXCEPT !.at = at] \in SettlerState
  BY <1>1 DEF SettlerState, InLoop
<1>3. PICK q \in SettlerState : q = [settler[s] EXCEPT !.at = at]
  BY <1>2
<1>4. q.at = at /\ q.call = settler[s].call /\ q.todo = settler[s].todo
  BY <1>1, <1>3 DEF SettlerState
<1>5. SettlerOK(q)'
  BY <1>1, <1>4 DEF SettlerOK, Grows, Settled, Current, InLoop
<1>6. settler' = [settler EXCEPT ![s] = q]
  BY <1>3, SettlerHas DEF Goto
<1>7. QED BY <1>5, <1>6 DEF Moves

LEMMA NextMoves ==
  ASSUME RevInv, Grows, NEW s \in Settlers, settler[s].at \in InLoop, NextAllocation(s)
  PROVE  Moves(s)
<1> DEFINE rest == settler[s].todo \ {First(settler[s].todo)}
           next == IF rest = {} THEN "Finalize" ELSE "Credit"
<1>1. settler[s] \in SettlerState /\ SettlerOK(settler[s])
  BY SettlerHas
<1>2. [settler[s] EXCEPT !.todo = rest, !.at = next] \in SettlerState
  BY <1>1 DEF SettlerState
<1>3. PICK q \in SettlerState : q = [settler[s] EXCEPT !.todo = rest, !.at = next]
  BY <1>2
<1>4. q.call = settler[s].call /\ q.todo = rest /\ q.at = next
  BY <1>1, <1>3 DEF SettlerState
<1>5. SettlerOK(q)'
  BY <1>1, <1>4 DEF SettlerOK, Grows, Settled, InLoop
<1>6. settler' = [settler EXCEPT ![s] = q]
  BY <1>3, SettlerHas DEF NextAllocation
<1>7. QED BY <1>5, <1>6 DEF Moves

LEMMA RefusedMoves ==
  ASSUME NEW s \in Settlers, StateRefused(s)
  PROVE  Moves(s)
BY RestartMoves, StateMoves DEF StateRefused, MarkPendingSafely

LEMMA FailedMoves ==
  ASSUME RevInv, Grows, NEW s \in Settlers, CallFailed(s)
  PROVE  Moves(s)
<1>1. CASE settler[s].at \in {"StateRead", "StateWrite"}
  BY <1>1, RefusedMoves DEF CallFailed
<1>2. CASE settler[s].at \in {"Credit", "CreditCommit", "MarkSuccess", "MarkSuccessWrite"}
  BY <1>2, GotoMoves DEF CallFailed, InLoop
<1>3. CASE settler[s].at \in {"MarkFailed", "MarkFailedWrite"}
  BY <1>3, NextMoves DEF CallFailed, InLoop
<1>4. CASE settler[s].at \notin InLoop \cup {"StateRead", "StateWrite"}
  BY <1>4, StateMoves DEF CallFailed, MarkPendingSafely, InLoop
<1>5. QED BY <1>1, <1>2, <1>3, <1>4 DEF InLoop

(* Steps that only read. *)
LEMMA ReadKeeps ==
  ASSUME RevInv, NEW s \in Settlers, UNCHANGED services, Moves(s),
         UNCHANGED <<admin, interrupted>>, faults' = faults \/ Fault
  PROVE  RevInv'
BY SameServices, SameTypes, SettlerKeeps

LEMMA ReadsKeep ==
  ASSUME RevInv, NEW s \in Settlers,
         \/ SettlerFault(s) \/ Reconcile(s) \/ StateRead(s) \/ Get(s) \/ Credit(s)
         \/ MarkSuccess(s) \/ MarkFailed(s) \/ SettlerFinalize(s)
  PROVE  RevInv'
<1>1. UNCHANGED services /\ UNCHANGED <<admin, interrupted>> /\ (faults' = faults \/ Fault)
  BY DEF SettlerFault, Reconcile, StateRead, Get, Credit, MarkSuccess, MarkFailed,
         SettlerFinalize, Settling, services
<1>2. Grows /\ UNCHANGED <<row, commission, alloc, wallet, reversal>>
  BY <1>1, SameServices DEF services
<1>3. settler[s] \in SettlerState /\ settler \in [Settlers -> SettlerState]
      /\ SettlerOK(settler[s]) /\ ServicesOK
  BY SettlerHas DEF RevInv
<1>4. CASE SettlerFault(s)
  BY <1>2, <1>4, FailedMoves, RestartMoves, <1>1, ReadKeeps DEF SettlerFault
<1>5. CASE Reconcile(s)
  <2>1. Moves(s)
    BY <1>5, RestartMoves, StateMoves DEF Reconcile
  <2>2. QED BY <1>1, <2>1, ReadKeeps
<1>6. CASE StateRead(s)
  <2>1. CASE StateRefused(s)
    BY <1>1, <2>1, RefusedMoves, ReadKeeps
  <2>2. CASE Restart(s, AfterState[settler[s].call]) /\ row.commission = "SETTLED"
    <3>1. AfterState[settler[s].call] \in {"Idle", "Create", "Get"}
      BY <1>3 DEF AfterState, SettlerState
    <3>2. row'.ref
      BY <1>2, <1>3, <2>2 DEF ServicesOK, Known
    <3>3. QED BY <1>1, <2>2, <3>1, <3>2, RestartMoves, ReadKeeps
  <2>3. CASE Goto(s, "StateWrite") /\ ~StateRefuses(StateOf(settler[s].call))
    <3>1. [settler[s] EXCEPT !.at = "StateWrite"] \in SettlerState
      BY <1>3 DEF SettlerState
    <3>2. PICK q \in SettlerState : q = [settler[s] EXCEPT !.at = "StateWrite"]
      BY <3>1
    <3>3. q.at = "StateWrite" /\ q.call = settler[s].call
      BY <1>3, <3>2 DEF SettlerState
    <3>4. reversal.quiet = FALSE
      <4>1. ~reversal.quiet
        BY <1>3, <2>3 DEF StateRefuses, ServicesOK, Quiet
      <4>2. reversal.quiet \in BOOLEAN
        BY TypeParts DEF RevInv, ReversalState
      <4>3. QED BY <4>1, <4>2
    <3>5. SettlerOK(q)'
      BY <1>2, <1>3, <3>3, <3>4 DEF SettlerOK, InLoop, Settled
    <3>6. Moves(s)
      BY <1>3, <2>3, <3>2, <3>5 DEF Goto, Moves
    <3>7. QED BY <1>1, <3>6, ReadKeeps
  <2>4. QED BY <1>6, <2>1, <2>2, <2>3 DEF StateRead
<1>7. CASE Get(s)
  <2> DEFINE todo == {a \in Allocations : alloc[a] \in {"PENDING", "FAILED"}}
             next == IF todo = {} THEN "Finalize" ELSE "Credit"
  <2>1. [settler[s] EXCEPT !.todo = todo, !.at = next] \in SettlerState
    BY <1>3 DEF SettlerState
  <2>2. PICK q \in SettlerState : q = [settler[s] EXCEPT !.todo = todo, !.at = next]
    BY <2>1
  <2>3. q.at = next /\ q.call = settler[s].call /\ q.todo = todo
    BY <1>3, <2>2 DEF SettlerState
  <2>4. row.ref
    BY <1>3, <1>7 DEF Get, Settling, SettlerOK
  <2>5. Settled => todo = {}
    BY <1>3 DEF ServicesOK, UndoneInOrder
  <2>6. Settled' => Settled
    BY <1>2 DEF Settled
  <2>7. SettlerOK(q)'
    BY <1>2, <1>3, <2>3, <2>4, <2>5, <2>6 DEF SettlerOK, InLoop
  <2>8. Moves(s)
    BY <1>3, <1>7, <2>2, <2>7 DEF Get, Moves
  <2>9. QED BY <1>1, <2>8, ReadKeeps
<1>8. CASE Credit(s)
  <2>1. settler[s].at = "Credit" /\ settler[s].at \in InLoop /\ Current(s) \in Allocations
    BY <1>8, SettlerHas DEF Credit, Settling, InLoop
  <2>2. CASE wallet.credited[Current(s)] > 0 /\ Goto(s, "MarkSuccess")
    <3>1. wallet.credited[Current(s)] = 1
      BY <1>3, <2>1, <2>2, TypeParts DEF ServicesOK, Entries, RevInv, WalletState
    <3>2. QED BY <1>1, <1>2, <2>1, <2>2, <3>1, GotoMoves, ReadKeeps DEF InLoop
  <2>3. CASE CallFailed(s)
    BY <1>1, <1>2, <2>3, FailedMoves, ReadKeeps
  <2>4. CASE Goto(s, "CreditCommit")
    BY <1>1, <1>2, <2>1, <2>4, GotoMoves, ReadKeeps DEF InLoop
  <2>5. QED BY <1>8, <2>2, <2>3, <2>4 DEF Credit
<1>9. CASE MarkSuccess(s)
  <2>1. settler[s].at = "MarkSuccess" /\ settler[s].at \in InLoop
    BY <1>9 DEF MarkSuccess, Settling, InLoop
  <2>2. wallet'.credited[Current(s)] = 1
    BY <1>2, <1>3, <2>1 DEF SettlerOK, Current
  <2>3. Moves(s)
    BY <1>2, <1>9, <2>1, <2>2, NextMoves, FailedMoves, GotoMoves DEF MarkSuccess, InLoop
  <2>4. QED BY <1>1, <2>3, ReadKeeps
<1>10. CASE MarkFailed(s)
  <2>1. settler[s].at \in InLoop
    BY <1>10 DEF MarkFailed, Settling, InLoop
  <2>2. Moves(s)
    BY <1>2, <1>10, <2>1, NextMoves, GotoMoves DEF MarkFailed, InLoop
  <2>3. QED BY <1>1, <2>2, ReadKeeps
<1>11. CASE SettlerFinalize(s)
  <2>1. row'.ref
    BY <1>2, <1>3, <1>11 DEF SettlerFinalize, Settling, SettlerOK
  <2>2. CASE UpdateState(s, "Settled")
    BY <1>1, <2>1, <2>2, StateMoves, ReadKeeps
  <2>3. CASE settler' = [settler EXCEPT ![s].at = "FinalizeWrite",
                                        ![s].seen = IF Paid THEN "SUCCESS" ELSE "PENDING"]
    <3> DEFINE seen == IF Paid THEN "SUCCESS" ELSE "PENDING"
    <3>1. [settler[s] EXCEPT !.at = "FinalizeWrite", !.seen = seen] \in SettlerState
      BY <1>3 DEF SettlerState
    <3>2. PICK q \in SettlerState : q = [settler[s] EXCEPT !.at = "FinalizeWrite", !.seen = seen]
      BY <3>1
    <3>3. q.at = "FinalizeWrite"
      BY <1>3, <3>2 DEF SettlerState
    <3>4. SettlerOK(q)'
      BY <2>1, <3>3 DEF SettlerOK, InLoop
    <3>5. Moves(s)
      BY <1>3, <2>3, <3>2, <3>4 DEF Moves
    <3>6. QED BY <1>1, <3>5, ReadKeeps
  <2>4. QED BY <1>11, <2>2, <2>3 DEF SettlerFinalize
<1>12. QED BY <1>4, <1>5, <1>6, <1>7, <1>8, <1>9, <1>10, <1>11

(* Steps that write. *)
LEMMA WriteKeeps ==
  ASSUME RevInv, NEW s \in Settlers, ServicesType', ServicesOK', Grows,
         CallFailed(s) \/ Moves(s),
         UNCHANGED <<admin, interrupted>>, faults' = faults \/ Fault
  PROVE  RevInv'
BY FailedMoves, SettlerKeeps

LEMMA ServicesHave ==
  ASSUME RevInv
  PROVE  ServicesType /\ ServicesOK
BY TypeParts DEF RevInv, ServicesType

LEMMA WritesKeep ==
  ASSUME RevInv, NEW s \in Settlers,
         \/ Create(s) \/ StateWrite(s) \/ CreditCommit(s) \/ MarkSuccessWrite(s)
         \/ MarkFailedWrite(s) \/ SettlerFinalizeWrite(s)
  PROVE  RevInv'
<1>1. /\ UNCHANGED <<admin, interrupted>> /\ reversal' = reversal
      /\ (faults' = faults \/ Fault)
  BY DEF Create, StateWrite, CreditCommit, MarkSuccessWrite, MarkFailedWrite,
         SettlerFinalizeWrite, Settling, Answered
<1>2. settler[s] \in SettlerState /\ SettlerOK(settler[s]) /\ ServicesType /\ ServicesOK
  BY SettlerHas, ServicesHave
<1> USE <1>1, <1>2
<1>3. CASE Create(s)
  <2>1. UNCHANGED <<row, alloc, wallet, reversal>> /\ commission' \in {commission, "PENDING"}
        /\ (commission' = "SUCCESS" => commission = "SUCCESS")
    BY <1>3 DEF Create
  <2>2. ServicesType' /\ Grows
    BY <2>1 DEF ServicesType, Grows, AllReversed
  <2>3. commission # commission' => commission' = "PENDING"
    BY <2>1
  <2>4. ServicesOK'
    BY <2>1, <2>3 DEF ServicesOK, Entries, Known, Compensation, Quiet, UndoneInOrder, Settled,
       AllReversed
  <2>5. CASE commission' = "SUCCESS" /\ Goto(s, "Get")
    <3>1. [settler[s] EXCEPT !.at = "Get"] \in SettlerState
      BY DEF SettlerState
    <3>2. PICK q \in SettlerState : q = [settler[s] EXCEPT !.at = "Get"]
      BY <3>1
    <3>3. q.at = "Get" /\ row'.ref
      BY <2>1, <2>5, <3>2 DEF SettlerState, ServicesOK, Known
    <3>4. SettlerOK(q)'
      BY <3>3 DEF SettlerOK, InLoop
    <3>5. Moves(s)
      BY <2>5, <3>2, <3>4, SettlerHas DEF Moves, Goto
    <3>6. QED BY <2>2, <2>4, <3>5, WriteKeeps
  <2>6. CASE UpdateState(s, "Pending")
    BY <2>2, <2>4, <2>6, StateMoves, WriteKeeps
  <2>7. CASE CallFailed(s)
    BY <2>2, <2>4, <2>7, WriteKeeps
  <2>8. QED BY <1>3, <2>5, <2>6, <2>7 DEF Create, Answered
<1>4. CASE StateWrite(s)
  <2>1. /\ UNCHANGED <<commission, alloc, wallet, reversal>> /\ ~reversal.quiet
        /\ row' = [row EXCEPT !.commission = StateOf(settler[s].call),
                              !.ref = @ \/ settler[s].call \in {"Pending", "Settled"}]
    BY <1>4 DEF StateWrite, Settling, SettlerOK
  <2>2. /\ row'.commission = StateOf(settler[s].call) /\ row'.settlement = row.settlement
        /\ row'.status = row.status
        /\ row'.ref = (row.ref \/ settler[s].call \in {"Pending", "Settled"})
        /\ row' \in RowState
    BY <2>1 DEF ServicesType, RowState, StateOf
  <2>3. ServicesType' /\ Grows
    BY <2>1, <2>2 DEF ServicesType, Grows, AllReversed
  <2>4. Known'
    <3>1. CASE settler[s].call = "Settled"
      <4>1. row'.ref
        BY <2>2, <3>1
      <4>2. QED BY <4>1 DEF Known
    <3>2. CASE settler[s].call # "Settled"
      <4>1. row'.commission = "PENDING" /\ (row.ref => row'.ref)
        BY <2>2, <3>2 DEF StateOf
      <4>2. QED BY <2>1, <4>1 DEF ServicesOK, Known
    <3>3. QED BY <3>1, <3>2
  <2>5. ServicesOK'
    BY <2>1, <2>2, <2>4 DEF ServicesOK, Entries, Compensation, Quiet, UndoneInOrder, Settled,
       AllReversed
  <2>6. AfterState[settler[s].call] \in {"Idle", "Create", "Get"}
        /\ (AfterState[settler[s].call] = "Get" => settler[s].call = "Pending")
    BY DEF AfterState, SettlerState
  <2>7. AfterState[settler[s].call] = "Get" => row'.ref
    BY <2>2, <2>6
  <2>8. CASE Restart(s, AfterState[settler[s].call])
    BY <2>3, <2>5, <2>6, <2>7, <2>8, RestartMoves, WriteKeeps
  <2>9. CASE CallFailed(s)
    BY <2>3, <2>5, <2>9, WriteKeeps
  <2>10. QED BY <1>4, <2>8, <2>9 DEF StateWrite, Answered
<1>5. CASE CreditCommit(s)
  <2> DEFINE x == Current(s)
  <2>1. settler[s].at = "CreditCommit" /\ settler[s].at \in InLoop /\ x \in Allocations /\ row.ref
    BY <1>5, SettlerHas DEF CreditCommit, Settling, InLoop, SettlerOK
  <2>2. /\ UNCHANGED <<row, commission, alloc, reversal>>
        /\ wallet' = [wallet EXCEPT !.credited[x] = Posted(@)]
    BY <1>5 DEF CreditCommit
  <2>3. wallet.credited[x] \in {0, 1}
    BY <2>1 DEF ServicesType, WalletState, ServicesOK, Entries
  <2>4. Posted(wallet.credited[x]) = 1
    BY <2>3 DEF Posted
  <2>5. wallet' \in WalletState
    BY <2>1, <2>2, <2>4 DEF ServicesType, WalletState
  <2>6. /\ wallet'.principal = wallet.principal /\ wallet'.debited = wallet.debited
        /\ wallet'.credited[x] = 1
        /\ \A y \in Allocations : y # x => wallet'.credited[y] = wallet.credited[y]
    BY <2>1, <2>2, <2>4 DEF ServicesType, WalletState
  <2>7. ServicesType' /\ Grows
    BY <2>2, <2>5, <2>6 DEF ServicesType, Grows, AllReversed
  <2>8. Entries'
    <3>1. wallet.debited[x] <= 1
      BY <2>1, <2>3 DEF ServicesOK, Entries, ServicesType, WalletState
    <3>2. QED BY <2>2, <2>5, <2>6, <3>1 DEF ServicesOK, Entries
  <2>9. ServicesOK'
    BY <2>2, <2>6, <2>8 DEF ServicesOK, Known, Compensation, Quiet, UndoneInOrder, Settled,
       AllReversed
  <2>10. CASE Goto(s, "MarkSuccess")
    <3>1. Moves(s)
      BY <2>1, <2>6, <2>7, <2>10, GotoMoves DEF InLoop
    <3>2. QED BY <2>7, <2>9, <3>1, WriteKeeps
  <2>11. CASE CallFailed(s)
    BY <2>7, <2>9, <2>11, WriteKeeps
  <2>12. QED BY <1>5, <2>10, <2>11 DEF CreditCommit, Answered
<1>6. CASE MarkSuccessWrite(s) \/ MarkFailedWrite(s)
  <2> DEFINE x == Current(s)
  <2>1. /\ settler[s].at \in {"MarkSuccessWrite", "MarkFailedWrite"} /\ settler[s].at \in InLoop
        /\ x \in Allocations /\ row.ref /\ ~Settled
    BY <1>6, SettlerHas DEF MarkSuccessWrite, MarkFailedWrite, Settling, InLoop, SettlerOK
  <2>2. UNCHANGED <<row, commission, wallet, reversal>>
    BY <1>6 DEF MarkSuccessWrite, MarkFailedWrite
  <2>3. /\ alloc' \in [Allocations -> {"PENDING", "SUCCESS", "FAILED", "REVERSED"}]
        /\ \A y \in Allocations : y # x => alloc'[y] = alloc[y]
        /\ alloc'[x] \in {"SUCCESS", "FAILED"}
        /\ alloc'[x] = "SUCCESS" => settler[s].at = "MarkSuccessWrite"
    BY <1>6, <2>1 DEF MarkSuccessWrite, MarkFailedWrite, ServicesType, Settling
  <2>4. alloc'[x] = "SUCCESS" => wallet.credited[x] = 1
    BY <2>3 DEF SettlerOK, Current
  <2>5. ServicesType' /\ Grows
    BY <2>1, <2>2, <2>3 DEF ServicesType, Grows
  <2>6. Entries'
    BY <2>2, <2>3, <2>4 DEF ServicesOK, Entries
  <2>7. ServicesOK'
    BY <2>1, <2>2, <2>6 DEF ServicesOK, Known, Compensation, Quiet, UndoneInOrder, Settled
  <2>8. CASE NextAllocation(s)
    BY <2>1, <2>5, <2>7, <2>8, NextMoves, WriteKeeps
  <2>9. CASE CallFailed(s)
    BY <2>5, <2>7, <2>9, WriteKeeps
  <2>10. QED BY <1>6, <2>8, <2>9 DEF MarkSuccessWrite, MarkFailedWrite, Answered
<1>7. CASE SettlerFinalizeWrite(s)
  <2>1. /\ UNCHANGED <<row, alloc, wallet, reversal>> /\ row.ref
        /\ commission' = settler[s].seen /\ settler[s].seen \in {"PENDING", "SUCCESS"}
    BY <1>7 DEF SettlerFinalizeWrite, Settling, SettlerOK, SettlerState
  <2>2. ServicesType' /\ Grows
    BY <2>1 DEF ServicesType, Grows, AllReversed
  <2>3. commission' # "REVERSED"
    BY <2>1
  <2>4. ServicesOK'
    BY <2>1, <2>3 DEF ServicesOK, Entries, Known, Compensation, Quiet, UndoneInOrder, Settled,
       AllReversed
  <2>5. CASE UpdateState(s, IF settler[s].seen = "SUCCESS" THEN "Settled" ELSE "SafePending")
    <3>1. Moves(s)
      BY <2>1, <2>5, StateMoves
    <3>2. QED BY <2>2, <2>4, <3>1, WriteKeeps
  <2>6. CASE CallFailed(s)
    BY <2>2, <2>4, <2>6, WriteKeeps
  <2>7. QED BY <1>7, <2>5, <2>6 DEF SettlerFinalizeWrite, Answered
<1>8. QED BY <1>3, <1>4, <1>5, <1>6, <1>7

-----------------------------------------------------------------------------
(* The steps of an admin.                                                  *)

Leads(a) == \E q \in AdminState : admin' = [admin EXCEPT ![a] = q] /\ AdminOK(q)'

LEMMA AdminKeeps ==
  ASSUME RevInv, ServicesType', ServicesOK', Grows, NEW a \in Admins, Leads(a),
         UNCHANGED settler, interrupted' \in BOOLEAN, faults' = faults \/ Fault
  PROVE  RevInv'
<1>1. PICK q \in AdminState : admin' = [admin EXCEPT ![a] = q] /\ AdminOK(q)'
  BY DEF Leads
<1>2. settler \in [Settlers -> SettlerState] /\ admin \in [Admins -> AdminState]
      /\ faults \in 0 .. MaxFaults
  BY TypeParts DEF RevInv
<1>3. admin' \in [Admins -> AdminState] /\ admin'[a] = q
      /\ \A b \in Admins \ {a} : admin'[b] = admin[b]
  BY <1>1, <1>2
<1>4. faults' \in 0 .. MaxFaults
  BY <1>2, ReversalAssumption DEF Fault
<1>5. TypeOK'
  BY <1>2, <1>3, <1>4 DEF ServicesType, TypeOK, RowState, WalletState, ReversalState,
     SettlerState, AdminState
<1>6. \A t \in Settlers : SettlerOK(settler[t])'
  BY OthersKept
<1>7. \A b \in Admins : AdminOK(admin[b])'
  BY <1>1, <1>3, OthersKept
<1>8. QED BY <1>5, <1>6, <1>7 DEF RevInv

LEMMA AdminHas ==
  ASSUME RevInv, NEW a \in Admins
  PROVE  /\ admin[a] \in AdminState /\ admin \in [Admins -> AdminState]
         /\ AdminOK(admin[a]) /\ interrupted \in BOOLEAN
         /\ admin[a].at \in Undoing => First(admin[a].todo) \in Allocations
         /\ admin[a].at # "Idle" => reversal.status # "none"
BY TypeParts, FirstIn DEF RevInv, AdminState, AdminOK

LEMMA IdleLeads ==
  ASSUME NEW a \in Admins, admin' = [admin EXCEPT ![a] = IdleAdmin]
  PROVE  Leads(a)
<1>1. IdleAdmin \in AdminState /\ IdleAdmin.at = "Idle" /\ IdleAdmin.todo = {}
  BY DEF IdleAdmin, AdminState
<1>2. AdminOK(IdleAdmin)'
  BY <1>1 DEF AdminOK, Undoing, CommissionCalls, PrincipalCalls, IdleAdmin
<1>3. QED BY <1>1, <1>2 DEF Leads

LEMMA ProceedLeads ==
  ASSUME RevInv, Grows, NEW a \in Admins,
         NEW at \in {"PrincipalDone", "PrincipalFailed", "Commission", "MarkReversed",
                     "MarkReversedWrite", "FinalizeWrite", "CommissionDone", "CommissionFailed",
                     "Verify", "Complete", "Incomplete"},
         admin[a].at # "Idle", at \in Undoing => admin[a].at \in Undoing,
         at \in {"MarkReversed", "MarkReversedWrite"} => wallet'.debited[First(admin[a].todo)] = 1,
         at = "PrincipalDone" => wallet'.principal = 1,
         at \in CommissionCalls \cup {"Verify", "Complete"} => row'.settlement = "COMPENSATED",
         at \in {"PrincipalDone", "Commission"} => admin[a].at \in PrincipalCalls,
         Settled /\ at \in {"FinalizeWrite", "CommissionDone", "Complete"} => AllReversed',
         Proceed(a, at)
  PROVE  Leads(a)
<1>1. admin[a] \in AdminState /\ AdminOK(admin[a]) /\ reversal'.status # "none"
  BY AdminHas DEF Grows
<1>2. [admin[a] EXCEPT !.at = at] \in AdminState
  BY <1>1 DEF AdminState
<1>3. PICK q \in AdminState : q = [admin[a] EXCEPT !.at = at]
  BY <1>2
<1>4. q.at = at /\ q.ref = admin[a].ref /\ q.todo = admin[a].todo
  BY <1>1, <1>3 DEF AdminState
<1>5. q.todo \subseteq Allocations
  BY DEF AdminState
<1>6. Settled' = Settled
  BY DEF Grows, Settled
<1>7. AdminOK(q)'
  BY <1>1, <1>4, <1>5, <1>6 DEF AdminOK, Grows, Undoing, PrincipalCalls, CommissionCalls
<1>8. admin' = [admin EXCEPT ![a] = q]
  BY <1>3, AdminHas DEF Proceed
<1>9. QED BY <1>7, <1>8 DEF Leads

LEMMA FailureLeads ==
  ASSUME RevInv, Grows, NEW a \in Admins, admin[a].at \in PrincipalCalls \cup CommissionCalls,
         Proceed(a, OnFailure[admin[a].at])
  PROVE  Leads(a)
<1>1. OnFailure[admin[a].at] \in {"PrincipalFailed", "CommissionFailed"}
  BY DEF OnFailure
<1>2. admin[a].at # "Idle"
  BY DEF PrincipalCalls, CommissionCalls
<1>3. QED BY <1>1, <1>2, ProceedLeads DEF Undoing, CommissionCalls

LEMMA UndoneLeads ==
  ASSUME RevInv, Grows, NEW a \in Admins, admin[a].at \in {"MarkReversed", "MarkReversedWrite"},
         admin' = Undone(a)
  PROVE  Leads(a)
<1> DEFINE rest == admin[a].todo \ {First(admin[a].todo)}
           next == IF rest = {} THEN "Finalize" ELSE "Debit"
<1>1. admin[a] \in AdminState /\ AdminOK(admin[a]) /\ reversal'.status # "none"
      /\ row'.settlement = "COMPENSATED"
  BY AdminHas DEF Grows, AdminOK, CommissionCalls
<1>2. [admin[a] EXCEPT !.todo = rest, !.at = next] \in AdminState
  BY <1>1 DEF AdminState
<1>3. PICK q \in AdminState : q = [admin[a] EXCEPT !.todo = rest, !.at = next]
  BY <1>2
<1>4. q.at = next /\ q.todo = rest /\ rest \subseteq Allocations
  BY <1>1, <1>3 DEF AdminState
<1>5. AdminOK(q)'
  BY <1>1, <1>4 DEF AdminOK, Grows, Undoing, PrincipalCalls, CommissionCalls
<1>6. admin' = [admin EXCEPT ![a] = q]
  BY <1>3, AdminHas DEF Undone
<1>7. QED BY <1>5, <1>6 DEF Leads

LEMMA AdminReadKeeps ==
  ASSUME RevInv, NEW a \in Admins, UNCHANGED services, Leads(a),
         UNCHANGED settler, interrupted' \in BOOLEAN, faults' = faults \/ Fault
  PROVE  RevInv'
BY SameServices, SameTypes, AdminKeeps

LEMMA AdminReadsKeep ==
  ASSUME RevInv, NEW a \in Admins,
         \/ AdminFault(a) \/ Stop(a) \/ Process(a) \/ GetExecution(a) \/ MarkReversed(a)
         \/ ReversalFinalize(a) \/ Verify(a)
  PROVE  RevInv'
<1>1. /\ UNCHANGED services /\ UNCHANGED settler /\ interrupted' \in BOOLEAN
      /\ (faults' = faults \/ Fault)
  BY AdminHas DEF AdminFault, Stop, Process, GetExecution, MarkReversed, ReversalFinalize,
         Verify, Processing, services
<1>2. Grows /\ UNCHANGED <<row, commission, alloc, wallet, reversal>>
  BY <1>1, SameServices DEF services
<1>3. admin[a] \in AdminState /\ AdminOK(admin[a]) /\ ServicesOK /\ ServicesType
  BY AdminHas, ServicesHave
<1>4. CASE AdminFault(a)
  BY <1>1, <1>2, <1>4, FailureLeads, AdminReadKeeps DEF AdminFault, OnFailure
<1>5. CASE Stop(a)
  BY <1>1, <1>5, IdleLeads, AdminReadKeeps DEF Stop
<1>6. CASE Process(a)
  <2> DEFINE new == [IdleAdmin EXCEPT !.at = "Claim", !.principal = reversal.principal # "COMPLETED",
                       !.commission = reversal.commission \notin {"COMPLETED", "NOT_REQUIRED"}]
  <2>1. new \in AdminState
    BY DEF IdleAdmin, AdminState
  <2>2. PICK q \in AdminState : q = new
    BY <2>1
  <2>3. q.at = "Claim" /\ q.todo = {} /\ reversal'.status # "none"
    BY <1>2, <1>6, <2>2 DEF IdleAdmin, Process
  <2>4. AdminOK(q)'
    BY <2>3 DEF AdminOK, Undoing, PrincipalCalls, CommissionCalls
  <2>5. Leads(a)
    BY <1>6, <2>2, <2>4 DEF Process, Leads
  <2>6. QED BY <1>1, <2>5, AdminReadKeeps
<1>7. CASE GetExecution(a)
  <2> DEFINE next == IF Undoable = {} THEN "Finalize" ELSE "Debit"
  <2>1. [IdleAdmin EXCEPT !.todo = Undoable, !.at = next] \in AdminState
    BY DEF IdleAdmin, AdminState, Undoable
  <2>2. PICK q \in AdminState : q = [IdleAdmin EXCEPT !.todo = Undoable, !.at = next]
    BY <2>1
  <2>3. q.at = next /\ q.todo = Undoable
    BY <2>2 DEF IdleAdmin
  <2>4. \A x \in Undoable : wallet.credited[x] = 1
    BY <1>3 DEF Undoable, ServicesOK, Entries
  <2>5. row.settlement = "COMPENSATED" /\ reversal.status # "none"
    BY <1>3, <1>7 DEF GetExecution, Processing, AdminOK, CommissionCalls
  <2>6. Undoable # {} => row.ref
    BY <1>3 DEF Undoable, ServicesOK, Known
  <2>7. AdminOK(q)'
    BY <1>2, <2>3, <2>4, <2>5, <2>6 DEF AdminOK, Undoing, PrincipalCalls, CommissionCalls
  <2>8. Leads(a)
    BY <1>7, <2>2, <2>7 DEF GetExecution, Leads
  <2>9. QED BY <1>1, <2>8, AdminReadKeeps
<1>8. CASE MarkReversed(a)
  <2>1. admin[a].at = "MarkReversed"
    BY <1>8 DEF MarkReversed, Processing
  <2>2. /\ wallet'.debited[First(admin[a].todo)] = 1 /\ row'.settlement = "COMPENSATED"
        /\ admin[a].at \in Undoing /\ admin[a].at # "Idle"
    BY <1>2, <1>3, <2>1 DEF AdminOK, CommissionCalls, Undoing
  <2>3. CASE admin' = Undone(a)
    BY <1>1, <1>2, <2>1, <2>3, UndoneLeads, AdminReadKeeps
  <2>4. CASE \E at \in {"MarkReversedWrite", "CommissionFailed"} : Proceed(a, at)
    BY <1>1, <1>2, <2>2, <2>4, ProceedLeads, AdminReadKeeps DEF Undoing
  <2>5. QED BY <1>8, <2>3, <2>4 DEF MarkReversed, Proceed
<1>9. CASE ReversalFinalize(a)
  <2>1. admin[a].at = "Finalize" /\ row'.settlement = "COMPENSATED"
    BY <1>2, <1>3, <1>9 DEF ReversalFinalize, Processing, AdminOK, CommissionCalls
  <2>2. CASE Proceed(a, "CommissionFailed")
    BY <1>1, <1>2, <2>1, <2>2, ProceedLeads, AdminReadKeeps DEF Undoing, CommissionCalls
  <2>3. CASE \E at \in {"CommissionDone", "FinalizeWrite"} :
               Proceed(a, at) /\ (commission = "REVERSED" \/ Undoable = {})
    <3>1. Settled => AllReversed
      BY <1>3, <2>3 DEF ServicesOK, UndoneInOrder, AllReversed, Undoable
    <3>2. Settled => AllReversed'
      BY <1>2, <3>1 DEF AllReversed
    <3>3. QED BY <1>1, <1>2, <2>1, <2>3, <3>2, ProceedLeads, AdminReadKeeps DEF Undoing
  <2>4. QED BY <1>9, <2>2, <2>3 DEF ReversalFinalize
<1>10. CASE Verify(a)
  <2>1. admin[a].at = "Verify" /\ row'.settlement = "COMPENSATED"
    BY <1>2, <1>3, <1>10 DEF Verify, Processing, AdminOK
  <2>2. CASE Verified /\ Proceed(a, "Complete")
    <3>1. Settled => AllReversed'
      BY <1>2, <1>3, <2>2 DEF ServicesOK, UndoneInOrder, Verified, AllReversed
    <3>2. QED BY <1>1, <1>2, <2>1, <2>2, <3>1, ProceedLeads, AdminReadKeeps DEF Undoing
  <2>3. CASE Proceed(a, "Incomplete")
    BY <1>1, <1>2, <2>1, <2>3, ProceedLeads, AdminReadKeeps DEF Undoing, CommissionCalls
  <2>4. QED BY <1>10, <2>2, <2>3 DEF Verify
<1>11. QED BY <1>4, <1>5, <1>6, <1>7, <1>8, <1>9, <1>10

(* The claim, the end and the failures of a processing: only the reversal,  *)
(* and at the end the transaction, are written.                             *)
LEMMA ClaimKeeps ==
  ASSUME RevInv, NEW a \in Admins, Claim(a)
  PROVE  RevInv'
<1>1. /\ admin[a].at = "Claim" /\ UNCHANGED <<settler, interrupted, faults>>
      /\ UNCHANGED <<row, commission, alloc, wallet>> /\ admin[a].at # "Idle"
      /\ reversal' = [reversal EXCEPT !.status = "PROCESSING",
           !.principal = IF admin[a].principal THEN "PROCESSING" ELSE @,
           !.commission = IF admin[a].commission THEN "PROCESSING" ELSE @]
      /\ admin' = [admin EXCEPT ![a] = [IdleAdmin EXCEPT !.ref = row.ref,
           !.at = IF reversal'.principal = "COMPLETED" THEN "Commission" ELSE "Principal"]]
  BY DEF Claim, Processing
<1>2. admin[a] \in AdminState /\ ServicesOK /\ ServicesType /\ reversal.status # "none"
  BY <1>1, AdminHas, ServicesHave
<1>3. /\ reversal' \in ReversalState
      /\ reversal'.status = "PROCESSING" /\ reversal'.principal \in {"PROCESSING", reversal.principal}
      /\ reversal'.commission \in {"PROCESSING", reversal.commission}
      /\ reversal'.quiet = reversal.quiet /\ reversal'.paid = reversal.paid
  BY <1>1, <1>2 DEF ServicesType, ReversalState, Components
<1>4. ServicesType' /\ Grows
  BY <1>1, <1>2, <1>3 DEF ServicesType, Grows, AllReversed
<1>5. ServicesOK'
  BY <1>1, <1>2, <1>3 DEF ServicesOK, Entries, Known, Compensation, Quiet, UndoneInOrder,
     Settled, AllReversed
<1> DEFINE new == [IdleAdmin EXCEPT !.ref = row.ref,
             !.at = IF reversal'.principal = "COMPLETED" THEN "Commission" ELSE "Principal"]
<1>6. new \in AdminState
  BY <1>2 DEF IdleAdmin, AdminState, ServicesType, RowState
<1>7. PICK q \in AdminState : q = new
  BY <1>6
<1>8. /\ q.at = IF reversal'.principal = "COMPLETED" THEN "Commission" ELSE "Principal"
      /\ q.todo = {} /\ q.ref = row.ref
  BY <1>7 DEF IdleAdmin
<1>9. q.at = "Commission" => row.settlement = "COMPENSATED"
  BY <1>2, <1>3, <1>8 DEF ServicesOK, Compensation
<1>10. Settled' => row.ref
  BY <1>2, <1>3 DEF ServicesOK, UndoneInOrder, Settled
<1>11. AdminOK(q)'
  BY <1>1, <1>3, <1>8, <1>9, <1>10 DEF AdminOK, Undoing, PrincipalCalls, CommissionCalls
<1>12. Leads(a)
  BY <1>1, <1>7, <1>11 DEF Leads
<1>13. QED BY <1>1, <1>4, <1>5, <1>12, AdminHas, AdminKeeps

LEMMA EndsKeep ==
  ASSUME RevInv, NEW a \in Admins,
         PrincipalFailed(a) \/ CommissionFailed(a) \/ Incomplete(a) \/ Finish(a)
  PROVE  RevInv'
<1>1. /\ admin[a].at \in {"PrincipalFailed", "CommissionFailed", "Incomplete", "Complete"}
      /\ UNCHANGED <<settler, interrupted, faults, commission, alloc, wallet>>
      /\ admin[a].at # "Idle" /\ admin' = [admin EXCEPT ![a] = IdleAdmin]
  BY DEF PrincipalFailed, CommissionFailed, Incomplete, Finish, Processing
<1>2. /\ AdminOK(admin[a]) /\ ServicesOK /\ ServicesType /\ Leads(a)
      /\ reversal.status # "none" /\ interrupted' \in BOOLEAN
  BY <1>1, AdminHas, ServicesHave, IdleLeads
<1>3. CASE ~Finish(a)
  <2>1. /\ row' = row /\ reversal'.status = "FAILED" /\ reversal' \in ReversalState
        /\ reversal'.principal \in {"FAILED", reversal.principal}
        /\ reversal'.commission \in {"FAILED", reversal.commission}
        /\ reversal'.quiet = reversal.quiet /\ reversal'.paid = reversal.paid
    BY <1>2, <1>3 DEF PrincipalFailed, CommissionFailed, Incomplete, ServicesType, ReversalState,
       Components
  <2>2. ServicesType' /\ Grows
    BY <1>1, <1>2, <2>1 DEF ServicesType, Grows, AllReversed
  <2>3. ServicesOK'
    BY <1>1, <1>2, <2>1 DEF ServicesOK, Entries, Known, Compensation, Quiet, UndoneInOrder,
       Settled, AllReversed
  <2>4. QED BY <1>1, <1>2, <2>2, <2>3, AdminKeeps
<1>4. CASE Finish(a)
  <2>1. /\ reversal'.status = "COMPLETED" /\ reversal' \in ReversalState
        /\ reversal'.principal = reversal.principal /\ reversal'.commission = reversal.commission
        /\ reversal'.quiet = reversal.quiet /\ reversal'.paid = reversal.paid
        /\ row'.status = "REVERSED" /\ row'.commission = "REVERSED" /\ row' \in RowState
        /\ row'.settlement = row.settlement /\ row'.ref = row.ref
    BY <1>2, <1>4 DEF Finish, ServicesType, ReversalState, RowState
  <2>2. admin[a].at = "Complete"
    BY <1>4 DEF Finish, Processing
  <2>3. row.settlement = "COMPENSATED" /\ (Settled => AllReversed)
    BY <1>2, <2>2 DEF AdminOK
  <2>4. ServicesType' /\ Grows
    BY <1>1, <1>2, <2>1 DEF ServicesType, Grows, AllReversed
  <2>5. ServicesOK'
    BY <1>1, <1>2, <2>1, <2>3 DEF ServicesOK, Entries, Known, Compensation, Quiet, UndoneInOrder,
       Settled, AllReversed
  <2>6. QED BY <1>1, <1>2, <2>4, <2>5, AdminKeeps
<1>5. QED BY <1>3, <1>4

(* The compensation of the principal. *)
LEMMA PrincipalKeeps ==
  ASSUME RevInv, NEW a \in Admins, PrincipalEntry(a) \/ PrincipalDone(a)
  PROVE  RevInv'
<1>1. /\ admin[a].at \in PrincipalCalls /\ admin[a].at # "Idle"
      /\ UNCHANGED <<settler, interrupted, commission, alloc>> /\ (faults' = faults \/ Fault)
  BY DEF PrincipalEntry, PrincipalDone, Processing, Performed, PrincipalCalls
<1>2. /\ AdminOK(admin[a]) /\ ServicesOK /\ ServicesType
      /\ reversal.status # "none" /\ interrupted' \in BOOLEAN
  BY <1>1, AdminHas, ServicesHave
<1>3. CASE PrincipalEntry(a)
  <2>1. /\ UNCHANGED <<row, reversal>> /\ wallet' = [wallet EXCEPT !.principal = Posted(@)]
    BY <1>3 DEF PrincipalEntry
  <2>2. wallet.principal \in {0, 1}
    BY <1>2 DEF ServicesOK, Entries, ServicesType, WalletState
  <2>3. /\ wallet' \in WalletState /\ wallet'.principal = 1
        /\ wallet'.credited = wallet.credited /\ wallet'.debited = wallet.debited
    BY <1>2, <2>1, <2>2 DEF Posted, ServicesType, WalletState
  <2>4. ServicesType' /\ Grows
    BY <1>1, <1>2, <2>1, <2>3 DEF ServicesType, Grows, AllReversed
  <2>5. ServicesOK'
    BY <1>1, <1>2, <2>1, <2>3 DEF ServicesOK, Entries, Known, Compensation, Quiet, UndoneInOrder,
       Settled, AllReversed
  <2>6. CASE Proceed(a, "PrincipalDone")
    <3>1. Leads(a)
      BY <1>1, <2>3, <2>4, <2>6, ProceedLeads DEF Undoing, CommissionCalls
    <3>2. QED BY <1>1, <1>2, <2>4, <2>5, <3>1, AdminKeeps
  <2>7. CASE Proceed(a, OnFailure[admin[a].at])
    BY <1>1, <1>2, <2>4, <2>5, <2>7, FailureLeads, AdminKeeps
  <2>8. QED BY <1>3, <2>6, <2>7 DEF PrincipalEntry, Performed
<1>4. CASE PrincipalDone(a)
  <2>1. /\ wallet' = wallet /\ row'.settlement = "COMPENSATED" /\ row' \in RowState
        /\ row'.status = row.status /\ row'.commission = row.commission /\ row'.ref = row.ref
        /\ reversal' \in ReversalState /\ reversal'.status = reversal.status
        /\ reversal'.principal = "COMPLETED" /\ reversal'.commission = reversal.commission
        /\ reversal'.quiet = reversal.quiet /\ reversal'.paid = reversal.paid
    BY <1>2, <1>4 DEF PrincipalDone, ServicesType, RowState, ReversalState, Components
  <2>2. wallet.principal = 1
    BY <1>2, <1>4 DEF PrincipalDone, Processing, AdminOK
  <2>3. ServicesType' /\ Grows
    BY <1>1, <1>2, <2>1 DEF ServicesType, Grows, AllReversed
  <2>4. ServicesOK'
    BY <1>1, <1>2, <2>1, <2>2 DEF ServicesOK, Entries, Known, Compensation, Quiet, UndoneInOrder,
       Settled, AllReversed
  <2>5. CASE Proceed(a, "Commission")
    <3>1. Leads(a)
      BY <1>1, <2>1, <2>3, <2>5, ProceedLeads DEF Undoing
    <3>2. QED BY <1>1, <1>2, <2>3, <2>4, <3>1, AdminKeeps
  <2>6. CASE Proceed(a, OnFailure[admin[a].at])
    BY <1>1, <1>2, <2>3, <2>4, <2>6, FailureLeads, AdminKeeps
  <2>7. QED BY <1>4, <2>5, <2>6 DEF PrincipalDone, Performed
<1>5. QED BY <1>3, <1>4

(* The compensation of the commission. *)
LEMMA CommissionKeeps ==
  ASSUME RevInv, NEW a \in Admins,
         \/ NoCommission(a) \/ Debit(a) \/ MarkReversedWrite(a)
         \/ ReversalFinalizeWrite(a) \/ CommissionDone(a)
  PROVE  RevInv'
<1>1. /\ admin[a].at \in CommissionCalls /\ admin[a].at # "Idle"
      /\ UNCHANGED <<settler, interrupted>> /\ (faults' = faults \/ Fault)
  BY DEF NoCommission, Debit, MarkReversedWrite, ReversalFinalizeWrite, CommissionDone,
         Processing, Performed, CommissionCalls
<1>2. /\ AdminOK(admin[a]) /\ ServicesOK /\ ServicesType /\ row.settlement = "COMPENSATED"
      /\ reversal.status # "none" /\ interrupted' \in BOOLEAN
  BY <1>1, AdminHas, ServicesHave DEF AdminOK
<1>3. ASSUME ServicesType', ServicesOK', Grows, Leads(a) \/ Proceed(a, OnFailure[admin[a].at])
      PROVE  RevInv'
  BY <1>1, <1>2, <1>3, FailureLeads, AdminKeeps
<1>4. ASSUME NoCommission(a) \/ CommissionDone(a),
             reversal'.commission \in {"NOT_REQUIRED", "COMPLETED"},
             Settled => reversal'.commission = "COMPLETED" /\ AllReversed,
             reversal' = [reversal EXCEPT !.commission = reversal'.commission]
      PROVE  RevInv'
  <2>1. /\ UNCHANGED <<commission, alloc, wallet>>
        /\ row' = [row EXCEPT !.commission = "REVERSED"] /\ Performed(a, "Verify")
    BY <1>4 DEF NoCommission, CommissionDone
  <2>2. /\ row' \in RowState /\ row'.commission = "REVERSED" /\ row'.status = row.status
        /\ row'.settlement = row.settlement /\ row'.ref = row.ref
    BY <1>2, <2>1 DEF ServicesType, RowState
  <2>3. /\ reversal' \in ReversalState /\ reversal'.status = reversal.status
        /\ reversal'.principal = reversal.principal
        /\ reversal'.quiet = reversal.quiet /\ reversal'.paid = reversal.paid
    BY <1>2, <1>4 DEF ServicesType, ReversalState, Components
  <2>4. ServicesType' /\ Grows
    BY <1>2, <2>1, <2>2, <2>3 DEF ServicesType, Grows, AllReversed
  <2>5. ServicesOK'
    BY <1>2, <1>4, <2>1, <2>2, <2>3 DEF ServicesOK, Entries, Known, Compensation, Quiet,
       UndoneInOrder, Settled, AllReversed
  <2>6. CASE Proceed(a, "Verify")
    <3>1. Leads(a)
      BY <1>1, <1>2, <2>2, <2>4, <2>6, ProceedLeads DEF Undoing
    <3>2. QED BY <1>3, <2>4, <2>5, <3>1
  <2>7. QED BY <1>3, <2>1, <2>4, <2>5, <2>6 DEF Performed
<1>5. CASE NoCommission(a)
  <2>1. reversal' = [reversal EXCEPT !.commission = "NOT_REQUIRED"] /\ ~admin[a].ref
        /\ admin[a].at = "Commission"
    BY <1>5 DEF NoCommission, Processing
  <2>2. reversal'.commission = "NOT_REQUIRED"
    BY <1>2, <2>1 DEF ServicesType, ReversalState
  <2>3. ~Settled
    BY <1>2, <2>1 DEF AdminOK
  <2>4. QED BY <1>4, <1>5, <2>1, <2>2, <2>3
<1>6. CASE CommissionDone(a)
  <2>1. reversal' = [reversal EXCEPT !.commission = "COMPLETED"] /\ admin[a].at = "CommissionDone"
    BY <1>6 DEF CommissionDone, Processing
  <2>2. reversal'.commission = "COMPLETED"
    BY <1>2, <2>1 DEF ServicesType, ReversalState
  <2>3. Settled => AllReversed
    BY <1>2, <2>1 DEF AdminOK
  <2>4. QED BY <1>4, <1>6, <2>1, <2>2, <2>3
<1>7. CASE Debit(a)
  <2> DEFINE x == First(admin[a].todo)
  <2>1. /\ UNCHANGED <<row, commission, alloc, reversal>> /\ admin[a].at = "Debit"
        /\ wallet' = [wallet EXCEPT !.debited[x] = Posted(@)] /\ Performed(a, "MarkReversed")
    BY <1>7 DEF Debit, Processing
  <2>2. x \in Allocations /\ wallet.credited[x] = 1
    <3>1. admin[a].todo # {} /\ admin[a].todo \in SUBSET Allocations
      BY <1>2, <2>1, AdminHas DEF AdminOK, Undoing, AdminState
    <3>2. x \in admin[a].todo
      BY <3>1, FirstIn
    <3>3. QED BY <1>2, <3>1, <3>2 DEF AdminOK
  <2>3. wallet.debited[x] \in {0, 1}
    BY <1>2, <2>2 DEF ServicesType, WalletState, ServicesOK, Entries
  <2>4. Posted(wallet.debited[x]) = 1
    BY <2>3 DEF Posted
  <2>5. /\ wallet' \in WalletState /\ wallet'.principal = wallet.principal
        /\ wallet'.credited = wallet.credited /\ wallet'.debited[x] = 1
        /\ \A y \in Allocations : y # x => wallet'.debited[y] = wallet.debited[y]
    BY <1>2, <2>1, <2>2, <2>4 DEF ServicesType, WalletState
  <2>6. ServicesType' /\ Grows
    BY <1>2, <2>1, <2>5 DEF ServicesType, Grows, AllReversed
  <2>7. Entries'
    BY <1>2, <2>1, <2>2, <2>5 DEF ServicesOK, Entries
  <2>8. ServicesOK'
    BY <1>2, <2>1, <2>5, <2>7 DEF ServicesOK, Known, Compensation, Quiet, UndoneInOrder,
       Settled, AllReversed
  <2>9. CASE Proceed(a, "MarkReversed")
    <3>1. Leads(a)
      BY <1>1, <1>2, <2>1, <2>5, <2>6, <2>9, ProceedLeads DEF Undoing, CommissionCalls
    <3>2. QED BY <1>3, <2>6, <2>8, <3>1
  <2>10. QED BY <1>3, <2>1, <2>6, <2>8, <2>9 DEF Performed
<1>8. CASE MarkReversedWrite(a)
  <2> DEFINE x == First(admin[a].todo)
  <2>1. /\ UNCHANGED <<row, commission, wallet, reversal>> /\ admin[a].at = "MarkReversedWrite"
        /\ alloc' = [alloc EXCEPT ![x] = "REVERSED"]
    BY <1>8 DEF MarkReversedWrite, Processing
  <2>2. x \in Allocations /\ wallet.debited[x] = 1 /\ wallet.credited[x] = 1
    <3>1. admin[a].todo # {} /\ admin[a].todo \in SUBSET Allocations
      BY <1>2, <2>1, AdminHas DEF AdminOK, Undoing, AdminState
    <3>2. x \in admin[a].todo
      BY <3>1, FirstIn
    <3>3. QED BY <1>2, <2>1, <3>1, <3>2 DEF AdminOK
  <2>3. /\ alloc' \in [Allocations -> {"PENDING", "SUCCESS", "FAILED", "REVERSED"}]
        /\ alloc'[x] = "REVERSED" /\ \A y \in Allocations : y # x => alloc'[y] = alloc[y]
    BY <1>2, <2>1, <2>2 DEF ServicesType
  <2>4. ServicesType' /\ Grows
    BY <1>2, <2>1, <2>3 DEF ServicesType, Grows, AllReversed
  <2>5. Entries'
    BY <1>2, <2>1, <2>2, <2>3 DEF ServicesOK, Entries
  <2>6. row.ref
    BY <1>2, <2>1 DEF AdminOK, Undoing
  <2>8. ServicesOK'
    BY <1>2, <2>1, <2>3, <2>5, <2>6 DEF Known, ServicesOK, Compensation, Quiet, UndoneInOrder,
       Settled, AllReversed
  <2>9. CASE admin' = Undone(a)
    <3>1. Leads(a)
      BY <2>1, <2>4, <2>9, UndoneLeads
    <3>2. QED BY <1>3, <2>4, <2>8, <3>1
  <2>10. CASE Proceed(a, "CommissionFailed")
    <3>1. Leads(a)
      BY <1>1, <2>4, <2>10, ProceedLeads DEF Undoing, CommissionCalls
    <3>2. QED BY <1>3, <2>4, <2>8, <3>1
  <2>11. QED BY <1>8, <2>9, <2>10 DEF MarkReversedWrite
<1>9. CASE ReversalFinalizeWrite(a)
  <2>1. /\ UNCHANGED <<row, alloc, wallet, reversal>> /\ admin[a].at = "FinalizeWrite"
        /\ commission' = "REVERSED" /\ Performed(a, "CommissionDone")
    BY <1>9 DEF ReversalFinalizeWrite, Processing
  <2>2. Settled => AllReversed
    BY <1>2, <2>1 DEF AdminOK
  <2>3. ServicesType' /\ Grows
    BY <1>2, <2>1 DEF ServicesType, Grows, AllReversed
  <2>4. ServicesOK'
    BY <1>2, <2>1, <2>2 DEF ServicesOK, Entries, Known, Compensation, Quiet, UndoneInOrder,
       Settled, AllReversed
  <2>5. CASE Proceed(a, "CommissionDone")
    <3>1. Settled => AllReversed'
      BY <2>1, <2>2 DEF AllReversed
    <3>2. Leads(a)
      BY <1>1, <1>2, <2>1, <2>3, <2>5, <3>1, ProceedLeads DEF Undoing
    <3>3. QED BY <1>3, <2>3, <2>4, <3>2
  <2>6. QED BY <1>3, <2>1, <2>3, <2>4, <2>5 DEF Performed
<1>10. QED BY <1>5, <1>6, <1>7, <1>8, <1>9

(* The request finds no admin at work; it records whether a settlement is. *)
LEMMA RequestKeeps ==
  ASSUME RevInv, Request
  PROVE  RevInv'
<1>1. /\ UNCHANGED <<row, commission, alloc, wallet, settler, admin, faults, interrupted>>
      /\ reversal.status = "none" /\ row.status = "SUCCESS"
  BY DEF Request
<1>2. ServicesOK /\ ServicesType
  BY ServicesHave
<1>3. /\ reversal' \in ReversalState /\ reversal'.status = "REQUESTED"
      /\ reversal'.principal = "PENDING"
      /\ reversal'.commission = IF row.ref \/ row.commission \in {"SETTLED", "PENDING"}
                                THEN "PENDING" ELSE "NOT_REQUIRED"
      /\ reversal'.quiet <=> \A s \in Settlers : settler[s].at = "Idle"
      /\ reversal'.paid <=> \A x \in Allocations : alloc[x] = "SUCCESS"
  BY DEF Request, ReversalState, Components
<1>4. ServicesType'
  BY <1>1, <1>2, <1>3 DEF ServicesType
<1>5. Settled' => row.ref /\ commission # "REVERSED" /\ \A x \in Allocations : alloc[x] = "SUCCESS"
  <2>1. 1 \in Allocations
    BY ReversalAssumption DEF Allocations
  <2>2. QED BY <1>1, <1>2, <1>3, <2>1 DEF ServicesOK, Known, Quiet, Settled
<1>6. ServicesOK'
  BY <1>1, <1>2, <1>3, <1>5 DEF ServicesOK, Entries, Known, Compensation, Quiet, UndoneInOrder
<1>7. \A s \in Settlers : SettlerOK(settler[s])'
  BY <1>1, <1>3, SettlerHas DEF SettlerOK, InLoop, Settled
<1>8. \A a \in Admins : AdminOK(admin[a])'
  BY <1>1, <1>3, AdminHas DEF AdminOK, Undoing, PrincipalCalls, CommissionCalls
<1>9. TypeOK'
  BY <1>1, <1>4, TypeParts DEF RevInv, ServicesType, TypeOK, RowState, WalletState, ReversalState,
     SettlerState, AdminState
<1>10. QED BY <1>6, <1>7, <1>8, <1>9 DEF RevInv

-----------------------------------------------------------------------------
LEMMA NextKeeps == RevInv /\ [Next]_vars => RevInv'
<1> SUFFICES ASSUME RevInv, [Next]_vars PROVE RevInv'
  OBVIOUS
<1>1. ASSUME NEW s \in Settlers, SettlerStep(s) PROVE RevInv'
  BY <1>1, ReadsKeep, WritesKeep DEF SettlerStep
<1>2. ASSUME NEW a \in Admins, AdminStep(a) \/ AdminFault(a) \/ Stop(a) PROVE RevInv'
  BY <1>2, AdminReadsKeep, ClaimKeeps, EndsKeep, PrincipalKeeps, CommissionKeeps DEF AdminStep
<1>3. CASE UNCHANGED vars
  <2>1. Grows /\ ServicesOK' /\ TypeOK'
    BY <1>3, SameServices DEF vars, services, RevInv, TypeOK
  <2>2. UNCHANGED <<settler, admin>>
    BY <1>3 DEF vars
  <2>3. QED BY <2>1, <2>2, OthersKept DEF RevInv
<1>4. QED BY <1>1, <1>2, <1>3, RequestKeeps DEF Next

LEMMA RevInvAlways == Spec => []RevInv
BY InitInv, NextKeeps, PTL DEF Spec

(* The rows, entries and processes keep their types. *)
THEOREM TypeCorrect == Spec => []TypeOK
<1>1. RevInv => TypeOK
  BY DEF RevInv
<1>2. QED BY <1>1, RevInvAlways, PTL

(* For any number of allocations, admins, settlements and failed calls,    *)
(* the keys of createReversalWalletEntry and of the distributions post     *)
(* nothing twice.                                                          *)
THEOREM PostedOnce == Spec => []CompensatedOnce
<1>1. RevInv => CompensatedOnce
  <2> SUFFICES ASSUME RevInv PROVE CompensatedOnce
    OBVIOUS
  <2>1. ServicesType /\ Entries
    BY ServicesHave DEF ServicesOK
  <2>2. ASSUME NEW x \in Allocations PROVE wallet.credited[x] <= 1 /\ wallet.debited[x] <= 1
    <3>1. wallet.credited[x] \in Nat /\ wallet.debited[x] \in Nat
      BY <2>1 DEF ServicesType, WalletState
    <3>2. QED BY <2>1, <3>1 DEF Entries
  <2>3. QED BY <2>1, <2>2 DEF Entries, CompensatedOnce
<1>2. QED BY <1>1, RevInvAlways, PTL

(* processProviderTransactionReversal debits no recipient that was not     *)
(* credited, although it goes by the allocations' statuses.                *)
THEOREM DebitsFollowCredits == Spec => []DebitedOnlyIfCredited
<1>1. RevInv => DebitedOnlyIfCredited
  BY DEF RevInv, ServicesOK, Entries, DebitedOnlyIfCredited
<1>2. QED BY <1>1, RevInvAlways, PTL

(* A transaction shown as REVERSED has its principal back in the wallets.  *)
THEOREM ReversedHasPrincipal == Spec => []ReversedIsCompensated
<1>1. RevInv => ReversedIsCompensated
  BY DEF RevInv, ServicesOK, Compensation, ReversedIsCompensated
<1>2. QED BY <1>1, RevInvAlways, PTL

(* Without a settlement under way, updateProviderCommissionState cannot    *)
(* take the income of a reversed transaction forward again.                *)
THEOREM StaysReversed == Spec => []ReversedStaysReversed
<1>1. RevInv => ReversedStaysReversed
  BY DEF RevInv, ServicesOK, Quiet, ReversedStaysReversed
<1>2. QED BY <1>1, RevInvAlways, PTL

(* For any number of settlements and admins, a completed reversal of an    *)
(* income that was paid in full has debited every recipient.               *)
THEOREM AllIsUndone == Spec => []PaidIsUndone
<1>1. RevInv => PaidIsUndone
  BY DEF RevInv, ServicesOK, UndoneInOrder, Entries, Settled, AllReversed, PaidIsUndone
<1>2. QED BY <1>1, RevInvAlways, PTL
=============================================================================
