---------------------------- MODULE ServicesProofs ----------------------------
(* Proofs about the services of MCServices that keep no financial record:   *)
(* the transaction authorizations, for any number of requests for an OTP,   *)
(* of executions and of authorizations; the sessions; the one-time          *)
(* passwords.                                                               *)
EXTENDS TxnAuthorization, Sessions, OtpService, TLAPS

-----------------------------------------------------------------------------
(* Authorizations.  Types.  An execution refers to a row, and rows are only *)
(* added.                                                                   *)

SenderState == {NoSending} \cup [at: {"ExpirePrevious", "Create"}, type: AuthTypes]

HandlerState(rows) ==
  {NoExecution} \cup [at: {"Expire", "Claim", "Prepare", "Release", "Called"}, auth: rows]

LEMMA AuthTypeParts ==
  AuthTypeOK <=> /\ authorization \in Seq(Authorization)
                 /\ authSender \in [AuthSenders -> SenderState]
                 /\ authHandler \in [AuthHandlers -> HandlerState(DOMAIN authorization)]
                 /\ authOverlap \in BOOLEAN
  BY DEF AuthTypeOK, SenderState, HandlerState

LEMMA HandlerFacts ==
  ASSUME AuthTypeOK, NEW h \in AuthHandlers, authHandler[h].at # "Idle"
  PROVE  /\ authHandler[h] \in [at: {"Expire", "Claim", "Prepare", "Release", "Called"},
                                auth: DOMAIN authorization]
         /\ On(h) \in DOMAIN authorization
  <1>1. authHandler[h] \in HandlerState(DOMAIN authorization)
    BY AuthTypeParts
  <1>2. QED
    BY <1>1 DEF HandlerState, NoExecution, On

LEMMA RowFacts ==
  ASSUME AuthTypeOK, NEW i \in DOMAIN authorization
  PROVE  authorization[i] \in Authorization /\ i \in Nat /\ authorization[i].calls \in Nat
  <1>1. authorization[i] \in Authorization /\ i \in Nat
    BY DEF AuthTypeOK
  <1>2. QED
    BY <1>1 DEF Authorization

(* An update of rows. *)
LEMMA RowsUpdated ==
  ASSUME AuthTypeOK,
         authorization' = [i \in DOMAIN authorization |-> authorization'[i]],
         \A i \in DOMAIN authorization : authorization'[i] \in Authorization
  PROVE  authorization' \in Seq(Authorization) /\ DOMAIN authorization' = DOMAIN authorization
  <1>1. authorization \in Seq(Authorization)
    BY DEF AuthTypeOK
  <1>2. PICK n \in Nat : DOMAIN authorization = 1 .. n
    BY <1>1
  <1>3. authorization' \in [1 .. n -> Authorization]
    BY <1>2
  <1>4. QED
    BY <1>2, <1>3

-----------------------------------------------------------------------------
(* What the steps do to the rows: a step that does not add a row changes    *)
(* the status of rows, and the marks of one.                                *)

(* A row that keeps its type and its mark, and may become usable only when  *)
(* it is marked; the calls are counted by the caller.                       *)
Updated(old, new) ==
  /\ new \in Authorization /\ new.type = old.type /\ (old.released => new.released)
  /\ old.status # "ISSUED" /\ new.status = "ISSUED" => new.released

(* "back": the rows that may become usable again. *)
RowsStep(back) ==
  /\ authorization' \in Seq(Authorization)
  /\ DOMAIN authorization' = DOMAIN authorization
  /\ \A i \in DOMAIN authorization :
       /\ Updated(authorization[i], authorization'[i])
       /\ authorization[i].status # "ISSUED" /\ authorization'[i].status = "ISSUED" => i \in back

CallsKept == \A i \in DOMAIN authorization : authorization'[i].calls = authorization[i].calls

LEMMA UnchangedRows ==
  ASSUME AuthTypeOK, authorization' = authorization
  PROVE  RowsStep({}) /\ CallsKept
  BY RowFacts DEF RowsStep, AuthTypeOK, Updated, CallsKept

(* The update of one row. *)
LEMMA OneRow ==
  ASSUME AuthTypeOK, NEW n \in DOMAIN authorization, NEW row,
         authorization' = [authorization EXCEPT ![n] = row],
         Updated(authorization[n], row)
  PROVE  /\ RowsStep({n})
         /\ row.status # "ISSUED" \/ row.status = authorization[n].status => RowsStep({})
         /\ row.calls = authorization[n].calls => CallsKept
         /\ authorization'[n] = row
         /\ \A i \in DOMAIN authorization \ {n} : authorization'[i] = authorization[i]
  <1>1. \A i \in DOMAIN authorization :
          authorization'[i] = IF i = n THEN row ELSE authorization[i]
    OBVIOUS
  <1>2. \A i \in DOMAIN authorization : authorization'[i] \in Authorization
    BY <1>1, RowFacts DEF Updated
  <1>3. authorization' \in Seq(Authorization) /\ DOMAIN authorization' = DOMAIN authorization
    BY <1>2, RowsUpdated
  <1>4. \A i \in DOMAIN authorization : Updated(authorization[i], authorization'[i])
    BY <1>1, <1>2 DEF Updated
  <1>5. QED
    BY <1>1, <1>3, <1>4 DEF RowsStep, CallsKept

(* The update of the status of some rows, never to ISSUED. *)
LEMMA SomeRows ==
  ASSUME AuthTypeOK, NEW S \in SUBSET DOMAIN authorization,
         authorization' = [i \in DOMAIN authorization |->
           IF i \in S THEN [authorization[i] EXCEPT !.status = "EXPIRED"] ELSE authorization[i]]
  PROVE  /\ RowsStep({}) /\ CallsKept
         /\ \A i \in S : authorization'[i].status = "EXPIRED"
         /\ \A i \in DOMAIN authorization \ S : authorization'[i] = authorization[i]
  <1> DEFINE Expired(i) == [authorization[i] EXCEPT !.status = "EXPIRED"]
  <1>1. \A i \in DOMAIN authorization :
          /\ authorization[i] \in Authorization /\ Expired(i) \in Authorization
          /\ Expired(i).status = "EXPIRED" /\ Expired(i).calls = authorization[i].calls
    BY RowFacts DEF Authorization
  <1>2. \A i \in DOMAIN authorization : Updated(authorization[i], Expired(i))
    BY <1>1 DEF Authorization, Updated
  <1>3. \A i \in DOMAIN authorization :
          authorization'[i] = IF i \in S THEN Expired(i) ELSE authorization[i]
    OBVIOUS
  <1> HIDE DEF Expired
  <1>4. authorization' \in Seq(Authorization) /\ DOMAIN authorization' = DOMAIN authorization
    BY <1>1, <1>3, RowsUpdated
  <1>5. \A i \in DOMAIN authorization : Updated(authorization[i], authorization'[i])
    BY <1>1, <1>2, <1>3 DEF Updated
  <1>6. QED
    BY <1>1, <1>3, <1>4, <1>5 DEF RowsStep, CallsKept

(* A new row. *)
NewRow(type) ==
  [type |-> type, status |-> "ISSUED", lapsed |-> FALSE, released |-> FALSE, calls |-> 0]

LEMMA AddedRow ==
  ASSUME AuthTypeOK, NEW s \in AuthSenders, CreateAuthorization(s)
  PROVE  LET n == Len(authorization) + 1 IN
         /\ authorization' \in Seq(Authorization)
         /\ n \notin DOMAIN authorization
         /\ DOMAIN authorization' = DOMAIN authorization \cup {n}
         /\ authorization'[n] = NewRow(authSender[s].type)
         /\ \A i \in DOMAIN authorization : i < n /\ authorization'[i] = authorization[i]
  <1>1. authSender[s] \in SenderState /\ authorization \in Seq(Authorization)
    BY AuthTypeParts
  <1>2. authSender[s].type \in AuthTypes
    BY <1>1 DEF CreateAuthorization, SenderState, NoSending
  <1>3. NewRow(authSender[s].type) \in Authorization
    BY <1>2 DEF NewRow, Authorization
  <1>4. authorization' = Append(authorization, NewRow(authSender[s].type))
    BY DEF CreateAuthorization, NewRow
  <1> HIDE DEF NewRow
  <1>5. QED
    BY <1>1, <1>3, <1>4

-----------------------------------------------------------------------------
(* The rows under each step of an execution. *)

LEMMA ExecutionRows ==
  ASSUME AuthTypeOK, NEW h \in AuthHandlers, ExecutionStep(h)
  PROVE  /\ RowsStep(IF authHandler[h].at = "Release" THEN {On(h)} ELSE {})
         /\ authHandler[h].at # "Prepare" => CallsKept
         /\ CallProvider(h) \/ CallsKept
  <1> DEFINE n == On(h)
             row == authorization[n]
  <1>1. authHandler[h].at # "Idle"
    BY DEF ExecutionStep, ExpireFound, ClaimAuthorization, CallProvider, PrepareFails,
           ReleaseAuthorization, ConsumeAuthorization, MarkAuthorizationUnknown, Executing
  <1>2. n \in DOMAIN authorization /\ row \in Authorization /\ row.calls \in Nat
    BY <1>1, HandlerFacts, RowFacts
  <1>3. ASSUME NEW status \in {"ISSUED", "CONSUMING", "CONSUMED", "UNKNOWN", "EXPIRED"},
               status = "ISSUED" => status = row.status,
               authorization' = [authorization EXCEPT ![n].status = status]
        PROVE  RowsStep({}) /\ CallsKept
    <2>1. /\ [row EXCEPT !.status = status].status = status
          /\ [row EXCEPT !.status = status].calls = row.calls
          /\ Updated(row, [row EXCEPT !.status = status])
      BY <1>2, <1>3 DEF Authorization, Updated
    <2>2. authorization' = [authorization EXCEPT ![n] = [row EXCEPT !.status = status]]
      BY <1>3
    <2>3. QED
      BY <1>2, <1>3, <2>1, <2>2, OneRow
  <1>4. CASE ExpireFound(h)
    BY <1>3, <1>4 DEF ExpireFound, Executing
  <1>5. CASE ClaimAuthorization(h)
    BY <1>3, <1>5, UnchangedRows DEF ClaimAuthorization, Executing
  <1>6. CASE CallProvider(h)
    <2> DEFINE new == [row EXCEPT !.calls = row.calls + 1]
    <2>1. new.status = row.status /\ Updated(row, new)
      BY <1>2 DEF Authorization, Updated
    <2>2. authorization' = [authorization EXCEPT ![n] = new]
      BY <1>6 DEF CallProvider
    <2> HIDE DEF new, n
    <2>3. RowsStep({})
      BY <1>2, <2>1, <2>2, OneRow
    <2>4. QED
      BY <1>6, <2>3 DEF CallProvider, Executing
  <1>7. CASE PrepareFails(h)
    BY <1>7, UnchangedRows DEF PrepareFails, Executing
  <1>8. CASE ReleaseAuthorization(h)
    <2> DEFINE new == [row EXCEPT !.status = IF row.status = "CONSUMING" THEN "ISSUED" ELSE row.status,
                                  !.released = TRUE]
    <2>1. new.calls = row.calls /\ Updated(row, new)
      BY <1>2 DEF Authorization, Updated
    <2>2. authorization' = [authorization EXCEPT ![n] = new]
      BY <1>8 DEF ReleaseAuthorization
    <2> HIDE DEF new, n
    <2>3. RowsStep({n}) /\ CallsKept
      BY <1>2, <2>1, <2>2, OneRow
    <2>4. QED
      BY <1>8, <2>3 DEF ReleaseAuthorization, Executing, n
  <1>9. CASE ConsumeAuthorization(h)
    BY <1>3, <1>9 DEF ConsumeAuthorization, Executing
  <1>10. CASE MarkAuthorizationUnknown(h)
    <2>1. authorization' = [authorization EXCEPT ![n].status =
            IF row.status = "CONSUMING" THEN "UNKNOWN" ELSE row.status]
      BY <1>10 DEF MarkAuthorizationUnknown
    <2>2. row.status \in {"ISSUED", "CONSUMING", "CONSUMED", "UNKNOWN", "EXPIRED"}
      BY <1>2 DEF Authorization
    <2>3. RowsStep({}) /\ CallsKept
      BY <1>3, <2>1, <2>2
    <2>4. QED
      BY <1>10, <2>3 DEF MarkAuthorizationUnknown, Executing
  <1>11. QED
    BY <1>4, <1>5, <1>6, <1>7, <1>8, <1>9, <1>10 DEF ExecutionStep

-----------------------------------------------------------------------------
(* The state of an execution after each of its steps. *)

LEMMA ExecutionMoves ==
  ASSUME AuthTypeOK, NEW h \in AuthHandlers, ExecutionStep(h) \/ ExecutionStops(h)
  PROVE  \E state \in HandlerState(DOMAIN authorization) :
           /\ authHandler' = [authHandler EXCEPT ![h] = state]
           /\ authHandler[h].at # "Idle"
           /\ state.at \in Claimed => /\ state.auth = On(h)
                                     /\ \/ authHandler[h].at \in Claimed
                                        \/ state.at = "Prepare" /\ ClaimAuthorization(h) /\ Claimable(On(h))
           /\ state.at \in {"Prepare", "Release"} =>
                ClaimAuthorization(h) \/ (authHandler[h].at = "Prepare" /\ ~CallProvider(h))
  <1> DEFINE s == authHandler[h]
             rows == DOMAIN authorization
  <1>1. s.at # "Idle"
    BY DEF ExecutionStep, ExpireFound, ClaimAuthorization, CallProvider, PrepareFails,
           ReleaseAuthorization, ConsumeAuthorization, MarkAuthorizationUnknown, Executing,
           ExecutionStops
  <1>2. s \in [at: {"Expire", "Claim", "Prepare", "Release", "Called"}, auth: rows]
    BY <1>1, HandlerFacts
  <1>3. NoExecution \in HandlerState(rows) /\ NoExecution.at = "Idle" /\ "Idle" \notin Claimed
    BY DEF HandlerState, NoExecution, Claimed
  <1>4. \A at \in Claimed :
          /\ [s EXCEPT !.at = at] \in HandlerState(rows)
          /\ [s EXCEPT !.at = at].at = at /\ [s EXCEPT !.at = at].auth = On(h)
    BY <1>2 DEF HandlerState, Claimed, On
  <1>5. CASE ToHandler(h, NoExecution)
    BY <1>1, <1>3, <1>5 DEF ToHandler
  <1>6. CASE ClaimAuthorization(h) /\ ~ToHandler(h, NoExecution)
    BY <1>1, <1>4, <1>6 DEF ClaimAuthorization, ToHandler, Claimed
  <1>7. CASE CallProvider(h)
    BY <1>1, <1>4, <1>7 DEF CallProvider, ToHandler, Claimed, Executing
  <1>8. CASE PrepareFails(h)
    <2>1. ToHandler(h, [s EXCEPT !.at = "Release"]) /\ s.at = "Prepare"
      BY <1>8 DEF PrepareFails, Executing
    <2>2. ~CallProvider(h)
      <3>1. authHandler'[h].at = "Release"
        BY <1>4, <2>1, AuthTypeParts DEF ToHandler, Claimed
      <3>2. CallProvider(h) => authHandler'[h].at = "Called"
        BY <1>4, AuthTypeParts DEF CallProvider, ToHandler, Claimed
      <3>3. QED
        BY <3>1, <3>2
    <2>3. QED
      BY <1>1, <1>4, <2>1, <2>2 DEF ToHandler, Claimed
  <1>9. QED
    BY <1>5, <1>6, <1>7, <1>8
       DEF ExecutionStep, ExecutionStops, ExpireFound, ReleaseAuthorization, ConsumeAuthorization,
           MarkAuthorizationUnknown

-----------------------------------------------------------------------------
(* Claims. *)

(* A claimed authorization is not usable, and before the call it has none. *)
Held(h) ==
  authHandler[h].at \in Claimed =>
    /\ authorization[On(h)].status # "ISSUED"
    /\ authHandler[h].at \in {"Prepare", "Release"} => authorization[On(h)].calls = 0

ClaimsInv ==
  /\ AuthTypeOK /\ ClaimedByOne /\ OneCallPerAuthorization
  /\ \A h \in AuthHandlers : Held(h)

(* Rows change under executions that do not move. *)
LEMMA ClaimsKept ==
  ASSUME ClaimsInv, authHandler' = authHandler,
         \A i \in DOMAIN authorization :
           /\ i \in DOMAIN authorization' /\ authorization'[i].calls = authorization[i].calls
           /\ authorization'[i].status = "ISSUED" => authorization[i].status = "ISSUED",
         \A i \in DOMAIN authorization' \ DOMAIN authorization : authorization'[i].calls = 0
  PROVE  ClaimedByOne' /\ OneCallPerAuthorization' /\ \A h \in AuthHandlers : Held(h)'
  <1>1. ClaimedByOne'
    BY DEF ClaimsInv, ClaimedByOne, On
  <1>2. OneCallPerAuthorization'
    BY DEF ClaimsInv, OneCallPerAuthorization
  <1>3. ASSUME NEW h \in AuthHandlers
        PROVE  Held(h)'
    <2>1. authHandler[h].at \in Claimed => On(h) \in DOMAIN authorization /\ On(h)' = On(h)
      BY HandlerFacts DEF ClaimsInv, Claimed, On
    <2>2. QED
      BY <2>1 DEF ClaimsInv, Held
  <1>4. QED
    BY <1>1, <1>2, <1>3

LEMMA ClaimsExecution ==
  ASSUME ClaimsInv, NEW h \in AuthHandlers, ExecutionStep(h) \/ ExecutionStops(h),
         RowsStep(IF authHandler[h].at = "Release" THEN {On(h)} ELSE {}),
         CallProvider(h) \/ CallsKept
  PROVE  ClaimedByOne' /\ OneCallPerAuthorization' /\ \A g \in AuthHandlers : Held(g)'
  <1>1. AuthTypeOK /\ authHandler \in [AuthHandlers -> HandlerState(DOMAIN authorization)]
    BY AuthTypeParts DEF ClaimsInv
  <1>2. PICK state \in HandlerState(DOMAIN authorization) :
           /\ authHandler' = [authHandler EXCEPT ![h] = state]
           /\ authHandler[h].at # "Idle"
           /\ state.at \in Claimed => /\ state.auth = On(h)
                                     /\ \/ authHandler[h].at \in Claimed
                                        \/ state.at = "Prepare" /\ ClaimAuthorization(h) /\ Claimable(On(h))
           /\ state.at \in {"Prepare", "Release"} =>
                ClaimAuthorization(h) \/ (authHandler[h].at = "Prepare" /\ ~CallProvider(h))
    BY <1>1, ExecutionMoves
  <1>3. /\ authHandler'[h] = state
        /\ \A g \in AuthHandlers \ {h} : authHandler'[g] = authHandler[g]
    BY <1>1, <1>2
  <1>4. On(h) \in DOMAIN authorization
    BY <1>1, <1>2, HandlerFacts
  <1>5. \A g \in AuthHandlers \ {h} : authHandler[g].at \in Claimed => On(g) \in DOMAIN authorization
    BY <1>1, HandlerFacts DEF Claimed
  <1>6. ClaimedByOne'
    <2>1. ASSUME NEW g \in AuthHandlers \ {h}, authHandler[g].at \in Claimed,
                 state.at \in Claimed, authHandler[g].auth = state.auth
          PROVE  FALSE
      <3>1. On(g) = On(h)
        BY <1>2, <2>1 DEF On
      <3>2. CASE authHandler[h].at \in Claimed
        BY <2>1, <3>1, <3>2 DEF ClaimsInv, ClaimedByOne
      <3>3. CASE Claimable(On(h))
        BY <2>1, <3>1, <3>3 DEF ClaimsInv, Held, Claimable
      <3>4. QED
        BY <1>2, <2>1, <3>2, <3>3
    <2>2. QED
      BY <1>3, <2>1 DEF ClaimsInv, ClaimedByOne, On
  <1>7. \A i \in DOMAIN authorization :
          authorization'[i].status = "ISSUED" =>
            \/ authorization[i].status = "ISSUED"
            \/ authHandler[h].at = "Release" /\ i = On(h)
    BY DEF RowsStep
  <1>8. CallProvider(h) =>
          /\ authHandler[h].at = "Prepare"
          /\ authorization'[On(h)].calls = authorization[On(h)].calls + 1
          /\ authorization'[On(h)].status = authorization[On(h)].status
          /\ \A i \in DOMAIN authorization \ {On(h)} : authorization'[i] = authorization[i]
    <2>1. authorization[On(h)] \in Authorization
      BY <1>1, <1>4, RowFacts
    <2>2. QED
      BY <1>4, <2>1 DEF CallProvider, Executing, Authorization
  <1>9. OneCallPerAuthorization'
    <2>1. SUFFICES ASSUME NEW i \in DOMAIN authorization
                   PROVE  /\ authorization'[i].calls <= 1
                          /\ authorization'[i].calls = 1 => authorization'[i].status # "ISSUED"
      BY DEF RowsStep, OneCallPerAuthorization
    <2>2. /\ authorization[i].calls <= 1
          /\ authorization[i].calls = 1 => authorization[i].status # "ISSUED"
      BY DEF ClaimsInv, OneCallPerAuthorization
    <2>3. CASE CallProvider(h)
      BY <1>8, <2>2, <2>3 DEF ClaimsInv, Held, Claimed
    <2>4. CASE CallsKept
      BY <1>7, <2>2, <2>4 DEF CallsKept, ClaimsInv, Held, Claimed
    <2>5. QED
      BY <2>3, <2>4
  <1>10. ASSUME NEW g \in AuthHandlers \ {h}
         PROVE  Held(g)'
    <2>1. SUFFICES ASSUME authHandler[g].at \in Claimed
                   PROVE  /\ authorization'[On(g)].status # "ISSUED"
                          /\ authHandler[g].at \in {"Prepare", "Release"} => authorization'[On(g)].calls = 0
      BY <1>3 DEF Held, On
    <2>2. On(g) \in DOMAIN authorization
      BY <1>5, <2>1
    <2>3. authHandler[h].at \in Claimed => On(g) # On(h)
      BY <2>1 DEF ClaimsInv, ClaimedByOne
    <2>4. authorization'[On(g)].status # "ISSUED"
      BY <1>7, <2>1, <2>2, <2>3 DEF ClaimsInv, Held, Claimed
    <2>5. authorization'[On(g)].calls = authorization[On(g)].calls
      BY <1>8, <2>2, <2>3 DEF CallsKept, Claimed
    <2>6. QED
      BY <2>1, <2>4, <2>5 DEF ClaimsInv, Held
  <1>11. Held(h)'
    <2>1. SUFFICES ASSUME state.at \in Claimed
                   PROVE  /\ authorization'[On(h)].status # "ISSUED"
                          /\ state.at \in {"Prepare", "Release"} => authorization'[On(h)].calls = 0
      BY <1>2, <1>3 DEF Held, On
    <2>2. CASE authHandler[h].at \in Claimed
      <3>1. authHandler[h].at # "Release"
        BY <1>2, <1>3, <2>1
           DEF ExecutionStep, ExpireFound, ClaimAuthorization, CallProvider, PrepareFails,
               ReleaseAuthorization, ConsumeAuthorization, MarkAuthorizationUnknown, Executing,
               ExecutionStops, ToHandler, NoExecution, Claimed
      <3>2. authorization'[On(h)].status # "ISSUED"
        BY <1>4, <1>7, <2>2, <3>1 DEF ClaimsInv, Held
      <3>3. ASSUME state.at \in {"Prepare", "Release"}
            PROVE  authorization'[On(h)].calls = 0
        BY <1>2, <1>4, <2>2, <3>3 DEF ClaimsInv, Held, CallsKept, ClaimAuthorization, Executing, Claimed
      <3>4. QED
        BY <3>2, <3>3
    <2>3. CASE state.at = "Prepare" /\ ClaimAuthorization(h) /\ Claimable(On(h))
      <3>1. authorization[On(h)] \in Authorization
        BY <1>1, <1>4, RowFacts
      <3>2. authorization' = [authorization EXCEPT ![On(h)].status = "CONSUMING"]
        BY <2>3 DEF ClaimAuthorization
      <3>3. authorization'[On(h)].status = "CONSUMING"
              /\ authorization'[On(h)].calls = authorization[On(h)].calls
        BY <1>4, <3>1, <3>2 DEF Authorization
      <3>4. authorization[On(h)].calls = 0
        BY <1>4, <2>3, <3>1 DEF ClaimsInv, OneCallPerAuthorization, Claimable, Authorization
      <3>5. QED
        BY <3>3, <3>4
    <2>4. QED
      BY <1>2, <2>1, <2>2, <2>3
  <1>12. QED
    BY <1>6, <1>9, <1>10, <1>11

-----------------------------------------------------------------------------
(* The steps of the requests for an OTP, of time and of the timer. *)

LEMMA LapseRows ==
  ASSUME AuthTypeOK, NEW n \in DOMAIN authorization, AuthLapses(n)
  PROVE  RowsStep({}) /\ CallsKept
  <1> DEFINE new == [authorization[n] EXCEPT !.lapsed = TRUE]
  <1>1. /\ new.status = authorization[n].status /\ new.calls = authorization[n].calls
        /\ Updated(authorization[n], new)
    BY RowFacts DEF Authorization, Updated
  <1>2. authorization' = [authorization EXCEPT ![n] = new]
    BY DEF AuthLapses
  <1> HIDE DEF new
  <1>3. QED
    BY <1>1, <1>2, OneRow

LEMMA TimerRows ==
  ASSUME AuthTypeOK, CleanupExpiredAuthorizations
  PROVE  RowsStep({}) /\ CallsKept
  <1>1. PICK S \in SUBSET DOMAIN authorization : \A i \in DOMAIN authorization : i \in S <=> Stale(i)
    <2>1. {i \in DOMAIN authorization : Stale(i)} \in SUBSET DOMAIN authorization
      OBVIOUS
    <2>2. QED
      BY <2>1
  <1>2. authorization' = [i \in DOMAIN authorization |->
          IF i \in S THEN [authorization[i] EXCEPT !.status = "EXPIRED"] ELSE authorization[i]]
    BY <1>1 DEF CleanupExpiredAuthorizations
  <1>3. QED
    BY <1>2, SomeRows

LEMMA PreviousRows ==
  ASSUME AuthTypeOK, NEW s \in AuthSenders, ExpirePreviousIssued(s)
  PROVE  /\ RowsStep({}) /\ CallsKept
         /\ \A i \in DOMAIN authorization :
              authorization'[i].type = "CASH_WITHDRAWAL" => authorization'[i].status # "ISSUED"
  <1>1. PICK S \in SUBSET DOMAIN authorization :
          \A i \in DOMAIN authorization : i \in S <=> authorization[i].status = "ISSUED" /\ Previous(i)
    <2>1. {i \in DOMAIN authorization : authorization[i].status = "ISSUED" /\ Previous(i)}
            \in SUBSET DOMAIN authorization
      OBVIOUS
    <2>2. QED
      BY <2>1
  <1>2. authorization' = [i \in DOMAIN authorization |->
          IF i \in S THEN [authorization[i] EXCEPT !.status = "EXPIRED"] ELSE authorization[i]]
    BY <1>1 DEF ExpirePreviousIssued
  <1>3. /\ RowsStep({}) /\ CallsKept
        /\ \A i \in S : authorization'[i].status = "EXPIRED"
        /\ \A i \in DOMAIN authorization \ S : authorization'[i] = authorization[i]
    BY <1>2, SomeRows
  <1>4. \A i \in DOMAIN authorization : authorization'[i].type = authorization[i].type
    BY <1>3 DEF RowsStep, Updated
  <1>5. QED
    BY <1>1, <1>3, <1>4 DEF Previous

(* The steps that leave the executions alone, but for the one that adds. *)
Background(s) ==
  \/ SendTxnOtp(s) \/ ExpirePreviousIssued(s) \/ SendingFails(s)
  \/ CleanupExpiredAuthorizations \/ \E i \in DOMAIN authorization : AuthLapses(i)

LEMMA BackgroundRows ==
  ASSUME AuthTypeOK, NEW s \in AuthSenders, Background(s)
  PROVE  RowsStep({}) /\ CallsKept /\ authHandler' = authHandler
  <1>1. CASE SendTxnOtp(s) \/ SendingFails(s)
    BY <1>1, UnchangedRows DEF SendTxnOtp, SendingFails
  <1>2. CASE ExpirePreviousIssued(s)
    BY <1>2, PreviousRows DEF ExpirePreviousIssued
  <1>3. CASE CleanupExpiredAuthorizations
    BY <1>3, TimerRows DEF CleanupExpiredAuthorizations
  <1>4. CASE \E i \in DOMAIN authorization : AuthLapses(i)
    BY <1>4, LapseRows DEF AuthLapses
  <1>5. QED
    BY <1>1, <1>2, <1>3, <1>4 DEF Background

LEMMA SenderTypes ==
  ASSUME AuthTypeOK, NEW s \in AuthSenders,
         SendTxnOtp(s) \/ ExpirePreviousIssued(s) \/ CreateAuthorization(s) \/ SendingFails(s)
  PROVE  authSender' \in [AuthSenders -> SenderState] /\ authOverlap' \in BOOLEAN
  <1>1. authSender \in [AuthSenders -> SenderState] /\ authOverlap \in BOOLEAN
    BY AuthTypeParts
  <1>2. \A type \in AuthTypes, at \in {"ExpirePrevious", "Create"} :
          [at |-> at, type |-> type] \in SenderState
    BY DEF SenderState
  <1>3. NoSending \in SenderState
    BY DEF SenderState
  <1>4. CASE SendTxnOtp(s)
    BY <1>1, <1>2, <1>4 DEF SendTxnOtp, ToSender
  <1>5. CASE ExpirePreviousIssued(s)
    <2>1. authSender[s] \in [at: {"ExpirePrevious", "Create"}, type: AuthTypes]
      BY <1>1, <1>5 DEF ExpirePreviousIssued, SenderState, NoSending
    <2>2. [authSender[s] EXCEPT !.at = "Create"] \in SenderState
      BY <2>1 DEF SenderState
    <2>3. QED
      BY <1>1, <1>5, <2>2 DEF ExpirePreviousIssued, ToSender
  <1>6. CASE CreateAuthorization(s) \/ SendingFails(s)
    BY <1>1, <1>3, <1>6 DEF CreateAuthorization, SendingFails, ToSender
  <1>7. QED
    BY <1>4, <1>5, <1>6

-----------------------------------------------------------------------------
(* The invariant of the claims. *)

LEMMA ClaimsStep ==
  ASSUME ClaimsInv, [AuthNext]_authVars
  PROVE  ClaimsInv'
  <1>1. /\ AuthTypeOK
        /\ authorization \in Seq(Authorization)
        /\ authSender \in [AuthSenders -> SenderState]
        /\ authHandler \in [AuthHandlers -> HandlerState(DOMAIN authorization)]
        /\ authOverlap \in BOOLEAN
    BY AuthTypeParts DEF ClaimsInv
  <1>2. AuthTypeOK' <=> /\ authorization' \in Seq(Authorization)
                        /\ authSender' \in [AuthSenders -> SenderState]
                        /\ authHandler' \in [AuthHandlers -> HandlerState(DOMAIN authorization')]
                        /\ authOverlap' \in BOOLEAN
    BY DEF AuthTypeOK, SenderState, HandlerState
  <1>3. ASSUME RowsStep({}), CallsKept, authHandler' = authHandler,
               authSender' \in [AuthSenders -> SenderState], authOverlap' \in BOOLEAN
        PROVE  ClaimsInv'
    <2>1. AuthTypeOK'
      BY <1>1, <1>2, <1>3 DEF RowsStep
    <2>2. ClaimedByOne' /\ OneCallPerAuthorization' /\ \A h \in AuthHandlers : Held(h)'
      BY <1>3, ClaimsKept DEF RowsStep, CallsKept
    <2>3. QED
      BY <2>1, <2>2 DEF ClaimsInv
  <1>4. CASE UNCHANGED authVars
    BY <1>1, <1>3, <1>4, UnchangedRows DEF authVars
  <1>5. ASSUME NEW s \in AuthSenders, Background(s)
        PROVE  ClaimsInv'
    BY <1>1, <1>3, <1>5, BackgroundRows, SenderTypes
       DEF Background, CleanupExpiredAuthorizations, AuthLapses
  <1>6. CASE CleanupExpiredAuthorizations
    BY <1>1, <1>3, <1>6, TimerRows DEF CleanupExpiredAuthorizations
  <1>7. CASE \E i \in DOMAIN authorization : AuthLapses(i)
    BY <1>1, <1>3, <1>7, LapseRows DEF AuthLapses
  <1>8. ASSUME NEW s \in AuthSenders, CreateAuthorization(s)
        PROVE  ClaimsInv'
    <2> DEFINE n == Len(authorization) + 1
    <2>1. /\ authorization' \in Seq(Authorization)
          /\ n \notin DOMAIN authorization
          /\ DOMAIN authorization' = DOMAIN authorization \cup {n}
          /\ authorization'[n] = NewRow(authSender[s].type)
          /\ \A i \in DOMAIN authorization : authorization'[i] = authorization[i]
      BY <1>1, <1>8, AddedRow
    <2>2. HandlerState(DOMAIN authorization) \subseteq HandlerState(DOMAIN authorization')
      BY <2>1 DEF HandlerState
    <2>3. authHandler' = authHandler /\ authHandler' \in [AuthHandlers -> HandlerState(DOMAIN authorization')]
      BY <1>1, <1>8, <2>2 DEF CreateAuthorization
    <2>4. AuthTypeOK'
      BY <1>1, <1>2, <1>8, <2>1, <2>3, SenderTypes
    <2>5. authorization'[n].calls = 0
      BY <2>1 DEF NewRow
    <2>6. ClaimedByOne' /\ OneCallPerAuthorization' /\ \A h \in AuthHandlers : Held(h)'
      BY <2>1, <2>3, <2>5, ClaimsKept
    <2>7. QED
      BY <2>4, <2>6 DEF ClaimsInv
  <1>9. ASSUME NEW h \in AuthHandlers, ExecutionStep(h) \/ ExecutionStops(h)
        PROVE  ClaimsInv'
    <2>1. /\ RowsStep(IF authHandler[h].at = "Release" THEN {On(h)} ELSE {})
          /\ CallProvider(h) \/ CallsKept
      <3>1. CASE ExecutionStep(h)
        BY <1>1, <3>1, ExecutionRows
      <3>2. CASE ExecutionStops(h)
        BY <1>1, <3>2, UnchangedRows DEF ExecutionStops, RowsStep
      <3>3. QED
        BY <1>9, <3>1, <3>2
    <2>2. ClaimedByOne' /\ OneCallPerAuthorization' /\ \A g \in AuthHandlers : Held(g)'
      BY <1>9, <2>1, ClaimsExecution
    <2>3. UNCHANGED <<authSender, authOverlap>>
      BY <1>9 DEF ExecutionStep, ExecutionStops, ExpireFound, ClaimAuthorization, CallProvider,
                  PrepareFails, ReleaseAuthorization, ConsumeAuthorization,
                  MarkAuthorizationUnknown, Executing
    <2>4. authHandler' \in [AuthHandlers -> HandlerState(DOMAIN authorization)]
      BY <1>1, <1>9, ExecutionMoves
    <2>5. QED
      BY <1>1, <1>2, <2>1, <2>2, <2>3, <2>4 DEF ClaimsInv, RowsStep
  <1>10. ASSUME NEW h \in AuthHandlers, FindAuthorization(h)
         PROVE  ClaimsInv'
    <2>1. PICK i \in DOMAIN authorization, at \in {"Expire", "Claim"} :
            authHandler' = [authHandler EXCEPT ![h] = [at |-> at, auth |-> i]]
      BY <1>10 DEF FindAuthorization, ToHandler
    <2>2. authHandler[h].at = "Idle" /\ UNCHANGED <<authorization, authSender, authOverlap>>
      BY <1>10 DEF FindAuthorization, Executing
    <2>3. [at |-> at, auth |-> i] \in HandlerState(DOMAIN authorization) /\ at \notin Claimed
      BY <2>1 DEF HandlerState, Claimed
    <2>4. AuthTypeOK'
      BY <1>1, <1>2, <2>1, <2>2, <2>3
    <2>5. /\ authHandler'[h].at \notin Claimed
          /\ \A g \in AuthHandlers \ {h} : authHandler'[g] = authHandler[g]
      BY <1>1, <2>1, <2>3
    <2>6. ClaimedByOne' /\ OneCallPerAuthorization' /\ \A g \in AuthHandlers : Held(g)'
      BY <2>2, <2>5 DEF ClaimsInv, ClaimedByOne, OneCallPerAuthorization, Held, On
    <2>7. QED
      BY <2>4, <2>6 DEF ClaimsInv
  <1>11. QED
    BY <1>4, <1>5, <1>6, <1>7, <1>8, <1>9, <1>10 DEF AuthNext, Background

LEMMA ClaimsInvariant == AuthSpec => []ClaimsInv
  <1>1. AuthInit => ClaimsInv
    <2> SUFFICES ASSUME AuthInit PROVE ClaimsInv
      OBVIOUS
    <2>1. << >> \in Seq(Authorization) /\ NoSending \in SenderState
            /\ NoExecution \in HandlerState(DOMAIN << >>)
      BY DEF SenderState, HandlerState
    <2>2. AuthTypeOK
      BY <2>1, AuthTypeParts DEF AuthInit
    <2>3. \A h \in AuthHandlers : authHandler[h].at \notin Claimed
      BY DEF AuthInit, NoExecution, Claimed
    <2>4. DOMAIN authorization = {}
      BY DEF AuthInit
    <2>5. QED
      BY <2>2, <2>3, <2>4 DEF ClaimsInv, ClaimedByOne, OneCallPerAuthorization, Held
  <1>2. QED
    BY <1>1, ClaimsStep, PTL DEF AuthSpec

(* AuthTypeOK: executions refer to authorizations that exist. *)
THEOREM AuthTypeCorrect == AuthSpec => []AuthTypeOK
  BY ClaimsInvariant, PTL DEF ClaimsInv

(* ClaimedByOne: an authorization is claimed by one execution at a time. *)
THEOREM ClaimIsExclusive == AuthSpec => []ClaimedByOne
  BY ClaimsInvariant, PTL DEF ClaimsInv

(* OneCallPerAuthorization: an OTP is used for one provider call, and is    *)
(* never usable again after it, for any number of concurrent executions.    *)
THEOREM OneOtpOneCall == AuthSpec => []OneCallPerAuthorization
  BY ClaimsInvariant, PTL DEF ClaimsInv

-----------------------------------------------------------------------------
(* The newest authorization.  Between the two queries of a request for an   *)
(* OTP nothing but a claim that is given back makes an older one usable.    *)

Replaced ==
  \A i \in DOMAIN authorization :
    authorization[i].type = "CASH_WITHDRAWAL" /\ authorization[i].status = "ISSUED"
      => authorization[i].released

NewestInv ==
  /\ ClaimsInv /\ OnlyNewestUsable
  /\ ~authOverlap =>
       /\ \A s, t \in AuthSenders : authSender[s].at # "Idle" /\ authSender[t].at # "Idle" => s = t
       /\ \A s \in AuthSenders :
            authSender[s].at = "Create" /\ authSender[s].type = "CASH_WITHDRAWAL" => Replaced

LEMMA RowsKeepReplaced ==
  ASSUME NEW back, RowsStep(back)
  PROVE  /\ Replaced => Replaced'
         /\ authOverlap' = authOverlap /\ OnlyNewestUsable => OnlyNewestUsable'
  <1>1. Replaced => Replaced'
    BY DEF RowsStep, Updated, Replaced
  <1>2. authOverlap' = authOverlap /\ OnlyNewestUsable => OnlyNewestUsable'
    BY DEF RowsStep, Updated, OnlyNewestUsable
  <1>3. QED
    BY <1>1, <1>2

LEMMA NewestStep ==
  ASSUME NewestInv, ClaimsInv', [AuthNext]_authVars
  PROVE  NewestInv'
  <1>1. AuthTypeOK /\ authSender \in [AuthSenders -> SenderState] /\ authOverlap \in BOOLEAN
    BY AuthTypeParts DEF NewestInv, ClaimsInv
  <1>2. ASSUME NEW back, RowsStep(back), UNCHANGED <<authSender, authOverlap>>
        PROVE  NewestInv'
    BY <1>2, RowsKeepReplaced DEF NewestInv
  <1>3. CASE UNCHANGED authVars
    BY <1>1, <1>2, <1>3, UnchangedRows DEF authVars
  <1>4. CASE CleanupExpiredAuthorizations
    BY <1>1, <1>2, <1>4, TimerRows DEF CleanupExpiredAuthorizations
  <1>5. CASE \E i \in DOMAIN authorization : AuthLapses(i)
    BY <1>1, <1>2, <1>5, LapseRows DEF AuthLapses
  <1>6. ASSUME NEW h \in AuthHandlers, ExecutionStep(h)
        PROVE  NewestInv'
    BY <1>1, <1>2, <1>6, ExecutionRows
       DEF ExecutionStep, ExpireFound, ClaimAuthorization, CallProvider, PrepareFails,
           ReleaseAuthorization, ConsumeAuthorization, MarkAuthorizationUnknown, Executing
  <1>7. ASSUME NEW h \in AuthHandlers, FindAuthorization(h) \/ ExecutionStops(h)
        PROVE  NewestInv'
    BY <1>1, <1>2, <1>7, UnchangedRows DEF FindAuthorization, ExecutionStops, Executing
  <1>8. ASSUME NEW s \in AuthSenders, SendTxnOtp(s)
        PROVE  NewestInv'
    <2>1. /\ authorization' = authorization
          /\ ~authOverlap' => ~authOverlap /\ \A t \in AuthSenders : authSender[t].at = "Idle"
      BY <1>1, <1>8 DEF SendTxnOtp
    <2>2. PICK type \in AuthTypes :
            authSender' = [authSender EXCEPT ![s] =
              [at |-> IF type = "CASH_WITHDRAWAL" THEN "ExpirePrevious" ELSE "Create", type |-> type]]
      BY <1>8 DEF SendTxnOtp, ToSender
    <2>3. /\ \A t \in AuthSenders \ {s} : authSender'[t] = authSender[t]
          /\ authSender'[s].at = "Create" => authSender'[s].type # "CASH_WITHDRAWAL"
      BY <1>1, <2>2
    <2>4. OnlyNewestUsable'
      BY <2>1 DEF NewestInv, OnlyNewestUsable
    <2>5. QED
      BY <2>1, <2>3, <2>4 DEF NewestInv
  <1>9. ASSUME NEW s \in AuthSenders, ExpirePreviousIssued(s)
        PROVE  NewestInv'
    <2>1. RowsStep({}) /\ authOverlap' = authOverlap
      BY <1>1, <1>9, PreviousRows DEF ExpirePreviousIssued
    <2>2. Replaced'
      BY <1>1, <1>9, <2>1, PreviousRows DEF Replaced, RowsStep
    <2>3. OnlyNewestUsable'
      BY <2>1, RowsKeepReplaced DEF NewestInv
    <2>4. \A t \in AuthSenders \ {s} : authSender'[t] = authSender[t]
      BY <1>1, <1>9 DEF ExpirePreviousIssued, ToSender
    <2>5. authSender[s].at # "Idle"
      BY <1>9 DEF ExpirePreviousIssued
    <2>6. QED
      BY <2>1, <2>2, <2>3, <2>4, <2>5 DEF NewestInv
  <1>10. ASSUME NEW s \in AuthSenders, SendingFails(s)
         PROVE  NewestInv'
    <2>1. /\ authorization' = authorization /\ authOverlap' = authOverlap
          /\ authSender'[s].at = "Idle"
          /\ \A t \in AuthSenders \ {s} : authSender'[t] = authSender[t]
      BY <1>1, <1>10 DEF SendingFails, ToSender, NoSending
    <2>2. Replaced' = Replaced /\ OnlyNewestUsable' = OnlyNewestUsable
      BY <2>1 DEF Replaced, OnlyNewestUsable
    <2>3. QED
      BY <2>1, <2>2 DEF NewestInv
  <1>11. ASSUME NEW s \in AuthSenders, CreateAuthorization(s)
         PROVE  NewestInv'
    <2> DEFINE n == Len(authorization) + 1
    <2>1. /\ n \notin DOMAIN authorization
          /\ DOMAIN authorization' = DOMAIN authorization \cup {n}
          /\ authorization'[n] = NewRow(authSender[s].type)
          /\ \A i \in DOMAIN authorization : i < n /\ authorization'[i] = authorization[i]
      BY <1>1, <1>11, AddedRow
    <2>2. /\ authOverlap' = authOverlap /\ authSender[s].at = "Create"
          /\ authSender'[s].at = "Idle"
          /\ \A t \in AuthSenders \ {s} : authSender'[t] = authSender[t]
      BY <1>1, <1>11 DEF CreateAuthorization, ToSender, NoSending
    <2>3. ~authOverlap' => \A t \in AuthSenders : authSender'[t].at = "Idle"
      BY <2>2 DEF NewestInv
    <2>4. ASSUME ~authOverlap', NEW i \in DOMAIN authorization', NEW j \in DOMAIN authorization',
                 i < j, authorization'[j].type = "CASH_WITHDRAWAL",
                 authorization'[i].type = "CASH_WITHDRAWAL", authorization'[i].status = "ISSUED"
          PROVE  authorization'[i].released
      <3>1. i \in DOMAIN authorization
        <4>1. i \in Nat /\ j \in Nat /\ n \in Nat
          BY <2>1, RowFacts, AuthTypeParts, <1>1
        <4>2. i # n
          BY <2>1, <2>4, <4>1
        <4>3. QED
          BY <2>1, <4>2
      <3>2. CASE j \in DOMAIN authorization
        BY <2>1, <2>2, <2>4, <3>1, <3>2 DEF NewestInv, OnlyNewestUsable
      <3>3. CASE j = n
        <4>1. authSender[s].type = "CASH_WITHDRAWAL"
          BY <2>1, <2>4, <3>3 DEF NewRow
        <4>2. Replaced
          BY <2>2, <2>4, <4>1 DEF NewestInv
        <4>3. QED
          BY <2>1, <2>4, <3>1, <4>2 DEF Replaced
      <3>4. QED
        BY <2>1, <3>2, <3>3
    <2>5. OnlyNewestUsable'
      BY <2>4 DEF OnlyNewestUsable
    <2>6. QED
      BY <2>3, <2>5 DEF NewestInv
  <1>12. QED
    BY <1>3, <1>4, <1>5, <1>6, <1>7, <1>8, <1>9, <1>10, <1>11 DEF AuthNext

(* OnlyNewestUsable: without overlapping requests for an OTP, an older      *)
(* authorization is usable only when a claim of it was given back.          *)
THEOREM NewestIsUsable == AuthSpec => []OnlyNewestUsable
  <1>1. AuthInit /\ ClaimsInv => NewestInv
    <2> SUFFICES ASSUME AuthInit, ClaimsInv PROVE NewestInv
      OBVIOUS
    <2>1. DOMAIN authorization = {} /\ \A s \in AuthSenders : authSender[s].at = "Idle"
      BY DEF AuthInit, NoSending
    <2>2. QED
      BY <2>1 DEF NewestInv, OnlyNewestUsable
  <1>2. QED
    BY <1>1, NewestStep, ClaimsInvariant, PTL DEF AuthSpec, NewestInv

-----------------------------------------------------------------------------
(* Sessions.  A row keeps what has happened to it: it stays revoked, its    *)
(* revocation stays flushed and its token is never rotated back.            *)

Onward(old, new) ==
  /\ new \in Session
  /\ old.revoked => new.revoked
  /\ old.flushed => new.flushed
  /\ old.token <= new.token

SessionsGrow ==
  /\ session' \in Seq(Session) /\ Len(session') <= MaxSessions
  /\ DOMAIN session \subseteq DOMAIN session'
  /\ \A s \in DOMAIN session : Onward(session[s], session'[s])

(* No revocation is flushed by the step. *)
NoneFlushed ==
  \A s \in DOMAIN session' : session'[s].flushed => s \in DOMAIN session /\ session[s].flushed

LEMMA PasswordNat == SessionTypeOK => password \in Nat /\ password + 1 \in Nat
  BY DEF SessionTypeOK

LEMMA SessionRow ==
  ASSUME SessionTypeOK, NEW s \in DOMAIN session
  PROVE  session[s] \in Session /\ s \in SessionIds /\ Onward(session[s], session[s])
  <1>1. session \in Seq(Session) /\ Len(session) <= MaxSessions
    BY DEF SessionTypeOK
  <1>2. session[s] \in Session /\ s \in Nat /\ 1 <= s /\ s <= Len(session) /\ Len(session) \in Nat
    BY <1>1
  <1>3. s \in SessionIds
    BY <1>1, <1>2, SessionAssumption DEF SessionIds
  <1> QED
    BY <1>2, <1>3 DEF Onward, Session

LEMMA SessionsKept ==
  ASSUME SessionTypeOK, session' = session
  PROVE  SessionsGrow /\ NoneFlushed
  BY SessionRow DEF SessionsGrow, NoneFlushed, SessionTypeOK

LEMMA SessionsUpdated ==
  ASSUME SessionTypeOK, session' = [s \in DOMAIN session |-> session'[s]],
         \A s \in DOMAIN session : Onward(session[s], session'[s])
  PROVE  SessionsGrow /\ DOMAIN session' = DOMAIN session
  <1>1. session \in Seq(Session) /\ Len(session) <= MaxSessions
    BY DEF SessionTypeOK
  <1>2. PICK n \in Nat : DOMAIN session = 1 .. n /\ n = Len(session)
    BY <1>1
  <1>3. session' \in [1 .. n -> Session]
    BY <1>2 DEF Onward
  <1>4. session' \in Seq(Session) /\ DOMAIN session' = 1 .. n /\ Len(session') = n
    BY <1>2, <1>3
  <1> QED
    BY <1>1, <1>2, <1>4 DEF SessionsGrow

(* What each kind of step does to the rows. *)
LEMMA CreateRow ==
  ASSUME SessionTypeOK, CreateSession
  PROVE  SessionsGrow /\ NoneFlushed
  <1> DEFINE row == [revoked |-> FALSE, token |-> 0, authenticated |-> login.password,
                     raced |-> login.password # password, flushed |-> FALSE]
  <1>1. session \in Seq(Session) /\ Len(session) < MaxSessions /\ session' = Append(session, row)
    BY DEF SessionTypeOK, CreateSession
  <1>2. login.password \in Nat
    BY DEF SessionTypeOK, CreateSession, NoLogin
  <1>3. row \in Session /\ ~row.flushed
    BY <1>2 DEF Session
  <1> HIDE DEF row
  <1>4. /\ session' \in Seq(Session) /\ Len(session') = Len(session) + 1
        /\ DOMAIN session' = DOMAIN session \cup {Len(session) + 1}
        /\ session'[Len(session) + 1] = row
        /\ \A s \in DOMAIN session : session'[s] = session[s]
    BY <1>1, <1>3
  <1>5. Len(session') <= MaxSessions
    BY <1>1, <1>4, SessionAssumption
  <1> QED
    BY <1>3, <1>4, <1>5, SessionRow DEF SessionsGrow, NoneFlushed

LEMMA RotateRow ==
  ASSUME SessionTypeOK, NEW s \in DOMAIN session,
         session' = [session EXCEPT ![s].token = @ + 1]
  PROVE  SessionsGrow /\ NoneFlushed /\ session'[s].token = session[s].token + 1
  <1> DEFINE new == [session[s] EXCEPT !.token = session[s].token + 1]
  <1>1. session[s] \in Session /\ session' = [session EXCEPT ![s] = new]
    BY SessionRow
  <1>2. /\ Onward(session[s], new) /\ new.flushed = session[s].flushed
        /\ new.token = session[s].token + 1
    BY <1>1 DEF Onward, Session
  <1> HIDE DEF new
  <1>3. \A t \in DOMAIN session : session'[t] = IF t = s THEN new ELSE session[t]
    BY <1>1
  <1>4. \A t \in DOMAIN session : Onward(session[t], session'[t])
    BY <1>2, <1>3, SessionRow
  <1> QED
    BY <1>1, <1>2, <1>3, <1>4, SessionsUpdated DEF NoneFlushed

(* A revocation, and the new password of the session that changes it. *)
LEMMA RowEdits ==
  ASSUME NEW old \in Session, NEW n \in Nat
  PROVE  /\ Onward(old, old)
         /\ LET new == [old EXCEPT !.revoked = TRUE]
            IN Onward(old, new) /\ new.flushed = old.flushed /\ new.revoked
         /\ LET new == [old EXCEPT !.authenticated = n, !.raced = FALSE]
            IN Onward(old, new) /\ new.flushed = old.flushed
         /\ LET new == [old EXCEPT !.flushed = TRUE]
            IN Onward(old, new) /\ new.revoked = old.revoked
  <1>1. old.token \in Nat /\ Onward(old, old)
    BY DEF Onward, Session
  <1>2. [old EXCEPT !.revoked = TRUE] \in Session
    BY DEF Session
  <1>3. [old EXCEPT !.authenticated = n, !.raced = FALSE] \in Session
    BY DEF Session
  <1>4. [old EXCEPT !.flushed = TRUE] \in Session
    BY DEF Session
  <1> QED BY <1>1, <1>2, <1>3, <1>4 DEF Onward, Session

LEMMA RevokedRows ==
  ASSUME SessionTypeOK, NEW S, NEW T,
         session' = [s \in DOMAIN session |->
           IF s \in S THEN [session[s] EXCEPT !.revoked = TRUE]
           ELSE IF s \in T THEN [session[s] EXCEPT !.authenticated = password + 1, !.raced = FALSE]
           ELSE session[s]]
  PROVE  /\ SessionsGrow /\ NoneFlushed /\ DOMAIN session' = DOMAIN session
         /\ \A s \in S \cap DOMAIN session : session'[s].revoked
  <1>1. password + 1 \in Nat
    BY PasswordNat
  <1>2. ASSUME NEW s \in DOMAIN session
        PROVE  /\ Onward(session[s], session'[s]) /\ session'[s].flushed = session[s].flushed
               /\ s \in S => session'[s].revoked
    <2>1. session[s] \in Session
      BY SessionRow
    <2>2. \/ s \in S /\ session'[s] = [session[s] EXCEPT !.revoked = TRUE]
          \/ s \notin S /\ session'[s] = [session[s] EXCEPT !.authenticated = password + 1, !.raced = FALSE]
          \/ s \notin S /\ session'[s] = session[s]
      OBVIOUS
    <2> QED BY <1>1, <2>1, <2>2, RowEdits
  <1>3. SessionsGrow /\ DOMAIN session' = DOMAIN session
    BY <1>2, SessionsUpdated
  <1> QED
    BY <1>2, <1>3 DEF NoneFlushed

LEMMA FlushedRows ==
  ASSUME SessionTypeOK, NEW S,
         session' = [s \in DOMAIN session |->
           IF s \in S THEN [session[s] EXCEPT !.flushed = TRUE] ELSE session[s]]
  PROVE  /\ SessionsGrow /\ DOMAIN session' = DOMAIN session
         /\ \A s \in DOMAIN session :
              /\ session'[s].revoked = session[s].revoked
              /\ session'[s].flushed => session[s].flushed \/ s \in S
  <1>1. ASSUME NEW s \in DOMAIN session
        PROVE  /\ Onward(session[s], session'[s]) /\ session'[s].revoked = session[s].revoked
               /\ session'[s].flushed => session[s].flushed \/ s \in S
    <2>1. session[s] \in Session
      BY SessionRow
    <2>2. \/ s \in S /\ session'[s] = [session[s] EXCEPT !.flushed = TRUE]
          \/ s \notin S /\ session'[s] = session[s]
      OBVIOUS
    <2> QED BY <2>1, <2>2, RowEdits
  <1> QED
    BY <1>1, SessionsUpdated

-----------------------------------------------------------------------------
(* The steps, by what they change.  Those of the guard leave the sessions   *)
(* and the revocations alone; those of the sessions leave the guard alone.  *)

RevokerState == {IdleRevoker} \cup [at: {"Advance"}, sessions: SUBSET SessionIds]
RefresherState ==
  {IdleRefresher} \cup [at: {"Rotate", "Rotated"}, session: SessionIds, token: Nat]
GuardState ==
  {IdleGuard} \cup
  [at: {"Lookup", "Validate", "Store", "Accepted"}, session: SessionIds,
   version: Versions, valid: BOOLEAN, late: BOOLEAN]

LEMMA SessionStates ==
  SessionTypeOK <=>
    /\ session \in Seq(Session) /\ Len(session) <= MaxSessions
    /\ password \in Nat /\ cacheVersion \in Nat
    /\ login \in {NoLogin} \cup [at: {"Verified"}, password: Nat]
    /\ validation \subseteq (Nat \X SessionIds \X BOOLEAN)
    /\ guard \in [Guards -> GuardState]
    /\ revoker \in [Revokers -> RevokerState]
    /\ refresher \in [Refreshers -> RefresherState]
  BY DEF SessionTypeOK, RevokerState, RefresherState, GuardState

RowStep ==
  \/ Login \/ CreateSession
  \/ \E f \in Refreshers : Refresh(f) \/ RotateRefreshToken(f)

RevokerStep(r) ==
  RevokeSessions(r) \/ ChangePassword(r) \/ ResetPassword(r) \/ AdvanceVersion(r) \/ AdvanceFails(r)

CacheStep ==
  \/ \E g \in Guards : ReadVersion(g) \/ GuardStep(g)
  \/ \E s \in DOMAIN session, version \in 0 .. cacheVersion : ValidationExpires(version, s)

LEMMA SessionSteps ==
  SessionNext <=> RowStep \/ CacheStep \/ \E r \in Revokers : RevokerStep(r)
  BY DEF SessionNext, RowStep, CacheStep, RevokerStep

(* A refresh holds a token that was the session's; once it is exchanged the *)
(* session has a later one.                                                 *)
RefreshInv(f) ==
  LET q == refresher[f]
  IN q.at # "Idle" =>
       /\ q.session \in DOMAIN session
       /\ q.at = "Rotate" => q.token <= session[q.session].token
       /\ q.at = "Rotated" => q.token < session[q.session].token

(* What was flushed was revoked, and so is what a revocation is to flush. *)
RevocationsInv ==
  /\ \A s \in DOMAIN session : session[s].flushed => session[s].revoked
  /\ \A r \in Revokers : revoker[r].at = "Advance" =>
       \A s \in revoker[r].sessions : s \in DOMAIN session /\ session[s].revoked

LEMMA RefresherFacts ==
  ASSUME SessionTypeOK, NEW f \in Refreshers
  PROVE  /\ refresher[f] = IdleRefresher \/
              refresher[f] \in [at: {"Rotate", "Rotated"}, session: SessionIds, token: Nat]
         /\ refresher[f].at \in {"Idle", "Rotate", "Rotated"}
         /\ refresher[f].at # "Idle" =>
              refresher[f] \in [at: {"Rotate", "Rotated"}, session: SessionIds, token: Nat]
  <1>1. refresher[f] \in RefresherState
    BY SessionStates
  <1> QED BY <1>1 DEF RefresherState, IdleRefresher

LEMMA RefreshKept ==
  ASSUME SessionTypeOK, SessionsGrow, NEW f \in Refreshers, RefreshInv(f),
         refresher'[f] = refresher[f]
  PROVE  RefreshInv(f)'
  <1> SUFFICES ASSUME refresher[f].at # "Idle"
               PROVE  /\ refresher[f].session \in DOMAIN session'
                      /\ refresher[f].at = "Rotate" =>
                           refresher[f].token <= session'[refresher[f].session].token
                      /\ refresher[f].at = "Rotated" =>
                           refresher[f].token < session'[refresher[f].session].token
    BY DEF RefreshInv
  <1>1. PICK s \in DOMAIN session : s = refresher[f].session
    BY DEF RefreshInv
  <1>2. refresher[f].token \in Nat /\ session[s].token \in Nat /\ session'[s].token \in Nat
    BY <1>1, RefresherFacts, SessionRow DEF SessionsGrow, Onward, Session
  <1>3. s \in DOMAIN session' /\ session[s].token <= session'[s].token
    BY <1>1 DEF SessionsGrow, Onward
  <1> QED BY <1>1, <1>2, <1>3 DEF RefreshInv

LEMMA RevocationsKept ==
  ASSUME RevocationsInv, SessionsGrow, NoneFlushed, revoker' = revoker
  PROVE  RevocationsInv'
  BY DEF RevocationsInv, SessionsGrow, NoneFlushed, Onward

(* Logins and refreshes. *)
LEMMA RowsStepped ==
  ASSUME SessionTypeOK, \A f \in Refreshers : RefreshInv(f), TokenExchangedOnce, RowStep
  PROVE  /\ SessionTypeOK' /\ SessionsGrow /\ NoneFlushed
         /\ UNCHANGED <<cacheVersion, validation, guard, revoker>>
         /\ TokenExchangedOnce' /\ \A f \in Refreshers : RefreshInv(f)'
<1>1. ASSUME Login \/ CreateSession
      PROVE  /\ SessionsGrow /\ NoneFlushed
             /\ login' \in {NoLogin} \cup [at: {"Verified"}, password: Nat]
             /\ UNCHANGED <<password, cacheVersion, validation, guard, revoker, refresher>>
  <2>1. CASE Login
    BY <2>1, PasswordNat, SessionsKept DEF Login
  <2>2. CASE CreateSession
    BY <2>2, CreateRow DEF CreateSession
  <2> QED BY <1>1, <2>1, <2>2
<1>2. CASE Login \/ CreateSession
  <2>1. SessionTypeOK'
    BY <1>1, <1>2 DEF SessionsGrow, SessionTypeOK
  <2>2. TokenExchangedOnce' /\ \A f \in Refreshers : RefreshInv(f)'
    BY <1>1, <1>2, RefreshKept DEF TokenExchangedOnce
  <2> QED BY <1>1, <1>2, <2>1, <2>2
<1>3. ASSUME NEW f \in Refreshers, NEW state \in RefresherState, SessionsGrow, NoneFlushed,
             refresher' = [refresher EXCEPT ![f] = state],
             UNCHANGED <<password, login, cacheVersion, validation, guard, revoker>>,
             RefreshInv(f)',
             state.at = "Rotated" => \A h \in Refreshers \ {f} :
               refresher[h].at = "Rotated" /\ refresher[h].session = state.session =>
                 refresher[h].token # state.token
      PROVE  /\ SessionTypeOK' /\ TokenExchangedOnce' /\ \A h \in Refreshers : RefreshInv(h)'
  <2>1. /\ refresher' \in [Refreshers -> RefresherState] /\ refresher'[f] = state
        /\ \A h \in Refreshers \ {f} : refresher'[h] = refresher[h]
    BY <1>3, SessionStates
  <2>2. SessionTypeOK'
    BY <1>3, <2>1 DEF SessionsGrow, SessionTypeOK, RefresherState
  <2>3. TokenExchangedOnce'
    BY <1>3, <2>1 DEF TokenExchangedOnce
  <2>4. \A h \in Refreshers : RefreshInv(h)'
    BY <1>3, <2>1, RefreshKept
  <2> QED BY <2>2, <2>3, <2>4
<1>4. ASSUME NEW f \in Refreshers, Refresh(f)
      PROVE  /\ SessionTypeOK' /\ SessionsGrow /\ NoneFlushed /\ TokenExchangedOnce'
             /\ \A h \in Refreshers : RefreshInv(h)'
  <2>1. PICK s \in DOMAIN session :
          refresher' = [refresher EXCEPT ![f] =
            [at |-> "Rotate", session |-> s, token |-> session[s].token]]
    BY <1>4 DEF Refresh
  <2> DEFINE state == [at |-> "Rotate", session |-> s, token |-> session[s].token]
  <2>2. s \in SessionIds /\ session[s].token \in Nat
    BY SessionRow DEF Session
  <2>3. state \in RefresherState /\ state.at = "Rotate" /\ state.session = s
        /\ state.token = session[s].token
    BY <2>2 DEF RefresherState
  <2>4. UNCHANGED <<session, password, login, cacheVersion, validation, guard, revoker>>
    BY <1>4 DEF Refresh
  <2>5. SessionsGrow /\ NoneFlushed
    BY <2>4, SessionsKept
  <2> HIDE DEF state
  <2>6. refresher' = [refresher EXCEPT ![f] = state]
    BY <2>1 DEF state
  <2>7. refresher'[f] = state
    BY <2>6, SessionStates
  <2>8. RefreshInv(f)'
    BY <2>2, <2>3, <2>4, <2>7 DEF RefreshInv
  <2> QED BY <1>3, <2>3, <2>4, <2>5, <2>6, <2>8
<1>5. ASSUME NEW f \in Refreshers, RotateRefreshToken(f)
      PROVE  /\ SessionTypeOK' /\ SessionsGrow /\ NoneFlushed /\ TokenExchangedOnce'
             /\ \A h \in Refreshers : RefreshInv(h)'
  <2>1. /\ refresher[f].at = "Rotate" /\ UNCHANGED <<password, login, cacheVersion, validation, guard, revoker>>
        /\ refresher[f] \in [at: {"Rotate", "Rotated"}, session: SessionIds, token: Nat]
    BY <1>5, RefresherFacts DEF RotateRefreshToken
  <2>2. PICK s \in DOMAIN session : s = refresher[f].session
    BY <2>1 DEF RefreshInv
  <2>3. CASE Rotates(f)
    <3> DEFINE state == [refresher[f] EXCEPT !.at = "Rotated"]
    <3>1. /\ session' = [session EXCEPT ![s].token = @ + 1]
          /\ refresher' = [refresher EXCEPT ![f] = state]
      BY <1>5, <2>2, <2>3 DEF RotateRefreshToken
    <3>2. /\ state \in RefresherState /\ state.at = "Rotated" /\ state.session = s
          /\ state.token = refresher[f].token
      BY <2>1, <2>2 DEF RefresherState
    <3>3. state.token = session[s].token /\ session[s].token \in Nat
      BY <2>2, <2>3, <3>2, SessionRow DEF Rotates, Session
    <3>4. SessionsGrow /\ NoneFlushed /\ session'[s].token = session[s].token + 1
      BY <3>1, RotateRow
    <3> HIDE DEF state
    <3>5. refresher'[f] = state
      BY <3>1, SessionStates
    <3>6. RefreshInv(f)'
      BY <3>2, <3>3, <3>4, <3>5 DEF RefreshInv, SessionsGrow
    <3>7. ASSUME NEW h \in Refreshers \ {f}, refresher[h].at = "Rotated", refresher[h].session = s
          PROVE  refresher[h].token # state.token
      <4>1. RefreshInv(h) /\ refresher[h].token \in Nat
        BY <3>7, RefresherFacts
      <4> QED BY <3>3, <3>7, <4>1 DEF RefreshInv
    <3> QED BY <1>3, <2>1, <3>1, <3>2, <3>4, <3>6, <3>7
  <2>4. CASE ~Rotates(f)
    <3>1. refresher' = [refresher EXCEPT ![f] = IdleRefresher] /\ session' = session
      BY <1>5, <2>4 DEF RotateRefreshToken
    <3>2. IdleRefresher \in RefresherState /\ IdleRefresher.at = "Idle"
      BY DEF RefresherState, IdleRefresher
    <3>3. RefreshInv(f)'
      <4>1. refresher'[f] = IdleRefresher
        BY <3>1, SessionStates
      <4> QED BY <3>2, <4>1 DEF RefreshInv
    <3> QED BY <1>3, <2>1, <3>1, <3>2, <3>3, SessionsKept
  <2> QED BY <2>3, <2>4
<1> QED BY <1>1, <1>2, <1>4, <1>5 DEF RowStep, Refresh, RotateRefreshToken

(* Revocations, and changes of the password. *)
LEMMA RevokerMoved ==
  ASSUME SessionTypeOK, RevocationsInv, NEW r \in Revokers, NEW state \in RevokerState,
         SessionsGrow, DOMAIN session' = DOMAIN session,
         revoker' = [revoker EXCEPT ![r] = state],
         state.at = "Advance" => \A s \in state.sessions : s \in DOMAIN session /\ session'[s].revoked,
         \A s \in DOMAIN session : session'[s].flushed => session'[s].revoked,
         password' \in Nat, cacheVersion' \in Nat,
         UNCHANGED <<login, validation, guard, refresher>>
  PROVE  SessionTypeOK' /\ RevocationsInv'
<1>1. /\ revoker' \in [Revokers -> RevokerState] /\ revoker'[r] = state
      /\ \A q \in Revokers \ {r} : revoker'[q] = revoker[q]
  BY SessionStates
<1>2. SessionTypeOK'
  BY <1>1 DEF SessionsGrow, SessionTypeOK, RevokerState
<1>3. ASSUME NEW q \in Revokers, revoker'[q].at = "Advance", NEW s \in revoker'[q].sessions
      PROVE  s \in DOMAIN session' /\ session'[s].revoked
  <2>1. CASE q = r
    BY <1>1, <1>3, <2>1
  <2>2. CASE q # r
    BY <1>1, <1>3, <2>2 DEF RevocationsInv, SessionsGrow, Onward
  <2> QED BY <2>1, <2>2
<1> QED BY <1>2, <1>3 DEF RevocationsInv

LEMMA RevokersStepped ==
  ASSUME SessionTypeOK, RevocationsInv, NEW r \in Revokers, RevokerStep(r)
  PROVE  /\ SessionTypeOK' /\ RevocationsInv' /\ SessionsGrow
         /\ UNCHANGED <<validation, guard, refresher>>
         /\ \/ NoneFlushed /\ cacheVersion' = cacheVersion
            \/ cacheVersion' = cacheVersion + 1
<1>1. password + 1 \in Nat /\ password \in Nat /\ cacheVersion \in Nat /\ cacheVersion + 1 \in Nat
  BY SessionStates
<1>2. IdleRevoker \in RevokerState /\ IdleRevoker.at # "Advance"
  BY DEF RevokerState, IdleRevoker
<1>3. ASSUME NEW S \in SUBSET DOMAIN session,
             revoker' = [revoker EXCEPT ![r] =
               IF S = {} THEN IdleRevoker ELSE [at |-> "Advance", sessions |-> S]],
             NEW T,
             session' = [s \in DOMAIN session |->
               IF s \in S THEN [session[s] EXCEPT !.revoked = TRUE]
               ELSE IF s \in T THEN [session[s] EXCEPT !.authenticated = password + 1, !.raced = FALSE]
               ELSE session[s]],
             password' \in {password, password + 1},
             UNCHANGED <<login, cacheVersion, validation, guard, refresher>>
      PROVE  /\ SessionTypeOK' /\ RevocationsInv' /\ SessionsGrow /\ NoneFlushed
  <2> DEFINE state == IF S = {} THEN IdleRevoker ELSE [at |-> "Advance", sessions |-> S]
  <2>1. S \subseteq SessionIds
    BY SessionRow
  <2>2. state \in RevokerState /\ (state.at = "Advance" => state.sessions = S)
    BY <1>2, <2>1 DEF RevokerState
  <2>3. revoker' = [revoker EXCEPT ![r] = state]
    BY <1>3
  <2> HIDE DEF state
  <2>4. /\ SessionsGrow /\ NoneFlushed /\ DOMAIN session' = DOMAIN session
        /\ \A s \in S : session'[s].revoked
    BY <1>3, RevokedRows
  <2>5. \A s \in DOMAIN session : session'[s].flushed => session'[s].revoked
    BY <2>4 DEF NoneFlushed, SessionsGrow, Onward, RevocationsInv
  <2> QED BY <1>1, <1>3, <2>2, <2>3, <2>4, <2>5, RevokerMoved
<1>4. ASSUME NEW S \in SUBSET DOMAIN session, RevokeRows(r, S), password' \in {password, password + 1}
      PROVE  SessionTypeOK' /\ RevocationsInv' /\ SessionsGrow /\ NoneFlushed
  <2>1. session' = [s \in DOMAIN session |->
               IF s \in S THEN [session[s] EXCEPT !.revoked = TRUE]
               ELSE IF s \in {} THEN [session[s] EXCEPT !.authenticated = password + 1, !.raced = FALSE]
               ELSE session[s]]
    BY <1>4 DEF RevokeRows
  <2> QED BY <1>3, <1>4, <2>1 DEF RevokeRows
<1>5. CASE RevokeSessions(r)
  <2>1. PICK s \in LiveSessions : \E S \in {{s}, LiveSessions \ {s}, LiveSessions} : RevokeRows(r, S)
    BY <1>5 DEF RevokeSessions
  <2>2. PICK S \in SUBSET DOMAIN session : RevokeRows(r, S)
    BY <2>1 DEF LiveSessions
  <2>3. password' = password /\ UNCHANGED <<cacheVersion, validation, guard, refresher>>
    BY <1>5, <2>2 DEF RevokeSessions, RevokeRows
  <2> QED BY <1>4, <2>2, <2>3
<1>6. CASE ResetPassword(r)
  <2>1. LiveSessions \in SUBSET DOMAIN session
    BY DEF LiveSessions
  <2>2. /\ password' = password + 1 /\ RevokeRows(r, LiveSessions)
        /\ UNCHANGED <<cacheVersion, validation, guard, refresher>>
    BY <1>6 DEF ResetPassword, RevokeRows
  <2> QED BY <1>4, <2>1, <2>2
<1>7. CASE ChangePassword(r)
  <2>1. PICK s \in LiveSessions :
       /\ session' = [t \in DOMAIN session |->
            CASE t \in Others(s) -> [session[t] EXCEPT !.revoked = TRUE]
              [] t = s /\ t \notin Others(s) ->
                   [session[t] EXCEPT !.authenticated = password + 1, !.raced = FALSE]
              [] OTHER -> session[t]]
       /\ revoker' = [revoker EXCEPT ![r] =
            IF Others(s) = {} THEN IdleRevoker ELSE [at |-> "Advance", sessions |-> Others(s)]]
    BY <1>7 DEF ChangePassword
  <2>2. Others(s) \in SUBSET DOMAIN session
    BY DEF Others, LiveSessions
  <2>3. session' = [t \in DOMAIN session |->
               IF t \in Others(s) THEN [session[t] EXCEPT !.revoked = TRUE]
               ELSE IF t \in {s} THEN [session[t] EXCEPT !.authenticated = password + 1, !.raced = FALSE]
               ELSE session[t]]
    BY <2>1
  <2>4. password' = password + 1 /\ UNCHANGED <<login, cacheVersion, validation, guard, refresher>>
    BY <1>7 DEF ChangePassword
  <2> QED BY <1>3, <2>1, <2>2, <2>3, <2>4
<1>8. CASE AdvanceVersion(r)
  <2>1. /\ revoker[r].at = "Advance" /\ cacheVersion' = cacheVersion + 1
        /\ session' = [s \in DOMAIN session |->
             IF s \in revoker[r].sessions THEN [session[s] EXCEPT !.flushed = TRUE] ELSE session[s]]
        /\ revoker' = [revoker EXCEPT ![r] = IdleRevoker]
        /\ UNCHANGED <<password, login, validation, guard, refresher>>
    BY <1>8 DEF AdvanceVersion
  <2>2. /\ SessionsGrow /\ DOMAIN session' = DOMAIN session
        /\ \A s \in DOMAIN session :
             /\ session'[s].revoked = session[s].revoked
             /\ session'[s].flushed => session[s].flushed \/ s \in revoker[r].sessions
    BY <2>1, FlushedRows
  <2>3. \A s \in DOMAIN session : session'[s].flushed => session'[s].revoked
    BY <2>1, <2>2 DEF RevocationsInv
  <2> QED BY <1>1, <1>2, <2>1, <2>2, <2>3, RevokerMoved
<1>9. CASE AdvanceFails(r)
  <2>1. /\ revoker' = [revoker EXCEPT ![r] = IdleRevoker]
        /\ UNCHANGED <<session, password, login, cacheVersion, validation, guard, refresher>>
    BY <1>9 DEF AdvanceFails
  <2>2. SessionsGrow /\ NoneFlushed
    BY <2>1, SessionsKept
  <2>3. \A s \in DOMAIN session : session'[s].flushed => session'[s].revoked
    BY <2>1 DEF RevocationsInv
  <2> QED BY <1>1, <1>2, <2>1, <2>2, <2>3, RevokerMoved
<1> QED BY <1>5, <1>6, <1>7, <1>8, <1>9 DEF RevokerStep

-----------------------------------------------------------------------------
(* The guard.  A verdict that may still let a session pass is cached, or is *)
(* about to be: once a revocation is flushed all of them are of an older    *)
(* version, and of an older one than what a later request looks up.         *)

Passes(version, s) ==
  \/ <<version, s, TRUE>> \in validation
  \/ \E g \in Guards :
       /\ guard[g].at = "Store" /\ guard[g].valid
       /\ guard[g].session = s /\ guard[g].version = version

PassesInv ==
  \A s \in SessionIds, version \in Nat : Passes(version, s) =>
    /\ version <= cacheVersion
    /\ s \in DOMAIN session /\ session[s].flushed => version < cacheVersion

Asks(q) ==
  q.at # "Idle" =>
    /\ q.session \in DOMAIN session
    /\ q.version # NoVersion => q.version <= cacheVersion

AsksLate(q) ==
  q.at # "Idle" /\ q.late =>
    /\ session[q.session].revoked /\ session[q.session].flushed
    /\ q.at # "Accepted"
    /\ q.at = "Store" => ~q.valid
    /\ q.at = "Lookup" => q.version # NoVersion
    /\ q.version # NoVersion => \A version \in Nat : Passes(version, q.session) => version < q.version

GuardsInv == PassesInv /\ \A g \in Guards : Asks(guard[g]) /\ AsksLate(guard[g])

SessionsInv ==
  /\ SessionTypeOK /\ RevocationsInv /\ GuardsInv
  /\ TokenExchangedOnce /\ \A f \in Refreshers : RefreshInv(f)

Request ==
  [at: {"Lookup", "Validate", "Store", "Accepted"}, session: SessionIds,
   version: Versions, valid: BOOLEAN, late: BOOLEAN]

LEMMA GuardFacts ==
  ASSUME SessionTypeOK, NEW g \in Guards
  PROVE  /\ guard[g] \in GuardState
         /\ guard[g].at # "Idle" => guard[g] \in Request
         /\ IdleGuard \in GuardState /\ IdleGuard.at = "Idle"
         /\ Request \subseteq GuardState
  <1>1. guard[g] \in GuardState
    BY SessionStates
  <1> QED BY <1>1 DEF GuardState, IdleGuard, Request

(* The steps of sessions and of revocations leave the guard as it is. *)
LEMMA GuardsKept ==
  ASSUME SessionsInv, SessionsGrow, UNCHANGED <<validation, guard>>,
         \/ NoneFlushed /\ cacheVersion' = cacheVersion
         \/ cacheVersion' = cacheVersion + 1
  PROVE  GuardsInv'
<1>1. /\ cacheVersion \in Nat
      /\ \A s \in SessionIds, version \in Nat : Passes(version, s)' = Passes(version, s)
  BY DEF SessionsInv, SessionTypeOK, Passes
<1>2. PassesInv'
  BY <1>1 DEF SessionsInv, GuardsInv, PassesInv, NoneFlushed
<1>3. ASSUME NEW g \in Guards
      PROVE  Asks(guard[g])' /\ AsksLate(guard[g])'
  <2>1. guard[g].at # "Idle" =>
          /\ guard[g] \in Request /\ guard[g].session \in DOMAIN session
          /\ guard[g].version = NoVersion \/ guard[g].version \in Nat
    BY GuardFacts DEF SessionsInv, GuardsInv, Asks, Request, Versions
  <2>2. Asks(guard[g])'
    BY <1>1, <2>1 DEF SessionsInv, GuardsInv, Asks, SessionsGrow
  <2>3. guard[g].at # "Idle" => guard[g].session \in SessionIds
    BY <2>1 DEF Request
  <2>4. AsksLate(guard[g])'
    BY <1>1, <2>1, <2>3 DEF SessionsInv, GuardsInv, AsksLate, SessionsGrow, Onward
  <2> QED BY <2>2, <2>4
<1> QED BY <1>2, <1>3 DEF GuardsInv

(* A request moves: what it is about to cache is true of its session now.   *)
LEMMA GuardMoved ==
  ASSUME SessionsInv, NEW g \in Guards, NEW state \in GuardState,
         guard' = [guard EXCEPT ![g] = state],
         UNCHANGED <<session, password, login, cacheVersion, revoker, refresher>>,
         validation' \subseteq (Nat \X SessionIds \X BOOLEAN),
         \A s \in SessionIds, version \in Nat :
           <<version, s, TRUE>> \in validation' => Passes(version, s),
         Asks(state), AsksLate(state),
         state.at = "Store" /\ state.valid => Live(state.session)
  PROVE  SessionTypeOK' /\ GuardsInv'
<1>1. /\ guard' \in [Guards -> GuardState] /\ guard'[g] = state
      /\ \A h \in Guards \ {g} : guard'[h] = guard[h]
  BY SessionStates DEF SessionsInv
<1>2. SessionTypeOK'
  BY <1>1 DEF SessionsInv, SessionTypeOK, GuardState
<1>3. /\ NoVersion \notin Nat /\ cacheVersion \in Nat
      /\ \A s \in DOMAIN session : session[s].flushed => ~Live(s)
  BY SessionAssumption DEF SessionsInv, SessionTypeOK, RevocationsInv, Live
<1>4. ASSUME NEW s \in SessionIds, NEW version \in Nat, Passes(version, s)', ~Passes(version, s)
      PROVE  s \in DOMAIN session /\ Live(s) /\ version <= cacheVersion
  <2>1. PICK h \in Guards :
          guard'[h].at = "Store" /\ guard'[h].valid /\ guard'[h].session = s /\ guard'[h].version = version
    <3>1. <<version, s, TRUE>> \notin validation'
      BY <1>4
    <3> QED BY <1>4, <3>1 DEF Passes
  <2>2. h = g
    BY <1>1, <1>4, <2>1 DEF Passes
  <2> QED BY <1>1, <1>3, <2>1, <2>2 DEF Asks
<1>5. PassesInv'
  BY <1>3, <1>4 DEF SessionsInv, GuardsInv, PassesInv
<1>6. ASSUME NEW h \in Guards PROVE Asks(guard[h])' /\ AsksLate(guard[h])'
  <2>1. Asks(guard'[h]) /\ AsksLate(guard'[h])
    BY <1>1 DEF SessionsInv, GuardsInv
  <2>2. guard'[h].at # "Idle" => guard'[h].session \in DOMAIN session /\ guard'[h].session \in SessionIds
    BY <2>1, SessionRow DEF Asks, SessionsInv
  <2>3. Asks(guard[h])'
    BY <2>1 DEF Asks
  <2>4. AsksLate(guard[h])'
    BY <1>3, <1>4, <2>1, <2>2 DEF AsksLate, Live
  <2> QED BY <2>3, <2>4
<1> QED BY <1>2, <1>5, <1>6 DEF GuardsInv

LEMMA CacheStepped ==
  ASSUME SessionsInv, CacheStep
  PROVE  SessionTypeOK' /\ GuardsInv' /\ UNCHANGED <<session, revoker, refresher>>
<1>1. /\ validation \subseteq (Nat \X SessionIds \X BOOLEAN)
      /\ cacheVersion \in Nat /\ NoVersion \notin Nat
      /\ \A s \in SessionIds, version \in Nat : <<version, s, TRUE>> \in validation => Passes(version, s)
  BY SessionAssumption DEF SessionsInv, SessionTypeOK, Passes
<1>2. Asks(IdleGuard) /\ AsksLate(IdleGuard) /\ IdleGuard \in GuardState /\ IdleGuard.at # "Store"
  BY DEF Asks, AsksLate, IdleGuard, GuardState
<1>3. ASSUME NEW g \in Guards, ReadVersion(g)
      PROVE  SessionTypeOK' /\ GuardsInv' /\ UNCHANGED <<session, revoker, refresher>>
  <2>1. PICK s \in DOMAIN session, version \in {cacheVersion, NoVersion} :
          guard' = [guard EXCEPT ![g] =
            [at |-> IF version = NoVersion THEN "Validate" ELSE "Lookup",
             session |-> s, version |-> version, valid |-> FALSE,
             late |-> session[s].revoked /\ session[s].flushed]]
    BY <1>3 DEF ReadVersion, ToGuard
  <2> DEFINE state == [at |-> IF version = NoVersion THEN "Validate" ELSE "Lookup",
                       session |-> s, version |-> version, valid |-> FALSE,
                       late |-> session[s].revoked /\ session[s].flushed]
  <2>2. s \in SessionIds /\ session[s] \in Session
    BY SessionRow DEF SessionsInv
  <2>3. state \in GuardState
    BY <1>1, <2>2 DEF GuardState, Versions, Session
  <2>4. /\ state.session = s /\ state.version = version /\ state.at \notin {"Idle", "Store", "Accepted"}
        /\ state.late = (session[s].revoked /\ session[s].flushed)
        /\ state.at = "Lookup" => version # NoVersion
    OBVIOUS
  <2>5. guard' = [guard EXCEPT ![g] = state]
    BY <2>1
  <2> HIDE DEF state
  <2>6. Asks(state)
    BY <1>1, <2>4 DEF Asks
  <2>7. AsksLate(state)
    BY <1>1, <2>2, <2>4 DEF AsksLate, SessionsInv, GuardsInv, PassesInv
  <2>8. UNCHANGED <<session, password, login, cacheVersion, revoker, refresher, validation>>
    BY <1>3 DEF ReadVersion, Guarding
  <2> QED BY <1>1, <2>3, <2>4, <2>5, <2>6, <2>7, <2>8, GuardMoved
<1>4. ASSUME NEW g \in Guards, GuardStep(g)
      PROVE  SessionTypeOK' /\ GuardsInv' /\ UNCHANGED <<session, revoker, refresher>>
  <2>1. /\ guard[g].at # "Idle" /\ guard[g] \in Request
        /\ UNCHANGED <<session, password, login, cacheVersion, revoker, refresher>>
        /\ Asks(guard[g]) /\ AsksLate(guard[g])
    BY <1>4, GuardFacts DEF GuardStep, Lookup, ValidateSession, StoreValidation, RequestEnds, Guarding,
       SessionsInv, GuardsInv
  <2>2. /\ guard[g].session \in DOMAIN session /\ guard[g].session \in SessionIds
        /\ guard[g].version = NoVersion \/ guard[g].version \in Nat
        /\ guard[g].valid \in BOOLEAN
    BY <2>1 DEF Asks, Request, Versions
  <2>3. ASSUME NEW at \in {"Validate", "Accepted"},
               at = "Accepted" => ~guard[g].late
        PROVE  LET state == [guard[g] EXCEPT !.at = at]
               IN state \in GuardState /\ Asks(state) /\ AsksLate(state) /\ state.at # "Store"
    <3> DEFINE state == [guard[g] EXCEPT !.at = at]
    <3>1. /\ state \in Request /\ state.at = at /\ state.session = guard[g].session
          /\ state.version = guard[g].version /\ state.late = guard[g].late
      BY <2>1 DEF Request
    <3> HIDE DEF state
    <3>2. Asks(state) /\ AsksLate(state) /\ state.at # "Store"
      BY <2>1, <2>3, <3>1 DEF Asks, AsksLate
    <3>3. state \in GuardState
      BY <3>1, GuardFacts DEF SessionsInv
    <3> QED BY <3>2, <3>3 DEF state
  <2>4. CASE Lookup(g)
    <3>1. validation' = validation /\ guard[g].at = "Lookup"
      BY <2>4 DEF Lookup, Guarding
    <3>2. CASE TRUE \in Verdicts(g) /\ ToGuard(g, [guard[g] EXCEPT !.at = "Accepted"])
      <4>1. <<guard[g].version, guard[g].session, TRUE>> \in validation
        BY <3>2 DEF Verdicts
      <4>2. guard[g].version \in Nat
        BY <1>1, <4>1
      <4>3. Passes(guard[g].version, guard[g].session)
        BY <4>1 DEF Passes
      <4>4. ~(guard[g].version < guard[g].version) /\ guard[g].version # NoVersion
        BY <1>1, <4>2
      <4>5. ~guard[g].late
        BY <2>1, <4>2, <4>3, <4>4 DEF AsksLate
      <4> QED BY <1>1, <2>1, <2>3, <3>1, <3>2, <4>5, GuardMoved DEF ToGuard
    <3>3. CASE ToGuard(g, IdleGuard)
      BY <1>1, <1>2, <2>1, <3>1, <3>3, GuardMoved DEF ToGuard
    <3>4. CASE ToGuard(g, [guard[g] EXCEPT !.at = "Validate"])
      BY <1>1, <2>1, <2>3, <3>1, <3>4, GuardMoved DEF ToGuard
    <3> QED BY <2>4, <3>2, <3>3, <3>4 DEF Lookup
  <2>5. CASE ValidateSession(g)
    <3> DEFINE state == [guard[g] EXCEPT !.at = "Store", !.valid = Live(guard[g].session)]
    <3>1. validation' = validation /\ guard' = [guard EXCEPT ![g] = state]
      BY <2>5 DEF ValidateSession, ToGuard
    <3>2. Live(guard[g].session) \in BOOLEAN
      BY DEF Live
    <3>3. /\ state \in Request /\ state.at = "Store" /\ state.session = guard[g].session
          /\ state.version = guard[g].version /\ state.late = guard[g].late
          /\ state.valid = Live(guard[g].session)
      BY <2>1, <3>2 DEF Request
    <3> HIDE DEF state
    <3>4. Asks(state) /\ AsksLate(state)
      BY <2>1, <3>3 DEF Asks, AsksLate, Live
    <3>5. state \in GuardState
      BY <3>3, GuardFacts DEF SessionsInv
    <3> QED BY <1>1, <2>1, <3>1, <3>3, <3>4, <3>5, GuardMoved
  <2>6. CASE StoreValidation(g)
    <3>1. /\ guard[g].at = "Store" /\ ToGuard(g, Decided(g))
          /\ \/ guard[g].version # NoVersion /\ validation' \subseteq validation \cup {Stored(g)}
             \/ validation' = validation
      BY <2>6 DEF StoreValidation, Guarding
    <3>2. validation' \subseteq (Nat \X SessionIds \X BOOLEAN)
      BY <1>1, <2>2, <3>1 DEF Stored
    <3>3. \A s \in SessionIds, version \in Nat : <<version, s, TRUE>> \in validation' => Passes(version, s)
      <4>1. ASSUME NEW s \in SessionIds, NEW version \in Nat, <<version, s, TRUE>> = Stored(g)
            PROVE  Passes(version, s)
        <5>1. version = guard[g].version /\ s = guard[g].session /\ guard[g].valid
          BY <4>1 DEF Stored
        <5> QED BY <3>1, <5>1 DEF Passes
      <4> QED BY <1>1, <3>1, <4>1
    <3>4. CASE guard[g].valid
      <4>1. ~guard[g].late
        BY <2>1, <3>1, <3>4 DEF AsksLate
      <4> QED BY <2>1, <2>3, <3>1, <3>2, <3>3, <3>4, <4>1, GuardMoved DEF ToGuard, Decided
    <3>5. CASE ~guard[g].valid
      BY <1>2, <2>1, <3>1, <3>2, <3>3, <3>5, GuardMoved DEF ToGuard, Decided
    <3> QED BY <3>4, <3>5
  <2>7. CASE RequestEnds(g)
    BY <1>1, <1>2, <2>1, <2>7, GuardMoved DEF RequestEnds, ToGuard
  <2> QED BY <1>4, <2>4, <2>5, <2>6, <2>7 DEF GuardStep
<1>5. ASSUME NEW s \in DOMAIN session, NEW version \in 0 .. cacheVersion, ValidationExpires(version, s)
      PROVE  SessionTypeOK' /\ GuardsInv' /\ UNCHANGED <<session, revoker, refresher>>
  <2>1. /\ validation' \subseteq validation
        /\ UNCHANGED <<session, password, login, cacheVersion, guard, revoker, refresher>>
    BY <1>5 DEF ValidationExpires
  <2>2. SessionTypeOK'
    BY <2>1 DEF SessionsInv, SessionTypeOK
  <2>3. \A t \in SessionIds, n \in Nat : Passes(n, t)' => Passes(n, t)
    BY <2>1 DEF Passes
  <2>4. PassesInv'
    BY <2>1, <2>3 DEF SessionsInv, GuardsInv, PassesInv
  <2>5. ASSUME NEW g \in Guards PROVE Asks(guard[g])' /\ AsksLate(guard[g])'
    <3>1. Asks(guard[g]) /\ AsksLate(guard[g])
      BY DEF SessionsInv, GuardsInv
    <3>2. guard[g].at # "Idle" => guard[g].session \in SessionIds
      BY <3>1, SessionRow DEF Asks, SessionsInv
    <3> QED BY <2>1, <2>3, <3>1, <3>2 DEF Asks, AsksLate
  <2> QED BY <2>1, <2>2, <2>4, <2>5 DEF GuardsInv
<1> QED BY <1>3, <1>4, <1>5 DEF CacheStep

-----------------------------------------------------------------------------
LEMMA SessionsInitially == SessionInit => SessionsInv
<1> SUFFICES ASSUME SessionInit PROVE SessionsInv
  OBVIOUS
<1>1. SessionTypeOK
  BY SessionAssumption DEF SessionInit, SessionTypeOK
<1>2. DOMAIN session = {} /\ validation = {}
  BY DEF SessionInit
<1>3. /\ \A g \in Guards : guard[g].at = "Idle"
      /\ \A r \in Revokers : revoker[r].at = "Idle"
      /\ \A f \in Refreshers : refresher[f].at = "Idle"
  BY DEF SessionInit, IdleGuard, IdleRevoker, IdleRefresher
<1>4. RevocationsInv
  BY <1>2, <1>3 DEF RevocationsInv
<1>5. GuardsInv
  BY <1>2, <1>3 DEF GuardsInv, PassesInv, Passes, Asks, AsksLate
<1> QED BY <1>1, <1>3, <1>4, <1>5 DEF SessionsInv, TokenExchangedOnce, RefreshInv

LEMMA SessionsStep == SessionsInv /\ [SessionNext]_sessionVars => SessionsInv'
<1> SUFFICES ASSUME SessionsInv, [SessionNext]_sessionVars PROVE SessionsInv'
  OBVIOUS
<1>1. CASE RowStep
  <2>1. /\ SessionTypeOK' /\ SessionsGrow /\ NoneFlushed
        /\ UNCHANGED <<cacheVersion, validation, guard, revoker>>
        /\ TokenExchangedOnce' /\ \A f \in Refreshers : RefreshInv(f)'
    BY <1>1, RowsStepped DEF SessionsInv
  <2>2. GuardsInv' /\ RevocationsInv'
    BY <2>1, GuardsKept, RevocationsKept DEF SessionsInv
  <2> QED BY <2>1, <2>2 DEF SessionsInv
<1>2. ASSUME NEW r \in Revokers, RevokerStep(r) PROVE SessionsInv'
  <2>1. /\ SessionTypeOK' /\ RevocationsInv' /\ SessionsGrow
        /\ UNCHANGED <<validation, guard, refresher>>
        /\ \/ NoneFlushed /\ cacheVersion' = cacheVersion
           \/ cacheVersion' = cacheVersion + 1
    BY <1>2, RevokersStepped DEF SessionsInv
  <2>2. GuardsInv'
    BY <2>1, GuardsKept
  <2>3. TokenExchangedOnce' /\ \A f \in Refreshers : RefreshInv(f)'
    BY <2>1, RefreshKept DEF SessionsInv, TokenExchangedOnce
  <2> QED BY <2>1, <2>2, <2>3 DEF SessionsInv
<1>3. CASE CacheStep
  <2>1. SessionTypeOK' /\ GuardsInv' /\ UNCHANGED <<session, revoker, refresher>>
    BY <1>3, CacheStepped
  <2> QED BY <2>1 DEF SessionsInv, RevocationsInv, TokenExchangedOnce, RefreshInv
<1>4. CASE UNCHANGED sessionVars
  BY <1>4 DEF sessionVars, SessionsInv, SessionTypeOK, RevocationsInv, GuardsInv, PassesInv, Passes,
     Asks, AsksLate, TokenExchangedOnce, RefreshInv
<1> QED BY <1>1, <1>2, <1>3, <1>4, SessionSteps

LEMMA SessionsInvariant == SessionSpec => []SessionsInv
  BY SessionsInitially, SessionsStep, PTL DEF SessionSpec

(* Sessions, the cached verdicts and whatever works on them keep their      *)
(* types.                                                                   *)
THEOREM SessionTypeCorrect == SessionSpec => []SessionTypeOK
  BY SessionsInvariant, PTL DEF SessionsInv

(* A request that begins after a session was revoked and the version was    *)
(* advanced is refused, for any number of requests and revocations, and     *)
(* although a verdict may be stored long after it was found.                *)
THEOREM RevocationIsFinal == SessionSpec => []RevokedIsRefused
<1>1. SessionsInv => RevokedIsRefused
  BY DEF SessionsInv, GuardsInv, AsksLate, RevokedIsRefused
<1> QED BY <1>1, SessionsInvariant, PTL

(* A refresh token is exchanged once, whatever else happens to the session. *)
THEOREM RefreshIsExclusive == SessionSpec => []TokenExchangedOnce
  BY SessionsInvariant, PTL DEF SessionsInv

-----------------------------------------------------------------------------
(* Passwords. *)

(* A row that is revoked, or tells what it told of an unchanged password.   *)
LEMMA PasswordKept ==
  ASSUME SessionTypeOK, OldPasswordEndsSessions, DOMAIN session' = DOMAIN session,
         \A s \in DOMAIN session :
           \/ session'[s].revoked
           \/ session'[s].authenticated = password'
           \/ /\ password' = password /\ session'[s].revoked = session[s].revoked
              /\ session'[s].raced = session[s].raced
              /\ session'[s].authenticated = session[s].authenticated
  PROVE  OldPasswordEndsSessions'
  BY DEF OldPasswordEndsSessions, Live

LEMMA PasswordStep ==
  ASSUME SessionsInv, OldPasswordEndsSessions, [SessionNext]_sessionVars
  PROVE  OldPasswordEndsSessions'
<1>1. SessionTypeOK
  BY DEF SessionsInv
<1>2. CASE session' = session /\ password' = password
  BY <1>1, <1>2, PasswordKept
<1>3. CASE CreateSession
  <2> DEFINE row == [revoked |-> FALSE, token |-> 0, authenticated |-> login.password,
                     raced |-> login.password # password, flushed |-> FALSE]
  <2>1. session \in Seq(Session) /\ session' = Append(session, row) /\ password' = password
    BY <1>1, <1>3 DEF SessionTypeOK, CreateSession
  <2>2. ~row.raced => row.authenticated = password
    OBVIOUS
  <2> HIDE DEF row
  <2>3. /\ DOMAIN session' = DOMAIN session \cup {Len(session) + 1}
        /\ session'[Len(session) + 1] = row
        /\ \A s \in DOMAIN session : session'[s] = session[s]
    BY <2>1
  <2> QED BY <2>1, <2>2, <2>3 DEF OldPasswordEndsSessions, Live
<1>4. ASSUME NEW f \in Refreshers, RotateRefreshToken(f), Rotates(f)
      PROVE  OldPasswordEndsSessions'
  <2>1. PICK t : t = refresher[f].session
    OBVIOUS
  <2>2. session' = [session EXCEPT ![t].token = @ + 1] /\ password' = password
    BY <1>4, <2>1 DEF RotateRefreshToken
  <2>3. ASSUME NEW s \in DOMAIN session
        PROVE  /\ session'[s].revoked = session[s].revoked /\ session'[s].raced = session[s].raced
               /\ session'[s].authenticated = session[s].authenticated
    <3>1. session[s] \in Session
      BY <1>1, SessionRow
    <3>2. session'[s] = session[s] \/ session'[s] = [session[s] EXCEPT !.token = session[s].token + 1]
      BY <2>2
    <3> QED BY <3>1, <3>2 DEF Session
  <2>4. DOMAIN session' = DOMAIN session
    BY <2>2
  <2> QED BY <1>1, <2>2, <2>3, <2>4, PasswordKept
<1>5. ASSUME NEW r \in Revokers, NEW S, RevokeRows(r, S), password' = password \/ S = LiveSessions
      PROVE  OldPasswordEndsSessions'
  <2>1. session' = [s \in DOMAIN session |->
          IF s \in S THEN [session[s] EXCEPT !.revoked = TRUE] ELSE session[s]]
    BY <1>5 DEF RevokeRows
  <2>2. ASSUME NEW s \in DOMAIN session
        PROVE  session'[s].revoked \/ (s \notin S /\ session'[s] = session[s])
    <3>1. session[s] \in Session
      BY <1>1, SessionRow
    <3>2. s \in S => session'[s] = [session[s] EXCEPT !.revoked = TRUE]
      BY <2>1
    <3> QED BY <2>1, <3>1, <3>2, RowEdits
  <2>3. DOMAIN session' = DOMAIN session
    BY <2>1
  <2> QED BY <1>1, <1>5, <2>2, <2>3, PasswordKept DEF LiveSessions, Live
<1>6. ASSUME NEW r \in Revokers, ChangePassword(r)
      PROVE  OldPasswordEndsSessions'
  <2>1. PICK s \in LiveSessions :
        session' = [t \in DOMAIN session |->
            CASE t \in Others(s) -> [session[t] EXCEPT !.revoked = TRUE]
              [] t = s /\ t \notin Others(s) ->
                   [session[t] EXCEPT !.authenticated = password + 1, !.raced = FALSE]
              [] OTHER -> session[t]]
    BY <1>6 DEF ChangePassword
  <2>2. password' = password + 1
    BY <1>6 DEF ChangePassword
  <2>3. ASSUME NEW t \in DOMAIN session
        PROVE  session'[t].revoked \/ session'[t].authenticated = password + 1
    <3>1. session[t] \in Session
      BY <1>1, SessionRow
    <3>2. CASE t \in Others(s)
      <4>1. session'[t] = [session[t] EXCEPT !.revoked = TRUE]
        BY <2>1, <3>2
      <4> QED BY <3>1, <4>1 DEF Session
    <3>3. CASE t = s
      <4>1. session'[t] = [session[t] EXCEPT !.authenticated = password + 1, !.raced = FALSE]
        BY <2>1, <3>3 DEF Others
      <4> QED BY <3>1, <4>1 DEF Session
    <3>4. CASE t \notin Others(s) /\ t # s
      BY <2>1, <3>4 DEF Others, LiveSessions, Live
    <3> QED BY <3>2, <3>3, <3>4
  <2>4. DOMAIN session' = DOMAIN session
    BY <2>1
  <2> QED BY <1>1, <2>2, <2>3, <2>4, PasswordKept
<1>7. ASSUME NEW r \in Revokers, AdvanceVersion(r)
      PROVE  OldPasswordEndsSessions'
  <2>1. /\ password' = password
        /\ session' = [s \in DOMAIN session |->
             IF s \in revoker[r].sessions THEN [session[s] EXCEPT !.flushed = TRUE] ELSE session[s]]
    BY <1>7 DEF AdvanceVersion
  <2>2. ASSUME NEW s \in DOMAIN session
        PROVE  /\ session'[s].revoked = session[s].revoked /\ session'[s].raced = session[s].raced
               /\ session'[s].authenticated = session[s].authenticated
    <3>1. session[s] \in Session
      BY <1>1, SessionRow
    <3>2. session'[s] = session[s] \/ session'[s] = [session[s] EXCEPT !.flushed = TRUE]
      BY <2>1
    <3> QED BY <3>1, <3>2 DEF Session
  <2>3. DOMAIN session' = DOMAIN session
    BY <2>1
  <2> QED BY <1>1, <2>1, <2>2, <2>3, PasswordKept
<1>8. CASE RowStep
  <2>1. CASE Login
    BY <1>2, <2>1 DEF Login
  <2>2. ASSUME NEW f \in Refreshers, Refresh(f) PROVE session' = session /\ password' = password
    BY <2>2 DEF Refresh
  <2>3. ASSUME NEW f \in Refreshers, RotateRefreshToken(f), ~Rotates(f)
        PROVE  session' = session /\ password' = password
    BY <2>3 DEF RotateRefreshToken
  <2> QED BY <1>2, <1>3, <1>4, <1>8, <2>1, <2>2, <2>3 DEF RowStep
<1>9. ASSUME NEW r \in Revokers, RevokerStep(r) PROVE OldPasswordEndsSessions'
  <2>1. CASE RevokeSessions(r)
    BY <1>5, <2>1 DEF RevokeSessions
  <2>2. CASE ResetPassword(r)
    BY <1>5, <2>2 DEF ResetPassword
  <2>3. CASE AdvanceFails(r)
    BY <1>2, <2>3 DEF AdvanceFails
  <2> QED BY <1>6, <1>7, <1>9, <2>1, <2>2, <2>3 DEF RevokerStep
<1>10. CASE CacheStep
  <2>1. session' = session /\ password' = password
    BY <1>10 DEF CacheStep, ReadVersion, GuardStep, Lookup, ValidateSession, StoreValidation, RequestEnds,
       Guarding, ValidationExpires
  <2> QED BY <1>2, <2>1
<1>11. CASE UNCHANGED sessionVars
  BY <1>2, <1>11 DEF sessionVars
<1> QED BY <1>8, <1>9, <1>10, <1>11, SessionSteps

(* A change or a reset of the password ends every session that was opened   *)
(* with an older one, but for a login that was under way.                   *)
THEOREM PasswordEndsSessions == SessionSpec => []OldPasswordEndsSessions
<1>1. SessionInit => OldPasswordEndsSessions
  BY DEF SessionInit, OldPasswordEndsSessions
<1>2. OldPasswordEndsSessions /\ SessionsInv /\ [SessionNext]_sessionVars => OldPasswordEndsSessions'
  BY PasswordStep
<1> QED BY <1>1, <1>2, SessionsInvariant, PTL DEF SessionSpec

-----------------------------------------------------------------------------
(* One-time passwords.  Types, and what a step does to the rows: one that   *)
(* lapsed stays so, and one that is used or deleted is not pending again.   *)

OtpSenderState ==
  {Waiting} \cup [at: {"DeleteUnverified", "DeleteState", "Create"}]
            \cup [at: {"Cache", "Undo"}, id: OtpIds \cup {0}]
OtpVerifierState ==
  {Waiting} \cup [at: {"Read", "Release", "Drop"}]
            \cup [at: {"Count", "Verify"}, id: OtpIds]

AtWork(q) == q.at \in {"Count", "Verify"}

SenderIds(q) ==
  /\ q.at = "Cache" => q.id \in DOMAIN otp
  /\ q.at = "Undo" => q.id \in DOMAIN otp \cup {0}

OtpIdsInv ==
  /\ cachedOtp \in DOMAIN otp \cup {0}
  /\ attempts.of \in DOMAIN otp \cup {0}
  /\ \A s \in OtpSenders : SenderIds(otpSender[s])
  /\ \A v \in OtpVerifiers : AtWork(otpVerifier[v]) => otpVerifier[v].id \in DOMAIN otp

LEMMA OtpStates ==
  OtpTypeOK <=>
    /\ otp \in Seq(OtpRow) /\ Len(otp) <= MaxOtps
    /\ cachedOtp \in OtpIds \cup {0}
    /\ attempts \in [count: Nat, of: OtpIds \cup {0}]
    /\ cooldown \in OtpSenders \cup {Nobody} /\ verifyLock \in OtpVerifiers \cup {Nobody}
    /\ otpSender \in [OtpSenders -> OtpSenderState]
    /\ otpVerifier \in [OtpVerifiers -> OtpVerifierState]
    /\ disturbed \subseteq {"sends", "lock", "delete"}
  BY DEF OtpTypeOK, OtpSenderState, OtpVerifierState

LEMMA OtpRowFacts ==
  ASSUME OtpTypeOK, NEW i \in DOMAIN otp
  PROVE  /\ otp[i] \in OtpRow /\ i \in OtpIds /\ i \in Nat /\ i # 0
         /\ otp[i].guesses \in Nat /\ otp[i].successes \in Nat /\ otp[i].lapsed \in BOOLEAN
  <1>1. otp \in Seq(OtpRow) /\ Len(otp) <= MaxOtps
    BY DEF OtpTypeOK
  <1>2. otp[i] \in OtpRow /\ i \in Nat /\ 1 <= i /\ i <= Len(otp) /\ Len(otp) \in Nat
    BY <1>1
  <1>3. i \in OtpIds
    BY <1>1, <1>2, OtpAssumption DEF OtpIds
  <1> QED
    BY <1>2, <1>3 DEF OtpRow

Ahead(old, new) ==
  /\ new \in OtpRow
  /\ old.lapsed => new.lapsed
  /\ old.status # "PENDING" => new.status # "PENDING"

(* The edits of a row: by a sender, by guesses and by time. *)
SentOn(old, new) ==
  Ahead(old, new) /\ new.guesses = old.guesses /\ new.successes = old.successes

LEMMA OtpEdits ==
  ASSUME NEW old \in OtpRow, NEW n \in Nat
  PROVE  /\ SentOn(old, old)
         /\ LET new == [old EXCEPT !.status = "DELETED"]
            IN SentOn(old, new) /\ new.status = "DELETED"
         /\ LET new == [old EXCEPT !.lapsed = TRUE] IN SentOn(old, new)
         /\ LET new == [old EXCEPT !.guesses = n]
            IN Ahead(old, new) /\ new.guesses = n /\ new.successes = old.successes
               /\ new.status = old.status
         /\ LET new == [old EXCEPT !.status = "VERIFIED", !.successes = old.successes + 1]
            IN /\ Ahead(old, new) /\ new.guesses = old.guesses
               /\ new.successes = old.successes + 1 /\ new.status = "VERIFIED"
  <1>1. [old EXCEPT !.status = "DELETED"] \in OtpRow
    BY DEF OtpRow
  <1>2. [old EXCEPT !.lapsed = TRUE] \in OtpRow
    BY DEF OtpRow
  <1>3. [old EXCEPT !.guesses = n] \in OtpRow
    BY DEF OtpRow
  <1>4. [old EXCEPT !.status = "VERIFIED", !.successes = old.successes + 1] \in OtpRow
    <2>1. old.successes + 1 \in Nat
      BY DEF OtpRow
    <2> QED BY <2>1 DEF OtpRow
  <1>5. SentOn(old, old)
    BY DEF SentOn, Ahead, OtpRow
  <1> QED BY <1>1, <1>2, <1>3, <1>4, <1>5 DEF SentOn, Ahead, OtpRow

SameIds == DOMAIN otp' = DOMAIN otp
RowsAhead ==
  /\ otp' \in Seq(OtpRow) /\ Len(otp') <= MaxOtps
  /\ DOMAIN otp \subseteq DOMAIN otp'
  /\ \A i \in DOMAIN otp : Ahead(otp[i], otp'[i])

(* The guesses at each row are as before, and there are none at a new one. *)
GuessesKept ==
  \A i \in DOMAIN otp' :
    otp'[i].guesses = IF i \in DOMAIN otp THEN otp[i].guesses ELSE 0
SuccessesKept ==
  \A i \in DOMAIN otp' :
    otp'[i].successes = IF i \in DOMAIN otp THEN otp[i].successes ELSE 0

LEMMA OtpsUpdated ==
  ASSUME OtpTypeOK, otp' = [i \in DOMAIN otp |-> otp'[i]],
         \A i \in DOMAIN otp : Ahead(otp[i], otp'[i])
  PROVE  RowsAhead /\ SameIds
  <1>1. otp \in Seq(OtpRow) /\ Len(otp) <= MaxOtps
    BY DEF OtpTypeOK
  <1>2. PICK n \in Nat : DOMAIN otp = 1 .. n /\ n = Len(otp)
    BY <1>1
  <1>3. otp' \in [1 .. n -> OtpRow]
    BY <1>2 DEF Ahead
  <1>4. otp' \in Seq(OtpRow) /\ DOMAIN otp' = 1 .. n /\ Len(otp') = n
    BY <1>2, <1>3
  <1> QED
    BY <1>1, <1>2, <1>4 DEF RowsAhead, SameIds

LEMMA OtpsKept ==
  ASSUME OtpTypeOK, otp' = otp
  PROVE  RowsAhead /\ SameIds /\ GuessesKept /\ SuccessesKept
  <1>1. \A i \in DOMAIN otp : Ahead(otp[i], otp'[i])
    BY OtpRowFacts DEF Ahead
  <1> QED BY <1>1 DEF RowsAhead, SameIds, GuessesKept, SuccessesKept, OtpTypeOK

(* Any rows, each as it was or edited by a sender. *)
LEMMA OtpsSentOn ==
  ASSUME OtpTypeOK, otp' = [i \in DOMAIN otp |-> otp'[i]],
         \A i \in DOMAIN otp : SentOn(otp[i], otp'[i])
  PROVE  RowsAhead /\ SameIds /\ GuessesKept /\ SuccessesKept
  BY OtpsUpdated DEF SentOn, GuessesKept, SuccessesKept, SameIds

(* One row. *)
LEMMA OneOtp ==
  ASSUME OtpTypeOK, NEW id \in DOMAIN otp, NEW row, otp' = [otp EXCEPT ![id] = row],
         Ahead(otp[id], row)
  PROVE  /\ RowsAhead /\ SameIds /\ otp'[id] = row
         /\ \A i \in DOMAIN otp \ {id} : otp'[i] = otp[i]
         /\ row.guesses = otp[id].guesses => GuessesKept
         /\ row.successes = otp[id].successes => SuccessesKept
  <1>1. /\ otp' = [i \in DOMAIN otp |-> otp'[i]] /\ otp'[id] = row
        /\ \A i \in DOMAIN otp \ {id} : otp'[i] = otp[i]
    OBVIOUS
  <1>2. \A i \in DOMAIN otp : Ahead(otp[i], otp'[i])
    BY <1>1, OtpRowFacts DEF Ahead
  <1>3. RowsAhead /\ SameIds
    BY <1>1, <1>2, OtpsUpdated
  <1> QED BY <1>1, <1>3 DEF GuessesKept, SuccessesKept, SameIds

(* A new row. *)
LEMMA NewOtp ==
  ASSUME OtpTypeOK, NEW s \in OtpSenders, CreateOtp(s)
  PROVE  LET n == Len(otp) + 1 IN
         /\ RowsAhead /\ GuessesKept /\ SuccessesKept
         /\ n \in OtpIds /\ n \notin DOMAIN otp /\ DOMAIN otp' = DOMAIN otp \cup {n}
         /\ \A i \in DOMAIN otp : i < n /\ otp'[i] = otp[i]
         /\ otp'[n].guesses = 0 /\ otp'[n].successes = 0
  <1> DEFINE row == [status |-> "PENDING", lapsed |-> FALSE, guesses |-> 0, successes |-> 0]
             n == Len(otp) + 1
  <1>1. otp \in Seq(OtpRow) /\ Len(otp) < MaxOtps /\ otp' = Append(otp, row)
    BY DEF OtpTypeOK, CreateOtp
  <1>2. row \in OtpRow /\ row.guesses = 0 /\ row.successes = 0
    BY DEF OtpRow
  <1> HIDE DEF row
  <1>3. /\ otp' \in Seq(OtpRow) /\ Len(otp') = n /\ DOMAIN otp' = DOMAIN otp \cup {n}
        /\ otp'[n] = row /\ n \notin DOMAIN otp
        /\ \A i \in DOMAIN otp : i < n /\ otp'[i] = otp[i]
    BY <1>1, <1>2
  <1>4. n \in OtpIds /\ Len(otp') <= MaxOtps
    BY <1>1, <1>3, OtpAssumption DEF OtpIds
  <1>5. \A i \in DOMAIN otp : Ahead(otp[i], otp'[i])
    BY <1>3, OtpRowFacts DEF Ahead
  <1> QED
    BY <1>2, <1>3, <1>4, <1>5 DEF RowsAhead, GuessesKept, SuccessesKept

-----------------------------------------------------------------------------
(* The steps of a request to send, all of which leave the verifications as  *)
(* they are.  "q" is what the request does next.                            *)

OtpSenderStep(s) ==
  \/ SendOtp(s) \/ DeleteUnverified(s) \/ ClearState(s) \/ CreateOtp(s) \/ CacheOtp(s)
  \/ SendStepFails(s) \/ UndoSend(s)

NoneAtWork == \A v \in OtpVerifiers : ~AtWork(otpVerifier[v])
NoPending == \A i \in DOMAIN otp : otp[i].status # "PENDING"

(* What it does to the cache. *)
SenderCaches(s, q) ==
  \/ /\ KeepOtpState /\ q.at # "Create"
     /\ q.at = "Cache" => otpSender[s].at = "Create" /\ otp'[q.id].guesses = 0
  \/ /\ DeleteOtpState /\ q.at # "Cache"
     /\ NoneAtWork \/ "delete" \in disturbed'
  \/ /\ otpSender[s].at = "Cache" /\ cachedOtp' = otpSender[s].id /\ UNCHANGED attempts
     /\ q.at \notin {"Create", "Cache"}

SenderEffect(s, q) ==
  /\ otpSender' = [otpSender EXCEPT ![s] = q]
  /\ SenderIds(q)'
  /\ RowsAhead /\ GuessesKept /\ SuccessesKept
  /\ UNCHANGED <<verifyLock, otpVerifier>>
  /\ cooldown' \in OtpSenders \cup {Nobody}
  /\ disturbed \subseteq disturbed' /\ disturbed' \subseteq {"sends", "lock", "delete"}
  /\ \/ q = Waiting \/ otpSender[s] # Waiting \/ "sends" \in disturbed'
     \/ \A t \in OtpSenders \ {s} : otpSender[t] = Waiting
  /\ SameIds \/ otpSender[s].at = "Create"
  /\ q.at \in {"DeleteState", "Create"} =>
       SameIds /\ (NoPending' \/ otpSender[s].at = "DeleteState")
  /\ SenderCaches(s, q)

LEMMA SenderFacts ==
  ASSUME OtpTypeOK, NEW s \in OtpSenders
  PROVE  /\ otpSender[s] \in OtpSenderState
         /\ otpSender[s].at # "Idle" <=> otpSender[s] # Waiting
         /\ otpSender[s].at \in {"Cache", "Undo"} => otpSender[s].id \in OtpIds \cup {0}
         /\ Waiting \in OtpSenderState /\ Waiting.at = "Idle"
         /\ cooldown \in OtpSenders \cup {Nobody}
         /\ disturbed \subseteq {"sends", "lock", "delete"}
  <1>1. otpSender[s] \in OtpSenderState
    BY OtpStates
  <1>2. otpSender[s].at # "Idle" <=> otpSender[s] # Waiting
    BY <1>1 DEF OtpSenderState, Waiting
  <1>3. otpSender[s].at \in {"Cache", "Undo"} => otpSender[s].id \in OtpIds \cup {0}
    BY <1>1 DEF OtpSenderState, Waiting
  <1> QED BY <1>1, <1>2, <1>3, OtpStates DEF OtpSenderState, Waiting

LEMMA SenderSteps ==
  ASSUME OtpTypeOK, OtpIdsInv, NEW s \in OtpSenders, OtpSenderStep(s)
  PROVE  \E q \in OtpSenderState : SenderEffect(s, q)
<1>1. /\ SenderIds(otpSender[s]) /\ otpSender[s] \in OtpSenderState
      /\ cooldown \in OtpSenders \cup {Nobody} /\ disturbed \subseteq {"sends", "lock", "delete"}
      /\ Waiting \in OtpSenderState /\ Waiting.at = "Idle"
  BY SenderFacts DEF OtpIdsInv
<1>2. \A at \in {"DeleteUnverified", "DeleteState", "Create"} :
        /\ [at |-> at] \in OtpSenderState /\ [at |-> at].at = at
        /\ SenderIds([at |-> at])'
  BY DEF OtpSenderState, SenderIds
<1>3. \A at \in {"Cache", "Undo"}, id \in OtpIds \cup {0} :
        /\ [at |-> at, id |-> id] \in OtpSenderState
        /\ [at |-> at, id |-> id].at = at /\ [at |-> at, id |-> id].id = id
  BY DEF OtpSenderState
<1>4. SenderIds(Waiting)'
  BY <1>1 DEF SenderIds
<1>5. CASE SendOtp(s)
  <2> DEFINE q == [at |-> "DeleteUnverified"]
  <2>1. q \in OtpSenderState /\ q.at = "DeleteUnverified" /\ SenderIds(q)'
    BY <1>2
  <2>2. /\ otpSender' = [otpSender EXCEPT ![s] = q] /\ KeepOtpState /\ otp' = otp /\ cooldown' = s
        /\ disturbed' = disturbed \cup
             {d \in {"sends"} : \E t \in OtpSenders \ {s} : otpSender[t] # Waiting}
        /\ UNCHANGED <<verifyLock, otpVerifier>>
    BY <1>5 DEF SendOtp, Sending, NextSend
  <2> HIDE DEF q
  <2>3. SenderEffect(s, q)
    BY <1>1, <2>1, <2>2, OtpsKept DEF SenderEffect, SenderCaches
  <2> QED BY <2>1, <2>3
<1>6. CASE DeleteUnverified(s)
  <2> DEFINE q == [at |-> "DeleteState"]
  <2>1. q \in OtpSenderState /\ q.at = "DeleteState" /\ SenderIds(q)'
    BY <1>2
  <2>2. /\ otpSender' = [otpSender EXCEPT ![s] = q] /\ KeepOtpState /\ UNCHANGED <<cooldown, disturbed>>
        /\ UNCHANGED <<verifyLock, otpVerifier>> /\ otpSender[s].at = "DeleteUnverified"
        /\ otp' = [i \in DOMAIN otp |->
             IF Unverified(i) THEN [otp[i] EXCEPT !.status = "DELETED"] ELSE otp[i]]
    BY <1>6 DEF DeleteUnverified, Sending, NextSend
  <2> HIDE DEF q
  <2>3. ASSUME NEW i \in DOMAIN otp
        PROVE  SentOn(otp[i], otp'[i]) /\ otp'[i].status # "PENDING"
    <3> DEFINE new == [otp[i] EXCEPT !.status = "DELETED"]
    <3>1. SentOn(otp[i], otp[i]) /\ SentOn(otp[i], new) /\ new.status = "DELETED"
      BY OtpRowFacts, OtpEdits
    <3>2. otp'[i] = new \/ (otp'[i] = otp[i] /\ otp[i].status # "PENDING")
      BY <2>2 DEF Unverified
    <3> HIDE DEF new
    <3> QED BY <3>1, <3>2
  <2>4. RowsAhead /\ SameIds /\ GuessesKept /\ SuccessesKept
    BY <2>2, <2>3, OtpsSentOn
  <2>5. NoPending'
    BY <2>3, <2>4 DEF NoPending, SameIds
  <2>6. SenderEffect(s, q)
    BY <1>1, <2>1, <2>2, <2>4, <2>5 DEF SenderEffect, SenderCaches
  <2> QED BY <2>1, <2>6
<1>7. CASE ClearState(s)
  <2> DEFINE q == [at |-> "Create"]
  <2>1. q \in OtpSenderState /\ q.at = "Create" /\ SenderIds(q)'
    BY <1>2
  <2>2. /\ otpSender' = [otpSender EXCEPT ![s] = q] /\ SenderDeletes /\ UNCHANGED <<otp, cooldown>>
        /\ UNCHANGED <<verifyLock, otpVerifier>> /\ otpSender[s].at = "DeleteState"
    BY <1>7 DEF ClearState, Sending, NextSend
  <2> HIDE DEF q
  <2>3. /\ DeleteOtpState /\ disturbed \subseteq disturbed' /\ disturbed' \subseteq disturbed \cup {"delete"}
        /\ NoneAtWork \/ "delete" \in disturbed'
    BY <2>2 DEF SenderDeletes, NoneAtWork, AtWork
  <2>4. SenderEffect(s, q)
    BY <1>1, <2>1, <2>2, <2>3, OtpsKept DEF SenderEffect, SenderCaches
  <2> QED BY <2>1, <2>4
<1>8. CASE CreateOtp(s)
  <2> DEFINE n == Len(otp) + 1
  <2>1. /\ RowsAhead /\ GuessesKept /\ SuccessesKept
        /\ n \in OtpIds /\ n \in DOMAIN otp' /\ otp'[n].guesses = 0
    BY <1>8, NewOtp
  <2>2. PICK q \in OtpSenderState : q = [at |-> "Cache", id |-> n] /\ q.at = "Cache" /\ q.id = n
    BY <1>3, <2>1
  <2>3. /\ otpSender' = [otpSender EXCEPT ![s] = q] /\ KeepOtpState
        /\ UNCHANGED <<cooldown, disturbed, verifyLock, otpVerifier>> /\ otpSender[s].at = "Create"
    BY <1>8, <2>2 DEF CreateOtp, Sending, NextSend
  <2> HIDE DEF n
  <2>4. SenderIds(q)'
    BY <2>1, <2>2 DEF SenderIds
  <2>5. SenderEffect(s, q)
    BY <1>1, <2>1, <2>2, <2>3, <2>4 DEF SenderEffect, SenderCaches
  <2> QED BY <2>2, <2>5
<1>9. CASE CacheOtp(s)
  <2>1. /\ otpSender[s].at = "Cache" /\ cachedOtp' = otpSender[s].id /\ UNCHANGED attempts
        /\ UNCHANGED <<otp, cooldown, disturbed, verifyLock, otpVerifier>>
        /\ NextSend(s, Waiting) \/ NextSend(s, [at |-> "Undo", id |-> otpSender[s].id])
    BY <1>9 DEF CacheOtp, Sending, FailedSend
  <2>2. otpSender[s].id \in DOMAIN otp /\ otpSender[s].id \in OtpIds \cup {0}
    BY <1>1, <2>1, SenderFacts DEF SenderIds
  <2>3. ASSUME NEW q \in OtpSenderState, NextSend(s, q), SenderIds(q)',
               q.at \notin {"DeleteState", "Create", "Cache"}
        PROVE  SenderEffect(s, q)
    BY <1>1, <2>1, <2>3, OtpsKept DEF SenderEffect, SenderCaches, NextSend
  <2>4. CASE NextSend(s, Waiting)
    BY <1>1, <1>4, <2>3, <2>4
  <2>5. CASE NextSend(s, [at |-> "Undo", id |-> otpSender[s].id])
    <3>1. PICK q \in OtpSenderState :
            /\ q = [at |-> "Undo", id |-> otpSender[s].id]
            /\ q.at = "Undo" /\ q.id = otpSender[s].id
      BY <1>3, <2>2
    <3>2. SenderIds(q)'
      BY <2>1, <2>2, <3>1 DEF SenderIds
    <3>3. NextSend(s, q)
      BY <2>5, <3>1
    <3> QED BY <2>3, <3>1, <3>2, <3>3
  <2> QED BY <2>1, <2>4, <2>5
<1>10. CASE SendStepFails(s)
  <2> DEFINE id == IF otpSender[s].at = "Cache" THEN otpSender[s].id ELSE 0
  <2>1. /\ NextSend(s, [at |-> "Undo", id |-> id]) /\ KeepOtpState /\ otpSender[s] # Waiting
        /\ UNCHANGED <<otp, cooldown, disturbed, verifyLock, otpVerifier>>
    BY <1>1, <1>10 DEF SendStepFails, Sending, FailedSend
  <2>2. id \in DOMAIN otp \cup {0} /\ id \in OtpIds \cup {0}
    BY <1>1, SenderFacts DEF SenderIds
  <2> HIDE DEF id
  <2>3. PICK q \in OtpSenderState : q = [at |-> "Undo", id |-> id] /\ q.at = "Undo" /\ q.id = id
    BY <1>3, <2>2
  <2>4. SenderIds(q)'
    BY <2>1, <2>2, <2>3 DEF SenderIds
  <2>5. SenderEffect(s, q)
    BY <1>1, <2>1, <2>3, <2>4, OtpsKept DEF SenderEffect, SenderCaches, NextSend
  <2> QED BY <2>3, <2>5
<1>11. CASE UndoSend(s)
  <2>1. /\ otpSender[s].at = "Undo" /\ NextSend(s, Waiting) /\ UNCHANGED <<verifyLock, otpVerifier>>
        /\ SenderDeletes \/ (KeepOtpState /\ UNCHANGED disturbed)
        /\ cooldown' \in {cooldown, Nobody}
        /\ \/ UNCHANGED otp
           \/ otpSender[s].id # 0 /\ otp' = [otp EXCEPT ![otpSender[s].id].status = "DELETED"]
    BY <1>11 DEF UndoSend, Sending
  <2>2. RowsAhead /\ SameIds /\ GuessesKept /\ SuccessesKept
    <3>1. CASE UNCHANGED otp
      BY <3>1, OtpsKept
    <3>2. CASE otpSender[s].id # 0 /\ otp' = [otp EXCEPT ![otpSender[s].id].status = "DELETED"]
      <4>1. PICK id \in DOMAIN otp : id = otpSender[s].id
        BY <1>1, <2>1, <3>2 DEF SenderIds
      <4> DEFINE new == [otp[id] EXCEPT !.status = "DELETED"]
      <4>2. SentOn(otp[id], new)
        BY OtpRowFacts, OtpEdits
      <4>3. otp' = [otp EXCEPT ![id] = new]
        BY <3>2, <4>1
      <4> HIDE DEF new
      <4> QED BY <4>2, <4>3, OneOtp DEF SentOn
    <3> QED BY <2>1, <3>1, <3>2
  <2>3. /\ disturbed \subseteq disturbed' /\ disturbed' \subseteq disturbed \cup {"delete"}
        /\ KeepOtpState \/ (DeleteOtpState /\ (NoneAtWork \/ "delete" \in disturbed'))
    BY <2>1 DEF SenderDeletes, NoneAtWork, AtWork
  <2>4. SenderEffect(s, Waiting)
    BY <1>1, <1>4, <2>1, <2>2, <2>3 DEF SenderEffect, SenderCaches, NextSend
  <2> QED BY <1>1, <2>4
<1> QED BY <1>5, <1>6, <1>7, <1>8, <1>9, <1>10, <1>11 DEF OtpSenderStep

-----------------------------------------------------------------------------
(* The steps of a verification, and of time. *)

OtpVerifierStep(v) ==
  \/ AcquireVerifyLock(v) \/ ReadCachedOtp(v) \/ CountAttempts(v) \/ WrongGuess(v)
  \/ RightGuess(v) \/ DropOtpState(v) \/ VerifyFails(v) \/ ReleaseVerifyLock(v)

(* A row is used only while it is pending, and then it is not any more.     *)
UsedIfPending(old, new) ==
  \/ new.successes = old.successes
  \/ old.status = "PENDING" /\ new.status # "PENDING" /\ new.successes = old.successes + 1

VerifierLocks(v, q) ==
  \/ verifyLock' = verifyLock /\ otpVerifier[v] # Waiting
  \/ verifyLock = Nobody /\ verifyLock' = v
  \/ q = Waiting /\ verifyLock = v /\ verifyLock' = Nobody

(* Another wrong guess at the row that is being verified. *)
GuessedWrong(v) ==
  LET id == otpVerifier[v].id IN
  /\ otpVerifier[v].at = "Verify"
  /\ attempts' = [count |-> attempts.count + 1,
                  of |-> IF attempts.count = 0 THEN id ELSE attempts.of]
  /\ otp'[id].guesses = IF otp[id].lapsed THEN otp[id].guesses ELSE otp[id].guesses + 1
  /\ \A i \in DOMAIN otp \ {id} : otp'[i].guesses = otp[i].guesses
  /\ UNCHANGED cachedOtp

VerifierCounts(v, q) ==
  \/ /\ KeepOtpState /\ GuessesKept
     /\ AtWork(q) => /\ AtWork(otpVerifier[v]) /\ q.id = otpVerifier[v].id
                     /\ q.at = "Verify" => attempts.count < MaxAttempts
  \/ /\ KeepOtpState /\ GuessesKept
     /\ cachedOtp # 0 /\ q.at = "Count" /\ q.id = cachedOtp
  \/ DeleteOtpState /\ GuessesKept /\ ~AtWork(q) /\ otpVerifier[v] # Waiting
  \/ GuessedWrong(v) /\ ~AtWork(q)

VerifierEffect(v, q) ==
  /\ otpVerifier' = [otpVerifier EXCEPT ![v] = q]
  /\ AtWork(q) => q.id \in DOMAIN otp
  /\ RowsAhead /\ SameIds
  /\ \A i \in DOMAIN otp : UsedIfPending(otp[i], otp'[i])
  /\ UNCHANGED <<cooldown, otpSender, disturbed>>
  /\ VerifierLocks(v, q)
  /\ VerifierCounts(v, q)

LEMMA VerifierFacts ==
  ASSUME OtpTypeOK, NEW v \in OtpVerifiers
  PROVE  /\ otpVerifier[v] \in OtpVerifierState
         /\ otpVerifier[v].at # "Idle" <=> otpVerifier[v] # Waiting
         /\ AtWork(otpVerifier[v]) =>
              otpVerifier[v] \in [at: {"Count", "Verify"}, id: OtpIds]
         /\ Waiting \in OtpVerifierState /\ Waiting.at = "Idle" /\ ~AtWork(Waiting)
         /\ attempts.count \in Nat /\ cachedOtp \in OtpIds \cup {0}
  <1>1. otpVerifier[v] \in OtpVerifierState
    BY OtpStates
  <1>2. otpVerifier[v].at # "Idle" <=> otpVerifier[v] # Waiting
    BY <1>1 DEF OtpVerifierState, Waiting
  <1>3. AtWork(otpVerifier[v]) => otpVerifier[v] \in [at: {"Count", "Verify"}, id: OtpIds]
    BY <1>1 DEF OtpVerifierState, Waiting, AtWork
  <1> QED BY <1>1, <1>2, <1>3, OtpStates DEF OtpVerifierState, Waiting, AtWork

LEMMA VerifierSteps ==
  ASSUME OtpTypeOK, OtpIdsInv, NEW v \in OtpVerifiers, OtpVerifierStep(v)
  PROVE  \E q \in OtpVerifierState : VerifierEffect(v, q)
<1>1. /\ otpVerifier[v] \in OtpVerifierState /\ Waiting \in OtpVerifierState
      /\ Waiting.at = "Idle" /\ ~AtWork(Waiting) /\ attempts.count \in Nat
      /\ AtWork(otpVerifier[v]) => otpVerifier[v].id \in DOMAIN otp
  BY VerifierFacts DEF OtpIdsInv
<1>2. \A at \in {"Read", "Release", "Drop"} :
        [at |-> at] \in OtpVerifierState /\ ~AtWork([at |-> at])
  BY DEF OtpVerifierState, AtWork
<1>3. otp' = otp => /\ RowsAhead /\ SameIds /\ GuessesKept
                    /\ \A i \in DOMAIN otp : UsedIfPending(otp[i], otp'[i])
  BY OtpsKept DEF UsedIfPending
<1>4. CASE AcquireVerifyLock(v)
  BY <1>2, <1>3, <1>4 DEF AcquireVerifyLock, Verifying, NextVerify, VerifierEffect, VerifierLocks,
     VerifierCounts
<1>5. CASE ReadCachedOtp(v)
  <2>1. /\ otpVerifier[v] # Waiting /\ UNCHANGED <<otp, verifyLock, cooldown, otpSender, disturbed>>
        /\ KeepOtpState
        /\ \/ NextVerify(v, [at |-> "Release"]) \/ NextVerify(v, [at |-> "Drop"])
           \/ cachedOtp # 0 /\ NextVerify(v, [at |-> "Count", id |-> cachedOtp])
    BY <1>1, <1>5 DEF ReadCachedOtp, Verifying, VerifyEnds
  <2>2. ASSUME NEW at \in {"Release", "Drop"}, NextVerify(v, [at |-> at])
        PROVE  VerifierEffect(v, [at |-> at]) /\ [at |-> at] \in OtpVerifierState
    BY <1>2, <1>3, <2>1, <2>2 DEF NextVerify, VerifierEffect, VerifierLocks, VerifierCounts
  <2>3. CASE cachedOtp # 0 /\ NextVerify(v, [at |-> "Count", id |-> cachedOtp])
    <3>1. cachedOtp \in DOMAIN otp /\ cachedOtp \in OtpIds
      BY <2>3, OtpRowFacts DEF OtpIdsInv
    <3>2. PICK q \in OtpVerifierState :
            q = [at |-> "Count", id |-> cachedOtp] /\ q.at = "Count" /\ q.id = cachedOtp
      <4>1. [at |-> "Count", id |-> cachedOtp] \in OtpVerifierState
        BY <3>1 DEF OtpVerifierState
      <4> QED BY <4>1
    <3>3. VerifierEffect(v, q)
      BY <1>3, <2>1, <2>3, <3>1, <3>2 DEF NextVerify, VerifierEffect, VerifierLocks, VerifierCounts
    <3> QED BY <3>3
  <2> QED BY <2>1, <2>2, <2>3
<1>6. CASE CountAttempts(v)
  <2>1. /\ otpVerifier[v].at = "Count" /\ UNCHANGED <<otp, verifyLock, cooldown, otpSender, disturbed>>
        /\ KeepOtpState
        /\ \/ NextVerify(v, [at |-> "Drop"])
           \/ ~Exceeded(attempts.count) /\ NextVerify(v, [otpVerifier[v] EXCEPT !.at = "Verify"])
    BY <1>6 DEF CountAttempts, Verifying
  <2>2. otpVerifier[v] # Waiting
    BY <1>1, <2>1
  <2>3. CASE NextVerify(v, [at |-> "Drop"])
    BY <1>2, <1>3, <2>1, <2>2, <2>3 DEF NextVerify, VerifierEffect, VerifierLocks, VerifierCounts
  <2>4. CASE ~Exceeded(attempts.count) /\ NextVerify(v, [otpVerifier[v] EXCEPT !.at = "Verify"])
    <3>1. /\ otpVerifier[v] \in [at: {"Count", "Verify"}, id: OtpIds] /\ AtWork(otpVerifier[v])
          /\ attempts.count < MaxAttempts
      BY <1>1, <2>1, <2>4, VerifierFacts, OtpAssumption DEF AtWork, Exceeded
    <3>2. PICK q \in OtpVerifierState :
            q = [otpVerifier[v] EXCEPT !.at = "Verify"] /\ q.at = "Verify" /\ q.id = otpVerifier[v].id
      <4> DEFINE q == [otpVerifier[v] EXCEPT !.at = "Verify"]
      <4>1. q \in [at: {"Count", "Verify"}, id: OtpIds] /\ q.at = "Verify" /\ q.id = otpVerifier[v].id
        BY <3>1
      <4>2. q \in OtpVerifierState
        BY <4>1 DEF OtpVerifierState
      <4> QED BY <4>1, <4>2
    <3>3. VerifierEffect(v, q)
      BY <1>1, <1>3, <2>1, <2>2, <2>4, <3>1, <3>2
         DEF NextVerify, VerifierEffect, VerifierLocks, VerifierCounts
    <3> QED BY <3>3
  <2> QED BY <2>1, <2>3, <2>4
<1>7. CASE WrongGuess(v)
  <2>1. PICK id \in DOMAIN otp : id = otpVerifier[v].id /\ otpVerifier[v].at = "Verify"
    BY <1>1, <1>7 DEF WrongGuess, Verifying, AtWork
  <2>2. PICK at \in {"Drop", "Release"} :
          /\ NextVerify(v, [at |-> at])
          /\ attempts' = [count |-> attempts.count + 1,
                          of |-> IF attempts.count = 0 THEN id ELSE attempts.of]
          /\ otp' = [otp EXCEPT ![id].guesses = IF otp[id].lapsed THEN @ ELSE @ + 1]
          /\ UNCHANGED <<cachedOtp, verifyLock, cooldown, otpSender, disturbed>>
    BY <1>7, <2>1 DEF WrongGuess, Verifying
  <2> DEFINE n == IF otp[id].lapsed THEN otp[id].guesses ELSE otp[id].guesses + 1
             new == [otp[id] EXCEPT !.guesses = n]
  <2>3. n \in Nat /\ otp[id] \in OtpRow
    BY OtpRowFacts
  <2>4. Ahead(otp[id], new) /\ new.guesses = n /\ new.successes = otp[id].successes
    BY <2>3, OtpEdits
  <2>5. otp' = [otp EXCEPT ![id] = new]
    BY <2>2
  <2> HIDE DEF new
  <2>6. /\ RowsAhead /\ SameIds /\ otp'[id] = new /\ \A i \in DOMAIN otp \ {id} : otp'[i] = otp[i]
    BY <2>4, <2>5, OneOtp
  <2>7. \A i \in DOMAIN otp : UsedIfPending(otp[i], otp'[i])
    BY <2>4, <2>6 DEF UsedIfPending
  <2>8. GuessedWrong(v)
    BY <2>1, <2>2, <2>4, <2>6 DEF GuessedWrong
  <2>9. VerifierEffect(v, [at |-> at])
    BY <1>1, <1>2, <2>1, <2>2, <2>6, <2>7, <2>8
       DEF NextVerify, VerifierEffect, VerifierLocks, VerifierCounts
  <2> QED BY <1>2, <2>9
<1>8. CASE RightGuess(v)
  <2>1. PICK id \in DOMAIN otp : id = otpVerifier[v].id /\ otpVerifier[v].at = "Verify"
    BY <1>1, <1>8 DEF RightGuess, Verifying, AtWork
  <2>2. /\ NextVerify(v, [at |-> "Drop"]) /\ KeepOtpState
        /\ UNCHANGED <<verifyLock, cooldown, otpSender, disturbed>>
        /\ \/ otp' = otp
           \/ /\ otp[id].status = "PENDING"
              /\ otp' = [otp EXCEPT ![id].status = "VERIFIED", ![id].successes = @ + 1]
    BY <1>8, <2>1 DEF RightGuess, Verifying, PendingRow
  <2>3. /\ RowsAhead /\ SameIds /\ GuessesKept
        /\ \A i \in DOMAIN otp : UsedIfPending(otp[i], otp'[i])
    <3>1. CASE otp' = otp
      BY <1>3, <3>1
    <3>2. CASE otp[id].status = "PENDING" /\ otp' = [otp EXCEPT ![id].status = "VERIFIED", ![id].successes = @ + 1]
      <4> DEFINE new == [otp[id] EXCEPT !.status = "VERIFIED", !.successes = otp[id].successes + 1]
      <4>1. /\ Ahead(otp[id], new) /\ new.guesses = otp[id].guesses /\ new.status = "VERIFIED"
            /\ new.successes = otp[id].successes + 1
        BY OtpRowFacts, OtpEdits
      <4>2. otp' = [otp EXCEPT ![id] = new]
        BY <3>2
      <4> HIDE DEF new
      <4>3. /\ RowsAhead /\ SameIds /\ otp'[id] = new /\ GuessesKept
            /\ \A i \in DOMAIN otp \ {id} : otp'[i] = otp[i]
        BY <4>1, <4>2, OneOtp
      <4> QED BY <3>2, <4>1, <4>3 DEF UsedIfPending
    <3> QED BY <2>2, <3>1, <3>2
  <2>4. VerifierEffect(v, [at |-> "Drop"])
    BY <1>1, <1>2, <2>1, <2>2, <2>3 DEF NextVerify, VerifierEffect, VerifierLocks, VerifierCounts
  <2> QED BY <1>2, <2>4
<1>9. CASE DropOtpState(v) \/ VerifyFails(v)
  <2>1. /\ otpVerifier[v].at # "Idle" /\ UNCHANGED <<otp, verifyLock, cooldown, otpSender, disturbed>>
        /\ NextVerify(v, [at |-> "Release"]) /\ (DeleteOtpState \/ KeepOtpState)
    BY <1>9 DEF DropOtpState, VerifyFails, Verifying, VerifyEnds
  <2>2. VerifierEffect(v, [at |-> "Release"])
    BY <1>1, <1>2, <1>3, <2>1 DEF NextVerify, VerifierEffect, VerifierLocks, VerifierCounts
  <2> QED BY <1>2, <2>2
<1>10. CASE ReleaseVerifyLock(v)
  <2>1. /\ otpVerifier[v] # Waiting /\ UNCHANGED <<otp, cooldown, otpSender, disturbed>>
        /\ NextVerify(v, Waiting) /\ KeepOtpState
        /\ verifyLock' = verifyLock \/ (verifyLock = v /\ verifyLock' = Nobody)
    BY <1>1, <1>10 DEF ReleaseVerifyLock, Verifying
  <2>2. VerifierEffect(v, Waiting)
    BY <1>1, <1>3, <2>1 DEF NextVerify, VerifierEffect, VerifierLocks, VerifierCounts
  <2> QED BY <1>1, <2>2
<1> QED BY <1>4, <1>5, <1>6, <1>7, <1>8, <1>9, <1>10 DEF OtpVerifierStep

(* Time moves nobody; what it takes from the cache has lapsed.              *)
OtpTime ==
  \/ CooldownLapses \/ VerifyLockLapses \/ KeysLapse
  \/ \E i \in DOMAIN otp : OtpLapses(i)

TimeTakes ==
  \/ KeepOtpState
  \/ cachedOtp # 0 /\ otp[cachedOtp].lapsed /\ cachedOtp' = 0 /\ UNCHANGED attempts
  \/ attempts.of # 0 /\ otp[attempts.of].lapsed /\ attempts' = NoAttempts /\ UNCHANGED cachedOtp

LEMMA TimeSteps ==
  ASSUME OtpTypeOK, OtpTime
  PROVE  /\ UNCHANGED <<otpSender, otpVerifier>>
         /\ RowsAhead /\ SameIds /\ GuessesKept /\ SuccessesKept
         /\ cooldown' \in {cooldown, Nobody}
         /\ \/ UNCHANGED <<verifyLock, disturbed>>
            \/ /\ verifyLock \in OtpVerifiers /\ verifyLock' = Nobody
               /\ disturbed' \in {disturbed, disturbed \cup {"lock"}}
               /\ otpVerifier[verifyLock] = Waiting \/ "lock" \in disturbed'
         /\ TimeTakes
<1>1. CASE CooldownLapses
  BY <1>1, OtpsKept DEF CooldownLapses, TimeTakes, KeepOtpState
<1>2. CASE VerifyLockLapses
  <2>1. verifyLock \in OtpVerifiers
    BY <1>2, OtpStates DEF VerifyLockLapses
  <2>2. /\ disturbed' \in {disturbed, disturbed \cup {"lock"}}
        /\ otpVerifier[verifyLock] = Waiting \/ "lock" \in disturbed'
    BY <1>2 DEF VerifyLockLapses
  <2> QED BY <1>2, <2>1, <2>2, OtpsKept DEF VerifyLockLapses, TimeTakes, KeepOtpState
<1>3. CASE KeysLapse
  BY <1>3, OtpsKept DEF KeysLapse, TimeTakes
<1>4. ASSUME NEW i \in DOMAIN otp, OtpLapses(i)
      PROVE  /\ RowsAhead /\ SameIds /\ GuessesKept /\ SuccessesKept
             /\ UNCHANGED <<cachedOtp, attempts, cooldown, verifyLock, otpSender, otpVerifier, disturbed>>
  <2> DEFINE new == [otp[i] EXCEPT !.lapsed = TRUE]
  <2>1. SentOn(otp[i], new)
    BY OtpRowFacts, OtpEdits
  <2>2. otp' = [otp EXCEPT ![i] = new]
    BY <1>4 DEF OtpLapses
  <2> HIDE DEF new
  <2> QED BY <1>4, <2>1, <2>2, OneOtp DEF SentOn, OtpLapses
<1> QED BY <1>1, <1>2, <1>3, <1>4 DEF OtpTime, TimeTakes, KeepOtpState

-----------------------------------------------------------------------------
(* The invariant. *)

(* Unless sends overlapped there is one at a time; from its deletion of the *)
(* unverified OTPs until it creates one, none is pending.                   *)
OneSends ==
  "sends" \notin disturbed =>
    /\ \A s, t \in OtpSenders :
         otpSender[s] # Waiting /\ otpSender[t] # Waiting => s = t
    /\ \A s \in OtpSenders : otpSender[s].at \in {"DeleteState", "Create"} => NoPending

(* Unless a verification outlived its lock, the one there is holds it.      *)
OneVerifies ==
  "lock" \notin disturbed =>
    \A v \in OtpVerifiers : otpVerifier[v] # Waiting => verifyLock = v

UsedInv ==
  \A i \in DOMAIN otp :
    otp[i].successes <= 1 /\ (otp[i].status = "PENDING" => otp[i].successes = 0)

(* What is being verified is what is cached, or it lapsed since.            *)
Verified(v) ==
  AtWork(otpVerifier[v]) =>
    /\ \/ otpVerifier[v].id = cachedOtp
       \/ cachedOtp = 0 /\ otp[otpVerifier[v].id].lapsed
    /\ otpVerifier[v].at = "Verify" => attempts.count < MaxAttempts

(* A new OTP is not in the cache, and neither is anything of an older one.  *)
Fresh(s) ==
  otpSender[s].at \in {"Create", "Cache"} =>
    /\ cachedOtp = 0 /\ attempts = NoAttempts /\ NoneAtWork
    /\ otpSender[s].at = "Cache" => otp[otpSender[s].id].guesses = 0

(* The counter is of the OTP that is cached, or of one that lapsed, and has *)
(* counted every guess at what can still be used.                           *)
CounterInv ==
  /\ attempts.of = 0 <=> attempts.count = 0
  /\ attempts.of # 0 => \/ cachedOtp = attempts.of
                        \/ cachedOtp = 0 /\ otp[attempts.of].lapsed
  /\ cachedOtp # 0 /\ ~otp[cachedOtp].lapsed => otp[cachedOtp].guesses <= attempts.count

GuessInv ==
  disturbed = {} =>
    /\ \A v \in OtpVerifiers : Verified(v)
    /\ \A s \in OtpSenders : Fresh(s)
    /\ CounterInv
    /\ \A i \in DOMAIN otp : otp[i].guesses <= MaxAttempts

OtpBase == OtpTypeOK /\ OtpIdsInv
OtpInv == OtpBase /\ OneSends /\ OnlyNewestOtp /\ OneVerifies /\ UsedInv /\ GuessInv

LEMMA RowsUsed ==
  ASSUME OtpTypeOK, UsedInv, RowsAhead,
         \/ SuccessesKept
         \/ SameIds /\ \A i \in DOMAIN otp : UsedIfPending(otp[i], otp'[i])
  PROVE  UsedInv'
<1>1. ASSUME NEW i \in DOMAIN otp'
      PROVE  otp'[i].successes <= 1 /\ (otp'[i].status = "PENDING" => otp'[i].successes = 0)
  <2>1. CASE i \notin DOMAIN otp
    BY <2>1 DEF SuccessesKept, SameIds
  <2>2. CASE i \in DOMAIN otp
    <3>1. /\ otp[i].successes \in Nat /\ otp[i].successes <= 1
          /\ otp[i].status = "PENDING" => otp[i].successes = 0
          /\ otp[i].status # "PENDING" => otp'[i].status # "PENDING"
      BY <2>2, OtpRowFacts DEF UsedInv, RowsAhead, Ahead
    <3>2. otp'[i].successes = otp[i].successes \/ UsedIfPending(otp[i], otp'[i])
      BY <2>2 DEF SuccessesKept
    <3> QED BY <3>1, <3>2 DEF UsedIfPending
  <2> QED BY <2>1, <2>2
<1> QED BY <1>1 DEF UsedInv

(* The steps of a request to send. *)
LEMMA SenderInv ==
  ASSUME OtpInv, NEW s \in OtpSenders, NEW q \in OtpSenderState, SenderEffect(s, q)
  PROVE  OtpBase' /\ OneSends' /\ OneVerifies' /\ UsedInv'
<1>1. /\ otpSender' \in [OtpSenders -> OtpSenderState] /\ otpSender'[s] = q
      /\ \A t \in OtpSenders \ {s} : otpSender'[t] = otpSender[t]
      /\ OtpTypeOK /\ OtpIdsInv
  BY OtpStates DEF OtpInv, OtpBase, SenderEffect
<1>2. /\ cachedOtp' \in DOMAIN otp \cup {0} /\ cachedOtp' \in OtpIds \cup {0}
      /\ attempts' \in [count: Nat, of: OtpIds \cup {0}] /\ attempts'.of \in DOMAIN otp \cup {0}
  <2>1. CASE KeepOtpState
    BY <1>1, <2>1, OtpStates DEF KeepOtpState, OtpIdsInv
  <2>2. CASE DeleteOtpState
    BY <2>2 DEF DeleteOtpState, NoAttempts
  <2>3. CASE otpSender[s].at = "Cache" /\ cachedOtp' = otpSender[s].id /\ UNCHANGED attempts
    <3>1. otpSender[s].id \in DOMAIN otp
      BY <1>1, <2>3 DEF OtpIdsInv, SenderIds
    <3> QED BY <1>1, <2>3, <3>1, OtpStates, OtpRowFacts DEF OtpIdsInv
  <2> QED BY <2>1, <2>2, <2>3 DEF SenderEffect, SenderCaches
<1>3. OtpTypeOK'
  BY <1>1, <1>2 DEF SenderEffect, RowsAhead, OtpTypeOK, OtpSenderState
<1>4. OtpIdsInv'
  <2>1. DOMAIN otp \subseteq DOMAIN otp'
    BY DEF SenderEffect, RowsAhead
  <2>2. ASSUME NEW t \in OtpSenders PROVE SenderIds(otpSender[t])'
    BY <1>1, <2>1 DEF SenderEffect, SenderIds, OtpIdsInv
  <2> QED BY <1>1, <1>2, <2>1, <2>2 DEF SenderEffect, OtpIdsInv
<1>5. OneSends'
  <2> SUFFICES ASSUME "sends" \notin disturbed'
               PROVE  /\ \A t, u \in OtpSenders :
                           otpSender'[t] # Waiting /\ otpSender'[u] # Waiting => t = u
                      /\ \A t \in OtpSenders : otpSender'[t].at \in {"DeleteState", "Create"} => NoPending'
    BY DEF OneSends
  <2>1. /\ "sends" \notin disturbed
        /\ q = Waiting \/ \A t \in OtpSenders \ {s} : otpSender[t] = Waiting
    BY DEF SenderEffect, OtpInv, OneSends
  <2>2. \A t, u \in OtpSenders : otpSender'[t] # Waiting /\ otpSender'[u] # Waiting => t = u
    BY <1>1, <2>1 DEF OtpInv, OneSends
  <2>3. otpSender[s].at = "DeleteState" => NoPending
    BY <2>1 DEF OtpInv, OneSends
  <2>4. q.at \in {"DeleteState", "Create"} => NoPending'
    BY <2>3 DEF SenderEffect, NoPending, SameIds, RowsAhead, Ahead
  <2>5. ASSUME NEW t \in OtpSenders \ {s}, otpSender[t].at \in {"DeleteState", "Create"}
        PROVE  NoPending'
    <3>1. otpSender[t] # Waiting /\ NoPending
      BY <2>1, <2>5 DEF OtpInv, OneSends, Waiting
    <3>2. otpSender[s] = Waiting
      BY <2>1, <3>1 DEF OtpInv, OneSends
    <3>3. otpSender[s].at # "Create"
      BY <3>2 DEF Waiting
    <3> QED BY <3>1, <3>3 DEF SenderEffect, NoPending, SameIds, RowsAhead, Ahead
  <2> QED BY <1>1, <2>2, <2>4, <2>5
<1>6. OneVerifies'
  BY DEF OtpInv, OneVerifies, SenderEffect
<1>7. UsedInv'
  BY <1>1, RowsUsed DEF OtpInv, SenderEffect
<1> QED BY <1>3, <1>4, <1>5, <1>6, <1>7 DEF OtpBase

LEMMA SenderNewest ==
  ASSUME OtpInv, NEW s \in OtpSenders, NEW q \in OtpSenderState, SenderEffect(s, q),
         SameIds \/ CreateOtp(s)
  PROVE  OnlyNewestOtp'
<1> SUFFICES ASSUME "sends" \notin disturbed', NEW i \in DOMAIN otp', NEW j \in DOMAIN otp', i < j
             PROVE  otp'[i].status # "PENDING"
  BY DEF OnlyNewestOtp
<1>1. OtpTypeOK /\ "sends" \notin disturbed /\ RowsAhead
  BY DEF OtpInv, OtpBase, SenderEffect
<1>2. CASE SameIds
  BY <1>1, <1>2 DEF OtpInv, OnlyNewestOtp, SameIds, RowsAhead, Ahead
<1>3. CASE CreateOtp(s)
  <2>1. NoPending
    BY <1>1, <1>3 DEF OtpInv, OneSends, CreateOtp, Sending
  <2>2. /\ DOMAIN otp' = DOMAIN otp \cup {Len(otp) + 1}
        /\ \A k \in DOMAIN otp : k < Len(otp) + 1 /\ otp'[k] = otp[k] /\ k \in Nat
    BY <1>1, <1>3, NewOtp, OtpRowFacts
  <2>3. i \in DOMAIN otp
    <3>1. Len(otp) + 1 \in Nat
      BY <1>1 DEF OtpTypeOK
    <3> QED BY <2>2, <3>1
  <2> QED BY <2>1, <2>2, <2>3 DEF NoPending
<1> QED BY <1>2, <1>3

(* The steps that leave the requests to send as they are. *)
LEMMA SendersRest ==
  ASSUME OtpInv, otpSender' = otpSender, RowsAhead, SameIds,
         "sends" \notin disturbed' => "sends" \notin disturbed
  PROVE  OneSends' /\ OnlyNewestOtp'
<1>1. OneSends'
  BY DEF OtpInv, OneSends, NoPending, SameIds, RowsAhead, Ahead
<1>2. OnlyNewestOtp'
  BY DEF OtpInv, OnlyNewestOtp, SameIds, RowsAhead, Ahead
<1> QED BY <1>1, <1>2

LEMMA VerifierInv ==
  ASSUME OtpInv, NEW v \in OtpVerifiers, NEW q \in OtpVerifierState, VerifierEffect(v, q)
  PROVE  OtpBase' /\ OneVerifies' /\ UsedInv'
<1>1. /\ otpVerifier' \in [OtpVerifiers -> OtpVerifierState] /\ otpVerifier'[v] = q
      /\ \A u \in OtpVerifiers \ {v} : otpVerifier'[u] = otpVerifier[u]
      /\ OtpTypeOK /\ OtpIdsInv /\ DOMAIN otp' = DOMAIN otp
  BY OtpStates DEF OtpInv, OtpBase, VerifierEffect, SameIds
<1>2. /\ cachedOtp' \in DOMAIN otp \cup {0} /\ cachedOtp' \in OtpIds \cup {0}
      /\ attempts' \in [count: Nat, of: OtpIds \cup {0}] /\ attempts'.of \in DOMAIN otp \cup {0}
  <2>1. CASE KeepOtpState
    BY <1>1, <2>1, OtpStates DEF KeepOtpState, OtpIdsInv
  <2>2. CASE DeleteOtpState
    BY <2>2 DEF DeleteOtpState, NoAttempts
  <2>3. CASE GuessedWrong(v)
    <3>1. AtWork(otpVerifier[v]) /\ cachedOtp' = cachedOtp
      BY <2>3 DEF GuessedWrong, AtWork
    <3>2. otpVerifier[v].id \in DOMAIN otp /\ otpVerifier[v].id \in OtpIds
      BY <1>1, <3>1, OtpRowFacts DEF OtpIdsInv
    <3>3. attempts.count \in Nat /\ attempts.of \in OtpIds \cup {0} /\ attempts.of \in DOMAIN otp \cup {0}
      BY <1>1, OtpStates DEF OtpIdsInv
    <3> QED BY <1>1, <2>3, <3>1, <3>2, <3>3, OtpStates DEF GuessedWrong, OtpIdsInv
  <2> QED BY <2>1, <2>2, <2>3 DEF VerifierEffect, VerifierCounts
<1>3. verifyLock' \in OtpVerifiers \cup {Nobody}
  BY <1>1, OtpStates DEF VerifierEffect, VerifierLocks
<1>4. OtpTypeOK'
  BY <1>1, <1>2, <1>3 DEF VerifierEffect, RowsAhead, OtpTypeOK, OtpVerifierState
<1>5. OtpIdsInv'
  BY <1>1, <1>2 DEF VerifierEffect, SenderIds, OtpIdsInv
<1>6. OneVerifies'
  <2> SUFFICES ASSUME "lock" \notin disturbed', NEW u \in OtpVerifiers, otpVerifier'[u] # Waiting
               PROVE  verifyLock' = u
    BY DEF OneVerifies
  <2>1. \A w \in OtpVerifiers : otpVerifier[w] # Waiting => verifyLock = w
    BY DEF OtpInv, OneVerifies, VerifierEffect
  <2> QED BY <1>1, <2>1, OtpAssumption DEF VerifierEffect, VerifierLocks
<1>7. UsedInv'
  BY <1>1, RowsUsed DEF OtpInv, VerifierEffect
<1> QED BY <1>4, <1>5, <1>6, <1>7 DEF OtpBase

LEMMA TimeInv ==
  ASSUME OtpInv, OtpTime
  PROVE  OtpBase' /\ OneSends' /\ OnlyNewestOtp' /\ OneVerifies' /\ UsedInv'
<1>1. OtpTypeOK /\ OtpIdsInv
  BY DEF OtpInv, OtpBase
<1>2. /\ UNCHANGED <<otpSender, otpVerifier>>
      /\ RowsAhead /\ SameIds /\ SuccessesKept
      /\ cooldown' \in {cooldown, Nobody}
      /\ \/ UNCHANGED <<verifyLock, disturbed>>
         \/ /\ verifyLock \in OtpVerifiers /\ verifyLock' = Nobody
            /\ disturbed' \in {disturbed, disturbed \cup {"lock"}}
            /\ otpVerifier[verifyLock] = Waiting \/ "lock" \in disturbed'
      /\ TimeTakes
  BY <1>1, TimeSteps
<1>3. /\ cachedOtp' \in {cachedOtp, 0} /\ attempts' \in {attempts, NoAttempts}
      /\ NoAttempts \in [count: Nat, of: OtpIds \cup {0}] /\ NoAttempts.of = 0
  BY <1>2 DEF TimeTakes, KeepOtpState, NoAttempts
<1>4. OtpTypeOK'
  BY <1>1, <1>2, <1>3 DEF RowsAhead, OtpTypeOK
<1>5. OtpIdsInv'
  BY <1>1, <1>2, <1>3 DEF OtpIdsInv, SenderIds, SameIds
<1>6. OneVerifies'
  BY <1>2 DEF OtpInv, OneVerifies
<1> QED BY <1>1, <1>2, <1>4, <1>5, <1>6, SendersRest, RowsUsed DEF OtpBase, OtpInv

-----------------------------------------------------------------------------
(* Guesses.  What the steps leave of a row. *)

LEMMA GuessRows ==
  ASSUME OtpBase, RowsAhead, GuessesKept
  PROVE  /\ \A i \in DOMAIN otp : /\ i \in DOMAIN otp' /\ otp'[i].guesses = otp[i].guesses
                                  /\ otp[i].lapsed => otp'[i].lapsed
         /\ (\A i \in DOMAIN otp : otp[i].guesses <= MaxAttempts) =>
              \A i \in DOMAIN otp' : otp'[i].guesses <= MaxAttempts
  BY OtpAssumption DEF RowsAhead, Ahead, GuessesKept

(* The cache is kept, and nothing begins to be verified.                    *)
LEMMA CounterKept ==
  ASSUME OtpBase, CounterInv, RowsAhead, GuessesKept, KeepOtpState
  PROVE  CounterInv'
<1>1. /\ cachedOtp # 0 => cachedOtp \in DOMAIN otp
      /\ attempts.of # 0 => attempts.of \in DOMAIN otp
      /\ UNCHANGED <<cachedOtp, attempts>>
  BY DEF OtpBase, OtpIdsInv, KeepOtpState
<1> QED BY <1>1, GuessRows DEF CounterInv

LEMMA CounterDeleted ==
  ASSUME DeleteOtpState
  PROVE  CounterInv'
  BY DEF DeleteOtpState, CounterInv, NoAttempts

LEMMA VerifiedKept ==
  ASSUME OtpBase, NEW v \in OtpVerifiers, Verified(v), RowsAhead, GuessesKept, KeepOtpState,
         otpVerifier'[v] = otpVerifier[v]
  PROVE  Verified(v)'
<1>1. AtWork(otpVerifier[v]) => otpVerifier[v].id \in DOMAIN otp
  BY DEF OtpBase, OtpIdsInv
<1> QED BY <1>1, GuessRows DEF Verified, KeepOtpState, AtWork

LEMMA FreshKept ==
  ASSUME OtpBase, NEW s \in OtpSenders, Fresh(s), RowsAhead, GuessesKept,
         otpSender'[s] = otpSender[s],
         cachedOtp = 0 => cachedOtp' = 0,
         attempts' \in {attempts, NoAttempts},
         otpSender[s].at \in {"Create", "Cache"} => (NoneAtWork => NoneAtWork')
  PROVE  Fresh(s)'
<1>1. otpSender[s].at = "Cache" => otpSender[s].id \in DOMAIN otp
  BY DEF OtpBase, OtpIdsInv, SenderIds
<1> QED BY <1>1, GuessRows DEF Fresh

LEMMA SenderGuesses ==
  ASSUME OtpInv, NEW s \in OtpSenders, NEW q \in OtpSenderState, SenderEffect(s, q)
  PROVE  GuessInv'
<1> SUFFICES ASSUME disturbed' = {}
             PROVE  /\ \A v \in OtpVerifiers : Verified(v)'
                    /\ \A t \in OtpSenders : Fresh(t)'
                    /\ CounterInv'
                    /\ \A i \in DOMAIN otp' : otp'[i].guesses <= MaxAttempts
  BY DEF GuessInv
<1>1. /\ disturbed = {} /\ OtpBase /\ RowsAhead /\ GuessesKept
      /\ \A v \in OtpVerifiers : Verified(v)
      /\ \A t \in OtpSenders : Fresh(t)
      /\ CounterInv
      /\ \A i \in DOMAIN otp : otp[i].guesses <= MaxAttempts
  BY DEF OtpInv, GuessInv, SenderEffect
<1>2. \A i \in DOMAIN otp' : otp'[i].guesses <= MaxAttempts
  BY <1>1, GuessRows
<1>3. /\ otpSender'[s] = q /\ \A t \in OtpSenders \ {s} : otpSender'[t] = otpSender[t]
      /\ otpVerifier' = otpVerifier
  BY <1>1, OtpStates DEF SenderEffect, OtpBase
<1>4. NoneAtWork' = NoneAtWork
  BY <1>3 DEF NoneAtWork
<1>5. CASE KeepOtpState /\ q.at # "Create"
           /\ (q.at = "Cache" => otpSender[s].at = "Create" /\ otp'[q.id].guesses = 0)
  <2>1. CounterInv' /\ \A v \in OtpVerifiers : Verified(v)'
    BY <1>1, <1>3, <1>5, CounterKept, VerifiedKept
  <2>2. ASSUME NEW t \in OtpSenders \ {s} PROVE Fresh(t)'
    BY <1>1, <1>3, <1>4, <1>5, FreshKept DEF KeepOtpState
  <2>3. Fresh(s)'
    BY <1>1, <1>3, <1>4, <1>5 DEF Fresh, KeepOtpState
  <2> QED BY <1>2, <2>1, <2>2, <2>3
<1>6. CASE DeleteOtpState /\ q.at # "Cache" /\ (NoneAtWork \/ "delete" \in disturbed')
  <2>1. CounterInv' /\ NoneAtWork /\ cachedOtp' = 0 /\ attempts' = NoAttempts
    BY <1>6, CounterDeleted DEF DeleteOtpState
  <2>2. \A v \in OtpVerifiers : Verified(v)'
    BY <1>4, <2>1 DEF NoneAtWork, Verified
  <2>3. ASSUME NEW t \in OtpSenders \ {s} PROVE Fresh(t)'
    BY <1>1, <1>3, <1>4, <2>1, FreshKept
  <2>4. Fresh(s)'
    BY <1>3, <1>4, <1>6, <2>1 DEF Fresh
  <2> QED BY <1>2, <2>1, <2>2, <2>3, <2>4
<1>7. CASE otpSender[s].at = "Cache" /\ cachedOtp' = otpSender[s].id /\ UNCHANGED attempts
           /\ q.at \notin {"Create", "Cache"}
  <2>1. PICK id \in DOMAIN otp : id = otpSender[s].id
    BY <1>1, <1>7 DEF OtpBase, OtpIdsInv, SenderIds
  <2>2. NoneAtWork /\ attempts = NoAttempts /\ otp[id].guesses = 0
    BY <1>1, <1>7, <2>1 DEF Fresh
  <2>3. cachedOtp' = id /\ otp'[id].guesses = 0 /\ attempts' = NoAttempts
    BY <1>1, <1>7, <2>1, <2>2, GuessRows
  <2>4. CounterInv'
    BY <2>3 DEF CounterInv, NoAttempts
  <2>5. \A v \in OtpVerifiers : Verified(v)'
    BY <1>4, <2>2 DEF NoneAtWork, Verified
  <2>6. ASSUME NEW t \in OtpSenders PROVE otpSender'[t].at \notin {"Create", "Cache"}
    <3>1. CASE t = s
      BY <1>3, <1>7, <3>1
    <3>2. CASE t # s
      <4>1. otpSender[s] # Waiting
        BY <1>7 DEF Waiting
      <4>2. otpSender[t] = Waiting
        BY <1>1, <3>2, <4>1 DEF OtpInv, OneSends
      <4> QED BY <1>3, <3>2, <4>2 DEF Waiting
    <3> QED BY <3>1, <3>2
  <2>7. \A t \in OtpSenders : Fresh(t)'
    BY <2>6 DEF Fresh
  <2> QED BY <1>2, <2>4, <2>5, <2>7
<1> QED BY <1>5, <1>6, <1>7 DEF SenderEffect, SenderCaches

LEMMA VerifierGuesses ==
  ASSUME OtpInv, NEW v \in OtpVerifiers, NEW q \in OtpVerifierState, VerifierEffect(v, q)
  PROVE  GuessInv'
<1> SUFFICES ASSUME disturbed' = {}
             PROVE  /\ \A u \in OtpVerifiers : Verified(u)'
                    /\ \A s \in OtpSenders : Fresh(s)'
                    /\ CounterInv'
                    /\ \A i \in DOMAIN otp' : otp'[i].guesses <= MaxAttempts
  BY DEF GuessInv
<1>1. /\ disturbed = {} /\ OtpBase /\ RowsAhead /\ SameIds /\ OtpTypeOK
      /\ \A u \in OtpVerifiers : Verified(u)
      /\ \A s \in OtpSenders : Fresh(s)
      /\ CounterInv
      /\ \A i \in DOMAIN otp : otp[i].guesses <= MaxAttempts
  BY DEF OtpInv, GuessInv, VerifierEffect, OtpBase
<1>2. /\ otpVerifier'[v] = q /\ \A u \in OtpVerifiers \ {v} : otpVerifier'[u] = otpVerifier[u]
      /\ otpSender' = otpSender
  BY <1>1, OtpStates DEF VerifierEffect
<1>3. otpVerifier[v] # Waiting => \A u \in OtpVerifiers \ {v} : otpVerifier[u] = Waiting
  BY <1>1 DEF OtpInv, OneVerifies
<1>4. otpVerifier[v] # Waiting /\ ~AtWork(q) => NoneAtWork'
  BY <1>2, <1>3 DEF NoneAtWork, AtWork, Waiting
<1>5. NoneAtWork' => \A u \in OtpVerifiers : Verified(u)'
  BY DEF NoneAtWork, Verified
<1>6. CASE /\ KeepOtpState /\ GuessesKept
           /\ AtWork(q) => /\ AtWork(otpVerifier[v]) /\ q.id = otpVerifier[v].id
                           /\ q.at = "Verify" => attempts.count < MaxAttempts
  <2>1. CounterInv' /\ \A i \in DOMAIN otp' : otp'[i].guesses <= MaxAttempts
    BY <1>1, <1>6, CounterKept, GuessRows
  <2>2. ASSUME NEW u \in OtpVerifiers \ {v} PROVE Verified(u)'
    BY <1>1, <1>2, <1>6, VerifiedKept
  <2>3. Verified(v)'
    <3>1. AtWork(otpVerifier[v]) => otpVerifier[v].id \in DOMAIN otp
      BY <1>1 DEF OtpBase, OtpIdsInv
    <3> QED BY <1>1, <1>2, <1>6, <3>1, GuessRows DEF Verified, KeepOtpState
  <2>4. NoneAtWork => NoneAtWork'
    BY <1>2, <1>6 DEF NoneAtWork
  <2>5. \A s \in OtpSenders : Fresh(s)'
    BY <1>1, <1>2, <1>6, <2>4, FreshKept DEF KeepOtpState
  <2> QED BY <2>1, <2>2, <2>3, <2>5
<1>7. CASE /\ KeepOtpState /\ GuessesKept
           /\ cachedOtp # 0 /\ q.at = "Count" /\ q.id = cachedOtp
  <2>1. CounterInv' /\ \A i \in DOMAIN otp' : otp'[i].guesses <= MaxAttempts
    BY <1>1, <1>7, CounterKept, GuessRows
  <2>2. ASSUME NEW u \in OtpVerifiers \ {v} PROVE Verified(u)'
    BY <1>1, <1>2, <1>7, VerifiedKept
  <2>3. Verified(v)'
    BY <1>2, <1>7 DEF Verified, KeepOtpState
  <2>4. \A s \in OtpSenders : Fresh(s)'
    BY <1>1, <1>2, <1>7 DEF Fresh
  <2> QED BY <2>1, <2>2, <2>3, <2>4
<1>8. CASE DeleteOtpState /\ GuessesKept /\ ~AtWork(q) /\ otpVerifier[v] # Waiting
  <2>1. CounterInv' /\ NoneAtWork' /\ cachedOtp' = 0 /\ attempts' = NoAttempts
    BY <1>4, <1>8, CounterDeleted DEF DeleteOtpState
  <2>2. \A s \in OtpSenders : Fresh(s)'
    BY <1>1, <1>2, <1>8, <2>1, FreshKept
  <2>3. \A i \in DOMAIN otp' : otp'[i].guesses <= MaxAttempts
    BY <1>1, <1>8, GuessRows
  <2> QED BY <1>5, <2>1, <2>2, <2>3
<1>9. CASE GuessedWrong(v) /\ ~AtWork(q)
  <2>1. AtWork(otpVerifier[v]) /\ otpVerifier[v] # Waiting /\ otpVerifier[v].at = "Verify"
    BY <1>9 DEF GuessedWrong, AtWork, Waiting
  <2>2. PICK id \in DOMAIN otp : id = otpVerifier[v].id
    BY <1>1, <2>1 DEF OtpBase, OtpIdsInv
  <2>3. /\ id = cachedOtp \/ (cachedOtp = 0 /\ otp[id].lapsed)
        /\ attempts.count < MaxAttempts /\ attempts.count \in Nat /\ MaxAttempts \in Nat
        /\ id # 0 /\ \A i \in DOMAIN otp : otp[i].guesses \in Nat
    BY <1>1, <2>1, <2>2, OtpStates, OtpRowFacts, OtpAssumption DEF Verified
  <2>4. /\ attempts'.count = attempts.count + 1
        /\ attempts'.of = IF attempts.count = 0 THEN id ELSE attempts.of
        /\ otp'[id].guesses = IF otp[id].lapsed THEN otp[id].guesses ELSE otp[id].guesses + 1
        /\ \A i \in DOMAIN otp \ {id} : otp'[i].guesses = otp[i].guesses
        /\ cachedOtp' = cachedOtp
    BY <1>9, <2>2 DEF GuessedWrong
  <2>5. \A i \in DOMAIN otp : otp[i].lapsed => otp'[i].lapsed
    BY <1>1 DEF RowsAhead, Ahead
  <2>6. NoneAtWork'
    BY <1>4, <1>9, <2>1
  <2>7. \A s \in OtpSenders : Fresh(s)'
    <3>1. ~NoneAtWork
      BY <2>1 DEF NoneAtWork
    <3> QED BY <1>1, <1>2, <3>1 DEF Fresh
  <2>8. ~otp[id].lapsed => otp[id].guesses <= attempts.count
    BY <1>1, <2>3 DEF CounterInv
  <2>9. \A i \in DOMAIN otp' : otp'[i].guesses <= MaxAttempts
    <3>1. otp'[id].guesses <= MaxAttempts
      BY <1>1, <2>3, <2>4, <2>8
    <3> QED BY <1>1, <2>4, <3>1 DEF SameIds
  <2>10. CounterInv'
    <3>1. attempts'.of # 0 /\ attempts'.count # 0
      BY <1>1, <2>3, <2>4 DEF CounterInv
    <3>2. cachedOtp' = attempts'.of \/ (cachedOtp' = 0 /\ otp'[attempts'.of].lapsed)
      <4>1. CASE attempts.count = 0
        BY <2>3, <2>4, <2>5, <4>1
      <4>2. CASE attempts.count # 0
        <5>1. attempts'.of = attempts.of /\ attempts.of \in DOMAIN otp
          BY <1>1, <2>4, <4>2 DEF CounterInv, OtpBase, OtpIdsInv
        <5> QED BY <1>1, <2>4, <2>5, <4>2, <5>1 DEF CounterInv
      <4> QED BY <4>1, <4>2
    <3>3. cachedOtp' # 0 /\ ~otp'[cachedOtp'].lapsed => otp'[cachedOtp'].guesses <= attempts'.count
      BY <2>2, <2>3, <2>4, <2>5, <2>8
    <3> QED BY <3>1, <3>2, <3>3 DEF CounterInv
  <2> QED BY <1>5, <2>6, <2>7, <2>9, <2>10
<1> QED BY <1>6, <1>7, <1>8, <1>9 DEF VerifierEffect, VerifierCounts

LEMMA TimeGuesses ==
  ASSUME OtpInv, OtpTime
  PROVE  GuessInv'
<1> SUFFICES ASSUME disturbed' = {}
             PROVE  /\ \A v \in OtpVerifiers : Verified(v)'
                    /\ \A s \in OtpSenders : Fresh(s)'
                    /\ CounterInv'
                    /\ \A i \in DOMAIN otp' : otp'[i].guesses <= MaxAttempts
  BY DEF GuessInv
<1>1. /\ UNCHANGED <<otpSender, otpVerifier>> /\ RowsAhead /\ SameIds /\ GuessesKept /\ TimeTakes
      /\ disturbed = {} /\ OtpTypeOK
  BY TimeSteps DEF OtpInv, OtpBase
<1>2. /\ OtpBase
      /\ \A v \in OtpVerifiers : Verified(v)
      /\ \A s \in OtpSenders : Fresh(s)
      /\ CounterInv
      /\ \A i \in DOMAIN otp : otp[i].guesses <= MaxAttempts
  BY <1>1 DEF OtpInv, GuessInv
<1>3. /\ cachedOtp = 0 => cachedOtp' = 0
      /\ attempts' \in {attempts, NoAttempts} /\ NoneAtWork' = NoneAtWork
  BY <1>1 DEF TimeTakes, KeepOtpState, NoneAtWork
<1>4. \A s \in OtpSenders : Fresh(s)'
  BY <1>1, <1>2, <1>3, FreshKept
<1>5. \A i \in DOMAIN otp' : otp'[i].guesses <= MaxAttempts
  BY <1>1, <1>2, GuessRows
<1>6. /\ \A i \in DOMAIN otp : otp'[i].guesses = otp[i].guesses /\ (otp[i].lapsed => otp'[i].lapsed)
      /\ \A v \in OtpVerifiers : AtWork(otpVerifier[v]) => otpVerifier[v].id \in DOMAIN otp
      /\ cachedOtp # 0 => cachedOtp \in DOMAIN otp
      /\ attempts.of # 0 => attempts.of \in DOMAIN otp
  BY <1>1, <1>2, GuessRows DEF OtpBase, OtpIdsInv
<1>7. CASE KeepOtpState
  BY <1>1, <1>2, <1>4, <1>5, <1>7, CounterKept, VerifiedKept
<1>8. CASE cachedOtp # 0 /\ otp[cachedOtp].lapsed /\ cachedOtp' = 0 /\ UNCHANGED attempts
  <2>1. CounterInv'
    BY <1>2, <1>6, <1>8 DEF CounterInv
  <2>2. \A v \in OtpVerifiers : Verified(v)'
    BY <1>1, <1>2, <1>6, <1>8 DEF Verified
  <2> QED BY <1>4, <1>5, <2>1, <2>2
<1>9. CASE attempts.of # 0 /\ otp[attempts.of].lapsed /\ attempts' = NoAttempts /\ UNCHANGED cachedOtp
  <2>1. cachedOtp # 0 => otp'[cachedOtp].lapsed
    BY <1>2, <1>6, <1>9 DEF CounterInv
  <2>2. CounterInv'
    BY <1>9, <2>1 DEF CounterInv, NoAttempts
  <2>3. 0 < MaxAttempts /\ NoAttempts.count = 0
    BY OtpAssumption DEF NoAttempts
  <2>4. \A v \in OtpVerifiers : Verified(v)'
    BY <1>1, <1>2, <1>6, <1>9, <2>3 DEF Verified
  <2> QED BY <1>4, <1>5, <2>2, <2>4
<1> QED BY <1>1, <1>7, <1>8, <1>9 DEF TimeTakes

-----------------------------------------------------------------------------
LEMMA OtpInitially == OtpInit => OtpInv
<1> SUFFICES ASSUME OtpInit PROVE OtpInv
  OBVIOUS
<1>1. /\ DOMAIN otp = {} /\ otp = << >> /\ Len(otp) = 0
      /\ cachedOtp = 0 /\ attempts = NoAttempts /\ cooldown = Nobody /\ verifyLock = Nobody
      /\ disturbed = {} /\ Waiting.at = "Idle"
      /\ otpSender = [s \in OtpSenders |-> Waiting] /\ otpVerifier = [v \in OtpVerifiers |-> Waiting]
  BY DEF OtpInit, Waiting
<1>2. OtpTypeOK
  BY <1>1, OtpAssumption DEF OtpTypeOK, NoAttempts
<1>3. OtpIdsInv
  BY <1>1 DEF OtpIdsInv, SenderIds, AtWork, NoAttempts
<1>4. OneSends /\ OnlyNewestOtp /\ OneVerifies /\ UsedInv
  BY <1>1 DEF OneSends, OnlyNewestOtp, OneVerifies, UsedInv
<1>5. GuessInv
  BY <1>1 DEF GuessInv, Verified, AtWork, Fresh, CounterInv, NoAttempts
<1> QED BY <1>2, <1>3, <1>4, <1>5 DEF OtpInv, OtpBase

LEMMA OtpStep == OtpInv /\ [OtpNext]_otpVars => OtpInv'
<1> SUFFICES ASSUME OtpInv, [OtpNext]_otpVars PROVE OtpInv'
  OBVIOUS
<1>1. ASSUME NEW s \in OtpSenders, OtpSenderStep(s) PROVE OtpInv'
  <2>1. OtpTypeOK /\ OtpIdsInv
    BY DEF OtpInv, OtpBase
  <2>2. PICK q \in OtpSenderState : SenderEffect(s, q)
    BY <1>1, <2>1, SenderSteps
  <2>3. CreateOtp(s) \/ SameIds
    <3>1. CASE CreateOtp(s)
      BY <3>1
    <3>2. CASE ~CreateOtp(s)
      <4>1. otpSender[s].at # "Create" \/ SendStepFails(s)
        BY <1>1, <3>2 DEF OtpSenderStep, SendOtp, DeleteUnverified, ClearState, CacheOtp, UndoSend, Sending
      <4>2. CASE otpSender[s].at # "Create"
        BY <2>2, <4>2 DEF SenderEffect
      <4>3. CASE SendStepFails(s)
        BY <2>1, <4>3, OtpsKept DEF SendStepFails
      <4> QED BY <4>1, <4>2, <4>3
    <3> QED BY <3>1, <3>2
  <2> QED BY <2>2, <2>3, SenderInv, SenderNewest, SenderGuesses DEF OtpInv
<1>2. ASSUME NEW v \in OtpVerifiers, OtpVerifierStep(v) PROVE OtpInv'
  <2>1. PICK q \in OtpVerifierState : VerifierEffect(v, q)
    BY <1>2, VerifierSteps DEF OtpInv, OtpBase
  <2>2. OneSends' /\ OnlyNewestOtp'
    BY <2>1, SendersRest DEF VerifierEffect
  <2> QED BY <2>1, <2>2, VerifierInv, VerifierGuesses DEF OtpInv
<1>3. CASE OtpTime
  BY <1>3, TimeInv, TimeGuesses DEF OtpInv
<1>4. CASE UNCHANGED otpVars
  <2>1. UNCHANGED <<otp, cachedOtp, attempts, cooldown, verifyLock, otpSender, otpVerifier, disturbed>>
    BY <1>4 DEF otpVars
  <2>2. OtpTypeOK' /\ OtpIdsInv'
    BY <2>1 DEF OtpInv, OtpBase, OtpTypeOK, OtpIdsInv, SenderIds
  <2>3. OneSends' /\ OnlyNewestOtp' /\ OneVerifies' /\ UsedInv'
    BY <2>1 DEF OtpInv, OneSends, NoPending, OnlyNewestOtp, OneVerifies, UsedInv
  <2>4. GuessInv'
    BY <2>1 DEF OtpInv, GuessInv, Verified, Fresh, CounterInv, NoneAtWork
  <2> QED BY <2>2, <2>3, <2>4 DEF OtpInv, OtpBase
<1> QED BY <1>1, <1>2, <1>3, <1>4 DEF OtpNext, OtpSenderStep, OtpVerifierStep, OtpTime

LEMMA OtpInvariant == OtpSpec => []OtpInv
  BY OtpInitially, OtpStep, PTL DEF OtpSpec

(* Rows, cache and requests keep their types.                               *)
THEOREM OtpTypeCorrect == OtpSpec => []OtpTypeOK
  BY OtpInvariant, PTL DEF OtpInv, OtpBase

(* Once a newer OTP was created no older one can be used, unless requests   *)
(* to send overlapped.                                                      *)
THEOREM NewestOtpOnly == OtpSpec => []OnlyNewestOtp
  BY OtpInvariant, PTL DEF OtpInv

(* At most MaxAttempts wrong guesses are made at one OTP, however many      *)
(* requests there are, unless they disturbed each other.                    *)
THEOREM GuessesAreBounded == OtpSpec => []OtpGuessesBounded
<1>1. OtpInv => OtpGuessesBounded
  BY DEF OtpInv, GuessInv, OtpGuessesBounded
<1> QED BY <1>1, OtpInvariant, PTL

(* An OTP is used at most once, also if verifications of it overlap.        *)
THEOREM OtpIsUsedOnce == OtpSpec => []OtpUsedOnce
<1>1. OtpInv => OtpUsedOnce
  BY DEF OtpInv, UsedInv, OtpUsedOnce
<1> QED BY <1>1, OtpInvariant, PTL
===============================================================================
