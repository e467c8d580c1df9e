-------------------------- MODULE TxnAuthorization --------------------------
(* The OTP authorizations of withdrawals and Aadhaar payments above 5000   *)
(* in the aeps-service, for one merchant: sending an OTP issues one,       *)
(* cashWithdrawal and aadhaarPay claim it before they call the provider,   *)
(* and a timer expires what was not used.  Every query is a step; what     *)
(* holds the steps apart is the guarded UPDATE that claims.                *)
EXTENDS Naturals, Sequences

CONSTANTS
  AuthSenders,    \* requests for an OTP, one after the other
  AuthHandlers,   \* executions of cashWithdrawal and aadhaarPay, one after the other
  MaxAuths        \* bound on authorizations

ASSUME AuthAssumption == MaxAuths \in Nat

VARIABLES
  authorization,   \* the VimopayTxnAuthorization rows, in the order they were created
  authSender,      \* what each request for an OTP does next
  authHandler,     \* what each execution does next
  authOverlap      \* did two requests for an OTP overlap?

authVars == <<authorization, authSender, authHandler, authOverlap>>

AuthTypes == {"CASH_WITHDRAWAL", "AADHAAR_PAY"}

(* "lapsed": expiresAt has passed; "calls": provider calls made with it;   *)
(* "released": a claim was given back.                                     *)
Authorization ==
  [type: AuthTypes, status: {"ISSUED", "CONSUMING", "CONSUMED", "UNKNOWN", "EXPIRED"},
   lapsed: BOOLEAN, released: BOOLEAN, calls: Nat]

NoSending == [at |-> "Idle"]
NoExecution == [at |-> "Idle"]

AuthTypeOK ==
  /\ authorization \in Seq(Authorization)
  /\ authSender \in [AuthSenders ->
       {NoSending} \cup [at: {"ExpirePrevious", "Create"}, type: AuthTypes]]
  /\ authHandler \in [AuthHandlers ->
       {NoExecution} \cup
       [at: {"Expire", "Claim", "Prepare", "Release", "Called"}, auth: DOMAIN authorization]]
  /\ authOverlap \in BOOLEAN

AuthInit ==
  /\ authorization = << >>
  /\ authSender = [s \in AuthSenders |-> NoSending]
  /\ authHandler = [h \in AuthHandlers |-> NoExecution]
  /\ authOverlap = FALSE

-----------------------------------------------------------------------------
(* sendCashWithdrawalOtp and sendAadhaarPayOtp, once the provider has sent *)
(* the OTP.                                                                *)

ToSender(s, state) == authSender' = [authSender EXCEPT ![s] = state]

SendTxnOtp(s) ==
  /\ authSender[s].at = "Idle"
  /\ \E type \in AuthTypes :
       ToSender(s, [at |-> IF type = "CASH_WITHDRAWAL" THEN "ExpirePrevious" ELSE "Create",
                    type |-> type])
  /\ authOverlap' = (authOverlap \/ \E t \in AuthSenders : authSender[t].at # "Idle")
  /\ UNCHANGED <<authorization, authHandler>>

(* Mutant: only authorizations whose time has passed are expired. *)
MutPrevious(i) == authorization[i].type = "CASH_WITHDRAWAL" /\ authorization[i].lapsed

Previous(i) == authorization[i].type = "CASH_WITHDRAWAL"

ExpirePreviousIssued(s) ==
  /\ authSender[s].at = "ExpirePrevious"
  /\ authorization' = [i \in DOMAIN authorization |->
       IF authorization[i].status = "ISSUED" /\ Previous(i)
       THEN [authorization[i] EXCEPT !.status = "EXPIRED"] ELSE authorization[i]]
  /\ ToSender(s, [authSender[s] EXCEPT !.at = "Create"])
  /\ UNCHANGED <<authHandler, authOverlap>>

CreateAuthorization(s) ==
  /\ authSender[s].at = "Create" /\ Len(authorization) < MaxAuths
  /\ authorization' = Append(authorization,
       [type |-> authSender[s].type, status |-> "ISSUED", lapsed |-> FALSE,
        released |-> FALSE, calls |-> 0])
  /\ ToSender(s, NoSending)
  /\ UNCHANGED <<authHandler, authOverlap>>

(* The request stops, or a query of it fails. *)
SendingFails(s) ==
  /\ authSender[s].at # "Idle"
  /\ ToSender(s, NoSending)
  /\ UNCHANGED <<authorization, authHandler, authOverlap>>

-----------------------------------------------------------------------------
(* Time, and cleanupExpiredAuthorizations, which a timer runs. *)

AuthLapses(i) ==
  /\ ~authorization[i].lapsed
  /\ authorization' = [authorization EXCEPT ![i].lapsed = TRUE]
  /\ UNCHANGED <<authSender, authHandler, authOverlap>>

(* Mutant: whatever is claimed is expired as well as given back. *)
MutStale(i) == authorization[i].lapsed /\ authorization[i].released /\ authorization[i].status = "ISSUED"

Stale(i) == authorization[i].lapsed /\ authorization[i].status = "ISSUED"

CleanupExpiredAuthorizations ==
  /\ \E i \in DOMAIN authorization : Stale(i)
  /\ authorization' = [i \in DOMAIN authorization |->
       IF Stale(i) THEN [authorization[i] EXCEPT !.status = "EXPIRED"] ELSE authorization[i]]
  /\ UNCHANGED <<authSender, authHandler, authOverlap>>

-----------------------------------------------------------------------------
(* cashWithdrawal and aadhaarPay. *)

Executing(h, at) ==
  authHandler[h].at = at /\ UNCHANGED <<authSender, authOverlap>>

ToHandler(h, state) == authHandler' = [authHandler EXCEPT ![h] = state]
On(h) == authHandler[h].auth

(* The row is read; a request that does not match it, or that finds it in  *)
(* another status, is refused and changes nothing.                         *)
FindAuthorization(h) ==
  /\ Executing(h, "Idle")
  /\ \E i \in DOMAIN authorization :
       /\ authorization[i].status = "ISSUED"
       /\ ToHandler(h, [at |-> IF authorization[i].lapsed THEN "Expire" ELSE "Claim", auth |-> i])
  /\ UNCHANGED authorization

(* The update that expires it does not look at the status again. *)
ExpireFound(h) ==
  /\ Executing(h, "Expire")
  /\ authorization' = [authorization EXCEPT ![On(h)].status = "EXPIRED"]
  /\ ToHandler(h, NoExecution)

(* Mutant: the claim trusts the row that was read. *)
MutClaimable(i) == authorization[i].status # "EXPIRED"

Claimable(i) == authorization[i].status = "ISSUED"

ClaimAuthorization(h) ==
  /\ Executing(h, "Claim")
  /\ IF Claimable(On(h))
     THEN /\ authorization' = [authorization EXCEPT ![On(h)].status = "CONSUMING"]
          /\ ToHandler(h, [authHandler[h] EXCEPT !.at = "Prepare"])
     ELSE ToHandler(h, NoExecution) /\ UNCHANGED authorization

(* The provider transaction is created and marked processing, then the     *)
(* provider is called; or one of the two fails before the call.            *)
CallProvider(h) ==
  /\ Executing(h, "Prepare")
  /\ authorization' = [authorization EXCEPT ![On(h)].calls = @ + 1]
  /\ ToHandler(h, [authHandler[h] EXCEPT !.at = "Called"])

PrepareFails(h) ==
  /\ Executing(h, "Prepare")
  /\ ToHandler(h, [authHandler[h] EXCEPT !.at = "Release"])
  /\ UNCHANGED authorization

ReleaseAuthorization(h) ==
  /\ Executing(h, "Release")
  /\ authorization' = [authorization EXCEPT
       ![On(h)].status = IF @ = "CONSUMING" THEN "ISSUED" ELSE @, ![On(h)].released = TRUE]
  /\ ToHandler(h, NoExecution)

ConsumeAuthorization(h) ==
  /\ Executing(h, "Called")
  /\ authorization' = [authorization EXCEPT ![On(h)].status = "CONSUMED"]
  /\ ToHandler(h, NoExecution)

(* Mutant: an error of the call gives the authorization back. *)
MutMarkAuthorizationUnknown(h) ==
  /\ Executing(h, "Called")
  /\ authorization' = [authorization EXCEPT ![On(h)].status = IF @ = "CONSUMING" THEN "ISSUED" ELSE @]
  /\ ToHandler(h, NoExecution)

MarkAuthorizationUnknown(h) ==
  /\ Executing(h, "Called")
  /\ authorization' = [authorization EXCEPT ![On(h)].status = IF @ = "CONSUMING" THEN "UNKNOWN" ELSE @]
  /\ ToHandler(h, NoExecution)

(* The execution stops, or one of its queries fails: the row stays as it is. *)
ExecutionStops(h) ==
  /\ authHandler[h].at # "Idle"
  /\ ToHandler(h, NoExecution)
  /\ UNCHANGED <<authorization, authSender, authOverlap>>

ExecutionStep(h) ==
  \/ ExpireFound(h) \/ ClaimAuthorization(h) \/ CallProvider(h) \/ PrepareFails(h)
  \/ ReleaseAuthorization(h) \/ ConsumeAuthorization(h) \/ MarkAuthorizationUnknown(h)

AuthNext ==
  \/ \E s \in AuthSenders :
       SendTxnOtp(s) \/ ExpirePreviousIssued(s) \/ CreateAuthorization(s) \/ SendingFails(s)
  \/ \E i \in DOMAIN authorization : AuthLapses(i)
  \/ CleanupExpiredAuthorizations
  \/ \E h \in AuthHandlers : FindAuthorization(h) \/ ExecutionStep(h) \/ ExecutionStops(h)

AuthSpec == AuthInit /\ [][AuthNext]_authVars

(* The timer runs, and an execution that is not stopped goes on. *)
AuthFairness ==
  /\ WF_authVars(CleanupExpiredAuthorizations)
  /\ \A h \in AuthHandlers : WF_authVars(ExecutionStep(h))

-----------------------------------------------------------------------------
(* One OTP, one provider call: an authorization that reached the provider  *)
(* is never usable again, however the executions, the timer and a late     *)
(* expiry interleave.                                                      *)
OneCallPerAuthorization ==
  \A i \in DOMAIN authorization :
    /\ authorization[i].calls <= 1
    /\ authorization[i].calls = 1 => authorization[i].status # "ISSUED"

Claimed == {"Prepare", "Release", "Called"}

(* No two executions hold the same authorization, also when its status was *)
(* overwritten while it was held.                                          *)
ClaimedByOne ==
  \A h, g \in AuthHandlers :
    authHandler[h].at \in Claimed /\ authHandler[g].at \in Claimed /\ On(h) = On(g) => h = g

(* expirePreviousIssued: "AUTH-A should no longer remain usable".  Unless  *)
(* requests for an OTP overlapped or a claim was given back, only the      *)
(* newest withdrawal authorization is usable.                              *)
OnlyNewestUsable ==
  ~authOverlap => \A i, j \in DOMAIN authorization :
    /\ i < j /\ authorization[j].type = "CASH_WITHDRAWAL"
    /\ authorization[i].type = "CASH_WITHDRAWAL" /\ authorization[i].status = "ISSUED"
    => authorization[i].released

(* An authorization whose time has passed is not usable for long, also if  *)
(* an execution that claimed it in time gives it back afterwards.          *)
LapsedEndsUnusable ==
  \A i \in 1 .. MaxAuths :
    LET Usable == i \in DOMAIN authorization /\ authorization[i].status = "ISSUED"
        Lapsed == i \in DOMAIN authorization /\ authorization[i].lapsed
    IN Lapsed ~> []~Usable
=============================================================================
