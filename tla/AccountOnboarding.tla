------------------------- MODULE AccountOnboarding --------------------------
(* How an account gets its phone number, PAN and own credentials: accounts *)
(* that an administrator created, of identities and of super-admins, and   *)
(* registrations, whose draft becomes an identity.  Every request reads    *)
(* the row, looks for the number in other rows and then writes; the        *)
(* updates of identities have conditions, the others have none.            *)
EXTENDS Naturals, FiniteSets

CONSTANTS
  Identities,     \* identities created by an administrator
  SuperAdmins,
  Registrations,  \* drafts, and the identities they become
  Clerks,         \* processes that serve one request after the other
  Phones, Pans,
  NoPhone, NoPan, NoRow,
  MaxChanges      \* bound on the changes of a password or an MPIN

Accounts == Identities \cup SuperAdmins \cup Registrations

VARIABLES
  account,     \* the row of each account, or of the draft of a registration
  otpPending,  \* the phones with an OTP for the purpose of either kind
  clerk,       \* what each request does next
  proven,      \* the phones whose OTP was verified for an account
  crossed      \* accounts with an unconditional update of a row that had moved on

onbVars == <<account, otpPending, clerk, proven, crossed>>

Steps == {"ROLE_SELECTED", "PHONE_VERIFIED", "PAN_VERIFIED"}
Statuses ==
  {"CREDENTIALS_ISSUED", "PHONE_PENDING", "PAN_PENDING", "CREDENTIAL_CHANGE_REQUIRED", "COMPLETED"}

(* "password" and "mpin" count the changes since the temporary one. *)
Row ==
  [status: Steps \cup Statuses, phone: Phones \cup {NoPhone}, verified: BOOLEAN,
   pan: Pans \cup {NoPan}, password: 0 .. MaxChanges, mpin: 0 .. MaxChanges]

ASSUME OnbAssumption ==
  /\ NoRow \notin Row /\ NoPhone \notin Phones /\ NoPan \notin Pans /\ MaxChanges \in Nat
  /\ Identities \cap (SuperAdmins \cup Registrations) = {} /\ SuperAdmins \cap Registrations = {}

Demands == {"phone", "verify", "pan", "details", "password", "mpin"}
Tables == {"draft", "identity", "superAdmin"}

(* "left": the tables the request has still to look in; "seen": the row it read. *)
Free == [at |-> "Idle"]
Request ==
  [at: {"Look", "Otp", "Write", "Send"}, op: Demands, of: Accounts, phone: Phones,
   pan: Pans, left: SUBSET Tables, seen: Row]

OnbTypeOK ==
  /\ account \in [Accounts -> Row \cup {NoRow}]
  /\ otpPending \subseteq Phones \X {"REGISTER", "ACCOUNT_ONBOARDING"}
  /\ clerk \in [Clerks -> {Free} \cup Request]
  /\ proven \in [Accounts -> SUBSET Phones]
  /\ crossed \subseteq SuperAdmins \cup Registrations

Issued ==
  [status |-> "CREDENTIALS_ISSUED", phone |-> NoPhone, verified |-> FALSE, pan |-> NoPan,
   password |-> 0, mpin |-> 0]

OnbInit ==
  /\ account = [a \in Accounts |-> IF a \in Registrations THEN NoRow ELSE Issued]
  /\ otpPending = {}
  /\ clerk = [c \in Clerks |-> Free]
  /\ proven = [a \in Accounts |-> {}]
  /\ crossed = {}

Purpose(a) == IF a \in Registrations THEN "REGISTER" ELSE "ACCOUNT_ONBOARDING"

InTable(a, table) ==
  /\ account[a] # NoRow
  /\ table = CASE a \in SuperAdmins -> "superAdmin"
               [] account[a].status \in Steps -> "draft"
               [] OTHER -> "identity"

-----------------------------------------------------------------------------
(* What a request demands of the row it reads. *)

DraftAllows(op, row) ==
  CASE op = "phone" -> row.status = "ROLE_SELECTED"
    [] op = "verify" -> row.status = "ROLE_SELECTED" /\ row.phone # NoPhone
    [] op = "pan" -> row.status = "PHONE_VERIFIED" /\ row.verified
    [] op = "details" -> row.status = "PAN_VERIFIED" /\ row.verified /\ row.pan # NoPan
    [] OTHER -> FALSE

(* Of a super-admin as of an identity. *)
OnboardingAllows(op, row) ==
  CASE op = "phone" -> row.status # "COMPLETED" /\ ~row.verified
    [] op = "verify" -> row.status = "PHONE_PENDING" /\ ~row.verified /\ row.phone # NoPhone
    [] op = "pan" -> row.status = "PAN_PENDING" /\ row.verified
    [] OTHER -> FALSE

(* A password is changed before the MPIN, and that ends the onboarding. *)
CredentialChangeDue(op, row) ==
  /\ row.verified /\ row.pan # NoPan /\ row.status = "CREDENTIAL_CHANGE_REQUIRED"
  /\ op = "mpin" => row.password > 0

IdentityAllows(op, row) ==
  IF op \in {"password", "mpin"} THEN row.status = "COMPLETED" \/ CredentialChangeDue(op, row)
  ELSE OnboardingAllows(op, row)

SuperAdminAllows(op, row) ==
  IF op \in {"password", "mpin"} THEN CredentialChangeDue(op, row) ELSE OnboardingAllows(op, row)

Allowed(op, a, row) ==
  IF a \in SuperAdmins THEN SuperAdminAllows(op, row)
  ELSE IF row.status \in Steps THEN DraftAllows(op, row) ELSE IdentityAllows(op, row)

(* The tables in which the phone or PAN of another account is looked for. *)
LookedIn(op, a) ==
  IF op \notin {"phone", "pan"} THEN {}
  ELSE IF a \in Registrations THEN {"identity", "draft"} ELSE {"identity", "superAdmin"}

Taken(q, table) ==
  \E b \in Accounts \ {q.of} :
    /\ InTable(b, table)
    /\ IF q.op = "phone" THEN account[b].phone = q.phone ELSE account[b].pan = q.pan

-----------------------------------------------------------------------------
Serve(c, q) == clerk' = [clerk EXCEPT ![c] = q]
Finish(c) == Serve(c, Free)

RegisterRole(a) ==
  /\ a \in Registrations /\ account[a] = NoRow
  /\ account' = [account EXCEPT ![a] = [Issued EXCEPT !.status = "ROLE_SELECTED"]]
  /\ UNCHANGED <<otpPending, clerk, proven, crossed>>

(* A request reads its row first: a draft for a registration, else an      *)
(* account.  One that the row does not allow is refused, and changes nothing. *)
Receive(c) ==
  /\ clerk[c] = Free
  /\ \E op \in Demands, a \in Accounts, p \in Phones, n \in Pans :
       LET left == LookedIn(op, a)
       IN /\ account[a] # NoRow /\ Allowed(op, a, account[a])
          /\ Serve(c, [op |-> op, of |-> a, phone |-> p, pan |-> n, left |-> left,
               seen |-> account[a],
               at |-> IF op = "verify" THEN "Otp" ELSE IF left # {} THEN "Look" ELSE "Write"])
  /\ UNCHANGED <<account, otpPending, proven, crossed>>

(* One query; a registration looks among the drafts last. *)
Look(c) ==
  LET q == clerk[c]
  IN /\ q.at = "Look"
     /\ \E table \in q.left :
          /\ table = "draft" => q.left = {"draft"}
          /\ IF Taken(q, table) THEN Finish(c)
             ELSE Serve(c, [q EXCEPT !.left = @ \ {table},
                                     !.at = IF q.left = {table} THEN "Write" ELSE "Look"])
     /\ UNCHANGED <<account, otpPending, proven, crossed>>

(* verifyOtp: of the phone that was read, each OTP once; or it is refused. *)
VerifyPhoneOtp(c) ==
  LET q == clerk[c]
      sent == <<q.seen.phone, Purpose(q.of)>>
  IN /\ q.at = "Otp"
     /\ \/ /\ sent \in otpPending
           /\ otpPending' = otpPending \ {sent}
           /\ proven' = [proven EXCEPT ![q.of] = @ \cup {q.seen.phone}]
           /\ Serve(c, [q EXCEPT !.at = "Write"])
        \/ Finish(c) /\ UNCHANGED <<otpPending, proven>>
     /\ UNCHANGED <<account, crossed>>

-----------------------------------------------------------------------------
(* The writes. *)

(* The unique indexes of each table; super-admins have a table of their own. *)
Conflicts(a, row) ==
  \E b \in Accounts \ {a} :
    /\ InTable(b, IF a \in SuperAdmins THEN "superAdmin"
                  ELSE IF row.status \in Steps THEN "draft" ELSE "identity")
    /\ \/ row.phone # NoPhone /\ account[b].phone = row.phone
       \/ row.pan # NoPan /\ account[b].pan = row.pan

ToWrite(c, op, kind) == clerk[c].at = "Write" /\ clerk[c].op = op /\ clerk[c].of \in kind

Put(c, row) ==
  LET q == clerk[c]
  IN /\ ~Conflicts(q.of, row)
     /\ account' = [account EXCEPT ![q.of] = row]
     /\ IF q.op = "phone" THEN Serve(c, [q EXCEPT !.at = "Send"]) ELSE Finish(c)
     /\ UNCHANGED <<otpPending, proven>>

(* An update without a condition may find another row than was read. *)
Cross(c) ==
  LET q == clerk[c]
      row == account[q.of]
  IN crossed' = IF row.phone # q.seen.phone \/ row.status # q.seen.status
                THEN crossed \cup {q.of} ELSE crossed

(* Only the fields that are named; the draft of a completed registration   *)
(* is gone.                                                                *)
UpdateRegistrationDraft(c) ==
  LET q == clerk[c]
      row == account[q.of]
  IN /\ q.at = "Write" /\ q.of \in Registrations /\ row.status \in Steps
     /\ \/ q.op = "phone" /\ Put(c, [row EXCEPT !.phone = q.phone])
        \/ q.op = "verify" /\ Put(c, [row EXCEPT !.verified = TRUE, !.status = "PHONE_VERIFIED"])
        \/ q.op = "pan" /\ Put(c, [row EXCEPT !.pan = q.pan, !.status = "PAN_VERIFIED"])
     /\ Cross(c)

(* With the phone and the PAN of the draft that was read. *)
CompleteRegistration(c) ==
  LET q == clerk[c]
  IN /\ ToWrite(c, "details", Registrations) /\ account[q.of].status \in Steps
     /\ Put(c, [Issued EXCEPT !.status = "COMPLETED", !.verified = TRUE,
                  !.phone = q.seen.phone, !.pan = q.seen.pan])
     /\ UNCHANGED crossed

(* Mutant: the phone of an onboarding can be set again later. *)
MutPhoneSettable(row) == row.status # "COMPLETED"

PhoneSettable(row) == ~row.verified /\ row.status # "COMPLETED"

SetPhoneForOnboarding(c) ==
  LET q == clerk[c]
      row == account[q.of]
  IN /\ ToWrite(c, "phone", Identities) /\ PhoneSettable(row)
     /\ Put(c, [row EXCEPT !.phone = q.phone, !.verified = FALSE, !.status = "PHONE_PENDING"])
     /\ UNCHANGED crossed

(* Mutant: the verified phone need not be the account's any more. *)
MutStillVerifiable(row, seen) == ~row.verified /\ row.status = "PHONE_PENDING"

StillVerifiable(row, seen) ==
  row.phone = seen.phone /\ ~row.verified /\ row.status = "PHONE_PENDING"

MarkOnboardingPhoneVerified(c) ==
  LET q == clerk[c]
      row == account[q.of]
  IN /\ ToWrite(c, "verify", Identities) /\ StillVerifiable(row, q.seen)
     /\ Put(c, [row EXCEPT !.verified = TRUE, !.status = "PAN_PENDING"])
     /\ UNCHANGED crossed

AddPanForIdentityOnboarding(c) ==
  LET q == clerk[c]
      row == account[q.of]
  IN /\ ToWrite(c, "pan", Identities) /\ row.verified /\ row.status = "PAN_PENDING"
     /\ Put(c, [row EXCEPT !.pan = q.pan, !.status = "CREDENTIAL_CHANGE_REQUIRED"])
     /\ UNCHANGED crossed

UpdateSuperAdmin(c) ==
  LET q == clerk[c]
      row == account[q.of]
  IN /\ q.at = "Write" /\ q.of \in SuperAdmins
     /\ \/ /\ q.op = "phone"
           /\ Put(c, [row EXCEPT !.phone = q.phone, !.verified = FALSE, !.status = "PHONE_PENDING"])
        \/ q.op = "verify" /\ Put(c, [row EXCEPT !.verified = TRUE, !.status = "PAN_PENDING"])
        \/ q.op = "pan" /\ Put(c, [row EXCEPT !.pan = q.pan, !.status = "CREDENTIAL_CHANGE_REQUIRED"])
     /\ Cross(c)

(* The hash that was verified is still the account's. *)
ChangePassword(c) ==
  LET q == clerk[c]
      row == account[q.of]
  IN /\ ToWrite(c, "password", Accounts)
     /\ row.password = q.seen.password /\ row.password < MaxChanges
     /\ Put(c, [row EXCEPT !.password = @ + 1])
     /\ UNCHANGED crossed

(* It also ends the onboarding, whatever the row has become. *)
ChangeMpin(c) ==
  LET q == clerk[c]
      row == account[q.of]
  IN /\ ToWrite(c, "mpin", Accounts)
     /\ row.mpin = q.seen.mpin /\ row.mpin < MaxChanges
     /\ Put(c, [row EXCEPT !.mpin = @ + 1, !.status = "COMPLETED"])
     /\ UNCHANGED crossed

(* A condition that no longer holds, a unique index, or a failure. *)
WriteRefused(c) ==
  /\ clerk[c].at = "Write"
  /\ Finish(c)
  /\ UNCHANGED <<account, otpPending, proven, crossed>>

SendPhoneOtp(c) ==
  LET q == clerk[c]
  IN /\ q.at = "Send"
     /\ otpPending' \in {otpPending, otpPending \cup {<<q.phone, Purpose(q.of)>>}}
     /\ Finish(c)
     /\ UNCHANGED <<account, proven, crossed>>

OnbNext ==
  \/ \E a \in Registrations : RegisterRole(a)
  \/ \E c \in Clerks :
       \/ Receive(c) \/ Look(c) \/ VerifyPhoneOtp(c) \/ SendPhoneOtp(c)
       \/ UpdateRegistrationDraft(c) \/ CompleteRegistration(c)
       \/ SetPhoneForOnboarding(c) \/ MarkOnboardingPhoneVerified(c)
       \/ AddPanForIdentityOnboarding(c) \/ UpdateSuperAdmin(c)
       \/ ChangePassword(c) \/ ChangeMpin(c) \/ WriteRefused(c)

OnbSpec == OnbInit /\ [][OnbNext]_onbVars

-----------------------------------------------------------------------------
(* A phone that is marked as verified is one whose OTP was verified for    *)
(* the account, also if the phone was changed while its OTP was verified;  *)
(* unless a super-admin's or a registration's row moved on under an update *)
(* that has no condition.                                                  *)
VerifiedPhoneIsProven ==
  \A a \in Accounts \ crossed :
    account[a] # NoRow /\ account[a].verified => account[a].phone \in proven[a]

(* An account that has completed its onboarding has a verified phone, a    *)
(* PAN and both credentials changed, whatever requests of an earlier stage *)
(* end late; with the same exception.                                      *)
CompletedIsOnboarded ==
  \A a \in (Identities \cup SuperAdmins) \ crossed : account[a].status = "COMPLETED" =>
    account[a].verified /\ account[a].pan # NoPan /\ account[a].password > 0 /\ account[a].mpin > 0
=============================================================================
