---------------------- MODULE AccountOnboardingProofs ----------------------
(* Theorems about the onboarding of accounts, for any accounts, requests   *)
(* at a time, phones and PANs.                                             *)
EXTENDS AccountOnboarding, TLAPS

(* What is true of a row that no update without a condition has crossed,   *)
(* and of what a request has read of it.                                   *)
Sound(a, row) ==
  /\ row.verified => row.phone \in proven[a]
  /\ IF a \in Registrations THEN row.status = "ROLE_SELECTED" => ~row.verified
     ELSE /\ row.status \in Statuses
          /\ row.verified <=> row.status \in {"PAN_PENDING", "CREDENTIAL_CHANGE_REQUIRED", "COMPLETED"}
          /\ row.status \in {"CREDENTIAL_CHANGE_REQUIRED", "COMPLETED"} => row.pan # NoPan
          /\ row.status = "COMPLETED" => row.password > 0 /\ row.mpin > 0

(* A row at which a change of the MPIN completes the onboarding. *)
Completable(row) ==
  /\ row.verified /\ row.pan # NoPan /\ row.password > 0
  /\ row.status \in {"CREDENTIAL_CHANGE_REQUIRED", "COMPLETED"}

Kept(q) ==
  /\ account[q.of] # NoRow
  /\ Allowed(q.op, q.of, q.seen)
  /\ q.op = "verify" => q.at # "Look" /\ (q.at = "Write" => q.seen.phone \in proven[q.of])
  /\ q.of \notin crossed => Sound(q.of, q.seen)
  /\ q.op = "mpin" /\ q.of \notin crossed \cup Registrations => Completable(account[q.of])

OnbInv ==
  /\ OnbTypeOK
  /\ \A a \in Accounts \ Registrations : account[a] # NoRow
  /\ \A a \in Accounts \ crossed : account[a] # NoRow => Sound(a, account[a])
  /\ \A c \in Clerks : clerk[c] # Free => Kept(clerk[c])

-----------------------------------------------------------------------------
LEMMA InitOnbInv == OnbInit => OnbInv
<1> SUFFICES ASSUME OnbInit PROVE OnbInv
  OBVIOUS
<1> USE OnbAssumption
<1>1. Issued \in Row /\ Issued.verified = FALSE /\ Issued.status = "CREDENTIALS_ISSUED"
  BY DEF Issued, Row, Statuses
<1>2. OnbTypeOK
  BY <1>1 DEF OnbInit, OnbTypeOK, Accounts
<1>3. \A a \in Accounts : account[a] # NoRow => account[a] = Issued /\ a \notin Registrations
  BY DEF OnbInit
<1>4. \A a \in Accounts \ crossed : account[a] # NoRow => Sound(a, account[a])
  BY <1>1, <1>3 DEF Sound, Statuses
<1>5. \A a \in Accounts \ Registrations : account[a] # NoRow
  BY <1>1 DEF OnbInit
<1>6. QED BY <1>2, <1>4, <1>5 DEF OnbInv, OnbInit

LEMMA BusyClerk ==
  ASSUME OnbTypeOK, NEW c \in Clerks, clerk[c] # Free
  PROVE  clerk[c] \in Request
BY DEF OnbTypeOK

(* A step keeps the invariant if each row it writes and each request it    *)
(* moves is right, and the rows stay fit for the requests in progress.     *)
LEMMA KeptByStep ==
  ASSUME OnbInv, OnbTypeOK',
         \A d \in Clerks : clerk'[d] # clerk[d] /\ clerk'[d] # Free => Kept(clerk[d])',
         \A a \in Accounts : proven[a] \subseteq proven'[a],
         crossed \subseteq crossed',
         \A a \in Accounts : account'[a] # account[a] =>
           /\ account'[a] # NoRow
           /\ a \notin crossed' => Sound(a, account[a])'
           /\ a \notin crossed' \cup Registrations /\ Completable(account[a]) =>
                Completable(account'[a])
  PROVE  OnbInv'
<1>1. \A a \in (Accounts \ crossed)' : account'[a] # NoRow => Sound(a, account[a])'
  <2> SUFFICES ASSUME NEW a \in Accounts, a \notin crossed', account'[a] # NoRow
               PROVE  Sound(a, account[a])'
    BY DEF Accounts
  <2>1. CASE account'[a] = account[a]
    <3>1. Sound(a, account[a])
      BY <2>1 DEF OnbInv
    <3>2. QED BY <2>1, <3>1 DEF Sound
  <2>2. QED BY <2>1
<1>2. \A d \in Clerks : clerk'[d] # Free => Kept(clerk[d])'
  <2> SUFFICES ASSUME NEW d \in Clerks, clerk'[d] # Free, clerk'[d] = clerk[d]
               PROVE  Kept(clerk[d])'
    OBVIOUS
  <2>1. Kept(clerk[d]) /\ clerk[d].of \in Accounts
    BY BusyClerk DEF OnbInv, Request
  <2>2. (account[clerk[d].of] # NoRow)'
    BY <2>1 DEF Kept
  <2>3. clerk[d].of \notin crossed' => Sound(clerk[d].of, clerk[d].seen)'
    <3>1. clerk[d].of \notin crossed' => Sound(clerk[d].of, clerk[d].seen)
      BY <2>1 DEF Kept
    <3>2. QED BY <2>1, <3>1 DEF Sound
  <2>4. clerk[d].op = "mpin" /\ clerk[d].of \notin crossed' \cup Registrations =>
          Completable(account'[clerk[d].of])
    BY <2>1 DEF Kept
  <2>5. clerk[d].op = "verify" =>
          /\ clerk[d].at # "Look"
          /\ clerk[d].at = "Write" => clerk[d].seen.phone \in proven'[clerk[d].of]
    BY <2>1 DEF Kept
  <2>6. Allowed(clerk[d].op, clerk[d].of, clerk[d].seen)
    BY <2>1 DEF Kept
  <2>7. QED BY <2>2, <2>3, <2>4, <2>5, <2>6 DEF Kept
<1>3. \A a \in Accounts \ Registrations : account'[a] # NoRow
  BY DEF OnbInv
<1>4. QED BY <1>1, <1>2, <1>3 DEF OnbInv, Accounts

-----------------------------------------------------------------------------
(* Types. *)

LEMMA RowTypes ==
  ASSUME NEW row \in Row, NEW p \in Phones, NEW n \in Pans
  PROVE  /\ \A s \in Steps \cup Statuses :
              /\ [row EXCEPT !.phone = p, !.verified = FALSE, !.status = s] \in Row
              /\ [row EXCEPT !.verified = TRUE, !.status = s] \in Row
              /\ [row EXCEPT !.pan = n, !.status = s] \in Row
         /\ [row EXCEPT !.phone = p] \in Row
         /\ row.password < MaxChanges => [row EXCEPT !.password = @ + 1] \in Row
         /\ row.mpin < MaxChanges => [row EXCEPT !.mpin = @ + 1, !.status = "COMPLETED"] \in Row
<1> USE OnbAssumption DEF Row
<1>1. row.password < MaxChanges => row.password + 1 \in 0 .. MaxChanges
  OBVIOUS
<1>2. row.mpin < MaxChanges => row.mpin + 1 \in 0 .. MaxChanges
  OBVIOUS
<1>3. QED BY <1>1, <1>2 DEF Statuses

LEMMA IssuedType ==
  /\ Issued \in Row
  /\ [Issued EXCEPT !.status = "ROLE_SELECTED"] \in Row
  /\ \A p \in Phones \cup {NoPhone}, n \in Pans \cup {NoPan} :
       [Issued EXCEPT !.status = "COMPLETED", !.verified = TRUE, !.phone = p, !.pan = n] \in Row
<1>1. 0 \in 0 .. MaxChanges
  BY OnbAssumption
<1>2. Issued \in Row
  BY <1>1 DEF Issued, Row, Statuses
<1>3. [Issued EXCEPT !.status = "ROLE_SELECTED"] \in Row
  BY <1>2 DEF Row, Steps
<1>4. ASSUME NEW p \in Phones \cup {NoPhone}, NEW n \in Pans \cup {NoPan}
      PROVE  [Issued EXCEPT !.status = "COMPLETED", !.verified = TRUE, !.phone = p, !.pan = n] \in Row
  BY <1>2 DEF Row, Statuses
<1>5. QED BY <1>2, <1>3, <1>4

LEMMA PutType ==
  ASSUME OnbTypeOK, NEW c \in Clerks, clerk[c] \in Request, NEW row, row \in Row, Put(c, row)
  PROVE  /\ account' \in [Accounts -> Row \cup {NoRow}]
         /\ otpPending' \subseteq Phones \X {"REGISTER", "ACCOUNT_ONBOARDING"}
         /\ clerk' \in [Clerks -> {Free} \cup Request]
         /\ proven' \in [Accounts -> SUBSET Phones]
<1>1. [clerk[c] EXCEPT !.at = "Send"] \in Request
  BY DEF Request
<1>2. QED BY <1>1 DEF OnbTypeOK, Put, Serve, Finish

LEMMA ServedRow ==
  ASSUME OnbInv, NEW c \in Clerks, clerk[c].at # "Idle"
  PROVE  /\ clerk[c] # Free /\ clerk[c] \in Request /\ Kept(clerk[c])
         /\ clerk[c].of \in Accounts /\ clerk[c].phone \in Phones /\ clerk[c].pan \in Pans
         /\ clerk[c].seen \in Row /\ account[clerk[c].of] \in Row
<1>1. clerk[c] # Free
  BY DEF Free
<1>2. clerk[c] \in Request /\ Kept(clerk[c])
  BY <1>1, BusyClerk DEF OnbInv
<1>3. QED BY <1>1, <1>2 DEF Request, Kept, OnbInv, OnbTypeOK

LEMMA TypeStep ==
  ASSUME OnbInv, [OnbNext]_onbVars
  PROVE  OnbTypeOK'
<1> OnbTypeOK
  BY DEF OnbInv
<1>1. ASSUME NEW a \in Registrations, RegisterRole(a) PROVE OnbTypeOK'
  BY <1>1, IssuedType DEF OnbTypeOK, RegisterRole
<1>2. ASSUME NEW c \in Clerks, Receive(c) PROVE OnbTypeOK'
  <2>1. PICK op \in Demands, a \in Accounts, p \in Phones, n \in Pans :
          /\ account[a] # NoRow
          /\ Serve(c, [op |-> op, of |-> a, phone |-> p, pan |-> n, left |-> LookedIn(op, a),
               seen |-> account[a],
               at |-> IF op = "verify" THEN "Otp" ELSE IF LookedIn(op, a) # {} THEN "Look" ELSE "Write"])
    BY <1>2 DEF Receive
  <2>2. LookedIn(op, a) \subseteq Tables /\ account[a] \in Row
    BY <2>1 DEF LookedIn, Tables, OnbTypeOK
  <2>3. QED BY <1>2, <2>1, <2>2 DEF Receive, Serve, Request, OnbTypeOK
<1>3. ASSUME NEW c \in Clerks, Look(c) PROVE OnbTypeOK'
  <2>1. clerk[c] \in Request
    BY <1>3, BusyClerk DEF Look, Free
  <2>2. \A table \in Tables :
          [clerk[c] EXCEPT !.left = @ \ {table},
             !.at = IF clerk[c].left = {table} THEN "Write" ELSE "Look"] \in Request
    BY <2>1 DEF Request
  <2>3. clerk[c].left \subseteq Tables
    BY <2>1 DEF Request
  <2>4. QED BY <1>3, <2>2, <2>3 DEF Look, Serve, Finish, OnbTypeOK
<1>4. ASSUME NEW c \in Clerks, VerifyPhoneOtp(c) PROVE OnbTypeOK'
  <2>1. clerk[c] \in Request
    BY <1>4, BusyClerk DEF VerifyPhoneOtp, Free
  <2>2. [clerk[c] EXCEPT !.at = "Write"] \in Request /\ clerk[c].of \in Accounts
    BY <2>1 DEF Request
  <2>3. clerk' \in [Clerks -> {Free} \cup Request]
    BY <1>4, <2>2 DEF VerifyPhoneOtp, Serve, Finish, OnbTypeOK
  <2>4. <<clerk[c].seen.phone, Purpose(clerk[c].of)>> \in otpPending => clerk[c].seen.phone \in Phones
    BY DEF OnbTypeOK
  <2>5. QED BY <1>4, <2>2, <2>3, <2>4 DEF VerifyPhoneOtp, OnbTypeOK
<1>5. ASSUME NEW c \in Clerks, SendPhoneOtp(c) PROVE OnbTypeOK'
  <2>1. clerk[c] \in Request
    BY <1>5, BusyClerk DEF SendPhoneOtp, Free
  <2>2. <<clerk[c].phone, Purpose(clerk[c].of)>> \in Phones \X {"REGISTER", "ACCOUNT_ONBOARDING"}
    BY <2>1 DEF Request, Purpose
  <2>3. otpPending' \subseteq Phones \X {"REGISTER", "ACCOUNT_ONBOARDING"}
    BY <1>5, <2>2 DEF SendPhoneOtp, OnbTypeOK
  <2>4. QED BY <1>5, <2>3 DEF SendPhoneOtp, Serve, Finish, OnbTypeOK
<1>6. ASSUME NEW c \in Clerks, WriteRefused(c) PROVE OnbTypeOK'
  BY <1>6 DEF WriteRefused, Serve, Finish, OnbTypeOK
<1>7. ASSUME NEW c \in Clerks, clerk[c].at = "Write",
             NEW row, row \in Row, Put(c, row), crossed' \subseteq SuperAdmins \cup Registrations
      PROVE  OnbTypeOK'
  BY <1>7, PutType, ServedRow DEF OnbTypeOK
<1>8. ASSUME NEW c \in Clerks, Cross(c), clerk[c].of \notin Identities, clerk[c].at = "Write"
      PROVE  crossed' \subseteq SuperAdmins \cup Registrations
  <2>1. clerk[c].of \in Accounts
    BY <1>8, ServedRow
  <2>2. QED BY <1>8, <2>1 DEF Cross, OnbTypeOK, Accounts
<1>9. ASSUME NEW c \in Clerks, UpdateRegistrationDraft(c) PROVE OnbTypeOK'
  <2> DEFINE row == account[clerk[c].of]
  <2>1. row \in Row /\ clerk[c].phone \in Phones /\ clerk[c].pan \in Pans
    BY <1>9, ServedRow DEF UpdateRegistrationDraft
  <2>2. /\ [row EXCEPT !.phone = clerk[c].phone] \in Row
        /\ [row EXCEPT !.verified = TRUE, !.status = "PHONE_VERIFIED"] \in Row
        /\ [row EXCEPT !.pan = clerk[c].pan, !.status = "PAN_VERIFIED"] \in Row
    BY <2>1, RowTypes DEF Steps
  <2>3. crossed' \subseteq SuperAdmins \cup Registrations
    BY <1>8, <1>9, OnbAssumption DEF UpdateRegistrationDraft
  <2>4. QED BY <1>7, <1>9, <2>2, <2>3 DEF UpdateRegistrationDraft
<1>10. ASSUME NEW c \in Clerks, CompleteRegistration(c) PROVE OnbTypeOK'
  <2>1. clerk[c].at = "Write"
    BY <1>10 DEF CompleteRegistration, ToWrite
  <2>2. clerk[c].seen.phone \in Phones \cup {NoPhone} /\ clerk[c].seen.pan \in Pans \cup {NoPan}
    BY <2>1, ServedRow DEF Row
  <2>3. [Issued EXCEPT !.status = "COMPLETED", !.verified = TRUE,
           !.phone = clerk[c].seen.phone, !.pan = clerk[c].seen.pan] \in Row
    BY <2>2, IssuedType
  <2>4. QED BY <1>7, <1>10, <2>1, <2>3 DEF CompleteRegistration, OnbTypeOK
<1>11. ASSUME NEW c \in Clerks, SetPhoneForOnboarding(c) PROVE OnbTypeOK'
  <2>1. clerk[c].at = "Write"
    BY <1>11 DEF SetPhoneForOnboarding, ToWrite
  <2>2. [account[clerk[c].of] EXCEPT !.phone = clerk[c].phone, !.verified = FALSE,
           !.status = "PHONE_PENDING"] \in Row
    BY <2>1, ServedRow, RowTypes DEF Statuses
  <2>3. QED BY <1>7, <1>11, <2>1, <2>2 DEF SetPhoneForOnboarding, OnbTypeOK
<1>12. ASSUME NEW c \in Clerks, MarkOnboardingPhoneVerified(c) PROVE OnbTypeOK'
  <2>1. clerk[c].at = "Write"
    BY <1>12 DEF MarkOnboardingPhoneVerified, ToWrite
  <2>2. [account[clerk[c].of] EXCEPT !.verified = TRUE, !.status = "PAN_PENDING"] \in Row
    BY <2>1, ServedRow, RowTypes DEF Statuses
  <2>3. QED BY <1>7, <1>12, <2>1, <2>2 DEF MarkOnboardingPhoneVerified, OnbTypeOK
<1>13. ASSUME NEW c \in Clerks, AddPanForIdentityOnboarding(c) PROVE OnbTypeOK'
  <2>1. clerk[c].at = "Write"
    BY <1>13 DEF AddPanForIdentityOnboarding, ToWrite
  <2>2. [account[clerk[c].of] EXCEPT !.pan = clerk[c].pan,
           !.status = "CREDENTIAL_CHANGE_REQUIRED"] \in Row
    BY <2>1, ServedRow, RowTypes DEF Statuses
  <2>3. QED BY <1>7, <1>13, <2>1, <2>2 DEF AddPanForIdentityOnboarding, OnbTypeOK
<1>14. ASSUME NEW c \in Clerks, UpdateSuperAdmin(c) PROVE OnbTypeOK'
  <2> DEFINE row == account[clerk[c].of]
  <2>1. row \in Row /\ clerk[c].phone \in Phones /\ clerk[c].pan \in Pans
    BY <1>14, ServedRow DEF UpdateSuperAdmin
  <2>2. /\ [row EXCEPT !.phone = clerk[c].phone, !.verified = FALSE, !.status = "PHONE_PENDING"] \in Row
        /\ [row EXCEPT !.verified = TRUE, !.status = "PAN_PENDING"] \in Row
        /\ [row EXCEPT !.pan = clerk[c].pan, !.status = "CREDENTIAL_CHANGE_REQUIRED"] \in Row
    BY <2>1, RowTypes DEF Statuses
  <2>3. crossed' \subseteq SuperAdmins \cup Registrations
    BY <1>8, <1>14, OnbAssumption DEF UpdateSuperAdmin
  <2>4. QED BY <1>7, <1>14, <2>2, <2>3 DEF UpdateSuperAdmin
<1>15. ASSUME NEW c \in Clerks, ChangePassword(c) PROVE OnbTypeOK'
  <2>1. clerk[c].at = "Write" /\ account[clerk[c].of].password < MaxChanges
    BY <1>15 DEF ChangePassword, ToWrite
  <2>2. [account[clerk[c].of] EXCEPT !.password = @ + 1] \in Row
    BY <2>1, ServedRow, RowTypes
  <2>3. QED BY <1>7, <1>15, <2>1, <2>2 DEF ChangePassword, OnbTypeOK
<1>16. ASSUME NEW c \in Clerks, ChangeMpin(c) PROVE OnbTypeOK'
  <2>1. clerk[c].at = "Write" /\ account[clerk[c].of].mpin < MaxChanges
    BY <1>16 DEF ChangeMpin, ToWrite
  <2>2. [account[clerk[c].of] EXCEPT !.mpin = @ + 1, !.status = "COMPLETED"] \in Row
    BY <2>1, ServedRow, RowTypes
  <2>3. QED BY <1>7, <1>16, <2>1, <2>2 DEF ChangeMpin, OnbTypeOK
<1>17. CASE UNCHANGED onbVars
  BY <1>17 DEF onbVars, OnbTypeOK
<1>18. QED
  BY <1>1, <1>2, <1>3, <1>4, <1>5, <1>6, <1>9, <1>10, <1>11, <1>12, <1>13, <1>14, <1>15, <1>16,
     <1>17 DEF OnbNext

-----------------------------------------------------------------------------
(* Steps that write no row: only the request that moves has to be right. *)

LEMMA MovedOnly ==
  ASSUME OnbInv, OnbTypeOK', NEW c \in Clerks, NEW q, clerk' = [clerk EXCEPT ![c] = q],
         UNCHANGED <<account, crossed>>, \A a \in Accounts : proven[a] \subseteq proven'[a],
         q # Free => Kept(clerk[c])'
  PROVE  OnbInv'
<1>1. \A d \in Clerks : d # c => clerk'[d] = clerk[d]
  BY DEF OnbInv, OnbTypeOK
<1>2. clerk'[c] = q
  BY DEF OnbInv, OnbTypeOK
<1>3. \A d \in Clerks : clerk'[d] # clerk[d] /\ clerk'[d] # Free => Kept(clerk[d])'
  BY <1>1, <1>2
<1>4. QED BY <1>3, KeptByStep

LEMMA ReceiveKeeps ==
  ASSUME OnbInv, OnbTypeOK', NEW c \in Clerks, Receive(c)
  PROVE  OnbInv'
<1>1. PICK op \in Demands, a \in Accounts, p \in Phones, n \in Pans :
        /\ account[a] # NoRow /\ Allowed(op, a, account[a])
        /\ Serve(c, [op |-> op, of |-> a, phone |-> p, pan |-> n, left |-> LookedIn(op, a),
             seen |-> account[a],
             at |-> IF op = "verify" THEN "Otp" ELSE IF LookedIn(op, a) # {} THEN "Look" ELSE "Write"])
  BY DEF Receive
<1>2. clerk'[c].op = op /\ clerk'[c].of = a /\ clerk'[c].seen = account[a]
      /\ (op = "verify" => clerk'[c].at = "Otp")
  BY <1>1 DEF Serve, OnbInv, OnbTypeOK
<1>3. a \notin crossed => Sound(a, account[a])
  BY <1>1 DEF OnbInv
<1>4. account' = account /\ crossed' = crossed /\ proven' = proven
  BY DEF Receive
<1>5. op = "mpin" /\ a \notin crossed \cup Registrations => Completable(account[a])
  <2> SUFFICES ASSUME op = "mpin", a \notin crossed, a \notin Registrations
               PROVE  Completable(account[a])
    OBVIOUS
  <2>1. account[a].status \notin Steps
    BY <1>3 DEF Sound, Steps, Statuses
  <2>2. CASE account[a].status = "COMPLETED"
    BY <1>3, <2>2 DEF Sound, Completable
  <2>3. CASE CredentialChangeDue(op, account[a])
    BY <2>3 DEF CredentialChangeDue, Completable
  <2>4. QED BY <1>1, <2>1, <2>2, <2>3 DEF Allowed, SuperAdminAllows, IdentityAllows
<1>6. Kept(clerk[c])'
  BY <1>1, <1>2, <1>3, <1>4, <1>5 DEF Kept, Sound
<1>7. QED BY <1>1, <1>4, <1>6, MovedOnly DEF Serve

LEMMA LookKeeps ==
  ASSUME OnbInv, OnbTypeOK', NEW c \in Clerks, Look(c)
  PROVE  OnbInv'
<1>1. clerk[c].at = "Look" /\ clerk[c] \in Request /\ Kept(clerk[c]) /\ clerk[c].op # "verify"
  BY ServedRow DEF Look, Kept
<1>2. account' = account /\ crossed' = crossed /\ proven' = proven
  BY DEF Look
<1>3. CASE clerk' = [clerk EXCEPT ![c] = Free]
  BY <1>2, <1>3, MovedOnly
<1>4. ASSUME NEW table \in clerk[c].left,
             clerk' = [clerk EXCEPT ![c] = [clerk[c] EXCEPT !.left = @ \ {table},
                         !.at = IF clerk[c].left = {table} THEN "Write" ELSE "Look"]]
      PROVE  OnbInv'
  <2>1. /\ clerk'[c].op = clerk[c].op /\ clerk'[c].of = clerk[c].of
        /\ clerk'[c].seen = clerk[c].seen
    BY <1>1, <1>4 DEF OnbInv, OnbTypeOK, Request
  <2>2. Kept(clerk[c])'
    <3>1. clerk[c].of \notin crossed => Sound(clerk[c].of, clerk[c].seen)
      BY <1>1 DEF Kept
    <3>2. (clerk[c].of \notin crossed => Sound(clerk[c].of, clerk[c].seen))'
      BY <1>2, <2>1, <3>1 DEF Sound
    <3>3. QED BY <1>1, <1>2, <2>1, <3>2 DEF Kept
  <2>3. QED BY <1>2, <1>4, <2>2, MovedOnly
<1>5. QED BY <1>3, <1>4 DEF Look, Serve, Finish

LEMMA VerifyKeeps ==
  ASSUME OnbInv, OnbTypeOK', NEW c \in Clerks, VerifyPhoneOtp(c)
  PROVE  OnbInv'
<1>1. clerk[c].at = "Otp" /\ clerk[c] \in Request /\ Kept(clerk[c]) /\ clerk[c].of \in Accounts
  BY ServedRow DEF VerifyPhoneOtp
<1>2. account' = account /\ crossed' = crossed
  BY DEF VerifyPhoneOtp
<1>3. CASE clerk' = [clerk EXCEPT ![c] = Free] /\ proven' = proven
  BY <1>2, <1>3, MovedOnly
<1>4. CASE /\ proven' = [proven EXCEPT ![clerk[c].of] = @ \cup {clerk[c].seen.phone}]
           /\ clerk' = [clerk EXCEPT ![c] = [clerk[c] EXCEPT !.at = "Write"]]
  <2>1. /\ \A a \in Accounts : proven[a] \subseteq proven'[a]
        /\ clerk[c].seen.phone \in proven'[clerk[c].of]
    BY <1>1, <1>4 DEF OnbInv, OnbTypeOK
  <2>2. /\ clerk'[c].op = clerk[c].op /\ clerk'[c].of = clerk[c].of
        /\ clerk'[c].seen = clerk[c].seen
    BY <1>1, <1>4 DEF OnbInv, OnbTypeOK, Request
  <2>3. Kept(clerk[c])'
    <3>1. clerk[c].of \notin crossed => Sound(clerk[c].of, clerk[c].seen)
      BY <1>1 DEF Kept
    <3>2. (clerk[c].of \notin crossed => Sound(clerk[c].of, clerk[c].seen))'
      BY <1>1, <1>2, <2>1, <2>2, <3>1 DEF Sound
    <3>3. (clerk[c].op = "verify" => clerk[c].at # "Look" /\ clerk[c].seen.phone \in proven[clerk[c].of])'
      BY <1>1, <1>4, <2>1, <2>2 DEF OnbInv, OnbTypeOK, Request
    <3>4. QED BY <1>1, <1>2, <2>2, <3>2, <3>3 DEF Kept
  <2>4. QED BY <1>2, <1>4, <2>1, <2>3, MovedOnly
<1>5. QED BY <1>3, <1>4 DEF VerifyPhoneOtp, Serve, Finish

LEMMA FreedKeeps ==
  ASSUME OnbInv, OnbTypeOK', NEW c \in Clerks, Finish(c), UNCHANGED <<account, crossed, proven>>
  PROVE  OnbInv'
BY MovedOnly DEF Finish, Serve

-----------------------------------------------------------------------------
(* The writes. *)

LEMMA RegisterKeeps ==
  ASSUME OnbInv, OnbTypeOK', NEW a \in Registrations, RegisterRole(a)
  PROVE  OnbInv'
<1>1. a \in Accounts /\ account'[a] = [Issued EXCEPT !.status = "ROLE_SELECTED"]
  BY DEF RegisterRole, OnbInv, OnbTypeOK, Accounts
<1>2. account'[a].verified = FALSE /\ account'[a] # NoRow
  BY <1>1, IssuedType, OnbAssumption DEF Issued
<1>3. Sound(a, account[a])'
  BY <1>2 DEF Sound
<1>4. \A b \in Accounts : account'[b] # account[b] => b = a
  BY DEF RegisterRole, OnbInv, OnbTypeOK
<1>5. UNCHANGED <<clerk, proven, crossed>>
  BY DEF RegisterRole
<1>6. QED BY <1>2, <1>3, <1>4, <1>5, KeptByStep

LEMMA PutKeeps ==
  ASSUME OnbInv, OnbTypeOK', NEW c \in Clerks, clerk[c].at = "Write", NEW row, row \in Row,
         Put(c, row), crossed \subseteq crossed',
         clerk[c].of \notin crossed' => Sound(clerk[c].of, row),
         clerk[c].of \notin crossed' \cup Registrations /\ Completable(account[clerk[c].of]) =>
           Completable(row)
  PROVE  OnbInv'
<1>1. clerk[c] \in Request /\ Kept(clerk[c]) /\ clerk[c].of \in Accounts
  BY ServedRow
<1>2. proven' = proven
  BY DEF Put
<1>3. /\ account'[clerk[c].of] = row /\ row # NoRow
      /\ \A b \in Accounts : b # clerk[c].of => account'[b] = account[b]
  BY <1>1, OnbAssumption DEF Put, OnbInv, OnbTypeOK
<1>4. /\ \A d \in Clerks : d # c => clerk'[d] = clerk[d]
      /\ clerk'[c] # Free => clerk[c].op = "phone" /\ clerk'[c] = [clerk[c] EXCEPT !.at = "Send"]
  BY DEF Put, Serve, Finish, OnbInv, OnbTypeOK
<1>5. clerk'[c] # Free => Kept(clerk[c])'
  <2> SUFFICES ASSUME clerk'[c] # Free PROVE Kept(clerk[c])'
    OBVIOUS
  <2>1. /\ clerk'[c].op = "phone" /\ clerk'[c].of = clerk[c].of /\ clerk'[c].seen = clerk[c].seen
        /\ clerk[c].op = "phone"
    BY <1>1, <1>4 DEF Request
  <2>2. clerk[c].of \notin crossed => Sound(clerk[c].of, clerk[c].seen)
    BY <1>1 DEF Kept
  <2>3. (clerk[c].of \notin crossed => Sound(clerk[c].of, clerk[c].seen))'
    BY <1>2, <2>1, <2>2 DEF Sound
  <2>4. Allowed(clerk[c].op, clerk[c].of, clerk[c].seen)'
    BY <1>1, <2>1 DEF Kept
  <2>5. QED BY <1>3, <2>1, <2>3, <2>4 DEF Kept
<1>6. \A d \in Clerks : clerk'[d] # clerk[d] /\ clerk'[d] # Free => Kept(clerk[d])'
  BY <1>4, <1>5
<1>7. \A b \in Accounts : account'[b] # account[b] =>
        /\ account'[b] # NoRow
        /\ b \notin crossed' => Sound(b, account[b])'
        /\ b \notin crossed' \cup Registrations /\ Completable(account[b]) => Completable(account'[b])
  <2> SUFFICES ASSUME NEW b \in Accounts, account'[b] # account[b]
               PROVE  /\ account'[b] # NoRow
                      /\ b \notin crossed' => Sound(b, account[b])'
                      /\ b \notin crossed' \cup Registrations /\ Completable(account[b]) =>
                           Completable(account'[b])
    OBVIOUS
  <2>1. b = clerk[c].of
    BY <1>3
  <2>2. account'[b] = row /\ row # NoRow
    BY <1>3, <2>1
  <2>3. b \notin crossed' => Sound(b, account[b])'
    BY <1>2, <2>1, <2>2 DEF Sound
  <2>4. QED BY <2>1, <2>2, <2>3
<1>8. QED BY <1>2, <1>6, <1>7, KeptByStep

(* Either the update crossed another, or the row is where it was read. *)
LEMMA CrossedOrSame ==
  ASSUME OnbInv, NEW c \in Clerks, clerk[c].at = "Write", Cross(c), clerk[c].of \notin crossed'
  PROVE  LET q == clerk[c]
             row == account[q.of]
         IN /\ row.phone = q.seen.phone /\ row.status = q.seen.status
            /\ Sound(q.of, row) /\ Sound(q.of, q.seen) /\ Allowed(q.op, q.of, q.seen)
            /\ q.op = "verify" => q.seen.phone \in proven[q.of]
<1>1. clerk[c].of \in Accounts /\ Kept(clerk[c])
  BY ServedRow
<1>2. /\ clerk[c].of \notin crossed
      /\ account[clerk[c].of].phone = clerk[c].seen.phone
      /\ account[clerk[c].of].status = clerk[c].seen.status
  BY DEF Cross
<1>3. QED BY <1>1, <1>2 DEF Kept, OnbInv

LEMMA CrossGrows ==
  ASSUME NEW c \in Clerks, Cross(c)
  PROVE  crossed \subseteq crossed'
BY DEF Cross

LEMMA DraftKeeps ==
  ASSUME OnbInv, OnbTypeOK', NEW c \in Clerks, UpdateRegistrationDraft(c)
  PROVE  OnbInv'
<1> DEFINE q == clerk[c]
           row == account[q.of]
<1>1. /\ q.at = "Write" /\ q.of \in Registrations /\ row.status \in Steps
      /\ Cross(c) /\ crossed \subseteq crossed'
  BY CrossGrows DEF UpdateRegistrationDraft
<1>2. row \in Row /\ q.phone \in Phones /\ q.pan \in Pans
  BY <1>1, ServedRow
<1>3. q.of \notin crossed' =>
        /\ row.phone = q.seen.phone /\ Sound(q.of, row)
        /\ DraftAllows(q.op, row) \/ (q.seen.status = row.status /\ DraftAllows(q.op, q.seen))
        /\ q.op = "verify" => row.phone \in proven[q.of]
  BY <1>1, CrossedOrSame, OnbAssumption DEF Allowed
<1>4. CASE q.op = "phone" /\ Put(c, [row EXCEPT !.phone = q.phone])
  <2>1. q.of \notin crossed' => row.status = "ROLE_SELECTED"
    BY <1>3, <1>4 DEF DraftAllows
  <2>2. q.of \notin crossed' => row.verified = FALSE
    BY <1>1, <1>2, <1>3, <2>1 DEF Sound, Row
  <2>3. q.of \notin crossed' => Sound(q.of, [row EXCEPT !.phone = q.phone])
    BY <1>1, <1>2, <2>2 DEF Sound, Row
  <2>4. QED BY <1>1, <1>2, <1>4, <2>3, RowTypes, PutKeeps
<1>5. CASE q.op = "verify" /\ Put(c, [row EXCEPT !.verified = TRUE, !.status = "PHONE_VERIFIED"])
  <2>1. q.of \notin crossed' =>
          Sound(q.of, [row EXCEPT !.verified = TRUE, !.status = "PHONE_VERIFIED"])
    BY <1>1, <1>2, <1>3, <1>5 DEF Sound, Row
  <2>2. [row EXCEPT !.verified = TRUE, !.status = "PHONE_VERIFIED"] \in Row
    BY <1>2, RowTypes DEF Steps
  <2>3. QED BY <1>1, <1>5, <2>1, <2>2, PutKeeps
<1>6. CASE q.op = "pan" /\ Put(c, [row EXCEPT !.pan = q.pan, !.status = "PAN_VERIFIED"])
  <2>1. q.of \notin crossed' => Sound(q.of, [row EXCEPT !.pan = q.pan, !.status = "PAN_VERIFIED"])
    BY <1>1, <1>2, <1>3 DEF Sound, Row
  <2>2. [row EXCEPT !.pan = q.pan, !.status = "PAN_VERIFIED"] \in Row
    BY <1>2, RowTypes DEF Steps
  <2>3. QED BY <1>1, <1>6, <2>1, <2>2, PutKeeps
<1>7. QED BY <1>4, <1>5, <1>6 DEF UpdateRegistrationDraft

LEMMA CompleteKeeps ==
  ASSUME OnbInv, OnbTypeOK', NEW c \in Clerks, CompleteRegistration(c)
  PROVE  OnbInv'
<1> DEFINE q == clerk[c]
           new == [Issued EXCEPT !.status = "COMPLETED", !.verified = TRUE,
                     !.phone = q.seen.phone, !.pan = q.seen.pan]
<1>1. /\ q.at = "Write" /\ q.op = "details" /\ q.of \in Registrations
      /\ Put(c, new) /\ crossed' = crossed
  BY DEF CompleteRegistration, ToWrite
<1>2. q.seen \in Row /\ Kept(q)
  BY <1>1, ServedRow
<1>3. new \in Row
  BY <1>2, IssuedType DEF Row
<1>4. q.seen.verified
  BY <1>1, <1>2, OnbAssumption
     DEF Kept, Allowed, DraftAllows, IdentityAllows, OnboardingAllows
<1>5. q.of \notin crossed => q.seen.phone \in proven[q.of]
  BY <1>2, <1>4 DEF Kept, Sound
<1>6. new.phone = q.seen.phone /\ new.status = "COMPLETED"
  BY DEF Issued
<1>7. q.of \notin crossed => Sound(q.of, new)
  BY <1>1, <1>5, <1>6 DEF Sound
<1>8. QED BY <1>1, <1>3, <1>7, PutKeeps

LEMMA IdentityNotCrossed ==
  ASSUME OnbInv, NEW a \in Identities
  PROVE  a \notin crossed /\ a \notin Registrations /\ a \notin SuperAdmins /\ a \in Accounts
BY OnbAssumption DEF OnbInv, OnbTypeOK, Accounts

LEMMA IdentityWriteKeeps ==
  ASSUME OnbInv, OnbTypeOK', NEW c \in Clerks,
         SetPhoneForOnboarding(c) \/ MarkOnboardingPhoneVerified(c) \/ AddPanForIdentityOnboarding(c)
  PROVE  OnbInv'
<1> DEFINE q == clerk[c]
           row == account[q.of]
<1>1. q.at = "Write" /\ q.of \in Identities /\ crossed' = crossed
  BY DEF SetPhoneForOnboarding, MarkOnboardingPhoneVerified, AddPanForIdentityOnboarding, ToWrite
<1>2. /\ row \in Row /\ q.phone \in Phones /\ q.pan \in Pans /\ Kept(q)
      /\ q.of \notin crossed /\ q.of \notin Registrations
  BY <1>1, ServedRow, IdentityNotCrossed
<1>3. Sound(q.of, row)
  BY <1>2, ServedRow, <1>1 DEF OnbInv, Kept
<1>4. CASE SetPhoneForOnboarding(c)
  <2> DEFINE new == [row EXCEPT !.phone = q.phone, !.verified = FALSE, !.status = "PHONE_PENDING"]
  <2>1. Put(c, new) /\ ~row.verified
    BY <1>4 DEF SetPhoneForOnboarding, PhoneSettable
  <2>2. new \in Row
    BY <1>2, RowTypes DEF Statuses
  <2>3. new.verified = FALSE /\ new.status = "PHONE_PENDING"
    BY <1>2 DEF Row
  <2>4. Sound(q.of, new) /\ ~Completable(row)
    BY <1>2, <2>1, <2>3 DEF Sound, Statuses, Completable
  <2>5. QED BY <1>1, <2>1, <2>2, <2>4, PutKeeps
<1>5. CASE MarkOnboardingPhoneVerified(c)
  <2> DEFINE new == [row EXCEPT !.verified = TRUE, !.status = "PAN_PENDING"]
  <2>1. Put(c, new) /\ ~row.verified /\ row.phone = q.seen.phone /\ q.op = "verify"
    BY <1>5 DEF MarkOnboardingPhoneVerified, StillVerifiable, ToWrite
  <2>2. new \in Row
    BY <1>2, RowTypes DEF Statuses
  <2>3. new.phone \in proven[q.of] /\ new.verified = TRUE /\ new.status = "PAN_PENDING"
    BY <1>1, <1>2, <2>1 DEF Kept, Row
  <2>4. Sound(q.of, new) /\ ~Completable(row)
    BY <1>2, <2>1, <2>3 DEF Sound, Statuses, Completable
  <2>5. QED BY <1>1, <2>1, <2>2, <2>4, PutKeeps
<1>6. CASE AddPanForIdentityOnboarding(c)
  <2> DEFINE new == [row EXCEPT !.pan = q.pan, !.status = "CREDENTIAL_CHANGE_REQUIRED"]
  <2>1. Put(c, new) /\ row.verified /\ row.status = "PAN_PENDING"
    BY <1>6 DEF AddPanForIdentityOnboarding
  <2>2. new \in Row
    BY <1>2, RowTypes DEF Statuses
  <2>3. /\ new.verified = row.verified /\ new.phone = row.phone
        /\ new.pan # NoPan /\ new.status = "CREDENTIAL_CHANGE_REQUIRED"
    BY <1>2, OnbAssumption DEF Row
  <2>4. Sound(q.of, new) /\ ~Completable(row)
    BY <1>2, <1>3, <2>1, <2>3 DEF Sound, Statuses, Completable
  <2>5. QED BY <1>1, <2>1, <2>2, <2>4, PutKeeps
<1>7. QED BY <1>4, <1>5, <1>6

LEMMA SuperAdminKeeps ==
  ASSUME OnbInv, OnbTypeOK', NEW c \in Clerks, UpdateSuperAdmin(c)
  PROVE  OnbInv'
<1> DEFINE q == clerk[c]
           row == account[q.of]
<1>1. /\ q.at = "Write" /\ q.of \in SuperAdmins /\ q.of \notin Registrations
      /\ Cross(c) /\ crossed \subseteq crossed'
  BY CrossGrows, OnbAssumption DEF UpdateSuperAdmin
<1>2. row \in Row /\ q.phone \in Phones /\ q.pan \in Pans
  BY <1>1, ServedRow
<1>3. q.of \notin crossed' =>
        /\ row.phone = q.seen.phone /\ row.status = q.seen.status
        /\ Sound(q.of, row) /\ Sound(q.of, q.seen) /\ SuperAdminAllows(q.op, q.seen)
        /\ q.op = "verify" => row.phone \in proven[q.of]
  BY <1>1, CrossedOrSame DEF Allowed
<1>4. CASE q.op = "phone" /\ Put(c, [row EXCEPT !.phone = q.phone, !.verified = FALSE,
                                      !.status = "PHONE_PENDING"])
  <2> DEFINE new == [row EXCEPT !.phone = q.phone, !.verified = FALSE, !.status = "PHONE_PENDING"]
  <2>1. new \in Row /\ new.verified = FALSE /\ new.status = "PHONE_PENDING"
    BY <1>2, RowTypes DEF Statuses, Row
  <2>2. Sound(q.of, new)
    BY <1>1, <2>1 DEF Sound, Statuses
  <2>3. q.of \notin crossed' => row.status \notin {"CREDENTIAL_CHANGE_REQUIRED", "COMPLETED"}
    BY <1>1, <1>3, <1>4 DEF Sound, SuperAdminAllows, OnboardingAllows
  <2>4. q.of \notin crossed' => ~Completable(row)
    BY <2>3 DEF Completable
  <2>5. QED BY <1>1, <1>4, <2>1, <2>2, <2>4, PutKeeps
<1>5. CASE q.op = "verify" /\ Put(c, [row EXCEPT !.verified = TRUE, !.status = "PAN_PENDING"])
  <2> DEFINE new == [row EXCEPT !.verified = TRUE, !.status = "PAN_PENDING"]
  <2>1. /\ new \in Row /\ new.verified = TRUE /\ new.status = "PAN_PENDING"
        /\ new.phone = row.phone
    BY <1>2, RowTypes DEF Statuses, Row
  <2>2. q.of \notin crossed' => Sound(q.of, new)
    BY <1>1, <1>3, <1>5, <2>1 DEF Sound, Statuses
  <2>3. q.of \notin crossed' => row.status = "PHONE_PENDING"
    BY <1>3, <1>5 DEF SuperAdminAllows, OnboardingAllows
  <2>4. q.of \notin crossed' => ~Completable(row)
    BY <2>3 DEF Completable
  <2>5. QED BY <1>1, <1>5, <2>1, <2>2, <2>4, PutKeeps
<1>6. CASE q.op = "pan" /\ Put(c, [row EXCEPT !.pan = q.pan, !.status = "CREDENTIAL_CHANGE_REQUIRED"])
  <2> DEFINE new == [row EXCEPT !.pan = q.pan, !.status = "CREDENTIAL_CHANGE_REQUIRED"]
  <2>1. /\ new \in Row /\ new.pan # NoPan /\ new.status = "CREDENTIAL_CHANGE_REQUIRED"
        /\ new.phone = row.phone /\ new.verified = row.verified
    <3>1. new \in Row
      BY <1>2, RowTypes DEF Statuses
    <3>2. QED BY <1>2, <3>1, OnbAssumption DEF Row
  <2>2. q.of \notin crossed' => row.status = "PAN_PENDING"
    BY <1>3, <1>6 DEF SuperAdminAllows, OnboardingAllows
  <2>3. q.of \notin crossed' => Sound(q.of, new)
    BY <1>1, <1>3, <2>1, <2>2 DEF Sound, Statuses
  <2>4. q.of \notin crossed' => ~Completable(row)
    BY <2>2 DEF Completable
  <2>5. QED BY <1>1, <1>6, <2>1, <2>3, <2>4, PutKeeps
<1>7. QED BY <1>4, <1>5, <1>6 DEF UpdateSuperAdmin

LEMMA PasswordKeeps ==
  ASSUME OnbInv, OnbTypeOK', NEW c \in Clerks, ChangePassword(c)
  PROVE  OnbInv'
<1> DEFINE q == clerk[c]
           row == account[q.of]
           new == [row EXCEPT !.password = @ + 1]
<1>1. q.at = "Write" /\ Put(c, new) /\ crossed' = crossed /\ row.password < MaxChanges
  BY DEF ChangePassword, ToWrite
<1>2. row \in Row /\ q.phone \in Phones /\ q.pan \in Pans /\ q.of \in Accounts /\ Kept(q)
  BY <1>1, ServedRow
<1>3. /\ new \in Row /\ new.password > 0 /\ new.mpin = row.mpin /\ new.status = row.status
      /\ new.verified = row.verified /\ new.phone = row.phone /\ new.pan = row.pan
  <2>1. new \in Row
    BY <1>1, <1>2, RowTypes
  <2>2. row.password + 1 > 0
    BY <1>2, OnbAssumption DEF Row
  <2>3. QED BY <1>2, <2>1, <2>2 DEF Row
<1>4. q.of \notin crossed => Sound(q.of, row)
  BY <1>2 DEF OnbInv, Kept
<1>5. q.of \notin crossed => Sound(q.of, new)
  BY <1>3, <1>4 DEF Sound
<1>6. Completable(row) => Completable(new)
  BY <1>3 DEF Completable
<1>7. QED BY <1>1, <1>3, <1>5, <1>6, PutKeeps

LEMMA MpinKeeps ==
  ASSUME OnbInv, OnbTypeOK', NEW c \in Clerks, ChangeMpin(c)
  PROVE  OnbInv'
<1> DEFINE q == clerk[c]
           row == account[q.of]
           new == [row EXCEPT !.mpin = @ + 1, !.status = "COMPLETED"]
<1>1. /\ q.at = "Write" /\ q.op = "mpin" /\ Put(c, new)
      /\ crossed' = crossed /\ row.mpin < MaxChanges
  BY DEF ChangeMpin, ToWrite
<1>2. row \in Row /\ q.phone \in Phones /\ q.pan \in Pans /\ q.of \in Accounts /\ Kept(q)
  BY <1>1, ServedRow
<1>3. /\ new \in Row /\ new.mpin > 0 /\ new.password = row.password /\ new.status = "COMPLETED"
      /\ new.verified = row.verified /\ new.phone = row.phone /\ new.pan = row.pan
  <2>1. new \in Row
    BY <1>1, <1>2, RowTypes
  <2>2. row.mpin + 1 > 0
    BY <1>2, OnbAssumption DEF Row
  <2>3. QED BY <1>2, <2>1, <2>2 DEF Row
<1>4. q.of \notin crossed => Sound(q.of, row)
  BY <1>2 DEF OnbInv, Kept
<1>5. q.of \notin crossed \cup Registrations => Completable(row)
  BY <1>1, <1>2 DEF Kept
<1>6. Completable(row) => Completable(new)
  BY <1>3 DEF Completable
<1>7. q.of \notin crossed => Sound(q.of, new)
  BY <1>3, <1>4, <1>5 DEF Sound, Statuses, Completable
<1>8. QED BY <1>1, <1>3, <1>6, <1>7, PutKeeps

-----------------------------------------------------------------------------
LEMMA NextKeeps == OnbInv /\ [OnbNext]_onbVars => OnbInv'
<1> SUFFICES ASSUME OnbInv, [OnbNext]_onbVars PROVE OnbInv'
  OBVIOUS
<1>1. OnbTypeOK'
  BY TypeStep
<1>2. ASSUME NEW c \in Clerks, SendPhoneOtp(c) \/ WriteRefused(c) PROVE OnbInv'
  BY <1>1, <1>2, FreedKeeps DEF SendPhoneOtp, WriteRefused
<1>3. CASE UNCHANGED onbVars
  <2>1. UNCHANGED <<account, clerk, proven, crossed>>
    BY <1>3 DEF onbVars
  <2>2. QED BY <1>1, <2>1, KeptByStep
<1>4. QED
  BY <1>1, <1>2, <1>3, RegisterKeeps, ReceiveKeeps, LookKeeps, VerifyKeeps, DraftKeeps,
     CompleteKeeps, IdentityWriteKeeps, SuperAdminKeeps, PasswordKeeps, MpinKeeps DEF OnbNext

LEMMA OnbInvAlways == OnbSpec => []OnbInv
BY InitOnbInv, NextKeeps, PTL DEF OnbSpec

(* Rows, requests and what was proven keep their types, and no update of an *)
(* identity ever crosses another (identity.service.ts).                    *)
THEOREM OnbTypeCorrect == OnbSpec => []OnbTypeOK
<1>1. OnbInv => OnbTypeOK
  BY DEF OnbInv
<1>2. QED BY <1>1, OnbInvAlways, PTL

(* For any accounts and any number of requests at a time, a phone that is  *)
(* marked as verified was verified for the account, as                     *)
(* markOnboardingPhoneVerified demands by its condition.                   *)
THEOREM VerifiedIsProven == OnbSpec => []VerifiedPhoneIsProven
<1>1. OnbInv => VerifiedPhoneIsProven
  BY DEF OnbInv, Sound, VerifiedPhoneIsProven
<1>2. QED BY <1>1, OnbInvAlways, PTL

(* An onboarding that is completed went through all of its stages, however *)
(* late requests of an earlier stage end (setPhoneForOnboarding,           *)
(* addPanForIdentityOnboarding, changeMpin).                               *)
THEOREM CompletedWasOnboarded == OnbSpec => []CompletedIsOnboarded
<1>1. OnbInv => CompletedIsOnboarded
  <2> SUFFICES ASSUME OnbInv, NEW a \in (Identities \cup SuperAdmins) \ crossed,
                      account[a].status = "COMPLETED"
               PROVE  /\ account[a].verified /\ account[a].pan # NoPan
                      /\ account[a].password > 0 /\ account[a].mpin > 0
    BY DEF CompletedIsOnboarded
  <2>1. a \in Accounts /\ a \notin Registrations
    BY OnbAssumption DEF Accounts
  <2>2. a \notin crossed /\ account[a] # NoRow /\ Sound(a, account[a])
    BY <2>1 DEF OnbInv
  <2>3. QED BY <2>1, <2>2 DEF Sound
<1>2. QED BY <1>1, OnbInvAlways, PTL
=============================================================================
