----------------------------- MODULE OtpService -----------------------------
(* The one-time passwords of the auth-service for one type, purpose and    *)
(* receiver: sendOtp and verifyOtp of OtpService.  Rows are in the         *)
(* database; the OTP that counts, the number of wrong guesses, the         *)
(* cooldown and the verification lock are in the cache, and lapse.         *)
EXTENDS Naturals, Sequences

CONSTANTS
  OtpSenders,    \* requests to send an OTP, one after the other
  OtpVerifiers,  \* requests to verify one, one after the other
  MaxOtps,       \* bound on OTPs
  MaxAttempts,   \* app.otpMaxAttempts
  Nobody         \* the holder of a free cooldown or lock

ASSUME OtpAssumption ==
  MaxOtps \in Nat /\ MaxAttempts \in Nat \ {0} /\ Nobody \notin OtpSenders \cup OtpVerifiers

VARIABLES
  otp,           \* the Otp rows, in the order they were created
  cachedOtp,     \* the OTP in the cache, or 0
  attempts,      \* the counter of wrong guesses, and the OTP whose life it has
  cooldown,      \* who set the cooldown
  verifyLock,    \* who has the verification lock
  otpSender,     \* what each request to send does next
  otpVerifier,   \* what each request to verify does next
  disturbed      \* what the properties except: see below

otpVars ==
  <<otp, cachedOtp, attempts, cooldown, verifyLock, otpSender, otpVerifier, disturbed>>

(* "guesses": wrong guesses at it while it could be used; "successes": how *)
(* often a verification was answered with success.                         *)
OtpRow ==
  [status: {"PENDING", "VERIFIED", "DELETED"}, lapsed: BOOLEAN, guesses: Nat, successes: Nat]

OtpIds == 1 .. MaxOtps
NoAttempts == [count |-> 0, of |-> 0]
Waiting == [at |-> "Idle"]

(* "sends": two requests to send overlapped; "lock": a verification took   *)
(* longer than its lock lives; "delete": a request to send deleted the     *)
(* cached state of an OTP that was being verified.                         *)
OtpTypeOK ==
  /\ otp \in Seq(OtpRow) /\ Len(otp) <= MaxOtps
  /\ cachedOtp \in OtpIds \cup {0}
  /\ attempts \in [count: Nat, of: OtpIds \cup {0}]
  /\ cooldown \in OtpSenders \cup {Nobody} /\ verifyLock \in OtpVerifiers \cup {Nobody}
  /\ otpSender \in [OtpSenders ->
       {Waiting} \cup [at: {"DeleteUnverified", "DeleteState", "Create"}]
               \cup [at: {"Cache", "Undo"}, id: OtpIds \cup {0}]]
  /\ otpVerifier \in [OtpVerifiers ->
       {Waiting} \cup [at: {"Read", "Release", "Drop"}]
               \cup [at: {"Count", "Verify"}, id: OtpIds]]
  /\ disturbed \subseteq {"sends", "lock", "delete"}

OtpInit ==
  /\ otp = << >> /\ cachedOtp = 0 /\ attempts = NoAttempts
  /\ cooldown = Nobody /\ verifyLock = Nobody /\ disturbed = {}
  /\ otpSender = [s \in OtpSenders |-> Waiting]
  /\ otpVerifier = [v \in OtpVerifiers |-> Waiting]

(* deleteOtpState: both keys at once. *)
DeleteOtpState == cachedOtp' = 0 /\ attempts' = NoAttempts
KeepOtpState == UNCHANGED <<cachedOtp, attempts>>

-----------------------------------------------------------------------------
(* sendOtp.  The cooldown is taken if it is free; the delay that is asked  *)
(* of the last row is a way to be refused.                                 *)

Sending(s, at) ==
  otpSender[s].at = at /\ UNCHANGED <<verifyLock, otpVerifier>>

NextSend(s, state) == otpSender' = [otpSender EXCEPT ![s] = state]
FailedSend(s, id) == NextSend(s, [at |-> "Undo", id |-> id])

SendOtp(s) ==
  /\ Sending(s, "Idle") /\ cooldown = Nobody
  /\ cooldown' = s
  /\ disturbed' = disturbed \cup
       {d \in {"sends"} : \E t \in OtpSenders \ {s} : otpSender[t] # Waiting}
  /\ NextSend(s, [at |-> "DeleteUnverified"])
  /\ UNCHANGED otp /\ KeepOtpState

(* Mutant: only OTPs that have lapsed are deleted. *)
MutUnverified(i) == otp[i].status = "PENDING" /\ otp[i].lapsed

Unverified(i) == otp[i].status = "PENDING"

DeleteUnverified(s) ==
  /\ Sending(s, "DeleteUnverified")
  /\ otp' = [i \in DOMAIN otp |->
       IF Unverified(i) THEN [otp[i] EXCEPT !.status = "DELETED"] ELSE otp[i]]
  /\ NextSend(s, [at |-> "DeleteState"])
  /\ UNCHANGED <<cooldown, disturbed>> /\ KeepOtpState

(* A sender deletes the state, perhaps under a verification. *)
SenderDeletes ==
  /\ DeleteOtpState
  /\ disturbed' = disturbed \cup
       {d \in {"delete"} : \E v \in OtpVerifiers : otpVerifier[v].at \in {"Count", "Verify"}}

ClearState(s) ==
  /\ Sending(s, "DeleteState")
  /\ SenderDeletes
  /\ NextSend(s, [at |-> "Create"])
  /\ UNCHANGED <<otp, cooldown>>

CreateOtp(s) ==
  /\ Sending(s, "Create") /\ Len(otp) < MaxOtps
  /\ otp' = Append(otp, [status |-> "PENDING", lapsed |-> FALSE, guesses |-> 0, successes |-> 0])
  /\ NextSend(s, [at |-> "Cache", id |-> Len(otp) + 1])
  /\ UNCHANGED <<cooldown, disturbed>> /\ KeepOtpState

(* Then the message is published, which may fail. *)
CacheOtp(s) ==
  /\ Sending(s, "Cache")
  /\ cachedOtp' = otpSender[s].id /\ UNCHANGED attempts
  /\ NextSend(s, Waiting) \/ FailedSend(s, otpSender[s].id)
  /\ UNCHANGED <<otp, cooldown, disturbed>>

SendStepFails(s) ==
  /\ otpSender[s].at \notin {"Idle", "Undo"} /\ Sending(s, otpSender[s].at)
  /\ FailedSend(s, IF otpSender[s].at = "Cache" THEN otpSender[s].id ELSE 0)
  /\ UNCHANGED <<otp, cooldown, disturbed>> /\ KeepOtpState

(* Promise.allSettled: each of the three deletions may fail. *)
UndoSend(s) ==
  /\ Sending(s, "Undo")
  /\ SenderDeletes \/ (KeepOtpState /\ UNCHANGED disturbed)
  /\ cooldown' \in {cooldown, IF cooldown = s THEN Nobody ELSE cooldown}
  /\ \/ UNCHANGED otp
     \/ otpSender[s].id # 0 /\ otp' = [otp EXCEPT ![otpSender[s].id].status = "DELETED"]
  /\ NextSend(s, Waiting)

-----------------------------------------------------------------------------
(* verifyOtp. *)

Verifying(v, at) ==
  otpVerifier[v].at = at /\ UNCHANGED <<cooldown, otpSender, disturbed>>

NextVerify(v, state) == otpVerifier' = [otpVerifier EXCEPT ![v] = state]
VerifyEnds(v) == NextVerify(v, [at |-> "Release"])

AcquireVerifyLock(v) ==
  /\ Verifying(v, "Idle") /\ verifyLock = Nobody
  /\ verifyLock' = v
  /\ NextVerify(v, [at |-> "Read"])
  /\ UNCHANGED otp /\ KeepOtpState

ReadCachedOtp(v) ==
  /\ Verifying(v, "Read")
  /\ IF cachedOtp = 0 THEN VerifyEnds(v)
     ELSE NextVerify(v, IF otp[cachedOtp].lapsed THEN [at |-> "Drop"]
                        ELSE [at |-> "Count", id |-> cachedOtp])
  /\ UNCHANGED <<otp, verifyLock>> /\ KeepOtpState

(* Mutant: one more guess than there should be. *)
MutExceeded(count) == count > MaxAttempts

Exceeded(count) == count >= MaxAttempts

CountAttempts(v) ==
  /\ Verifying(v, "Count")
  /\ NextVerify(v, IF Exceeded(attempts.count) THEN [at |-> "Drop"]
                   ELSE [otpVerifier[v] EXCEPT !.at = "Verify"])
  /\ UNCHANGED <<otp, verifyLock>> /\ KeepOtpState

(* The counter lives as long as the OTP that was being verified when it    *)
(* was started.                                                            *)
WrongGuess(v) ==
  LET id == otpVerifier[v].id IN
  /\ Verifying(v, "Verify")
  /\ attempts' = [count |-> attempts.count + 1,
                  of |-> IF attempts.count = 0 THEN id ELSE attempts.of]
  /\ otp' = [otp EXCEPT ![id].guesses = IF otp[id].lapsed THEN @ ELSE @ + 1]
  /\ NextVerify(v, [at |-> IF Exceeded(attempts.count + 1) THEN "Drop" ELSE "Release"])
  /\ UNCHANGED <<cachedOtp, verifyLock>>

PendingRow(id) == otp[id].status = "PENDING" /\ ~otp[id].lapsed

(* markVerifiedIfPending; only a change of the row is a success. *)
RightGuess(v) ==
  LET id == otpVerifier[v].id IN
  /\ Verifying(v, "Verify")
  /\ otp' = IF PendingRow(id)
            THEN [otp EXCEPT ![id].status = "VERIFIED", ![id].successes = @ + 1] ELSE otp
  /\ NextVerify(v, [at |-> "Drop"])
  /\ UNCHANGED verifyLock /\ KeepOtpState

DropOtpState(v) ==
  /\ Verifying(v, "Drop")
  /\ DeleteOtpState \/ KeepOtpState
  /\ VerifyEnds(v)
  /\ UNCHANGED <<otp, verifyLock>>

(* An error, or the service stops: the lock is released or left to lapse. *)
VerifyFails(v) ==
  /\ otpVerifier[v].at \in {"Read", "Count", "Verify"} /\ Verifying(v, otpVerifier[v].at)
  /\ VerifyEnds(v)
  /\ UNCHANGED <<otp, verifyLock>> /\ KeepOtpState

ReleaseVerifyLock(v) ==
  /\ Verifying(v, "Release")
  /\ verifyLock' \in {verifyLock, IF verifyLock = v THEN Nobody ELSE verifyLock}
  /\ NextVerify(v, Waiting)
  /\ UNCHANGED otp /\ KeepOtpState

-----------------------------------------------------------------------------
(* Time. *)

CooldownLapses ==
  /\ cooldown # Nobody
  /\ cooldown' = Nobody
  /\ UNCHANGED <<otp, cachedOtp, attempts, verifyLock, otpSender, otpVerifier, disturbed>>

VerifyLockLapses ==
  /\ verifyLock # Nobody
  /\ verifyLock' = Nobody
  /\ disturbed' = disturbed \cup
       {d \in {"lock"} : otpVerifier[verifyLock] # Waiting}
  /\ UNCHANGED <<otp, cachedOtp, attempts, cooldown, otpSender, otpVerifier>>

(* OTPs lapse in the order they were created, and their keys afterwards. *)
OtpLapses(i) ==
  /\ ~otp[i].lapsed /\ \A j \in 1 .. i - 1 : otp[j].lapsed
  /\ otp' = [otp EXCEPT ![i].lapsed = TRUE]
  /\ UNCHANGED <<cachedOtp, attempts, cooldown, verifyLock, otpSender, otpVerifier, disturbed>>

KeysLapse ==
  /\ \/ cachedOtp # 0 /\ otp[cachedOtp].lapsed /\ cachedOtp' = 0 /\ UNCHANGED attempts
     \/ attempts.of # 0 /\ otp[attempts.of].lapsed /\ attempts' = NoAttempts /\ UNCHANGED cachedOtp
  /\ UNCHANGED <<otp, cooldown, verifyLock, otpSender, otpVerifier, disturbed>>

OtpNext ==
  \/ \E s \in OtpSenders :
       \/ SendOtp(s) \/ DeleteUnverified(s) \/ ClearState(s) \/ CreateOtp(s) \/ CacheOtp(s)
       \/ SendStepFails(s) \/ UndoSend(s)
  \/ \E v \in OtpVerifiers :
       \/ AcquireVerifyLock(v) \/ ReadCachedOtp(v) \/ CountAttempts(v) \/ WrongGuess(v)
       \/ RightGuess(v) \/ DropOtpState(v) \/ VerifyFails(v) \/ ReleaseVerifyLock(v)
  \/ CooldownLapses \/ VerifyLockLapses \/ KeysLapse
  \/ \E i \in DOMAIN otp : OtpLapses(i)

OtpSpec == OtpInit /\ [][OtpNext]_otpVars

-----------------------------------------------------------------------------
(* An OTP is used at most once, also if a verification outlives its lock   *)
(* and another one begins with the OTP still cached.                       *)
OtpUsedOnce == \A i \in DOMAIN otp : otp[i].successes <= 1

(* At most MaxAttempts wrong guesses are made at one OTP, whatever is      *)
(* resent, undone or fails, unless requests to send overlap, a verification *)
(* outlives its lock, or the state it works on is deleted by a sender.     *)
OtpGuessesBounded ==
  disturbed = {} =>
    \A i \in DOMAIN otp : otp[i].guesses <= MaxAttempts

(* Once a newer OTP was created no older one can be used, unless requests  *)
(* to send overlapped, whichever of them is in the cache.                  *)
OnlyNewestOtp ==
  "sends" \notin disturbed =>
    \A i, j \in DOMAIN otp : i < j => otp[i].status # "PENDING"
=============================================================================
