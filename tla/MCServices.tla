----------------------------- MODULE MCServices -----------------------------
(* One instance of the services that share no state and that no other      *)
(* module composes: the idempotency records, the transaction authorizations *)
(* and the sessions and the OTPs.  A behaviour chooses one part, and only  *)
(* the variables of that part change.                                      *)
EXTENDS VimopayIdempotency, TxnAuthorization, Sessions, OtpService, FiniteSets

CONSTANTS k1, k2, h1, h2, h3

VARIABLE part

Parts == {"intents", "authorizations", "guard", "refresh", "send", "verify"}

(* Two requests of one intent and one of its own, so that a key can be     *)
(* reused for another request and an intent be tried under several keys.   *)
MCRequests == {"same", "variant", "different"}
MCIntents == {"one", "two"}
MCIntentOf == [q \in MCRequests |-> IF q = "different" THEN "two" ELSE "one"]

MCInit ==
  /\ part \in Parts
  /\ IdemInit /\ AuthInit /\ SessionInit /\ OtpInit
  /\ part # "intents" => \A h \in Handlers : attempt[h].key = k1

(* The guard without refreshes, and refreshes without the guard; two       *)
(* senders and a verifier without wrong guesses, and a sender and two      *)
(* verifiers, who may overlap in one way and while there is one OTP.       *)
Scenario ==
  CASE part = "guard" -> \A f \in Refreshers : refresher[f] = IdleRefresher
    [] part = "refresh" -> \A g \in Guards : guard[g] = IdleGuard
    [] part = "send" -> /\ disturbed \subseteq {"sends"}
                        /\ attempts.count = 0
                        /\ otpVerifier[CHOOSE v \in OtpVerifiers : TRUE] = Waiting
    [] part = "verify" -> /\ Cardinality(disturbed) <= 1 /\ attempts.count <= MaxAttempts + 1
                          /\ disturbed # {} => Len(otp) <= 1
                          /\ otpSender[CHOOSE s \in OtpSenders : TRUE] = Waiting
    [] OTHER -> TRUE

MCNext ==
  /\ UNCHANGED part
  /\ IF part = "intents" THEN IdemNext ELSE UNCHANGED idemVars
  /\ IF part = "authorizations" THEN AuthNext ELSE UNCHANGED authVars
  /\ IF part \in {"guard", "refresh"} THEN SessionNext ELSE UNCHANGED sessionVars
  /\ IF part \in {"send", "verify"} THEN OtpNext ELSE UNCHANGED otpVars
  /\ Scenario'

servicesVars == <<idemVars, authVars, sessionVars, otpVars, part>>

(* The timers run, and requests that are being served end. *)
MCSpec ==
  /\ MCInit /\ [][MCNext]_servicesVars
  /\ AuthFairness /\ SessionFairness
=============================================================================
