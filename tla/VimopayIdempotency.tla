------------------------- MODULE VimopayIdempotency -------------------------
(* The idempotency records of the aeps-service (VimopayIdempotencyService): *)
(* the reservation a financial request holds while it talks to the         *)
(* provider, and what becomes of it.                                       *)
(*                                                                         *)
(* begin() runs in one database transaction under the advisory lock of the *)
(* key and the lock of the financial intent, so it is one action; the      *)
(* other operations are single guarded UPDATE or DELETE statements.        *)
(* Hashes are modelled by what they tell apart: a request is a member of   *)
(* Requests, and IntentOf gives its financial intent.  Records are those   *)
(* of one merchant and one transaction type.                               *)
CONSTANTS
  Keys,          \* client idempotency keys
  Requests,      \* full requests
  Intents,       \* financial intents
  IntentOf,      \* the intent of each request
  Handlers,      \* executions of a financial handler; each has its own lock token
  NoHandler      \* the lock token of a record nobody holds

ASSUME IdempotencyAssumption ==
  IntentOf \in [Requests -> Intents] /\ NoHandler \notin Handlers

VARIABLES
  idem,          \* the record of each key
  attempt        \* what each handler holds

idemVars == <<idem, attempt>>

Unsettled == {"PROCESSING", "PENDING", "UNKNOWN"}
Final == {"SUCCESS", "FAILED"}

Record == [status: Unsettled \cup Final, request: Requests,
           lock: Handlers \cup {NoHandler}]
NoRecord == [status |-> "NONE"]

Attempt == [at: {"New", "Executing", "Closed"}, key: Keys]

IdemTypeOK ==
  /\ idem \in [Keys -> Record \cup {NoRecord}]
  /\ attempt \in [Handlers -> Attempt]

IdemInit ==
  /\ idem = [k \in Keys |-> NoRecord]
  /\ attempt \in [Handlers -> [at: {"New"}, key: Keys]]

Recorded(k) == idem[k] # NoRecord
Close(h) == attempt' = [attempt EXCEPT ![h].at = "Closed"]

(* The records of an intent that block a new key. *)
Blocking(intent) ==
  {k \in Keys : /\ Recorded(k) /\ idem[k].status \in Unsettled
                /\ IntentOf[idem[k].request] = intent}

-----------------------------------------------------------------------------
(* begin(): execute, answer with the stored response, or refuse. *)

(* Mutant: only the key is checked, not the intent. *)
MutBeginExecute(h, q) ==
  LET k == attempt[h].key IN
  /\ attempt[h].at = "New"
  /\ ~Recorded(k)
  /\ idem' = [idem EXCEPT ![k] = [status |-> "PROCESSING", request |-> q, lock |-> h]]
  /\ attempt' = [attempt EXCEPT ![h].at = "Executing"]

BeginExecute(h, q) ==
  LET k == attempt[h].key IN
  /\ attempt[h].at = "New"
  /\ Blocking(IntentOf[q]) \ {k} = {}
  /\ ~Recorded(k)
  /\ idem' = [idem EXCEPT ![k] = [status |-> "PROCESSING", request |-> q, lock |-> h]]
  /\ attempt' = [attempt EXCEPT ![h].at = "Executing"]

Reusable(k, q) ==
  /\ Recorded(k)
  /\ idem[k].request = q
  /\ idem[k].status \in {"SUCCESS", "FAILED", "PENDING"}

BeginReplay(h, q) ==
  /\ attempt[h].at = "New"
  /\ Blocking(IntentOf[q]) \ {attempt[h].key} = {}
  /\ Reusable(attempt[h].key, q)
  /\ Close(h)
  /\ UNCHANGED idem

(* 409: another key of the intent is unsettled, the key belongs to another *)
(* request, or its own record is PROCESSING or UNKNOWN.                    *)
BeginRefused(h, q) ==
  LET k == attempt[h].key IN
  /\ attempt[h].at = "New"
  /\ \/ Blocking(IntentOf[q]) \ {k} # {}
     \/ Recorded(k) /\ ~Reusable(k, q)
  /\ Close(h)
  /\ UNCHANGED idem

-----------------------------------------------------------------------------
(* What the holder does with its record.  Every statement is guarded by    *)
(* the lock token and the status PROCESSING.                               *)

Holds(h) == \E k \in Keys : Recorded(k) /\ idem[k].lock = h /\ idem[k].status = "PROCESSING"

(* Mutant: a pending answer is recorded as final. *)
MutPendingIsFailed(answer) == IF answer = "000" THEN "SUCCESS" ELSE "FAILED"

(* mapProviderStatus: 000, 001 and 003, 002, anything else. *)
mapProviderStatus(answer) ==
  CASE answer = "000" -> "SUCCESS"
    [] answer = "001" -> "FAILED"
    [] answer = "002" -> "PENDING"
    [] OTHER -> "UNKNOWN"

Answers == {"000", "001", "002", "other"}

SetHeld(h, status) ==
  idem' = IF Holds(h)
          THEN [idem EXCEPT ![attempt[h].key].status = status,
                            ![attempt[h].key].lock = NoHandler]
          ELSE idem

Complete(h, answer) ==
  /\ attempt[h].at = "Executing"
  /\ SetHeld(h, mapProviderStatus(answer))
  /\ Close(h)

(* Mutant: an uncertain call releases its key. *)
MutMarkUnknown(h) ==
  /\ attempt[h].at = "Executing"
  /\ idem' = [idem EXCEPT ![attempt[h].key] = NoRecord]
  /\ Close(h)

IdemMarkUnknown(h) ==
  /\ attempt[h].at = "Executing"
  /\ SetHeld(h, "UNKNOWN")
  /\ Close(h)

(* Mutant: the record is deleted without looking at its lock or status. *)
MutAbandon(h) ==
  /\ attempt[h].at = "Executing"
  /\ idem' = [idem EXCEPT ![attempt[h].key] = NoRecord]
  /\ Close(h)

AbandonBeforeProvider(h) ==
  /\ attempt[h].at = "Executing"
  /\ idem' = IF Holds(h) THEN [idem EXCEPT ![attempt[h].key] = NoRecord] ELSE idem
  /\ Close(h)

(* The holder stops, or its last statement fails: the record stays. *)
Lose(h) ==
  /\ attempt[h].at = "Executing"
  /\ Close(h)
  /\ UNCHANGED idem

(* An admin's resolution.  The record is read first, but the UPDATE repeats *)
(* every condition of the read, so the two are one action; a record that   *)
(* is final or missing is left alone.                                      *)
ResolveAfterReconciliation(k, resolution) ==
  /\ Recorded(k) /\ idem[k].status \in Unsettled
  /\ idem' = [idem EXCEPT ![k].status = resolution, ![k].lock = NoHandler]
  /\ UNCHANGED attempt

BeginSteps(h, q) == BeginExecute(h, q) \/ BeginReplay(h, q) \/ BeginRefused(h, q)

HolderSteps(h) ==
  \/ \E answer \in Answers : Complete(h, answer)
  \/ IdemMarkUnknown(h) \/ AbandonBeforeProvider(h) \/ Lose(h)

IdemNext ==
  \/ \E h \in Handlers, q \in Requests : BeginSteps(h, q)
  \/ \E h \in Handlers : HolderSteps(h)
  \/ \E k \in Keys, s \in Final : ResolveAfterReconciliation(k, s)

IdemSpec == IdemInit /\ [][IdemNext]_idemVars

-----------------------------------------------------------------------------
(* Properties. *)

(* A new key cannot bypass an unresolved financial intent: at most one key *)
(* of an intent is unsettled, however many requests arrive in parallel     *)
(* ("Different Idempotency-Key cannot bypass an unresolved financial       *)
(* intent", begin).                                                        *)
OneUnsettledPerIntent ==
  \A q \in Intents : \A k, l \in Blocking(q) : k = l

(* A record in PROCESSING is held by the handler that created it, for as   *)
(* long as that handler executes: no other handler's guarded update can    *)
(* take it, also after an admin settled it or the key was used again.      *)
HeldByExecutor ==
  \A k \in Keys : Recorded(k) =>
    /\ idem[k].status = "PROCESSING" <=> idem[k].lock # NoHandler
    /\ idem[k].lock # NoHandler =>
         attempt[idem[k].lock].key = k /\ attempt[idem[k].lock].at # "New"

(* A key whose provider call may have happened is never executed again:    *)
(* once a record leaves PROCESSING it is neither deleted nor reopened, and *)
(* a final record never changes ("Same key never calls VimoPay again",     *)
(* "Never automatically call VimoPay again", begin).                       *)
NeverReopened ==
  [][\A k \in Keys :
       /\ Recorded(k) /\ idem[k].status # "PROCESSING" =>
            /\ idem'[k] # NoRecord
            /\ idem'[k].status # "PROCESSING"
            /\ idem'[k].request = idem[k].request
       /\ Recorded(k) /\ idem[k].status \in Final => idem'[k] = idem[k]]_idemVars

=============================================================================
