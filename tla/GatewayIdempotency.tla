------------------------- MODULE GatewayIdempotency -------------------------
(* The stored answers of the gateway's KYC requests.  execute looks for a  *)
(* record, creates one, runs the handler and writes its answer to the      *)
(* record; nothing deletes a record, and nothing settles one whose gateway *)
(* stopped.  A record is found by scope (identity and operation) and key,  *)
(* while the key alone is the primary key of the table.                    *)
EXTENDS Naturals, FiniteSets

CONSTANTS
  GwRequests,  \* HTTP requests; each is made once
  GwKeys,      \* values of the Idempotency-Key header
  GwScopes,    \* identities and operations
  GwPayloads,  \* what is hashed
  NoGwRecord,
  NoAnswer

VARIABLES
  gwRecord,   \* the record of each key
  gwRequest,  \* what each request does next
  performed   \* the requests whose handler changed something

gwVars == <<gwRecord, gwRequest, performed>>

(* "by" is the request that created the record, whose answer it stores. *)
GwRecord ==
  [scope: GwScopes, payload: GwPayloads, by: GwRequests,
   status: {"PROCESSING", "COMPLETED", "FAILED"}]

ASSUME GwAssumption == NoGwRecord \notin GwRecord /\ NoAnswer \notin GwRequests

GwRequestType ==
  [at: {"Idle", "Create", "Run", "Complete", "Fail", "Answered", "Refused", "Stopped"},
   key: GwKeys, scope: GwScopes, payload: GwPayloads,
   answer: GwRequests \cup {NoAnswer}, success: BOOLEAN]

GwTypeOK ==
  /\ gwRecord \in [GwKeys -> {NoGwRecord} \cup GwRecord]
  /\ gwRequest \in [GwRequests -> GwRequestType]
  /\ performed \subseteq GwRequests

NewGwRequest(k, s, p) ==
  [at |-> "Idle", key |-> k, scope |-> s, payload |-> p,
   answer |-> NoAnswer, success |-> FALSE]

GwInit ==
  /\ gwRecord = [k \in GwKeys |-> NoGwRecord]
  /\ gwRequest \in [GwRequests ->
       {NewGwRequest(k, s, p) : k \in GwKeys, s \in GwScopes, p \in GwPayloads}]
  /\ performed = {}

(* find: by scope and key. *)
Found(r) ==
  LET q == gwRequest[r]
  IN gwRecord[q.key] # NoGwRecord /\ gwRecord[q.key].scope = q.scope

Replayable(r) ==
  LET record == gwRecord[gwRequest[r].key]
  IN record.payload = gwRequest[r].payload /\ record.status # "PROCESSING"

(* handleExistingRecord: a conflict, or the stored answer of either kind. *)
HandleExisting(r) ==
  LET record == gwRecord[gwRequest[r].key]
  IN gwRequest' = IF Replayable(r)
       THEN [gwRequest EXCEPT ![r].at = "Answered", ![r].answer = record.by,
               ![r].success = record.status = "COMPLETED"]
       ELSE [gwRequest EXCEPT ![r].at = "Refused"]

Find(r) ==
  /\ gwRequest[r].at = "Idle"
  /\ IF Found(r) THEN HandleExisting(r)
     ELSE gwRequest' = [gwRequest EXCEPT ![r].at = "Create"]
  /\ UNCHANGED <<gwRecord, performed>>

(* Mutant: an insert that finds a failed record takes it over. *)
MutInsertable(r) ==
  LET record == gwRecord[gwRequest[r].key]
  IN record = NoGwRecord \/ record.status = "FAILED"

Insertable(r) == gwRecord[gwRequest[r].key] = NoGwRecord

CreateProcessing(r) ==
  LET q == gwRequest[r]
  IN /\ q.at = "Create"
     /\ IF Insertable(r)
        THEN /\ gwRecord' = [gwRecord EXCEPT ![q.key] =
                  [scope |-> q.scope, payload |-> q.payload, by |-> r, status |-> "PROCESSING"]]
             /\ gwRequest' = [gwRequest EXCEPT ![r].at = "Run"]
        ELSE /\ IF Found(r) THEN HandleExisting(r)
                ELSE gwRequest' = [gwRequest EXCEPT ![r].at = "Refused"]
             /\ UNCHANGED gwRecord
     /\ UNCHANGED performed

(* The handler performs what is asked and answers, or fails, before or     *)
(* after it was performed: its answer may be lost.                         *)
RunHandler(r) ==
  /\ gwRequest[r].at = "Run"
  /\ \/ /\ performed' = performed \cup {r}
        /\ gwRequest' = [gwRequest EXCEPT ![r].at = "Complete"]
     \/ /\ performed' \in {performed, performed \cup {r}}
        /\ gwRequest' = [gwRequest EXCEPT ![r].at = "Fail"]
  /\ UNCHANGED gwRecord

(* An update that fails is caught like an error of the handler. *)
MarkCompleted(r) ==
  /\ gwRequest[r].at = "Complete"
  /\ \/ /\ gwRecord' = [gwRecord EXCEPT ![gwRequest[r].key].status = "COMPLETED"]
        /\ gwRequest' = [gwRequest EXCEPT ![r].at = "Answered", ![r].answer = r,
                           ![r].success = TRUE]
     \/ gwRequest' = [gwRequest EXCEPT ![r].at = "Fail"] /\ UNCHANGED gwRecord
  /\ UNCHANGED performed

MarkFailed(r) ==
  /\ gwRequest[r].at = "Fail"
  /\ \/ gwRecord' = [gwRecord EXCEPT ![gwRequest[r].key].status = "FAILED"]
     \/ UNCHANGED gwRecord
  /\ gwRequest' = [gwRequest EXCEPT ![r].at = "Answered", ![r].answer = r,
                     ![r].success = FALSE]
  /\ UNCHANGED performed

(* The gateway stops; the record stays PROCESSING. *)
Stop(r) ==
  /\ gwRequest[r].at \in {"Run", "Complete", "Fail"}
  /\ \/ UNCHANGED performed
     \/ gwRequest[r].at = "Run" /\ performed' = performed \cup {r}
  /\ gwRequest' = [gwRequest EXCEPT ![r].at = "Stopped"]
  /\ UNCHANGED gwRecord

GwNext ==
  \E r \in GwRequests :
    Find(r) \/ CreateProcessing(r) \/ RunHandler(r) \/ MarkCompleted(r) \/ MarkFailed(r) \/ Stop(r)

GwSpec == GwInit /\ [][GwNext]_gwVars

-----------------------------------------------------------------------------
(* A request with a key is performed at most once, whatever requests use   *)
(* the key at once, whether the first one failed, lost its answer or       *)
(* stopped half-way.                                                       *)
OnceForKey ==
  \A r, s \in performed : gwRequest[r].key = gwRequest[s].key => r = s

(* An answer is that of the same request of the same identity, and one of  *)
(* success means that the request was performed.                           *)
AnswersAreOwn ==
  \A r \in GwRequests : gwRequest[r].at = "Answered" =>
    LET q == gwRequest[r]
        first == gwRequest[q.answer]
    IN /\ first.key = q.key /\ first.scope = q.scope /\ first.payload = q.payload
       /\ q.success => q.answer \in performed
=============================================================================
