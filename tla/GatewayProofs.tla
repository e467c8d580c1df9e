---------------------------- MODULE GatewayProofs ----------------------------
(* Proofs about GatewayIdempotency, for any requests, keys, identities and *)
(* payloads, and about KycDocuments, for any applicants, requests, numbers *)
(* and plain types of document.                                            *)
EXTENDS GatewayIdempotency, KycDocuments, TLAPS

-----------------------------------------------------------------------------
(* The idempotency of gateway requests. *)

Recorded(k) == gwRecord[k] # NoGwRecord

(* The creator of a record, who performs and answers for its key. *)
RecordOfCreator ==
  \A k \in GwKeys : Recorded(k) =>
    LET f == gwRequest[gwRecord[k].by]
    IN f.key = k /\ f.scope = gwRecord[k].scope /\ f.payload = gwRecord[k].payload

PerformedByCreator ==
  \A r \in performed : Recorded(gwRequest[r].key) /\ gwRecord[gwRequest[r].key].by = r

RunBy(r) ==
  gwRequest[r].at \in {"Run", "Complete", "Fail"} =>
    Recorded(gwRequest[r].key) /\ gwRecord[gwRequest[r].key].by = r

CompletesPerformed(r) == gwRequest[r].at = "Complete" => r \in performed

CompletedIsPerformed ==
  \A k \in GwKeys : Recorded(k) /\ gwRecord[k].status = "COMPLETED" =>
    gwRecord[k].by \in performed

OwnAnswer(r) ==
  gwRequest[r].at = "Answered" =>
    LET q == gwRequest[r]
        first == gwRequest[q.answer]
    IN /\ q.answer \in GwRequests
       /\ first.key = q.key /\ first.scope = q.scope /\ first.payload = q.payload
       /\ q.success => q.answer \in performed

GwInv ==
  /\ GwTypeOK
  /\ RecordOfCreator
  /\ PerformedByCreator
  /\ \A r \in GwRequests : RunBy(r)
  /\ \A r \in GwRequests : CompletesPerformed(r)
  /\ CompletedIsPerformed
  /\ \A r \in GwRequests : OwnAnswer(r)

(* Whatever requests begin with, nothing is recorded or performed. *)
LEMMA GwInitially == GwInit => GwInv
  <1> SUFFICES ASSUME GwInit PROVE GwInv
      OBVIOUS
  <1>1. \A r \in GwRequests : \E k \in GwKeys, s \in GwScopes, p \in GwPayloads :
          gwRequest[r] = NewGwRequest(k, s, p)
        BY DEF GwInit
  <1>2. GwTypeOK
    <2>1. \A k \in GwKeys, s \in GwScopes, p \in GwPayloads :
            NewGwRequest(k, s, p) \in GwRequestType
          BY DEF GwRequestType, NewGwRequest
    <2>2. gwRequest \in [GwRequests -> GwRequestType]
          BY <2>1 DEF GwInit
    <2> QED
        BY <2>2 DEF GwInit, GwTypeOK
  <1>3. \A k \in GwKeys : ~Recorded(k)
        BY DEF GwInit, Recorded
  <1>4. performed = {} /\ \A r \in GwRequests : gwRequest[r].at = "Idle"
        BY <1>1 DEF GwInit, NewGwRequest
  <1> QED
      BY <1>2, <1>3, <1>4 DEF GwInv, RecordOfCreator, PerformedByCreator, RunBy,
         CompletesPerformed, CompletedIsPerformed, OwnAnswer

(* A step of one request keeps what the others are and what it asks; it    *)
(* changes a record only into its own, and performs only what it recorded. *)
RecordedBy(r, k) == Recorded(k) /\ gwRecord[k].by = r

OwnRecord(r, record) ==
  /\ record.by = r /\ record.scope = gwRequest[r].scope
  /\ record.payload = gwRequest[r].payload

LEMMA StepOfOne ==
  ASSUME GwInv, NEW r \in GwRequests, GwTypeOK',
         \A x \in GwRequests : x # r => gwRequest'[x] = gwRequest[x],
         gwRequest'[r].key = gwRequest[r].key,
         gwRequest'[r].scope = gwRequest[r].scope,
         gwRequest'[r].payload = gwRequest[r].payload,
         performed \subseteq performed', performed' \subseteq performed \cup {r},
         \A k \in GwKeys :
           \/ gwRecord'[k] = gwRecord[k]
           \/ /\ k = gwRequest[r].key /\ Recorded(k)' /\ OwnRecord(r, gwRecord'[k])
              /\ Recorded(k) => gwRecord[k].by = r
              /\ gwRecord'[k].status = "COMPLETED" => r \in performed',
         r \in performed' => RecordedBy(r, gwRequest[r].key)',
         gwRequest'[r].at \in {"Run", "Complete", "Fail"} => RecordedBy(r, gwRequest[r].key)',
         gwRequest'[r].at = "Complete" => r \in performed',
         gwRequest'[r].at = "Answered" =>
           /\ gwRequest'[r].answer \in GwRequests
           /\ gwRequest[gwRequest'[r].answer].key = gwRequest[r].key
           /\ gwRequest[gwRequest'[r].answer].scope = gwRequest[r].scope
           /\ gwRequest[gwRequest'[r].answer].payload = gwRequest[r].payload
           /\ gwRequest'[r].success => gwRequest'[r].answer \in performed'
  PROVE  GwInv'
  <1> USE DEF GwInv
  <1>1. \A x \in GwRequests :
          /\ gwRequest'[x].key = gwRequest[x].key
          /\ gwRequest'[x].scope = gwRequest[x].scope
          /\ gwRequest'[x].payload = gwRequest[x].payload
        OBVIOUS
  <1>2. \A k \in GwKeys : Recorded(k)' => gwRecord'[k].by \in GwRequests
        BY DEF GwTypeOK, Recorded, GwRecord
  <1>3. \A k \in GwKeys : Recorded(k) =>
          Recorded(k)' /\ gwRecord'[k].by = gwRecord[k].by
        BY DEF Recorded, OwnRecord
  <1>4. RecordOfCreator'
    <2> SUFFICES ASSUME NEW k \in GwKeys, Recorded(k)'
                 PROVE  LET f == gwRequest'[gwRecord'[k].by]
                        IN /\ f.key = k /\ f.scope = gwRecord'[k].scope
                           /\ f.payload = gwRecord'[k].payload
        BY DEF RecordOfCreator
    <2>1. CASE gwRecord'[k] = gwRecord[k]
          BY <2>1, <1>1, <1>2 DEF RecordOfCreator, Recorded
    <2>2. CASE gwRecord'[k] # gwRecord[k]
          BY <2>2, <1>1 DEF OwnRecord
    <2> QED
        BY <2>1, <2>2
  <1>5. PerformedByCreator'
    <2> SUFFICES ASSUME NEW x \in performed'
                 PROVE  Recorded(gwRequest[x].key)' /\ gwRecord'[gwRequest'[x].key].by = x
        BY DEF PerformedByCreator
    <2>1. x \in GwRequests /\ gwRequest[x].key \in GwKeys
          BY DEF GwTypeOK, GwRequestType
    <2>2. CASE x = r
          BY <2>1, <2>2 DEF RecordedBy
    <2>3. CASE x # r
          BY <2>1, <2>3, <1>1, <1>3 DEF PerformedByCreator
    <2> QED
        BY <2>2, <2>3
  <1>6. ASSUME NEW x \in GwRequests PROVE RunBy(x)'
    <2>1. gwRequest[x].key \in GwKeys
          BY DEF GwTypeOK, GwRequestType
    <2>2. CASE x = r
          BY <2>2 DEF RunBy, RecordedBy
    <2>3. CASE x # r
          BY <2>1, <2>3, <1>3 DEF RunBy
    <2> QED
        BY <2>2, <2>3
  <1>7. ASSUME NEW x \in GwRequests PROVE CompletesPerformed(x)'
        BY DEF CompletesPerformed
  <1>8. CompletedIsPerformed'
    <2> SUFFICES ASSUME NEW k \in GwKeys, Recorded(k)', gwRecord'[k].status = "COMPLETED"
                 PROVE  gwRecord'[k].by \in performed'
        BY DEF CompletedIsPerformed
    <2> QED
        BY DEF CompletedIsPerformed, OwnRecord, Recorded
  <1>9. ASSUME NEW x \in GwRequests PROVE OwnAnswer(x)'
    <2>1. CASE x = r
          BY <2>1, <1>1 DEF OwnAnswer
    <2>2. CASE x # r
          BY <2>2, <1>1 DEF OwnAnswer
    <2> QED
        BY <2>1, <2>2
  <1> QED
      BY <1>4, <1>5, <1>6, <1>7, <1>8, <1>9

-----------------------------------------------------------------------------
(* An answer from the record is that of its creator. *)
LEMMA AnswersFromRecord ==
  ASSUME GwInv, NEW r \in GwRequests, Found(r), HandleExisting(r),
         UNCHANGED <<gwRecord, performed>>,
         gwRequest[r].at \in {"Idle", "Create"}
  PROVE  GwInv'
  <1> DEFINE q == gwRequest[r]
             record == gwRecord[q.key]
  <1>1. /\ gwRequest \in [GwRequests -> GwRequestType] /\ q \in GwRequestType
        /\ q.key \in GwKeys /\ Recorded(q.key) /\ record \in GwRecord
        BY DEF GwInv, GwTypeOK, GwRequestType, Found, Recorded
  <1>2. /\ record.by \in GwRequests
        /\ gwRequest[record.by].key = q.key
        /\ gwRequest[record.by].scope = record.scope
        /\ gwRequest[record.by].payload = record.payload
        BY <1>1 DEF GwInv, RecordOfCreator, GwRecord
  <1>3. CASE Replayable(r)
    <2>1. gwRequest' = [gwRequest EXCEPT ![r].at = "Answered", ![r].answer = record.by,
                          ![r].success = record.status = "COMPLETED"]
          BY <1>3, Zenon DEF HandleExisting
    <2>2. GwTypeOK'
          BY <1>1, <1>2, <2>1 DEF GwTypeOK, GwInv, GwRequestType
    <2>3. record.scope = q.scope /\ record.payload = q.payload
          BY <1>3 DEF Found, Replayable
    <2>4. record.status = "COMPLETED" => record.by \in performed
          BY <1>1 DEF GwInv, CompletedIsPerformed
    <2>5. gwRequest'[r] = [q EXCEPT !.at = "Answered", !.answer = record.by,
                             !.success = record.status = "COMPLETED"]
          BY <1>1, <2>1
    <2> HIDE DEF q, record
    <2>6. /\ gwRequest'[r].key = q.key /\ gwRequest'[r].scope = q.scope
          /\ gwRequest'[r].payload = q.payload /\ gwRequest'[r].at = "Answered"
          /\ gwRequest'[r].answer = record.by
          /\ gwRequest'[r].success => record.by \in performed
          BY <1>1, <2>4, <2>5 DEF GwRequestType
    <2>7. \A x \in GwRequests : x # r => gwRequest'[x] = gwRequest[x]
          BY <1>1, <2>1
    <2>8. r \in performed' => gwRecord'[q.key] # NoGwRecord /\ gwRecord'[q.key].by = r
          BY DEF GwInv, PerformedByCreator, Recorded, q
    <2> QED
        BY <1>2, <2>2, <2>3, <2>6, <2>7, <2>8, StepOfOne DEF q, RecordedBy, Recorded
  <1>4. CASE ~Replayable(r)
    <2>1. gwRequest' = [gwRequest EXCEPT ![r].at = "Refused"]
          BY <1>4 DEF HandleExisting
    <2>2. GwTypeOK'
          BY <1>1, <2>1 DEF GwTypeOK, GwInv, GwRequestType
    <2>3. /\ gwRequest'[r].key = q.key /\ gwRequest'[r].scope = q.scope
          /\ gwRequest'[r].payload = q.payload /\ gwRequest'[r].at = "Refused"
          BY <1>1, <2>1 DEF GwRequestType
    <2>4. \A x \in GwRequests : x # r => gwRequest'[x] = gwRequest[x]
          BY <1>1, <2>1
    <2>5. r \in performed' => gwRecord'[q.key] # NoGwRecord /\ gwRecord'[q.key].by = r
          BY DEF GwInv, PerformedByCreator, Recorded
    <2> QED
        BY <2>2, <2>3, <2>4, <2>5, StepOfOne DEF RecordedBy, Recorded
  <1> QED
      BY <1>3, <1>4

(* A step that only moves a request to a state before or after its answer. *)
LEMMA MovesOne ==
  ASSUME GwInv, NEW r \in GwRequests, NEW at \in {"Create", "Run", "Complete", "Fail", "Refused", "Stopped"},
         gwRequest' = [gwRequest EXCEPT ![r].at = at],
         UNCHANGED gwRecord,
         performed \subseteq performed', performed' \subseteq performed \cup {r},
         r \in performed' => RecordedBy(r, gwRequest[r].key),
         at \in {"Run", "Complete", "Fail"} => RecordedBy(r, gwRequest[r].key),
         at = "Complete" => r \in performed'
  PROVE  GwInv'
  <1>1. gwRequest \in [GwRequests -> GwRequestType] /\ gwRequest[r] \in GwRequestType
        BY DEF GwInv, GwTypeOK
  <1>2. GwTypeOK'
        BY <1>1 DEF GwInv, GwTypeOK, GwRequestType
  <1>3. /\ gwRequest'[r].key = gwRequest[r].key /\ gwRequest'[r].scope = gwRequest[r].scope
        /\ gwRequest'[r].payload = gwRequest[r].payload /\ gwRequest'[r].at = at
        BY <1>1 DEF GwRequestType
  <1>4. \A x \in GwRequests : x # r => gwRequest'[x] = gwRequest[x]
        BY <1>1
  <1>5. RecordedBy(r, gwRequest[r].key) => RecordedBy(r, gwRequest[r].key)'
        BY <1>3 DEF RecordedBy, Recorded
  <1> QED
      BY <1>2, <1>3, <1>4, <1>5, StepOfOne

LEMMA FindKeeps ==
  ASSUME GwInv, NEW r \in GwRequests, Find(r) PROVE GwInv'
  <1>1. CASE Found(r)
        BY <1>1, AnswersFromRecord DEF Find
  <1>2. CASE ~Found(r)
    <2>1. r \in performed => RecordedBy(r, gwRequest[r].key)
          BY DEF GwInv, PerformedByCreator, RecordedBy
    <2> QED
        BY <1>2, <2>1, MovesOne DEF Find
  <1> QED
      BY <1>1, <1>2

LEMMA CreateKeeps ==
  ASSUME GwInv, NEW r \in GwRequests, CreateProcessing(r) PROVE GwInv'
  <1>1. r \in performed => RecordedBy(r, gwRequest[r].key)
        BY DEF GwInv, PerformedByCreator, RecordedBy
  <1>2. CASE Insertable(r)
    <2> DEFINE q == gwRequest[r]
               new == [scope |-> q.scope, payload |-> q.payload, by |-> r,
                       status |-> "PROCESSING"]
    <2>1. /\ gwRecord' = [gwRecord EXCEPT ![q.key] = new]
          /\ gwRequest' = [gwRequest EXCEPT ![r].at = "Run"]
          /\ performed' = performed
          BY <1>2 DEF CreateProcessing
    <2>2. /\ gwRequest \in [GwRequests -> GwRequestType] /\ q \in GwRequestType
          /\ gwRecord \in [GwKeys -> {NoGwRecord} \cup GwRecord] /\ q.key \in GwKeys
          /\ performed \subseteq GwRequests
          BY DEF GwInv, GwTypeOK, GwRequestType
    <2>3. new \in GwRecord /\ new # NoGwRecord
          BY <2>2, GwAssumption DEF GwRecord, GwRequestType
    <2>4. GwTypeOK'
          BY <2>1, <2>2, <2>3 DEF GwTypeOK, GwRequestType
    <2>5. /\ gwRequest'[r].key = q.key /\ gwRequest'[r].scope = q.scope
          /\ gwRequest'[r].payload = q.payload /\ gwRequest'[r].at = "Run"
          BY <2>1, <2>2 DEF GwRequestType
    <2>6. gwRecord'[q.key] = new /\ ~Recorded(q.key)
          BY <1>2, <2>1, <2>2 DEF Insertable, Recorded
    <2>7. \A k \in GwKeys :
            \/ gwRecord'[k] = gwRecord[k]
            \/ /\ k = q.key /\ gwRecord'[k] # NoGwRecord /\ OwnRecord(r, gwRecord'[k])
               /\ Recorded(k) => gwRecord[k].by = r
               /\ gwRecord'[k].status = "COMPLETED" => r \in performed'
          BY <2>1, <2>2, <2>3, <2>6 DEF OwnRecord
    <2>8. gwRecord'[q.key] # NoGwRecord /\ gwRecord'[q.key].by = r
          BY <2>3, <2>6
    <2>9. \A x \in GwRequests : x # r => gwRequest'[x] = gwRequest[x]
          BY <2>1, <2>2
    <2> HIDE DEF q, new
    <2> QED
        BY <2>1, <2>4, <2>5, <2>7, <2>8, <2>9, StepOfOne DEF q, RecordedBy, Recorded
  <1>3. CASE ~Insertable(r) /\ Found(r)
        BY <1>3, AnswersFromRecord DEF CreateProcessing
  <1>4. CASE ~Insertable(r) /\ ~Found(r)
        BY <1>1, <1>4, MovesOne DEF CreateProcessing
  <1> QED
      BY <1>2, <1>3, <1>4

LEMMA RunKeeps ==
  ASSUME GwInv, NEW r \in GwRequests, RunHandler(r) PROVE GwInv'
  <1>1. RecordedBy(r, gwRequest[r].key)
        BY DEF GwInv, RunBy, RunHandler, RecordedBy
  <1> QED
      BY <1>1, MovesOne DEF RunHandler

LEMMA StopKeeps ==
  ASSUME GwInv, NEW r \in GwRequests, Stop(r) PROVE GwInv'
  <1>1. RecordedBy(r, gwRequest[r].key)
        BY DEF GwInv, RunBy, Stop, RecordedBy
  <1> QED
      BY <1>1, MovesOne DEF Stop

(* The creator of a record settles it and answers. *)
LEMMA SettlesOwn ==
  ASSUME GwInv, NEW r \in GwRequests, NEW status \in {"COMPLETED", "FAILED"},
         gwRequest[r].at \in {"Complete", "Fail"},
         \/ gwRecord' = [gwRecord EXCEPT ![gwRequest[r].key].status = status]
         \/ gwRecord' = gwRecord,
         NEW success \in BOOLEAN,
         gwRequest' = [gwRequest EXCEPT ![r].at = "Answered", ![r].answer = r,
                         ![r].success = success],
         UNCHANGED performed,
         success \/ status = "COMPLETED" => r \in performed
  PROVE  GwInv'
  <1> DEFINE q == gwRequest[r]
             record == gwRecord[q.key]
  <1>1. /\ gwRequest \in [GwRequests -> GwRequestType] /\ q \in GwRequestType
        /\ gwRecord \in [GwKeys -> {NoGwRecord} \cup GwRecord] /\ q.key \in GwKeys
        /\ performed \subseteq GwRequests
        BY DEF GwInv, GwTypeOK, GwRequestType
  <1>2. Recorded(q.key) /\ record.by = r /\ record \in GwRecord
        BY <1>1 DEF GwInv, RunBy, Recorded
  <1>3. record.scope = q.scope /\ record.payload = q.payload
        BY <1>1, <1>2 DEF GwInv, RecordOfCreator
  <1>4. /\ gwRecord'[q.key] \in GwRecord /\ OwnRecord(r, gwRecord'[q.key])
        /\ gwRecord'[q.key] = gwRecord[q.key] \/ gwRecord'[q.key].status = status
        /\ \A k \in GwKeys : k # q.key => gwRecord'[k] = gwRecord[k]
    <2>1. CASE gwRecord' = gwRecord
          BY <1>2, <1>3, <2>1 DEF OwnRecord
    <2>2. CASE gwRecord' = [gwRecord EXCEPT ![q.key].status = status]
      <3>1. gwRecord'[q.key] = [record EXCEPT !.status = status]
            BY <1>1, <2>2
      <3>2. /\ [record EXCEPT !.status = status] \in GwRecord
            /\ OwnRecord(r, [record EXCEPT !.status = status])
            /\ [record EXCEPT !.status = status].status = status
            BY <1>2, <1>3 DEF GwRecord, OwnRecord
      <3> QED
          BY <1>1, <2>2, <3>1, <3>2
    <2> QED
        BY <2>1, <2>2
  <1>5. gwRecord' \in [GwKeys -> {NoGwRecord} \cup GwRecord]
        BY <1>1, <1>4
  <1>6. GwTypeOK'
        BY <1>1, <1>5 DEF GwTypeOK, GwRequestType
  <1>7. /\ gwRequest'[r].key = q.key /\ gwRequest'[r].scope = q.scope
        /\ gwRequest'[r].payload = q.payload /\ gwRequest'[r].at = "Answered"
        /\ gwRequest'[r].answer = r /\ gwRequest'[r].success = success
        BY <1>1 DEF GwRequestType
  <1>8. gwRecord'[q.key] # NoGwRecord /\ gwRecord'[q.key].by = r
        BY <1>4, GwAssumption DEF OwnRecord
  <1>9. \A x \in GwRequests : x # r => gwRequest'[x] = gwRequest[x]
        BY <1>1
  <1>10. \A k \in GwKeys :
           \/ gwRecord'[k] = gwRecord[k]
           \/ /\ k = q.key /\ gwRecord'[k] # NoGwRecord /\ OwnRecord(r, gwRecord'[k])
              /\ Recorded(k) => gwRecord[k].by = r
              /\ gwRecord'[k].status = "COMPLETED" => r \in performed'
         BY <1>2, <1>4, <1>8
  <1>11. gwRequest'[r].success => gwRequest'[r].answer \in performed'
    <2>1. gwRequest'[r].success => r \in performed'
          BY <1>7, Zenon
    <2> QED
        BY <1>7, <2>1, Zenon
  <1> HIDE DEF q, record
  <1>12. /\ r \in performed' => RecordedBy(r, gwRequest[r].key)'
         /\ gwRequest'[r].at \in {"Run", "Complete", "Fail"} => RecordedBy(r, gwRequest[r].key)'
         /\ performed \subseteq performed' /\ performed' \subseteq performed \cup {r}
         BY <1>7, <1>8 DEF q, RecordedBy, Recorded
  <1> QED
      BY <1>6, <1>7, <1>9, <1>10, <1>11, <1>12, StepOfOne DEF q, Recorded

LEMMA CompleteKeeps ==
  ASSUME GwInv, NEW r \in GwRequests, MarkCompleted(r) PROVE GwInv'
  <1>1. RecordedBy(r, gwRequest[r].key) /\ r \in performed
        BY DEF GwInv, RunBy, CompletesPerformed, MarkCompleted, RecordedBy
  <1>2. CASE gwRequest' = [gwRequest EXCEPT ![r].at = "Fail"] /\ UNCHANGED gwRecord
        BY <1>1, <1>2, MovesOne DEF MarkCompleted
  <1>3. CASE ~(gwRequest' = [gwRequest EXCEPT ![r].at = "Fail"] /\ UNCHANGED gwRecord)
        BY <1>1, <1>3, SettlesOwn DEF MarkCompleted
  <1> QED
      BY <1>2, <1>3

LEMMA FailKeeps ==
  ASSUME GwInv, NEW r \in GwRequests, MarkFailed(r) PROVE GwInv'
  <1>1. gwRequest \in [GwRequests -> GwRequestType]
        BY DEF GwInv, GwTypeOK
  <1> QED
      BY <1>1, SettlesOwn DEF MarkFailed

LEMMA GwInductive ==
  ASSUME GwInv, [GwNext]_gwVars PROVE GwInv'
  <1>1. CASE GwNext
        BY <1>1, FindKeeps, CreateKeeps, RunKeeps, CompleteKeeps, FailKeeps, StopKeeps DEF GwNext
  <1>2. CASE UNCHANGED gwVars
        BY <1>2 DEF gwVars, GwInv, GwTypeOK, RecordOfCreator, PerformedByCreator, RunBy,
           CompletesPerformed, CompletedIsPerformed, OwnAnswer, Recorded
  <1> QED
      BY <1>1, <1>2

LEMMA GwInvariant == GwSpec => []GwInv
  <1> QED
      BY GwInitially, GwInductive, PTL DEF GwSpec

-----------------------------------------------------------------------------
(* Records, requests and what was performed keep their types. *)
THEOREM GwTypeCorrect == GwSpec => []GwTypeOK
  <1>1. GwInv => GwTypeOK
        BY DEF GwInv
  <1> QED
      BY <1>1, GwInvariant, PTL

(* No two requests with one key are performed: what is performed is the    *)
(* creator of the record of its key, and a record has one creator.         *)
THEOREM PerformedOnce == GwSpec => []OnceForKey
  <1>1. GwInv => OnceForKey
        BY DEF GwInv, PerformedByCreator, OnceForKey
  <1> QED
      BY <1>1, GwInvariant, PTL

(* A request is answered with what its own identity asked for, and with    *)
(* success only if that was performed.                                     *)
THEOREM AnswersBelong == GwSpec => []AnswersAreOwn
  <1>1. GwInv => AnswersAreOwn
        BY DEF GwInv, OwnAnswer, AnswersAreOwn
  <1> QED
      BY <1>1, GwInvariant, PTL

-----------------------------------------------------------------------------
(* The documents of a KYC application.  KycInv is inductive: next to the   *)
(* two properties it says of each request what it still owes to the rows   *)
(* and the files, and of each file that a row or a request names whether   *)
(* its writer may yet delete it.                                           *)

KycPlaces ==
  {"Idle", "Store", "Status", "Rows", "Video", "Number", "Upsert", "Write", "Tidy",
   "Answer", "Clean", "Done"}

KycRequestType ==
  [at: KycPlaces,
   op: Operations, applicant: Applicants, types: SUBSET Types, files: SUBSET Types,
   late: BOOLEAN, number: KycNumbers \cup {NoNumber}, given: BOOLEAN, again: BOOLEAN,
   seen: [Types -> Rows], found: [Types -> Rows]]

KycRowsOK ==
  /\ kyc \in [Applicants -> {"none", "PENDING", "UNDER_REVIEW"}]
  /\ document \in [Applicants -> [Types -> Rows]]
  /\ bucket \in [Applicants -> [Types -> SUBSET Writers]]
  /\ overtaken \subseteq Applicants \X Types

LEMMA KycTypes == KycTypeOK <=> KycRowsOK /\ kycRequest \in [KycRequests -> KycRequestType]
  BY DEF KycTypeOK, KycRowsOK, KycRequestType, KycPlaces

Safe(i, t) == Present(i, t) \/ <<i, t>> \in overtaken

(* The writer of a file has finished with it, for better or worse. *)
Owned(w, i, t) ==
  w \in KycRequests =>
    \/ <<i, t>> \in overtaken
    \/ kycRequest[w].at = "Done"
    \/ kycRequest[w].at \in {"Tidy", "Answer"} /\ kycRequest[w].applicant = i /\ t \in kycRequest[w].files

(* What is at each place of a request. *)
Shape(q) ==
  /\ q.op = "delete" => \E t \in Types : q.types = {t}
  /\ q.op = "update" => q.types # {}
  /\ q.at \in {"Rows", "Number", "Upsert"} => q.op \notin {"create", "delete"}
  /\ q.at \in {"Number", "Upsert"} => q.op # "submit"
  /\ q.at = "Video" => q.op = "submit"
  /\ q.at = "Write" /\ q.op = "delete" => ~q.late

(* The new files of a request are stored until it ends or is overtaken. *)
Brings(r, q) ==
  q.at \in {"Status", "Rows", "Video", "Number", "Upsert", "Write"} =>
    \A t \in q.files : r \in bucket[q.applicant][t] \/ <<q.applicant, t>> \in overtaken

(* No row names a file that the request is about to delete. *)
Tidies(r, q) ==
  q.at = "Tidy" =>
    \A t \in Replaced(q) :
      \/ q.seen[t].file = r
      \/ document[q.applicant][t].file # q.seen[t].file
      \/ <<q.applicant, t>> \in overtaken

(* A submission has seen the documents, or they were deleted since. *)
Submits(q) ==
  /\ q.op = "submit" /\ q.at = "Video" => \A t \in ManualTypes \cup Sides : Safe(q.applicant, t)
  /\ q.op = "submit" /\ q.at = "Write" => \A t \in Types : Safe(q.applicant, t)

RequestOK(r, q) ==
  /\ q \in KycRequestType /\ Shape(q)
  /\ q.late => kyc[q.applicant] = "UNDER_REVIEW"
  /\ Submits(q) /\ Brings(r, q) /\ Tidies(r, q)
  /\ \A t \in Types : Owned(q.seen[t].file, q.applicant, t)

KycInv ==
  /\ KycRowsOK
  /\ SubmittedIsComplete /\ StoredFilesExist
  /\ \A i \in Applicants, t \in Types : Owned(document[i][t].file, i, t)
  /\ kycRequest \in [KycRequests -> KycRequestType]
  /\ \A r \in KycRequests : RequestOK(r, kycRequest[r])

LEMMA RowFacts ==
  /\ NoDocument.file = NoWriter /\ NoDocument.row = NoWriter /\ NoDocument.number = NoNumber
  /\ NoDocument \in Rows
  /\ NoWriter \notin KycRequests /\ NoWriter \notin Writers
  /\ \A d \in Rows : d.number \in KycNumbers \cup {NoNumber}
  /\ \A d \in Rows : d # NoDocument => d.row \in Writers /\ d.file \in Writers /\ d.row # NoWriter
  BY KycAssumption DEF NoDocument, Rows, Writers

LEMMA NewRequestFacts ==
  /\ NewKycRequest \in KycRequestType
  /\ NewKycRequest.seen = NothingSeen /\ NewKycRequest.late = FALSE
  /\ NewKycRequest.op = "create" /\ NewKycRequest.types = {} /\ NewKycRequest.files = {}
  /\ \A t \in Types : NothingSeen[t] = NoDocument
<1>1. NothingSeen \in [Types -> Rows]
  BY RowFacts DEF NothingSeen
<1>2. (CHOOSE i \in Applicants : TRUE) \in Applicants
  BY KycAssumption
<1> QED BY <1>1, <1>2 DEF NewKycRequest, KycRequestType, KycPlaces, Operations, NothingSeen

(* A request that saw nothing and is at none of the places that matter. *)
LEMMA BlankOK ==
  ASSUME NEW r \in KycRequests, NEW q \in KycRequestType, q.seen = NothingSeen, ~q.late,
         q.op \notin {"delete", "update"}, q.at \in {"Idle", "Store", "Clean", "Done"}
  PROVE  RequestOK(r, q)
<1>1. \A t \in Types : q.seen[t].file = NoWriter
  BY RowFacts, NewRequestFacts
<1> QED BY <1>1, RowFacts DEF RequestOK, Shape, Submits, Brings, Tidies, Owned

LEMMA KycInitially == KycInit => KycInv
<1> SUFFICES ASSUME KycInit PROVE KycInv
  OBVIOUS
<1>1. PICK own \in [Applicants -> KycNumbers], full \in SUBSET Applicants :
        /\ \A i \in full : kyc[i] = "PENDING"
        /\ document = [i \in Applicants |-> [t \in Types |->
             IF i \notin full THEN NoDocument
             ELSE [row |-> Earlier, file |-> Earlier,
                   number |-> IF t \in {"PAN_CARD"} \cup Sides THEN own[i] ELSE NoNumber]]]
        /\ bucket = [i \in Applicants |-> [t \in Types |->
             IF i \in full THEN {Earlier} ELSE {}]]
  BY DEF KycInit
<1>2. ASSUME NEW i \in Applicants, NEW t \in Types
      PROVE  /\ document[i][t] = NoDocument \/ (document[i][t].file = Earlier /\ Earlier \in bucket[i][t])
             /\ document[i][t] \in Rows
  <2>1. CASE i \notin full
    <3>1. document[i][t] = NoDocument
      BY <1>1, <2>1
    <3>2. NoDocument \in Rows
      BY RowFacts
    <3>3. document[i][t] \in Rows
      BY <3>1, <3>2
    <3> QED BY <3>1, <3>3
  <2>2. CASE i \in full
    <3>1. PICK n \in KycNumbers \cup {NoNumber} :
            document[i][t] = [row |-> Earlier, file |-> Earlier, number |-> n]
      BY <1>1, <2>2
    <3>2. bucket[i][t] = {Earlier}
      BY <1>1, <2>2
    <3> QED BY <3>1, <3>2 DEF Rows, Writers
  <2> QED BY <2>1, <2>2
<1>3. overtaken = {} /\ kyc \in [Applicants -> {"none", "PENDING"}]
      /\ \A r \in KycRequests : kycRequest[r] = NewKycRequest
  BY DEF KycInit
<1>4. KycRowsOK
  <2>1. document \in [Applicants -> [Types -> Rows]]
    BY <1>1, <1>2
  <2>2. bucket \in [Applicants -> [Types -> SUBSET Writers]]
    BY <1>1 DEF Writers
  <2> QED BY <1>3, <2>1, <2>2 DEF KycRowsOK
<1>5. SubmittedIsComplete /\ StoredFilesExist
  BY <1>2, <1>3 DEF SubmittedIsComplete, StoredFilesExist, Present
<1>6. \A i \in Applicants, t \in Types : Owned(document[i][t].file, i, t)
  BY <1>2, RowFacts, KycAssumption DEF Owned
<1>7. ASSUME NEW r \in KycRequests PROVE RequestOK(r, kycRequest[r])
  <2>1. NewKycRequest.at = "Idle"
    BY DEF NewKycRequest
  <2>2. RequestOK(r, NewKycRequest)
    BY <2>1, NewRequestFacts, BlankOK
  <2> QED BY <1>3, <2>2
<1>8. kycRequest \in [KycRequests -> KycRequestType]
  BY NewRequestFacts DEF KycInit
<1> QED BY <1>4, <1>5, <1>6, <1>7, <1>8 DEF KycInv

(* What a step of one request leaves to the others. *)
LEMMA OthersKeep ==
  ASSUME KycInv, NEW r \in KycRequests,
         \A s \in KycRequests \ {r} : kycRequest'[s] = kycRequest[s],
         \A i \in Applicants : kyc[i] = "UNDER_REVIEW" => kyc'[i] = "UNDER_REVIEW",
         overtaken \subseteq overtaken',
         \A w, i, t : Owned(w, i, t) => Owned(w, i, t)',
         \A i \in Applicants, t \in Types : Submitting(i) /\ Safe(i, t) => Safe(i, t)',
         \A s \in KycRequests \ {r} : Brings(s, kycRequest[s]) => Brings(s, kycRequest[s])',
         \A s \in KycRequests \ {r} : Tidies(s, kycRequest[s]) => Tidies(s, kycRequest[s])'
  PROVE  \A s \in KycRequests \ {r} : RequestOK(s, kycRequest[s])'
<1> SUFFICES ASSUME NEW s \in KycRequests, s # r PROVE RequestOK(s, kycRequest[s])'
  OBVIOUS
<1>1. RequestOK(s, kycRequest[s]) /\ kycRequest'[s] = kycRequest[s]
  BY DEF KycInv
<1>2. kycRequest[s].applicant \in Applicants
  BY <1>1 DEF RequestOK, KycRequestType
<1>3. Submits(kycRequest[s])'
  <2>1. kycRequest[s].op = "submit" /\ kycRequest[s].at \in {"Video", "Write"} =>
          Submitting(kycRequest[s].applicant)
    BY DEF Submitting
  <2>2. ManualTypes \cup Sides \subseteq Types
    BY DEF Types
  <2> QED BY <1>1, <1>2, <2>1, <2>2 DEF RequestOK, Submits
<1>4. Brings(s, kycRequest[s])' /\ Tidies(s, kycRequest[s])'
  BY <1>1 DEF RequestOK
<1>5. \A t \in Types : Owned(kycRequest[s].seen[t].file, kycRequest[s].applicant, t)'
  BY <1>1 DEF RequestOK
<1>6. kycRequest'[s] \in KycRequestType /\ Shape(kycRequest[s])'
      /\ (kycRequest'[s].late => kyc'[kycRequest'[s].applicant] = "UNDER_REVIEW")
  BY <1>1, <1>2 DEF RequestOK, Shape
<1> QED BY <1>3, <1>4, <1>5, <1>6 DEF RequestOK

(* A step that only moves a request which has not written. *)
LEMMA ThinkingKeeps ==
  ASSUME KycInv, NEW r \in KycRequests, NEW q \in KycRequestType,
         kycRequest' = [kycRequest EXCEPT ![r] = q],
         UNCHANGED <<kyc, document, bucket, overtaken>>,
         kycRequest[r].at \in {"Tidy", "Answer", "Done"} => q.at = "Done",
         RequestOK(r, q)
  PROVE  KycInv'
<1>1. kycRequest' \in [KycRequests -> KycRequestType] /\ kycRequest'[r] = q
      /\ \A s \in KycRequests \ {r} : kycRequest'[s] = kycRequest[s]
  BY DEF KycInv
<1>2. \A w, i, t : Owned(w, i, t) => Owned(w, i, t)'
  BY <1>1 DEF Owned
<1>3. \A i \in Applicants, t \in Types : Safe(i, t) <=> Safe(i, t)'
  BY DEF Safe, Present
<1>4. KycRowsOK' /\ SubmittedIsComplete' /\ StoredFilesExist'
  BY DEF KycInv, KycRowsOK, SubmittedIsComplete, StoredFilesExist, Present
<1>5. \A i \in Applicants, t \in Types : Owned(document[i][t].file, i, t)'
  BY <1>2 DEF KycInv
<1>6. \A s \in KycRequests \ {r} : RequestOK(s, kycRequest[s])'
  <2>1. \A s \in KycRequests \ {r} : Brings(s, kycRequest[s]) => Brings(s, kycRequest[s])'
    BY <1>1 DEF Brings
  <2>2. \A s \in KycRequests \ {r} : Tidies(s, kycRequest[s]) => Tidies(s, kycRequest[s])'
    BY <1>1 DEF Tidies, Replaced
  <2> QED BY <1>1, <1>2, <1>3, <2>1, <2>2, OthersKeep
<1>7. RequestOK(r, kycRequest[r])'
  <2>1. Shape(q) /\ (q.late => kyc'[q.applicant] = "UNDER_REVIEW")
    BY DEF RequestOK
  <2>2. Submits(kycRequest[r])'
    <3>1. ManualTypes \cup Sides \subseteq Types /\ q.applicant \in Applicants
      BY DEF Types, KycRequestType
    <3> QED BY <1>1, <1>3, <3>1 DEF RequestOK, Submits
  <2>3. Brings(r, kycRequest[r])' /\ Tidies(r, kycRequest[r])'
    BY <1>1 DEF RequestOK, Brings, Tidies, Replaced
  <2>4. \A t \in Types : Owned(kycRequest[r].seen[t].file, kycRequest[r].applicant, t)'
    BY <1>1, <1>2 DEF RequestOK
  <2>5. Shape(kycRequest[r])'
    BY <1>1, <2>1 DEF Shape
  <2> QED BY <1>1, <2>1, <2>2, <2>3, <2>4, <2>5 DEF RequestOK
<1>8. \A s \in KycRequests : RequestOK(s, kycRequest[s])'
  BY <1>6, <1>7
<1> QED BY <1>1, <1>4, <1>5, <1>8 DEF KycInv

(* The type of what a request saw, and what follows. *)
LEMMA RequestFacts ==
  ASSUME KycInv, NEW r \in KycRequests
  PROVE  /\ kycRequest[r] \in KycRequestType
         /\ RequestOK(r, kycRequest[r])
         /\ kycRequest[r].applicant \in Applicants
         /\ kycRequest[r].types \in SUBSET Types /\ kycRequest[r].files \in SUBSET Types
         /\ kycRequest[r].number \in KycNumbers \cup {NoNumber}
         /\ kycRequest[r].seen \in [Types -> Rows] /\ kycRequest[r].found \in [Types -> Rows]
         /\ Mine(r) \in [Types -> Rows]
<1>1. RequestOK(r, kycRequest[r])
  BY DEF KycInv
<1>2. kycRequest[r] \in KycRequestType
  BY <1>1 DEF RequestOK
<1>3. kycRequest[r].applicant \in Applicants
  BY <1>2 DEF KycRequestType
<1>4. Mine(r) \in [Types -> Rows]
  BY <1>3 DEF KycInv, KycRowsOK, Mine
<1> QED BY <1>1, <1>2, <1>3, <1>4 DEF KycRequestType

(* A request that moves on to a place where nothing else is asked of it. *)
LEMMA PlaceChanges ==
  ASSUME KycInv, NEW r \in KycRequests, NEW at \in {"Rows", "Number", "Upsert", "Write", "Answer"},
         MoveKyc(r, at), UNCHANGED <<kyc, document, bucket, overtaken>>,
         kycRequest[r].at \in {"Status", "Rows", "Number", "Upsert", "Video"},
         kycRequest[r].op # "delete",
         at \in {"Rows", "Number", "Upsert"} => kycRequest[r].op # "create",
         at # "Rows" => kycRequest[r].op # "submit"
  PROVE  KycInv'
<1> DEFINE q == [kycRequest[r] EXCEPT !.at = at]
<1>1. kycRequest[r] \in KycRequestType /\ RequestOK(r, kycRequest[r])
  BY RequestFacts
<1>2. q \in KycRequestType
  BY <1>1 DEF KycRequestType, KycPlaces
<1>3. /\ q.at = at /\ q.op = kycRequest[r].op /\ q.types = kycRequest[r].types
      /\ q.files = kycRequest[r].files /\ q.applicant = kycRequest[r].applicant
      /\ q.seen = kycRequest[r].seen /\ q.late = kycRequest[r].late
  BY <1>1 DEF KycRequestType
<1>4. kycRequest' = [kycRequest EXCEPT ![r] = q]
  BY DEF MoveKyc
<1> HIDE DEF q
<1>5. RequestOK(r, q)
  <2>1. Shape(q)
    BY <1>1, <1>3 DEF RequestOK, Shape
  <2>2. Submits(q)
    BY <1>3 DEF Submits
  <2>3. Brings(r, q) /\ Tidies(r, q)
    BY <1>1, <1>3 DEF RequestOK, Brings, Tidies
  <2> QED BY <1>1, <1>2, <1>3, <2>1, <2>2, <2>3 DEF RequestOK
<1> QED BY <1>2, <1>4, <1>5, ThinkingKeeps

LEMMA RefusedKeeps ==
  ASSUME KycInv, NEW r \in KycRequests, Refused(r), UNCHANGED <<kyc, document, bucket, overtaken>>,
         kycRequest[r].at \notin {"Tidy", "Answer", "Done"}
  PROVE  KycInv'
<1> DEFINE q == [NewKycRequest EXCEPT !.at = "Clean", !.applicant = kycRequest[r].applicant,
                   !.files = kycRequest[r].files]
<1>1. kycRequest[r].applicant \in Applicants /\ kycRequest[r].files \in SUBSET Types
  BY RequestFacts
<1>2. q \in KycRequestType /\ q.seen = NothingSeen /\ ~q.late /\ q.op = "create" /\ q.at = "Clean"
  BY <1>1, NewRequestFacts DEF KycRequestType, KycPlaces
<1>3. kycRequest' = [kycRequest EXCEPT ![r] = q]
  BY DEF Refused
<1> HIDE DEF q
<1>4. RequestOK(r, q)
  BY <1>2, BlankOK
<1> QED BY <1>2, <1>3, <1>4, ThinkingKeeps

(* Requests that are made. *)
LEMMA AskKeeps ==
  ASSUME KycInv, NEW r \in KycRequests, NEW i \in Applicants,
         NEW op \in Operations, NEW types \in SUBSET Types, NEW files \in SUBSET types,
         NEW number \in KycNumbers \cup {NoNumber}, Ask(r, op, i, types, files, number),
         op # "delete", op = "update" => types # {}
  PROVE  KycInv'
<1> DEFINE q == [NewKycRequest EXCEPT !.at = IF files = {} THEN "Status" ELSE "Store", !.op = op,
          !.applicant = i, !.types = types, !.files = files, !.number = number,
          !.given = number # NoNumber]
<1>1. q \in KycRequestType
  BY NewRequestFacts DEF KycRequestType, KycPlaces
<1>2. /\ q.at \in {"Status", "Store"} /\ q.op = op /\ q.types = types /\ q.files = files
      /\ q.at = "Status" => files = {}
      /\ q.seen = NothingSeen /\ ~q.late
  BY NewRequestFacts DEF KycRequestType
<1>3. kycRequest' = [kycRequest EXCEPT ![r] = q] /\ kycRequest[r].at = "Idle"
      /\ UNCHANGED <<kyc, document, bucket, overtaken>>
  BY DEF Ask
<1> HIDE DEF q
<1>4. RequestOK(r, q)
  <2>1. \A t \in Types : q.seen[t].file = NoWriter
    BY <1>2, RowFacts, NewRequestFacts
  <2>2. Shape(q) /\ Submits(q) /\ Brings(r, q) /\ Tidies(r, q)
    BY <1>2 DEF Shape, Submits, Brings, Tidies
  <2> QED BY <1>1, <1>2, <2>1, <2>2, RowFacts DEF RequestOK, Owned
<1> QED BY <1>1, <1>3, <1>4, ThinkingKeeps

LEMMA AskDeleteKeeps ==
  ASSUME KycInv, NEW r \in KycRequests, NEW i \in Applicants, AskDelete(r, i)
  PROVE  KycInv'
<1>1. kycRequest[r].at = "Idle" /\ UNCHANGED <<kyc, document, bucket, overtaken>>
  BY DEF AskDelete
<1>2. PICK t \in Types :
        kycRequest' = [kycRequest EXCEPT ![r] =
            [NewKycRequest EXCEPT !.at = "Status", !.op = "delete", !.applicant = i,
               !.types = {t}, !.late = kyc[i] = "UNDER_REVIEW",
               !.seen = [NothingSeen EXCEPT ![t] = document[i][t]]]]
  BY DEF AskDelete
<1> DEFINE seen == [NothingSeen EXCEPT ![t] = document[i][t]]
           q == [NewKycRequest EXCEPT !.at = "Status", !.op = "delete", !.applicant = i,
                   !.types = {t}, !.late = kyc[i] = "UNDER_REVIEW", !.seen = seen]
<1>3. seen \in [Types -> Rows] /\ \A u \in Types : seen[u] = NoDocument \/ seen[u] = document[i][u]
  BY RowFacts, NewRequestFacts DEF KycInv, KycRowsOK, NothingSeen
<1> HIDE DEF seen
<1>4. q \in KycRequestType
  BY <1>3, NewRequestFacts DEF KycRequestType, KycPlaces, Operations
<1>5. /\ q.at = "Status" /\ q.op = "delete" /\ q.applicant = i /\ q.types = {t} /\ q.files = {}
      /\ q.seen = seen /\ (q.late => kyc[i] = "UNDER_REVIEW")
  BY NewRequestFacts DEF KycRequestType
<1>6. kycRequest' = [kycRequest EXCEPT ![r] = q]
  BY <1>2 DEF seen
<1> HIDE DEF q
<1>7. RequestOK(r, q)
  <2>1. \A u \in Types : Owned(q.seen[u].file, q.applicant, u)
    <3> TAKE u \in Types
    <3>1. CASE seen[u] = NoDocument
      BY <1>5, <3>1, RowFacts DEF Owned
    <3>2. CASE seen[u] = document[i][u]
      BY <1>5, <3>2 DEF KycInv
    <3> QED BY <1>3, <3>1, <3>2
  <2>2. Shape(q) /\ Submits(q) /\ Brings(r, q) /\ Tidies(r, q)
    BY <1>5 DEF Shape, Submits, Brings, Tidies
  <2> QED BY <1>4, <1>5, <2>1, <2>2 DEF RequestOK
<1> QED BY <1>1, <1>4, <1>6, <1>7, ThinkingKeeps

(* The checks that submit makes of the documents and of the video. *)
LEMMA SubmitChecksKeep ==
  ASSUME KycInv, NEW r \in KycRequests, ReadDocuments(r) \/ ReadVideo(r)
  PROVE  KycInv'
<1>1. UNCHANGED <<kyc, document, bucket, overtaken>> /\ kycRequest[r].at \in {"Rows", "Video"}
  BY DEF ReadDocuments, ReadVideo
<1>2. CASE Refused(r)
  BY <1>1, <1>2, RefusedKeeps
<1>3. ASSUME NEW at \in {"Video", "Write"}, MoveKyc(r, at), kycRequest[r].op = "submit",
             at = "Video" => \A t \in ManualTypes \cup Sides : Safe(kycRequest[r].applicant, t),
             at = "Write" => \A t \in Types : Safe(kycRequest[r].applicant, t)
      PROVE  KycInv'
  <2> DEFINE q == [kycRequest[r] EXCEPT !.at = at]
  <2>1. kycRequest[r] \in KycRequestType /\ RequestOK(r, kycRequest[r])
    BY RequestFacts
  <2>2. q \in KycRequestType
    BY <2>1 DEF KycRequestType, KycPlaces
  <2>3. /\ q.at = at /\ q.op = "submit" /\ q.types = kycRequest[r].types
        /\ q.files = kycRequest[r].files /\ q.applicant = kycRequest[r].applicant
        /\ q.seen = kycRequest[r].seen /\ q.late = kycRequest[r].late
    BY <1>3, <2>1 DEF KycRequestType
  <2>4. kycRequest' = [kycRequest EXCEPT ![r] = q]
    BY <1>3 DEF MoveKyc
  <2> HIDE DEF q
  <2>5. Shape(q) /\ Submits(q)
    BY <1>3, <2>3 DEF Shape, Submits
  <2>6. Brings(r, q) /\ Tidies(r, q)
    BY <1>1, <1>3, <2>1, <2>3 DEF RequestOK, Brings, Tidies
  <2>7. RequestOK(r, q)
    BY <2>1, <2>2, <2>3, <2>5, <2>6 DEF RequestOK
  <2> QED BY <1>1, <2>2, <2>4, <2>7, ThinkingKeeps
<1>4. CASE ReadDocuments(r) /\ ~Refused(r)
  <2>1. kycRequest[r].op = "submit" /\ Complete(kycRequest[r].applicant) /\ MoveKyc(r, "Video")
    BY <1>4 DEF ReadDocuments
  <2> QED BY <1>3, <2>1 DEF Complete, Safe
<1>5. CASE ReadVideo(r) /\ ~Refused(r)
  <2>1. /\ kycRequest[r].at = "Video" /\ Present(kycRequest[r].applicant, "VIDEO")
        /\ MoveKyc(r, "Write")
    BY <1>5 DEF ReadVideo
  <2>2. RequestOK(r, kycRequest[r])
    BY RequestFacts
  <2>3. kycRequest[r].op = "submit"
    BY <2>1, <2>2 DEF RequestOK, Shape
  <2>4. \A t \in ManualTypes \cup Sides : Safe(kycRequest[r].applicant, t)
    BY <2>1, <2>2, <2>3 DEF RequestOK, Submits
  <2>5. \A t \in Types : Safe(kycRequest[r].applicant, t)
    BY <2>1, <2>4 DEF Types, Safe
  <2> QED BY <1>3, <2>1, <2>3, <2>5
<1> QED BY <1>2, <1>4, <1>5

(* What a request reads of the rows is owned by whoever wrote it. *)
LEMMA SeenIsOwned ==
  ASSUME KycInv, NEW r \in KycRequests, NEW types \in SUBSET Types
  PROVE  LET seen == [t \in Types |-> IF t \in types THEN Mine(r)[t] ELSE NoDocument]
         IN  /\ seen \in [Types -> Rows]
             /\ \A t \in Types : Owned(seen[t].file, kycRequest[r].applicant, t)
<1> DEFINE seen == [t \in Types |-> IF t \in types THEN Mine(r)[t] ELSE NoDocument]
<1>1. Mine(r) \in [Types -> Rows] /\ kycRequest[r].applicant \in Applicants
  BY RequestFacts
<1>2. NoDocument \in Rows /\ \A i, t : Owned(NoDocument.file, i, t)
  BY RowFacts DEF Owned
<1>3. seen \in [Types -> Rows]
  BY <1>1, <1>2
<1>4. ASSUME NEW t \in Types PROVE Owned(seen[t].file, kycRequest[r].applicant, t)
  <2>1. Owned(document[kycRequest[r].applicant][t].file, kycRequest[r].applicant, t)
    BY <1>1 DEF KycInv
  <2>2. seen[t] = NoDocument \/ seen[t] = document[kycRequest[r].applicant][t]
    BY DEF Mine
  <2> HIDE DEF seen
  <2>3. CASE seen[t] = NoDocument
    BY <1>2, <2>3
  <2>4. CASE seen[t] = document[kycRequest[r].applicant][t]
    BY <2>1, <2>4
  <2> QED BY <2>2, <2>3, <2>4
<1> QED BY <1>3, <1>4

LEMMA KeptNumberType ==
  ASSUME KycInv, NEW r \in KycRequests, NEW rows \in [Types -> Rows]
  PROVE  KeptNumber(r, rows) \in KycNumbers \cup {NoNumber}
<1>1. /\ kycRequest[r].number \in KycNumbers \cup {NoNumber}
      /\ kycRequest[r].types \in SUBSET Types /\ RequestOK(r, kycRequest[r])
  BY RequestFacts
<1>2. \A t \in Types : rows[t].number \in KycNumbers \cup {NoNumber}
  BY RowFacts
<1>3. "AADHAAR_FRONT" \in Types /\ "AADHAAR_BACK" \in Types
  BY DEF Types, Sides
<1>4. kycRequest[r].op = "update" => (CHOOSE t \in kycRequest[r].types : TRUE) \in Types
  BY <1>1 DEF RequestOK, Shape
<1> QED BY <1>1, <1>2, <1>3, <1>4 DEF KeptNumber

LEMMA ReadRowsKeeps ==
  ASSUME KycInv, NEW r \in KycRequests, ReadRows(r)
  PROVE  KycInv'
<1> DEFINE p == kycRequest[r]
           place == IF p.given /\ p.types \cap ({"PAN_CARD"} \cup Sides) # {} THEN "Number"
                    ELSE IF p.op = "updateAadhaar" THEN "Upsert" ELSE "Write"
           number == KeptNumber(r, Mine(r))
           seen == [t \in Types |-> IF t \in p.types THEN Mine(r)[t] ELSE NoDocument]
           q == [p EXCEPT !.at = place, !.number = number, !.seen = seen]
<1>1. UNCHANGED <<kyc, document, bucket, overtaken>> /\ p.at = "Rows" /\ p.op # "submit"
  BY DEF ReadRows
<1>2. Refused(r) \/ kycRequest' = [kycRequest EXCEPT ![r].at = place, ![r].number = number, ![r].seen = seen]
  BY DEF ReadRows
<1>3. CASE Refused(r)
  BY <1>1, <1>3, RefusedKeeps
<1>4. CASE kycRequest' = [kycRequest EXCEPT ![r].at = place, ![r].number = number, ![r].seen = seen]
  <2>1. p \in KycRequestType /\ RequestOK(r, p) /\ p.types \in SUBSET Types /\ Mine(r) \in [Types -> Rows]
    BY RequestFacts
  <2>2. number \in KycNumbers \cup {NoNumber}
    BY <2>1, KeptNumberType
  <2>3. seen \in [Types -> Rows] /\ \A t \in Types : Owned(seen[t].file, p.applicant, t)
    BY <2>1, SeenIsOwned
  <2>4. place \in {"Number", "Upsert", "Write"}
    OBVIOUS
  <2> HIDE DEF place, number, seen
  <2>5. q \in KycRequestType
    BY <2>1, <2>2, <2>3, <2>4 DEF KycRequestType, KycPlaces
  <2>6. /\ q.at = place /\ q.op = p.op /\ q.types = p.types /\ q.files = p.files
        /\ q.applicant = p.applicant /\ q.seen = seen /\ q.late = p.late
    BY <2>1 DEF KycRequestType
  <2>7. kycRequest' = [kycRequest EXCEPT ![r] = q]
    BY <1>4 DEF KycInv
  <2> HIDE DEF q
  <2>8. Shape(q) /\ Submits(q)
    BY <1>1, <2>1, <2>4, <2>6 DEF RequestOK, Shape, Submits
  <2>9. Brings(r, q) /\ Tidies(r, q)
    BY <1>1, <2>1, <2>4, <2>6 DEF RequestOK, Brings, Tidies
  <2>10. RequestOK(r, q)
    BY <2>1, <2>3, <2>5, <2>6, <2>8, <2>9 DEF RequestOK
  <2> QED BY <1>1, <2>5, <2>7, <2>10, ThinkingKeeps
<1> QED BY <1>2, <1>3, <1>4

LEMMA UpsertReadKeeps ==
  ASSUME KycInv, NEW r \in KycRequests, UpsertRead(r)
  PROVE  KycInv'
<1> DEFINE p == kycRequest[r]
           found == [t \in Types |-> IF t \in p.types THEN Mine(r)[t] ELSE NoDocument]
           q == [p EXCEPT !.at = "Write", !.found = found]
<1>1. UNCHANGED <<kyc, document, bucket, overtaken>> /\ p.at = "Upsert"
  BY DEF UpsertRead
<1>2. Refused(r) \/ kycRequest' = [kycRequest EXCEPT ![r].at = "Write", ![r].found = found]
  BY DEF UpsertRead
<1>3. CASE Refused(r)
  BY <1>1, <1>3, RefusedKeeps
<1>4. CASE kycRequest' = [kycRequest EXCEPT ![r].at = "Write", ![r].found = found]
  <2>1. p \in KycRequestType /\ RequestOK(r, p) /\ p.types \in SUBSET Types
    BY RequestFacts
  <2>2. found \in [Types -> Rows]
    BY <2>1, SeenIsOwned
  <2> HIDE DEF found
  <2>3. q \in KycRequestType
    BY <2>1, <2>2 DEF KycRequestType, KycPlaces
  <2>4. /\ q.at = "Write" /\ q.op = p.op /\ q.types = p.types /\ q.files = p.files
        /\ q.applicant = p.applicant /\ q.seen = p.seen /\ q.late = p.late
    BY <2>1 DEF KycRequestType
  <2>5. kycRequest' = [kycRequest EXCEPT ![r] = q]
    BY <1>4 DEF KycInv
  <2> HIDE DEF q
  <2>6. Shape(q) /\ Submits(q)
    BY <1>1, <2>1, <2>4 DEF RequestOK, Shape, Submits
  <2>7. Brings(r, q) /\ Tidies(r, q)
    BY <1>1, <2>1, <2>4 DEF RequestOK, Brings, Tidies
  <2>8. RequestOK(r, q)
    BY <2>1, <2>3, <2>4, <2>6, <2>7 DEF RequestOK
  <2> QED BY <1>1, <2>3, <2>5, <2>8, ThinkingKeeps
<1> QED BY <1>2, <1>3, <1>4

(* A deletion that was asked for after the submission is refused here. *)
LEMMA FindByIdKeeps ==
  ASSUME KycInv, NEW r \in KycRequests, FindById(r)
  PROVE  KycInv'
<1> DEFINE p == kycRequest[r]
           seen == [t \in Types |-> IF t \in p.types THEN Mine(r)[t] ELSE NoDocument]
           q == [p EXCEPT !.at = "Write", !.seen = seen]
<1>1. UNCHANGED <<kyc, document, bucket, overtaken>> /\ p.at = "Status" /\ p.op = "delete"
  BY DEF FindById
<1>2. \/ Refused(r)
      \/ /\ Editable(p.applicant)
         /\ kycRequest' = [kycRequest EXCEPT ![r].at = "Write", ![r].seen = seen]
  BY DEF FindById
<1>3. CASE Refused(r)
  BY <1>1, <1>3, RefusedKeeps
<1>4. CASE /\ Editable(p.applicant)
           /\ kycRequest' = [kycRequest EXCEPT ![r].at = "Write", ![r].seen = seen]
  <2>1. p \in KycRequestType /\ RequestOK(r, p) /\ p.types \in SUBSET Types
    BY RequestFacts
  <2>2. seen \in [Types -> Rows] /\ \A t \in Types : Owned(seen[t].file, p.applicant, t)
    BY <2>1, SeenIsOwned
  <2>3. ~p.late
    BY <1>4, <2>1 DEF RequestOK, Editable, KycRequestType
  <2> HIDE DEF seen
  <2>4. q \in KycRequestType
    BY <2>1, <2>2 DEF KycRequestType, KycPlaces
  <2>5. /\ q.at = "Write" /\ q.op = p.op /\ q.types = p.types /\ q.files = p.files
        /\ q.applicant = p.applicant /\ q.seen = seen /\ q.late = p.late
    BY <2>1 DEF KycRequestType
  <2>6. kycRequest' = [kycRequest EXCEPT ![r] = q]
    BY <1>4 DEF KycInv
  <2> HIDE DEF q
  <2>7. Shape(q) /\ Submits(q)
    BY <1>1, <2>1, <2>3, <2>5 DEF RequestOK, Shape, Submits
  <2>8. Brings(r, q) /\ Tidies(r, q)
    BY <1>1, <2>1, <2>5 DEF RequestOK, Brings, Tidies
  <2>9. RequestOK(r, q)
    BY <2>1, <2>2, <2>3, <2>4, <2>5, <2>7, <2>8 DEF RequestOK
  <2> QED BY <1>1, <2>4, <2>6, <2>9, ThinkingKeeps
<1> QED BY <1>2, <1>3, <1>4

LEMMA AnswerKeeps ==
  ASSUME KycInv, NEW r \in KycRequests, AnswerRequest(r)
  PROVE  KycInv'
<1> DEFINE q == [NewKycRequest EXCEPT !.at = "Done"]
<1>1. q \in KycRequestType /\ q.seen = NothingSeen /\ ~q.late /\ q.op = "create" /\ q.at = "Done"
  BY NewRequestFacts DEF KycRequestType, KycPlaces
<1>2. kycRequest' = [kycRequest EXCEPT ![r] = q] /\ UNCHANGED <<kyc, document, bucket, overtaken>>
  BY DEF AnswerRequest, End
<1> HIDE DEF q
<1>3. RequestOK(r, q)
  BY <1>1, BlankOK
<1> QED BY <1>1, <1>2, <1>3, ThinkingKeeps

-----------------------------------------------------------------------------
(* Steps that change more than the request. *)

LEMMA OwnedStays ==
  ASSUME KycInv, NEW r \in KycRequests, NEW q, kycRequest' = [kycRequest EXCEPT ![r] = q],
         overtaken \subseteq overtaken',
         kycRequest[r].at \in {"Tidy", "Answer", "Done"} =>
           \/ q.at = "Done"
           \/ /\ kycRequest[r].at # "Done"
              /\ \/ q.at \in {"Tidy", "Answer"} /\ q.applicant = kycRequest[r].applicant
                    /\ q.files = kycRequest[r].files
                 \/ \A t \in kycRequest[r].files : <<kycRequest[r].applicant, t>> \in overtaken'
  PROVE  \A w, i, t : Owned(w, i, t) => Owned(w, i, t)'
<1>1. kycRequest'[r] = q /\ \A s \in KycRequests \ {r} : kycRequest'[s] = kycRequest[s]
  BY DEF KycInv
<1> SUFFICES ASSUME NEW w \in KycRequests, NEW i, NEW t, Owned(w, i, t) PROVE Owned(w, i, t)'
  BY DEF Owned
<1>2. CASE w # r
  BY <1>1, <1>2 DEF Owned
<1>3. CASE w = r
  BY <1>1, <1>3 DEF Owned
<1> QED BY <1>2, <1>3

LEMMA WritingKeeps ==
  ASSUME KycInv, NEW r \in KycRequests, NEW q, kycRequest' = [kycRequest EXCEPT ![r] = q],
         KycRowsOK', SubmittedIsComplete', StoredFilesExist',
         \A i \in Applicants : kyc[i] = "UNDER_REVIEW" => kyc'[i] = "UNDER_REVIEW",
         overtaken \subseteq overtaken',
         \A w, i, t : Owned(w, i, t) => Owned(w, i, t)',
         \A i \in Applicants, t \in Types : Owned(document[i][t].file, i, t)',
         \A i \in Applicants, t \in Types : Submitting(i) /\ Safe(i, t) => Safe(i, t)',
         \A s \in KycRequests \ {r} : Brings(s, kycRequest[s]) => Brings(s, kycRequest[s])',
         \A s \in KycRequests \ {r} : Tidies(s, kycRequest[s]) => Tidies(s, kycRequest[s])',
         RequestOK(r, kycRequest[r])'
  PROVE  KycInv'
<1>1. \A s \in KycRequests \ {r} : kycRequest'[s] = kycRequest[s]
  BY DEF KycInv
<1>2. \A s \in KycRequests \ {r} : RequestOK(s, kycRequest[s])'
  BY <1>1, OthersKeep
<1>3. \A s \in KycRequests : RequestOK(s, kycRequest[s])'
  BY <1>2
<1>4. kycRequest' \in [KycRequests -> KycRequestType]
  <2>1. \A s \in KycRequests : kycRequest'[s] \in KycRequestType
    BY <1>3 DEF RequestOK
  <2>2. \E f \in [KycRequests -> KycRequestType] : kycRequest = f
    BY DEF KycInv
  <2> QED BY <2>1, <2>2
<1> QED BY <1>3, <1>4 DEF KycInv

LEMMA StoreFilesKeeps ==
  ASSUME KycInv, NEW r \in KycRequests, StoreFiles(r)
  PROVE  KycInv'
<1> DEFINE p == kycRequest[r]
<1>1. UNCHANGED <<kyc, document, overtaken>> /\ p.at = "Store"
  BY DEF StoreFiles
<1>2. PICK stored \in SUBSET p.files, at \in {"Status", "Clean"} :
        /\ bucket' = [bucket EXCEPT ![p.applicant] = [t \in Types |->
             IF t \in stored THEN @[t] \cup {r} ELSE @[t]]]
        /\ kycRequest' = [kycRequest EXCEPT ![r].at = at]
        /\ at = "Status" => stored = p.files
  BY DEF StoreFiles
<1> DEFINE q == [p EXCEPT !.at = at]
<1>3. /\ p \in KycRequestType /\ RequestOK(r, p) /\ p.files \in SUBSET Types
      /\ p.applicant \in Applicants
  BY RequestFacts
<1>4. q \in KycRequestType
  BY <1>3 DEF KycRequestType, KycPlaces
<1>5. /\ q.at = at /\ q.op = p.op /\ q.types = p.types /\ q.files = p.files
      /\ q.applicant = p.applicant /\ q.seen = p.seen /\ q.late = p.late
  BY <1>3 DEF KycRequestType
<1>6. kycRequest' = [kycRequest EXCEPT ![r] = q] /\ kycRequest'[r] = q
      /\ \A s \in KycRequests \ {r} : kycRequest'[s] = kycRequest[s]
  BY <1>2 DEF KycInv
<1> HIDE DEF q
<1>7. bucket \in [Applicants -> [Types -> SUBSET Writers]]
  BY DEF KycInv, KycRowsOK
<1>8. \A i \in Applicants, t \in Types :
        bucket'[i][t] = IF i = p.applicant /\ t \in stored THEN bucket[i][t] \cup {r} ELSE bucket[i][t]
  BY <1>2, <1>3, <1>7
<1>9. KycRowsOK'
  <2>1. bucket' \in [Applicants -> [Types -> SUBSET Writers]]
    BY <1>2, <1>3, <1>7 DEF Writers
  <2> QED BY <1>1, <2>1 DEF KycInv, KycRowsOK
<1>10. SubmittedIsComplete' /\ StoredFilesExist'
  BY <1>1, <1>8 DEF KycInv, SubmittedIsComplete, StoredFilesExist, Present
<1>11. \A w, i, t : Owned(w, i, t) => Owned(w, i, t)'
  BY <1>1, <1>6, OwnedStays
<1>12. \A i \in Applicants, t \in Types : Owned(document[i][t].file, i, t)'
  BY <1>1, <1>11 DEF KycInv
<1>13. \A i \in Applicants, t \in Types : Submitting(i) /\ Safe(i, t) => Safe(i, t)'
  BY <1>1 DEF Safe, Present
<1>14. ASSUME NEW s \in KycRequests \ {r}
       PROVE  /\ Brings(s, kycRequest[s]) => Brings(s, kycRequest[s])'
              /\ Tidies(s, kycRequest[s]) => Tidies(s, kycRequest[s])'
  <2>1. kycRequest[s].applicant \in Applicants /\ kycRequest[s].files \in SUBSET Types
    BY RequestFacts
  <2>2. kycRequest'[s] = kycRequest[s]
    BY <1>6
  <2>3. Tidies(s, kycRequest[s]) => Tidies(s, kycRequest[s])'
    BY <1>1, <2>2 DEF Tidies, Replaced
  <2>4. \A t \in kycRequest[s].files :
          s \in bucket[kycRequest[s].applicant][t] => s \in bucket'[kycRequest[s].applicant][t]
    BY <1>8, <2>1
  <2>5. Brings(s, kycRequest[s]) => Brings(s, kycRequest[s])'
    BY <1>1, <2>2, <2>4 DEF Brings
  <2> QED BY <2>3, <2>5
<1>15. RequestOK(r, kycRequest[r])'
  <2>1. Shape(kycRequest[r])' /\ Submits(kycRequest[r])' /\ Tidies(r, kycRequest[r])'
    BY <1>3, <1>5, <1>6 DEF RequestOK, Shape, Submits, Tidies
  <2>2. Brings(r, kycRequest[r])'
    <3>1. ASSUME at = "Status", NEW t \in p.files PROVE r \in bucket'[p.applicant][t]
      <4>1. t \in stored /\ t \in Types /\ p.applicant \in Applicants
        BY <1>2, <1>3, <3>1
      <4>2. bucket'[p.applicant][t] = bucket[p.applicant][t] \cup {r}
        BY <1>8, <4>1
      <4> QED BY <4>2
    <3> QED BY <1>2, <1>5, <1>6, <3>1 DEF Brings
  <2>3. \A t \in Types : Owned(kycRequest[r].seen[t].file, kycRequest[r].applicant, t)'
    BY <1>3, <1>5, <1>6, <1>11 DEF RequestOK
  <2> QED BY <1>1, <1>3, <1>4, <1>5, <1>6, <2>1, <2>2, <2>3 DEF RequestOK
<1> QED BY <1>1, <1>6, <1>9, <1>10, <1>11, <1>12, <1>13, <1>14, <1>15, WritingKeeps

LEMMA CleanUpKeeps ==
  ASSUME KycInv, NEW r \in KycRequests, CleanUp(r)
  PROVE  KycInv'
<1> DEFINE p == kycRequest[r]
           q == [NewKycRequest EXCEPT !.at = "Done"]
<1>1. UNCHANGED <<kyc, document, overtaken>> /\ p.at = "Clean"
  BY DEF CleanUp
<1>2. PICK deleted \in SUBSET p.files :
        bucket' = [bucket EXCEPT ![p.applicant] = [t \in Types |->
            IF t \in deleted THEN @[t] \ {r} ELSE @[t]]]
  BY DEF CleanUp
<1>3. RequestOK(r, p) /\ p.files \in SUBSET Types /\ p.applicant \in Applicants
  BY RequestFacts
<1>4. q \in KycRequestType /\ q.seen = NothingSeen /\ ~q.late /\ q.op = "create" /\ q.at = "Done"
  BY NewRequestFacts DEF KycRequestType, KycPlaces
<1>5. kycRequest' = [kycRequest EXCEPT ![r] = q] /\ kycRequest'[r] = q
      /\ \A s \in KycRequests \ {r} : kycRequest'[s] = kycRequest[s]
  BY DEF CleanUp, End, KycInv
<1> HIDE DEF q
<1>6. bucket \in [Applicants -> [Types -> SUBSET Writers]]
  BY DEF KycInv, KycRowsOK
<1>7. \A i \in Applicants, t \in Types :
        bucket'[i][t] = IF i = p.applicant /\ t \in deleted THEN bucket[i][t] \ {r} ELSE bucket[i][t]
  BY <1>2, <1>3, <1>6
<1>8. KycRowsOK'
  <2>1. bucket' \in [Applicants -> [Types -> SUBSET Writers]]
    BY <1>2, <1>3, <1>6
  <2> QED BY <1>1, <2>1 DEF KycInv, KycRowsOK
<1>9. \A i \in Applicants, t \in Types : document[i][t].file = r => <<i, t>> \in overtaken
  BY <1>1 DEF KycInv, Owned
<1>10. SubmittedIsComplete' /\ StoredFilesExist'
  BY <1>1, <1>7, <1>9 DEF KycInv, SubmittedIsComplete, StoredFilesExist, Present
<1>11. \A w, i, t : Owned(w, i, t) => Owned(w, i, t)'
  BY <1>1, <1>4, <1>5, OwnedStays
<1>12. \A i \in Applicants, t \in Types : Owned(document[i][t].file, i, t)'
  BY <1>1, <1>11 DEF KycInv
<1>13. \A i \in Applicants, t \in Types : Submitting(i) /\ Safe(i, t) => Safe(i, t)'
  BY <1>1 DEF Safe, Present
<1>14. ASSUME NEW s \in KycRequests \ {r}
       PROVE  /\ Brings(s, kycRequest[s]) => Brings(s, kycRequest[s])'
              /\ Tidies(s, kycRequest[s]) => Tidies(s, kycRequest[s])'
  <2>1. kycRequest[s].applicant \in Applicants /\ kycRequest[s].files \in SUBSET Types
    BY RequestFacts
  <2>2. kycRequest'[s] = kycRequest[s]
    BY <1>5
  <2>3. Tidies(s, kycRequest[s]) => Tidies(s, kycRequest[s])'
    BY <1>1, <2>2 DEF Tidies, Replaced
  <2>4. \A t \in kycRequest[s].files :
          s \in bucket[kycRequest[s].applicant][t] => s \in bucket'[kycRequest[s].applicant][t]
    BY <1>7, <2>1
  <2>5. Brings(s, kycRequest[s]) => Brings(s, kycRequest[s])'
    BY <1>1, <2>2, <2>4 DEF Brings
  <2> QED BY <2>3, <2>5
<1>15. RequestOK(r, kycRequest[r])'
  <2>1. \A t \in Types : q.seen[t].file = NoWriter
    BY <1>4, RowFacts, NewRequestFacts
  <2>2. /\ Shape(kycRequest[r])' /\ Submits(kycRequest[r])' /\ Brings(r, kycRequest[r])'
        /\ Tidies(r, kycRequest[r])'
    BY <1>4, <1>5 DEF Shape, Submits, Brings, Tidies
  <2>3. \A t \in Types : Owned(kycRequest[r].seen[t].file, kycRequest[r].applicant, t)'
    BY <1>5, <2>1, RowFacts DEF Owned
  <2> QED BY <1>4, <1>5, <2>2, <2>3 DEF RequestOK
<1> QED BY <1>1, <1>5, <1>8, <1>10, <1>11, <1>12, <1>13, <1>14, <1>15, WritingKeeps

(* What stays of a request whose place changes. *)
LEMMA PlaceFacts ==
  ASSUME KycInv, NEW r \in KycRequests, NEW at \in KycPlaces, MoveKyc(r, at)
  PROVE  \E q \in KycRequestType :
           /\ kycRequest' = [kycRequest EXCEPT ![r] = q] /\ kycRequest'[r] = q
           /\ \A s \in KycRequests \ {r} : kycRequest'[s] = kycRequest[s]
           /\ q.at = at /\ q.op = kycRequest[r].op /\ q.types = kycRequest[r].types
           /\ q.files = kycRequest[r].files /\ q.applicant = kycRequest[r].applicant
           /\ q.seen = kycRequest[r].seen /\ q.late = kycRequest[r].late
<1> DEFINE q == [kycRequest[r] EXCEPT !.at = at]
<1>1. kycRequest[r] \in KycRequestType
  BY RequestFacts
<1>2. q \in KycRequestType
  BY <1>1 DEF KycRequestType
<1>3. /\ q.at = at /\ q.op = kycRequest[r].op /\ q.types = kycRequest[r].types
      /\ q.files = kycRequest[r].files /\ q.applicant = kycRequest[r].applicant
      /\ q.seen = kycRequest[r].seen /\ q.late = kycRequest[r].late
  BY <1>1 DEF KycRequestType
<1>4. kycRequest' = [kycRequest EXCEPT ![r] = q] /\ kycRequest'[r] = q
      /\ \A s \in KycRequests \ {r} : kycRequest'[s] = kycRequest[s]
  BY DEF MoveKyc, KycInv
<1> QED BY <1>2, <1>3, <1>4

(* A status is written: of a new application, or of one that is complete. *)
LEMMA StatusWritten ==
  ASSUME KycInv, NEW r \in KycRequests, NEW status \in {"PENDING", "UNDER_REVIEW"},
         MoveKyc(r, "Answer"), UNCHANGED <<document, bucket, overtaken>>,
         kyc' = [kyc EXCEPT ![kycRequest[r].applicant] = status],
         kycRequest[r].at = "Write",
         status = "PENDING" => kyc[kycRequest[r].applicant] # "UNDER_REVIEW",
         status = "UNDER_REVIEW" => \A t \in Types : Safe(kycRequest[r].applicant, t)
  PROVE  KycInv'
<1> DEFINE p == kycRequest[r]
<1>1. PICK q \in KycRequestType :
           /\ kycRequest' = [kycRequest EXCEPT ![r] = q] /\ kycRequest'[r] = q
           /\ \A s \in KycRequests \ {r} : kycRequest'[s] = kycRequest[s]
           /\ q.at = "Answer" /\ q.op = p.op /\ q.types = p.types /\ q.files = p.files
           /\ q.applicant = p.applicant /\ q.seen = p.seen /\ q.late = p.late
  BY PlaceFacts DEF KycPlaces
<1>2. RequestOK(r, p) /\ p.applicant \in Applicants
  BY RequestFacts
<1>3. kyc \in [Applicants -> {"none", "PENDING", "UNDER_REVIEW"}]
  BY DEF KycInv, KycRowsOK
<1>4. \A i \in Applicants : kyc'[i] = IF i = p.applicant THEN status ELSE kyc[i]
  BY <1>2, <1>3
<1>5. KycRowsOK'
  <2>1. kyc' \in [Applicants -> {"none", "PENDING", "UNDER_REVIEW"}]
    BY <1>2, <1>3
  <2> QED BY <2>1 DEF KycInv, KycRowsOK
<1>6. \A i \in Applicants, t \in Types : Safe(i, t) <=> Safe(i, t)'
  BY DEF Safe, Present
<1>7. SubmittedIsComplete'
  <2> SUFFICES ASSUME NEW i \in Applicants, kyc'[i] = "UNDER_REVIEW"
               PROVE  \A t \in Types : Safe(i, t)
    BY <1>6 DEF SubmittedIsComplete, Safe
  <2>1. CASE kyc[i] = "UNDER_REVIEW"
    BY <2>1 DEF KycInv, SubmittedIsComplete, Safe
  <2>2. CASE kyc[i] # "UNDER_REVIEW"
    BY <1>4, <2>2
  <2> QED BY <2>1, <2>2
<1>8. StoredFilesExist'
  BY DEF KycInv, StoredFilesExist, Present
<1>9. \A w, i, t : Owned(w, i, t) => Owned(w, i, t)'
  BY <1>1, OwnedStays
<1>10. \A i \in Applicants, t \in Types : Owned(document[i][t].file, i, t)'
  BY <1>9 DEF KycInv
<1>11. \A i \in Applicants : kyc[i] = "UNDER_REVIEW" => kyc'[i] = "UNDER_REVIEW"
  BY <1>4
<1>12. ASSUME NEW s \in KycRequests \ {r}
       PROVE  /\ Brings(s, kycRequest[s]) => Brings(s, kycRequest[s])'
              /\ Tidies(s, kycRequest[s]) => Tidies(s, kycRequest[s])'
  <2>1. kycRequest'[s] = kycRequest[s]
    BY <1>1
  <2>2. Tidies(s, kycRequest[s]) => Tidies(s, kycRequest[s])'
    BY <2>1 DEF Tidies, Replaced
  <2>3. Brings(s, kycRequest[s]) => Brings(s, kycRequest[s])'
    BY <2>1 DEF Brings
  <2> QED BY <2>2, <2>3
<1>13. RequestOK(r, kycRequest[r])'
  <2>1. /\ Shape(kycRequest[r])' /\ Submits(kycRequest[r])' /\ Brings(r, kycRequest[r])'
        /\ Tidies(r, kycRequest[r])'
    BY <1>1, <1>2 DEF RequestOK, Shape, Submits, Brings, Tidies
  <2>2. \A t \in Types : Owned(kycRequest[r].seen[t].file, kycRequest[r].applicant, t)'
    BY <1>1, <1>2, <1>9 DEF RequestOK
  <2> QED BY <1>1, <1>2, <1>11, <2>1, <2>2 DEF RequestOK
<1> QED BY <1>1, <1>5, <1>6, <1>7, <1>8, <1>9, <1>10, <1>11, <1>12, <1>13, WritingKeeps

LEMMA StatusKeeps ==
  ASSUME KycInv, NEW r \in KycRequests, CreateApplication(r) \/ SubmitApplication(r)
  PROVE  KycInv'
<1>1. kycRequest[r].at = "Write" /\ RequestOK(r, kycRequest[r])
  BY RequestFacts DEF CreateApplication, SubmitApplication
<1>2. CASE CreateApplication(r)
  <2>1. CASE kyc[kycRequest[r].applicant] = "none"
    BY <1>1, <1>2, <2>1, StatusWritten DEF CreateApplication
  <2>2. CASE kyc[kycRequest[r].applicant] # "none"
    BY <1>1, <1>2, <2>2, RefusedKeeps DEF CreateApplication
  <2> QED BY <2>1, <2>2
<1>3. CASE SubmitApplication(r)
  <2>1. kycRequest[r].op = "submit"
    BY <1>3 DEF SubmitApplication
  <2>2. \A t \in Types : Safe(kycRequest[r].applicant, t)
    BY <1>1, <2>1 DEF RequestOK, Submits
  <2> QED BY <1>1, <1>3, <2>2, StatusWritten DEF SubmitApplication
<1> QED BY <1>2, <1>3

(* A row that is deleted under a submission counts as overtaken.            *)
LEMMA DeleteRowKeeps ==
  ASSUME KycInv, NEW r \in KycRequests, DeleteRow(r)
  PROVE  KycInv'
<1> DEFINE p == kycRequest[r]
           i0 == p.applicant
<1>1. UNCHANGED <<kyc, bucket>> /\ p.at = "Write" /\ p.op = "delete"
  BY DEF DeleteRow
<1>2. CASE Refused(r) /\ UNCHANGED <<document, overtaken>>
  BY <1>1, <1>2, RefusedKeeps
<1>3. ASSUME NEW t0 \in p.types, document' = [document EXCEPT ![i0][t0] = NoDocument],
             overtaken' = IF Submitting(i0) /\ ~p.late THEN overtaken \cup {<<i0, t0>>} ELSE overtaken,
             MoveKyc(r, "Tidy")
      PROVE  KycInv'
  <2>1. PICK q \in KycRequestType :
             /\ kycRequest' = [kycRequest EXCEPT ![r] = q] /\ kycRequest'[r] = q
             /\ \A s \in KycRequests \ {r} : kycRequest'[s] = kycRequest[s]
             /\ q.at = "Tidy" /\ q.op = p.op /\ q.types = p.types /\ q.files = p.files
             /\ q.applicant = p.applicant /\ q.seen = p.seen /\ q.late = p.late
    BY <1>3, PlaceFacts DEF KycPlaces
  <2>2. RequestOK(r, p) /\ i0 \in Applicants /\ p.types \in SUBSET Types /\ p.seen \in [Types -> Rows]
    BY RequestFacts
  <2>3. p.types = {t0} /\ t0 \in Types /\ ~p.late
    BY <1>1, <1>3, <2>2 DEF RequestOK, Shape
  <2>4. document \in [Applicants -> [Types -> Rows]] /\ overtaken \subseteq Applicants \X Types
    BY DEF KycInv, KycRowsOK
  <2>5. \A i \in Applicants, t \in Types :
          document'[i][t] = IF i = i0 /\ t = t0 THEN NoDocument ELSE document[i][t]
    BY <1>3, <2>2, <2>3, <2>4
  <2>6. overtaken \subseteq overtaken' /\ (Submitting(i0) => <<i0, t0>> \in overtaken')
    BY <1>3, <2>3
  <2> HIDE DEF p, i0
  <2>7. KycRowsOK'
    <3>1. document' \in [Applicants -> [Types -> Rows]]
      BY <1>3, <2>4, RowFacts
    <3>2. overtaken' \subseteq Applicants \X Types
      BY <1>3, <2>2, <2>3, <2>4
    <3> QED BY <1>1, <3>1, <3>2 DEF KycInv, KycRowsOK
  <2>8. \A i \in Applicants, t \in Types : Submitting(i) /\ Safe(i, t) => Safe(i, t)'
    BY <2>5, <2>6 DEF Safe, Present
  <2>9. SubmittedIsComplete'
    <3> SUFFICES ASSUME NEW i \in Applicants, kyc[i] = "UNDER_REVIEW", NEW t \in Types
                 PROVE  Safe(i, t)'
      BY <1>1 DEF SubmittedIsComplete, Safe
    <3>1. Safe(i, t) /\ Submitting(i)
      BY DEF KycInv, SubmittedIsComplete, Safe, Submitting
    <3> QED BY <2>8, <3>1
  <2>10. StoredFilesExist'
    BY <1>1, <2>5, <2>6 DEF KycInv, StoredFilesExist, Present
  <2>11. \A w, i, t : Owned(w, i, t) => Owned(w, i, t)'
    BY <1>1, <2>1, <2>6, OwnedStays DEF p
  <2>12. \A i \in Applicants, t \in Types : Owned(document[i][t].file, i, t)'
    <3> SUFFICES ASSUME NEW i \in Applicants, NEW t \in Types PROVE Owned(document[i][t].file, i, t)'
      OBVIOUS
    <3>1. CASE i = i0 /\ t = t0
      <4>1. document'[i][t].file = NoWriter
        BY <2>5, <3>1, RowFacts
      <4> QED BY <4>1, RowFacts DEF Owned
    <3>2. CASE ~(i = i0 /\ t = t0)
      BY <2>5, <2>11, <3>2 DEF KycInv
    <3> QED BY <3>1, <3>2
  <2>13. ASSUME NEW s \in KycRequests \ {r}
         PROVE  /\ Brings(s, kycRequest[s]) => Brings(s, kycRequest[s])'
                /\ Tidies(s, kycRequest[s]) => Tidies(s, kycRequest[s])'
    <3>1. kycRequest'[s] = kycRequest[s]
      BY <2>1
    <3>2. /\ kycRequest[s].applicant \in Applicants /\ kycRequest[s].types \in SUBSET Types
          /\ kycRequest[s].seen \in [Types -> Rows]
      BY RequestFacts
    <3>3. \A t \in Replaced(kycRequest[s]) : t \in Types /\ kycRequest[s].seen[t].file # NoWriter
      BY <3>2, RowFacts DEF Replaced
    <3>4. Tidies(s, kycRequest[s]) => Tidies(s, kycRequest[s])'
      <4> DEFINE k == kycRequest[s]
      <4>1. \A t \in Replaced(k) :
              document'[k.applicant][t].file = document[k.applicant][t].file
              \/ document'[k.applicant][t].file # k.seen[t].file
        BY <2>5, <3>2, <3>3, RowFacts
      <4> QED BY <2>6, <3>1, <4>1 DEF Tidies, Replaced
    <3>5. Brings(s, kycRequest[s]) => Brings(s, kycRequest[s])'
      BY <1>1, <2>6, <3>1 DEF Brings
    <3> QED BY <3>4, <3>5
  <2>14. RequestOK(r, kycRequest[r])'
    <3>1. /\ Shape(kycRequest[r])' /\ Submits(kycRequest[r])' /\ Brings(r, kycRequest[r])'
      BY <2>1, <2>2 DEF RequestOK, Shape, Submits, Brings
    <3>2. Tidies(r, kycRequest[r])'
      <4>1. \A t \in Replaced(q) : t = t0 /\ q.seen[t].file # NoWriter
        BY <2>1, <2>2, <2>3, RowFacts DEF Replaced
      <4>2. document'[i0][t0].file = NoWriter
        BY <2>2, <2>3, <2>5, RowFacts
      <4> QED BY <2>1, <4>1, <4>2 DEF Tidies, Replaced, i0
    <3>3. \A t \in Types : Owned(kycRequest[r].seen[t].file, kycRequest[r].applicant, t)'
      BY <2>1, <2>2, <2>11 DEF RequestOK
    <3> QED BY <1>1, <2>1, <2>2, <2>3, <3>1, <3>2, <3>3 DEF RequestOK
  <2> QED BY <1>1, <2>1, <2>6, <2>7, <2>8, <2>9, <2>10, <2>11, <2>12, <2>13, <2>14, WritingKeeps
<1> QED BY <1>2, <1>3 DEF DeleteRow

(* What a request writes in a row: its own new file, or the file it found. *)
LEMMA WrittenRow ==
  ASSUME KycInv, NEW r \in KycRequests, NEW t \in Changed(kycRequest[r]),
         Mine(r)[t].row = Expected(kycRequest[r])[t].row
  PROVE  /\ RowAfter(r, t) \in Rows /\ RowAfter(r, t) # NoDocument /\ t \in Types
         /\ t \in kycRequest[r].files => RowAfter(r, t).file = r
         /\ t \notin kycRequest[r].files =>
              /\ Mine(r)[t] # NoDocument /\ t \in kycRequest[r].types
              /\ \/ RowAfter(r, t).file = Mine(r)[t].file
                 \/ kycRequest[r].op = "update" /\ Mine(r)[t].file # kycRequest[r].seen[t].file
<1> DEFINE p == kycRequest[r]
           old == Expected(p)[t]
           row == IF old = NoDocument THEN r ELSE old.row
           file == IF t \in p.files THEN r
                   ELSE IF p.op = "update" THEN p.seen[t].file ELSE Mine(r)[t].file
<1>1. /\ p.seen \in [Types -> Rows] /\ p.found \in [Types -> Rows] /\ Mine(r) \in [Types -> Rows]
      /\ p.types \in SUBSET Types /\ p.number \in KycNumbers \cup {NoNumber}
  BY RequestFacts
<1>2. t \in Types /\ t \in p.types /\ (t \in p.files \/ old # NoDocument)
  BY <1>1 DEF Changed
<1>3. old \in Rows
  BY <1>1, <1>2 DEF Expected
<1>4. row \in Writers /\ row # NoWriter
  BY <1>3, RowFacts DEF Writers
<1>5. ASSUME t \notin p.files PROVE old # NoDocument /\ Mine(r)[t] # NoDocument
  <2>1. old # NoDocument
    BY <1>2, <1>5
  <2>2. old.row # NoWriter
    BY <1>3, <2>1, RowFacts
  <2> QED BY <2>1, <2>2, RowFacts
<1>6. file \in Writers
  <2>1. CASE t \in p.files
    BY <2>1 DEF Writers
  <2>2. CASE t \notin p.files /\ p.op = "update"
    <3>1. old = p.seen[t]
      BY <2>2 DEF Expected
    <3> QED BY <1>3, <1>5, <2>2, <3>1, RowFacts
  <2>3. CASE t \notin p.files /\ p.op # "update"
    BY <1>1, <1>2, <1>5, <2>3, RowFacts
  <2> QED BY <2>1, <2>2, <2>3
<1>7. RowAfter(r, t) = [row |-> row, number |-> p.number, file |-> file]
  BY DEF RowAfter
<1>8. ASSUME t \notin p.files
      PROVE  file = Mine(r)[t].file \/ (p.op = "update" /\ Mine(r)[t].file # p.seen[t].file)
  BY <1>8
<1>9. t \in p.files => file = r
  OBVIOUS
<1> HIDE DEF row, file, old, p
<1>10. RowAfter(r, t).row = row /\ RowAfter(r, t).file = file
  BY <1>7
<1>11. RowAfter(r, t) \in Rows
  BY <1>1, <1>4, <1>6, <1>7 DEF Rows
<1>12. RowAfter(r, t) # NoDocument
  BY <1>4, <1>10, RowFacts
<1> QED BY <1>2, <1>5, <1>8, <1>9, <1>10, <1>11, <1>12 DEF p

LEMMA WriteRowsKeeps ==
  ASSUME KycInv, NEW r \in KycRequests, WriteRows(r)
  PROVE  KycInv'
<1> DEFINE p == kycRequest[r]
           i0 == p.applicant
           stale == {t \in p.types \ p.files : p.op = "update" /\ Mine(r)[t].file # p.seen[t].file}
<1>1. UNCHANGED <<kyc, bucket>> /\ p.at = "Write" /\ p.op \notin {"create", "delete", "submit"}
  BY DEF WriteRows
<1>2. CASE Refused(r) /\ UNCHANGED <<document, overtaken>>
  BY <1>1, <1>2, RefusedKeeps
<1>3. ASSUME \A t \in Changed(p) : Mine(r)[t].row = Expected(p)[t].row,
             document' = RowsAfter(r), overtaken' = overtaken \cup ({i0} \X stale), MoveKyc(r, "Tidy")
      PROVE  KycInv'
  <2>1. PICK q \in KycRequestType :
             /\ kycRequest' = [kycRequest EXCEPT ![r] = q] /\ kycRequest'[r] = q
             /\ \A s \in KycRequests \ {r} : kycRequest'[s] = kycRequest[s]
             /\ q.at = "Tidy" /\ q.op = p.op /\ q.types = p.types /\ q.files = p.files
             /\ q.applicant = p.applicant /\ q.seen = p.seen /\ q.late = p.late
    BY <1>3, PlaceFacts DEF KycPlaces
  <2>2. RequestOK(r, p) /\ i0 \in Applicants /\ p.types \in SUBSET Types /\ p.files \in SUBSET Types
    BY RequestFacts
  <2>3. document \in [Applicants -> [Types -> Rows]] /\ overtaken \subseteq Applicants \X Types
    BY DEF KycInv, KycRowsOK
  <2>4. \A t \in Changed(p) :
          /\ RowAfter(r, t) \in Rows /\ RowAfter(r, t) # NoDocument /\ t \in Types
          /\ t \in p.files => RowAfter(r, t).file = r
          /\ t \notin p.files =>
               /\ Present(i0, t)
               /\ RowAfter(r, t).file = document[i0][t].file \/ <<i0, t>> \in overtaken'
    <3> TAKE t \in Changed(p)
    <3>1. Mine(r)[t] = document[i0][t]
      BY DEF Mine
    <3>2. /\ RowAfter(r, t) \in Rows /\ RowAfter(r, t) # NoDocument /\ t \in Types
          /\ t \in p.files => RowAfter(r, t).file = r
          /\ t \notin p.files =>
               /\ Mine(r)[t] # NoDocument /\ t \in p.types
               /\ \/ RowAfter(r, t).file = Mine(r)[t].file
                  \/ p.op = "update" /\ Mine(r)[t].file # p.seen[t].file
      BY <1>3, WrittenRow
    <3>3. \A u \in stale : <<i0, u>> \in overtaken'
      BY <1>3
    <3> QED BY <3>1, <3>2, <3>3 DEF Present
  <2>5. \A i \in Applicants, t \in Types :
          document'[i][t] = IF i = i0 /\ t \in Changed(p) THEN RowAfter(r, t) ELSE document[i][t]
    BY <1>3, <2>2, <2>3 DEF RowsAfter
  <2>6. overtaken \subseteq overtaken'
    BY <1>3
  <2>7. KycRowsOK'
    <3>1. document' \in [Applicants -> [Types -> Rows]]
      <4>1. document' = [document EXCEPT ![i0] = [t \in Types |->
               IF t \in Changed(p) THEN RowAfter(r, t) ELSE document[i0][t]]]
        BY <1>3, <2>2, <2>3 DEF RowsAfter
      <4>2. [t \in Types |-> IF t \in Changed(p) THEN RowAfter(r, t) ELSE document[i0][t]]
              \in [Types -> Rows]
        BY <2>2, <2>3, <2>4
      <4> QED BY <2>3, <4>1, <4>2
    <3>2. overtaken' \subseteq Applicants \X Types
      BY <1>3, <2>2, <2>3
    <3> QED BY <1>1, <3>1, <3>2 DEF KycInv, KycRowsOK
  <2> HIDE DEF p, i0, stale
  <2>8. \A i \in Applicants, t \in Types : Safe(i, t) => Safe(i, t)'
    BY <2>4, <2>5, <2>6 DEF Safe, Present
  <2>9. SubmittedIsComplete'
    BY <1>1, <2>8 DEF KycInv, SubmittedIsComplete, Safe
  (* Each row is as it was, has the new file, keeps its file, or is overtaken. *)
  <2>10. ASSUME NEW i \in Applicants, NEW t \in Types
         PROVE  \/ document'[i][t] = document[i][t]
                \/ i = i0 /\ t \in p.files /\ document'[i][t].file = r
                \/ Present(i, t) /\ document'[i][t].file = document[i][t].file
                \/ <<i, t>> \in overtaken'
    BY <2>4, <2>5
  <2>11. Brings(r, p)
    BY <2>2 DEF RequestOK
  <2>12. StoredFilesExist'
    <3> SUFFICES ASSUME NEW i \in Applicants, NEW t \in Types, Present(i, t)'
                 PROVE  document'[i][t].file \in bucket'[i][t] \/ <<i, t>> \in overtaken'
      BY DEF StoredFilesExist
    <3>1. CASE document'[i][t] = document[i][t]
      BY <1>1, <2>6, <3>1 DEF KycInv, StoredFilesExist, Present
    <3>2. CASE i = i0 /\ t \in p.files /\ document'[i][t].file = r
      BY <1>1, <2>6, <2>11, <3>2 DEF Brings, i0
    <3>3. CASE Present(i, t) /\ document'[i][t].file = document[i][t].file
      BY <1>1, <2>6, <3>3 DEF KycInv, StoredFilesExist
    <3> QED BY <2>10, <3>1, <3>2, <3>3
  <2>13. \A w, i, t : Owned(w, i, t) => Owned(w, i, t)'
    BY <1>1, <2>1, <2>6, OwnedStays DEF p
  <2>14. \A i \in Applicants, t \in Types : Owned(document[i][t].file, i, t)'
    <3> SUFFICES ASSUME NEW i \in Applicants, NEW t \in Types PROVE Owned(document[i][t].file, i, t)'
      OBVIOUS
    <3>1. Owned(document[i][t].file, i, t)
      BY DEF KycInv
    <3>2. CASE document'[i][t].file = document[i][t].file
      BY <2>13, <3>1, <3>2
    <3>3. CASE i = i0 /\ t \in p.files /\ document'[i][t].file = r
      BY <2>1, <3>3 DEF Owned, i0
    <3>4. CASE <<i, t>> \in overtaken'
      BY <3>4 DEF Owned
    <3> QED BY <2>10, <3>2, <3>3, <3>4
  <2>15. ASSUME NEW s \in KycRequests \ {r}
         PROVE  /\ Brings(s, kycRequest[s]) => Brings(s, kycRequest[s])'
                /\ Tidies(s, kycRequest[s]) => Tidies(s, kycRequest[s])'
    <3> DEFINE k == kycRequest[s]
    <3>1. kycRequest'[s] = k
      BY <2>1
    <3>2. /\ k.applicant \in Applicants /\ k.types \in SUBSET Types /\ RequestOK(s, k)
      BY RequestFacts
    <3>3. ASSUME Tidies(s, k), k.at = "Tidy", NEW t \in Replaced(k)
          PROVE  \/ k.seen[t].file = s \/ document'[k.applicant][t].file # k.seen[t].file
                 \/ <<k.applicant, t>> \in overtaken'
      <4>1. t \in Types /\ Owned(k.seen[t].file, k.applicant, t)
        BY <3>2 DEF Replaced, RequestOK
      <4>2. \/ k.seen[t].file = s \/ document[k.applicant][t].file # k.seen[t].file
            \/ <<k.applicant, t>> \in overtaken
        BY <3>3 DEF Tidies
      <4>3. CASE document'[k.applicant][t].file = document[k.applicant][t].file
        BY <2>6, <4>2, <4>3
      <4>4. CASE document'[k.applicant][t].file = r
        <5>1. k.seen[t].file = r => <<k.applicant, t>> \in overtaken
          BY <1>1, <4>1 DEF Owned, p
        <5> QED BY <2>6, <4>4, <5>1
      <4> QED BY <2>10, <3>2, <4>1, <4>3, <4>4
    <3>4. Tidies(s, kycRequest[s]) => Tidies(s, kycRequest[s])'
      BY <3>1, <3>3 DEF Tidies, Replaced
    <3>5. Brings(s, kycRequest[s]) => Brings(s, kycRequest[s])'
      BY <1>1, <2>6, <3>1 DEF Brings
    <3> QED BY <3>4, <3>5
  <2>16. RequestOK(r, kycRequest[r])'
    <3>1. /\ Shape(kycRequest[r])' /\ Submits(kycRequest[r])' /\ Brings(r, kycRequest[r])'
      BY <1>1, <2>1, <2>2 DEF RequestOK, Shape, Submits, Brings
    <3>2. Tidies(r, kycRequest[r])'
      <4>1. \A t \in Replaced(q) : t \in p.types /\ t \in p.files /\ t \in Types
        BY <1>1, <2>1, <2>2 DEF Replaced, p
      <4>2. \A t \in Replaced(q) : t \in Changed(p)
        BY <4>1 DEF Changed
      <4>3. \A t \in Replaced(q) : document'[i0][t].file = r
        <5> TAKE t \in Replaced(q)
        <5>1. i0 \in Applicants /\ t \in Types /\ t \in Changed(p) /\ t \in p.files
          BY <2>2, <4>1, <4>2
        <5>2. document'[i0][t] = RowAfter(r, t)
          BY <2>5, <5>1
        <5>3. RowAfter(r, t).file = r
          BY <2>4, <5>1
        <5> QED BY <5>2, <5>3
      <4> QED BY <2>1, <4>3 DEF Tidies, Replaced, i0
    <3>3. \A t \in Types : Owned(kycRequest[r].seen[t].file, kycRequest[r].applicant, t)'
      BY <2>1, <2>2, <2>13 DEF RequestOK
    <3>4. q.late => kyc'[q.applicant] = "UNDER_REVIEW"
      BY <1>1, <2>1, <2>2 DEF RequestOK
    <3> QED BY <2>1, <3>1, <3>2, <3>3, <3>4 DEF RequestOK
  <2> QED BY <1>1, <2>1, <2>6, <2>7, <2>8, <2>9, <2>12, <2>13, <2>14, <2>15, <2>16, WritingKeeps
<1> QED BY <1>2, <1>3 DEF WriteRows

(* The files that are deleted belong to no row and to no unfinished request. *)
LEMMA DeleteOldFilesKeeps ==
  ASSUME KycInv, NEW r \in KycRequests, DeleteOldFiles(r)
  PROVE  KycInv'
<1> DEFINE p == kycRequest[r]
           i0 == p.applicant
<1>1. UNCHANGED <<kyc, document, overtaken>> /\ p.at = "Tidy" /\ MoveKyc(r, "Answer")
  BY DEF DeleteOldFiles
<1>2. PICK deleted \in SUBSET Replaced(p) :
        bucket' = [bucket EXCEPT ![i0] = [t \in Types |->
            IF t \in deleted /\ p.seen[t].file # r THEN @[t] \ {p.seen[t].file} ELSE @[t]]]
  BY DEF DeleteOldFiles
<1>3. PICK q \in KycRequestType :
           /\ kycRequest' = [kycRequest EXCEPT ![r] = q] /\ kycRequest'[r] = q
           /\ \A s \in KycRequests \ {r} : kycRequest'[s] = kycRequest[s]
           /\ q.at = "Answer" /\ q.op = p.op /\ q.types = p.types /\ q.files = p.files
           /\ q.applicant = p.applicant /\ q.seen = p.seen /\ q.late = p.late
  BY <1>1, PlaceFacts DEF KycPlaces
<1>4. RequestOK(r, p) /\ i0 \in Applicants
  BY RequestFacts
<1>5. bucket \in [Applicants -> [Types -> SUBSET Writers]]
  BY DEF KycInv, KycRowsOK
<1>6. \A i \in Applicants, t \in Types :
        bucket'[i][t] = IF i = i0 /\ t \in deleted /\ p.seen[t].file # r
                        THEN bucket[i][t] \ {p.seen[t].file} ELSE bucket[i][t]
  BY <1>2, <1>4, <1>5
<1>7. KycRowsOK'
  <2>1. bucket' \in [Applicants -> [Types -> SUBSET Writers]]
    BY <1>2, <1>4, <1>5
  <2> QED BY <1>1, <2>1 DEF KycInv, KycRowsOK
<1>8. StoredFilesExist'
  <2> SUFFICES ASSUME NEW i \in Applicants, NEW t \in Types, Present(i, t)'
               PROVE  document'[i][t].file \in bucket'[i][t] \/ <<i, t>> \in overtaken'
    BY DEF StoredFilesExist
  <2>1. document[i][t].file \in bucket[i][t] \/ <<i, t>> \in overtaken
    BY <1>1 DEF KycInv, StoredFilesExist, Present
  <2>2. CASE i = i0 /\ t \in deleted /\ p.seen[t].file # r
    <3>1. document[i][t].file # p.seen[t].file \/ <<i, t>> \in overtaken
      BY <1>1, <1>2, <1>4, <2>2 DEF RequestOK, Tidies
    <3> QED BY <1>1, <1>6, <2>1, <3>1
  <2>3. CASE ~(i = i0 /\ t \in deleted /\ p.seen[t].file # r)
    BY <1>1, <1>6, <2>1, <2>3
  <2> QED BY <2>2, <2>3
<1>9. SubmittedIsComplete'
  BY <1>1 DEF KycInv, SubmittedIsComplete, Present
<1>10. \A w, i, t : Owned(w, i, t) => Owned(w, i, t)'
  BY <1>1, <1>3, OwnedStays
<1>11. \A i \in Applicants, t \in Types : Owned(document[i][t].file, i, t)'
  BY <1>1, <1>10 DEF KycInv
<1>12. \A i \in Applicants, t \in Types : Submitting(i) /\ Safe(i, t) => Safe(i, t)'
  BY <1>1 DEF Safe, Present
<1>13. ASSUME NEW s \in KycRequests \ {r}
       PROVE  /\ Brings(s, kycRequest[s]) => Brings(s, kycRequest[s])'
              /\ Tidies(s, kycRequest[s]) => Tidies(s, kycRequest[s])'
  <2> DEFINE k == kycRequest[s]
  <2>1. k.applicant \in Applicants /\ k.files \in SUBSET Types
    BY RequestFacts
  <2>2. kycRequest'[s] = k
    BY <1>3
  <2>3. Tidies(s, kycRequest[s]) => Tidies(s, kycRequest[s])'
    BY <1>1, <2>2 DEF Tidies, Replaced
  <2>4. ASSUME k.at \in {"Status", "Rows", "Video", "Number", "Upsert", "Write"}, NEW t \in k.files,
               s \in bucket[k.applicant][t]
        PROVE  s \in bucket'[k.applicant][t] \/ <<k.applicant, t>> \in overtaken
    <3>1. t \in Types /\ Owned(p.seen[t].file, i0, t)
      BY <1>4, <2>1 DEF RequestOK
    <3>2. p.seen[t].file = s /\ k.applicant = i0 => <<k.applicant, t>> \in overtaken
      BY <2>4, <3>1 DEF Owned
    <3> QED BY <1>6, <2>1, <2>4, <3>1, <3>2
  <2>5. Brings(s, kycRequest[s]) => Brings(s, kycRequest[s])'
    BY <1>1, <2>2, <2>4 DEF Brings
  <2> QED BY <2>3, <2>5
<1>14. RequestOK(r, kycRequest[r])'
  <2>1. /\ Shape(kycRequest[r])' /\ Submits(kycRequest[r])' /\ Brings(r, kycRequest[r])'
        /\ Tidies(r, kycRequest[r])'
    BY <1>3, <1>4 DEF RequestOK, Shape, Submits, Brings, Tidies
  <2>2. \A t \in Types : Owned(kycRequest[r].seen[t].file, kycRequest[r].applicant, t)'
    BY <1>3, <1>4, <1>10 DEF RequestOK
  <2>3. q.late => kyc'[q.applicant] = "UNDER_REVIEW"
    BY <1>1, <1>3, <1>4 DEF RequestOK
  <2> QED BY <1>3, <2>1, <2>2, <2>3 DEF RequestOK
<1> QED BY <1>1, <1>3, <1>7, <1>8, <1>9, <1>10, <1>11, <1>12, <1>13, <1>14, WritingKeeps

(* A request that is delivered again has its documents counted as overtaken. *)
LEMMA RedeliverKeeps ==
  ASSUME KycInv, NEW r \in KycRequests, Redeliver(r)
  PROVE  KycInv'
<1> DEFINE p == kycRequest[r]
           i0 == p.applicant
           number == IF p.given THEN p.number ELSE NoNumber
           q == [p EXCEPT !.at = "Status", !.again = TRUE, !.number = number]
<1>1. /\ UNCHANGED <<kyc, document, bucket>> /\ p.at \in {"Tidy", "Answer"}
      /\ overtaken' = overtaken \cup ({i0} \X p.files)
  BY DEF Redeliver
<1>2. /\ p \in KycRequestType /\ RequestOK(r, p) /\ i0 \in Applicants /\ p.files \in SUBSET Types
      /\ p.number \in KycNumbers \cup {NoNumber}
  BY RequestFacts
<1>3. q \in KycRequestType
  BY <1>2 DEF KycRequestType, KycPlaces
<1>4. /\ q.at = "Status" /\ q.op = p.op /\ q.types = p.types /\ q.files = p.files
      /\ q.applicant = p.applicant /\ q.seen = p.seen /\ q.late = p.late
  BY <1>2 DEF KycRequestType
<1>5. kycRequest' = [kycRequest EXCEPT ![r] = q] /\ kycRequest'[r] = q
      /\ \A s \in KycRequests \ {r} : kycRequest'[s] = kycRequest[s]
  BY DEF Redeliver, KycInv
<1> HIDE DEF q, number
<1>6. overtaken \subseteq overtaken' /\ \A t \in p.files : <<i0, t>> \in overtaken'
  BY <1>1
<1>7. KycRowsOK'
  <2>1. overtaken' \subseteq Applicants \X Types
    BY <1>1, <1>2 DEF KycInv, KycRowsOK
  <2> QED BY <1>1, <2>1 DEF KycInv, KycRowsOK
<1>8. SubmittedIsComplete' /\ StoredFilesExist'
  BY <1>1, <1>6 DEF KycInv, SubmittedIsComplete, StoredFilesExist, Present
<1>9. \A w, i, t : Owned(w, i, t) => Owned(w, i, t)'
  BY <1>1, <1>5, <1>6, OwnedStays
<1>10. \A i \in Applicants, t \in Types : Owned(document[i][t].file, i, t)'
  BY <1>1, <1>9 DEF KycInv
<1>11. \A i \in Applicants, t \in Types : Submitting(i) /\ Safe(i, t) => Safe(i, t)'
  BY <1>1, <1>6 DEF Safe, Present
<1>12. ASSUME NEW s \in KycRequests \ {r}
       PROVE  /\ Brings(s, kycRequest[s]) => Brings(s, kycRequest[s])'
              /\ Tidies(s, kycRequest[s]) => Tidies(s, kycRequest[s])'
  <2>1. kycRequest'[s] = kycRequest[s]
    BY <1>5
  <2>2. Tidies(s, kycRequest[s]) => Tidies(s, kycRequest[s])'
    BY <1>1, <1>6, <2>1 DEF Tidies, Replaced
  <2>3. Brings(s, kycRequest[s]) => Brings(s, kycRequest[s])'
    BY <1>1, <1>6, <2>1 DEF Brings
  <2> QED BY <2>2, <2>3
<1>13. RequestOK(r, kycRequest[r])'
  <2>1. /\ Shape(kycRequest[r])' /\ Submits(kycRequest[r])' /\ Tidies(r, kycRequest[r])'
    BY <1>2, <1>4, <1>5 DEF RequestOK, Shape, Submits, Tidies
  <2>2. Brings(r, kycRequest[r])'
    BY <1>4, <1>5, <1>6 DEF Brings
  <2>3. \A t \in Types : Owned(kycRequest[r].seen[t].file, kycRequest[r].applicant, t)'
    BY <1>2, <1>4, <1>5, <1>9 DEF RequestOK
  <2>4. q.late => kyc'[q.applicant] = "UNDER_REVIEW"
    BY <1>1, <1>2, <1>4 DEF RequestOK
  <2> QED BY <1>3, <1>5, <2>1, <2>2, <2>3, <2>4 DEF RequestOK
<1> QED BY <1>1, <1>5, <1>6, <1>7, <1>8, <1>9, <1>10, <1>11, <1>12, <1>13, WritingKeeps

(* The checks that only decide where a request goes on. *)
LEMMA ChecksKeep ==
  ASSUME KycInv, NEW r \in KycRequests, CheckStatus(r) \/ FindApplication(r) \/ CheckNumber(r)
  PROVE  KycInv'
<1>1. UNCHANGED <<kyc, document, bucket, overtaken>> /\ kycRequest[r].at \in {"Status", "Number"}
  BY DEF CheckStatus, FindApplication, CheckNumber
<1>2. RequestOK(r, kycRequest[r])
  BY RequestFacts
<1>3. CASE Refused(r)
  BY <1>1, <1>3, RefusedKeeps
<1>4. CASE CheckStatus(r) /\ ~Refused(r)
  <2>1. MoveKyc(r, "Rows") /\ kycRequest[r].op \notin {"create", "delete"}
    BY <1>4 DEF CheckStatus
  <2> QED BY <1>1, <2>1, PlaceChanges
<1>5. CASE FindApplication(r)
  <2>1. PICK at \in {"Write", "Answer"} : MoveKyc(r, at)
    BY <1>5 DEF FindApplication
  <2>2. kycRequest[r].op = "create"
    BY <1>5 DEF FindApplication
  <2> QED BY <1>1, <2>1, <2>2, PlaceChanges
<1>6. CASE CheckNumber(r) /\ ~Refused(r)
  <2>1. PICK at \in {"Upsert", "Write"} : MoveKyc(r, at)
    BY <1>6 DEF CheckNumber
  <2>2. kycRequest[r].at = "Number"
    BY <1>6 DEF CheckNumber
  <2>3. kycRequest[r].op \notin {"create", "delete", "submit"}
    BY <1>2, <2>2 DEF RequestOK, Shape
  <2> QED BY <1>1, <2>1, <2>3, PlaceChanges
<1> QED BY <1>3, <1>4, <1>5, <1>6

LEMMA AsksKeep ==
  ASSUME KycInv, NEW r \in KycRequests, NEW i \in Applicants,
         \/ AskCreate(r, i) \/ AskSubmit(r, i) \/ AskUploadVideo(r, i)
         \/ AskUploadAadhaar(r, i) \/ AskUploadDocument(r, i)
         \/ AskUpdateDocument(r, i) \/ AskUpdateAadhaar(r, i)
  PROVE  KycInv'
<1>1. \E op \in Operations \ {"delete"}, types \in SUBSET Types :
        \E files \in SUBSET types, number \in KycNumbers \cup {NoNumber} :
          Ask(r, op, i, types, files, number) /\ (op = "update" => types # {})
  <2>1. CASE AskCreate(r, i) \/ AskSubmit(r, i) \/ AskUploadVideo(r, i)
    BY <2>1 DEF AskCreate, AskSubmit, AskUploadVideo, Operations, Types
  <2>2. CASE AskUploadAadhaar(r, i)
    BY <2>2 DEF AskUploadAadhaar, Operations, Types
  <2>3. CASE AskUploadDocument(r, i)
    <3>1. PICK t \in ManualTypes, n \in KycNumbers \cup {NoNumber} : Ask(r, "upload", i, {t}, {t}, n)
      BY <2>3 DEF AskUploadDocument
    <3> QED BY <3>1 DEF Operations, Types
  <2>4. CASE AskUpdateDocument(r, i)
    <3>1. PICK t \in ManualTypes, n \in KycNumbers \cup {NoNumber} :
            \E files \in SUBSET {t} : Ask(r, "update", i, {t}, files, n)
      BY <2>4 DEF AskUpdateDocument
    <3>2. {t} \in SUBSET Types /\ {t} # {}
      BY DEF Types
    <3> QED BY <3>1, <3>2 DEF Operations
  <2>5. CASE AskUpdateAadhaar(r, i)
    <3>1. PICK n \in KycNumbers \cup {NoNumber}, files \in SUBSET Sides :
            Ask(r, "updateAadhaar", i, Sides, files, n)
      BY <2>5 DEF AskUpdateAadhaar
    <3>2. Sides \in SUBSET Types
      BY DEF Types
    <3> QED BY <3>1, <3>2 DEF Operations
  <2> QED BY <2>1, <2>2, <2>3, <2>4, <2>5
<1> QED BY <1>1, AskKeeps

LEMMA KycStep == KycInv /\ [KycNext]_kycVars => KycInv'
<1> SUFFICES ASSUME KycInv, [KycNext]_kycVars PROVE KycInv'
  OBVIOUS
<1>1. CASE UNCHANGED kycVars
  BY <1>1 DEF KycInv, KycRowsOK, SubmittedIsComplete, StoredFilesExist, Present, Owned, RequestOK,
     Shape, Submits, Safe, Brings, Tidies, Replaced, kycVars
<1>2. CASE KycNext
  <2>1. PICK r \in KycRequests :
    \/ \E i \in Applicants :
         \/ AskCreate(r, i) \/ AskSubmit(r, i) \/ AskUploadVideo(r, i)
         \/ AskUploadAadhaar(r, i) \/ AskUploadDocument(r, i)
         \/ AskUpdateDocument(r, i) \/ AskUpdateAadhaar(r, i) \/ AskDelete(r, i)
    \/ StoreFiles(r) \/ CleanUp(r)
    \/ CheckStatus(r) \/ FindApplication(r) \/ FindById(r) \/ ReadRows(r) \/ CheckNumber(r)
    \/ ReadDocuments(r) \/ ReadVideo(r)
    \/ CreateApplication(r) \/ SubmitApplication(r) \/ DeleteRow(r)
    \/ UpsertRead(r) \/ WriteRows(r) \/ DeleteOldFiles(r) \/ AnswerRequest(r) \/ Redeliver(r)
    BY <1>2 DEF KycNext
  <2>2. CASE \E i \in Applicants :
         \/ AskCreate(r, i) \/ AskSubmit(r, i) \/ AskUploadVideo(r, i)
         \/ AskUploadAadhaar(r, i) \/ AskUploadDocument(r, i)
         \/ AskUpdateDocument(r, i) \/ AskUpdateAadhaar(r, i) \/ AskDelete(r, i)
    BY <2>2, AsksKeep, AskDeleteKeeps
  <2>3. CASE StoreFiles(r)
    BY <2>3, StoreFilesKeeps
  <2>4. CASE CleanUp(r)
    BY <2>4, CleanUpKeeps
  <2>5. CASE CheckStatus(r) \/ FindApplication(r) \/ CheckNumber(r)
    BY <2>5, ChecksKeep
  <2>6. CASE FindById(r)
    BY <2>6, FindByIdKeeps
  <2>7. CASE ReadRows(r)
    BY <2>7, ReadRowsKeeps
  <2>8. CASE ReadDocuments(r) \/ ReadVideo(r)
    BY <2>8, SubmitChecksKeep
  <2>9. CASE CreateApplication(r) \/ SubmitApplication(r)
    BY <2>9, StatusKeeps
  <2>10. CASE DeleteRow(r)
    BY <2>10, DeleteRowKeeps
  <2>11. CASE UpsertRead(r)
    BY <2>11, UpsertReadKeeps
  <2>12. CASE WriteRows(r)
    BY <2>12, WriteRowsKeeps
  <2>13. CASE DeleteOldFiles(r)
    BY <2>13, DeleteOldFilesKeeps
  <2>14. CASE AnswerRequest(r)
    BY <2>14, AnswerKeeps
  <2>15. CASE Redeliver(r)
    BY <2>15, RedeliverKeeps
  <2> QED BY <2>1, <2>2, <2>3, <2>4, <2>5, <2>6, <2>7, <2>8, <2>9, <2>10, <2>11, <2>12, <2>13,
     <2>14, <2>15
<1> QED BY <1>1, <1>2

LEMMA KycInvariant == KycSpec => []KycInv
  BY KycInitially, KycStep, PTL DEF KycSpec

(* Applications, rows, files and requests keep their types.                *)
THEOREM KycTypeCorrect == KycSpec => []KycTypeOK
<1>1. KycInv => KycTypeOK
  BY KycTypes DEF KycInv
<1> QED BY <1>1, KycInvariant, PTL

(* An application under review has all its documents, for any applicants,  *)
(* requests and types of document, but those whose deletion had passed its *)
(* check (KycService.deleteDocument) before submitKyc looked at them.      *)
THEOREM SubmittedHasAll == KycSpec => []SubmittedIsComplete
<1>1. KycInv => SubmittedIsComplete
  BY DEF KycInv
<1> QED BY <1>1, KycInvariant, PTL

(* No row outlives its file: neither the gateway's clean-up of a request   *)
(* that failed nor the kyc-service's deletion of what it replaced takes a  *)
(* file that a row names, but where requests for one document crossed.     *)
THEOREM FilesAreKept == KycSpec => []StoredFilesExist
<1>1. KycInv => StoredFilesExist
  BY DEF KycInv
<1> QED BY <1>1, KycInvariant, PTL
=============================================================================
