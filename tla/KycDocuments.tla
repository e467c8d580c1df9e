---------------------------- MODULE KycDocuments ----------------------------
(* The documents of a KYC application: rows of the kyc-service's database, *)
(* files in the bucket, and the requests that keep the two together.  The  *)
(* gateway puts the new files in the bucket and calls the kyc-service,     *)
(* which checks and writes outside a transaction and then deletes the      *)
(* files it replaced; when the call fails the gateway deletes its own.     *)
EXTENDS Naturals, FiniteSets

CONSTANTS
  Applicants,    \* identities with a KYC application
  KycRequests,   \* requests; each is served once
  KycNumbers,    \* PAN and Aadhaar numbers
  NoNumber,
  PlainTypes,    \* the types without a checked number: signature, shop front...
  Earlier,       \* whoever wrote the rows and files there are at the start
  NoWriter

ASSUME KycAssumption ==
  /\ NoNumber \notin KycNumbers /\ Applicants # {}
  /\ {Earlier, NoWriter} \cap KycRequests = {} /\ Earlier # NoWriter

VARIABLES
  kyc,         \* the status of each application, "none" without one
  document,    \* the row of each type, the video's included
  bucket,      \* the stored files of each type, by who stored them
  kycRequest,  \* what each request does next
  overtaken    \* the documents of requests that crossed another or were redelivered

kycVars == <<kyc, document, bucket, kycRequest, overtaken>>

Sides == {"AADHAAR_FRONT", "AADHAAR_BACK"}
ManualTypes == {"PAN_CARD"} \cup PlainTypes
Types == ManualTypes \cup Sides \cup {"VIDEO"}

Writers == KycRequests \cup {Earlier}
NoDocument == [row |-> NoWriter, number |-> NoNumber, file |-> NoWriter]
Rows == {NoDocument} \cup [row: Writers, number: KycNumbers \cup {NoNumber}, file: Writers]

(* "files": the types that the request brings a new file of; "late": it was *)
(* made after the submission; "seen": the rows it has read; "found": those  *)
(* that the upsert read in its transaction.                                *)
Operations ==
  {"create", "upload", "uploadAadhaar", "uploadVideo", "update", "updateAadhaar",
   "delete", "submit"}
NothingSeen == [t \in Types |-> NoDocument]
NewKycRequest ==
  [at |-> "Idle", op |-> "create", applicant |-> CHOOSE i \in Applicants : TRUE,
   types |-> {}, files |-> {}, late |-> FALSE, number |-> NoNumber, given |-> FALSE, again |-> FALSE,
   seen |-> NothingSeen, found |-> NothingSeen]

KycTypeOK ==
  /\ kyc \in [Applicants -> {"none", "PENDING", "UNDER_REVIEW"}]
  /\ document \in [Applicants -> [Types -> Rows]]
  /\ bucket \in [Applicants -> [Types -> SUBSET Writers]]
  /\ overtaken \subseteq Applicants \X Types
  /\ kycRequest \in [KycRequests ->
       [at: {"Idle", "Store", "Status", "Rows", "Video", "Number", "Upsert", "Write", "Tidy",
             "Answer", "Clean", "Done"},
        op: Operations, applicant: Applicants, types: SUBSET Types, files: SUBSET Types,
        late: BOOLEAN, number: KycNumbers \cup {NoNumber}, given: BOOLEAN, again: BOOLEAN,
        seen: [Types -> Rows], found: [Types -> Rows]]]

(* An applicant has no application, an empty one, or one with documents    *)
(* that earlier requests stored; their numbers differ.                     *)
KycInit ==
  /\ kyc \in [Applicants -> {"none", "PENDING"}]
  /\ \E own \in [Applicants -> KycNumbers], full \in SUBSET Applicants :
       /\ \A i, j \in full : own[i] = own[j] => i = j
       /\ \A i \in full : kyc[i] = "PENDING"
       /\ document = [i \in Applicants |-> [t \in Types |->
            IF i \notin full THEN NoDocument
            ELSE [row |-> Earlier, file |-> Earlier,
                  number |-> IF t \in {"PAN_CARD"} \cup Sides THEN own[i] ELSE NoNumber]]]
       /\ bucket = [i \in Applicants |-> [t \in Types |->
            IF i \in full THEN {Earlier} ELSE {}]]
  /\ kycRequest = [r \in KycRequests |-> NewKycRequest]
  /\ overtaken = {}

Present(i, t) == document[i][t] # NoDocument
Mine(r) == document[kycRequest[r].applicant]

-----------------------------------------------------------------------------
(* The gateway: requests, and the files they bring. *)

Ask(r, op, i, types, files, number) ==
  /\ kycRequest[r].at = "Idle"
  /\ kycRequest' = [kycRequest EXCEPT ![r] =
       [NewKycRequest EXCEPT !.at = IF files = {} THEN "Status" ELSE "Store", !.op = op,
          !.applicant = i, !.types = types, !.files = files, !.number = number,
          !.given = number # NoNumber]]
  /\ UNCHANGED <<kyc, document, bucket, overtaken>>

AskCreate(r, i) == Ask(r, "create", i, {}, {}, NoNumber)
AskSubmit(r, i) == Ask(r, "submit", i, {}, {}, NoNumber)
AskUploadVideo(r, i) == Ask(r, "uploadVideo", i, {"VIDEO"}, {"VIDEO"}, NoNumber)
AskUploadAadhaar(r, i) == \E n \in KycNumbers : Ask(r, "uploadAadhaar", i, Sides, Sides, n)

AskUploadDocument(r, i) ==
  \E t \in ManualTypes :
    \E n \in IF t = "PAN_CARD" THEN KycNumbers ELSE {NoNumber} :
      Ask(r, "upload", i, {t}, {t}, n)

AskUpdateDocument(r, i) ==
  \E t \in ManualTypes, n \in KycNumbers \cup {NoNumber} :
    \E files \in SUBSET {t} :
      /\ files # {} \/ n # NoNumber
      /\ Ask(r, "update", i, {t}, files, n)

AskUpdateAadhaar(r, i) ==
  \E files \in SUBSET Sides, n \in KycNumbers \cup {NoNumber} :
    /\ files # {} \/ n # NoNumber
    /\ Ask(r, "updateAadhaar", i, Sides, files, n)

(* A document or video is deleted by the id that the applicant was shown. *)
AskDelete(r, i) ==
  /\ kycRequest[r].at = "Idle"
  /\ \E t \in Types :
       /\ Present(i, t)
       /\ kycRequest' = [kycRequest EXCEPT ![r] =
            [NewKycRequest EXCEPT !.at = "Status", !.op = "delete", !.applicant = i,
               !.types = {t}, !.late = kyc[i] = "UNDER_REVIEW",
               !.seen = [NothingSeen EXCEPT ![t] = document[i][t]]]]
  /\ UNCHANGED <<kyc, document, bucket, overtaken>>

(* The files are put one after the other; a put that fails ends the request. *)
StoreFiles(r) ==
  LET q == kycRequest[r]
      Put(stored) ==
        bucket' = [bucket EXCEPT ![q.applicant] = [t \in Types |->
          IF t \in stored THEN @[t] \cup {r} ELSE @[t]]]
  IN /\ q.at = "Store"
     /\ \/ /\ Put(q.files)
           /\ kycRequest' = [kycRequest EXCEPT ![r].at = "Status"]
        \/ \E stored \in SUBSET q.files :
             /\ stored # q.files /\ "AADHAAR_BACK" \in stored => "AADHAAR_FRONT" \notin q.files
             /\ Put(stored)
             /\ kycRequest' = [kycRequest EXCEPT ![r].at = "Clean"]
     /\ UNCHANGED <<kyc, document, overtaken>>

End(r) == kycRequest' = [kycRequest EXCEPT ![r] = [NewKycRequest EXCEPT !.at = "Done"]]

(* The call failed, so the new files are deleted; a deletion may fail. *)
CleanUp(r) ==
  LET q == kycRequest[r]
  IN /\ q.at = "Clean"
     /\ \E deleted \in SUBSET q.files :
          bucket' = [bucket EXCEPT ![q.applicant] = [t \in Types |->
            IF t \in deleted THEN @[t] \ {r} ELSE @[t]]]
     /\ End(r)
     /\ UNCHANGED <<kyc, document, overtaken>>

-----------------------------------------------------------------------------
(* The kyc-service: the checks, each a read of its own. *)

MoveKyc(r, at) == kycRequest' = [kycRequest EXCEPT ![r].at = at]
Refused(r) ==
  kycRequest' = [kycRequest EXCEPT ![r] =
    [NewKycRequest EXCEPT !.at = "Clean", !.applicant = kycRequest[r].applicant,
       !.files = kycRequest[r].files]]

(* getKycOrThrow and ensureKycEditable: nothing has approved or rejected *)
(* an application in this code, so it is pending or under review.        *)
Editable(i) == kyc[i] = "PENDING"

CheckStatus(r) ==
  LET q == kycRequest[r]
  IN /\ q.at = "Status" /\ q.op \notin {"create", "delete"}
     /\ IF Editable(q.applicant) THEN MoveKyc(r, "Rows") ELSE Refused(r)
     /\ UNCHANGED <<kyc, document, bucket, overtaken>>

FindApplication(r) ==
  LET q == kycRequest[r]
  IN /\ q.at = "Status" /\ q.op = "create"
     /\ MoveKyc(r, IF kyc[q.applicant] = "none" THEN "Write" ELSE "Answer")
     /\ UNCHANGED <<kyc, document, bucket, overtaken>>

(* The row to delete is read with its application. *)
FindById(r) ==
  LET q == kycRequest[r]
      same == {t \in q.types : Mine(r)[t].row = q.seen[t].row}
  IN /\ q.at = "Status" /\ q.op = "delete"
     /\ IF same = {} \/ ~Editable(q.applicant)
        THEN Refused(r)
        ELSE kycRequest' = [kycRequest EXCEPT ![r].at = "Write",
               ![r].seen = [t \in Types |-> IF t \in q.types THEN Mine(r)[t] ELSE NoDocument]]
     /\ UNCHANGED <<kyc, document, bucket, overtaken>>

(* What each operation demands of the rows it reads. *)
Acceptable(r, rows) ==
  LET q == kycRequest[r]
      there == {t \in Types : rows[t] # NoDocument}
  IN CASE q.op \in {"upload", "uploadAadhaar"} -> q.types \cap there = {}
       [] q.op \in {"update", "updateAadhaar"} -> q.types \cap there # {}
       [] OTHER -> TRUE

(* The number that the request writes: the one given, else the row's own; *)
(* for the Aadhaar that of the front, or of the back without a front.      *)
KeptNumber(r, rows) ==
  LET q == kycRequest[r]
  IN IF q.given THEN q.number
     ELSE IF q.op = "update" THEN rows[CHOOSE t \in q.types : TRUE].number
     ELSE IF q.op # "updateAadhaar" THEN NoNumber
     ELSE IF rows["AADHAAR_FRONT"].number # NoNumber THEN rows["AADHAAR_FRONT"].number
     ELSE rows["AADHAAR_BACK"].number

ReadRows(r) ==
  LET q == kycRequest[r]
  IN /\ q.at = "Rows" /\ q.op # "submit"
     /\ IF Acceptable(r, Mine(r))
        THEN kycRequest' = [kycRequest EXCEPT
               ![r].at = IF q.given /\ q.types \cap ({"PAN_CARD"} \cup Sides) # {} THEN "Number"
                         ELSE IF q.op = "updateAadhaar" THEN "Upsert" ELSE "Write",
               ![r].number = KeptNumber(r, Mine(r)),
               ![r].seen = [t \in Types |-> IF t \in q.types THEN Mine(r)[t] ELSE NoDocument]]
        ELSE Refused(r)
     /\ UNCHANGED <<kyc, document, bucket, overtaken>>

Numbered(q) == IF "PAN_CARD" \in q.types THEN "PAN_CARD" ELSE "AADHAAR_FRONT"

CheckNumber(r) ==
  LET q == kycRequest[r]
  IN /\ q.at = "Number"
     /\ IF \E j \in Applicants \ {q.applicant} : document[j][Numbered(q)].number = q.number
        THEN Refused(r)
        ELSE MoveKyc(r, IF q.op = "updateAadhaar" THEN "Upsert" ELSE "Write")
     /\ UNCHANGED <<kyc, document, bucket, overtaken>>

(* Mutant: one side of the Aadhaar is enough. *)
MutComplete(i) ==
  /\ \A t \in ManualTypes : Present(i, t)
  /\ \E t \in Sides : Present(i, t)

Complete(i) == \A t \in ManualTypes \cup Sides : Present(i, t)

ReadDocuments(r) ==
  LET q == kycRequest[r]
  IN /\ q.at = "Rows" /\ q.op = "submit"
     /\ IF Complete(q.applicant) THEN MoveKyc(r, "Video") ELSE Refused(r)
     /\ UNCHANGED <<kyc, document, bucket, overtaken>>

(* The status of a video is never anything but PENDING in this code. *)
ReadVideo(r) ==
  LET q == kycRequest[r]
  IN /\ q.at = "Video"
     /\ IF Present(q.applicant, "VIDEO") THEN MoveKyc(r, "Write") ELSE Refused(r)
     /\ UNCHANGED <<kyc, document, bucket, overtaken>>

-----------------------------------------------------------------------------
(* The kyc-service: the writes. *)

CreateApplication(r) ==
  LET q == kycRequest[r]
  IN /\ q.at = "Write" /\ q.op = "create"
     /\ IF kyc[q.applicant] = "none"
        THEN kyc' = [kyc EXCEPT ![q.applicant] = "PENDING"] /\ MoveKyc(r, "Answer")
        ELSE Refused(r) /\ UNCHANGED kyc
     /\ UNCHANGED <<document, bucket, overtaken>>

SubmitApplication(r) ==
  LET q == kycRequest[r]
  IN /\ q.at = "Write" /\ q.op = "submit"
     /\ kyc' = [kyc EXCEPT ![q.applicant] = "UNDER_REVIEW"]
     /\ MoveKyc(r, "Answer")
     /\ UNCHANGED <<document, bucket, overtaken>>

(* A submission that has read the documents, or has been made. *)
Submitting(i) ==
  \/ kyc[i] = "UNDER_REVIEW"
  \/ \E s \in KycRequests : /\ kycRequest[s].op = "submit" /\ kycRequest[s].applicant = i
                            /\ kycRequest[s].at \in {"Video", "Write"}

DeleteRow(r) ==
  LET q == kycRequest[r]
      i == q.applicant
  IN /\ q.at = "Write" /\ q.op = "delete"
     /\ \E t \in q.types :
          IF document[i][t].row = q.seen[t].row
          THEN /\ document' = [document EXCEPT ![i][t] = NoDocument]
               /\ overtaken' = IF Submitting(i) /\ ~q.late THEN overtaken \cup {<<i, t>>} ELSE overtaken
               /\ MoveKyc(r, "Tidy")
          ELSE Refused(r) /\ UNCHANGED <<document, overtaken>>
     /\ UNCHANGED <<kyc, bucket>>

(* upsertAadhaar reads both sides again in its transaction; without a row  *)
(* a side needs its file, which is missing when only the row was expected. *)
UpsertRead(r) ==
  LET q == kycRequest[r]
      lacking == {t \in q.types : Mine(r)[t] = NoDocument /\ q.seen[t] # NoDocument}
  IN /\ q.at = "Upsert"
     /\ IF lacking \subseteq q.files
        THEN kycRequest' = [kycRequest EXCEPT ![r].at = "Write",
               ![r].found = [t \in Types |-> IF t \in q.types THEN Mine(r)[t] ELSE NoDocument]]
        ELSE Refused(r)
     /\ UNCHANGED <<kyc, document, bucket, overtaken>>

(* The rows that the request expects: what it read last. *)
Expected(q) == IF q.op = "updateAadhaar" THEN q.found ELSE q.seen
Changed(q) == {t \in q.types : t \in q.files \/ Expected(q)[t] # NoDocument}

RowAfter(r, t) ==
  LET q == kycRequest[r]
      old == Expected(q)[t]
      new == old = NoDocument
  IN [row |-> IF new THEN r ELSE old.row,
      number |-> q.number,
      file |-> IF t \in q.files THEN r
               ELSE IF q.op = "update" THEN q.seen[t].file ELSE Mine(r)[t].file]

RowsAfter(r) ==
  [document EXCEPT ![kycRequest[r].applicant] = [t \in Types |->
     IF t \in Changed(kycRequest[r]) THEN RowAfter(r, t) ELSE @[t]]]

UniqueNumbers(rows) ==
  \A t \in {"PAN_CARD", "AADHAAR_FRONT"}, i, j \in Applicants :
    rows[i][t].number = rows[j][t].number /\ rows[i][t].number # NoNumber => i = j

(* One INSERT, UPDATE by id or transaction of them: refused when a row has *)
(* come or gone since it was read, when an index is violated, or by a fault. *)
WriteRows(r) ==
  LET q == kycRequest[r]
      same == \A t \in Changed(q) : Mine(r)[t].row = Expected(q)[t].row
      stale == {t \in q.types \ q.files : q.op = "update" /\ Mine(r)[t].file # q.seen[t].file}
  IN /\ q.at = "Write" /\ q.op \notin {"create", "delete", "submit"}
     /\ \/ /\ same /\ UniqueNumbers(RowsAfter(r))
           /\ document' = RowsAfter(r)
           /\ overtaken' = overtaken \cup ({q.applicant} \X stale)
           /\ MoveKyc(r, "Tidy")
        \/ Refused(r) /\ UNCHANGED <<document, overtaken>>
     /\ UNCHANGED <<kyc, bucket>>

(* Mutant: an update of the number deletes the file as well. *)
MutReplaced(q) == {t \in q.types : q.seen[t] # NoDocument}

Replaced(q) == {t \in q.types : q.seen[t] # NoDocument /\ (t \in q.files \/ q.op = "delete")}

(* The replaced or deleted files are deleted; an error is only logged. *)
DeleteOldFiles(r) ==
  LET q == kycRequest[r]
  IN /\ q.at = "Tidy"
     /\ \E deleted \in SUBSET Replaced(q) :
          bucket' = [bucket EXCEPT ![q.applicant] = [t \in Types |->
            IF t \in deleted /\ q.seen[t].file # r THEN @[t] \ {q.seen[t].file} ELSE @[t]]]
     /\ MoveKyc(r, "Answer")
     /\ UNCHANGED <<kyc, document, overtaken>>

AnswerRequest(r) ==
  /\ kycRequest[r].at = "Answer"
  /\ End(r)
  /\ UNCHANGED <<kyc, document, bucket, overtaken>>

(* The consumer stops after its write, and the message is delivered again. *)
Redeliver(r) ==
  LET q == kycRequest[r]
  IN /\ q.at \in {"Tidy", "Answer"} /\ ~q.again
     /\ kycRequest' = [kycRequest EXCEPT ![r].at = "Status", ![r].again = TRUE,
          ![r].number = IF q.given THEN @ ELSE NoNumber]
     /\ overtaken' = overtaken \cup ({q.applicant} \X q.files)
     /\ UNCHANGED <<kyc, document, bucket>>

-----------------------------------------------------------------------------
KycNext ==
  \E r \in KycRequests :
    \/ \E i \in Applicants :
         \/ AskCreate(r, i) \/ AskSubmit(r, i) \/ AskUploadVideo(r, i)
         \/ AskUploadAadhaar(r, i) \/ AskUploadDocument(r, i)
         \/ AskUpdateDocument(r, i) \/ AskUpdateAadhaar(r, i) \/ AskDelete(r, i)
    \/ StoreFiles(r) \/ CleanUp(r)
    \/ CheckStatus(r) \/ FindApplication(r) \/ FindById(r) \/ ReadRows(r) \/ CheckNumber(r)
    \/ ReadDocuments(r) \/ ReadVideo(r)
    \/ CreateApplication(r) \/ SubmitApplication(r) \/ DeleteRow(r)
    \/ UpsertRead(r) \/ WriteRows(r) \/ DeleteOldFiles(r) \/ AnswerRequest(r) \/ Redeliver(r)

KycSpec == KycInit /\ [][KycNext]_kycVars

-----------------------------------------------------------------------------
(* A PAN or Aadhaar number belongs to one applicant, whatever requests     *)
(* overlap between the look for a duplicate and the write of the row.      *)
NumberOfOneApplicant == UniqueNumbers(document)

(* Every row has its file, whichever put, write or deletion failed, unless *)
(* an update of the number crossed a change of the file it writes back, or *)
(* the request that brought the file was delivered twice.                  *)
StoredFilesExist ==
  \A i \in Applicants, t \in Types :
    Present(i, t) => document[i][t].file \in bucket[i][t] \/ <<i, t>> \in overtaken

(* An application under review has all its documents, but for those whose  *)
(* deletion had passed its check before the submission was made, or was    *)
(* made after the submission had read them.                                *)
SubmittedIsComplete ==
  \A i \in Applicants : kyc[i] = "UNDER_REVIEW" =>
    \A t \in Types : Present(i, t) \/ <<i, t>> \in overtaken
=============================================================================
