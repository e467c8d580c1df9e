---------------------------- MODULE MCBackOffice ----------------------------
(* One instance of the parts of the system that no money flow touches and  *)
(* that share no state: the commission hierarchy, the plan of a commission, *)
(* the KYC documents, the gateway's stored answers and the onboarding of    *)
(* accounts.  A behaviour chooses one part, and only the variables of that *)
(* part change.                                                            *)
EXTENDS MCCommissionHierarchy, CommissionPlan, KycDocuments, GatewayIdempotency,
        AccountOnboarding

CONSTANTS distributor, retailer, a1, a2, n1, k1, i1, p1

VARIABLES
  part,
  subject  \* the account that the part about accounts follows

Parts == {"hierarchy", "edits", "plan", "files", "numbers", "answers", "accounts"}

(* An applicant has an application, and all or none of its documents. *)
KycStart ==
  /\ part = "files" => document[a2] = NothingSeen /\ kyc[a2] = "none"
  /\ part = "numbers" => kyc = [i \in Applicants |-> "PENDING"]
  /\ part \notin {"files", "numbers"} =>
       kyc = [i \in Applicants |-> "none"] /\ document = [i \in Applicants |-> NothingSeen]

MCInit ==
  /\ part \in Parts
  /\ HierInit /\ PlanInit /\ KycInit /\ GwInit /\ OnbInit
  /\ IF part = "accounts" THEN subject \in Accounts ELSE subject = i1
  /\ part # "plan" => pool = 0
  /\ KycStart
  /\ part # "answers" =>
       gwRequest = [q \in GwRequests |-> NewGwRequest(k1, "one", "one")]

(* What the edits have put in rows or are about to. *)
Edited ==
  {distribution[i] : i \in DOMAIN distribution}
    \cup {distEditor[e].row : e \in {f \in DistEditors : distEditor[f].at # "Idle"}}

Served == {r \in KycRequests : kycRequest[r].at \notin {"Idle", "Clean", "Done"}}

HasPhone(a) == account[a] # NoRow /\ account[a].phone # NoPhone

(* A request for the subject, or one that gives an account whose phone the  *)
(* subject's requests look for the phone p1 before the subject has one.    *)
AboutSubject(c) ==
  \/ clerk[c].of = subject /\ (clerk[c].op = "phone" \/ clerk[c].phone = p1)
  \/ /\ clerk[c].of # subject /\ clerk[c].op = "phone" /\ clerk[c].phone = p1
     /\ ~HasPhone(subject) /\ {subject, clerk[c].of} \cap Identities # {}
     /\ \A d \in Clerks \ {c} : clerk[d] = Free
     /\ \A a \in Accounts \ {subject, clerk[c].of} : ~HasPhone(a)

(* Two editors for one role without a commission, and one editor for two   *)
(* roles while commissions are created; two requests for the documents of  *)
(* one applicant, and one for the numbers of each of two, delivered once.  *)
Scenario ==
  CASE part = "edits" -> /\ \A d \in Edited : d.role = retailer
                         /\ \A c \in Creators : creator[c] = NewCreator
    [] part = "plan" -> /\ \A d \in Edited : d.kind = "PERCENTAGE" /\ d.value = 60
                        /\ distEditor[CHOOSE e \in DistEditors : TRUE] = StillEditor
    [] part = "files" ->
         \A r \in Served : kycRequest[r].applicant = a1 /\ kycRequest[r].number \in {n1, NoNumber}
    [] part = "numbers" ->
         /\ \A r \in Served : kycRequest[r].given /\ ~kycRequest[r].again
         /\ \A r, s \in Served : kycRequest[r].applicant = kycRequest[s].applicant => r = s
    [] part = "accounts" -> \A c \in Clerks : clerk[c] = Free \/ AboutSubject(c)
    [] OTHER -> TRUE

(* Users are interchangeable: the first relationship names u1 and u2. *)
FirstNamed ==
  hierarchy = << >> /\ hierarchy' # << >> => hierarchy'[1].child = u1 /\ hierarchy'[1].parent = u2

MCNext ==
  /\ UNCHANGED <<part, subject>>
  /\ IF part = "hierarchy" THEN HierNext ELSE UNCHANGED hierVars
  /\ IF part \in {"edits", "plan"} THEN PlanNext ELSE UNCHANGED planVars
  /\ IF part \in {"files", "numbers"} THEN KycNext ELSE UNCHANGED kycVars
  /\ IF part = "answers" THEN GwNext ELSE UNCHANGED gwVars
  /\ IF part = "accounts" THEN OnbNext ELSE UNCHANGED onbVars
  /\ Scenario' /\ FirstNamed

MCSpec ==
  MCInit /\ [][MCNext]_<<hierVars, planVars, kycVars, gwVars, onbVars, part, subject>>
=============================================================================
