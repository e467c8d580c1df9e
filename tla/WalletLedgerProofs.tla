-------------------------- MODULE WalletLedgerProofs --------------------------
(* Proofs about WalletLedger, for any users, requests and workers.          *)
EXTENDS WalletLedger, TLAPS

-----------------------------------------------------------------------------
(* Requests and transactions. *)

LEMMA RequestFacts ==
  ASSUME NEW r \in Requests
  PROVE  /\ r \in Request
         /\ Source(r) \in Wallets /\ Target(r) \in Wallets
         /\ r.op = "transfer" => r.user # r.to /\ Source(r) # Target(r) /\ r.type = "DEBIT"
         /\ Read(r) \subseteq Wallets
         /\ Len(Locks(r)) \in 1..2
  <1>1. ValidRequest(r)
    BY LedgerAssumption
  <1>2. r \in Request
    BY <1>1 DEF ValidRequest
  <1>3. Source(r) \in Wallets /\ Target(r) \in Wallets
    BY <1>1, <1>2 DEF ValidRequest, Request, Source, Target, Wallets
  <1>4. r.op = "transfer" => r.user # r.to /\ Source(r) # Target(r) /\ r.type = "DEBIT"
    BY <1>1 DEF ValidRequest, Source, Target
  <1>5. QED
    BY <1>2, <1>3, <1>4 DEF Read, Locks

LEMMA ActiveTransaction ==
  ASSUME TypeOK, NEW w \in Workers, Active(w)
  PROVE  tx[w] \in Transaction
  BY DEF TypeOK, Active

-----------------------------------------------------------------------------
(* What a commit does to the ledger: every wallet it read gets one entry    *)
(* that continues the current balance, and nothing else changes.            *)

NewKey(r, x) == IF x = Source(r) THEN <<r.key>> ELSE createReceiverIdempotencyKey(r)
NewType(r, x) == IF x = Source(r) THEN r.type ELSE "CREDIT"
Added(t, x) == NewEntry(t, x, NewKey(t.req, x), NewType(t.req, x))

LEMMA CurrentBalance ==
  ASSUME TypeOK, BalancesChain, NEW x \in Wallets
  PROVE  Balance(Lengths, x) \in Int /\ Balance(Lengths, x) >= 0
  <1>1. ledger[x] \in Seq(Entry)
    BY DEF TypeOK
  <1>2. CASE Len(ledger[x]) = 0
    BY <1>2 DEF Balance, Lengths
  <1>3. CASE Len(ledger[x]) # 0
    <2>1. Len(ledger[x]) \in 1..Len(ledger[x])
      BY <1>1, <1>3
    <2>2. ledger[x][Len(ledger[x])] \in Entry
      BY <1>1, <2>1
    <2>3. ledger[x][Len(ledger[x])].closing \in Int /\ ledger[x][Len(ledger[x])].closing >= 0
      BY <2>1, <2>2 DEF BalancesChain, Entry
    <2>4. QED
      BY <1>3, <2>3 DEF Balance, Lengths
  <1>4. QED
    BY <1>2, <1>3

LEMMA AddedEntry ==
  ASSUME TypeOK, BalancesChain, NEW w \in Workers, Commit(w), NEW x \in Read(tx[w].req)
  PROVE  LET r == tx[w].req
             e == Added(tx[w], x)
         IN  /\ e \in Entry
             /\ e.op = r.op /\ e.key = NewKey(r, x) /\ e.reference = <<r.user, r.key>>
             /\ e.type = NewType(r, x) /\ e.amount = r.amount
             /\ e.opening = Balance(Lengths, x)
             /\ e.closing = IF e.type = "CREDIT" THEN e.opening + e.amount
                            ELSE e.opening - e.amount
             /\ e.closing >= 0
  <1> DEFINE t == tx[w]
             r == tx[w].req
             b == Balance(Lengths, x)
  <1>1. t \in Transaction /\ r \in Requests
    BY ActiveTransaction DEF Commit, Locked, Transaction
  <1>2. r \in Request /\ x \in Wallets /\ x[1] \in Users
    BY <1>1, RequestFacts DEF Wallets
  <1>3. Balance(t.seen, x) = b
    BY <1>2 DEF Commit, Serializable, Balance, Lengths
  <1>4. b \in Int /\ b >= 0
    BY <1>2, CurrentBalance
  <1>5. NewKey(r, x) \in EntryKeys
    BY <1>2 DEF NewKey, EntryKeys, createReceiverIdempotencyKey, Request
  <1>6. NewType(r, x) \in {"CREDIT", "DEBIT"}
    BY <1>2 DEF NewType, Request
  <1>7. NewType(r, x) = "DEBIT" => r.amount <= b
    <2>1. NewType(r, x) = "DEBIT" => x = Source(r) /\ r.type = "DEBIT"
      BY DEF NewType
    <2>2. QED
      BY <2>1, <1>3 DEF Commit, Sufficient
  <1>8. r.amount \in Nat \ {0} /\ r.op \in Operations /\ <<r.user, r.key>> \in Users \X Keys
    BY <1>2 DEF Request
  <1>9. Added(t, x) = [op |-> r.op, key |-> NewKey(r, x), reference |-> <<r.user, r.key>>,
                     type |-> NewType(r, x), amount |-> r.amount, opening |-> b,
                     closing |-> IF NewType(r, x) = "CREDIT" THEN b + r.amount
                                 ELSE b - r.amount]
    BY <1>3 DEF Added, NewEntry
  <1> HIDE DEF t, r, b
  <1>10. Added(t, x) \in Entry
    BY <1>4, <1>5, <1>6, <1>8, <1>9 DEF Entry
  <1>11. QED
    BY <1>4, <1>6, <1>7, <1>8, <1>9, <1>10 DEF t, r, b

LEMMA CommitAppends ==
  ASSUME TypeOK, BalancesChain, NEW w \in Workers, Commit(w), NEW x \in Wallets
  PROVE  ledger'[x] = IF x \in Read(tx[w].req) THEN Append(ledger[x], Added(tx[w], x))
                      ELSE ledger[x]
  <1>1. tx[w].req \in Requests
    BY ActiveTransaction DEF Commit, Locked, Transaction
  <1>2. ledger' = Inserted(tx[w])
    BY DEF Commit
  <1>3. tx[w].req.op = "transfer" => Source(tx[w].req) # Target(tx[w].req)
    BY <1>1, RequestFacts
  <1>4. QED
    BY <1>2, <1>3 DEF Inserted, Read, Added, NewKey, NewType

LEMMA CommitEntries ==
  ASSUME TypeOK, BalancesChain, NEW w \in Workers, Commit(w), NEW x \in Wallets
  PROVE  /\ ledger'[x] \in Seq(Entry)
         /\ \A i \in 1..Len(ledger[x]) : ledger'[x][i] = ledger[x][i]
         /\ x \in Read(tx[w].req) =>
              /\ Len(ledger'[x]) = Len(ledger[x]) + 1
              /\ ledger'[x][Len(ledger[x]) + 1] = Added(tx[w], x)
         /\ x \notin Read(tx[w].req) => ledger'[x] = ledger[x]
  <1>1. ledger[x] \in Seq(Entry)
    BY DEF TypeOK
  <1>2. CASE x \in Read(tx[w].req)
    <2>1. Added(tx[w], x) \in Entry
      BY <1>2, AddedEntry
    <2>2. ledger'[x] = Append(ledger[x], Added(tx[w], x))
      BY <1>2, CommitAppends
    <2>3. QED
      BY <1>1, <1>2, <2>1, <2>2
  <1>3. CASE x \notin Read(tx[w].req)
    BY <1>1, <1>3, CommitAppends
  <1>4. QED
    BY <1>2, <1>3

-----------------------------------------------------------------------------
(* Steps that leave the ledger alone. *)

LEMMA LedgerSteps ==
  ASSUME Next
  PROVE  UNCHANGED ledger \/ \E w \in Workers : Commit(w)
  BY DEF Next, AnswerExisting, BeginTransaction, AcquireLock, Body, ReturnDuplicate,
         RefuseInsufficient, UniqueViolation, Abort

LEMMA ReplyAnswers ==
  ASSUME NEW n, NEW r \in Requests, answered \subseteq Requests, Reply(n, r)
  PROVE  answered' \subseteq Requests
  BY DEF Reply

LEMMA TypeStep == TypeOK /\ BalancesChain /\ [Next]_vars => TypeOK'
  <1> SUFFICES ASSUME TypeOK, BalancesChain, [Next]_vars PROVE TypeOK'
    OBVIOUS
  <1> NoTransaction.req = NoRequest
    BY DEF NoTransaction
  <1>1. Lengths \in [Wallets -> Nat]
    BY DEF TypeOK, Lengths
  <1>2. ASSUME NEW r \in Requests, AnswerExisting(r) PROVE TypeOK'
    BY <1>2, ReplyAnswers DEF AnswerExisting, TypeOK
  <1>3. ASSUME NEW w \in Workers, NEW r \in Requests, BeginTransaction(w, r) PROVE TypeOK'
    <2>1. PICK held \in {0, 1}, waited \in BOOLEAN :
            tx' = [tx EXCEPT ![w] = [req |-> r, seen |-> Lengths, waited |-> waited,
                                     held |-> held]]
      BY <1>3 DEF BeginTransaction
    <2>2. [req |-> r, seen |-> Lengths, waited |-> waited, held |-> held] \in Transaction
      BY <1>1 DEF Transaction
    <2>3. QED
      BY <1>3, <2>1, <2>2 DEF BeginTransaction, TypeOK
  <1>4. ASSUME NEW w \in Workers, AcquireLock(w) PROVE TypeOK'
    <2>1. tx[w] \in Transaction /\ Len(Locks(tx[w].req)) \in 1..2
      BY <1>4, ActiveTransaction, RequestFacts DEF AcquireLock, Transaction
    <2>2. [tx[w] EXCEPT !.held = @ + 1] \in Transaction
      BY <1>4, <2>1 DEF AcquireLock, Transaction
    <2>3. tx' = [tx EXCEPT ![w] = [tx[w] EXCEPT !.held = @ + 1]]
      BY <1>4 DEF AcquireLock, TypeOK
    <2>4. QED
      BY <1>4, <2>2, <2>3 DEF AcquireLock, TypeOK
  <1>5. ASSUME NEW w \in Workers, End(w) PROVE tx' \in [Workers -> Transaction \cup {NoTransaction}]
    BY <1>5 DEF End, TypeOK
  <1>6. ASSUME NEW w \in Workers, Body(w) \/ Abort(w) PROVE answered' \subseteq Requests
    <2>1. Active(w) => tx[w].req \in Requests
      BY ActiveTransaction DEF Transaction
    <2>2. QED
      BY <1>6, <2>1, ReplyAnswers
      DEF Body, ReturnDuplicate, RefuseInsufficient, Commit, UniqueViolation, Abort, Locked,
          TypeOK
  <1>7. ASSUME NEW w \in Workers, Body(w) \/ Abort(w) PROVE TypeOK'
    <2>1. End(w)
      BY <1>7 DEF Body, ReturnDuplicate, RefuseInsufficient, Commit, UniqueViolation, Abort
    <2>2. CASE Commit(w)
      <3>1. \A x \in Wallets : ledger'[x] \in Seq(Entry)
        BY <2>2, CommitEntries
      <3>2. ledger' = [x \in Wallets |-> ledger'[x]]
        BY <2>2 DEF Commit, Inserted
      <3>3. ledger' \in [Wallets -> Seq(Entry)]
        BY <3>1, <3>2
      <3>4. QED
        BY <3>3, <2>1, <1>5, <1>6, <1>7 DEF TypeOK
    <2>3. CASE ~Commit(w)
      <3>1. UNCHANGED ledger
        BY <1>7, <2>3 DEF Body, ReturnDuplicate, RefuseInsufficient, UniqueViolation, Abort
      <3>2. QED
        BY <3>1, <2>1, <1>5, <1>6, <1>7 DEF TypeOK
    <2>4. QED
      BY <2>2, <2>3
  <1>8. CASE UNCHANGED vars
    BY <1>8 DEF vars, TypeOK
  <1>9. QED
    BY <1>2, <1>3, <1>4, <1>7, <1>8 DEF Next

LEMMA ChainStep == TypeOK /\ BalancesChain /\ [Next]_vars => BalancesChain'
  <1> SUFFICES ASSUME TypeOK, BalancesChain, [Next]_vars PROVE BalancesChain'
    OBVIOUS
  <1>1. ASSUME NEW w \in Workers, Commit(w) PROVE BalancesChain'
    <2> SUFFICES ASSUME NEW x \in Wallets, NEW i \in 1..Len(ledger'[x])
                 PROVE  LET e == ledger'[x][i] IN
                        /\ e.opening = IF i = 1 THEN 0 ELSE ledger'[x][i - 1].closing
                        /\ e.closing = IF e.type = "CREDIT" THEN e.opening + e.amount
                                       ELSE e.opening - e.amount
                        /\ e.closing >= 0
      BY DEF BalancesChain
    <2>1. ledger[x] \in Seq(Entry) /\ Len(ledger[x]) \in Nat
      BY DEF TypeOK
    <2>2. CASE i \in 1..Len(ledger[x])
      <3>1. ledger'[x][i] = ledger[x][i]
        BY <1>1, <2>2, CommitEntries
      <3>2. i # 1 => ledger'[x][i - 1] = ledger[x][i - 1]
        BY <1>1, <2>1, <2>2, CommitEntries
      <3>3. QED
        BY <3>1, <3>2, <2>2 DEF BalancesChain
    <2>3. CASE i \notin 1..Len(ledger[x])
      <3>1. x \in Read(tx[w].req) /\ i = Len(ledger[x]) + 1
        BY <1>1, <2>1, <2>3, CommitEntries
      <3>2. ledger'[x][i] = Added(tx[w], x)
        BY <1>1, <3>1, CommitEntries
      <3>3. Added(tx[w], x).opening = Balance(Lengths, x)
        BY <1>1, <3>1, AddedEntry
      <3>4. Balance(Lengths, x) = IF i = 1 THEN 0 ELSE ledger[x][i - 1].closing
        BY <2>1, <3>1 DEF Balance, Lengths
      <3>5. i # 1 => ledger'[x][i - 1] = ledger[x][i - 1]
        BY <1>1, <2>1, <3>1, CommitEntries
      <3>6. QED
        BY <1>1, <3>1, <3>2, <3>3, <3>4, <3>5, AddedEntry
    <2>4. QED
      BY <2>2, <2>3
  <1>2. CASE UNCHANGED ledger
    BY <1>2 DEF BalancesChain
  <1>3. QED
    BY <1>1, <1>2, LedgerSteps DEF vars

LEMMA InitChain == Init => TypeOK /\ BalancesChain
  <1> SUFFICES ASSUME Init PROVE TypeOK /\ BalancesChain
    OBVIOUS
  <1>1. TypeOK
    BY DEF Init, TypeOK
  <1>2. \A x \in Wallets : Len(ledger[x]) = 0
    BY DEF Init
  <1>3. QED
    BY <1>1, <1>2 DEF BalancesChain

(* Every variable keeps its type; in particular the ledger of every wallet  *)
(* is a sequence of entries.                                                *)
THEOREM TypeCorrect == Spec => []TypeOK
  <1>1. TypeOK /\ BalancesChain /\ [Next]_vars => (TypeOK /\ BalancesChain)'
    BY TypeStep, ChainStep
  <1>2. QED
    BY <1>1, InitChain, PTL DEF Spec

(* Whatever requests run concurrently, in whichever order their             *)
(* transactions take locks, wait, abort and commit, the entries of every    *)
(* wallet form one chain of balances, and no balance is negative.           *)
THEOREM BalancesNeverBreak == Spec => []BalancesChain
  <1>1. TypeOK /\ BalancesChain /\ [Next]_vars => (TypeOK /\ BalancesChain)'
    BY TypeStep, ChainStep
  <1>2. QED
    BY <1>1, InitChain, PTL DEF Spec

-----------------------------------------------------------------------------
(* Keys. *)

LEMMA CommitRequest ==
  ASSUME TypeOK, NEW w \in Workers, Commit(w)
  PROVE  tx[w] \in Transaction /\ tx[w].req \in Requests
  BY ActiveTransaction DEF Commit, Locked, Transaction

LEMMA NewKeyIsNew ==
  ASSUME TypeOK, BalancesChain, NEW w \in Workers, Commit(w), NEW x \in Read(tx[w].req),
         NEW y \in Wallets, NEW j \in 1..Len(ledger[y]), x[1] = y[1]
  PROVE  ledger[y][j].key # Added(tx[w], x).key
  <1> DEFINE r == tx[w].req
  <1>1. Added(tx[w], x).key = NewKey(r, x)
    BY AddedEntry
  <1>2. j \in 1..Lengths[y]
    BY DEF Lengths
  <1>3. ~Found(Lengths, r.user, <<r.key>>)
    BY DEF Commit, Unique
  <1>4. CASE x = Source(r)
    BY <1>1, <1>2, <1>3, <1>4 DEF Found, HasKey, NewKey, Source
  <1>5. CASE x # Source(r)
    <2>1. r.op = "transfer" /\ x = Target(r)
      BY <1>5 DEF Read
    <2>2. ~Found(Lengths, r.to, createReceiverIdempotencyKey(r))
      BY <2>1 DEF Commit, Unique
    <2>3. QED
      BY <1>1, <1>2, <1>5, <2>1, <2>2 DEF Found, HasKey, NewKey, Target
  <1>6. QED
    BY <1>4, <1>5

LEMMA ReadApart ==
  ASSUME NEW r \in Requests, NEW x \in Read(r), NEW y \in Read(r), x[1] = y[1]
  PROVE  x = y
  BY RequestFacts DEF Read, Source, Target

LEMMA KeysStep == TypeOK /\ BalancesChain /\ KeysOnce /\ [Next]_vars => KeysOnce'
  <1> SUFFICES ASSUME TypeOK, BalancesChain, KeysOnce, [Next]_vars PROVE KeysOnce'
    OBVIOUS
  <1>1. ASSUME NEW w \in Workers, Commit(w) PROVE KeysOnce'
    <2> DEFINE Old(x, i) == i \in 1..Len(ledger[x]) /\ ledger'[x][i] = ledger[x][i]
               New(x, i) == /\ x \in Read(tx[w].req) /\ i = Len(ledger[x]) + 1
                            /\ ledger'[x][i] = Added(tx[w], x)
    <2>1. \A x \in Wallets : \A i \in 1..Len(ledger'[x]) : Old(x, i) \/ New(x, i)
      <3> SUFFICES ASSUME NEW x \in Wallets, NEW i \in 1..Len(ledger'[x])
                   PROVE  Old(x, i) \/ New(x, i)
        OBVIOUS
      <3>1. Len(ledger[x]) \in Nat
        BY DEF TypeOK
      <3>2. QED
        BY <1>1, <3>1, CommitEntries
    <2>2. \A x, y \in Wallets : \A i \in 1..Len(ledger'[x]), j \in 1..Len(ledger'[y]) :
            Old(x, i) /\ New(y, j) /\ x[1] = y[1] => ledger'[x][i].key # ledger'[y][j].key
      BY <1>1, NewKeyIsNew
    <2>3. SUFFICES ASSUME NEW x \in Wallets, NEW y \in Wallets,
                          NEW i \in 1..Len(ledger'[x]), NEW j \in 1..Len(ledger'[y]),
                          x[1] = y[1], ledger'[x][i].key = ledger'[y][j].key
                   PROVE  x = y /\ i = j
      BY DEF KeysOnce
    <2>4. CASE Old(x, i) /\ Old(y, j)
      BY <2>3, <2>4 DEF KeysOnce
    <2>5. CASE New(x, i) /\ New(y, j)
      BY <1>1, <2>3, <2>5, ReadApart, CommitRequest
    <2>6. ~(Old(x, i) /\ New(y, j))
      BY <2>2, <2>3
    <2>7. ~(Old(y, j) /\ New(x, i))
      BY <2>2, <2>3
    <2>8. QED
      BY <2>1, <2>4, <2>5, <2>6, <2>7
  <1>2. CASE UNCHANGED ledger
    BY <1>2 DEF KeysOnce
  <1>3. QED
    BY <1>1, <1>2, LedgerSteps DEF vars

(* A user's idempotency key moves money at most once, in any of the user's  *)
(* wallets, however its requests race.                                      *)
THEOREM KeyMovesMoneyOnce == Spec => []KeysOnce
  <1>1. Init => KeysOnce
    BY DEF Init, KeysOnce
  <1>2. QED
    BY <1>1, KeysStep, TypeCorrect, BalancesNeverBreak, PTL DEF Spec

-----------------------------------------------------------------------------
(* Transfers. *)

LEMMA PairsStep == TypeOK /\ BalancesChain /\ TransfersPaired /\ [Next]_vars => TransfersPaired'
  <1> SUFFICES ASSUME TypeOK, BalancesChain, TransfersPaired, [Next]_vars
               PROVE  TransfersPaired'
    OBVIOUS
  <1>1. ASSUME NEW w \in Workers, Commit(w) PROVE TransfersPaired'
    <2> DEFINE r == tx[w].req
    <2> SUFFICES ASSUME NEW x \in Wallets, NEW i \in 1..Len(ledger'[x]),
                        ledger'[x][i].op = "transfer"
                 PROVE  \E y \in Wallets \ {x} : \E j \in 1..Len(ledger'[y]) :
                          Pair(ledger'[x][i], ledger'[y][j])
      BY DEF TransfersPaired
    <2>1. \A y \in Wallets : Len(ledger[y]) \in Nat
      BY DEF TypeOK
    <2>2. CASE i \in 1..Len(ledger[x])
      <3>1. ledger'[x][i] = ledger[x][i]
        BY <1>1, <2>2, CommitEntries
      <3>2. PICK y \in Wallets \ {x} :
              \E j \in 1..Len(ledger[y]) : Pair(ledger[x][i], ledger[y][j])
        BY <2>2, <3>1 DEF TransfersPaired
      <3> PICK j \in 1..Len(ledger[y]) : Pair(ledger[x][i], ledger[y][j])
        BY <3>2
      <3>3. ledger'[y][j] = ledger[y][j] /\ j \in 1..Len(ledger'[y])
        BY <1>1, <2>1, CommitEntries
      <3>4. QED
        BY <3>1, <3>2, <3>3
    <2>3. CASE i \notin 1..Len(ledger[x])
      <3>1. x \in Read(r) /\ i = Len(ledger[x]) + 1
        BY <1>1, <2>1, <2>3, CommitEntries
      <3>2. ledger'[x][i] = Added(tx[w], x) /\ r.op = "transfer"
        BY <1>1, <3>1, AddedEntry, CommitEntries
      <3>3. /\ r \in Requests /\ Source(r) # Target(r) /\ r.type = "DEBIT"
            /\ Source(r) \in Wallets /\ Target(r) \in Wallets
        BY <1>1, <3>2, CommitRequest, RequestFacts
      <3>4. PICK y \in Wallets \ {x} : y \in Read(r) /\ {x, y} = {Source(r), Target(r)}
        BY <3>1, <3>2, <3>3 DEF Read
      <3>5. Len(ledger[y]) + 1 \in 1..Len(ledger'[y])
            /\ ledger'[y][Len(ledger[y]) + 1] = Added(tx[w], y)
        BY <1>1, <2>1, <3>4, CommitEntries
      <3>6. Pair(Added(tx[w], x), Added(tx[w], y))
        <4>1. NewType(r, x) # NewType(r, y)
          BY <3>3, <3>4 DEF NewType
        <4>2. ASSUME NEW z \in Read(r)
              PROVE  /\ Added(tx[w], z).op = r.op /\ Added(tx[w], z).amount = r.amount
                     /\ Added(tx[w], z).reference = <<r.user, r.key>>
                     /\ Added(tx[w], z).type = NewType(r, z)
          BY <1>1, AddedEntry
        <4>3. r.op = "transfer" /\ y \in Read(r)
          BY <1>1, <3>1, <3>2, <3>4, <4>2
        <4>4. QED
          BY <3>1, <4>1, <4>2, <4>3 DEF Pair
      <3>7. QED
        BY <3>2, <3>4, <3>5, <3>6
    <2>4. QED
      BY <2>2, <2>3
  <1>2. CASE UNCHANGED ledger
    BY <1>2 DEF TransfersPaired
  <1>3. QED
    BY <1>1, <1>2, LedgerSteps DEF vars

(* No money is made or lost between two wallets: a transfer has both its    *)
(* entries, for the same amount.                                            *)
THEOREM TransfersHaveBothSides == Spec => []TransfersPaired
  <1>1. Init => TransfersPaired
    BY DEF Init, TransfersPaired
  <1>2. QED
    BY <1>1, PairsStep, TypeCorrect, BalancesNeverBreak, PTL DEF Spec
-----------------------------------------------------------------------------
(* Answers.  An answer rests on two entries found by different means: the   *)
(* sender's by its key, the receiver's by its reference.  That it is about  *)
(* the receiver named in the request needs that references and keys agree.  *)

EntriesNamed ==
  \A x \in Wallets : \A i \in 1..Len(ledger[x]) :
    LET e == ledger[x][i] IN
    e.op = "transfer" =>
      /\ e.type = "DEBIT" => e.reference[1] = x[1] /\ e.key = <<e.reference[2]>>
      /\ e.type = "CREDIT" => e.key = <<e.reference[1], x[1], e.reference[2]>>

SnapshotsPast == \A w \in Workers : \A x \in Wallets : tx[w].seen[x] <= Len(ledger[x])

LEMMA NamedStep == TypeOK /\ BalancesChain /\ EntriesNamed /\ [Next]_vars => EntriesNamed'
  <1> SUFFICES ASSUME TypeOK, BalancesChain, EntriesNamed, [Next]_vars
               PROVE  EntriesNamed'
    OBVIOUS
  <1>1. ASSUME NEW w \in Workers, Commit(w) PROVE EntriesNamed'
    <2> DEFINE r == tx[w].req
    <2> SUFFICES ASSUME NEW x \in Wallets, NEW i \in 1..Len(ledger'[x]),
                        ledger'[x][i].op = "transfer"
                 PROVE  LET e == ledger'[x][i] IN
                        /\ e.type = "DEBIT" => e.reference[1] = x[1] /\ e.key = <<e.reference[2]>>
                        /\ e.type = "CREDIT" => e.key = <<e.reference[1], x[1], e.reference[2]>>
      BY DEF EntriesNamed
    <2>1. CASE i \in 1..Len(ledger[x])
      <3>1. ledger'[x][i] = ledger[x][i]
        BY <1>1, <2>1, CommitEntries
      <3>2. QED
        BY <2>1, <3>1 DEF EntriesNamed
    <2>2. CASE i \notin 1..Len(ledger[x])
      <3>1. Len(ledger[x]) \in Nat
        BY DEF TypeOK
      <3>2. x \in Read(r) /\ ledger'[x][i] = Added(tx[w], x)
        BY <1>1, <2>2, <3>1, CommitEntries
      <3>3. /\ ledger'[x][i].key = NewKey(r, x) /\ ledger'[x][i].type = NewType(r, x)
            /\ ledger'[x][i].reference = <<r.user, r.key>> /\ r.op = "transfer"
        BY <1>1, <3>2, AddedEntry
      <3>4. r.type = "DEBIT" /\ Source(r) # Target(r)
        BY <1>1, <3>3, CommitRequest, RequestFacts
      <3>5. CASE x = Source(r)
        BY <3>3, <3>4, <3>5 DEF NewKey, NewType, Source
      <3>6. CASE x # Source(r)
        <4>1. x = Target(r)
          BY <3>2, <3>6 DEF Read
        <4>2. QED
          BY <3>3, <3>6, <4>1 DEF NewKey, NewType, Target, createReceiverIdempotencyKey
      <3>7. QED
        BY <3>5, <3>6
    <2>3. QED
      BY <2>1, <2>2
  <1>2. CASE UNCHANGED ledger
    BY <1>2 DEF EntriesNamed
  <1>3. QED
    BY <1>1, <1>2, LedgerSteps DEF vars

LEMMA LedgerGrows ==
  ASSUME TypeOK, BalancesChain, [Next]_vars, NEW x \in Wallets
  PROVE  /\ Len(ledger[x]) \in Nat /\ Len(ledger'[x]) \in Nat
         /\ Len(ledger[x]) <= Len(ledger'[x])
         /\ \A i \in 1..Len(ledger[x]) : ledger'[x][i] = ledger[x][i]
  <1>1. ledger[x] \in Seq(Entry)
    BY DEF TypeOK
  <1>2. ASSUME NEW w \in Workers, Commit(w)
        PROVE  Len(ledger'[x]) \in {Len(ledger[x]), Len(ledger[x]) + 1}
               /\ \A i \in 1..Len(ledger[x]) : ledger'[x][i] = ledger[x][i]
    BY <1>1, <1>2, CommitEntries
  <1>3. QED
    BY <1>1, <1>2, LedgerSteps DEF vars

LEMMA SnapshotStep ==
  TypeOK /\ BalancesChain /\ SnapshotsPast /\ [Next]_vars => SnapshotsPast'
  <1> SUFFICES ASSUME TypeOK, BalancesChain, SnapshotsPast, [Next]_vars,
                      NEW v \in Workers, NEW x \in Wallets
               PROVE  tx'[v].seen[x] <= Len(ledger'[x])
    BY DEF SnapshotsPast
  <1>1. /\ Len(ledger[x]) \in Nat /\ Len(ledger'[x]) \in Nat
        /\ Len(ledger[x]) <= Len(ledger'[x])
    BY LedgerGrows
  <1>2. tx[v].seen[x] \in Nat /\ tx[v].seen[x] <= Len(ledger[x])
    BY DEF SnapshotsPast, TypeOK, Transaction, NoTransaction
  <1>3. tx'[v].seen[x] \in {tx[v].seen[x], 0, Len(ledger[x])}
    <2>1. ASSUME NEW w \in Workers, End(w) PROVE tx'[v].seen[x] \in {tx[v].seen[x], 0}
      BY <2>1 DEF End, TypeOK, NoTransaction
    <2>2. ASSUME NEW w \in Workers, NEW r \in Requests, BeginTransaction(w, r)
          PROVE  tx'[v].seen[x] \in {tx[v].seen[x], Len(ledger[x])}
      BY <2>2 DEF BeginTransaction, TypeOK, Lengths
    <2>3. ASSUME NEW w \in Workers, AcquireLock(w) PROVE tx'[v].seen[x] = tx[v].seen[x]
      BY <2>3, ActiveTransaction DEF AcquireLock, TypeOK, Transaction
    <2>4. QED
      BY <2>1, <2>2, <2>3
      DEF vars, Next, AnswerExisting, Body, ReturnDuplicate, RefuseInsufficient, Commit,
          UniqueViolation, Abort
  <1>4. QED
    BY <1>1, <1>2, <1>3

(* What was posted stays posted. *)
LEMMA PostedStays ==
  ASSUME TypeOK, BalancesChain, [Next]_vars, NEW r, NEW x \in Wallets, NEW key, NEW type,
         Posted(r, x, key, type)
  PROVE  Posted(r, x, key, type)'
  <1>1. PICK i \in 1..Len(ledger[x]) :
          LET e == ledger[x][i] IN
          e.op = r.op /\ e.key = key /\ e.type = type /\ e.amount = r.amount
    BY DEF Posted
  <1>2. i \in 1..Len(ledger'[x]) /\ ledger'[x][i] = ledger[x][i]
    BY LedgerGrows
  <1>3. QED
    BY <1>1, <1>2 DEF Posted

AsAsked(r) ==
  r.op \in {"transfer", "linked"} =>
    /\ Posted(r, Source(r), <<r.key>>, r.type)
    /\ r.op = "transfer" =>
         Posted(r, Target(r), createReceiverIdempotencyKey(r), "CREDIT")

LEMMA AnswerableAsAsked ==
  ASSUME TypeOK, EntriesNamed, NEW r \in Requests, NEW n \in [Wallets -> Nat],
         \A x \in Wallets : n[x] <= Len(ledger[x]), Answerable(n, r)
  PROVE  AsAsked(r)
  <1> SUFFICES ASSUME r.op \in {"transfer", "linked"}
               PROVE  /\ Posted(r, Source(r), <<r.key>>, r.type)
                      /\ r.op = "transfer" =>
                           Posted(r, Target(r), createReceiverIdempotencyKey(r), "CREDIT")
    BY DEF AsAsked
  <1>1. PICK x \in Wallets : \E i \in 1..n[x] : HasKey(x, i, r.user, <<r.key>>) /\ Matches(n, r, x, i)
    BY DEF Answerable
  <1>2. PICK i \in 1..n[x] : HasKey(x, i, r.user, <<r.key>>) /\ Matches(n, r, x, i)
    BY <1>1
  <1>3. \A y \in Wallets : n[y] \in Nat /\ Len(ledger[y]) \in Nat /\ n[y] <= Len(ledger[y])
    BY DEF TypeOK
  <1>4. i \in 1..Len(ledger[x])
    BY <1>3
  <1>5. /\ x = Source(r) /\ ledger[x][i].key = <<r.key>>
        /\ ledger[x][i].op = r.op /\ ledger[x][i].type = r.type /\ ledger[x][i].amount = r.amount
    BY <1>2 DEF Matches, HasKey
  <1>6. Posted(r, Source(r), <<r.key>>, r.type)
    BY <1>4, <1>5 DEF Posted
  <1>7. ASSUME r.op = "transfer"
        PROVE  Posted(r, Target(r), createReceiverIdempotencyKey(r), "CREDIT")
    <2>1. Target(r) \in Wallets /\ r.type = "DEBIT"
      BY <1>7, RequestFacts
    <2>2. PICK j \in 1..n[Target(r)] :
            /\ ledger[Target(r)][j].reference = ledger[x][i].reference
            /\ ledger[Target(r)][j].op = "transfer" /\ ledger[Target(r)][j].type = "CREDIT"
            /\ ledger[Target(r)][j].amount = r.amount
      BY <1>2, <1>7 DEF Matches
    <2>3. j \in 1..Len(ledger[Target(r)])
      BY <1>3, <2>1
    <2>4. ledger[x][i].reference[1] = r.user /\ ledger[x][i].reference[2] = r.key
      BY <1>4, <1>5, <1>7, <2>1 DEF EntriesNamed, Source
    <2>5. ledger[Target(r)][j].key = <<r.user, r.to, r.key>>
      BY <2>1, <2>2, <2>3, <2>4 DEF EntriesNamed, Target
    <2>6. QED
      BY <1>7, <2>2, <2>3, <2>5 DEF Posted, createReceiverIdempotencyKey
  <1>8. QED
    BY <1>6, <1>7

LEMMA CommitAsAsked ==
  ASSUME TypeOK, BalancesChain, NEW w \in Workers, Commit(w), NEW r, r = tx[w].req
  PROVE  AsAsked(r)'
  <1>1. r \in Requests
    BY CommitRequest
  <1>2. ASSUME NEW x \in Read(r)
        PROVE  x \in Wallets /\ Posted(r, x, NewKey(r, x), NewType(r, x))'
    <2>1. x \in Wallets
      BY <1>1, RequestFacts
    <2>2. Len(ledger[x]) \in Nat
      BY <2>1 DEF TypeOK
    <2>3. Len(ledger[x]) + 1 \in 1..Len(ledger'[x])
          /\ ledger'[x][Len(ledger[x]) + 1] = Added(tx[w], x)
      BY <2>1, <2>2, CommitEntries
    <2>4. /\ Added(tx[w], x).op = r.op /\ Added(tx[w], x).key = NewKey(r, x)
          /\ Added(tx[w], x).type = NewType(r, x) /\ Added(tx[w], x).amount = r.amount
      BY AddedEntry
    <2>5. QED
      BY <2>1, <2>3, <2>4 DEF Posted
  <1>3. Posted(r, Source(r), <<r.key>>, r.type)'
    BY <1>2 DEF Read, NewKey, NewType
  <1>4. r.op = "transfer" => Posted(r, Target(r), createReceiverIdempotencyKey(r), "CREDIT")'
    BY <1>1, <1>2, RequestFacts DEF Read, NewKey, NewType
  <1>5. QED
    BY <1>3, <1>4 DEF AsAsked

LEMMA AnsweredStep ==
  /\ TypeOK /\ BalancesChain /\ EntriesNamed /\ SnapshotsPast
  /\ AnsweredPosted /\ [Next]_vars
  => AnsweredPosted'
  <1> SUFFICES ASSUME TypeOK, BalancesChain, EntriesNamed, SnapshotsPast, AnsweredPosted,
                      [Next]_vars, NEW r \in answered'
               PROVE  AsAsked(r)'
    BY DEF AnsweredPosted, AsAsked
  <1>1. ASSUME NEW q \in Requests, AsAsked(q) PROVE AsAsked(q)'
    BY <1>1, PostedStays, RequestFacts DEF AsAsked
  <1>2. answered \subseteq Requests /\ \A q \in answered : AsAsked(q)
    BY DEF AnsweredPosted, AsAsked, TypeOK
  <1>3. Lengths \in [Wallets -> Nat] /\ \A x \in Wallets : Lengths[x] <= Len(ledger[x])
    BY DEF Lengths, TypeOK
  <1>4. ASSUME NEW q \in Requests, Reply(Lengths, q) PROVE AsAsked(r)'
    BY <1>1, <1>2, <1>3, <1>4, AnswerableAsAsked DEF Reply
  <1>5. ASSUME NEW w \in Workers, Commit(w) PROVE AsAsked(r)'
    <2>1. r \in answered \/ r = tx[w].req
      BY <1>5 DEF Commit
    <2>2. CASE r \in answered
      BY <1>1, <1>2, <2>2
    <2>3. CASE r = tx[w].req
      BY <1>5, <2>3, CommitAsAsked
    <2>4. QED
      BY <2>1, <2>2, <2>3
  <1>6. ASSUME NEW w \in Workers, Locked(w), Reply(tx[w].seen, tx[w].req) PROVE AsAsked(r)'
    <2>1. tx[w].req \in Requests /\ tx[w].seen \in [Wallets -> Nat]
      BY <1>6, ActiveTransaction DEF Locked, Transaction
    <2>2. Answerable(tx[w].seen, tx[w].req) => AsAsked(tx[w].req)
      BY <2>1, AnswerableAsAsked DEF SnapshotsPast
    <2>3. QED
      BY <1>1, <1>2, <1>6, <2>1, <2>2 DEF Reply
  <1>7. ASSUME NEW w \in Workers, UniqueViolation(w) PROVE AsAsked(r)'
    <2>1. tx[w].req \in Requests
      BY <1>7, ActiveTransaction DEF UniqueViolation, Locked, Transaction
    <2>2. QED
      BY <1>1, <1>2, <1>4, <1>7, <2>1 DEF UniqueViolation
  <1>8. CASE UNCHANGED answered
    BY <1>1, <1>2, <1>8
  <1>9. QED
    BY <1>4, <1>5, <1>6, <1>7, <1>8
    DEF vars, Next, AnswerExisting, BeginTransaction, AcquireLock, Body, ReturnDuplicate,
        RefuseInsufficient, Abort

(* An answer is never about somebody else's movement: a transfer that was   *)
(* answered, by its own transaction or from entries found there already, is *)
(* in the ledger with its sender, receiver and amount.                      *)
THEOREM AnswersAreTrue == Spec => []AnsweredPosted
  <1>1. Init => EntriesNamed /\ SnapshotsPast /\ AnsweredPosted
    <2> SUFFICES ASSUME Init PROVE EntriesNamed /\ SnapshotsPast /\ AnsweredPosted
      OBVIOUS
    <2>1. \A x \in Wallets : Len(ledger[x]) = 0
      BY DEF Init
    <2>2. \A w \in Workers : \A x \in Wallets : tx[w].seen[x] = 0
      BY DEF Init, NoTransaction
    <2>3. QED
      BY <2>1, <2>2 DEF Init, EntriesNamed, SnapshotsPast, AnsweredPosted
  <1>2. QED
    BY <1>1, NamedStep, SnapshotStep, AnsweredStep, TypeCorrect, BalancesNeverBreak, PTL
    DEF Spec

-----------------------------------------------------------------------------
(* Locks.  A transaction that has all its locks is the only one that can    *)
(* append to the wallets it reads.                                          *)

LocksExclusive == \A v, w \in Workers : v # w => Held(v) \cap Held(w) = {}

FreshIfUncontended ==
  \A w \in Workers :
    Active(w) /\ ~tx[w].waited /\ tx[w].req.op # "transfer" =>
      /\ tx[w].held = 1
      /\ tx[w].seen[Source(tx[w].req)] = Len(ledger[Source(tx[w].req)])

LEMMA LockedHoldsRead ==
  ASSUME TypeOK, NEW w \in Workers, Locked(w)
  PROVE  Read(tx[w].req) \subseteq Held(w)
  <1>1. tx[w] \in Transaction /\ Active(w) /\ tx[w].held = Len(Locks(tx[w].req))
    BY ActiveTransaction DEF Locked
  <1>2. CASE tx[w].req.op = "transfer"
    <2>1. 1 \in 1..tx[w].held /\ 2 \in 1..tx[w].held
      BY <1>1, <1>2 DEF Locks
    <2>2. Read(tx[w].req) = {Locks(tx[w].req)[1], Locks(tx[w].req)[2]}
      BY <1>2 DEF Read, Locks
    <2>3. QED
      BY <1>1, <2>1, <2>2 DEF Held
  <1>3. CASE tx[w].req.op # "transfer"
    <2>1. 1 \in 1..tx[w].held /\ Read(tx[w].req) = {Locks(tx[w].req)[1]}
      BY <1>1, <1>3 DEF Read, Locks
    <2>2. QED
      BY <1>1, <2>1 DEF Held
  <1>4. QED
    BY <1>2, <1>3

LEMMA ExclusiveStep == TypeOK /\ LocksExclusive /\ [Next]_vars => LocksExclusive'
  <1> SUFFICES ASSUME TypeOK, LocksExclusive, [Next]_vars PROVE LocksExclusive'
    OBVIOUS
  <1>1. ASSUME NEW w \in Workers, \A v \in Workers \ {w} : tx'[v] = tx[v],
               \A x \in Held(w)' : x \in Held(w) \/ Free(x)
        PROVE  LocksExclusive'
    <2>1. \A v \in Workers \ {w} : Held(v)' = Held(v)
      BY <1>1 DEF Held, Active
    <2>2. \A v \in Workers \ {w} : Held(v) \cap Held(w)' = {}
      BY <1>1 DEF LocksExclusive, Free
    <2>3. QED
      BY <2>1, <2>2 DEF LocksExclusive
  <1>2. ASSUME NEW w \in Workers, NEW r \in Requests, BeginTransaction(w, r)
        PROVE  LocksExclusive'
    <2>1. \A v \in Workers \ {w} : tx'[v] = tx[v]
      BY <1>2 DEF BeginTransaction, TypeOK
    <2>2. tx'[w].req = r /\ tx'[w].held = IF Free(Locks(r)[1]) THEN 1 ELSE 0
      BY <1>2 DEF BeginTransaction, TypeOK
    <2>3. \A x \in Held(w)' : x = Locks(r)[1] /\ Free(x)
      BY <2>2 DEF Held
    <2>4. QED
      BY <1>1, <2>1, <2>3
  <1>3. ASSUME NEW w \in Workers, AcquireLock(w) PROVE LocksExclusive'
    <2>1. tx[w] \in Transaction /\ tx[w].held \in Nat
      BY <1>3, ActiveTransaction DEF AcquireLock, Transaction
    <2>2. \A v \in Workers \ {w} : tx'[v] = tx[v]
      BY <1>3 DEF AcquireLock, TypeOK
    <2>3. tx'[w].req = tx[w].req /\ tx'[w].held = tx[w].held + 1
      BY <1>3, <2>1 DEF AcquireLock, TypeOK, Transaction
    <2>4. Active(w) /\ Free(Locks(tx[w].req)[tx[w].held + 1])
      BY <1>3 DEF AcquireLock
    <2>5. ASSUME NEW x \in Held(w)' PROVE x \in Held(w) \/ Free(x)
      <3>1. PICK i \in 1..(tx[w].held + 1) : x = Locks(tx[w].req)[i]
        BY <2>3 DEF Held
      <3>2. i \in 1..tx[w].held \/ i = tx[w].held + 1
        BY <2>1
      <3>3. QED
        BY <2>4, <3>1, <3>2 DEF Held
    <2>6. QED
      BY <1>1, <2>2, <2>5
  <1>4. ASSUME NEW w \in Workers, End(w) PROVE LocksExclusive'
    <2>1. \A v \in Workers \ {w} : tx'[v] = tx[v]
      BY <1>4 DEF End, TypeOK
    <2>2. Held(w)' = {}
      BY <1>4 DEF End, TypeOK, Held, Active
    <2>3. QED
      BY <1>1, <2>1, <2>2
  <1>5. CASE UNCHANGED tx
    BY <1>5 DEF LocksExclusive, Held, Active
  <1>6. QED
    BY <1>2, <1>3, <1>4, <1>5
    DEF vars, Next, AnswerExisting, Body, ReturnDuplicate, RefuseInsufficient, Commit,
        UniqueViolation, Abort

LEMMA FreshStep ==
  TypeOK /\ BalancesChain /\ LocksExclusive /\ FreshIfUncontended /\ [Next]_vars
  => FreshIfUncontended'
  <1> SUFFICES ASSUME TypeOK, BalancesChain, LocksExclusive, FreshIfUncontended, [Next]_vars,
                      NEW v \in Workers,
                      Active(v)', ~tx'[v].waited, tx'[v].req.op # "transfer"
               PROVE  /\ tx'[v].held = 1
                      /\ tx'[v].seen[Source(tx'[v].req)] = Len(ledger'[Source(tx'[v].req)])
    BY DEF FreshIfUncontended
  <1> DEFINE s == Source(tx[v].req)
  <1>1. ASSUME tx'[v] = tx[v], ledger'[s] = ledger[s]
        PROVE  /\ tx'[v].held = 1
               /\ tx'[v].seen[Source(tx'[v].req)] = Len(ledger'[Source(tx'[v].req)])
    BY <1>1 DEF FreshIfUncontended, Active
  <1>2. ASSUME NEW w \in Workers, NEW r \in Requests, BeginTransaction(w, r)
        PROVE  /\ tx'[v].held = 1
               /\ tx'[v].seen[Source(tx'[v].req)] = Len(ledger'[Source(tx'[v].req)])
    <2>1. CASE v = w
      <3>1. /\ tx'[v].req = r /\ tx'[v].seen = Lengths
            /\ tx'[v].waited = ~Free(Locks(r)[1])
            /\ tx'[v].held = IF Free(Locks(r)[1]) THEN 1 ELSE 0
        BY <1>2, <2>1 DEF BeginTransaction, TypeOK
      <3>2. Source(r) \in Wallets /\ UNCHANGED ledger
        BY <1>2, RequestFacts DEF BeginTransaction
      <3>3. QED
        BY <3>1, <3>2 DEF Lengths
    <2>2. CASE v # w
      BY <1>1, <1>2, <2>2 DEF BeginTransaction, TypeOK
    <2>3. QED
      BY <2>1, <2>2
  <1>3. ASSUME NEW w \in Workers, AcquireLock(w)
        PROVE  /\ tx'[v].held = 1
               /\ tx'[v].seen[Source(tx'[v].req)] = Len(ledger'[Source(tx'[v].req)])
    <2>1. v # w
      <3> SUFFICES ASSUME v = w PROVE FALSE
        OBVIOUS
      <3>1. tx[w] \in Transaction /\ Active(w) /\ tx[w].held < Len(Locks(tx[w].req))
        BY <1>3, ActiveTransaction DEF AcquireLock
      <3>2. tx'[w].req = tx[w].req /\ tx'[w].waited = tx[w].waited
        BY <1>3, <3>1 DEF AcquireLock, TypeOK, Transaction
      <3>3. tx[w].held = 1 /\ Len(Locks(tx[w].req)) = 1
        BY <3>1, <3>2 DEF FreshIfUncontended, Locks
      <3>4. QED
        BY <3>1, <3>3
    <2>2. QED
      BY <1>1, <1>3, <2>1 DEF AcquireLock, TypeOK
  <1>4. ASSUME NEW w \in Workers, End(w)
        PROVE  v # w /\ tx'[v] = tx[v] /\ Active(v)
    BY <1>4 DEF End, TypeOK, Active
  <1>5. ASSUME NEW w \in Workers, Commit(w), v # w, tx'[v] = tx[v], Active(v)
        PROVE  ledger'[s] = ledger[s]
    <2>1. tx[v] \in Transaction /\ tx[v].req \in Requests
      BY <1>5, ActiveTransaction DEF Transaction
    <2>2. s \in Wallets
      BY <2>1, RequestFacts
    <2>3. s \in Held(v)
      <3>1. tx[v].held = 1 /\ Locks(tx[v].req) = <<s>>
        BY <1>5 DEF FreshIfUncontended, Locks
      <3>2. QED
        BY <1>5, <3>1 DEF Held
    <2>4. s \notin Read(tx[w].req)
      BY <1>5, <2>3, LockedHoldsRead DEF LocksExclusive, Commit
    <2>5. QED
      BY <1>5, <2>2, <2>4, CommitEntries
  <1>6. CASE UNCHANGED <<tx, ledger>>
    BY <1>1, <1>6
  <1>7. ASSUME NEW w \in Workers, Body(w) \/ Abort(w)
        PROVE  /\ tx'[v].held = 1
               /\ tx'[v].seen[Source(tx'[v].req)] = Len(ledger'[Source(tx'[v].req)])
    <2>1. v # w /\ tx'[v] = tx[v] /\ Active(v)
      BY <1>4, <1>7 DEF Body, ReturnDuplicate, RefuseInsufficient, Commit, UniqueViolation, Abort
    <2>2. ledger'[s] = ledger[s]
      BY <1>5, <1>7, <2>1
      DEF Body, ReturnDuplicate, RefuseInsufficient, UniqueViolation, Abort
    <2>3. QED
      BY <1>1, <2>1, <2>2
  <1>8. QED
    BY <1>2, <1>3, <1>6, <1>7 DEF vars, Next, AnswerExisting

(* A request on one wallet that found the wallet's lock free reads the      *)
(* current balance when it gets to run, and is not aborted for a conflict.  *)
THEOREM UncontendedReadsAreCurrent == Spec => []UncontendedIsCurrent
  <1>1. Init => LocksExclusive /\ FreshIfUncontended
    BY DEF Init, LocksExclusive, FreshIfUncontended, Held, Active
  <1>2. FreshIfUncontended => UncontendedIsCurrent
    BY DEF FreshIfUncontended, UncontendedIsCurrent, Locked, Serializable, Read
  <1>3. QED
    BY <1>1, <1>2, ExclusiveStep, FreshStep, TypeCorrect, BalancesNeverBreak, PTL DEF Spec

-----------------------------------------------------------------------------
(* Refinement of AtomicLedger. *)

Balances == [x \in Wallets |-> Balance(Lengths, x)]
MovementStep == \E r \in Requests : Movements!Move(r)

LEMMA UsedKeys ==
  ASSUME NEW u, NEW k
  PROVE  <<u, k>> \in Used <=> Found(Lengths, u, k)
  BY DEF Used, Found, HasKey, Lengths

(* The balance of every wallet after a commit. *)
LEMMA CommitBalance ==
  ASSUME TypeOK, BalancesChain, NEW w \in Workers, Commit(w), NEW x \in Wallets
  PROVE  /\ Balances'[x] = Balances[x] + Movements!Delta(tx[w].req, x)
         /\ Balances'[x] >= 0
  <1> DEFINE r == tx[w].req
  <1>1. Len(ledger[x]) \in Nat
    BY DEF TypeOK
  <1>2. r \in Requests /\ r \in Request
    BY CommitRequest, RequestFacts
  <1>3. Balances[x] = Balance(Lengths, x) /\ Balances[x] \in Int /\ Balances[x] >= 0
    BY CurrentBalance DEF Balances
  <1>4. Balances'[x] = IF Len(ledger'[x]) = 0 THEN 0 ELSE ledger'[x][Len(ledger'[x])].closing
    BY DEF Balances, Balance, Lengths
  <1>5. CASE x \in Read(r)
    <2>1. Balances'[x] = Added(tx[w], x).closing
      BY <1>1, <1>4, <1>5, CommitEntries
    <2>2. Movements!Delta(r, x) = IF NewType(r, x) = "CREDIT" THEN r.amount ELSE -r.amount
      BY <1>2, <1>5, RequestFacts DEF Movements!Delta, NewType, Read, Source, Target
    <2>3. r.amount \in Int
      BY <1>2 DEF Request
    <2>4. Added(tx[w], x).closing >= 0
          /\ Added(tx[w], x).closing = IF NewType(r, x) = "CREDIT" THEN Balances[x] + r.amount
                                       ELSE Balances[x] - r.amount
      BY <1>3, <1>5, AddedEntry
    <2> HIDE DEF r
    <2>5. QED
      BY <1>3, <2>1, <2>2, <2>3, <2>4 DEF r
  <1>6. CASE x \notin Read(r)
    <2>1. ledger'[x] = ledger[x]
      BY <1>6, CommitEntries
    <2>2. Balances'[x] = Balances[x]
      BY <1>3, <1>4, <2>1 DEF Balance, Lengths
    <2>3. Movements!Delta(r, x) = 0
      BY <1>6 DEF Movements!Delta, Read, Source, Target
    <2>4. QED
      BY <1>3, <2>2, <2>3
  <1>7. QED
    BY <1>5, <1>6

LEMMA CommitMoves ==
  ASSUME TypeOK, BalancesChain, NEW w \in Workers, Commit(w)
  PROVE  Movements!Move(tx[w].req)
  <1> DEFINE r == tx[w].req
  <1>1. r \in Requests /\ r \in Request
    BY CommitRequest, RequestFacts
  <1>2. Movements!UsedBy(r) \cap Used = {}
    <2>1. <<r.user, <<r.key>>>> \notin Used
      BY UsedKeys DEF Commit, Unique
    <2>2. r.op = "transfer" => <<r.to, Movements!ReceiverKey(r)>> \notin Used
      BY UsedKeys DEF Commit, Unique, createReceiverIdempotencyKey, Movements!ReceiverKey
    <2>3. QED
      BY <2>1, <2>2 DEF Movements!UsedBy
  <1>3. \A x \in Wallets : Balances[x] + Movements!Delta(r, x) >= 0
    BY CommitBalance
  <1>4. Balances' = [x \in Wallets |-> Balances[x] + Movements!Delta(r, x)]
    <2>1. Balances' = [x \in Wallets |-> Balances'[x]]
      BY DEF Balances
    <2>2. QED
      BY <2>1, CommitBalance
  <1>5. \A x \in Wallets : Len(ledger[x]) \in Nat
    BY DEF TypeOK
  <1>6. Used' \subseteq Used \cup Movements!UsedBy(r)
    <2> SUFFICES ASSUME NEW x \in Wallets, NEW i \in 1..Len(ledger'[x])
                 PROVE  <<x[1], ledger'[x][i].key>> \in Used \cup Movements!UsedBy(r)
      BY DEF Used
    <2>1. CASE i \in 1..Len(ledger[x])
      BY <2>1, CommitEntries DEF Used
    <2>2. CASE i \notin 1..Len(ledger[x])
      <3>1. x \in Read(r) /\ i = Len(ledger[x]) + 1
        BY <1>5, <2>2, CommitEntries
      <3>2. ledger'[x][i].key = NewKey(r, x)
        BY <3>1, CommitEntries, AddedEntry
      <3>3. QED
        BY <3>1, <3>2 DEF Movements!UsedBy, Movements!ReceiverKey, NewKey, Read, Source,
                         Target, createReceiverIdempotencyKey
    <2>3. QED
      BY <2>1, <2>2
  <1>7. Used \subseteq Used'
    <2> SUFFICES ASSUME NEW p \in Used PROVE p \in Used'
      OBVIOUS
    <2>1. PICK x \in Wallets : \E i \in 1..Len(ledger[x]) : p = <<x[1], ledger[x][i].key>>
      BY DEF Used
    <2>2. PICK i \in 1..Len(ledger[x]) : p = <<x[1], ledger[x][i].key>>
      BY <2>1
    <2>3. i \in 1..Len(ledger'[x]) /\ ledger'[x][i] = ledger[x][i]
      BY <1>5, CommitEntries
    <2>4. QED
      BY <2>2, <2>3 DEF Used
  <1>8. Movements!UsedBy(r) \subseteq Used'
    <2>1. ASSUME NEW x \in Read(r) PROVE <<x[1], NewKey(r, x)>> \in Used'
      <3>1. x \in Wallets
        BY <1>1, RequestFacts
      <3>2. Len(ledger[x]) + 1 \in 1..Len(ledger'[x])
            /\ ledger'[x][Len(ledger[x]) + 1].key = NewKey(r, x)
        BY <1>5, <2>1, <3>1, CommitEntries, AddedEntry
      <3>3. QED
        BY <3>1, <3>2 DEF Used
    <2>2. <<r.user, <<r.key>>>> \in Used'
      BY <2>1 DEF Read, NewKey, Source
    <2>3. r.op = "transfer" => <<r.to, Movements!ReceiverKey(r)>> \in Used'
      BY <1>1, <2>1, RequestFacts
      DEF Read, NewKey, Source, Target, Movements!ReceiverKey, createReceiverIdempotencyKey
    <2>4. QED
      BY <2>2, <2>3 DEF Movements!UsedBy
  <1>9. QED
    BY <1>2, <1>3, <1>4, <1>6, <1>7, <1>8 DEF Movements!Move, Movements!Wallets, Wallets, Balances

(* The initial ledger is empty. *)
LEMMA InitMovements == Init => Movements!AtomicInit
  <1> SUFFICES ASSUME Init PROVE Movements!AtomicInit
    OBVIOUS
  <1>1. \A x \in Wallets : Len(ledger[x]) = 0
    BY DEF Init
  <1>2. Balances = [x \in Wallets |-> 0]
    BY <1>1 DEF Balances, Balance, Lengths
  <1>3. Used = {}
    BY <1>1 DEF Used
  <1>4. QED
    BY <1>2, <1>3 DEF Movements!AtomicInit, Movements!Wallets, Wallets, Balances

LEMMA StepMovements ==
  TypeOK /\ BalancesChain /\ [Next]_vars => [MovementStep]_<<Balances, Used>>
  <1> SUFFICES ASSUME TypeOK, BalancesChain, [Next]_vars
               PROVE  [MovementStep]_<<Balances, Used>>
    OBVIOUS
  <1>1. ASSUME NEW w \in Workers, Commit(w) PROVE MovementStep
    BY <1>1, CommitMoves, CommitRequest DEF MovementStep
  <1>2. CASE UNCHANGED ledger
    <2>1. Balances' = Balances
      BY <1>2 DEF Balances, Balance, Lengths
    <2>2. Used' = Used
      BY <1>2 DEF Used
    <2>3. QED
      BY <2>1, <2>2
  <1>3. QED
    BY <1>1, <1>2, LedgerSteps DEF vars

(* The database transactions with their locks, snapshots and aborts         *)
(* implement movements of money that happen at once, in both wallets, never *)
(* twice for a key and never below zero.                                    *)
THEOREM ImplementsAtomicMovements == Spec => AtomicMovements
  <1>1. Init => Movements!AtomicInit
    BY InitMovements
  <1>2. TypeOK /\ BalancesChain /\ [Next]_vars
          => [\E r \in Requests : Movements!Move(r)]_<<[x \in Wallets |-> Balance(Lengths, x)], Used>>
    BY StepMovements DEF MovementStep, Balances
  <1>3. QED
    BY <1>1, <1>2, TypeCorrect, BalancesNeverBreak, PTL
    DEF Spec, AtomicMovements, Movements!AtomicSpec
=============================================================================
