----------------------------- MODULE WalletLedger -----------------------------
(* The transactions table of the transaction-service: the ledger of every   *)
(* wallet, and the operations that append to it while other requests do the *)
(* same.                                                                    *)
(*                                                                          *)
(* Every operation runs one Serializable database transaction.  Its first   *)
(* statement takes a wallet's advisory lock, and the snapshot it reads from *)
(* is taken when that statement starts, before the lock is granted.  It     *)
(* then looks for an entry with its key, reads the last entry of the wallet *)
(* and inserts.  PostgreSQL aborts it (P2034) if a wallet whose balance it  *)
(* read has entries its snapshot does not show, and the unique index on     *)
(* user and key refuses a second entry (P2002).                             *)
(*                                                                          *)
(* Amounts are integers (paise).  The sequence column is the position in    *)
(* the wallet: it is drawn while the wallet's lock is held.                 *)
EXTENDS Integers, Sequences, FiniteSets

CONSTANTS
  Users,        \* numbers, in the order the lock names sort
  WalletTypes,
  Keys,         \* idempotency keys
  Requests,     \* the requests that may arrive; each may arrive any number of times
  Workers,      \* operations in progress at the same time
  NoRequest     \* the request of an idle worker

(* createTransaction, createCommissionTransaction and transferMoney;        *)
(* "linked" is an entry of a provider transaction, posted by                *)
(* postProviderWalletEntry or createReversalWalletEntry.                    *)
Operations == {"create", "commission", "transfer", "linked"}

Request == [op: Operations, user: Users, to: Users, wallet: WalletTypes,
            type: {"CREDIT", "DEBIT"}, amount: Nat \ {0}, key: Keys]

(* validateAmount and validatePeerTransfer; commissions are debited.        *)
ValidRequest(r) ==
  /\ r \in Request
  /\ r.op \in {"transfer", "commission"} => r.type = "DEBIT"
  /\ r.op = "transfer" => r.wallet = "MAIN" /\ r.user # r.to

ASSUME LedgerAssumption ==
  /\ Users \subseteq Nat
  /\ \A r \in Requests : ValidRequest(r)
  /\ NoRequest \notin Requests

VARIABLES
  ledger,    \* the entries of each wallet, oldest first
  tx,        \* the database transaction of each worker
  answered   \* the requests that were answered with an entry

vars == <<ledger, tx, answered>>

Wallets == Users \X WalletTypes

(* The keys of the receiver's entries are digests of sender, receiver, key. *)
createReceiverIdempotencyKey(r) == <<r.user, r.to, r.key>>
EntryKeys == {<<k>> : k \in Keys} \cup (Users \X Users \X Keys)

(* The transfer reference is random; it is named by its sender and key.     *)
Entry == [op: Operations, key: EntryKeys, reference: Users \X Keys,
          type: {"CREDIT", "DEBIT"}, amount: Nat \ {0}, opening: Int, closing: Int]

(* A transaction has its snapshot, as the number of entries of each wallet, *)
(* and has been granted the first `held' of its locks; waited says that the *)
(* first was not free when the snapshot was taken.                          *)
Transaction == [req: Requests, seen: [Wallets -> Nat], held: 0..2, waited: BOOLEAN]
NoTransaction == [req |-> NoRequest, seen |-> [x \in Wallets |-> 0], held |-> 0,
                  waited |-> FALSE]

TypeOK ==
  /\ ledger \in [Wallets -> Seq(Entry)]
  /\ tx \in [Workers -> Transaction \cup {NoTransaction}]
  /\ answered \subseteq Requests

Init ==
  /\ ledger = [x \in Wallets |-> <<>>]
  /\ tx = [w \in Workers |-> NoTransaction]
  /\ answered = {}

Active(w) == tx[w] # NoTransaction
Source(r) == <<r.user, r.wallet>>
Target(r) == <<r.to, r.wallet>>

-----------------------------------------------------------------------------
(* Reading.  n[x] is the number of entries of x that the reader sees.       *)

Balance(n, x) == IF n[x] = 0 THEN 0 ELSE ledger[x][n[x]].closing
Lengths == [x \in Wallets |-> Len(ledger[x])]

(* The i-th entry of x is the user's entry with the key. *)
HasKey(x, i, u, k) == x[1] = u /\ ledger[x][i].key = k
Found(n, u, k) == \E x \in Wallets : \E i \in 1..n[x] : HasKey(x, i, u, k)

(* Mutant: an entry with the key is taken for the request's own. *)
MutMatches(n, r, x, i) == TRUE

(* A duplicate is compared with the request, except by createTransaction    *)
(* and createCommissionTransaction.                                         *)
Matches(n, r, x, i) ==
  LET e == ledger[x][i] IN
  \/ r.op \in {"create", "commission"}
  \/ /\ x = Source(r)
     /\ e.op = r.op /\ e.type = r.type /\ e.amount = r.amount
     /\ r.op = "transfer" =>
          \E j \in 1..n[Target(r)] :
            LET f == ledger[Target(r)][j] IN
            /\ f.reference = e.reference
            /\ f.op = "transfer" /\ f.type = "CREDIT" /\ f.amount = r.amount

Answerable(n, r) ==
  \E x \in Wallets : \E i \in 1..n[x] :
    HasKey(x, i, r.user, <<r.key>>) /\ Matches(n, r, x, i)

(* The request is answered with the entry its key has, or refused. *)
Reply(n, r) == answered' = IF Answerable(n, r) THEN answered \cup {r} ELSE answered

-----------------------------------------------------------------------------
(* Locks. *)

(* Mutant: a transfer takes the sender's lock first. *)
MutLocks(r) == IF r.op = "transfer" THEN <<Source(r), Target(r)>> ELSE <<Source(r)>>

(* The lock names of a transfer are sorted. *)
Locks(r) ==
  IF r.op # "transfer" THEN <<Source(r)>>
  ELSE IF r.user < r.to THEN <<Source(r), Target(r)>>
  ELSE <<Target(r), Source(r)>>

Held(w) == IF Active(w) THEN {Locks(tx[w].req)[i] : i \in 1..tx[w].held} ELSE {}
Free(x) == \A w \in Workers : x \notin Held(w)

End(w) == tx' = [tx EXCEPT ![w] = NoTransaction]

-----------------------------------------------------------------------------
(* An operation. *)

(* The check outside the transaction; linked entries have none. *)
AnswerExisting(r) ==
  /\ r.op # "linked"
  /\ Found(Lengths, r.user, <<r.key>>)
  /\ Reply(Lengths, r)
  /\ UNCHANGED <<ledger, tx>>

(* Such a check that found nothing may be out of date by now. *)
BeginTransaction(w, r) ==
  /\ ~Active(w)
  /\ LET free == Free(Locks(r)[1]) IN
       tx' = [tx EXCEPT ![w] = [req |-> r, seen |-> Lengths, waited |-> ~free,
                                held |-> IF free THEN 1 ELSE 0]]
  /\ UNCHANGED <<ledger, answered>>

AcquireLock(w) ==
  /\ Active(w)
  /\ tx[w].held < Len(Locks(tx[w].req))
  /\ Free(Locks(tx[w].req)[tx[w].held + 1])
  /\ tx' = [tx EXCEPT ![w].held = @ + 1]
  /\ UNCHANGED <<ledger, answered>>

Locked(w) == Active(w) /\ tx[w].held = Len(Locks(tx[w].req))

ReturnDuplicate(w) ==
  LET t == tx[w] IN
  /\ Locked(w)
  /\ Found(t.seen, t.req.user, <<t.req.key>>)
  /\ Reply(t.seen, t.req)
  /\ End(w)
  /\ UNCHANGED ledger

Sufficient(t) ==
  t.req.type = "DEBIT" => t.req.amount <= Balance(t.seen, Source(t.req))

RefuseInsufficient(w) ==
  /\ Locked(w)
  /\ ~Found(tx[w].seen, tx[w].req.user, <<tx[w].req.key>>)
  /\ ~Sufficient(tx[w])
  /\ End(w)
  /\ UNCHANGED <<ledger, answered>>

(* Mutant: no balance is protected. *)
MutSerializable(t) == TRUE

(* The wallets whose balance the transaction reads. *)
Read(r) == IF r.op = "transfer" THEN {Source(r), Target(r)} ELSE {Source(r)}

Serializable(t) == \A x \in Read(t.req) : t.seen[x] = Len(ledger[x])

(* The unique index on user and key. *)
Unique(r) ==
  /\ ~Found(Lengths, r.user, <<r.key>>)
  /\ r.op = "transfer" => ~Found(Lengths, r.to, createReceiverIdempotencyKey(r))

(* Mutant: the parts of the transfer reference are swapped. *)
MutNewEntry(t, x, key, type) ==
  LET opening == Balance(t.seen, x) IN
  [op |-> t.req.op, key |-> key, reference |-> <<t.req.key, t.req.user>>,
   type |-> type, amount |-> t.req.amount, opening |-> opening, closing |-> opening]

NewEntry(t, x, key, type) ==
  LET opening == Balance(t.seen, x) IN
  [op |-> t.req.op, key |-> key, reference |-> <<t.req.user, t.req.key>>,
   type |-> type, amount |-> t.req.amount, opening |-> opening,
   closing |-> IF type = "CREDIT" THEN opening + t.req.amount
               ELSE opening - t.req.amount]

(* Mutant: the receiver is credited on its own later, if at all. *)
MutInserted(t) ==
  [x \in Wallets |->
     IF x = Source(t.req) THEN Append(ledger[x], NewEntry(t, x, <<t.req.key>>, t.req.type))
     ELSE ledger[x]]

Inserted(t) ==
  [x \in Wallets |->
     IF x = Source(t.req) THEN Append(ledger[x], NewEntry(t, x, <<t.req.key>>, t.req.type))
     ELSE IF t.req.op = "transfer" /\ x = Target(t.req)
     THEN Append(ledger[x], NewEntry(t, x, createReceiverIdempotencyKey(t.req), "CREDIT"))
     ELSE ledger[x]]

(* Committed, with or without an answer. *)
Commit(w) ==
  LET t == tx[w] IN
  /\ Locked(w)
  /\ ~Found(t.seen, t.req.user, <<t.req.key>>)
  /\ Sufficient(t) /\ Serializable(t) /\ Unique(t.req)
  /\ ledger' = Inserted(t)
  /\ answered' \in {answered, answered \cup {t.req}}
  /\ End(w)

(* P2002: all but the linked entries read again and answer if they can. *)
UniqueViolation(w) ==
  LET t == tx[w] IN
  /\ Locked(w)
  /\ ~Found(t.seen, t.req.user, <<t.req.key>>)
  /\ Sufficient(t) /\ ~Unique(t.req)
  /\ IF t.req.op = "linked" THEN UNCHANGED answered ELSE Reply(Lengths, t.req)
  /\ End(w)
  /\ UNCHANGED ledger

(* P2034, a lost connection or a crash: the transaction is rolled back and  *)
(* its locks are released.                                                  *)
Abort(w) ==
  /\ Active(w)
  /\ End(w)
  /\ UNCHANGED <<ledger, answered>>

Body(w) == ReturnDuplicate(w) \/ RefuseInsufficient(w) \/ Commit(w) \/ UniqueViolation(w)

(* A conflict the database has to report, and nothing else. *)
Conflict(w) == Locked(w) /\ ~Serializable(tx[w]) /\ Abort(w)

Next ==
  \/ \E r \in Requests : AnswerExisting(r)
  \/ \E w \in Workers, r \in Requests : BeginTransaction(w, r)
  \/ \E w \in Workers : AcquireLock(w) \/ Body(w) \/ Abort(w)

Spec == Init /\ [][Next]_vars

(* PostgreSQL grants a lock to its waiters in turn and runs the statements  *)
(* of a transaction that has its locks.  Nothing has to fail.               *)
Fairness ==
  \A w \in Workers : SF_vars(AcquireLock(w)) /\ WF_vars(Body(w) \/ Conflict(w))

-----------------------------------------------------------------------------
(* Properties. *)

(* Every entry opens with the balance the one before it closed with, and    *)
(* closes with what its amount makes of it; no balance is ever negative.    *)
(* This is what concurrent read-modify-write of one wallet would break.     *)
BalancesChain ==
  \A x \in Wallets : \A i \in 1..Len(ledger[x]) :
    LET e == ledger[x][i] IN
    /\ e.opening = IF i = 1 THEN 0 ELSE ledger[x][i - 1].closing
    /\ e.closing = IF e.type = "CREDIT" THEN e.opening + e.amount ELSE e.opening - e.amount
    /\ e.closing >= 0

(* A user's key moved money once, in whichever of the user's wallets,       *)
(* although the lock taken is only the one wallet's.                        *)
KeysOnce ==
  \A x, y \in Wallets : \A i \in 1..Len(ledger[x]), j \in 1..Len(ledger[y]) :
    x[1] = y[1] /\ ledger[x][i].key = ledger[y][j].key => x = y /\ i = j

(* No money is lost or made by a transfer: the debit of the sender and the  *)
(* credit of the receiver are both there, for the same amount.              *)
Pair(e, f) ==
  e.op = "transfer" /\ f.op = "transfer" /\ e.reference = f.reference
    /\ e.amount = f.amount /\ e.type # f.type

TransfersPaired ==
  \A x \in Wallets : \A i \in 1..Len(ledger[x]) : ledger[x][i].op = "transfer" =>
    \E y \in Wallets \ {x} : \E j \in 1..Len(ledger[y]) : Pair(ledger[x][i], ledger[y][j])

Posted(r, x, key, type) ==
  \E i \in 1..Len(ledger[x]) :
    LET e == ledger[x][i] IN
    e.op = r.op /\ e.key = key /\ e.type = type /\ e.amount = r.amount

(* An answer is never about somebody else's movement: a transfer or a       *)
(* linked posting that was answered is in the ledger as it was asked for.   *)
AnsweredPosted ==
  \A r \in answered : r.op \in {"transfer", "linked"} =>
    /\ Posted(r, Source(r), <<r.key>>, r.type)
    /\ r.op = "transfer" =>
         Posted(r, Target(r), createReceiverIdempotencyKey(r), "CREDIT")

(* The advisory lock makes uncontended requests succeed: an operation on    *)
(* one wallet that did not wait for its lock reads the current balance, so  *)
(* that it is not aborted by another request on that wallet.                *)
UncontendedIsCurrent ==
  \A w \in Workers : Locked(w) /\ ~tx[w].waited /\ tx[w].req.op # "transfer" =>
    Serializable(tx[w])

(* No two transactions wait for each other: every operation ends.           *)
OperationsEnd == \A w \in Workers : Active(w) ~> ~Active(w)

Used == UNION {{<<x[1], ledger[x][i].key>> : i \in 1..Len(ledger[x])} : x \in Wallets}

(* The ledger implements atomic movements of money. *)
Movements ==
  INSTANCE AtomicLedger WITH
    balance <- [x \in Wallets |-> Balance(Lengths, x)],
    used <- Used
AtomicMovements == Movements!AtomicSpec
=============================================================================
