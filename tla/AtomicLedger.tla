----------------------------- MODULE AtomicLedger -----------------------------
(* What the wallet ledger promises its callers: every wallet has a balance  *)
(* that is never negative, a request moves its money in one step, and a     *)
(* key of a user moves money once.                                          *)
EXTENDS Integers

CONSTANTS
  Users,
  WalletTypes,
  Requests   \* the requests that may arrive, see WalletLedger

VARIABLES
  balance,   \* of each wallet
  used       \* the pairs of user and key that moved money

Wallets == Users \X WalletTypes

ReceiverKey(r) == <<r.user, r.to, r.key>>

(* What a request adds to a wallet. *)
Delta(r, x) ==
  IF x = <<r.user, r.wallet>>
  THEN IF r.type = "CREDIT" THEN r.amount ELSE -r.amount
  ELSE IF r.op = "transfer" /\ x = <<r.to, r.wallet>> THEN r.amount
  ELSE 0

UsedBy(r) ==
  {<<r.user, <<r.key>>>>}
    \cup IF r.op = "transfer" THEN {<<r.to, ReceiverKey(r)>>} ELSE {}

AtomicInit ==
  /\ balance = [x \in Wallets |-> 0]
  /\ used = {}

Move(r) ==
  /\ UsedBy(r) \cap used = {}
  /\ \A x \in Wallets : balance[x] + Delta(r, x) >= 0
  /\ balance' = [x \in Wallets |-> balance[x] + Delta(r, x)]
  /\ used' = used \cup UsedBy(r)

AtomicSpec ==
  AtomicInit /\ [][\E r \in Requests : Move(r)]_<<balance, used>>
=============================================================================
