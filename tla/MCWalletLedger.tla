---------------------------- MODULE MCWalletLedger ----------------------------
(* An instance of WalletLedger with two scenarios: transfers between two    *)
(* users, and postings to the wallets of a third.                           *)
EXTENDS WalletLedger

CONSTANTS k1, k2, k3, w1, w2

Post(u, op, type, wallet, amount, key) ==
  [op |-> op, user |-> u, to |-> u, wallet |-> wallet, type |-> type,
   amount |-> amount, key |-> key]
Transfer(from, to, amount, key) ==
  [op |-> "transfer", user |-> from, to |-> to, wallet |-> "MAIN", type |-> "DEBIT",
   amount |-> amount, key |-> key]

(* One user's wallets: a key used for two wallets and for two kinds of      *)
(* posting, credits and debits of the same wallet.                          *)
Postings ==
  {Post(3, "create", "CREDIT", "MAIN", 2, k1), Post(3, "create", "CREDIT", "AEPS", 1, k1),
   Post(3, "linked", "CREDIT", "MAIN", 3, k1), Post(3, "commission", "DEBIT", "MAIN", 2, k2),
   Post(3, "create", "DEBIT", "MAIN", 1, k3)}

(* Opposite transfers and the money for them, one of them repeated with     *)
(* another amount.                                                          *)
Transfers ==
  {Post(1, "create", "CREDIT", "MAIN", 2, k1), Transfer(1, 2, 1, k2), Transfer(1, 2, 2, k2),
   Transfer(2, 1, 1, k2)}

PostingsAndTransfers == Postings \cup Transfers

(* Nothing has happened to the wallets of these users. *)
Untouched(users) ==
  /\ \A x \in Wallets : x[1] \in users => ledger[x] = <<>>
  /\ \A w \in Workers : Active(w) => tx[w].req.user \notin users

Scenario == Untouched({1, 2}) \/ Untouched({3})

MCSpec == Init /\ [][Next /\ Scenario']_vars /\ Fairness
=============================================================================
