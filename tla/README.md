# Nexus Fintech: formal verification

TLA+ models of the money-moving core of this repository: a NestJS monorepo of
services that talk over Kafka, each with a PostgreSQL database of its own. A
retailer's cash withdrawal or deposit goes from the `api-gateway` to the
`aeps-service`, which calls the external provider (Vimopay) and the
`transaction-service`, the owner of the wallet ledger. The modules say what
these services do when calls overlap, are lost, are repeated or stop half way.

The repository's own documentation is the boilerplate of its framework; the
statements about behaviour that exist are comments in the handlers, partly in
Hinglish. Where a property or a finding relies on one it is quoted.

## The system

| Component | State | Operations | Interacts with |
| --- | --- | --- | --- |
| Wallet ledger (`transaction-service`) | `transactions`: entries of each wallet, with a running balance; unique user + idempotency key | `createTransaction`, `createCommissionTransaction`, `transferMoney`, linked postings | called by wallet-service; advisory locks and Serializable transactions of PostgreSQL |
| Provider transactions (`transaction-service`) | one row per AEPS transaction: status, settlement, commission state, `needsReconciliation`; its linked entries; one reconciliation record | create, prepare, mark processing, finalize, mark unknown, settle, compensate, confirm, commission state, resolve, recover, reverse | aeps-service over Kafka, gateway admins |
| Financial idempotency (`aeps-service`) | one record per retailer, operation and key: status, request hash, intent hash, lock token | `begin`, `complete`, `markUnknown`, `abandonBeforeProvider`, `resolveAfterReconciliation` | the handlers; the gateway after a reconciliation |
| Withdrawal and deposit handlers (`aeps-service`) | none but their position and the provider's answer | `cashWithdrawal`, `cashDeposit`, `aadhaarPay`, enquiries | all of the above, the provider |
| Admin operations (`api-gateway`) | none | resolve, recover, reversal requests, lists | transaction-service, then aeps-service |
| Wallet facade (`wallet-service`) | none | settle, prepare, confirm, compensate, `addMoney`, commission credits | forwards to the transaction-service |
| Commission (`commission-service`, `aeps-service`) | rules, hierarchy, commission transactions and their distributions | quote, settle, distribute, finalize, reverse | wallets of several users |
| Transaction authorizations (`aeps-service`) | OTP authorizations: ISSUED, CONSUMING, CONSUMED, UNKNOWN, EXPIRED | issue, claim, consume, cleanup timer | withdrawals above 5000, aadhaarPay |
| Onboarding and daily 2FA (`aeps-service`) | merchant profile, device, daily 2FA | a status machine driven by the provider | provider |
| Authentication (`auth-service`) | OTPs, sessions, refresh tokens, login limits; Redis copies of some | request and verify OTP, login, rotate, revoke | cache, gateway guards |
| Accounts (`auth-service`) | identities, super-admins and registration drafts: phone, PAN, stage of the onboarding, credentials | register, set and verify a phone, add a PAN, change password and MPIN | the OTP service |
| KYC (`kyc-service`) | KYC applications, rows of documents, their files in the bucket, DigiLocker sessions | create, upload, update, delete, submit | the gateway stores the files and forwards |
| Idempotency of gateway requests | one record per key of a KYC request: identity, operation, hash, status, stored answer | find, create, complete, fail | the handlers of the gateway's KYC controller |
| Bank accounts (`bank-service`) | accounts of an identity, one of them default | add after verification, list | external service |
| Gateway guards, rate limit | counters in the cache | per request | cache |
| Admin, audit, notification services; shared libraries | append-only logs, outgoing messages | | |

What is hard in it:

* **No transaction spans two services.** A handler makes up to eight remote
  calls and a provider call. Each can be lost before or after it was performed,
  and each error path makes calls of its own.
* **Read, then write.** Several updates of a row decide on a read made earlier,
  outside a transaction (`finalizeProviderTransaction` even writes back the
  settlement status it read).
* **At-least-once delivery.** A Kafka call may be performed again, much later.
* **Clients and admins retry**, with the same key or with another one, and two
  admins may work on the same transaction.
* **Locks and snapshots.** The ledger takes an advisory lock inside a
  Serializable transaction whose snapshot is older than the lock.

`PROJECT.json` lists the hazards with their lines and the properties that
would catch each going wrong.

## Modules

| Module | Models |
| --- | --- |
| `ProviderTransaction` | the provider-transaction table and its handlers |
| `VimopayIdempotency` | the idempotency records of the AEPS handlers |
| `CashFlow` | extends both: the handlers, the calls between services, crashes, redelivery, the gateway's admins |
| `ProviderReversal` | the reversal of a transaction while its income is distributed: transaction-, aeps- and commission-service together |
| `WalletLedger` | the ledger under concurrent database transactions |
| `AtomicLedger` | what the ledger promises: movements of money that happen at once |
| `CommissionHierarchy` | who gets a share of whose commission, and the edits of it |
| `CommissionPlan` | the distributions of a rule, their edits, and the division of an income |
| `TxnAuthorization` | the OTP authorizations of large withdrawals, with their timer |
| `OtpService` | sending and verifying one-time passwords |
| `Sessions` | login, refresh, revocation, passwords and the guard's cache |
| `AccountOnboarding` | how an account gets its phone, PAN and own credentials |
| `KycDocuments` | the documents of a KYC application, as rows and as files, and its submission |
| `GatewayIdempotency` | the gateway's stored answers to requests with an idempotency key |
| `...Proofs` | theorems and proofs |
| `MC...` | the instances TLC checks |

### ProviderTransaction

`ptxn[r]` is the row of the reference `r`, `entries[r]` the linked wallet entries
that exist for it (RESERVE, PRINCIPAL, COMPENSATE, and those posted by a
reconciliation), `reconciliation[r]` its record. A handler that runs in one
database transaction is one action. A handler that reads, decides and then
updates by reference is two: `exec[w]` holds what worker `w` read, and between
the two anything may happen to the row. So `FinalizeRead` and `FinalizeWrite`
are the two halves of `finalizeProviderTransaction`, and likewise
`MarkProcessing`, `MarkUnknown`, `Confirm` and `Commission`; resolving is
`ResolveClaim`, then `ResolveApply`, `ResolveDuplicate` or `ResolveAbort` and
`ResolveUndo`; recovering is a chain of steps of its own. `Stop` is a handler
that throws or dies in between. The specification `PtSpec` lets every handler be
called at any time, in any order.

Left out: reversals and the distribution of commissions, which are
`ProviderReversal` (here no row has a reversal, so the guards "blocked if a
reversal exists" are open), provider references, messages and amounts, which no guard of the modelled handlers compares except against the
row's own.

### VimopayIdempotency

`idem[k]` is the record of a key, `attempt[h]` what a handler knows of its own
attempt. A request is told from another by its request hash, an intent by its
intent hash; both hashes are abstracted to the values they tell apart
(`IntentOf`). `begin` runs in a Serializable transaction and is one action with
three outcomes: execute, replay the stored answer, refuse. `Lose` is a handler
that ends without updating its record.

`cashWithdrawal` passes no intent hash to `begin`
(`vimopay-transaction.service.ts:643`), so that its intent is the whole request;
`cashDeposit` and `aadhaarPay` pass one (2979, 1768). `IntentOf` covers both.

### CashFlow

A row of `ptxn` has the key of the request that created it. `flow[h].at` is the
call the handler makes next; `HandlerCall`, `HandlerCallRead` and
`HandlerCallWrite` perform it on the transaction-service, with or without an
answer, and `HandlerCallFails` is a call that was not performed. `OnReply` and
`OnError` are the control flow of the two handlers, error paths included. `Crash`
stops the handler anywhere; what it had sent still happens. `Redeliver` performs
any call that was sent before once more. `CallProvider` is outside the
repository: any of its answers, or an error after which it is not known whether
the money moved. `admin[a]` is a request at the gateway: resolving, then
`syncIdempotencyAfterReconciliation`, whose error the gateway swallows.
`resolved` remembers which keys a reconciliation was applied to, which the
reconciliation's status does not tell (finding 3); no step reads it.

Abstracted: `settleProviderIncome` to its last update of the commission state
(its steps are in `ProviderReversal`). Not modelled here: `aadhaarPay` and
withdrawals above 5000, whose authorizations are `TxnAuthorization`; enquiries;
the lost acknowledgement of the commit of a reconciliation's second
transaction; redelivery of commission updates.

### ProviderReversal

`row` is the transaction, `reversal` its reversal, `commission` and `alloc[a]`
the commission record and its allocations, `wallet` counts the entries each key
has posted. `settler[s]` is a settlement of the income (the handler's own, or
an admin's `reconcileProviderIncome`), `admin[a]` a
`processProviderTransactionReversal`. Every remote call and every query between
a decision and an update is a step. A call can fail before or after it was
performed, and either side can stop, `MaxFaults` times in all; a refused debit
is such a failure. `Claim` is the update of the reversal by its id, without a
guard; `CreditCommit` is a credit whose transaction read no reversal.
`OnFailure` names the handler each failure ends in. Keys and amounts are left
out: `Posted` is the unique key of an entry. `reversal.paid` and `reversal.quiet`
only remember whether, at the request, every allocation was SUCCESS and no
settlement was under way.

The statuses a reversal could take through `startProviderTransactionReversal`,
`completeProviderTransactionReversal` and `failProviderTransactionReversal` are
not modelled: nothing in the repository calls these patterns.

### CommissionHierarchy and CommissionPlan

`hierarchy[i]` is a relationship: parent, child, scope (a service or `Global`),
`isActive` and the `activeScopeKey` that is unique. `hierEditor[e]` is one
request of `createHierarchy`, `updateHierarchy` or `deleteHierarchy`: the
queries of its checks are steps of their own, the walk of
`assertNoCircularHierarchy` one step for each parent, and the write is refused
by the two unique keys (`ViolatesKey`). `hierReader[r]` is a
`resolveHierarchyForUser`. `hierOverlap` remembers that two requests overlapped.

`distribution[i]` is a distribution of the rule with the role its unique key was
made of; `distEditor[e]` an edit; `creator[c]` a request of
`createProviderCommission`, which looks for the commission of its key, reads the
distributions, divides the income and stores the plan. Rounding and the order of
priorities are as in the code (`Paise`, any order of equal priorities); the sum
of the allocations is compared with the income before the plan is stored, and
`PlanAddsUp` says that this check never fails. The roles of a distribution are
finitely many. Which
recipients exist in the hierarchy is any choice. Rules and the roles' catalogue
are left out: a request may be refused for their sake at any point.

### TxnAuthorization

`authorization[i]` is a row, `lapsed` says that its time has passed, `calls`
counts provider calls made with it. `authSender[s]` is `sendTxnOtp`,
`authHandler[h]` an execution: find, expire what was found too late, claim by
the guarded update, prepare, call, and one of consume, unknown, release. It may
stop anywhere. `CleanupExpiredAuthorizations` is the timer. `authOverlap`
remembers that two requests for an OTP overlapped.

### OtpService and Sessions

`otp[i]` is a row of the database, `cachedOtp`, `attempts`, `cooldown` and
`verifyLock` what is in the cache. Every await is a step. What the cache forgets
in time is an action (`CooldownLapses`, `VerifyLockLapses`, `KeysLapse`,
`OtpLapses`). `disturbed` remembers what the properties except: two requests to
send overlapped, a verification outlived its lock, or its state was deleted
under it. The hash comparison is the choice between `WrongGuess` and
`RightGuess`.

`session[s]` has a counter `token` of rotations and the password it was opened
with; `guard[g]` is a request in `JwtAuthGuard.canActivate`, `validation` the
cached verdicts, each under a version; a revocation is an update and then
`AdvanceVersion`, or `AdvanceFails`, whose error is only logged.

### AccountOnboarding

`account[a]` is the row of an identity or a super-admin that an administrator
created, or of a registration, which is a draft until `CompleteRegistration`.
`clerk[c]` is a request in progress: `Receive` reads the row and refuses what its
stage does not allow (`Allowed`), `Look` is one query for the phone or PAN in
another table, `VerifyPhoneOtp` the call of the OTP service, and then one of the
updates follows, each with the condition its `where` has. Passwords and MPINs
count their changes. Which phone was proven for which account (`proven`) is a
ghost variable, and so is `crossed`: the updates of drafts and super-admins have
no condition, and `crossed` holds the accounts whose row was no longer the one
that was read. The properties except them, and so they say most about identities,
for which they have no exception. OTPs are those of `OtpService`, reduced to
which phones have one; sessions, e-mail addresses, user names and Aadhaar
numbers, which only make a request fail, are left out.

### KycDocuments and GatewayIdempotency

`kyc[i]` is the status of an application, `document[i][t]` the row of a type (its
`row` names the request that inserted it, as its id does), `bucket[i][t]` the
files of the type by the request that stored them. `kycRequest[r]` is a request
through both services: the gateway puts the files (`StoreFiles`, which may fail
after some), the kyc-service checks the status, reads rows, looks for another
applicant's number (`CheckStatus`, `ReadRows`, `CheckNumber`), writes
(`WriteRows`, `DeleteRow`) and deletes what it replaced (`DeleteOldFiles`, whose
errors are logged); after a failed call the gateway deletes what it stored
(`CleanUp`). `UpsertRead` and `WriteRows` are the transaction of `upsertAadhaar`,
which reads both sides again. A write is refused when a row came or went since it
was read, when a number's unique index is violated, or by a fault. `Redeliver` is
a consumer that stops after its write. `overtaken` remembers the documents whose
requests crossed in a way the properties except. Only statuses this code sets
occur: nothing approves or rejects an application or a video.

`gwRecord[k]` is the record of an idempotency key with the request that created
it, `gwRequest[q]` a request in `execute`: find, create, run the handler, mark the
record completed or failed, answer. Every update may fail, the handler's answer
may be lost after it was performed, and the gateway may stop (`Stop`). The key
alone is the primary key, while a record is looked for by identity and operation
too, so a key that another identity used is refused.

### WalletLedger and AtomicLedger

`ledger[x]` is the sequence of entries of wallet `x`, `tx[w]` the database
transaction of worker `w`: its request, its snapshot (as the number of entries
of each wallet it sees), how many of its locks it has been granted and whether
it had to wait for the first. `BeginTransaction` is the first statement: it
takes the snapshot and asks for the lock. `AcquireLock` grants one later.
`ReturnDuplicate`, `RefuseInsufficient`, `Commit` and `UniqueViolation` are the
outcomes of the body, `Abort` a serialization failure (P2034) or a crash.
The database is external: a transaction commits only if no wallet whose balance
it read has entries its snapshot does not show, and if its keys are unique. The
serial number of an entry is its position, because it is drawn under the lock.

`AtomicLedger` has a balance per wallet and the set of used keys: a posting or a
transfer happens at once, never overdraws, never uses a key twice. `WalletLedger`
implements it with `balance` as the closing balance of the last entry
(`AtomicMovements`).

## Runs

| Run | Question | Instance |
| --- | --- | --- |
| `rows` | Does a settlement status or a completed reconciliation ever claim a wallet movement that was not made? Is a row reconciled one way only? | a deposit or a withdrawal row, two handlers at a time |
| `flows` | Does money move once and only if earned, is the client told the truth, and is a blocked intent released in the end? | a withdrawal key with a retry, two admins and a redelivered call; one intent under two keys and two admins; one deposit, two admins and a redelivered call |
| `ledger` | Do balances chain, do keys move money once, do transfers have both sides, implement atomic movements, and end? | two wallets of one user and five requests, or two users, opposite transfers and a repeated key; two transactions at a time, fair |
| `reversal` | Is anything compensated or credited twice, is what is shown as reversed reversed, and does a requested reversal complete? | two allocations, one settlement that may be repeated, two admins, one fault |
| `services` | Is an intent executed twice? Does an authorization buy two calls? Is a revoked session accepted, a refresh token exchanged twice? Can an OTP be guessed at without limit, or an old one be used? | one part per behaviour, below |
| `backoffice` | Do requests give a child two parents or close a circle? Do answers to one commission agree, and do its shares add up? Do a document's row and file stay together, and is what was submitted complete? Is a request with a key performed twice? Can a phone count as verified that never was, or an onboarding as completed that was not? | one part per behaviour, below |
| `deposit_retry` | finding 1 | a deposit that is retried |
| `lost_recovery` | finding 2 | one deposit, no admin |
| `two_admins` | finding 3 | one withdrawal, two admins |
| `lost_mark` | finding 4 | the instance of `reversal` with one admin |
| `circular_hierarchy` | finding 5 | three users, one request at a time |
| `one_role` | finding 6 | two roles, two edits |

**Bounds and why they are enough.** No handler of the provider-transaction table
reads or writes two rows, so one row at a time shows every interleaving (the
constraint `OneRow`); a stale write needs two overlapping handlers, one whose
read is old and one that changed the row, and the theorems drop the bound on
both. In CashFlow the number of client attempts (`Handlers`), admins at work
(`Admins`) and redelivered calls (`MaxRedeliveries`) are bounds; an admin can ask
any number of times. A second redelivery of the same call would find what the
first left. `MCFlows` has three scenarios, told apart by the keys the handlers
start with; the deposit has one attempt because a second one is finding 1. In the
ledger every request may arrive any number of times; the request sets are chosen
for the conflicts: one key for two wallets, one key for two operations, one key
with two amounts, opposite transfers, a debit of exactly the balance. A
behaviour of `ledger` touches one of the two sets of users. Amounts are integers
(paise).

`reversal` has two allocations, so that one can fail between the other's, and
`MaxFaults` is one: the hazards listed need one call that is lost, one process
that stops, or two admins and no failure. There is one settlement at a time; the
theorems hold for any number of them.

`services` and `backoffice` check modules that share no variable. A behaviour
chooses one part and only its variables change, so the states add up instead of
multiplying; `Scenario` and `Small` write the restrictions of each part down.

`services`: `intents` (three handlers, two keys, three requests of two intents: a
key can be retried while two others compete for the intent); `authorizations`
(one sender, two executions, two authorizations); `guard` and `refresh` (two
sessions, one change of the password, one revocation at a time; requests at the
guard, or two refreshes); `send` and `verify` (two OTPs, one guess allowed; two
requests to send and a verification, or one and two verifications).

`backoffice`: `hierarchy` (three users, one service and the global scope, up to
three relationships; two requests overlap about one child and two relationships,
which is where the unique keys are contended; three relationships, which a circle
of three needs, are of one scope; a resolution overlaps with one request);
`edits` and `plan` (two distributions, two edits of one role with a percentage
within and one above 100; an income of 101 paise with two shares of 60 percent,
which exceed it, and of 0); `files` (two requests for the documents of an
applicant who has none of them or all; the plain types, which take the path of a
PAN card without its number, are left out); `numbers` (two applicants, one
request each); `answers` (three requests, two keys, two scopes, two payloads);
`accounts` (an identity, a super-admin or a registration with two requests at a
time, two phones, one PAN, one change of each credential; another account may
have taken a phone before).

The theorems drop the bounds of every passing run, but for its liveness
properties; they also cover the plain types that `files` leaves out.

Users of the hierarchy are interchangeable, so that `backoffice` names the two of
the first relationship (`FirstNamed`); workers are, and `rows` uses their
symmetry. `CHECK_DEADLOCK
FALSE` stands where the bounds make the system stop: handlers begin once, or a
finished reversal leaves nothing to do.

**Fairness.** `flows` assumes of the first admin that he does not give up: a
request under way makes progress (WF), a transaction that can be resolved is
asked for again (SF), and neither the apply transaction nor the synchronisation
fails forever (SF). Nothing is assumed of handlers or of the second admin: they
may stop. `BlockedIntentIsReleased` excepts behaviours with a redelivered call or
with two admins at work at once (`Disturbed`), for the reason of finding 3.
`ledger` assumes strong fairness of granting a lock, because PostgreSQL queues
the waiters of a lock, and weak fairness of a transaction that has its locks;
`MutLocks` (the sender's lock first) shows that the sorted lock order is what
the property rests on. `reversal` assumes that a processing that has begun goes
on and that an admin processes a reversal again that is REQUESTED or FAILED
(weak fairness of each admin's step); settlements may stop for good.
`RequestedIsReversed` is stated for the case that in the end one admin is at
work, because two can make each other's last verification fail forever: the
unguarded claim of one sets the principal, which the other is about to verify,
back to PROCESSING. `services` assumes that the cleanup timer runs, that cached
validations expire (both are timers of the program or of Redis), and that a
request or an execution that is not stopped goes on.

## Findings

1. `deposit_retry`. A comment says the key of a deposit whose reservation was
   compensated "can safely be released" (`vimopay-transaction.service.ts:3207`).
   A retry with that key finds the FAILED, COMPENSATED row, takes it for a
   reservation and calls the provider: the deposit may succeed while the
   wallet keeps the refund.
2. `lost_recovery`. "Ensure recovery queue catches it"
   (`vimopay-transaction.service.ts:3496`): when the finalize call had failed as
   well, the row is PROCESSING. The flag is set, but no queue lists a flagged
   PROCESSING row, and resolve and recover refuse it.
3. `two_admins`. A failed reconciliation was rolled back, says
   `transaction.service.ts:2694`. The admin whose transaction is aborted marks
   the shared record FAILED without looking at its status, also when the other
   admin has applied it and set it COMPLETED.
4. `lost_mark`. "PENDING/FAILED were never credited to wallet."
   (`transaction.service.ts:4567`), and the same of allocations in
   `commission.service.ts:1936`. A distribution is credited first and marked
   SUCCESS by another call (`aeps-commission.service.ts:887`); if that call
   fails, the allocation is FAILED and credited, and a reversal completes
   without taking the credit back.
5. `circular_hierarchy`. The comment "CYCLE PROTECTION"
   (`commission-hierarchy.service.ts:132`) calls a circle invalid. The check of a
   global relationship walks the global relationships only, but the resolution
   of a service mixes both: a relationship of a service and global ones can
   close a circle, one request after the other. Every commission of that service
   that meets it is then refused.
6. `one_role`. "ONE RULE + ONE RECIPIENT ROLE = ONE distribution configuration"
   (`commission-distribution.service.ts:53`). A create that reactivates an
   inactive row writes the role by the row's id; if an update moved the row to
   another role in between, the row has one role and the other's unique key, and
   the first role can be created a second time.

Also seen, and no finding because nothing in the repository says otherwise: a
handler that crashes before the provider call leaves its record PROCESSING for
good, and likewise a reversal whose processing stops; `createTransaction` and
`createCommissionTransaction` answer with the entry of their key without
comparing it; `RecoverClear` may clear the flag although a redelivered finalize
has taken the row back in between; a login that was verifying a password while it
was changed opens a session afterwards (`raced`); two shares of 50 percent of an
odd income round up and the commission is refused; with two settlements at work,
`markDistributionFailed` of one, which writes by the id what it decided on an
older read (`commission.service.ts:1524`), hides the success of the other, and
the income is shown as SETTLED with an allocation that a reversal will skip.

In KYC: an update of the number alone writes back the file it read, which an
update in between has deleted (`kyc.service.ts:379`); an upload that is delivered
again is refused as a duplicate, and the gateway then deletes the file the first
delivery stored; a deletion or upload that passed its check before the submission
takes effect after it; `uploadDocument` does not await the deletion in its error
path (`kyc.controller.ts:244`), so its `catch` cannot catch. At the gateway: the
request hash leaves out the files' contents; a request whose record is FAILED is
answered with the stored failure for good, also when the handler failed before
anything was performed; a key that another identity has used is refused with a
database error; `idempotency-key` is documented as not required
(`kyc.controller.ts:164`) and required by `validateIdempotencyKey`.

Of accounts: a registration's phone may be changed while its OTP is verified, and
the update without a condition marks the new one as verified
(`auth.service.ts:205`); a late phone or PAN of a super-admin sets its onboarding
back (`super-admin-auth.service.ts:557`, 682); that no identity and super-admin
share a phone or PAN is looked up but enforced by no index; an identity that an
administrator created never gets an Aadhaar number, which the recovery of an
account demands (`auth.service.ts:1086`).

## Theorems

For every value of the constants: any rows, handlers, keys, requests, wallets.
The assumptions are those the modules name (`LedgerAssumption` and the like);
the model of PostgreSQL is part of the definitions.

**ProviderTransactionProofs.** `TypeCorrect`; `SettlementIsBacked` and
`ReconciliationIsBacked`; `ResolvedOneWay`. `SettlementBacked` is not inductive: a
worker may hold a settlement status it read long ago. `ExecutionsBacked`
strengthens it: what a worker holds is backed too, and stays so because entries
are never taken back and a claim keeps its resolution. One lemma per group of
handlers shows that the conjunction survives each of their actions.

**CashFlowProofs.** First the records on their own: `IntentIsExclusive`,
`LockIsHeld`, `ProviderNotCalledAgain`. The invariant adds to the types that a
PROCESSING record is held by exactly the handler that is executing it; with it a
handler that closes its attempt cannot touch a record that was settled or
replaced. Then withdrawals and deposits, for any keys, handlers, admins and
number of redelivered calls: `OneProviderCall`, `CreditIsEarned`,
`WithdrawalCreditedOnce`, `FailedRecordNotCredited`, `OneDoubtPerIntent`,
and `PrincipalMovedOnce`, `SuccessKeepsDebit`, `RecordTellsWallet`, `IncomeIsLast`;
and `UsesTheTable`, `UsesTheRecords`: the composition implements `PtSpec` and
`IdemSpec`, so that what is proved of the parts holds of it.

Nothing in the rows says what the provider answered, so the invariant (`FlowInv`)
carries the answer through every place it passes. For each key: the provider was
called once and answered once, and a call was sent only if it follows from the
answer (`CallInv`); a final record tells the answer or an applied resolution
(`RecordInv`); the row's status was told or resolved, a reconciliation exists only
of an uncertain call, and each entry was earned (`RowInv`). For each process: what
a worker is about to write was told (`WorkInv`, because a redelivered write may be
late by any number of steps); a handler that has not called the provider holds
the record of its key and the key has no answer (`StandInv`, which is why a second
handler cannot call it); an admin who asks for the record's synchronisation
resolved the row (`AskInv`). Answers, sent calls and entries only grow and a claim
keeps its resolution, so what was told stays told (`Steady`, `Grows`,
`FactsStay`); each action is shown to keep the rows' part, the calls', its own
process's, and to leave the others alone.

The four theorems about refunds are stated under `NoFailedRetry`: no deposit that
was reported FAILED was sent to the provider with another outcome. Finding 1 is
what happens otherwise, so the condition cannot be dropped; it is a condition on
the state, and the theorems hold in every state that satisfies it, also after a
retry that did no harm. What concerns withdrawals is proved without it
(`WithdrawalCreditedOnce`, `FailedRecordNotCredited`).

**WalletLedgerProofs.** `TypeCorrect`, `BalancesNeverBreak`, `KeyMovesMoneyOnce`,
`TransfersHaveBothSides`, `AnswersAreTrue`, `UncontendedReadsAreCurrent` and
`ImplementsAtomicMovements`. Balances chain because a transaction that commits
read the current last entry of each wallet it appends to. `AnswersAreTrue` needs
`EntriesNamed` (who owns a reference and a receiver's key) and `SnapshotsPast`
(snapshots are prefixes). `UncontendedReadsAreCurrent` is the argument for the
lock: `LocksExclusive`, and `FreshIfUncontended`, that nobody else can have
appended since the snapshot if the lock was free when it was taken. The
refinement maps `Commit` to one movement and every other step to a stutter.

**CommissionProofs.** Of the hierarchy: `TypeCorrect`, `ScopeKeyIsReleased`,
`ParentIsUnique`, `RecipientsAreDistinct` and `NoCircles`. The last is the long
one: a walk in progress has to carry what it has already excluded. While no
requests overlap, the walk of `CheckCycle` has seen a path of parents from the
proposed parent, none of which is the child, and nobody can change it; when it
ends, the set of those users is closed under parents, and adding the child below
it cannot close a circle. Circles are stated as a set of users each of which has
a parent in the set, so that no path or recursion is needed.

Of the plan: `PlanTypeCorrect`, `PercentagesStayWithin`, `OneDivisionPerKey`,
`PlansAddUp` and `IncomeGivenInFull`. The first two invariants are those of
guarded updates (`DistributionsInv`) and of a unique key (`CommissionInv`). That
the shares add up to the income, so that the check before the commission is
stored (`commission.service.ts:1322`) never fires, is a statement about a sum over
a finite set of roles. The recursive function behind `MapThenSumSet` is shown to
exist, to stay in the natural numbers and to grow with a share (`SumsExist`,
`SumsStayIn`, `SumsGrow`) by induction over the subsets of a finite set (`SubsetsFromSmaller`); the library's induction rules cannot be
used here, but that a set of natural numbers has a least element can
(`LeastNatural`, from the well-foundedness of `<`), and the least cardinality of a
counterexample is as good. `DivisionInv` then says of each request that what it
has allocated and what remains make up the income, whatever shares it has added
in whatever order, and of the stored plan that nothing remains.

**ServicesProofs.** Of the authorizations: `AuthTypeCorrect`, `ClaimIsExclusive`,
`OneOtpOneCall` and `NewestIsUsable`. What an execution holds is not told by the
status, which a late expiry may overwrite: the invariant says that an
authorization that is held or was used is not ISSUED, that nobody else holds it,
and that it was called once exactly when its holder has made the call.

Of the sessions: `SessionTypeCorrect`, `RevocationIsFinal`, `RefreshIsExclusive`
and `PasswordEndsSessions`. Rows of sessions only go onward (`Onward`). A verdict
can be stored long after it was found, so `RevokedIsRefused` needs to know where
verdicts may still come from: `PassesInv` says that every verdict that would let a
flushed session pass, cached or still carried by a request at the guard, is of an
older version than the current one, and `AsksLate` that a request which began
after the revocation asks for a version that no such verdict has. For refreshes,
the token a request holds is at most the session's while it is to be rotated and
smaller once it is (`RefreshInv`).

Of the OTPs: `OtpTypeCorrect`, `NewestOtpOnly`, `GuessesAreBounded` and
`OtpIsUsedOnce`. `OtpInv` says that without a disturbance one request sends
(`OneSends`) and the holder of the lock alone verifies (`OneVerifies`). The bound
on the guesses is about the row, while the code counts in the cache: `GuessInv`
relates the two. The counter belongs to the cached OTP or to one that has lapsed
(`CounterInv`), whoever verifies works on that OTP and has been below the limit
(`Verified`), and a request that sends has emptied both before its new OTP can be
guessed at (`Fresh`).

**GatewayProofs.** Of the idempotency records: `GwTypeCorrect`, `PerformedOnce`
and `AnswersBelong`. `OnceForKey` is not inductive: it does not say who may still
perform. The invariant adds that a record keeps its creator, that only the
creator of its key's record is running or has performed, and that a COMPLETED
record's creator has performed; then one lemma, `StepOfOne`, shows that a step
which moves one request and changes no record but its own preserves it, and each
action is an instance of it.

Of the KYC documents: `KycTypeCorrect`, `SubmittedHasAll` and `FilesAreKept`, for
any applicants, requests, numbers and plain types. Rows, files and requests are
kept together by no transaction, so `KycInv` says what each request still owes:
a submission that has read the documents has seen them, or their deletion counts
as overtaken (`Submits`); the new files of a request that may still write are in
the bucket (`Brings`); a file that a request is about to delete is named by no
row (`Tidies`). That the clean-up after a failed call takes nobody's file rests on
`Owned`: a file that a row names, or that a request has read in one, was stored by
a request that has finished with it. `WritingKeeps` and `ThinkingKeeps` reduce a
step to its own request; each action is an instance of one of the two.

**AccountOnboardingProofs.** `OnbTypeCorrect`, `VerifiedIsProven` and
`CompletedWasOnboarded`. A request acts on the row it read, which may have moved
on. The invariant says that a row which no unconditional update has crossed, and
what each request has read of one, is `Sound` (it is verified exactly from the
stage PAN_PENDING on, its phone was proven, and it has the PAN and the changed
credentials of its stage); that a request was allowed by what it read, and a
verification at its write has proven the phone it read; and that the row of a
pending change of the MPIN stays `Completable`, because no conditional update
takes it back. `KeptByStep` shows that a step whose changed rows and requests are
right preserves it, `PutKeeps` instantiates that for a write, and each action is
an instance of one of the two.

**ProviderReversalProofs.** `TypeCorrect`, `PostedOnce`, `DebitsFollowCredits`,
`ReversedHasPrincipal`, `StaysReversed` and `AllIsUndone`. The invariant has one
part for the services' rows and one for each process: what a settlement or an
admin is about to do was right when it decided, and stays right because entries,
the reference of the commission and the compensated settlement are never taken
back (`Grows`). So every step is shown to grow, to keep the rows' part, and to
leave its own process right (`Moves`, `Leads`). For `AllIsUndone`, a commission
that was paid in full and left quiet has no settlement in its loop any more, and
each of its allocations is SUCCESS or REVERSED.

**Model-checked only.** The liveness properties (`OperationsEnd`,
`BlockedIntentIsReleased`, `RequestedIsReversed`, `LapsedEndsUnusable`,
`RevokedEndsRefused`), which are out of the prover's reach. Every safety invariant
and action property of the passing runs is stated by a theorem.

**Proved and not run.** The type invariants, the refinements of the parts by
CashFlow, `CreditedOnce` and `FailedIsNotCredited`, and `ExecutionsBacked`, `KeysOnce`,
`TransfersPaired`, `UncontendedIsCurrent`, `RecipientsDistinct`, `HeldByExecutor`, `ScopeKeyFollowsActivity`, `ClaimedByOne`,
`OldPasswordEndsSessions`, `OtpUsedOnce`, `PercentWithinHundred`, `IncomeIsDivided` and `AnswersAreOwn`, which theorems state for every instance.

## Not modelled

* Generated code: 90 thousand of the repository's 150 thousand implementation
  lines are Prisma clients (`generated/`), which the models use through the
  queries of the services.
* Controllers, DTOs, configuration, logging and the roles, permissions and
  throttling guards: they decide on one request and keep no state.
* Merchant onboarding and the daily 2FA: a row that follows the provider's
  answers. Bank accounts: verified by an external service, no money moves.
* DigiLocker sessions of the kyc-service, which are driven by redirects from
  outside; approval and rejection of an application, which no code performs.
* Commission rules and their matching, the older path that quotes, prepares,
  executes and cancels a commission the merchant is charged, `addMoney`.
* Trusted devices, login history, the choice of a login method, and the edits of
  roles and permissions.
* Admin, audit and notification services: append-only logs and messages.
* Patterns nobody calls (`startProviderTransactionReversal` and its siblings).
