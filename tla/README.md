# A TLA+ model of payflow-api

payflow-api is a payment service: FastAPI handlers, PostgreSQL through async SQLAlchemy, and Redis.
A payment is deduplicated by an idempotency key, scored by a fraud engine, run under a distributed
lock on the merchant's wallet, posted to a double-entry ledger, announced by webhooks, and committed
by the session dependency after the handler has returned.  Each of these services is sound when read
alone; what is hard is how they overlap in time.  This directory models that.

`file.py:12` means `src/app/**/file.py`, line 12.  `PROJECT.json` lists for every definition the
lines it stands for, for every hazard the properties that cover it, and for every property a mutant.

## 1. The system

| Component | State it keeps | Operations | Talks to |
|---|---|---|---|
| Ledger (`services/ledger.py`, `models/account.py`, `models/journal_entry.py`) | `accounts.cached_balance`, `accounts.status`, append-only `journal_entries` | `post_double_entry`, `get_balance`, `get_true_balance`, `verify_balance_integrity` | PostgreSQL rows, by `SELECT ... FOR UPDATE` |
| Lock manager (`services/lock_manager.py`, `core/redis.py`) | `lock:<resource>` keys with a token and a TTL | `acquire`, `release`, `lock()`; `extend` and `force_release`, which the handlers do not call | Redis |
| Idempotency (`services/idempotency.py`) | a result key and a lock key per merchant and key; the unique index on `transactions.idempotency_key` | `process_with_idempotency` and its four Redis helpers | Redis, and the processor it is given |
| Transaction engine (`services/transaction_engine.py`) | `transactions.status` | `process_payment`, `_do_process` | all the other services |
| Fraud engine (`services/fraud_engine.py`) | a velocity counter per merchant in Redis | `evaluate`: seven rules, a score, block or review | Redis; reads committed `transactions` |
| Webhook dispatcher (`services/webhook_dispatcher.py`, `models/webhook.py`, `api/v1/webhooks.py`) | `webhook_endpoints`, `webhook_deliveries` | `dispatch`, `retry_delivery`, endpoint CRUD | the merchants' servers, by HTTP |
| Payment handlers and session (`api/v1/transaction.py`, `wallets.py`, `core/database.py`) | one database transaction per request | `create_transaction`, `transfer`; `get_db` commits or rolls back **after** the handler | the engine |
| Simulate endpoints (`api/v1/simulate.py`) | what the payments they make leave | several payments in one session, their exceptions swallowed; a probe of the fraud engine with a counter set by hand | the engine, the fraud engine, the dispatcher |
| Merchants and authentication (`api/v1/merchants.py`, `api/router.py`) | `merchants` | `register`, `login`, `get_current_merchant`, `update_profile`, `change_password`, `generate_key` | PostgreSQL |
| Rails, workers, schemas, configuration, migrations | none at run time | rails are called by nothing; the four files under `workers/` are empty | |

### What is hard about it

* **Order.** `get_db` commits after the handler has returned (`database.py:47-48`).  The result in
  Redis, the release of the idempotency lock, the release of the wallet lock and the webhook
  `payment.completed` all come *before* that commit.
* **Stale objects.** An `Account` loaded by the engine stays in the session's identity map;
  `SELECT ... FOR UPDATE` locks its row and does not refresh the object.  The funds check and the new
  `cached_balance` come from the balance read before the lock.
* **Locks that expire, or whose reply is lost.** Redis keys have a TTL that nothing renews, and
  `retry_on_timeout` repeats a `SET NX` that may have worked.
* **Two kinds of lock, held together.** A payment holds a Redis key while it waits for row locks.
* **Failure half-way.** Every exception, crash or failing `COMMIT` drops the session's rows, but
  neither the Redis keys nor the events already sent.  A `COMMIT` whose reply is lost is worse: the payment
  exists and is answered with an error.
* **Racing retries.** `retry_delivery` is a read-modify-write without a lock around a long HTTP call.
* **Swallowed exceptions.** `/simulate/idempotency` turns every exception into an entry of its answer
  (`simulate.py:133`) and `get_db` commits what they left.  If the exception was a failed flush, the
  session is unusable from then on, and the whole answer is undone (`simulate.py:116`).  If it was another
  failed statement, the transaction is aborted and its `COMMIT` saves nothing, without saying so.
* **A row that goes away.** An endpoint may be deleted (`webhooks.py:122`) between the SELECT of a
  dispatch and the INSERT of its record: the foreign key then fails in the middle of a payment.
* **A counter that everybody renews.** Each evaluation, also of a payment that is refused, increments the
  velocity key and renews its TTL (`fraud_engine.py:98`).
* **Look, then insert.** `register` looks for the e-mail and inserts in two steps; a profile change
  compares with, and writes over, a row it loaded before.

The list with lines is `hazards` in `PROJECT.json`.

## 2. Modules

```
DoubleEntryBook <--implements-- Ledger <--extends-- LedgerAudit      (MCLedger)
                                  ^ INSTANCE
LockManager <-----INSTANCE---- PaymentEngine                         (MCLockManager, MCPaymentEngine)
AtMostOnce <---implements--- Idempotency                             (MCIdempotency)
PaymentSession                                                       (MCPaymentSession)
Charges <-----extends------- FraudEngine                             (MCFraudEngine)
WebhookDelivery                                                      (MCWebhookDelivery)
Merchants                                                            (MCMerchants)
LedgerProofs, LockProofs, IdempotencyProofs, PaymentEngineProofs,
SessionProofs, FraudProofs, WebhookProofs, MerchantsProofs
```

The three views of a payment overlap on purpose.  `Idempotency` follows concurrent requests with one key
and abstracts the engine to "succeeds or raises".  `PaymentEngine` follows concurrent payments of one
wallet in the detail of the ledger and of leases, without idempotency.  `PaymentSession` has the whole of
`process_payment` in the session of its request, with one wallet and without leases or amounts, and asks
what is committed.

An `MC` module only gives values to constants.  A definition under a comment that starts with *Slip*
is not used by its module: it is a plausible mistake in the definition after it, and the mutant of a
property puts it in that place.

### Ledger, LedgerAudit, DoubleEntryBook

A *session* is one database transaction at READ COMMITTED, serving one request.  `cached` and `journal`
are what is committed, `copy` is the identity map, `rowLock` the row locks.

| Action | Code |
|---|---|
| `LoadWallet`, `LoadEscrow` | `_get_account`, `_get_platform_escrow`: plain SELECTs into the map |
| `RejectAmount` | the check before the locks (`ledger.py:155`) |
| `GetForUpdate` | `_get_account_for_update` in sorted order; raises on a frozen or closed account with the row already locked; `copy` stays as it was |
| `Insufficient`, `Post` | the funds check and the two `_create_journal_entry` calls, on the objects |
| `Commit`, `Rollback` | `get_db` |
| `Fails`, `Abort` | an exception at any point; a lost connection, a dead process, a failing COMMIT |

`DoubleEntryBook` is the promise of `post_double_entry`: the journal grows by whole postings only.
`LedgerAudit` adds `verify_balance_integrity`, two SELECTs and hence two snapshots.

### LockManager

An *acquirer* is one call of `acquire()` and its token, with the `ttl` and `retry_count` of that call.
`SetNX`, `SetRefused` (with the retry limit) and `SetReplyLost` are the outcomes of one `SET NX EX`;
`Release` is the Lua script; `Crash` is a holder that dies, is cancelled or cannot reach Redis; `Tick` is
time.  `lease` counts down what the holder asked for, or last extended to.
`ExtendRead` and `Renew` are the two commands of `extend()`, which a holder may call as often as it likes
and with any number: the second meets whatever is at the key by then, may prolong or shorten it, and with
0 or less deletes it (`PExpire`).  `ForceRelease` is `force_release()`, at any time.  `spoiled` holds the
acquirers whose lease one of the two has made worthless: the caller of an `extend()` that came too late,
and whoever lost the key or part of its time to somebody else.  The exclusion is stated for the others.

### Idempotency, AtMostOnce

One request goes through `check, acquire, recheck, insert, process, store, release` (the six phases of
`process_with_idempotency`), then `respond` (`create_transaction`), `commit` or `rollback` (`get_db`), and
the answer.  `ProcessorFails` is an error before the INSERT, `Cancel` a `CancelledError`, which `except
Exception` does not see, so that `finally` stores `{}` as a success and releases the lock.
`CommitReplyLost` is a COMMIT that took effect and raised.
`locked` and `result` are Redis; `index` is the unique index, in which an uncommitted row makes another
INSERT wait; `effect` is what has committed.  Redis errors are modelled as the code treats them: a
failing GET reads as "nothing stored", a failing SET NX as acquired.
`faults`, chosen once at the start, says what may go wrong in the behaviour; it is there so that a
property can say under which conditions it holds.  `AtMostOnce` is the promise to the merchant.

### PaymentEngine

`_do_process` from the fraud verdict to the end of `get_db`, with the ledger and the lock manager as
instances: each engine step that touches one of them *is* a step of that module.  This is proved, and
with it what is proved of the two modules is proved of the engine.
The lock is used as `lock()` does, so that the instance never extends or is forced.
`phase` is the place in `_do_process`; `status` is the row as the session sees it, `rows` as committed;
`sent` the events POSTed.  COMMIT and the 201 are two steps, with a crash or a lost reply between them
(`committed`, `CommitReplyLost`).  Errors before and during the INSERT (`InsertError`) and between lock and
`try` (`StartError`) end without a FAILED event, and so may one in the `try`, when the session is broken
(`Fail`).  The verdict of the fraud engine is free.  The idempotency wrapper is modelled
in `Idempotency` and not here.

### PaymentSession

The sessions of one merchant with one wallet and one endpoint, each a request that makes one payment
(`create_transaction`, `transfer`) or, one after another with the same key, several
(`/simulate/idempotency`).  A payment is a session and a round.

| Action | Code |
|---|---|
| `Check`, `AcquireKey`, `Conflict`, `Recheck`, `StoreResult`, `ReleaseKey` | `process_with_idempotency`; skipped without a key and with an empty one (`Bypass`) |
| `Insert`, `InsertDuplicate` | the flush of the row, and the unique index, which knows the empty key |
| `Flag`, `AnnounceFlagged`, `Lock`, `Busy`, `AnnounceProcessing`, `Post`, `Decline`, `Complete`, `Unlock` | `_do_process`; a dispatch first reads the endpoint (`picked`), then inserts its record |
| `Orphaned`, `StatementError` | a flush or statement that fails inside the engine: PostgreSQL forgets the transaction at once; the session is `broken` by a flush or a lost connection, and else its transaction is `aborted` |
| `Refuse` | the first SELECT of the next round in an aborted transaction |
| `Return` | `create_transaction`, `transfer`: look the reference up, answer or raise |
| `Swallow` | one turn of the loop of `test_idempotency` |
| `Commit`, `CommitReplyLost`, `CommitNothing`, `Rollback`, `Crash` | `get_db`; a broken session cannot commit, and the COMMIT of an aborted transaction succeeds and rolls back (`lost`) |
| `Expire`, `DeleteEndpoint`, `FinishDelete` | Redis; `delete_endpoint`, whose DELETE waits for records that are being inserted and cascades |

`status`, `records` and `posted` are what the session has written; they are *committed* when its `txn` is.
The entries of the answer are kept in `report`.

### Charges, FraudEngine

`Charges` is arithmetic: what the schema accepts, `calculate_fee` with Python's rounding, the amount
and history rules, the score and its thresholds.  An amount is a whole number of the smallest unit.

`FraudEngine` runs evaluations concurrently and says what their sessions leave for the next.  A payment
is a `pay` (an exception rolls it back), a `simulate` (its row is committed as it is, INITIATED if the
wallet was busy) or a `probe` (`/simulate/fraud`, which only evaluates).  `own` is the row that the session
of a `simulate` has flushed in an earlier round; its own SELECTs count it (`Seen`, `OwnFailures`).

| Action | Code |
|---|---|
| `SeedCounter`, `Begin` | the probe of the velocity scenario sets the counter; the others do not |
| `CheckVelocity` | `MULTI INCR EXPIRE EXEC`, the limit, and the amount rules |
| `VelocityReplyLost`, `SkipVelocity` | the pipeline is run twice; Redis raises and the rule is skipped |
| `CountAll`, `CountFailures`, `CommonCurrency` | the three SELECTs, each with a snapshot of its own |
| `NextRound`, `Duplicate` | a later round of a simulation evaluates again when no result was stored (an empty key, or Redis lost it); its INSERT then meets the row of the first |
| `Finish`, `Report`, `Abort` | the end of the session: what becomes of a row with that verdict |
| `Tick` | time to live, and `age`, the time since each evaluation |

### WebhookDelivery

One event of one payment and its endpoints: `dispatch` inside the payment's session, then any number
of `retry_delivery` calls, each in its session.  `base` is the delivery row as a session loaded it,
`obj` the object, and `Flushed` what the UPDATE writes: SQLAlchemy names only the columns that changed,
so racing retries mix their columns.  `posts` and `acked` record what really happened at the endpoint.
The times in `next_retry_at` are represented by the attempt that set them.

### Merchants

A request registers (`Look`, `Insert`, `InsertDuplicate`) or changes a merchant: `Login`, `GetCurrent`
(which loads the row into the session), `Refuse` (a wrong current password) or `Flush`, then `Commit` or
`Rollback`.  A change names some columns; its UPDATE has those that differ from the loaded row, and always the
password, since every hash is a new one, and leaves the others as they are by then.  `Suspend` is an
operator: nothing in the code does it, but every `status` check is there for it.  `before` records which
answers a request could have seen.

## 3. Runs

Passing runs, with the bounds and why they suffice:

| Run | Instance | Shows |
|---|---|---|
| `ledger` | 3 sessions; 3 accounts, one frozen; 4 kinds of posting, two in opposite directions, one refused; an audit of the wallet | `JournalIsDoubleEntry` (refinement), `WaitsAscend` (no row-lock deadlock), `OneWriterPerAccount`, `FrozenUntouched`, `DriftIsLostUpdate`, `AlarmHasACause`, `EverySessionEnds`, and `TypeOK`, which says that no committed balance is negative |
| `lock` | 3 acquirers, 1 resource; TTL 2 and 2 tries, for one of them 1 and 1; extensions by -1, 0, 1 or 3 | `LeaseExclusion`, `EveryKeyExpires`, `OnlyOwnerReleases`, `AcquireReturns` |
| `idem` | 2 requests of one merchant, 1 of another, all with one key string; all faults, and all faults but Redis and expiry | `AtMostOnePayment` (refinement), `RepliesAgree`, `ResultsKeepToSlot`, `OneProcessor`, `SuccessKept`, `EveryRequestEnds` |
| `engine` | 2 payments from a wallet that can pay for one; all faults, and lease expiry only | `CompletedIffBooked`, `WalletExclusion`, `EveryPaymentEnds`, `CompletedComesTrue` |
| `session` | a payment and a simulation of 2 rounds with one key, a transfer with an empty one; one of four sets of faults: Redis, expiry, database and crashes, the endpoint | `CommittedIsWhole`, `OnlySimulationsLeaveFailures`, `ReportsAreTrue`, `OnePaymentPerKey`, `EverySessionEnds` |
| `fraud` | a payment, a simulated payment and a probe of one merchant; Limit 1, Window 2; a merchant that has two failures, in a short history or in a long one that is mostly in another currency; Redis or the database fails, or a simulation evaluates twice | `SpikeIsFlagged`, `BlockNeedsHistory`, `VelocityForgets` |
| `webhook` | 2 endpoints, 3 retries, 3 attempts | `AttemptsWereMade`, `ExhaustedIsEarned`, `RecordIsExact` |
| `merchants` | 2 registrations of one e-mail, 4 changes of the first one's merchant, two of them of the same column; the database fails or an operator suspends | `OneMerchantPerEmail`, `NothingIsLost` |

A cycle of waits needs two sessions and two rows; the third session shows a chain.  A lock that passes
to a new holder while the old one is late needs two acquirers, and a third to release late in its turn.
TTL 2 lets a holder be inside and outside its lease, and an extension by 3 makes the lease longer than any
TTL.  A third retry is the one after exhaustion.  In `session`, the second round is the one that meets the
row, the stored result, or the broken or aborted session of the first; a third would meet nothing new.  In `fraud`, Limit 1 makes the second evaluation the spike, and two
earlier failures make the third the one that counts.  Every counter is bounded by the code itself
(attempts, TTL) or by the number of sessions; no bound was added.  Where faults are split into several
sets, it is to keep the runs small: the proofs hold for any combination.

Runs that end in a violation, each the disagreement of the code with a sentence of the repository
(`findings` quotes them):

| Run | What happens |
|---|---|
| `engine_spend` (`NoDoubleSpend`) | Two payments of one wallet are both booked although it can pay for one, without any fault: the wallet lock is released before the commit, and the second payment checks the funds on a stale object |
| `idem_duplicate` (`DuplicateGetsOriginal`) | A duplicate finds the stored result before the payment has committed, does not find its row, and is answered 500 |
| `idem_same_error` (`SameErrorBack`) | The retry of a declined payment is answered 500: the stored error is treated as a result |
| `idem_namespace` (`KeysAreNamespaced`) | Two merchants choose the same key string: the second is refused by the unique index |

### What the passing properties say about the code as it is

* `DriftIsLostUpdate`: `cached_balance` *can* leave the journal (`ledger.py:119-120` says it cannot),
  but only when a posting computed from an out-of-date object commits, and by exactly the updates
  that posting overwrites.  `TypeOK` holds all the same: no balance that is written is negative.
* `AlarmHasACause`: `verify_balance_integrity` can raise an alarm without a drift, when a posting
  commits between its two reads.
* `LeaseExclusion` is weaker than "only one process runs this block at a time"
  (`lock_manager.py:115`): a holder that outlives LOCK_TTL runs beside the next one.  An `extend()` that
  comes too late answers True and shortens, prolongs or ends the lock of somebody else (`lock_manager.py:98-105`).
* `OneProcessor` and `SuccessKept` hold while the idempotency lock lives and Redis works;
  `AtMostOnePayment` and `RepliesAgree` hold always, thanks to the unique index alone.
* `CompletedIffBooked`: no status but COMPLETED is ever committed by the payment path.  Answered 201
  implies booked, and not the converse: a process may die, or the reply to COMMIT be lost, in between.
* `CompletedComesTrue` needs that nothing fails between the event and the commit.
* `RecordIsExact` needs that no two retries worked on the same record and none was rolled back;
  `AttemptsWereMade` and `ExhaustedIsEarned` hold even then.
* `CommittedIsWhole` holds although a handler swallows exceptions, because between
  the posting and the status only a failed statement can raise, and that takes the posting with it.  A simulation does
  commit INITIATED, FLAGGED and FAILED rows (`OnlySimulationsLeaveFailures`), which real payments never do.
* `ReportsAreTrue` is about answers that are sent.  A simulation in which a later round breaks the session
  is answered with an error, and the payment of an earlier round is undone.  One answer is false, and
  exempt by name (`lost`): when a SELECT of a later round fails and is swallowed, the transaction is aborted,
  `get_db`'s COMMIT saves nothing and does not raise, and the simulation reports a payment as processed.
* `OnePaymentPerKey` counts rows of any status: the FAILED row that a simulation commits uses its key up,
  and a later payment with that key is refused by the index once the stored result has expired.  The empty
  key is one key of all merchants: the second payment that is sent with it is refused.
* `SpikeIsFlagged` is one direction only.  Its converse, that a flag means more than the limit within
  "a rolling window" (`config.py:77`), fails: the key is renewed by every payment.
* `BlockNeedsHistory`: `repeated_failures` can fire only after three FAILED rows, and no payment or
  transfer commits one; a simulation also counts the one its own session has made.
* `NothingIsLost` exempts a change that had not seen the other: two changes of one column made from
  the same loaded row are ordered by their commits.

Observed without a run of their own: the payment path never commits a FLAGGED row, since
`FraudBlockedError` rolls it back; `next_retry_at` stays set on an EXHAUSTED delivery; a cancelled
request stores `{}` as a success, on which every repeated POST ends in a 500 until it expires; nothing creates
an `Account` row; `transfer` debits the sender and never credits the destination.

### Fairness

`ledger`, `idem` and `engine` assume weak fairness of the steps of each request: the event loop resumes
every coroutine that is ready, PostgreSQL grants a free row lock or index entry to a waiter, and an
await on Redis or the database returns (both have time-outs).  No fault is ever obliged to happen.
`lock` adds fairness of the clock, and of the release of a holder, which sits in a `finally`.
`session` assumes weak fairness of each session's next step; nobody has to delete an endpoint, and what
a step waits for (a key of the index, the wallet's row) is freed by the end of another session.  `fraud`
assumes only that time passes, and so `VelocityForgets` does not depend on any payment going on.  The
audit in `ledger` need not go on.  `webhook` and `merchants` check safety only and assume none.

## 4. Proofs

All for every value of the constants, under the named assumptions of the modules; these say that
sentinels are not members of the sets they stand outside of, that TTLs, tries, rounds and attempts are
positive, that a posting has two different accounts, that opening balances are not negative, that the
audited, frozen and posted accounts exist, that a simulation has a key, that a payment has passed the
validators, and that the count a probe sets is not below the limit.

| Module | Theorems | Inductive invariant |
|---|---|---|
| `LedgerProofs` | `LedgerTypeCorrect`, `LedgerWaitsAscend`, `LedgerFrozenUntouched`, `LedgerOneWriter`, `LedgerImplementsBook`, `LedgerBalanced`, `LedgerDriftIsLostUpdate`, `LedgerConserves`, `AuditAlarmHasACause` | `TypeOK`, and per session `RowInv`: it locks only rows of its posting, in ascending order, checked rows only, and all of them once it has posted; and `JournalInv`: only committed sessions have entries.  None of the properties is inductive: a wait chain ascends because each session's own locks do.  For the sums, the journal is finite (`FiniteInv`); for the audit, what it has read is still the cached balance unless an entry on the account has been added since (`AuditInv`) |
| `LockProofs` | `LockTypeCorrect`, `LockLeaseExclusion`, `LockEveryKeyExpires`, `LockOnlyOwnerReleases` | a key exists exactly while it has time to live (`KeyInv`); a holder within its unspoiled lease owns the key, and the key lives at least as long (`LeaseInv`); attempts are left while trying (`AttemptInv`).  All for any TTLs, tries and extensions, negative ones too |
| `IdempotencyProofs` | `IdempotencyTypeCorrect`, `IdempotencyRepliesAgree`, `IdempotencyResultsKeepToSlot`, `IdempotencyImplementsAtMostOnce`, `IdempotencyOneProcessor`, `IdempotencySuccessKept` | the index holds every committed row (`IndexInv`); an outcome is of the request's own merchant and key (`OutcomeInv`); what is about to be answered has been seen, then committed (`SightInv`).  For the last two, while the lock lives and Redis answers: a request inside the lock is the one that took it (`LockInv`), and one that is processing has nothing stored under its key (`MissInv`) |
| `PaymentEngineProofs` | `EngineImplementsLedger`, `EngineImplementsLock`, `EngineCompletedIffBooked`, `EngineWalletExclusion`, `EngineKeepsTheBooks`, `EngineKeepsTheLocks` | where the ledger session is in each phase of the engine (`PhaseInv`), and the journal holds exactly the committed sessions (`JournalExact`); a payment within its lease owns its wallet's key, which lives at least as long (`OwnerInv`).  The last two theorems are those of the ledger and of the lock manager, carried over by the two refinements |
| `SessionProofs` | `SessionTypeCorrect`, `SessionCommittedIsWhole`, `SessionOnlySimulationsLeaveFailures`, `SessionReportsAreTrue`, `SessionOnePaymentPerKey` | per session: rounds to come are untouched (`FutureInv`), the row, posting and records of the present one are those of its place in the engine (`StageInv`), the past ones are whole (`WholeInv`), a broken, aborted or undone session has left nothing (`DeadInv`); and across sessions: what a result or a session refers to lies in the past and, if its session lives, is COMPLETED (`KnownInv`), every row with a key is in the index (`IndexInv`); a result is stored, and found, under the key of its payment only (`KeyInv`).  A step of one session leaves the part of every other alone, by one frame lemma |
| `FraudProofs` | `FraudTypeCorrect`, `FraudSpikeIsFlagged`, `FraudBlockNeedsHistory`, `FeesAreCovered` | each rule's flag is added in one place only, and tells what its session has read there (`FlagInv`); the counter is not behind the number of recent evaluations unless it is at the limit anyway, and its key lives as long as one of them is recent (`CounterInv`); the FAILED rows a session can see are the earlier ones, those of simulations and its own (`FailureInv`).  `FeesAreCovered` is arithmetic of `Charges`: at any precision a fee leaves something of the amount |
| `WebhookProofs` | `WebhookTypeCorrect`, `WebhookAttemptsWereMade`, `WebhookExhaustedIsEarned`, `WebhookRecordIsExact` | every attempt number, in a row, an object or a loaded copy, is covered by POSTs that were made (`CountInv`), and every EXHAUSTED by MaxAttempts of them (`EarnedInv`); `RecordInv` for the last theorem, see below |
| `MerchantsProofs` | `MerchantsTypeCorrect`, `MerchantsOnePerEmail`, `MerchantsNothingIsLost` | the index has each e-mail once, among committed rows and waiting inserts (`IndexInv`); a column in which a loaded copy is out of date has been written by a change answered since (`StaleInv`), so that a change whose value equals the copy's, and is not written, is explained too.  The row lock is not needed for it |

**Sums.** A true balance is `MapThenSumSet`, a recursive function by `CHOOSE`, and what the library
proves of such sums is proved by induction over a predicate, which the provers cannot instantiate.
`LedgerProofs` uses the other form of the argument: of the subsets of a finite set on which two solutions
of the recursion differ, or on which none exists, take a smallest one.  This gives the three facts that are
needed: a sum over nothing is 0, it is an integer, and one more entry adds its amount (`TotalAdd`).  A
commit adds two entries that were not in the journal, and moves two true balances by the amount
(`CommitMovesBalances`); from there on `DriftIsLostUpdate` is arithmetic.

**Exact records.** `RecordIsExact` has to say of every moment what the record of a delivery still lacks.
`RecordInv` does so in two parts.  Until the payment commits there is no row, and the attempt is the
payment's own (`FirstAttempt`).  From then on there are only retries (`LaterAttempts`), and unless the record
is spoiled, by two retries that loaded the same row or by one that rolled back, a retry at work has loaded
the row as it is, or another has replaced that row (`Replaced`) and this one must not have POSTed; and the
row tells the truth whenever no POST is waiting to be written (`Unsettled`).  Spoiling is for good, so the
condition of the property, which is about the end of a history, can be assumed of all of it.

Left to TLC is liveness only (`EverySessionEnds` of the ledger and of the sessions, `EveryRequestEnds`,
`EveryPaymentEnds`, `AcquireReturns`, `CompletedComesTrue`, `VelocityForgets`), which the prover cannot treat
under fairness.  Every other property of a passing run is the statement of a theorem.  The types of `PaymentSession` are
proved (`SessionTypeCorrect`) and not part of a run.

## 5. What is not modelled

* The content of payloads, signatures, HTTP bodies, log lines and back-off times.  Outside `Charges` an
  amount is a small integer, and a wallet stands for a merchant and a currency.
* `/simulate/race-condition`: `asyncio.gather` runs several payments on a single `AsyncSession`
  (`simulate.py:195`), which SQLAlchemy does not allow; what happens is decided inside the library.
* `create_endpoint`, which only inserts; the handlers that only read, with their filters and pages.
* A cancelled task that goes on through its `finally` clauses is in `Idempotency`; to the other models it is
  a crash, which leaves Redis as it is.
* Several events queued to several endpoints by one dispatch: `WebhookDelivery` has one event and
  several endpoints, `PaymentSession` several events and one endpoint.
* Rails (nothing calls them) and workers (empty files).  So `next_retry_at` starts nothing:
  a retry happens only when a merchant asks for it.
* Configuration, start-up and migrations; the constraints they declare are in the models.

## 6. What could come next

1. `delete_endpoint` beside `retry_delivery`: the delivery a retry has loaded may be cascaded away.
2. `PaymentSession` over several wallets, with the leases of `LockManager` in place of `Expire`.
3. `PaymentSession` as an implementation of `AtMostOnce`, in which taking effect and answering are two
   steps and here one; `OnePaymentPerKey` is what it would say of the committed rows.
