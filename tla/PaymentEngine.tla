---------------------------- MODULE PaymentEngine ----------------------------
(***************************************************************************)
(* TransactionEngine._do_process (services/transaction_engine.py) from the *)
(* fraud check to the exit of get_db (core/database.py:44-52), composed of *)
(* the ledger and of the distributed lock on the merchant's wallet.  Each  *)
(* request is one database session and makes one acquisition of the lock.  *)
(*                                                                         *)
(* Everything in `async with self.lock_manager.lock(...)' happens before   *)
(* the handler returns, and get_db commits after it has: the wallet lock   *)
(* is free again while the posting is still uncommitted.                   *)
(***************************************************************************)
EXTENDS Integers, FiniteSets

CONSTANTS Requests,    \* payments in flight
          PostingOf,   \* what each one posts: wallet to escrow, its amount
          Accounts, Opening, Frozen, NoSession,
          NoToken, TTL, Retries,
          Weathers     \* sets of faults: what may go wrong in a behaviour

ASSUME AmountsAssumption == \A q \in Requests : PostingOf[q].amount > 0
ASSUME BooksAssumption ==
  /\ Accounts \subseteq Nat
  /\ NoSession \notin Requests
  /\ Opening \in [Accounts -> Nat]
  /\ Frozen \subseteq Accounts
  /\ \A q \in Requests :
       PostingOf[q] \in {p \in [debit : Accounts, credit : Accounts, amount : Int] :
                           p.debit # p.credit}
ASSUME LockAssumption == /\ NoToken \notin Requests
                         /\ TTL \in Nat \ {0}
                         /\ Retries \in Nat \ {0}
ASSUME WeathersAssumption ==
  \A w \in Weathers : w \subseteq {"crash", "expiry", "redis", "db"}

VARIABLES phase,       \* where each request is in the engine
          status,      \* status of its transaction row, in its session
          rows,        \* status of its transaction row, committed
          sent,        \* webhooks POSTed so far, <<request, event>>
          faults,      \* what may go wrong: chosen once, for the properties
          (* the ledger *)
          cached, journal, rowLock, pc, posting, copy,
          (* the lock manager *)
          store, ttl, state, attempt, lease, spoiled

(* Slip: a lock of its own for every payment.                              *)
WantsPerPayment == [q \in Requests |-> q]

(* The lock is on the wallet, "wallet:{merchant_id}:{currency}".           *)
Wants == [q \in Requests |-> PostingOf[q].debit]

L == INSTANCE Ledger WITH
       Sessions <- Requests,
       Postings <- {PostingOf[q] : q \in Requests}

(* The engine calls lock(resource) with every default and never extends.   *)
K == INSTANCE LockManager WITH
       Acquirers <- Requests,
       Resources <- {Wants[q] : q \in Requests},
       TTL <- [q \in Requests |-> TTL],
       Retries <- [q \in Requests |-> Retries],
       Extensions <- {}

engineVars == <<phase, status, rows, sent>>
ledgerVars == <<cached, journal, rowLock, pc, posting, copy>>
lockVars   == <<store, ttl, state, attempt, lease, spoiled>>
vars == <<engineVars, ledgerVars, lockVars, faults>>

Final == {"created", "error", "crashed"}

Init == /\ phase = [q \in Requests |-> "new"]
        /\ status = [q \in Requests |-> "none"]
        /\ rows = [q \in Requests |-> "none"]
        /\ sent = {}
        /\ faults \in Weathers
        /\ L!Init
        /\ posting = PostingOf
        /\ K!LockInit

Enter(q, ph) == phase' = [phase EXCEPT ![q] = ph]
SetStatus(q, st) == status' = [status EXCEPT ![q] = st]
Dispatch(q, event) == sent' = sent \union {<<q, event>>}

(* An error before the row is there: a query of the fraud check, or the    *)
(* INSERT itself.                                                          *)
InsertError(q) == /\ "db" \in faults
                  /\ phase[q] = "new"
                  /\ L!Fails(q)
                  /\ Enter(q, "raised")
                  /\ UNCHANGED <<status, rows, sent, lockVars>>

(* FraudBlockedError: the row is FLAGGED, the event goes out, and the      *)
(* exception on its way out of get_db rolls the row back.                  *)
Flag(q) == /\ phase[q] = "new"
           /\ SetStatus(q, "FLAGGED")
           /\ Dispatch(q, "FLAGGED")
           /\ L!Fails(q)
           /\ Enter(q, "raised")
           /\ UNCHANGED <<rows, lockVars>>

Initiate(q) == /\ phase[q] = "new"
               /\ SetStatus(q, "INITIATED")
               /\ K!Acquire(q)
               /\ Enter(q, "locking")
               /\ UNCHANGED <<rows, sent, ledgerVars>>

Locked(q) == /\ phase[q] = "locking"
             /\ K!SetNX(q)
             /\ SetStatus(q, "PROCESSING")
             /\ Dispatch(q, "PROCESSING")
             /\ Enter(q, "processing")
             /\ UNCHANGED <<rows, ledgerVars>>

(* The flush of PROCESSING or its dispatch raises, before or after the     *)
(* event went out: in the lock but outside the try block, so no FAILED.    *)
StartError(q) == /\ "db" \in faults
                 /\ phase[q] = "locking"
                 /\ K!SetNX(q)
                 /\ SetStatus(q, "PROCESSING")
                 /\ Dispatch(q, "PROCESSING") \/ UNCHANGED sent
                 /\ L!Fails(q)
                 /\ Enter(q, "failed")
                 /\ UNCHANGED rows

(* LockAcquisitionError is raised outside the try block: no event.         *)
Busy(q) == /\ phase[q] = "locking"
           /\ K!SetRefused(q)
           /\ IF state'[q] = "refused"
                THEN L!Fails(q) /\ Enter(q, "raised")
                ELSE UNCHANGED <<phase, ledgerVars>>
           /\ UNCHANGED <<status, rows, sent>>

LockReplyLost(q) == /\ "redis" \in faults
                    /\ phase[q] = "locking"
                    /\ K!SetReplyLost(q)
                    /\ UNCHANGED <<engineVars, ledgerVars>>

LockError(q) == /\ "redis" \in faults
                /\ phase[q] = "locking"
                /\ K!Crash(q)
                /\ L!Fails(q)
                /\ Enter(q, "raised")
                /\ UNCHANGED <<status, rows, sent>>

(* Inside the lock and the try block: the accounts, then the ledger.  Its  *)
(* check of the amount cannot fail here: TransactionCreate has gt=0.       *)
LedgerStep(q) == /\ phase[q] = "processing"
                 /\ \/ L!LoadWallet(q)
                    \/ L!LoadEscrow(q)
                    \/ \E a \in Accounts : L!GetForUpdate(q, a)
                    \/ L!Insufficient(q)
                    \/ L!Post(q)
                 /\ UNCHANGED <<engineVars, lockVars>>

LedgerError(q) == /\ "db" \in faults
                  /\ phase[q] = "processing"
                  /\ L!Fails(q)
                  /\ UNCHANGED <<engineVars, lockVars>>

(* Slip: the status is committed at once.                                  *)
CompleteAtOnce(q) == /\ phase[q] = "processing"
                     /\ pc[q] = "posted"
                     /\ SetStatus(q, "COMPLETED")
                     /\ Dispatch(q, "COMPLETED")
                     /\ rows' = [rows EXCEPT ![q] = "COMPLETED"]
                     /\ Enter(q, "completed")
                     /\ UNCHANGED <<ledgerVars, lockVars>>

Complete(q) == /\ phase[q] = "processing"
               /\ pc[q] = "posted"
               /\ SetStatus(q, "COMPLETED")
               /\ Dispatch(q, "COMPLETED")
               /\ Enter(q, "completed")
               /\ UNCHANGED <<rows, ledgerVars, lockVars>>

(* An exception in the dispatch itself, after the event went out, lands in *)
(* the except clause below.                                                *)
CompleteError(q) == /\ "db" \in faults
                    /\ phase[q] = "processing"
                    /\ pc[q] = "posted"
                    /\ Dispatch(q, "COMPLETED")
                    /\ L!Fails(q)
                    /\ UNCHANGED <<phase, status, rows, lockVars>>

(* Both except clauses: FAILED, its event, and raise.  After a failed      *)
(* flush the session refuses the dispatch's query, and no event goes out.  *)
Fail(q) == /\ phase[q] = "processing"
           /\ pc[q] = "raised"
           /\ SetStatus(q, "FAILED")
           /\ \/ Dispatch(q, "FAILED")
              \/ "db" \in faults /\ UNCHANGED sent
           /\ Enter(q, "failed")
           /\ UNCHANGED <<rows, ledgerVars, lockVars>>

(* Slip: LockNotOwnedError leaves the handler.                             *)
UnlockStrictly(q) == /\ phase[q] \in {"completed", "failed"}
                     /\ K!Release(q)
                     /\ IF phase[q] = "completed" /\ state'[q] = "released"
                          THEN Enter(q, "returned") /\ UNCHANGED ledgerVars
                          ELSE /\ Enter(q, "raised")
                               /\ IF phase[q] = "completed" THEN L!Fails(q)
                                                            ELSE UNCHANGED ledgerVars
                     /\ UNCHANGED <<status, rows, sent>>

(* The exit of the lock's context manager, which keeps LockNotOwnedError   *)
(* to itself.                                                              *)
Unlock(q) == /\ phase[q] \in {"completed", "failed"}
             /\ K!Release(q)
             /\ Enter(q, IF phase[q] = "completed" THEN "returned" ELSE "raised")
             /\ UNCHANGED <<status, rows, sent, ledgerVars>>

(* Any other Redis error of release() leaves the handler.                  *)
UnlockError(q) == /\ "redis" \in faults
                  /\ phase[q] \in {"completed", "failed"}
                  /\ K!Crash(q)
                  /\ IF phase[q] = "completed" THEN L!Fails(q) ELSE UNCHANGED ledgerVars
                  /\ Enter(q, "raised")
                  /\ UNCHANGED <<status, rows, sent>>

(* get_db: commit, and then answer 201; or roll back and answer an error.  *)
SaveRow(q) == rows' = [rows EXCEPT ![q] = status[q]]

Commit(q) == /\ phase[q] = "returned"
             /\ L!Commit(q)
             /\ SaveRow(q)
             /\ Enter(q, "committed")
             /\ UNCHANGED <<status, sent, lockVars>>

Answer(q) == /\ phase[q] = "committed"
             /\ Enter(q, "created")
             /\ UNCHANGED <<status, rows, sent, ledgerVars, lockVars>>

(* PostgreSQL has committed, the connection breaks before it says so: the  *)
(* commit raises, and the payment that exists is answered with an error.   *)
CommitReplyLost(q) == /\ "db" \in faults
                      /\ phase[q] = "returned"
                      /\ L!Commit(q)
                      /\ SaveRow(q)
                      /\ Enter(q, "error")
                      /\ UNCHANGED <<status, sent, lockVars>>

CommitError(q) == /\ "db" \in faults
                  /\ phase[q] = "returned"
                  /\ L!Abort(q)
                  /\ Enter(q, "error")
                  /\ UNCHANGED <<status, rows, sent, lockVars>>

(* Slip: the session is left open.                                         *)
RollbackForgotten(q) == /\ phase[q] = "raised"
                        /\ Enter(q, "error")
                        /\ UNCHANGED <<status, rows, sent, ledgerVars, lockVars>>

Rollback(q) == /\ phase[q] = "raised"
               /\ L!Rollback(q)
               /\ Enter(q, "error")
               /\ UNCHANGED <<status, rows, sent, lockVars>>

Crash(q) == /\ "crash" \in faults
            /\ phase[q] \notin Final
            /\ IF phase[q] = "committed" THEN UNCHANGED ledgerVars ELSE L!Abort(q)
            /\ IF state[q] \in {"trying", "holding"} THEN K!Crash(q)
                                                     ELSE UNCHANGED lockVars
            /\ Enter(q, "crashed")
            /\ UNCHANGED <<status, rows, sent>>

Tick == /\ "expiry" \in faults
        /\ K!Tick
        /\ UNCHANGED <<engineVars, ledgerVars>>

Move(q) == \/ Flag(q) \/ Initiate(q) \/ Locked(q) \/ Busy(q)
           \/ LedgerStep(q) \/ Complete(q) \/ Fail(q)
           \/ Unlock(q) \/ Commit(q) \/ Answer(q) \/ Rollback(q)

Faulty(q) == \/ InsertError(q) \/ LockReplyLost(q) \/ LockError(q) \/ StartError(q)
             \/ LedgerError(q) \/ CompleteError(q) \/ UnlockError(q)
             \/ CommitError(q) \/ CommitReplyLost(q) \/ Crash(q)

Step(q) == Move(q) /\ UNCHANGED faults

Next == \/ \E q \in Requests : Step(q)
        \/ /\ (\E q \in Requests : Faulty(q)) \/ Tick
           /\ UNCHANGED faults

Spec == Init /\ [][Next]_vars

FairSpec == Spec /\ \A q \in Requests : WF_vars(Step(q))
-----------------------------------------------------------------------------
Phases == {"new", "locking", "processing", "completed", "failed", "returned",
           "raised", "committed"} \union Final
Statuses == {"none", "INITIATED", "FLAGGED", "PROCESSING", "COMPLETED", "FAILED"}
Events == {"FLAGGED", "PROCESSING", "COMPLETED", "FAILED"}

(* The engine uses its parts as they are specified: it is a ledger and a   *)
(* lock manager, so that what they guarantee holds inside it.              *)
LedgerSpec == L!Spec
LockSpec == K!LockSpec

Booked(q) == \E e \in journal : e.txn = q

(* A transaction is COMPLETED in the database exactly when its posting is  *)
(* in the journal, and only then is it answered 201, though it may not be  *)
(* answered then; no other status is ever committed, for the exception     *)
(* that causes it rolls it back.                                           *)
CompletedIffBooked ==
  \A q \in Requests : /\ rows[q] = "COMPLETED" <=> Booked(q)
                      /\ rows[q] \in {"none", "COMPLETED"}
                      /\ phase[q] = "created" => Booked(q)

(* Within the TTL of the wallet lock, one payment at a time is between the *)
(* read of the wallet's balance and its posting.                           *)
InLock(q) == phase[q] = "processing" /\ lease[q] > 0

WalletExclusion == \A p, q \in Requests :
                      /\ InLock(p) /\ InLock(q)
                      /\ PostingOf[p].debit = PostingOf[q].debit
                      => p = q

(* Nobody waits for ever, on a wallet lock or on a row lock while holding  *)
(* another: every payment ends.                                            *)
EveryPaymentEnds == \A q \in Requests : <>(phase[q] \in Final)

(* A merchant told payment.completed has the payment, unless the database, *)
(* Redis or the process fails between the event and the commit; that the   *)
(* wallet lock expired meanwhile makes no difference.                      *)
CompletedComesTrue ==
  faults \subseteq {"expiry"} =>
     \A q \in Requests : <<q, "COMPLETED">> \in sent ~> Booked(q)
-----------------------------------------------------------------------------
(* simulate.py:159: "distributed locking prevents double-spends".          *)
NoDoubleSpend == \A a \in Accounts : L!TrueBalance(a) >= 0
=============================================================================
