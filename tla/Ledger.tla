------------------------------- MODULE Ledger -------------------------------
(***************************************************************************)
(* LedgerService (services/ledger.py) running in concurrent database       *)
(* sessions on PostgreSQL at its default READ COMMITTED isolation.         *)
(*                                                                         *)
(* A session is one AsyncSession, hence one database transaction, handed   *)
(* out by get_db and serving one request.  The caller of the ledger, the   *)
(* transaction engine, first loads the two accounts by plain SELECTs       *)
(* (transaction_engine.py:174-177).  From then on the session's identity   *)
(* map holds them, and a later SELECT ... FOR UPDATE that returns a row    *)
(* already in the map locks the row but does not refresh the object:       *)
(* post_double_entry then works on the balances read before the lock.      *)
(* That is SQLAlchemy's behaviour for with_for_update() without            *)
(* populate_existing(); `copy' is the identity map.                        *)
(***************************************************************************)
EXTENDS Integers, FiniteSets, FiniteSetsExt

CONSTANTS Accounts,    \* account ids; their order is the order of str(uuid)
          Sessions,    \* database sessions
          NoSession,   \* the holder of an unlocked row
          Postings,    \* the arguments post_double_entry is called with
          Opening,     \* balance of each account before the run
          Frozen       \* accounts whose status is FROZEN or CLOSED

ASSUME AccountsAssumption == Accounts \subseteq Nat
ASSUME NoSessionAssumption == NoSession \notin Sessions
ASSUME PostingsAssumption ==
  Postings \subseteq {p \in [debit : Accounts, credit : Accounts, amount : Int] :
                        p.debit # p.credit}
ASSUME OpeningAssumption == Opening \in [Accounts -> Nat]
ASSUME FrozenAssumption == Frozen \subseteq Accounts

VARIABLES cached,      \* committed accounts.cached_balance
          journal,     \* committed journal entries
          rowLock,     \* which session holds the row lock of an account
          pc,          \* where each session is
          posting,     \* what each session posts
          copy         \* the Account objects of each session's identity map

vars == <<cached, journal, rowLock, pc, posting, copy>>

Live  == {"wallet", "escrow", "lock", "posted", "raised"}
Ended == {"committed", "rolledback"}

Legs(s) == {posting[s].debit, posting[s].credit}

Held(s) == {a \in Accounts : rowLock[a] = s}

(* An immutable row of journal_entries, as _create_journal_entry builds it *)
(* from the account object: running_balance is the object's new balance.   *)
Entry(s, a, t) == [txn |-> s, account |-> a, type |-> t,
                   amount |-> posting[s].amount, running |-> copy[s][a]]

(* Slip: one leg only.                                                     *)
EntriesDebitOnly(s) == { Entry(s, posting[s].debit, "DEBIT") }

EntriesOf(s) == { Entry(s, posting[s].debit, "DEBIT"),
                  Entry(s, posting[s].credit, "CREDIT") }

SignedAmount(e) == IF e.type = "CREDIT" THEN e.amount ELSE -e.amount

(* get_true_balance: the signed sum of the account's committed entries.    *)
TrueBalance(a) ==
  Opening[a] + MapThenSumSet(SignedAmount, {e \in journal : e.account = a})

(* Slip: the ids in the order they are given.                              *)
NextRowAsGiven(s, a) == a = IF posting[s].debit \in Held(s) THEN posting[s].credit
                                                            ELSE posting[s].debit

(* sorted([debit, credit], key=str): the next row to lock is the smaller   *)
(* of those not yet locked.                                                *)
NextRow(s, a) == /\ a \in Legs(s) \ Held(s)
                 /\ \A b \in Legs(s) \ Held(s) : a <= b

(* Slip: the first lock is taken for both.                                 *)
SomeLocked(s) == Legs(s) \intersect Held(s) # {}

AllLocked(s) == Legs(s) \subseteq Held(s)
-----------------------------------------------------------------------------
Init == /\ cached = Opening
        /\ journal = {}
        /\ rowLock = [a \in Accounts |-> NoSession]
        /\ pc = [s \in Sessions |-> "wallet"]
        /\ posting \in [Sessions -> Postings]
        /\ copy = [s \in Sessions |-> [a \in Accounts |-> 0]]

Goto(s, l) == pc' = [pc EXCEPT ![s] = l]

(* A plain SELECT of one account puts the committed row in the map.        *)
Load(s, a) == copy' = [copy EXCEPT ![s][a] = cached[a]]

LoadWallet(s) == /\ pc[s] = "wallet"
                 /\ Load(s, posting[s].debit)
                 /\ Goto(s, "escrow")
                 /\ UNCHANGED <<cached, journal, rowLock, posting>>

LoadEscrow(s) == /\ pc[s] = "escrow"
                 /\ Load(s, posting[s].credit)
                 /\ Goto(s, "lock")
                 /\ UNCHANGED <<cached, journal, rowLock, posting>>

(* post_double_entry refuses a non-positive amount before it locks.        *)
RejectAmount(s) == /\ pc[s] = "lock"
                   /\ posting[s].amount <= 0
                   /\ Goto(s, "raised")
                   /\ UNCHANGED <<cached, journal, rowLock, posting, copy>>

LockRow(s, a) == /\ pc[s] = "lock"
                 /\ NextRow(s, a)
                 /\ rowLock[a] = NoSession
                 /\ rowLock' = [rowLock EXCEPT ![a] = s]
                 /\ UNCHANGED <<cached, journal, posting, copy>>

RefuseFrozen(s, a) == IF a \in Frozen THEN Goto(s, "raised") ELSE UNCHANGED pc

(* Slips: the amount, or the status, is not checked.                       *)
GetForUpdateAnyAmount(s, a) == LockRow(s, a) /\ RefuseFrozen(s, a)
GetForUpdateAnyStatus(s, a) == /\ LockRow(s, a)
                               /\ posting[s].amount > 0
                               /\ UNCHANGED pc

(* SELECT ... FOR UPDATE on a free row.  The object stays as it was        *)
(* loaded: `copy' is left alone.  A frozen or closed account raises with   *)
(* its row already locked.                                                 *)
GetForUpdate(s, a) == /\ LockRow(s, a)
                      /\ posting[s].amount > 0
                      /\ RefuseFrozen(s, a)

Insufficient(s) == /\ pc[s] = "lock"
                   /\ AllLocked(s)
                   /\ copy[s][posting[s].debit] < posting[s].amount
                   /\ Goto(s, "raised")
                   /\ UNCHANGED <<cached, journal, rowLock, posting, copy>>

(* The two _create_journal_entry calls: each adds an entry to the session  *)
(* and moves the object's cached_balance; nothing is visible outside the   *)
(* transaction before it commits.                                          *)
Post(s) ==
  LET p == posting[s] IN
  /\ pc[s] = "lock"
  /\ AllLocked(s)
  /\ copy[s][p.debit] >= p.amount
  /\ copy' = [copy EXCEPT ![s][p.debit] = @ - p.amount,
                          ![s][p.credit] = @ + p.amount]
  /\ Goto(s, "posted")
  /\ UNCHANGED <<cached, journal, rowLock, posting>>

Unlock(s) == rowLock' = [a \in Accounts |->
                           IF rowLock[a] = s THEN NoSession ELSE rowLock[a]]

(* Slip: only the debited account is written.                              *)
CommitDebitOnly(s) ==
  /\ pc[s] = "posted"
  /\ cached' = [cached EXCEPT ![posting[s].debit] = copy[s][posting[s].debit]]
  /\ journal' = journal \union EntriesOf(s)
  /\ Unlock(s)
  /\ Goto(s, "committed")
  /\ UNCHANGED <<posting, copy>>

(* COMMIT: the flushed UPDATEs carry the absolute value of cached_balance. *)
Commit(s) ==
  /\ pc[s] = "posted"
  /\ cached' = [a \in Accounts |-> IF a \in Legs(s) THEN copy[s][a] ELSE cached[a]]
  /\ journal' = journal \union EntriesOf(s)
  /\ Unlock(s)
  /\ Goto(s, "committed")
  /\ UNCHANGED <<posting, copy>>

(* Slip: the failed session is not rolled back and keeps its locks.        *)
RollbackForgotten(s) == /\ pc[s] = "raised"
                        /\ Goto(s, "rolledback")
                        /\ UNCHANGED <<cached, journal, rowLock, posting, copy>>

Rollback(s) == /\ pc[s] = "raised"
               /\ Unlock(s)
               /\ Goto(s, "rolledback")
               /\ UNCHANGED <<cached, journal, posting, copy>>

(* An exception from the database or from the caller, before or after the  *)
(* posting: no such account, a lost connection, an error further on in the *)
(* request.  The rows stay locked until the rollback.                      *)
Fails(s) == /\ pc[s] \in Live \ {"raised"}
            /\ Goto(s, "raised")
            /\ UNCHANGED <<cached, journal, rowLock, posting, copy>>

(* The process dies, the connection drops or COMMIT itself fails: the      *)
(* server rolls back.                                                      *)
Abort(s) == /\ pc[s] \in Live
            /\ Unlock(s)
            /\ Goto(s, "rolledback")
            /\ UNCHANGED <<cached, journal, posting, copy>>

Step(s) == \/ LoadWallet(s)
           \/ LoadEscrow(s)
           \/ RejectAmount(s)
           \/ \E a \in Accounts : GetForUpdate(s, a)
           \/ Insufficient(s)
           \/ Post(s)
           \/ Commit(s)
           \/ Rollback(s)

Faulty(s) == Fails(s) \/ Abort(s)

Next == \E s \in Sessions : Step(s) \/ Faulty(s)

Spec == Init /\ [][Next]_vars

(* The event loop runs every coroutine whose await is ready, and           *)
(* PostgreSQL grants a free row lock; nobody is obliged to crash.          *)
FairSpec == Spec /\ \A s \in Sessions : WF_vars(Step(s))
-----------------------------------------------------------------------------
EntryRecords == [txn : Sessions, account : Accounts, type : {"DEBIT", "CREDIT"},
                 amount : Nat \ {0}, running : Nat]

(* The columns keep the shape their constraints give them: in particular   *)
(* every committed amount is positive (the CHECK of journal_entry.py), and *)
(* neither a cached balance nor the running balance of an entry is ever    *)
(* negative, whatever stale objects the sessions post from.                *)
TypeOK == /\ cached \in [Accounts -> Nat]
          /\ journal \subseteq EntryRecords
          /\ rowLock \in [Accounts -> Sessions \union {NoSession}]
          /\ pc \in [Sessions -> Live \union Ended]
          /\ posting \in [Sessions -> Postings]
          /\ copy \in [Sessions -> [Accounts -> Nat]]

(* ledger.py:151-153.  s awaits row a, which t holds.                      *)
Awaits(s, a, t) == /\ pc[s] = "lock"
                   /\ NextRow(s, a)
                   /\ t # s
                   /\ rowLock[a] = t

(* No cycle of sessions waiting for each other's row locks: along a chain  *)
(* of waits the awaited rows strictly increase, whatever the directions of *)
(* the postings.                                                           *)
WaitsAscend == \A s, t, u \in Sessions, a, b \in Accounts :
                  Awaits(s, a, t) /\ Awaits(t, b, u) => a < b

(* A frozen or closed account is never posted to, on either side, although *)
(* the other side may already be locked when the status is read.           *)
FrozenUntouched == \A e \in journal : e.account \notin Frozen

(* No two sessions ever have unwritten changes to the same account: from   *)
(* the posting to COMMIT both rows stay locked by the session.             *)
OneWriterPerAccount ==
  \A s, t \in Sessions :
     s # t /\ pc[s] = "posted" /\ pc[t] = "posted" => Legs(s) \intersect Legs(t) = {}

Drift(a) == cached[a] - TrueBalance(a)

(* What the object of a posted session held before the posting.            *)
LoadedBalance(s, a) ==
  IF a = posting[s].debit THEN copy[s][a] + posting[s].amount
                          ELSE copy[s][a] - posting[s].amount

(* ledger.py:119-120 refined to what the code keeps: a step moves an       *)
(* account's cached balance away from its journal only by committing a     *)
(* posting computed from a balance that was no longer the committed one,   *)
(* and then by exactly the updates that posting lost.                      *)
DriftIsLostUpdate ==
  [][\A a \in Accounts :
       \/ Drift(a)' = Drift(a)
       \/ \E s \in Sessions :
             /\ pc[s] = "posted" /\ pc'[s] = "committed" /\ a \in Legs(s)
             /\ Drift(a)' - Drift(a) = LoadedBalance(s, a) - cached[a]]_vars

(* Every session ends: nobody waits for a row lock for ever.               *)
EverySessionEnds == \A s \in Sessions : <>(pc[s] \in Ended)

(* The journal implements the double-entry book.                           *)
Book == INSTANCE DoubleEntryBook WITH
          legs <- { [txn |-> e.txn, account |-> e.account,
                     type |-> e.type, amount |-> e.amount] : e \in journal }
JournalIsDoubleEntry == Book!Spec
=============================================================================
