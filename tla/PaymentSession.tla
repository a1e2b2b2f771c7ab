--------------------------- MODULE PaymentSession ---------------------------
(***************************************************************************)
(* What one database session leaves behind.  The handlers that make        *)
(* payments run process_payment (idempotency, engine, wallet lock, ledger, *)
(* webhooks) in the session of their request, and get_db commits it or     *)
(* rolls it back:                                                          *)
(*   "single"    POST /transactions and POST /wallets/transfer make one    *)
(*               payment; its exception leaves the handler;                *)
(*   "sequence"  POST /simulate/idempotency makes several, one after       *)
(*               another and with one key, and swallows their exceptions,  *)
(*               so that get_db commits whatever they have left.           *)
(* All sessions are of one merchant and of one wallet, and the merchant    *)
(* has one webhook endpoint.  A flush that fails rolls the transaction     *)
(* back at once and leaves the session unusable: every later operation of  *)
(* it raises, its commit included.  Any other statement that fails aborts  *)
(* the transaction in PostgreSQL and leaves the session as it was: later   *)
(* statements raise, but COMMIT quietly rolls back.                        *)
(***************************************************************************)
EXTENDS Naturals

CONSTANTS Sessions,
          ModeOf,      \* single or sequence
          Rounds,      \* fire_count, the payments of a sequence
          Keys, NoKey,
          EmptyKey,    \* the empty string as a key
          KeyOf,       \* the idempotency key of a session, or NoKey
          NoResult,    \* nothing stored, nothing found
          Raised,      \* the exception of a payment
          Failure,     \* an error that is stored, or has been found stored
          Free,        \* a lock without a holder, a key without a row
          Weathers     \* sets of faults: what may go wrong in a behaviour

Payments == Sessions \X (1..Rounds)

ASSUME ModesAssumption == ModeOf \in [Sessions -> {"single", "sequence"}]
ASSUME RoundsAssumption == Rounds \in Nat \ {0}
ASSUME KeysAssumption == /\ NoKey \notin Keys
                         /\ EmptyKey # NoKey
                         /\ KeyOf \in [Sessions -> Keys \union {NoKey}]
                         /\ \A s \in Sessions : ModeOf[s] = "sequence" => KeyOf[s] # NoKey
ASSUME ResultsAssumption ==
  /\ Failure # Raised /\ NoResult # Raised /\ NoResult # Failure
  /\ {NoResult, Raised, Failure, Free} \intersect Payments = {}
  /\ Free \notin Sessions
ASSUME WeathersAssumption ==
  \A w \in Weathers : w \subseteq {"redis", "expiry", "db", "crash", "endpoint"}

VARIABLES pc, round, found,        \* where each session is, what it has found
          status, records, posted, \* rows, delivery records and postings of
                                   \* each payment, as its session sees them
          txn,                     \* open, broken, aborted, committed, rolledback,
                                   \* or lost: rolled back by its COMMIT
          index, rowLock,          \* the unique index; the wallet's row
          locked, result, wallet,  \* Redis: key locks, results, wallet lock
          endpoint,                \* there, deleting or gone
          picked,                  \* sessions that have read the endpoint
          report,                  \* the entries of /simulate's answer
          faults                   \* what may go wrong in this behaviour

work == <<status, records, posted>>
redis == <<locked, result, wallet>>
postgres == <<txn, index, rowLock>>
hook == <<endpoint, picked>>
place == <<pc, round, found>>
vars == <<place, work, postgres, redis, hook, report, faults>>

(* Without a key, or with an empty one, process_payment leaves idempotency *)
(* out; the unique index has the empty one like any other.                 *)
Bypass(s) == KeyOf[s] \in {NoKey, EmptyKey}

Start(s) == IF Bypass(s) THEN "insert" ELSE "check"
Done(s)  == IF Bypass(s) THEN "next" ELSE "store"

Init == /\ pc = [s \in Sessions |-> Start(s)]
        /\ round = [s \in Sessions |-> 1]
        /\ found = [s \in Sessions |-> NoResult]
        /\ status = [p \in Payments |-> "none"]
        /\ records = [p \in Payments |-> {}]
        /\ posted = {}
        /\ txn = [s \in Sessions |-> "open"]
        /\ index = [k \in Keys |-> Free]
        /\ rowLock = Free
        /\ locked = {}
        /\ result = [k \in Keys |-> NoResult]
        /\ wallet = Free
        /\ endpoint = "there"
        /\ picked = {}
        /\ report = [p \in Payments |-> "none"]
        /\ faults \in Weathers

Now(s)  == <<s, round[s]>>
Of(s)   == {p \in Payments : p[1] = s}
Committed(p) == txn[p[1]] = "committed"

Goto(s, l) == pc' = [pc EXCEPT ![s] = l]
Find(s, r) == found' = [found EXCEPT ![s] = r]
Move(s, l) == Goto(s, l) /\ UNCHANGED <<round, found>>
Leave(s, l, r) == Goto(s, l) /\ Find(s, r) /\ UNCHANGED round

SetStatus(s, st) == status' = [status EXCEPT ![Now(s)] = st]

(* Slip: the transaction stays open.                                       *)
UndoForgotten(s) == UNCHANGED <<work, index, rowLock>>

(* PostgreSQL forgets what the session has done.                           *)
Undo(s) == /\ status' = [p \in Payments |-> IF p \in Of(s) THEN "none" ELSE status[p]]
           /\ records' = [p \in Payments |-> IF p \in Of(s) THEN {} ELSE records[p]]
           /\ posted' = posted \ Of(s)
           /\ index' = [k \in Keys |-> IF index[k] \in Of(s) THEN Free ELSE index[k]]
           /\ rowLock' = IF rowLock = s THEN Free ELSE rowLock

(* A failed flush.                                                         *)
Break(s) == txn' = [txn EXCEPT ![s] = "broken"] /\ Undo(s)
-----------------------------------------------------------------------------
(* Idempotency: Redis down reads as "nothing stored" and as "acquired".    *)
Lookup(s, hit, miss) ==
  \/ /\ result[KeyOf[s]] # NoResult
     /\ Leave(s, hit, result[KeyOf[s]])
  \/ /\ result[KeyOf[s]] = NoResult \/ "redis" \in faults
     /\ Move(s, miss)

Check(s) == /\ pc[s] = "check"
            /\ Lookup(s, "next", "acquire")
            /\ UNCHANGED <<work, postgres, redis, hook, report>>

AcquireKey(s) == /\ pc[s] = "acquire"
                 /\ \/ KeyOf[s] \notin locked /\ locked' = locked \union {KeyOf[s]}
                    \/ "redis" \in faults /\ UNCHANGED locked
                 /\ Move(s, "recheck")
                 /\ UNCHANGED <<work, postgres, result, wallet, hook, report>>

(* ConcurrentRequestError; after a lost reply it is the session's own key. *)
Conflict(s) == /\ pc[s] = "acquire"
               /\ KeyOf[s] \in locked \/ "redis" \in faults
               /\ locked' = locked \union {KeyOf[s]}
               /\ Leave(s, "next", Raised)
               /\ UNCHANGED <<work, postgres, result, wallet, hook, report>>

Recheck(s) == /\ pc[s] = "recheck"
              /\ Lookup(s, "release", "insert")
              /\ UNCHANGED <<work, postgres, redis, hook, report>>

StoreResult(s) ==
  /\ pc[s] = "store"
  /\ \/ result' = [result EXCEPT ![KeyOf[s]] = IF found[s] = Raised THEN Failure ELSE found[s]]
     \/ "redis" \in faults /\ UNCHANGED result
  /\ Move(s, "release")
  /\ UNCHANGED <<work, postgres, locked, wallet, hook, report>>

ReleaseKey(s) == /\ pc[s] = "release"
                 /\ \/ locked' = locked \ {KeyOf[s]}
                    \/ "redis" \in faults /\ UNCHANGED locked
                 /\ Move(s, "next")
                 /\ UNCHANGED <<work, postgres, result, wallet, hook, report>>
-----------------------------------------------------------------------------
(* Slip: the column is not unique.                                         *)
InsertNotUnique(s) == /\ pc[s] = "insert"
                      /\ SetStatus(s, "INITIATED")
                      /\ index' = [k \in Keys |-> IF k = KeyOf[s] THEN Now(s) ELSE index[k]]
                      /\ Move(s, "judge")
                      /\ UNCHANGED <<records, posted, txn, rowLock, redis, hook, report>>

(* The engine.  The INSERT waits while another session has the key and is  *)
(* not over.                                                               *)
Insert(s) == /\ pc[s] = "insert" /\ txn[s] = "open"
             /\ \A k \in Keys : k = KeyOf[s] => index[k] = Free
             /\ SetStatus(s, "INITIATED")
             /\ index' = [k \in Keys |-> IF k = KeyOf[s] THEN Now(s) ELSE index[k]]
             /\ Move(s, "judge")
             /\ UNCHANGED <<records, posted, txn, rowLock, redis, hook, report>>

(* IntegrityError out of the flush, for a committed row or one of the same *)
(* session.                                                                *)
InsertDuplicate(s) == LET p == index[KeyOf[s]] IN
  /\ pc[s] = "insert" /\ txn[s] = "open" /\ KeyOf[s] # NoKey
  /\ p # Free
  /\ Committed(p) \/ p[1] = s
  /\ Break(s)
  /\ Leave(s, Done(s), Raised)
  /\ UNCHANGED <<redis, hook, report>>

(* In an aborted transaction the first SELECT of the engine raises.        *)
Refuse(s) == /\ pc[s] = "insert" /\ txn[s] = "aborted"
             /\ Leave(s, Done(s), Raised)
             /\ UNCHANGED <<work, postgres, redis, hook, report>>

(* dispatch: the SELECT of the endpoint comes first.                       *)
Pick(s) == picked' = IF endpoint = "gone" THEN picked \ {s} ELSE picked \union {s}

(* ... then the INSERT of the record, which holds the endpoint's row, and  *)
(* the POST.                                                               *)
Record(s, event) ==
  records' = [records EXCEPT ![Now(s)] = IF s \in picked THEN @ \union {event} ELSE @]

Flag(s) == /\ pc[s] = "judge"
           /\ SetStatus(s, "FLAGGED")
           /\ Pick(s)
           /\ Move(s, "flagged")
           /\ UNCHANGED <<records, posted, postgres, redis, endpoint, report>>

AnnounceFlagged(s) == /\ pc[s] = "flagged"
                      /\ s \in picked => endpoint # "gone"
                      /\ Record(s, "FLAGGED")
                      /\ Leave(s, Done(s), Raised)
                      /\ UNCHANGED <<status, posted, postgres, redis, hook, report>>

Lock(s) == /\ pc[s] = "judge"
           /\ wallet = Free
           /\ wallet' = Now(s)
           /\ SetStatus(s, "PROCESSING")
           /\ Pick(s)
           /\ Move(s, "processing")
           /\ UNCHANGED <<records, posted, postgres, locked, result, endpoint, report>>

(* LockAcquisitionError, or Redis down: the row stays INITIATED.           *)
Busy(s) == /\ pc[s] = "judge"
           /\ wallet # Free \/ "redis" \in faults
           /\ wallet' \in {wallet} \union (IF wallet = Free THEN {Now(s)} ELSE {})
           /\ Leave(s, Done(s), Raised)
           /\ UNCHANGED <<work, postgres, locked, result, hook, report>>

AnnounceProcessing(s) == /\ pc[s] = "processing"
                         /\ s \in picked => endpoint # "gone"
                         /\ Record(s, "PROCESSING")
                         /\ Move(s, "posting")
                         /\ UNCHANGED <<status, posted, postgres, redis, hook, report>>

(* The endpoint has been deleted in between: the foreign key of the record *)
(* fails the flush, and the rest of dispatch on the broken session raises. *)
Orphaned(s) == /\ pc[s] \in {"flagged", "processing"}
               /\ s \in picked /\ endpoint = "gone"
               /\ Break(s)
               /\ Leave(s, IF pc[s] = "flagged" THEN Done(s) ELSE "unlock", Raised)
               /\ UNCHANGED <<redis, hook, report>>

Post(s) == /\ pc[s] = "posting"
           /\ rowLock \in {Free, s}
           /\ rowLock' = s
           /\ posted' = posted \union {Now(s)}
           /\ Move(s, "posted")
           /\ UNCHANGED <<status, records, txn, index, redis, hook, report>>

(* Slip: an exception of the ledger just goes up.                          *)
DeclineQuietly(s) == /\ pc[s] = "posting"
                     /\ rowLock \in {Free, s}
                     /\ rowLock' = s
                     /\ Leave(s, "unlock", Raised)
                     /\ UNCHANGED <<work, txn, index, redis, hook, report>>

(* Too little money, or an account frozen or not there: nothing is posted; *)
(* an account that is not there is found before any row is locked.         *)
Decline(s) == /\ pc[s] = "posting"
              /\ \/ rowLock \in {Free, s} /\ rowLock' = s
                 \/ UNCHANGED rowLock
              /\ SetStatus(s, "FAILED")
              /\ Record(s, "FAILED")
              /\ Leave(s, "unlock", Raised)
              /\ UNCHANGED <<posted, txn, index, redis, hook, report>>

Complete(s) == /\ pc[s] = "posted"
               /\ SetStatus(s, "COMPLETED")
               /\ Record(s, "COMPLETED")
               /\ Leave(s, "unlock", Now(s))
               /\ UNCHANGED <<posted, postgres, redis, hook, report>>

(* One of the engine's statements fails: with its connection or in a flush *)
(* it breaks the session, in a SELECT it aborts the transaction, unless    *)
(* the engine has a new status to flush after it.                          *)
StatementError(s) ==
  /\ "db" \in faults
  /\ pc[s] \in {"insert", "judge", "flagged", "processing", "posting", "posted"}
  /\ txn[s] = "open"
  /\ \/ txn' = [txn EXCEPT ![s] = "broken"]
     \/ pc[s] \notin {"judge", "posted"} /\ txn' = [txn EXCEPT ![s] = "aborted"]
  /\ Undo(s)
  /\ Leave(s, IF wallet = Now(s) THEN "unlock" ELSE Done(s), Raised)
  /\ UNCHANGED <<redis, hook, report>>

Unlock(s) == /\ pc[s] = "unlock"
             /\ wallet' = IF wallet = Now(s) THEN Free ELSE wallet
             /\ Move(s, Done(s))
             /\ UNCHANGED <<work, postgres, locked, result, hook, report>>

(* A Redis error in release() leaves the engine even after a success.      *)
UnlockError(s) == /\ "redis" \in faults
                  /\ pc[s] = "unlock"
                  /\ Leave(s, Done(s), Raised)
                  /\ UNCHANGED <<work, postgres, redis, hook, report>>
-----------------------------------------------------------------------------
ReportOf(s) == CASE found[s] = Raised -> "error"
                 [] found[s] = Now(s) -> "processed"
                 [] OTHER             -> "duplicate"

Log(s) == report' = [report EXCEPT ![Now(s)] = ReportOf(s)]

(* create_transaction and transfer look the row up by its reference; a     *)
(* stored error has none, and an uncommitted row is not there.             *)
Visible(s) == found[s] = Now(s) \/ (found[s] \in Payments /\ Committed(found[s]))

(* Slip: errors are answered, not raised.                                  *)
ReturnAnyway(s) == /\ pc[s] = "next" /\ ModeOf[s] = "single"
                   /\ Log(s)
                   /\ Move(s, "commit")
                   /\ UNCHANGED <<work, postgres, redis, hook>>

Return(s) == /\ pc[s] = "next" /\ ModeOf[s] = "single"
             /\ Log(s)
             /\ Move(s, IF Visible(s) /\ txn[s] = "open" THEN "commit" ELSE "rollback")
             /\ UNCHANGED <<work, postgres, redis, hook>>

(* Where the next payment starts; a broken session's cannot even read      *)
(* current.id.                                                             *)
Continue(s) == IF txn[s] = "broken" THEN Goto(s, "next") /\ Find(s, Raised)
                                    ELSE Goto(s, Start(s)) /\ Find(s, NoResult)

(* Slip: the except clause of the loop rolls the session back.             *)
SwallowRollingBack(s) ==
  /\ pc[s] = "next" /\ ModeOf[s] = "sequence"
  /\ Log(s)
  /\ IF round[s] < Rounds
       THEN round' = [round EXCEPT ![s] = @ + 1] /\ Goto(s, Start(s)) /\ Find(s, NoResult)
       ELSE Move(s, "commit")
  /\ IF found[s] = Raised
       THEN Undo(s) /\ txn' = [txn EXCEPT ![s] = "open"]
       ELSE UNCHANGED <<work, postgres>>
  /\ UNCHANGED <<redis, hook>>

(* test_idempotency: the exception becomes an entry of the answer.         *)
Swallow(s) == /\ pc[s] = "next" /\ ModeOf[s] = "sequence"
              /\ Log(s)
              /\ IF round[s] < Rounds
                   THEN round' = [round EXCEPT ![s] = @ + 1] /\ Continue(s)
                   ELSE Move(s, "commit")
              /\ UNCHANGED <<work, postgres, redis, hook>>

(* get_db.                                                                 *)
Commit(s) == /\ pc[s] = "commit" /\ txn[s] = "open"
             /\ txn' = [txn EXCEPT ![s] = "committed"]
             /\ rowLock' = IF rowLock = s THEN Free ELSE rowLock
             /\ Move(s, "end")
             /\ UNCHANGED <<work, index, redis, hook, report>>

NoAnswer(s) == report' = [p \in Payments |-> IF p \in Of(s) THEN "none" ELSE report[p]]

(* The same, but the connection breaks before PostgreSQL says so: what is  *)
(* committed is answered with an error.                                    *)
CommitReplyLost(s) == /\ "db" \in faults
                      /\ pc[s] = "commit" /\ txn[s] = "open"
                      /\ txn' = [txn EXCEPT ![s] = "committed"]
                      /\ rowLock' = IF rowLock = s THEN Free ELSE rowLock
                      /\ Move(s, "end")
                      /\ NoAnswer(s)
                      /\ UNCHANGED <<work, index, redis, hook>>

(* COMMIT of an aborted transaction succeeds, and has rolled it back.      *)
CommitNothing(s) == /\ pc[s] = "commit" /\ txn[s] = "aborted"
                    /\ txn' = [txn EXCEPT ![s] = "lost"]
                    /\ Move(s, "end")
                    /\ UNCHANGED <<work, index, rowLock, redis, hook, report>>

(* The answer is an error, and the session is closed.                      *)
Close(s) == /\ Undo(s)
            /\ txn' = [txn EXCEPT ![s] = "rolledback"]
            /\ Leave(s, "end", Raised)
            /\ picked' = picked \ {s}
            /\ NoAnswer(s)
            /\ UNCHANGED <<redis, endpoint>>

Rollback(s) == /\ \/ pc[s] = "rollback"
                  \/ pc[s] = "commit" /\ (txn[s] = "broken" \/ "db" \in faults)
               /\ Close(s)

Crash(s) == /\ "crash" \in faults
            /\ pc[s] # "end"
            /\ Close(s)
-----------------------------------------------------------------------------
Expire == /\ "expiry" \in faults
          /\ \/ /\ locked # {}
                /\ \E k \in locked : locked' = locked \ {k}
                /\ UNCHANGED <<result, wallet>>
             \/ /\ wallet # Free /\ wallet' = Free
                /\ UNCHANGED <<result, locked>>
             \/ /\ \E k \in Keys : /\ result[k] # NoResult
                                   /\ result' = [result EXCEPT ![k] = NoResult]
                /\ UNCHANGED <<locked, wallet>>
          /\ UNCHANGED <<place, work, postgres, hook, report>>

(* delete_endpoint: with committed records in sight the unit of work would *)
(* set their endpoint_id to NULL, and the request fails; without, the      *)
(* DELETE waits for the sessions whose new records hold the row, and       *)
(* cascades to those committed meanwhile.                                  *)
Holding(s) == txn[s] = "open" /\ \E p \in Of(s) : records[p] # {}

DeleteEndpoint == /\ "endpoint" \in faults
                  /\ endpoint = "there"
                  /\ \A p \in Payments : Committed(p) => records[p] = {}
                  /\ endpoint' = "deleting"
                  /\ UNCHANGED <<place, work, postgres, redis, picked, report>>

FinishDelete == /\ endpoint = "deleting"
                /\ \A s \in Sessions : ~ Holding(s)
                /\ endpoint' = "gone"
                /\ records' = [p \in Payments |-> {}]
                /\ UNCHANGED <<place, status, posted, postgres, redis, picked, report>>

Step(s) == \/ Check(s) \/ AcquireKey(s) \/ Conflict(s) \/ Recheck(s)
           \/ Insert(s) \/ InsertDuplicate(s) \/ Refuse(s) \/ Flag(s) \/ AnnounceFlagged(s)
           \/ Lock(s) \/ Busy(s) \/ AnnounceProcessing(s) \/ Orphaned(s)
           \/ Post(s) \/ Decline(s) \/ Complete(s) \/ Unlock(s)
           \/ StoreResult(s) \/ ReleaseKey(s)
           \/ Return(s) \/ Swallow(s) \/ Commit(s) \/ CommitNothing(s) \/ Rollback(s)

Faulty(s) == StatementError(s) \/ UnlockError(s) \/ CommitReplyLost(s) \/ Crash(s)

Next == /\ \/ \E s \in Sessions : Step(s) \/ Faulty(s)
           \/ Expire \/ DeleteEndpoint \/ FinishDelete
        /\ UNCHANGED faults

Spec == Init /\ [][Next]_vars

(* Every session goes on; nobody has to delete an endpoint.                *)
FairSpec == Spec /\ \A s \in Sessions : WF_vars(Step(s) /\ UNCHANGED faults)
-----------------------------------------------------------------------------
Places == {"check", "acquire", "recheck", "insert", "judge", "flagged", "processing",
           "posting", "posted", "unlock", "store", "release", "next", "commit",
           "rollback", "end"}
Statuses == {"none", "INITIATED", "FLAGGED", "PROCESSING", "COMPLETED", "FAILED"}
Results == Payments \union {NoResult, Failure}

TypeOK == /\ pc \in [Sessions -> Places]
          /\ round \in [Sessions -> 1..Rounds]
          /\ found \in [Sessions -> Results \union {Raised}]
          /\ status \in [Payments -> Statuses]
          /\ records \in [Payments -> SUBSET Statuses]
          /\ posted \subseteq Payments
          /\ txn \in [Sessions -> {"open", "broken", "aborted",
                                   "committed", "rolledback", "lost"}]
          /\ index \in [Keys -> Payments \union {Free}]
          /\ rowLock \in Sessions \union {Free}
          /\ locked \subseteq Keys
          /\ result \in [Keys -> Results]
          /\ wallet \in Payments \union {Free}
          /\ endpoint \in {"there", "deleting", "gone"}
          /\ picked \subseteq Sessions
          /\ report \in [Payments -> {"none", "processed", "duplicate", "error"}]
          /\ faults \in Weathers

(* The events of a payment that has reached a status for good.             *)
Path(st) == CASE st = "FLAGGED"   -> {"FLAGGED"}
              [] st = "COMPLETED" -> {"PROCESSING", "COMPLETED"}
              [] st = "FAILED"    -> {"PROCESSING", "FAILED"}
              [] OTHER            -> {}

(* What is committed is whole, even where a handler swallows exceptions    *)
(* and commits what they have left: no row is PROCESSING, the money has    *)
(* moved exactly if the row is COMPLETED, and the delivery records tell    *)
(* the same story, unless the endpoint has gone and they with it.          *)
CommittedIsWhole ==
  \A p \in Payments : Committed(p) =>
     /\ status[p] # "PROCESSING"
     /\ p \in posted <=> status[p] = "COMPLETED"
     /\ records[p] = IF endpoint = "gone" THEN {} ELSE Path(status[p])

(* A payment or transfer of its own commits a COMPLETED row or none;       *)
(* INITIATED, FLAGGED and FAILED rows are of simulations.                  *)
OnlySimulationsLeaveFailures ==
  \A p \in Payments : Committed(p) /\ status[p] \notin {"none", "COMPLETED"}
                          => ModeOf[p[1]] = "sequence"

(* A success that is answered is in the database: the one payment that a   *)
(* simulation counts as processed, and the payment a 201 tells of, be it   *)
(* the request's own or an earlier one.  The one exception is the session  *)
(* that PostgreSQL has aborted: its simulation is answered in full, though *)
(* its COMMIT has saved nothing.                                           *)
ReportsAreTrue ==
  \A s \in Sessions : txn[s] = "committed" =>
     /\ \A p \in Of(s) : report[p] = "processed" => status[p] = "COMPLETED"
     /\ \A p, q \in Of(s) : report[p] = "processed" /\ report[q] = "processed" => p = q
     /\ ModeOf[s] = "single" =>
          /\ found[s] \in Payments
          /\ Committed(found[s])
          /\ status[found[s]] = "COMPLETED"

(* What idempotency.py and the unique index (transaction.py:151) give end  *)
(* to end: of the committed rows one at most has a given key, whichever    *)
(* handlers it was sent to, and a request that is answered 201 is told of  *)
(* a payment of its own key, or without a key of its own payment.          *)
OnePaymentPerKey ==
  /\ \A p, q \in Payments :
        /\ Committed(p) /\ status[p] # "none"
        /\ Committed(q) /\ status[q] # "none"
        /\ KeyOf[p[1]] = KeyOf[q[1]] /\ KeyOf[p[1]] # NoKey
        => p = q
  /\ \A s \in Sessions : ModeOf[s] = "single" /\ txn[s] = "committed" =>
        /\ KeyOf[found[s][1]] = KeyOf[s]
        /\ Bypass(s) => found[s][1] = s

(* Sessions that wait for a key of the index, for the wallet's row or for  *)
(* one another's locks all come to an end.                                 *)
EverySessionEnds == <>(\A s \in Sessions : pc[s] = "end")
=============================================================================
