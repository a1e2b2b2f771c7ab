----------------------------- MODULE Idempotency -----------------------------
(***************************************************************************)
(* IdempotencyService.process_with_idempotency (services/idempotency.py)   *)
(* around the payment processor, from the POST to its response:            *)
(* create_transaction (api/v1/transaction.py) and the commit in get_db.    *)
(*                                                                         *)
(* Redis holds, per merchant and key, a lock without an owner and the      *)
(* stored result.  The database holds one unique index, on the key alone.  *)
(* The order matters: the result is stored and the lock released inside    *)
(* the handler; the transaction commits after the handler has returned.    *)
(***************************************************************************)
CONSTANTS Requests,    \* POSTs of a payment, retries included
          Merchant,    \* the merchant that sends each request
          Key,         \* the idempotency key of each request
          Declined,    \* an error of the payment that the handler maps to 4xx
          ServerError, \* any other error: status 500
          NoReply,     \* not answered
          NoResult,    \* an absent result key
          NoRow,       \* a key the unique index does not hold
          Weathers     \* sets of faults: what may go wrong in a behaviour

Errors == {Declined, ServerError}

ASSUME SentinelsAssumption ==
  /\ Declined # ServerError
  /\ (Errors \union {NoReply, NoResult, NoRow}) \intersect Requests = {}
  /\ NoReply \notin Errors
  /\ NoResult \notin Errors
ASSUME WeathersAssumption ==
  \A w \in Weathers :
     w \subseteq {"redis", "lockttl", "resultttl", "processor", "commit", "crash"}

VARIABLES pc,          \* where each request is
          locked,      \* the idempotency:lock keys that exist
          result,      \* the idempotency:result keys
          index,       \* transactions.idempotency_key: the inserting request
          effect,      \* the requests whose transaction has committed
          outcome,     \* the result each request has found or made
          reply,       \* what each request was answered
          faults       \* what may go wrong: chosen once, for the properties

vars == <<pc, locked, result, index, effect, outcome, reply, faults>>

Slot(q) == <<Merchant[q], Key[q]>>

Slots == {Slot(q) : q \in Requests}
Keys  == {Key[q] : q \in Requests}

Init == /\ pc = [q \in Requests |-> "check"]
        /\ locked = {}
        /\ result = [k \in Slots |-> NoResult]
        /\ index = [k \in Keys |-> NoRow]
        /\ effect = {}
        /\ outcome = [q \in Requests |-> NoResult]
        /\ reply = [q \in Requests |-> NoReply]
        /\ faults \in Weathers

Goto(q, l) == pc' = [pc EXCEPT ![q] = l]
Keep(q, r) == outcome' = [outcome EXCEPT ![q] = r]

RedisFails == "redis" \in faults

(* get_stored_result: a failing Redis reads as "nothing stored".           *)
Lookup(q, hit, miss) ==
  \/ /\ result[Slot(q)] # NoResult
     /\ Keep(q, result[Slot(q)])
     /\ Goto(q, hit)
  \/ /\ result[Slot(q)] = NoResult \/ RedisFails
     /\ Goto(q, miss)
     /\ UNCHANGED outcome

Check(q) == /\ pc[q] = "check"
            /\ Lookup(q, "respond", "acquire")
            /\ UNCHANGED <<locked, result, index, effect, reply>>

(* Slips: a lock key without the merchant; SET without NX.                 *)
AcquireUnnamespaced(q) == /\ pc[q] = "acquire"
                          /\ Key[q] \notin locked
                          /\ locked' = locked \union {Key[q]}
                          /\ Goto(q, "recheck")
                          /\ UNCHANGED <<result, index, effect, outcome, reply>>
AcquireAnyway(q) == /\ pc[q] = "acquire"
                    /\ locked' = locked \union {Slot(q)}
                    /\ Goto(q, "recheck")
                    /\ UNCHANGED <<result, index, effect, outcome, reply>>

(* acquire_lock: SET NX; a failing Redis counts as acquired.               *)
AcquireLock(q) == /\ pc[q] = "acquire"
                  /\ \/ Slot(q) \notin locked /\ locked' = locked \union {Slot(q)}
                     \/ RedisFails /\ UNCHANGED locked
                  /\ Goto(q, "recheck")
                  /\ UNCHANGED <<result, index, effect, outcome, reply>>

(* The key is set but the reply is lost: retry_on_timeout (core/redis.py)  *)
(* sends the SET again and finds the key taken, by this very request.      *)
AcquireReplyLost(q) == /\ pc[q] = "acquire"
                       /\ RedisFails
                       /\ Slot(q) \notin locked
                       /\ locked' = locked \union {Slot(q)}
                       /\ Keep(q, ServerError)
                       /\ Goto(q, "rollback")
                       /\ UNCHANGED <<result, index, effect, reply>>

(* ConcurrentRequestError leaves the handler.                              *)
Conflict(q) == /\ pc[q] = "acquire"
               /\ Slot(q) \in locked
               /\ Keep(q, ServerError)
               /\ Goto(q, "rollback")
               /\ UNCHANGED <<locked, result, index, effect, reply>>

(* Slip: phase 3 left out.                                                 *)
RecheckSkipped(q) == /\ pc[q] = "recheck"
                     /\ Goto(q, "insert")
                     /\ UNCHANGED <<locked, result, index, effect, outcome, reply>>

Recheck(q) == /\ pc[q] = "recheck"
              /\ Lookup(q, "release", "insert")
              /\ UNCHANGED <<locked, result, index, effect, reply>>

(* Slip: no unique constraint.                                             *)
InsertAnyway(q) == /\ pc[q] = "insert"
                   /\ index' = [index EXCEPT ![Key[q]] = q]
                   /\ Goto(q, "process")
                   /\ UNCHANGED <<locked, result, effect, outcome, reply>>

(* The INSERT of the transaction row.  While another session has the key   *)
(* uncommitted, PostgreSQL makes this one wait.                            *)
Insert(q) == /\ pc[q] = "insert"
             /\ index[Key[q]] = NoRow
             /\ index' = [index EXCEPT ![Key[q]] = q]
             /\ Goto(q, "process")
             /\ UNCHANGED <<locked, result, effect, outcome, reply>>

(* The key is committed: IntegrityError out of the processor.              *)
InsertDuplicate(q) == /\ pc[q] = "insert"
                      /\ index[Key[q]] \in effect
                      /\ Keep(q, ServerError)
                      /\ Goto(q, "store")
                      /\ UNCHANGED <<locked, result, index, effect, reply>>

(* The rest of _do_process, which returns a result or raises.              *)
Process(q) == /\ pc[q] = "process"
              /\ \/ Keep(q, q)
                 \/ "processor" \in faults /\ \E e \in Errors : Keep(q, e)
              /\ Goto(q, "store")
              /\ UNCHANGED <<locked, result, index, effect, reply>>

(* A query of the processor fails before its row is there.                 *)
ProcessorFails(q) == /\ "processor" \in faults
                     /\ pc[q] = "insert"
                     /\ Keep(q, ServerError)
                     /\ Goto(q, "store")
                     /\ UNCHANGED <<locked, result, index, effect, reply>>

(* The task is cancelled.  `except Exception' does not see it, the two     *)
(* finally clauses do: {} is stored as a success, and the lock released.   *)
(* It has no "reference" either, so that whoever finds it ends in a 500:   *)
(* here it is a ServerError.                                               *)
Cancel(q) == /\ "crash" \in faults
             /\ \/ pc[q] = "recheck" /\ Goto(q, "release")
                \/ pc[q] \in {"insert", "process"} /\ Goto(q, "store")
             /\ Keep(q, ServerError)
             /\ UNCHANGED <<locked, result, index, effect, reply>>

(* Slip: a result key without the merchant.                                *)
StoreUnnamespaced(q) ==
  /\ pc[q] = "store"
  /\ result' = [k \in Slots |-> IF k[2] = Key[q] THEN outcome[q] ELSE result[k]]
  /\ Goto(q, "release")
  /\ UNCHANGED <<locked, index, effect, outcome, reply>>

(* store_result: a plain SET, over whatever is there.                      *)
StoreResult(q) == /\ pc[q] = "store"
                  /\ \/ result' = [result EXCEPT ![Slot(q)] = outcome[q]]
                     \/ RedisFails /\ UNCHANGED result
                  /\ Goto(q, "release")
                  /\ UNCHANGED <<locked, index, effect, outcome, reply>>

(* release_lock: a plain DELETE of the key, whoever set it.                *)
ReleaseLock(q) == /\ pc[q] = "release"
                  /\ \/ locked' = locked \ {Slot(q)}
                     \/ RedisFails /\ UNCHANGED locked
                  /\ Goto(q, "respond")
                  /\ UNCHANGED <<result, index, effect, outcome, reply>>

(* create_transaction with what process_with_idempotency returned.         *)
OwnRow(q) == index[Key[q]] = q /\ q \notin effect

Visible(q) == outcome[q] \in effect \/ (outcome[q] = q /\ OwnRow(q))

(* SELECT by result["reference"]: the row is this session's own or a       *)
(* committed one.                                                          *)
Respond(q) == /\ pc[q] = "respond"
              /\ Visible(q)
              /\ Goto(q, "commit")
              /\ UNCHANGED <<locked, result, index, effect, outcome, reply>>

(* The processor raised; or the result replayed is an error and has no     *)
(* "reference" (KeyError); or scalar_one() finds no row (NoResultFound).   *)
Raise(q) == /\ pc[q] = "respond"
            /\ ~ Visible(q)
            /\ Goto(q, "rollback")
            /\ UNCHANGED <<locked, result, index, effect, outcome, reply>>

(* The exit of get_db: session.commit(), then the response.                *)
TakeEffect(q) == effect' = IF OwnRow(q) THEN effect \union {q} ELSE effect

Commit(q) == /\ pc[q] = "commit"
             /\ TakeEffect(q)
             /\ Goto(q, "committed")
             /\ UNCHANGED <<locked, result, index, outcome, reply>>

CommitFails(q) == /\ pc[q] = "commit"
                  /\ "commit" \in faults
                  /\ Keep(q, ServerError)
                  /\ Goto(q, "rollback")
                  /\ UNCHANGED <<locked, result, index, effect, reply>>

(* PostgreSQL has committed, the connection breaks before it says so.      *)
CommitReplyLost(q) == /\ pc[q] = "commit"
                      /\ "commit" \in faults
                      /\ TakeEffect(q)
                      /\ Keep(q, ServerError)
                      /\ Goto(q, "rollback")
                      /\ UNCHANGED <<locked, result, index, reply>>

Answer(q) == /\ pc[q] = "committed"
             /\ reply' = [reply EXCEPT ![q] = outcome[q]]
             /\ Goto(q, "answered")
             /\ UNCHANGED <<locked, result, index, effect, outcome>>

(* Slips: the row under the key goes, whoever committed it; no row goes.   *)
DropAnyRow(q) == index' = [index EXCEPT ![Key[q]] = NoRow]
DropNoRow(q) == UNCHANGED index

DropRow(q) == index' = IF OwnRow(q) THEN [index EXCEPT ![Key[q]] = NoRow] ELSE index

(* session.rollback(), then the error: its own for a request that ran the  *)
(* processor, 500 for any other.                                           *)
Rollback(q) ==
  /\ pc[q] = "rollback"
  /\ DropRow(q)
  /\ reply' = [reply EXCEPT ![q] =
                 IF OwnRow(q) /\ outcome[q] \in Errors THEN outcome[q] ELSE ServerError]
  /\ Goto(q, "answered")
  /\ UNCHANGED <<locked, result, effect, outcome>>

(* The process dies: the server rolls back, Redis keeps what it has.  A    *)
(* task cancelled outside of the two finally clauses ends like this too.   *)
Crash(q) == /\ "crash" \in faults
            /\ pc[q] \notin {"answered", "crashed"}
            /\ DropRow(q)
            /\ Goto(q, "crashed")
            /\ UNCHANGED <<locked, result, effect, outcome, reply>>

LockExpires == /\ "lockttl" \in faults
               /\ \E k \in locked : locked' = locked \ {k}
               /\ UNCHANGED <<pc, result, index, effect, outcome, reply>>

ResultExpires == /\ "resultttl" \in faults
                 /\ \E k \in Slots : /\ result[k] # NoResult
                                     /\ result' = [result EXCEPT ![k] = NoResult]
                 /\ UNCHANGED <<pc, locked, index, effect, outcome, reply>>

Move(q) == \/ Check(q) \/ AcquireLock(q) \/ AcquireReplyLost(q) \/ Conflict(q)
           \/ Recheck(q)
           \/ Insert(q) \/ InsertDuplicate(q) \/ Process(q)
           \/ StoreResult(q) \/ ReleaseLock(q) \/ Respond(q) \/ Raise(q)
           \/ Commit(q) \/ CommitFails(q) \/ CommitReplyLost(q) \/ Answer(q) \/ Rollback(q)

Step(q) == Move(q) /\ UNCHANGED faults

Faulty(q) == ProcessorFails(q) \/ Cancel(q) \/ Crash(q)

Next == \/ \E q \in Requests : Step(q)
        \/ /\ (\E q \in Requests : Faulty(q)) \/ LockExpires \/ ResultExpires
           /\ UNCHANGED faults

Spec == Init /\ [][Next]_vars

(* The event loop resumes every coroutine that is ready, and a waiting     *)
(* INSERT is woken when the key's owner ends.                              *)
FairSpec == Spec /\ \A q \in Requests : WF_vars(Step(q))
-----------------------------------------------------------------------------
Steps == {"check", "acquire", "recheck", "insert", "process", "store", "release",
          "respond", "commit", "committed", "rollback", "answered", "crashed"}

TypeOK == /\ pc \in [Requests -> Steps]
          /\ locked \subseteq Slots
          /\ result \in [Slots -> Requests \union Errors \union {NoResult}]
          /\ index \in [Keys -> Requests \union {NoRow}]
          /\ effect \subseteq Requests
          /\ outcome \in [Requests -> Requests \union Errors \union {NoResult}]
          /\ reply \in [Requests -> Requests \union Errors \union {NoReply}]
          /\ faults \in Weathers

(* The service an idempotency key promises, kept through lost locks, lost  *)
(* results, failing Redis, failing commits and crashes: idempotency.py     *)
(* 88-89 and 120-121 leave it to the unique index.                         *)
Service == INSTANCE AtMostOnce
AtMostOnePayment == Service!Spec

(* Two requests of a merchant with one key are never told of two payments. *)
RepliesAgree == Service!RepliesAgree

(* A stored success is a payment of the same merchant and key, so that no  *)
(* request is ever handed another merchant's payment.                      *)
ResultsKeepToSlot == \A k \in Slots : result[k] \in Requests => Slot(result[k]) = k

(* While the lock lives and Redis answers, of the requests of one merchant *)
(* with one key one at most is processing (idempotency.py:105-107), though *)
(* processors, commits and processes fail.                                 *)
Processing(q) == pc[q] \in {"insert", "process", "store"}

LockIsKept == faults \intersect {"redis", "lockttl"} = {}

OneProcessor ==
  LockIsKept => \A p, q \in Requests :
     Slot(p) = Slot(q) /\ Processing(p) /\ Processing(q) => p = q

(* While, in addition, no result expires, a stored success stays: no later *)
(* request overwrites it with an error of its own.                         *)
SuccessKept ==
  [][LockIsKept /\ "resultttl" \notin faults =>
       \A k \in Slots : result[k] \in Requests => result'[k] = result[k]]_vars

(* Every request is answered, unless its process dies.                     *)
EveryRequestEnds == \A q \in Requests : <>(pc[q] \in {"answered", "crashed"})
-----------------------------------------------------------------------------
(* schemas/transaction.py:54-56: "duplicate requests with the same key     *)
(* return the original response": one that found a payment is told of it.  *)
DuplicateGetsOriginal ==
  \A q \in Requests : reply[q] \in Errors => outcome[q] \notin Requests \ {q}

(* idempotency.py:151-153: "a retry with the same key should get the same  *)
(* error back".                                                            *)
SameErrorBack ==
  \A q \in Requests : reply[q] \in Errors /\ outcome[q] = Declined => reply[q] = Declined

(* idempotency.py:40-41: merchants do not collide "using the same key      *)
(* string": alone with its merchant and key, a request is not refused.     *)
KeysAreNamespaced ==
  \A q \in Requests : reply[q] \in Errors => \E p \in Requests \ {q} : Slot(p) = Slot(q)
=============================================================================
