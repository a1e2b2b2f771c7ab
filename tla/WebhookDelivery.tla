--------------------------- MODULE WebhookDelivery ---------------------------
(***************************************************************************)
(* WebhookDispatcher (services/webhook_dispatcher.py): one event of one    *)
(* payment, dispatched to the merchant's endpoints inside the session of   *)
(* the payment, and the later calls of retry_delivery, each in a session   *)
(* of its own.  An endpoint stands for itself and for its delivery row.    *)
(*                                                                         *)
(* retry_delivery reads the row without a lock, POSTs, and commits.  The   *)
(* UPDATE of a session names only the columns whose value differs from     *)
(* the one it loaded; `base' is the row as loaded, `obj' the object.       *)
(***************************************************************************)
EXTENDS Integers, FiniteSets

CONSTANTS Endpoints,    \* endpoints subscribed to the event
          Payment,      \* the session of the payment
          Retriers,     \* the sessions of the calls of retry_delivery
          MaxAttempts,  \* WEBHOOK_MAX_RETRIES
          Nothing       \* no row, no object, no endpoint

Sessions == Retriers \union {Payment}

ASSUME MaxAssumption == MaxAttempts \in Nat \ {0}
ASSUME PaymentAssumption == Payment \notin Retriers

RowsOf(statuses) == [status : statuses, attempt : Nat \ {0}, due : Nat]

Committed == {"DELIVERED", "FAILED", "EXHAUSTED"}
AnyRow    == RowsOf(Committed \union {"PENDING", "ATTEMPTING"})

ASSUME NothingAssumption == Nothing \notin Endpoints \union AnyRow

VARIABLES active,       \* the endpoints that are active
          row,          \* committed webhook_deliveries
          todo,         \* endpoints the dispatch has yet to serve
          pc,           \* where each session is
          at,           \* the endpoint each session is serving
          base, obj,    \* its delivery, as loaded and as it is now
          posts,        \* POSTs made to each endpoint
          acked         \* endpoints that answered a POST with 2xx

vars == <<active, row, todo, pc, at, base, obj, posts, acked>>

NoRetry == 0            \* next_retry_at is NULL

(* next_retry_at grows with the attempt that sets it, so the number of     *)
(* that attempt stands for the time.                                       *)
Row(st, n, due) == [status |-> st, attempt |-> n, due |-> due]

Ended == {"committed", "rolledback"}

Init == /\ active = Endpoints
        /\ row = [e \in Endpoints |-> Nothing]
        /\ todo = {}
        /\ pc = [s \in Sessions |-> "begin"]
        /\ at = [s \in Sessions |-> Nothing]
        /\ base = [s \in Sessions |-> [e \in Endpoints |-> Nothing]]
        /\ obj = [s \in Sessions |-> [e \in Endpoints |-> Nothing]]
        /\ posts = [e \in Endpoints |-> 0]
        /\ acked = {}

Goto(s, l) == pc' = [pc EXCEPT ![s] = l]

(* After one attempt the dispatch goes on, a retry returns to get_db.      *)
After(s) == IF s = Payment THEN "next" ELSE "commit"

GetActiveEndpoints == /\ pc[Payment] = "begin"
                      /\ todo' = active
                      /\ Goto(Payment, "next")
                      /\ UNCHANGED <<active, row, at, base, obj, posts, acked>>

CreateDelivery(e) == /\ pc[Payment] = "next"
                     /\ e \in todo
                     /\ todo' = todo \ {e}
                     /\ at' = [at EXCEPT ![Payment] = e]
                     /\ obj' = [obj EXCEPT ![Payment][e] = Row("PENDING", 1, NoRetry)]
                     /\ Goto(Payment, "attempt")
                     /\ UNCHANGED <<active, row, base, posts, acked>>

(* Slip: a delivered row is retried.                                       *)
LoadAnyway(r, e) == /\ pc[r] = "begin"
                    /\ row[e] # Nothing
                    /\ at' = [at EXCEPT ![r] = e]
                    /\ base' = [base EXCEPT ![r][e] = row[e]]
                    /\ obj' = [obj EXCEPT ![r][e] = row[e]]
                    /\ Goto(r, "endpoint")
                    /\ UNCHANGED <<active, row, todo, posts, acked>>

(* retry_delivery: a row that is not there or is delivered ends the call.  *)
Load(r, e) == /\ pc[r] = "begin"
              /\ row[e] # Nothing
              /\ at' = [at EXCEPT ![r] = e]
              /\ base' = [base EXCEPT ![r][e] = row[e]]
              /\ obj' = [obj EXCEPT ![r][e] = row[e]]
              /\ Goto(r, IF row[e].status = "DELIVERED" THEN "commit" ELSE "endpoint")
              /\ UNCHANGED <<active, row, todo, posts, acked>>

(* Slip: the attempt is counted before the endpoint is looked at.          *)
CheckEndpointLate(r) ==
  /\ pc[r] = "endpoint"
  /\ obj' = [obj EXCEPT ![r][at[r]].attempt = @ + 1]
  /\ Goto(r, IF at[r] \in active THEN "attempt" ELSE "commit")
  /\ UNCHANGED <<active, row, todo, at, base, posts, acked>>

CheckEndpoint(r) ==
  /\ pc[r] = "endpoint"
  /\ IF at[r] \in active
       THEN /\ obj' = [obj EXCEPT ![r][at[r]].attempt = @ + 1]
            /\ Goto(r, "attempt")
       ELSE Goto(r, "commit") /\ UNCHANGED obj
  /\ UNCHANGED <<active, row, todo, at, base, posts, acked>>

Post(s) == /\ pc[s] = "attempt"
           /\ obj' = [obj EXCEPT ![s][at[s]].status = "ATTEMPTING"]
           /\ posts' = [posts EXCEPT ![at[s]] = @ + 1]
           /\ Goto(s, "inflight")
           /\ UNCHANGED <<active, row, todo, at, base, acked>>

Delivered(s) == /\ pc[s] = "inflight"
                /\ obj' = [obj EXCEPT ![s][at[s]] = Row("DELIVERED", @.attempt, NoRetry)]
                /\ acked' = acked \union {at[s]}
                /\ Goto(s, After(s))
                /\ UNCHANGED <<active, row, todo, at, base, posts>>

(* Slips: the last attempt is off by one; a timeout leaves the status.     *)
VerdictEarly(o) == IF o.attempt < MaxAttempts - 1
                     THEN Row("FAILED", o.attempt, o.attempt)
                     ELSE Row("EXHAUSTED", o.attempt, o.due)
VerdictLeft(o) == IF o.attempt < MaxAttempts THEN Row(o.status, o.attempt, o.attempt)
                                             ELSE Row("EXHAUSTED", o.attempt, o.due)

(* FAILED with a retry scheduled, or EXHAUSTED with next_retry_at as it    *)
(* was.                                                                    *)
Verdict(o) == IF o.attempt < MaxAttempts THEN Row("FAILED", o.attempt, o.attempt)
                                         ELSE Row("EXHAUSTED", o.attempt, o.due)

(* Any other status code, a timeout or any exception of the client.        *)
NotDelivered(s) == /\ pc[s] = "inflight"
                   /\ obj' = [obj EXCEPT ![s][at[s]] = Verdict(@)]
                   /\ Goto(s, After(s))
                   /\ UNCHANGED <<active, row, todo, at, base, posts, acked>>

(* What the flush at COMMIT makes of the row: an INSERT, or an UPDATE of   *)
(* the columns that changed.                                               *)
Flushed(s, e) ==
  LET o == obj[s][e]
      b == base[s][e]
      Now(c) == IF o[c] # b[c] THEN o[c] ELSE row[e][c]
  IN CASE o = Nothing -> row[e]
       [] o # Nothing /\ b = Nothing -> o
       [] OTHER -> Row(Now("status"), Now("attempt"), Now("due"))

Commit(s) == /\ pc[s] = After(s)
             /\ s = Payment => todo = {}
             /\ row' = [e \in Endpoints |-> Flushed(s, e)]
             /\ Goto(s, "committed")
             /\ UNCHANGED <<active, todo, at, base, obj, posts, acked>>

(* The payment fails further on, a process dies, or a COMMIT fails.        *)
Rollback(s) == /\ pc[s] \notin Ended
               /\ Goto(s, "rolledback")
               /\ UNCHANGED <<active, row, todo, at, base, obj, posts, acked>>

(* update_endpoint with is_active.                                         *)
UpdateEndpoint(e) == /\ active' = IF e \in active THEN active \ {e} ELSE active \union {e}
                     /\ UNCHANGED <<row, todo, pc, at, base, obj, posts, acked>>

Next == \/ GetActiveEndpoints
        \/ \E e \in Endpoints : CreateDelivery(e) \/ UpdateEndpoint(e)
        \/ \E r \in Retriers : CheckEndpoint(r) \/ \E e \in Endpoints : Load(r, e)
        \/ \E s \in Sessions : \/ Post(s) \/ Delivered(s) \/ NotDelivered(s)
                               \/ Commit(s) \/ Rollback(s)

Spec == Init /\ [][Next]_vars
-----------------------------------------------------------------------------
(* A committed row has been attempted: PENDING and ATTEMPTING exist inside *)
(* a session only.                                                         *)
TypeOK == /\ active \subseteq Endpoints
          /\ todo \subseteq Endpoints
          /\ row \in [Endpoints -> RowsOf(Committed) \union {Nothing}]
          /\ pc \in [Sessions -> Ended \union
                       {"begin", "next", "attempt", "inflight", "endpoint", "commit"}]
          /\ at \in [Sessions -> Endpoints \union {Nothing}]
          /\ base \in [Sessions -> [Endpoints -> RowsOf(Committed) \union {Nothing}]]
          /\ obj \in [Sessions -> [Endpoints -> AnyRow \union {Nothing}]]
          /\ posts \in [Endpoints -> Nat]
          /\ acked \subseteq Endpoints

(* The record never claims an attempt that was not made, although retries  *)
(* race, are rolled back, or find the endpoint switched off.               *)
AttemptsWereMade == \A e \in Endpoints : row[e] # Nothing => row[e].attempt <= posts[e]

(* A delivery is given up only after max_attempts POSTs, whatever attempt  *)
(* number a racing retry has written over it.                              *)
ExhaustedIsEarned == \A e \in Endpoints :
   row[e] # Nothing /\ row[e].status = "EXHAUSTED" => posts[e] >= MaxAttempts

(* Sessions that have POSTed to an endpoint, each on the row it had loaded. *)
Posted(s, e) == at[s] = e /\ obj[s][e] # base[s][e]

NoneShareALoad(e) == \A s, t \in Sessions :
   Posted(s, e) /\ Posted(t, e) /\ base[s][e] = base[t][e] => s = t

(* Only two retries of the same record, or a rolled-back one, can spoil    *)
(* the record.  Otherwise every POST is counted, a delivery stays          *)
(* delivered and is POSTed no more, and the others are exhausted from the  *)
(* last attempt on.                                                        *)
RecordIsExact == \A e \in Endpoints :
   /\ row[e] # Nothing
   /\ NoneShareALoad(e)
   /\ \A s \in Sessions : at[s] = e => pc[s] = "committed"
   => /\ row[e].attempt = posts[e]
      /\ row[e].status = "DELIVERED" <=> e \in acked
      /\ row[e].status = "EXHAUSTED" <=> e \notin acked /\ posts[e] >= MaxAttempts
=============================================================================
