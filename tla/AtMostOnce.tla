----------------------------- MODULE AtMostOnce -----------------------------
(***************************************************************************)
(* What idempotency keys promise to a merchant: of the requests with one   *)
(* key at most one payment takes effect, and a request is answered with a  *)
(* payment that has taken effect under its own merchant and key, or with   *)
(* an error.                                                               *)
(***************************************************************************)
CONSTANTS Requests,    \* POSTs of a payment
          Merchant,    \* the merchant that sends each request
          Key,         \* the idempotency key of each request
          Errors,      \* what a request may be told instead
          NoReply

VARIABLES effect,      \* the requests whose own payment exists
          reply        \* what each was answered: a payment, named by the
                       \* request that made it, an error, or nothing yet

Slot(q) == <<Merchant[q], Key[q]>>

Init == /\ effect = {}
        /\ reply = [q \in Requests |-> NoReply]

TakeEffect(q) == /\ \A p \in effect : Key[p] # Key[q]
                 /\ effect' = effect \union {q}
                 /\ UNCHANGED reply

Answer(q) == /\ reply[q] = NoReply
             /\ \E r \in {p \in effect : Slot(p) = Slot(q)} \union Errors :
                  reply' = [reply EXCEPT ![q] = r]
             /\ UNCHANGED effect

Next == \E q \in Requests : TakeEffect(q) \/ Answer(q)

Spec == Init /\ [][Next]_<<effect, reply>>
-----------------------------------------------------------------------------
(* Two requests of one merchant with one key are never told of two         *)
(* different payments.                                                     *)
RepliesAgree == \A p, q \in Requests :
                   /\ Slot(p) = Slot(q)
                   /\ reply[p] \in Requests /\ reply[q] \in Requests
                   => reply[p] = reply[q]
=============================================================================
