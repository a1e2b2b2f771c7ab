---------------------------- MODULE MCIdempotency ----------------------------
(* Requests q1, q2 of merchant m1 with key k1, and q4 of m2 with k1.       *)
EXTENDS Idempotency

CONSTANTS q1, q2, q4, m1, m2, k1

MCMerchant == [q \in Requests |-> IF q = q4 THEN m2 ELSE m1]
MCKey      == [q \in Requests |-> k1]

(* Everything may go wrong, or everything but Redis.                       *)
MCWeathers == { {"redis", "lockttl", "resultttl", "processor", "commit", "crash"},
                {"processor", "commit", "crash"} }
=============================================================================
