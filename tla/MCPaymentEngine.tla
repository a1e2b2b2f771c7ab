--------------------------- MODULE MCPaymentEngine ---------------------------
(* Payments p1 and p2 of one merchant from wallet 1, which holds enough    *)
(* for one of them; 2 is the escrow.                                       *)
EXTENDS PaymentEngine

CONSTANTS p1, p2

MCAccounts  == 1..2
MCOpening   == [a \in MCAccounts |-> IF a = 2 THEN 0 ELSE 2]
MCPostingOf == [q \in Requests |-> [debit |-> 1, credit |-> 2, amount |-> 2]]

(* Everything may fail, or only leases run out.                            *)
MCWeathers  == {{"crash", "expiry", "redis", "db"}, {"expiry"}}
NoFaults    == {{}}
=============================================================================
