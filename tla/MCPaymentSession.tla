-------------------------- MODULE MCPaymentSession --------------------------
(* A payment and a simulation with the same key, and a transfer with an    *)
(* empty one, which is as good as none to all but the unique index.        *)
EXTENDS PaymentSession

CONSTANTS pay, sim, move, k1, empty

MCModeOf == [s \in Sessions |-> IF s = sim THEN "sequence" ELSE "single"]
MCKeyOf  == [s \in Sessions |-> IF s = move THEN empty ELSE k1]

MCWeathers == {{"redis"}, {"expiry"}, {"db", "crash"}, {"endpoint"}}
=============================================================================
