--------------------------- MODULE MCFraudEngine ---------------------------
(* A payment, a simulated one and a probe, all of one merchant: the        *)
(* payment and the probe are large and round, the simulated payment is     *)
(* just below a threshold and in another currency.                         *)
EXTENDS FraudEngine

CONSTANTS pay, sim, probe, shop

MCMerchantOf == [p \in Payments |-> shop]
MCKindOf     == [p \in Payments |-> CASE p = sim   -> "simulate"
                                      [] p = probe -> "probe"
                                      [] OTHER     -> "pay"]
MCAmount     == [p \in Payments |-> Money(IF p = sim THEN 9999 ELSE 20000)]
MCCurrency   == [p \in Payments |-> IF p = sim THEN "NGN" ELSE "USD"]

(* Two failures so far, of a new merchant and in a long history that is    *)
(* mostly in another currency.                                             *)
History(usd, ngn, failed) ==
  [rows |-> [c \in Currencies |-> CASE c = "USD" -> usd [] c = "NGN" -> ngn [] OTHER -> 0],
   failures |-> failed]
MCHistories == {History(1, 1, 2), History(5, 6, 2)}

MCWeathers == {{"redis"}, {"db"}, {"rounds"}}
=============================================================================
