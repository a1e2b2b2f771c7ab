----------------------------- MODULE FraudProofs -----------------------------
(***************************************************************************)
(* Proofs about fees, the fraud score and the velocity counter, for every  *)
(* amount, every set of payments and merchants and every configuration.    *)
(***************************************************************************)
EXTENDS FraudEngine, FiniteSetTheorems, TLAPS

USE CentAssumption, HighAmountAssumption

LEMMA RoundBounds ==
  ASSUME NEW n \in Nat, NEW d \in Nat \ {0}
  PROVE  /\ RoundHalfEven(n, d) \in Nat
         /\ 2 * d * RoundHalfEven(n, d) <= 2 * n + d
         /\ 2 * n <= 2 * d * RoundHalfEven(n, d) + d
<1> DEFINE q == n \div d
           r == n % d
<1>1. q \in Nat /\ r \in 0..(d - 1) /\ n = d * q + r
  OBVIOUS
<1> HIDE DEF q, r
<1>2. CASE 2 * r > d \/ (2 * r = d /\ q % 2 = 1)
  <2>1. RoundHalfEven(n, d) = q + 1
    BY <1>2 DEF RoundHalfEven, q, r
  <2>2. d * (q + 1) = d * q + d
    BY <1>1
  <2> QED BY <1>1, <1>2, <2>1, <2>2
<1>3. CASE ~ (2 * r > d \/ (2 * r = d /\ q % 2 = 1))
  <2>1. RoundHalfEven(n, d) = q
    BY <1>3 DEF RoundHalfEven, q, r
  <2> QED BY <1>1, <1>3, <2>1
<1> QED BY <1>2, <1>3

(* calculate_fee (transaction_engine.py:44-52): whatever the currency's    *)
(* precision, however small the amount and whatever the rail, rounding to  *)
(* the cent never makes a fee negative or as large as the amount, so that  *)
(* something is left for the merchant, and is off by half a cent at most.  *)
THEOREM FeesAreCovered ==
  ASSUME NEW currency \in Currencies, NEW amount \in Nat, NEW rail \in DOMAIN Rates,
         Accepted(amount, currency)
  PROVE  /\ FeeOf(amount, rail) \in Nat
         /\ NetOf(amount, rail) > 0
         /\ NetOf(amount, rail) + FeeOf(amount, rail) = amount
         /\ 2 * (1000 * FeeOf(amount, rail) - amount * Rates[rail]) <= 1000 * Cent
         /\ 2 * (amount * Rates[rail] - 1000 * FeeOf(amount, rail)) <= 1000 * Cent
<1> DEFINE rate == Rates[rail]
           n    == amount * rate
           fee  == RoundHalfEven(n, 1000 * Cent)
<1>1. rate \in {5, 10, 15, 20}
  BY DEF Rates
<1>2. amount \in Nat \ {0}
  BY DEF Accepted
<1>3. n \in Nat /\ n <= 20 * amount
  BY <1>1, <1>2
<1> HIDE DEF rate, n
<1>4. /\ fee \in Nat
      /\ 2 * (1000 * Cent) * fee <= 2 * n + 1000 * Cent
      /\ 2 * n <= 2 * (1000 * Cent) * fee + 1000 * Cent
  BY <1>3, RoundBounds
<1> HIDE DEF fee
<1>5. fee * Cent \in Nat /\ 1000 * Cent * fee = 1000 * (fee * Cent)
  BY <1>4
<1>6. /\ 2 * (1000 * (fee * Cent)) <= 2 * n + 1000 * Cent
      /\ 2 * n <= 2 * (1000 * (fee * Cent)) + 1000 * Cent
  BY <1>3, <1>4, <1>5
<1>7. fee * Cent < amount
  <2>1. CASE fee = 0
    BY <1>2, <2>1
  <2>2. CASE fee > 0
    <3>1. fee * Cent >= Cent
      BY <1>4, <2>2
    <3> QED BY <1>2, <1>3, <1>5, <1>6, <3>1
  <2> QED BY <1>4, <2>1, <2>2
<1>8. FeeOf(amount, rail) = fee * Cent
  BY DEF FeeOf, fee, n, rate
<1> QED BY <1>2, <1>3, <1>5, <1>6, <1>7, <1>8 DEF NetOf, n, rate
-----------------------------------------------------------------------------
USE VelocityAssumption, PaymentsAssumption

LEMMA RulesAre ==
  Rules = {"velocity_exceeded", "high_amount", "amount_just_below_limit",
           "new_account_high_amount", "repeated_failures", "round_amount",
           "currency_mismatch"}
  BY DEF Rules, Weights

HistoryRules == {"new_account_high_amount", "repeated_failures", "currency_mismatch"}

LEMMA EarlyFlags ==
  ASSUME NEW n, NEW a
  PROVE  VelocityFlags(n) \union AmountFlags(a) \subseteq Rules \ HistoryRules
  BY RulesAre DEF VelocityFlags, AmountFlags, HistoryRules

LEMMA LateFlags ==
  /\ \A n, a : NewAccountFlags(n, a) \subseteq {"new_account_high_amount"}
  /\ \A n : FailureFlags(n) \subseteq {"repeated_failures"}
  /\ \A n, c, d : CurrencyFlags(n, c, d) \subseteq {"currency_mismatch"}
  BY DEF NewAccountFlags, FailureFlags, CurrencyFlags

(* One rule's flags are added in one place, so that each flag tells what   *)
(* its session has read; a session that is not over has no outcome yet.    *)
FlagInv ==
  \A p \in Payments :
     /\ pc[p] # "done" => outcome[p] = "none"
     /\ pc[p] = "done" => flags[p] = {}
     /\ pc[p] \in {"start", "velocity", "again", "total"} =>
          "new_account_high_amount" \notin flags[p]
     /\ pc[p] \in {"start", "velocity", "again", "total", "failures"} =>
          "repeated_failures" \notin flags[p]
     /\ pc[p] \in {"start", "velocity", "again", "total", "failures", "currency"} =>
          "currency_mismatch" \notin flags[p]
     /\ "new_account_high_amount" \in flags[p] => total[p] < 5
     /\ "currency_mismatch" \in flags[p] => total[p] > 10

FraudInv == TypeOK /\ FlagInv

LEMMA InitFraudInv == Init => FraudInv
  BY HistoriesAssumption DEF Init, FraudInv, TypeOK, FlagInv, Places, Outcomes, Statuses

LEMMA EndKeepsInv ==
  ASSUME FraudInv, NEW p \in Payments, NEW ending \in Outcomes \ {"none"}, End(p, ending),
         rows' \in [Merchants -> [Currencies -> Nat]], failures' \in [Merchants -> Nat]
  PROVE  FraudInv'
<1>1. TypeOK'
  BY DEF FraudInv, TypeOK, End, Goto, Places, counterVars
<1>2. FlagInv'
  BY DEF FraudInv, TypeOK, FlagInv, End, Goto
<1> QED BY <1>1, <1>2 DEF FraudInv

LEMMA InductiveFraudInv == FraudInv /\ [Next]_vars => FraudInv'
<1> SUFFICES ASSUME FraudInv, [Next]_vars PROVE FraudInv'
  OBVIOUS
<1> USE DEF FraudInv, TypeOK, FlagInv, Places, Outcomes, Statuses, Goto, AddFlags,
        counterVars, rowVars
<1>1. ASSUME NEW p \in Payments, Step(p) \/ Faulty(p) PROVE FraudInv'
  <2>0. MerchantOf[p] \in Merchants /\ Currency[p] \in Currencies
    BY PayloadAssumption
  <2>1. CASE SeedCounter(p)
    BY <2>0, <2>1 DEF SeedCounter
  <2>2. CASE Begin(p)
    BY <2>2 DEF Begin
  <2>3. CASE CheckVelocity(p)
    <3>1. PICK n : AddFlags(p, VelocityFlags(n) \union AmountFlags(Amount[p]))
      BY <2>3 DEF CheckVelocity
    <3> DEFINE more == VelocityFlags(n) \union AmountFlags(Amount[p])
    <3>2. more \subseteq Rules \ HistoryRules
      BY EarlyFlags
    <3>3. flags' = [flags EXCEPT ![p] = @ \union more]
      BY <3>1
    <3> HIDE DEF more
    <3>4. TypeOK'
      BY <2>0, <2>3, <3>2, <3>3 DEF CheckVelocity, Increment
    <3>5. FlagInv'
      BY <2>0, <2>3, <3>2, <3>3 DEF CheckVelocity, HistoryRules
    <3> QED BY <3>4, <3>5
  <2>4. CASE CountAll(p)
    <3>1. Size(Seen(p)) \in Nat
      BY <2>0 DEF Size, Seen, Currencies, Fiat, Crypto
    <3>2. NewAccountFlags(Size(Seen(p)), Amount[p]) # {} => Size(Seen(p)) < 5
      BY DEF NewAccountFlags
    <3> QED BY <2>4, <3>1, <3>2, LateFlags, RulesAre DEF CountAll
  <2>5. CASE CountFailures(p)
    BY <2>5, LateFlags, RulesAre DEF CountFailures
  <2>6. CASE CommonCurrency(p)
    <3>1. PICK c \in Currencies : AddFlags(p, CurrencyFlags(total[p], c, Currency[p]))
      BY <2>6 DEF CommonCurrency
    <3>2. CurrencyFlags(total[p], c, Currency[p]) # {} => total[p] > 10
      BY DEF CurrencyFlags
    <3> QED BY <2>6, <3>1, <3>2, LateFlags, RulesAre DEF CommonCurrency
  <2>7. CASE Finish(p)
    <3>1. PICK status \in StatusOf(p) :
             /\ End(p, status) \/ End(p, "rolledback")
             /\ AddRow(p, status) \/ UNCHANGED rowVars
      BY <2>7 DEF Finish
    <3>2. status \in Statuses
      BY DEF StatusOf
    <3>3. ASSUME AddRow(p, status)
          PROVE  rows' \in [Merchants -> [Currencies -> Nat]] /\ failures' \in [Merchants -> Nat]
      <4>1. rows' \in [Merchants -> [Currencies -> Nat]]
        BY <2>0, <3>3 DEF AddRow
      <4>2. failures' \in [Merchants -> Nat]
        BY <2>0, <3>3 DEF AddRow
      <4> QED BY <4>1, <4>2
    <3>4. rows' \in [Merchants -> [Currencies -> Nat]] /\ failures' \in [Merchants -> Nat]
      BY <3>1, <3>3
    <3>5. PICK ending \in Outcomes \ {"none"} : End(p, ending)
      BY <3>1, <3>2
    <3> QED BY <3>4, <3>5, EndKeepsInv
  <2>8. CASE Duplicate(p) \/ Report(p) \/ Abort(p)
    <3>1. PICK ending \in Outcomes \ {"none"} : End(p, ending)
      BY <2>8 DEF Duplicate, Report, Abort
    <3>2. UNCHANGED rowVars
      BY <2>8 DEF Duplicate, Report, Abort
    <3> QED BY <3>1, <3>2, EndKeepsInv
  <2>9. CASE VelocityReplyLost(p)
    BY <2>0, <2>9 DEF VelocityReplyLost, Increment
  <2>10. CASE SkipVelocity(p)
    <3> DEFINE more == AmountFlags(Amount[p])
    <3>1. more \subseteq Rules \ HistoryRules
      BY EarlyFlags
    <3>2. flags' = [flags EXCEPT ![p] = @ \union more]
      BY <2>10 DEF SkipVelocity
    <3> HIDE DEF more
    <3>3. TypeOK'
      BY <2>10, <3>1, <3>2 DEF SkipVelocity
    <3>4. FlagInv'
      BY <2>10, <3>1, <3>2 DEF SkipVelocity, HistoryRules
    <3> QED BY <3>3, <3>4
  <2>11. CASE NextRound(p)
    BY <2>11 DEF NextRound, StatusOf
  <2> QED BY <1>1, <2>1, <2>2, <2>3, <2>4, <2>5, <2>6, <2>7, <2>8, <2>9, <2>10, <2>11
          DEF Step, Faulty
<1>2. CASE Tick
  BY <1>2 DEF Tick, Less
<1>3. CASE UNCHANGED vars
  BY <1>3 DEF vars
<1> QED BY <1>1, <1>2, <1>3 DEF Next

LEMMA AlwaysFraudInv == Spec => []FraudInv
  BY InitFraudInv, InductiveFraudInv, PTL DEF Spec

(* The fraud engine's state keeps its types.                               *)
THEOREM FraudTypeCorrect == Spec => []TypeOK
  BY AlwaysFraudInv, PTL DEF FraudInv
-----------------------------------------------------------------------------
(* The counter is never behind: it has counted every recent evaluation, or *)
(* it is at the limit anyway because a probe has set it; and its key lives *)
(* as long as any evaluation it counts is recent.                          *)
CounterInv ==
  /\ \A m \in Merchants : count[m] >= Limit \/ Cardinality(Recent(m)) <= count[m]
  /\ \A p \in Payments : age[p] < Window => ttl[MerchantOf[p]] + age[p] >= Window

LEMMA RecentFinite ==
  ASSUME NEW m PROVE IsFiniteSet(Recent(m)) /\ Cardinality(Recent(m)) \in Nat
<1>1. Recent(m) \subseteq Payments
  BY DEF Recent
<1> QED BY <1>1, FS_Subset, FS_CardinalityType

(* An INCR counts one evaluation more, and at most one is new.             *)
LEMMA IncrementCounts ==
  ASSUME FraudInv, CounterInv, NEW p \in Payments, Increment(p)
  PROVE  /\ CounterInv'
         /\ Cardinality(Recent(MerchantOf[p])') > Limit => count'[MerchantOf[p]] > Limit
<1> USE DEF FraudInv, TypeOK, Increment
<1> DEFINE m == MerchantOf[p]
<1>0. m \in Merchants /\ \A q \in Payments : MerchantOf[q] \in Merchants
  OBVIOUS
<1>1. Recent(m)' = Recent(m) \union {p}
  BY DEF Recent
<1>2. \A k \in Merchants \ {m} : Recent(k)' = Recent(k)
  BY DEF Recent
<1>3. /\ Cardinality(Recent(m)) \in Nat
      /\ Cardinality(Recent(m)') \in Nat
      /\ Cardinality(Recent(m)') <= Cardinality(Recent(m)) + 1
  <2>1. IsFiniteSet(Recent(m)) /\ Cardinality(Recent(m)) \in Nat
    BY RecentFinite
  <2> DEFINE more == Recent(m) \union {p}
  <2>2. Cardinality(more) = IF p \in Recent(m) THEN Cardinality(Recent(m))
                                               ELSE Cardinality(Recent(m)) + 1
    BY <2>1, FS_AddElement
  <2> QED BY <1>1, <2>1, <2>2
<1>4. count[m] >= Limit \/ Cardinality(Recent(m)) <= count[m]
  BY <1>0 DEF CounterInv
<1>5. count'[m] = count[m] + 1 /\ count[m] \in Nat
  BY <1>0
<1>6. \A k \in Merchants : count'[k] >= Limit \/ Cardinality(Recent(k)') <= count'[k]
  <2>1. count'[m] >= Limit \/ Cardinality(Recent(m)') <= count'[m]
    BY <1>3, <1>4, <1>5
  <2>2. \A k \in Merchants \ {m} : count'[k] = count[k]
    OBVIOUS
  <2> QED BY <1>2, <2>1, <2>2 DEF CounterInv
<1>7. \A q \in Payments : age'[q] < Window => ttl'[MerchantOf[q]] + age'[q] >= Window
  BY <1>0 DEF CounterInv
<1>8. Cardinality(Recent(m)') > Limit => count'[m] > Limit
  BY <1>3, <1>4, <1>5
<1> QED BY <1>6, <1>7, <1>8 DEF CounterInv

LEMMA InductiveCounterInv == FraudInv /\ CounterInv /\ [Next]_vars => CounterInv'
<1> SUFFICES ASSUME FraudInv, CounterInv, [Next]_vars PROVE CounterInv'
  OBVIOUS
<1> USE DEF FraudInv, TypeOK
<1>1. ASSUME UNCHANGED <<counterVars, age>> PROVE CounterInv'
  BY <1>1 DEF CounterInv, counterVars, Recent
<1>2. ASSUME NEW p \in Payments, Step(p) \/ Faulty(p) PROVE CounterInv'
  <2>1. CASE SeedCounter(p)
    <3>1. \A m : Recent(m)' = Recent(m)
      BY <2>1 DEF SeedCounter, Recent
    <3>2. MerchantOf[p] \in Merchants /\ \A q \in Payments : MerchantOf[q] \in Merchants
      OBVIOUS
    <3>3. \A m \in Merchants : count'[m] >= Limit \/ Cardinality(Recent(m)') <= count'[m]
      BY <2>1, <3>1, <3>2 DEF SeedCounter, CounterInv
    <3>4. \A q \in Payments : age'[q] < Window => ttl'[MerchantOf[q]] + age'[q] >= Window
      BY <2>1, <3>2 DEF SeedCounter, CounterInv
    <3> QED BY <3>3, <3>4 DEF CounterInv
  <2>2. CASE CheckVelocity(p) \/ VelocityReplyLost(p)
    BY <2>2, IncrementCounts DEF CheckVelocity, VelocityReplyLost
  <2>3. CASE \/ Begin(p) \/ SkipVelocity(p) \/ CountAll(p) \/ CountFailures(p)
             \/ CommonCurrency(p) \/ NextRound(p)
    BY <1>1, <2>3 DEF Begin, SkipVelocity, CountAll, CountFailures, CommonCurrency, NextRound
  <2>4. CASE Finish(p) \/ Duplicate(p) \/ Report(p) \/ Abort(p)
    BY <1>1, <2>4 DEF Finish, Duplicate, Report, Abort, End
  <2> QED BY <1>2, <2>1, <2>2, <2>3, <2>4 DEF Step, Faulty
<1>3. CASE Tick
  <2>1. \A m \in Merchants : Recent(m)' \subseteq Recent(m)
    BY <1>3 DEF Tick, Recent
  <2>2. \A m \in Merchants : Cardinality(Recent(m)') <= Cardinality(Recent(m))
    BY <2>1, RecentFinite, FS_Subset
  <2>3. ASSUME NEW m \in Merchants, ttl[m] = 1 PROVE Recent(m)' = {}
    BY <1>3, <2>3 DEF Tick, Recent, CounterInv
  <2>4. \A m \in Merchants : ttl[m] = 1 => Cardinality(Recent(m)') = 0
    BY <2>3, FS_EmptySet
  <2>5. ASSUME NEW m \in Merchants
        PROVE  count'[m] >= Limit \/ Cardinality(Recent(m)') <= count'[m]
    <3>1. Cardinality(Recent(m)) \in Nat /\ Cardinality(Recent(m)') \in Nat
      BY <2>1, RecentFinite, FS_Subset, FS_CardinalityType
    <3>2. count'[m] = IF ttl[m] = 1 THEN 0 ELSE count[m]
      BY <1>3 DEF Tick
    <3> QED BY <2>2, <2>4, <3>1, <3>2 DEF CounterInv
  <2>6. ASSUME NEW q \in Payments, age'[q] < Window
        PROVE  ttl'[MerchantOf[q]] + age'[q] >= Window
    <3>1. MerchantOf[q] \in Merchants
      OBVIOUS
    <3>2. age'[q] = age[q] + 1 /\ age[q] < Window
      BY <1>3, <2>6 DEF Tick
    <3>3. ttl'[MerchantOf[q]] = Less(ttl[MerchantOf[q]])
      BY <1>3, <3>1 DEF Tick
    <3> QED BY <3>1, <3>2, <3>3 DEF CounterInv, Less
  <2> QED BY <2>5, <2>6 DEF CounterInv
<1>4. CASE UNCHANGED vars
  BY <1>1, <1>4 DEF vars
<1> QED BY <1>2, <1>3, <1>4 DEF Next

LEMMA AlwaysCounterInv == Spec => [](FraudInv /\ CounterInv)
<1>1. Init => CounterInv
  <2> SUFFICES ASSUME Init PROVE CounterInv
    OBVIOUS
  <2>1. \A m \in Merchants : Recent(m) = {}
    BY DEF Init, Recent
  <2>2. \A m \in Merchants : Cardinality(Recent(m)) = 0 /\ count[m] = 0
    BY <2>1, FS_EmptySet DEF Init
  <2>3. \A p \in Payments : age[p] = Window
    BY DEF Init
  <2> QED BY <2>2, <2>3 DEF CounterInv
<1> QED BY <1>1, InitFraudInv, InductiveFraudInv, InductiveCounterInv, PTL DEF Spec

(* fraud_engine.py:86-88, the half that is true: more than the limit of    *)
(* evaluations in one window is always noticed.                            *)
THEOREM FraudSpikeIsFlagged == Spec => SpikeIsFlagged
<1>1. ASSUME FraudInv, CounterInv, [Next]_vars, NEW p \in Payments,
             pc[p] \in {"velocity", "again"}, pc'[p] = "total",
             count'[MerchantOf[p]] > count[MerchantOf[p]],
             Cardinality(Recent(MerchantOf[p])') > Limit
      PROVE  "velocity_exceeded" \in flags'[p]
  <2> USE DEF FraudInv, TypeOK, Goto
  <2>1. CASE CheckVelocity(p)
    <3>1. count'[MerchantOf[p]] > Limit
      BY <1>1, <2>1, IncrementCounts DEF CheckVelocity
    <3>2. "velocity_exceeded" \in VelocityFlags(count'[MerchantOf[p]])
      BY <3>1 DEF VelocityFlags
    <3> QED BY <1>1, <2>1, <3>2 DEF CheckVelocity, AddFlags
  <2>2. ASSUME NEW q \in Payments, q # p, Step(q) \/ Faulty(q) PROVE FALSE
    BY <1>1, <2>2 DEF Step, Faulty, SeedCounter, Begin, CheckVelocity, CountAll,
       CountFailures, CommonCurrency, Finish, NextRound, Duplicate, Report, VelocityReplyLost,
       SkipVelocity, Abort, End
  <2>3. CASE Step(p) \/ Faulty(p)
    BY <1>1, <2>1, <2>3 DEF Step, Faulty, SeedCounter, Begin, CountAll,
       CountFailures, CommonCurrency, Finish, NextRound, Duplicate, Report, VelocityReplyLost,
       SkipVelocity, Abort, End,
       counterVars
  <2>4. CASE Tick \/ UNCHANGED vars
    BY <1>1, <2>4 DEF Tick, vars
  <2> QED BY <1>1, <2>2, <2>3, <2>4 DEF Next
<1>2. FraudInv /\ CounterInv /\ [Next]_vars =>
        [\A p \in Payments :
           /\ pc[p] \in {"velocity", "again"} /\ pc'[p] = "total"
           /\ count'[MerchantOf[p]] > count[MerchantOf[p]]
           /\ Cardinality(Recent(MerchantOf[p])') > Limit
           => "velocity_exceeded" \in flags'[p]]_vars
  BY <1>1
<1> QED BY <1>2, AlwaysCounterInv, PTL DEF Spec, SpikeIsFlagged
-----------------------------------------------------------------------------
(* Every FAILED row since the start is one of a simulated payment, and a   *)
(* session that was flagged for failures has seen three.                   *)
FailureInv ==
  /\ \A m \in Merchants : failures[m] = before[m] + Cardinality(FailedSimulations(m))
  /\ \A p \in Payments :
        "repeated_failures" \in flags[p] => failures[MerchantOf[p]] + OwnFailures(p) >= 3

LEMMA SimulationsFinite ==
  ASSUME NEW m
  PROVE  IsFiniteSet(FailedSimulations(m)) /\ Cardinality(FailedSimulations(m)) \in Nat
<1>1. FailedSimulations(m) \subseteq Payments
  BY DEF FailedSimulations
<1> QED BY <1>1, FS_Subset, FS_CardinalityType

(* The end of a session adds a FAILED row and a failed simulation together *)
(* or neither of them.                                                     *)
LEMMA EndKeepsFailureInv ==
  ASSUME FraudInv, FailureInv, NEW p \in Payments, NEW status, End(p, status), pc[p] # "done",
         \/ UNCHANGED rowVars /\ status # "FAILED"
         \/ AddRow(p, status) /\ (status = "FAILED" => KindOf[p] = "simulate")
  PROVE  FailureInv'
<1> USE DEF FraudInv, TypeOK, FlagInv
<1> DEFINE m == MerchantOf[p]
<1>0. m \in Merchants /\ \A q \in Payments : MerchantOf[q] \in Merchants
  OBVIOUS
<1>1. outcome[p] = "none" /\ outcome' = [outcome EXCEPT ![p] = status] /\ before' = before
  BY DEF End
<1>2. \A q \in Payments : flags'[q] = {} \/ (flags'[q] = flags[q] /\ own'[q] = own[q])
  BY DEF End
<1>3. CASE status # "FAILED"
  <2>1. \A k : FailedSimulations(k)' = FailedSimulations(k)
    BY <1>1, <1>3 DEF FailedSimulations
  <2>2. failures' = failures
    BY <1>0, <1>3 DEF AddRow, rowVars
  <2> QED BY <1>1, <1>2, <2>1, <2>2 DEF FailureInv, OwnFailures
<1>4. CASE status = "FAILED"
  <2>1. AddRow(p, status) /\ KindOf[p] = "simulate"
    BY <1>4
  <2>2. failures' = [failures EXCEPT ![m] = @ + 1]
    BY <1>4, <2>1 DEF AddRow
  <2>3. FailedSimulations(m)' = FailedSimulations(m) \union {p} /\ p \notin FailedSimulations(m)
    BY <1>1, <1>4, <2>1 DEF FailedSimulations
  <2>4. \A k \in Merchants \ {m} : FailedSimulations(k)' = FailedSimulations(k)
    BY <1>1 DEF FailedSimulations
  <2>5. Cardinality(FailedSimulations(m)') = Cardinality(FailedSimulations(m)) + 1
    <3>1. IsFiniteSet(FailedSimulations(m))
      BY SimulationsFinite
    <3> DEFINE more == FailedSimulations(m) \union {p}
    <3>2. Cardinality(more) = Cardinality(FailedSimulations(m)) + 1
      BY <2>3, <3>1, FS_AddElement
    <3> QED BY <2>3, <3>2
  <2>6. Cardinality(FailedSimulations(m)) \in Nat
    BY SimulationsFinite
  <2>7. \A k \in Merchants : failures'[k] = before'[k] + Cardinality(FailedSimulations(k)')
    <3>1. failures'[m] = before'[m] + Cardinality(FailedSimulations(m)')
      BY <1>0, <1>1, <2>2, <2>5, <2>6 DEF FailureInv
    <3>2. \A k \in Merchants \ {m} : failures'[k] = failures[k]
      BY <2>2
    <3>3. \A k \in Merchants : failures[k] = before[k] + Cardinality(FailedSimulations(k))
      BY DEF FailureInv
    <3> QED BY <1>1, <2>4, <3>1, <3>2, <3>3
  <2>8. \A k \in Merchants : failures'[k] >= failures[k]
    BY <2>2
  <2>9. \A q \in Payments : "repeated_failures" \in flags'[q] =>
                               failures'[MerchantOf[q]] + OwnFailures(q)' >= 3
    <3> SUFFICES ASSUME NEW q \in Payments, "repeated_failures" \in flags'[q]
                 PROVE  failures'[MerchantOf[q]] + OwnFailures(q)' >= 3
      OBVIOUS
    <3>1. flags'[q] = flags[q] /\ own'[q] = own[q]
      BY <1>2
    <3>2. failures[MerchantOf[q]] + OwnFailures(q) >= 3
      BY <3>1 DEF FailureInv
    <3>3. /\ failures'[MerchantOf[q]] >= failures[MerchantOf[q]]
          /\ failures[MerchantOf[q]] \in Nat /\ failures'[MerchantOf[q]] \in Nat
      BY <1>0, <2>2, <2>8
    <3> QED BY <3>1, <3>2, <3>3 DEF OwnFailures
  <2> QED BY <2>7, <2>9 DEF FailureInv
<1> QED BY <1>3, <1>4

LEMMA InductiveFailureInv == FraudInv /\ FailureInv /\ [Next]_vars => FailureInv'
<1> SUFFICES ASSUME FraudInv, FailureInv, [Next]_vars PROVE FailureInv'
  OBVIOUS
<1> USE DEF FraudInv, TypeOK, FlagInv
(* Steps that touch neither rows nor outcomes.                             *)
<1>1. ASSUME UNCHANGED <<rowVars, before, outcome>>,
             \A p \in Payments : "repeated_failures" \in flags'[p] =>
                /\ own'[p] = own[p]
                /\ \/ "repeated_failures" \in flags[p]
                   \/ failures[MerchantOf[p]] + OwnFailures(p) >= 3
      PROVE  FailureInv'
  <2>1. \A m : FailedSimulations(m)' = FailedSimulations(m)
    BY <1>1 DEF FailedSimulations
  <2> QED BY <1>1, <2>1 DEF FailureInv, OwnFailures, rowVars
<1>2. ASSUME NEW p \in Payments, Step(p) \/ Faulty(p) PROVE FailureInv'
  <2>1. CASE SeedCounter(p) \/ Begin(p) \/ VelocityReplyLost(p) \/ NextRound(p)
    BY <1>1, <2>1 DEF SeedCounter, Begin, VelocityReplyLost, NextRound
  <2>2. CASE CheckVelocity(p)
    <3>1. PICK n : AddFlags(p, VelocityFlags(n) \union AmountFlags(Amount[p]))
      BY <2>2 DEF CheckVelocity
    <3>2. "repeated_failures" \notin VelocityFlags(n) \union AmountFlags(Amount[p])
      BY EarlyFlags DEF HistoryRules
    <3> QED BY <1>1, <2>2, <3>1, <3>2 DEF CheckVelocity, AddFlags
  <2>3. CASE SkipVelocity(p)
    <3>1. "repeated_failures" \notin AmountFlags(Amount[p])
      BY EarlyFlags DEF HistoryRules
    <3> QED BY <1>1, <2>3, <3>1 DEF SkipVelocity, AddFlags
  <2>4. CASE CountAll(p) \/ CommonCurrency(p)
    <3>1. PICK more : /\ AddFlags(p, more) /\ "repeated_failures" \notin more
      BY <2>4, LateFlags DEF CountAll, CommonCurrency
    <3> QED BY <1>1, <2>4, <3>1 DEF CountAll, CommonCurrency, AddFlags
  <2>5. CASE CountFailures(p)
    <3>1. "repeated_failures" \in FailureFlags(failures[MerchantOf[p]] + OwnFailures(p)) =>
             failures[MerchantOf[p]] + OwnFailures(p) >= 3
      BY DEF FailureFlags
    <3> QED BY <1>1, <2>5, <3>1 DEF CountFailures, AddFlags
  <2>6. CASE Finish(p)
    <3>1. PICK status \in StatusOf(p) :
             \/ /\ status = "COMPLETED" \/ KindOf[p] = "simulate"
                /\ AddRow(p, status) /\ End(p, status)
             \/ UNCHANGED rowVars /\ End(p, "rolledback")
      BY <2>6 DEF Finish
    <3>2. pc[p] # "done"
      BY <2>6 DEF Finish
    <3> QED BY <3>1, <3>2, EndKeepsFailureInv
  <2>7. CASE Duplicate(p) \/ Report(p) \/ Abort(p)
    <3>1. pc[p] # "done" /\ UNCHANGED rowVars /\ (End(p, "reported") \/ End(p, "rolledback"))
      BY <2>7 DEF Duplicate, Report, Abort
    <3> QED BY <3>1, EndKeepsFailureInv
  <2> QED BY <1>2, <2>1, <2>2, <2>3, <2>4, <2>5, <2>6, <2>7 DEF Step, Faulty
<1>3. CASE Tick \/ UNCHANGED vars
  BY <1>1, <1>3 DEF Tick, vars
<1> QED BY <1>2, <1>3 DEF Next

LEMMA AlwaysFailureInv == Spec => [](FraudInv /\ FailureInv)
<1>1. Init => FailureInv
  <2> SUFFICES ASSUME Init PROVE FailureInv
    OBVIOUS
  <2>1. \A m : Cardinality(FailedSimulations(m)) = 0
    <3>1. \A m : FailedSimulations(m) = {}
      BY DEF Init, FailedSimulations
    <3> QED BY <3>1, FS_EmptySet
  <2>2. \A m \in Merchants : failures[m] = before[m] + 0
    <3>1. failures \in [Merchants -> Nat] /\ before = failures
      BY InitFraudInv DEF Init, FraudInv, TypeOK
    <3> QED BY <3>1
  <2>3. \A p \in Payments : flags[p] = {}
    BY DEF Init
  <2> QED BY <2>1, <2>2, <2>3 DEF FailureInv
<1> QED BY <1>1, InitFraudInv, InductiveFraudInv, InductiveFailureInv, PTL DEF Spec

(* The score stays below 75 without the velocity rule and without repeated *)
(* failures, because a merchant cannot be new and have a currency history. *)
LEMMA ScoreBound ==
  ASSUME NEW f \in SUBSET Rules, "velocity_exceeded" \notin f, "repeated_failures" \notin f,
         ~ {"new_account_high_amount", "currency_mismatch"} \subseteq f
  PROVE  ~ ShouldBlock(f)
<1>1. /\ Points("velocity_exceeded", f) = 0
      /\ Points("repeated_failures", f) = 0
      /\ Points("high_amount", f) \in {0, 20}
      /\ Points("amount_just_below_limit", f) \in {0, 15}
      /\ Points("round_amount", f) \in {0, 10}
      /\ Points("new_account_high_amount", f) \in {0, 20}
      /\ Points("currency_mismatch", f) \in {0, 15}
  BY DEF Points, Weights
<1>2. Points("new_account_high_amount", f) + Points("currency_mismatch", f) <= 20
  BY DEF Points, Weights
<1>3. Total(f) \in Nat /\ Total(f) <= 65
  BY <1>1, <1>2 DEF Total
<1> QED BY <1>3 DEF ShouldBlock, Score

(* fraud_engine.py:196-206: a merchant whose payments were never simulated *)
(* is blocked by the velocity rule or not at all, whatever the amounts,    *)
(* currencies and earlier failures of its payments.                        *)
THEOREM FraudBlockNeedsHistory == Spec => []BlockNeedsHistory
<1>1. FraudInv /\ FailureInv => BlockNeedsHistory
  <2> SUFFICES ASSUME FraudInv, FailureInv, NEW p \in Payments, ShouldBlock(flags[p]),
                      "velocity_exceeded" \notin flags[p]
               PROVE  before[MerchantOf[p]] + Cardinality(FailedSimulations(MerchantOf[p]))
                        + OwnFailures(p) >= 3
    BY DEF BlockNeedsHistory
  <2>1. flags[p] \in SUBSET Rules /\ MerchantOf[p] \in Merchants /\ total[p] \in Nat
    BY DEF FraudInv, TypeOK
  <2>2. ~ {"new_account_high_amount", "currency_mismatch"} \subseteq flags[p]
    BY <2>1 DEF FraudInv, FlagInv
  <2>3. "repeated_failures" \in flags[p]
    BY <2>1, <2>2, ScoreBound
  <2> QED BY <2>1, <2>3 DEF FailureInv
<1> QED BY <1>1, AlwaysFailureInv, PTL
=============================================================================
