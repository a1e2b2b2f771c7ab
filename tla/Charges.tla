------------------------------ MODULE Charges ------------------------------
(***************************************************************************)
(* The arithmetic of a payment: what TransactionCreate accepts             *)
(* (schemas/transaction.py), the fee (calculate_fee), the amount rules of  *)
(* the fraud engine and its score.  An amount is a whole number of units,  *)
(* Cent of which make 0.01 of the currency: 1 for two decimal places,      *)
(* 1000000 for the eight decimal places of NUMERIC(20, 8).                 *)
(***************************************************************************)
EXTENDS Integers

CONSTANTS Cent,        \* units per 0.01
          HighAmount   \* FRAUD_HIGH_AMOUNT_THRESHOLD, in whole currency

ASSUME CentAssumption == Cent \in Nat \ {0}
ASSUME HighAmountAssumption == HighAmount \in Nat

Money(n) == n * 100 * Cent

Fiat   == {"USD", "NGN", "EUR", "GBP"}
Crypto == {"BTC", "ETH"}

(* What passes the validators: three letters, so that USDT, supported or   *)
(* not, never does; positive, at most a million, and no fractions of a     *)
(* cent in fiat.                                                           *)
Accepted(amount, currency) == /\ currency \in Fiat \union Crypto
                              /\ amount > 0
                              /\ amount <= Money(1000000)
                              /\ currency \in Fiat => amount % Cent = 0

(* The rates of calculate_fee, per mille of the amount.                    *)
Rates == [CARD |-> 15, BANK_TRANSFER |-> 10, WALLET |-> 5, CRYPTO |-> 20]

(* n / d to the nearest whole number, a tie to the even one: the rounding  *)
(* of Decimal.quantize in the default context.                             *)
RoundHalfEven(n, d) ==
  LET quotient == n \div d
      rest     == n % d
  IN  IF 2 * rest > d \/ (2 * rest = d /\ quotient % 2 = 1) THEN quotient + 1
                                                            ELSE quotient

FeeOf(amount, rail) == RoundHalfEven(amount * Rates[rail], 1000 * Cent) * Cent
NetOf(amount, rail) == amount - FeeOf(amount, rail)
-----------------------------------------------------------------------------
(* SCORE_WEIGHTS.                                                          *)
Weights == [velocity_exceeded       |-> 40,
            high_amount             |-> 20,
            amount_just_below_limit |-> 15,
            new_account_high_amount |-> 20,
            repeated_failures       |-> 25,
            round_amount            |-> 10,
            currency_mismatch       |-> 15]

Rules == DOMAIN Weights

Points(rule, flags) == IF rule \in flags THEN Weights[rule] ELSE 0

Total(flags) == Points("velocity_exceeded", flags)
              + Points("high_amount", flags)
              + Points("amount_just_below_limit", flags)
              + Points("new_account_high_amount", flags)
              + Points("repeated_failures", flags)
              + Points("round_amount", flags)
              + Points("currency_mismatch", flags)

Score(flags) == IF Total(flags) < 100 THEN Total(flags) ELSE 100

ShouldBlock(flags)  == Score(flags) >= 75
ShouldReview(flags) == Score(flags) >= 40

(* Within 5% below 10000, 5000 or 1000.                                    *)
JustBelow(amount) ==
  \E t \in {10000, 5000, 1000} : 20 * amount >= 19 * Money(t) /\ amount < Money(t)

(* _check_amount.                                                          *)
AmountFlags(amount) ==
  {r \in {"high_amount", "amount_just_below_limit", "round_amount"} :
     \/ r = "high_amount" /\ amount > Money(HighAmount)
     \/ r = "amount_just_below_limit" /\ JustBelow(amount)
     \/ r = "round_amount" /\ amount % Money(1000) = 0 /\ amount >= Money(5000)}

NewAccountFlags(total, amount) ==
  IF total < 5 /\ 2 * amount > Money(HighAmount) THEN {"new_account_high_amount"} ELSE {}

FailureFlags(failures) == IF failures >= 3 THEN {"repeated_failures"} ELSE {}

CurrencyFlags(total, common, currency) ==
  IF common # currency /\ total > 10 THEN {"currency_mismatch"} ELSE {}
=============================================================================
