---------------------------- MODULE FraudEngine ----------------------------
(***************************************************************************)
(* FraudEngine.evaluate (services/fraud_engine.py) for concurrent payments *)
(* and what their sessions leave behind for the next evaluations.  The     *)
(* velocity counter of a merchant is one Redis key that every evaluation   *)
(* increments and renews; the history rules are SELECTs of their own, each *)
(* of which sees what is committed by then.                                *)
(*                                                                         *)
(* A payment is one of three kinds: "pay", where an exception rolls the    *)
(* session back; "simulate", a payment of /simulate/idempotency, whose     *)
(* exception is swallowed so that get_db commits the row as it is, and     *)
(* which its session may evaluate once more in a later round; and "probe", *)
(* /simulate/fraud, which only evaluates, and in its velocity scenario     *)
(* sets the counter before.                                                *)
(***************************************************************************)
EXTENDS Charges, FiniteSets

CONSTANTS Payments,    \* payments and probes
          Merchants, MerchantOf,
          KindOf,      \* pay, simulate or probe
          Amount, Currency,
          Limit,       \* FRAUD_VELOCITY_LIMIT
          Window,      \* FRAUD_VELOCITY_WINDOW, in ticks
          Seed,        \* the count a probe sets: 999
          Histories,   \* rows a merchant may have before, [rows, failures]
          Weathers     \* sets of faults, what may go wrong in a behaviour;
                       \* "rounds": no result is stored between two rounds

Currencies == Fiat \union Crypto

ASSUME PaymentsAssumption == /\ IsFiniteSet(Payments)
                             /\ MerchantOf \in [Payments -> Merchants]
                             /\ KindOf \in [Payments -> {"pay", "simulate", "probe"}]
ASSUME PayloadAssumption == /\ Currency \in [Payments -> Currencies]
                            /\ Amount \in [Payments -> Nat]
                            /\ \A p \in Payments : Accepted(Amount[p], Currency[p])
ASSUME VelocityAssumption == Limit \in Nat /\ Window \in Nat \ {0} /\ Seed \in Nat /\ Seed >= Limit
ASSUME HistoriesAssumption ==
  Histories \subseteq [rows : [Currencies -> Nat], failures : Nat]
ASSUME WeathersAssumption == \A w \in Weathers : w \subseteq {"redis", "db", "rounds"}

VARIABLES count, ttl,  \* fraud:velocity:<merchant> and its time to live
          rows,        \* committed transactions of a merchant, by currency
          failures,    \* those whose status is FAILED
          before,      \* failures at the start, for the property
          pc,          \* where each payment is
          flags,       \* its FraudResult
          total,       \* the total_count its session has read
          age,         \* ticks since its INCR, Window or more: long ago
          own,         \* the status of the row that the session of a
                       \* simulated payment has flushed in a round before
          outcome,     \* the status its session committed, or why none
          faults

counterVars == <<count, ttl>>
rowVars == <<rows, failures>>
vars == <<counterVars, rowVars, before, pc, flags, total, age, own, outcome, faults>>

Init == /\ count = [m \in Merchants |-> 0]
        /\ ttl = [m \in Merchants |-> 0]
        /\ \E h \in [Merchants -> Histories] :
             /\ rows = [m \in Merchants |-> h[m].rows]
             /\ failures = [m \in Merchants |-> h[m].failures]
        /\ before = failures
        /\ pc = [p \in Payments |-> IF KindOf[p] = "probe" THEN "start" ELSE "velocity"]
        /\ flags = [p \in Payments |-> {}]
        /\ total = [p \in Payments |-> 0]
        /\ age = [p \in Payments |-> Window]
        /\ own = [p \in Payments |-> "none"]
        /\ outcome = [p \in Payments |-> "none"]
        /\ faults \in Weathers

Goto(p, l) == pc' = [pc EXCEPT ![p] = l]
AddFlags(p, more) == flags' = [flags EXCEPT ![p] = @ \union more]

(* Slip: the probe's key outlives the window.                              *)
SeedCounterLonger(p) == LET m == MerchantOf[p] IN
  /\ pc[p] = "start"
  /\ count' = [count EXCEPT ![m] = Seed]
  /\ ttl' = [ttl EXCEPT ![m] = 2 * Window]
  /\ Goto(p, "velocity")
  /\ UNCHANGED <<rowVars, before, flags, total, age, own, outcome, faults>>

(* The probe's SET key 999 EX 60 before it evaluates.                      *)
SeedCounter(p) == LET m == MerchantOf[p] IN
  /\ pc[p] = "start"
  /\ count' = [count EXCEPT ![m] = Seed]
  /\ ttl' = [ttl EXCEPT ![m] = Window]
  /\ Goto(p, "velocity")
  /\ UNCHANGED <<rowVars, before, flags, total, age, own, outcome, faults>>

(* A probe of any other scenario.                                          *)
Begin(p) == /\ pc[p] = "start"
            /\ Goto(p, "velocity")
            /\ UNCHANGED <<counterVars, rowVars, before, flags, total, age, own, outcome, faults>>

(* Slips: a window that starts with its first payment; a key that stays.   *)
IncrementFixedWindow(p) == LET m == MerchantOf[p] IN
  /\ count' = [count EXCEPT ![m] = @ + 1]
  /\ ttl' = [ttl EXCEPT ![m] = IF @ = 0 THEN Window ELSE @]
  /\ age' = [age EXCEPT ![p] = 0]
IncrementForGood(p) == LET m == MerchantOf[p] IN
  /\ count' = [count EXCEPT ![m] = @ + 1]
  /\ age' = [age EXCEPT ![p] = 0]
  /\ UNCHANGED ttl

(* MULTI INCR EXPIRE EXEC: every evaluation renews the key.                *)
Increment(p) == LET m == MerchantOf[p] IN
  /\ count' = [count EXCEPT ![m] = @ + 1]
  /\ ttl' = [ttl EXCEPT ![m] = Window]
  /\ age' = [age EXCEPT ![p] = 0]

VelocityFlags(n) == IF n > Limit THEN {"velocity_exceeded"} ELSE {}

(* _check_velocity and _check_amount.                                      *)
CheckVelocity(p) ==
  /\ pc[p] \in {"velocity", "again"}
  /\ Increment(p)
  /\ AddFlags(p, VelocityFlags(count'[MerchantOf[p]]) \union AmountFlags(Amount[p]))
  /\ Goto(p, "total")
  /\ UNCHANGED <<rowVars, before, total, own, outcome, faults>>

(* The reply is lost; retry_on_timeout runs the transaction once more.  A  *)
(* second timeout raises.                                                  *)
VelocityReplyLost(p) ==
  /\ "redis" \in faults
  /\ pc[p] = "velocity"
  /\ Increment(p)
  /\ Goto(p, "again")
  /\ UNCHANGED <<rowVars, before, flags, total, own, outcome, faults>>

(* Redis raises: the rule is skipped.                                      *)
SkipVelocity(p) ==
  /\ "redis" \in faults
  /\ pc[p] \in {"velocity", "again"}
  /\ AddFlags(p, AmountFlags(Amount[p]))
  /\ Goto(p, "total")
  /\ UNCHANGED <<counterVars, rowVars, before, total, age, own, outcome, faults>>

(* What a session sees: what is committed, and its own row.                *)
Seen(p) == LET m == MerchantOf[p] IN
  IF own[p] = "none" THEN rows[m] ELSE [rows[m] EXCEPT ![Currency[p]] = @ + 1]

OwnFailures(p) == IF own[p] = "FAILED" THEN 1 ELSE 0

Size(r) == r["USD"] + r["NGN"] + r["EUR"] + r["GBP"] + r["BTC"] + r["ETH"]

(* The three SELECTs of _check_account_history.                            *)
CountAll(p) == LET n == Size(Seen(p)) IN
  /\ pc[p] = "total"
  /\ total' = [total EXCEPT ![p] = n]
  /\ AddFlags(p, NewAccountFlags(n, Amount[p]))
  /\ Goto(p, "failures")
  /\ UNCHANGED <<counterVars, rowVars, before, age, own, outcome, faults>>

CountFailures(p) ==
  /\ pc[p] = "failures"
  /\ AddFlags(p, FailureFlags(failures[MerchantOf[p]] + OwnFailures(p)))
  /\ Goto(p, IF total[p] > 0 THEN "currency" ELSE "judged")
  /\ UNCHANGED <<counterVars, rowVars, before, total, age, own, outcome, faults>>

(* The most frequent currency; which of two equally frequent ones comes    *)
(* first is the database's choice.                                         *)
CommonCurrency(p) ==
  /\ pc[p] = "currency"
  /\ \E c \in Currencies :
       /\ \A d \in Currencies : Seen(p)[d] <= Seen(p)[c]
       /\ AddFlags(p, CurrencyFlags(total[p], c, Currency[p]))
  /\ Goto(p, "judged")
  /\ UNCHANGED <<counterVars, rowVars, before, total, age, own, outcome, faults>>

(* The payment goes on to a status of its own: FLAGGED if it is blocked,   *)
(* and else what the rest of _do_process makes of it; a busy wallet leaves *)
(* it INITIATED.                                                           *)
StatusOf(p) == IF ShouldBlock(flags[p]) THEN {"FLAGGED"}
                                        ELSE {"INITIATED", "COMPLETED", "FAILED"}

AddRow(p, status) == LET m == MerchantOf[p] IN
  /\ rows' = [rows EXCEPT ![m][Currency[p]] = @ + 1]
  /\ failures' = [failures EXCEPT ![m] = IF status = "FAILED" THEN @ + 1 ELSE @]

(* The session is over, and with it its FraudResult and what it alone saw. *)
End(p, status) == /\ Goto(p, "done")
                  /\ outcome' = [outcome EXCEPT ![p] = status]
                  /\ flags' = [flags EXCEPT ![p] = {}]
                  /\ total' = [total EXCEPT ![p] = 0]
                  /\ own' = [own EXCEPT ![p] = "none"]
                  /\ UNCHANGED <<counterVars, before, age, faults>>

(* Slip: get_db commits after an exception, too.                           *)
FinishCommitting(p) ==
  /\ pc[p] = "judged" /\ KindOf[p] # "probe" /\ own[p] = "none"
  /\ \E status \in StatusOf(p) : AddRow(p, status) /\ End(p, status)

(* An exception rolls a payment's session back, and is swallowed in a      *)
(* simulated one, whose row is committed with the status it has got.       *)
Finish(p) ==
  /\ pc[p] = "judged" /\ KindOf[p] # "probe" /\ own[p] = "none"
  /\ \E status \in StatusOf(p) :
       \/ /\ status = "COMPLETED" \/ KindOf[p] = "simulate"
          /\ AddRow(p, status)
          /\ End(p, status)
       \/ /\ status # "COMPLETED" /\ KindOf[p] = "pay"
          /\ UNCHANGED rowVars
          /\ End(p, "rolledback")

(* The next round of a simulated payment meets no stored result: its key   *)
(* is empty, or Redis has lost it.                                         *)
NextRound(p) ==
  /\ "rounds" \in faults
  /\ pc[p] = "judged" /\ KindOf[p] = "simulate" /\ own[p] = "none"
  /\ \E status \in StatusOf(p) : own' = [own EXCEPT ![p] = status]
  /\ flags' = [flags EXCEPT ![p] = {}]
  /\ total' = [total EXCEPT ![p] = 0]
  /\ Goto(p, "velocity")
  /\ UNCHANGED <<counterVars, rowVars, before, age, outcome, faults>>

(* Its INSERT fails on the key, which the session has used, and the COMMIT *)
(* with it.                                                                *)
Duplicate(p) == /\ pc[p] = "judged" /\ own[p] # "none"
                /\ UNCHANGED rowVars
                /\ End(p, "rolledback")

(* A probe leaves nothing but the counter.                                 *)
Report(p) == /\ pc[p] = "judged" /\ KindOf[p] = "probe"
             /\ UNCHANGED rowVars
             /\ End(p, "reported")

(* The database fails, or the process dies, anywhere.                      *)
Abort(p) == /\ "db" \in faults
            /\ pc[p] # "done"
            /\ UNCHANGED rowVars
            /\ End(p, "rolledback")

Less(n) == IF n > 0 THEN n - 1 ELSE 0

(* One tick of the clock; a key that reaches 0 is gone.                    *)
Tick == /\ (\E m \in Merchants : ttl[m] > 0) \/ (\E p \in Payments : age[p] < Window)
        /\ ttl' = [m \in Merchants |-> Less(ttl[m])]
        /\ count' = [m \in Merchants |-> IF ttl[m] = 1 THEN 0 ELSE count[m]]
        /\ age' = [p \in Payments |-> IF age[p] < Window THEN age[p] + 1 ELSE Window]
        /\ UNCHANGED <<rowVars, before, pc, flags, total, own, outcome, faults>>

Step(p) == \/ SeedCounter(p) \/ Begin(p) \/ CheckVelocity(p)
           \/ CountAll(p) \/ CountFailures(p) \/ CommonCurrency(p)
           \/ Finish(p) \/ NextRound(p) \/ Duplicate(p) \/ Report(p)

Faulty(p) == VelocityReplyLost(p) \/ SkipVelocity(p) \/ Abort(p)

Next == (\E p \in Payments : Step(p) \/ Faulty(p)) \/ Tick

Spec == Init /\ [][Next]_vars

(* Time passes, whatever the payments do.                                  *)
FairSpec == Spec /\ WF_vars(Tick)
-----------------------------------------------------------------------------
Places == {"start", "velocity", "again", "total", "failures", "currency", "judged", "done"}
Statuses == {"INITIATED", "COMPLETED", "FAILED", "FLAGGED"}
Outcomes == Statuses \union {"none", "rolledback", "reported"}

TypeOK == /\ count \in [Merchants -> Nat]
          /\ ttl \in [Merchants -> 0..Window]
          /\ rows \in [Merchants -> [Currencies -> Nat]]
          /\ failures \in [Merchants -> Nat]
          /\ before \in [Merchants -> Nat]
          /\ pc \in [Payments -> Places]
          /\ flags \in [Payments -> SUBSET Rules]
          /\ total \in [Payments -> Nat]
          /\ age \in [Payments -> 0..Window]
          /\ own \in [Payments -> Statuses \union {"none"}]
          /\ outcome \in [Payments -> Outcomes]
          /\ faults \in Weathers

(* The evaluations of a merchant in the last Window ticks.                 *)
Recent(m) == {p \in Payments : MerchantOf[p] = m /\ age[p] < Window}

(* fraud_engine.py:86-88 and config.py:77, as far as it is true: a payment *)
(* whose counter was read is flagged whenever more than the limit of its   *)
(* merchant's payments were evaluated in the last Window ticks, however    *)
(* payments, expiry, lost replies and probes interleave.  (The converse    *)
(* fails: the key is renewed by every payment, so that a slow but steady   *)
(* merchant is flagged as well.)                                           *)
SpikeIsFlagged ==
  [][\A p \in Payments :
       /\ pc[p] \in {"velocity", "again"} /\ pc'[p] = "total"
       /\ count'[MerchantOf[p]] > count[MerchantOf[p]]
       /\ Cardinality(Recent(MerchantOf[p])') > Limit
       => "velocity_exceeded" \in flags'[p]]_vars

(* Simulated payments whose failure was committed.                         *)
FailedSimulations(m) ==
  {p \in Payments : MerchantOf[p] = m /\ KindOf[p] = "simulate" /\ outcome[p] = "FAILED"}

(* The engine blocks nobody on amounts and history alone: that takes the   *)
(* velocity rule, or three FAILED rows, which no rolled back payment and   *)
(* only simulated payments leave behind, or show to the later rounds of    *)
(* their own session (fraud_engine.py:196-206).                            *)
BlockNeedsHistory ==
  \A p \in Payments :
     ShouldBlock(flags[p]) =>
        \/ "velocity_exceeded" \in flags[p]
        \/ before[MerchantOf[p]] + Cardinality(FailedSimulations(MerchantOf[p]))
             + OwnFailures(p) >= 3

(* A merchant that pauses is forgotten: no counter stays for ever.         *)
VelocityForgets == \A m \in Merchants : []<>(count[m] = 0)
=============================================================================
