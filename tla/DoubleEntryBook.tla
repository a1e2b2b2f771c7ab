-------------------------- MODULE DoubleEntryBook --------------------------
(***************************************************************************)
(* What LedgerService.post_double_entry promises (ledger.py:139-149): the  *)
(* journal only ever grows, and it grows by whole postings, one DEBIT and  *)
(* one CREDIT of the same positive amount, "either both succeed or both    *)
(* fail".  Each database transaction books at most one posting.            *)
(***************************************************************************)
EXTENDS Integers

CONSTANTS Sessions,    \* database transactions, each serving one request
          Postings     \* the postings that callers ask for

VARIABLE legs          \* the committed journal entries

Leg(s, a, t, n) == [txn |-> s, account |-> a, type |-> t, amount |-> n]

Pair(s, p) == { Leg(s, p.debit, "DEBIT", p.amount),
                Leg(s, p.credit, "CREDIT", p.amount) }

Booked(s) == \E l \in legs : l.txn = s

Init == legs = {}

Book(s) == /\ ~ Booked(s)
           /\ \E p \in Postings : /\ p.amount > 0
                                  /\ legs' = legs \union Pair(s, p)

Next == \E s \in Sessions : Book(s)

Spec == Init /\ [][Next]_legs
-----------------------------------------------------------------------------
(* Every transaction that appears in the journal appears with exactly the  *)
(* two legs of one posting: the journal balances, transaction by           *)
(* transaction.                                                            *)
Balanced == \A l \in legs : \E p \in Postings :
               /\ p.amount > 0
               /\ {k \in legs : k.txn = l.txn} = Pair(l.txn, p)
=============================================================================
