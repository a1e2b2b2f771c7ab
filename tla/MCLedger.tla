------------------------------ MODULE MCLedger ------------------------------
(* A wallet (1), which is audited, the platform escrow (2), and a frozen   *)
(* wallet (3) whose row is locked after the escrow's.  Two postings of the *)
(* first kind exceed the wallet; one kind runs against the order of the    *)
(* others; one has no positive amount.                                     *)
EXTENDS LedgerAudit, Sequences

MCPosting(d, c, n) == [debit |-> d, credit |-> c, amount |-> n]

Kinds == << MCPosting(1, 2, 2), MCPosting(2, 1, 1), MCPosting(3, 2, 1), MCPosting(1, 2, 0) >>

MCSessions == 1..3
MCAccounts == 1..3
MCFrozen   == {3}
MCOpening  == [a \in MCAccounts |-> IF a = 2 THEN 1 ELSE 2]
MCPostings == { Kinds[k] : k \in DOMAIN Kinds }

(* The sessions are interchangeable: one order of the kinds stands for all.*)
MCInit == /\ AuditInit
          /\ \A s, t \in Sessions : \E j, k \in DOMAIN Kinds :
                posting[s] = Kinds[j] /\ posting[t] = Kinds[k] /\ (s < t => j <= k)

(* FairAuditSpec from these initial states.                                *)
MCSpec == /\ MCInit
          /\ [][AuditNext]_auditVars
          /\ \A s \in Sessions : WF_vars(Step(s))
=============================================================================
