----------------------------- MODULE LedgerAudit -----------------------------
(***************************************************************************)
(* verify_balance_integrity (ledger.py:257-278) beside the sessions that   *)
(* post: two SELECTs, which at READ COMMITTED see two snapshots.           *)
(***************************************************************************)
EXTENDS Ledger

CONSTANT Audited   \* the accounts one audit is made of

ASSUME AuditedAssumption == Audited \subseteq Accounts

VARIABLE audit     \* the audit

auditVars == <<vars, audit>>

EntriesOn(a) == {e \in journal : e.account = a}

(* `seen', the number of the account's entries when cached_balance was     *)
(* read, is there for the property only.                                   *)
AuditInit == /\ Init
             /\ audit \in [next : {"cached"}, account : Audited,
                           cached : {0}, seen : {0}, alarm : {FALSE}]

GetBalance == /\ audit.next = "cached"
              /\ audit' = [audit EXCEPT !.next = "sum",
                                        !.cached = cached[audit.account],
                                        !.seen = Cardinality(EntriesOn(audit.account))]
              /\ UNCHANGED vars

(* Slip: the sum without the sign of debits.                               *)
UnsignedSum(a) == Opening[a] + MapThenSumSet(LAMBDA e : e.amount, EntriesOn(a))
CompareUnsigned == /\ audit.next = "sum"
                   /\ audit' = [audit EXCEPT
                                  !.next = "verdict",
                                  !.alarm = audit.cached # UnsignedSum(audit.account)]
                   /\ UNCHANGED vars

(* get_true_balance, and the comparison with the cached balance.           *)
Compare == /\ audit.next = "sum"
           /\ audit' = [audit EXCEPT
                          !.next = "verdict", !.cached = 0, !.seen = 0,
                          !.alarm = audit.cached # TrueBalance(audit.account)]
           /\ UNCHANGED vars

AuditNext == \/ Next /\ UNCHANGED audit
             \/ GetBalance
             \/ Compare

AuditSpec == AuditInit /\ [][AuditNext]_auditVars

(* The fairness of the ledger; an audit need not go on.                    *)
FairAuditSpec == AuditSpec /\ \A s \in Sessions : WF_vars(Step(s))
-----------------------------------------------------------------------------
(* An audit that flags an account has seen either a cached balance that    *)
(* really left its journal (a lost update), or a posting to the account    *)
(* that committed between its two reads.                                   *)
AlarmHasACause ==
  [][~ audit.alarm /\ audit'.alarm =>
       \/ Drift(audit.account) # 0
       \/ Cardinality(EntriesOn(audit.account)) > audit.seen]_auditVars
=============================================================================
