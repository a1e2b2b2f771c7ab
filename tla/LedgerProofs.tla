---------------------------- MODULE LedgerProofs ----------------------------
(***************************************************************************)
(* Proofs about the ledger, for every set of sessions, accounts and        *)
(* postings.                                                               *)
(***************************************************************************)
EXTENDS LedgerAudit, FiniteSetTheorems, TLAPS

(* Rows are locked in ascending order, only those of the posting, and kept *)
(* until the session ends; what is locked before the posting is usable and *)
(* the amount has been checked.                                            *)
RowInv(s) ==
  /\ \A a \in Accounts : rowLock[a] = s =>
        /\ a \in Legs(s)
        /\ pc[s] \in {"lock", "posted", "raised"}
        /\ pc[s] \in {"lock", "posted"} => /\ a \notin Frozen
                                           /\ posting[s].amount > 0
  /\ pc[s] = "lock" =>
        \A a, b \in Legs(s) : rowLock[a] = s /\ rowLock[b] # s => a < b
  /\ pc[s] = "posted" => \A a \in Legs(s) : rowLock[a] = s

(* Only committed sessions are in the journal, each with the two entries   *)
(* of its own posting, and on usable accounts.                             *)
JournalInv == \A e \in journal : pc[e.txn] = "committed" /\ e.account \notin Frozen

IInv == /\ TypeOK
        /\ \A s \in Sessions : RowInv(s)
        /\ JournalInv

(* A posting names two different accounts and an integer amount.           *)
LEMMA PostingTypes ==
  ASSUME TypeOK, NEW s \in Sessions
  PROVE  /\ posting[s] \in Postings
         /\ posting[s].debit \in Accounts
         /\ posting[s].credit \in Accounts
         /\ posting[s].amount \in Int
         /\ posting[s].debit # posting[s].credit
         /\ Legs(s) \subseteq Accounts
  BY PostingsAssumption DEF TypeOK, Legs

LEMMA CopyTypes ==
  ASSUME TypeOK, NEW s \in Sessions, NEW a \in Accounts
  PROVE  copy[s][a] \in Nat
  BY DEF TypeOK

LEMMA InitIInv == Init => IInv
<1> SUFFICES ASSUME Init PROVE IInv
  OBVIOUS
<1>1. TypeOK
  BY OpeningAssumption DEF Init, TypeOK, Live, Ended
<1>2. \A s \in Sessions : RowInv(s)
  BY NoSessionAssumption DEF Init, RowInv
<1>3. JournalInv
  BY DEF Init, JournalInv
<1> QED BY <1>1, <1>2, <1>3 DEF IInv

(* Steps that lock no row and commit nothing keep RowInv of the sessions   *)
(* that do not take them.                                                  *)
LEMMA RowInvFrame ==
  ASSUME NEW s, RowInv(s),
         pc'[s] = pc[s],
         posting'[s] = posting[s],
         \A a \in Accounts : rowLock'[a] = s <=> rowLock[a] = s,
         Legs(s) \subseteq Accounts
  PROVE  RowInv(s)'
  BY DEF RowInv, Legs

LEMMA TypeStep ==
  ASSUME IInv, [Next]_vars
  PROVE  TypeOK'
<1> USE DEF IInv, Live, Ended
<1>1. ASSUME NEW s \in Sessions, LoadWallet(s) PROVE TypeOK'
  BY <1>1, PostingTypes DEF LoadWallet, Load, Goto, TypeOK
<1>2. ASSUME NEW s \in Sessions, LoadEscrow(s) PROVE TypeOK'
  BY <1>2, PostingTypes DEF LoadEscrow, Load, Goto, TypeOK
<1>3. ASSUME NEW s \in Sessions, RejectAmount(s) PROVE TypeOK'
  BY <1>3 DEF RejectAmount, Goto, TypeOK
<1>4. ASSUME NEW s \in Sessions, NEW a \in Accounts, GetForUpdate(s, a) PROVE TypeOK'
  BY <1>4 DEF GetForUpdate, LockRow, RefuseFrozen, Goto, TypeOK
<1>5. ASSUME NEW s \in Sessions, Insufficient(s) PROVE TypeOK'
  BY <1>5 DEF Insufficient, Goto, TypeOK
<1>6. ASSUME NEW s \in Sessions, Post(s) PROVE TypeOK'
  <2> DEFINE p == posting[s]
  <2>1. p.debit \in Accounts /\ p.credit \in Accounts /\ p.amount \in Int
    BY PostingTypes
  <2>2. rowLock[p.debit] = s
    BY <1>6 DEF Post, AllLocked, Held, Legs
  <2>3. p.amount > 0
    BY <1>6, <2>1, <2>2 DEF RowInv, Post
  <2>4. /\ copy[s][p.debit] \in Nat /\ copy[s][p.debit] >= p.amount
        /\ copy[s][p.credit] \in Nat
    BY <1>6, <2>1, CopyTypes DEF Post
  <2>5. /\ copy[s][p.debit] - p.amount \in Nat
        /\ copy[s][p.credit] + p.amount \in Nat
    BY <2>1, <2>3, <2>4
  <2>6. ASSUME NEW t \in Sessions, NEW a \in Accounts PROVE copy'[t][a] \in Nat
    BY <1>6, <2>1, <2>5, PostingTypes DEF Post, TypeOK
  <2>7. copy' \in [Sessions -> [Accounts -> Nat]]
    <3>1. copy' = [t \in Sessions |-> [a \in Accounts |-> copy'[t][a]]]
      BY <1>6 DEF Post, TypeOK
    <3> QED BY <2>6, <3>1
  <2> QED BY <1>6, <2>7 DEF Post, Goto, TypeOK
<1>7. ASSUME NEW s \in Sessions, Commit(s) PROVE TypeOK'
  <2>0. posting[s].debit \in Accounts /\ posting[s].credit \in Accounts
    BY PostingTypes
  <2>1. posting[s].amount \in Nat \ {0}
    <3>1. rowLock[posting[s].debit] = s
      BY <1>7 DEF Commit, RowInv, Legs
    <3>2. posting[s].amount > 0
      BY <1>7, <2>0, <3>1 DEF Commit, RowInv
    <3> QED BY <3>2, PostingTypes
  <2>2. EntriesOf(s) \subseteq EntryRecords
    <3>1. copy[s][posting[s].debit] \in Nat /\ copy[s][posting[s].credit] \in Nat
      BY <2>0, CopyTypes
    <3> QED BY <2>0, <2>1, <3>1 DEF EntriesOf, Entry, EntryRecords
  <2>3. cached' \in [Accounts -> Nat]
    BY <1>7, PostingTypes DEF Commit, TypeOK
  <2> QED BY <1>7, <2>2, <2>3 DEF Commit, Goto, Unlock, TypeOK
<1>8. ASSUME NEW s \in Sessions, Rollback(s) PROVE TypeOK'
  BY <1>8 DEF Rollback, Goto, Unlock, TypeOK
<1>9. ASSUME NEW s \in Sessions, Abort(s) PROVE TypeOK'
  BY <1>9 DEF Abort, Goto, Unlock, TypeOK
<1>10. ASSUME NEW s \in Sessions, Fails(s) PROVE TypeOK'
  BY <1>10 DEF Fails, Goto, TypeOK
<1>11. CASE UNCHANGED vars
  BY <1>11 DEF vars, TypeOK
<1> QED
  BY <1>1, <1>2, <1>3, <1>4, <1>5, <1>6, <1>7, <1>8, <1>9, <1>10, <1>11
     DEF Next, Step, Faulty

(* A session's step touches no other session's program counter or rows.    *)
LEMMA StepFrame ==
  ASSUME IInv, NEW s \in Sessions, Step(s) \/ Faulty(s),
         NEW t \in Sessions, t # s
  PROVE  RowInv(t)'
<1>1. Legs(t) \subseteq Accounts /\ RowInv(t)
  BY PostingTypes DEF IInv
<1>2. pc'[t] = pc[t] /\ posting' = posting
  BY DEF IInv, TypeOK, Step, Faulty, Fails, Abort, LoadWallet, LoadEscrow, RejectAmount,
         GetForUpdate, LockRow, RefuseFrozen, Insufficient, Post, Commit, Rollback, Goto
<1>3. \A a \in Accounts : rowLock'[a] = t <=> rowLock[a] = t
  <2>1. ASSUME NEW a \in Accounts, GetForUpdate(s, a)
        PROVE  \A b \in Accounts : rowLock'[b] = t <=> rowLock[b] = t
    BY <2>1, NoSessionAssumption DEF IInv, TypeOK, GetForUpdate, LockRow, RefuseFrozen
  <2>2. CASE Unlock(s)
    BY <2>2, NoSessionAssumption DEF IInv, TypeOK, Unlock
  <2>3. CASE UNCHANGED rowLock
    BY <2>3
  <2> QED BY <2>1, <2>2, <2>3 DEF Step, Faulty, Fails, Abort, LoadWallet, LoadEscrow,
             RejectAmount, Insufficient, Post, Commit, Rollback
<1> QED BY <1>1, <1>2, <1>3, RowInvFrame

LEMMA RowStep ==
  ASSUME IInv, NEW s \in Sessions, Step(s) \/ Faulty(s)
  PROVE  RowInv(s)'
<1> USE DEF IInv
<1>0. Legs(s) \subseteq Accounts /\ RowInv(s)
  BY PostingTypes
<1>1. CASE LoadWallet(s)
  BY <1>0, <1>1 DEF LoadWallet, Goto, TypeOK, RowInv, Legs
<1>2. CASE LoadEscrow(s)
  BY <1>0, <1>2 DEF LoadEscrow, Goto, TypeOK, RowInv, Legs
<1>3. CASE RejectAmount(s)
  BY <1>0, <1>3 DEF RejectAmount, Goto, TypeOK, RowInv, Legs
<1>4. ASSUME NEW a \in Accounts, GetForUpdate(s, a) PROVE RowInv(s)'
  <2>1. a \in Legs(s) /\ rowLock[a] # s
        /\ \A b \in Legs(s) : rowLock[b] # s => a <= b
    BY <1>0, <1>4 DEF GetForUpdate, LockRow, RefuseFrozen, NextRow, Held
  <2>2. posting' = posting /\ Legs(s)' = Legs(s) /\ pc[s] = "lock"
    BY <1>4 DEF GetForUpdate, LockRow, RefuseFrozen, Legs
  <2>3. \A b \in Accounts : rowLock'[b] = s <=> b = a \/ rowLock[b] = s
    BY <1>4 DEF GetForUpdate, LockRow, RefuseFrozen, TypeOK
  <2>4. pc'[s] = IF a \in Frozen THEN "raised" ELSE "lock"
    BY <1>4, <2>2 DEF GetForUpdate, LockRow, RefuseFrozen, Goto, TypeOK
  <2>5. posting[s].amount > 0
    BY <1>4 DEF GetForUpdate, LockRow, RefuseFrozen
  <2>6. \A b \in Accounts : rowLock'[b] = s =>
          /\ b \in Legs(s)
          /\ pc'[s] \in {"lock", "posted", "raised"}
          /\ pc'[s] \in {"lock", "posted"} => b \notin Frozen /\ posting[s].amount > 0
    BY <1>0, <2>1, <2>2, <2>3, <2>4, <2>5 DEF RowInv
  <2>7. \A b, c \in Legs(s) : rowLock'[b] = s /\ rowLock'[c] # s => b < c
    <3> SUFFICES ASSUME NEW b \in Legs(s), NEW c \in Legs(s),
                        rowLock'[b] = s, rowLock'[c] # s
                 PROVE  b < c
      OBVIOUS
    <3>1. b \in Nat /\ c \in Nat /\ a \in Nat
      BY <1>0, AccountsAssumption
    <3>2. c # a /\ rowLock[c] # s /\ (b = a \/ rowLock[b] = s)
      BY <1>0, <2>3
    <3>3. CASE b = a
      BY <2>1, <3>1, <3>2, <3>3
    <3>4. CASE rowLock[b] = s
      BY <1>0, <2>2, <3>2, <3>4 DEF RowInv
    <3> QED BY <3>2, <3>3, <3>4
  <2> QED BY <2>2, <2>4, <2>6, <2>7 DEF RowInv
<1>5. CASE Insufficient(s)
  BY <1>0, <1>5 DEF Insufficient, Goto, TypeOK, RowInv, Legs
<1>6. CASE Post(s)
  <2>1. \A a \in Legs(s) : rowLock[a] = s
    BY <1>6 DEF Post, AllLocked, Held
  <2> QED BY <1>0, <1>6, <2>1 DEF Post, Goto, TypeOK, RowInv, Legs
<1>7. CASE Fails(s)
  BY <1>0, <1>7 DEF Fails, Goto, Live, TypeOK, RowInv, Legs
<1>8. CASE Unlock(s) /\ pc'[s] \in Ended
  BY <1>0, <1>8, NoSessionAssumption DEF Unlock, Ended, RowInv
<1> QED
  <2>1. Commit(s) \/ Rollback(s) \/ Abort(s) => Unlock(s) /\ pc'[s] \in Ended
    BY DEF Commit, Rollback, Abort, Goto, TypeOK, Ended
  <2> QED BY <1>1, <1>2, <1>3, <1>4, <1>5, <1>6, <1>7, <1>8, <2>1 DEF Step, Faulty

(* Only Commit adds to the journal, and what it adds lies on rows that     *)
(* were locked while usable.                                               *)
LEMMA JournalStep ==
  ASSUME IInv, NEW s \in Sessions, Step(s) \/ Faulty(s)
  PROVE  JournalInv'
<1> USE DEF IInv
<1>1. CASE Commit(s)
  <2>1. Legs(s) \intersect Frozen = {} /\ Legs(s) \subseteq Accounts
    BY <1>1, PostingTypes DEF Commit, RowInv
  <2>2. \A e \in EntriesOf(s) : e.txn = s /\ e.account \in Legs(s)
    BY DEF EntriesOf, Entry, Legs
  <2>3. \A e \in journal : e.txn \in Sessions
    BY DEF TypeOK, EntryRecords
  <2>4. pc'[s] = "committed" /\ \A t \in Sessions \ {s} : pc'[t] = pc[t]
    BY <1>1 DEF Commit, Goto, TypeOK
  <2>5. journal' = journal \union EntriesOf(s)
    BY <1>1 DEF Commit
  <2> QED BY <2>1, <2>2, <2>3, <2>4, <2>5 DEF JournalInv
<1>2. CASE ~ Commit(s)
  <2>1. journal' = journal
    BY <1>2 DEF Step, Faulty, Fails, Abort, LoadWallet, LoadEscrow, RejectAmount,
                GetForUpdate, LockRow, RefuseFrozen, Insufficient, Post, Rollback
  <2>2. pc[s] # "committed"
    BY <1>2 DEF Step, Faulty, Fails, Abort, LoadWallet, LoadEscrow, RejectAmount,
                GetForUpdate, LockRow, RefuseFrozen, Insufficient, Post, Rollback, Live
  <2>3. \A t \in Sessions \ {s} : pc'[t] = pc[t]
    BY DEF Step, Faulty, Fails, Abort, LoadWallet, LoadEscrow, RejectAmount, GetForUpdate, LockRow, RefuseFrozen,
           Insufficient, Post, Commit, Rollback, Goto, TypeOK
  <2>4. \A e \in journal : e.txn \in Sessions
    BY DEF TypeOK, EntryRecords
  <2> QED BY <2>1, <2>2, <2>3, <2>4 DEF JournalInv
<1> QED BY <1>1, <1>2

LEMMA InductiveIInv == IInv /\ [Next]_vars => IInv'
<1> SUFFICES ASSUME IInv, [Next]_vars PROVE IInv'
  OBVIOUS
<1>1. TypeOK'
  BY TypeStep
<1>2. ASSUME NEW s \in Sessions, Step(s) \/ Faulty(s) PROVE IInv'
  <2>1. \A t \in Sessions : RowInv(t)'
    BY <1>2, StepFrame, RowStep
  <2> QED BY <1>1, <1>2, <2>1, JournalStep DEF IInv
<1>3. CASE UNCHANGED vars
  BY <1>1, <1>3 DEF vars, IInv, RowInv, JournalInv, Legs
<1> QED BY <1>2, <1>3 DEF Next

LEMMA AlwaysIInv == Spec => []IInv
  BY InitIInv, InductiveIInv, PTL DEF Spec

-----------------------------------------------------------------------------
(* TypeOK: no cached balance and no running balance is ever negative, and  *)
(* every journal entry has a positive amount.                              *)
THEOREM LedgerTypeCorrect == Spec => []TypeOK
  BY AlwaysIInv, PTL DEF IInv

(* ledger.py:151-153: sorting the two ids excludes deadlock on row locks:  *)
(* along a chain of waiting sessions the awaited rows ascend, so no chain  *)
(* closes, for any number of sessions and postings in any directions.      *)
THEOREM LedgerWaitsAscend == Spec => []WaitsAscend
<1>1. IInv => WaitsAscend
  <2> SUFFICES ASSUME IInv,
                      NEW s \in Sessions, NEW t \in Sessions, NEW u \in Sessions,
                      NEW a \in Accounts, NEW b \in Accounts,
                      Awaits(s, a, t), Awaits(t, b, u)
               PROVE  a < b
    BY DEF WaitsAscend
  <2>1. rowLock[a] = t /\ a \in Legs(t) /\ pc[t] = "lock"
    BY DEF Awaits, IInv, RowInv
  <2>2. rowLock[b] # t /\ b \in Legs(t)
    BY DEF Awaits, NextRow, Held
  <2> QED BY <2>1, <2>2 DEF IInv, RowInv
<1> QED BY <1>1, AlwaysIInv, PTL

(* ledger.py:78-85: nothing is ever posted to a frozen or closed account.  *)
THEOREM LedgerFrozenUntouched == Spec => []FrozenUntouched
<1>1. IInv => FrozenUntouched
  BY DEF IInv, JournalInv, FrozenUntouched
<1> QED BY <1>1, AlwaysIInv, PTL

(* ledger.py:61-65: from its posting to its COMMIT a session is the only   *)
(* one with unwritten changes to its two accounts.                         *)
THEOREM LedgerOneWriter == Spec => []OneWriterPerAccount
<1>1. IInv => OneWriterPerAccount
  BY DEF IInv, RowInv, OneWriterPerAccount
<1> QED BY <1>1, AlwaysIInv, PTL

(* ledger.py:139-149: the journal implements the double-entry book: it     *)
(* grows by whole postings, one debit and one credit, once per session.    *)
THEOREM LedgerImplementsBook == Spec => JournalIsDoubleEntry
<1> DEFINE Bare(e) == [txn |-> e.txn, account |-> e.account,
                       type |-> e.type, amount |-> e.amount]
           legs == {Bare(e) : e \in journal}
<1>1. Init => Book!Init
  BY DEF Init, Book!Init
<1>2. IInv /\ [Next]_vars => [Book!Next]_legs
  <2> SUFFICES ASSUME IInv, [Next]_vars PROVE Book!Next \/ legs' = legs
    OBVIOUS
  <2>1. ASSUME NEW s \in Sessions, Commit(s) PROVE Book!Next
    <3> DEFINE p == posting[s]
    <3>1. p \in Postings /\ p.amount > 0
      <4>1. p.debit \in Accounts /\ rowLock[p.debit] = s /\ pc[s] = "posted"
        BY <2>1, PostingTypes DEF IInv, Commit, RowInv, Legs
      <4> QED BY <4>1, PostingTypes DEF IInv, RowInv
    <3>2. ~ \E l \in legs : l.txn = s
      <4>1. \A e \in journal : pc[e.txn] = "committed"
        BY DEF IInv, JournalInv
      <4>2. pc[s] = "posted"
        BY <2>1 DEF Commit
      <4>3. \A e \in journal : e.txn # s
        BY <4>1, <4>2
      <4> QED BY <4>3
    <3>3. {Bare(e) : e \in EntriesOf(s)} = Book!Pair(s, p)
      <4>1. /\ Bare(Entry(s, p.debit, "DEBIT")) = Book!Leg(s, p.debit, "DEBIT", p.amount)
            /\ Bare(Entry(s, p.credit, "CREDIT")) = Book!Leg(s, p.credit, "CREDIT", p.amount)
        BY DEF Entry, Book!Leg
      <4> HIDE DEF Bare
      <4> QED BY <4>1 DEF EntriesOf, Book!Pair
    <3>4. legs' = legs \union {Bare(e) : e \in EntriesOf(s)}
      <4>1. journal' = journal \union EntriesOf(s)
        BY <2>1 DEF Commit
      <4>2. legs' = {Bare(e) : e \in journal'}
        OBVIOUS
      <4> HIDE DEF Bare
      <4> QED BY <4>1, <4>2
    <3>5. Book!Book(s)
      BY <3>1, <3>2, <3>3, <3>4 DEF Book!Book, Book!Booked
    <3> QED BY <3>5 DEF Book!Next
  <2>2. ASSUME NEW s \in Sessions, Step(s) \/ Faulty(s), ~ Commit(s)
        PROVE  legs' = legs
    <3>1. journal' = journal
      BY <2>2 DEF Step, Faulty, Fails, Abort, LoadWallet, LoadEscrow, RejectAmount,
                  GetForUpdate, LockRow, RefuseFrozen, Insufficient, Post, Rollback
    <3> QED BY <3>1
  <2>3. CASE UNCHANGED vars
    BY <2>3 DEF vars
  <2> QED BY <2>1, <2>2, <2>3 DEF Next
<1> QED BY <1>1, <1>2, AlwaysIInv, PTL DEF Spec, JournalIsDoubleEntry, Book!Spec

(* The journal as the book sees it.                                        *)
AllLegs == {[txn |-> e.txn, account |-> e.account,
             type |-> e.type, amount |-> e.amount] : e \in journal}

LEMMA BookStepBalances ==
  ASSUME Book!Balanced, NEW s \in Sessions, Book!Book(s)
  PROVE  Book!Balanced'
<1>1. PICK p \in Postings : p.amount > 0 /\ AllLegs' = AllLegs \union Book!Pair(s, p)
  BY DEF Book!Book, AllLegs
<1>2. \A l \in AllLegs : l.txn # s
  BY DEF Book!Book, Book!Booked, AllLegs
<1>3. \A l \in Book!Pair(s, p) : l.txn = s
  BY DEF Book!Pair, Book!Leg
<1>4. {k \in AllLegs' : k.txn = s} = Book!Pair(s, p)
  BY <1>1, <1>2, <1>3
<1>5. \A l \in AllLegs : {k \in AllLegs' : k.txn = l.txn} = {k \in AllLegs : k.txn = l.txn}
  BY <1>1, <1>2, <1>3
<1>6. ASSUME NEW l \in AllLegs'
      PROVE  \E r \in Postings : /\ r.amount > 0
                                 /\ {k \in AllLegs' : k.txn = l.txn} = Book!Pair(l.txn, r)
  <2>1. CASE l \in AllLegs
    BY <2>1, <1>5 DEF Book!Balanced, AllLegs
  <2>2. CASE l \in Book!Pair(s, p)
    BY <2>2, <1>1, <1>3, <1>4
  <2> QED BY <1>1, <1>6, <2>1, <2>2
<1> QED BY <1>6 DEF Book!Balanced, AllLegs

(* ledger.py:139-149: a journal that grows by whole postings, once per     *)
(* transaction, never books on one side only, two amounts, or twice.       *)
LEMMA BookBalanced == JournalIsDoubleEntry => []Book!Balanced
<1>1. Book!Init => Book!Balanced
  BY DEF Book!Init, Book!Balanced
<1>2. Book!Balanced /\ [Book!Next]_AllLegs => Book!Balanced'
  BY BookStepBalances DEF Book!Next, Book!Balanced, AllLegs
<1> QED BY <1>1, <1>2, PTL DEF JournalIsDoubleEntry, Book!Spec, AllLegs

(* The committed journal balances, transaction by transaction.             *)
THEOREM LedgerBalanced == Spec => []Book!Balanced
  BY LedgerImplementsBook, BookBalanced, PTL
-----------------------------------------------------------------------------
(***************************************************************************)
(* Sums.  A sum over a set of entries is defined by a recursion on the     *)
(* subsets of the set; that the recursion has exactly one solution, and    *)
(* that any element may be taken out first, is shown from a smallest       *)
(* subset for which it would not hold.                                     *)
(***************************************************************************)
First(T) == CHOOSE x \in T : TRUE

Rest(T) == T \ {First(T)}

Total(S) == MapThenSumSet(SignedAmount, S)

Solves(g, S) == g = [T \in SUBSET S |->
                       IF T = {} THEN 0 ELSE SignedAmount(First(T)) + g[Rest(T)]]

Solution(S) == CHOOSE g : Solves(g, S)

Integral(S) == IsFiniteSet(S) /\ \A e \in S : SignedAmount(e) \in Int

LEMMA TotalBySolution == \A S : Total(S) = Solution(S)[S]
  BY DEF Total, MapThenSumSet, MapThenFoldSet, Solution, Solves, First, Rest

LEMMA FirstInSet == ASSUME NEW T, T # {}
                    PROVE  /\ First(T) \in T
                           /\ Rest(T) \subseteq T /\ Rest(T) # T
  BY DEF First, Rest

(* Every non-empty set of subsets of a finite set has a smallest one.      *)
LEMMA SmallestSubset ==
  ASSUME NEW S, IsFiniteSet(S), NEW B, B \subseteq SUBSET S, B # {}
  PROVE  \E U \in B : \A V \in SUBSET U : V # U => V \notin B
<1>1. IsWellFoundedOn(StrictSubsetOrdering(S), SUBSET S)
  BY FS_StrictSubsetOrderingWellFounded, FS_FiniteSubsetsOfFinite
<1>2. PICK U \in B : \A V \in B : ~ (<<V, U>> \in StrictSubsetOrdering(S))
  BY <1>1, WFMin
<1>3. \A V \in SUBSET U : V # U /\ V \in B => <<V, U>> \in StrictSubsetOrdering(S)
  BY DEF StrictSubsetOrdering
<1>4. \A V \in SUBSET U : V # U => V \notin B
  BY <1>2, <1>3
<1> QED BY <1>4

(* Two solutions of the recursion agree wherever both are defined.         *)
LEMMA SolutionsAgree ==
  ASSUME NEW S, NEW T, IsFiniteSet(S), NEW g, NEW h, Solves(g, S), Solves(h, T)
  PROVE  \A U \in SUBSET (S \intersect T) : g[U] = h[U]
<1> DEFINE B == {U \in SUBSET S : U \subseteq T /\ g[U] # h[U]}
<1> SUFFICES ASSUME B # {} PROVE FALSE
  OBVIOUS
<1>1. PICK U \in B : \A V \in SUBSET U : V # U => V \notin B
  <2>1. B \subseteq SUBSET S
    OBVIOUS
  <2> HIDE DEF B
  <2> QED BY <2>1, SmallestSubset
<1>2. \A V \in SUBSET U : V \in SUBSET S /\ V \in SUBSET T
  BY <1>1
<1>3. /\ g[U] = IF U = {} THEN 0 ELSE SignedAmount(First(U)) + g[Rest(U)]
      /\ h[U] = IF U = {} THEN 0 ELSE SignedAmount(First(U)) + h[Rest(U)]
  BY <1>2 DEF Solves
<1>4. CASE U = {}
  BY <1>1, <1>3, <1>4
<1>5. CASE U # {}
  <2>1. Rest(U) \in SUBSET U /\ Rest(U) # U
    BY <1>5, FirstInSet
  <2>2. g[Rest(U)] = h[Rest(U)]
    BY <1>1, <1>2, <2>1
  <2> QED BY <1>1, <1>3, <1>5, <2>2
<1> QED BY <1>4, <1>5

LEMMA SolutionExists ==
  ASSUME NEW S, IsFiniteSet(S)
  PROVE  Solves(Solution(S), S)
<1> DEFINE B == {U \in SUBSET S : ~ \E g : Solves(g, U)}
<1>1. SUFFICES ASSUME B # {} PROVE FALSE
  BY DEF Solution
<1>2. PICK U \in B : \A V \in SUBSET U : V # U => V \notin B
  <2>1. B \subseteq SUBSET S
    OBVIOUS
  <2> HIDE DEF B
  <2> QED BY <1>1, <2>1, SmallestSubset
<1>3. ASSUME NEW V \in SUBSET U, V # U PROVE Solves(Solution(V), V) /\ IsFiniteSet(V)
  <2>1. V \in SUBSET S /\ V \notin B
    BY <1>2, <1>3
  <2> QED BY <2>1, FS_Subset DEF Solution
<1> DEFINE h == [T \in SUBSET U |->
                   IF T = {} THEN 0
                   ELSE SignedAmount(First(T)) + Solution(Rest(T))[Rest(T)]]
<1>4. ASSUME NEW V \in SUBSET U, V # U PROVE h[V] = Solution(V)[V]
  <2>1. Solution(V)[V] = IF V = {} THEN 0
                         ELSE SignedAmount(First(V)) + Solution(V)[Rest(V)]
    BY <1>3, <1>4 DEF Solves
  <2>2. CASE V = {}
    BY <2>1, <2>2
  <2>3. CASE V # {}
    <3>1. Rest(V) \in SUBSET V /\ Rest(V) \in SUBSET U /\ Rest(V) # U
      BY <1>4, <2>3, FirstInSet
    <3>2. Solution(V)[Rest(V)] = Solution(Rest(V))[Rest(V)]
      BY <1>3, <1>4, <3>1, SolutionsAgree
    <3> QED BY <2>1, <2>3, <3>2
  <2> QED BY <2>2, <2>3
<1>5. \A T \in SUBSET U : T # {} => Rest(T) \in SUBSET U /\ Rest(T) # U
  BY FirstInSet
<1>6. h = [T \in SUBSET U |-> IF T = {} THEN 0 ELSE SignedAmount(First(T)) + h[Rest(T)]]
  BY <1>4, <1>5
<1>7. Solves(h, U)
  BY <1>6 DEF Solves
<1> QED BY <1>2, <1>7

LEMMA TotalEmpty == Total({}) = 0
  BY SolutionExists, TotalBySolution, FS_EmptySet DEF Solves

LEMMA TotalStep ==
  ASSUME NEW S, IsFiniteSet(S), S # {}
  PROVE  Total(S) = SignedAmount(First(S)) + Total(Rest(S))
<1>1. Rest(S) \in SUBSET S /\ IsFiniteSet(Rest(S))
  BY FirstInSet, FS_Subset
<1>2. Solves(Solution(S), S) /\ Solves(Solution(Rest(S)), Rest(S))
  BY <1>1, SolutionExists
<1>3. Solution(S)[S] = SignedAmount(First(S)) + Solution(S)[Rest(S)]
  BY <1>2 DEF Solves
<1>4. Solution(S)[Rest(S)] = Solution(Rest(S))[Rest(S)]
  BY <1>1, <1>2, SolutionsAgree
<1> QED BY <1>3, <1>4, TotalBySolution

LEMMA TotalType ==
  ASSUME NEW S, Integral(S)
  PROVE  Total(S) \in Int
<1> DEFINE B == {U \in SUBSET S : Total(U) \notin Int}
<1>1. SUFFICES ASSUME B # {} PROVE FALSE
  OBVIOUS
<1>2. PICK U \in B : \A V \in SUBSET U : V # U => V \notin B
  <2>1. B \subseteq SUBSET S /\ IsFiniteSet(S)
    BY DEF Integral
  <2> HIDE DEF B
  <2> QED BY <1>1, <2>1, SmallestSubset
<1>3. CASE U = {}
  BY <1>2, <1>3, TotalEmpty
<1>4. CASE U # {}
  <2>1. First(U) \in S /\ Rest(U) \in SUBSET U /\ Rest(U) # U /\ IsFiniteSet(U)
    BY <1>2, <1>4, FirstInSet, FS_Subset DEF Integral
  <2>2. Total(Rest(U)) \in Int /\ SignedAmount(First(U)) \in Int
    BY <1>2, <2>1 DEF Integral
  <2> QED BY <1>2, <1>4, <2>1, <2>2, TotalStep
<1> QED BY <1>3, <1>4

(* Any element may be taken out of a sum.                                  *)
LEMMA TotalRemove ==
  ASSUME NEW S, Integral(S), NEW x \in S
  PROVE  Total(S) = SignedAmount(x) + Total(S \ {x})
<1> DEFINE B == {U \in SUBSET S : \E y \in U : Total(U) # SignedAmount(y) + Total(U \ {y})}
<1>1. SUFFICES ASSUME B # {} PROVE FALSE
  OBVIOUS
<1>2. PICK U \in B : \A V \in SUBSET U : V # U => V \notin B
  <2>1. B \subseteq SUBSET S /\ IsFiniteSet(S)
    BY DEF Integral
  <2> HIDE DEF B
  <2> QED BY <1>1, <2>1, SmallestSubset
<1>3. PICK y \in U : Total(U) # SignedAmount(y) + Total(U \ {y})
  BY <1>2
<1> DEFINE p == First(U)
<1>4. p \in U /\ IsFiniteSet(U) /\ Total(U) = SignedAmount(p) + Total(U \ {p})
  BY <1>2, <1>3, FirstInSet, FS_Subset, TotalStep DEF Integral, Rest
<1> HIDE DEF p
<1>5. p # y
  BY <1>3, <1>4
<1>6. Total(U \ {p}) = SignedAmount(y) + Total((U \ {p}) \ {y})
  BY <1>2, <1>3, <1>4, <1>5
<1>7. Total(U \ {y}) = SignedAmount(p) + Total((U \ {y}) \ {p})
  BY <1>2, <1>3, <1>4, <1>5
<1>8. (U \ {p}) \ {y} = (U \ {y}) \ {p} /\ (U \ {p}) \ {y} \in SUBSET S
  BY <1>2
<1>9. Integral((U \ {p}) \ {y}) /\ SignedAmount(p) \in Int /\ SignedAmount(y) \in Int
  BY <1>2, <1>3, <1>4, <1>8, FS_Subset DEF Integral
<1>10. Total((U \ {p}) \ {y}) \in Int
  BY <1>9, TotalType
<1>11. Total((U \ {y}) \ {p}) = Total((U \ {p}) \ {y})
  BY <1>8
<1>12. Total(U) = SignedAmount(y) + Total(U \ {y})
  BY <1>4, <1>6, <1>7, <1>9, <1>10, <1>11
<1> QED BY <1>3, <1>12

LEMMA TotalAdd ==
  ASSUME NEW S, Integral(S), NEW x, x \notin S, SignedAmount(x) \in Int
  PROVE  Total(S \union {x}) = SignedAmount(x) + Total(S)
<1>1. Integral(S \union {x})
  BY FS_AddElement DEF Integral
<1>2. (S \union {x}) \ {x} = S
  OBVIOUS
<1> QED BY <1>1, <1>2, TotalRemove
-----------------------------------------------------------------------------
FiniteInv == IsFiniteSet(journal)

LEMMA AlwaysFinite == Spec => []FiniteInv
<1>1. Init => FiniteInv
  BY FS_EmptySet DEF Init, FiniteInv
<1>2. ASSUME FiniteInv, NEW s \in Sessions, Commit(s) PROVE FiniteInv'
  <2>1. IsFiniteSet(EntriesOf(s))
    <3> DEFINE d == Entry(s, posting[s].debit, "DEBIT")
               c == Entry(s, posting[s].credit, "CREDIT")
    <3>1. EntriesOf(s) = {d} \union {c}
      BY DEF EntriesOf
    <3> HIDE DEF d, c
    <3>2. IsFiniteSet({d})
      BY FS_Singleton
    <3>3. IsFiniteSet({d} \union {c})
      BY <3>2, FS_AddElement
    <3> QED BY <3>1, <3>3
  <2> QED BY <1>2, <2>1, FS_Union DEF Commit, FiniteInv
<1>3. FiniteInv /\ [Next]_vars => FiniteInv'
  BY <1>2 DEF FiniteInv, vars, Next, Step, Faulty, Fails, Abort, LoadWallet, LoadEscrow,
              RejectAmount, GetForUpdate, LockRow, RefuseFrozen, Insufficient, Post, Rollback
<1> QED BY <1>1, <1>3, PTL DEF Spec

LEMMA EntriesIntegral ==
  ASSUME TypeOK, FiniteInv, NEW S \in SUBSET journal
  PROVE  Integral(S)
<1>1. IsFiniteSet(S)
  BY FS_Subset DEF FiniteInv
<1>2. \A e \in S : SignedAmount(e) \in Int
  BY DEF TypeOK, EntryRecords, SignedAmount
<1> QED BY <1>1, <1>2 DEF Integral

LEMMA TrueBalanceTotal ==
  ASSUME NEW a
  PROVE  /\ TrueBalance(a) = Opening[a] + Total(EntriesOn(a))
         /\ TrueBalance(a)' = Opening[a] + Total(EntriesOn(a)')
  BY DEF TrueBalance, Total, EntriesOn

LEMMA TrueBalanceType ==
  ASSUME TypeOK, FiniteInv, NEW a \in Accounts
  PROVE  TrueBalance(a) \in Int
<1>1. Total(EntriesOn(a)) \in Int
  <2>1. EntriesOn(a) \in SUBSET journal
    BY DEF EntriesOn
  <2> QED BY <2>1, EntriesIntegral, TotalType
<1> QED BY <1>1, TrueBalanceTotal, OpeningAssumption

(* COMMIT adds two new entries, of opposite sign.                          *)
LEMMA NewEntries ==
  ASSUME IInv, NEW s \in Sessions, Commit(s)
  PROVE  LET d == Entry(s, posting[s].debit, "DEBIT")
             c == Entry(s, posting[s].credit, "CREDIT")
         IN  /\ d \notin journal /\ c \notin journal /\ d # c
             /\ d.account = posting[s].debit /\ c.account = posting[s].credit
             /\ SignedAmount(d) = -posting[s].amount
             /\ SignedAmount(c) = posting[s].amount
             /\ posting[s].amount \in Int
             /\ journal' = (journal \union {d}) \union {c}
<1>1. \A e \in journal : e.txn # s
  BY DEF Commit, IInv, JournalInv
<1>2. posting[s].amount \in Int /\ posting[s].debit # posting[s].credit
  BY PostingTypes DEF IInv
<1>3. journal' = journal \union EntriesOf(s)
  BY DEF Commit
<1> QED BY <1>1, <1>2, <1>3 DEF EntriesOf, Entry, SignedAmount

LEMMA CommitMovesBalances ==
  ASSUME IInv, FiniteInv, NEW s \in Sessions, Commit(s), NEW a \in Accounts
  PROVE  TrueBalance(a)' = IF a = posting[s].debit THEN TrueBalance(a) - posting[s].amount
                           ELSE IF a = posting[s].credit
                                  THEN TrueBalance(a) + posting[s].amount
                           ELSE TrueBalance(a)
<1> DEFINE d == Entry(s, posting[s].debit, "DEBIT")
           c == Entry(s, posting[s].credit, "CREDIT")
<1>1. /\ d \notin journal /\ c \notin journal /\ d # c
      /\ d.account = posting[s].debit /\ c.account = posting[s].credit
      /\ SignedAmount(d) = -posting[s].amount
      /\ SignedAmount(c) = posting[s].amount
      /\ posting[s].amount \in Int
      /\ journal' = (journal \union {d}) \union {c}
      /\ posting[s].debit # posting[s].credit
  BY NewEntries, PostingTypes DEF IInv
<1>2. Integral(EntriesOn(a)) /\ Total(EntriesOn(a)) \in Int
  <2>1. EntriesOn(a) \in SUBSET journal
    BY DEF EntriesOn
  <2> QED BY <2>1, EntriesIntegral, TotalType DEF IInv
<1>0. Opening[a] \in Int
  BY OpeningAssumption
<1> HIDE DEF d, c
<1>3. CASE a = posting[s].debit
  <2>1. EntriesOn(a)' = EntriesOn(a) \union {d} /\ d \notin EntriesOn(a)
    BY <1>1, <1>3 DEF EntriesOn
  <2>2. Total(EntriesOn(a)') = -posting[s].amount + Total(EntriesOn(a))
    BY <1>1, <1>2, <2>1, TotalAdd
  <2> QED BY <1>1, <1>2, <1>3, <1>0, <2>2, TrueBalanceTotal
<1>4. CASE a = posting[s].credit
  <2>1. EntriesOn(a)' = EntriesOn(a) \union {c} /\ c \notin EntriesOn(a)
    BY <1>1, <1>4 DEF EntriesOn
  <2>2. Total(EntriesOn(a)') = posting[s].amount + Total(EntriesOn(a))
    BY <1>1, <1>2, <2>1, TotalAdd
  <2> QED BY <1>1, <1>2, <1>4, <1>0, <2>2, TrueBalanceTotal
<1>5. CASE a # posting[s].debit /\ a # posting[s].credit
  <2>1. EntriesOn(a)' = EntriesOn(a)
    BY <1>1, <1>5 DEF EntriesOn
  <2> QED BY <1>5, <2>1, TrueBalanceTotal
<1> QED BY <1>3, <1>4, <1>5

LEMMA OtherStepsKeepBooks ==
  ASSUME [Next]_vars, \A s \in Sessions : ~ Commit(s)
  PROVE  journal' = journal /\ cached' = cached
  BY DEF vars, Next, Step, Faulty, Fails, Abort, LoadWallet, LoadEscrow, RejectAmount,
         GetForUpdate, LockRow, RefuseFrozen, Insufficient, Post, Rollback

(* ledger.py:119-120: "they always stay in sync", but for one thing: a     *)
(* cached balance leaves its journal only when a session commits a posting *)
(* computed from a balance that others have changed meanwhile, and then by *)
(* exactly the change that it overwrites.                                  *)
THEOREM LedgerDriftIsLostUpdate == Spec => DriftIsLostUpdate
<1> DEFINE Kept == \A a \in Accounts :
             \/ Drift(a)' = Drift(a)
             \/ \E s \in Sessions :
                   /\ pc[s] = "posted" /\ pc'[s] = "committed" /\ a \in Legs(s)
                   /\ Drift(a)' - Drift(a) = LoadedBalance(s, a) - cached[a]
<1>1. IInv /\ FiniteInv /\ [Next]_vars => [Kept]_vars
  <2> SUFFICES ASSUME IInv, FiniteInv, [Next]_vars, NEW a \in Accounts
               PROVE  \/ Drift(a)' = Drift(a)
                      \/ \E s \in Sessions :
                            /\ pc[s] = "posted" /\ pc'[s] = "committed" /\ a \in Legs(s)
                            /\ Drift(a)' - Drift(a) = LoadedBalance(s, a) - cached[a]
    OBVIOUS
  <2>1. ASSUME NEW s \in Sessions, Commit(s)
        PROVE  \/ Drift(a)' = Drift(a)
               \/ /\ pc[s] = "posted" /\ pc'[s] = "committed" /\ a \in Legs(s)
                  /\ Drift(a)' - Drift(a) = LoadedBalance(s, a) - cached[a]
    <3>1. /\ pc[s] = "posted" /\ pc'[s] = "committed"
          /\ cached'[a] = IF a \in Legs(s) THEN copy[s][a] ELSE cached[a]
      BY <2>1 DEF Commit, Goto, IInv, TypeOK
    <3>2. /\ TrueBalance(a) \in Int /\ posting[s].amount \in Int
          /\ copy[s][a] \in Int /\ cached[a] \in Int
          /\ posting[s].debit # posting[s].credit
      BY TrueBalanceType, PostingTypes, CopyTypes DEF IInv, TypeOK
    <3>3. Drift(a)' = cached'[a] - TrueBalance(a)'
      BY DEF Drift
    <3> QED BY <2>1, <3>1, <3>2, <3>3, CommitMovesBalances DEF Drift, Legs, LoadedBalance
  <2>2. CASE \A s \in Sessions : ~ Commit(s)
    BY <2>2, OtherStepsKeepBooks DEF Drift, TrueBalance
  <2> QED BY <2>1, <2>2
<1> QED BY <1>1, AlwaysIInv, AlwaysFinite, PTL DEF Spec, DriftIsLostUpdate

Conserved == Total(journal) = 0

(* ledger.py:139-149: whatever is posted, lost or rolled back, the amounts *)
(* of the journal, debits counted negative, add up to nothing: no posting  *)
(* creates or destroys money.                                              *)
THEOREM LedgerConserves == Spec => []Conserved
<1>1. Init => Conserved
  BY TotalEmpty DEF Init, Conserved
<1>2. IInv /\ FiniteInv /\ [Next]_vars /\ Conserved => Conserved'
  <2> SUFFICES ASSUME IInv, FiniteInv, [Next]_vars, Total(journal) = 0
               PROVE  Total(journal') = 0
    BY DEF Conserved
  <2>1. ASSUME NEW s \in Sessions, Commit(s) PROVE Total(journal') = 0
    <3> DEFINE d == Entry(s, posting[s].debit, "DEBIT")
               c == Entry(s, posting[s].credit, "CREDIT")
    <3>1. /\ d \notin journal /\ c \notin journal /\ d # c
          /\ SignedAmount(d) = -posting[s].amount
          /\ SignedAmount(c) = posting[s].amount
          /\ posting[s].amount \in Int
          /\ journal' = (journal \union {d}) \union {c}
      BY <2>1, NewEntries
    <3>2. Integral(journal)
      BY EntriesIntegral DEF IInv
    <3> HIDE DEF d, c
    <3>3. Total(journal \union {d}) = -posting[s].amount + 0
      BY <3>1, <3>2, TotalAdd
    <3>4. Integral(journal \union {d}) /\ c \notin journal \union {d}
      BY <3>1, <3>2, FS_AddElement DEF Integral
    <3>5. Total(journal') = posting[s].amount + Total(journal \union {d})
      BY <3>1, <3>4, TotalAdd
    <3> QED BY <3>1, <3>3, <3>5
  <2>2. CASE \A s \in Sessions : ~ Commit(s)
    BY <2>2, OtherStepsKeepBooks
  <2> QED BY <2>1, <2>2
<1> QED BY <1>1, <1>2, AlwaysIInv, AlwaysFinite, PTL DEF Spec
-----------------------------------------------------------------------------
(* The audit's own state, and what it may rely on between its two reads:   *)
(* the cached balance it has read is still the committed one, unless the   *)
(* account has more entries than it had.                                   *)
AuditInv ==
  /\ audit \in [next : {"cached", "sum", "verdict"}, account : Audited,
                cached : Nat, seen : Nat, alarm : BOOLEAN]
  /\ audit.next = "sum" =>
       LET n == Cardinality(EntriesOn(audit.account)) IN
       /\ audit.seen <= n
       /\ audit.seen = n => audit.cached = cached[audit.account]

LEMMA AuditImplementsLedger == AuditSpec => Spec
<1>1. AuditInit => Init
  BY DEF AuditInit
<1>2. [AuditNext]_auditVars => [Next]_vars
  BY DEF AuditNext, auditVars, GetBalance, Compare, vars
<1> QED BY <1>1, <1>2, PTL DEF AuditSpec, Spec

LEMMA EntriesCount ==
  ASSUME FiniteInv, NEW a
  PROVE  IsFiniteSet(EntriesOn(a)) /\ Cardinality(EntriesOn(a)) \in Nat
<1>1. IsFiniteSet(EntriesOn(a))
  BY FS_Subset DEF FiniteInv, EntriesOn
<1> QED BY <1>1, FS_CardinalityType

LEMMA AuditStep ==
  ASSUME IInv, FiniteInv, FiniteInv', AuditInv, [AuditNext]_auditVars
  PROVE  AuditInv'
<1>1. CASE GetBalance
  <2>1. Cardinality(EntriesOn(audit.account)) \in Nat /\ cached[audit.account] \in Nat
    BY EntriesCount, AuditedAssumption DEF IInv, TypeOK, AuditInv
  <2>2. /\ audit'.next = "sum" /\ audit'.account = audit.account
        /\ audit'.cached = cached[audit.account]
        /\ audit'.seen = Cardinality(EntriesOn(audit.account))
        /\ audit' \in [next : {"cached", "sum", "verdict"}, account : Audited,
                       cached : Nat, seen : Nat, alarm : BOOLEAN]
    BY <1>1, <2>1 DEF GetBalance, AuditInv
  <2>3. cached' = cached /\ journal' = journal
    BY <1>1 DEF GetBalance, vars
  <2> QED BY <2>1, <2>2, <2>3 DEF AuditInv, EntriesOn
<1>2. CASE Compare
  <2>1. /\ audit'.next = "verdict"
        /\ audit' \in [next : {"cached", "sum", "verdict"}, account : Audited,
                       cached : Nat, seen : Nat, alarm : BOOLEAN]
    BY <1>2 DEF Compare, AuditInv
  <2> QED BY <2>1 DEF AuditInv
<1>3. ASSUME NEW s \in Sessions, Commit(s), audit' = audit PROVE AuditInv'
  <2> SUFFICES ASSUME audit.next = "sum"
               PROVE  LET n == Cardinality(EntriesOn(audit.account)') IN
                      /\ audit.seen <= n
                      /\ audit.seen = n => audit.cached = cached'[audit.account]
    BY <1>3 DEF AuditInv, EntriesOn
  <2> DEFINE a == audit.account
             n == Cardinality(EntriesOn(a))
             m == Cardinality(EntriesOn(a)')
  <2>0. /\ a \in Accounts /\ audit.seen \in Nat /\ audit.seen <= n
        /\ audit.seen = n => audit.cached = cached[a]
    BY AuditedAssumption DEF AuditInv
  <2>1. IsFiniteSet(EntriesOn(a)) /\ n \in Nat
    BY EntriesCount
  <2>2. cached'[a] = IF a \in Legs(s) THEN copy[s][a] ELSE cached[a]
    BY <1>3, <2>0 DEF Commit
  <2>3. PICK d, c : /\ d \notin journal /\ c \notin journal /\ d # c
                    /\ d.account = posting[s].debit /\ c.account = posting[s].credit
                    /\ journal' = (journal \union {d}) \union {c}
    BY <1>3, NewEntries
  <2>4. posting[s].debit # posting[s].credit
    BY PostingTypes DEF IInv
  <2>5. ASSUME NEW e, e \notin EntriesOn(a), EntriesOn(a)' = EntriesOn(a) \union {e}
        PROVE  m = n + 1
    BY <2>1, <2>5, FS_AddElement
  <2>6. CASE a = posting[s].debit
    <3>1. d \notin EntriesOn(a) /\ EntriesOn(a)' = EntriesOn(a) \union {d}
      BY <1>3, <2>3, <2>4, <2>6 DEF EntriesOn
    <3> QED BY <2>0, <2>1, <2>5, <3>1
  <2>7. CASE a = posting[s].credit
    <3>1. c \notin EntriesOn(a) /\ EntriesOn(a)' = EntriesOn(a) \union {c}
      BY <1>3, <2>3, <2>4, <2>7 DEF EntriesOn
    <3> QED BY <2>0, <2>1, <2>5, <3>1
  <2>8. CASE a \notin Legs(s)
    <3>1. EntriesOn(a)' = EntriesOn(a)
      BY <1>3, <2>3, <2>8 DEF EntriesOn, Legs
    <3> QED BY <2>0, <2>2, <2>8, <3>1
  <2> QED BY <2>6, <2>7, <2>8 DEF Legs
<1>4. CASE [Next]_vars /\ (\A s \in Sessions : ~ Commit(s)) /\ audit' = audit
  BY <1>4, OtherStepsKeepBooks DEF AuditInv, EntriesOn
<1> QED BY <1>1, <1>2, <1>3, <1>4 DEF AuditNext, auditVars

(* ledger.py:257-278: an audit beside running postings gives no alarm out  *)
(* of nothing: either the balance has really left its journal, or a        *)
(* posting to the account was committed between the two reads.             *)
THEOREM AuditAlarmHasACause == AuditSpec => AlarmHasACause
<1>1. AuditInit => AuditInv
  <2> SUFFICES ASSUME AuditInit PROVE AuditInv
    OBVIOUS
  <2>1. audit.next = "cached"
    BY DEF AuditInit
  <2>2. audit \in [next : {"cached", "sum", "verdict"}, account : Audited,
                   cached : Nat, seen : Nat, alarm : BOOLEAN]
    <3>1. PICK a \in Audited : audit = [next |-> "cached", account |-> a, cached |-> 0,
                                        seen |-> 0, alarm |-> FALSE]
      BY DEF AuditInit
    <3> QED BY <3>1
  <2> QED BY <2>1, <2>2 DEF AuditInv
<1>2. IInv /\ FiniteInv /\ FiniteInv' /\ AuditInv /\ [AuditNext]_auditVars => AuditInv'
  BY AuditStep
<1> DEFINE Caused == ~ audit.alarm /\ audit'.alarm =>
                       \/ Drift(audit.account) # 0
                       \/ Cardinality(EntriesOn(audit.account)) > audit.seen
<1>3. IInv /\ FiniteInv /\ AuditInv /\ [AuditNext]_auditVars => [Caused]_auditVars
  <2> SUFFICES ASSUME IInv, FiniteInv, AuditInv, [AuditNext]_auditVars,
                      ~ audit.alarm, audit'.alarm,
                      ~ Cardinality(EntriesOn(audit.account)) > audit.seen
               PROVE  Drift(audit.account) # 0
    OBVIOUS
  <2>1. Compare
    BY DEF AuditNext, auditVars, GetBalance, AuditInv
  <2>2. audit.next = "sum" /\ audit.cached # TrueBalance(audit.account)
    BY <2>1 DEF Compare, AuditInv
  <2>3. audit.account \in Accounts /\ audit.seen \in Nat
    BY AuditedAssumption DEF AuditInv
  <2>4. audit.cached = cached[audit.account]
    BY <2>2, <2>3, EntriesCount DEF AuditInv
  <2>5. cached[audit.account] \in Int /\ TrueBalance(audit.account) \in Int
    BY <2>3, TrueBalanceType DEF IInv, TypeOK
  <2> QED BY <2>2, <2>4, <2>5 DEF Drift
<1> QED BY <1>1, <1>2, <1>3, AlwaysIInv, AlwaysFinite, AuditImplementsLedger, PTL
        DEF AuditSpec, AlarmHasACause
=============================================================================
