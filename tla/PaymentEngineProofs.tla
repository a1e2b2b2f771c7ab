------------------------- MODULE PaymentEngineProofs -------------------------
(***************************************************************************)
(* Proofs about the payment engine, for every set of requests, accounts    *)
(* and postings, every TTL and every combination of the modelled faults.   *)
(***************************************************************************)
EXTENDS PaymentEngine, TLAPS

LEMMA LedgerStepMaps ==
  ASSUME [Next]_vars
  PROVE  [L!Next]_ledgerVars
<1>1. ASSUME NEW q \in Requests, Step(q) PROVE [L!Next]_ledgerVars
  <2>1. CASE Flag(q)
    BY <2>1 DEF Flag, L!Next, L!Faulty
  <2>2. CASE Initiate(q) \/ Locked(q) \/ Complete(q) \/ Fail(q) \/ Unlock(q) \/ Answer(q)
    BY <2>2 DEF Initiate, Locked, Complete, Fail, Unlock, Answer
  <2>3. CASE Busy(q)
    BY <2>3 DEF Busy, L!Next, L!Faulty
  <2>4. CASE LedgerStep(q)
    BY <2>4 DEF LedgerStep, L!Next, L!Step
  <2>5. CASE Commit(q)
    BY <2>5 DEF Commit, L!Next, L!Step
  <2>6. CASE Rollback(q)
    BY <2>6 DEF Rollback, L!Next, L!Step
  <2> QED BY <1>1, <2>1, <2>2, <2>3, <2>4, <2>5, <2>6 DEF Step, Move
<1>2. ASSUME NEW q \in Requests, Faulty(q) PROVE [L!Next]_ledgerVars
  BY <1>2 DEF Faulty, InsertError, LockReplyLost, LockError, StartError, LedgerError,
              CompleteError, UnlockError, CommitError, CommitReplyLost, Crash,
              L!Next, L!Step, L!Faulty
<1>3. CASE Tick
  BY <1>3 DEF Tick
<1>4. CASE UNCHANGED vars
  BY <1>4 DEF vars
<1> QED BY <1>1, <1>2, <1>3, <1>4 DEF Next

LEMMA LockStepMaps ==
  ASSUME [Next]_vars
  PROVE  [K!LockNext]_lockVars
<1>1. ASSUME NEW q \in Requests, Step(q) PROVE [K!LockNext]_lockVars
  <2>1. CASE Initiate(q)
    BY <2>1 DEF Initiate, K!LockNext
  <2>2. CASE Locked(q)
    BY <2>2 DEF Locked, K!LockNext, K!Try
  <2>3. CASE Busy(q)
    BY <2>3 DEF Busy, K!LockNext, K!Try
  <2>4. CASE Unlock(q)
    BY <2>4 DEF Unlock, K!LockNext
  <2>5. CASE \/ Flag(q) \/ LedgerStep(q) \/ Complete(q) \/ Fail(q)
             \/ Commit(q) \/ Answer(q) \/ Rollback(q)
    BY <2>5 DEF Flag, LedgerStep, Complete, Fail, Commit, Answer, Rollback
  <2> QED BY <1>1, <2>1, <2>2, <2>3, <2>4, <2>5 DEF Step, Move
<1>2. ASSUME NEW q \in Requests, Faulty(q) PROVE [K!LockNext]_lockVars
  BY <1>2 DEF Faulty, InsertError, LockReplyLost, LockError, StartError, LedgerError,
              CompleteError, UnlockError, CommitError, CommitReplyLost, Crash,
              K!LockNext, K!Try
<1>3. CASE Tick
  BY <1>3 DEF Tick, K!LockNext
<1>4. CASE UNCHANGED vars
  BY <1>4 DEF vars
<1> QED BY <1>1, <1>2, <1>3, <1>4 DEF Next
-----------------------------------------------------------------------------
(* The engine never drives the ledger other than as it is specified.       *)
THEOREM EngineImplementsLedger == Spec => LedgerSpec
<1>1. Init => L!Init
  BY DEF Init
<1>2. [Next]_vars => [L!Next]_L!vars
  BY LedgerStepMaps DEF ledgerVars, L!vars
<1> QED BY <1>1, <1>2, PTL DEF Spec, LedgerSpec, L!Spec

(* The engine never drives the lock manager other than as it is specified. *)
THEOREM EngineImplementsLock == Spec => LockSpec
<1>1. Init => K!LockInit
  BY DEF Init
<1>2. [Next]_vars => [K!LockNext]_K!lockVars
  BY LockStepMaps DEF lockVars, K!lockVars
<1> QED BY <1>1, <1>2, PTL DEF Spec, LockSpec, K!LockSpec
-----------------------------------------------------------------------------
(* Where the ledger session of a request is, at each phase of the engine.  *)
PcOf(ph) == CASE ph \in {"new", "locking"}          -> {"wallet"}
              [] ph = "processing"                  -> L!Live
              [] ph \in {"completed", "returned"}   -> {"posted"}
              [] ph \in {"failed", "raised"}        -> {"raised"}
              [] ph \in {"committed", "created"}    -> {"committed"}
              [] ph \in {"error", "crashed"}        -> {"rolledback", "committed"}

PhaseInv == \A q \in Requests :
              /\ pc[q] \in PcOf(phase[q])
              /\ phase[q] \in {"completed", "returned"} => status[q] = "COMPLETED"
              /\ rows[q] = IF pc[q] = "committed" THEN "COMPLETED" ELSE "none"

Functions == /\ phase \in [Requests -> Phases]
             /\ status \in [Requests -> Statuses]
             /\ rows \in [Requests -> Statuses]
             /\ pc \in [Requests -> L!Live \union L!Ended]

(* The journal has the entries of the committed sessions and no others.    *)
JournalExact == /\ \A e \in journal : e.txn \in Requests /\ pc[e.txn] = "committed"
                /\ \A q \in Requests : pc[q] = "committed" => Booked(q)

EngineInv == Functions /\ PhaseInv /\ JournalExact

LEMMA InitEngineInv == Init => EngineInv
  BY DEF Init, L!Init, EngineInv, Functions, PhaseInv, JournalExact, PcOf, Phases,
         Final, Statuses, L!Live, L!Ended

(* Every step of a session but its commit leaves the journal alone.        *)
LEMMA JournalExactStep ==
  ASSUME EngineInv, [L!Next]_ledgerVars
  PROVE  JournalExact' /\ pc' \in [Requests -> L!Live \union L!Ended]
<1> USE DEF EngineInv, Functions, JournalExact, L!Live, L!Ended, L!Goto
<1>1. ASSUME NEW q \in Requests, L!Commit(q)
      PROVE  JournalExact' /\ pc' \in [Requests -> L!Live \union L!Ended]
  <2>1. journal' = journal \union L!EntriesOf(q) /\ pc' = [pc EXCEPT ![q] = "committed"]
    BY <1>1 DEF L!Commit
  <2>2. \A e \in L!EntriesOf(q) : e.txn = q
    BY DEF L!EntriesOf, L!Entry
  <2>3. \E e \in L!EntriesOf(q) : e.txn = q
    BY DEF L!EntriesOf, L!Entry
  <2> QED BY <2>1, <2>2, <2>3 DEF Booked
<1>2. ASSUME NEW q \in Requests, L!Step(q) \/ L!Faulty(q), ~ L!Commit(q)
      PROVE  JournalExact' /\ pc' \in [Requests -> L!Live \union L!Ended]
  <2>1. /\ journal' = journal
        /\ pc' \in [Requests -> L!Live \union L!Ended]
        /\ pc[q] # "committed" /\ pc'[q] # "committed"
        /\ \A p \in Requests \ {q} : pc'[p] = pc[p]
    BY <1>2 DEF L!Step, L!Faulty, L!LoadWallet, L!LoadEscrow, L!RejectAmount,
         L!GetForUpdate, L!LockRow, L!RefuseFrozen, L!Insufficient, L!Post, L!Rollback, L!Fails, L!Abort
  <2> QED BY <2>1 DEF Booked
<1>3. CASE UNCHANGED ledgerVars
  BY <1>3 DEF ledgerVars, Booked
<1> QED BY <1>1, <1>2, <1>3 DEF L!Next

LEMMA InductiveEngineInv == EngineInv /\ [Next]_vars => EngineInv'
<1> SUFFICES ASSUME EngineInv, [Next]_vars PROVE EngineInv'
  OBVIOUS
<1>0. JournalExact' /\ pc' \in [Requests -> L!Live \union L!Ended]
  BY LedgerStepMaps, JournalExactStep
<1> USE DEF EngineInv, Functions, PhaseInv, PcOf, Phases, Final, Statuses, Enter,
            SetStatus, L!Goto, L!Live
<1>1. ASSUME NEW q \in Requests, Step(q) PROVE EngineInv'
  <2>1. CASE Flag(q)
    BY <1>0, <2>1 DEF Flag, L!Fails
  <2>2. CASE Initiate(q)
    BY <1>0, <2>2 DEF Initiate, ledgerVars
  <2>3. CASE Locked(q)
    BY <1>0, <2>3 DEF Locked, ledgerVars
  <2>4. CASE Busy(q)
    BY <1>0, <2>4 DEF Busy, ledgerVars, L!Fails
  <2>5. CASE LedgerStep(q)
    BY <1>0, <2>5 DEF LedgerStep, engineVars, L!LoadWallet, L!LoadEscrow,
       L!GetForUpdate, L!LockRow, L!RefuseFrozen, L!Insufficient, L!Post
  <2>6. CASE Complete(q)
    BY <1>0, <2>6 DEF Complete, ledgerVars
  <2>7. CASE Fail(q)
    BY <1>0, <2>7 DEF Fail, ledgerVars
  <2>8. CASE Unlock(q)
    BY <1>0, <2>8 DEF Unlock, ledgerVars
  <2>9. CASE Commit(q)
    BY <1>0, <2>9 DEF Commit, SaveRow, L!Commit
  <2>10. CASE Answer(q)
    BY <1>0, <2>10 DEF Answer, ledgerVars
  <2>11. CASE Rollback(q)
    BY <1>0, <2>11 DEF Rollback, L!Rollback
  <2> QED BY <1>1, <2>1, <2>2, <2>3, <2>4, <2>5, <2>6, <2>7, <2>8, <2>9, <2>10, <2>11 DEF Step, Move
<1>2. ASSUME NEW q \in Requests, Faulty(q) PROVE EngineInv'
  <2>1. CASE InsertError(q) \/ LockReplyLost(q) \/ LockError(q) \/ StartError(q)
    BY <1>0, <2>1 DEF InsertError, LockReplyLost, LockError, StartError, engineVars, ledgerVars,
                      L!Fails
  <2>2. CASE LedgerError(q) \/ CompleteError(q)
    BY <1>0, <2>2 DEF LedgerError, CompleteError, engineVars, L!Fails
  <2>3. CASE UnlockError(q)
    BY <1>0, <2>3 DEF UnlockError, ledgerVars, L!Fails
  <2>4. CASE CommitError(q) \/ Crash(q)
    BY <1>0, <2>4 DEF CommitError, Crash, ledgerVars, L!Abort
  <2>5. CASE CommitReplyLost(q)
    BY <1>0, <2>5 DEF CommitReplyLost, SaveRow, L!Commit
  <2> QED BY <1>2, <2>1, <2>2, <2>3, <2>4, <2>5 DEF Faulty
<1>3. CASE Tick \/ UNCHANGED vars
  BY <1>0, <1>3 DEF Tick, vars, engineVars, ledgerVars
<1> QED BY <1>1, <1>2, <1>3 DEF Next

(* A payment is COMPLETED in the database and in the journal, or in        *)
(* neither, and is answered 201 only then, though commits fail or their    *)
(* replies are lost.                                                       *)
THEOREM EngineCompletedIffBooked == Spec => []CompletedIffBooked
<1>1. EngineInv => CompletedIffBooked
  <2> SUFFICES ASSUME EngineInv, NEW q \in Requests
               PROVE  /\ rows[q] = "COMPLETED" <=> Booked(q)
                      /\ rows[q] \in {"none", "COMPLETED"}
                      /\ phase[q] = "created" => Booked(q)
    BY DEF CompletedIffBooked
  <2>1. Booked(q) <=> pc[q] = "committed"
    BY DEF EngineInv, JournalExact, Booked
  <2>2. phase[q] = "created" => pc[q] = "committed"
    BY DEF EngineInv, Functions, PhaseInv, PcOf, Phases, Final, L!Live
  <2> QED BY <2>1, <2>2 DEF EngineInv, PhaseInv
<1>2. Spec => []EngineInv
  BY InitEngineInv, InductiveEngineInv, PTL DEF Spec
<1> QED BY <1>1, <1>2, PTL
-----------------------------------------------------------------------------
(* A payment in the lock and within its lease owns the wallet's key, and   *)
(* the key lives as long as the lease.                                     *)
Wallets == {Wants[q] : q \in Requests}

KeysTyped == /\ store \in [Wallets -> Requests \union {NoToken}]
             /\ ttl \in [Wallets -> Nat]
             /\ lease \in [Requests -> Nat]

OwnerInv == \A q \in Requests :
              InLock(q) => store[Wants[q]] = q /\ ttl[Wants[q]] >= lease[q]

WalletInv == EngineInv /\ KeysTyped /\ OwnerInv

LEMMA InductiveWalletInv == WalletInv /\ EngineInv' /\ [Next]_vars => WalletInv'
<1> SUFFICES ASSUME WalletInv, [Next]_vars PROVE KeysTyped' /\ OwnerInv'
  BY DEF WalletInv
<1> USE LockAssumption DEF WalletInv, EngineInv, Functions, KeysTyped, OwnerInv, InLock, Enter
<1>0. \A q \in Requests : Wants[q] \in Wallets
  BY DEF Wallets
<1>1. ASSUME NEW q \in Requests, Locked(q) \/ StartError(q) PROVE KeysTyped' /\ OwnerInv'
  BY <1>0, <1>1 DEF Locked, StartError, K!SetNX, K!SetKey
<1>2. ASSUME NEW q \in Requests, LockReplyLost(q) PROVE KeysTyped' /\ OwnerInv'
  BY <1>0, <1>2 DEF LockReplyLost, K!SetReplyLost, K!SetKey, engineVars
<1>3. ASSUME NEW q \in Requests, Unlock(q) PROVE KeysTyped' /\ OwnerInv'
  BY <1>0, <1>3 DEF Unlock, K!Release, K!DelKey, K!EndLease
<1>4. ASSUME NEW q \in Requests, LockError(q) \/ UnlockError(q) \/ Crash(q)
      PROVE  KeysTyped' /\ OwnerInv'
  BY <1>0, <1>4 DEF LockError, UnlockError, Crash, K!Crash, K!EndLease, lockVars
<1>5. ASSUME NEW q \in Requests,
             \/ Flag(q) \/ Initiate(q) \/ Busy(q) \/ LedgerStep(q) \/ Complete(q) \/ Fail(q)
             \/ Commit(q) \/ Answer(q) \/ Rollback(q) \/ InsertError(q) \/ LedgerError(q)
             \/ CompleteError(q) \/ CommitError(q) \/ CommitReplyLost(q)
      PROVE  KeysTyped' /\ OwnerInv'
  <2>1. /\ store' = store /\ ttl' = ttl /\ lease' = lease
        /\ \A p \in Requests : phase'[p] = "processing" => phase[p] = "processing"
    BY <1>5 DEF Flag, Initiate, Busy, LedgerStep, Complete, Fail, Commit, Answer, Rollback,
                InsertError, LedgerError, CompleteError, CommitError, CommitReplyLost, K!Acquire, K!SetRefused, lockVars, engineVars
  <2> QED BY <2>1
<1>6. CASE Tick
  <2>1. /\ phase' = phase
        /\ ttl' = [w \in Wallets |-> K!Less(ttl[w])]
        /\ store' = [w \in Wallets |-> IF ttl[w] = 1 THEN NoToken ELSE store[w]]
        /\ lease' = [q \in Requests |-> K!Less(lease[q])]
    BY <1>6 DEF Tick, K!Tick, engineVars, Wallets
  <2>2. \A n \in Nat : K!Less(n) \in Nat /\ (n > 0 => K!Less(n) = n - 1)
                      /\ (K!Less(n) > 0 => n > 1)
    BY DEF K!Less
  <2>3. KeysTyped'
    BY <2>1, <2>2
  <2>4. ASSUME NEW q \in Requests, InLock(q)'
        PROVE  store'[Wants[q]] = q /\ ttl'[Wants[q]] >= lease'[q]
    <3>1. lease[q] > 1 /\ lease'[q] = lease[q] - 1 /\ store[Wants[q]] = q /\ ttl[Wants[q]] >= lease[q]
      BY <2>1, <2>2, <2>4
    <3>2. ttl'[Wants[q]] = ttl[Wants[q]] - 1 /\ store'[Wants[q]] = store[Wants[q]]
      BY <1>0, <2>1, <2>2, <3>1
    <3> QED BY <1>0, <3>1, <3>2
  <2>5. OwnerInv'
    <3> HIDE DEF InLock
    <3> QED BY <2>1, <2>4
  <2> QED BY <2>3, <2>5
<1>7. CASE UNCHANGED vars
  BY <1>7 DEF vars, engineVars, lockVars
<1> QED BY <1>1, <1>2, <1>3, <1>4, <1>5, <1>6, <1>7 DEF Next, Step, Move, Faulty

(* transaction_engine.py: of the payments of one wallet one at most is in  *)
(* the lock and within its lease, through expiries, lost replies and       *)
(* crashes of any of them.                                                 *)
THEOREM EngineWalletExclusion == Spec => []WalletExclusion
<1>1. Init => WalletInv
  BY InitEngineInv, LockAssumption
     DEF Init, K!LockInit, WalletInv, KeysTyped, OwnerInv, InLock, Wallets
<1>2. WalletInv => WalletExclusion
  <2> SUFFICES ASSUME WalletInv, NEW p \in Requests, NEW q \in Requests, InLock(p), InLock(q),
                      PostingOf[p].debit = PostingOf[q].debit
               PROVE  p = q
    BY DEF WalletExclusion
  <2>1. Wants[p] = Wants[q]
    BY DEF Wants
  <2> QED BY <2>1 DEF WalletInv, OwnerInv
<1>3. Spec => []EngineInv
  BY InitEngineInv, InductiveEngineInv, PTL DEF Spec
<1> QED BY <1>1, <1>2, <1>3, InductiveWalletInv, PTL DEF Spec
-----------------------------------------------------------------------------
(* The ledger and the lock manager of the engine with what is proved of    *)
(* them; there is no audit beside the engine.                              *)
LP == INSTANCE LedgerProofs WITH
        Sessions <- Requests,
        Postings <- {PostingOf[q] : q \in Requests},
        Audited <- {}, audit <- 0

KP == INSTANCE LockProofs WITH
        Acquirers <- Requests,
        Resources <- {Wants[q] : q \in Requests},
        TTL <- [q \in Requests |-> TTL],
        Retries <- [q \in Requests |-> Retries],
        Extensions <- {}

LEMMA SameLedger == LedgerSpec => LP!Spec
<1>1. L!Init => LP!Init
  BY DEF L!Init, LP!Init
<1>2. ASSUME NEW q \in Requests
      PROVE  /\ L!Step(q) => LP!Step(q)
             /\ L!Faulty(q) => LP!Faulty(q)
  BY DEF L!Step, L!LoadWallet, L!LoadEscrow, L!RejectAmount, L!GetForUpdate, L!LockRow,
         L!RefuseFrozen, L!Insufficient, L!Post, L!Commit, L!Rollback, L!Faulty, L!Fails,
         L!Abort, L!Goto, L!Load, L!Unlock, L!NextRow, L!AllLocked, L!Legs, L!Held,
         L!EntriesOf, L!Entry, L!Live,
         LP!Step, LP!LoadWallet, LP!LoadEscrow, LP!RejectAmount, LP!GetForUpdate, LP!LockRow,
         LP!RefuseFrozen, LP!Insufficient, LP!Post, LP!Commit, LP!Rollback, LP!Faulty, LP!Fails,
         LP!Abort, LP!Goto, LP!Load, LP!Unlock, LP!NextRow, LP!AllLocked, LP!Legs, LP!Held,
         LP!EntriesOf, LP!Entry, LP!Live
<1>3. [L!Next]_L!vars => [LP!Next]_LP!vars
  BY <1>2 DEF L!Next, LP!Next, L!vars, LP!vars
<1> QED BY <1>1, <1>3, PTL DEF LedgerSpec, L!Spec, LP!Spec

LEMMA SameLock == LockSpec => KP!LockSpec
<1>1. K!LockInit => KP!LockInit
  BY DEF K!LockInit, KP!LockInit
<1>2. [K!LockNext]_K!lockVars => [KP!LockNext]_KP!lockVars
  BY DEF K!LockNext, K!Acquire, K!Try, K!SetNX, K!SetRefused, K!SetReplyLost, K!Release,
         K!ExtendRead, K!Renew, K!Crash, K!ForceRelease, K!Tick, K!Become, K!SetKey, K!DelKey,
         K!EndLease, K!PExpire, K!Less, K!Held, K!lockVars,
         KP!LockNext, KP!Acquire, KP!Try, KP!SetNX, KP!SetRefused, KP!SetReplyLost, KP!Release,
         KP!ExtendRead, KP!Renew, KP!Crash, KP!ForceRelease, KP!Tick, KP!Become, KP!SetKey,
         KP!DelKey, KP!EndLease, KP!PExpire, KP!Less, KP!Held, KP!lockVars
<1> QED BY <1>1, <1>2, PTL DEF LockSpec, K!LockSpec, KP!LockSpec

(* Its assumptions hold of the engine's instance.                          *)
LEMMA LedgerAssumed ==
  /\ Accounts \subseteq Nat /\ NoSession \notin Requests
  /\ Opening \in [Accounts -> Nat] /\ Frozen \subseteq Accounts
  /\ {PostingOf[q] : q \in Requests} \subseteq
        {p \in [debit : Accounts, credit : Accounts, amount : Int] : p.debit # p.credit}
  /\ {} \subseteq Accounts
  BY BooksAssumption

LEMMA LockAssumed ==
  /\ Wants \in [Requests -> {Wants[q] : q \in Requests}]
  /\ NoToken \notin Requests
  /\ [q \in Requests |-> TTL] \in [Requests -> Nat \ {0}]
  /\ [q \in Requests |-> Retries] \in [Requests -> Nat \ {0}]
  /\ {} \subseteq Int
  BY LockAssumption DEF Wants

(* ledger.py:139-153 inside the engine: however payments interleave, fail  *)
(* or crash, their row locks cannot deadlock, a frozen account is never    *)
(* posted to, the entries add up to nothing, and an account leaves its     *)
(* journal only by a lost update, for exactly what that update lost.       *)
THEOREM EngineKeepsTheBooks ==
  Spec => /\ [](L!WaitsAscend /\ L!FrozenUntouched /\ LP!Conserved)
          /\ L!DriftIsLostUpdate
<1>1. LP!Spec => []LP!WaitsAscend
  BY LedgerAssumed, LP!LedgerWaitsAscend
<1>2. LP!Spec => []LP!FrozenUntouched
  BY LedgerAssumed, LP!LedgerFrozenUntouched
<1>3. LP!Spec => []LP!Conserved
  BY LedgerAssumed, LP!LedgerConserves
<1>4. LP!Spec => LP!DriftIsLostUpdate
  BY LedgerAssumed, LP!LedgerDriftIsLostUpdate
<1>5. LP!WaitsAscend => L!WaitsAscend
  BY DEF LP!WaitsAscend, LP!Awaits, LP!NextRow, LP!Legs, LP!Held,
         L!WaitsAscend, L!Awaits, L!NextRow, L!Legs, L!Held
<1>6. LP!FrozenUntouched => L!FrozenUntouched
  BY DEF LP!FrozenUntouched, L!FrozenUntouched
<1>7. LP!DriftIsLostUpdate => L!DriftIsLostUpdate
  BY DEF LP!DriftIsLostUpdate, LP!Drift, LP!TrueBalance, LP!MapThenSumSet, LP!MapThenFoldSet,
         LP!SignedAmount, LP!LoadedBalance, LP!Legs, LP!vars,
         L!DriftIsLostUpdate, L!Drift, L!TrueBalance, L!MapThenSumSet, L!MapThenFoldSet,
         L!SignedAmount, L!LoadedBalance, L!Legs, L!vars
<1> QED BY <1>1, <1>2, <1>3, <1>4, <1>5, <1>6, <1>7, SameLedger, EngineImplementsLedger, PTL

(* lock_manager.py:33-36 inside the engine: no crash or lost reply of a    *)
(* payment locks a wallet for ever, and no payment frees another's lock,   *)
(* however late it is.                                                     *)
THEOREM EngineKeepsTheLocks == Spec => []K!EveryKeyExpires /\ K!OnlyOwnerReleases
<1>1. KP!LockSpec => []KP!EveryKeyExpires
  BY LockAssumed, KP!LockEveryKeyExpires
<1>2. KP!LockSpec => KP!OnlyOwnerReleases
  BY LockAssumed, KP!LockOnlyOwnerReleases
<1>3. KP!EveryKeyExpires => K!EveryKeyExpires
  BY DEF KP!EveryKeyExpires, K!EveryKeyExpires
<1>4. KP!OnlyOwnerReleases => K!OnlyOwnerReleases
  BY DEF KP!OnlyOwnerReleases, KP!Releasing, KP!Held, KP!lockVars,
         K!OnlyOwnerReleases, K!Releasing, K!Held, K!lockVars
<1> QED BY <1>1, <1>2, <1>3, <1>4, SameLock, EngineImplementsLock, PTL
=============================================================================
