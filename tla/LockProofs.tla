----------------------------- MODULE LockProofs -----------------------------
(***************************************************************************)
(* Proofs about the lock manager, for every number of acquirers and        *)
(* resources, every TTL and every number of retries, and every extension.  *)
(***************************************************************************)
EXTENDS LockManager, TLAPS

(* A key is set exactly while it has time to live, and a holder whose      *)
(* lease runs, and was not spoiled, owns the key, which lives as long as   *)
(* the lease.                                                              *)
KeyInv == \A r \in Resources : store[r] = NoToken <=> ttl[r] = 0

LeaseInv == \A c \in Acquirers :
               Leased(c) => store[Wants[c]] = c /\ lease[c] <= ttl[Wants[c]]

(* An acquirer that still tries has attempts left.                         *)
AttemptInv == \A c \in Acquirers :
                 state[c] \in {"idle", "trying"} => attempt[c] < Retries[c]

LockInv == LockTypeOK /\ KeyInv /\ LeaseInv /\ AttemptInv

USE WantsAssumption, NoTokenAssumption, TTLAssumption, RetriesAssumption, ExtensionsAssumption

LEMMA InitLockInv == LockInit => LockInv
  BY DEF LockInit, LockInv, LockTypeOK, LockStates, KeyInv, LeaseInv, AttemptInv, Leased, Held

LEMMA InductiveLockInv == LockInv /\ [LockNext]_lockVars => LockInv'
<1> SUFFICES ASSUME LockInv, [LockNext]_lockVars PROVE LockInv'
  OBVIOUS
<1> USE DEF LockInv, LockTypeOK, LockStates, KeyInv, LeaseInv, AttemptInv, Become, Leased, Held,
           EndLease
<1>1. ASSUME NEW c \in Acquirers, Acquire(c) PROVE LockInv'
  BY <1>1 DEF Acquire
<1>2. ASSUME NEW c \in Acquirers, SetNX(c) PROVE LockInv'
  <2>1. \A d \in Acquirers \ {c} :
          Leased(d) => Wants[d] # Wants[c]
    BY <1>2 DEF SetNX
  <2>2. Wants[c] \in Resources
    OBVIOUS
  <2>3. LeaseInv'
    BY <1>2, <2>1, <2>2 DEF SetNX, SetKey
  <2> QED BY <1>2, <2>2, <2>3 DEF SetNX, SetKey
<1>3. ASSUME NEW c \in Acquirers, SetRefused(c) PROVE LockInv'
  <2>1. attempt[c] + 1 \in Nat /\ attempt[c] + 1 <= Retries[c]
    BY <1>3 DEF SetRefused
  <2> QED BY <1>3, <2>1 DEF SetRefused
<1>4. ASSUME NEW c \in Acquirers, SetReplyLost(c) PROVE LockInv'
  <2>1. \A d \in Acquirers :
          Leased(d) => Wants[d] # Wants[c]
    BY <1>4 DEF SetReplyLost
  <2> QED BY <1>4, <2>1 DEF SetReplyLost, SetKey
<1>5. ASSUME NEW c \in Acquirers, Release(c) PROVE LockInv'
  <2>1. CASE store[Wants[c]] = c
    BY <1>5, <2>1 DEF Release, DelKey
  <2>2. CASE store[Wants[c]] # c
    BY <1>5, <2>2 DEF Release
  <2> QED BY <2>1, <2>2
<1>6. ASSUME NEW c \in Acquirers, Crash(c) PROVE LockInv'
  BY <1>6 DEF Crash
<1>7. CASE Tick
  <2>1. LockTypeOK'
    BY <1>7 DEF Tick, Less
  <2>2. KeyInv'
    BY <1>7 DEF Tick, Less
  <2>3. LeaseInv'
    BY <1>7 DEF Tick, Less
  <2> QED BY <1>7, <2>1, <2>2, <2>3 DEF Tick
<1>8. CASE UNCHANGED lockVars
  BY <1>8 DEF lockVars
<1>9. ASSUME NEW c \in Acquirers, ExtendRead(c) PROVE LockInv'
  BY <1>9 DEF ExtendRead
<1>10. ASSUME NEW c \in Acquirers, Renew(c) PROVE LockInv'
  <2>1. PICK n \in Extensions :
           /\ PExpire(Wants[c], n)
           /\ lease' = [lease EXCEPT ![c] = IF n > 0 THEN n ELSE 0]
           /\ spoiled' = IF store[Wants[c]] = c /\ n > 0 THEN spoiled
                         ELSE spoiled \union ({c, store[Wants[c]]} \ {NoToken})
    BY <1>10 DEF Renew
  <2>2. n \in Int /\ Wants[c] \in Resources /\ store[Wants[c]] \in Acquirers \union {NoToken}
    OBVIOUS
  <2>3. state' = [state EXCEPT ![c] = "holding"] /\ attempt' = attempt
    BY <1>10 DEF Renew
  <2>4. CASE n > 0 /\ store[Wants[c]] # NoToken
    <3>1. ttl' = [ttl EXCEPT ![Wants[c]] = n] /\ store' = store
      BY <2>1, <2>4 DEF PExpire
    <3> QED BY <1>10, <2>1, <2>2, <2>3, <2>4, <3>1 DEF Renew
  <2>5. CASE ~ (n > 0 /\ store[Wants[c]] # NoToken)
    <3>1. store' = [store EXCEPT ![Wants[c]] = NoToken] /\ ttl' = [ttl EXCEPT ![Wants[c]] = 0]
      BY <2>1, <2>5 DEF PExpire, DelKey
    <3>2. \A d \in Acquirers : Leased(d)' => Leased(d) /\ d # c /\ store[Wants[d]] # store[Wants[c]]
      BY <1>10, <2>1, <2>2, <2>3, <2>5 DEF Renew
    <3> QED BY <1>10, <2>1, <2>2, <2>3, <2>5, <3>1, <3>2 DEF Renew
  <2> QED BY <2>4, <2>5
<1>11. ASSUME NEW r \in Resources, ForceRelease(r) PROVE LockInv'
  BY <1>11 DEF ForceRelease, DelKey
<1> QED
  BY <1>1, <1>2, <1>3, <1>4, <1>5, <1>6, <1>7, <1>8, <1>9, <1>10, <1>11
     DEF LockNext, Try

LEMMA AlwaysLockInv == LockSpec => []LockInv
  BY InitLockInv, InductiveLockInv, PTL DEF LockSpec
-----------------------------------------------------------------------------
(* The state of locks and acquirers keeps its types, and acquire() sends   *)
(* no more SETs than its retry_count.                                      *)
THEOREM LockTypeCorrect == LockSpec => []LockTypeOK
  BY AlwaysLockInv, PTL DEF LockInv

(* lock_manager.py:115, as far as it is true: two holders of one resource  *)
(* are never both within their TTL, whatever was extended or forced.       *)
THEOREM LockLeaseExclusion == LockSpec => []LeaseExclusion
<1>1. LockInv => LeaseExclusion
  BY DEF LockInv, LeaseInv, LeaseExclusion, Leased
<1> QED BY <1>1, AlwaysLockInv, PTL

(* A key that is set has time to live, whatever crashed.                   *)
THEOREM LockEveryKeyExpires == LockSpec => []EveryKeyExpires
<1>1. LockInv => EveryKeyExpires
  BY DEF LockInv, LockTypeOK, KeyInv, EveryKeyExpires
<1> QED BY <1>1, AlwaysLockInv, PTL

(* lock_manager.py:33-36: only the owner's release, the key's own expiry   *)
(* or force takes a key away.                                              *)
THEOREM LockOnlyOwnerReleases == LockSpec => OnlyOwnerReleases
<1> DEFINE Fair(r) == \/ ttl[r] = 1 /\ ttl'[r] = 0
                      \/ store[r] \in spoiled' /\ UNCHANGED Releasing
                      \/ /\ state[store[r]] \in Held
                         /\ state'[store[r]] = "released"
<1>1. ASSUME LockInv, [LockNext]_lockVars, NEW r \in Resources,
             store[r] # NoToken, store'[r] # store[r]
      PROVE  Fair(r)
  <2>1. ASSUME NEW c \in Acquirers, Release(c) PROVE Fair(r)
    BY <1>1, <2>1 DEF Release, DelKey, Become, LockInv, LockTypeOK
  <2>2. CASE Tick
    BY <1>1, <2>2 DEF Tick, Less, LockInv, LockTypeOK
  <2>3. ASSUME NEW c \in Acquirers, SetNX(c) \/ SetReplyLost(c) PROVE FALSE
    BY <1>1, <2>3 DEF SetNX, SetReplyLost, SetKey, LockInv, LockTypeOK
  <2>4. ASSUME NEW c \in Acquirers,
               Acquire(c) \/ SetRefused(c) \/ Crash(c) \/ ExtendRead(c)
        PROVE  FALSE
    BY <1>1, <2>4 DEF Acquire, SetRefused, Crash, ExtendRead
  <2>5. ASSUME NEW o \in Resources, ForceRelease(o) PROVE Fair(r)
    BY <1>1, <2>5 DEF ForceRelease, DelKey, Releasing, LockInv, LockTypeOK
  <2>6. ASSUME NEW c \in Acquirers, Renew(c) PROVE Fair(r)
    <3>1. PICK n \in Extensions :
             /\ PExpire(Wants[c], n)
             /\ spoiled' = IF store[Wants[c]] = c /\ n > 0 THEN spoiled
                           ELSE spoiled \union ({c, store[Wants[c]]} \ {NoToken})
      BY <2>6 DEF Renew
    <3>2. r = Wants[c] /\ ~ (n > 0)
      BY <1>1, <3>1 DEF PExpire, DelKey, LockInv, LockTypeOK
    <3>3. store[r] \in spoiled'
      BY <1>1, <3>1, <3>2
    <3>4. Releasing' = Releasing
      BY <1>1, <2>6 DEF Renew, Become, Releasing, LockInv, LockTypeOK
    <3> QED BY <3>3, <3>4
  <2> QED BY <1>1, <2>1, <2>2, <2>3, <2>4, <2>5, <2>6 DEF LockNext, Try, lockVars
<1>2. LockInv /\ [LockNext]_lockVars =>
        [\A r \in Resources : store[r] # NoToken /\ store'[r] # store[r] => Fair(r)]_lockVars
  BY <1>1
<1> QED BY <1>2, AlwaysLockInv, PTL DEF LockSpec, OnlyOwnerReleases
=============================================================================
