----------------------------- MODULE LockManager -----------------------------
(***************************************************************************)
(* LockManager (services/lock_manager.py): a lock is one Redis key set     *)
(* with SET NX EX to a token that is fresh for every acquisition.  An      *)
(* acquirer stands for one call of acquire() and for its token.  A Redis   *)
(* command is one atomic step; between two commands any other process      *)
(* may run and time may pass.  A holder may extend() its lock as often as  *)
(* it likes, and force_release() may come at any time.                     *)
(***************************************************************************)
EXTENDS Integers

CONSTANTS Acquirers,   \* acquire() calls, hence tokens
          Resources,   \* what is locked, "wallet:<merchant>:<currency>"
          Wants,       \* the resource of each acquirer
          NoToken,     \* the value of an absent key
          TTL,         \* ttl of each acquire(), LOCK_TTL by default, in ticks
          Retries,     \* retry_count of each acquire(), 3 by default
          Extensions   \* what extend() is called with, in ticks

ASSUME WantsAssumption == Wants \in [Acquirers -> Resources]
ASSUME NoTokenAssumption == NoToken \notin Acquirers
ASSUME TTLAssumption == TTL \in [Acquirers -> Nat \ {0}]
ASSUME RetriesAssumption == Retries \in [Acquirers -> Nat \ {0}]
ASSUME ExtensionsAssumption == Extensions \subseteq Int

VARIABLES store,       \* lock:<resource> in Redis
          ttl,         \* ticks before the key expires
          state,       \* where each acquirer is
          attempt,     \* SETs it has seen refused
          lease,       \* ticks left of the TTL its holder asked for
          spoiled      \* acquirers whose lease an extend() or a
                       \* force_release() has made worthless

lockVars == <<store, ttl, state, attempt, lease, spoiled>>

LockInit == /\ store = [r \in Resources |-> NoToken]
            /\ ttl = [r \in Resources |-> 0]
            /\ state = [c \in Acquirers |-> "idle"]
            /\ attempt = [c \in Acquirers |-> 0]
            /\ lease = [c \in Acquirers |-> 0]
            /\ spoiled = {}

Held == {"holding", "renewing"}

Become(c, st) == state' = [state EXCEPT ![c] = st]

(* Slip: SET without EX.                                                   *)
SetKeyNoExpiry(c) == /\ store' = [store EXCEPT ![Wants[c]] = c]
                     /\ UNCHANGED ttl

SetKey(c) == /\ store' = [store EXCEPT ![Wants[c]] = c]
             /\ ttl' = [ttl EXCEPT ![Wants[c]] = TTL[c]]

DelKey(r) == /\ store' = [store EXCEPT ![r] = NoToken]
             /\ ttl' = [ttl EXCEPT ![r] = 0]

(* A hold that is over has no lease.                                       *)
EndLease(c) == /\ lease' = [lease EXCEPT ![c] = 0]
               /\ spoiled' = spoiled \ {c}

Acquire(c) == /\ state[c] = "idle"
              /\ Become(c, "trying")
              /\ UNCHANGED <<store, ttl, attempt, lease, spoiled>>

(* Slip: SET without NX.                                                   *)
SetAnyway(c) == /\ state[c] = "trying"
                /\ SetKey(c)
                /\ lease' = [lease EXCEPT ![c] = TTL[c]]
                /\ Become(c, "holding")
                /\ UNCHANGED <<attempt, spoiled>>

SetNX(c) == /\ state[c] = "trying"
            /\ store[Wants[c]] = NoToken
            /\ SetKey(c)
            /\ lease' = [lease EXCEPT ![c] = TTL[c]]
            /\ spoiled' = spoiled \ {c}
            /\ Become(c, "holding")
            /\ UNCHANGED attempt

(* Slips: one attempt too many; no limit at all.                           *)
SetRefusedLate(c) == /\ state[c] = "trying"
                     /\ store[Wants[c]] # NoToken
                     /\ attempt' = [attempt EXCEPT ![c] = @ + 1]
                     /\ IF attempt[c] < Retries[c] THEN UNCHANGED state
                                                   ELSE Become(c, "refused")
                     /\ UNCHANGED <<store, ttl, lease, spoiled>>
SetRefusedForever(c) == /\ state[c] = "trying"
                        /\ store[Wants[c]] # NoToken
                        /\ UNCHANGED lockVars

(* Busy: sleep and retry, or after the last attempt LockAcquisitionError.  *)
SetRefused(c) == /\ state[c] = "trying"
                 /\ store[Wants[c]] # NoToken
                 /\ attempt' = [attempt EXCEPT ![c] = @ + 1]
                 /\ IF attempt[c] + 1 < Retries[c] THEN UNCHANGED state
                                                   ELSE Become(c, "refused")
                 /\ UNCHANGED <<store, ttl, lease, spoiled>>

(* The key is set but the reply is lost: retry_on_timeout (core/redis.py)  *)
(* sends the SET again, and that one finds the key taken.                  *)
SetReplyLost(c) == /\ state[c] = "trying"
                   /\ store[Wants[c]] = NoToken
                   /\ SetKey(c)
                   /\ UNCHANGED <<state, attempt, lease, spoiled>>

(* Slip: a plain DEL.                                                      *)
ReleaseUnchecked(c) == /\ state[c] \in Held
                       /\ DelKey(Wants[c])
                       /\ Become(c, "released")
                       /\ EndLease(c)
                       /\ UNCHANGED attempt

(* The Lua script deletes the key only if it still holds our token.        *)
Release(c) == /\ state[c] \in Held
              /\ IF store[Wants[c]] = c
                   THEN DelKey(Wants[c]) /\ Become(c, "released")
                   ELSE Become(c, "notowned") /\ UNCHANGED <<store, ttl>>
              /\ EndLease(c)
              /\ UNCHANGED attempt

(* extend(): a GET that finds another token, or none, returns False and    *)
(* has changed nothing ...                                                 *)
ExtendRead(c) == /\ state[c] = "holding"
                 /\ store[Wants[c]] = c
                 /\ Become(c, "renewing")
                 /\ UNCHANGED <<store, ttl, attempt, lease, spoiled>>

(* PEXPIRE sets the time to live, up or down; 0 or less deletes the key.   *)
PExpire(r, time) == IF time > 0 /\ store[r] # NoToken
                      THEN ttl' = [ttl EXCEPT ![r] = time] /\ UNCHANGED store
                      ELSE DelKey(r)

(* ... and else a PEXPIRE in a command of its own, which meets whatever is *)
(* at the key by then, and True.  Once the key has changed hands the       *)
(* caller's new lease is worth nothing, and the new owner's may have been  *)
(* cut; an extension by no time takes the key from whoever owns it.        *)
Renew(c) == /\ state[c] = "renewing"
            /\ \E additional_ttl \in Extensions :
                 /\ PExpire(Wants[c], additional_ttl)
                 /\ lease' = [lease EXCEPT ![c] =
                                IF additional_ttl > 0 THEN additional_ttl ELSE 0]
                 /\ spoiled' = IF store[Wants[c]] = c /\ additional_ttl > 0 THEN spoiled
                               ELSE spoiled \union ({c, store[Wants[c]]} \ {NoToken})
            /\ Become(c, "holding")
            /\ UNCHANGED attempt

(* force_release(): DEL, whoever owns the key.                             *)
ForceRelease(r) == /\ store[r] # NoToken
                   /\ DelKey(r)
                   /\ spoiled' = spoiled \union {store[r]}
                   /\ UNCHANGED <<state, attempt, lease>>

(* The process dies, its task is cancelled, or Redis raises out of         *)
(* acquire(); the key, if any, is left to its TTL.                         *)
Crash(c) == /\ state[c] \in {"trying"} \union Held
            /\ Become(c, "crashed")
            /\ EndLease(c)
            /\ UNCHANGED <<store, ttl, attempt>>

Less(n) == IF n > 0 THEN n - 1 ELSE 0

(* One tick of the clock; the keys that reach 0 are gone.                  *)
Tick == /\ \E r \in Resources : ttl[r] > 0
        /\ ttl' = [r \in Resources |-> Less(ttl[r])]
        /\ store' = [r \in Resources |-> IF ttl[r] = 1 THEN NoToken ELSE store[r]]
        /\ lease' = [c \in Acquirers |-> Less(lease[c])]
        /\ UNCHANGED <<state, attempt, spoiled>>

Try(c) == SetNX(c) \/ SetRefused(c)

LockNext == \/ \E c \in Acquirers :
                 \/ Acquire(c) \/ Try(c) \/ SetReplyLost(c) \/ Release(c)
                 \/ ExtendRead(c) \/ Renew(c) \/ Crash(c)
            \/ \E r \in Resources : ForceRelease(r)
            \/ Tick

LockSpec == LockInit /\ [][LockNext]_lockVars

(* A task in its retry loop is woken, a holder reaches its finally block,  *)
(* and time passes.                                                        *)
FairLockSpec == LockSpec /\ WF_lockVars(Tick)
                         /\ \A c \in Acquirers : /\ WF_lockVars(Try(c))
                                                 /\ WF_lockVars(Release(c))
-----------------------------------------------------------------------------
LockStates == {"idle", "trying", "released", "notowned", "refused", "crashed"} \union Held

LockTypeOK == /\ store \in [Resources -> Acquirers \union {NoToken}]
              /\ ttl \in [Resources -> Nat]
              /\ state \in [Acquirers -> LockStates]
              /\ attempt \in [Acquirers -> Nat]
              /\ \A c \in Acquirers : attempt[c] <= Retries[c]
              /\ lease \in [Acquirers -> Nat]
              /\ spoiled \subseteq Acquirers

(* What LockManager does guarantee (lock_manager.py:115): of the holders   *)
(* of one resource, at most one is still within the TTL it acquired or     *)
(* extended to, through crashes, lost replies, late releases and expiries. *)
(* An extend() that came too late spoils the hold of its caller and of the *)
(* key's new owner, a force_release() that of the owner, and no other.     *)
Leased(c) == state[c] \in Held /\ lease[c] > 0 /\ c \notin spoiled

LeaseExclusion == \A c, d \in Acquirers :
                     Leased(c) /\ Leased(d) /\ Wants[c] = Wants[d] => c = d

(* No key is immortal: one that is set always has time to live, so that a  *)
(* crashed holder cannot lock a wallet for ever.                           *)
EveryKeyExpires == \A r \in Resources : store[r] # NoToken => ttl[r] > 0

(* lock_manager.py:33-36: a key only goes away by its owner's release, by  *)
(* its own expiry or by force, which an extend() to no time amounts to; a  *)
(* late release never frees the lock of the next holder, not even after a  *)
(* force_release().                                                        *)
Releasing == {c \in Acquirers : state[c] \in {"released", "notowned"}}

OnlyOwnerReleases ==
  [][\A r \in Resources :
       store[r] # NoToken /\ store'[r] # store[r] =>
          \/ ttl[r] = 1 /\ ttl'[r] = 0
          \/ store[r] \in spoiled' /\ UNCHANGED Releasing
          \/ /\ state[store[r]] \in Held
             /\ state'[store[r]] = "released"]_lockVars

(* acquire() returns or raises, however busy the resource is.              *)
AcquireReturns == \A c \in Acquirers : state[c] = "trying" ~> state[c] # "trying"
=============================================================================
