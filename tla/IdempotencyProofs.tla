------------------------- MODULE IdempotencyProofs -------------------------
(***************************************************************************)
(* Proofs about idempotent payments, for every set of requests, merchants  *)
(* and keys, and under every combination of the modelled faults.           *)
(***************************************************************************)
EXTENDS Idempotency, TLAPS

(* The unique index holds every committed row.                             *)
IndexInv == \A p \in effect : index[Key[p]] = p

OutcomeInv == \A q \in Requests :
                outcome[q] \in Requests => Slot(outcome[q]) = Slot(q)

(* What a request is about to be told of is in its sight, then committed.  *)
SightInv == \A q \in Requests :
              /\ pc[q] = "commit" => Visible(q)
              /\ pc[q] = "committed" => outcome[q] \in effect

ReplyInv == \A q \in Requests :
              /\ pc[q] # "answered" => reply[q] = NoReply
              /\ reply[q] \in Requests =>
                   reply[q] \in effect /\ Slot(reply[q]) = Slot(q)

IInv == TypeOK /\ ResultsKeepToSlot /\ IndexInv /\ OutcomeInv /\ SightInv /\ ReplyInv

LEMMA KeysTyped == \A q \in Requests : Key[q] \in Keys /\ Slot(q) \in Slots
  BY DEF Keys, Slots

LEMMA InitIInv == Init => IInv
  BY SentinelsAssumption, KeysTyped
     DEF Init, IInv, TypeOK, ResultsKeepToSlot, IndexInv, OutcomeInv, SightInv,
         ReplyInv, Steps, Errors

(* The rows of other requests stay when one drops its own.                 *)
LEMMA DropRowKeeps ==
  ASSUME TypeOK, IndexInv, NEW q \in Requests, DropRow(q)
  PROVE  /\ index' \in [Keys -> Requests \union {NoRow}]
         /\ \A p \in effect : index'[Key[p]] = p
         /\ \A p \in Requests \ {q} : index[Key[p]] = p => index'[Key[p]] = p
<1>1. CASE OwnRow(q)
  <2>1. index' = [index EXCEPT ![Key[q]] = NoRow]
    BY <1>1 DEF DropRow
  <2>2. index[Key[q]] = q /\ q \notin effect
    BY <1>1 DEF OwnRow
  <2> QED BY <2>1, <2>2, KeysTyped DEF TypeOK, IndexInv
<1>2. CASE ~ OwnRow(q)
  BY <1>2 DEF DropRow, TypeOK, IndexInv
<1> QED BY <1>1, <1>2

LEMMA InductiveIInv == IInv /\ [Next]_vars => IInv'
<1> SUFFICES ASSUME IInv, [Next]_vars PROVE IInv'
  OBVIOUS
<1> USE SentinelsAssumption, KeysTyped
    DEF IInv, TypeOK, ResultsKeepToSlot, IndexInv, OutcomeInv, SightInv, ReplyInv,
        Goto, Keep
<1>0. faults' \in Weathers
  BY DEF Next, Step, vars
<1>1. ASSUME NEW q \in Requests, Check(q) PROVE IInv'
  BY <1>0, <1>1 DEF Check, Lookup, Visible, OwnRow, Steps
<1>2. ASSUME NEW q \in Requests, AcquireLock(q) PROVE IInv'
  BY <1>0, <1>2 DEF AcquireLock, Visible, OwnRow, Steps
<1>3. ASSUME NEW q \in Requests, AcquireReplyLost(q) PROVE IInv'
  BY <1>0, <1>3 DEF AcquireReplyLost, Visible, OwnRow, Steps, Errors
<1>4. ASSUME NEW q \in Requests, Conflict(q) PROVE IInv'
  BY <1>0, <1>4 DEF Conflict, Visible, OwnRow, Steps, Errors
<1>5. ASSUME NEW q \in Requests, Recheck(q) PROVE IInv'
  BY <1>0, <1>5 DEF Recheck, Lookup, Visible, OwnRow, Steps
<1>6. ASSUME NEW q \in Requests, Insert(q) PROVE IInv'
  BY <1>0, <1>6 DEF Insert, Visible, OwnRow, Steps
<1>7. ASSUME NEW q \in Requests, InsertDuplicate(q) PROVE IInv'
  BY <1>0, <1>7 DEF InsertDuplicate, Visible, OwnRow, Steps, Errors
<1>8. ASSUME NEW q \in Requests, Process(q) PROVE IInv'
  BY <1>0, <1>8 DEF Process, Visible, OwnRow, Steps, Errors
<1>9. ASSUME NEW q \in Requests, StoreResult(q) PROVE IInv'
  BY <1>0, <1>9 DEF StoreResult, Visible, OwnRow, Steps
<1>10. ASSUME NEW q \in Requests, ReleaseLock(q) PROVE IInv'
  BY <1>0, <1>10 DEF ReleaseLock, Visible, OwnRow, Steps
<1>11. ASSUME NEW q \in Requests, Respond(q) PROVE IInv'
  BY <1>0, <1>11 DEF Respond, Visible, OwnRow, Steps
<1>12. ASSUME NEW q \in Requests, Raise(q) PROVE IInv'
  BY <1>0, <1>12 DEF Raise, Visible, OwnRow, Steps
<1>13. ASSUME NEW q \in Requests, Commit(q) PROVE IInv'
  BY <1>0, <1>13 DEF Commit, TakeEffect, Visible, OwnRow, Steps
<1>14. ASSUME NEW q \in Requests, CommitFails(q) PROVE IInv'
  BY <1>0, <1>14 DEF CommitFails, Visible, OwnRow, Steps, Errors
<1>15. ASSUME NEW q \in Requests, Answer(q) PROVE IInv'
  BY <1>0, <1>15 DEF Answer, Visible, OwnRow, Steps
<1>16. ASSUME NEW q \in Requests, Rollback(q) PROVE IInv'
  BY <1>0, <1>16, DropRowKeeps DEF Rollback, Visible, OwnRow, Steps, Errors
<1>17. ASSUME NEW q \in Requests, Crash(q) PROVE IInv'
  BY <1>0, <1>17, DropRowKeeps DEF Crash, Visible, OwnRow, Steps
<1>18. CASE LockExpires
  BY <1>0, <1>18 DEF LockExpires, Visible, OwnRow
<1>19. CASE ResultExpires
  BY <1>0, <1>19 DEF ResultExpires, Visible, OwnRow
<1>20. ASSUME NEW q \in Requests, ProcessorFails(q) PROVE IInv'
  BY <1>0, <1>20 DEF ProcessorFails, Visible, OwnRow, Steps, Errors
<1>21. ASSUME NEW q \in Requests, Cancel(q) PROVE IInv'
  BY <1>0, <1>21 DEF Cancel, Visible, OwnRow, Steps, Errors
<1>22. ASSUME NEW q \in Requests, CommitReplyLost(q) PROVE IInv'
  BY <1>0, <1>22 DEF CommitReplyLost, TakeEffect, Visible, OwnRow, Steps, Errors
<1>23. CASE UNCHANGED vars
  BY <1>23 DEF vars, Visible, OwnRow
<1> QED
  BY <1>1, <1>2, <1>3, <1>4, <1>5, <1>6, <1>7, <1>8, <1>9, <1>10, <1>11, <1>12,
     <1>13, <1>14, <1>15, <1>16, <1>17, <1>18, <1>19, <1>20, <1>21, <1>22, <1>23
     DEF Next, Step, Move, Faulty

LEMMA AlwaysIInv == Spec => []IInv
  BY InitIInv, InductiveIInv, PTL DEF Spec
-----------------------------------------------------------------------------
(* The state of Redis, of the unique index and of the requests keeps its   *)
(* types.                                                                  *)
THEOREM IdempotencyTypeCorrect == Spec => []TypeOK
  BY AlwaysIInv, PTL DEF IInv

(* schemas/transaction.py:54-56, as far as it is true: two requests of one *)
(* merchant with one key are never told of two payments.                   *)
THEOREM IdempotencyRepliesAgree == Spec => []RepliesAgree
<1>1. IInv => RepliesAgree
  <2> SUFFICES ASSUME IInv, NEW p \in Requests, NEW q \in Requests,
                      Slot(p) = Slot(q), reply[p] \in Requests, reply[q] \in Requests
               PROVE  reply[p] = reply[q]
    BY DEF RepliesAgree, Service!RepliesAgree, Service!Slot, Slot
  <2>1. /\ reply[p] \in effect /\ reply[q] \in effect
        /\ Slot(reply[p]) = Slot(reply[q])
    BY DEF IInv, ReplyInv
  <2>2. Key[reply[p]] = Key[reply[q]]
    BY <2>1 DEF Slot
  <2> QED BY <2>1, <2>2 DEF IInv, IndexInv
<1> QED BY <1>1, AlwaysIInv, PTL

(* idempotency.py:40-41, as far as it is true: a stored result of a        *)
(* merchant is a payment of that merchant.                                 *)
THEOREM IdempotencyResultsKeepToSlot == Spec => []ResultsKeepToSlot
  BY AlwaysIInv, PTL DEF IInv

(* idempotency.py:88-89 and 120-121: the unique index makes the service    *)
(* at-most-once, whatever Redis loses and whichever process crashes.       *)
THEOREM IdempotencyImplementsAtMostOnce == Spec => AtMostOnePayment
<1>1. Init => Service!Init
  BY DEF Init, Service!Init
<1>2. IInv /\ [Next]_vars => [Service!Next]_<<effect, reply>>
  <2> SUFFICES ASSUME IInv, [Next]_vars
               PROVE  Service!Next \/ UNCHANGED <<effect, reply>>
    OBVIOUS
  <2>1. ASSUME NEW q \in Requests, Commit(q) \/ CommitReplyLost(q)
        PROVE  Service!TakeEffect(q) \/ UNCHANGED <<effect, reply>>
    <3>1. CASE OwnRow(q)
      <4>1. \A p \in effect : Key[p] # Key[q]
        BY <3>1 DEF OwnRow, IInv, IndexInv
      <4> QED BY <2>1, <3>1, <4>1 DEF Commit, CommitReplyLost, TakeEffect, Service!TakeEffect
    <3>2. CASE ~ OwnRow(q)
      BY <2>1, <3>2 DEF Commit, CommitReplyLost, TakeEffect
    <3> QED BY <3>1, <3>2
  <2>2. ASSUME NEW q \in Requests, Answer(q) PROVE Service!Answer(q)
    <3>1. outcome[q] \in effect /\ outcome[q] \in Requests /\ reply[q] = NoReply
      BY <2>2 DEF Answer, IInv, SightInv, ReplyInv, TypeOK
    <3>2. Service!Slot(outcome[q]) = Service!Slot(q)
      BY <3>1 DEF IInv, OutcomeInv, Slot, Service!Slot
    <3> QED BY <2>2, <3>1, <3>2 DEF Answer, Service!Answer
  <2>3. ASSUME NEW q \in Requests, Rollback(q) PROVE Service!Answer(q)
    <3>1. reply[q] = NoReply
      BY <2>3 DEF Rollback, IInv, ReplyInv
    <3> QED BY <2>3, <3>1 DEF Rollback, Service!Answer, Errors
  <2>4. CASE UNCHANGED vars
    BY <2>4 DEF vars
  <2>5. CASE LockExpires \/ ResultExpires
    BY <2>5 DEF LockExpires, ResultExpires
  <2>6. ASSUME NEW q \in Requests, Step(q) \/ Faulty(q),
               ~ Commit(q), ~ CommitReplyLost(q), ~ Answer(q), ~ Rollback(q)
        PROVE  UNCHANGED <<effect, reply>>
    BY <2>6 DEF Step, Move, Faulty, Cancel, Crash, Check, AcquireLock, AcquireReplyLost,
         Conflict, Recheck, Insert, InsertDuplicate, Process, ProcessorFails,
         StoreResult, ReleaseLock, Respond, Raise, CommitFails
  <2>7. ASSUME NEW q \in Requests, Step(q) \/ Faulty(q)
        PROVE  Service!Next \/ UNCHANGED <<effect, reply>>
    BY <2>1, <2>2, <2>3, <2>6, <2>7 DEF Service!Next
  <2> QED BY <2>4, <2>5, <2>7 DEF Next
<1> QED BY <1>1, <1>2, AlwaysIInv, PTL DEF Spec, AtMostOnePayment, Service!Spec
-----------------------------------------------------------------------------
(* While the lock is kept, who is between acquire and release has it, and  *)
(* a processor runs only where nothing is stored.                          *)
Inside == {"recheck", "insert", "process", "store", "release"}

LockInv == LockIsKept => \A q \in Requests : pc[q] \in Inside =>
             /\ Slot(q) \in locked
             /\ \A p \in Requests : pc[p] \in Inside /\ Slot(p) = Slot(q) => p = q

MissInv == LockIsKept => \A q \in Requests : Processing(q) => result[Slot(q)] = NoResult

KeptInv == TypeOK /\ LockInv /\ MissInv

LEMMA InductiveKeptInv == KeptInv /\ TypeOK' /\ [Next]_vars => KeptInv'
<1> SUFFICES ASSUME KeptInv, TypeOK', [Next]_vars PROVE LockInv' /\ MissInv'
  BY DEF KeptInv
<1>0. faults' = faults /\ (LockIsKept' <=> LockIsKept)
  BY DEF Next, Step, vars, LockIsKept
<1>1. CASE ~ LockIsKept
  BY <1>0, <1>1 DEF LockInv, MissInv
<1>2. CASE LockIsKept
  <2>0. /\ ~ RedisFails /\ "lockttl" \notin faults
        /\ \A q \in Requests : pc[q] \in Inside =>
             /\ Slot(q) \in locked
             /\ \A p \in Requests : pc[p] \in Inside /\ Slot(p) = Slot(q) => p = q
        /\ \A q \in Requests : Processing(q) => pc[q] \in Inside /\ result[Slot(q)] = NoResult
    BY <1>2 DEF KeptInv, LockInv, MissInv, LockIsKept, RedisFails, Inside, Processing
  <2> USE KeysTyped DEF TypeOK, Goto, Inside, Processing
  <2>1. ASSUME NEW q \in Requests, AcquireLock(q) PROVE LockInv' /\ MissInv'
    BY <2>0, <2>1 DEF KeptInv, AcquireLock, LockInv, MissInv
  <2>2. ASSUME NEW q \in Requests, Recheck(q) PROVE LockInv' /\ MissInv'
    BY <2>0, <2>2 DEF KeptInv, Recheck, Lookup, LockInv, MissInv
  <2>3. ASSUME NEW q \in Requests, StoreResult(q) PROVE LockInv' /\ MissInv'
    BY <2>0, <2>3 DEF KeptInv, StoreResult, LockInv, MissInv
  <2>4. ASSUME NEW q \in Requests, ReleaseLock(q) PROVE LockInv' /\ MissInv'
    BY <2>0, <2>4 DEF KeptInv, ReleaseLock, LockInv, MissInv
  <2>5. ASSUME NEW q \in Requests,
               \/ Insert(q) \/ InsertDuplicate(q) \/ Process(q) \/ ProcessorFails(q)
               \/ Cancel(q)
        PROVE  LockInv' /\ MissInv'
    BY <2>0, <2>5 DEF KeptInv, Insert, InsertDuplicate, Process, ProcessorFails, Cancel,
                      LockInv, MissInv
  <2>6. ASSUME NEW q \in Requests,
               \/ Check(q) \/ Conflict(q) \/ Respond(q) \/ Raise(q) \/ Commit(q)
               \/ CommitFails(q) \/ CommitReplyLost(q) \/ Answer(q) \/ Rollback(q) \/ Crash(q)
        PROVE  LockInv' /\ MissInv'
    <3>1. /\ locked' = locked /\ result' = result
          /\ \A p \in Requests : pc'[p] \in Inside => pc'[p] = pc[p]
      BY <2>6 DEF KeptInv, Check, Lookup, Conflict, Respond, Raise, Commit, CommitFails,
                  CommitReplyLost, Answer, Rollback, Crash
    <3> QED BY <2>0, <3>1 DEF LockInv, MissInv
  <2>7. CASE ResultExpires
    BY <2>0, <2>7 DEF KeptInv, ResultExpires, LockInv, MissInv
  <2>8. CASE UNCHANGED vars
    BY <2>0, <2>8 DEF vars, LockInv, MissInv
  <2>9. ~ LockExpires /\ \A q \in Requests : ~ AcquireReplyLost(q)
    BY <2>0 DEF LockExpires, AcquireReplyLost
  <2> QED BY <2>1, <2>2, <2>3, <2>4, <2>5, <2>6, <2>7, <2>8, <2>9 DEF Next, Step, Move, Faulty
<1> QED BY <1>1, <1>2

LEMMA KeptInvHolds == Spec => []KeptInv
<1>1. Init => KeptInv
  BY InitIInv DEF Init, KeptInv, LockInv, MissInv, Inside, Processing, IInv
<1> QED BY <1>1, InductiveKeptInv, IdempotencyTypeCorrect, PTL DEF Spec

(* idempotency.py:105-107: while the lock lives and Redis answers, one of  *)
(* the requests with one key processes, and the others do not.             *)
THEOREM IdempotencyOneProcessor == Spec => []OneProcessor
<1>1. KeptInv => OneProcessor
  BY DEF KeptInv, LockInv, OneProcessor, Processing, Inside
<1> QED BY <1>1, KeptInvHolds, PTL

(* idempotency.py:146-153: a stored success is not overwritten.            *)
THEOREM IdempotencySuccessKept == Spec => SuccessKept
<1>1. ASSUME KeptInv, [Next]_vars, LockIsKept, "resultttl" \notin faults, NEW k \in Slots,
             result[k] \in Requests
      PROVE  result'[k] = result[k]
  <2>1. ASSUME NEW q \in Requests, StoreResult(q) PROVE result'[k] = result[k]
    BY <1>1, <2>1, SentinelsAssumption
       DEF KeptInv, TypeOK, MissInv, Processing, StoreResult
  <2>2. CASE UNCHANGED result
    BY <2>2
  <2>3. (\E q \in Requests : StoreResult(q)) \/ UNCHANGED result
    BY <1>1 DEF Next, Step, Move, Faulty, Check, AcquireLock, AcquireReplyLost, Conflict,
                Recheck, Insert, InsertDuplicate, Process, ProcessorFails, Cancel,
                ReleaseLock, Respond, Raise, Commit, CommitFails, CommitReplyLost, Answer,
                Rollback, Crash, LockExpires,
                ResultExpires, vars
  <2> QED BY <2>1, <2>2, <2>3
<1>2. KeptInv /\ [Next]_vars =>
        [LockIsKept /\ "resultttl" \notin faults =>
           \A k \in Slots : result[k] \in Requests => result'[k] = result[k]]_vars
  BY <1>1
<1> QED BY <1>2, KeptInvHolds, PTL DEF Spec, SuccessKept
=============================================================================
