---------------------------- MODULE SessionProofs ----------------------------
(***************************************************************************)
(* Proofs about what the sessions of payments commit, for any number of    *)
(* sessions of either mode, any keys and any number of rounds.             *)
(***************************************************************************)
EXTENDS PaymentSession, TLAPS

(* A payment that its session has not touched, and one it is done with.    *)
Untouched(p) == status[p] = "none" /\ records[p] = {} /\ p \notin posted

Final(p) == /\ status[p] # "PROCESSING"
            /\ p \in posted <=> status[p] = "COMPLETED"
            /\ records[p] = IF endpoint = "gone" THEN {} ELSE Path(status[p])

(* The places before and after the engine, and the sessions whose work     *)
(* counts.                                                                 *)
Early == {"check", "acquire", "recheck", "insert"}
After == {"unlock", "store", "release", "next", "commit", "rollback", "end"}
Live(s) == txn[s] \in {"open", "committed"}

PlaceInv(s) ==
  /\ txn[s] \in {"committed", "rolledback", "lost"} <=> pc[s] = "end"
  /\ txn[s] = "broken" => pc[s] \in After
  /\ txn[s] = "aborted" => pc[s] \in Early \union After
  /\ Bypass(s) => pc[s] \notin {"check", "acquire", "recheck", "store", "release"}

(* Nothing is left of a session that failed, nothing yet of later rounds.  *)
DeadInv(s)   == ~ Live(s) => \A p \in Of(s) : Untouched(p)
FutureInv(s) == \A p \in Of(s) : p[2] > round[s] => Untouched(p)
SingleInv(s) == ModeOf[s] = "single" => round[s] = 1

(* The payment in progress, by the place of its session; a session that is *)
(* about to announce has picked the endpoint unless it had gone.           *)
Row(s, st, in, seen) == /\ status[Now(s)] = st
                        /\ Now(s) \in posted <=> in
                        /\ records[Now(s)] = seen

StageInv(s) == txn[s] = "open" =>
  /\ pc[s] \in {"check", "acquire", "recheck", "insert"} => Untouched(Now(s))
  /\ pc[s] = "judge" => Row(s, "INITIATED", FALSE, {})
  /\ pc[s] = "flagged" => Row(s, "FLAGGED", FALSE, {}) /\ (endpoint # "gone" => s \in picked)
  /\ pc[s] = "processing" => Row(s, "PROCESSING", FALSE, {}) /\ (endpoint # "gone" => s \in picked)
  /\ pc[s] \in {"posting", "posted"} =>
        /\ Row(s, "PROCESSING", pc[s] = "posted",
               IF endpoint = "gone" THEN {} ELSE {"PROCESSING"})
        /\ endpoint # "gone" <=> s \in picked

(* All the others of the session are whole.                                *)
WholeInv(s) == Live(s) => \A p \in Of(s) : p # Now(s) \/ pc[s] \in After => Final(p)

(* Who has found another's result has no row of its own.                   *)
HitInv(s) == Live(s) /\ pc[s] \in After /\ found[s] \in Payments /\ found[s] # Now(s)
                => status[Now(s)] = "none"

ReportInv(s) == Live(s) => \A p \in Of(s) : report[p] = "processed" => status[p] = "COMPLETED"

Mine(s) == /\ PlaceInv(s) /\ DeadInv(s) /\ FutureInv(s) /\ SingleInv(s)
           /\ StageInv(s) /\ WholeInv(s) /\ HitInv(s) /\ ReportInv(s)

(* A result that is stored or found is of a payment that is over, and      *)
(* COMPLETED unless its session has failed since.                          *)
Past(r) == \/ r[2] < round[r[1]]
           \/ r[2] = round[r[1]] /\ pc[r[1]] \in After
Known(r) == Past(r) /\ (Live(r[1]) => status[r] = "COMPLETED")

Seen(r) == (\E k \in Keys : result[k] = r) \/ (\E s \in Sessions : found[s] = r)

KnownInv == \A r \in Payments : Seen(r) => Known(r)

(* A row with a key is in the index.                                       *)
IndexInv == \A p \in Payments :
   Live(p[1]) /\ status[p] # "none" /\ KeyOf[p[1]] # NoKey => index[KeyOf[p[1]]] = p

(* A payment of its own commits for a row it has seen.                     *)
Own(s) == ModeOf[s] = "single" /\ (txn[s] = "committed" \/ (txn[s] = "open" /\ pc[s] = "commit"))
            => \E r \in Payments : found[s] = r /\ (r = Now(s) \/ Committed(r))

IInv == /\ TypeOK /\ KnownInv /\ IndexInv
        /\ \A s \in Sessions : Mine(s) /\ Own(s)

USE ModesAssumption, RoundsAssumption, KeysAssumption, ResultsAssumption

LEMMA Pairs ==
  /\ \A p \in Payments : /\ p[1] \in Sessions /\ p[2] \in 1..Rounds
                         /\ p = <<p[1], p[2]>> /\ p \in Of(p[1])
  /\ \A s \in Sessions : Of(s) \subseteq Payments /\ \A p \in Of(s) : p[1] = s
  /\ \A s \in Sessions, n \in 1..Rounds : /\ <<s, n>> \in Payments
                                          /\ <<s, n>>[1] = s /\ <<s, n>>[2] = n
  BY DEF Payments, Of

LEMMA NowFacts ==
  ASSUME TypeOK, NEW s \in Sessions
  PROVE  /\ Now(s) \in Payments /\ Now(s) \in Of(s)
         /\ Now(s)[1] = s /\ Now(s)[2] = round[s]
         /\ round[s] \in 1..Rounds
         /\ \A p \in Of(s) : p[2] = round[s] => p = Now(s)
<1>1. round[s] \in 1..Rounds
  BY DEF TypeOK
<1>2. Now(s) \in Payments /\ Now(s)[1] = s /\ Now(s)[2] = round[s]
  BY <1>1, Pairs DEF Now
<1>3. ASSUME NEW p \in Of(s), p[2] = round[s] PROVE p = Now(s)
  BY <1>3, Pairs DEF Now
<1> QED BY <1>1, <1>2, <1>3, Pairs

LEMMA InitIInv == Init => IInv
<1> SUFFICES ASSUME Init PROVE IInv
  OBVIOUS
<1>1. TypeOK
  BY DEF Init, TypeOK, Start, Places, Statuses, Results
<1>2. ASSUME NEW s \in Sessions PROVE Mine(s) /\ Own(s)
  <2>1. /\ txn[s] = "open" /\ pc[s] \in {"check", "insert"} /\ round[s] = 1
        /\ Bypass(s) => pc[s] = "insert"
        /\ \A p \in Of(s) : Untouched(p) /\ report[p] = "none"
    BY Pairs DEF Init, Start, Untouched
  <2>2. PlaceInv(s) /\ DeadInv(s) /\ FutureInv(s) /\ SingleInv(s) /\ HitInv(s) /\ Own(s)
    BY <2>1 DEF PlaceInv, DeadInv, FutureInv, SingleInv, HitInv, Own, Early, After,
                   Live
  <2>3. StageInv(s)
    BY <1>1, <2>1, NowFacts DEF StageInv
  <2>4. WholeInv(s) /\ ReportInv(s)
    BY <2>1 DEF WholeInv, ReportInv, Untouched, Final, Path
  <2> QED BY <2>2, <2>3, <2>4 DEF Mine
<1>3. KnownInv /\ IndexInv
  BY DEF Init, KnownInv, Seen, IndexInv
<1> QED BY <1>1, <1>2, <1>3 DEF IInv

(* What a step of session s leaves alone.                                  *)
Same(p) == /\ status'[p] = status[p] /\ records'[p] = records[p]
           /\ p \in posted' <=> p \in posted
           /\ report'[p] = report[p]

Apart(s) == /\ endpoint' = endpoint
            /\ \A t \in Sessions \ {s} :
                  /\ pc'[t] = pc[t] /\ round'[t] = round[t]
                  /\ found'[t] = found[t] /\ txn'[t] = txn[t]
                  /\ t \in picked' <=> t \in picked
                  /\ \A p \in Of(t) : Same(p)

LEMMA SameFacts ==
  ASSUME NEW p, Same(p), endpoint' = endpoint
  PROVE  (Untouched(p) <=> Untouched(p)') /\ (Final(p) <=> Final(p)')
<1>1. Untouched(p) <=> Untouched(p)'
  BY DEF Same, Untouched
<1>2. Path(status[p])' = Path(status[p])
  BY DEF Same, Path
<1>3. Final(p) <=> Final(p)'
  BY <1>2 DEF Same, Final
<1> QED BY <1>1, <1>3

LEMMA OthersKeepMine ==
  ASSUME IInv, NEW s \in Sessions, Apart(s), NEW t \in Sessions, t # s
  PROVE  Mine(t)'
<1>1. /\ pc'[t] = pc[t] /\ round'[t] = round[t] /\ found'[t] = found[t] /\ txn'[t] = txn[t]
      /\ t \in picked' <=> t \in picked
      /\ endpoint' = endpoint
      /\ \A p \in Of(t) : Same(p)
  BY DEF Apart
<1>2. Now(t)' = Now(t) /\ Now(t) \in Of(t)
  BY <1>1, NowFacts DEF IInv, Now
<1>3. \A p \in Of(t) : (Untouched(p) <=> Untouched(p)') /\ (Final(p) <=> Final(p)')
  BY <1>1, SameFacts
<1>4. PlaceInv(t)' /\ SingleInv(t)'
  BY <1>1 DEF IInv, Mine, PlaceInv, SingleInv
<1>5. DeadInv(t)' /\ FutureInv(t)'
  BY <1>1, <1>3 DEF IInv, Mine, DeadInv, FutureInv, Live
<1>6. WholeInv(t)'
  BY <1>1, <1>2, <1>3 DEF IInv, Mine, WholeInv, Live
<1>7. HitInv(t)' /\ ReportInv(t)'
  BY <1>1, <1>2 DEF IInv, Mine, HitInv, ReportInv, Live, Same
<1>8. StageInv(t)'
  <2>1. \A st, seen : \A in \in BOOLEAN : Row(t, st, in, seen)' <=> Row(t, st, in, seen)
    BY <1>1, <1>2 DEF Row, Same
  <2>2. Untouched(Now(t)) <=> Untouched(Now(t))'
    BY <1>2, <1>3
  <2> QED BY <1>1, <2>1, <2>2 DEF IInv, Mine, StageInv
<1> QED BY <1>4, <1>5, <1>6, <1>7, <1>8 DEF Mine

-----------------------------------------------------------------------------
LEMMA PathSets == \A st \in Statuses : Path(st) \subseteq Statuses
  BY DEF Path, Statuses

LEMMA StepKeepsType ==
  ASSUME IInv, NEW s \in Sessions, Step(s) \/ Faulty(s), UNCHANGED faults
  PROVE  TypeOK'
<1>0. /\ TypeOK
      /\ Now(s) \in Payments /\ Of(s) \subseteq Payments /\ round[s] \in 1..Rounds
      /\ Start(s) \in Places /\ Done(s) \in Places /\ Raised \notin Results
      /\ pc[s] \in {"check", "acquire", "recheck", "store", "release"} => KeyOf[s] \in Keys
  BY NowFacts, Pairs DEF IInv, Mine, PlaceInv, Bypass, Start, Done, Places, Results
<1>1. CASE Check(s) \/ Recheck(s)
  BY <1>0, <1>1 DEF Check, Recheck, Lookup, Leave, Move, Goto, Find, TypeOK, Places,
                    work, redis, postgres, hook
<1>2. CASE AcquireKey(s) \/ Conflict(s)
  BY <1>0, <1>2 DEF AcquireKey, Conflict, Leave, Move, Goto, Find, TypeOK, Places,
                    work, redis, postgres, hook
<1>3. CASE StoreResult(s) \/ ReleaseKey(s)
  BY <1>0, <1>3 DEF StoreResult, ReleaseKey, Move, Goto, TypeOK, Places, Results,
                    work, redis, postgres, hook
<1>4. CASE Insert(s) \/ Refuse(s)
  BY <1>0, <1>4 DEF Insert, Refuse, SetStatus, Move, Leave, Goto, Find, work,
                    postgres, TypeOK, Places, Statuses, redis, hook
<1>5. CASE InsertDuplicate(s) \/ Orphaned(s) \/ StatementError(s)
  BY <1>0, <1>5 DEF InsertDuplicate, Orphaned, StatementError, Break, Undo, Leave, Goto, Find,
                    TypeOK, Places, Statuses, redis, hook
<1>6. CASE Flag(s) \/ Lock(s)
  BY <1>0, <1>6 DEF Flag, Lock, SetStatus, Pick, Move, Goto, TypeOK, Places, Statuses,
                    postgres, redis
<1>7. CASE Busy(s) \/ Unlock(s) \/ UnlockError(s)
  BY <1>0, <1>7 DEF Busy, Unlock, UnlockError, Leave, Move, Goto, Find, TypeOK, Places,
                    work, postgres, redis, hook
<1>8. CASE AnnounceFlagged(s) \/ AnnounceProcessing(s)
  BY <1>0, <1>8 DEF AnnounceFlagged, AnnounceProcessing, Record, Leave, Move, Goto, Find,
                    TypeOK, Places, Statuses, postgres, redis, hook
<1>9. CASE Post(s)
  BY <1>0, <1>9 DEF Post, Move, Goto, TypeOK, Places, redis, hook
<1>10. CASE Decline(s) \/ Complete(s)
  BY <1>0, <1>10 DEF Decline, Complete, SetStatus, Record, Leave, Goto, Find, TypeOK, Places,
                     Statuses, Results, postgres, redis, hook
<1>11. CASE Return(s) \/ Swallow(s)
  BY <1>0, <1>11 DEF Return, Swallow, Continue, Log, ReportOf, Leave, Move, Goto, Find,
                     TypeOK, Places, Results, work, postgres, redis, hook
<1>12. CASE Commit(s) \/ CommitReplyLost(s) \/ CommitNothing(s)
  BY <1>0, <1>12 DEF Commit, CommitReplyLost, CommitNothing, NoAnswer, Move, Goto, TypeOK,
                     Places, work, redis, hook
<1>13. CASE Rollback(s) \/ Crash(s)
  BY <1>0, <1>13 DEF Rollback, Crash, Close, NoAnswer, Undo, Leave, Goto, Find,
                     TypeOK, Places, Statuses, redis
<1> QED BY <1>1, <1>2, <1>3, <1>4, <1>5, <1>6, <1>7, <1>8, <1>9, <1>10, <1>11, <1>12, <1>13
           DEF Step, Faulty

(* A step of s that is right for s is right: others' rows, what is known   *)
(* and what is in the index stay.                                          *)
Settled(s) == \A r \in Of(s) : Past(r) => /\ Past(r)'
                                          /\ Live(s)' => Live(s) /\ status'[r] = status[r]

Learned == \A r \in Payments : Seen(r)' => Seen(r) \/ Known(r)'

Indexed(s) ==
  /\ \A k \in Keys : index'[k] = index[k] \/ index[k] = Free \/ index[k] \in Of(s)
  /\ \A p \in Of(s) : Live(s)' /\ status'[p] # "none" /\ KeyOf[s] # NoKey
                         => index'[KeyOf[s]] = p

LEMMA StepKeeps ==
  ASSUME IInv, NEW s \in Sessions, TypeOK', Apart(s), Mine(s)', Own(s)',
         Settled(s), Learned, Indexed(s),
         txn[s] = "committed" => txn'[s] = "committed"
  PROVE  IInv'
<1>1. ASSUME NEW r \in Payments, Known(r) PROVE Known(r)'
  <2>1. CASE r[1] = s
    BY <1>1, <2>1, Pairs DEF Settled, Known
  <2>2. CASE r[1] # s
    BY <1>1, <2>2, Pairs DEF Apart, Same, Known, Past, Live
  <2> QED BY <2>1, <2>2
<1>2. KnownInv'
  BY <1>1 DEF IInv, KnownInv, Learned
<1>3. IndexInv'
  <2> SUFFICES ASSUME NEW p \in Payments, Live(p[1])', status'[p] # "none", KeyOf[p[1]] # NoKey
               PROVE  index'[KeyOf[p[1]]] = p
    BY DEF IndexInv
  <2>1. CASE p[1] = s
    BY <2>1, Pairs DEF Indexed
  <2>2. CASE p[1] # s
    <3>1. index[KeyOf[p[1]]] = p
      BY <2>2, Pairs DEF Apart, Same, Live, IInv, IndexInv
    <3>2. KeyOf[p[1]] \in Keys /\ p \notin Of(s) /\ p # Free
      BY <2>2, Pairs
    <3> QED BY <3>1, <3>2 DEF Indexed
  <2> QED BY <2>1, <2>2
<1>4. ASSUME NEW t \in Sessions, t # s PROVE Own(t)'
  <2>1. \A r \in Payments : Committed(r) => Committed(r)'
    BY Pairs DEF Apart, Committed
  <2>2. Now(t)' = Now(t) /\ pc'[t] = pc[t] /\ txn'[t] = txn[t] /\ found'[t] = found[t]
    BY <1>4 DEF Apart, Now
  <2> QED BY <2>1, <2>2 DEF IInv, Own
<1>5. \A t \in Sessions : Mine(t)' /\ Own(t)'
  BY <1>4, OthersKeepMine
<1> QED BY <1>2, <1>3, <1>5 DEF IInv

(* The moves that leave the database alone.                                *)
LEMMA QuietKeeps ==
  ASSUME IInv, NEW s \in Sessions, TypeOK', Apart(s), PlaceInv(s)',
         UNCHANGED <<work, postgres, hook, round, report>>,
         pc'[s] \notin {"commit", "end"},
         \/ pc[s] \in Early /\ pc'[s] \in Early
         \/ pc[s] \in Early \union {"judge"} \union After /\ pc'[s] \in After,
         found'[s] \in Payments => \/ found'[s] = found[s]
                                   \/ \E k \in Keys : result[k] = found'[s],
         found'[s] \in Payments /\ pc'[s] \in After =>
           pc[s] \in Early \/ (pc[s] \in After /\ found'[s] = found[s]),
         \A k \in Keys : result'[k] \in Payments => result'[k] \in {result[k], found[s]}
  PROVE  IInv'
<1>0. Mine(s) /\ TypeOK /\ KnownInv /\ IndexInv
  BY DEF IInv
<1>1. /\ Now(s)' = Now(s) /\ Now(s) \in Of(s) /\ txn'[s] = txn[s]
      /\ \A p \in Of(s) : Same(p)
  BY <1>0, NowFacts DEF Now, Same, work, postgres
<1>2. \A p \in Of(s) : (Untouched(p) <=> Untouched(p)') /\ (Final(p) <=> Final(p)')
  BY <1>1, SameFacts DEF hook
<1>3. DeadInv(s)' /\ FutureInv(s)' /\ SingleInv(s)' /\ ReportInv(s)'
  BY <1>0, <1>1, <1>2 DEF Mine, DeadInv, FutureInv, SingleInv, ReportInv, Live, Same
<1>4. txn[s] = "open" /\ pc[s] \in Early => Untouched(Now(s))
  BY <1>0 DEF Mine, StageInv, Early
<1>5. Live(s) /\ pc[s] \in Early \union {"judge"} => Final(Now(s))
  <2>1. Live(s) /\ pc[s] \in Early \union {"judge"} => txn[s] = "open"
    BY <1>0 DEF Mine, PlaceInv, Early, Live
  <2>2. txn[s] = "open" /\ pc[s] = "judge" => Row(s, "INITIATED", FALSE, {})
    BY <1>0 DEF Mine, StageInv
  <2> QED BY <1>4, <2>1, <2>2 DEF Untouched, Final, Row, Path
<1>6. StageInv(s)'
  BY <1>1, <1>2, <1>4 DEF StageInv, Early, After
<1>7. WholeInv(s)'
  BY <1>0, <1>1, <1>2, <1>5 DEF Mine, WholeInv, Live, Early, After
<1>8. HitInv(s)'
  <2>1. Live(s) /\ pc[s] \in Early => txn[s] = "open"
    BY <1>0 DEF Mine, PlaceInv, Early, Live
  <2> QED BY <1>0, <1>1, <1>4, <2>1 DEF Mine, HitInv, Live, Untouched, Same
<1>9. Mine(s)'
  BY <1>3, <1>6, <1>7, <1>8 DEF Mine
<1>10. Own(s)' /\ (txn[s] = "committed" => txn'[s] = "committed")
  BY <1>1 DEF Own, PlaceInv
<1>11. Settled(s)
  BY <1>1, Pairs DEF Settled, Past, Live, Same, Early, After
<1>12. Learned
  BY DEF Learned, Seen, Apart
<1>13. Indexed(s)
  BY <1>0, <1>1, Pairs DEF Indexed, IndexInv, Same, Live, postgres
<1> QED BY <1>9, <1>10, <1>11, <1>12, <1>13, StepKeeps

(* The steps of the engine on the payment in progress.                     *)
LEMMA WorkKeeps ==
  ASSUME IInv, NEW s \in Sessions, TypeOK', Apart(s), PlaceInv(s)', StageInv(s)',
         pc[s] \in {"insert", "judge", "flagged", "processing", "posting", "posted"},
         pc'[s] \notin {"commit", "end"}, txn[s] = "open",
         UNCHANGED <<round, report, result>>, txn'[s] = txn[s],
         \A p \in Of(s) : p # Now(s) => Same(p),
         pc'[s] \in After => Final(Now(s))' /\ found'[s] \notin Payments \ {Now(s)},
         \/ found'[s] = found[s] \/ found'[s] \notin Payments
         \/ found'[s] = Now(s) /\ pc'[s] \in After /\ status'[Now(s)] = "COMPLETED",
         \A k \in Keys : index'[k] = index[k] \/ index[k] = Free,
         pc[s] = "insert" /\ KeyOf[s] # NoKey => index'[KeyOf[s]] = Now(s)
  PROVE  IInv'
<1>0. Mine(s) /\ TypeOK /\ KnownInv /\ IndexInv
  BY DEF IInv
<1>1. /\ Now(s)' = Now(s) /\ Now(s) \in Of(s) /\ Now(s) \in Payments /\ Now(s)[2] = round[s]
      /\ Of(s) \subseteq Payments /\ \A p \in Of(s) : p[1] = s
  BY <1>0, NowFacts, Pairs DEF Now
<1>2. txn[s] = "open" /\ pc[s] \notin After
  BY <1>0 DEF Mine, PlaceInv, After, TypeOK
<1>3. \A p \in Of(s) : p # Now(s) =>
        (Untouched(p) <=> Untouched(p)') /\ (Final(p) <=> Final(p)')
  BY SameFacts DEF Apart
<1>4. status[Now(s)] # "COMPLETED" /\ (pc[s] # "insert" => status[Now(s)] # "none")
  BY <1>0, <1>2 DEF Mine, StageInv, Row, Untouched
<1>5. DeadInv(s)' /\ SingleInv(s)'
  BY <1>0, <1>2 DEF Mine, DeadInv, SingleInv, Live
<1>6. FutureInv(s)'
  BY <1>0, <1>1, <1>3 DEF Mine, FutureInv, TypeOK
<1>7. WholeInv(s)'
  BY <1>0, <1>1, <1>2, <1>3 DEF Mine, WholeInv, Live
<1>8. HitInv(s)'
  BY <1>1 DEF HitInv
<1>9. ReportInv(s)'
  BY <1>0, <1>1, <1>2, <1>4 DEF Mine, ReportInv, Live, Same
<1>10. Mine(s)'
  BY <1>5, <1>6, <1>7, <1>8, <1>9 DEF Mine
<1>11. Own(s)' /\ (txn[s] = "committed" => txn'[s] = "committed")
  BY <1>2 DEF Own
<1>12. ASSUME NEW r \in Of(s), Past(r) PROVE r # Now(s) /\ Past(r)'
  BY <1>1, <1>2, <1>12, Pairs DEF Past, TypeOK
<1>13. Settled(s)
  BY <1>12 DEF Settled, Same, Live
<1>14. Known(Now(s))' \/ found'[s] # Now(s) \/ found'[s] = found[s]
  BY <1>1 DEF Known, Past
<1>15. Learned
  BY <1>1, <1>14 DEF Learned, Seen, Apart
<1>16. Indexed(s)
  <2>1. \A p \in Of(s) : p # Now(s) /\ status'[p] # "none" /\ KeyOf[s] # NoKey => index'[KeyOf[s]] = p
    BY <1>0, <1>1, <1>2, Pairs DEF IndexInv, Same, Live
  <2>2. pc[s] # "insert" /\ KeyOf[s] # NoKey => index'[KeyOf[s]] = Now(s)
    BY <1>0, <1>1, <1>2, <1>4 DEF IndexInv, Live
  <2> QED BY <2>1, <2>2 DEF Indexed
<1> QED BY <1>10, <1>11, <1>13, <1>15, <1>16, StepKeeps

(* A session that breaks or is closed.                                     *)
LEMMA DropKeeps ==
  ASSUME IInv, NEW s \in Sessions, TypeOK', Apart(s), PlaceInv(s)', Undo(s),
         ~ Live(s)', txn[s] # "committed",
         pc'[s] \in After, found'[s] \notin Payments,
         UNCHANGED <<round, result>>
  PROVE  IInv'
<1>0. Mine(s) /\ TypeOK
  BY DEF IInv
<1>1. \A p \in Of(s) : Untouched(p)'
  BY Pairs DEF Undo, Untouched
<1>2. DeadInv(s)' /\ FutureInv(s)' /\ SingleInv(s)'
  BY <1>0, <1>1 DEF Mine, DeadInv, FutureInv, SingleInv
<1>3. StageInv(s)' /\ WholeInv(s)' /\ HitInv(s)' /\ ReportInv(s)' /\ Own(s)'
  BY DEF StageInv, WholeInv, HitInv, ReportInv, Own, Live
<1>4. Mine(s)'
  BY <1>2, <1>3 DEF Mine
<1>5. Settled(s)
  BY <1>3, Pairs DEF Settled, Past
<1>6. Learned
  BY DEF Learned, Seen, Apart
<1>7. Indexed(s)
  BY <1>3 DEF Indexed, Undo
<1> QED BY <1>3, <1>4, <1>5, <1>6, <1>7, StepKeeps
-----------------------------------------------------------------------------
Quiet(s) == \/ Check(s) \/ AcquireKey(s) \/ Conflict(s) \/ Recheck(s) \/ Busy(s)
            \/ Unlock(s) \/ UnlockError(s) \/ StoreResult(s) \/ ReleaseKey(s) \/ Refuse(s)

LEMMA QuietSteps ==
  ASSUME IInv, NEW s \in Sessions, Quiet(s), UNCHANGED faults
  PROVE  IInv'
<1>0. Mine(s) /\ TypeOK /\ TypeOK'
  BY StepKeepsType DEF IInv, Quiet, Step, Faulty
<1>1. /\ UNCHANGED <<work, postgres, hook, round, report>>
      /\ \A t \in Sessions \ {s} : pc'[t] = pc[t] /\ found'[t] = found[t]
  BY <1>0 DEF Quiet, Check, AcquireKey, Conflict, Recheck, Lookup, Busy, Unlock, UnlockError,
              StoreResult, ReleaseKey, Refuse, Move, Leave, Goto, Find, TypeOK
<1>2. Apart(s)
  BY <1>1 DEF Apart, Same, work, postgres, hook
<1>3. Done(s) \in After \ {"commit", "end"} /\ (Bypass(s) => Done(s) = "next")
  BY DEF Done, Bypass, After
<1>4. Raised \notin Payments /\ Failure \notin Payments /\ NoResult \notin Payments
  BY DEF Payments
<1>5. ASSUME pc[s] # "end", pc'[s] # "end", pc[s] \in After => pc'[s] \in After,
             pc[s] \in Early => pc'[s] \in Early \union After,
             Bypass(s) =>
               pc'[s] \notin {"check", "acquire", "recheck", "store", "release"}
      PROVE  PlaceInv(s)'
  BY <1>0, <1>1, <1>5 DEF Mine, PlaceInv, postgres
<1>6. /\ pc[s] \in {"check", "acquire", "recheck", "store", "release"} => KeyOf[s] \in Keys
      /\ pc[s] \in {"check", "acquire", "recheck", "store", "release"} => ~ Bypass(s)
  BY <1>0 DEF Mine, PlaceInv, Bypass
<1>7. CASE Check(s) \/ Recheck(s)
  <2>1. /\ \/ pc[s] = "check" /\ pc'[s] \in {"next", "acquire"}
           \/ pc[s] = "recheck" /\ pc'[s] \in {"release", "insert"}
        /\ found'[s] = found[s] \/ found'[s] = result[KeyOf[s]]
        /\ result' = result
    BY <1>0, <1>7 DEF Check, Recheck, Lookup, Move, Leave, Goto, Find, TypeOK, redis
  <2>2. PlaceInv(s)'
    BY <1>5, <1>6, <2>1 DEF Early, After
  <2> QED BY <1>0, <1>1, <1>2, <1>6, <2>1, <2>2, QuietKeeps DEF Early, After
<1>8. CASE AcquireKey(s) \/ Conflict(s)
  <2>1. /\ pc[s] = "acquire" /\ result' = result
        /\ \/ pc'[s] = "recheck" /\ found'[s] = found[s]
           \/ pc'[s] = "next" /\ found'[s] = Raised
    BY <1>0, <1>8 DEF AcquireKey, Conflict, Move, Leave, Goto, Find, TypeOK
  <2>2. PlaceInv(s)'
    BY <1>5, <1>6, <2>1 DEF Early, After
  <2> QED BY <1>0, <1>1, <1>2, <1>4, <2>1, <2>2, QuietKeeps DEF Early, After
<1>9. CASE Busy(s) \/ UnlockError(s) \/ Refuse(s)
  <2>1. /\ pc[s] \in {"insert", "judge", "unlock"} /\ result' = result
        /\ pc'[s] = Done(s) /\ found'[s] = Raised
    BY <1>0, <1>9 DEF Busy, UnlockError, Refuse, Leave, Goto, Find, TypeOK, redis
  <2>2. PlaceInv(s)'
    BY <1>3, <1>5, <2>1 DEF Early, After
  <2> QED BY <1>0, <1>1, <1>2, <1>3, <1>4, <2>1, <2>2, QuietKeeps DEF Early, After
<1>10. CASE Unlock(s) \/ StoreResult(s) \/ ReleaseKey(s)
  <2>1. /\ \/ pc[s] = "unlock" /\ pc'[s] = Done(s)
           \/ pc[s] = "store" /\ pc'[s] = "release"
           \/ pc[s] = "release" /\ pc'[s] = "next"
        /\ found'[s] = found[s]
        /\ \A k \in Keys : result'[k] \in {result[k], found[s], Failure}
    BY <1>0, <1>10 DEF Unlock, StoreResult, ReleaseKey, Move, Goto, TypeOK
  <2>2. PlaceInv(s)'
    BY <1>3, <1>5, <1>6, <2>1 DEF Early, After
  <2> QED BY <1>0, <1>1, <1>2, <1>3, <1>4, <2>1, <2>2, QuietKeeps DEF Early, After
<1> QED BY <1>7, <1>8, <1>9, <1>10 DEF Quiet

Work(s) == \/ Insert(s) \/ Flag(s) \/ AnnounceFlagged(s) \/ Lock(s) \/ AnnounceProcessing(s)
           \/ Post(s) \/ Decline(s) \/ Complete(s)

LEMMA WorkSteps ==
  ASSUME IInv, NEW s \in Sessions, Work(s), UNCHANGED faults
  PROVE  IInv'
<1>0. Mine(s) /\ TypeOK /\ TypeOK'
  BY StepKeepsType DEF IInv, Work, Step, Faulty
<1>1. /\ pc[s] \in {"insert", "judge", "flagged", "processing", "posting", "posted"}
      /\ pc[s] = "insert" => txn[s] = "open"
      /\ UNCHANGED <<round, report, result, endpoint, txn>>
      /\ \A t \in Sessions \ {s} :
            pc'[t] = pc[t] /\ found'[t] = found[t] /\ (t \in picked' <=> t \in picked)
      /\ \A p \in Payments : p # Now(s) => Same(p)
  BY <1>0 DEF Work, Insert, Flag, AnnounceFlagged, Lock, AnnounceProcessing, Post, Decline,
              Complete, SetStatus, Record, Pick, Move, Leave, Goto, Find, TypeOK, Same,
              postgres, redis, hook
<1>2. Apart(s) /\ \A p \in Of(s) : p # Now(s) => Same(p)
  BY <1>0, <1>1, NowFacts, Pairs DEF Apart
<1>3. Done(s) \in {"next", "store"} /\ (Bypass(s) => Done(s) = "next")
  BY DEF Done, Bypass
<1>4. /\ Raised \notin Payments
      /\ Now(s)' = Now(s) /\ Now(s) \in Payments /\ txn[s] = "open"
  BY <1>0, <1>1, NowFacts DEF Mine, PlaceInv, Early, After, TypeOK, Payments, Now
<1>5. ASSUME pc'[s] \notin {"end", "check", "acquire", "recheck", "release"},
             Bypass(s) => pc'[s] # "store"
      PROVE  PlaceInv(s)'
  BY <1>1, <1>4, <1>5 DEF PlaceInv
<1>6. CASE Insert(s)
  <2>1. /\ pc[s] = "insert" /\ pc'[s] = "judge" /\ found' = found
        /\ status'[Now(s)] = "INITIATED" /\ records' = records /\ posted' = posted
        /\ \A k \in Keys : k = KeyOf[s] => index[k] = Free
        /\ index' = [k \in Keys |-> IF k = KeyOf[s] THEN Now(s) ELSE index[k]]
    BY <1>0, <1>4, <1>6 DEF Insert, SetStatus, Move, Goto, TypeOK
  <2>2. StageInv(s)'
    BY <1>0, <1>1, <1>4, <2>1 DEF Mine, StageInv, Row, Untouched
  <2>3. KeyOf[s] # NoKey => KeyOf[s] \in Keys
    OBVIOUS
  <2> QED BY <1>0, <1>1, <1>2, <1>4, <1>5, <2>1, <2>2, <2>3, WorkKeeps DEF After
<1>7. CASE Flag(s) \/ Lock(s)
  <2>1. /\ pc[s] = "judge" /\ found' = found /\ index' = index
        /\ \/ pc'[s] = "flagged" /\ status'[Now(s)] = "FLAGGED"
           \/ pc'[s] = "processing" /\ status'[Now(s)] = "PROCESSING"
        /\ records' = records /\ posted' = posted
        /\ endpoint # "gone" => s \in picked'
    BY <1>0, <1>4, <1>7 DEF Flag, Lock, SetStatus, Pick, Move, Goto, TypeOK, postgres
  <2>2. StageInv(s)'
    BY <1>0, <1>1, <1>4, <2>1 DEF Mine, StageInv, Row
  <2> QED BY <1>0, <1>1, <1>2, <1>4, <1>5, <2>1, <2>2, WorkKeeps DEF After
<1>8. CASE AnnounceFlagged(s)
  <2>1. /\ pc[s] = "flagged" /\ pc'[s] = Done(s) /\ found'[s] = Raised /\ index' = index
        /\ status' = status /\ posted' = posted
        /\ s \in picked => endpoint # "gone"
        /\ records'[Now(s)] = IF s \in picked THEN records[Now(s)] \union {"FLAGGED"}
                                              ELSE records[Now(s)]
    BY <1>0, <1>4, <1>8 DEF AnnounceFlagged, Record, Leave, Goto, Find, TypeOK, postgres
  <2>2. /\ Row(s, "FLAGGED", FALSE, {})
        /\ endpoint # "gone" => s \in picked
    BY <1>0, <1>4, <2>1 DEF Mine, StageInv
  <2>3. Final(Now(s))'
    BY <1>1, <1>4, <2>1, <2>2 DEF Final, Row, Path
  <2>4. StageInv(s)'
    BY <1>3, <2>1 DEF StageInv, After
  <2>5. PlaceInv(s)'
    BY <1>3, <1>5, <2>1
  <2>6. pc'[s] \notin {"commit", "end"}
    BY <1>3, <2>1
  <2> QED BY <1>0, <1>1, <1>2, <1>4, <2>1, <2>3, <2>4, <2>5, <2>6, WorkKeeps
<1>9. CASE AnnounceProcessing(s)
  <2>1. /\ pc[s] = "processing" /\ pc'[s] = "posting" /\ found' = found /\ index' = index
        /\ status' = status /\ posted' = posted /\ picked' = picked
        /\ s \in picked => endpoint # "gone"
        /\ records'[Now(s)] = IF s \in picked THEN records[Now(s)] \union {"PROCESSING"}
                                              ELSE records[Now(s)]
    BY <1>0, <1>4, <1>9 DEF AnnounceProcessing, Record, Move, Goto, TypeOK, postgres, hook
  <2>2. /\ Row(s, "PROCESSING", FALSE, {})
        /\ endpoint # "gone" => s \in picked
    BY <1>0, <1>4, <2>1 DEF Mine, StageInv
  <2>3. StageInv(s)'
    BY <1>1, <1>4, <2>1, <2>2 DEF StageInv, Row
  <2> QED BY <1>0, <1>1, <1>2, <1>4, <1>5, <2>1, <2>3, WorkKeeps DEF After
<1>10. CASE Post(s)
  <2>1. /\ pc[s] = "posting" /\ pc'[s] = "posted" /\ found' = found /\ index' = index
        /\ status' = status /\ records' = records /\ picked' = picked
        /\ Now(s) \in posted'
    BY <1>0, <1>10 DEF Post, Move, Goto, TypeOK, hook
  <2>2. StageInv(s)'
    BY <1>0, <1>1, <1>4, <2>1 DEF Mine, StageInv, Row
  <2> QED BY <1>0, <1>1, <1>2, <1>4, <1>5, <2>1, <2>2, WorkKeeps DEF After
<1>11. CASE Decline(s) \/ Complete(s)
  <2>1. /\ \/ /\ pc[s] = "posting" /\ found'[s] = Raised
              /\ status'[Now(s)] = "FAILED"
              /\ records'[Now(s)] = IF s \in picked THEN records[Now(s)] \union {"FAILED"}
                                                    ELSE records[Now(s)]
           \/ /\ pc[s] = "posted" /\ found'[s] = Now(s)
              /\ status'[Now(s)] = "COMPLETED"
              /\ records'[Now(s)] = IF s \in picked THEN records[Now(s)] \union {"COMPLETED"}
                                                    ELSE records[Now(s)]
        /\ pc'[s] = "unlock" /\ index' = index /\ posted' = posted
    BY <1>0, <1>4, <1>11 DEF Decline, Complete, SetStatus, Record, Leave, Goto, Find, TypeOK,
                             postgres
  <2>2. /\ Row(s, "PROCESSING", pc[s] = "posted",
               IF endpoint = "gone" THEN {} ELSE {"PROCESSING"})
        /\ endpoint # "gone" <=> s \in picked
    BY <1>0, <1>4, <2>1 DEF Mine, StageInv
  <2>3. Final(Now(s))'
    BY <1>1, <1>4, <2>1, <2>2 DEF Final, Row, Path
  <2>4. StageInv(s)'
    BY <2>1 DEF StageInv
  <2> QED BY <1>0, <1>1, <1>2, <1>4, <1>5, <2>1, <2>3, <2>4, WorkKeeps DEF After
<1> QED BY <1>6, <1>7, <1>8, <1>9, <1>10, <1>11 DEF Work

Drop(s) == \/ InsertDuplicate(s) \/ Orphaned(s) \/ StatementError(s) \/ Rollback(s)
           \/ Crash(s)

LEMMA DropSteps ==
  ASSUME IInv, NEW s \in Sessions, Drop(s), UNCHANGED faults
  PROVE  IInv'
<1>0. Mine(s) /\ TypeOK /\ TypeOK'
  BY StepKeepsType DEF IInv, Drop, Step, Faulty
<1>1. /\ Raised \notin Payments
      /\ Done(s) \in After \ {"commit", "end"} /\ (Bypass(s) => Done(s) = "next")
  BY DEF Payments, Done, Bypass, After
<1>2. /\ Undo(s) /\ pc[s] # "end" /\ found'[s] = Raised
      /\ \/ txn'[s] \in {"broken", "aborted"} /\ pc'[s] \in {Done(s), "unlock"}
         \/ txn'[s] = "rolledback" /\ pc'[s] = "end"
      /\ UNCHANGED <<round, result, endpoint>>
      /\ \A t \in Sessions \ {s} :
            /\ pc'[t] = pc[t] /\ found'[t] = found[t] /\ txn'[t] = txn[t]
            /\ t \in picked' <=> t \in picked
            /\ \A p \in Of(t) : report'[p] = report[p]
  BY <1>0, Pairs DEF Drop, InsertDuplicate, Orphaned, StatementError, Rollback, Crash,
                     Close, NoAnswer, Break, Leave, Goto, Find, TypeOK, redis, hook
<1>3. Apart(s)
  BY <1>2, Pairs DEF Apart, Same, Undo
<1>4. PlaceInv(s)' /\ txn[s] # "committed" /\ pc'[s] \in After /\ ~ Live(s)'
  BY <1>0, <1>1, <1>2 DEF Mine, PlaceInv, Live, After
<1> QED BY <1>0, <1>1, <1>2, <1>3, <1>4, DropKeeps

(* The end of a payment in its handler.                                    *)
LEMMA LogFacts ==
  ASSUME IInv, NEW s \in Sessions, pc[s] = "next", Log(s)
  PROVE  /\ \A p \in Payments : p # Now(s) => report'[p] = report[p]
         /\ Live(s) /\ report'[Now(s)] = "processed" => status[Now(s)] = "COMPLETED"
<1>1. Now(s) \in Payments /\ Now(s)[1] = s
  BY NowFacts DEF IInv
<1>2. report'[Now(s)] = "processed" => found[s] = Now(s)
  BY <1>1 DEF Log, ReportOf, IInv, TypeOK
<1>3. found[s] = Now(s) => Known(Now(s))
  BY <1>1 DEF IInv, KnownInv, Seen
<1> QED BY <1>1, <1>2, <1>3 DEF Log, IInv, TypeOK, Known

LEMMA HandlerSteps ==
  ASSUME IInv, NEW s \in Sessions, Return(s) \/ Swallow(s), UNCHANGED faults
  PROVE  IInv'
<1>0. Mine(s) /\ TypeOK /\ TypeOK' /\ IndexInv
  BY StepKeepsType DEF IInv, Step, Faulty
<1>1. /\ pc[s] = "next" /\ Log(s)
      /\ UNCHANGED <<work, postgres, redis, hook>>
      /\ \A t \in Sessions \ {s} :
            pc'[t] = pc[t] /\ found'[t] = found[t] /\ round'[t] = round[t]
  BY <1>0 DEF Return, Swallow, Continue, Move, Goto, Find, TypeOK
<1>2. /\ \A p \in Payments : p # Now(s) => report'[p] = report[p]
      /\ Live(s) /\ report'[Now(s)] = "processed" => status[Now(s)] = "COMPLETED"
  BY <1>1, LogFacts
<1>3. /\ Now(s) \in Of(s) /\ Of(s) \subseteq Payments /\ \A p \in Of(s) : p[1] = s
      /\ txn'[s] = txn[s] /\ txn[s] \in {"open", "broken", "aborted"}
  BY <1>0, <1>1, NowFacts, Pairs DEF Mine, PlaceInv, TypeOK, postgres
<1>4. Apart(s)
  <2>1. \A t \in Sessions \ {s} : \A p \in Of(t) : p \in Payments /\ p # Now(s)
    BY <1>0, NowFacts, Pairs
  <2> QED BY <1>1, <1>2, <2>1 DEF Apart, Same, work, postgres, hook
<1>5. \A p \in Payments : (Untouched(p) <=> Untouched(p)') /\ (Final(p) <=> Final(p)')
  BY <1>1 DEF Untouched, Final, Path, work, hook
<1>6. DeadInv(s)'
  BY <1>0, <1>1, <1>3, <1>5 DEF Mine, DeadInv, Live
<1>7. Live(s) => \A p \in Of(s) : Final(p)
  BY <1>0, <1>1 DEF Mine, WholeInv, After
<1>8. ReportInv(s)'
  BY <1>0, <1>1, <1>2, <1>3 DEF Mine, ReportInv, Live, work
<1>9. Indexed(s)
  BY <1>0, <1>1, <1>3, Pairs DEF Indexed, IndexInv, Live, work, postgres
<1>10. txn[s] = "committed" => txn'[s] = "committed"
  BY <1>3
<1>11. CASE /\ round'[s] = round[s] /\ found'[s] = found[s]
            /\ pc'[s] \in {"rollback", "commit"}
            /\ (pc'[s] = "commit" => ModeOf[s] = "sequence" \/ (Visible(s) /\ txn[s] = "open"))
  <2>1. Now(s)' = Now(s)
    BY <1>11 DEF Now
  <2>2. PlaceInv(s)' /\ SingleInv(s)' /\ StageInv(s)'
    BY <1>0, <1>1, <1>3, <1>11 DEF Mine, PlaceInv, SingleInv, StageInv, After
  <2>3. FutureInv(s)' /\ WholeInv(s)'
    BY <1>0, <1>3, <1>5, <1>7, <1>11 DEF Mine, FutureInv, WholeInv, Live
  <2>4. HitInv(s)'
    BY <1>0, <1>1, <1>3, <1>11, <2>1 DEF Mine, HitInv, Live, After, work
  <2>5. Own(s)'
    BY <1>1, <1>3, <1>11, <2>1, Pairs DEF Own, Visible, Committed, postgres
  <2>6. Settled(s) /\ Learned
    BY <1>1, <1>3, <1>4, <1>11, Pairs
       DEF Settled, Past, Live, Learned, Seen, Apart, After, work, redis
  <2> QED BY <1>0, <1>4, <1>6, <1>8, <1>9, <1>10, <2>2, <2>3, <2>4, <2>5, <2>6, StepKeeps DEF Mine
<1>12. CASE /\ ModeOf[s] = "sequence" /\ round'[s] = round[s] + 1
            /\ IF txn[s] = "broken" THEN pc'[s] = "next" /\ found'[s] = Raised
                                    ELSE pc'[s] = Start(s) /\ found'[s] = NoResult
  <2>0. /\ Raised \notin Payments /\ NoResult \notin Payments /\ Start(s) \in Early
        /\ Bypass(s) => Start(s) = "insert"
    BY <1>12 DEF Payments, Start, Early
  <2>1. Now(s)' \in Of(s) /\ Now(s)'[2] = round[s] + 1 /\ round[s] \in 1..Rounds
    BY <1>0, <1>12, NowFacts, Pairs DEF Now, TypeOK, Of
  <2>2. Untouched(Now(s)')
    BY <1>0, <2>1 DEF Mine, FutureInv
  <2>3. PlaceInv(s)' /\ SingleInv(s)'
    BY <1>3, <1>12, <2>0 DEF PlaceInv, SingleInv, Early, After
  <2>4. StageInv(s)' /\ HitInv(s)' /\ Own(s)'
    <3>1. txn'[s] = "open" => pc'[s] \in Early
      BY <1>3, <1>12, <2>0
    <3>2. Untouched(Now(s))'
      BY <1>1, <2>2 DEF Untouched, work
    <3> QED BY <1>3, <1>12, <2>0, <3>1, <3>2 DEF StageInv, HitInv, Own, Live, Early, After
  <2>5. FutureInv(s)' /\ WholeInv(s)'
    BY <1>0, <1>3, <1>5, <1>7, <1>12, <2>1, Pairs DEF Mine, FutureInv, WholeInv, Live
  <2>6. Settled(s) /\ Learned
    BY <1>1, <1>3, <1>4, <1>12, <2>0, <2>1, Pairs
       DEF Settled, Past, Live, Learned, Seen, Apart, After, work, redis
  <2> QED BY <1>0, <1>4, <1>6, <1>8, <1>9, <1>10, <2>3, <2>4, <2>5, <2>6, StepKeeps DEF Mine
<1> QED
  BY <1>0, <1>3, <1>11, <1>12 DEF Return, Swallow, Continue, Move, Goto, Find, TypeOK

LEMMA CommitStep ==
  ASSUME IInv, NEW s \in Sessions, Commit(s) \/ CommitReplyLost(s), UNCHANGED faults
  PROVE  IInv'
<1>0. Mine(s) /\ Own(s) /\ TypeOK /\ TypeOK' /\ IndexInv
  BY StepKeepsType DEF IInv, Step, Faulty
<1>1. /\ pc[s] = "commit" /\ txn[s] = "open" /\ pc'[s] = "end" /\ txn'[s] = "committed"
      /\ UNCHANGED <<work, round, found, index, redis, hook>>
      /\ \A t \in Sessions \ {s} : pc'[t] = pc[t] /\ txn'[t] = txn[t]
      /\ \A p \in Payments : report'[p] = report[p] \/ (p \in Of(s) /\ report'[p] = "none")
  BY <1>0 DEF Commit, CommitReplyLost, NoAnswer, Move, Goto, TypeOK
<1>2. Now(s)' = Now(s) /\ Apart(s)
  BY <1>1, Pairs DEF Now, Apart, Same, work, hook
<1>3. \A p \in Payments : (Untouched(p) <=> Untouched(p)') /\ (Final(p) <=> Final(p)')
  BY <1>1 DEF Untouched, Final, Path, work, hook
<1>4. PlaceInv(s)' /\ DeadInv(s)' /\ SingleInv(s)' /\ StageInv(s)'
  BY <1>0, <1>1 DEF Mine, PlaceInv, DeadInv, SingleInv, StageInv, Live, Early, After
<1>5. FutureInv(s)' /\ WholeInv(s)'
  BY <1>0, <1>1, <1>3, Pairs DEF Mine, FutureInv, WholeInv, Live, After
<1>6. HitInv(s)' /\ ReportInv(s)'
  BY <1>0, <1>1, <1>2, Pairs DEF Mine, HitInv, ReportInv, Live, After, work
<1>7. Own(s)'
  <2>1. \A r \in Payments : Committed(r) => Committed(r)'
    BY <1>1, <1>2, Pairs DEF Committed, Apart
  <2> QED BY <1>0, <1>1, <1>2, <2>1 DEF Own
<1>8. Settled(s) /\ Learned
  BY <1>1, <1>2, Pairs DEF Settled, Past, Live, Learned, Seen, After, work, redis
<1>9. Indexed(s)
  BY <1>0, <1>1, Pairs DEF Indexed, IndexInv, Live, work
<1> QED BY <1>0, <1>1, <1>2, <1>4, <1>5, <1>6, <1>7, <1>8, <1>9, StepKeeps DEF Mine

(* The session whose COMMIT saves nothing has nothing to save.             *)
LEMMA CommitNothingStep ==
  ASSUME IInv, NEW s \in Sessions, CommitNothing(s), UNCHANGED faults
  PROVE  IInv'
<1>0. Mine(s) /\ TypeOK /\ TypeOK'
  BY StepKeepsType DEF IInv, Step
<1>1. /\ pc[s] = "commit" /\ txn[s] = "aborted" /\ pc'[s] = "end" /\ txn'[s] = "lost"
      /\ UNCHANGED <<work, round, found, index, redis, hook, report>>
      /\ \A t \in Sessions \ {s} : pc'[t] = pc[t] /\ txn'[t] = txn[t]
  BY <1>0 DEF CommitNothing, Move, Goto, TypeOK
<1>2. Apart(s) /\ ~ Live(s) /\ ~ Live(s)'
  BY <1>1 DEF Apart, Same, Live, work, hook
<1>3. PlaceInv(s)' /\ SingleInv(s)' /\ StageInv(s)' /\ WholeInv(s)' /\ HitInv(s)'
      /\ ReportInv(s)' /\ Own(s)'
  BY <1>0, <1>1, <1>2 DEF Mine, PlaceInv, SingleInv, StageInv, WholeInv, HitInv, ReportInv,
                          Own, After
<1>4. DeadInv(s)' /\ FutureInv(s)'
  BY <1>0, <1>1, <1>2 DEF Mine, DeadInv, FutureInv, Untouched, work
<1>5. Settled(s) /\ Learned /\ Indexed(s)
  BY <1>1, <1>2, Pairs DEF Settled, Past, Learned, Seen, Indexed, After, work, redis
<1> QED BY <1>0, <1>1, <1>2, <1>3, <1>4, <1>5, StepKeeps DEF Mine
-----------------------------------------------------------------------------
(* What belongs to no session: Redis keys expire, the endpoint is deleted. *)
LEMMA ExpireStep ==
  ASSUME IInv, Expire, UNCHANGED faults
  PROVE  IInv'
<1>0. TypeOK
  BY DEF IInv
<1>1. /\ UNCHANGED <<place, work, postgres, hook, report, faults>>
      /\ \A k \in Keys : result'[k] \in {result[k], NoResult}
  BY <1>0 DEF Expire, TypeOK
<1>2. TypeOK'
  BY <1>0 DEF Expire, TypeOK, Results, place, work, postgres, hook
<1>3. \A p \in Payments : Known(p)' <=> Known(p)
  BY <1>1 DEF Known, Past, Live, place, work, postgres
<1>4. KnownInv'
  <2>1. NoResult \notin Payments
    BY DEF Payments
  <2> QED BY <1>1, <1>3, <2>1 DEF IInv, KnownInv, Seen, place
<1>5. IndexInv'
  BY <1>1 DEF IInv, IndexInv, Live, work, postgres
<1>6. ASSUME NEW s \in Sessions PROVE Mine(s)' /\ Own(s)'
  <2>1. Mine(s) /\ Own(s) /\ Now(s)' = Now(s)
    BY <1>1 DEF IInv, Now, place
  <2>2. PlaceInv(s)' /\ SingleInv(s)' /\ HitInv(s)' /\ ReportInv(s)' /\ Own(s)'
    BY <1>1, <2>1 DEF Mine, PlaceInv, SingleInv, HitInv, ReportInv, Own, Live, Committed,
                      place, work, postgres
  <2>3. DeadInv(s)' /\ FutureInv(s)'
    BY <1>1, <2>1 DEF Mine, DeadInv, FutureInv, Live, Untouched, place, work, postgres
  <2>4. StageInv(s)'
    BY <1>1, <2>1 DEF Mine, StageInv, Row, Untouched, place, work, postgres, hook
  <2>5. WholeInv(s)'
    BY <1>1, <2>1 DEF Mine, WholeInv, Live, Final, Path, place, work, postgres, hook
  <2> QED BY <2>2, <2>3, <2>4, <2>5 DEF Mine
<1> QED BY <1>2, <1>4, <1>5, <1>6 DEF IInv

(* No session that is about to post holds the endpoint when it goes.       *)
LEMMA DeleteSteps ==
  ASSUME IInv, DeleteEndpoint \/ FinishDelete, UNCHANGED faults
  PROVE  IInv'
<1>0. TypeOK
  BY DEF IInv
<1>1. /\ UNCHANGED <<place, status, posted, postgres, redis, picked, report, faults>>
      /\ \/ records' = records /\ endpoint # "gone" /\ endpoint' # "gone"
         \/ /\ records' = [p \in Payments |-> {}] /\ endpoint # "gone" /\ endpoint' = "gone"
            /\ \A s \in Sessions : ~ Holding(s)
  BY DEF DeleteEndpoint, FinishDelete, work
<1>2. TypeOK'
  BY <1>0 DEF DeleteEndpoint, FinishDelete, TypeOK, place, work, postgres, redis
<1>3. \A p \in Payments : Known(p)' <=> Known(p)
  BY <1>1 DEF Known, Past, Live, place, postgres
<1>4. KnownInv' /\ IndexInv'
  BY <1>1, <1>3 DEF IInv, KnownInv, Seen, IndexInv, Live, place, postgres, redis
<1>5. ASSUME NEW s \in Sessions PROVE Mine(s)' /\ Own(s)'
  <2>1. Mine(s) /\ Own(s) /\ Now(s)' = Now(s) /\ Now(s) \in Of(s) /\ Of(s) \subseteq Payments
    BY <1>0, <1>1, NowFacts, Pairs DEF IInv, Now, place
  <2>2. PlaceInv(s)' /\ SingleInv(s)' /\ HitInv(s)' /\ ReportInv(s)' /\ Own(s)'
    BY <1>1, <2>1 DEF Mine, PlaceInv, SingleInv, HitInv, ReportInv, Own, Live, Committed,
                      place, postgres
  <2>3. DeadInv(s)' /\ FutureInv(s)'
    BY <1>1, <2>1 DEF Mine, DeadInv, FutureInv, Live, Untouched, place, postgres
  <2>4. StageInv(s)'
    BY <1>1, <2>1 DEF Mine, StageInv, Row, Untouched, Holding, place, postgres
  <2>5. WholeInv(s)'
    BY <1>1, <2>1 DEF Mine, WholeInv, Live, Final, Path, place, postgres
  <2> QED BY <2>2, <2>3, <2>4, <2>5 DEF Mine
<1> QED BY <1>2, <1>4, <1>5 DEF IInv
-----------------------------------------------------------------------------
LEMMA InductiveIInv == IInv /\ [Next]_vars => IInv'
<1> SUFFICES ASSUME IInv, [Next]_vars PROVE IInv'
  OBVIOUS
<1>1. CASE UNCHANGED vars
  <2>1. TypeOK' /\ KnownInv' /\ IndexInv'
    BY <1>1 DEF IInv, TypeOK, KnownInv, Seen, Known, Past, Live, IndexInv, vars, place, work,
                postgres, redis, hook
  <2>2. ASSUME NEW s \in Sessions PROVE Mine(s)' /\ Own(s)'
    BY <1>1 DEF IInv, Mine, PlaceInv, DeadInv, FutureInv, SingleInv, StageInv, WholeInv, HitInv,
                ReportInv, Own, Row, Untouched, Final, Path, Live, Now, Committed, vars, place,
                work, postgres, redis, hook
  <2> QED BY <2>1, <2>2 DEF IInv
<1>2. CASE Next
  <2>1. ASSUME NEW s \in Sessions, Step(s) \/ Faulty(s), UNCHANGED faults PROVE IInv'
    BY <2>1, QuietSteps, WorkSteps, DropSteps, HandlerSteps, CommitStep, CommitNothingStep
       DEF Step, Faulty, Quiet, Work, Drop
  <2> QED BY <1>2, <2>1, ExpireStep, DeleteSteps DEF Next
<1> QED BY <1>1, <1>2

LEMMA InvariantIInv == Spec => []IInv
  BY InitIInv, InductiveIInv, PTL DEF Spec

(* simulate.py:104-142: sessions, PostgreSQL and Redis keep their types;   *)
(* no round comes after fire_count, and what is stored is of a payment or  *)
(* an error.                                                               *)
THEOREM SessionTypeCorrect == Spec => []TypeOK
<1>1. IInv => TypeOK
  BY DEF IInv
<1> QED BY <1>1, InvariantIInv, PTL

(* database.py:47-52: what get_db commits is whole, whatever the handler   *)
(* has swallowed: row, postings and delivery records of a payment agree.   *)
THEOREM SessionCommittedIsWhole == Spec => []CommittedIsWhole
<1>1. IInv => CommittedIsWhole
  <2> SUFFICES ASSUME IInv, NEW p \in Payments, Committed(p) PROVE Final(p)
    BY DEF CommittedIsWhole, Final
  <2> QED BY Pairs DEF IInv, Mine, PlaceInv, WholeInv, Committed, Live, After
<1> QED BY <1>1, InvariantIInv, PTL

(* create_transaction and transfer, with get_db: a payment of its own      *)
(* commits a COMPLETED row or none.                                        *)
THEOREM SessionOnlySimulationsLeaveFailures == Spec => []OnlySimulationsLeaveFailures
<1>1. IInv => OnlySimulationsLeaveFailures
  <2> SUFFICES ASSUME IInv, NEW s \in Sessions, NEW p \in Of(s), txn[s] = "committed",
                      ModeOf[s] = "single"
               PROVE  status[p] \in {"none", "COMPLETED"}
    BY Pairs DEF OnlySimulationsLeaveFailures, Committed
  <2>1. Mine(s) /\ Own(s) /\ KnownInv /\ TypeOK /\ Live(s) /\ pc[s] \in After
    BY DEF IInv, Mine, PlaceInv, Live, After
  <2>2. PICK r \in Payments : found[s] = r
    BY <2>1 DEF Own
  <2>3. CASE p # Now(s)
    BY <2>1, <2>3, NowFacts, Pairs DEF Mine, FutureInv, SingleInv, Untouched
  <2>4. CASE p = Now(s)
    BY <2>1, <2>2, <2>4, NowFacts DEF Mine, HitInv, KnownInv, Seen, Known
  <2> QED BY <2>3, <2>4
<1> QED BY <1>1, InvariantIInv, PTL

(* create_transaction and test_idempotency: what is answered as a success  *)
(* is in the database, although the answer comes before the commit.        *)
THEOREM SessionReportsAreTrue == Spec => []ReportsAreTrue
<1>1. IInv => ReportsAreTrue
  <2> SUFFICES ASSUME IInv, NEW s \in Sessions, txn[s] = "committed"
               PROVE  /\ \A p \in Of(s) : report[p] = "processed" => status[p] = "COMPLETED"
                      /\ \A p, q \in Of(s) :
                            report[p] = "processed" /\ report[q] = "processed" => p = q
                      /\ ModeOf[s] = "single" => /\ found[s] \in Payments
                                                 /\ Committed(found[s])
                                                 /\ status[found[s]] = "COMPLETED"
    BY DEF ReportsAreTrue
  <2>1. Mine(s) /\ Own(s) /\ KnownInv /\ IndexInv /\ TypeOK /\ Live(s)
    BY DEF IInv, Live
  <2>2. \A p \in Of(s) : report[p] = "processed" => status[p] = "COMPLETED"
    BY <2>1 DEF Mine, ReportInv
  <2>3. ASSUME NEW p \in Of(s), NEW q \in Of(s), report[p] = "processed", report[q] = "processed"
        PROVE  p = q
    <3>1. CASE ModeOf[s] = "sequence"
      BY <2>1, <2>2, <2>3, <3>1, Pairs DEF IndexInv
    <3>2. CASE ModeOf[s] = "single"
      <4>1. \A x \in Of(s) : status[x] = "COMPLETED" => x = Now(s)
        BY <2>1, <3>2, NowFacts, Pairs DEF Mine, FutureInv, SingleInv, Untouched
      <4> QED BY <2>2, <2>3, <4>1
    <3> QED BY <3>1, <3>2
  <2>4. ASSUME ModeOf[s] = "single"
        PROVE  found[s] \in Payments /\ Committed(found[s]) /\ status[found[s]] = "COMPLETED"
    <3>1. PICK r \in Payments : found[s] = r /\ (r = Now(s) \/ Committed(r))
      BY <2>1, <2>4 DEF Own
    <3>2. Committed(r)
      BY <2>1, <3>1, NowFacts DEF Committed
    <3> QED BY <2>1, <3>1, <3>2 DEF KnownInv, Seen, Known, Committed, Live
  <2> QED BY <2>2, <2>3, <2>4
<1> QED BY <1>1, InvariantIInv, PTL
-----------------------------------------------------------------------------
(* A result is stored under the key of its payment, and found by requests  *)
(* with that key only, or by the one that made it.                         *)
OfKey(r, k) == r \in Payments => KeyOf[r[1]] = k

KeyInv == /\ \A k \in Keys : OfKey(result[k], k)
          /\ \A s \in Sessions : /\ OfKey(found[s], KeyOf[s])
                                 /\ Bypass(s) => found[s] \notin Payments \ Of(s)

(* A session finds nothing, or its own payment, or what is stored under    *)
(* its key; it stores what it has found.                                   *)
Finds(s) == /\ result' = result
            /\ \A t \in Sessions \ {s} : found'[t] = found[t]
            /\ \/ found'[s] \in {found[s], Now(s), NoResult, Raised}
               \/ ~ Bypass(s) /\ KeyOf[s] \in Keys /\ found'[s] = result[KeyOf[s]]

Stores(s) == /\ found' = found
             /\ KeyOf[s] \in Keys
             /\ \A k \in Keys : \/ result'[k] \in {result[k], Failure}
                                \/ k = KeyOf[s] /\ result'[k] = found[s]

LEMMA FindsOrStores ==
  ASSUME IInv, NEW s \in Sessions, Step(s) \/ Faulty(s)
  PROVE  Finds(s) \/ Stores(s)
<1>0. /\ found \in [Sessions -> Results \union {Raised}] /\ result \in [Keys -> Results]
      /\ pc[s] \in {"check", "recheck", "store"} => KeyOf[s] \in Keys /\ ~ Bypass(s)
  BY DEF IInv, TypeOK, Mine, PlaceInv, Bypass
<1>1. CASE StoreResult(s)
  BY <1>0, <1>1 DEF StoreResult, Move, Stores
<1>2. CASE Check(s) \/ Recheck(s)
  BY <1>0, <1>2 DEF Check, Recheck, Lookup, Leave, Move, Find, redis, Finds
<1>3. CASE \/ AcquireKey(s) \/ ReleaseKey(s) \/ Insert(s) \/ Flag(s) \/ Lock(s)
           \/ AnnounceProcessing(s) \/ Post(s) \/ Unlock(s) \/ Commit(s)
           \/ CommitReplyLost(s) \/ CommitNothing(s)
  BY <1>0, <1>3 DEF AcquireKey, ReleaseKey, Insert, Flag, Lock, AnnounceProcessing, Post,
                    Unlock, Commit, CommitReplyLost, CommitNothing, Move, redis, Finds
<1>4. CASE \/ Conflict(s) \/ InsertDuplicate(s) \/ AnnounceFlagged(s) \/ Busy(s) \/ Orphaned(s)
           \/ Decline(s) \/ Complete(s) \/ StatementError(s) \/ UnlockError(s) \/ Refuse(s)
  BY <1>0, <1>4 DEF Conflict, InsertDuplicate, AnnounceFlagged, Busy, Orphaned, Decline,
                    Complete, StatementError, UnlockError, Refuse, Leave, Find, redis, Finds
<1>5. CASE Return(s) \/ Swallow(s)
  BY <1>0, <1>5 DEF Return, Swallow, Continue, Move, Find, redis, Finds
<1>6. CASE Rollback(s) \/ Crash(s)
  BY <1>0, <1>6 DEF Rollback, Crash, Close, Leave, Find, redis, Finds
<1> QED BY <1>1, <1>2, <1>3, <1>4, <1>5, <1>6 DEF Step, Faulty

LEMMA InductiveKeyInv == IInv /\ KeyInv /\ [Next]_vars => KeyInv'
<1> SUFFICES ASSUME IInv, KeyInv, [Next]_vars PROVE KeyInv'
  OBVIOUS
<1>0. {NoResult, Raised, Failure} \intersect Payments = {}
  OBVIOUS
<1>1. ASSUME NEW s \in Sessions, Finds(s) PROVE KeyInv'
  <2>1. OfKey(found'[s], KeyOf[s])
    BY <1>0, <1>1, NowFacts DEF Finds, KeyInv, OfKey, IInv
  <2>2. Bypass(s) => found'[s] \notin Payments \ Of(s)
    BY <1>0, <1>1, NowFacts DEF Finds, KeyInv, IInv
  <2> QED BY <1>1, <2>1, <2>2 DEF Finds, KeyInv, OfKey, Of
<1>2. ASSUME NEW s \in Sessions, Stores(s) PROVE KeyInv'
  BY <1>0, <1>2 DEF Stores, KeyInv, OfKey, Of
<1>3. CASE Expire
  <2>1. found' = found /\ \A k \in Keys : result'[k] \in {result[k], NoResult}
    BY <1>3 DEF Expire, IInv, TypeOK, place
  <2> QED BY <1>0, <2>1 DEF KeyInv, OfKey, Of
<1>4. CASE DeleteEndpoint \/ FinishDelete \/ UNCHANGED vars
  BY <1>4 DEF DeleteEndpoint, FinishDelete, vars, place, redis, KeyInv, OfKey, Of
<1> QED BY <1>1, <1>2, <1>3, <1>4, FindsOrStores DEF Next

(* idempotency.py and transaction.py:151, through handlers that swallow    *)
(* exceptions, broken sessions, expiries and crashes: a key has one        *)
(* payment, and who is answered with a payment asked for it.               *)
THEOREM SessionOnePaymentPerKey == Spec => []OnePaymentPerKey
<1>1. Init => KeyInv
  BY DEF Init, KeyInv, OfKey
<1>2. IInv /\ KeyInv => OnePaymentPerKey
  <2> SUFFICES ASSUME IInv, KeyInv PROVE OnePaymentPerKey
    OBVIOUS
  <2>1. ASSUME NEW p \in Payments, Committed(p), status[p] # "none", KeyOf[p[1]] # NoKey
        PROVE  index[KeyOf[p[1]]] = p
    BY <2>1 DEF IInv, IndexInv, Live, Committed
  <2>2. ASSUME NEW s \in Sessions, ModeOf[s] = "single", txn[s] = "committed"
        PROVE  KeyOf[found[s][1]] = KeyOf[s] /\ (Bypass(s) => found[s][1] = s)
    <3>1. found[s] \in Payments
      BY <2>2 DEF IInv, Own
    <3> QED BY <3>1, Pairs DEF KeyInv, OfKey
  <2> QED BY <2>1, <2>2 DEF OnePaymentPerKey
<1> QED BY <1>1, <1>2, InvariantIInv, InductiveKeyInv, PTL DEF Spec
=============================================================================
