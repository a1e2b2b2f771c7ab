--------------------------- MODULE MerchantsProofs ---------------------------
(***************************************************************************)
(* Proofs about registrations and changes of merchants, for any number of  *)
(* them, any e-mails, columns and values.                                  *)
(***************************************************************************)
EXTENDS Merchants, TLAPS

(* Where a registration can be, and where a change.                        *)
PlaceInv ==
  /\ \A q \in Registrations :
        pc[q] \in {"look", "insert", "flushed", "raised", "refused", "done"}
  /\ \A q \in Changes :
        pc[q] \in {"login", "token", "loaded", "flushed", "raised", "refused", "done"}

(* A change works on a merchant that is there, and on a whole row.         *)
LoadInv == \A q \in Changes :
  /\ pc[q] \in {"token", "loaded", "flushed", "done"} =>
        who[q] \in Registrations /\ rows[who[q]] # Nobody
  /\ pc[q] \in {"loaded", "flushed"} => copy[q] \in Rows

(* Rows are of the registrations that are done, and those about to be are  *)
(* in the index.                                                           *)
RowInv == \A m \in Registrations : /\ rows[m] # Nobody <=> pc[m] = "done"
                                   /\ m \in inserting <=> pc[m] = "flushed"

Indexed(m) == m \in inserting \/ rows[m] # Nobody

IndexInv == \A p, q \in Registrations :
               Indexed(p) /\ Indexed(q) /\ EmailOf[p] = EmailOf[q] => p = q

(* `before' names requests that have been answered.                        *)
BeforeInv == \A q \in Requests : \A r \in before[q] : pc[r] = "done"

(* The value of column c of m is that of a request answered after q had    *)
(* loaded the row.                                                         *)
Explained(q, m, c) == \E r \in Requests \ before[q] :
   /\ pc[r] = "done" /\ Target(r) = m
   /\ c \in DOMAIN Sets[r]
   /\ rows[m][c] = Sets[r][c]

(* What a change has loaded is out of date only where another has written. *)
StaleInv == \A q \in Changes : pc[q] \in {"loaded", "flushed"} =>
   \A c \in Columns : rows[who[q]][c] = copy[q][c] \/ Explained(q, who[q], c)

IInv == /\ TypeOK /\ PlaceInv /\ LoadInv /\ RowInv /\ IndexInv /\ BeforeInv
        /\ StaleInv /\ NothingIsLost

USE RequestsAssumption, NobodyAssumption

LEMMA InitIInv == Init => IInv
<1> SUFFICES ASSUME Init PROVE IInv
  OBVIOUS
<1>1. TypeOK
  BY DEF Init, TypeOK, Places
<1>2. PlaceInv /\ LoadInv /\ BeforeInv
  BY DEF Init, PlaceInv, LoadInv, BeforeInv, Changes
<1>3. RowInv /\ IndexInv
  BY DEF Init, RowInv, IndexInv, Indexed
<1>4. StaleInv /\ NothingIsLost
  BY DEF Init, StaleInv, NothingIsLost, Changes
<1> QED BY <1>1, <1>2, <1>3, <1>4 DEF IInv

(* Whatever a request gives is a value of a column.                        *)
LEMMA GivenValues ==
  ASSUME NEW q \in Requests, NEW c \in DOMAIN Sets[q]
  PROVE  Sets[q][c] \in Values
<1>1. Sets[q][c] \in {Sets[q][d] : d \in DOMAIN Sets[q]}
  OBVIOUS
<1> QED BY <1>1 DEF Given, Values

LEMMA NewRowType == ASSUME NEW q \in Requests PROVE NewRow(q) \in Rows
<1>1. Default \in Values
  BY DEF Values
<1> QED BY <1>1, GivenValues DEF NewRow, Rows

LEMMA WrittenType ==
  ASSUME NEW q \in Requests, rows[who[q]] \in Rows
  PROVE  Written(q) \in Rows
<1>1. Changed(q) \subseteq DOMAIN Sets[q]
  BY DEF Changed
<1> QED BY <1>1, GivenValues DEF Written, Rows

(* What any step leaves alone: answered requests stay answered, and keep   *)
(* their merchants; only a commit writes rows or answers.                  *)
Quiet == /\ UNCHANGED rows
         /\ \A r \in Requests : pc'[r] = "done" <=> pc[r] = "done"
         /\ \A r \in Requests : pc[r] = "done" => who'[r] = who[r]

LEMMA QuietKeeps ==
  ASSUME IInv, Quiet, BeforeInv',
         \A r \in Requests : pc[r] = "done" => before'[r] = before[r],
         \A r \in Changes : pc'[r] \in {"loaded", "flushed"} =>
            \/ /\ pc[r] \in {"loaded", "flushed"}
               /\ who'[r] = who[r] /\ copy'[r] = copy[r] /\ before'[r] = before[r]
            \/ who'[r] = who[r] /\ copy'[r] = rows[who[r]]
  PROVE  StaleInv' /\ NothingIsLost'
<1>1. ASSUME NEW r \in Requests, pc'[r] = "done", NEW c \in DOMAIN Sets[r]
      PROVE  \E t \in Requests \ before'[r] :
                /\ pc'[t] = "done" /\ Target(t)' = Target(r)'
                /\ c \in DOMAIN Sets[t]
                /\ rows'[Target(r)'][c] = Sets[t][c]
  BY <1>1 DEF IInv, NothingIsLost, Quiet, Target
<1>2. ASSUME NEW r \in Changes, pc'[r] \in {"loaded", "flushed"}, NEW c \in Columns
      PROVE  rows'[who'[r]][c] = copy'[r][c] \/ Explained(r, who[r], c)'
  <2>1. CASE who'[r] = who[r] /\ copy'[r] = rows[who[r]]
    BY <2>1 DEF Quiet
  <2>2. CASE /\ pc[r] \in {"loaded", "flushed"}
             /\ who'[r] = who[r] /\ copy'[r] = copy[r] /\ before'[r] = before[r]
    <3>1. rows[who[r]][c] = copy[r][c] \/ Explained(r, who[r], c)
      BY <2>2 DEF IInv, StaleInv
    <3>2. CASE rows[who[r]][c] = copy[r][c]
      BY <2>2, <3>2 DEF Quiet
    <3>3. CASE Explained(r, who[r], c)
      <4>1. r \in Requests
        BY DEF Changes
      <4>2. PICK t \in Requests \ before[r] :
               /\ pc[t] = "done" /\ Target(t) = who[r]
               /\ c \in DOMAIN Sets[t]
               /\ rows[who[r]][c] = Sets[t][c]
        BY <3>3 DEF Explained
      <4>3. /\ t \in Requests \ before'[r]
            /\ pc'[t] = "done" /\ Target(t)' = who'[r]
            /\ rows'[who'[r]][c] = Sets[t][c]
        BY <2>2, <4>2 DEF Quiet, Target
      <4> QED BY <4>2, <4>3 DEF Explained
    <3> QED BY <3>1, <3>2, <3>3
  <2> QED BY <1>2, <2>1, <2>2
<1>3. NothingIsLost'
  BY <1>1 DEF NothingIsLost
<1>4. StaleInv'
  BY <1>2 DEF StaleInv
<1> QED BY <1>3, <1>4

(* A request goes on without a change of rows, or of what it has loaded.   *)
LEMMA MoveKeeps ==
  ASSUME IInv, NEW q \in Requests, NEW l \in {"insert", "flushed", "raised", "refused"},
         Goto(q, l), pc[q] # "done",
         UNCHANGED <<rows, session, faults>>,
         l = "insert" => q \in Registrations,
         l = "flushed" => q \in Registrations \/ pc[q] = "loaded",
         suspended' \subseteq Registrations,
         inserting' \subseteq Registrations,
         rowLock' \in [Registrations -> Changes \union {Nobody}],
         \A m \in Registrations : m \in inserting' <=> pc'[m] = "flushed",
         IndexInv'
  PROVE  IInv'
<1> USE DEF Goto, session
<1>1. TypeOK'
  BY DEF IInv, TypeOK, Places
<1>2. PlaceInv'
  BY DEF IInv, TypeOK, PlaceInv, Changes
<1>3. LoadInv'
  BY DEF IInv, TypeOK, LoadInv, Changes
<1>4. RowInv'
  BY DEF IInv, TypeOK, RowInv
<1>5. BeforeInv'
  BY DEF IInv, TypeOK, BeforeInv
<1>6. Quiet
  BY DEF IInv, TypeOK, Quiet
<1>7. StaleInv' /\ NothingIsLost'
  <2>1. \A r \in Changes : pc'[r] \in {"loaded", "flushed"} => pc[r] \in {"loaded", "flushed"}
    BY DEF IInv, TypeOK, Changes
  <2> QED BY <1>5, <1>6, <2>1, QuietKeeps
<1> QED BY <1>1, <1>2, <1>3, <1>4, <1>5, <1>7 DEF IInv

(* A move that leaves the index alone.                                     *)
LEMMA StayKeeps ==
  ASSUME IInv, NEW q \in Requests, NEW l \in {"insert", "raised", "refused"},
         Goto(q, l), pc[q] \notin {"done", "flushed"},
         UNCHANGED <<rows, suspended, inserting, rowLock, session, faults>>,
         l = "insert" => q \in Registrations
  PROVE  IInv'
<1>1. \A m \in Registrations : m \in inserting' <=> pc'[m] = "flushed"
  BY DEF IInv, TypeOK, RowInv, Goto
<1>2. IndexInv'
  BY DEF IInv, IndexInv, Indexed
<1> QED BY <1>1, <1>2, MoveKeeps DEF IInv, TypeOK

LEMMA LookKeeps ==
  ASSUME IInv, NEW q \in Requests, Look(q), UNCHANGED faults
  PROVE  IInv'
<1>1. q \in Registrations
  BY DEF IInv, PlaceInv, Look, Changes
<1>2. CASE Goto(q, "refused")
  BY <1>2, StayKeeps DEF Look
<1>3. CASE Goto(q, "insert")
  BY <1>1, <1>3, StayKeeps DEF Look
<1> QED BY <1>2, <1>3 DEF Look

LEMMA RefusalsKeep ==
  ASSUME IInv, NEW q \in Requests, UNCHANGED faults,
         InsertDuplicate(q) \/ LoginFails(q) \/ GetCurrentFails(q) \/ Refuse(q)
  PROVE  IInv'
  BY StayKeeps DEF InsertDuplicate, LoginFails, GetCurrentFails, Refuse

LEMMA InsertKeeps ==
  ASSUME IInv, NEW q \in Requests, Insert(q), UNCHANGED faults
  PROVE  IInv'
<1>1. q \in Registrations
  BY DEF IInv, PlaceInv, Insert, Changes
<1>2. \A m \in Registrations : m \in inserting' <=> pc'[m] = "flushed"
  BY <1>1 DEF IInv, TypeOK, RowInv, Insert, Goto
<1>3. IndexInv'
  BY <1>1 DEF IInv, IndexInv, Indexed, Insert, Registered
<1> QED BY <1>1, <1>2, <1>3, MoveKeeps DEF IInv, TypeOK, Insert

LEMMA FlushKeeps ==
  ASSUME IInv, NEW q \in Requests, Flush(q), UNCHANGED faults
  PROVE  IInv'
<1>1. q \in Changes
  BY DEF IInv, PlaceInv, Flush, Changes
<1>2. rowLock' \in [Registrations -> Changes \union {Nobody}]
  BY <1>1 DEF IInv, TypeOK, Flush
<1>3. \A m \in Registrations : m \in inserting' <=> pc'[m] = "flushed"
  BY <1>1 DEF IInv, TypeOK, RowInv, Flush, Goto, Changes
<1>4. IndexInv'
  BY DEF IInv, IndexInv, Indexed, Flush
<1> QED BY <1>2, <1>3, <1>4, MoveKeeps DEF IInv, TypeOK, Flush

(* The end of a request takes it out of the index and frees its rows.      *)
LEMMA LeaveTypes ==
  ASSUME TypeOK, NEW q \in Requests, Leave(q)
  PROVE  /\ inserting' \subseteq Registrations
         /\ rowLock' \in [Registrations -> Changes \union {Nobody}]
  BY DEF TypeOK, Leave

LEMMA RollbackKeeps ==
  ASSUME IInv, NEW q \in Requests, Rollback(q), UNCHANGED faults
  PROVE  IInv'
<1>1. pc[q] # "done"
  BY DEF Rollback
<1>2. \A m \in Registrations : m \in inserting' <=> pc'[m] = "flushed"
  BY DEF IInv, TypeOK, RowInv, Rollback, Leave, Goto
<1>3. IndexInv'
  BY DEF IInv, IndexInv, Indexed, Rollback, Leave
<1> QED BY <1>1, <1>2, <1>3, LeaveTypes, MoveKeeps DEF IInv, TypeOK, Rollback

LEMMA LoginKeeps ==
  ASSUME IInv, NEW q \in Requests, Login(q), UNCHANGED faults
  PROVE  IInv'
<1> USE DEF Login, Goto, Registered
<1>1. q \in Changes
  BY DEF IInv, PlaceInv, Changes
<1>2. TypeOK'
  BY DEF IInv, TypeOK, Places
<1>3. PlaceInv'
  BY <1>1 DEF IInv, TypeOK, PlaceInv, Changes
<1>4. LoadInv'
  BY DEF IInv, TypeOK, LoadInv, Changes
<1>5. RowInv' /\ IndexInv'
  BY <1>1 DEF IInv, TypeOK, RowInv, IndexInv, Indexed, Changes
<1>6. BeforeInv' /\ Quiet
  BY DEF IInv, TypeOK, BeforeInv, Quiet
<1>7. \A r \in Changes : pc'[r] \in {"loaded", "flushed"} =>
         /\ pc[r] \in {"loaded", "flushed"}
         /\ who'[r] = who[r] /\ copy'[r] = copy[r] /\ before'[r] = before[r]
  BY DEF IInv, TypeOK, Changes
<1>8. StaleInv' /\ NothingIsLost'
  BY <1>6, <1>7, QuietKeeps
<1> QED BY <1>2, <1>3, <1>4, <1>5, <1>6, <1>8 DEF IInv

LEMMA GetCurrentKeeps ==
  ASSUME IInv, NEW q \in Requests, GetCurrent(q), UNCHANGED faults
  PROVE  IInv'
<1> USE DEF GetCurrent, Goto
<1>1. q \in Changes /\ who[q] \in Registrations /\ rows[who[q]] \in Rows
  BY DEF IInv, TypeOK, PlaceInv, LoadInv, Changes
<1>2. TypeOK'
  BY <1>1 DEF IInv, TypeOK, Places
<1>3. PlaceInv' /\ LoadInv'
  BY <1>1 DEF IInv, TypeOK, PlaceInv, LoadInv, Changes
<1>4. RowInv' /\ IndexInv'
  BY <1>1 DEF IInv, TypeOK, RowInv, IndexInv, Indexed, Changes
<1>5. BeforeInv' /\ Quiet
  BY DEF IInv, TypeOK, BeforeInv, Quiet
<1>6. \A r \in Requests : pc[r] = "done" => before'[r] = before[r]
  BY DEF IInv, TypeOK
<1>7. \A r \in Changes : pc'[r] \in {"loaded", "flushed"} =>
         \/ /\ pc[r] \in {"loaded", "flushed"}
            /\ who'[r] = who[r] /\ copy'[r] = copy[r] /\ before'[r] = before[r]
         \/ who'[r] = who[r] /\ copy'[r] = rows[who[r]]
  BY <1>1 DEF IInv, TypeOK, Changes
<1>8. StaleInv' /\ NothingIsLost'
  BY <1>5, <1>6, <1>7, QuietKeeps
<1> QED BY <1>2, <1>3, <1>4, <1>5, <1>8 DEF IInv

LEMMA SuspendKeeps ==
  ASSUME IInv, NEW m \in Registrations, Suspend(m), UNCHANGED faults
  PROVE  IInv'
<1>1. /\ TypeOK' /\ PlaceInv' /\ LoadInv' /\ RowInv'
      /\ IndexInv' /\ BeforeInv' /\ Quiet
  BY DEF Suspend, session, IInv, TypeOK, PlaceInv, LoadInv, RowInv, IndexInv, Indexed,
         BeforeInv, Quiet
<1>2. StaleInv' /\ NothingIsLost'
  BY <1>1, QuietKeeps DEF Suspend, session
<1> QED BY <1>1, <1>2 DEF IInv

(* A commit touches no more than the columns its request has changed.      *)
LEMMA CommitWrites ==
  ASSUME IInv, NEW q \in Requests, Commit(q),
         NEW m \in Registrations, rows[m] # Nobody, NEW c \in Columns
  PROVE  \/ rows'[m][c] = rows[m][c]
         \/ m = Target(q) /\ c \in Changed(q) /\ rows'[m][c] = Sets[q][c]
<1>1. CASE q \in Registrations
  <2>1. m # q
    BY <1>1 DEF IInv, RowInv, Commit
  <2> QED BY <1>1, <2>1 DEF IInv, TypeOK, Commit
<1>2. CASE q \notin Registrations /\ Changed(q) # {}
  BY <1>2 DEF IInv, TypeOK, Commit, Written, Target
<1>3. CASE q \notin Registrations /\ Changed(q) = {}
  BY <1>3 DEF Commit
<1> QED BY <1>1, <1>2, <1>3

LEMMA CommitExplains ==
  ASSUME IInv, NEW q \in Requests, Commit(q), NEW r \in Requests,
         NEW m \in Registrations, rows[m] # Nobody, NEW c \in Columns, Explained(r, m, c)
  PROVE  \E t \in Requests \ before'[r] :
            /\ pc'[t] = "done" /\ Target(t)' = m
            /\ c \in DOMAIN Sets[t]
            /\ rows'[m][c] = Sets[t][c]
<1>1. CASE rows'[m][c] = rows[m][c]
  BY <1>1 DEF Explained, IInv, TypeOK, Commit, Goto, session, Target
<1>2. CASE m = Target(q) /\ c \in Changed(q) /\ rows'[m][c] = Sets[q][c]
  <2>1. q \in Requests \ before'[r]
    BY DEF IInv, BeforeInv, Commit, session
  <2>2. pc'[q] = "done" /\ Target(q)' = m
    BY <1>2 DEF IInv, TypeOK, Commit, Goto, session, Target
  <2> QED BY <1>2, <2>1, <2>2 DEF Changed
<1> QED BY <1>1, <1>2, CommitWrites

LEMMA TargetIsThere ==
  ASSUME IInv, NEW q \in Requests, pc[q] = "done"
  PROVE  Target(q) \in Registrations /\ rows[Target(q)] # Nobody
  BY DEF IInv, LoadInv, RowInv, Target, Changes

(* The request that commits finds its own values in the row, or those of   *)
(* a request that was answered after it had loaded the row.                *)
LEMMA CommitKeepsOwn ==
  ASSUME IInv, NEW q \in Requests, Commit(q), NEW c \in DOMAIN Sets[q]
  PROVE  \E t \in Requests \ before'[q] :
            /\ pc'[t] = "done" /\ Target(t)' = Target(q)'
            /\ c \in DOMAIN Sets[t]
            /\ rows'[Target(q)'][c] = Sets[t][c]
<1>1. q \in Requests \ before'[q] /\ pc'[q] = "done"
  BY DEF IInv, TypeOK, BeforeInv, Commit, Goto, session
<1>2. c \in Columns
  OBVIOUS
<1>3. CASE q \in Registrations
  BY <1>1, <1>2, <1>3 DEF IInv, TypeOK, Commit, NewRow, Target
<1>4. CASE q \notin Registrations
  <2>1. /\ q \in Changes
        /\ who[q] \in Registrations /\ rows[who[q]] # Nobody
        /\ Target(q)' = who[q] /\ Target(q) = who[q]
    BY <1>4 DEF IInv, LoadInv, Changes, Commit, session, Target
  <2>2. CASE c \in Changed(q)
    <3>1. rows'[who[q]][c] = Sets[q][c]
      BY <1>2, <1>4, <2>1, <2>2 DEF IInv, TypeOK, Commit, Written
    <3> QED BY <1>1, <2>1, <3>1
  <2>3. CASE c \notin Changed(q)
    <3>1. rows'[who[q]][c] = rows[who[q]][c]
      BY <1>2, <2>1, <2>3, CommitWrites
    <3>2. Sets[q][c] = copy[q][c]
      BY <2>3 DEF Changed
    <3>3. rows[who[q]][c] = copy[q][c] \/ Explained(q, who[q], c)
      BY <1>2, <2>1 DEF IInv, StaleInv, Commit
    <3>4. CASE rows[who[q]][c] = copy[q][c]
      BY <1>1, <2>1, <3>1, <3>2, <3>4
    <3>5. CASE Explained(q, who[q], c)
      BY <1>2, <2>1, <3>5, CommitExplains
    <3> QED BY <3>3, <3>4, <3>5
  <2> QED BY <2>2, <2>3
<1> QED BY <1>3, <1>4

LEMMA CommitTypes ==
  ASSUME IInv, NEW q \in Requests, Commit(q), UNCHANGED faults
  PROVE  TypeOK'
<1>1. rows' \in [Registrations -> Rows \union {Nobody}]
  <2>1. CASE q \in Registrations
    BY <2>1, NewRowType DEF IInv, TypeOK, Commit
  <2>2. CASE q \notin Registrations
    <3>1. who[q] \in Registrations /\ rows[who[q]] \in Rows
      BY <2>2 DEF IInv, TypeOK, LoadInv, Commit, Changes
    <3> QED BY <2>2, <3>1, WrittenType DEF IInv, TypeOK, Commit
  <2> QED BY <2>1, <2>2
<1>2. pc' \in [Requests -> Places]
  BY DEF IInv, TypeOK, Commit, Goto, Places
<1> QED BY <1>1, <1>2, LeaveTypes DEF IInv, TypeOK, Commit, session

LEMMA CommitKeeps ==
  ASSUME IInv, NEW q \in Requests, Commit(q), UNCHANGED faults
  PROVE  IInv'
<1>1. TypeOK'
  BY CommitTypes
<1>2. PlaceInv' /\ BeforeInv'
  BY DEF IInv, TypeOK, PlaceInv, BeforeInv, Commit, Goto, session, Changes
<1>3. \A m \in Registrations : rows'[m] # Nobody <=> rows[m] # Nobody \/ m = q
  <2>1. CASE q \in Registrations
    BY <2>1, NewRowType DEF IInv, TypeOK, Commit
  <2>2. CASE q \notin Registrations
    <3>1. who[q] \in Registrations /\ rows[who[q]] \in Rows
      BY <2>2 DEF IInv, TypeOK, LoadInv, Commit, Changes
    <3> QED BY <2>2, <3>1, WrittenType DEF IInv, TypeOK, Commit
  <2> QED BY <2>1, <2>2
<1>4. LoadInv'
  BY <1>3 DEF IInv, TypeOK, LoadInv, Commit, Goto, session, Changes
<1>5. RowInv'
  BY <1>3 DEF IInv, TypeOK, RowInv, Commit, Goto, Leave
<1>6. \A m \in Registrations : Indexed(m)' => Indexed(m)
  BY <1>3 DEF IInv, RowInv, Indexed, Commit, Leave
<1>7. IndexInv'
  BY <1>6 DEF IInv, IndexInv
<1>8. ASSUME NEW r \in Changes, pc'[r] \in {"loaded", "flushed"}, NEW c \in Columns
      PROVE  rows'[who'[r]][c] = copy'[r][c] \/ Explained(r, who[r], c)'
  <2>1. /\ r \in Requests /\ pc[r] \in {"loaded", "flushed"}
        /\ who'[r] = who[r] /\ copy'[r] = copy[r]
    BY <1>8 DEF IInv, TypeOK, Commit, Goto, session, Changes
  <2>2. who[r] \in Registrations /\ rows[who[r]] # Nobody
    BY <2>1 DEF IInv, LoadInv
  <2>3. CASE Explained(r, who[r], c)
    BY <2>1, <2>2, <2>3, CommitExplains DEF Explained
  <2>4. CASE rows[who[r]][c] = copy[r][c] /\ rows'[who[r]][c] = rows[who[r]][c]
    BY <2>1, <2>4
  <2>5. CASE /\ who[r] = Target(q) /\ c \in Changed(q)
             /\ rows'[who[r]][c] = Sets[q][c]
    <3>1. q \in Requests \ before'[r]
      BY <2>1 DEF IInv, BeforeInv, Commit, session
    <3>2. pc'[q] = "done" /\ Target(q)' = who'[r]
      BY <2>1, <2>5 DEF IInv, TypeOK, Commit, Goto, session, Target
    <3> QED BY <2>1, <2>5, <3>1, <3>2 DEF Explained, Changed
  <2> QED BY <2>1, <2>2, <2>3, <2>4, <2>5, CommitWrites DEF IInv, StaleInv
<1>9. StaleInv'
  BY <1>8 DEF StaleInv
<1>10. ASSUME NEW r \in Requests, pc'[r] = "done", NEW c \in DOMAIN Sets[r]
       PROVE  \E t \in Requests \ before'[r] :
                 /\ pc'[t] = "done" /\ Target(t)' = Target(r)'
                 /\ c \in DOMAIN Sets[t]
                 /\ rows'[Target(r)'][c] = Sets[t][c]
  <2>1. CASE r = q
    BY <2>1, CommitKeepsOwn
  <2>2. CASE r # q
    <3>1. pc[r] = "done" /\ Target(r)' = Target(r) /\ c \in Columns
      BY <1>10, <2>2 DEF IInv, TypeOK, Commit, Goto, session, Target
    <3>2. Explained(r, Target(r), c)
      BY <3>1 DEF IInv, NothingIsLost, Explained
    <3> QED BY <3>1, <3>2, TargetIsThere, CommitExplains
  <2> QED BY <2>1, <2>2
<1>11. NothingIsLost'
  BY <1>10 DEF NothingIsLost
<1> QED BY <1>1, <1>2, <1>4, <1>5, <1>7, <1>9, <1>11 DEF IInv

LEMMA NextKeepsIInv == IInv /\ [Next]_vars => IInv'
<1> SUFFICES ASSUME IInv, [Next]_vars PROVE IInv'
  OBVIOUS
<1>1. ASSUME NEW q \in Requests, Step(q), UNCHANGED faults PROVE IInv'
  BY <1>1, LookKeeps, InsertKeeps, RefusalsKeep, LoginKeeps, GetCurrentKeeps, FlushKeeps,
     CommitKeeps, RollbackKeeps DEF Step
<1>2. ASSUME NEW m \in Registrations, Suspend(m), UNCHANGED faults PROVE IInv'
  BY <1>2, SuspendKeeps
<1>3. CASE UNCHANGED vars
  BY <1>3 DEF vars, session, IInv, TypeOK, PlaceInv, LoadInv, RowInv, IndexInv, Indexed, BeforeInv,
              StaleInv, Explained, NothingIsLost, Target
<1> QED BY <1>1, <1>2, <1>3 DEF Next

LEMMA IInvHolds == Spec => []IInv
  BY InitIInv, NextKeepsIInv, PTL DEF Spec

(* Requests and rows keep their types: a committed row has a value in      *)
(* every column (merchants.py:49-58, 97-147).                              *)
THEOREM MerchantsTypeCorrect == Spec => []TypeOK
<1>1. IInv => TypeOK
  BY DEF IInv
<1> QED BY <1>1, IInvHolds, PTL

(* models/merchant.py:61-66: however many registrations race, an e-mail    *)
(* has one merchant, and a registration that was answered has made it.     *)
THEOREM MerchantsOnePerEmail == Spec => []OneMerchantPerEmail
<1>1. IInv => OneMerchantPerEmail
  BY DEF IInv, RowInv, IndexInv, Indexed, OneMerchantPerEmail
<1> QED BY <1>1, IInvHolds, PTL

(* merchants.py:97-147: whatever changes of a merchant overlap, none that  *)
(* was answered is lost, but to one of the same column that it had not     *)
(* seen or that came later.                                                *)
THEOREM MerchantsNothingIsLost == Spec => []NothingIsLost
<1>1. IInv => NothingIsLost
  BY DEF IInv
<1> QED BY <1>1, IInvHolds, PTL
=============================================================================
