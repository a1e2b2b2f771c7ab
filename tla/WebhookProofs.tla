---------------------------- MODULE WebhookProofs ----------------------------
(***************************************************************************)
(* Proofs about webhook deliveries, for every set of endpoints and of      *)
(* racing retries and every number of attempts.                            *)
(***************************************************************************)
EXTENDS WebhookDelivery, TLAPS

(* What a session works on is there, and is its own endpoint's.            *)
WorkInv == \A s \in Sessions :
              pc[s] \in {"endpoint", "attempt", "inflight"} =>
                 at[s] \in Endpoints /\ obj[s][at[s]] \in AnyRow

(* A row that has been loaded exists, and goes on existing.                *)
LoadInv == \A s \in Sessions, e \in Endpoints :
              base[s][e] # Nothing => row[e] \in RowsOf(Committed)

(* An object is neither PENDING nor ATTEMPTING when its session commits.   *)
Busy(s, e) == at[s] = e /\ pc[s] \in {"attempt", "inflight", "rolledback"}

StatusInv == \A s \in Sessions, e \in Endpoints :
                obj[s][e] # Nothing /\ ~ Busy(s, e) => obj[s][e].status \in Committed

(* Every attempt number stands for as many POSTs, but for the one that a   *)
(* session is about to make.                                               *)
CountInv ==
  /\ \A e \in Endpoints : row[e] # Nothing => row[e].attempt <= posts[e]
  /\ \A s \in Sessions, e \in Endpoints :
        /\ base[s][e] # Nothing => base[s][e].attempt <= posts[e]
        /\ obj[s][e] # Nothing =>
              \/ obj[s][e].attempt <= posts[e]
              \/ /\ at[s] = e
                 /\ pc[s] = "attempt" /\ obj[s][e].attempt <= posts[e] + 1
              \/ at[s] = e /\ pc[s] = "rolledback"

(* Every EXHAUSTED stands for MaxAttempts POSTs.                           *)
Earned(r, e) == r # Nothing /\ r.status = "EXHAUSTED" => posts[e] >= MaxAttempts

EarnedInv ==
  /\ \A e \in Endpoints : Earned(row[e], e)
  /\ \A s \in Sessions, e \in Endpoints : Earned(base[s][e], e) /\ Earned(obj[s][e], e)

IInv == TypeOK /\ WorkInv /\ LoadInv /\ StatusInv /\ CountInv /\ EarnedInv

USE PaymentAssumption

LEMMA InitIInv == Init => IInv
  BY NothingAssumption DEF Init, IInv, TypeOK, WorkInv, LoadInv, StatusInv, CountInv, EarnedInv, Earned,
         Ended, Sessions

LEMMA RowTypes ==
  ASSUME TypeOK, NEW e \in Endpoints, NEW s \in Sessions
  PROVE  /\ posts[e] \in Nat
         /\ row[e] # Nothing => row[e].attempt \in Nat
         /\ base[s][e] # Nothing => base[s][e].attempt \in Nat
         /\ obj[s][e] # Nothing => obj[s][e] \in AnyRow /\ obj[s][e].attempt \in Nat
  BY DEF TypeOK, RowsOf, AnyRow

Labels == Ended \union {"begin", "next", "attempt", "inflight", "endpoint", "commit"}

(* A session turns the object it works on into o and goes to l, while      *)
(* POSTs are only added: what is required of o and l for IInv.             *)
LEMMA ObjectStep ==
  ASSUME IInv, NEW s \in Sessions, NEW e \in Endpoints, NEW o \in AnyRow,
         NEW l \in Labels \ {"endpoint"},
         at[s] = e,
         pc[s] # "rolledback",
         obj' = [obj EXCEPT ![s][e] = o],
         pc' = [pc EXCEPT ![s] = l],
         posts' \in [Endpoints -> Nat],
         \A f \in Endpoints : posts'[f] >= posts[f],
         UNCHANGED <<active, row, todo, at, base>>,
         acked' \subseteq Endpoints,
         \/ o.attempt <= posts'[e]
         \/ l = "attempt" /\ o.attempt <= posts'[e] + 1,
         l \notin {"attempt", "inflight"} => o.status \in Committed,
         o.status = "EXHAUSTED" => posts'[e] >= MaxAttempts
  PROVE  IInv'
<1>1. /\ obj' \in [Sessions -> [Endpoints -> AnyRow \union {Nothing}]]
      /\ obj'[s][e] = o
      /\ \A t \in Sessions, f \in Endpoints :
            t # s \/ f # e => obj'[t][f] = obj[t][f]
  <2> obj \in [Sessions -> [Endpoints -> AnyRow \union {Nothing}]]
    BY DEF IInv, TypeOK, AnyRow
  <2> QED OBVIOUS
<1>2. /\ pc \in [Sessions -> Labels] /\ pc' \in [Sessions -> Labels]
      /\ pc'[s] = l
      /\ \A t \in Sessions : t # s => pc'[t] = pc[t]
  BY DEF IInv, TypeOK, Labels
<1>3. TypeOK'
  BY <1>1, <1>2 DEF IInv, TypeOK, AnyRow, Labels
<1>4. WorkInv'
  BY <1>1, <1>2 DEF IInv, WorkInv
<1>5. LoadInv'
  BY DEF IInv, LoadInv
<1>6. StatusInv'
  BY <1>1, <1>2 DEF IInv, StatusInv, Busy
<1>7. CountInv'
  <2>1. \A f \in Endpoints : row'[f] # Nothing => row'[f].attempt <= posts'[f]
    BY RowTypes DEF IInv, CountInv
  <2>2. \A t \in Sessions, f \in Endpoints :
          base'[t][f] # Nothing => base'[t][f].attempt <= posts'[f]
    BY RowTypes DEF IInv, CountInv
  <2>3. ASSUME NEW t \in Sessions, NEW f \in Endpoints, t # s \/ f # e,
               obj[t][f] # Nothing
        PROVE  \/ obj[t][f].attempt <= posts'[f]
               \/ at[t] = f /\ pc'[t] = "attempt" /\ obj[t][f].attempt <= posts'[f] + 1
               \/ at[t] = f /\ pc'[t] = "rolledback"
    BY <1>2, <2>3, RowTypes DEF IInv, CountInv
  <2> QED BY <1>1, <1>2, <2>1, <2>2, <2>3 DEF CountInv
<1>8. EarnedInv'
  <2>1. \A f \in Endpoints : posts[f] >= MaxAttempts => posts'[f] >= MaxAttempts
    BY MaxAssumption, RowTypes DEF IInv
  <2> QED BY <1>1, <2>1 DEF IInv, EarnedInv, Earned
<1> QED BY <1>3, <1>4, <1>5, <1>6, <1>7, <1>8 DEF IInv

LEMMA CheckEndpointStep ==
  ASSUME IInv, NEW r \in Retriers, CheckEndpoint(r)
  PROVE  IInv'
<1>0. r \in Sessions
  BY DEF Sessions
<1>1. CASE at[r] \in active
  <2> DEFINE e == at[r]
             o == [obj[r][e] EXCEPT !.attempt = @ + 1]
  <2>1. e \in Endpoints /\ obj[r][e] \in AnyRow /\ obj[r][e] # Nothing
    BY <1>0, NothingAssumption DEF CheckEndpoint, IInv, WorkInv
  <2>2. o \in AnyRow /\ o.attempt = obj[r][e].attempt + 1 /\ o.status = obj[r][e].status
    BY <2>1 DEF AnyRow, RowsOf
  <2>3. obj[r][e].attempt <= posts[e] /\ obj[r][e].attempt \in Nat /\ posts[e] \in Nat
    BY <1>0, <2>1, RowTypes DEF CheckEndpoint, IInv, CountInv
  <2>4. o.status = "EXHAUSTED" => posts[e] >= MaxAttempts
    BY <1>0, <2>1, <2>2 DEF IInv, EarnedInv, Earned
  <2>5. /\ obj' = [obj EXCEPT ![r][e] = o]
        /\ pc' = [pc EXCEPT ![r] = "attempt"]
        /\ UNCHANGED <<active, row, todo, at, base, posts, acked>>
        /\ pc[r] = "endpoint"
    BY <1>1 DEF CheckEndpoint, Goto
  <2> HIDE DEF o
  <2>6. /\ o.attempt <= posts'[e] + 1
        /\ o.status = "EXHAUSTED" => posts'[e] >= MaxAttempts
        /\ posts' \in [Endpoints -> Nat]
        /\ \A f \in Endpoints : posts'[f] >= posts[f]
        /\ acked' \subseteq Endpoints
        /\ "attempt" \in Labels \ {"endpoint"}
    BY <2>2, <2>3, <2>4, <2>5 DEF IInv, TypeOK, Labels
  <2> QED BY <1>0, <2>1, <2>2, <2>5, <2>6, ObjectStep
<1>2. CASE at[r] \notin active
  <2>1. /\ pc' = [pc EXCEPT ![r] = "commit"]
        /\ UNCHANGED <<active, row, todo, at, base, obj, posts, acked>>
        /\ pc[r] = "endpoint"
    BY <1>2 DEF CheckEndpoint, Goto
  <2>2. /\ pc' \in [Sessions -> Labels] /\ pc'[r] = "commit"
        /\ \A t \in Sessions : t # r => pc'[t] = pc[t]
    BY <1>0, <2>1 DEF IInv, TypeOK, Labels
  <2>3. TypeOK' /\ LoadInv' /\ EarnedInv'
    BY <2>1, <2>2 DEF IInv, TypeOK, Labels, LoadInv, EarnedInv, Earned
  <2>4. WorkInv' /\ StatusInv' /\ CountInv'
    BY <2>1, <2>2 DEF IInv, WorkInv, StatusInv, Busy, CountInv
  <2> QED BY <2>3, <2>4 DEF IInv
<1> QED BY <1>1, <1>2

LEMMA PostStep ==
  ASSUME IInv, NEW s \in Sessions, Post(s)
  PROVE  IInv'
<1> DEFINE e == at[s]
           o == [obj[s][e] EXCEPT !.status = "ATTEMPTING"]
<1>1. /\ e \in Endpoints /\ obj[s][e] \in AnyRow
      /\ obj[s][e].attempt \in Nat /\ posts[e] \in Nat
  BY DEF Post, IInv, TypeOK, WorkInv, AnyRow, RowsOf
<1>2. o \in AnyRow /\ o.attempt = obj[s][e].attempt /\ o.status = "ATTEMPTING"
  BY <1>1 DEF AnyRow, RowsOf
<1>3. /\ obj' = [obj EXCEPT ![s][e] = o]
      /\ pc' = [pc EXCEPT ![s] = "inflight"]
      /\ posts' = [posts EXCEPT ![e] = @ + 1]
      /\ UNCHANGED <<active, row, todo, at, base, acked>>
      /\ pc[s] = "attempt"
  BY DEF Post, Goto
<1>4. /\ posts' \in [Endpoints -> Nat]
      /\ posts'[e] = posts[e] + 1
      /\ \A f \in Endpoints : posts'[f] >= posts[f]
  BY <1>1, <1>3 DEF IInv, TypeOK
<1>5. o.attempt <= posts'[e]
  <2>1. obj[s][e] # Nothing => obj[s][e].attempt <= posts[e] + 1
    BY <1>1, <1>3 DEF IInv, CountInv
  <2> QED BY <2>1, <1>1, <1>2, <1>4, NothingAssumption
<1> HIDE DEF o
<1> QED BY <1>1, <1>2, <1>3, <1>4, <1>5, ObjectStep DEF IInv, TypeOK, Labels

(* An answer of the endpoint, or none: the POST has been counted.          *)
LEMMA InFlight ==
  ASSUME IInv, NEW s \in Sessions, pc[s] = "inflight"
  PROVE  /\ at[s] \in Endpoints
         /\ obj[s][at[s]] \in AnyRow
         /\ obj[s][at[s]].attempt \in Nat \ {0}
         /\ obj[s][at[s]].attempt <= posts[at[s]]
         /\ posts[at[s]] \in Nat
<1>1. at[s] \in Endpoints /\ obj[s][at[s]] \in AnyRow
  BY DEF IInv, WorkInv
<1> QED BY <1>1, NothingAssumption DEF IInv, TypeOK, CountInv, AnyRow, RowsOf

LEMMA DeliveredStep ==
  ASSUME IInv, NEW s \in Sessions, Delivered(s)
  PROVE  IInv'
<1> DEFINE e == at[s]
           o == Row("DELIVERED", obj[s][e].attempt, NoRetry)
<1>1. /\ obj' = [obj EXCEPT ![s][e] = o]
      /\ pc' = [pc EXCEPT ![s] = After(s)]
      /\ acked' = acked \union {e}
      /\ UNCHANGED <<active, row, todo, at, base, posts>>
      /\ pc[s] = "inflight"
  BY DEF Delivered, Goto
<1>2. o \in AnyRow /\ o.attempt = obj[s][e].attempt /\ o.status = "DELIVERED"
  BY <1>1, InFlight DEF AnyRow, RowsOf, Committed, Row, NoRetry
<1>3. After(s) \in {"next", "commit"}
  BY DEF After
<1> HIDE DEF o
<1>4. /\ e \in Endpoints
      /\ o.attempt <= posts'[e]
      /\ o.status \in Committed
      /\ posts' \in [Endpoints -> Nat]
      /\ \A f \in Endpoints : posts'[f] >= posts[f]
      /\ acked' \subseteq Endpoints
      /\ After(s) \in Labels \ {"endpoint"}
  BY <1>1, <1>2, <1>3, InFlight DEF IInv, TypeOK, Labels, Committed
<1> HIDE DEF e
<1> QED BY <1>1, <1>2, <1>4, ObjectStep DEF e

LEMMA NotDeliveredStep ==
  ASSUME IInv, NEW s \in Sessions, NotDelivered(s)
  PROVE  IInv'
<1> DEFINE e == at[s]
           o == Verdict(obj[s][e])
<1>1. /\ obj' = [obj EXCEPT ![s][e] = o]
      /\ pc' = [pc EXCEPT ![s] = After(s)]
      /\ UNCHANGED <<active, row, todo, at, base, posts, acked>>
      /\ pc[s] = "inflight"
  BY DEF NotDelivered, Goto
<1>2. /\ o \in AnyRow /\ o.attempt = obj[s][e].attempt
      /\ o.status \in {"FAILED", "EXHAUSTED"}
      /\ o.status = "EXHAUSTED" => obj[s][e].attempt >= MaxAttempts
  BY <1>1, InFlight, MaxAssumption DEF AnyRow, RowsOf, Committed, Row, Verdict
<1>3. After(s) \in {"next", "commit"}
  BY DEF After
<1>4. o.status = "EXHAUSTED" => posts[e] >= MaxAttempts
  BY <1>1, <1>2, InFlight, MaxAssumption
<1> HIDE DEF o
<1>5. /\ e \in Endpoints
      /\ o.attempt <= posts'[e]
      /\ o.status \in Committed
      /\ posts' \in [Endpoints -> Nat]
      /\ \A f \in Endpoints : posts'[f] >= posts[f]
      /\ acked' \subseteq Endpoints
      /\ After(s) \in Labels \ {"endpoint"}
  BY <1>1, <1>2, <1>3, InFlight DEF IInv, TypeOK, Labels, Committed
<1> HIDE DEF e
<1> QED BY <1>1, <1>2, <1>4, <1>5, ObjectStep DEF e

(* The flush mixes a row and an object that are both covered by POSTs.     *)
LEMMA FlushedRow ==
  ASSUME IInv, NEW s \in Sessions, NEW e \in Endpoints, pc[s] = After(s)
  PROVE  /\ Flushed(s, e) \in RowsOf(Committed) \union {Nothing}
         /\ row[e] \in RowsOf(Committed) => Flushed(s, e) \in RowsOf(Committed)
         /\ Flushed(s, e) # Nothing =>
               Flushed(s, e).attempt <= posts[e] /\ Earned(Flushed(s, e), e)
<1> DEFINE o == obj[s][e]
           b == base[s][e]
<1>0. pc[s] \notin {"attempt", "inflight", "rolledback"}
  BY DEF After
<1>1. o # Nothing => /\ o \in RowsOf(Committed)
                     /\ o.attempt <= posts[e]
                     /\ Earned(o, e)
  BY <1>0, RowTypes DEF IInv, StatusInv, Busy, CountInv, EarnedInv, AnyRow, RowsOf
<1>2. row[e] # Nothing => /\ row[e] \in RowsOf(Committed)
                          /\ row[e].attempt <= posts[e]
                          /\ Earned(row[e], e)
  BY DEF IInv, TypeOK, CountInv, EarnedInv
<1>3. CASE o = Nothing
  BY <1>2, <1>3 DEF Flushed, IInv, TypeOK
<1>4. CASE o # Nothing /\ b = Nothing
  BY <1>1, <1>4 DEF Flushed
<1>5. CASE o # Nothing /\ b # Nothing
  <2>1. row[e] \in RowsOf(Committed)
    BY <1>5 DEF IInv, LoadInv
  <2>2. row[e] # Nothing
    BY <2>1, NothingAssumption DEF AnyRow, RowsOf
  <2>3. PICK st, n, d : /\ Flushed(s, e) = Row(st, n, d)
                        /\ st \in {o.status, row[e].status}
                        /\ n \in {o.attempt, row[e].attempt}
                        /\ d \in {o.due, row[e].due}
    BY <1>5 DEF Flushed
  <2>4. /\ st \in Committed /\ n \in Nat \ {0} /\ d \in Nat
        /\ n <= posts[e]
        /\ st = "EXHAUSTED" => posts[e] >= MaxAttempts
    BY <1>1, <1>2, <1>5, <2>1, <2>2, <2>3 DEF RowsOf, Earned
  <2> QED BY <2>3, <2>4 DEF Row, RowsOf, Earned
<1> QED BY <1>3, <1>4, <1>5

LEMMA CommitStep ==
  ASSUME IInv, NEW s \in Sessions, Commit(s)
  PROVE  IInv'
<1>1. /\ row' = [e \in Endpoints |-> Flushed(s, e)]
      /\ pc' = [pc EXCEPT ![s] = "committed"]
      /\ UNCHANGED <<active, todo, at, base, obj, posts, acked>>
      /\ pc[s] = After(s)
  BY DEF Commit, Goto
<1>2. pc[s] \in {"next", "commit"}
  BY <1>1 DEF After
<1>3. TypeOK'
  BY <1>1, FlushedRow DEF IInv, TypeOK, Ended
<1>4. WorkInv' /\ StatusInv'
  BY <1>1, <1>2 DEF IInv, TypeOK, WorkInv, StatusInv, Busy
<1>5. LoadInv'
  BY <1>1, FlushedRow DEF IInv, LoadInv
<1>6. CountInv'
  BY <1>1, <1>2, FlushedRow DEF IInv, TypeOK, CountInv
<1>7. EarnedInv'
  BY <1>1, FlushedRow DEF IInv, EarnedInv, Earned
<1> QED BY <1>3, <1>4, <1>5, <1>6, <1>7 DEF IInv

LEMMA InductiveIInv == IInv /\ [Next]_vars => IInv'
<1> SUFFICES ASSUME IInv, [Next]_vars PROVE IInv'
  OBVIOUS
<1> USE DEF IInv, TypeOK, WorkInv, LoadInv, StatusInv, CountInv, EarnedInv, Earned,
            Busy, AnyRow, RowsOf, Committed, Goto, Ended
<1>1. CASE GetActiveEndpoints
  BY <1>1 DEF GetActiveEndpoints, Sessions
<1>2. ASSUME NEW e \in Endpoints, CreateDelivery(e) PROVE IInv'
  BY <1>2 DEF CreateDelivery, Sessions, Row, NoRetry
<1>3. ASSUME NEW e \in Endpoints, UpdateEndpoint(e) PROVE IInv'
  BY <1>3 DEF UpdateEndpoint
<1>4. ASSUME NEW r \in Retriers, NEW e \in Endpoints, Load(r, e) PROVE IInv'
  BY <1>4 DEF Load, Sessions
<1>5. ASSUME NEW s \in Sessions, Rollback(s) PROVE IInv'
  BY <1>5 DEF Rollback
<1>6. CASE UNCHANGED vars
  BY <1>6 DEF vars
<1> QED
  BY <1>1, <1>2, <1>3, <1>4, <1>5, <1>6, CheckEndpointStep, PostStep, DeliveredStep,
     NotDeliveredStep, CommitStep DEF Next

LEMMA AlwaysIInv == Spec => []IInv
  BY InitIInv, InductiveIInv, PTL DEF Spec
-----------------------------------------------------------------------------
(* Rows, objects and sessions keep their types; in particular no committed *)
(* row is PENDING or ATTEMPTING.                                           *)
THEOREM WebhookTypeCorrect == Spec => []TypeOK
  BY AlwaysIInv, PTL DEF IInv

(* webhook_dispatcher.py:385: however retries race, are rolled back or     *)
(* find the endpoint off, no row counts an attempt that was not made.      *)
THEOREM WebhookAttemptsWereMade == Spec => []AttemptsWereMade
<1>1. IInv => AttemptsWereMade
  BY DEF IInv, CountInv, AttemptsWereMade
<1> QED BY <1>1, AlwaysIInv, PTL

(* webhook_dispatcher.py:270-275: no delivery is given up before           *)
(* MaxAttempts POSTs.                                                      *)
THEOREM WebhookExhaustedIsEarned == Spec => []ExhaustedIsEarned
<1>1. IInv => ExhaustedIsEarned
  BY DEF IInv, EarnedInv, Earned, ExhaustedIsEarned
<1> QED BY <1>1, AlwaysIInv, PTL
-----------------------------------------------------------------------------
(***************************************************************************)
(* What a row says of what was sent.  Until its row is committed a         *)
(* delivery has one attempt, the payment's.  Afterwards every retry works  *)
(* on the row it has loaded, and replaces it by one that counts one POST   *)
(* more; a retry whose row has been replaced meanwhile either keeps to     *)
(* what it loaded, or is a second retry of the same record.                *)
(***************************************************************************)

(* Every POST counted, delivered exactly if acknowledged, given up exactly *)
(* from the last attempt on.                                               *)
Done(o, e) == /\ o.attempt = posts[e]
              /\ o.status = "DELIVERED" <=> e \in acked
              /\ o.status = "FAILED" => o.attempt < MaxAttempts
              /\ o.status = "EXHAUSTED" => o.attempt >= MaxAttempts

At(s, e, l) == at[s] = e /\ pc[s] = l

(* The payment has the only session that adds rows, and commits last.      *)
PaymentInv ==
  /\ pc[Payment] \notin {"endpoint", "commit"}
  /\ \A e \in Endpoints :
        /\ base[Payment][e] = Nothing
        /\ row[e] # Nothing => pc[Payment] = "committed"
        /\ e \in todo \/ pc[Payment] = "begin" => obj[Payment][e] = Nothing

(* A retry counts one attempt on a row that was not delivered, and POSTs   *)
(* then.                                                                   *)
Retries(r, e) ==
  /\ base[r][e] # Nothing /\ obj[r][e] # Nothing
  /\ pc[r] \notin {"begin", "next"}
  /\ \/ obj[r][e] = base[r][e] /\ pc[r] \notin {"attempt", "inflight"}
     \/ obj[r][e].attempt = base[r][e].attempt + 1 /\ pc[r] # "endpoint"
  /\ pc[r] = "endpoint" \/ Posted(r, e) => base[r][e].status # "DELIVERED"

RetrierInv == \A r \in Retriers, e \in Endpoints :
  IF at[r] = e THEN Retries(r, e) ELSE base[r][e] = Nothing /\ obj[r][e] = Nothing

FirstAttempt(e) ==
  LET o == obj[Payment][e] IN
  /\ \A r \in Retriers : at[r] # e
  /\ o = Nothing => posts[e] = 0 /\ e \notin acked
  /\ o # Nothing /\ pc[Payment] # "rolledback" =>
       \/ At(Payment, e, "attempt") /\ o.attempt = 1 /\ posts[e] = 0 /\ e \notin acked
       \/ At(Payment, e, "inflight") /\ o.attempt = 1 /\ posts[e] = 1 /\ e \notin acked
       \/ ~ At(Payment, e, "attempt") /\ ~ At(Payment, e, "inflight") /\ Done(o, e)

(* What spoils a record: two retries of the same one, or a retry that was  *)
(* rolled back.                                                            *)
Spoiled(e) ==
  \/ \E s, t \in Retriers : /\ s # t /\ Posted(s, e) /\ Posted(t, e)
                            /\ base[s][e] = base[t][e]
  \/ \E r \in Retriers : At(r, e, "rolledback")

(* Another retry has committed over the row that r loaded.                 *)
Replaced(r, e) == \E w \in Retriers :
  At(w, e, "committed") /\ Posted(w, e) /\ base[w][e] = base[r][e]

(* A POST that the row does not tell of yet.                               *)
Unsettled(r, e) == At(r, e, "inflight") \/ (At(r, e, "commit") /\ Posted(r, e))

LaterAttempts(e) ==
  /\ \A r \in Retriers : at[r] = e => base[r][e] = row[e] \/ Replaced(r, e)
  /\ (\A r \in Retriers : ~ Unsettled(r, e)) => Done(row[e], e)
  /\ \A r \in Retriers : At(r, e, "inflight") =>
        obj[r][e].attempt = posts[e] /\ e \notin acked
  /\ \A r \in Retriers : At(r, e, "commit") /\ Posted(r, e) => Done(obj[r][e], e)

Exact(e) == /\ row[e] = Nothing => FirstAttempt(e)
            /\ row[e] # Nothing /\ ~ Spoiled(e) => LaterAttempts(e)

RecordInv == IInv /\ PaymentInv /\ RetrierInv /\ \A e \in Endpoints : Exact(e)

LEMMA InitRecordInv == Init => RecordInv
<1> SUFFICES ASSUME Init PROVE RecordInv
  OBVIOUS
<1>1. IInv
  BY InitIInv
<1>2. PaymentInv /\ RetrierInv
  BY NothingAssumption DEF Init, PaymentInv, RetrierInv, Sessions
<1>3. \A e \in Endpoints : Exact(e)
  BY NothingAssumption DEF Init, Exact, FirstAttempt, Sessions
<1> QED BY <1>1, <1>2, <1>3 DEF RecordInv

(* The object a session works on becomes o, and the session goes to l.     *)
LEMMA Updates ==
  ASSUME TypeOK, NEW s \in Sessions, NEW e \in Endpoints, NEW o, NEW l,
         obj' = [obj EXCEPT ![s][e] = o],
         pc' = [pc EXCEPT ![s] = l]
  PROVE  /\ obj'[s][e] = o /\ pc'[s] = l
         /\ \A t \in Sessions : t # s => pc'[t] = pc[t]
         /\ \A t \in Sessions, f \in Endpoints :
               t # s \/ f # e => obj'[t][f] = obj[t][f]
  BY DEF TypeOK

(* An endpoint whose row, POSTs and sessions a step leaves alone.          *)
LEMMA ExactFrame ==
  ASSUME NEW e \in Endpoints, Exact(e),
         row'[e] = row[e], posts'[e] = posts[e], e \in acked' <=> e \in acked,
         \A s \in Sessions : base'[s][e] = base[s][e] /\ obj'[s][e] = obj[s][e],
         \A r \in Retriers : /\ at'[r] = e <=> at[r] = e
                             /\ at[r] = e => pc'[r] = pc[r],
         \/ pc'[Payment] = "rolledback"
         \/ /\ pc[Payment] # "rolledback"
            /\ At(Payment, e, "attempt")' <=> At(Payment, e, "attempt")
            /\ At(Payment, e, "inflight")' <=> At(Payment, e, "inflight")
  PROVE  Exact(e)'
<1>1. \A r \in Retriers : /\ Posted(r, e)' <=> Posted(r, e)
                          /\ at'[r] = e <=> at[r] = e
                          /\ base'[r][e] = base[r][e] /\ obj'[r][e] = obj[r][e]
  BY DEF Posted, Sessions
<1>2. \A r \in Retriers :
         /\ At(r, e, "inflight")' <=> At(r, e, "inflight")
         /\ At(r, e, "commit")' <=> At(r, e, "commit")
         /\ At(r, e, "committed")' <=> At(r, e, "committed")
         /\ At(r, e, "rolledback")' <=> At(r, e, "rolledback")
  BY DEF At
<1>3. Spoiled(e)' <=> Spoiled(e)
  BY <1>1, <1>2 DEF Spoiled
<1>4. \A r \in Retriers : /\ Replaced(r, e)' <=> Replaced(r, e)
                          /\ Unsettled(r, e)' <=> Unsettled(r, e)
  BY <1>1, <1>2 DEF Replaced, Unsettled
<1>5. row'[e] = Nothing => FirstAttempt(e)'
  <2>1. obj'[Payment][e] = obj[Payment][e]
    BY DEF Sessions
  <2>2. Done(obj[Payment][e], e) => Done(obj[Payment][e], e)'
    BY <2>1 DEF Done
  <2> QED BY <1>1, <2>1, <2>2 DEF Exact, FirstAttempt
<1>6. row'[e] # Nothing /\ ~ Spoiled(e)' => LaterAttempts(e)'
  <2> SUFFICES ASSUME row'[e] # Nothing, ~ Spoiled(e)' PROVE LaterAttempts(e)'
    OBVIOUS
  <2>1. LaterAttempts(e)
    BY <1>3 DEF Exact
  <2>2. Done(row[e], e) => Done(row[e], e)'
    BY DEF Done
  <2>3. \A r \in Retriers : Done(obj[r][e], e) => Done(obj[r][e], e)'
    BY <1>1 DEF Done
  <2> QED BY <1>1, <1>2, <1>4, <2>1, <2>2, <2>3 DEF LaterAttempts
<1> QED BY <1>5, <1>6 DEF Exact

(* What kind of session takes a step tells whether a row is there.         *)
LEMMA RetrierAt ==
  ASSUME RecordInv, NEW r \in Retriers, NEW e \in Endpoints, at[r] = e
  PROVE  /\ r \in Sessions /\ r # Payment
         /\ Retries(r, e)
         /\ row[e] \in RowsOf(Committed) /\ row[e] # Nothing
         /\ base[r][e] \in RowsOf(Committed) /\ obj[r][e] \in AnyRow
         /\ base[r][e].attempt \in Nat /\ obj[r][e].attempt \in Nat
         /\ obj[r][e].attempt = base[r][e].attempt + 1 => Posted(r, e)
<1>1. r \in Sessions /\ r # Payment /\ Retries(r, e)
  BY DEF Sessions, RecordInv, RetrierInv
<1>2. base[r][e] # Nothing /\ base[r][e] \in RowsOf(Committed)
  BY <1>1 DEF Retries, RecordInv, IInv, TypeOK
<1>3. row[e] \in RowsOf(Committed) /\ row[e] # Nothing
  BY <1>1, <1>2, NothingAssumption DEF RecordInv, IInv, LoadInv, AnyRow, RowsOf
<1>4. base[r][e].attempt \in Nat
  BY <1>2 DEF RowsOf
<1>5. obj[r][e] \in AnyRow /\ obj[r][e].attempt \in Nat
  BY <1>1, RowTypes DEF Retries, RecordInv, IInv
<1> QED BY <1>1, <1>2, <1>3, <1>4, <1>5 DEF Posted

LEMMA PaymentInvStep ==
  ASSUME RecordInv, Next
  PROVE  PaymentInv'
<1> USE DEF RecordInv, IInv, TypeOK, PaymentInv, Goto, Sessions
<1>1. CASE GetActiveEndpoints
  BY <1>1 DEF GetActiveEndpoints
<1>2. ASSUME NEW e \in Endpoints, CreateDelivery(e) PROVE PaymentInv'
  BY <1>2 DEF CreateDelivery
<1>3. ASSUME NEW e \in Endpoints, UpdateEndpoint(e) PROVE PaymentInv'
  BY <1>3 DEF UpdateEndpoint
<1>4. ASSUME NEW r \in Retriers, CheckEndpoint(r) PROVE PaymentInv'
  BY <1>4 DEF CheckEndpoint
<1>5. ASSUME NEW r \in Retriers, NEW e \in Endpoints, Load(r, e) PROVE PaymentInv'
  BY <1>5 DEF Load
<1>6. ASSUME NEW s \in Sessions, Post(s) PROVE PaymentInv'
  <2>1. pc[s] = "attempt" /\ at[s] \in Endpoints /\ obj[s][at[s]] # Nothing
    BY <1>6, NothingAssumption DEF Post, WorkInv
  <2> QED BY <1>6, <2>1 DEF Post
<1>7. ASSUME NEW s \in Sessions, Delivered(s) PROVE PaymentInv'
  <2>1. pc[s] = "inflight" /\ at[s] \in Endpoints /\ obj[s][at[s]] # Nothing
    BY <1>7, NothingAssumption DEF Delivered, WorkInv
  <2> QED BY <1>7, <2>1 DEF Delivered, After
<1>8. ASSUME NEW s \in Sessions, NotDelivered(s) PROVE PaymentInv'
  <2>1. pc[s] = "inflight" /\ at[s] \in Endpoints /\ obj[s][at[s]] # Nothing
    BY <1>8, NothingAssumption DEF NotDelivered, WorkInv
  <2> QED BY <1>8, <2>1 DEF NotDelivered, After
<1>9. ASSUME NEW s \in Sessions, Commit(s) PROVE PaymentInv'
  <2>1. CASE s = Payment
    BY <1>9, <2>1 DEF Commit, After
  <2>2. ASSUME s # Payment, NEW e \in Endpoints
        PROVE  row'[e] # Nothing => row[e] # Nothing
    <3>1. row'[e] = Flushed(s, e) /\ s \in Retriers
      BY <1>9, <2>2 DEF Commit
    <3>2. CASE at[s] = e
      BY <2>2, <3>1, <3>2, RetrierAt
    <3>3. CASE at[s] # e
      BY <3>1, <3>3 DEF Flushed, RetrierInv
    <3> QED BY <3>2, <3>3
  <2> QED BY <1>9, <2>1, <2>2 DEF Commit
<1>10. ASSUME NEW s \in Sessions, Rollback(s) PROVE PaymentInv'
  BY <1>10 DEF Rollback, Ended
<1> QED
  BY <1>1, <1>2, <1>3, <1>4, <1>5, <1>6, <1>7, <1>8, <1>9, <1>10 DEF Next

LEMMA RetrierInvStep ==
  ASSUME RecordInv, Next
  PROVE  RetrierInv'
<1> USE DEF RecordInv, IInv, TypeOK, RetrierInv, Retries, Posted, Goto, Sessions
<1>1. CASE GetActiveEndpoints
  BY <1>1 DEF GetActiveEndpoints
<1>2. ASSUME NEW e \in Endpoints, CreateDelivery(e) PROVE RetrierInv'
  BY <1>2 DEF CreateDelivery
<1>3. ASSUME NEW e \in Endpoints, UpdateEndpoint(e) PROVE RetrierInv'
  BY <1>3 DEF UpdateEndpoint
<1>4. ASSUME NEW r \in Retriers, CheckEndpoint(r) PROVE RetrierInv'
  <2>1. pc[r] = "endpoint" /\ at[r] \in Endpoints
    BY <1>4 DEF CheckEndpoint, WorkInv
  <2>2. obj[r][at[r]] = base[r][at[r]] /\ base[r][at[r]].attempt \in Nat
    BY <2>1, RetrierAt
  <2>3. CASE at[r] \in active
    <3>1. obj'[r][at[r]].attempt = base[r][at[r]].attempt + 1
      BY <1>4, <2>1, <2>2, <2>3, RetrierAt DEF CheckEndpoint, AnyRow, RowsOf
    <3>2. obj'[r][at[r]] \in AnyRow
      BY <1>4, <2>1, <2>2, <2>3, RetrierAt DEF CheckEndpoint, AnyRow, RowsOf
    <3> QED BY <1>4, <2>1, <2>2, <2>3, <3>1, <3>2, NothingAssumption DEF CheckEndpoint
  <2>4. CASE at[r] \notin active
    BY <1>4, <2>1, <2>2, <2>4 DEF CheckEndpoint
  <2> QED BY <2>3, <2>4
<1>5. ASSUME NEW r \in Retriers, NEW e \in Endpoints, Load(r, e) PROVE RetrierInv'
  <2>1. at[r] \notin Endpoints
    BY <1>5 DEF Load
  <2> QED BY <1>5, <2>1 DEF Load
<1>6. ASSUME NEW s \in Sessions, NEW o \in AnyRow, NEW l \in Labels,
             pc[s] \in {"attempt", "inflight"},
             o.attempt = obj[s][at[s]].attempt,
             obj' = [obj EXCEPT ![s][at[s]] = o],
             pc' = [pc EXCEPT ![s] = l],
             l \in {"inflight", After(s)},
             UNCHANGED <<at, base>>
      PROVE  RetrierInv'
  <2> DEFINE e == at[s]
  <2>0. e \in Endpoints
    BY <1>6 DEF WorkInv
  <2>1. /\ obj'[s][e] = o /\ pc'[s] = l
        /\ \A t \in Sessions : t # s => pc'[t] = pc[t]
        /\ \A t \in Sessions, f \in Endpoints :
              t # s \/ f # e => obj'[t][f] = obj[t][f]
    BY <1>6, <2>0, Updates
  <2>2. CASE s = Payment
    BY <1>6, <2>1, <2>2
  <2>3. CASE s \in Retriers
    <3>1. /\ obj[s][e].attempt = base[s][e].attempt + 1
          /\ base[s][e].status # "DELIVERED"
          /\ base[s][e].attempt \in Nat
          /\ base[s][e] # Nothing
      BY <1>6, <2>0, <2>3, RetrierAt
    <3>2. o # Nothing
      BY NothingAssumption
    <3>3. Retries(s, e)'
      BY <1>6, <2>1, <2>3, <3>1, <3>2 DEF After
    <3> HIDE DEF Retries
    <3>4. \A r \in Retriers, f \in Endpoints :
             r # s /\ at[r] = f => Retries(r, f)'
      BY <1>6, <2>1 DEF Retries
    <3> QED BY <1>6, <2>1, <3>3, <3>4
  <2> QED BY <2>2, <2>3
<1>7. ASSUME NEW s \in Sessions, Post(s) PROVE RetrierInv'
  <2> DEFINE o == [obj[s][at[s]] EXCEPT !.status = "ATTEMPTING"]
  <2>1. obj[s][at[s]] \in AnyRow
    BY <1>7 DEF Post, WorkInv
  <2>2. o \in AnyRow /\ o.attempt = obj[s][at[s]].attempt
    BY <2>1 DEF AnyRow, RowsOf
  <2>3. /\ pc[s] \in {"attempt", "inflight"} /\ pc' = [pc EXCEPT ![s] = "inflight"]
        /\ obj' = [obj EXCEPT ![s][at[s]] = o]
        /\ UNCHANGED <<at, base>>
        /\ "inflight" \in Labels
    BY <1>7 DEF Post, Labels
  <2> HIDE DEF o
  <2> QED BY <1>6, <2>2, <2>3
<1>8. ASSUME NEW s \in Sessions, Delivered(s) \/ NotDelivered(s) PROVE RetrierInv'
  <2>1. obj[s][at[s]] \in AnyRow /\ pc[s] = "inflight"
    BY <1>8 DEF Delivered, NotDelivered, WorkInv
  <2>2. After(s) \in Labels
    BY DEF After, Labels
  <2>3. PICK o : /\ obj' = [obj EXCEPT ![s][at[s]] = o]
                 /\ o \in {Row("DELIVERED", obj[s][at[s]].attempt, NoRetry),
                           Verdict(obj[s][at[s]])}
    BY <1>8 DEF Delivered, NotDelivered
  <2>4. o \in AnyRow /\ o.attempt = obj[s][at[s]].attempt
    BY <2>1, <2>3 DEF AnyRow, RowsOf, Row, NoRetry, Verdict, Committed
  <2>5. pc' = [pc EXCEPT ![s] = After(s)] /\ UNCHANGED <<at, base>>
    BY <1>8 DEF Delivered, NotDelivered
  <2> QED BY <1>6, <2>1, <2>2, <2>3, <2>4, <2>5
<1>9. ASSUME NEW s \in Sessions, Commit(s) PROVE RetrierInv'
  BY <1>9 DEF Commit, After
<1>10. ASSUME NEW s \in Sessions, Rollback(s) PROVE RetrierInv'
  BY <1>10 DEF Rollback, Ended
<1> QED
  BY <1>1, <1>2, <1>3, <1>4, <1>5, <1>7, <1>8, <1>9, <1>10 DEF Next

(* A retry that has counted its attempt works on the row as it still is,   *)
(* and no other one does.                                                  *)
Live(r, e) == at[r] = e /\ Posted(r, e) /\ pc[r] \in {"attempt", "inflight", "commit"}

LEMMA LiveIsAlone ==
  ASSUME RecordInv, NEW r \in Retriers, NEW e \in Endpoints,
         ~ Spoiled(e), Live(r, e)
  PROVE  /\ base[r][e] = row[e]
         /\ \A t \in Retriers : t # r => ~ Live(t, e)
         /\ \A t \in Retriers : t # r => ~ Unsettled(t, e)
<1>1. LaterAttempts(e)
  BY RetrierAt DEF RecordInv, Exact, Live
<1>2. ASSUME NEW t \in Retriers, Live(t, e) PROVE base[t][e] = row[e]
  BY <1>1, <1>2 DEF LaterAttempts, Replaced, Spoiled, Live, At
<1>3. ASSUME NEW t \in Retriers, t # r PROVE ~ Live(t, e)
  BY <1>2, <1>3 DEF Spoiled, Live
<1>4. ASSUME NEW t \in Retriers, Unsettled(t, e) PROVE Live(t, e)
  BY <1>4, RetrierAt DEF Unsettled, At, Live, Retries
<1> QED BY <1>2, <1>3, <1>4

(* A step of one session at e leaves the other endpoints alone.            *)
LEMMA ElsewhereKept ==
  ASSUME RecordInv, NEW s \in Sessions, NEW e, at[s] = e,
         NEW f \in Endpoints, f # e,
         row'[f] = row[f], posts'[f] = posts[f], f \in acked' <=> f \in acked,
         UNCHANGED <<at, base>>,
         pc[s] # "rolledback",
         \A t \in Sessions : t # s => pc'[t] = pc[t],
         \A t \in Sessions : obj'[t][f] = obj[t][f]
  PROVE  Exact(f)'
<1>1. Exact(f)
  BY DEF RecordInv
<1>2. \A r \in Retriers : at[r] = f => pc'[r] = pc[r]
  BY DEF Sessions
<1>3. \/ pc'[Payment] = "rolledback" /\ pc[Payment] = "rolledback"
      \/ /\ pc[Payment] # "rolledback"
         /\ At(Payment, f, "attempt")' <=> At(Payment, f, "attempt")
         /\ At(Payment, f, "inflight")' <=> At(Payment, f, "inflight")
  BY DEF At, Sessions
<1> QED BY <1>1, <1>2, <1>3, ExactFrame

LEMMA ExactGet == RecordInv /\ GetActiveEndpoints => \A e \in Endpoints : Exact(e)'
<1> SUFFICES ASSUME RecordInv, GetActiveEndpoints, NEW e \in Endpoints PROVE Exact(e)'
  OBVIOUS
<1>1. /\ pc[Payment] = "begin" /\ pc'[Payment] = "next"
      /\ \A t \in Sessions : t # Payment => pc'[t] = pc[t]
      /\ UNCHANGED <<active, row, at, base, obj, posts, acked>>
  BY DEF GetActiveEndpoints, Goto, RecordInv, IInv, TypeOK, Sessions
<1>2. /\ At(Payment, e, "attempt")' <=> At(Payment, e, "attempt")
      /\ At(Payment, e, "inflight")' <=> At(Payment, e, "inflight")
  BY <1>1 DEF At
<1>3. \A r \in Retriers : pc'[r] = pc[r]
  BY <1>1 DEF Sessions
<1> QED BY <1>1, <1>2, <1>3, ExactFrame DEF RecordInv

LEMMA ExactCreate ==
  ASSUME RecordInv, NEW e \in Endpoints, CreateDelivery(e)
  PROVE  \A f \in Endpoints : Exact(f)'
<1> DEFINE o == Row("PENDING", 1, NoRetry)
<1>1. /\ pc[Payment] = "next" /\ pc'[Payment] = "attempt"
      /\ \A t \in Sessions : t # Payment => pc'[t] = pc[t] /\ at'[t] = at[t]
      /\ at'[Payment] = e
      /\ obj'[Payment][e] = o
      /\ \A t \in Sessions, f \in Endpoints :
            t # Payment \/ f # e => obj'[t][f] = obj[t][f]
      /\ UNCHANGED <<active, row, base, posts, acked>>
      /\ e \in todo
  BY DEF CreateDelivery, Goto, RecordInv, IInv, TypeOK, Sessions
<1>2. \A r \in Retriers : pc'[r] = pc[r] /\ at'[r] = at[r]
  BY <1>1 DEF Sessions
<1>3. ASSUME NEW f \in Endpoints, f # e PROVE Exact(f)'
  <2>1. /\ At(Payment, f, "attempt")' <=> At(Payment, f, "attempt")
        /\ At(Payment, f, "inflight")' <=> At(Payment, f, "inflight")
    BY <1>1, <1>3 DEF At
  <2> QED BY <1>1, <1>2, <1>3, <2>1, ExactFrame DEF RecordInv
<1>4. Exact(e)'
  <2>1. row[e] = Nothing /\ obj[Payment][e] = Nothing
    BY <1>1 DEF RecordInv, PaymentInv
  <2>2. FirstAttempt(e)
    BY <2>1 DEF RecordInv, Exact
  <2>3. o.attempt = 1
    BY DEF Row
  <2> QED BY <1>1, <1>2, <2>1, <2>2, <2>3 DEF Exact, FirstAttempt, At
<1> QED BY <1>3, <1>4

LEMMA ExactLoad ==
  ASSUME RecordInv, NEW r \in Retriers, NEW e \in Endpoints, Load(r, e)
  PROVE  \A f \in Endpoints : Exact(f)'
<1>0. r \in Sessions /\ r # Payment /\ at[r] \notin Endpoints
  BY DEF Sessions, Load, RecordInv, RetrierInv, Retries
<1>1. /\ pc[r] = "begin" /\ row[e] # Nothing
      /\ pc'[r] \in {"commit", "endpoint"}
      /\ \A t \in Sessions : t # r => pc'[t] = pc[t] /\ at'[t] = at[t]
      /\ at'[r] = e
      /\ obj'[r][e] = row[e] /\ base'[r][e] = row[e]
      /\ \A t \in Sessions, f \in Endpoints :
            t # r \/ f # e => obj'[t][f] = obj[t][f] /\ base'[t][f] = base[t][f]
      /\ UNCHANGED <<active, row, todo, posts, acked>>
  BY <1>0 DEF Load, Goto, RecordInv, IInv, TypeOK
<1>2. ASSUME NEW f \in Endpoints, f # e PROVE Exact(f)'
  <2>1. /\ At(Payment, f, "attempt")' <=> At(Payment, f, "attempt")
        /\ At(Payment, f, "inflight")' <=> At(Payment, f, "inflight")
        /\ pc'[Payment] = pc[Payment]
    BY <1>0, <1>1, <1>2 DEF At, Sessions
  <2>2. \A t \in Retriers : /\ at'[t] = f <=> at[t] = f
                            /\ at[t] = f => pc'[t] = pc[t]
    BY <1>0, <1>1, <1>2 DEF Sessions
  <2> QED BY <1>1, <1>2, <2>1, <2>2, ExactFrame DEF RecordInv
<1>3. Exact(e)'
  <2>1. ~ Posted(r, e)' /\ ~ Posted(r, e)
    BY <1>0, <1>1 DEF Posted
  <2>2. \A t \in Retriers : t # r => /\ Posted(t, e)' <=> Posted(t, e)
                                     /\ base'[t][e] = base[t][e] /\ obj'[t][e] = obj[t][e]
                                     /\ pc'[t] = pc[t] /\ at'[t] = at[t]
    BY <1>1 DEF Posted, Sessions
  <2>3. Spoiled(e)' <=> Spoiled(e)
    BY <1>0, <1>1, <2>1, <2>2 DEF Spoiled, At
  <2>4. ASSUME ~ Spoiled(e) PROVE LaterAttempts(e)'
    <3>1. LaterAttempts(e)
      BY <1>1, <2>4 DEF RecordInv, Exact
    <3>2. \A t \in Retriers : t # r /\ Replaced(t, e) => Replaced(t, e)'
      BY <1>0, <1>1, <2>1, <2>2 DEF Replaced, At
    <3>3. \A t \in Retriers : Unsettled(t, e)' <=> Unsettled(t, e)
      BY <1>0, <1>1, <2>1, <2>2 DEF Unsettled, At
    <3>4. Done(row[e], e) => Done(row[e], e)'
      BY <1>1 DEF Done
    <3>5. \A t \in Retriers : t # r => (Done(obj[t][e], e) => Done(obj[t][e], e)')
      BY <1>1, <2>2 DEF Done
    <3>6. (\A t \in Retriers : ~ Unsettled(t, e)') => Done(row[e], e)'
      BY <3>1, <3>3, <3>4 DEF LaterAttempts
    <3>7. \A t \in Retriers : at'[t] = e => base'[t][e] = row'[e] \/ Replaced(t, e)'
      BY <1>1, <2>2, <3>1, <3>2 DEF LaterAttempts
    <3>8. \A t \in Retriers : At(t, e, "inflight")' =>
             obj'[t][e].attempt = posts'[e] /\ e \notin acked'
      BY <1>1, <2>2, <3>1 DEF LaterAttempts, At
    <3>9. \A t \in Retriers : At(t, e, "commit")' /\ Posted(t, e)' => Done(obj[t][e], e)'
      BY <1>1, <2>1, <2>2, <3>1, <3>5 DEF LaterAttempts, At
    <3> QED BY <3>6, <3>7, <3>8, <3>9 DEF LaterAttempts
  <2> QED BY <1>1, <2>3, <2>4 DEF Exact
<1> QED BY <1>2, <1>3

(* A session changes its object at e, and goes on: the retriers at e, and  *)
(* what spoils the record, stay as they were but for that session.         *)
LEMMA SpoiledStays ==
  ASSUME RecordInv, NEW e \in Endpoints,
         UNCHANGED <<at, base>>,
         \A t \in Retriers : Posted(t, e) => Posted(t, e)',
         \A t \in Retriers : pc[t] = "rolledback" => pc'[t] = "rolledback",
         Spoiled(e)
  PROVE  Spoiled(e)'
  BY DEF Spoiled, At

LEMMA ExactCheck ==
  ASSUME RecordInv, NEW r \in Retriers, NEW e \in Endpoints, at[r] = e, CheckEndpoint(r)
  PROVE  \A f \in Endpoints : Exact(f)'
<1>0. r \in Sessions /\ e \in Endpoints /\ pc[r] = "endpoint"
  BY DEF Sessions, CheckEndpoint, RecordInv, IInv, WorkInv
<1>1. /\ obj[r][e] = base[r][e] /\ ~ Posted(r, e)
      /\ row[e] # Nothing /\ r # Payment
  BY <1>0, RetrierAt DEF Retries, Posted
<1>2. /\ pc'[r] \in {"attempt", "commit"}
      /\ pc'[r] = "commit" => obj'[r][e] = obj[r][e]
      /\ \A t \in Sessions : t # r => pc'[t] = pc[t]
      /\ \A t \in Sessions, f \in Endpoints :
            t # r \/ f # e => obj'[t][f] = obj[t][f]
      /\ UNCHANGED <<active, row, todo, at, base, posts, acked>>
  BY <1>0 DEF CheckEndpoint, Goto, RecordInv, IInv, TypeOK
<1>3. ASSUME NEW f \in Endpoints, f # e PROVE Exact(f)'
  BY <1>0, <1>2, <1>3, ElsewhereKept
<1>4. Exact(e)'
  <2>1. \A t \in Retriers : t # r => /\ Posted(t, e)' <=> Posted(t, e)
                                     /\ obj'[t][e] = obj[t][e] /\ pc'[t] = pc[t]
    BY <1>0, <1>2 DEF Posted, Sessions
  <2> SUFFICES ASSUME ~ Spoiled(e)' PROVE LaterAttempts(e)'
    BY <1>1, <1>2 DEF Exact
  <2>2. ~ Spoiled(e)
    BY <1>0, <1>1, <1>2, <2>1, SpoiledStays
  <2>3. LaterAttempts(e)
    BY <1>1, <2>2 DEF RecordInv, Exact
  <2>4. \A t \in Retriers : Replaced(t, e) => Replaced(t, e)'
    BY <1>0, <1>2, <2>1 DEF Replaced, At
  <2>5. ~ Unsettled(r, e) /\ ~ Unsettled(r, e)'
    BY <1>0, <1>1, <1>2 DEF Unsettled, At, Posted
  <2>6. \A t \in Retriers : Unsettled(t, e)' <=> Unsettled(t, e)
    BY <1>2, <2>1, <2>5 DEF Unsettled, At
  <2>7. Done(row[e], e) => Done(row[e], e)'
    BY <1>2 DEF Done
  <2>8. \A t \in Retriers : t # r => (Done(obj[t][e], e) => Done(obj[t][e], e)')
    BY <1>2, <2>1 DEF Done
  <2>9. \A t \in Retriers : at'[t] = e => base'[t][e] = row'[e] \/ Replaced(t, e)'
    BY <1>2, <2>3, <2>4 DEF LaterAttempts
  <2>10. (\A t \in Retriers : ~ Unsettled(t, e)') => Done(row[e], e)'
    BY <2>3, <2>6, <2>7 DEF LaterAttempts
  <2>11. \A t \in Retriers : At(t, e, "inflight")' =>
            obj'[t][e].attempt = posts'[e] /\ e \notin acked'
    BY <1>2, <2>1, <2>3 DEF LaterAttempts, At
  <2>12. \A t \in Retriers : At(t, e, "commit")' /\ Posted(t, e)' => Done(obj[t][e], e)'
    BY <1>2, <2>1, <2>3, <2>5, <2>8 DEF LaterAttempts, At, Unsettled
  <2> QED BY <1>2, <2>9, <2>10, <2>11, <2>12 DEF LaterAttempts
<1> QED BY <1>3, <1>4

LEMMA ExactPost ==
  ASSUME RecordInv, NEW s \in Sessions, NEW e \in Endpoints, at[s] = e, Post(s)
  PROVE  \A f \in Endpoints : Exact(f)'
<1>0. e \in Endpoints /\ pc[s] = "attempt" /\ obj[s][e] \in AnyRow
  BY DEF Post, RecordInv, IInv, WorkInv
<1>1. /\ obj'[s][e].attempt = obj[s][e].attempt
      /\ obj'[s][e] # Nothing
      /\ pc'[s] = "inflight"
      /\ \A t \in Sessions : t # s => pc'[t] = pc[t]
      /\ \A t \in Sessions, f \in Endpoints :
            t # s \/ f # e => obj'[t][f] = obj[t][f]
      /\ posts'[e] = posts[e] + 1 /\ posts[e] \in Nat
      /\ \A f \in Endpoints : f # e => posts'[f] = posts[f]
      /\ UNCHANGED <<active, row, todo, at, base, acked>>
  <2> DEFINE o == [obj[s][e] EXCEPT !.status = "ATTEMPTING"]
  <2>1. o.attempt = obj[s][e].attempt /\ o \in AnyRow
    BY <1>0 DEF AnyRow, RowsOf
  <2>2. o # Nothing
    BY <2>1, NothingAssumption
  <2>3. /\ obj' = [obj EXCEPT ![s][e] = o] /\ pc' = [pc EXCEPT ![s] = "inflight"]
        /\ TypeOK
    BY DEF Post, Goto, RecordInv, IInv
  <2> HIDE DEF o
  <2>4. /\ obj'[s][e] = o /\ pc'[s] = "inflight"
        /\ \A t \in Sessions : t # s => pc'[t] = pc[t]
        /\ \A t \in Sessions, f \in Endpoints :
              t # s \/ f # e => obj'[t][f] = obj[t][f]
    BY <2>3, Updates
  <2>5. /\ posts'[e] = posts[e] + 1 /\ posts[e] \in Nat
        /\ \A f \in Endpoints : f # e => posts'[f] = posts[f]
        /\ UNCHANGED <<active, row, todo, at, base, acked>>
    BY <1>0 DEF Post, RecordInv, IInv, TypeOK
  <2> QED BY <2>1, <2>2, <2>4, <2>5
<1>2. ASSUME NEW f \in Endpoints, f # e PROVE Exact(f)'
  BY <1>0, <1>1, <1>2, ElsewhereKept
<1>3. CASE s = Payment
  <2>1. row[e] = Nothing
    BY <1>0, <1>3 DEF RecordInv, PaymentInv
  <2>2. FirstAttempt(e) /\ obj[s][e] # Nothing
    BY <1>0, <2>1, NothingAssumption DEF RecordInv, Exact
  <2>3. obj[s][e].attempt = 1 /\ posts[e] = 0 /\ e \notin acked
    BY <1>0, <1>3, <2>2 DEF FirstAttempt, At
  <2>4. FirstAttempt(e)'
    BY <1>0, <1>1, <1>3, <2>2, <2>3 DEF FirstAttempt, At
  <2>5. Exact(e)'
    BY <1>1, <2>1, <2>4 DEF Exact
  <2> QED BY <1>2, <2>5
<1>4. CASE s \in Retriers
  <2>0. /\ row[e] # Nothing /\ s # Payment /\ Retries(s, e)
        /\ base[s][e].attempt \in Nat
        /\ obj[s][e].attempt = base[s][e].attempt + 1
        /\ Posted(s, e) /\ base[s][e].status # "DELIVERED"
    BY <1>0, <1>4, RetrierAt DEF Retries
  <2>1. \A t \in Retriers : t # s => /\ Posted(t, e)' <=> Posted(t, e)
                                     /\ obj'[t][e] = obj[t][e] /\ pc'[t] = pc[t]
    BY <1>0, <1>1 DEF Posted, Sessions
  <2>2. Posted(s, e)'
    BY <1>1, <2>0 DEF Posted
  <2>3. Exact(e)'
    <3> SUFFICES ASSUME ~ Spoiled(e)' PROVE LaterAttempts(e)'
      BY <1>1, <2>0 DEF Exact
    <3>1. ~ Spoiled(e)
      BY <1>0, <1>1, <2>1, <2>2, SpoiledStays
    <3>2. LaterAttempts(e)
      BY <2>0, <3>1 DEF RecordInv, Exact
    <3>3. /\ base[s][e] = row[e]
          /\ \A t \in Retriers : t # s => ~ Unsettled(t, e)
      BY <1>0, <1>4, <2>0, <3>1, LiveIsAlone DEF Live
    <3>4. \A t \in Retriers : ~ Unsettled(t, e)
      BY <1>0, <3>3 DEF Unsettled, At
    <3>5. Done(row[e], e)
      BY <3>2, <3>4 DEF LaterAttempts
    <3>6. obj'[s][e].attempt = posts'[e] /\ e \notin acked'
      BY <1>1, <2>0, <3>3, <3>5 DEF Done
    <3>7. \A t \in Retriers : Replaced(t, e) => Replaced(t, e)'
      BY <1>0, <1>1, <2>1 DEF Replaced, At
    <3>8. \A t \in Retriers : at'[t] = e => base'[t][e] = row'[e] \/ Replaced(t, e)'
      BY <1>1, <3>2, <3>7 DEF LaterAttempts
    <3>9. Unsettled(s, e)'
      BY <1>1 DEF Unsettled, At
    <3>10. \A t \in Retriers : t # s => ~ At(t, e, "inflight")'
      BY <1>1, <2>1, <3>3 DEF Unsettled, At
    <3>11. \A t \in Retriers : ~ (At(t, e, "commit")' /\ Posted(t, e)')
      BY <1>1, <2>1, <3>3 DEF Unsettled, At
    <3> QED BY <1>1, <1>4, <3>6, <3>8, <3>9, <3>10, <3>11 DEF LaterAttempts
  <2> QED BY <1>2, <2>3
<1> QED BY <1>3, <1>4 DEF Sessions

(* The answer, or its absence, settles an attempt.                         *)
LEMMA ExactAnswer ==
  ASSUME RecordInv, NEW s \in Sessions, NEW e \in Endpoints, at[s] = e,
         pc[s] = "inflight",
         NEW o \in AnyRow, o.attempt = obj[s][e].attempt,
         obj' = [obj EXCEPT ![s][e] = o],
         pc' = [pc EXCEPT ![s] = After(s)],
         UNCHANGED <<row, at, base, posts>>,
         \A f \in Endpoints : f # e => (f \in acked' <=> f \in acked),
         obj[s][e].attempt = posts[e] /\ e \notin acked => Done(o, e)'
  PROVE  \A f \in Endpoints : Exact(f)'
<1>1. /\ obj'[s][e] = o /\ pc'[s] = After(s)
      /\ \A t \in Sessions : t # s => pc'[t] = pc[t]
      /\ \A t \in Sessions, f \in Endpoints :
            t # s \/ f # e => obj'[t][f] = obj[t][f]
  <2>1. TypeOK
    BY DEF RecordInv, IInv
  <2> QED BY <2>1, Updates
<1>2. ASSUME NEW f \in Endpoints, f # e PROVE Exact(f)'
  BY <1>1, <1>2, ElsewhereKept
<1>3. o # Nothing
  BY NothingAssumption
<1>4. CASE s = Payment
  <2>1. row[e] = Nothing
    BY <1>4 DEF RecordInv, PaymentInv
  <2>2. FirstAttempt(e) /\ obj[s][e] # Nothing
    BY <2>1, NothingAssumption DEF RecordInv, Exact, IInv, WorkInv
  <2>3. obj[s][e].attempt = posts[e] /\ e \notin acked
    BY <1>4, <2>2 DEF FirstAttempt, At
  <2>4. Done(o, e)' /\ Done(obj[s][e], e)'
    BY <1>1, <2>3
  <2>5. pc'[s] = "next"
    BY <1>1, <1>4 DEF After
  <2>6. FirstAttempt(e)'
    BY <1>1, <1>3, <1>4, <2>2, <2>4, <2>5 DEF FirstAttempt, At
  <2>7. Exact(e)'
    BY <2>1, <2>6 DEF Exact
  <2> QED BY <1>2, <2>7
<1>5. CASE s \in Retriers
  <2>0. /\ row[e] # Nothing /\ s # Payment /\ Retries(s, e)
        /\ base[s][e].attempt \in Nat
        /\ obj[s][e].attempt = base[s][e].attempt + 1
        /\ Posted(s, e)
    BY <1>5, RetrierAt DEF Retries
  <2>1. \A t \in Retriers : t # s => /\ Posted(t, e)' <=> Posted(t, e)
                                     /\ obj'[t][e] = obj[t][e] /\ pc'[t] = pc[t]
    BY <1>1 DEF Posted, Sessions
  <2>2. Posted(s, e)' /\ pc'[s] = "commit"
    BY <1>1, <2>0 DEF Posted, After
  <2>3. Exact(e)'
    <3> SUFFICES ASSUME ~ Spoiled(e)' PROVE LaterAttempts(e)'
      BY <2>0 DEF Exact
    <3>1. ~ Spoiled(e)
      BY <1>1, <2>1, <2>2, SpoiledStays
    <3>2. LaterAttempts(e)
      BY <2>0, <3>1 DEF RecordInv, Exact
    <3>3. \A t \in Retriers : t # s => ~ Unsettled(t, e)
      BY <1>5, <2>0, <3>1, LiveIsAlone DEF Live
    <3>4. Done(o, e)' /\ Done(obj[s][e], e)'
      BY <1>1, <1>5, <3>2 DEF LaterAttempts, At
    <3>5. \A t \in Retriers : Replaced(t, e) => Replaced(t, e)'
      BY <1>1, <2>1 DEF Replaced, At
    <3>6. \A t \in Retriers : at'[t] = e => base'[t][e] = row'[e] \/ Replaced(t, e)'
      BY <3>2, <3>5 DEF LaterAttempts
    <3>7. Unsettled(s, e)'
      BY <2>2 DEF Unsettled, At
    <3>8. \A t \in Retriers : ~ At(t, e, "inflight")'
      BY <2>1, <2>2, <3>3 DEF Unsettled, At
    <3>9. \A t \in Retriers : t # s => ~ (At(t, e, "commit")' /\ Posted(t, e)')
      BY <2>1, <3>3 DEF Unsettled, At
    <3> QED BY <1>5, <3>4, <3>6, <3>7, <3>8, <3>9 DEF LaterAttempts
  <2> QED BY <1>2, <2>3
<1> QED BY <1>4, <1>5 DEF Sessions

LEMMA ExactDelivered ==
  ASSUME RecordInv, NEW s \in Sessions, Delivered(s)
  PROVE  \A f \in Endpoints : Exact(f)'
<1>1. PICK e \in Endpoints : at[s] = e /\ obj[s][e] \in AnyRow
  BY DEF Delivered, RecordInv, IInv, WorkInv
<1>2. PICK o : /\ o = Row("DELIVERED", obj[s][e].attempt, NoRetry)
               /\ obj' = [obj EXCEPT ![s][e] = o]
               /\ pc' = [pc EXCEPT ![s] = After(s)]
               /\ acked' = acked \union {e}
               /\ UNCHANGED <<active, row, todo, at, base, posts>>
               /\ pc[s] = "inflight"
  BY <1>1 DEF Delivered, Goto
<1>3. o \in AnyRow /\ o.attempt = obj[s][e].attempt /\ o.status = "DELIVERED"
  BY <1>1, <1>2 DEF AnyRow, RowsOf, Committed, Row, NoRetry
<1>4. obj[s][e].attempt = posts[e] => Done(o, e)'
  BY <1>2, <1>3 DEF Done
<1> QED BY <1>1, <1>2, <1>3, <1>4, ExactAnswer

LEMMA ExactNotDelivered ==
  ASSUME RecordInv, NEW s \in Sessions, NotDelivered(s)
  PROVE  \A f \in Endpoints : Exact(f)'
<1>1. PICK e \in Endpoints : at[s] = e /\ obj[s][e] \in AnyRow
  BY DEF NotDelivered, RecordInv, IInv, WorkInv
<1>2. PICK o : /\ o = Verdict(obj[s][e])
               /\ obj' = [obj EXCEPT ![s][e] = o]
               /\ pc' = [pc EXCEPT ![s] = After(s)]
               /\ UNCHANGED <<active, row, todo, at, base, posts, acked>>
               /\ pc[s] = "inflight"
  BY <1>1 DEF NotDelivered, Goto
<1>3. /\ o \in AnyRow /\ o.attempt = obj[s][e].attempt
      /\ o.status \in {"FAILED", "EXHAUSTED"}
      /\ o.status = "FAILED" => o.attempt < MaxAttempts
      /\ o.status = "EXHAUSTED" => o.attempt >= MaxAttempts
  BY <1>1, <1>2, MaxAssumption DEF AnyRow, RowsOf, Committed, Row, Verdict
<1>4. obj[s][e].attempt = posts[e] /\ e \notin acked => Done(o, e)'
  BY <1>2, <1>3 DEF Done
<1> QED BY <1>1, <1>2, <1>3, <1>4, ExactAnswer

LEMMA ExactCommit ==
  ASSUME RecordInv, NEW s \in Sessions, Commit(s)
  PROVE  \A f \in Endpoints : Exact(f)'
<1>1. /\ pc[s] = After(s) /\ pc'[s] = "committed"
      /\ \A t \in Sessions : t # s => pc'[t] = pc[t]
      /\ \A f \in Endpoints : row'[f] = Flushed(s, f)
      /\ UNCHANGED <<active, todo, at, base, obj, posts, acked>>
  BY DEF Commit, Goto, RecordInv, IInv, TypeOK
<1>2. CASE s = Payment
  <2> SUFFICES ASSUME NEW e \in Endpoints PROVE Exact(e)'
    OBVIOUS
  <2>1. row[e] = Nothing /\ base[s][e] = Nothing /\ pc[s] = "next"
    BY <1>1, <1>2 DEF RecordInv, PaymentInv, After
  <2>2. FirstAttempt(e)
    BY <2>1 DEF RecordInv, Exact
  <2>3. \A r \in Retriers : at'[r] # e
    BY <1>1, <2>2 DEF FirstAttempt
  <2>4. row'[e] = obj[s][e]
    BY <1>1, <2>1 DEF Flushed
  <2>5. CASE obj[s][e] = Nothing
    BY <1>1, <1>2, <2>2, <2>3, <2>4, <2>5 DEF Exact, FirstAttempt
  <2>6. CASE obj[s][e] # Nothing
    <3>1. Done(obj[s][e], e)
      BY <1>2, <2>1, <2>2, <2>6 DEF FirstAttempt, At
    <3>2. Done(row[e], e)'
      BY <1>1, <2>4, <3>1 DEF Done
    <3>3. LaterAttempts(e)'
      BY <2>3, <3>2 DEF LaterAttempts, At
    <3> QED BY <2>4, <2>6, <3>3 DEF Exact
  <2> QED BY <2>5, <2>6
<1>3. CASE s # Payment
  <2>0. s \in Retriers /\ pc[s] = "commit"
    BY <1>1, <1>3 DEF Sessions, After
  <2>1. PICK e : e = at[s]
    OBVIOUS
  <2>2. ASSUME NEW f \in Endpoints, f # e PROVE Exact(f)'
    <3>1. row'[f] = row[f]
      BY <1>1, <2>0, <2>1, <2>2 DEF Flushed, RecordInv, RetrierInv
    <3> QED BY <1>1, <2>0, <2>1, <2>2, <3>1, ElsewhereKept
  <2>3. ASSUME e \in Endpoints PROVE Exact(e)'
    <3>0. /\ row[e] # Nothing /\ row[e] \in RowsOf(Committed) /\ Retries(s, e)
          /\ base[s][e] \in RowsOf(Committed) /\ obj[s][e] \in AnyRow
          /\ base[s][e].attempt \in Nat
          /\ obj[s][e] # Nothing /\ base[s][e] # Nothing
      BY <2>0, <2>1, <2>3, RetrierAt DEF Retries
    <3>1. \A t \in Retriers : Posted(t, e)' <=> Posted(t, e)
      BY <1>1 DEF Posted
    <3>2. \A t \in Retriers : t # s => pc'[t] = pc[t]
      BY <1>1 DEF Sessions
    <3>3. row'[e] # Nothing
      BY <1>1, <2>3, <3>0, FlushedRow, NothingAssumption DEF RecordInv, AnyRow, RowsOf
    <3> SUFFICES ASSUME ~ Spoiled(e)' PROVE LaterAttempts(e)'
      BY <3>3 DEF Exact
    <3>4. ~ Spoiled(e)
      <4>1. \A t \in Retriers : pc[t] = "rolledback" => pc'[t] = "rolledback"
        BY <2>0, <3>2
      <4> QED BY <1>1, <2>3, <3>1, <4>1, SpoiledStays
    <3>5. LaterAttempts(e)
      BY <2>3, <3>0, <3>4 DEF RecordInv, Exact
    <3>6. \A t \in Retriers : Replaced(t, e) => Replaced(t, e)'
      BY <1>1, <3>1, <3>2 DEF Replaced, At
    <3>7. \A t \in Retriers : At(t, e, "inflight")' => At(t, e, "inflight")
      BY <1>1, <3>2 DEF At
    <3>8. \A t \in Retriers : At(t, e, "commit")' => At(t, e, "commit") /\ t # s
      BY <1>1, <3>2 DEF At
    <3>9. \A t \in Retriers : Done(obj[t][e], e) => Done(obj[t][e], e)'
      BY <1>1 DEF Done
    <3>10. /\ \A t \in Retriers : At(t, e, "inflight")' =>
                 obj'[t][e].attempt = posts'[e] /\ e \notin acked'
           /\ \A t \in Retriers : At(t, e, "commit")' /\ Posted(t, e)' =>
                 Done(obj[t][e], e)'
      BY <1>1, <3>1, <3>5, <3>7, <3>8, <3>9 DEF LaterAttempts
    <3>11. CASE ~ Posted(s, e)
      <4>1. row'[e] = row[e]
        BY <1>1, <2>1, <2>3, <3>0, <3>11 DEF Flushed, Posted, Row, RowsOf
      <4>2. \A t \in Retriers : at'[t] = e => base'[t][e] = row'[e] \/ Replaced(t, e)'
        BY <1>1, <3>5, <3>6, <4>1 DEF LaterAttempts
      <4>3. \A t \in Retriers : Unsettled(t, e) => Unsettled(t, e)'
        BY <1>1, <2>0, <3>1, <3>2, <3>11 DEF Unsettled, At
      <4>4. Done(row[e], e) => Done(row[e], e)'
        BY <1>1, <4>1 DEF Done
      <4>5. (\A t \in Retriers : ~ Unsettled(t, e)') => Done(row[e], e)'
        BY <3>5, <4>3, <4>4 DEF LaterAttempts
      <4> QED BY <3>10, <4>2, <4>5 DEF LaterAttempts
    <3>12. CASE Posted(s, e)
      <4>1. base[s][e] = row[e]
        BY <2>0, <2>1, <2>3, <3>4, <3>12, LiveIsAlone DEF Live
      <4>2. row'[e] = obj[s][e]
        BY <1>1, <2>3, <3>0, <4>1 DEF Flushed, Row, RowsOf, AnyRow
      <4>3. Done(obj[s][e], e)
        BY <2>0, <2>1, <3>5, <3>12 DEF LaterAttempts, At
      <4>4. Done(row[e], e)'
        BY <1>1, <4>2, <4>3 DEF Done
      <4>5. \A t \in Retriers : at[t] = e /\ base[t][e] = row[e] => Replaced(t, e)'
        BY <1>1, <2>0, <2>1, <3>1, <3>12, <4>1 DEF Replaced, At
      <4>6. \A t \in Retriers : at'[t] = e => Replaced(t, e)'
        BY <1>1, <3>5, <3>6, <4>5 DEF LaterAttempts
      <4> QED BY <3>10, <4>4, <4>6 DEF LaterAttempts
    <3> QED BY <3>11, <3>12
  <2> QED BY <2>2, <2>3
<1> QED BY <1>2, <1>3

LEMMA ExactRollback ==
  ASSUME RecordInv, NEW s \in Sessions, Rollback(s)
  PROVE  \A f \in Endpoints : Exact(f)'
<1>1. /\ pc'[s] = "rolledback" /\ pc[s] # "rolledback"
      /\ \A t \in Sessions : t # s => pc'[t] = pc[t]
      /\ UNCHANGED <<active, row, todo, at, base, obj, posts, acked>>
  BY DEF Rollback, Goto, Ended, RecordInv, IInv, TypeOK
<1>2. CASE s = Payment
  <2>1. \A r \in Retriers : pc'[r] = pc[r]
    BY <1>1, <1>2 DEF Sessions
  <2> QED BY <1>1, <1>2, <2>1, ExactFrame DEF RecordInv
<1>3. CASE s \in Retriers
  <2>1. PICK e : e = at[s]
    OBVIOUS
  <2>2. ASSUME NEW f \in Endpoints, f # e PROVE Exact(f)'
    BY <1>1, <2>1, <2>2, ElsewhereKept
  <2>3. ASSUME e \in Endpoints PROVE Exact(e)'
    <3>1. row'[e] # Nothing
      BY <1>1, <1>3, <2>1, <2>3, RetrierAt
    <3>2. Spoiled(e)'
      BY <1>1, <1>3, <2>1 DEF Spoiled, At
    <3> QED BY <3>1, <3>2 DEF Exact
  <2> QED BY <2>2, <2>3
<1> QED BY <1>2, <1>3 DEF Sessions

LEMMA InductiveRecordInv == RecordInv /\ [Next]_vars => RecordInv'
<1> SUFFICES ASSUME RecordInv, [Next]_vars PROVE RecordInv'
  OBVIOUS
<1>1. IInv'
  BY InductiveIInv DEF RecordInv
<1>2. CASE Next
  <2>1. PaymentInv' /\ RetrierInv'
    BY <1>2, PaymentInvStep, RetrierInvStep
  <2>2. ASSUME NEW e \in Endpoints, UpdateEndpoint(e)
        PROVE  \A f \in Endpoints : Exact(f)'
    BY <2>2 DEF UpdateEndpoint, RecordInv, Exact, FirstAttempt, LaterAttempts, Spoiled,
                Replaced, Unsettled, At, Done, Posted
  <2>3. ASSUME NEW r \in Retriers, CheckEndpoint(r)
        PROVE  \A f \in Endpoints : Exact(f)'
    <3>1. PICK e \in Endpoints : at[r] = e
      BY <2>3 DEF CheckEndpoint, RecordInv, IInv, WorkInv, Sessions
    <3> QED BY <2>3, <3>1, ExactCheck
  <2>4. ASSUME NEW s \in Sessions, Post(s)
        PROVE  \A f \in Endpoints : Exact(f)'
    <3>1. PICK e \in Endpoints : at[s] = e
      BY <2>4 DEF Post, RecordInv, IInv, WorkInv
    <3> QED BY <2>4, <3>1, ExactPost
  <2>5. \A f \in Endpoints : Exact(f)'
    BY <1>2, <2>2, <2>3, <2>4, ExactGet, ExactCreate, ExactLoad, ExactDelivered,
       ExactNotDelivered, ExactCommit, ExactRollback DEF Next
  <2> QED BY <1>1, <2>1, <2>5 DEF RecordInv
<1>3. CASE UNCHANGED vars
  BY <1>1, <1>3 DEF vars, RecordInv, PaymentInv, RetrierInv, Retries, Exact, FirstAttempt,
        LaterAttempts, Spoiled, Replaced, Unsettled, At, Done, Posted
<1> QED BY <1>2, <1>3

LEMMA AlwaysRecordInv == Spec => []RecordInv
  BY InitRecordInv, InductiveRecordInv, PTL DEF Spec

(* webhook_dispatcher.py:226-275 and 364-397: a record no two retries have *)
(* worked on at once, and none has abandoned, counts every POST, and says  *)
(* truly whether the event was acknowledged or given up, for any number of *)
(* retries and of attempts.                                                *)
THEOREM WebhookRecordIsExact == Spec => []RecordIsExact
<1>1. RecordInv => RecordIsExact
  <2> SUFFICES ASSUME RecordInv, NEW e \in Endpoints,
                      row[e] # Nothing, NoneShareALoad(e),
                      \A s \in Sessions : at[s] = e => pc[s] = "committed"
               PROVE  /\ row[e].attempt = posts[e]
                      /\ row[e].status = "DELIVERED" <=> e \in acked
                      /\ row[e].status = "EXHAUSTED" <=>
                            e \notin acked /\ posts[e] >= MaxAttempts
    BY DEF RecordIsExact
  <2>1. \A r \in Retriers : at[r] = e => pc[r] = "committed"
    BY DEF Sessions
  <2>2. ~ Spoiled(e)
    BY <2>1 DEF Spoiled, At, NoneShareALoad, Sessions
  <2>3. \A r \in Retriers : ~ Unsettled(r, e)
    BY <2>1 DEF Unsettled, At
  <2>4. Done(row[e], e)
    BY <2>2, <2>3 DEF RecordInv, Exact, LaterAttempts
  <2>5. row[e] \in RowsOf(Committed) /\ row[e].attempt \in Nat
    BY DEF RecordInv, IInv, TypeOK, RowsOf
  <2>6. row[e].status \in {"DELIVERED", "FAILED", "EXHAUSTED"}
    BY <2>5 DEF RowsOf, Committed
  <2> QED BY <2>4, <2>5, <2>6, MaxAssumption DEF Done
<1> QED BY <1>1, AlwaysRecordInv, PTL
=============================================================================
