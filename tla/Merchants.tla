------------------------------ MODULE Merchants ------------------------------
(***************************************************************************)
(* Registration, login and the merchant's own changes (api/v1/merchants.py,*)
(* api/router.py), each request in a session of its own.  A registration   *)
(* looks the e-mail up and inserts a row, which is known here by the       *)
(* request that inserts it.  A change logs in, loads the row, and writes   *)
(* the columns whose values differ from what it has loaded: update_profile *)
(* those its payload names, change_password the password, generate_key the *)
(* hash and the date of the key.  A value of a column stands for whatever  *)
(* a request puts there.                                                   *)
(***************************************************************************)
CONSTANTS Requests,
          Registrations, \* those that POST /register; the others are changes
          EmailOf,       \* the e-mail of a request or of its merchant
          Columns,       \* of a row, "password" among them
          Sets,          \* the columns a request gives, and their values
          Knows,         \* the password a change logs in with and, if it is
                         \* change_password, sends as the current one
          Default,       \* the value of a column that is not given
          Nobody,        \* no row, nobody's lock
          Weathers       \* sets of faults: what may go wrong in a behaviour

Changes == Requests \ Registrations
Given   == UNION {{Sets[q][c] : c \in DOMAIN Sets[q]} : q \in Requests}
Values  == Given \union {Default}
Rows    == [Columns -> Values]

ASSUME RequestsAssumption ==
  /\ Registrations \subseteq Requests
  /\ \A q \in Requests : DOMAIN Sets[q] \subseteq Columns
  /\ "password" \in Columns
  /\ \A q \in Registrations : "password" \in DOMAIN Sets[q]
ASSUME NobodyAssumption == Nobody \notin Requests /\ Nobody \notin Rows
ASSUME WeathersAssumption == \A w \in Weathers : w \subseteq {"db", "operator"}

VARIABLES pc,         \* where each request is
          rows,       \* committed rows, by the registration that made them
          suspended,  \* merchants an operator has suspended
          inserting,  \* registrations whose INSERT is not yet committed
          rowLock,    \* the change whose UPDATE of a row is not committed
          who,        \* the merchant a change has loaded
          copy,       \* ... and the row as its session has it
          before,     \* requests that had been answered when this one
                      \* loaded the row, for the property
          faults      \* what may go wrong in this behaviour

vars == <<pc, rows, suspended, inserting, rowLock, who, copy, before, faults>>
session == <<who, copy, before>>

Init == /\ pc = [q \in Requests |-> IF q \in Registrations THEN "look" ELSE "login"]
        /\ rows = [m \in Registrations |-> Nobody]
        /\ suspended = {}
        /\ inserting = {}
        /\ rowLock = [m \in Registrations |-> Nobody]
        /\ who = [q \in Requests |-> Nobody]
        /\ copy = [q \in Requests |-> Nobody]
        /\ before = [q \in Requests |-> {}]
        /\ faults \in Weathers

Goto(q, l) == pc' = [pc EXCEPT ![q] = l]
Registered(e) == {m \in Registrations : rows[m] # Nobody /\ EmailOf[m] = e}
-----------------------------------------------------------------------------
(* register: 409 if the e-mail is there, and else the INSERT.              *)
Look(q) == /\ pc[q] = "look"
           /\ Goto(q, IF Registered(EmailOf[q]) # {} THEN "refused" ELSE "insert")
           /\ UNCHANGED <<rows, suspended, inserting, rowLock, session>>

(* Slip: no unique index.                                                  *)
InsertUnindexed(q) == /\ pc[q] = "insert"
                      /\ inserting' = inserting \union {q}
                      /\ Goto(q, "flushed")
                      /\ UNCHANGED <<rows, suspended, rowLock, session>>

(* The unique index makes an INSERT wait for another of the same e-mail.   *)
Insert(q) == /\ pc[q] = "insert"
             /\ Registered(EmailOf[q]) = {}
             /\ \A r \in inserting : EmailOf[r] # EmailOf[q]
             /\ inserting' = inserting \union {q}
             /\ Goto(q, "flushed")
             /\ UNCHANGED <<rows, suspended, rowLock, session>>

(* IntegrityError, which nothing catches: 500.                             *)
InsertDuplicate(q) == /\ pc[q] = "insert"
                      /\ Registered(EmailOf[q]) # {}
                      /\ Goto(q, "raised")
                      /\ UNCHANGED <<rows, suspended, inserting, rowLock, session>>
-----------------------------------------------------------------------------
(* login: a token for an active merchant's password.                       *)
Login(q) == /\ pc[q] = "login"
            /\ \E m \in Registered(EmailOf[q]) :
                 /\ rows[m]["password"] = Knows[q]
                 /\ m \notin suspended
                 /\ who' = [who EXCEPT ![q] = m]
            /\ Goto(q, "token")
            /\ UNCHANGED <<rows, suspended, inserting, rowLock, copy, before>>

LoginFails(q) == /\ pc[q] = "login"
                 /\ \A m \in Registered(EmailOf[q]) :
                      rows[m]["password"] # Knows[q] \/ m \in suspended
                 /\ Goto(q, "refused")
                 /\ UNCHANGED <<rows, suspended, inserting, rowLock, session>>

(* get_current_merchant: the token names the merchant; its row is loaded   *)
(* into the session the handler works in.                                  *)
GetCurrent(q) == /\ pc[q] = "token"
                 /\ who[q] \notin suspended
                 /\ copy' = [copy EXCEPT ![q] = rows[who[q]]]
                 /\ before' = [before EXCEPT ![q] = {r \in Requests : pc[r] = "done"}]
                 /\ Goto(q, "loaded")
                 /\ UNCHANGED <<rows, suspended, inserting, rowLock, who>>

GetCurrentFails(q) == /\ pc[q] = "token"
                      /\ who[q] \in suspended
                      /\ Goto(q, "refused")
                      /\ UNCHANGED <<rows, suspended, inserting, rowLock, session>>

(* change_password: the current password is compared with the loaded row.  *)
PasswordWrong(q) == "password" \in DOMAIN Sets[q] /\ copy[q]["password"] # Knows[q]

Refuse(q) == /\ pc[q] = "loaded"
             /\ PasswordWrong(q)
             /\ Goto(q, "raised")
             /\ UNCHANGED <<rows, suspended, inserting, rowLock, session>>

(* The columns to write; a hash of the same password is a new one.         *)
Changed(q) == {c \in DOMAIN Sets[q] : c = "password" \/ Sets[q][c] # copy[q][c]}

(* The flush: an UPDATE, which waits for the row, or nothing to write.     *)
Flush(q) == /\ pc[q] = "loaded"
            /\ ~ PasswordWrong(q)
            /\ \/ /\ Changed(q) # {}
                  /\ rowLock[who[q]] = Nobody
                  /\ rowLock' = [rowLock EXCEPT ![who[q]] = q]
               \/ Changed(q) = {} /\ UNCHANGED rowLock
            /\ Goto(q, "flushed")
            /\ UNCHANGED <<rows, suspended, inserting, session>>
-----------------------------------------------------------------------------
(* Slip: columns that are not given stay out of the row.                   *)
NewRowBare(q) == Sets[q]

NewRow(q) == [c \in Columns |-> IF c \in DOMAIN Sets[q] THEN Sets[q][c] ELSE Default]

(* Slip: the whole object is written back.                                 *)
WrittenInFull(q) == [c \in Columns |-> IF c \in Changed(q) THEN Sets[q][c] ELSE copy[q][c]]

(* The UPDATE names the changed columns and meets the row as it is by then.*)
Written(q) == [c \in Columns |-> IF c \in Changed(q) THEN Sets[q][c] ELSE rows[who[q]][c]]

Leave(q) == /\ inserting' = inserting \ {q}
            /\ rowLock' = [m \in Registrations |-> IF rowLock[m] = q THEN Nobody ELSE rowLock[m]]

(* get_db, then the answer.                                                *)
Commit(q) == /\ pc[q] = "flushed"
             /\ rows' = IF q \in Registrations THEN [rows EXCEPT ![q] = NewRow(q)]
                        ELSE IF Changed(q) = {} THEN rows
                        ELSE [rows EXCEPT ![who[q]] = Written(q)]
             /\ Leave(q)
             /\ Goto(q, "done")
             /\ UNCHANGED <<suspended, session>>

(* Also a session that is lost, or whose COMMIT fails.                     *)
Rollback(q) == /\ \/ pc[q] = "raised"
                  \/ "db" \in faults /\ pc[q] \in {"insert", "loaded", "flushed"}
               /\ Leave(q)
               /\ Goto(q, "refused")
               /\ UNCHANGED <<rows, suspended, session>>

(* Nothing in the code suspends or closes a merchant; an operator may.     *)
Suspend(m) == /\ "operator" \in faults
              /\ rows[m] # Nobody /\ rowLock[m] = Nobody /\ m \notin suspended
              /\ suspended' = suspended \union {m}
              /\ UNCHANGED <<pc, rows, inserting, rowLock, session>>

Step(q) == \/ Look(q) \/ Insert(q) \/ InsertDuplicate(q)
           \/ Login(q) \/ LoginFails(q) \/ GetCurrent(q) \/ GetCurrentFails(q)
           \/ Refuse(q) \/ Flush(q) \/ Commit(q) \/ Rollback(q)

Next == /\ \/ \E q \in Requests : Step(q)
           \/ \E m \in Registrations : Suspend(m)
        /\ UNCHANGED faults

Spec == Init /\ [][Next]_vars
-----------------------------------------------------------------------------
Places == {"look", "insert", "login", "token", "loaded", "flushed", "raised", "refused", "done"}

TypeOK == /\ pc \in [Requests -> Places]
          /\ rows \in [Registrations -> Rows \union {Nobody}]
          /\ suspended \subseteq Registrations
          /\ inserting \subseteq Registrations
          /\ rowLock \in [Registrations -> Changes \union {Nobody}]
          /\ who \in [Requests -> Registrations \union {Nobody}]
          /\ copy \in [Requests -> Rows \union {Nobody}]
          /\ before \in [Requests -> SUBSET Requests]
          /\ faults \in Weathers

(* models/merchant.py:61-66: an e-mail has one merchant, although register *)
(* looks and inserts in two steps; a 201 tells of a merchant that is there *)
(* and stays.                                                              *)
OneMerchantPerEmail ==
  /\ \A p, q \in Registrations :
        rows[p] # Nobody /\ rows[q] # Nobody /\ EmailOf[p] = EmailOf[q] => p = q
  /\ \A q \in Registrations : pc[q] = "done" <=> rows[q] # Nobody

(* No change that was answered is lost to another: each column it named    *)
(* holds its value, or that of a change answered after this one had loaded *)
(* the row (merchants.py:97-147); requests on different columns of one row *)
(* do not undo each other.                                                 *)
Target(q) == IF q \in Registrations THEN q ELSE who[q]

NothingIsLost ==
  \A q \in Requests : pc[q] = "done" =>
     \A c \in DOMAIN Sets[q] : \E r \in Requests \ before[q] :
        /\ pc[r] = "done" /\ Target(r) = Target(q)
        /\ c \in DOMAIN Sets[r]
        /\ rows[Target(q)][c] = Sets[r][c]
=============================================================================
