------------------------------ MODULE Attempts ------------------------------
(***************************************************************************)
(* The attempts feature of the API: students start attempts at one         *)
(* published assessment, save answers and submit, each through concurrent  *)
(* HTTP requests.  StartAttempt is a chain of reads outside a transaction  *)
(* followed by an insert.  SaveAnswer and SubmitAttempt run inside         *)
(* WithinTx and take the attempt's row lock with SELECT ... FOR UPDATE;    *)
(* their writes become visible when the transaction commits and vanish     *)
(* when the callback returns an error.                                     *)
(*                                                                         *)
(* Every variable of the first block is a committed column of the          *)
(* database.  A request keeps its program counter, its arguments and its   *)
(* transaction's uncommitted write.                                        *)
(***************************************************************************)
EXTENDS AttemptGrading, FiniteSets

CONSTANTS Attempts,     \* attempt ids the database may hand out
          Students,
          Requests,     \* request slots: the requests being served at once
          MaxAttempts,  \* assessments.max_attempts
          Duration,     \* the snapshot's duration_minutes
          OpensAt,      \* assessments.opens_at
          ClosesAt,     \* assessments.closes_at
          None,         \* no lock holder, no owner, an item of another attempt
          MaxTime,      \* bound: the clock stops here
          MaxRevision   \* bound: saves issued per answer

ASSUME NumbersAssumption ==
    /\ MaxAttempts \in Nat /\ Duration \in Nat /\ OpensAt \in Nat
    /\ ClosesAt \in Nat /\ MaxTime \in Nat /\ MaxRevision \in Nat
ASSUME RequestsAssumption == IsFiniteSet(Requests)
ASSUME NoneAssumption == None \notin Requests \cup Students \cup Items

VARIABLES now,          \* the server clock
          status,       \* attempts.status, "NONE" before the row exists
          owner,        \* attempts.student_user_id
          expiresAt,    \* attempts.expires_at
          submittedAt,  \* attempts.submitted_at
          verdict,      \* attempts.score and grading_status
          sheet,        \* the attempt_answers rows
          lock          \* the request that holds the row lock, or None

VARIABLES pc, req, tx   \* the requests

\* The saves acknowledged and the submit results returned to the clients, and
\* the students who ever had two starts in flight: history, read by the
\* properties only.
VARIABLES acks, replies, overlapped

rowVars == <<status, owner, expiresAt, submittedAt, verdict, sheet>>
history == <<acks, replies, overlapped>>
vars == <<now, rowVars, lock, pc, req, tx, history>>

-----------------------------------------------------------------------------
(* Types and initial state *)

Statuses == {"NONE", "IN_PROGRESS", "SUBMITTED", "EXPIRED"}
Ops == {"start", "save", "submit"}

Request == [op : Ops, student : Students, attempt : Attempts \cup {None},
            item : Items \cup {None}, payload : Payloads \cup {None},
            began : Nat]

\* began: when the transaction began, which is PostgreSQL's now() in it.
\* write: what the transaction will make visible if it commits.
\* error: the error its callback returns, "" for nil.
Transaction == [write : {"none", "expire", "answer", "submit"},
                error : {"", "refused", "expired"},
                result : Result \cup {NoResult}, deadline : Nat]
NoTx == [write |-> "none", error |-> "", result |-> NoResult, deadline |-> 0]

Ack == [attempt : Attempts, item : Items, revision : Nat,
        payload : Payloads, student : Students]

Controls == {"idle", "assigned", "existing", "count", "insert",
             "load", "grade", "end"}

Init ==
    /\ now = 0
    /\ status = [a \in Attempts |-> "NONE"]
    /\ owner = [a \in Attempts |-> None]
    /\ expiresAt = [a \in Attempts |-> 0]
    /\ submittedAt = [a \in Attempts |-> 0]
    /\ verdict = [a \in Attempts |-> NoResult]
    /\ sheet = [a \in Attempts |-> [i \in Items |-> NoAnswer]]
    /\ lock = [a \in Attempts |-> None]
    /\ pc = [r \in Requests |-> "idle"]
    /\ req = [r \in Requests |-> None]
    /\ tx = [r \in Requests |-> NoTx]
    /\ acks = {} /\ replies = {} /\ overlapped = {}

-----------------------------------------------------------------------------
(* Helpers *)

Active(op) == {r \in Requests : pc[r] # "idle" /\ req[r].op = op}
AttemptsOf(s) == {a \in Attempts : status[a] # "NONE" /\ owner[a] = s}
Unused == {a \in Attempts : status[a] = "NONE"}

\* availabilityAt: the closing instant is closed, the opening instant open.
Available(t) == OpensAt <= t /\ t < ClosesAt

\* expires_at.Before(now): the deadline itself is still in time.
Late(a) == expiresAt[a] < now

\* The row a request names, under the tenant and owner filter of the SQL.
Owns(r) == status[req[r].attempt] # "NONE" /\ owner[req[r].attempt] = req[r].student

Goto(r, label) == pc' = [pc EXCEPT ![r] = label]

\* The request is answered; its transaction, if any, is over.
Finish(r) ==
    /\ pc' = [pc EXCEPT ![r] = "idle"]
    /\ req' = [req EXCEPT ![r] = None]
    /\ tx' = [tx EXCEPT ![r] = NoTx]

-----------------------------------------------------------------------------
(* Clients and the environment *)

Issue(r, q, label) ==
    /\ pc[r] = "idle"
    /\ req' = [req EXCEPT ![r] = q]
    /\ Goto(r, label)
    /\ UNCHANGED <<now, rowVars, lock, tx, acks, replies>>

IssueStart(r, s) ==
    /\ Cardinality(Active("start")) < Cardinality(Unused)
    /\ Issue(r, [op |-> "start", student |-> s, attempt |-> None,
                 item |-> None, payload |-> None, began |-> 0], "assigned")
    /\ overlapped' = IF \E o \in Active("start") : req[o].student = s
                     THEN overlapped \cup {s} ELSE overlapped

IssueSave(r, s, a, i, p) ==
    /\ status[a] # "NONE"
    /\ i # None => sheet[a][i].revision + Cardinality(Active("save")) < MaxRevision
    /\ Issue(r, [op |-> "save", student |-> s, attempt |-> a, item |-> i,
                 payload |-> p, began |-> now], "load")
    /\ UNCHANGED overlapped

IssueSubmit(r, s, a) ==
    /\ status[a] # "NONE"
    /\ Issue(r, [op |-> "submit", student |-> s, attempt |-> a, item |-> None,
                 payload |-> None, began |-> now], "load")
    /\ UNCHANGED overlapped

Tick ==
    /\ now < MaxTime
    /\ now' = now + 1
    /\ UNCHANGED <<rowVars, lock, pc, req, tx, history>>

-----------------------------------------------------------------------------
(* StartAttempt: four reads, each of its own snapshot, then the insert *)

\* Whether the query lists the assessment for the student depends on its
\* status, targets and enrolments, which other features change at any time.
CheckAssigned(r) ==
    /\ pc[r] = "assigned"
    /\ \/ Available(now) /\ Goto(r, "existing") /\ UNCHANGED <<req, tx>>
       \/ Finish(r)
    /\ UNCHANGED <<now, rowVars, lock, history>>

FindExisting(r) ==
    /\ pc[r] = "existing"
    /\ IF \E a \in AttemptsOf(req[r].student) : status[a] = "IN_PROGRESS"
       THEN Finish(r)
       ELSE Goto(r, "count") /\ UNCHANGED <<req, tx>>
    /\ UNCHANGED <<now, rowVars, lock, history>>

\* Mistake: the limit is compared with > instead of >=.
CountAttemptsOffByOne(r) ==
    /\ pc[r] = "count"
    /\ IF Cardinality(AttemptsOf(req[r].student)) > MaxAttempts
       THEN Finish(r)
       ELSE /\ Goto(r, "insert")
            /\ tx' = [tx EXCEPT ![r].deadline = now + Duration]
            /\ UNCHANGED req
    /\ UNCHANGED <<now, rowVars, lock, history>>

CountAttempts(r) ==
    /\ pc[r] = "count"
    /\ IF Cardinality(AttemptsOf(req[r].student)) >= MaxAttempts
       THEN Finish(r)
       ELSE /\ Goto(r, "insert")
            /\ tx' = [tx EXCEPT ![r].deadline = now + Duration]
            /\ UNCHANGED req
    /\ UNCHANGED <<now, rowVars, lock, history>>

InsertAttempt(r) ==
    /\ pc[r] = "insert"
    /\ \E a \in Unused :
          /\ status' = [status EXCEPT ![a] = "IN_PROGRESS"]
          /\ owner' = [owner EXCEPT ![a] = req[r].student]
          /\ expiresAt' = [expiresAt EXCEPT ![a] = tx[r].deadline]
    /\ Finish(r)
    /\ UNCHANGED <<now, submittedAt, verdict, sheet, lock, history>>

-----------------------------------------------------------------------------
(* SaveAnswer and SubmitAttempt: SELECT ... FOR UPDATE, then the decision *)

\* No row matches the filter, so nothing is locked.
NotFound(r) ==
    /\ pc[r] = "load"
    /\ ~Owns(r)
    /\ Finish(r)
    /\ UNCHANGED <<now, rowVars, lock, history>>

\* Mistake: a plain SELECT, without FOR UPDATE.
LockRowNot(r) ==
    /\ pc[r] = "load"
    /\ Owns(r)
    /\ lock' = [lock EXCEPT ![req[r].attempt] = r]
    /\ UNCHANGED <<now, rowVars, req, history>>

LockRow(r) ==
    /\ pc[r] = "load"
    /\ Owns(r)
    /\ lock[req[r].attempt] = None
    /\ lock' = [lock EXCEPT ![req[r].attempt] = r]
    /\ UNCHANGED <<now, rowVars, req, history>>

Decide(r, write, error) ==
    tx' = [tx EXCEPT ![r].write = write, ![r].error = error]

SaveDecision(r) ==
    LET a == req[r].attempt IN
    \/ status[a] # "IN_PROGRESS" /\ Decide(r, "none", "refused")
    \/ status[a] = "IN_PROGRESS" /\ Late(a) /\ Decide(r, "expire", "expired")
    \/ /\ status[a] = "IN_PROGRESS" /\ ~Late(a)
       /\ IF req[r].item = None THEN Decide(r, "none", "refused")
                                ELSE Decide(r, "answer", "")

SaveLoad(r) ==
    /\ LockRow(r)
    /\ req[r].op = "save"
    /\ SaveDecision(r)
    /\ Goto(r, "end")

\* A submitted attempt answers with its stored result; an attempt past its
\* deadline is marked EXPIRED by the transaction, which then fails.
SubmitLoad(r) ==
    LET a == req[r].attempt IN
    /\ LockRow(r)
    /\ req[r].op = "submit"
    /\ \/ /\ status[a] # "IN_PROGRESS"
          /\ tx' = IF status[a] = "SUBMITTED"
                   THEN [tx EXCEPT ![r].result = verdict[a]]
                   ELSE [tx EXCEPT ![r].error = "refused"]
          /\ Goto(r, "end")
       \/ /\ status[a] = "IN_PROGRESS" /\ Late(a)
          /\ Decide(r, "expire", "expired")
          /\ Goto(r, "end")
       \/ /\ status[a] = "IN_PROGRESS" /\ ~Late(a)
          /\ Goto(r, "grade")
          /\ UNCHANGED tx

\* GetAttemptItems reads through the pool, outside the transaction.
GradeItems(r) ==
    /\ pc[r] = "grade"
    /\ tx' = [tx EXCEPT ![r].write = "submit",
                        ![r].result = GradeAttempt(sheet[req[r].attempt])]
    /\ Goto(r, "end")
    /\ UNCHANGED <<now, rowVars, lock, req, history>>

-----------------------------------------------------------------------------
(* The end of WithinTx *)

Unlock(r) == lock' = [lock EXCEPT ![req[r].attempt] = None]

\* Mistake: ON CONFLICT DO UPDATE keeps the revision.
CommitAnswerSameRevision(r) ==
    LET a == req[r].attempt
        i == req[r].item
        row == [revision |-> 1, payload |-> req[r].payload]
    IN  /\ pc[r] = "end" /\ tx[r].error = "" /\ tx[r].write = "answer"
        /\ sheet' = [sheet EXCEPT ![a][i] = row]
        /\ acks' = acks \cup {[attempt |-> a, item |-> i, revision |-> row.revision,
                               payload |-> row.payload, student |-> req[r].student]}
        /\ Unlock(r) /\ Finish(r)
        /\ UNCHANGED <<now, status, owner, expiresAt, submittedAt,
                       verdict, replies, overlapped>>

\* The reply to a committed request may get lost.
CommitAnswer(r) ==
    LET a == req[r].attempt
        i == req[r].item
        row == [revision |-> sheet[a][i].revision + 1, payload |-> req[r].payload]
    IN  /\ pc[r] = "end" /\ tx[r].error = "" /\ tx[r].write = "answer"
        /\ sheet' = [sheet EXCEPT ![a][i] = row]
        /\ \/ acks' = acks \cup
                  {[attempt |-> a, item |-> i, revision |-> row.revision,
                    payload |-> row.payload, student |-> req[r].student]}
           \/ UNCHANGED acks
        /\ Unlock(r) /\ Finish(r)
        /\ UNCHANGED <<now, status, owner, expiresAt, submittedAt,
                       verdict, replies, overlapped>>

\* Mistake: status and grading_status change places in the UPDATE.
CommitSubmitSwapped(r) ==
    LET a == req[r].attempt IN
    /\ pc[r] = "end" /\ tx[r].error = "" /\ tx[r].write = "submit"
    /\ status' = [status EXCEPT ![a] = tx[r].result.grading]
    /\ submittedAt' = [submittedAt EXCEPT ![a] = req[r].began]
    /\ verdict' = [verdict EXCEPT ![a] = tx[r].result]
    /\ replies' = replies \cup {[attempt |-> a, result |-> tx[r].result]}
    /\ Unlock(r) /\ Finish(r)
    /\ UNCHANGED <<now, owner, expiresAt, sheet, acks, overlapped>>

CommitSubmit(r) ==
    LET a == req[r].attempt IN
    /\ pc[r] = "end" /\ tx[r].error = "" /\ tx[r].write = "submit"
    /\ status' = [status EXCEPT ![a] = "SUBMITTED"]
    /\ submittedAt' = [submittedAt EXCEPT ![a] = req[r].began]
    /\ verdict' = [verdict EXCEPT ![a] = tx[r].result]
    /\ \/ replies' = replies \cup {[attempt |-> a, result |-> tx[r].result]}
       \/ UNCHANGED replies
    /\ Unlock(r) /\ Finish(r)
    /\ UNCHANGED <<now, owner, expiresAt, sheet, acks, overlapped>>

\* A repeated submit commits an empty transaction.
CommitReply(r) ==
    /\ pc[r] = "end" /\ tx[r].error = "" /\ tx[r].write = "none"
    /\ \/ replies' = replies \cup
              {[attempt |-> req[r].attempt, result |-> tx[r].result]}
       \/ UNCHANGED replies
    /\ Unlock(r) /\ Finish(r)
    /\ UNCHANGED <<now, rowVars, acks, overlapped>>

\* Mistake: the error path forgets to roll back and leaves the lock.
RollbackNot(r) ==
    /\ pc[r] = "end" /\ tx[r].error # ""
    /\ Finish(r)
    /\ UNCHANGED <<now, rowVars, lock, history>>

\* An error from the callback discards every write of the transaction.
Rollback(r) ==
    /\ pc[r] = "end" /\ tx[r].error # ""
    /\ Unlock(r) /\ Finish(r)
    /\ UNCHANGED <<now, rowVars, history>>

\* The 15 second limit passes, the client goes away or the server dies: the
\* transaction is rolled back and nobody is told anything.
Abort(r) ==
    /\ pc[r] # "idle"
    /\ lock' = [a \in Attempts |-> IF lock[a] = r THEN None ELSE lock[a]]
    /\ Finish(r)
    /\ UNCHANGED <<now, rowVars, history>>

-----------------------------------------------------------------------------
(* The specification *)

ServerStep(r) ==
    \/ CheckAssigned(r) \/ FindExisting(r) \/ CountAttempts(r) \/ InsertAttempt(r)
    \/ NotFound(r) \/ SaveLoad(r) \/ SubmitLoad(r) \/ GradeItems(r)
    \/ CommitAnswer(r) \/ CommitSubmit(r) \/ CommitReply(r) \/ Rollback(r)

ClientStep(r) ==
    \E s \in Students :
        \/ IssueStart(r, s)
        \/ \E a \in Attempts :
              \/ \E i \in Items \cup {None}, p \in Payloads : IssueSave(r, s, a, i, p)
              \/ IssueSubmit(r, s, a)

Next ==
    \/ \E r \in Requests : ServerStep(r) \/ ClientStep(r) \/ Abort(r)
    \/ Tick

Spec == Init /\ [][Next]_vars

\* The server runs every request; PostgreSQL grants a row lock to its waiters
\* in turn.  Clients, the clock and aborted requests are not fair.
Fairness ==
    \A r \in Requests :
        WF_vars(ServerStep(r)) /\ SF_vars(SaveLoad(r) \/ SubmitLoad(r))

FairSpec == Spec /\ Fairness

-----------------------------------------------------------------------------
(* Properties *)

\* Type invariant: the columns, locks and request records stay in their
\* domains; EXPIRED belongs to the column's CHECK although no run reaches it.
TypeOK ==
    /\ now \in Nat
    /\ status \in [Attempts -> Statuses]
    /\ owner \in [Attempts -> Students \cup {None}]
    /\ expiresAt \in [Attempts -> Nat]
    /\ submittedAt \in [Attempts -> Nat]
    /\ verdict \in [Attempts -> Result \cup {NoResult}]
    /\ sheet \in [Attempts -> AnswerSheet]
    /\ lock \in [Attempts -> Requests \cup {None}]
    /\ pc \in [Requests -> Controls]
    /\ req \in [Requests -> Request \cup {None}]
    /\ tx \in [Requests -> Transaction]
    /\ acks \subseteq Ack
    /\ replies \subseteq [attempt : Attempts, result : Result \cup {NoResult}]
    /\ overlapped \subseteq Students

\* A submitted attempt carries the grade of exactly the answers it stores:
\* no save slips in between the read of the items and the commit of the
\* submit, and none arrives afterwards.  One that is not over has no grade.
ScoreMatchesAnswers ==
    \A a \in Attempts :
        /\ status[a] = "SUBMITTED" => verdict[a] = GradeAttempt(sheet[a])
        /\ status[a] \in {"NONE", "IN_PROGRESS"} => verdict[a] = NoResult

\* Submit is idempotent: however often and by however many concurrent
\* requests it is repeated, every success reports the one stored result.
SubmitRepliesAgree ==
    \A p \in replies :
        status[p.attempt] = "SUBMITTED" /\ p.result = verdict[p.attempt]

\* An acknowledged save is durable and has a revision of its own: the stored
\* answer is that one or a later one, and no two saves share a revision.
AcknowledgedAnswersStored ==
    /\ \A k \in acks :
          LET row == sheet[k.attempt][k.item] IN
          \/ row.revision > k.revision
          \/ row.revision = k.revision /\ row.payload = k.payload
    /\ \A k, l \in acks :
          k.attempt = l.attempt /\ k.item = l.item /\ k.revision = l.revision
             => k = l

\* Nothing ties the reads of a start to its insert.  Starts of a student that
\* never overlap respect the limit and leave one attempt in progress at most;
\* overlapping ones exceed it by no more than the requests there are besides
\* the first.
LimitOvershootBounded ==
    \A s \in Students :
        /\ s \notin overlapped =>
              /\ Cardinality(AttemptsOf(s)) <= MaxAttempts
              /\ Cardinality({a \in AttemptsOf(s) : status[a] = "IN_PROGRESS"}) <= 1
        /\ AttemptsOf(s) # {} =>
              Cardinality(AttemptsOf(s)) < MaxAttempts + Cardinality(Requests)

\* Requests implement the atomic attempt life cycle.  (That an attempt found
\* past its deadline never becomes EXPIRED is ExpiryRecorded, below.)
Lifecycle == INSTANCE AttemptLifecycle WITH phase <- status
ImplementsLifecycle == Lifecycle!Spec

\* No request waits forever for a row lock or leaves one behind: each one
\* that is taken up is answered.
RequestsFinish == \A r \in Requests : pc[r] # "idle" ~> pc[r] = "idle"

\* What the documents say and the code does not do.
\* docs: an attempt count below the allowed number is a condition of a start.
AttemptLimitEnforced ==
    \A s \in Students : Cardinality(AttemptsOf(s)) <= MaxAttempts

\* docs: the request that finds an attempt past its deadline moves it to
\* EXPIRED.
ExpiryRecorded ==
    [][\A r \in Requests :
          Rollback(r) /\ tx[r].error = "expired"
             => status'[req[r].attempt] = "EXPIRED"]_vars

=============================================================================
