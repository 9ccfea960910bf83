--------------------------- MODULE AttemptsProofs ---------------------------
(***************************************************************************)
(* Theorems about Attempts, for any set of attempts, students, requests,   *)
(* items and answer keys, and any limits.                                  *)
(*                                                                         *)
(* The argument is the row lock.  Between the load of SaveAnswer or        *)
(* SubmitAttempt and the end of its transaction the request holds the lock *)
(* of its attempt (LockInv), so the status it read and the grade it        *)
(* computed are still those of the row when it commits (DecisionInv).      *)
(* A start has no lock: what it read before its insert holds only as long  *)
(* as its student has no second start in flight (StartInv).                *)
(***************************************************************************)
EXTENDS Attempts, FiniteSetTheorems, TLAPS

-----------------------------------------------------------------------------
(* The inductive invariant *)

\* Every control point past the start knows which attempt it works on.
RequestInv ==
    \A r \in Requests :
        /\ pc[r] # "idle" =>
              /\ req[r] \in Request
              /\ req[r].op = "save" => req[r].payload \in Payloads
        /\ pc[r] \in {"load", "grade", "end"} =>
              req[r].attempt \in Attempts
        /\ pc[r] # "end" => tx[r].write = "none" /\ tx[r].error = ""

\* A row lock is held exactly from the load to the end of the transaction.
LockInv ==
    \A a \in Attempts, r \in Requests :
        lock[a] = r <=> pc[r] \in {"grade", "end"} /\ req[r].attempt = a

\* What a transaction decided still fits the row it holds.
DecisionInv ==
    \A r \in Requests :
        LET a == req[r].attempt IN
        /\ pc[r] = "grade" => status[a] = "IN_PROGRESS"
        /\ pc[r] = "end" /\ tx[r].error = "" =>
              /\ tx[r].write = "answer" =>
                    /\ status[a] = "IN_PROGRESS"
                    /\ req[r].item \in Items /\ req[r].payload \in Payloads
              /\ tx[r].write = "submit" =>
                    /\ status[a] = "IN_PROGRESS"
                    /\ tx[r].result = GradeAttempt(sheet[a])
              /\ tx[r].write = "none" =>
                    /\ status[a] = "SUBMITTED"
                    /\ tx[r].result = verdict[a]
              /\ tx[r].write # "expire"

\* The update to EXPIRED is always rolled back.
NeverExpired == \A a \in Attempts : status[a] # "EXPIRED"

IInv ==
    /\ TypeOK
    /\ RequestInv
    /\ LockInv
    /\ DecisionInv
    /\ NeverExpired
    /\ ScoreMatchesAnswers
    /\ SubmitRepliesAgree
    /\ AcknowledgedAnswersStored

-----------------------------------------------------------------------------
(* Data *)

\* A row of attempt_answers, or its absence, has a natural revision.
LEMMA RevisionIsNat == \A x \in Answer \cup {NoAnswer} : x.revision \in Nat
BY DEF Answer, NoAnswer

\* gradeAttempt returns a result for every answer sheet.
LEMMA GradeIsResult == ASSUME NEW s PROVE GradeAttempt(s) \in Result
BY DEF GradeAttempt, Result, CorrectItems

\* The fresh transaction record is well typed.
LEMMA NoTxType == NoTx \in Transaction
BY DEF NoTx, Transaction

\* The updates the actions make to a transaction record keep its type.
LEMMA TxUpdates ==
    ASSUME NEW r \in Requests, tx \in [Requests -> Transaction]
    PROVE  /\ \A d \in Nat :
                 [tx EXCEPT ![r].deadline = d] \in [Requests -> Transaction]
           /\ \A x \in Result \cup {NoResult} :
                 /\ [tx EXCEPT ![r].result = x] \in [Requests -> Transaction]
                 /\ [tx EXCEPT ![r].write = "submit", ![r].result = x]
                        \in [Requests -> Transaction]
           /\ \A e \in {"", "refused", "expired"} :
                 /\ [tx EXCEPT ![r].error = e] \in [Requests -> Transaction]
                 /\ \A w \in {"none", "expire", "answer"} :
                       [tx EXCEPT ![r].write = w, ![r].error = e]
                          \in [Requests -> Transaction]
<1>. DEFINE t == tx[r]
<1>1. t \in Transaction
  OBVIOUS
<1>2. /\ \A d \in Nat : [t EXCEPT !.deadline = d] \in Transaction
      /\ \A x \in Result \cup {NoResult} :
            /\ [t EXCEPT !.result = x] \in Transaction
            /\ [t EXCEPT !.write = "submit", !.result = x] \in Transaction
      /\ \A e \in {"", "refused", "expired"} :
            /\ [t EXCEPT !.error = e] \in Transaction
            /\ \A w \in {"none", "expire", "answer"} :
                  [t EXCEPT !.write = w, !.error = e] \in Transaction
  BY <1>1 DEF Transaction
<1>. QED
  BY <1>1, <1>2

-----------------------------------------------------------------------------
(* Initial states *)

\* The invariant holds before the first request.
LEMMA InitInv == Init => IInv
<1>. SUFFICES ASSUME Init PROVE IInv
  OBVIOUS
<1>1. TypeOK
  BY NoTxType, NoneAssumption DEF Init, TypeOK, Statuses, Controls, AnswerSheet, NoAnswer
<1>2. RequestInv /\ LockInv /\ DecisionInv
  BY NoneAssumption DEF Init, RequestInv, LockInv, DecisionInv, NoTx
<1>3. NeverExpired /\ ScoreMatchesAnswers /\ SubmitRepliesAgree
  BY DEF Init, NeverExpired, ScoreMatchesAnswers, SubmitRepliesAgree
<1>4. AcknowledgedAnswersStored
  BY DEF Init, AcknowledgedAnswersStored
<1>. QED
  BY <1>1, <1>2, <1>3, <1>4 DEF IInv

-----------------------------------------------------------------------------
(* Types *)

\* Every step keeps the columns and the request records in their domains.
LEMMA TypeStep ==
    TypeOK /\ RequestInv /\ DecisionInv /\ [Next]_vars => TypeOK'
<1>. SUFFICES ASSUME TypeOK, RequestInv, DecisionInv, [Next]_vars PROVE TypeOK'
  OBVIOUS
<1>. USE NumbersAssumption DEF TypeOK
<1>1. ASSUME NEW r \in Requests, NEW q \in Request,
             NEW label \in {"assigned", "load"}, Issue(r, q, label),
             overlapped' \subseteq Students
      PROVE  TypeOK'
  BY <1>1 DEF Issue, Goto, Controls, rowVars
<1>2. ASSUME NEW r \in Requests, Finish(r),
             UNCHANGED <<now, rowVars, acks, replies, overlapped>>,
             lock' \in [Attempts -> Requests \cup {None}]
      PROVE  TypeOK'
  BY <1>2, NoTxType DEF Finish, Controls, rowVars
<1>3. ASSUME NEW r \in Requests, ServerStep(r) PROVE TypeOK'
  <2>1. CASE CheckAssigned(r)
    BY <2>1, <1>2 DEF CheckAssigned, Goto, Controls, rowVars, history
  <2>2. CASE FindExisting(r)
    BY <2>2, <1>2 DEF FindExisting, Goto, Controls, rowVars, history
  <2>3. CASE CountAttempts(r)
    <3>1. CASE Cardinality(AttemptsOf(req[r].student)) >= MaxAttempts
      BY <2>3, <3>1, <1>2 DEF CountAttempts, rowVars, history
    <3>2. CASE ~(Cardinality(AttemptsOf(req[r].student)) >= MaxAttempts)
      <4>1. now + Duration \in Nat
        OBVIOUS
      <4>2. [tx EXCEPT ![r].deadline = now + Duration] \in [Requests -> Transaction]
        BY <4>1, TxUpdates
      <4>. QED
        BY <2>3, <3>2, <4>2 DEF CountAttempts, Goto, Controls, rowVars, history
    <3>. QED
      BY <3>1, <3>2
  <2>4. CASE InsertAttempt(r)
    <3>1. req[r] \in Request /\ tx[r] \in Transaction
      BY <2>4 DEF InsertAttempt, RequestInv
    <3>2. /\ status' \in [Attempts -> Statuses]
          /\ owner' \in [Attempts -> Students \cup {None}]
          /\ expiresAt' \in [Attempts -> Nat]
      BY <2>4, <3>1 DEF InsertAttempt, Statuses, Request, Transaction
    <3>3. pc' \in [Requests -> Controls] /\ req' \in [Requests -> Request \cup {None}]
          /\ tx' \in [Requests -> Transaction]
      BY <2>4, NoTxType DEF InsertAttempt, Finish, Controls
    <3>. QED
      BY <2>4, <3>2, <3>3 DEF InsertAttempt, history
  <2>5. CASE NotFound(r)
    BY <2>5, <1>2 DEF NotFound, history
  <2>6. CASE SaveLoad(r)
    <3>1. tx' \in [Requests -> Transaction]
      <4>1. /\ [tx EXCEPT ![r].write = "none", ![r].error = "refused"]
                  \in [Requests -> Transaction]
            /\ [tx EXCEPT ![r].write = "expire", ![r].error = "expired"]
                  \in [Requests -> Transaction]
            /\ [tx EXCEPT ![r].write = "answer", ![r].error = ""]
                  \in [Requests -> Transaction]
        BY TxUpdates
      <4>2. SaveDecision(r)
        BY <2>6 DEF SaveLoad
      <4>. QED
        BY <4>1, <4>2 DEF SaveDecision, Decide
    <3>. QED
      BY <2>6, <3>1 DEF SaveLoad, LockRow, Goto, Controls, rowVars, history
  <2>7. CASE SubmitLoad(r)
    <3>1. req[r].attempt \in Attempts /\ pc[r] = "load"
      BY <2>7 DEF SubmitLoad, LockRow, RequestInv
    <3>2. tx' \in [Requests -> Transaction]
      <4>1. /\ [tx EXCEPT ![r].write = "expire", ![r].error = "expired"]
                  \in [Requests -> Transaction]
            /\ [tx EXCEPT ![r].error = "refused"] \in [Requests -> Transaction]
        BY TxUpdates
      <4>2. [tx EXCEPT ![r].result = verdict[req[r].attempt]]
               \in [Requests -> Transaction]
        BY <3>1, TxUpdates
      <4>. QED
        BY <2>7, <4>1, <4>2 DEF SubmitLoad, Decide
    <3>. QED
      BY <2>7, <3>2 DEF SubmitLoad, LockRow, Goto, Controls, rowVars, history
  <2>8. CASE GradeItems(r)
    BY <2>8, GradeIsResult, TxUpdates DEF GradeItems, Goto, Controls, rowVars, history
  <2>9. CASE CommitAnswer(r)
    <3>. DEFINE a == req[r].attempt
                i == req[r].item
                row == [revision |-> sheet[a][i].revision + 1,
                        payload |-> req[r].payload]
    <3>1. a \in Attempts /\ i \in Items /\ row.payload \in Payloads /\ req[r] \in Request
      BY <2>9 DEF CommitAnswer, RequestInv, DecisionInv
    <3>2. sheet[a] \in AnswerSheet /\ sheet[a][i].revision \in Nat
      BY <3>1, RevisionIsNat DEF AnswerSheet
    <3>3. row \in Answer
      BY <3>1, <3>2 DEF Answer
    <3>4. sheet' \in [Attempts -> AnswerSheet]
      BY <2>9, <3>1, <3>2, <3>3 DEF CommitAnswer, AnswerSheet
    <3>5. acks' \subseteq Ack
      <4>1. [attempt |-> a, item |-> i, revision |-> row.revision,
             payload |-> row.payload, student |-> req[r].student] \in Ack
        BY <3>1, <3>2 DEF Ack, Request
      <4>. QED
        BY <2>9, <4>1 DEF CommitAnswer
    <3>6. lock' \in [Attempts -> Requests \cup {None}]
      BY <2>9 DEF CommitAnswer, Unlock
    <3>. QED
      BY <2>9, <3>4, <3>5, <3>6, NoTxType DEF CommitAnswer, Finish, Controls
  <2>10. CASE CommitSubmit(r)
    <3>1. req[r] \in Request /\ req[r].attempt \in Attempts /\ tx[r] \in Transaction
      BY <2>10 DEF CommitSubmit, RequestInv
    <3>2. /\ status' \in [Attempts -> Statuses]
          /\ submittedAt' \in [Attempts -> Nat]
          /\ verdict' \in [Attempts -> Result \cup {NoResult}]
          /\ replies' \subseteq [attempt : Attempts, result : Result \cup {NoResult}]
      <4>1. tx[r].result \in Result \cup {NoResult} /\ req[r].began \in Nat
        BY <3>1 DEF Request, Transaction
      <4>2. [attempt |-> req[r].attempt, result |-> tx[r].result]
               \in [attempt : Attempts, result : Result \cup {NoResult}]
        BY <3>1, <4>1
      <4>. QED
        BY <2>10, <3>1, <4>1, <4>2 DEF CommitSubmit, Statuses
    <3>3. lock' \in [Attempts -> Requests \cup {None}]
      BY <2>10 DEF CommitSubmit, Unlock
    <3>. QED
      BY <2>10, <3>2, <3>3, NoTxType DEF CommitSubmit, Finish, Controls
  <2>11. CASE CommitReply(r)
    <3>1. req[r].attempt \in Attempts /\ tx[r] \in Transaction
      BY <2>11 DEF CommitReply, RequestInv
    <3>2. replies' \subseteq [attempt : Attempts, result : Result \cup {NoResult}]
      <4>1. [attempt |-> req[r].attempt, result |-> tx[r].result]
               \in [attempt : Attempts, result : Result \cup {NoResult}]
        BY <3>1 DEF Transaction
      <4>. QED
        BY <2>11, <4>1 DEF CommitReply
    <3>3. lock' \in [Attempts -> Requests \cup {None}]
      BY <2>11 DEF CommitReply, Unlock
    <3>. QED
      BY <2>11, <3>2, <3>3, NoTxType DEF CommitReply, Finish, Controls, rowVars
  <2>12. CASE Rollback(r)
    BY <2>12, <1>2 DEF Rollback, Unlock, history
  <2>. QED
    BY <1>3, <2>1, <2>2, <2>3, <2>4, <2>5, <2>6, <2>7, <2>8, <2>9, <2>10, <2>11,
       <2>12 DEF ServerStep
<1>4. ASSUME NEW r \in Requests, ClientStep(r) PROVE TypeOK'
  <2>1. ASSUME NEW s \in Students, IssueStart(r, s) PROVE TypeOK'
    BY <2>1, <1>1 DEF IssueStart, Request, Ops
  <2>2. ASSUME NEW s \in Students, NEW a \in Attempts, NEW i \in Items \cup {None},
               NEW p \in Payloads, IssueSave(r, s, a, i, p)
        PROVE  TypeOK'
    BY <2>2, <1>1 DEF IssueSave, Request, Ops
  <2>3. ASSUME NEW s \in Students, NEW a \in Attempts, IssueSubmit(r, s, a)
        PROVE  TypeOK'
    BY <2>3, <1>1 DEF IssueSubmit, Request, Ops
  <2>. QED
    BY <1>4, <2>1, <2>2, <2>3 DEF ClientStep
<1>5. ASSUME NEW r \in Requests, Abort(r) PROVE TypeOK'
  <2>1. lock' \in [Attempts -> Requests \cup {None}]
    BY <1>5 DEF Abort
  <2>. QED
    BY <1>5, <2>1, <1>2 DEF Abort, history
<1>6. CASE Tick
  BY <1>6 DEF Tick, rowVars, history
<1>7. CASE UNCHANGED vars
  BY <1>7 DEF vars, rowVars, history
<1>. QED
  BY <1>3, <1>4, <1>5, <1>6, <1>7 DEF Next

-----------------------------------------------------------------------------
(* Requests and locks *)

\* A step of one request leaves the others alone.
LEMMA OthersUnchanged ==
    ASSUME TypeOK, NEW r \in Requests,
           ServerStep(r) \/ ClientStep(r) \/ Abort(r),
           NEW o \in Requests, o # r
    PROVE  pc'[o] = pc[o] /\ req'[o] = req[o] /\ tx'[o] = tx[o]
<1>. USE DEF TypeOK
<1>1. Finish(r) => pc'[o] = pc[o] /\ req'[o] = req[o] /\ tx'[o] = tx[o]
  BY DEF Finish
<1>2. CASE Abort(r)
  BY <1>1, <1>2 DEF Abort
<1>3. CASE ClientStep(r)
  <2>1. \E q, label : Issue(r, q, label)
    BY <1>3 DEF ClientStep, IssueStart, IssueSave, IssueSubmit
  <2>. QED
    BY <2>1 DEF Issue, Goto
<1>4. CASE ServerStep(r)
  <2>1. CASE Finish(r)
    BY <2>1, <1>1
  <2>2. CASE CheckAssigned(r) \/ FindExisting(r) \/ CountAttempts(r)
    BY <2>2, <1>1 DEF CheckAssigned, FindExisting, CountAttempts, Goto
  <2>3. CASE SaveLoad(r)
    BY <2>3 DEF SaveLoad, LockRow, SaveDecision, Decide, Goto
  <2>4. CASE SubmitLoad(r)
    BY <2>4 DEF SubmitLoad, LockRow, Decide, Goto
  <2>5. CASE GradeItems(r)
    BY <2>5 DEF GradeItems, Goto
  <2>. QED
    BY <1>4, <2>1, <2>2, <2>3, <2>4, <2>5 DEF ServerStep, InsertAttempt,
       NotFound, CommitAnswer, CommitSubmit, CommitReply, Rollback
<1>. QED
  BY <1>2, <1>3, <1>4

\* What a step of request r makes of its own record.
OwnStep(r) ==
    \/ pc'[r] = "idle" /\ req'[r] = None /\ tx'[r] = NoTx
    \/ /\ pc[r] = "idle" /\ pc'[r] = "assigned" /\ tx'[r] = tx[r]
       /\ req'[r] \in Request /\ req'[r].op = "start"
    \/ /\ pc[r] = "idle" /\ pc'[r] = "load" /\ tx'[r] = tx[r]
       /\ req'[r] \in Request /\ req'[r].attempt \in Attempts
       /\ req'[r].op = "save" => req'[r].payload \in Payloads
    \/ /\ pc[r] \in {"assigned", "existing", "count"}
       /\ pc'[r] \in {"existing", "count", "insert"} /\ req'[r] = req[r]
       /\ tx'[r].write = tx[r].write /\ tx'[r].error = tx[r].error
    \/ pc[r] = "load" /\ pc'[r] = "grade" /\ req'[r] = req[r] /\ tx'[r] = tx[r]
    \/ pc[r] \in {"load", "grade"} /\ pc'[r] = "end" /\ req'[r] = req[r]

\* Every step of a request follows that pattern.
LEMMA OwnSteps ==
    ASSUME TypeOK, NEW r \in Requests, ServerStep(r) \/ ClientStep(r) \/ Abort(r)
    PROVE  OwnStep(r)
<1>. USE DEF TypeOK, OwnStep
<1>1. Finish(r) => OwnStep(r)
  BY DEF Finish
<1>2. ASSUME NEW q \in Request,
             q.attempt \in Attempts, q.op = "save" => q.payload \in Payloads,
             Issue(r, q, "load")
      PROVE  OwnStep(r)
  BY <1>2 DEF Issue, Goto
<1>3. CASE Abort(r)
  BY <1>3, <1>1 DEF Abort
<1>4. CASE ClientStep(r)
  <2>1. ASSUME NEW s \in Students, IssueStart(r, s) PROVE OwnStep(r)
    BY <2>1 DEF IssueStart, Issue, Goto, Request, Ops
  <2>2. ASSUME NEW s \in Students, NEW a \in Attempts, NEW i \in Items \cup {None},
               NEW p \in Payloads, IssueSave(r, s, a, i, p)
        PROVE  OwnStep(r)
    BY <2>2, <1>2 DEF IssueSave, Request, Ops
  <2>3. ASSUME NEW s \in Students, NEW a \in Attempts, IssueSubmit(r, s, a)
        PROVE  OwnStep(r)
    BY <2>3, <1>2 DEF IssueSubmit, Request, Ops
  <2>. QED
    BY <1>4, <2>1, <2>2, <2>3 DEF ClientStep
<1>5. CASE ServerStep(r)
  <2>1. tx[r] \in Transaction
    OBVIOUS
  <2>2. CASE CheckAssigned(r) \/ FindExisting(r)
    BY <2>2, <1>1 DEF CheckAssigned, FindExisting, Goto
  <2>3. CASE CountAttempts(r) /\ ~Finish(r)
    <3>1. /\ pc[r] = "count" /\ pc'[r] = "insert" /\ req'[r] = req[r]
          /\ tx' = [tx EXCEPT ![r].deadline = now + Duration]
      BY <2>3 DEF CountAttempts, Goto
    <3>2. tx'[r] = [tx[r] EXCEPT !.deadline = now + Duration]
      BY <3>1
    <3>3. tx'[r].write = tx[r].write /\ tx'[r].error = tx[r].error
      BY <2>1, <3>2 DEF Transaction
    <3>. QED
      BY <3>1, <3>3
  <2>4. CASE SaveLoad(r)
    BY <2>4 DEF SaveLoad, LockRow, Goto
  <2>5. CASE SubmitLoad(r)
    BY <2>5 DEF SubmitLoad, LockRow, Goto
  <2>6. CASE GradeItems(r)
    BY <2>6 DEF GradeItems, Goto
  <2>7. CASE Finish(r)
    BY <2>7, <1>1
  <2>. QED
    BY <1>5, <2>2, <2>3, <2>4, <2>5, <2>6, <2>7 DEF ServerStep, InsertAttempt,
       NotFound, CommitAnswer, CommitSubmit, CommitReply, Rollback
<1>. QED
  BY <1>3, <1>4, <1>5

\* Every step keeps what the control points know of their requests.
LEMMA RequestStep == TypeOK /\ RequestInv /\ [Next]_vars => RequestInv'
<1>. SUFFICES ASSUME TypeOK, RequestInv, [Next]_vars PROVE RequestInv'
  OBVIOUS
<1>1. ASSUME NEW r \in Requests, ServerStep(r) \/ ClientStep(r) \/ Abort(r)
      PROVE  RequestInv'
  <2>1. OwnStep(r)
    BY <1>1, OwnSteps
  <2>2. /\ pc'[r] # "idle" =>
              /\ req'[r] \in Request
              /\ req'[r].op = "save" => req'[r].payload \in Payloads
        /\ pc'[r] \in {"load", "grade", "end"} =>
              req'[r].attempt \in Attempts
        /\ pc'[r] # "end" => tx'[r].write = "none" /\ tx'[r].error = ""
    <3>1. /\ pc[r] # "idle" =>
                /\ req[r] \in Request
                /\ req[r].op = "save" => req[r].payload \in Payloads
          /\ pc[r] \in {"load", "grade", "end"} =>
                req[r].attempt \in Attempts
          /\ pc[r] # "end" => tx[r].write = "none" /\ tx[r].error = ""
      BY DEF RequestInv
    <3>2. NoTx.write = "none" /\ NoTx.error = ""
      BY DEF NoTx
    <3>. QED
      BY <2>1, <3>1, <3>2 DEF OwnStep
  <2>3. \A o \in Requests \ {r} : pc'[o] = pc[o] /\ req'[o] = req[o] /\ tx'[o] = tx[o]
    BY <1>1, OthersUnchanged
  <2>. QED
    BY <2>2, <2>3 DEF RequestInv
<1>2. CASE Tick \/ UNCHANGED vars
  BY <1>2 DEF Tick, vars, RequestInv
<1>. QED
  BY <1>1, <1>2 DEF Next

\* A transaction that has loaded its attempt holds the lock of its row.
LEMMA HoldsLock ==
    ASSUME RequestInv, LockInv, NEW r \in Requests, pc[r] \in {"grade", "end"}
    PROVE  req[r].attempt \in Attempts /\ lock[req[r].attempt] = r
<1>1. req[r].attempt \in Attempts
  BY DEF RequestInv
<1>2. lock[req[r].attempt] = r <=>
         pc[r] \in {"grade", "end"} /\ req[r].attempt = req[r].attempt
  BY <1>1 DEF LockInv
<1>. QED
  BY <1>1, <1>2

\* Every step keeps the row locks with the transactions that took them.
LEMMA LockStep == TypeOK /\ RequestInv /\ LockInv /\ [Next]_vars => LockInv'
<1>. SUFFICES ASSUME TypeOK, RequestInv, LockInv, [Next]_vars PROVE LockInv'
  OBVIOUS
<1>. DEFINE Inside(r) == pc[r] \in {"grade", "end"}
<1>1. ASSUME NEW r \in Requests, ServerStep(r) \/ ClientStep(r) \/ Abort(r)
      PROVE  LockInv'
  <2>1. \A o \in Requests \ {r} : pc'[o] = pc[o] /\ req'[o] = req[o]
    BY <1>1, OthersUnchanged
  <2>2. OwnStep(r)
    BY <1>1, OwnSteps
  <2>3. CASE lock' = lock /\ Inside(r)' = Inside(r) /\ (Inside(r) => req'[r] = req[r])
    BY <2>1, <2>3 DEF LockInv
  <2>4. CASE LockRow(r) /\ Inside(r)'
    <3>1. /\ req' = req /\ pc[r] = "load" /\ req[r].attempt \in Attempts
          /\ lock[req[r].attempt] = None
          /\ lock' = [lock EXCEPT ![req[r].attempt] = r]
      BY <2>4 DEF LockRow, RequestInv
    <3>. QED
      BY <2>1, <2>4, <3>1, NoneAssumption DEF LockInv, TypeOK
  <2>5. CASE Inside(r) /\ Unlock(r) /\ Finish(r)
    <3>1. /\ req[r].attempt \in Attempts /\ lock[req[r].attempt] = r
          /\ lock' = [lock EXCEPT ![req[r].attempt] = None] /\ pc'[r] = "idle"
      BY <2>5, HoldsLock DEF Unlock, Finish, TypeOK
    <3>. QED
      BY <2>1, <3>1, NoneAssumption DEF LockInv, TypeOK
  <2>6. CASE Abort(r)
    <3>1. /\ pc'[r] = "idle"
          /\ lock' = [a \in Attempts |-> IF lock[a] = r THEN None ELSE lock[a]]
      BY <2>6 DEF Abort, Finish, TypeOK
    <3>. QED
      BY <2>1, <3>1, NoneAssumption DEF LockInv
  <2>7. CASE ClientStep(r)
    <3>1. pc[r] = "idle" /\ lock' = lock
      BY <2>7 DEF ClientStep, IssueStart, IssueSave, IssueSubmit, Issue
    <3>. QED
      BY <2>2, <2>3, <3>1 DEF OwnStep
  <2>8. CASE ServerStep(r)
    <3>1. CASE SaveLoad(r) \/ SubmitLoad(r)
      BY <2>4, <3>1 DEF SaveLoad, SubmitLoad, Goto, TypeOK
    <3>2. CASE CommitAnswer(r) \/ CommitSubmit(r) \/ CommitReply(r) \/ Rollback(r)
      BY <2>5, <3>2 DEF CommitAnswer, CommitSubmit, CommitReply, Rollback
    <3>3. CASE GradeItems(r)
      BY <2>3, <3>3 DEF GradeItems, Goto, TypeOK
    <3>4. CASE \/ CheckAssigned(r) \/ FindExisting(r) \/ CountAttempts(r)
               \/ InsertAttempt(r) \/ NotFound(r)
      <4>1. lock' = lock /\ ~Inside(r)
        BY <3>4 DEF CheckAssigned, FindExisting, CountAttempts, InsertAttempt, NotFound
      <4>2. ~Inside(r)'
        BY <3>4 DEF CheckAssigned, FindExisting, CountAttempts, InsertAttempt, NotFound, Goto, Finish, TypeOK
      <4>. QED
        BY <2>3, <4>1, <4>2
    <3>. QED
      BY <2>8, <3>1, <3>2, <3>3, <3>4 DEF ServerStep
  <2>. QED
    BY <1>1, <2>6, <2>7, <2>8
<1>2. CASE Tick \/ UNCHANGED vars
  BY <1>2 DEF Tick, vars, LockInv
<1>. QED
  BY <1>1, <1>2 DEF Next

-----------------------------------------------------------------------------
(* Rows *)

\* What a step of request r makes of the row of attempt a.
RowStep(r, a) ==
    \/ status'[a] = status[a] /\ sheet'[a] = sheet[a] /\ verdict'[a] = verdict[a]
    \/ /\ status[a] = "NONE" /\ status'[a] = "IN_PROGRESS"
       /\ sheet'[a] = sheet[a] /\ verdict'[a] = verdict[a]
    \/ /\ status[a] = "IN_PROGRESS" /\ lock[a] = r
       /\ status'[a] = status[a] /\ verdict'[a] = verdict[a]
    \/ /\ status[a] = "IN_PROGRESS" /\ status'[a] = "SUBMITTED" /\ lock[a] = r
       /\ sheet'[a] = sheet[a] /\ verdict'[a] = GradeAttempt(sheet[a])

\* Only the holder of a row's lock changes it, and only while the attempt is
\* in progress.
LEMMA RowSteps ==
    ASSUME TypeOK, RequestInv, LockInv, DecisionInv, NEW a \in Attempts, NEW r \in Requests,
           ServerStep(r) \/ ClientStep(r) \/ Abort(r)
    PROVE  RowStep(r, a)
<1>1. CASE InsertAttempt(r)
  BY <1>1 DEF InsertAttempt, Unused, RowStep, TypeOK
<1>2. CASE CommitAnswer(r)
  <2>1. /\ status[req[r].attempt] = "IN_PROGRESS" /\ lock[req[r].attempt] = r
        /\ req[r].attempt \in Attempts
    BY <1>2, HoldsLock DEF CommitAnswer, DecisionInv
  <2>. QED
    BY <1>2, <2>1 DEF CommitAnswer, RowStep, TypeOK
<1>3. CASE CommitSubmit(r)
  <2>1. /\ status[req[r].attempt] = "IN_PROGRESS" /\ lock[req[r].attempt] = r
        /\ req[r].attempt \in Attempts
        /\ tx[r].result = GradeAttempt(sheet[req[r].attempt])
    BY <1>3, HoldsLock DEF CommitSubmit, DecisionInv
  <2>. QED
    BY <1>3, <2>1 DEF CommitSubmit, RowStep, TypeOK
<1>4. CASE UNCHANGED rowVars
  BY <1>4 DEF rowVars, RowStep
<1>5. CASE ClientStep(r) \/ Abort(r)
  <2>1. UNCHANGED rowVars
    BY <1>5 DEF ClientStep, IssueStart, IssueSave, IssueSubmit, Issue, Abort
  <2>. QED
    BY <2>1, <1>4
<1>6. CASE ServerStep(r)
  BY <1>1, <1>2, <1>3, <1>4, <1>6 DEF ServerStep, CheckAssigned, FindExisting,
     CountAttempts, NotFound, SaveLoad, SubmitLoad, LockRow, GradeItems, CommitReply,
     Rollback
<1>. QED
  BY <1>5, <1>6

\* What a transaction decided stays true until it commits.
LEMMA DecisionStep ==
    TypeOK /\ RequestInv /\ LockInv /\ DecisionInv /\ NeverExpired /\ [Next]_vars
        => DecisionInv'
<1>. SUFFICES ASSUME TypeOK, RequestInv, LockInv, DecisionInv, NeverExpired, [Next]_vars
              PROVE  DecisionInv'
  OBVIOUS
<1>. DEFINE D(r) ==
         LET a == req[r].attempt IN
         /\ pc[r] = "grade" => status[a] = "IN_PROGRESS"
         /\ pc[r] = "end" /\ tx[r].error = "" =>
               /\ tx[r].write = "answer" =>
                     /\ status[a] = "IN_PROGRESS"
                     /\ req[r].item \in Items /\ req[r].payload \in Payloads
               /\ tx[r].write = "submit" =>
                     /\ status[a] = "IN_PROGRESS"
                     /\ tx[r].result = GradeAttempt(sheet[a])
               /\ tx[r].write = "none" =>
                     /\ status[a] = "SUBMITTED"
                     /\ tx[r].result = verdict[a]
               /\ tx[r].write # "expire"
<1>1. \A r \in Requests : D(r)
  BY DEF DecisionInv
<1>2. ASSUME NEW r \in Requests, ServerStep(r) \/ ClientStep(r) \/ Abort(r)
      PROVE  \A o \in Requests : D(o)'
  <2>1. ASSUME NEW o \in Requests, o # r PROVE D(o)'
    <3>1. pc'[o] = pc[o] /\ req'[o] = req[o] /\ tx'[o] = tx[o]
      BY <1>2, <2>1, OthersUnchanged
    <3>2. CASE pc[o] \notin {"grade", "end"}
      BY <3>1, <3>2
    <3>3. CASE pc[o] \in {"grade", "end"}
      <4>. DEFINE a == req[o].attempt
      <4>1. a \in Attempts /\ lock[a] = o
        BY <3>3, HoldsLock
      <4>2. RowStep(r, a)
        BY <1>2, <4>1, RowSteps
      <4>3. \/ status'[a] = status[a] /\ sheet'[a] = sheet[a] /\ verdict'[a] = verdict[a]
            \/ status[a] = "NONE"
        BY <2>1, <4>1, <4>2 DEF RowStep
      <4>4. D(o)
        BY <1>1
      <4>. QED
        BY <3>1, <4>3, <4>4
    <3>. QED
      BY <3>2, <3>3
  <2>2. D(r)'
    <3>1. tx[r] \in Transaction
      BY DEF TypeOK
    <3>2. CASE pc'[r] \notin {"grade", "end"}
      BY <3>2
    <3>3. CASE SaveLoad(r)
      <4>1. /\ pc[r] = "load" /\ pc'[r] = "end" /\ req' = req /\ UNCHANGED rowVars
            /\ req[r].op = "save" /\ SaveDecision(r)
        BY <3>3 DEF SaveLoad, LockRow, Goto, TypeOK
      <4>2. req[r].payload \in Payloads /\ req[r].item \in Items \cup {None}
        BY <4>1 DEF RequestInv, Request
      <4>3. CASE tx' = [tx EXCEPT ![r].write = "answer", ![r].error = ""]
                 /\ status[req[r].attempt] = "IN_PROGRESS" /\ req[r].item # None
        <5>1. tx'[r].write = "answer"
          BY <3>1, <4>3 DEF TypeOK, Transaction
        <5>. QED
          BY <4>1, <4>2, <4>3, <5>1 DEF rowVars
      <4>4. CASE \E e \in {"refused", "expired"}, w \in {"none", "expire"} :
                    tx' = [tx EXCEPT ![r].write = w, ![r].error = e]
        <5>1. tx'[r].error # ""
          BY <3>1, <4>4 DEF TypeOK, Transaction
        <5>. QED
          BY <4>1, <5>1
      <4>. QED
        BY <4>1, <4>3, <4>4 DEF SaveDecision, Decide
    <3>4. CASE SubmitLoad(r)
      <4>1. /\ pc[r] = "load" /\ pc'[r] \in {"grade", "end"} /\ req' = req
            /\ UNCHANGED rowVars /\ tx[r].write = "none" /\ tx[r].error = ""
            /\ req[r].attempt \in Attempts
        BY <3>4 DEF SubmitLoad, LockRow, Goto, RequestInv, TypeOK
      <4>2. CASE pc'[r] = "grade" /\ status[req[r].attempt] = "IN_PROGRESS"
        BY <4>1, <4>2 DEF rowVars
      <4>3. CASE /\ pc'[r] = "end" /\ status[req[r].attempt] = "SUBMITTED"
                 /\ tx' = [tx EXCEPT ![r].result = verdict[req[r].attempt]]
        <5>1. /\ tx'[r].write = "none"
              /\ tx'[r].result = verdict[req[r].attempt]
          BY <3>1, <4>1, <4>3 DEF TypeOK, Transaction
        <5>. QED
          BY <4>1, <4>3, <5>1 DEF rowVars
      <4>4. CASE pc'[r] = "end" /\ tx' = [tx EXCEPT ![r].error = "refused"]
        <5>1. tx'[r].error = "refused"
          BY <3>1, <4>4 DEF TypeOK, Transaction
        <5>. QED
          BY <4>4, <5>1
      <4>5. CASE pc'[r] = "end" /\ Decide(r, "expire", "expired")
        <5>1. tx'[r].error = "expired"
          BY <3>1, <4>5 DEF Decide, TypeOK, Transaction
        <5>. QED
          BY <4>5, <5>1
      <4>. QED
        BY <3>4, <4>2, <4>3, <4>4, <4>5 DEF SubmitLoad, Goto, TypeOK
    <3>5. CASE GradeItems(r)
      <4>1. /\ pc[r] = "grade" /\ pc'[r] = "end" /\ req' = req /\ UNCHANGED rowVars
            /\ tx' = [tx EXCEPT ![r].write = "submit",
                                ![r].result = GradeAttempt(sheet[req[r].attempt])]
        BY <3>5 DEF GradeItems, Goto, TypeOK
      <4>2. /\ tx'[r].write = "submit"
            /\ tx'[r].result = GradeAttempt(sheet[req[r].attempt])
        BY <3>1, <4>1 DEF TypeOK, Transaction
      <4>3. status[req[r].attempt] = "IN_PROGRESS"
        BY <1>1, <4>1
      <4>. QED
        BY <4>1, <4>2, <4>3 DEF rowVars
    <3>6. CASE Finish(r)
      BY <3>2, <3>6 DEF Finish, TypeOK
    <3>7. CASE ClientStep(r) \/ Abort(r)
      <4>1. pc'[r] \notin {"grade", "end"}
        BY <3>7 DEF ClientStep, IssueStart, IssueSave, IssueSubmit, Issue,
                    Goto, Abort, Finish, TypeOK
      <4>. QED
        BY <3>2, <4>1
    <3>8. CASE /\ CheckAssigned(r) \/ FindExisting(r) \/ CountAttempts(r)
               /\ ~Finish(r)
      <4>1. pc'[r] \notin {"grade", "end"}
        BY <3>8 DEF CheckAssigned, FindExisting, CountAttempts, Goto, TypeOK
      <4>. QED
        BY <3>2, <4>1
    <3>. QED
      BY <1>2, <3>3, <3>4, <3>5, <3>6, <3>7, <3>8 DEF ServerStep, InsertAttempt,
         NotFound, CommitAnswer, CommitSubmit, CommitReply, Rollback
  <2>. QED
    BY <2>1, <2>2
<1>3. CASE Tick \/ UNCHANGED vars
  BY <1>1, <1>3 DEF Tick, vars, rowVars, DecisionInv
<1>. QED
  BY <1>2, <1>3 DEF Next, DecisionInv

\* No step leaves an attempt EXPIRED.
LEMMA NeverExpiredStep ==
    TypeOK /\ RequestInv /\ LockInv /\ DecisionInv /\ NeverExpired /\ [Next]_vars
        => NeverExpired'
<1>. SUFFICES ASSUME TypeOK, RequestInv, LockInv, DecisionInv, NeverExpired, [Next]_vars,
                     NEW a \in Attempts
              PROVE  status'[a] # "EXPIRED"
  BY DEF NeverExpired
<1>1. ASSUME NEW r \in Requests, ServerStep(r) \/ ClientStep(r) \/ Abort(r)
      PROVE  status'[a] # "EXPIRED"
  BY <1>1, RowSteps DEF RowStep, NeverExpired
<1>2. CASE Tick \/ UNCHANGED vars
  BY <1>2 DEF Tick, vars, rowVars, NeverExpired
<1>. QED
  BY <1>1, <1>2 DEF Next

\* Every step keeps the verdict of a submitted attempt equal to the grade of
\* its answers.
LEMMA ScoreStep ==
    TypeOK /\ RequestInv /\ LockInv /\ DecisionInv /\ ScoreMatchesAnswers /\ [Next]_vars
        => ScoreMatchesAnswers'
<1>. SUFFICES ASSUME TypeOK, RequestInv, LockInv, DecisionInv, ScoreMatchesAnswers,
                     [Next]_vars, NEW a \in Attempts
              PROVE  /\ status'[a] = "SUBMITTED" => verdict'[a] = GradeAttempt(sheet'[a])
                     /\ status'[a] \in {"NONE", "IN_PROGRESS"} => verdict'[a] = NoResult
  BY DEF ScoreMatchesAnswers
<1>1. /\ status[a] = "SUBMITTED" => verdict[a] = GradeAttempt(sheet[a])
      /\ status[a] \in {"NONE", "IN_PROGRESS"} => verdict[a] = NoResult
  BY DEF ScoreMatchesAnswers
<1>2. ASSUME NEW r \in Requests, ServerStep(r) \/ ClientStep(r) \/ Abort(r)
      PROVE  /\ status'[a] = "SUBMITTED" => verdict'[a] = GradeAttempt(sheet'[a])
             /\ status'[a] \in {"NONE", "IN_PROGRESS"} => verdict'[a] = NoResult
  BY <1>1, <1>2, RowSteps DEF RowStep
<1>3. CASE Tick \/ UNCHANGED vars
  BY <1>1, <1>3 DEF Tick, vars, rowVars
<1>. QED
  BY <1>2, <1>3 DEF Next

\* Every step keeps the replies to submits equal to the stored verdict.
LEMMA RepliesStep ==
    TypeOK /\ RequestInv /\ LockInv /\ DecisionInv /\ SubmitRepliesAgree /\ [Next]_vars
        => SubmitRepliesAgree'
<1>. SUFFICES ASSUME TypeOK, RequestInv, LockInv, DecisionInv, SubmitRepliesAgree,
                     [Next]_vars, NEW p \in replies'
              PROVE  status'[p.attempt] = "SUBMITTED" /\ p.result = verdict'[p.attempt]
  BY DEF SubmitRepliesAgree
<1>1. ASSUME p \in replies
      PROVE  /\ p.attempt \in Attempts
             /\ status[p.attempt] = "SUBMITTED" /\ p.result = verdict[p.attempt]
  BY <1>1 DEF SubmitRepliesAgree, TypeOK
<1>2. ASSUME NEW r \in Requests, ServerStep(r) \/ ClientStep(r) \/ Abort(r)
      PROVE  status'[p.attempt] = "SUBMITTED" /\ p.result = verdict'[p.attempt]
  <2>1. CASE p \in replies
    BY <1>1, <1>2, <2>1, RowSteps DEF RowStep
  <2>2. CASE CommitSubmit(r) /\ p \notin replies
    <3>1. req[r].attempt \in Attempts
      BY <2>2 DEF CommitSubmit, RequestInv
    <3>2. p = [attempt |-> req[r].attempt, result |-> tx[r].result]
      BY <2>2 DEF CommitSubmit
    <3>. QED
      BY <2>2, <3>1, <3>2 DEF CommitSubmit, TypeOK
  <2>3. CASE CommitReply(r) /\ p \notin replies
    <3>1. /\ req[r].attempt \in Attempts /\ status[req[r].attempt] = "SUBMITTED"
          /\ tx[r].result = verdict[req[r].attempt]
      BY <2>3 DEF CommitReply, RequestInv, DecisionInv
    <3>2. p = [attempt |-> req[r].attempt, result |-> tx[r].result]
      BY <2>3 DEF CommitReply
    <3>. QED
      BY <2>3, <3>1, <3>2 DEF CommitReply, rowVars
  <2>4. CASE replies' = replies
    BY <2>1, <2>4
  <2>5. CASE ClientStep(r) \/ Abort(r)
    BY <2>4, <2>5 DEF ClientStep, IssueStart, IssueSave, IssueSubmit, Issue,
                      Abort, history
  <2>. QED
    BY <1>2, <2>1, <2>2, <2>3, <2>4, <2>5 DEF ServerStep, CheckAssigned, FindExisting,
       CountAttempts, InsertAttempt, NotFound, SaveLoad, SubmitLoad, LockRow, GradeItems,
       CommitAnswer, Rollback, history
<1>3. CASE Tick \/ UNCHANGED vars
  BY <1>1, <1>3 DEF Tick, vars, rowVars, history
<1>. QED
  BY <1>2, <1>3 DEF Next

\* The stored answer covers acknowledgement k: it is that save or a later one.
Covered(k) ==
    LET row == sheet[k.attempt][k.item] IN
    \/ row.revision > k.revision
    \/ row.revision = k.revision /\ row.payload = k.payload

\* Every step keeps the acknowledged saves stored, under distinct revisions.
LEMMA AcksStep ==
    TypeOK /\ RequestInv /\ DecisionInv /\ AcknowledgedAnswersStored /\ [Next]_vars
        => AcknowledgedAnswersStored'
<1>. SUFFICES ASSUME TypeOK, RequestInv, DecisionInv, AcknowledgedAnswersStored, [Next]_vars
              PROVE  AcknowledgedAnswersStored'
  OBVIOUS
<1>1. /\ \A k \in acks : Covered(k)
      /\ \A k, l \in acks :
            k.attempt = l.attempt /\ k.item = l.item /\ k.revision = l.revision => k = l
  BY DEF AcknowledgedAnswersStored, Covered
<1>2. SUFFICES
        /\ \A k \in acks' : Covered(k)'
        /\ \A k, l \in acks' :
              k.attempt = l.attempt /\ k.item = l.item /\ k.revision = l.revision => k = l
  BY DEF AcknowledgedAnswersStored, Covered
<1>3. CASE UNCHANGED <<acks, sheet>>
  BY <1>1, <1>3 DEF Covered
<1>4. ASSUME NEW r \in Requests, CommitAnswer(r)
      PROVE  /\ \A k \in acks' : Covered(k)'
             /\ \A k, l \in acks' :
                   k.attempt = l.attempt /\ k.item = l.item /\ k.revision = l.revision
                      => k = l
  <2>. DEFINE a == req[r].attempt
              i == req[r].item
              n == sheet[a][i].revision + 1
              row == [revision |-> n, payload |-> req[r].payload]
              new == [attempt |-> a, item |-> i, revision |-> row.revision,
                      payload |-> row.payload, student |-> req[r].student]
  <2>1. a \in Attempts /\ i \in Items
    BY <1>4 DEF CommitAnswer, RequestInv, DecisionInv
  <2>2. sheet \in [Attempts -> AnswerSheet] /\ sheet[a] \in AnswerSheet
    BY <2>1 DEF TypeOK
  <2>3. sheet[a][i].revision \in Nat
    BY <2>1, <2>2, RevisionIsNat DEF AnswerSheet
  <2>4. sheet' = [sheet EXCEPT ![a][i] = row] /\ acks' \subseteq acks \cup {new}
    BY <1>4 DEF CommitAnswer
  <2>5. sheet'[a][i] = row
    BY <2>1, <2>2, <2>4 DEF AnswerSheet
  <2>6. ASSUME NEW k \in acks, k.attempt = a, k.item = i
        PROVE  k.revision \in Nat /\ k.revision < n
    <3>1. k.revision \in Nat
      BY DEF TypeOK, Ack
    <3>2. Covered(k)
      BY <1>1
    <3>. QED
      BY <2>3, <2>6, <3>1, <3>2 DEF Covered
  <2>7. ASSUME NEW k \in acks, k.attempt # a \/ k.item # i PROVE Covered(k)'
    <3>1. k.attempt \in Attempts /\ k.item \in Items
      BY DEF TypeOK, Ack
    <3>2. sheet'[k.attempt][k.item] = sheet[k.attempt][k.item]
      BY <2>1, <2>2, <2>4, <2>7, <3>1 DEF AnswerSheet
    <3>3. Covered(k)
      BY <1>1
    <3>. QED
      BY <3>2, <3>3 DEF Covered
  <2>8. ASSUME NEW k \in acks, k.attempt = a, k.item = i PROVE Covered(k)'
    <3>1. sheet'[k.attempt][k.item].revision = n
      BY <2>5, <2>8
    <3>2. k.revision < n /\ k.revision \in Nat
      BY <2>6, <2>8
    <3>. QED
      BY <2>3, <3>1, <3>2 DEF Covered
  <2>9. ASSUME NEW k \in {new} PROVE Covered(k)'
    BY <2>5 DEF Covered
  <2>10. \A k \in acks' : Covered(k)'
    BY <2>4, <2>7, <2>8, <2>9
  <2>11. ASSUME NEW k \in acks
         PROVE  ~(k.attempt = new.attempt /\ k.item = new.item /\ k.revision = new.revision)
    BY <2>3, <2>6
  <2>. QED
    BY <1>1, <2>4, <2>10, <2>11
<1>5. ASSUME NEW r \in Requests, ServerStep(r) \/ ClientStep(r) \/ Abort(r), ~CommitAnswer(r)
      PROVE  UNCHANGED <<acks, sheet>>
  BY <1>5 DEF ServerStep, ClientStep, Abort, CheckAssigned, FindExisting, CountAttempts,
     InsertAttempt, NotFound, SaveLoad, SubmitLoad, LockRow, GradeItems, CommitSubmit,
     CommitReply, Rollback, IssueStart, IssueSave, IssueSubmit, Issue, rowVars, history
<1>6. CASE Tick \/ UNCHANGED vars
  BY <1>3, <1>6 DEF Tick, vars, rowVars, history
<1>. QED
  BY <1>3, <1>4, <1>5, <1>6 DEF Next

-----------------------------------------------------------------------------
(* Theorems *)

\* The invariant holds in every reachable state.
LEMMA Invariance == Spec => []IInv
<1>1. IInv /\ [Next]_vars => IInv'
  BY TypeStep, RequestStep, LockStep, DecisionStep, NeverExpiredStep, ScoreStep,
     RepliesStep, AcksStep DEF IInv
<1>. QED
  BY <1>1, InitInv, PTL DEF Spec

\* Columns, locks and requests stay in their domains.
THEOREM TypeCorrect == Spec => []TypeOK
BY Invariance, PTL DEF IInv

\* A submitted attempt always carries the grade of exactly the answers it
\* stores, whatever saves and submits race for it.
THEOREM ScoreCorrect == Spec => []ScoreMatchesAnswers
BY Invariance, PTL DEF IInv

\* All successful submits of an attempt report its one stored result.
THEOREM SubmitIdempotent == Spec => []SubmitRepliesAgree
BY Invariance, PTL DEF IInv

\* No acknowledged save is ever lost or overwritten under its own revision.
THEOREM AcksDurable == Spec => []AcknowledgedAnswersStored
BY Invariance, PTL DEF IInv

\* The requests implement the atomic life cycle: every committed change of an
\* attempt is one start, one save or the one submit of AttemptLifecycle.
THEOREM Refinement == Spec => ImplementsLifecycle
<1>1. Init => Lifecycle!Init
  BY DEF Init, Lifecycle!Init, NoAnswer, Lifecycle!NoAnswer, NoResult, Lifecycle!NoResult
<1>2. IInv /\ [Next]_vars => [Lifecycle!Next]_<<status, sheet, verdict>>
  <2>. SUFFICES ASSUME IInv, [Next]_vars
                PROVE  Lifecycle!Next \/ UNCHANGED <<status, sheet, verdict>>
    OBVIOUS
  <2>1. ASSUME NEW r \in Requests, InsertAttempt(r) PROVE Lifecycle!Next
    <3>1. PICK a \in Attempts : status[a] = "NONE" /\ status' = [status EXCEPT ![a] = "IN_PROGRESS"]
      BY <2>1 DEF InsertAttempt, Unused
    <3>2. Lifecycle!Start(a)
      BY <2>1, <3>1 DEF Lifecycle!Start, InsertAttempt
    <3>. QED
      BY <3>2 DEF Lifecycle!Next
  <2>2. ASSUME NEW r \in Requests, CommitAnswer(r) PROVE Lifecycle!Next
    <3>. DEFINE a == req[r].attempt
    <3>1. /\ a \in Attempts /\ req[r].item \in Items /\ req[r].payload \in Payloads
          /\ status[a] = "IN_PROGRESS"
      BY <2>2 DEF CommitAnswer, IInv, RequestInv, DecisionInv
    <3>2. Lifecycle!Save(a, req[r].item, req[r].payload)
      BY <2>2, <3>1 DEF Lifecycle!Save, CommitAnswer
    <3>. QED
      BY <3>1, <3>2 DEF Lifecycle!Next
  <2>3. ASSUME NEW r \in Requests, CommitSubmit(r) PROVE Lifecycle!Next
    <3>. DEFINE a == req[r].attempt
    <3>1. /\ a \in Attempts /\ status[a] = "IN_PROGRESS"
          /\ tx[r].result = GradeAttempt(sheet[a])
      BY <2>3 DEF CommitSubmit, IInv, RequestInv, DecisionInv
    <3>2. Lifecycle!Submit(a)
      <4>1. Lifecycle!GradeAttempt(sheet[a]) = GradeAttempt(sheet[a])
        BY DEF GradeAttempt, NeedsReview, CorrectItems, IsCorrect, Lifecycle!GradeAttempt,
               Lifecycle!NeedsReview, Lifecycle!CorrectItems, Lifecycle!IsCorrect
      <4>2. verdict' = [verdict EXCEPT ![a] = Lifecycle!GradeAttempt(sheet[a])]
        BY <2>3, <3>1, <4>1 DEF CommitSubmit
      <4>. QED
        BY <2>3, <3>1, <4>2 DEF Lifecycle!Submit, CommitSubmit
    <3>. QED
      BY <3>1, <3>2 DEF Lifecycle!Next
  <2>4. ASSUME NEW r \in Requests, ServerStep(r) \/ ClientStep(r) \/ Abort(r),
               ~InsertAttempt(r), ~CommitAnswer(r), ~CommitSubmit(r)
        PROVE  UNCHANGED <<status, sheet, verdict>>
    BY <2>4 DEF ServerStep, ClientStep, Abort, CheckAssigned, FindExisting, CountAttempts,
       NotFound, SaveLoad, SubmitLoad, LockRow, GradeItems, CommitReply, Rollback, IssueStart, IssueSave, IssueSubmit, Issue, rowVars
  <2>5. CASE Tick \/ UNCHANGED vars
    BY <2>5 DEF Tick, vars, rowVars
  <2>. QED
    BY <2>1, <2>2, <2>3, <2>4, <2>5 DEF Next
<1>. QED
  BY <1>1, <1>2, Invariance, PTL DEF Spec, ImplementsLifecycle, Lifecycle!Spec,
     Lifecycle!lifecycleVars

-----------------------------------------------------------------------------
(* Starts that do not overlap *)

\* Between FindExisting and the insert a start relies on what it has read.
\* While the student has no second start in flight, nothing changes it: the
\* only writer of a new attempt is this request itself.
StartsAlone(s) ==
    \A r, o \in Active("start") : req[r].student = s /\ req[o].student = s => r = o

WithinLimit(s) ==
    /\ IsFiniteSet(AttemptsOf(s))
    /\ Cardinality(AttemptsOf(s)) <= MaxAttempts
    /\ \A a, b \in AttemptsOf(s) :
          status[a] = "IN_PROGRESS" /\ status[b] = "IN_PROGRESS" => a = b

ReadHolds(s) ==
    \A r \in Requests :
        /\ pc[r] \in {"count", "insert"} /\ req[r].student = s =>
              \A a \in AttemptsOf(s) : status[a] # "IN_PROGRESS"
        /\ pc[r] = "insert" /\ req[r].student = s =>
              Cardinality(AttemptsOf(s)) < MaxAttempts

StartInv ==
    /\ \A r \in Requests :
          pc[r] \in {"assigned", "existing", "count", "insert"} => req[r].op = "start"
    /\ \A s \in Students \ overlapped : StartsAlone(s) /\ WithinLimit(s) /\ ReadHolds(s)

\* It holds before the first request.
LEMMA InitStartInv == Init => StartInv
<1>. SUFFICES ASSUME Init PROVE StartInv
  OBVIOUS
<1>1. \A s : AttemptsOf(s) = {}
  BY DEF Init, AttemptsOf
<1>2. Active("start") = {}
  BY DEF Init, Active
<1>3. 0 <= MaxAttempts
  BY NumbersAssumption
<1>. QED
  BY <1>1, <1>2, <1>3, FS_EmptySet
     DEF Init, StartInv, StartsAlone, WithinLimit, ReadHolds

\* Only InsertAttempt gives a student a new attempt, and no other step sets
\* one in progress.
LEMMA AttemptsKept ==
    ASSUME IInv, NEW r \in Requests, ServerStep(r) \/ ClientStep(r) \/ Abort(r),
           ~InsertAttempt(r), NEW s
    PROVE  /\ AttemptsOf(s)' = AttemptsOf(s)
           /\ \A a \in AttemptsOf(s) :
                 status'[a] = "IN_PROGRESS" => status[a] = "IN_PROGRESS"
<1>1. CASE UNCHANGED <<status, owner>>
  BY <1>1 DEF AttemptsOf
<1>2. CASE CommitSubmit(r)
  <2>1. req[r].attempt \in Attempts /\ status[req[r].attempt] = "IN_PROGRESS"
    BY <1>2 DEF CommitSubmit, IInv, RequestInv, DecisionInv
  <2>2. status' = [status EXCEPT ![req[r].attempt] = "SUBMITTED"] /\ owner' = owner
    BY <1>2 DEF CommitSubmit
  <2>3. status \in [Attempts -> Statuses]
    BY DEF IInv, TypeOK
  <2>. QED
    BY <2>1, <2>2, <2>3 DEF AttemptsOf
<1>. QED
  BY <1>1, <1>2 DEF ServerStep, ClientStep, Abort, CheckAssigned, FindExisting,
     CountAttempts, NotFound, SaveLoad, SubmitLoad, LockRow, GradeItems, CommitAnswer,
     CommitReply, Rollback, IssueStart, IssueSave, IssueSubmit, Issue, rowVars

\* A start that reaches count or insert has just passed the check before it.
LEMMA StartReads ==
    ASSUME IInv, NEW r \in Requests, ServerStep(r) \/ ClientStep(r) \/ Abort(r)
    PROVE  /\ pc'[r] = "count" =>
                 /\ pc[r] = "existing" /\ req' = req
                 /\ \A a \in AttemptsOf(req[r].student) : status[a] # "IN_PROGRESS"
           /\ pc'[r] = "insert" =>
                 /\ pc[r] = "count" /\ req' = req
                 /\ ~(Cardinality(AttemptsOf(req[r].student)) >= MaxAttempts)
<1>. USE DEF IInv, TypeOK
<1>1. Finish(r) => pc'[r] = "idle"
  BY DEF Finish
<1>2. CASE ClientStep(r)
  <2>1. \E q : \E label \in {"assigned", "load"} : Issue(r, q, label)
    BY <1>2 DEF ClientStep, IssueStart, IssueSave, IssueSubmit
  <2>. QED
    BY <2>1 DEF Issue, Goto
<1>3. CASE Abort(r)
  BY <1>1, <1>3 DEF Abort
<1>4. CASE CheckAssigned(r) \/ FindExisting(r) \/ CountAttempts(r)
  BY <1>1, <1>4 DEF CheckAssigned, FindExisting, CountAttempts, Goto
<1>5. CASE SaveLoad(r) \/ SubmitLoad(r) \/ GradeItems(r)
  BY <1>1, <1>5 DEF SaveLoad, SubmitLoad, GradeItems, Goto
<1>. QED
  BY <1>1, <1>2, <1>3, <1>4, <1>5 DEF ServerStep, InsertAttempt, NotFound, CommitAnswer,
     CommitSubmit, CommitReply, Rollback

\* No student leaves overlapped, and one who stays out of it does not get a
\* second start in flight.
LEMMA AloneStep ==
    ASSUME IInv, StartInv, NEW r \in Requests, ServerStep(r) \/ ClientStep(r) \/ Abort(r),
           NEW s \in Students \ overlapped'
    PROVE  s \notin overlapped /\ StartsAlone(s)'
<1>1. overlapped \subseteq overlapped'
  BY DEF ServerStep, ClientStep, Abort, CheckAssigned, FindExisting, CountAttempts,
     InsertAttempt, NotFound, SaveLoad, SubmitLoad, LockRow, GradeItems, CommitAnswer,
     CommitSubmit, CommitReply, Rollback, IssueStart, IssueSave,
     IssueSubmit, history
<1>2. StartsAlone(s)
  BY <1>1 DEF StartInv
<1>3. \A o \in Requests \ {r} : pc'[o] = pc[o] /\ req'[o] = req[o]
  BY OthersUnchanged DEF IInv
<1>4. CASE pc'[r] # "idle" /\ req'[r].op = "start" => pc[r] # "idle" /\ req'[r] = req[r]
  BY <1>1, <1>2, <1>3, <1>4 DEF StartsAlone, Active
<1>5. ASSUME NEW q \in Students, IssueStart(r, q) PROVE StartsAlone(s)'
  <2>1. pc[r] = "idle" /\ req'[r].student = q
    BY <1>5 DEF IssueStart, Issue, IInv, TypeOK
  <2>2. CASE q = s
    <3>1. \A o \in Active("start") : req[o].student # s
      BY <1>5, <2>2 DEF IssueStart
    <3>. QED
      BY <1>3, <2>1, <3>1 DEF StartsAlone, Active
  <2>3. CASE q # s
    BY <1>2, <1>3, <2>1, <2>3 DEF StartsAlone, Active
  <2>. QED
    BY <2>2, <2>3
<1>6. CASE ClientStep(r) /\ ~\E q \in Students : IssueStart(r, q)
  <2>1. req'[r].op # "start"
    BY <1>6 DEF ClientStep, IssueSave, IssueSubmit, Issue, IInv, TypeOK
  <2>. QED
    BY <1>4, <2>1
<1>7. CASE ~ClientStep(r)
  <2>1. OwnStep(r)
    BY OwnSteps DEF IInv
  <2>2. pc[r] # "idle" \/ pc'[r] = "idle"
    BY <1>7 DEF ServerStep, Abort, CheckAssigned, FindExisting, CountAttempts,
       InsertAttempt, NotFound, SaveLoad, SubmitLoad, LockRow, GradeItems, CommitAnswer,
       CommitSubmit, CommitReply, Rollback
  <2>. QED
    BY <1>4, <2>1, <2>2 DEF OwnStep
<1>. QED
  BY <1>1, <1>5, <1>6, <1>7

\* The new row belongs to the one start of its student.
LEMMA InsertStep ==
    ASSUME IInv, StartInv, NEW r \in Requests, InsertAttempt(r),
           NEW s \in Students \ overlapped
    PROVE  WithinLimit(s)' /\ ReadHolds(s)'
<1>1. PICK a \in Unused : /\ status' = [status EXCEPT ![a] = "IN_PROGRESS"]
                          /\ owner' = [owner EXCEPT ![a] = req[r].student]
  BY DEF InsertAttempt
<1>2. /\ a \in Attempts /\ status[a] = "NONE"
      /\ status'[a] = "IN_PROGRESS" /\ owner'[a] = req[r].student
      /\ \A b \in Attempts \ {a} : status'[b] = status[b] /\ owner'[b] = owner[b]
  BY <1>1 DEF Unused, IInv, TypeOK
<1>3. pc[r] = "insert" /\ pc'[r] = "idle" /\ r \in Active("start")
  BY DEF InsertAttempt, Finish, StartInv, Active, IInv, TypeOK
<1>4. \A o \in Requests \ {r} : pc'[o] = pc[o] /\ req'[o] = req[o]
  BY OthersUnchanged DEF IInv, ServerStep
<1>5. StartsAlone(s) /\ WithinLimit(s) /\ ReadHolds(s)
  BY DEF StartInv
<1>6. CASE req[r].student # s
  <2>1. AttemptsOf(s)' = AttemptsOf(s) /\ \A b \in AttemptsOf(s) : status'[b] = status[b]
    BY <1>2, <1>6 DEF AttemptsOf
  <2>. QED
    BY <1>3, <1>4, <1>5, <2>1 DEF WithinLimit, ReadHolds
<1>7. CASE req[r].student = s
  <2>1. AttemptsOf(s)' = AttemptsOf(s) \cup {a}
    BY <1>2, <1>7 DEF AttemptsOf
  <2>2. /\ IsFiniteSet(AttemptsOf(s)) /\ Cardinality(AttemptsOf(s)) < MaxAttempts
        /\ \A b \in AttemptsOf(s) : status[b] # "IN_PROGRESS"
    BY <1>3, <1>5, <1>7 DEF WithinLimit, ReadHolds
  <2>3. IsFiniteSet(AttemptsOf(s)') /\ Cardinality(AttemptsOf(s)') <= MaxAttempts
    <3>1. Cardinality(AttemptsOf(s)) \in Nat /\ MaxAttempts \in Nat
      BY <2>2, FS_CardinalityType, NumbersAssumption
    <3>. DEFINE S == AttemptsOf(s)
    <3>2. IsFiniteSet(S \cup {a}) /\ Cardinality(S \cup {a}) <= Cardinality(S) + 1
      <4>1. IsFiniteSet(S)
        BY <2>2
      <4>. HIDE DEF S
      <4>2. /\ IsFiniteSet(S \cup {a})
            /\ Cardinality(S \cup {a}) =
                  IF a \in S THEN Cardinality(S) ELSE Cardinality(S) + 1
        BY <4>1, FS_AddElement
      <4>3. Cardinality(S) \in Nat
        BY <4>1, FS_CardinalityType
      <4>. QED
        BY <4>2, <4>3
    <3>3. Cardinality(S \cup {a}) \in Nat
      <4>. HIDE DEF S
      <4>. QED
        BY <3>2, FS_CardinalityType
    <3>. QED
      BY <2>1, <2>2, <3>1, <3>2, <3>3
  <2>4. \A b \in AttemptsOf(s) : b # a /\ status'[b] # "IN_PROGRESS"
    BY <1>2, <2>2 DEF AttemptsOf
  <2>5. WithinLimit(s)'
    BY <2>1, <2>3, <2>4 DEF WithinLimit
  <2>6. \A o \in Requests : pc'[o] \in {"count", "insert"} => req'[o].student # s
    BY <1>3, <1>4, <1>5, <1>7 DEF StartsAlone, StartInv, Active
  <2>. QED
    BY <2>5, <2>6 DEF ReadHolds
<1>. QED
  BY <1>6, <1>7

\* Every step keeps the limits of the students who start one at a time.
LEMMA StartStep == IInv /\ StartInv /\ [Next]_vars => StartInv'
<1>. SUFFICES ASSUME IInv, StartInv, [Next]_vars PROVE StartInv'
  OBVIOUS
<1>1. ASSUME NEW r \in Requests, ServerStep(r) \/ ClientStep(r) \/ Abort(r)
      PROVE  StartInv'
  <2>1. \A o \in Requests \ {r} : pc'[o] = pc[o] /\ req'[o] = req[o]
    BY <1>1, OthersUnchanged DEF IInv
  <2>2. ASSUME NEW o \in Requests, pc'[o] \in {"assigned", "existing", "count", "insert"}
        PROVE  req'[o].op = "start"
    BY <1>1, <2>1, <2>2, OwnSteps DEF OwnStep, StartInv, IInv
  <2>3. ASSUME NEW s \in Students \ overlapped'
        PROVE  WithinLimit(s)' /\ ReadHolds(s)'
    <3>1. s \in Students \ overlapped /\ StartsAlone(s) /\ WithinLimit(s) /\ ReadHolds(s)
      BY <1>1, <2>3, AloneStep DEF StartInv
    <3>2. CASE InsertAttempt(r)
      BY <3>1, <3>2, InsertStep
    <3>3. CASE ~InsertAttempt(r)
      <4>1. /\ AttemptsOf(s)' = AttemptsOf(s)
            /\ \A a \in AttemptsOf(s) :
                  status'[a] = "IN_PROGRESS" => status[a] = "IN_PROGRESS"
        BY <1>1, <3>3, AttemptsKept
      <4>2. WithinLimit(s)'
        BY <3>1, <4>1 DEF WithinLimit
      <4>3. ASSUME NEW o \in Requests, req'[o].student = s,
                   pc'[o] \in {"count", "insert"}
            PROVE  /\ \A a \in AttemptsOf(s) : status'[a] # "IN_PROGRESS"
                   /\ pc'[o] = "insert" => Cardinality(AttemptsOf(s)) < MaxAttempts
        <5>1. CASE o # r
          BY <2>1, <3>1, <4>1, <4>3, <5>1 DEF ReadHolds
        <5>2. CASE o = r /\ pc'[r] = "count"
          BY <1>1, <4>1, <4>3, <5>2, StartReads
        <5>3. CASE o = r /\ pc'[r] = "insert"
          <6>1. /\ pc[r] = "count" /\ req[r].student = s
                /\ ~(Cardinality(AttemptsOf(s)) >= MaxAttempts)
            BY <1>1, <4>3, <5>3, StartReads
          <6>2. Cardinality(AttemptsOf(s)) \in Nat
            BY <3>1, FS_CardinalityType DEF WithinLimit
          <6>3. Cardinality(AttemptsOf(s)) < MaxAttempts
            BY <6>1, <6>2, NumbersAssumption
          <6>. QED
            BY <3>1, <4>1, <6>1, <6>3 DEF ReadHolds
        <5>. QED
          BY <4>3, <5>1, <5>2, <5>3
      <4>. QED
        BY <4>1, <4>2, <4>3 DEF ReadHolds
    <3>. QED
      BY <3>2, <3>3
  <2>. QED
    BY <1>1, <2>2, <2>3, AloneStep DEF StartInv
<1>2. CASE Tick \/ UNCHANGED vars
  BY <1>2 DEF Tick, vars, rowVars, history, StartInv, StartsAlone, WithinLimit, ReadHolds,
     Active, AttemptsOf
<1>. QED
  BY <1>1, <1>2 DEF Next

-----------------------------------------------------------------------------
(* Starts that do overlap *)

\* A start that has passed the count inserts, whatever was inserted since.
Inserting(s) == {r \in Requests : pc[r] = "insert" /\ req[r].student = s}

OvershootInv ==
    \A s \in Students :
        /\ IsFiniteSet(AttemptsOf(s))
        /\ AttemptsOf(s) # {} \/ Inserting(s) # {} =>
              Cardinality(AttemptsOf(s)) + Cardinality(Inserting(s))
                 < MaxAttempts + Cardinality(Requests)

\* There are at most as many of them as requests.
LEMMA InsertingFinite ==
    ASSUME NEW s
    PROVE  /\ IsFiniteSet(Inserting(s))
           /\ Cardinality(Inserting(s)) \in Nat /\ Cardinality(Requests) \in Nat
           /\ Cardinality(Inserting(s)) <= Cardinality(Requests)
<1>1. Inserting(s) \subseteq Requests
  BY DEF Inserting
<1>. QED
  BY <1>1, RequestsAssumption, FS_Subset, FS_CardinalityType

\* It holds before the first request.
LEMMA InitOvershootInv == Init => OvershootInv
<1>. SUFFICES ASSUME Init, NEW s \in Students
              PROVE  AttemptsOf(s) = {} /\ Inserting(s) = {}
  BY FS_EmptySet DEF OvershootInv
<1>. QED
  BY DEF Init, AttemptsOf, Inserting

\* The count leaves room for one attempt, and every insert uses up a start
\* that had passed the count.
LEMMA OvershootStep == IInv /\ OvershootInv /\ [Next]_vars => OvershootInv'
<1>. SUFFICES ASSUME IInv, OvershootInv, [Next]_vars, NEW s \in Students
              PROVE  /\ IsFiniteSet(AttemptsOf(s))'
                     /\ (AttemptsOf(s) # {} \/ Inserting(s) # {})' =>
                           Cardinality(AttemptsOf(s))' + Cardinality(Inserting(s))'
                              < MaxAttempts + Cardinality(Requests)
  BY DEF OvershootInv
<1>. DEFINE A == AttemptsOf(s)
            I == Inserting(s)
            J == {r \in Requests : pc'[r] = "insert" /\ req'[r].student = s}
<1>1. /\ IsFiniteSet(A) /\ Cardinality(A) \in Nat
      /\ IsFiniteSet(I) /\ Cardinality(I) \in Nat
      /\ Cardinality(Requests) \in Nat /\ MaxAttempts \in Nat
  BY InsertingFinite, FS_CardinalityType, NumbersAssumption DEF OvershootInv
<1>2. Inserting(s)' = J
  BY DEF Inserting
<1>3. J \subseteq Requests
  OBVIOUS
<1>4. Cardinality(J) \in Nat /\ Cardinality(J) <= Cardinality(Requests)
  <2>. HIDE DEF J
  <2>. QED
    BY <1>3, RequestsAssumption, FS_Subset, FS_CardinalityType
<1>5. A # {} \/ I # {} =>
         Cardinality(A) + Cardinality(I) < MaxAttempts + Cardinality(Requests)
  BY DEF OvershootInv
<1>6. ASSUME AttemptsOf(s)' = A, J \subseteq I
      PROVE  /\ IsFiniteSet(AttemptsOf(s))'
             /\ (AttemptsOf(s) # {} \/ Inserting(s) # {})' =>
                   Cardinality(AttemptsOf(s))' + Cardinality(Inserting(s))'
                      < MaxAttempts + Cardinality(Requests)
  <2>. HIDE DEF A, I, J
  <2>1. Cardinality(J) <= Cardinality(I)
    BY <1>1, <1>6, FS_Subset
  <2>2. A # {} \/ J # {} =>
           Cardinality(A) + Cardinality(J) < MaxAttempts + Cardinality(Requests)
    BY <1>1, <1>4, <1>5, <1>6, <2>1
  <2>. QED
    BY <1>1, <1>2, <1>6, <2>2
<1>7. ASSUME NEW r \in Requests, ServerStep(r) \/ ClientStep(r) \/ Abort(r)
      PROVE  /\ IsFiniteSet(AttemptsOf(s))'
             /\ (AttemptsOf(s) # {} \/ Inserting(s) # {})' =>
                   Cardinality(AttemptsOf(s))' + Cardinality(Inserting(s))'
                      < MaxAttempts + Cardinality(Requests)
  <2>1. \A o \in Requests \ {r} : pc'[o] = pc[o] /\ req'[o] = req[o]
    BY <1>7, OthersUnchanged DEF IInv
  <2>2. CASE InsertAttempt(r)
    <3>1. PICK a \in Unused : /\ status' = [status EXCEPT ![a] = "IN_PROGRESS"]
                              /\ owner' = [owner EXCEPT ![a] = req[r].student]
      BY <2>2 DEF InsertAttempt
    <3>2. pc[r] = "insert" /\ pc'[r] = "idle"
      BY <2>2 DEF InsertAttempt, Finish, IInv, TypeOK
    <3>3. CASE req[r].student # s
      <4>1. AttemptsOf(s)' = A
        BY <3>1, <3>3 DEF AttemptsOf, Unused, IInv, TypeOK
      <4>2. J \subseteq I
        BY <2>1, <3>2 DEF Inserting
      <4>. QED
        BY <1>6, <4>1, <4>2
    <3>4. CASE req[r].student = s
      <4>1. AttemptsOf(s)' = A \cup {a}
        BY <3>1, <3>4 DEF AttemptsOf, Unused, IInv, TypeOK
      <4>2. r \in I /\ J \subseteq I \ {r}
        BY <2>1, <3>2, <3>4 DEF Inserting
      <4>. HIDE DEF A, I, J
      <4>3. IsFiniteSet(A \cup {a}) /\ Cardinality(A \cup {a}) \in Nat
            /\ Cardinality(A \cup {a}) <= Cardinality(A) + 1
        <5>1. /\ IsFiniteSet(A \cup {a})
              /\ Cardinality(A \cup {a}) =
                    IF a \in A THEN Cardinality(A) ELSE Cardinality(A) + 1
          BY <1>1, FS_AddElement
        <5>. QED
          BY <1>1, <5>1
      <4>4. IsFiniteSet(I \ {r}) /\ Cardinality(I \ {r}) = Cardinality(I) - 1
        BY <1>1, <4>2, FS_RemoveElement
      <4>5. Cardinality(J) <= Cardinality(I) - 1
        BY <4>2, <4>4, FS_Subset
      <4>6. Cardinality(A) + Cardinality(I) < MaxAttempts + Cardinality(Requests)
        BY <1>5, <4>2
      <4>7. Cardinality(A \cup {a}) + Cardinality(J) < MaxAttempts + Cardinality(Requests)
        BY <1>1, <1>4, <4>3, <4>5, <4>6
      <4>. QED
        BY <1>2, <4>1, <4>3, <4>7
    <3>. QED
      BY <3>3, <3>4
  <2>3. CASE ~InsertAttempt(r)
    <3>1. AttemptsOf(s)' = A
      BY <1>7, <2>3, AttemptsKept
    <3>2. CASE r \notin J
      <4>1. J \subseteq I
        BY <2>1, <3>2 DEF Inserting
      <4>. QED
        BY <1>6, <3>1, <4>1
    <3>3. CASE r \in J
      <4>1. req[r].student = s /\ ~(Cardinality(A) >= MaxAttempts)
        BY <1>7, <3>3, StartReads
      <4>2. Cardinality(A) + Cardinality(J) < MaxAttempts + Cardinality(Requests)
        <5>. HIDE DEF A, J
        <5>. QED
          BY <1>1, <1>4, <4>1
      <4>. QED
        BY <1>1, <1>2, <3>1, <4>2
    <3>. QED
      BY <3>2, <3>3
  <2>. QED
    BY <2>2, <2>3
<1>8. CASE Tick \/ UNCHANGED vars
  <2>1. AttemptsOf(s)' = A /\ J \subseteq I
    BY <1>8 DEF Tick, vars, rowVars, AttemptsOf, Inserting
  <2>. QED
    BY <1>6, <2>1
<1>. QED
  BY <1>7, <1>8 DEF Next

\* A student whose starts never overlap stays within max_attempts and has one
\* attempt in progress at most, although nothing locks the reads to the
\* insert; overlapping starts exceed it by less than there are requests.
THEOREM LimitHolds == Spec => []LimitOvershootBounded
<1>1. StartInv => \A s \in Students \ overlapped :
                     /\ Cardinality(AttemptsOf(s)) <= MaxAttempts
                     /\ Cardinality({a \in AttemptsOf(s) : status[a] = "IN_PROGRESS"}) <= 1
  <2>. SUFFICES ASSUME StartInv, NEW s \in Students \ overlapped
                PROVE  /\ Cardinality(AttemptsOf(s)) <= MaxAttempts
                       /\ Cardinality({a \in AttemptsOf(s) : status[a] = "IN_PROGRESS"}) <= 1
    OBVIOUS
  <2>. DEFINE open == {a \in AttemptsOf(s) : status[a] = "IN_PROGRESS"}
  <2>1. WithinLimit(s)
    BY DEF StartInv
  <2>2. CASE open = {}
    BY <2>1, <2>2, FS_EmptySet DEF WithinLimit
  <2>3. CASE open # {}
    <3>1. PICK a \in open : \A b \in open : b = a
      BY <2>1, <2>3 DEF WithinLimit
    <3>. HIDE DEF open
    <3>2. open = {a}
      BY <3>1
    <3>3. Cardinality(open) = 1
      BY <3>2, FS_Singleton
    <3>4. Cardinality(open) <= 1
      BY <3>3
    <3>. QED
      BY <2>1, <3>4 DEF WithinLimit, open
  <2>. QED
    BY <2>2, <2>3
<1>2. OvershootInv => \A s \in Students :
         AttemptsOf(s) # {} => Cardinality(AttemptsOf(s)) < MaxAttempts + Cardinality(Requests)
  <2>. SUFFICES ASSUME OvershootInv, NEW s \in Students, AttemptsOf(s) # {}
                PROVE  Cardinality(AttemptsOf(s)) < MaxAttempts + Cardinality(Requests)
    OBVIOUS
  <2>1. Cardinality(AttemptsOf(s)) \in Nat /\ Cardinality(Inserting(s)) \in Nat
    BY InsertingFinite, FS_CardinalityType DEF OvershootInv
  <2>2. Cardinality(AttemptsOf(s)) + Cardinality(Inserting(s))
           < MaxAttempts + Cardinality(Requests)
    BY DEF OvershootInv
  <2>3. MaxAttempts \in Nat /\ Cardinality(Requests) \in Nat
    BY InsertingFinite, NumbersAssumption
  <2>. QED
    BY <2>1, <2>2, <2>3
<1>3. StartInv /\ OvershootInv => LimitOvershootBounded
  BY <1>1, <1>2 DEF LimitOvershootBounded
<1>. QED
  BY <1>3, InitStartInv, StartStep, InitOvershootInv, OvershootStep, Invariance, PTL DEF Spec

=============================================================================
