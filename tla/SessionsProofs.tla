--------------------------- MODULE SessionsProofs ---------------------------
(***************************************************************************)
(* Theorems about Sessions, for any set of tokens, passwords, roles and    *)
(* requests.                                                               *)
(*                                                                         *)
(* The argument has two parts.  No two requests hold conflicting locks     *)
(* (Exclusion), and a refresh that is about to rotate holds its session    *)
(* and the user FOR UPDATE (LockInv), so the token it judged usable still  *)
(* is (RotateInv).  And a login, which holds nothing, carries the hash and *)
(* the roles together with their version (LoginInv, ClaimsInv), so what    *)
(* it inserts too late is not usable.                                      *)
(***************************************************************************)
EXTENDS Sessions, FiniteSetTheorems, TLAPS

-----------------------------------------------------------------------------
(* The inductive invariant *)

\* A request is where its kind may be and has its arguments.
RequestOK(r) ==
    /\ job[r].sessions \subseteq Issued
    /\ pc[r] # "idle" =>
        /\ req[r] \in Request
        /\ req[r].op = "login" =>
              pc[r] \in {"identify", "count", "verify", "clear", "insert"}
        /\ req[r].op = "refresh" =>
              pc[r] \in {"find", "session", "member", "user", "rotate", "refuse"}
        /\ req[r].op = "logout" => pc[r] = "revoke"
        /\ req[r].op \in {"change", "reset"} =>
              pc[r] \in {"read", "user", "login", "scan", "commit"}
        /\ req[r].op = "roles" =>
              pc[r] \in {"delete", "wait", "add", "user", "scan", "commit"}
        /\ req[r].op = "login" => req[r].given \in Passwords
        /\ req[r].op \in {"refresh", "logout"} => req[r].session \in Issued
        /\ req[r].op = "change" => req[r].new \in Chosen
        /\ req[r].op = "reset" => req[r].new \in Temporary
RequestInv == \A r \in Requests : RequestOK(r)

\* The locks a request holds where it matters.
LockOK(r) ==
    /\ pc[r] = "rotate" \/ (pc[r] \in {"member", "user"} /\ req[r].op = "refresh") =>
          [row |-> req[r].session, mode |-> "UPDATE"] \in held[r]
    /\ pc[r] = "rotate" => [row |-> "user", mode |-> "UPDATE"] \in held[r]
    /\ pc[r] \in {"scan", "commit"} \/ (pc[r] = "login" /\ req[r].op = "change") =>
          [row |-> "user", mode |-> "NO KEY UPDATE"] \in held[r]
LockInv == \A r \in Requests : LockOK(r)

\* No two requests hold conflicting locks.
Exclusion ==
    \A o, r \in Requests : \A h \in held[o], k \in held[r] :
        o # r /\ h.row = k.row => ~Conflict(h.mode, k.mode)

\* A refresh that is about to rotate holds a usable token.
RotateInv == \A r \in Requests : pc[r] = "rotate" => req[r].session \in Usable

\* Families are founded by a token of their own, versions never lead the user's.
FamilyInv ==
    \A s \in Issued : session[s].family \in Issued /\ session[s].version <= version

\* A login under way that read the current version read the current hash.
LoginInv ==
    \A r \in Requests :
        pc[r] \in {"count", "verify", "clear", "insert"} =>
            /\ job[r].version <= version
            /\ job[r].version = version => job[r].password = password
            /\ pc[r] \in {"clear", "insert"} => req[r].given = job[r].password

\* The versions and roles of all access tokens, issued or about to be.
Claims ==
    tokens \cup {[version |-> job[r].version, roles |-> job[r].roles] :
                    r \in {q \in Requests :
                              pc[q] \in {"count", "verify", "clear", "insert"}}}
ClaimsInv ==
    \A c \in Claims :
        /\ c.version <= version
        /\ c.version = version => c.roles = RoleNames(roleRows)
        /\ \A d \in Claims : c.version = d.version => c.roles = d.roles

IInv ==
    /\ TypeOK
    /\ RequestInv
    /\ LockInv
    /\ Exclusion
    /\ RotateInv
    /\ FamilyInv
    /\ LoginInv
    /\ ClaimsInv
    /\ OneLiveTokenPerFamily
    /\ UsableTokensKnowPassword
    /\ TemporaryPasswordsFlagged

-----------------------------------------------------------------------------
(* Types *)

\* Changing the fields an action writes keeps a job a job.
LEMMA JobUpdates ==
    ASSUME NEW j \in Job
    PROVE  /\ \A p \in Passwords, v \in Nat, R \in SUBSET Roles :
                 [j EXCEPT !.password = p, !.version = v, !.roles = R] \in Job
           /\ \A S \in SUBSET Sessions : [j EXCEPT !.sessions = S] \in Job
           /\ \A W \in SUBSET RoleRow : [j EXCEPT !.rows = W] \in Job
BY DEF Job

\* The empty job is well typed.
LEMMA NoJobType == NoJob \in Job
BY DEF NoJob, Job

\* A request that ends or moves on, with or without new locks, stays typed.
LEMMA ControlTypes ==
    ASSUME TypeOK, NEW r \in Requests
    PROVE  /\ Finish(r) =>
                 /\ pc' \in [Requests -> Controls]
                 /\ req' \in [Requests -> Request \cup {None}]
                 /\ job' \in [Requests -> Job]
                 /\ held' \in [Requests -> SUBSET Lock]
           /\ \A label \in Controls :
                 /\ Goto(r, label) => pc' \in [Requests -> Controls]
                 /\ Acquire(r, label) =>
                       /\ pc' \in [Requests -> Controls]
                       /\ held' \in [Requests -> SUBSET Lock]
<1>1. Finish(r) => /\ pc' \in [Requests -> Controls]
                   /\ req' \in [Requests -> Request \cup {None}]
  BY DEF Finish, TypeOK, Controls
<1>2. Finish(r) => /\ job' \in [Requests -> Job]
                   /\ held' \in [Requests -> SUBSET Lock]
  BY NoJobType DEF Finish, TypeOK
<1>3. \A label \in Controls : Goto(r, label) => pc' \in [Requests -> Controls]
  BY DEF Goto, TypeOK
<1>4. \A label \in Controls :
         Acquire(r, label) => held' \in [Requests -> SUBSET Lock]
  BY DEF Acquire, TypeOK
<1>. QED
  BY <1>1, <1>2, <1>3, <1>4 DEF Acquire

\* New and revoked sessions are session rows.
LEMMA SessionTypes ==
    ASSUME TypeOK
    PROVE  /\ \A f \in Sessions, v \in Nat : NewSession(f, v) \in SessionRow
           /\ \A S \in SUBSET Issued :
                 Revoked(S) \in [Sessions -> SessionRow \cup {None}]
           /\ \A s \in Issued : session[s] \in SessionRow
<1>1. \A s \in Issued : session[s] \in SessionRow
  BY DEF TypeOK, Issued
<1>2. \A x \in SessionRow : [x EXCEPT !.revoked = TRUE] \in SessionRow
  BY DEF SessionRow
<1>3. \A f \in Sessions, v \in Nat : NewSession(f, v) \in SessionRow
  BY DEF NewSession, SessionRow
<1>. QED
  BY <1>1, <1>2, <1>3 DEF Revoked, TypeOK, Issued

\* Every client's request is well typed.
LEMMA AskType ==
    /\ \A p \in Passwords : [Ask("login") EXCEPT !.given = p] \in Request
    /\ \A s \in Sessions : /\ [Ask("refresh") EXCEPT !.session = s] \in Request
                           /\ [Ask("logout") EXCEPT !.session = s] \in Request
    /\ \A p, n \in Passwords :
          [Ask("change") EXCEPT !.given = p, !.new = n] \in Request
    /\ \A n \in Passwords : [Ask("reset") EXCEPT !.new = n] \in Request
    /\ \A R \in SUBSET Roles : [Ask("roles") EXCEPT !.roles = R] \in Request
BY DEF Ask, Request, AllOps

\* What a request is doing tells its kind and which arguments it has.
LEMMA AtStep ==
    ASSUME TypeOK, RequestInv, NEW r \in Requests
    PROVE  /\ job[r] \in Job
           /\ job[r].sessions \subseteq Issued
           /\ pc[r] # "idle" => req[r] \in Request
           /\ pc[r] \in {"identify", "count", "verify", "clear", "insert"} =>
                 req[r].op = "login" /\ req[r].given \in Passwords
           /\ pc[r] \in {"find", "session", "member", "rotate", "refuse"} =>
                 req[r].op = "refresh"
           /\ pc[r] \in {"find", "session", "member", "rotate", "refuse", "revoke"} =>
                 req[r].session \in Issued
           /\ pc[r] = "revoke" => req[r].op = "logout"
           /\ pc[r] \in {"read", "login"} => req[r].op \in {"change", "reset"}
           /\ pc[r] \in {"delete", "wait", "add"} => req[r].op = "roles"
           /\ pc[r] = "user" => req[r].op \in {"refresh", "change", "reset", "roles"}
           /\ pc[r] \in {"scan", "commit"} => req[r].op \in {"change", "reset", "roles"}
           /\ req[r].op = "refresh" /\ pc[r] # "idle" => req[r].session \in Issued
<1>1. pc[r] # "idle" =>
         /\ req[r] \in Request
         /\ req[r].op \in {"login", "refresh", "logout", "change", "reset", "roles"}
  BY DEF RequestInv, RequestOK, Request, AllOps
<1>. QED
  BY <1>1 DEF TypeOK, RequestInv, RequestOK

\* Every step keeps the rows, locks and requests in their domains.
LEMMA TypeStep == TypeOK /\ RequestInv /\ [Next]_vars => TypeOK'
<1>. SUFFICES ASSUME TypeOK, RequestInv, [Next]_vars PROVE TypeOK'
  OBVIOUS
<1>. USE DEF TypeOK
<1>1. ASSUME NEW r \in Requests, ClientStep(r) PROVE TypeOK'
  <2>1. ASSUME NEW q \in Request, NEW label \in Controls, Issue(r, q, label)
        PROVE  TypeOK'
    BY <2>1 DEF Issue, Goto, user, history
  <2>2. /\ \A p \in Passwords : IssueLogin(r, p) => TypeOK'
        /\ \A s \in Sessions : IssueRefresh(r, s) \/ IssueLogout(r, s) => TypeOK'
    BY <2>1, AskType DEF IssueLogin, IssueRefresh, IssueLogout, Controls
  <2>3. /\ \A p, n \in Passwords : IssueChange(r, p, n) => TypeOK'
        /\ \A n \in Passwords : IssueReset(r, n) => TypeOK'
        /\ \A R \in SUBSET Roles : IssueRoles(r, R) => TypeOK'
    BY <2>1, AskType DEF IssueChange, IssueReset, IssueRoles, Controls
  <2>. QED
    BY <1>1, <2>2, <2>3 DEF ClientStep
<1>2. ASSUME NEW r \in Requests, ServerStep(r) PROVE TypeOK'
  <2>1. req[r] \in Request /\ job[r] \in Job
    BY <1>2, AtStep DEF ServerStep, Identify, CountFailures, VerifyLogin,
       ClearFailures, InsertSession, FindSession, LockSession, LockMember,
       LockUserToRefresh, Rotate, Refuse, RevokeSession, ReadPassword,
       LockLogin, LockUserToChange, ScanSessions, CommitPassword, FindRoles,
       DeleteRoles, CreateRoles, CommitRoles
  <2>2. CASE Identify(r)
    <3>1. RoleNames(roleRows) \in SUBSET Roles
      BY DEF RoleNames, RoleRow
    <3>2. job' \in [Requests -> Job]
      BY <2>1, <2>2, <3>1, JobUpdates DEF Identify
    <3>. QED
      BY <2>2, <3>2, ControlTypes DEF Identify, Controls, user, history
  <2>3. CASE CountFailures(r) \/ VerifyLogin(r) \/ ClearFailures(r)
    BY <2>3, ControlTypes
       DEF CountFailures, VerifyLogin, ClearFailures, Controls, user, history
  <2>4. CASE InsertSession(r)
    <3>1. req[r].given \in Passwords /\ job[r].version \in Nat
          /\ job[r].roles \in SUBSET Roles
      BY <2>1, <2>4, AtStep DEF InsertSession, Job
    <3>. QED
      BY <2>4, <3>1, ControlTypes, SessionTypes DEF InsertSession, user
  <2>5. CASE FindSession(r) \/ LockSession(r) \/ LockMember(r) \/ Refuse(r)
    BY <2>5, ControlTypes
       DEF FindSession, LockSession, LockMember, Refuse, Controls, user, history
  <2>6. CASE LockUserToRefresh(r)
    BY <2>6, ControlTypes DEF LockUserToRefresh, Controls, user, history
  <2>7. CASE Rotate(r)
    <3>. DEFINE s == req[r].session
    <3>1. s \in Issued
      BY <2>7, AtStep DEF Rotate
    <3>2. /\ session[s].family \in Sessions /\ session[s].version \in Nat
          /\ session[s] \in SessionRow
      BY <3>1, SessionTypes DEF SessionRow
    <3>3. [session[s] EXCEPT !.replaced = TRUE] \in SessionRow
      BY <3>2 DEF SessionRow
    <3>4. NewSession(session[s].family, session[s].version) \in SessionRow
      BY <3>2, SessionTypes
    <3>5. session' \in [Sessions -> SessionRow \cup {None}]
      BY <2>7, <3>3, <3>4 DEF Rotate
    <3>6. secret' \in [Sessions -> Passwords \cup {None}]
      BY <2>7, <3>1 DEF Rotate, Issued
    <3>7. RoleNames(roleRows) \in SUBSET Roles
      BY DEF RoleNames, RoleRow
    <3>8. tokens' \subseteq [version : Nat, roles : SUBSET Roles]
      BY <2>7, <3>2, <3>7 DEF Rotate
    <3>. QED
      BY <2>7, <3>5, <3>6, <3>8, ControlTypes DEF Rotate, user
  <2>8. CASE RevokeSession(r)
    <3>1. {req[r].session} \in SUBSET Issued
      BY <2>8, AtStep DEF RevokeSession
    <3>. QED
      BY <2>8, <3>1, ControlTypes, SessionTypes DEF RevokeSession, user, history
  <2>9. CASE ReadPassword(r) \/ LockLogin(r) \/ LockUserToChange(r)
    BY <2>9, ControlTypes
       DEF ReadPassword, LockLogin, LockUserToChange, Controls, user, history
  <2>10. CASE ScanSessions(r)
    <3>1. {s \in Issued : ~session[s].revoked} \in SUBSET Sessions
      BY DEF Issued
    <3>2. job' \in [Requests -> Job]
      BY <2>1, <2>10, <3>1, JobUpdates DEF ScanSessions
    <3>. QED
      BY <2>10, <3>2, ControlTypes DEF ScanSessions, Controls, user, history
  <2>11. CASE CommitPassword(r)
    <3>1. job[r].sessions \in SUBSET Issued
      BY <2>11, AtStep DEF CommitPassword
    <3>2. req[r].new \in Passwords
      BY <2>11 DEF CommitPassword, RequestInv, RequestOK, Passwords
    <3>. QED
      BY <2>11, <3>1, <3>2, ControlTypes, SessionTypes DEF CommitPassword, history
  <2>12. CASE FindRoles(r) \/ DeleteRoles(r)
    <3>1. roleRows \in SUBSET RoleRow /\ job[r].rows \cap roleRows \in SUBSET RoleRow
      OBVIOUS
    <3>2. /\ [job[r] EXCEPT !.rows = roleRows] \in Job
          /\ [job[r] EXCEPT !.rows = job[r].rows \cap roleRows] \in Job
      BY <2>1, <3>1, JobUpdates
    <3>3. \/ job' = [job EXCEPT ![r] = [job[r] EXCEPT !.rows = roleRows]]
          \/ job' = [job EXCEPT ![r] = [job[r] EXCEPT !.rows = job[r].rows \cap roleRows]]
      BY <2>12 DEF FindRoles, DeleteRoles
    <3>4. job' \in [Requests -> Job]
      BY <3>2, <3>3
    <3>. QED
      BY <2>12, <3>4, ControlTypes DEF FindRoles, DeleteRoles, Controls, user, history
  <2>13. CASE CreateRoles(r)
    BY <2>13, ControlTypes DEF CreateRoles, Controls, user, history
  <2>14. CASE CommitRoles(r)
    <3>1. job[r].sessions \in SUBSET Issued
      BY <2>14, AtStep DEF CommitRoles
    <3>2. [role : req[r].roles, born : {version + 1}] \subseteq RoleRow
      BY <2>1 DEF Request, RoleRow
    <3>. QED
      BY <2>14, <3>1, <3>2, ControlTypes, SessionTypes DEF CommitRoles, history
  <2>. QED
    BY <1>2, <2>2, <2>3, <2>4, <2>5, <2>6, <2>7, <2>8, <2>9, <2>10, <2>11,
       <2>12, <2>13, <2>14 DEF ServerStep
<1>3. ASSUME NEW r \in Requests, Abort(r) \/ BreakDeadlock(r) PROVE TypeOK'
  BY <1>3, ControlTypes DEF Abort, BreakDeadlock, user, history
<1>4. CASE FailuresAge
  BY <1>4 DEF FailuresAge, user, history
<1>5. CASE UNCHANGED vars
  BY <1>5 DEF vars, user, history
<1>. QED
  BY <1>1, <1>2, <1>3, <1>4, <1>5 DEF Next

-----------------------------------------------------------------------------
(* What a step may touch *)

Step(r) == ServerStep(r) \/ ClientStep(r) \/ Abort(r)
Still == UNCHANGED <<user, session, pc, req, job, held, history>>

\* Only r moves, and its locks are kept, dropped or extended by those granted.
Apart(r) ==
    /\ \A q \in Requests \ {r} : /\ pc'[q] = pc[q] /\ req'[q] = req[q]
                                  /\ job'[q] = job[q] /\ held'[q] = held[q]
    /\ \/ held'[r] = {}
       \/ held'[r] = held[r]
       \/ /\ Granted(r)
          /\ held'[r] = held[r] \cup {l \in Lock : Wants(r, l.row, l.mode)}

\* Sessions are never deleted or revived, nor moved to another family or version.
RowsKept ==
    \A s \in Issued :
        /\ s \in Issued'
        /\ session'[s].family = session[s].family
        /\ session'[s].version = session[s].version
        /\ Dead(s) => Dead(s)'
        /\ secret'[s] = secret[s]

\* A step is a request's or touches neither the requests nor what they write.
LEMMA NextSteps == [Next]_vars => Still \/ \E r \in Requests : Step(r)
BY DEF Next, Step, Still, BreakDeadlock, FailuresAge, vars

\* A request changes nothing of another request.
LEMMA StepApart ==
    ASSUME TypeOK, NEW r \in Requests, Step(r)
    PROVE  Apart(r)
<1>. USE DEF TypeOK, Apart
<1>1. Finish(r) => Apart(r)
  BY DEF Finish
<1>2. ASSUME NEW l, Goto(r, l), UNCHANGED <<req, held>>,
             job' = job \/ \E j : job' = [job EXCEPT ![r] = j]
      PROVE  Apart(r)
  BY <1>2 DEF Goto
<1>3. ASSUME NEW l, Acquire(r, l), UNCHANGED <<req, job>> PROVE Apart(r)
  BY <1>3 DEF Acquire, Goto
<1>4. CASE ClientStep(r)
  <2>1. ASSUME NEW q, NEW l, Issue(r, q, l) PROVE Apart(r)
    BY <2>1 DEF Issue, Goto
  <2>. QED
    BY <1>4, <2>1 DEF ClientStep, IssueLogin, IssueRefresh, IssueLogout,
       IssueChange, IssueReset, IssueRoles
<1>5. CASE Abort(r)
  BY <1>1, <1>5 DEF Abort
<1>6. CASE ServerStep(r)
  <2>1. CASE Identify(r) \/ CountFailures(r) \/ VerifyLogin(r) \/ ClearFailures(r)
    BY <1>1, <1>2, <2>1 DEF Identify, CountFailures, VerifyLogin, ClearFailures
  <2>2. CASE InsertSession(r) \/ Rotate(r) \/ RevokeSession(r) \/ Refuse(r)
    BY <1>1, <2>2 DEF InsertSession, Rotate, RevokeSession, Refuse
  <2>3. CASE FindSession(r) \/ ReadPassword(r) \/ ScanSessions(r) \/ FindRoles(r)
             \/ DeleteRoles(r)
    BY <1>1, <1>2, <2>3
       DEF FindSession, ReadPassword, ScanSessions, FindRoles, DeleteRoles
  <2>4. CASE LockSession(r) \/ LockMember(r) \/ LockUserToRefresh(r)
    BY <1>1, <1>3, <2>4 DEF LockSession, LockMember, LockUserToRefresh
  <2>5. CASE LockLogin(r) \/ LockUserToChange(r) \/ CreateRoles(r)
    BY <1>1, <1>3, <2>5 DEF LockLogin, LockUserToChange, CreateRoles
  <2>6. CASE CommitPassword(r) \/ CommitRoles(r)
    BY <1>1, <2>6 DEF CommitPassword, CommitRoles
  <2>. QED
    BY <1>6, <2>1, <2>2, <2>3, <2>4, <2>5, <2>6 DEF ServerStep
<1>. QED
  BY <1>4, <1>5, <1>6 DEF Step

\* Five actions write what the properties are about.
LEMMA Writers ==
    ASSUME NEW r, Step(r)
    PROVE  \/ UNCHANGED <<user, session, history>>
           \/ InsertSession(r) \/ Rotate(r) \/ RevokeSession(r)
           \/ CommitPassword(r) \/ CommitRoles(r)
<1>1. CASE ClientStep(r) \/ Abort(r)
  BY <1>1 DEF ClientStep, IssueLogin, IssueRefresh, IssueLogout, IssueChange,
     IssueReset, IssueRoles, Issue, Abort
<1>2. CASE ServerStep(r)
  BY <1>2 DEF ServerStep, Identify, CountFailures, VerifyLogin, ClearFailures,
     FindSession, LockSession, LockMember, LockUserToRefresh, Refuse,
     ReadPassword, LockLogin, LockUserToChange, ScanSessions, FindRoles,
     DeleteRoles, CreateRoles
<1>. QED
  BY <1>1, <1>2 DEF Step

\* What revoking does to one row.
LEMMA RevokedRow ==
    ASSUME TypeOK, NEW S \in SUBSET Issued, NEW s \in Sessions
    PROVE  /\ Revoked(S)[s] # None <=> session[s] # None
           /\ s \notin S => Revoked(S)[s] = session[s]
           /\ s \in S => /\ Revoked(S)[s].family = session[s].family
                         /\ Revoked(S)[s].version = session[s].version
                         /\ Revoked(S)[s].replaced = session[s].replaced
                         /\ Revoked(S)[s].revoked
<1>1. s \in S => session[s] \in SessionRow
  BY SessionTypes
<1>2. s \in S => Revoked(S)[s] # None
  BY SessionTypes, NoRowAssumption DEF Revoked, Issued, SessionRow
<1>. QED
  BY <1>1, <1>2 DEF Revoked, SessionRow, Issued

\* The row that a login inserts.
LEMMA InsertedRow ==
    ASSUME TypeOK, RequestInv, NEW r \in Requests, InsertSession(r)
    PROVE  \E t \in Sessions \ Issued :
              /\ Issued' = Issued \cup {t}
              /\ session'[t] = NewSession(t, job[r].version)
              /\ secret'[t] = req[r].given
              /\ \A s \in Issued : session'[s] = session[s] /\ secret'[s] = secret[s]
<1>1. PICK t \in Sessions \ Issued :
         /\ session' = [session EXCEPT ![t] = NewSession(t, job[r].version)]
         /\ secret' = [secret EXCEPT ![t] = req[r].given]
  BY DEF InsertSession
<1>2. job[r].version \in Nat
  BY AtStep DEF Job
<1>3. NewSession(t, job[r].version) # None
  BY <1>2, SessionTypes, NoRowAssumption
<1>. QED
  BY <1>1, <1>3 DEF TypeOK, Issued

\* The row that a refresh inserts and the one it replaces.
LEMMA RotatedRows ==
    ASSUME TypeOK, RequestInv, NEW r \in Requests, Rotate(r)
    PROVE  LET s == req[r].session IN
           /\ s \in Issued
           /\ session[s] \in SessionRow
           /\ session'[s] = [session[s] EXCEPT !.replaced = TRUE]
           /\ \E t \in Sessions \ Issued :
                 /\ Issued' = Issued \cup {t}
                 /\ session'[t] = NewSession(session[s].family, session[s].version)
                 /\ secret'[t] = secret[s]
           /\ \A q \in Issued : /\ secret'[q] = secret[q]
                                /\ q # s => session'[q] = session[q]
<1>. DEFINE s == req[r].session
<1>1. s \in Issued /\ session[s] \in SessionRow
  BY AtStep, SessionTypes DEF Rotate
<1>2. PICK t \in Sessions \ Issued :
         /\ session' = [session EXCEPT
               ![s].replaced = TRUE,
               ![t] = NewSession(session[s].family, session[s].version)]
         /\ secret' = [secret EXCEPT ![t] = secret[s]]
  BY DEF Rotate
<1>3. /\ [session[s] EXCEPT !.replaced = TRUE] \in SessionRow
      /\ NewSession(session[s].family, session[s].version) \in SessionRow
  BY <1>1, SessionTypes DEF SessionRow
<1>4. /\ session'[t] = NewSession(session[s].family, session[s].version)
      /\ session'[s] = [session[s] EXCEPT !.replaced = TRUE]
      /\ \A q \in Sessions \ {s, t} : session'[q] = session[q]
  BY <1>1, <1>2 DEF TypeOK, Issued
<1>5. Issued' = Issued \cup {t}
  BY <1>1, <1>2, <1>3, <1>4, NoRowAssumption DEF Issued
<1>6. secret'[t] = secret[s] /\ \A q \in Issued : secret'[q] = secret[q]
  BY <1>1, <1>2 DEF TypeOK, Issued
<1>. QED
  BY <1>1, <1>2, <1>4, <1>5, <1>6 DEF Issued

\* The rows that a logout and a commit revoke are issued, and stay so.
LEMMA RevokedRows ==
    ASSUME TypeOK, RequestInv, NEW r \in Requests,
           RevokeSession(r) \/ CommitPassword(r) \/ CommitRoles(r)
    PROVE  \E S \in SUBSET Issued :
              /\ session' = Revoked(S) /\ Issued' = Issued
              /\ UNCHANGED secret
              /\ RevokeSession(r) => S = {req[r].session}
<1>1. PICK S \in SUBSET Issued : /\ session' = Revoked(S) /\ UNCHANGED secret
                                 /\ RevokeSession(r) => S = {req[r].session}
  <2>1. CASE RevokeSession(r)
    BY <2>1, AtStep DEF RevokeSession, history
  <2>2. CASE CommitPassword(r) \/ CommitRoles(r)
    BY <2>2, AtStep DEF CommitPassword, CommitRoles, history, RevokeSession
  <2>. QED
    BY <2>1, <2>2
<1>2. Issued' = Issued
  BY <1>1, RevokedRow DEF Issued
<1>. QED
  BY <1>1, <1>2

\* What each writer does to the rows that exist.
LEMMA RowsStep ==
    ASSUME TypeOK, RequestInv, [Next]_vars
    PROVE  RowsKept
<1>1. CASE UNCHANGED <<session, secret>>
  BY <1>1 DEF RowsKept, Issued, Dead
<1>2. ASSUME NEW r \in Requests, Step(r) PROVE RowsKept
  <2>1. CASE UNCHANGED <<user, session, history>>
    BY <1>1, <2>1 DEF history
  <2>2. CASE InsertSession(r)
    BY <2>2, InsertedRow DEF RowsKept, Dead
  <2>3. CASE Rotate(r)
    BY <2>3, RotatedRows DEF RowsKept, Dead, SessionRow
  <2>4. CASE RevokeSession(r) \/ CommitPassword(r) \/ CommitRoles(r)
    <3>1. PICK S \in SUBSET Issued :
             session' = Revoked(S) /\ Issued' = Issued /\ UNCHANGED secret
      BY <2>4, RevokedRows
    <3>2. ASSUME NEW s \in Issued
          PROVE  /\ session'[s].family = session[s].family
                 /\ session'[s].version = session[s].version
                 /\ Dead(s) => Dead(s)'
      BY <3>1, RevokedRow DEF Dead, Issued
    <3>. QED
      BY <3>1, <3>2 DEF RowsKept
  <2>. QED
    BY <1>2, <2>1, <2>2, <2>3, <2>4, Writers
<1>. QED
  BY <1>1, <1>2, NextSteps DEF Still, history

-----------------------------------------------------------------------------
(* Requests and locks *)

\* A request is issued with its arguments and goes from label to label of its
\* kind.
LEMMA RequestStep ==
    ASSUME TypeOK, RequestInv, [Next]_vars
    PROVE  RequestInv'
<1>1. Issued \subseteq Issued' /\ Issued' \subseteq Sessions
  BY RowsStep DEF RowsKept, Issued
<1>2. CASE Still
  BY <1>1, <1>2 DEF Still, RequestInv, RequestOK
<1>3. ASSUME NEW r \in Requests, Step(r) PROVE RequestInv'
  <2>1. ASSUME NEW q \in Requests \ {r} PROVE RequestOK(q)'
    <3>1. pc'[q] = pc[q] /\ req'[q] = req[q] /\ job'[q] = job[q]
      BY <1>3, StepApart DEF Apart
    <3>. QED
      BY <1>1, <3>1 DEF RequestInv, RequestOK
  <2>2. ASSUME Finish(r) PROVE RequestOK(r)'
    BY <2>2 DEF Finish, RequestOK, TypeOK, NoJob
  <2>3. ASSUME ClientStep(r) PROVE RequestOK(r)'
    <3>1. ASSUME NEW q \in Request, NEW label, Issue(r, q, label)
          PROVE  /\ req'[r] = q /\ pc'[r] = label
                 /\ job'[r].sessions \subseteq Issued'
      BY <1>1, <3>1, AtStep DEF Issue, Goto, TypeOK
    <3>2. ASSUME NEW p \in Passwords, IssueLogin(r, p) PROVE RequestOK(r)'
      <4>. DEFINE q == [Ask("login") EXCEPT !.given = p]
      <4>1. q \in Request /\ q.op = "login" /\ q.given = p
        BY AskType DEF Ask
      <4>. QED
        BY <3>1, <3>2, <4>1 DEF IssueLogin, RequestOK
    <3>3. ASSUME NEW s \in Sessions, IssueRefresh(r, s) PROVE RequestOK(r)'
      <4>. DEFINE q == [Ask("refresh") EXCEPT !.session = s]
      <4>1. q \in Request /\ q.op = "refresh" /\ q.session = s
        BY AskType DEF Ask
      <4>. QED
        BY <1>1, <3>1, <3>3, <4>1 DEF IssueRefresh, RequestOK
    <3>4. ASSUME NEW s \in Sessions, IssueLogout(r, s) PROVE RequestOK(r)'
      <4>. DEFINE q == [Ask("logout") EXCEPT !.session = s]
      <4>1. q \in Request /\ q.op = "logout" /\ q.session = s
        BY AskType DEF Ask
      <4>. QED
        BY <1>1, <3>1, <3>4, <4>1 DEF IssueLogout, RequestOK
    <3>5. ASSUME NEW p \in Passwords, NEW n \in Passwords, IssueChange(r, p, n)
          PROVE  RequestOK(r)'
      <4>. DEFINE q == [Ask("change") EXCEPT !.given = p, !.new = n]
      <4>1. q \in Request /\ q.op = "change" /\ q.new = n
        BY AskType DEF Ask
      <4>. QED
        BY <3>1, <3>5, <4>1 DEF IssueChange, RequestOK
    <3>6. ASSUME NEW n \in Passwords, IssueReset(r, n) PROVE RequestOK(r)'
      <4>. DEFINE q == [Ask("reset") EXCEPT !.new = n]
      <4>1. q \in Request /\ q.op = "reset" /\ q.new = n
        BY AskType DEF Ask
      <4>. QED
        BY <3>1, <3>6, <4>1 DEF IssueReset, RequestOK
    <3>7. ASSUME NEW R \in SUBSET Roles, IssueRoles(r, R) PROVE RequestOK(r)'
      <4>. DEFINE q == [Ask("roles") EXCEPT !.roles = R]
      <4>1. q \in Request /\ q.op = "roles"
        BY AskType DEF Ask
      <4>. QED
        BY <3>1, <3>7, <4>1 DEF IssueRoles, RequestOK
    <3>. QED
      BY <2>3, <3>2, <3>3, <3>4, <3>5, <3>6, <3>7 DEF ClientStep
  <2>4. ASSUME ServerStep(r) PROVE RequestOK(r)'
    <3>1. /\ pc[r] # "idle" /\ RequestOK(r)
      BY <2>4 DEF RequestInv, ServerStep, Identify, CountFailures, VerifyLogin,
         ClearFailures, InsertSession, FindSession, LockSession, LockMember,
         LockUserToRefresh, Rotate, Refuse, RevokeSession, ReadPassword,
         LockLogin, LockUserToChange, ScanSessions, CommitPassword, FindRoles,
         DeleteRoles, CreateRoles, CommitRoles
    <3>2. CASE Identify(r) \/ CountFailures(r) \/ VerifyLogin(r) \/ ClearFailures(r)
      BY <1>1, <2>2, <3>1, <3>2, AtStep DEF Identify, CountFailures, VerifyLogin,
         ClearFailures, Goto, RequestOK, TypeOK, Job
    <3>3. CASE InsertSession(r) \/ Rotate(r) \/ RevokeSession(r) \/ Refuse(r)
               \/ CommitPassword(r) \/ CommitRoles(r)
      BY <2>2, <3>3 DEF InsertSession, Rotate, RevokeSession, Refuse,
         CommitPassword, CommitRoles
    <3>4. CASE FindSession(r) \/ LockSession(r) \/ LockMember(r) \/ LockUserToRefresh(r)
      BY <1>1, <2>2, <3>1, <3>4, AtStep DEF FindSession, LockSession, LockMember,
         LockUserToRefresh, Acquire, Goto, RequestOK, TypeOK
    <3>5. CASE ReadPassword(r) \/ LockLogin(r) \/ LockUserToChange(r) \/ CreateRoles(r)
      BY <1>1, <2>2, <3>1, <3>5, AtStep DEF ReadPassword, LockLogin,
         LockUserToChange, CreateRoles, Acquire, Goto, RequestOK, TypeOK
    <3>6. CASE ScanSessions(r) \/ FindRoles(r) \/ DeleteRoles(r)
      BY <1>1, <3>1, <3>6, AtStep DEF ScanSessions, FindRoles, DeleteRoles,
         Goto, RequestOK, TypeOK, Job
    <3>. QED
      BY <2>4, <3>2, <3>3, <3>4, <3>5, <3>6 DEF ServerStep
  <2>. QED
    BY <1>3, <2>1, <2>2, <2>3, <2>4 DEF Step, Abort, RequestInv
<1>. QED
  BY <1>2, <1>3, NextSteps

\* The conflict of two lock modes is mutual.
LEMMA ConflictSymmetric ==
    \A m, n \in Modes : Conflict(m, n) <=> Conflict(n, m)
BY DEF Conflict

\* Locks are granted only when no other request holds a conflicting one.
LEMMA ExclusionStep ==
    ASSUME TypeOK, Exclusion, [Next]_vars
    PROVE  Exclusion'
<1>1. CASE Still
  BY <1>1 DEF Still, Exclusion
<1>2. ASSUME NEW r \in Requests, Step(r) PROVE Exclusion'
  <2>1. \A q \in Requests : held[q] \subseteq Lock
    BY DEF TypeOK
  <2>2. \A q \in Requests \ {r} : held'[q] = held[q]
    BY <1>2, StepApart DEF Apart
  <2>3. ASSUME NEW q \in Requests \ {r}, NEW h \in held[q], NEW k \in held'[r],
               h.row = k.row
        PROVE  ~Conflict(h.mode, k.mode)
    <3>1. CASE k \in held[r]
      BY <2>3, <3>1 DEF Exclusion
    <3>2. CASE Granted(r) /\ k \in Lock /\ Wants(r, k.row, k.mode)
      BY <2>3, <3>2 DEF Granted, Blocks, Lock
    <3>. QED
      BY <1>2, <3>1, <3>2, StepApart DEF Apart
  <2>4. held'[r] \subseteq Lock
    BY <1>2, <2>1, StepApart DEF Apart
  <2>5. ASSUME NEW o \in Requests, NEW q \in Requests, o # q,
               NEW h \in held'[o], NEW k \in held'[q], h.row = k.row
        PROVE  ~Conflict(h.mode, k.mode)
    <3>1. h.mode \in Modes /\ k.mode \in Modes
      BY <2>1, <2>2, <2>4 DEF Lock
    <3>2. CASE o # r /\ q # r
      BY <2>2, <2>5, <3>2 DEF Exclusion
    <3>3. CASE q = r
      BY <2>2, <2>3, <2>5, <3>3
    <3>4. CASE o = r
      BY <2>2, <2>3, <2>5, <3>1, <3>4, ConflictSymmetric
    <3>. QED
      BY <3>2, <3>3, <3>4
  <2>. QED
    BY <2>5 DEF Exclusion
<1>. QED
  BY <1>1, <1>2, NextSteps

\* A request that comes to a label has taken the locks of those before it.
LEMMA LockStep ==
    ASSUME TypeOK, RequestInv, LockInv, [Next]_vars
    PROVE  LockInv'
<1>1. CASE Still
  BY <1>1 DEF Still, LockInv, LockOK
<1>2. ASSUME NEW r \in Requests, Step(r) PROVE LockInv'
  <2>1. ASSUME NEW q \in Requests \ {r} PROVE LockOK(q)'
    <3>1. pc'[q] = pc[q] /\ req'[q] = req[q] /\ held'[q] = held[q]
      BY <1>2, StepApart DEF Apart
    <3>. QED
      BY <3>1 DEF LockInv, LockOK
  <2>. SUFFICES LockOK(r)'
    BY <2>1 DEF LockInv
  <2>2. ASSUME Finish(r) PROVE LockOK(r)'
    BY <2>2 DEF Finish, LockOK, TypeOK
  <2>3. ASSUME NEW label, Goto(r, label),
               label \notin {"member", "user", "rotate", "login", "scan", "commit"}
        PROVE  LockOK(r)'
    BY <2>3 DEF Goto, LockOK, TypeOK
  <2>4. CASE ClientStep(r)
    BY <2>3, <2>4 DEF ClientStep, IssueLogin, IssueRefresh, IssueLogout,
       IssueChange, IssueReset, IssueRoles, Issue
  <2>5. ASSUME NEW label, Acquire(r, label), UNCHANGED req,
               NEW row \in {"user", "login", "member"} \cup Sessions,
               NEW mode \in Modes, Wants(r, row, mode)
        PROVE  /\ held[r] \subseteq held'[r] /\ pc'[r] = label
               /\ [row |-> row, mode |-> mode] \in held'[r]
    <3>1. [row |-> row, mode |-> mode] \in Lock
      BY DEF Lock
    <3>. QED
      BY <2>5, <3>1 DEF Acquire, Goto, TypeOK
  <2>6. CASE LockSession(r)
    <3>1. /\ req[r].session \in {"user", "login", "member"} \cup Sessions
          /\ Wants(r, req[r].session, "UPDATE")
          /\ Acquire(r, "member") /\ UNCHANGED req
      BY <2>6, AtStep DEF LockSession, Wants, Issued
    <3>2. /\ pc'[r] = "member"
          /\ [row |-> req[r].session, mode |-> "UPDATE"] \in held'[r]
      BY <2>5, <3>1 DEF Modes
    <3>. QED
      BY <3>1, <3>2 DEF LockOK
  <2>7. CASE LockMember(r)
    <3>1. /\ Wants(r, "member", "UPDATE") /\ req[r].op = "refresh"
          /\ pc[r] = "member" /\ Acquire(r, "user") /\ UNCHANGED req
      BY <2>7, AtStep DEF LockMember, Wants
    <3>2. held[r] \subseteq held'[r] /\ pc'[r] = "user"
      BY <2>5, <3>1 DEF Modes
    <3>. QED
      BY <3>1, <3>2 DEF LockOK, LockInv
  <2>8. CASE LockUserToRefresh(r)
    <3>1. /\ Wants(r, "user", "UPDATE")
          /\ [row |-> req[r].session, mode |-> "UPDATE"] \in held[r]
      BY <2>8 DEF LockUserToRefresh, Wants, LockOK, LockInv
    <3>2. ASSUME Acquire(r, "rotate"), UNCHANGED req
          PROVE  /\ held[r] \subseteq held'[r] /\ pc'[r] = "rotate"
                 /\ [row |-> "user", mode |-> "UPDATE"] \in held'[r]
      BY <2>5, <3>1, <3>2 DEF Modes
    <3>3. ASSUME Acquire(r, "rotate"), UNCHANGED req PROVE LockOK(r)'
      BY <3>1, <3>2, <3>3 DEF LockOK
    <3>4. Acquire(r, "refuse") => Goto(r, "refuse")
      BY DEF Acquire
    <3>. QED
      BY <2>2, <2>3, <2>8, <3>3, <3>4 DEF LockUserToRefresh
  <2>9. CASE LockUserToChange(r)
    <3>1. /\ Wants(r, "user", "NO KEY UPDATE")
          /\ UNCHANGED req /\ req[r].op # "refresh"
      BY <2>9 DEF LockUserToChange, Wants
    <3>2. PICK label \in {"login", "scan"} : Acquire(r, label)
      BY <2>9 DEF LockUserToChange
    <3>3. /\ pc'[r] = label
          /\ [row |-> "user", mode |-> "NO KEY UPDATE"] \in held'[r]
      BY <2>5, <3>1, <3>2 DEF Modes
    <3>. QED
      BY <3>1, <3>2, <3>3 DEF LockOK
  <2>10. CASE LockLogin(r)
    <3>1. /\ Wants(r, "login", "NO KEY UPDATE") /\ UNCHANGED req
          /\ pc[r] = "login" /\ req[r].op \in {"change", "reset"}
          /\ Acquire(r, IF req[r].op = "change" THEN "scan" ELSE "user")
      BY <2>10, AtStep DEF LockLogin, Wants
    <3>2. /\ held[r] \subseteq held'[r]
          /\ pc'[r] = IF req[r].op = "change" THEN "scan" ELSE "user"
      BY <2>5, <3>1 DEF Modes
    <3>. QED
      BY <3>1, <3>2 DEF LockOK, LockInv
  <2>11. CASE CreateRoles(r)
    BY <2>2, <2>11, AtStep DEF CreateRoles, Acquire, Goto, LockOK, TypeOK
  <2>12. CASE ScanSessions(r)
    BY <2>12 DEF ScanSessions, Goto, LockOK, LockInv, TypeOK
  <2>13. CASE ReadPassword(r)
    BY <2>2, <2>13 DEF ReadPassword, Goto, LockOK, TypeOK
  <2>14. CASE FindSession(r)
    BY <2>2, <2>3, <2>14 DEF FindSession
  <2>15. CASE \/ Identify(r) \/ CountFailures(r) \/ VerifyLogin(r)
              \/ ClearFailures(r) \/ FindRoles(r) \/ DeleteRoles(r)
    BY <2>2, <2>3, <2>15 DEF Identify, CountFailures, VerifyLogin,
       ClearFailures, FindRoles, DeleteRoles
  <2>16. CASE \/ InsertSession(r) \/ Rotate(r) \/ Refuse(r) \/ RevokeSession(r)
              \/ CommitPassword(r) \/ CommitRoles(r)
    BY <2>2, <2>16 DEF InsertSession, Rotate, Refuse, RevokeSession,
       CommitPassword, CommitRoles
  <2>17. CASE Abort(r)
    BY <2>2, <2>17 DEF Abort
  <2>. QED
    BY <1>2, <2>4, <2>6, <2>7, <2>8, <2>9, <2>10, <2>11, <2>12, <2>13, <2>14,
       <2>15, <2>16, <2>17 DEF Step, ServerStep
<1>. QED
  BY <1>1, <1>2, NextSteps

-----------------------------------------------------------------------------
(* The safety invariants *)

\* While a refresh is about to rotate nobody else rotates or commits a change,
\* and no logout revokes its session.
LEMMA RotatesAlone ==
    ASSUME TypeOK, RequestInv, LockInv, Exclusion,
           NEW q \in Requests, NEW r \in Requests, q # r, pc[q] = "rotate"
    PROVE  /\ pc[r] \notin {"rotate", "scan", "commit"}
           /\ RevokeSession(r) => req[r].session # req[q].session
<1>1. /\ [row |-> "user", mode |-> "UPDATE"] \in held[q]
      /\ [row |-> req[q].session, mode |-> "UPDATE"] \in held[q]
  BY DEF LockInv, LockOK
<1>2. ASSUME NEW k \in held[r] PROVE k.row # "user"
  <2>1. Conflict("UPDATE", k.mode)
    BY DEF Conflict
  <2>. QED
    BY <1>1, <2>1 DEF Exclusion
<1>3. pc[r] # "rotate"
  BY <1>2 DEF LockInv, LockOK
<1>4. pc[r] \notin {"scan", "commit"}
  BY <1>2 DEF LockInv, LockOK
<1>5. ASSUME RevokeSession(r), req[r].session = req[q].session PROVE FALSE
  <2>1. Wants(r, req[q].session, "NO KEY UPDATE")
    BY <1>5 DEF RevokeSession, Wants
  <2>2. Conflict("UPDATE", "NO KEY UPDATE") /\ "NO KEY UPDATE" \in Modes
    BY DEF Conflict, Modes
  <2>3. Blocks(q, r)
    BY <1>1, <2>1, <2>2 DEF Blocks
  <2>. QED
    BY <1>5, <2>3 DEF RevokeSession, Granted
<1>. QED
  BY <1>3, <1>4, <1>5

\* The session of a refresh that is about to rotate stays usable.
LEMMA RotateStep ==
    ASSUME TypeOK, RequestInv, LockInv, Exclusion, RotateInv, [Next]_vars
    PROVE  RotateInv'
<1>1. CASE Still
  BY <1>1 DEF Still, RotateInv, Usable, Issued, Dead, user
<1>2. ASSUME NEW r \in Requests, Step(r), NEW q \in Requests, pc'[q] = "rotate"
      PROVE  req'[q].session \in Usable'
  <2>1. CASE q = r
    <3>1. LockUserToRefresh(r)
      <4>1. ~ClientStep(r)
        BY <1>2, <2>1 DEF ClientStep, IssueLogin, IssueRefresh, IssueLogout,
           IssueChange, IssueReset, IssueRoles, Issue, Goto, TypeOK
      <4>2. Finish(r) => pc'[r] # "rotate"
        BY DEF Finish, TypeOK
      <4>3. ASSUME NEW label, label # "rotate" PROVE ~Goto(r, label) /\ ~Acquire(r, label)
        BY <1>2, <2>1, <4>3 DEF Goto, Acquire, TypeOK
      <4>. QED
        BY <1>2, <2>1, <4>1, <4>2, <4>3 DEF Step, Abort, ServerStep, Identify,
           CountFailures, VerifyLogin, ClearFailures, InsertSession, FindSession,
           LockSession, LockMember, Rotate, Refuse, RevokeSession, ReadPassword,
           LockLogin, LockUserToChange, ScanSessions, CommitPassword, FindRoles,
           DeleteRoles, CreateRoles, CommitRoles
    <3>2. /\ req[r].session \in Issued
          /\ pc[r] = "user" /\ UNCHANGED <<user, session>>
      BY <3>1, AtStep DEF LockUserToRefresh
    <3>3. ~Finish(r) /\ ~Acquire(r, "refuse")
      BY <1>2, <2>1 DEF Finish, Acquire, Goto, TypeOK
    <3>4. /\ session[req[r].session].version = version /\ ~Dead(req[r].session)
          /\ UNCHANGED req
      BY <3>1, <3>3 DEF LockUserToRefresh
    <3>. QED
      BY <2>1, <3>2, <3>4 DEF Usable, Issued, Dead, user
  <2>2. CASE q # r
    <3>. DEFINE s == req[q].session
    <3>1. pc[q] = "rotate" /\ req'[q] = req[q]
      BY <1>2, <2>2, StepApart DEF Apart
    <3>2. s \in Usable /\ s \in Issued /\ s \in Issued'
      BY <3>1, RowsStep, <1>2 DEF RotateInv, Usable, RowsKept
    <3>3. CASE UNCHANGED <<user, session, history>>
      BY <3>1, <3>2, <3>3 DEF Usable, Issued, Dead, user
    <3>4. CASE InsertSession(r)
      <4>1. session'[s] = session[s] /\ version' = version
        BY <3>2, <3>4, InsertedRow DEF InsertSession, user
      <4>. QED
        BY <3>1, <3>2, <4>1 DEF Usable, Dead
    <3>5. CASE RevokeSession(r)
      <4>1. /\ req[r].session # s /\ {req[r].session} \in SUBSET Issued
            /\ session' = Revoked({req[r].session}) /\ version' = version
        BY <2>2, <3>1, <3>5, RotatesAlone, AtStep DEF RevokeSession, user
      <4>2. session'[s] = session[s]
        BY <3>2, <4>1, RevokedRow DEF Issued
      <4>. QED
        BY <3>1, <3>2, <4>1, <4>2 DEF Usable, Dead
    <3>6. CASE Rotate(r) \/ CommitPassword(r) \/ CommitRoles(r)
      BY <2>2, <3>1, <3>6, RotatesAlone DEF Rotate, CommitPassword, CommitRoles
    <3>. QED
      BY <1>2, <3>3, <3>4, <3>5, <3>6, Writers
  <2>. QED
    BY <2>1, <2>2
<1>. QED
  BY <1>1, <1>2, NextSteps DEF RotateInv

\* Rows keep family and version, and the user's version only grows.
LEMMA FamilyStep ==
    ASSUME TypeOK, RequestInv, FamilyInv, LoginInv, [Next]_vars
    PROVE  FamilyInv'
<1>1. CASE Still
  BY <1>1 DEF Still, FamilyInv, Issued, user
<1>2. ASSUME NEW r \in Requests, Step(r) PROVE FamilyInv'
  <2>1. version' = version \/ version' = version + 1
    BY <1>2, Writers DEF InsertSession, Rotate, RevokeSession, CommitPassword,
       CommitRoles, user
  <2>2. \A s \in Issued : /\ session[s].version \in Nat /\ session[s].family \in Issued
                          /\ session[s].version <= version
    BY SessionTypes DEF FamilyInv, SessionRow
  <2>3. \A s \in Issued : session'[s].family \in Issued' /\ session'[s].version <= version'
    BY <2>1, <2>2, RowsStep DEF RowsKept, TypeOK
  <2>4. CASE Issued' = Issued
    BY <2>3, <2>4 DEF FamilyInv
  <2>5. CASE InsertSession(r)
    <3>1. job[r].version <= version /\ version' = version
      BY <2>5 DEF InsertSession, LoginInv, user
    <3>2. PICK t \in Sessions \ Issued :
             /\ Issued' = Issued \cup {t}
             /\ session'[t] = NewSession(t, job[r].version)
      BY <2>5, InsertedRow
    <3>3. session'[t].family \in Issued' /\ session'[t].version <= version'
      BY <3>1, <3>2 DEF NewSession
    <3>. QED
      BY <2>3, <3>2, <3>3 DEF FamilyInv
  <2>6. CASE Rotate(r)
    <3>. DEFINE s == req[r].session
    <3>1. version' = version /\ s \in Issued
      BY <2>6, RotatedRows DEF Rotate, user
    <3>2. PICK t \in Sessions \ Issued :
             /\ Issued' = Issued \cup {t}
             /\ session'[t] = NewSession(session[s].family, session[s].version)
      BY <2>6, RotatedRows
    <3>3. session'[t].family \in Issued' /\ session'[t].version <= version'
      BY <2>2, <3>1, <3>2 DEF NewSession
    <3>. QED
      BY <2>3, <3>2, <3>3 DEF FamilyInv
  <2>. QED
    BY <1>2, <2>4, <2>5, <2>6, Writers, RevokedRows DEF Issued
<1>. QED
  BY <1>1, <1>2, NextSteps

\* A login reads password, version and roles once, and verifies before it inserts.
LEMMA LoginMoves ==
    ASSUME TypeOK, NEW r \in Requests, Step(r),
           pc'[r] \in {"count", "verify", "clear", "insert"}
    PROVE  /\ UNCHANGED <<user, session, history>>
           /\ \/ Identify(r)
              \/ /\ pc[r] \in {"count", "verify", "clear", "insert"}
                 /\ UNCHANGED <<req, job>>
                 /\ pc'[r] = "insert" => pc[r] = "clear"
                 /\ pc'[r] = "clear" => req[r].given = job[r].password
<1>1. ~Finish(r)
  BY DEF Finish, TypeOK
<1>2. ASSUME NEW label, Goto(r, label) \/ Acquire(r, label) PROVE pc'[r] = label
  BY <1>2 DEF Goto, Acquire, TypeOK
<1>3. ~ClientStep(r)
  BY <1>2 DEF ClientStep, IssueLogin, IssueRefresh, IssueLogout, IssueChange,
     IssueReset, IssueRoles, Issue
<1>4. \/ Identify(r) \/ CountFailures(r) \/ VerifyLogin(r) \/ ClearFailures(r)
  <2>1. ~Abort(r)
    BY <1>1 DEF Abort
  <2>2. ~(InsertSession(r) \/ Rotate(r) \/ Refuse(r) \/ RevokeSession(r)
            \/ CommitPassword(r) \/ CommitRoles(r))
    BY <1>1 DEF InsertSession, Rotate, Refuse, RevokeSession, CommitPassword,
       CommitRoles
  <2>3. ~(FindSession(r) \/ LockSession(r) \/ LockMember(r) \/ LockUserToRefresh(r))
    BY <1>1, <1>2 DEF FindSession, LockSession, LockMember, LockUserToRefresh
  <2>4. ~(ReadPassword(r) \/ ScanSessions(r) \/ FindRoles(r)
            \/ DeleteRoles(r) \/ CreateRoles(r))
    BY <1>1, <1>2 DEF ReadPassword, ScanSessions, FindRoles, DeleteRoles, CreateRoles
  <2>5. ~(LockLogin(r) \/ LockUserToChange(r))
    BY <1>2 DEF LockLogin, LockUserToChange
  <2>. QED
    BY <1>3, <2>1, <2>2, <2>3, <2>4, <2>5 DEF Step, ServerStep
<1>. QED
  BY <1>1, <1>2, <1>4 DEF Identify, CountFailures, VerifyLogin, ClearFailures

\* A login that carries the current version carries the current password.
LEMMA LoginStep ==
    ASSUME TypeOK, RequestInv, LoginInv, [Next]_vars
    PROVE  LoginInv'
<1>1. CASE Still
  BY <1>1 DEF Still, LoginInv, user
<1>2. ASSUME NEW r \in Requests, Step(r), NEW q \in Requests,
             pc'[q] \in {"count", "verify", "clear", "insert"}
      PROVE  /\ job'[q].version <= version'
             /\ job'[q].version = version' => job'[q].password = password'
             /\ pc'[q] \in {"clear", "insert"} => req'[q].given = job'[q].password
  <2>. job[q] \in Job /\ version \in Nat
    BY AtStep DEF TypeOK
  <2>1. CASE q = r /\ Identify(r)
    <3>1. /\ job'[r] = [job[r] EXCEPT !.password = password, !.version = version,
                                      !.roles = RoleNames(roleRows)]
          /\ pc'[r] = "count" /\ UNCHANGED user
      BY <2>1 DEF Identify, Goto, TypeOK
    <3>2. job'[r].version = version /\ job'[r].password = password
      BY <2>1, <3>1 DEF Job
    <3>. QED
      BY <2>1, <3>1, <3>2 DEF user
  <2>2. CASE q = r /\ ~Identify(r)
    BY <1>2, <2>2, LoginMoves DEF LoginInv, user
  <2>3. CASE q # r
    <3>1. pc'[q] = pc[q] /\ req'[q] = req[q] /\ job'[q] = job[q]
      BY <1>2, <2>3, StepApart DEF Apart
    <3>2. \/ UNCHANGED <<version, password>>
          \/ version' = version + 1
      BY <1>2, Writers DEF InsertSession, Rotate, RevokeSession, CommitPassword,
         CommitRoles, user
    <3>. QED
      BY <1>2, <3>1, <3>2 DEF LoginInv, Job
  <2>. QED
    BY <2>1, <2>2, <2>3
<1>. QED
  BY <1>1, <1>2, NextSteps DEF LoginInv

\* A step adds at most a claim to the current roles, or ends the version.
LEMMA ClaimsMove ==
    ASSUME TypeOK, RequestInv, RotateInv, [Next]_vars
    PROVE  \/ /\ UNCHANGED <<version, roleRows>>
              /\ Claims' \subseteq Claims \cup
                    {[version |-> version, roles |-> RoleNames(roleRows)]}
           \/ version' = version + 1 /\ Claims' \subseteq Claims
<1>1. CASE Still
  BY <1>1 DEF Still, Claims, user, history
<1>2. ASSUME NEW r \in Requests, Step(r)
      PROVE  \/ /\ UNCHANGED <<version, roleRows>>
                /\ Claims' \subseteq Claims \cup
                      {[version |-> version, roles |-> RoleNames(roleRows)]}
             \/ version' = version + 1 /\ Claims' \subseteq Claims
  <2>. DEFINE Carrier(q) == pc[q] \in {"count", "verify", "clear", "insert"}
              Claim(q) == [version |-> job[q].version, roles |-> job[q].roles]
              Current == [version |-> version, roles |-> RoleNames(roleRows)]
  <2>1. \A q \in Requests \ {r} : Carrier(q)' => Carrier(q) /\ Claim(q)' = Claim(q)
    BY <1>2, StepApart DEF Apart
  <2>2. Carrier(r)' => \/ Carrier(r) /\ Claim(r)' = Claim(r)
                       \/ Claim(r)' = Current
    <3>1. CASE Identify(r)
      <4>1. job'[r] = [job[r] EXCEPT !.password = password, !.version = version,
                                     !.roles = RoleNames(roleRows)]
        BY <3>1 DEF Identify, TypeOK
      <4>2. job'[r].version = version /\ job'[r].roles = RoleNames(roleRows)
        BY <4>1, AtStep DEF Job
      <4>. QED
        BY <4>2
    <3>2. CASE ~Identify(r)
      BY <1>2, <3>2, LoginMoves
    <3>. QED
      BY <3>1, <3>2
  <2>3. Carrier(r)' => UNCHANGED <<user, history>>
    BY <1>2, LoginMoves
  <2>4. tokens' \subseteq tokens \cup {Current} \cup {Claim(q) : q \in {o \in Requests : Carrier(o)}}
    <3>1. CASE Rotate(r)
      <4>1. session[req[r].session].version = version
        BY <3>1 DEF Rotate, RotateInv, Usable
      <4>. QED
        BY <3>1, <4>1 DEF Rotate
    <3>2. CASE InsertSession(r)
      BY <3>2 DEF InsertSession
    <3>3. CASE tokens' = tokens
      BY <3>3
    <3>. QED
      BY <1>2, <3>1, <3>2, <3>3, Writers
         DEF RevokeSession, CommitPassword, CommitRoles, history
  <2>5. \/ UNCHANGED <<version, roleRows>>
        \/ version' = version + 1 /\ tokens' = tokens /\ ~Carrier(r)'
    BY <1>2, Writers DEF InsertSession, Rotate, RevokeSession, CommitPassword,
       CommitRoles, Finish, TypeOK, history, user
  <2>6. Claims = tokens \cup {Claim(q) : q \in {o \in Requests : Carrier(o)}}
    BY DEF Claims
  <2>7. Claims' = tokens' \cup {Claim(q)' : q \in {o \in Requests : Carrier(o)'}}
    BY DEF Claims
  <2>8. Claims' \subseteq Claims \cup {Current}
    BY <2>1, <2>2, <2>4, <2>6, <2>7
  <2>9. ~Carrier(r)' /\ tokens' = tokens => Claims' \subseteq Claims
    BY <2>1, <2>6, <2>7
  <2>. QED
    BY <2>5, <2>8, <2>9
<1>. QED
  BY <1>1, <1>2, NextSteps

\* Claims to one version agree.
LEMMA ClaimsStep ==
    ASSUME TypeOK, RequestInv, RotateInv, ClaimsInv, [Next]_vars
    PROVE  ClaimsInv'
<1>1. \A c \in Claims : c.version \in Nat
  BY AtStep DEF Claims, TypeOK, Job
<1>2. CASE /\ UNCHANGED <<version, roleRows>>
           /\ Claims' \subseteq Claims \cup
                 {[version |-> version, roles |-> RoleNames(roleRows)]}
  <2>1. RoleNames(roleRows)' = RoleNames(roleRows)
    BY <1>2 DEF RoleNames
  <2>. QED
    BY <1>1, <1>2, <2>1 DEF ClaimsInv, TypeOK
<1>3. CASE version' = version + 1 /\ Claims' \subseteq Claims
  BY <1>1, <1>3 DEF ClaimsInv, TypeOK
<1>. QED
  BY <1>2, <1>3, ClaimsMove

\* A token that is live or usable after a step was so before it, or is new.
LEMMA OldRows ==
    ASSUME TypeOK, RequestInv, [Next]_vars, NEW s \in Issued
    PROVE  /\ ~Dead(s)' => ~Dead(s)
           /\ s \in Usable' /\ version' = version => s \in Usable
BY RowsStep DEF RowsKept, Usable

\* A new family has one live token, and a rotation replaces the live one.
LEMMA OneLiveStep ==
    ASSUME TypeOK, RequestInv, RotateInv, FamilyInv, OneLiveTokenPerFamily,
           [Next]_vars
    PROVE  OneLiveTokenPerFamily'
<1>1. ASSUME NEW s \in Issued, NEW t \in Issued, ~Dead(s)', ~Dead(t)',
             session'[s].family = session'[t].family
      PROVE  s = t
  BY <1>1, OldRows, RowsStep DEF RowsKept, OneLiveTokenPerFamily
<1>2. CASE Issued' = Issued
  BY <1>1, <1>2 DEF OneLiveTokenPerFamily
<1>3. ASSUME NEW r \in Requests, InsertSession(r) PROVE OneLiveTokenPerFamily'
  <2>1. PICK t \in Sessions \ Issued :
           /\ Issued' = Issued \cup {t}
           /\ session'[t] = NewSession(t, job[r].version)
           /\ \A s \in Issued : session'[s] = session[s]
    BY <1>3, InsertedRow
  <2>2. session'[t].family = t /\ \A s \in Issued : session'[s].family \in Issued
    BY <2>1 DEF NewSession, FamilyInv
  <2>. QED
    BY <1>1, <2>1, <2>2 DEF OneLiveTokenPerFamily
<1>4. ASSUME NEW r \in Requests, Rotate(r) PROVE OneLiveTokenPerFamily'
  <2>. DEFINE s == req[r].session
  <2>1. s \in Usable /\ s \in Issued /\ ~Dead(s)
    BY <1>4 DEF Rotate, RotateInv, Usable
  <2>2. PICK t \in Sessions \ Issued :
           /\ Issued' = Issued \cup {t}
           /\ session'[t] = NewSession(session[s].family, session[s].version)
    BY <1>4, RotatedRows
  <2>3. session'[s].replaced
    <3>1. session'[s] = [session[s] EXCEPT !.replaced = TRUE] /\ session[s] \in SessionRow
      BY <1>4, RotatedRows
    <3>. QED
      BY <3>1 DEF SessionRow
  <2>4. session'[t].family = session[s].family
    BY <2>2 DEF NewSession
  <2>5. ASSUME NEW q \in Issued, session'[q].family = session[s].family PROVE Dead(q)'
    <3>1. q # s => Dead(q)
      BY <2>1, <2>5, RowsStep DEF RowsKept, OneLiveTokenPerFamily
    <3>2. CASE q = s
      BY <2>3, <3>2 DEF Dead
    <3>3. CASE q # s
      BY <3>1, <3>3, OldRows
    <3>. QED
      BY <3>2, <3>3
  <2>. QED
    BY <1>1, <2>2, <2>4, <2>5 DEF OneLiveTokenPerFamily
<1>5. CASE UNCHANGED <<user, session, history>>
  BY <1>2, <1>5 DEF Issued
<1>. QED
  BY <1>2, <1>3, <1>4, <1>5, NextSteps, Writers, RevokedRows DEF Still

\* A login inserts a usable token only with the password in force, a rotation
\* passes the proof on, and a new password leaves no token usable.
LEMMA SecretStep ==
    ASSUME TypeOK, RequestInv, RotateInv, FamilyInv, LoginInv,
           UsableTokensKnowPassword, [Next]_vars
    PROVE  UsableTokensKnowPassword'
<1>1. ASSUME UNCHANGED <<version, password>>, NEW s \in Issued, s \in Usable'
      PROVE  secret'[s] = password'
  BY <1>1, OldRows, RowsStep DEF RowsKept, UsableTokensKnowPassword
<1>2. CASE Issued' = Issued /\ UNCHANGED <<version, password>>
  BY <1>1, <1>2 DEF UsableTokensKnowPassword, Usable
<1>3. ASSUME NEW r \in Requests, InsertSession(r) PROVE UsableTokensKnowPassword'
  <2>1. PICK t \in Sessions \ Issued :
           /\ Issued' = Issued \cup {t}
           /\ session'[t] = NewSession(t, job[r].version)
           /\ secret'[t] = req[r].given
    BY <1>3, InsertedRow
  <2>2. UNCHANGED <<version, password>> /\ session'[t].version = job[r].version
    BY <1>3, <2>1 DEF InsertSession, user, NewSession
  <2>3. t \in Usable' => secret'[t] = password'
    BY <1>3, <2>1, <2>2 DEF Usable, LoginInv, InsertSession
  <2>. QED
    BY <1>1, <2>1, <2>2, <2>3 DEF UsableTokensKnowPassword, Usable
<1>4. ASSUME NEW r \in Requests, Rotate(r) PROVE UsableTokensKnowPassword'
  <2>. DEFINE s == req[r].session
  <2>1. s \in Usable /\ UNCHANGED <<version, password>>
    BY <1>4 DEF Rotate, RotateInv, user
  <2>2. PICK t \in Sessions \ Issued :
           Issued' = Issued \cup {t} /\ secret'[t] = secret[s]
    BY <1>4, RotatedRows
  <2>. QED
    BY <1>1, <2>1, <2>2 DEF UsableTokensKnowPassword, Usable
<1>5. ASSUME NEW r \in Requests, CommitPassword(r) \/ CommitRoles(r)
      PROVE  UsableTokensKnowPassword'
  <2>1. version' = version + 1 /\ Issued' = Issued
    BY <1>5, RevokedRows DEF CommitPassword, CommitRoles
  <2>2. \A s \in Issued : session'[s].version = session[s].version
                          /\ session[s].version \in Nat
                          /\ session[s].version <= version
    BY RowsStep, SessionTypes DEF RowsKept, FamilyInv, SessionRow
  <2>3. Usable' = {}
    BY <2>1, <2>2 DEF Usable, TypeOK
  <2>. QED
    BY <2>3 DEF UsableTokensKnowPassword
<1>6. ASSUME NEW r \in Requests, RevokeSession(r) PROVE UsableTokensKnowPassword'
  BY <1>2, <1>6, RevokedRows DEF RevokeSession, user
<1>7. CASE UNCHANGED <<user, session, history>>
  BY <1>2, <1>7 DEF Issued, user
<1>. QED
  BY <1>3, <1>4, <1>5, <1>6, <1>7, NextSteps, Writers DEF Still

\* The commit of a password writes the flag that fits the operation.
LEMMA FlagStep ==
    ASSUME RequestInv, TemporaryPasswordsFlagged, [Next]_vars
    PROVE  TemporaryPasswordsFlagged'
<1>1. CASE UNCHANGED <<mustChange, password>>
  BY <1>1 DEF TemporaryPasswordsFlagged
<1>2. ASSUME NEW r \in Requests, CommitPassword(r) PROVE TemporaryPasswordsFlagged'
  <2>1. /\ req[r].op = "change" => req[r].new \in Chosen
        /\ req[r].op = "reset" => req[r].new \in Temporary
    BY <1>2 DEF CommitPassword, RequestInv, RequestOK
  <2>. QED
    BY <1>2, <2>1, PasswordsAssumption DEF CommitPassword, TemporaryPasswordsFlagged
<1>. QED
  BY <1>1, <1>2, NextSteps, Writers DEF Still, InsertSession, Rotate,
     RevokeSession, CommitRoles, user

-----------------------------------------------------------------------------
(* The theorems *)

\* Initially no token exists and nobody is served.
LEMMA InitIInv == Init => IInv
<1>. SUFFICES ASSUME Init PROVE IInv
  OBVIOUS
<1>1. /\ Issued = {} /\ \A r \in Requests : pc[r] = "idle" /\ held[r] = {}
      /\ \A r \in Requests : job[r] = NoJob
      /\ password \in Temporary /\ mustChange = TRUE /\ version = 0 /\ tokens = {}
  BY DEF Init, Issued
<1>2. TypeOK
  <2>1. roleRows \subseteq RoleRow
    <3>1. PICK R \in SUBSET Roles : roleRows = [role : R, born : {0}]
      BY DEF Init
    <3>. QED
      BY <3>1 DEF RoleRow
  <2>2. pc \in [Requests -> Controls] /\ req \in [Requests -> Request \cup {None}]
    BY DEF Init, Controls
  <2>3. job \in [Requests -> Job] /\ held \in [Requests -> SUBSET Lock]
    BY NoJobType DEF Init
  <2>. QED
    BY <2>1, <2>2, <2>3 DEF Init, TypeOK, Passwords
<1>3. RequestInv /\ LockInv /\ Exclusion
  <2>1. NoJob.sessions = {}
    BY DEF NoJob
  <2>. QED
    BY <1>1, <2>1 DEF RequestInv, RequestOK, LockInv, LockOK, Exclusion
<1>4. RotateInv /\ FamilyInv /\ LoginInv
  BY <1>1 DEF RotateInv, FamilyInv, LoginInv
<1>5. ClaimsInv
  BY <1>1 DEF ClaimsInv, Claims
<1>6. OneLiveTokenPerFamily /\ UsableTokensKnowPassword /\ TemporaryPasswordsFlagged
  BY <1>1 DEF OneLiveTokenPerFamily, UsableTokensKnowPassword,
     TemporaryPasswordsFlagged, Usable
<1>. QED
  BY <1>2, <1>3, <1>4, <1>5, <1>6 DEF IInv

\* Every step preserves every conjunct, some with the help of others.
LEMMA NextIInv == IInv /\ [Next]_vars => IInv'
<1>. SUFFICES ASSUME IInv, [Next]_vars PROVE IInv'
  OBVIOUS
<1>. USE DEF IInv
<1>1. TypeOK' /\ RequestInv' /\ LockInv' /\ Exclusion'
  BY TypeStep, RequestStep, LockStep, ExclusionStep
<1>2. RotateInv' /\ FamilyInv' /\ LoginInv' /\ ClaimsInv'
  BY RotateStep, FamilyStep, LoginStep, ClaimsStep
<1>3. OneLiveTokenPerFamily' /\ UsableTokensKnowPassword' /\ TemporaryPasswordsFlagged'
  BY OneLiveStep, SecretStep, FlagStep
<1>. QED
  BY <1>1, <1>2, <1>3

\* The invariant is inductive.
THEOREM Inductive == Spec => []IInv
BY InitIInv, NextIInv, PTL DEF Spec

\* Rows, locks and requests keep their types.
THEOREM TypeCorrect == Spec => []TypeOK
<1>1. IInv => TypeOK
  BY DEF IInv
<1>. QED
  BY <1>1, Inductive, PTL

\* However refreshes of a family interleave, with each other and with logouts,
\* changes and aborts, it has at most one token that is neither revoked nor
\* replaced.
THEOREM LiveTokens == Spec => []OneLiveTokenPerFamily
<1>1. IInv => OneLiveTokenPerFamily
  BY DEF IInv
<1>. QED
  BY <1>1, Inductive, PTL

\* A login whose password is changed before it inserts its session gets a
\* session no refresh accepts, whoever changed the password and when.
THEOREM UsableTokens == Spec => []UsableTokensKnowPassword
<1>1. IInv => UsableTokensKnowPassword
  BY DEF IInv
<1>. QED
  BY <1>1, Inductive, PTL

\* Access tokens of one auth_version carry the same roles, so the version check
\* of the middleware refuses every token whose roles are outdated.
THEOREM TokenRoles == Spec => []TokenRolesMatchVersion
<1>1. IInv => TokenRolesMatchVersion
  BY DEF IInv, ClaimsInv, Claims, TokenRolesMatchVersion
<1>. QED
  BY <1>1, Inductive, PTL

\* The flag that forces a change follows the hash.
THEOREM TemporaryPasswords == Spec => []TemporaryPasswordsFlagged
<1>1. IInv => TemporaryPasswordsFlagged
  BY DEF IInv
<1>. QED
  BY <1>1, Inductive, PTL

-----------------------------------------------------------------------------
(* The policy *)

\* Existing rows keep their family in the policy, new ones get theirs.
LEMMA FamilyMove ==
    ASSUME TypeOK, RequestInv, [Next]_vars
    PROVE  /\ FamilyOf \in [Sessions -> Sessions \cup {None}]
           /\ Issued' = Issued => FamilyOf' = FamilyOf
           /\ \A t \in Sessions \ Issued :
                 Issued' = Issued \cup {t} =>
                    /\ FamilyOf[t] = None
                    /\ FamilyOf' = [FamilyOf EXCEPT ![t] = session'[t].family]
<1>1. \A s \in Issued : session[s].family \in Sessions
  BY SessionTypes DEF SessionRow
<1>2. FamilyOf' = [s \in Sessions |-> IF s \in Issued' THEN session'[s].family ELSE None]
  BY DEF FamilyOf
<1>. QED
  BY <1>1, <1>2, RowsStep DEF FamilyOf, RowsKept

\* Every step of the requests is one of the policy or changes nothing it sees.
LEMMA PolicyStep ==
    ASSUME IInv, [Next]_vars
    PROVE  [Policy!Next]_(Policy!policyVars)
<1>. USE DEF IInv
<1>1. CASE UNCHANGED <<user, session>>
  BY <1>1 DEF Policy!policyVars, FamilyOf, Usable, Issued, Dead, user
<1>2. ASSUME NEW r \in Requests, InsertSession(r) PROVE Policy!Next
  <2>1. PICK t \in Sessions \ Issued :
           /\ Issued' = Issued \cup {t}
           /\ session'[t] = NewSession(t, job[r].version)
           /\ \A s \in Issued : session'[s] = session[s]
    BY <1>2, InsertedRow
  <2>2. version' = version
    BY <1>2 DEF InsertSession, user
  <2>3. Usable' \in {Usable, Usable \cup {t}}
    BY <2>1, <2>2 DEF Usable, Dead
  <2>4. FamilyOf[t] = None /\ FamilyOf' = [FamilyOf EXCEPT ![t] = t]
    BY <2>1, FamilyMove DEF NewSession
  <2>. QED
    BY <2>1, <2>2, <2>3, <2>4 DEF Policy!Next, Policy!Grant
<1>3. ASSUME NEW r \in Requests, Rotate(r) PROVE Policy!Next
  <2>. DEFINE s == req[r].session
  <2>1. s \in Usable /\ s \in Issued /\ version' = version
    BY <1>3 DEF Rotate, RotateInv, Usable, user
  <2>2. PICK t \in Sessions \ Issued :
           /\ Issued' = Issued \cup {t}
           /\ session'[t] = NewSession(session[s].family, session[s].version)
    BY <1>3, RotatedRows
  <2>3. /\ session'[s] = [session[s] EXCEPT !.replaced = TRUE]
        /\ session[s] \in SessionRow
        /\ \A q \in Issued \ {s} : session'[q] = session[q]
    BY <1>3, RotatedRows
  <2>4. session'[s].replaced
    BY <2>3 DEF SessionRow
  <2>5. /\ session'[t].version = session[s].version /\ ~session'[t].revoked
        /\ ~session'[t].replaced /\ session'[t].family = session[s].family
    BY <2>2 DEF NewSession
  <2>6. Usable' = (Usable \ {s}) \cup {t}
    BY <2>1, <2>2, <2>3, <2>4, <2>5 DEF Usable, Dead
  <2>7. /\ FamilyOf[t] = None /\ FamilyOf[s] = session[s].family
        /\ FamilyOf' = [FamilyOf EXCEPT ![t] = FamilyOf[s]]
    BY <2>1, <2>2, <2>5, FamilyMove DEF FamilyOf, Issued
  <2>8. s \in Sessions /\ t \in Sessions
    BY <2>1, <2>2 DEF Issued
  <2>. QED
    BY <2>1, <2>6, <2>7, <2>8 DEF Policy!Next, Policy!Rotate
<1>4. ASSUME NEW r \in Requests, RevokeSession(r)
      PROVE  Policy!Next \/ UNCHANGED Policy!policyVars
  <2>. DEFINE s == req[r].session
  <2>1. session' = Revoked({s}) /\ Issued' = Issued /\ {s} \in SUBSET Issued
    BY <1>4, RevokedRows
  <2>2. version' = version /\ FamilyOf' = FamilyOf /\ s \in Sessions
    BY <1>4, <2>1, FamilyMove DEF RevokeSession, user, Issued
  <2>3. /\ session'[s].revoked
        /\ \A q \in Issued \ {s} : session'[q] = session[q]
    BY <2>1, RevokedRow DEF Issued
  <2>4. Usable' = Usable \ {s}
    BY <2>1, <2>2, <2>3 DEF Usable, Dead
  <2>. QED
    BY <2>2, <2>4 DEF Policy!Next, Policy!End, Policy!policyVars
<1>5. ASSUME NEW r \in Requests, CommitPassword(r) \/ CommitRoles(r)
      PROVE  Policy!Next
  <2>1. version' = version + 1 /\ Issued' = Issued
    BY <1>5, RevokedRows DEF CommitPassword, CommitRoles
  <2>2. \A s \in Issued : /\ session'[s].version = session[s].version
                          /\ session[s].version \in Nat
                          /\ session[s].version <= version
    BY RowsStep, SessionTypes DEF RowsKept, FamilyInv, SessionRow
  <2>3. Usable' = {}
    BY <2>1, <2>2 DEF Usable, TypeOK
  <2>. QED
    BY <2>1, <2>3, FamilyMove DEF Policy!Next, Policy!EndAll
<1>. QED
  BY <1>1, <1>2, <1>3, <1>4, <1>5, NextSteps, Writers DEF Still

\* Requests that lock, wait, abort and time out amount to tokens that are
\* granted by a login, exchanged once, and all ended by a change.
THEOREM PolicyImplemented == Spec => ImplementsPolicy
<1>1. Init => Policy!Init
  BY DEF Init, Policy!Init, FamilyOf, Usable, Issued
<1>2. IInv /\ [Next]_vars => [Policy!Next]_(Policy!policyVars)
  BY PolicyStep
<1>. QED
  BY <1>1, <1>2, Inductive, PTL DEF Spec, ImplementsPolicy, Policy!Spec

-----------------------------------------------------------------------------
(* The lockout *)

\* Logins that have found the account unlocked and may still fail.
Verifying == {r \in Requests : pc[r] = "verify"}

\* Each of them has its failure reserved.
LimitInv == failures + Cardinality(Verifying) <= MaxFailed - 1 + Cardinality(Requests)

LEMMA VerifyingFinite ==
    /\ IsFiniteSet(Verifying) /\ Cardinality(Verifying) \in Nat
    /\ Cardinality(Requests) \in Nat /\ Cardinality(Verifying) <= Cardinality(Requests)
<1>1. Verifying \in SUBSET Requests
  BY DEF Verifying
<1>2. IsFiniteSet(Verifying) /\ Cardinality(Verifying) <= Cardinality(Requests)
  BY <1>1, RequestsAssumption, FS_Subset
<1>. QED
  BY <1>2, RequestsAssumption, FS_CardinalityType

\* But for one that passes the count, a step adds nobody to Verifying, and one
\* that adds a failure leaves it.
LEMMA VerifyingStep ==
    ASSUME TypeOK, [Next]_vars
    PROVE  \/ failures < MaxFailed /\ failures' = failures
           \/ failures' <= failures /\ Verifying' \subseteq Verifying
           \/ \E r \in Verifying : failures' = failures + 1 /\ Verifying' = Verifying \ {r}
<1>. DEFINE Goal == \/ failures < MaxFailed /\ failures' = failures
                    \/ failures' <= failures /\ Verifying' \subseteq Verifying
                    \/ \E r \in Verifying : /\ failures' = failures + 1
                                            /\ Verifying' = Verifying \ {r}
<1>1. failures \in Nat /\ pc \in [Requests -> Controls] /\ MaxFailed \in Nat
  BY NumbersAssumption DEF TypeOK
<1>2. ASSUME NEW r \in Requests, CountFailures(r) PROVE Goal
  <2>1. CASE failures >= MaxFailed
    BY <1>1, <1>2, <2>1 DEF CountFailures, Finish, Verifying
  <2>2. CASE ~(failures >= MaxFailed)
    BY <1>1, <1>2, <2>2 DEF CountFailures
  <2>. QED
    BY <2>1, <2>2
<1>3. ASSUME NEW r \in Requests, VerifyLogin(r) PROVE Goal
  BY <1>1, <1>3 DEF VerifyLogin, Finish, Goto, Verifying
<1>4. ASSUME NEW r \in Requests, ServerStep(r) \/ ClientStep(r) \/ Abort(r) \/ BreakDeadlock(r),
             ~CountFailures(r), ~VerifyLogin(r)
      PROVE  Goal
  <2>1. /\ failures' <= failures
        /\ \E label \in Controls \ {"verify"} : pc' = [pc EXCEPT ![r] = label]
    <3>1. ASSUME ClientStep(r) PROVE <2>1
      <4>1. ASSUME NEW q, NEW label \in {"identify", "find", "revoke", "read", "delete"},
                   Issue(r, q, label)
            PROVE  <2>1
        <5>1. failures' = failures /\ pc' = [pc EXCEPT ![r] = label]
          BY <4>1 DEF Issue, Goto
        <5>2. label \in Controls \ {"verify"}
          BY <4>1 DEF Controls
        <5>3. \E l \in Controls \ {"verify"} : pc' = [pc EXCEPT ![r] = l]
          BY <5>1, <5>2, Zenon
        <5>4. failures' <= failures
          BY <1>1, <5>1
        <5>. QED
          BY <5>3, <5>4
      <4>2. CASE \E p \in Passwords : IssueLogin(r, p)
        BY <4>1, <4>2 DEF IssueLogin
      <4>3. CASE \E s \in Sessions : IssueRefresh(r, s) \/ IssueLogout(r, s)
        BY <4>1, <4>3 DEF IssueRefresh, IssueLogout
      <4>4. CASE \E p, n \in Passwords : IssueChange(r, p, n) \/ IssueReset(r, n)
        BY <4>1, <4>4 DEF IssueChange, IssueReset
      <4>5. CASE \E R \in SUBSET Roles : IssueRoles(r, R)
        BY <4>1, <4>5 DEF IssueRoles
      <4>. QED
        BY <3>1, <4>2, <4>3, <4>4, <4>5 DEF ClientStep
    <3>4. ASSUME Abort(r) \/ BreakDeadlock(r) PROVE <2>1
      BY <1>1, <3>4 DEF Abort, BreakDeadlock, Finish, Controls
    <3>2. ASSUME \/ Identify(r) \/ ClearFailures(r) \/ InsertSession(r) \/ FindSession(r)
                 \/ LockSession(r) \/ LockMember(r) \/ LockUserToRefresh(r) \/ Rotate(r)
                 \/ Refuse(r) \/ RevokeSession(r)
          PROVE  <2>1
      BY <1>1, <3>2 DEF Identify, ClearFailures, InsertSession, FindSession, LockSession,
         LockMember, LockUserToRefresh, Rotate, Refuse, RevokeSession, Acquire, Finish, Goto,
         Controls
    <3>3. ASSUME \/ ReadPassword(r) \/ LockLogin(r) \/ LockUserToChange(r) \/ ScanSessions(r)
                 \/ CommitPassword(r) \/ FindRoles(r) \/ DeleteRoles(r) \/ CreateRoles(r)
                 \/ CommitRoles(r)
          PROVE  <2>1
      BY <1>1, <3>3 DEF ReadPassword, LockLogin, LockUserToChange, ScanSessions,
         CommitPassword, FindRoles, DeleteRoles, CreateRoles, CommitRoles, Acquire, Finish,
         Goto, Controls
    <3>. QED
      BY <1>4, <3>1, <3>2, <3>3, <3>4 DEF ServerStep
  <2>. QED
    BY <1>1, <2>1 DEF Verifying
<1>5. ASSUME FailuresAge \/ UNCHANGED vars PROVE Goal
  BY <1>1, <1>5 DEF FailuresAge, vars, Verifying
<1>. QED
  BY <1>2, <1>3, <1>4, <1>5 DEF Next

LEMMA LimitStep ==
    ASSUME TypeOK, TypeOK', LimitInv, [Next]_vars
    PROVE  LimitInv'
<1>1. /\ failures \in Nat /\ failures' \in Nat /\ MaxFailed \in Nat
      /\ Cardinality(Verifying) \in Nat /\ Cardinality(Verifying') \in Nat
      /\ Cardinality(Requests) \in Nat /\ Cardinality(Verifying') <= Cardinality(Requests)
  <2>1. /\ IsFiniteSet(Verifying') /\ Cardinality(Verifying') \in Nat
        /\ Cardinality(Verifying') <= Cardinality(Requests)
    <3>1. Verifying' \in SUBSET Requests
      BY DEF Verifying
    <3>. QED
      BY <3>1, RequestsAssumption, FS_Subset, FS_CardinalityType
  <2>. QED
    BY <2>1, VerifyingFinite, NumbersAssumption DEF TypeOK
<1>2. CASE failures < MaxFailed /\ failures' = failures
  BY <1>1, <1>2 DEF LimitInv
<1>3. CASE failures' <= failures /\ Verifying' \subseteq Verifying
  <2>1. Cardinality(Verifying') <= Cardinality(Verifying)
    BY <1>3, VerifyingFinite, FS_Subset
  <2>. QED
    BY <1>1, <1>3, <2>1 DEF LimitInv
<1>4. ASSUME NEW r \in Verifying, failures' = failures + 1, Verifying' = Verifying \ {r}
      PROVE  LimitInv'
  <2>1. Cardinality(Verifying') = Cardinality(Verifying) - 1
    BY <1>4, VerifyingFinite, FS_RemoveElement
  <2>. QED
    BY <1>1, <1>4, <2>1 DEF LimitInv
<1>. QED
  BY <1>2, <1>3, <1>4, VerifyingStep

\* Logins that read the failures at the same time, before any of them has
\* failed, overshoot the limit by one each at most.
THEOREM LockoutBounded == Spec => []LockoutOvershootBounded
<1>1. Init => LimitInv
  <2>1. Init => failures = 0 /\ Verifying = {}
    BY DEF Init, Verifying
  <2>. QED
    BY <2>1, VerifyingFinite, NumbersAssumption, FS_EmptySet DEF LimitInv
<1>2. TypeOK /\ TypeOK' /\ LimitInv /\ [Next]_vars => LimitInv'
  BY LimitStep
<1>3. TypeOK /\ LimitInv => LockoutOvershootBounded
  BY VerifyingFinite, NumbersAssumption DEF TypeOK, LimitInv, LockoutOvershootBounded
<1>. QED
  BY <1>1, <1>2, <1>3, TypeCorrect, PTL DEF Spec

=============================================================================
