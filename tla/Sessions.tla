------------------------------ MODULE Sessions ------------------------------
(***************************************************************************)
(* The sessions of one user: Login, Refresh, Logout and ChangePassword of  *)
(* the auth feature beside ResetPassword and UpdateRoles of the admin      *)
(* feature, each a concurrent request.                                     *)
(*                                                                         *)
(* The requests meet on the rows they lock, in different orders: Refresh   *)
(* takes FOR UPDATE on its session, the membership and the user;           *)
(* ChangePassword updates the user, the login name and then every session; *)
(* ResetPassword the login name, the user and every session; UpdateRoles   *)
(* the role rows, the membership (shared, by foreign key), the user and    *)
(* every session.  What a transaction writes becomes visible when it       *)
(* commits, its locks are released when it ends, and PostgreSQL breaks a   *)
(* deadlock by aborting one of its members.                                *)
(***************************************************************************)
EXTENDS Naturals, FiniteSets

CONSTANTS Sessions,    \* rows of refresh_sessions, one per refresh token
          Chosen,      \* passwords the user picks
          Temporary,   \* passwords an administrator sets
          Roles,
          Requests,    \* request slots: the requests being served at once
          None,
          Ops,         \* bound: the operations clients use
          MaxFailed,   \* maxFailedLoginAttempts
          MaxVersion   \* bound: changes of credentials and roles

AllOps == {"login", "refresh", "logout", "change", "reset", "roles"}
Passwords == Chosen \cup Temporary

ASSUME RequestsAssumption == IsFiniteSet(Requests)
ASSUME NumbersAssumption == MaxFailed \in Nat \ {0} /\ MaxVersion \in Nat
ASSUME OpsAssumption == Ops \subseteq AllOps
ASSUME PasswordsAssumption == Chosen \cap Temporary = {}
ASSUME NoneAssumption == None \notin Sessions \cup Passwords
ASSUME RowsAssumption == Sessions \cap {"user", "login", "member"} = {}

VARIABLES version,     \* users.auth_version, counted from the user's creation
          mustChange,  \* users.must_change_password
          password,    \* membership_login_names.password_hash
          roleRows,    \* membership_roles, each row told apart by its birth
          session,     \* refresh_sessions, None before the row exists
          failures     \* login_attempts inside the lockout window

VARIABLES pc, req, job,  \* the requests
          held           \* the row locks each of them holds

\* History: the password each session's login verified, and the access tokens
\* issued, with the version and the roles they carry.
VARIABLES secret, tokens

user == <<version, mustChange, password, roleRows>>
history == <<secret, tokens>>
vars == <<user, session, failures, pc, req, job, held, history>>

-----------------------------------------------------------------------------
(* Types and initial state *)

SessionRow == [family : Sessions, version : Nat,
               revoked : BOOLEAN, replaced : BOOLEAN]
RoleRow == [role : Roles, born : Nat]
ASSUME NoRowAssumption == None \notin SessionRow

Modes == {"KEY SHARE", "NO KEY UPDATE", "UPDATE"}
Lock == [row : {"user", "login", "member"} \cup Sessions, mode : Modes]

Request == [op : AllOps, session : Sessions \cup {None},
            given : Passwords \cup {None}, new : Passwords \cup {None},
            roles : SUBSET Roles]

\* What a request has read or written so far.
Job == [password : Passwords \cup {None}, version : Nat, roles : SUBSET Roles,
        rows : SUBSET RoleRow, sessions : SUBSET Sessions]
NoJob == [password |-> None, version |-> 0, roles |-> {}, rows |-> {},
          sessions |-> {}]

Controls == {"idle", "identify", "count", "verify", "clear", "insert",
             "find", "session", "member", "user", "rotate", "refuse",
             "revoke", "read", "login", "delete", "wait", "add", "scan",
             "commit"}

Init ==
    /\ version = 0 /\ mustChange = TRUE
    /\ password \in Temporary
    /\ roleRows \in {[role : R, born : {0}] : R \in SUBSET Roles \ {{}}}
    /\ session = [s \in Sessions |-> None]
    /\ failures = 0
    /\ pc = [r \in Requests |-> "idle"]
    /\ req = [r \in Requests |-> None]
    /\ job = [r \in Requests |-> NoJob]
    /\ held = [r \in Requests |-> {}]
    /\ secret = [s \in Sessions |-> None]
    /\ tokens = {}

-----------------------------------------------------------------------------
(* Helpers *)

Issued == {s \in Sessions : session[s] # None}
Dead(s) == session[s].revoked \/ session[s].replaced

\* What GetRefreshSessionWithContext and Refresh ask of a session.
Usable == {s \in Issued : ~Dead(s) /\ session[s].version = version}
Family(f) == {s \in Issued : session[s].family = f}
RoleNames(rows) == {row.role : row \in rows}

NewSession(f, v) ==
    [family |-> f, version |-> v, revoked |-> FALSE, replaced |-> FALSE]
Revoked(S) ==
    [s \in Sessions |-> IF s \in S THEN [session[s] EXCEPT !.revoked = TRUE]
                                   ELSE session[s]]

Active == {r \in Requests : pc[r] # "idle"}
Goto(r, label) == pc' = [pc EXCEPT ![r] = label]

\* The request is answered; its transaction, if any, is over.
Finish(r) ==
    /\ pc' = [pc EXCEPT ![r] = "idle"]
    /\ req' = [req EXCEPT ![r] = None]
    /\ job' = [job EXCEPT ![r] = NoJob]
    /\ held' = [held EXCEPT ![r] = {}]

-----------------------------------------------------------------------------
(* Row locks *)

\* PostgreSQL's conflict table for the three modes in use.
Conflict(m, n) ==
    \/ "UPDATE" \in {m, n}
    \/ m = "NO KEY UPDATE" /\ n = "NO KEY UPDATE"

\* Mistake: the SELECT of a refresh forgets FOR UPDATE.
WantsUnlocked(r, row, mode) ==
    /\ mode = "NO KEY UPDATE"
    /\ \/ pc[r] = "user" /\ req[r].op # "refresh" /\ row = "user"
       \/ pc[r] = "login" /\ row = "login"
       \/ pc[r] = "revoke" /\ row = req[r].session
       \/ pc[r] = "commit" /\ row \in job[r].sessions

\* The next statement of r locks this row in this mode.
Wants(r, row, mode) ==
    \/ /\ mode = "UPDATE"
       /\ \/ pc[r] = "session" /\ row = req[r].session
          \/ pc[r] = "member" /\ row = "member"
          \/ pc[r] = "user" /\ req[r].op = "refresh" /\ row = "user"
    \/ /\ mode = "NO KEY UPDATE"
       /\ \/ pc[r] = "user" /\ req[r].op # "refresh" /\ row = "user"
          \/ pc[r] = "login" /\ row = "login"
          \/ pc[r] = "revoke" /\ row = req[r].session
          \/ /\ pc[r] = "refuse"
             /\ row \in Family(session[req[r].session].family)
             /\ ~session[row].revoked
          \/ pc[r] = "commit" /\ row \in job[r].sessions
    \/ /\ mode = "KEY SHARE"
       /\ \/ pc[r] = "add" /\ row = "member"
          \/ pc[r] = "insert" /\ row \in {"user", "member"}

\* UpdateRoles has deleted role rows from "add" on, and inserted its own after it.
Deleted(r) == IF pc[r] \in {"add", "user", "scan", "commit"} /\ req[r].op = "roles"
              THEN job[r].rows ELSE {}
Added(r) == IF pc[r] \in {"user", "scan", "commit"} /\ req[r].op = "roles"
            THEN req[r].roles ELSE {}

\* o makes r wait: for a row lock, for a role row that o deleted, or for a
\* key of the role table that o inserted.
Blocks(o, r) ==
    /\ o # r
    /\ \/ \E h \in held[o], mode \in Modes :
             Wants(r, h.row, mode) /\ Conflict(h.mode, mode)
       \/ pc[r] = "wait" /\ Deleted(o) \cap job[r].rows # {}
       \/ pc[r] = "add" /\ Added(o) \cap req[r].roles # {}

Granted(r) == \A o \in Requests : ~Blocks(o, r)

\* r is on a cycle of requests that wait for each other.
Deadlocked(r) ==
    \E D \in SUBSET Active :
        /\ r \in D
        /\ \A q \in D : /\ \E o \in D : Blocks(o, q)
                        /\ \E o \in D : Blocks(q, o)

\* The statement gets its locks and the request goes on.
Acquire(r, label) ==
    /\ Granted(r)
    /\ held' = [held EXCEPT ![r] =
                   @ \cup {l \in Lock : Wants(r, l.row, l.mode)}]
    /\ Goto(r, label)

-----------------------------------------------------------------------------
(* Clients and the environment *)

Issue(r, q, label) ==
    /\ pc[r] = "idle" /\ q.op \in Ops
    /\ req' = [req EXCEPT ![r] = q]
    /\ Goto(r, label)
    /\ UNCHANGED <<user, session, failures, job, held, history>>

Ask(op) == [op |-> op, session |-> None, given |-> None, new |-> None,
            roles |-> {}]

\* A new session needs a free row, a change a version below the bound.
FreeRows == Cardinality(Sessions \ Issued) >
                Cardinality({r \in Active : req[r].op \in {"login", "refresh"}})
FreeVersions == version + Cardinality({r \in Active :
                    req[r].op \in {"change", "reset", "roles"}}) < MaxVersion

IssueLogin(r, p) ==
    FreeRows /\ Issue(r, [Ask("login") EXCEPT !.given = p], "identify")

IssueRefresh(r, s) ==
    /\ s \in Issued /\ FreeRows
    /\ Issue(r, [Ask("refresh") EXCEPT !.session = s], "find")

IssueLogout(r, s) ==
    /\ s \in Issued
    /\ Issue(r, [Ask("logout") EXCEPT !.session = s], "revoke")

IssueChange(r, p, n) ==
    /\ FreeVersions /\ n \in Chosen
    /\ Issue(r, [Ask("change") EXCEPT !.given = p, !.new = n], "read")

IssueReset(r, n) ==
    /\ FreeVersions /\ n \in Temporary
    /\ Issue(r, [Ask("reset") EXCEPT !.new = n], "read")

\* normalizeRoles refuses an empty list.
IssueRoles(r, R) ==
    /\ FreeVersions /\ R # {}
    /\ Issue(r, [Ask("roles") EXCEPT !.roles = R], "delete")

\* The oldest failures leave the lockout window.
FailuresAge ==
    /\ failures' \in 0..(failures - 1)
    /\ UNCHANGED <<user, session, pc, req, job, held, history>>

\* The 15 second limit passes, the client goes away, or the server dies.
Abort(r) ==
    /\ pc[r] # "idle"
    /\ Finish(r)
    /\ UNCHANGED <<user, session, failures, history>>

\* PostgreSQL aborts one member of a deadlock.
BreakDeadlock(r) == Deadlocked(r) /\ Abort(r)

-----------------------------------------------------------------------------
(* Login: four statements and an insert, each a transaction of its own *)

\* Hash, version and roles come from one query, hence one snapshot.
Identify(r) ==
    /\ pc[r] = "identify"
    /\ job' = [job EXCEPT ![r].password = password,
                          ![r].version = version,
                          ![r].roles = RoleNames(roleRows)]
    /\ Goto(r, "count")
    /\ UNCHANGED <<user, session, failures, req, held, history>>

\* Mistake: the account is locked one failure too late.
CountFailuresOffByOne(r) ==
    /\ pc[r] = "count"
    /\ IF failures > MaxFailed
       THEN Finish(r)
       ELSE Goto(r, "verify") /\ UNCHANGED <<req, job, held>>
    /\ UNCHANGED <<user, session, failures, history>>

CountFailures(r) ==
    /\ pc[r] = "count"
    /\ IF failures >= MaxFailed
       THEN Finish(r)
       ELSE Goto(r, "verify") /\ UNCHANGED <<req, job, held>>
    /\ UNCHANGED <<user, session, failures, history>>

VerifyLogin(r) ==
    /\ pc[r] = "verify"
    /\ IF req[r].given = job[r].password
       THEN Goto(r, "clear") /\ UNCHANGED <<failures, req, job, held>>
       ELSE failures' = failures + 1 /\ Finish(r)
    /\ UNCHANGED <<user, session, history>>

\* Mistake: one failure is forgiven instead of all.
ClearFailuresOne(r) ==
    /\ pc[r] = "clear"
    /\ failures' = failures - 1
    /\ Goto(r, "insert")
    /\ UNCHANGED <<user, session, req, job, held, history>>

ClearFailures(r) ==
    /\ pc[r] = "clear"
    /\ failures' = 0
    /\ Goto(r, "insert")
    /\ UNCHANGED <<user, session, req, job, held, history>>

\* Mistake: the session gets the version in force at the insert.
InsertSessionCurrentVersion(r) ==
    /\ pc[r] = "insert" /\ Granted(r)
    /\ \E s \in Sessions \ Issued :
          /\ session' = [session EXCEPT ![s] = NewSession(s, version)]
          /\ secret' = [secret EXCEPT ![s] = req[r].given]
    /\ tokens' = tokens \cup {[version |-> version, roles |-> job[r].roles]}
    /\ Finish(r)
    /\ UNCHANGED <<user, failures>>

\* Insert and commit; the foreign keys wait for a refresh of the same user.
InsertSession(r) ==
    /\ pc[r] = "insert" /\ Granted(r)
    /\ \E s \in Sessions \ Issued :
          /\ session' = [session EXCEPT ![s] = NewSession(s, job[r].version)]
          /\ secret' = [secret EXCEPT ![s] = req[r].given]
    /\ tokens' = tokens \cup {[version |-> job[r].version, roles |-> job[r].roles]}
    /\ Finish(r)
    /\ UNCHANGED <<user, failures>>

-----------------------------------------------------------------------------
(* Refresh *)

\* The SELECT runs on its snapshot first ...
FindSession(r) ==
    /\ pc[r] = "find"
    /\ IF session[req[r].session].version = version
       THEN Goto(r, "session") /\ UNCHANGED <<req, job, held>>
       ELSE Finish(r)
    /\ UNCHANGED <<user, session, failures, history>>

\* ... then locks the rows it found, in the order of its FROM list ...
LockSession(r) ==
    /\ pc[r] = "session" /\ Acquire(r, "member")
    /\ UNCHANGED <<user, session, failures, req, job, history>>

LockMember(r) ==
    /\ pc[r] = "member" /\ Acquire(r, "user")
    /\ UNCHANGED <<user, session, failures, req, job, history>>

\* ... and judges them again as they are once it has them all.  A token past
\* expires_at is refused like a used one.
LockUserToRefresh(r) ==
    LET s == req[r].session IN
    /\ pc[r] = "user" /\ req[r].op = "refresh"
    /\ \/ session[s].version # version /\ Granted(r) /\ Finish(r)
       \/ /\ session[s].version = version
          /\ \/ Acquire(r, "refuse")
             \/ ~Dead(s) /\ Acquire(r, "rotate")
          /\ UNCHANGED <<req, job>>
    /\ UNCHANGED <<user, session, failures, history>>

\* Replace, insert, read the roles and commit; every row read is locked.
Rotate(r) ==
    LET s == req[r].session IN
    /\ pc[r] = "rotate"
    /\ \E t \in Sessions \ Issued :
          /\ session' = [session EXCEPT
                ![s].replaced = TRUE,
                ![t] = NewSession(session[s].family, session[s].version)]
          /\ secret' = [secret EXCEPT ![t] = secret[s]]
    /\ tokens' = tokens \cup
          {[version |-> session[s].version, roles |-> RoleNames(roleRows)]}
    /\ Finish(r)
    /\ UNCHANGED <<user, failures>>

\* Mistake: the refused transaction is left open.
RefuseUnended(r) ==
    /\ pc[r] = "refuse" /\ Granted(r)
    /\ pc' = [pc EXCEPT ![r] = "idle"]
    /\ req' = [req EXCEPT ![r] = None]
    /\ job' = [job EXCEPT ![r] = NoJob]
    /\ UNCHANGED <<user, session, failures, held, history>>

\* RevokeFamily updates the family's rows, then the error rolls it back.
Refuse(r) ==
    /\ pc[r] = "refuse" /\ Granted(r)
    /\ Finish(r)
    /\ UNCHANGED <<user, session, failures, history>>

-----------------------------------------------------------------------------
(* Logout *)

RevokeSession(r) ==
    /\ pc[r] = "revoke" /\ Granted(r)
    /\ session' = Revoked({req[r].session})
    /\ Finish(r)
    /\ UNCHANGED <<user, failures, history>>

-----------------------------------------------------------------------------
(* ChangePassword and ResetPassword *)

\* The current hash is read without a lock; the history may refuse the new
\* password.
ReadPassword(r) ==
    /\ pc[r] = "read"
    /\ \/ Finish(r)
       \/ /\ req[r].op = "change"
          /\ req[r].given = password /\ req[r].new # req[r].given
          /\ Goto(r, "user") /\ UNCHANGED <<req, job, held>>
       \/ /\ req[r].op = "reset"
          /\ Goto(r, "login") /\ UNCHANGED <<req, job, held>>
    /\ UNCHANGED <<user, session, failures, history>>

LockLogin(r) ==
    /\ pc[r] = "login"
    /\ Acquire(r, IF req[r].op = "change" THEN "scan" ELSE "user")
    /\ UNCHANGED <<user, session, failures, req, job, history>>

LockUserToChange(r) ==
    /\ pc[r] = "user" /\ req[r].op # "refresh"
    /\ Acquire(r, IF req[r].op = "change" THEN "login" ELSE "scan")
    /\ UNCHANGED <<user, session, failures, req, job, history>>

\* RevokeUserSessions starts: later inserts are not in its snapshot.
ScanSessions(r) ==
    /\ pc[r] = "scan"
    /\ job' = [job EXCEPT ![r].sessions = {s \in Issued : ~session[s].revoked}]
    /\ Goto(r, "commit")
    /\ UNCHANGED <<user, session, failures, req, held, history>>

\* Mistake: an administrator's password does not set the flag.
CommitPasswordUnflagged(r) ==
    /\ pc[r] = "commit" /\ req[r].op \in {"change", "reset"}
    /\ Granted(r)
    /\ password' = req[r].new
    /\ version' = version + 1
    /\ mustChange' = FALSE
    /\ session' = Revoked(job[r].sessions)
    /\ Finish(r)
    /\ UNCHANGED <<roleRows, failures, history>>

\* The last session rows are locked and the transaction commits.
CommitPassword(r) ==
    /\ pc[r] = "commit" /\ req[r].op \in {"change", "reset"}
    /\ Granted(r)
    /\ password' = req[r].new
    /\ version' = version + 1
    /\ mustChange' = (req[r].op = "reset")
    /\ session' = Revoked(job[r].sessions)
    /\ Finish(r)
    /\ UNCHANGED <<roleRows, failures, history>>

-----------------------------------------------------------------------------
(* UpdateRoles *)

\* DELETE fixes the rows it will remove ...
FindRoles(r) ==
    /\ pc[r] = "delete"
    /\ job' = [job EXCEPT ![r].rows = roleRows]
    /\ Goto(r, "wait")
    /\ UNCHANGED <<user, session, failures, req, held, history>>

\* ... and, once no other transaction has deleted one, removes those left.
DeleteRoles(r) ==
    /\ pc[r] = "wait" /\ Granted(r)
    /\ job' = [job EXCEPT ![r].rows = @ \cap roleRows]
    /\ Goto(r, "add")
    /\ UNCHANGED <<user, session, failures, req, held, history>>

\* The inserts: a role that is still there violates the primary key.
CreateRoles(r) ==
    /\ pc[r] = "add" /\ Granted(r)
    /\ IF RoleNames(roleRows \ job[r].rows) \cap req[r].roles # {}
       THEN Finish(r)
       ELSE Acquire(r, "user") /\ UNCHANGED <<req, job>>
    /\ UNCHANGED <<user, session, failures, history>>

\* Mistake: changing the roles leaves the version.
CommitRolesSameVersion(r) ==
    /\ pc[r] = "commit" /\ req[r].op = "roles"
    /\ Granted(r)
    /\ roleRows' = (roleRows \ job[r].rows)
                      \cup [role : req[r].roles, born : {version + 1}]
    /\ session' = Revoked(job[r].sessions)
    /\ Finish(r)
    /\ UNCHANGED <<version, mustChange, password, failures, history>>

CommitRoles(r) ==
    /\ pc[r] = "commit" /\ req[r].op = "roles"
    /\ Granted(r)
    /\ roleRows' = (roleRows \ job[r].rows)
                      \cup [role : req[r].roles, born : {version + 1}]
    /\ version' = version + 1
    /\ session' = Revoked(job[r].sessions)
    /\ Finish(r)
    /\ UNCHANGED <<mustChange, password, failures, history>>

-----------------------------------------------------------------------------
(* The specification *)

ServerStep(r) ==
    \/ Identify(r) \/ CountFailures(r) \/ VerifyLogin(r) \/ ClearFailures(r)
    \/ InsertSession(r)
    \/ FindSession(r) \/ LockSession(r) \/ LockMember(r)
    \/ LockUserToRefresh(r) \/ Rotate(r) \/ Refuse(r)
    \/ RevokeSession(r)
    \/ ReadPassword(r) \/ LockLogin(r) \/ LockUserToChange(r)
    \/ ScanSessions(r) \/ CommitPassword(r)
    \/ FindRoles(r) \/ DeleteRoles(r) \/ CreateRoles(r) \/ CommitRoles(r)

ClientStep(r) ==
    \/ \E p \in Passwords : IssueLogin(r, p)
    \/ \E s \in Sessions : IssueRefresh(r, s) \/ IssueLogout(r, s)
    \/ \E p, n \in Passwords : IssueChange(r, p, n)
    \/ \E n \in Passwords : IssueReset(r, n)
    \/ \E R \in SUBSET Roles : IssueRoles(r, R)

Next ==
    \/ \E r \in Requests :
          ServerStep(r) \/ ClientStep(r) \/ Abort(r) \/ BreakDeadlock(r)
    \/ FailuresAge

Spec == Init /\ [][Next]_vars

\* The server runs every request, PostgreSQL serves the waiters of a row in
\* turn and breaks every deadlock.  Clients, aborts and the clock are not fair.
Fairness ==
    /\ \A r \in Requests : SF_vars(ServerStep(r))
    /\ WF_vars(\E r \in Requests : BreakDeadlock(r))

FairSpec == Spec /\ Fairness

-----------------------------------------------------------------------------
(* Properties *)

\* Type invariant.
TypeOK ==
    /\ version \in Nat /\ mustChange \in BOOLEAN
    /\ password \in Passwords
    /\ roleRows \subseteq RoleRow
    /\ session \in [Sessions -> SessionRow \cup {None}]
    /\ failures \in Nat
    /\ pc \in [Requests -> Controls]
    /\ req \in [Requests -> Request \cup {None}]
    /\ job \in [Requests -> Job]
    /\ held \in [Requests -> SUBSET Lock]
    /\ secret \in [Sessions -> Passwords \cup {None}]
    /\ tokens \subseteq [version : Nat, roles : SUBSET Roles]

\* Refreshes, repeated or concurrent, never leave a family with two tokens
\* that are neither revoked nor replaced.
OneLiveTokenPerFamily ==
    \A s, t \in Issued :
        session[s].family = session[t].family /\ ~Dead(s) /\ ~Dead(t) => s = t

\* Whoever holds a token that can be refreshed has proved to know the password
\* in force, whatever logins were under way when it changed.
UsableTokensKnowPassword == \A s \in Usable : secret[s] = password

\* All access tokens of one auth_version carry the same roles, and those of
\* the current version the user's roles.
TokenRolesMatchVersion ==
    \A t \in tokens :
        /\ t.version = version => t.roles = RoleNames(roleRows)
        /\ \A u \in tokens : t.version = u.version => t.roles = u.roles

\* The user is asked to change exactly the passwords an administrator set,
\* although flag and hash are in two rows that the two operations write in
\* opposite order.
TemporaryPasswordsFlagged == mustChange <=> password \in Temporary

\* Logins that count the failures at the same time overshoot the limit by no
\* more than one each.
LockoutOvershootBounded ==
    failures <= MaxFailed - 1 + Cardinality(Requests)

\* The requests implement the policy of single-use, credential-bound tokens.
FamilyOf == [s \in Sessions |-> IF s \in Issued THEN session[s].family ELSE None]
Policy == INSTANCE SessionPolicy
             WITH family <- FamilyOf, usable <- Usable, epoch <- version
ImplementsPolicy == Policy!Spec

\* No request waits forever, although they lock the same rows in different
\* orders.
RequestsFinish == \A r \in Requests : pc[r] # "idle" ~> pc[r] = "idle"

\* What the documents say and the code does not do.
\* docs: reuse of an old refresh token revokes the whole family.
FamilyRevokedOnReuse ==
    [][\A r \in Requests :
          Refuse(r) /\ session[req[r].session].replaced =>
              \A s \in Family(session[req[r].session].family) :
                  session'[s].revoked]_vars

=============================================================================
