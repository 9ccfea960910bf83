------------------------------ MODULE Accounts ------------------------------
(***************************************************************************)
(* The accounts of an organization: created one by one or imported from a  *)
(* file, their passwords with the history that keeps a recent one from     *)
(* being used again, and the name of the organization.                     *)
(*                                                                         *)
(* An account is a user, a membership, a login name and roles, inserted in *)
(* one transaction and named by the login name here.  The checks (is the   *)
(* name free, is the password in the history) read outside the transaction *)
(* that writes, or through another connection than its own.  Rows of the   *)
(* history carry the start of their transaction as their time, so that the *)
(* two rows of one change are equally old.                                 *)
(*                                                                         *)
(* Left out: names and e-mail addresses, the strength of passwords, and    *)
(* what Sessions has: roles, sessions, lockout and the order of row locks. *)
(***************************************************************************)
EXTENDS Naturals, FiniteSets, Sequences, SequencesExt

CONSTANTS Logins,              \* normalized login names
          Passwords,
          Requests,            \* concurrent requests, each sent at most once
          Files,               \* user files that are imported
          InitialAccounts,     \* accounts, histories, past passwords, clock at the start
          Names,               \* of the organization
          Nothing

PasswordHistoryLength == 5
BadRow == [login |-> Nothing, password |-> Nothing]
FileRow == [login : Logins, password : Passwords]
HistoryRow == [hash : Passwords, at : Nat]
Account == [password : Passwords, by : (Requests \X Nat) \cup {Nothing}]
Operations == {"create", "import", "dry run", "change", "reset", "rename"}

VARIABLES accounts,     \* by login name: password, and the request and row that made it
          history,      \* by login name: rows of password_history, in insertion order
          audit,        \* entries: the action and its request
          renames,      \* entries organization.update, in the order of their commits
          organization, \* its name
          owner,        \* by login name: the request that holds its row or key
          req,          \* requests under way or answered
          clock         \* transactions that changed a password

VARIABLES past,         \* history: the passwords of an account, in order, from the first
                        \* change on record or the one it had when the table was new
          unrecorded,   \* history: accounts that are older than the table of passwords
          overlaps,     \* history: accounts, or Nothing, with two changes at a time
          lost          \* history: commits whose reply was lost

names == <<organization, renames>>
tables == <<accounts, history, audit, names>>
ghosts == <<past, unrecorded, overlaps, lost>>
accountsVars == <<tables, owner, req, clock, ghosts>>

-----------------------------------------------------------------------------
(* The password history *)

\* The first n rows ORDER BY created_at DESC: any order among equals.
Latest(rows, n) ==
    {S \in SUBSET DOMAIN rows :
        /\ Cardinality(S) = (IF Len(rows) < n THEN Len(rows) ELSE n)
        /\ \A i \in S, j \in DOMAIN rows \ S : rows[j].at <= rows[i].at}

\* Mutant: three rows are read, as if a change stored one.
ListThreeRows(rows) == {{rows[i].hash : i \in S} : S \in Latest(rows, 3)}
ListPasswordHistory(rows) ==
    {{rows[i].hash : i \in S} : S \in Latest(rows, PasswordHistoryLength)}

InsertPasswordHistory(rows, hash, at) == Append(rows, [hash |-> hash, at |-> at])
Kept(rows, S) ==
    [k \in 1..Cardinality(S) |->
        rows[CHOOSE i \in S : Cardinality({j \in S : j <= i}) = k]]
DeleteOldPasswordHistory(rows) ==
    {Kept(rows, S) : S \in Latest(rows, PasswordHistoryLength)}

StorePasswordHistory(rows, old, new, at) ==
    LET first == IF old = Nothing THEN rows ELSE InsertPasswordHistory(rows, old, at)
    IN DeleteOldPasswordHistory(InsertPasswordHistory(first, new, at))

-----------------------------------------------------------------------------
(* Requests *)

Idle == [op |-> Nothing, name |-> Nothing, login |-> Nothing, password |-> Nothing, old |-> Nothing, at |-> 0,
         file |-> << >>, results |-> << >>,
         pc |-> "idle"]
Goto(r, q) == req' = [req EXCEPT ![r] = q]
Reply(r, outcome) == Goto(r, [req[r] EXCEPT !.pc = outcome])
Importing(r) == req[r].op \in {"import", "dry run"}
Row(r) == IF Importing(r) THEN req[r].file[Len(req[r].results) + 1]
          ELSE [login |-> req[r].login, password |-> req[r].password]
Name(r) == Row(r).login

Send(r, op, login, password, old, file, pc) ==
    /\ req[r].pc = "idle"
    /\ Goto(r, [Idle EXCEPT !.op = op, !.login = login, !.password = password, !.old = old,
                            !.file = file, !.pc = pc])
    /\ UNCHANGED <<tables, owner, clock, ghosts>>

CreateUser(r, l, p) == Send(r, "create", l, p, Nothing, << >>, "exists")
ImportUsers(r, file, op) == Send(r, op, Nothing, Nothing, Nothing, file, "row")
ResetPassword(r, l, p) ==
    accounts[l] # Nothing /\ Send(r, "reset", l, p, Nothing, << >>, "begin")
ChangePassword(r, l, current, p) ==
    accounts[l] # Nothing /\ Send(r, "change", l, p, current, << >>, "begin")

-----------------------------------------------------------------------------
(* CreateUser, and the rows of ImportUsers *)

\* A row is done with; any other request is answered.
RowDone(r, status) ==
    IF Importing(r)
    THEN Goto(r, [req[r] EXCEPT !.results = Append(@, status), !.pc = "row"])
    ELSE Reply(r, IF status = "created" THEN "ok" ELSE "error")

NextRow(r) ==
    /\ req[r].pc = "row"
    /\ IF Len(req[r].results) = Len(req[r].file)
       THEN Reply(r, IF req[r].op = "import" THEN "audit" ELSE "ok")
       ELSE IF Row(r) = BadRow THEN RowDone(r, "error") ELSE Reply(r, "exists")
    /\ UNCHANGED <<tables, owner, clock, ghosts>>

\* Read before the transaction; when the read fails an import ends here.
LoginExists(r) ==
    /\ req[r].pc = "exists"
    /\ \/ accounts[Name(r)] # Nothing /\ RowDone(r, "error")
       \/ accounts[Name(r)] = Nothing /\ req[r].op = "dry run" /\ RowDone(r, "valid")
       \/ accounts[Name(r)] = Nothing /\ req[r].op # "dry run" /\ Reply(r, "insert")
    /\ UNCHANGED <<tables, owner, clock, ghosts>>

\* Mutant: a name that was taken meanwhile is not noticed.
NeverTaken(r) == FALSE
Taken(r) == accounts[Name(r)] # Nothing

\* The unique key of the login name is waited for.
CreateLoginName(r) ==
    /\ req[r].pc = "insert" /\ owner[Name(r)] = Nothing
    /\ \/ Taken(r) /\ RowDone(r, "error") /\ UNCHANGED owner
       \/ /\ ~Taken(r)
          /\ owner' = [owner EXCEPT ![Name(r)] = r]
          /\ Reply(r, "created")
    /\ UNCHANGED <<tables, clock, ghosts>>

Release(r) == owner' = [l \in Logins |-> IF owner[l] = r THEN Nothing ELSE owner[l]]
Entry(action, r) == audit' = audit \cup {<<action, r>>}

\* User, membership, login name, roles, history and, but for an import, the
\* audit entry commit together; the reply of the commit may be lost.
CommitUser(r) ==
    LET l == Name(r)
        made == <<r, Len(req[r].results) + 1>>
    IN /\ req[r].pc = "created"
       /\ accounts' = [accounts EXCEPT ![l] = [password |-> Row(r).password, by |-> made]]
       /\ \E rows \in StorePasswordHistory(<< >>, Nothing, Row(r).password, clock) :
             history' = [history EXCEPT ![l] = rows]
       /\ IF Importing(r) THEN UNCHANGED audit ELSE Entry("user.create", r)
       /\ past' = [past EXCEPT ![l] = <<Row(r).password>>]
       /\ \/ RowDone(r, "created") /\ UNCHANGED lost
          \/ RowDone(r, "error") /\ lost' = lost \cup {made}
       /\ Release(r)
       /\ UNCHANGED <<names, clock, unrecorded, overlaps>>

\* The transaction of a row is rolled back, and an import goes on.
RollbackRow(r) ==
    /\ req[r].pc \in {"insert", "created"}
    /\ RowDone(r, "error") /\ Release(r)
    /\ UNCHANGED <<tables, clock, ghosts>>

\* The import itself is recorded last, in a transaction of its own.
AuditImport(r) ==
    /\ req[r].pc = "audit"
    /\ \/ Entry("user.import", r) /\ \E reply \in {"ok", "error"} : Reply(r, reply)
       \/ Reply(r, "error") /\ UNCHANGED audit
    /\ UNCHANGED <<accounts, history, names, owner, clock, ghosts>>

-----------------------------------------------------------------------------
(* ResetPassword, ChangePassword *)

Changing(l) == {r \in Requests : req[r].login = l /\ req[r].pc \in {"check", "update", "commit"}}

BeginChange(r) ==
    LET l == req[r].login IN
    /\ req[r].pc = "begin"
    /\ req[r].op = "change" => /\ req[r].old = accounts[l].password
                               /\ req[r].password # req[r].old
    /\ clock' = clock + 1
    /\ Goto(r, [req[r] EXCEPT !.old = accounts[l].password, !.at = clock + 1, !.pc = "check"])
    /\ overlaps' = IF Changing(l) = {} THEN overlaps ELSE overlaps \cup {l}
    /\ UNCHANGED <<tables, owner, past, unrecorded, lost>>

\* Through the pool, not through the transaction.
CheckPasswordHistory(r) ==
    /\ req[r].pc = "check"
    /\ \E hashes \in ListPasswordHistory(history[req[r].login]) :
          req[r].password \notin hashes
    /\ Reply(r, "update")
    /\ UNCHANGED <<tables, owner, clock, ghosts>>

UpdateLoginPassword(r) ==
    /\ req[r].pc = "update" /\ owner[req[r].login] = Nothing
    /\ owner' = [owner EXCEPT ![req[r].login] = r]
    /\ Reply(r, "commit")
    /\ UNCHANGED <<tables, clock, ghosts>>

CommitPassword(r) ==
    LET q == req[r] IN
    /\ q.pc = "commit"
    /\ accounts' = [accounts EXCEPT ![q.login].password = q.password]
    /\ \E rows \in StorePasswordHistory(history[q.login], q.old, q.password, q.at) :
          history' = [history EXCEPT ![q.login] = rows]
    /\ IF q.op = "reset" THEN Entry("user.reset_password", r) ELSE UNCHANGED audit
    /\ past' = [past EXCEPT ![q.login] = Append(@, q.password)]
    /\ \E reply \in {"ok", "error"} : Reply(r, reply)
    /\ Release(r)
    /\ UNCHANGED <<names, clock, unrecorded, overlaps, lost>>

-----------------------------------------------------------------------------
(* UpdateOrganization *)

Renaming == {r \in Requests : req[r].pc \in {"organization", "rename"}}

UpdateOrganization(r, name) ==
    /\ req[r].pc = "idle"
    /\ Goto(r, [Idle EXCEPT !.op = "rename", !.name = name, !.pc = "organization"])
    /\ overlaps' = IF Renaming = {} THEN overlaps ELSE overlaps \cup {Nothing}
    /\ UNCHANGED <<tables, owner, clock, past, unrecorded, lost>>

\* The name that the entry calls the one before is read outside the transaction.
GetOrganization(r) ==
    /\ req[r].pc = "organization"
    /\ Goto(r, [req[r] EXCEPT !.old = organization, !.pc = "rename"])
    /\ UNCHANGED <<tables, owner, clock, ghosts>>

CommitRename(r) ==
    LET q == req[r] IN
    /\ q.pc = "rename"
    /\ organization' = q.name
    /\ renames' = Append(renames, [before |-> q.old, after |-> q.name, by |-> r])
    /\ \E reply \in {"ok", "error"} : Reply(r, reply)
    /\ UNCHANGED <<accounts, history, audit, owner, clock, ghosts>>

-----------------------------------------------------------------------------
\* A check that refuses, or a read, a statement or a connection that fails.
Fail(r) ==
    /\ req[r].pc \in {"exists", "begin", "check", "update", "commit",
                     "organization", "rename"}
    /\ Reply(r, "error") /\ Release(r)
    /\ UNCHANGED <<tables, clock, ghosts>>

-----------------------------------------------------------------------------
\* What the rows of the last two changes, made one after the other, tell: two
\* rows that are younger than all others have the password and the one before
\* it, and a row that is kept has the third.
Remembers(rows, passwords) ==
    LET n == Len(passwords) IN
    /\ \E a, b \in DOMAIN rows :
          /\ rows[a].hash = passwords[n]
          /\ n > 1 => a # b /\ rows[b].hash = passwords[n - 1]
          /\ rows[a].at = rows[b].at
          /\ \A j \in DOMAIN rows \ {a, b} : rows[j].at < rows[a].at
    /\ n > 2 => \E c \in DOMAIN rows : rows[c].hash = passwords[n - 2]
NoneRecent(passwords) ==
    \A i, j \in DOMAIN passwords : i < j /\ j - i <= 3 => passwords[i] # passwords[j]

ASSUME NothingAssumption ==
    /\ Nothing \notin Logins \cup Passwords \cup Requests \cup Names \cup Account \cup FileRow
    /\ Nothing \notin (Requests \X Nat) \cup Operations
ASSUME FilesAssumption == Files \subseteq Seq(FileRow \cup {BadRow})

\* Accounts whose passwords were changed one after the other, if ever, or
\* that the migrations before password_history made: a password and no row.
ASSUME InitialAssumption ==
    \A initial \in InitialAccounts :
       /\ initial[1] \in [Logins -> Account \cup {Nothing}]
       /\ initial[2] \in [Logins -> Seq(HistoryRow)]
       /\ initial[3] \in [Logins -> Seq(Passwords)] /\ initial[4] \in Nat
       /\ \A l \in Logins :
             IF initial[1][l] = Nothing THEN initial[2][l] = << >> /\ initial[3][l] = << >>
             ELSE /\ initial[1][l].by = Nothing
                  /\ initial[3][l] # << >> /\ initial[1][l].password = Last(initial[3][l])
                  /\ Len(initial[2][l]) <= PasswordHistoryLength
                  /\ \A i \in DOMAIN initial[2][l] : initial[2][l][i].at <= initial[4]
                  /\ \/ Remembers(initial[2][l], initial[3][l]) /\ NoneRecent(initial[3][l])
                     \/ initial[2][l] = << >> /\ Len(initial[3][l]) = 1

AccountsInit ==
    /\ \E initial \in InitialAccounts :
          accounts = initial[1] /\ history = initial[2] /\ past = initial[3]
          /\ clock = initial[4]
    /\ unrecorded = {l \in Logins : accounts[l] # Nothing /\ history[l] = << >>}
    /\ audit = {} /\ renames = << >> /\ organization \in Names
    /\ owner = [l \in Logins |-> Nothing]
    /\ req = [r \in Requests |-> Idle]
    /\ overlaps = {} /\ lost = {}

Clients(r) ==
    \/ \E l \in Logins, p \in Passwords :
          CreateUser(r, l, p) \/ ResetPassword(r, l, p)
          \/ \E current \in Passwords : ChangePassword(r, l, current, p)
    \/ \E name \in Names : UpdateOrganization(r, name)
    \/ \E file \in Files, op \in {"import", "dry run"} : ImportUsers(r, file, op)

Server(r) ==
    \/ NextRow(r) \/ LoginExists(r) \/ CreateLoginName(r) \/ CommitUser(r) \/ RollbackRow(r)
    \/ AuditImport(r) \/ BeginChange(r) \/ CheckPasswordHistory(r) \/ UpdateLoginPassword(r)
    \/ CommitPassword(r)
    \/ GetOrganization(r) \/ CommitRename(r) \/ Fail(r)

AccountsNext == \E r \in Requests : Clients(r) \/ Server(r)
AccountsSpec == AccountsInit /\ [][AccountsNext]_accountsVars

-----------------------------------------------------------------------------
(* Properties *)

Labels == {"idle", "row", "exists", "insert", "created", "audit", "begin", "check", "update",
           "commit", "organization", "rename", "ok", "error"}
Actions == {"user.create", "user.import", "user.reset_password"}
RequestType ==
    [op : Operations \cup {Nothing}, name : Names \cup {Nothing}, login : Logins \cup {Nothing},
     password : Passwords \cup {Nothing}, old : Passwords \cup Names \cup {Nothing}, at : Nat,
     file : Seq(FileRow \cup {BadRow}), results : Seq({"created", "valid", "error"}), pc : Labels]

\* An account has the last of its passwords, and at most five rows of them.
AccountsTypeOK ==
    /\ accounts \in [Logins -> Account \cup {Nothing}] /\ history \in [Logins -> Seq(HistoryRow)]
    /\ past \in [Logins -> Seq(Passwords)]
    /\ \A l \in Logins :
          /\ IF accounts[l] = Nothing THEN history[l] = << >> /\ past[l] = << >>
             ELSE past[l] # << >> /\ accounts[l].password = Last(past[l])
          /\ Len(history[l]) <= PasswordHistoryLength
          /\ \A i \in DOMAIN history[l] : history[l][i].at <= clock
    /\ audit \subseteq Actions \X Requests /\ organization \in Names
    /\ renames \in Seq([before : Names, after : Names, by : Requests])
    /\ owner \in [Logins -> Requests \cup {Nothing}]
    /\ req \in [Requests -> RequestType] /\ clock \in Nat
    /\ unrecorded \subseteq Logins /\ overlaps \subseteq Logins \cup {Nothing}
    /\ lost \subseteq Requests \X Nat

\* What a creation or an import reports is what it did, although the names
\* were checked before each row's transaction: a user reported as created is
\* the account of that name, and a row reported as failed made none unless
\* the reply of its commit was lost; a dry run makes none; an account whose
\* creation or import succeeded is in the audit log (CreateUser, ImportUsers).
\* The audit log tells the names of the organization in their order, as long
\* as no two renamings run at a time (UpdateOrganization).
AccountsReported ==
    /\ \A r \in Requests : req[r].op \in {"import", "dry run"} =>
          \A i \in DOMAIN req[r].results :
             LET l == req[r].file[i].login
                 made == l # Nothing /\ accounts[l] # Nothing /\ accounts[l].by = <<r, i>>
             IN /\ req[r].results[i] = "created" => made
                /\ made => req[r].results[i] = "created" \/ <<r, i>> \in lost
    /\ \A r \in Requests : req[r].op = "create" =>
          LET made == accounts[req[r].login] # Nothing /\ accounts[req[r].login].by = <<r, 1>>
          IN (req[r].pc = "ok" => made) /\ (made => <<"user.create", r>> \in audit)
    /\ \A r \in Requests : req[r].op = "import" /\ req[r].pc = "ok"
          => <<"user.import", r>> \in audit
    /\ renames # << >> => Last(renames).after = organization
    /\ Nothing \notin overlaps => \A i \in 2..Len(renames) :
          renames[i].before = renames[i - 1].after

\* A password is not set again while it is one of the last three of the
\* account, if no two changes of the account were under way at a time.  The
\* five rows that are kept are the pairs of the last two changes and one row
\* of the pair before, either of the two (StorePasswordHistory stores two
\* rows a change, CheckPasswordHistory reads five).  An account that is older
\* than the table has no row of its password, and may be given the same one
\* by its first reset (ResetPassword does not compare the two), and only then.
RecentPasswordsRefused ==
    \A l \in Logins \ overlaps : \A i, j \in DOMAIN past[l] :
        i < j /\ j - i <= 3 /\ past[l][i] = past[l][j] => l \in unrecorded /\ j = 2

=============================================================================
