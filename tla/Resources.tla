----------------------------- MODULE Resources -----------------------------
(***************************************************************************)
(* Learning resources, their files, the blobs behind the files, and the    *)
(* notifications a publication sends to a class.                           *)
(*                                                                         *)
(* A request reads the resource, then asks the academics tables whether    *)
(* the actor may see or manage its class, then acts on what it read: no    *)
(* transaction spans these steps.  An upload stores one blob after the     *)
(* other, each before its row, and goes on after a file that fails.  The   *)
(* blob store is the local disk or Supabase, whose HTTP requests are       *)
(* repeated on a network error or a 5xx.                                   *)
(*                                                                         *)
(* Left out: titles, sizes and content types (a refusal for one of them    *)
(* changes nothing), and the checks of the access token.                   *)
(***************************************************************************)
EXTENDS Naturals, FiniteSets, Sequences, SequencesExt

CONSTANTS ResourceIds, Classes, Users,
          Admins, Teachers,   \* users whose token has the role
          Keys,               \* storage keys; a file row is named by its key
          Requests,           \* concurrent requests
          InitialTables,      \* resources and files that exist already
          Uploads,            \* lists of inputs that uploads are sent with
          Providers,          \* blob stores that are deployed
          MaxRetries,         \* repetitions of a Supabase request
          MaxChanges,         \* bound of the roster changes
          None

StatusDraft == "DRAFT"
StatusPublished == "PUBLISHED"
StatusArchived == "ARCHIVED"
Organization == "organization"
Scopes == Classes \cup {Organization}

ResourceRows == [status : {StatusDraft, StatusPublished, StatusArchived}, scope : Scopes]
FileRows == [resource : ResourceIds, at : Nat]

ASSUME RolesAssumption == Admins \subseteq Users /\ Teachers \subseteq Users
ASSUME KeysAssumption == IsFiniteSet(Keys)
ASSUME NoneAssumption == None \notin ResourceRows \cup Keys /\ None \notin FileRows
ASSUME TablesAssumption ==
    \A initial \in InitialTables :
       /\ initial[1] \in [ResourceIds -> ResourceRows \cup {None}]
       /\ initial[2] \in [Keys -> FileRows \cup {None}]
       /\ \A k \in Keys :
             initial[2][k] # None => initial[1][initial[2][k].resource] # None
ASSUME ProvidersAssumption == Providers \subseteq {"local", "supabase"}
ASSUME BoundsAssumption == MaxRetries \in Nat /\ MaxChanges \in Nat
ASSUME UploadsAssumption == Uploads \subseteq Seq({"named", "unnamed"}) \ {<< >>}

VARIABLES resources,          \* by id: status and scope
          files,              \* by key: the resource, and the order of creation
          objects,            \* the blob store, by key
          teaching, enrolled, \* the rosters, pairs of a class and a user
          inbox,              \* notifications: user, resource, request
          req,                \* requests under way or answered
          provider

VARIABLES moments,            \* history: what was true at some moment of a request,
                              \* and which students were enrolled
          changes             \* history: roster changes

tables == <<resources, files, teaching, enrolled, inbox>>
vars == <<tables, objects, req, provider, moments, changes>>

-----------------------------------------------------------------------------
(* Queries *)

ResourceRow(scope) == [status |-> StatusDraft, scope |-> scope]
InsertedResource(x, scope) == [resources EXCEPT ![x] = ResourceRow(scope)]
UpdateResourceStatus(x, status) == [resources EXCEPT ![x].status = status]
ArchiveResourceRow(x) == UpdateResourceStatus(x, StatusArchived)

Stored == {k \in Keys : files[k] # None}
InsertedFile(k, x) ==
    [files EXCEPT ![k] = [resource |-> x, at |-> Cardinality(Stored)]]
ListResourceFiles(x) == {k \in Stored : files[k].resource = x}
\* ORDER BY created_at DESC LIMIT 1
ActiveResourceFile(x) ==
    {k \in ListResourceFiles(x) :
        \A l \in ListResourceFiles(x) : files[l].at <= files[k].at}
GetResourceFile(k) == {k} \cap Stored

IsClassTeacher(c, u) == <<c, u>> \in teaching
IsStudentEnrolled(c, u) == <<c, u>> \in enrolled
ListClassStudentUserIDs(c) == {u \in Users : <<c, u>> \in enrolled}

-----------------------------------------------------------------------------
(* Permissions *)

isManager(u) == u \in Admins \cup Teachers
CanManageClass(c, u) == u \in Admins \/ (u \in Teachers /\ IsClassTeacher(c, u))
CanViewClass(c, u) ==
    IF isManager(u) THEN CanManageClass(c, u) ELSE IsStudentEnrolled(c, u)

Managing == {"create", "publish", "archive", "upload"}
Allowed(op, scope, u) ==
    \/ scope = Organization
    \/ op \in Managing /\ CanManageClass(scope, u)
    \/ op \notin Managing /\ CanViewClass(scope, u)

\* What the status read with the resource lets the request do.
StatusAllows(op, status, u) ==
    /\ op \in {"upload", "download"} => status # StatusArchived
    /\ op \in {"list", "download"} => status = StatusPublished \/ isManager(u)

-----------------------------------------------------------------------------
(* Requests *)

Idle == [op |-> None, user |-> None, res |-> None, row |-> None, file |-> None,
         inputs |-> << >>, key |-> None, tries |-> 0, body |-> FALSE,
         stored |-> << >>, failed |-> FALSE, to |-> {}, served |-> {}, pc |-> "idle"]

Goto(r, q) == req' = [req EXCEPT ![r] = q]
Reply(r, outcome) == req' = [req EXCEPT ![r].pc = outcome]

Issue(r, op, u, x, row, file, inputs, pc) ==
    /\ req[r].pc = "idle"
    /\ op \in Managing => isManager(u)
    /\ Goto(r, [Idle EXCEPT !.op = op, !.user = u, !.res = x, !.row = row,
                            !.file = file, !.inputs = inputs, !.pc = pc])
    /\ UNCHANGED <<tables, objects, provider, changes>>

CreateResource(r, u, x, scope) ==
    Issue(r, "create", u, x, ResourceRow(scope), None, << >>, "access")
PublishResource(r, u, x) == Issue(r, "publish", u, x, None, None, << >>, "get")
ArchiveResource(r, u, x) == Issue(r, "archive", u, x, None, None, << >>, "get")
UploadFiles(r, u, x, inputs) == Issue(r, "upload", u, x, None, None, inputs, "get")
ListFiles(r, u, x) == Issue(r, "list", u, x, None, None, << >>, "get")
\* file = None asks for the latest one.
DownloadFile(r, u, x, file) == Issue(r, "download", u, x, None, file, << >>, "get")

\* Not found, not allowed, or a read that fails: nothing has changed yet.
Refuse(r) ==
    /\ req[r].pc \in {"get", "access", "act", "fetch"}
    /\ Reply(r, "error")
    /\ UNCHANGED <<tables, objects, provider, changes>>

GetResource(r) ==
    /\ req[r].pc = "get" /\ resources[req[r].res] # None
    /\ Goto(r, [req[r] EXCEPT !.row = resources[req[r].res], !.pc = "access"])
    /\ UNCHANGED <<tables, objects, provider, changes>>

CheckAccess(r) ==
    /\ req[r].pc = "access"
    /\ Allowed(req[r].op, req[r].row.scope, req[r].user)
    /\ StatusAllows(req[r].op, req[r].row.status, req[r].user)
    /\ Goto(r, [req[r] EXCEPT !.pc = IF req[r].op = "upload" THEN "next"
                                     ELSE IF req[r].op = "download" THEN "fetch"
                                     ELSE "act"])
    /\ UNCHANGED <<tables, objects, provider, changes>>

\* The statement commits by itself and its reply may be lost.
Act(r) ==
    LET x == req[r].res IN
    /\ req[r].pc = "act" /\ req[r].op \in {"create", "publish", "archive"}
    /\ \/ req[r].op = "create" /\ resources[x] = None
          /\ resources' = InsertedResource(x, req[r].row.scope)
       \/ req[r].op = "publish" /\ resources' = UpdateResourceStatus(x, StatusPublished)
       \/ req[r].op = "archive" /\ resources' = ArchiveResourceRow(x)
    /\ \/ Reply(r, "error")
       \/ req[r].op = "publish" /\ req[r].row.scope \in Classes /\ Reply(r, "recipients")
       \/ ~(req[r].op = "publish" /\ req[r].row.scope \in Classes) /\ Reply(r, "ok")
    /\ UNCHANGED <<files, objects, teaching, enrolled, inbox, provider, changes>>

ServeList(r) ==
    /\ req[r].pc = "act" /\ req[r].op = "list"
    /\ Goto(r, [req[r] EXCEPT !.served = ListResourceFiles(req[r].res), !.pc = "ok"])
    /\ UNCHANGED <<tables, objects, provider, changes>>

-----------------------------------------------------------------------------
(* notifyResourcePublished: after the commit, and never an error *)

Recipients(r) ==
    /\ req[r].pc = "recipients"
    /\ \/ Goto(r, [req[r] EXCEPT !.to = ListClassStudentUserIDs(req[r].row.scope),
                                 !.pc = "notify"])
       \/ Reply(r, "ok")
    /\ UNCHANGED <<tables, objects, provider, changes>>

InsertNotification(u, x, r) == inbox \cup {<<u, x, r>>}

\* NotifyMany: a recipient whose insert fails is skipped.
Notify(r) ==
    /\ req[r].pc = "notify"
    /\ \/ /\ req[r].to = {} /\ Reply(r, "ok") /\ UNCHANGED inbox
       \/ \E u \in req[r].to :
             /\ Goto(r, [req[r] EXCEPT !.to = @ \ {u}])
             /\ inbox' \in {inbox, InsertNotification(u, req[r].res, r)}
    /\ UNCHANGED <<resources, files, teaching, enrolled, objects, provider, changes>>

-----------------------------------------------------------------------------
(* UploadFiles: for each input Store, then CreateResourceFile *)

\* Mutant: a row that was not written is reported as well.
ReportAnyInput(q, ok) ==
    [q EXCEPT !.inputs = Tail(@), !.key = None, !.pc = "next",
              !.stored = IF q.key # None THEN Append(@, q.key) ELSE @]

\* An input is done with; firstErr remembers that one of them failed.
AfterInput(q, ok) ==
    [q EXCEPT !.inputs = Tail(@), !.key = None, !.pc = "next",
              !.stored = IF ok THEN Append(@, q.key) ELSE @, !.failed = @ \/ ~ok]

\* An error is answered only when nothing was stored.
NextInput(r) ==
    /\ req[r].pc = "next"
    /\ \/ /\ req[r].inputs = << >>
          /\ Reply(r, IF req[r].stored = << >> /\ req[r].failed THEN "error" ELSE "ok")
       \/ /\ req[r].inputs # << >> /\ Head(req[r].inputs) = "unnamed"
          /\ Goto(r, AfterInput(req[r], FALSE))
       \/ /\ req[r].inputs # << >> /\ Head(req[r].inputs) = "named"
          /\ \E k \in Keys :      \* generateKey: a key nobody has drawn before
                /\ objects[k] = "absent" /\ \A s \in Requests : req[s].key # k
                /\ Goto(r, [req[r] EXCEPT !.key = k, !.tries = 0, !.body = TRUE,
                                          !.pc = "store"])
    /\ UNCHANGED <<tables, objects, provider, changes>>

SetObject(k, content) == objects' = [objects EXCEPT ![k] = content]

\* LocalProvider.Store: a copy that fails or falls short is removed, and the
\* error of the removal is ignored.
StoreLocal(r) ==
    LET k == req[r].key IN
    /\ req[r].pc = "store" /\ provider = "local"
    /\ \/ SetObject(k, "whole") /\ Reply(r, "row")
       \/ \E left \in {"absent", "partial"} :
             SetObject(k, left) /\ Goto(r, AfterInput(req[r], FALSE))
    /\ UNCHANGED <<tables, provider, changes>>

\* Mutant: whatever is answered counts as stored.
AnyStatus(status) == TRUE
Is2xx(status) == status = 200

\* One attempt of doWithRetry.  The object is created from the whole body or
\* not at all (x-upsert is false), and the response may be lost: status 0.
\* The first attempt that sends the body consumes it, and the attempts after
\* it end in a network error or a 409.
StoreSupabase(r) ==
    LET q == req[r]
        last == q.tries = MaxRetries
    IN /\ q.pc = "store" /\ provider = "supabase"
       /\ \E status \in {0, 200, 400, 500}, create, read \in BOOLEAN :
             /\ create => q.body /\ read
             /\ ~q.body => status \in {0, 400}
             /\ status = 200 => create
             /\ IF create THEN SetObject(q.key, "whole") ELSE UNCHANGED objects
             /\ IF status = 0 \/ (status = 500 /\ ~last)
                THEN Goto(r, IF last THEN AfterInput(q, FALSE)
                             ELSE [q EXCEPT !.tries = @ + 1, !.body = @ /\ ~read])
                ELSE Goto(r, IF Is2xx(status) THEN [q EXCEPT !.pc = "row"]
                             ELSE AfterInput(q, FALSE))
    /\ UNCHANGED <<tables, provider, changes>>

\* The blob stays when its row cannot be written.
CreateResourceFile(r) ==
    LET k == req[r].key IN
    /\ req[r].pc = "row"
    /\ \/ /\ files' = InsertedFile(k, req[r].res)
          /\ \E ok \in BOOLEAN : Goto(r, AfterInput(req[r], ok))
       \/ Goto(r, AfterInput(req[r], FALSE)) /\ UNCHANGED files
    /\ UNCHANGED <<resources, objects, teaching, enrolled, inbox, provider, changes>>

-----------------------------------------------------------------------------
(* DownloadFile *)

\* Mutant: any file of the organization is served.
AnyFile(q) == IF q.file = None THEN ActiveResourceFile(q.res) ELSE GetResourceFile(q.file)
ServedFile(q) ==
    IF q.file = None THEN ActiveResourceFile(q.res)
    ELSE {k \in GetResourceFile(q.file) : files[k].resource = q.res}

FetchFile(r) ==
    /\ req[r].pc = "fetch"
    /\ \E k \in ServedFile(req[r]) : Goto(r, [req[r] EXCEPT !.key = k, !.pc = "retrieve"])
    /\ UNCHANGED <<tables, objects, provider, changes>>

\* A GET is repeated like a POST; what counts is whether it ends in a reader.
Retrieve(r) ==
    /\ req[r].pc = "retrieve"
    /\ \/ Reply(r, "error")
       \/ /\ objects[req[r].key] # "absent"
          /\ Goto(r, [req[r] EXCEPT !.served = {req[r].key}, !.pc = "ok"])
    /\ UNCHANGED <<tables, objects, provider, changes>>

-----------------------------------------------------------------------------
\* The rosters change under the requests.
Change == changes < MaxChanges /\ changes' = changes + 1

AddClassTeacher(m) ==
    /\ Change /\ teaching' = teaching \cup {m}
    /\ UNCHANGED <<resources, files, enrolled, inbox, objects, req, provider>>
RemoveClassTeacher(m) ==
    /\ Change /\ teaching' = teaching \ {m}
    /\ UNCHANGED <<resources, files, enrolled, inbox, objects, req, provider>>
EnrollStudent(m) ==
    /\ Change /\ enrolled' = enrolled \cup {m}
    /\ UNCHANGED <<resources, files, teaching, inbox, objects, req, provider>>
UnenrollStudent(m) ==
    /\ Change /\ enrolled' = enrolled \ {m}
    /\ UNCHANGED <<resources, files, teaching, inbox, objects, req, provider>>

-----------------------------------------------------------------------------
\* Resources that were created, published and archived before, with files.
Init ==
    /\ \E initial \in InitialTables : resources = initial[1] /\ files = initial[2]
    /\ \A k \in Stored : files[k].at < Cardinality(Stored)
    /\ \A k, l \in Stored : files[k].at = files[l].at => k = l
    /\ objects = [k \in Keys |-> IF files[k] = None THEN "absent" ELSE "whole"]
    /\ teaching \in SUBSET (Classes \X Teachers)
    /\ enrolled \in SUBSET (Classes \X (Users \ (Admins \cup Teachers)))
    /\ inbox = {} /\ req = [r \in Requests |-> Idle] /\ provider \in Providers
    /\ moments = [r \in Requests |-> {}] /\ changes = 0

Clients(r) ==
    \E u \in Users, x \in ResourceIds :
       \/ \E scope \in Scopes : CreateResource(r, u, x, scope)
       \/ PublishResource(r, u, x) \/ ArchiveResource(r, u, x) \/ ListFiles(r, u, x)
       \/ \E inputs \in Uploads : UploadFiles(r, u, x, inputs)
       \/ \E file \in Keys \cup {None} : DownloadFile(r, u, x, file)

Server(r) ==
    \/ Refuse(r) \/ GetResource(r) \/ CheckAccess(r) \/ Act(r) \/ ServeList(r)
    \/ Recipients(r) \/ Notify(r)
    \/ NextInput(r) \/ StoreLocal(r) \/ StoreSupabase(r) \/ CreateResourceFile(r)
    \/ FetchFile(r) \/ Retrieve(r)

Academics ==
    \E c \in Classes, u \in Users :
       \/ AddClassTeacher(<<c, u>>) \/ RemoveClassTeacher(<<c, u>>)
       \/ EnrollStudent(<<c, u>>) \/ UnenrollStudent(<<c, u>>)

\* What holds now of the resource and the actor of a request.
Holds(r) ==
    LET q == req[r]
        row == resources[q.res]
    IN IF q.pc \in {"idle", "ok", "error"} \/ row = None THEN {}
       ELSE (IF StatusAllows(q.op, row.status, q.user) THEN {"status"} ELSE {})
            \cup (IF Allowed(q.op, row.scope, q.user) THEN {"access"} ELSE {})
            \cup (IF row.status = StatusPublished THEN {"published"} ELSE {})
            \cup ListClassStudentUserIDs(row.scope)

Observe == moments' = [r \in Requests |-> moments[r] \cup Holds(r)']

Next == /\ (\E r \in Requests : Clients(r) \/ Server(r)) \/ Academics
        /\ Observe

Spec == Init /\ [][Next]_vars

-----------------------------------------------------------------------------
(* Properties *)

TypeOK ==
    /\ resources \in [ResourceIds -> ResourceRows \cup {None}]
    /\ files \in [Keys -> FileRows \cup {None}]
    /\ \A k \in Stored : resources[files[k].resource] # None
    /\ objects \in [Keys -> {"absent", "partial", "whole"}]
    /\ teaching \subseteq Classes \X Users /\ enrolled \subseteq Classes \X Users
    /\ inbox \subseteq Users \X ResourceIds \X Requests
    /\ \A r \in Requests :
          /\ req[r].served \subseteq Stored /\ req[r].tries \in 0..MaxRetries
          /\ req[r].key \in Keys \cup {None} /\ ToSet(req[r].stored) \subseteq Stored
          /\ req[r].pc \in {"idle", "get", "access", "act", "recipients", "notify", "next",
                            "store", "row", "fetch", "retrieve", "ok", "error"}

\* Every file row has its whole blob behind it: whatever the disk, the
\* network or the retries do, no upload leaves a row whose download would
\* fail or fall short (UploadFiles stores the blob before the row; Store of
\* both providers).
RowsHaveObjects == \A k \in Stored : objects[k] = "whole"

\* What a request hands out was right at some moments of the request, although
\* the status, the rosters and the files change between its reads: a file that
\* was listed or downloaded belongs to the resource that was asked for, the
\* status allowed it and the actor had access to the class; a file reported
\* as uploaded is a row of its own of a resource that was not archived; a
\* student who was notified was enrolled while the resource was published.
RepliesJustified ==
    /\ \A r \in Requests : req[r].pc = "ok" =>
          /\ req[r].op \in {"list", "download", "upload"} =>
                {"status", "access"} \subseteq moments[r]
          /\ req[r].served \cup ToSet(req[r].stored) \subseteq ListResourceFiles(req[r].res)
          /\ IsInjective(req[r].stored)
    /\ \A n \in inbox : {"published", n[1]} \subseteq moments[n[3]]

\* docs/backend/backend-technical-spec/14-implementation-roadmap.md: the
\* status goes DRAFT -> PUBLISHED -> ARCHIVED.  PublishResource asks for no
\* status before its UPDATE.
ArchivedStaysArchived ==
    [][\A x \in ResourceIds :
          resources[x] # None /\ resources[x].status = StatusArchived
             => resources'[x].status = StatusArchived]_vars

=============================================================================
