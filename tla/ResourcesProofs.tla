-------------------------- MODULE ResourcesProofs --------------------------
(***************************************************************************)
(* Theorems about Resources, for any resources, classes, users, keys and   *)
(* requests.                                                               *)
(*                                                                         *)
(* Nothing locks a resource between the reads of a request.  The argument  *)
(* is that what a request has read can only be overtaken in harmless ways: *)
(* rows are never deleted, a resource keeps its scope and a file row its   *)
(* resource (Grows), and the moment at which each check was right has been *)
(* seen (Knows).  A blob is whole before its row is written because the    *)
(* key of an upload belongs to it alone (KeysDrawn).                       *)
(***************************************************************************)
EXTENDS Resources, FiniteSetTheorems, TLAPS

-----------------------------------------------------------------------------
(* The inductive invariant *)

Ops == Managing \cup {"list", "download"}
Ended == {"idle", "ok", "error"}
Uploading == {"next", "store", "row"}
Fetching == {"fetch", "retrieve"}
Pcs == Ended \cup Uploading \cup Fetching \cup {"get", "access", "act", "recipients", "notify"}

Request == [op : Ops \cup {None}, user : Users \cup {None}, res : ResourceIds \cup {None},
            row : ResourceRows \cup {None}, file : Keys \cup {None},
            inputs : Seq({"named", "unnamed"}), key : Keys \cup {None},
            tries : 0..MaxRetries, body : BOOLEAN, stored : Seq(Keys),
            failed : BOOLEAN, to : SUBSET Users, served : SUBSET Keys, pc : Pcs]

Tables ==
    /\ resources \in [ResourceIds -> ResourceRows \cup {None}]
    /\ files \in [Keys -> FileRows \cup {None}]
    /\ \A k \in Stored : resources[files[k].resource] # None
    /\ objects \in [Keys -> {"absent", "partial", "whole"}]
    /\ teaching \subseteq Classes \X Users /\ enrolled \subseteq Classes \X Users
    /\ inbox \subseteq Users \X ResourceIds \X Requests
    /\ req \in [Requests -> Request]

\* The request has read the row of its resource, which has kept its scope.
HasRow(r) ==
    LET q == req[r] IN
    /\ resources[q.res] # None /\ q.row \in ResourceRows
    /\ q.row.scope = resources[q.res].scope
    /\ StatusAllows(q.op, q.row.status, q.user) => "status" \in moments[r]

\* What a request relies on at each of its control points.
Knows(r) ==
    LET q == req[r] IN
    /\ q.pc # "idle" => q.op \in Ops /\ q.user \in Users /\ q.res \in ResourceIds
    /\ q.pc = "get" => q.op # "create"
    /\ q.pc \in {"access", "act"} /\ q.op = "create" => q.row \in ResourceRows
    /\ q.pc \in {"access", "act"} /\ q.op # "create" => HasRow(r)
    /\ q.pc \in Uploading => q.op = "upload" /\ HasRow(r)
    /\ q.pc \in Fetching => q.op = "download"
    /\ q.pc \in {"recipients", "notify"} =>
          q.op = "publish" /\ HasRow(r) /\ "published" \in moments[r]
    /\ q.op \in {"list", "download", "upload"} /\ q.pc \notin {"idle", "get", "access", "error"}
          => {"status", "access"} \subseteq moments[r]
    /\ q.pc \in {"store", "row"} => q.inputs # << >>
    /\ q.pc = "notify" => q.to \subseteq moments[r]
    /\ q.pc = "retrieve" => q.key \in ListResourceFiles(q.res)
    /\ q.served \cup ToSet(q.stored) \subseteq ListResourceFiles(q.res)
    /\ IsInjective(q.stored)

\* Everything that holds of a request under way has been noted.
Noted == \A r \in Requests : Holds(r) \subseteq moments[r]

InboxJustified == \A n \in inbox : {"published", n[1]} \subseteq moments[n[3]]

\* The key of an upload under way has no row, its blob is whole once it was
\* stored, and no other upload under way has drawn it.
KeysDrawn ==
    /\ \A r \in Requests : req[r].pc \in {"store", "row"} =>
          /\ req[r].key \in Keys \ Stored
          /\ req[r].pc = "row" => objects[req[r].key] = "whole"
    /\ \A r, s \in Requests :
          req[r].pc \in {"store", "row"} /\ req[s].pc \in {"store", "row"}
             /\ req[r].key = req[s].key => r = s

IInv ==
    /\ Tables
    /\ \A r \in Requests : Knows(r)
    /\ Noted
    /\ InboxJustified
    /\ KeysDrawn
    /\ RowsHaveObjects

-----------------------------------------------------------------------------
(* Initial states *)

LEMMA IdleIsRequest == Idle \in Request
BY BoundsAssumption DEF Idle, Request, Pcs, Ended, Ops, Managing

\* The invariant holds before the first request.
LEMMA InitInv == Init => IInv
<1>. SUFFICES ASSUME Init PROVE IInv
  OBVIOUS
<1>1. PICK initial \in InitialTables : resources = initial[1] /\ files = initial[2]
  BY DEF Init
<1>2. Tables
  <2>1. /\ resources \in [ResourceIds -> ResourceRows \cup {None}]
        /\ files \in [Keys -> FileRows \cup {None}]
        /\ \A k \in Stored : resources[files[k].resource] # None
    BY <1>1, TablesAssumption DEF Stored
  <2>2. objects \in [Keys -> {"absent", "partial", "whole"}]
    BY DEF Init
  <2>3. teaching \subseteq Classes \X Users /\ enrolled \subseteq Classes \X Users
    BY RolesAssumption DEF Init
  <2>. QED
    BY <2>1, <2>2, <2>3, IdleIsRequest DEF Tables, Init
<1>3. \A r \in Requests : req[r] = Idle /\ moments[r] = {}
  BY DEF Init
<1>4. /\ Idle.pc = "idle" /\ Idle.op = None /\ Idle.served = {}
      /\ Idle.stored = << >> /\ Idle.res = None
  BY DEF Idle
<1>5. \A r \in Requests : Knows(r)
  <2>1. ToSet(<< >>) = {} /\ IsInjective(<< >>)
    BY DEF ToSet, IsInjective
  <2>. QED
    BY <1>3, <1>4, <2>1, NoneAssumption
       DEF Knows, Uploading, Fetching, ListResourceFiles
<1>6. Noted
  BY <1>3, <1>4 DEF Noted, Holds
<1>7. InboxJustified /\ KeysDrawn /\ RowsHaveObjects
  BY <1>3, <1>4 DEF InboxJustified, KeysDrawn, RowsHaveObjects, Init, Stored
<1>. QED
  BY <1>2, <1>5, <1>6, <1>7 DEF IInv

-----------------------------------------------------------------------------
(* Data *)

\* Appending a new key keeps a list of keys without repetitions.
LEMMA AppendKey ==
    ASSUME NEW s \in Seq(Keys), NEW k \in Keys
    PROVE  /\ Append(s, k) \in Seq(Keys)
           /\ ToSet(Append(s, k)) = ToSet(s) \cup {k}
           /\ IsInjective(s) /\ k \notin ToSet(s) => IsInjective(Append(s, k))
<1>1. /\ Append(s, k) \in Seq(Keys) /\ Len(Append(s, k)) = Len(s) + 1
      /\ \A i \in 1..Len(s) : Append(s, k)[i] = s[i]
      /\ Append(s, k)[Len(s) + 1] = k
      /\ DOMAIN s = 1..Len(s) /\ DOMAIN Append(s, k) = 1..(Len(s) + 1) /\ Len(s) \in Nat
  OBVIOUS
<1>2. ToSet(Append(s, k)) = ToSet(s) \cup {k}
  BY <1>1 DEF ToSet
<1>3. ASSUME IsInjective(s), k \notin ToSet(s) PROVE IsInjective(Append(s, k))
  <2>1. \A i \in 1..Len(s) : s[i] # k
    BY <1>1, <1>3 DEF ToSet
  <2>. QED
    BY <1>1, <1>3, <2>1 DEF IsInjective
<1>. QED
  BY <1>1, <1>2, <1>3

\* What AfterInput makes of a request.
LEMMA AfterInputFacts ==
    ASSUME NEW q \in Request, NEW ok \in BOOLEAN, q.inputs # << >>, ok => q.key \in Keys
    PROVE  /\ AfterInput(q, ok) \in Request /\ AfterInput(q, ok).pc = "next"
           /\ AfterInput(q, ok).op = q.op /\ AfterInput(q, ok).user = q.user
           /\ AfterInput(q, ok).res = q.res /\ AfterInput(q, ok).row = q.row
           /\ AfterInput(q, ok).served = q.served
           /\ AfterInput(q, ok).stored = IF ok THEN Append(q.stored, q.key) ELSE q.stored
<1>1. Tail(q.inputs) \in Seq({"named", "unnamed"})
  BY DEF Request
<1>2. ok => Append(q.stored, q.key) \in Seq(Keys)
  BY DEF Request
<1>. DEFINE failed == q.failed \/ ~ok
<1>3. failed \in BOOLEAN
  OBVIOUS
<1>4. AfterInput(q, ok) =
         [q EXCEPT !.inputs = Tail(q.inputs), !.key = None, !.pc = "next",
                   !.stored = IF ok THEN Append(q.stored, q.key) ELSE q.stored,
                   !.failed = failed]
  BY DEF AfterInput
<1>. HIDE DEF failed
<1>. QED
  BY <1>1, <1>2, <1>3, <1>4 DEF Request, Pcs, Uploading

-----------------------------------------------------------------------------
(* Requests *)

\* The record of a request under way keeps its type, and a request that is
\* served leaves the records of the others alone.
LEMMA RequestStep ==
    ASSUME IInv, NEW r \in Requests, Clients(r) \/ Server(r)
    PROVE  /\ req' \in [Requests -> Request]
           /\ \A o \in Requests \ {r} : req'[o] = req[o]
<1>. DEFINE q == req[r]
<1>. USE BoundsAssumption
<1>1. /\ req \in [Requests -> Request] /\ q \in Request /\ Knows(r)
      /\ resources \in [ResourceIds -> ResourceRows \cup {None}]
      /\ files \in [Keys -> FileRows \cup {None}]
  BY DEF IInv, Tables
<1>2. SUFFICES \E p \in Request : req' = [req EXCEPT ![r] = p]
  BY <1>1
<1>3. ASSUME NEW p \in Request, Goto(r, p)
      PROVE  \E x \in Request : req' = [req EXCEPT ![r] = x]
  BY <1>3 DEF Goto
<1>4. ASSUME NEW outcome \in Pcs, Reply(r, outcome)
      PROVE  \E x \in Request : req' = [req EXCEPT ![r] = x]
  <2>1. [q EXCEPT !.pc = outcome] \in Request
    BY <1>1 DEF Request
  <2>. QED
    BY <1>1, <1>4, <2>1 DEF Reply
<1>5. CASE Clients(r)
  <2>1. ASSUME NEW op \in Ops, NEW u \in Users, NEW x \in ResourceIds,
               NEW row \in ResourceRows \cup {None}, NEW file \in Keys \cup {None},
               NEW inputs \in Seq({"named", "unnamed"}), NEW pc \in {"get", "access"},
               Issue(r, op, u, x, row, file, inputs, pc)
        PROVE  \E p \in Request : req' = [req EXCEPT ![r] = p]
    <3>1. [Idle EXCEPT !.op = op, !.user = u, !.res = x, !.row = row, !.file = file,
                       !.inputs = inputs, !.pc = pc] \in Request
      BY IdleIsRequest DEF Request, Pcs
    <3>. QED
      BY <1>3, <2>1, <3>1 DEF Issue
  <2>2. \A scope \in Scopes : ResourceRow(scope) \in ResourceRows
    BY DEF ResourceRow, ResourceRows
  <2>3. << >> \in Seq({"named", "unnamed"}) /\ Uploads \subseteq Seq({"named", "unnamed"})
    BY UploadsAssumption
  <2>4. Ops = {"create", "publish", "archive", "upload", "list", "download"}
    BY DEF Ops, Managing
  <2>. QED
    BY <1>5, <2>1, <2>2, <2>3, <2>4 DEF Clients, CreateResource, PublishResource,
       ArchiveResource, UploadFiles, ListFiles, DownloadFile
<1>6. CASE Refuse(r) \/ Act(r)
  BY <1>4, <1>6 DEF Refuse, Act, Pcs, Ended
<1>7. CASE GetResource(r)
  <2>1. [q EXCEPT !.row = resources[q.res], !.pc = "access"] \in Request
    <3>1. q.res \in ResourceIds
      BY <1>1, <1>7 DEF Knows, GetResource
    <3>. QED
      BY <1>1, <3>1 DEF Request, Pcs
  <2>. QED
    BY <1>3, <1>7, <2>1 DEF GetResource
<1>8. CASE CheckAccess(r)
  <2>1. \A l \in {"next", "fetch", "act"} : [q EXCEPT !.pc = l] \in Request
    BY <1>1 DEF Request, Pcs, Uploading, Fetching
  <2>. QED
    BY <1>3, <1>8, <2>1 DEF CheckAccess
<1>9. CASE ServeList(r)
  <2>1. ListResourceFiles(q.res) \subseteq Keys
    BY DEF ListResourceFiles, Stored
  <2>2. [q EXCEPT !.served = ListResourceFiles(q.res), !.pc = "ok"] \in Request
    BY <1>1, <2>1 DEF Request, Pcs, Ended
  <2>. QED
    BY <1>3, <1>9, <2>2 DEF ServeList
<1>10. CASE Recipients(r)
  <2>1. [q EXCEPT !.to = ListClassStudentUserIDs(q.row.scope), !.pc = "notify"] \in Request
    BY <1>1 DEF Request, Pcs, ListClassStudentUserIDs
  <2>. QED
    BY <1>3, <1>4, <1>10, <2>1 DEF Recipients, Pcs, Ended
<1>11. CASE Notify(r)
  <2>1. \A u : [q EXCEPT !.to = @ \ {u}] \in Request
    BY <1>1 DEF Request
  <2>. QED
    BY <1>3, <1>4, <1>11, <2>1 DEF Notify, Pcs, Ended
<1>12. CASE NextInput(r)
  <2>1. CASE q.inputs = << >>
    BY <1>4, <1>12, <2>1 DEF NextInput, Pcs, Ended
  <2>2. CASE q.inputs # << >> /\ Goto(r, AfterInput(q, FALSE))
    BY <1>1, <1>3, <2>2, AfterInputFacts
  <2>3. ASSUME NEW k \in Keys,
               Goto(r, [q EXCEPT !.key = k, !.tries = 0, !.body = TRUE, !.pc = "store"])
        PROVE  \E p \in Request : req' = [req EXCEPT ![r] = p]
    <3>1. 0 \in 0..MaxRetries
      OBVIOUS
    <3>2. ASSUME NEW n \in 0..MaxRetries, NEW b \in BOOLEAN
          PROVE  [q EXCEPT !.key = k, !.tries = n, !.body = b, !.pc = "store"] \in Request
      BY <1>1 DEF Request, Pcs, Uploading
    <3>3. [q EXCEPT !.key = k, !.tries = 0, !.body = TRUE, !.pc = "store"] \in Request
      BY <3>1, <3>2
    <3>. QED
      BY <1>3, <2>3, <3>3
  <2>. QED
    BY <1>12, <2>1, <2>2, <2>3 DEF NextInput
<1>13. CASE StoreLocal(r)
  <2>1. q.inputs # << >>
    BY <1>1, <1>13 DEF StoreLocal, Knows
  <2>. QED
    BY <1>1, <1>3, <1>4, <1>13, <2>1, AfterInputFacts DEF StoreLocal, Pcs, Uploading
<1>14. CASE StoreSupabase(r)
  <2>1. q.inputs # << >>
    BY <1>1, <1>14 DEF StoreSupabase, Knows
  <2>2. AfterInput(q, FALSE) \in Request
    BY <1>1, <2>1, AfterInputFacts
  <2>3. [q EXCEPT !.pc = "row"] \in Request
    BY <1>1 DEF Request, Pcs, Uploading
  <2>4. ASSUME NEW read \in BOOLEAN, q.tries # MaxRetries
        PROVE  [q EXCEPT !.tries = @ + 1, !.body = @ /\ ~read] \in Request
    <3>. DEFINE body == q.body /\ ~read
    <3>1. body \in BOOLEAN
      OBVIOUS
    <3>. HIDE DEF body
    <3>2. q.tries + 1 \in 0..MaxRetries
      BY <1>1, <2>4 DEF Request
    <3>3. ASSUME NEW n \in 0..MaxRetries, NEW b \in BOOLEAN
          PROVE  [q EXCEPT !.tries = n, !.body = b] \in Request
      BY <1>1 DEF Request
    <3>4. [q EXCEPT !.tries = @ + 1, !.body = body] \in Request
      BY <3>1, <3>2, <3>3
    <3>. QED
      BY <3>4 DEF body
  <2>5. \/ Goto(r, AfterInput(q, FALSE)) \/ Goto(r, [q EXCEPT !.pc = "row"])
        \/ /\ q.tries # MaxRetries
           /\ \E read \in BOOLEAN :
                 Goto(r, [q EXCEPT !.tries = @ + 1, !.body = @ /\ ~read])
    BY <1>14 DEF StoreSupabase, Goto
  <2>. QED
    BY <1>3, <2>2, <2>3, <2>4, <2>5
<1>15. CASE CreateResourceFile(r)
  <2>1. q.inputs # << >> /\ q.key \in Keys
    BY <1>1, <1>15 DEF CreateResourceFile, Knows, IInv, KeysDrawn
  <2>. QED
    BY <1>1, <1>3, <1>15, <2>1, AfterInputFacts DEF CreateResourceFile
<1>16. CASE FetchFile(r)
  <2>1. ServedFile(q) \subseteq Keys
    BY DEF ServedFile, ActiveResourceFile, GetResourceFile, ListResourceFiles, Stored
  <2>2. \A k \in Keys : [q EXCEPT !.key = k, !.pc = "retrieve"] \in Request
    BY <1>1 DEF Request, Pcs, Fetching
  <2>. QED
    BY <1>3, <1>16, <2>1, <2>2 DEF FetchFile
<1>17. CASE Retrieve(r)
  <2>1. q.key \in Keys => [q EXCEPT !.served = {q.key}, !.pc = "ok"] \in Request
    BY <1>1 DEF Request, Pcs, Ended
  <2>2. q.pc = "retrieve" => q.key \in Keys
    BY <1>1 DEF Knows, ListResourceFiles, Stored
  <2>. QED
    BY <1>3, <1>4, <1>17, <2>1, <2>2 DEF Retrieve, Pcs, Ended
<1>. QED
  BY <1>5, <1>6, <1>7, <1>8, <1>9, <1>10, <1>11, <1>12, <1>13, <1>14, <1>15, <1>16, <1>17
     DEF Server

-----------------------------------------------------------------------------
(* Tables *)

\* Rows are never deleted, a resource keeps its scope, a file row never
\* changes, and what was noted stays noted.
Grows ==
    /\ \A x \in ResourceIds : resources[x] # None =>
          resources'[x] # None /\ resources'[x].scope = resources[x].scope
    /\ \A k \in Stored : k \in Stored' /\ files'[k] = files[k]
    /\ \A r \in Requests : moments'[r] = moments[r] \cup Holds(r)'

\* Every step lets the tables grow in this way and keeps their types.
LEMMA TablesStep == ASSUME IInv, Next PROVE Tables' /\ Grows
<1>. USE DEF IInv, Tables
<1>1. \A r \in Requests : moments'[r] = moments[r] \cup Holds(r)'
  BY DEF Next, Observe
<1>2. ASSUME UNCHANGED <<resources, files>>
      PROVE  Grows /\ \A k \in Stored' : resources'[files'[k].resource] # None
  BY <1>1, <1>2 DEF Grows, Stored
<1>3. CASE Academics
  <2>1. teaching' \subseteq Classes \X Users /\ enrolled' \subseteq Classes \X Users
    BY <1>3 DEF Academics, AddClassTeacher, RemoveClassTeacher, EnrollStudent, UnenrollStudent
  <2>. QED
    BY <1>2, <1>3, <2>1 DEF Academics, AddClassTeacher, RemoveClassTeacher, EnrollStudent,
       UnenrollStudent
<1>4. ASSUME NEW r \in Requests, Clients(r) \/ Server(r) PROVE Tables' /\ Grows
  <2>1. req' \in [Requests -> Request] /\ Knows(r) /\ req[r] \in Request
    BY <1>4, RequestStep
  <2>2. CASE UNCHANGED <<tables, objects>>
    BY <1>2, <2>1, <2>2 DEF tables
  <2>3. CASE Act(r)
    <3>. DEFINE x == req[r].res
    <3>1. /\ x \in ResourceIds
          /\ req[r].op = "create" => req[r].row \in ResourceRows
          /\ req[r].op # "create" => resources[x] # None
      BY <2>1, <2>3 DEF Act, Knows, HasRow
    <3>2. PICK row \in ResourceRows : /\ resources' = [resources EXCEPT ![x] = row]
                                      /\ resources[x] # None => row.scope = resources[x].scope
      <4>1. CASE req[r].op = "create"
        <5>1. req[r].row.scope \in Scopes
          BY <3>1, <4>1 DEF ResourceRows
        <5>2. ResourceRow(req[r].row.scope) \in ResourceRows
          BY <5>1 DEF ResourceRow, ResourceRows
        <5>. QED
          BY <2>3, <4>1, <5>2 DEF Act, InsertedResource
      <4>2. CASE req[r].op # "create"
        <5>1. PICK status \in {StatusPublished, StatusArchived} :
                 resources' = [resources EXCEPT ![x].status = status]
          BY <2>3, <4>2 DEF Act, UpdateResourceStatus, ArchiveResourceRow
        <5>2. resources[x] \in ResourceRows
          BY <3>1, <4>2
        <5>3. /\ [resources[x] EXCEPT !.status = status] \in ResourceRows
              /\ [resources[x] EXCEPT !.status = status].scope = resources[x].scope
          BY <5>2 DEF ResourceRows
        <5>4. resources' = [resources EXCEPT ![x] = [resources[x] EXCEPT !.status = status]]
          BY <5>1
        <5>. QED
          BY <5>3, <5>4
      <4>. QED
        BY <4>1, <4>2
    <3>3. row # None
      BY NoneAssumption
    <3>4. /\ resources' \in [ResourceIds -> ResourceRows \cup {None}]
          /\ \A y \in ResourceIds : resources[y] # None =>
                resources'[y] # None /\ resources'[y].scope = resources[y].scope
      BY <3>1, <3>2, <3>3
    <3>5. UNCHANGED <<files, objects, teaching, enrolled, inbox>> /\ Stored' = Stored
      BY <2>3 DEF Act, Stored
    <3>6. \A k \in Stored : files[k].resource \in ResourceIds
      BY NoneAssumption DEF Stored, FileRows
    <3>. QED
      BY <1>1, <2>1, <3>4, <3>5, <3>6 DEF Grows
  <2>4. CASE Notify(r)
    <3>1. inbox' \subseteq Users \X ResourceIds \X Requests
      <4>1. req[r].res \in ResourceIds /\ req[r].to \subseteq Users
        BY <2>1, <2>4 DEF Notify, Knows, Request
      <4>2. inbox' = inbox \/ \E u \in req[r].to : inbox' = inbox \cup {<<u, req[r].res, r>>}
        BY <2>4 DEF Notify, InsertNotification
      <4>3. \A u \in req[r].to : <<u, req[r].res, r>> \in Users \X ResourceIds \X Requests
        BY <4>1
      <4>. QED
        BY <4>2, <4>3
    <3>. QED
      BY <1>2, <2>1, <2>4, <3>1 DEF Notify
  <2>5. CASE StoreLocal(r) \/ StoreSupabase(r)
    <3>1. objects' \in [Keys -> {"absent", "partial", "whole"}]
      <4>1. \/ objects' = objects
            \/ \E c \in {"absent", "partial", "whole"} :
                  objects' = [objects EXCEPT ![req[r].key] = c]
        BY <2>5, Zenon DEF StoreLocal, StoreSupabase, SetObject
      <4>. QED
        BY <4>1
    <3>2. UNCHANGED <<resources, files, teaching, enrolled, inbox>>
      BY <2>5 DEF StoreLocal, StoreSupabase, tables
    <3>. QED
      BY <1>2, <2>1, <3>1, <3>2
  <2>6. CASE CreateResourceFile(r) /\ files' # files
    <3>. DEFINE k == req[r].key
                row == [resource |-> req[r].res, at |-> Cardinality(Stored)]
    <3>1. k \in Keys \ Stored /\ req[r].res \in ResourceIds /\ resources[req[r].res] # None
      BY <2>1, <2>6 DEF CreateResourceFile, KeysDrawn, Knows, HasRow, Uploading
    <3>2. Cardinality(Stored) \in Nat
      <4>1. IsFiniteSet(Stored)
        BY KeysAssumption, FS_Subset DEF Stored
      <4>. QED
        BY <4>1, FS_CardinalityType
    <3>3. row \in FileRows /\ row # None
      BY <3>1, <3>2, NoneAssumption DEF FileRows
    <3>4. files' = [files EXCEPT ![k] = row]
      BY <2>6 DEF CreateResourceFile, InsertedFile
    <3>5. /\ files' \in [Keys -> FileRows \cup {None}]
          /\ \A l \in Stored : l \in Stored' /\ files'[l] = files[l]
          /\ \A l \in Stored' : resources[files'[l].resource] # None
      BY <3>1, <3>3, <3>4 DEF Stored
    <3>6. UNCHANGED <<resources, objects, teaching, enrolled, inbox>>
      BY <2>6 DEF CreateResourceFile
    <3>. QED
      BY <1>1, <2>1, <3>5, <3>6 DEF Grows
  <2>7. CASE CreateResourceFile(r) /\ files' = files
    BY <1>2, <2>1, <2>7 DEF CreateResourceFile
  <2>. QED
    BY <1>4, <2>2, <2>3, <2>4, <2>5, <2>6, <2>7 DEF Clients, Server, CreateResource,
       PublishResource, ArchiveResource, UploadFiles, ListFiles, DownloadFile, Issue,
       Refuse, GetResource, CheckAccess, ServeList, Recipients, NextInput, FetchFile,
       Retrieve, tables
<1>. QED
  BY <1>3, <1>4 DEF Next

-----------------------------------------------------------------------------
(* Blobs *)

\* What a step of request r makes of the blobs and the file rows.
BlobStep(r) ==
    LET k == req[r].key IN
    /\ \/ UNCHANGED files
       \/ req[r].pc = "row" /\ req'[r].pc = "next" /\ Stored' = Stored \cup {k}
    /\ \/ UNCHANGED objects
       \/ req[r].pc = "store" /\ \A l \in Keys \ {k} : objects'[l] = objects[l]
    /\ req'[r].pc \in {"store", "row"} =>
          \/ /\ req[r].pc = "next" /\ req'[r].pc = "store"
             /\ req'[r].key \in Keys /\ objects[req'[r].key] = "absent"
             /\ \A s \in Requests : req[s].key # req'[r].key
          \/ /\ req[r].pc = "store" /\ req'[r].key = k
             /\ req'[r].pc = "row" => objects'[k] = "whole"

\* Every step of a request follows that pattern.
LEMMA BlobSteps == ASSUME IInv, NEW r \in Requests, Clients(r) \/ Server(r) PROVE BlobStep(r)
<1>. DEFINE q == req[r]
<1>. USE DEF BlobStep
<1>1. /\ req \in [Requests -> Request] /\ q \in Request /\ Knows(r)
      /\ files \in [Keys -> FileRows \cup {None}]
      /\ objects \in [Keys -> {"absent", "partial", "whole"}]
  BY DEF IInv, Tables
<1>2. ASSUME UNCHANGED <<files, objects>>, req'[r].pc \notin {"store", "row"}
      PROVE  BlobStep(r)
  BY <1>2
<1>3. \A p : Goto(r, p) => req'[r] = p
  BY <1>1 DEF Goto
<1>4. \A outcome : Reply(r, outcome) =>
         req'[r].pc = outcome /\ req'[r].key = q.key
  BY <1>1 DEF Reply, Request
<1>5. CASE Clients(r)
  <2>1. ASSUME NEW op, NEW u, NEW x, NEW row, NEW file, NEW inputs,
               NEW pc \in {"get", "access"}, Issue(r, op, u, x, row, file, inputs, pc)
        PROVE  BlobStep(r)
    <3>1. req'[r].pc = pc
      BY <1>3, <2>1 DEF Issue, Idle
    <3>. QED
      BY <1>2, <2>1, <3>1 DEF Issue, tables
  <2>. QED
    BY <1>5, <2>1 DEF Clients, CreateResource, PublishResource, ArchiveResource, UploadFiles,
       ListFiles, DownloadFile
<1>6. CASE Refuse(r) \/ Act(r)
  BY <1>2, <1>4, <1>6 DEF Refuse, Act, tables
<1>7. CASE GetResource(r) \/ CheckAccess(r) \/ ServeList(r) \/ Recipients(r) \/ FetchFile(r)
           \/ Retrieve(r)
  <2>1. req'[r].pc \notin {"store", "row"}
    <3>1. CASE GetResource(r) \/ CheckAccess(r)
      BY <1>1, <1>3, <3>1 DEF GetResource, CheckAccess, Request
    <3>2. CASE ServeList(r) \/ FetchFile(r)
      <4>1. \/ req'[r] = [q EXCEPT !.served = ListResourceFiles(q.res), !.pc = "ok"]
            \/ \E k \in ServedFile(q) : req'[r] = [q EXCEPT !.key = k, !.pc = "retrieve"]
        BY <1>3, <3>2 DEF ServeList, FetchFile
      <4>. QED
        BY <1>1, <4>1 DEF Request
    <3>3. CASE Recipients(r) \/ Retrieve(r)
      <4>1. \/ req'[r].pc \in {"ok", "error"}
            \/ \E to : req'[r] = [q EXCEPT !.to = to, !.pc = "notify"]
            \/ \E served : req'[r] = [q EXCEPT !.served = served, !.pc = "ok"]
        BY <1>3, <1>4, <3>3 DEF Recipients, Retrieve
      <4>. QED
        BY <1>1, <4>1 DEF Request
    <3>. QED
      BY <1>7, <3>1, <3>2, <3>3
  <2>. QED
    BY <1>2, <1>7, <2>1 DEF GetResource, CheckAccess, ServeList, Recipients, FetchFile,
       Retrieve, tables
<1>8. CASE Notify(r)
  <2>1. req'[r].pc \in {"notify", "ok"}
    BY <1>1, <1>3, <1>4, <1>8 DEF Notify, Request
  <2>. QED
    BY <1>2, <1>8, <2>1 DEF Notify
<1>9. CASE NextInput(r)
  <2>1. UNCHANGED <<files, objects>>
    BY <1>9 DEF NextInput, tables
  <2>2. CASE q.inputs = << >>
    <3>1. req'[r].pc \in {"ok", "error"}
      BY <1>4, <1>9, <2>2 DEF NextInput
    <3>. QED
      BY <1>2, <2>1, <3>1
  <2>3. CASE q.inputs # << >> /\ Goto(r, AfterInput(q, FALSE))
    BY <1>1, <1>2, <1>3, <2>1, <2>3, AfterInputFacts
  <2>4. ASSUME NEW k \in Keys, objects[k] = "absent", \A s \in Requests : req[s].key # k,
               Goto(r, [q EXCEPT !.key = k, !.tries = 0, !.body = TRUE, !.pc = "store"])
        PROVE  BlobStep(r)
    <3>1. req'[r].pc = "store" /\ req'[r].key = k
      BY <1>1, <1>3, <2>4 DEF Request
    <3>. QED
      BY <1>9, <2>1, <2>4, <3>1 DEF NextInput
  <2>. QED
    BY <1>9, <2>2, <2>3, <2>4 DEF NextInput
<1>10. CASE StoreLocal(r) \/ StoreSupabase(r)
  <2>. DEFINE k == q.key
  <2>1. q.pc = "store" /\ k \in Keys /\ q.inputs # << >> /\ UNCHANGED files
    BY <1>1, <1>10 DEF StoreLocal, StoreSupabase, tables, IInv, KeysDrawn, Knows
  <2>2. \/ objects' = objects
        \/ \E c \in {"absent", "partial", "whole"} : objects' = [objects EXCEPT ![k] = c]
    BY <1>10, Zenon DEF StoreLocal, StoreSupabase, SetObject
  <2>3. \/ req'[r] = AfterInput(q, FALSE)
        \/ objects' = [objects EXCEPT ![k] = "whole"] /\ req'[r] = [q EXCEPT !.pc = "row"]
        \/ \E read \in BOOLEAN : req'[r] = [q EXCEPT !.tries = @ + 1, !.body = @ /\ ~read]
    <3>1. CASE StoreLocal(r)
      BY <1>1, <3>1 DEF StoreLocal, SetObject, Goto, Reply
    <3>2. CASE StoreSupabase(r)
      <4>1. \/ Goto(r, AfterInput(q, FALSE))
            \/ /\ objects' = [objects EXCEPT ![k] = "whole"]
               /\ Goto(r, [q EXCEPT !.pc = "row"])
            \/ \E read \in BOOLEAN :
                  Goto(r, [q EXCEPT !.tries = @ + 1, !.body = @ /\ ~read])
        BY <3>2 DEF StoreSupabase, Is2xx, SetObject, Goto
      <4>. QED
        BY <1>3, <4>1
    <3>. QED
      BY <1>10, <3>1, <3>2
  <2>4. CASE req'[r] = AfterInput(q, FALSE)
    <3>1. AfterInput(q, FALSE).pc = "next"
      BY <1>1, <2>1, AfterInputFacts
    <3>. QED
      BY <1>1, <2>1, <2>2, <2>4, <3>1
  <2>5. CASE objects' = [objects EXCEPT ![k] = "whole"] /\ req'[r] = [q EXCEPT !.pc = "row"]
    <3>1. req'[r].key = k /\ objects'[k] = "whole"
      BY <1>1, <2>1, <2>5 DEF Request
    <3>. QED
      BY <1>1, <2>1, <2>2, <3>1
  <2>6. ASSUME NEW read \in BOOLEAN, req'[r] = [q EXCEPT !.tries = @ + 1, !.body = @ /\ ~read]
        PROVE  BlobStep(r)
    <3>1. req'[r].key = k /\ req'[r].pc = "store"
      BY <1>1, <2>1, <2>6 DEF Request
    <3>. QED
      BY <1>1, <2>1, <2>2, <3>1
  <2>. QED
    BY <2>3, <2>4, <2>5, <2>6
<1>11. CASE CreateResourceFile(r)
  <2>1. q.pc = "row" /\ q.key \in Keys /\ q.inputs # << >> /\ UNCHANGED objects
    BY <1>1, <1>11 DEF CreateResourceFile, IInv, KeysDrawn, Knows
  <2>2. req'[r].pc = "next"
    <3>1. \E ok \in BOOLEAN : req'[r] = AfterInput(q, ok)
      BY <1>3, <1>11 DEF CreateResourceFile
    <3>. QED
      BY <1>1, <2>1, <3>1, AfterInputFacts
  <2>3. files' = files \/ Stored' = Stored \cup {q.key}
    <3>1. files' = files \/ files' = InsertedFile(q.key, q.res)
      BY <1>11 DEF CreateResourceFile
    <3>2. [resource |-> q.res, at |-> Cardinality(Stored)] # None
      <4>1. q.res \in ResourceIds
        BY <1>1, <2>1 DEF Knows
      <4>2. IsFiniteSet(Stored)
        BY KeysAssumption, FS_Subset DEF Stored
      <4>3. Cardinality(Stored) \in Nat
        BY <4>2, FS_CardinalityType
      <4>. QED
        BY <4>1, <4>3, NoneAssumption DEF FileRows
    <3>. QED
      BY <1>1, <2>1, <3>1, <3>2 DEF InsertedFile, Stored
  <2>. QED
    BY <2>1, <2>2, <2>3
<1>. QED
  BY <1>5, <1>6, <1>7, <1>8, <1>9, <1>10, <1>11 DEF Server

\* Every step keeps the blobs of the rows whole and the drawn keys apart.
LEMMA BlobInvStep == ASSUME IInv, Next PROVE KeysDrawn' /\ RowsHaveObjects'
<1>1. CASE Academics
  BY <1>1 DEF Academics, AddClassTeacher, RemoveClassTeacher, EnrollStudent, UnenrollStudent,
     IInv, KeysDrawn, RowsHaveObjects, Stored
<1>2. ASSUME NEW r \in Requests, Clients(r) \/ Server(r) PROVE KeysDrawn' /\ RowsHaveObjects'
  <2>1. BlobStep(r) /\ \A o \in Requests \ {r} : req'[o] = req[o]
    BY <1>2, BlobSteps, RequestStep
  <2>2. KeysDrawn /\ RowsHaveObjects
    BY DEF IInv
  <2>3. Stored \subseteq Keys /\ (files' = files => Stored' = Stored)
    BY DEF Stored
  <2>4. RowsHaveObjects'
    BY <2>1, <2>2, <2>3 DEF BlobStep, KeysDrawn, RowsHaveObjects
  <2>5. ASSUME NEW o \in Requests, req'[o].pc \in {"store", "row"}
        PROVE  /\ req'[o].key \in Keys \ Stored'
               /\ req'[o].pc = "row" => objects'[req'[o].key] = "whole"
    <3>1. CASE o # r
      BY <2>1, <2>2, <2>3, <2>5, <3>1 DEF BlobStep, KeysDrawn
    <3>2. CASE o = r
      BY <2>1, <2>2, <2>3, <2>5, <3>2 DEF BlobStep, KeysDrawn, RowsHaveObjects
    <3>. QED
      BY <3>1, <3>2
  <2>6. ASSUME NEW o \in Requests, NEW s \in Requests,
               req'[o].pc \in {"store", "row"}, req'[s].pc \in {"store", "row"},
               req'[o].key = req'[s].key
        PROVE  o = s
    BY <2>1, <2>2, <2>6 DEF BlobStep, KeysDrawn
  <2>. QED
    BY <2>4, <2>5, <2>6 DEF KeysDrawn
<1>. QED
  BY <1>1, <1>2 DEF Next

-----------------------------------------------------------------------------
(* What requests know *)

\* The request goes on with what it has read.
Same(r) ==
    /\ req'[r].op = req[r].op /\ req'[r].user = req[r].user
    /\ req'[r].res = req[r].res /\ req'[r].row = req[r].row

\* Neither the row a request has read nor the files it names go stale.
LEMMA KnowledgeKept ==
    ASSUME Grows, NEW r \in Requests, Same(r), req[r].res \in ResourceIds
    PROVE  /\ HasRow(r) => HasRow(r)'
           /\ ListResourceFiles(req[r].res) \subseteq ListResourceFiles(req[r].res)'
           /\ moments[r] \subseteq moments'[r]
BY DEF Grows, Same, HasRow, ListResourceFiles, Stored, StatusAllows, isManager

\* A request that waits knows what it knew.
LEMMA KnowsKept ==
    ASSUME Grows, NEW r \in Requests, Knows(r), req'[r] = req[r]
    PROVE  Knows(r)'
<1>. DEFINE q == req[r]
<1>1. CASE q.pc = "idle"
  <2>1. \A k \in Stored : k \in Stored' /\ files'[k] = files[k]
    BY DEF Grows
  <2>2. ListResourceFiles(q.res) \subseteq ListResourceFiles(q.res)'
    BY <2>1 DEF ListResourceFiles
  <2>. QED
    BY <1>1, <2>2 DEF Knows, Uploading, Fetching
<1>2. CASE q.pc # "idle"
  <2>1. /\ HasRow(r) => HasRow(r)'
        /\ ListResourceFiles(q.res) \subseteq ListResourceFiles(q.res)'
        /\ moments[r] \subseteq moments'[r]
    BY <1>2, KnowledgeKept DEF Same, Knows
  <2>. QED
    BY <1>2, <2>1 DEF Knows
<1>. QED
  BY <1>1, <1>2

\* A request that is answered without a result relies on nothing any more.
LEMMA KnowsEnded ==
    ASSUME Grows, NEW r \in Requests, Knows(r), req[r].pc # "idle", Same(r),
           req'[r].served = req[r].served, req'[r].stored = req[r].stored,
           \/ req'[r].pc = "error"
           \/ req'[r].pc = "ok" /\ req[r].op \notin {"list", "download", "upload"}
    PROVE  Knows(r)'
<1>1. ListResourceFiles(req[r].res) \subseteq ListResourceFiles(req[r].res)'
  BY KnowledgeKept DEF Knows
<1>. QED
  BY <1>1 DEF Knows, Same, Uploading, Fetching

\* An upload goes on with its next input, with or without a new file.
LEMMA KnowsUpload ==
    ASSUME Grows, NEW r \in Requests, Knows(r), req[r].pc \in Uploading, Same(r),
           req'[r].served = req[r].served,
           req'[r].pc \in Uploading \cup {"ok", "error"},
           req'[r].pc \in {"store", "row"} => req'[r].inputs # << >>,
           IsInjective(req'[r].stored),
           ToSet(req'[r].stored) \subseteq ListResourceFiles(req[r].res)'
    PROVE  Knows(r)'
<1>1. /\ HasRow(r)' /\ {"status", "access"} \subseteq moments'[r]
      /\ ListResourceFiles(req[r].res) \subseteq ListResourceFiles(req[r].res)'
  BY KnowledgeKept DEF Knows, Uploading
<1>. QED
  BY <1>1 DEF Knows, Same, Uploading, Fetching

\* What holds in the state before a step has been noted by then.
LEMMA NotedNow ==
    ASSUME IInv, NEW r \in Requests, req[r].pc \notin Ended, resources[req[r].res] # None
    PROVE  LET q == req[r]
               row == resources[q.res]
           IN  /\ StatusAllows(q.op, row.status, q.user) => "status" \in moments[r]
               /\ Allowed(q.op, row.scope, q.user) => "access" \in moments[r]
               /\ ListClassStudentUserIDs(row.scope) \subseteq moments[r]
<1>1. Holds(r) \subseteq moments[r]
  BY DEF IInv, Noted
<1>. QED
  BY <1>1 DEF Holds, Ended

\* Every step of a request keeps what it relies on.
LEMMA KnowsStep ==
    ASSUME IInv, Grows, Tables', NEW r \in Requests, Clients(r) \/ Server(r)
    PROVE  Knows(r)'
<1>. DEFINE q == req[r]
<1>1. /\ req \in [Requests -> Request] /\ q \in Request /\ Knows(r)
      /\ resources \in [ResourceIds -> ResourceRows \cup {None}]
      /\ files \in [Keys -> FileRows \cup {None}]
      /\ moments[r] \subseteq moments'[r]
  BY DEF IInv, Tables, Grows
<1>2. \A p : Goto(r, p) => req'[r] = p
  BY <1>1 DEF Goto
<1>3. \A outcome : Reply(r, outcome) =>
         /\ Same(r) /\ req'[r].pc = outcome /\ req'[r].inputs = q.inputs
         /\ req'[r].served = q.served /\ req'[r].stored = q.stored
  BY <1>1 DEF Reply, Request, Same
<1>4. CASE Clients(r)
  <2>1. ASSUME NEW op \in Ops, NEW u \in Users, NEW x \in ResourceIds, NEW row, NEW file,
               NEW inputs, NEW pc \in {"get", "access"},
               pc = "get" => op # "create", pc = "access" => op = "create" /\ row \in ResourceRows,
               Issue(r, op, u, x, row, file, inputs, pc)
        PROVE  Knows(r)'
    <3>1. req'[r] = [Idle EXCEPT !.op = op, !.user = u, !.res = x, !.row = row,
                                 !.file = file, !.inputs = inputs, !.pc = pc]
      BY <1>2, <2>1 DEF Issue
    <3>2. /\ req'[r].op = op /\ req'[r].user = u /\ req'[r].res = x /\ req'[r].row = row
          /\ req'[r].pc = pc /\ req'[r].served = {} /\ req'[r].stored = << >>
      BY <3>1 DEF Idle
    <3>3. ToSet(<< >>) = {} /\ IsInjective(<< >>)
      BY DEF ToSet, IsInjective
    <3>. QED
      BY <2>1, <3>2, <3>3 DEF Knows, Uploading, Fetching
  <2>2. \A scope \in Scopes : ResourceRow(scope) \in ResourceRows
    BY DEF ResourceRow, ResourceRows
  <2>3. Ops = {"create", "publish", "archive", "upload", "list", "download"}
    BY DEF Ops, Managing
  <2>. QED
    BY <1>4, <2>1, <2>2, <2>3 DEF Clients, CreateResource, PublishResource,
       ArchiveResource, UploadFiles, ListFiles, DownloadFile
<1>5. CASE Refuse(r)
  BY <1>1, <1>3, <1>5, KnowsEnded DEF Refuse
<1>6. CASE GetResource(r)
  <2>1. /\ q.pc = "get" /\ q.op \in Ops \ {"create"} /\ q.user \in Users /\ q.res \in ResourceIds
        /\ resources[q.res] \in ResourceRows
    BY <1>1, <1>6 DEF GetResource, Knows
  <2>2. req'[r] = [q EXCEPT !.row = resources[q.res], !.pc = "access"]
    BY <1>2, <1>6 DEF GetResource
  <2>3. /\ req'[r].op = q.op /\ req'[r].user = q.user /\ req'[r].res = q.res
        /\ req'[r].row = resources[q.res] /\ req'[r].pc = "access"
        /\ req'[r].served = q.served /\ req'[r].stored = q.stored
    BY <1>1, <2>2 DEF Request
  <2>4. UNCHANGED <<resources, files, teaching, enrolled>>
    BY <1>6 DEF GetResource, tables
  <2>5. StatusAllows(q.op, resources[q.res].status, q.user) => "status" \in moments[r]
    BY <1>6, <2>1, NotedNow DEF GetResource, Ended
  <2>6. HasRow(r)'
    <3>1. resources'[q.res] = resources[q.res]
      BY <2>4
    <3>2. StatusAllows(req'[r].op, req'[r].row.status, req'[r].user) => "status" \in moments'[r]
      BY <1>1, <2>3, <2>5
    <3>. QED
      BY <1>6, <2>1, <2>3, <3>1, <3>2 DEF HasRow, GetResource, StatusAllows, isManager
  <2>7. ListResourceFiles(q.res)' = ListResourceFiles(q.res)
    BY <2>3, <2>4 DEF ListResourceFiles, Stored
  <2>. QED
    BY <1>1, <2>1, <2>3, <2>6, <2>7 DEF Knows, Uploading, Fetching
<1>7. CASE CheckAccess(r)
  <2>1. q.pc = "access" /\ q.op \in Ops /\ q.user \in Users /\ q.res \in ResourceIds
    BY <1>1, <1>7 DEF CheckAccess, Knows
  <2>2. PICK l \in {"next", "fetch", "act"} :
           /\ req'[r] = [q EXCEPT !.pc = l]
           /\ l = "next" <=> q.op = "upload"
           /\ l = "fetch" <=> q.op = "download"
    BY <1>2, <1>7 DEF CheckAccess
  <2>3. Same(r) /\ req'[r].pc = l /\ req'[r].served = q.served /\ req'[r].stored = q.stored
    BY <1>1, <2>2 DEF Request, Same
  <2>4. ASSUME q.op # "create" PROVE HasRow(r) /\ {"status", "access"} \subseteq moments[r]
    <3>1. HasRow(r)
      BY <1>1, <2>1, <2>4 DEF Knows
    <3>. QED
      BY <1>7, <2>1, <3>1, NotedNow DEF HasRow, CheckAccess, Ended
  <2>5. q.op # "create" => HasRow(r)'
    BY <2>1, <2>3, <2>4, KnowledgeKept
  <2>6. ListResourceFiles(q.res) \subseteq ListResourceFiles(q.res)'
    BY <2>1, <2>3, KnowledgeKept
  <2>. QED
    BY <1>1, <2>1, <2>2, <2>3, <2>4, <2>5, <2>6 DEF Knows, Same, Uploading, Fetching
<1>8. CASE Act(r)
  <2>1. /\ q.pc = "act" /\ q.op \in {"create", "publish", "archive"} /\ q.res \in ResourceIds
        /\ q.op # "create" => HasRow(r)
    BY <1>1, <1>8 DEF Act, Knows
  <2>2. CASE Reply(r, "error") \/ Reply(r, "ok")
    BY <1>1, <1>3, <2>1, <2>2, KnowsEnded
  <2>3. CASE q.op = "publish" /\ Reply(r, "recipients")
    <3>1. HasRow(r)' /\ ListResourceFiles(q.res) \subseteq ListResourceFiles(q.res)'
      BY <1>3, <2>1, <2>3, KnowledgeKept
    <3>2. resources'[q.res].status = StatusPublished /\ resources'[q.res] # None
      <4>1. resources' = [resources EXCEPT ![q.res].status = StatusPublished]
        BY <1>8, <2>3 DEF Act, UpdateResourceStatus
      <4>2. resources[q.res] \in ResourceRows
        BY <1>1, <2>1, <2>3 DEF HasRow
      <4>. QED
        BY <1>1, <2>1, <3>1, <4>1, <4>2, <1>3, <2>3 DEF ResourceRows, HasRow, Same
    <3>3. "published" \in moments'[r]
      <4>1. "published" \in Holds(r)'
        BY <1>3, <2>3, <3>2 DEF Holds, Same
      <4>. QED
        BY <4>1 DEF Grows
    <3>. QED
      BY <1>1, <1>3, <2>1, <2>3, <3>1, <3>3 DEF Knows, Same, Uploading, Fetching
  <2>. QED
    BY <1>8, <2>2, <2>3 DEF Act
<1>9. CASE ServeList(r)
  <2>1. q.pc = "act" /\ q.op = "list" /\ q.res \in ResourceIds
    BY <1>1, <1>9 DEF ServeList, Knows
  <2>2. req'[r] = [q EXCEPT !.served = ListResourceFiles(q.res), !.pc = "ok"]
    BY <1>2, <1>9 DEF ServeList
  <2>3. /\ Same(r) /\ req'[r].pc = "ok" /\ req'[r].stored = q.stored
        /\ req'[r].served = ListResourceFiles(q.res)
    BY <1>1, <2>2 DEF Request, Same
  <2>4. ListResourceFiles(q.res) \subseteq ListResourceFiles(q.res)'
    BY <2>1, <2>3, KnowledgeKept
  <2>. QED
    BY <1>1, <2>1, <2>3, <2>4 DEF Knows, Same, Uploading, Fetching
<1>10. CASE Recipients(r)
  <2>1. CASE Reply(r, "ok")
    BY <1>1, <1>3, <1>10, <2>1, KnowsEnded DEF Recipients, Knows
  <2>2. CASE Goto(r, [q EXCEPT !.to = ListClassStudentUserIDs(q.row.scope), !.pc = "notify"])
    <3>1. /\ q.pc = "recipients" /\ q.op = "publish" /\ q.res \in ResourceIds
          /\ HasRow(r) /\ "published" \in moments[r]
      BY <1>1, <1>10 DEF Recipients, Knows
    <3>2. /\ Same(r) /\ req'[r].pc = "notify" /\ req'[r].stored = q.stored
          /\ req'[r].served = q.served
          /\ req'[r].to = ListClassStudentUserIDs(q.row.scope)
      BY <1>1, <1>2, <2>2 DEF Request, Same
    <3>3. ListClassStudentUserIDs(q.row.scope) \subseteq moments[r]
      BY <3>1, NotedNow DEF HasRow, Ended
    <3>4. HasRow(r)' /\ ListResourceFiles(q.res) \subseteq ListResourceFiles(q.res)'
      BY <3>1, <3>2, KnowledgeKept
    <3>. QED
      BY <1>1, <3>1, <3>2, <3>3, <3>4 DEF Knows, Same, Uploading, Fetching
  <2>. QED
    BY <1>10, <2>1, <2>2 DEF Recipients
<1>11. CASE Notify(r)
  <2>1. CASE Reply(r, "ok")
    BY <1>1, <1>3, <1>11, <2>1, KnowsEnded DEF Notify, Knows
  <2>2. ASSUME NEW u \in q.to, Goto(r, [q EXCEPT !.to = @ \ {u}]) PROVE Knows(r)'
    <3>1. /\ q.pc = "notify" /\ q.op = "publish" /\ q.res \in ResourceIds
          /\ HasRow(r) /\ "published" \in moments[r] /\ q.to \subseteq moments[r]
      BY <1>1, <1>11 DEF Notify, Knows
    <3>2. /\ Same(r) /\ req'[r].pc = "notify" /\ req'[r].stored = q.stored
          /\ req'[r].served = q.served /\ req'[r].to = q.to \ {u}
      BY <1>1, <1>2, <2>2, <3>1 DEF Request, Same
    <3>3. HasRow(r)' /\ ListResourceFiles(q.res) \subseteq ListResourceFiles(q.res)'
      BY <3>1, <3>2, KnowledgeKept
    <3>. QED
      BY <1>1, <3>1, <3>2, <3>3 DEF Knows, Same, Uploading, Fetching
  <2>. QED
    BY <1>11, <2>1, <2>2 DEF Notify
<1>12. ASSUME q.pc \in Uploading, q.inputs # << >>, Goto(r, AfterInput(q, FALSE))
       PROVE  Knows(r)'
  <2>1. /\ Same(r) /\ req'[r].pc = "next" /\ req'[r].served = q.served
        /\ req'[r].stored = q.stored
    <3>. DEFINE p == AfterInput(q, FALSE)
    <3>1. /\ p.pc = "next" /\ p.op = q.op /\ p.user = q.user /\ p.res = q.res
          /\ p.row = q.row /\ p.served = q.served /\ p.stored = q.stored
      BY <1>1, <1>12, AfterInputFacts
    <3>2. req'[r] = p
      BY <1>2, <1>12
    <3>. QED
      BY <3>1, <3>2 DEF Same
  <2>2. ListResourceFiles(q.res) \subseteq ListResourceFiles(q.res)'
    BY <1>1, <1>12, <2>1, KnowledgeKept DEF Knows, Uploading
  <2>. QED
    BY <1>1, <1>12, <2>1, <2>2, KnowsUpload DEF Knows, Uploading
<1>13. ASSUME q.pc \in Uploading, Same(r), req'[r].pc \in Uploading \cup {"ok", "error"},
              req'[r].pc \in {"store", "row"} => req'[r].inputs # << >>,
              req'[r].served = q.served, req'[r].stored = q.stored
       PROVE  Knows(r)'
  <2>1. ListResourceFiles(q.res) \subseteq ListResourceFiles(q.res)'
    BY <1>1, <1>13, KnowledgeKept DEF Knows, Uploading
  <2>. QED
    BY <1>1, <1>13, <2>1, KnowsUpload DEF Knows, Uploading
<1>14. CASE NextInput(r)
  <2>1. q.pc \in Uploading
    BY <1>14 DEF NextInput, Uploading
  <2>2. CASE q.inputs = << >>
    <3>1. Reply(r, "error") \/ Reply(r, "ok")
      BY <1>14, <2>2 DEF NextInput
    <3>. QED
      BY <1>3, <1>13, <2>1, <3>1
  <2>3. ASSUME NEW k, q.inputs # << >>,
               Goto(r, [q EXCEPT !.key = k, !.tries = 0, !.body = TRUE, !.pc = "store"])
        PROVE  Knows(r)'
    <3>1. /\ Same(r) /\ req'[r].pc = "store" /\ req'[r].inputs = q.inputs
          /\ req'[r].served = q.served /\ req'[r].stored = q.stored
      BY <1>1, <1>2, <2>3 DEF Request, Same
    <3>. QED
      BY <1>13, <2>1, <2>3, <3>1 DEF Uploading
  <2>. QED
    BY <1>12, <1>14, <2>1, <2>2, <2>3 DEF NextInput
<1>15. CASE StoreLocal(r) \/ StoreSupabase(r)
  <2>1. q.pc = "store" /\ q.inputs # << >>
    BY <1>1, <1>15 DEF StoreLocal, StoreSupabase, Knows
  <2>2. \/ Goto(r, AfterInput(q, FALSE)) \/ Reply(r, "row")
        \/ Goto(r, [q EXCEPT !.pc = "row"])
        \/ \E read \in BOOLEAN : Goto(r, [q EXCEPT !.tries = @ + 1, !.body = @ /\ ~read])
    <3>1. CASE StoreLocal(r)
      BY <3>1 DEF StoreLocal
    <3>2. CASE StoreSupabase(r)
      BY <3>2 DEF StoreSupabase, Goto
    <3>. QED
      BY <1>15, <3>1, <3>2
  <2>3. CASE Reply(r, "row")
    BY <1>3, <1>13, <2>1, <2>3 DEF Uploading
  <2>4. CASE Goto(r, [q EXCEPT !.pc = "row"])
    <3>1. Reply(r, "row")
      BY <2>4 DEF Goto, Reply
    <3>. QED
      BY <2>3, <3>1
  <2>5. ASSUME NEW read \in BOOLEAN, Goto(r, [q EXCEPT !.tries = @ + 1, !.body = @ /\ ~read])
        PROVE  Knows(r)'
    <3>1. /\ Same(r) /\ req'[r].pc = "store" /\ req'[r].inputs = q.inputs
          /\ req'[r].served = q.served /\ req'[r].stored = q.stored
      BY <1>1, <1>2, <2>1, <2>5 DEF Request, Same
    <3>. QED
      BY <1>13, <2>1, <3>1 DEF Uploading
  <2>. QED
    BY <1>12, <2>1, <2>2, <2>3, <2>4, <2>5 DEF Uploading
<1>16. CASE CreateResourceFile(r)
  <2>1. /\ q.pc = "row" /\ q.pc \in Uploading /\ q.inputs # << >> /\ q.key \in Keys \ Stored
        /\ q.res \in ResourceIds
    BY <1>1, <1>16 DEF CreateResourceFile, Uploading, Knows, IInv, KeysDrawn
  <2>2. CASE Goto(r, AfterInput(q, FALSE))
    BY <1>12, <2>1, <2>2
  <2>3. CASE files' = InsertedFile(q.key, q.res) /\ Goto(r, AfterInput(q, TRUE))
    <3>1. /\ Same(r) /\ req'[r].pc = "next" /\ req'[r].served = q.served
          /\ req'[r].stored = Append(q.stored, q.key)
      <4>. DEFINE p == AfterInput(q, TRUE)
      <4>1. /\ p.pc = "next" /\ p.op = q.op /\ p.user = q.user /\ p.res = q.res
            /\ p.row = q.row /\ p.served = q.served /\ p.stored = Append(q.stored, q.key)
        BY <1>1, <2>1, AfterInputFacts
      <4>2. req'[r] = p
        BY <1>2, <2>3
      <4>. QED
        BY <4>1, <4>2 DEF Same
    <3>2. ListResourceFiles(q.res) \subseteq ListResourceFiles(q.res)'
      BY <2>1, <3>1, KnowledgeKept
    <3>3. q.key \in ListResourceFiles(q.res)'
      <4>1. files' = [files EXCEPT ![q.key] = [resource |-> q.res, at |-> Cardinality(Stored)]]
        BY <2>3 DEF InsertedFile
      <4>2. files'[q.key] = [resource |-> q.res, at |-> Cardinality(Stored)]
        BY <1>1, <2>1, <4>1
      <4>3. Cardinality(Stored) \in Nat
        <5>1. IsFiniteSet(Stored)
          BY KeysAssumption, FS_Subset DEF Stored
        <5>. QED
          BY <5>1, FS_CardinalityType
      <4>4. files'[q.key] # None /\ files'[q.key].resource = q.res
        <5>1. [resource |-> q.res, at |-> Cardinality(Stored)] \in FileRows
          BY <2>1, <4>3 DEF FileRows
        <5>2. files'[q.key] \in FileRows
          BY <4>2, <5>1
        <5>3. files'[q.key] # None
          BY <5>2, NoneAssumption
        <5>. QED
          BY <4>2, <5>3
      <4>. QED
        BY <2>1, <3>1, <4>4 DEF ListResourceFiles, Stored, Same
    <3>4. q.stored \in Seq(Keys) /\ q.key \notin ToSet(q.stored) /\ IsInjective(q.stored)
      BY <1>1, <2>1 DEF Request, Knows, ListResourceFiles
    <3>5. /\ IsInjective(req'[r].stored)
          /\ ToSet(req'[r].stored) = ToSet(q.stored) \cup {q.key}
      BY <2>1, <3>1, <3>4, AppendKey
    <3>6. ToSet(req'[r].stored) \subseteq ListResourceFiles(q.res)'
      BY <1>1, <3>2, <3>3, <3>5 DEF Knows
    <3>. QED
      BY <1>1, <2>1, <3>1, <3>5, <3>6, KnowsUpload DEF Uploading
  <2>. QED
    BY <1>16, <2>2, <2>3 DEF CreateResourceFile
<1>17. CASE FetchFile(r)
  <2>1. q.pc = "fetch" /\ q.op = "download" /\ q.res \in ResourceIds
    BY <1>1, <1>17 DEF FetchFile, Knows, Fetching
  <2>2. PICK k \in ServedFile(q) : req'[r] = [q EXCEPT !.key = k, !.pc = "retrieve"]
    BY <1>2, <1>17 DEF FetchFile
  <2>3. /\ Same(r) /\ req'[r].pc = "retrieve" /\ req'[r].key = k
        /\ req'[r].served = q.served /\ req'[r].stored = q.stored
    BY <1>1, <2>2 DEF Request, Same
  <2>4. k \in ListResourceFiles(q.res)
    BY DEF ServedFile, ActiveResourceFile, GetResourceFile, ListResourceFiles
  <2>5. ListResourceFiles(q.res) \subseteq ListResourceFiles(q.res)'
    BY <2>1, <2>3, KnowledgeKept
  <2>. QED
    BY <1>1, <2>1, <2>3, <2>4, <2>5 DEF Knows, Same, Uploading, Fetching
<1>18. CASE Retrieve(r)
  <2>1. q.pc = "retrieve" /\ q.op = "download" /\ q.res \in ResourceIds
    BY <1>1, <1>18 DEF Retrieve, Knows, Fetching
  <2>2. CASE Reply(r, "error")
    BY <1>1, <1>3, <2>1, <2>2, KnowsEnded
  <2>3. CASE Goto(r, [q EXCEPT !.served = {q.key}, !.pc = "ok"])
    <3>1. /\ Same(r) /\ req'[r].pc = "ok" /\ req'[r].stored = q.stored
          /\ req'[r].served = {q.key}
      BY <1>1, <1>2, <2>3 DEF Request, Same
    <3>2. ListResourceFiles(q.res) \subseteq ListResourceFiles(q.res)'
      BY <2>1, <3>1, KnowledgeKept
    <3>. QED
      BY <1>1, <2>1, <3>1, <3>2 DEF Knows, Same, Uploading, Fetching
  <2>. QED
    BY <1>18, <2>2, <2>3 DEF Retrieve
<1>. QED
  BY <1>4, <1>5, <1>6, <1>7, <1>8, <1>9, <1>10, <1>11, <1>14, <1>15, <1>16, <1>17, <1>18
     DEF Server

\* Every step keeps what each request knows and what has been noted.
LEMMA NotedStep ==
    ASSUME IInv, Grows, Tables', Next
    PROVE  (\A r \in Requests : Knows(r)') /\ Noted' /\ InboxJustified'
<1>1. ASSUME NEW o \in Requests PROVE Knows(o)'
  <2>1. CASE req'[o] = req[o]
    BY <2>1, KnowsKept DEF IInv
  <2>2. CASE req'[o] # req[o]
    <3>1. Clients(o) \/ Server(o)
      <4>1. CASE Academics
        BY <2>2, <4>1 DEF Academics, AddClassTeacher, RemoveClassTeacher, EnrollStudent,
           UnenrollStudent
      <4>2. ASSUME NEW r \in Requests, Clients(r) \/ Server(r) PROVE Clients(o) \/ Server(o)
        BY <2>2, <4>2, RequestStep
      <4>. QED
        BY <4>1, <4>2 DEF Next
    <3>. QED
      BY <3>1, KnowsStep
  <2>. QED
    BY <2>1, <2>2
<1>2. Noted'
  BY DEF Grows, Noted
<1>3. \A n \in inbox : {"published", n[1]} \subseteq moments'[n[3]]
  BY DEF IInv, InboxJustified, Tables, Grows
<1>4. ASSUME NEW r \in Requests, Notify(r), inbox' # inbox PROVE InboxJustified'
  <2>1. /\ req[r].pc = "notify" /\ Knows(r)
        /\ \E u \in req[r].to : inbox' = inbox \cup {<<u, req[r].res, r>>}
    BY <1>4 DEF Notify, InsertNotification, IInv
  <2>2. {"published"} \cup req[r].to \subseteq moments'[r]
    BY <2>1 DEF Knows, Grows
  <2>. QED
    BY <1>3, <2>1, <2>2 DEF InboxJustified
<1>5. inbox' = inbox => InboxJustified'
  BY <1>3 DEF InboxJustified
<1>6. inbox' = inbox \/ \E r \in Requests : Notify(r)
  <2>1. Academics => inbox' = inbox
    BY DEF Academics, AddClassTeacher, RemoveClassTeacher, EnrollStudent, UnenrollStudent
  <2>2. ASSUME NEW r \in Requests, Clients(r) PROVE inbox' = inbox
    BY <2>2 DEF Clients, CreateResource, PublishResource, ArchiveResource, UploadFiles,
       ListFiles, DownloadFile, Issue, tables
  <2>3. ASSUME NEW r \in Requests, Server(r), ~Notify(r) PROVE inbox' = inbox
    BY <2>3 DEF Server, Refuse, GetResource, CheckAccess, Act, ServeList, Recipients,
       NextInput, StoreLocal, StoreSupabase, CreateResourceFile, FetchFile, Retrieve, tables
  <2>. QED
    BY <2>1, <2>2, <2>3 DEF Next
<1>. QED
  BY <1>1, <1>2, <1>4, <1>5, <1>6

-----------------------------------------------------------------------------
(* Theorems *)

\* The invariant holds in every reachable state.
LEMMA Invariance == Spec => []IInv
<1>1. IInv /\ [Next]_vars => IInv'
  <2>1. CASE IInv /\ Next
    BY <2>1, TablesStep, NotedStep, BlobInvStep DEF IInv
  <2>2. CASE IInv /\ UNCHANGED vars
    BY <2>2 DEF vars, tables, IInv, Tables, Knows, HasRow, Noted, Holds, InboxJustified,
       KeysDrawn, RowsHaveObjects, Stored, ListResourceFiles, StatusAllows, Allowed,
       CanManageClass, CanViewClass, IsClassTeacher, IsStudentEnrolled, isManager,
       ListClassStudentUserIDs
  <2>. QED
    BY <2>1, <2>2
<1>. QED
  BY <1>1, InitInv, PTL DEF Spec

\* Tables, blobs and requests stay in their domains, and what a request serves
\* or reports are files that exist.
THEOREM TypeCorrect == Spec => []TypeOK
<1>1. IInv => TypeOK
  <2>. SUFFICES ASSUME IInv PROVE TypeOK
    OBVIOUS
  <2>1. ASSUME NEW r \in Requests
        PROVE  /\ req[r].served \subseteq Stored /\ req[r].tries \in 0..MaxRetries
               /\ req[r].key \in Keys \cup {None} /\ ToSet(req[r].stored) \subseteq Stored
               /\ req[r].pc \in Pcs
    <3>1. Knows(r) /\ req[r] \in Request
      BY DEF IInv, Tables
    <3>. QED
      BY <3>1 DEF Knows, Request, ListResourceFiles
  <2>2. Pcs = {"idle", "get", "access", "act", "recipients", "notify", "next",
               "store", "row", "fetch", "retrieve", "ok", "error"}
    BY DEF Pcs, Ended, Uploading, Fetching
  <2>. QED
    BY <2>1, <2>2 DEF TypeOK, IInv, Tables
<1>. QED
  BY <1>1, Invariance, PTL

\* No disk, network or retry leaves a file row without its whole blob.
THEOREM BlobsBehindRows == Spec => []RowsHaveObjects
BY Invariance, PTL DEF IInv

\* Whatever is listed, downloaded, reported as uploaded or announced was right
\* at a moment of the request, although no transaction ties its reads together.
THEOREM RepliesRight == Spec => []RepliesJustified
<1>1. IInv => RepliesJustified
  <2>. SUFFICES ASSUME IInv PROVE RepliesJustified
    OBVIOUS
  <2>1. ASSUME NEW r \in Requests, req[r].pc = "ok"
        PROVE  /\ req[r].op \in {"list", "download", "upload"} =>
                     {"status", "access"} \subseteq moments[r]
               /\ req[r].served \cup ToSet(req[r].stored)
                     \subseteq ListResourceFiles(req[r].res)
               /\ IsInjective(req[r].stored)
    BY <2>1 DEF IInv, Knows
  <2>2. \A n \in inbox : {"published", n[1]} \subseteq moments[n[3]]
    BY DEF IInv, InboxJustified
  <2>. QED
    BY <2>1, <2>2 DEF RepliesJustified
<1>. QED
  BY <1>1, Invariance, PTL

=============================================================================
