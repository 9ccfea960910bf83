--------------------------- MODULE AuthoringProofs ---------------------------
(***************************************************************************)
(* Proofs about Authoring: TypeOK, VersionsInOrder and ReorderHonoured,    *)
(* for every number of requests, rows and ids, and for every tables that   *)
(* TablesAssumption allows.                                                *)
(*                                                                         *)
(* The invariant has two halves.  TableInv is about the tables alone: what *)
(* has been written and not committed can be committed in any order, since *)
(* its keys are taken by nobody else (KeyInv), its rows were found in the  *)
(* status their update asks for (WrittenInv), and a new version has the    *)
(* number after those there are (NumberInv).  RequestInv is about one      *)
(* request: what it was asked (NamedInv), what it is still going to write  *)
(* (TodoInv), what it holds (HoldInv), and how far a publication or a      *)
(* reorder has come.  A step of one request leaves the other requests      *)
(* theirs, because it only adds to the tables and does not touch the rows  *)
(* they hold (Keeps).                                                      *)
(***************************************************************************)
EXTENDS Authoring, FiniteSetTheorems, TLAPS

\* A version is there to be used by items.
Published(v) == v \in Versions /\ committed[v] # None /\ committed[v].status = StatusPublished
Archived(x) == committed[x] # None /\ committed[x].status = StatusArchived
Numbers(q) == {committed[v].position : v \in GetQuestion(q)}

-----------------------------------------------------------------------------
(* The tables *)

RowsInv ==
    /\ committed \in [Ids -> RowType \cup {None}]
    /\ written \in [Ids -> RowType \cup {None}]
    /\ owner \in [Ids -> Requests \cup {None}]
    /\ \A x \in Ids : /\ committed[x] # None => RowOK(x, committed[x])
                      /\ written[x] # None => RowOK(x, written[x])
    /\ \A i \in Items : /\ committed[i] # None => Published(committed[i].of)
                        /\ written[i] # None => Published(written[i].of)

\* A row that is being written is held; an archived row or a published version
\* is not written, and no version gets another number.
WrittenInv ==
    \A x \in Ids : written[x] # None =>
       /\ owner[x] # None
       /\ committed[x] # None =>
             /\ committed[x].status \in {StatusActive, StatusDraft}
             /\ x \in Versions => Key(written[x]) = Key(committed[x])

\* A key that has been written is in no other row, but for one that the same
\* transaction has given another key.
KeyInv ==
    /\ \A x, y \in Ids : committed[x] # None /\ committed[y] # None
          /\ Key(committed[x]) = Key(committed[y]) => x = y
    /\ \A x, y \in Ids : x # y /\ written[x] # None =>
          /\ written[y] # None => Key(written[x]) # Key(written[y])
          /\ committed[y] # None /\ Key(committed[y]) = Key(written[x])
                => owner[y] = owner[x] /\ written[y] # None

NumberInv ==
    /\ \A q \in Questions : \E n \in Nat : Numbers(q) = 1..n
    /\ \A v \in Versions : written[v] # None /\ committed[v] = None =>
          /\ written[v].position >= 1
          /\ Numbers(written[v].parent) = 1..(written[v].position - 1)

TableInv == RowsInv /\ WrittenInv /\ KeyInv /\ NumberInv

-----------------------------------------------------------------------------
(* One request *)

OpNames == {"create", "update", "delete", "reorder", "duplicate", "version", "publish"}
Labels == {"idle", "source", "plan", "lock", "index", "copy", "commit", "ok", "error"}
Inserts == [row : Ids \cup {None}, where : {None}, set : RowType, must : BOOLEAN]
Updates == [row : Ids, where : {StatusActive, StatusDraft}, must : BOOLEAN,
            set : [position : Nat] \cup [position : Nat, of : Versions]
                  \cup [status : {StatusArchived, StatusPublished}]]
RequestType ==
    [op : OpNames \cup {None}, parent : Parents \cup {None}, row : Ids \cup {None},
     of : Versions \cup {None, StatusDraft, StatusPublished}, position : Nat,
     order : Seq(Ids), new : Ids \cup {None}, todo : Seq(Inserts \cup Updates), pc : Labels]

Ended == {"idle", "ok", "error"}
Lists == {Assessment} \cup Sections

NamedInv(r) == LET q == req[r] IN q.pc \notin Ended =>
    /\ q.op \in OpNames
    /\ q.pc = "source" => q.op = "duplicate"
    /\ q.pc = "copy" => q.op = "duplicate" /\ q.row \in Sections
    /\ q.op \in {"create", "duplicate"} =>
          /\ q.parent \in Lists
          /\ q.pc # "source" => IF q.parent = Assessment THEN q.of = None ELSE Published(q.of)
    /\ q.op \in {"update", "delete"} =>
          q.row \in Sections \cup Items /\ committed[q.row] # None
    /\ q.op = "update" /\ q.of # None => q.row \in Items /\ Published(q.of)
    /\ q.op = "duplicate" /\ q.row \in Sections => q.parent = Assessment
    /\ q.op = "reorder" => q.parent \in Lists
    /\ q.op = "version" => q.parent \in Questions /\ q.of \in {StatusDraft, StatusPublished}
    /\ q.op = "publish" => q.row \in Versions /\ committed[q.row] # None

\* An insert is of a row that may stand; a version has at most the number
\* after those there are.
InsertOK(w) ==
    /\ w.set.parent \in Lists => w.set.status = StatusActive
    /\ w.set.parent \in Sections => Published(w.set.of)
    /\ w.set.parent \in Questions =>
          /\ w.set.status \in {StatusDraft, StatusPublished}
          /\ w.set.position >= 1 /\ 1..(w.set.position - 1) \subseteq Numbers(w.set.parent)
    /\ w.set.parent \notin Sections => w.set.of = None

UpdateOK(w) ==
    /\ committed[w.row] # None
    /\ w.where = StatusActive =>
          /\ w.row \notin Versions
          /\ \/ w.set \in [position : Nat] \cup [status : {StatusArchived}]
             \/ w.set \in [position : Nat, of : Versions]
                   /\ w.row \in Items /\ Published(w.set.of)
    /\ w.where = StatusDraft =>
          w.row \in Versions /\ w.set = [status |-> StatusPublished]

WriteOK(w) == IF w.where = None THEN InsertOK(w) ELSE UpdateOK(w)

TodoInv(r) == LET q == req[r] IN
    /\ q.pc \notin {"lock", "index"} => q.todo = << >>
    /\ \A j \in 1..Len(q.todo) :
          /\ WriteOK(q.todo[j])
          /\ q.todo[j].where = None /\ q.todo[j].row # None => q.pc = "index" /\ j = 1

HoldInv(r) == LET q == req[r] IN
    /\ q.pc \in Ended \cup {"source", "plan"} => \A x \in Ids : owner[x] # r
    /\ q.pc = "index" =>
          LET w == q.todo[1] IN
          /\ Len(q.todo) >= 1 /\ w.row \in Ids /\ owner[w.row] = r
          /\ IF w.where = None
             THEN committed[w.row] = None /\ w.row \in Siblings(w.set.parent)
             ELSE View(r, w.row).status = w.where
    /\ q.pc \notin Ended /\ q.op = "duplicate" /\ q.row # None =>
          /\ q.new # None => q.new \in Siblings(q.parent)
          /\ q.new = None /\ q.pc \in {"lock", "index", "copy"} =>
                /\ q.pc = "lock" /\ Len(q.todo) >= 1
                /\ q.todo[1].where = None /\ q.todo[1].set.parent = q.parent

\* How far a publication has come.
PublishInv(r) == LET q == req[r] IN q.op = "publish" =>
    /\ q.pc \in {"lock", "index"} /\ q.todo # << >>
          => q.todo = <<UpdateRow(q.row, StatusDraft, [status |-> StatusPublished])>>
    /\ (q.pc = "lock" /\ q.todo = << >>) \/ q.pc = "commit"
          => /\ owner[q.row] = r /\ written[q.row] # None
             /\ written[q.row].status = StatusPublished
    /\ q.pc = "ok" => Published(q.row)

\* How far a reorder has come: the rows before those still to do have their
\* position, or have been archived.
Placed(r, x, position) ==
    \/ Archived(x)
    \/ owner[x] = r /\ written[x] # None /\ written[x].position = position

ReorderInv(r) == LET q == req[r] IN
    q.op = "reorder" /\ q.pc \in {"lock", "index", "commit"} =>
    /\ Len(q.todo) <= Len(q.order)
    /\ \A x \in Ids : owner[x] = r /\ written[x] # None => written[x].status = StatusActive
    /\ LET done == Len(q.order) - Len(q.todo) IN
       /\ \A j \in 1..Len(q.todo) :
             q.todo[j] = UpdatePosition(q.order[done + j], 10 * (done + j))
       /\ IsInjective(q.order) => \A i \in 1..done : Placed(r, q.order[i], 10 * i)

RequestInv(r) ==
    NamedInv(r) /\ TodoInv(r) /\ HoldInv(r) /\ PublishInv(r) /\ ReorderInv(r)

\* Of the requests that publish a version one has been told that it did.
OnePublished ==
    \A r, s \in Requests :
       req[r].op = "publish" /\ req[s].op = "publish" /\ req[r].row = req[s].row
          /\ req[r].pc = "ok" /\ req[s].pc = "ok" => r = s

IInv ==
    /\ TableInv /\ OnePublished
    /\ req \in [Requests -> RequestType] /\ \A r \in Requests : RequestInv(r)

-----------------------------------------------------------------------------
(* The tables step by step *)

\* What a step of another request leaves to a request: the rows there are,
\* what is archived, published or numbered, and the rows it holds.
Keeps(s) ==
    /\ \A x \in Ids : committed[x] # None => committed'[x] # None
    /\ \A x \in Ids : Archived(x) => Archived(x)'
    /\ \A v \in Versions : Published(v) => Published(v)'
    /\ \A q \in Questions : Numbers(q) \subseteq Numbers(q)'
    /\ \A x \in Ids : /\ owner'[x] = s <=> owner[x] = s
                      /\ owner[x] = s => written'[x] = written[x] /\ committed'[x] = committed[x]

LEMMA Names ==
    /\ \A r \in Requests : r # None
    /\ \A x \in Ids : x # None
    /\ None \notin RowType /\ None \notin Versions
    /\ Versions \subseteq Ids /\ Items \subseteq Ids /\ Sections \subseteq Ids
    /\ None \notin {StatusActive, StatusArchived, StatusDraft, StatusPublished}
BY NamesAssumption DEF Ids

LEMMA StatusNames ==
    /\ StatusActive # StatusArchived /\ StatusActive # StatusDraft
    /\ StatusActive # StatusPublished /\ StatusArchived # StatusDraft
    /\ StatusArchived # StatusPublished /\ StatusDraft # StatusPublished
BY DEF StatusActive, StatusArchived, StatusDraft, StatusPublished

\* The rows of the three tables have their parents in different sets.
LEMMA Parenthood ==
    ASSUME NEW x \in Ids, NEW parent \in Parents, x \in Siblings(parent)
    PROVE  /\ x \in Versions <=> parent \in Questions
           /\ x \in Items <=> parent \in Sections
           /\ x \in Sections <=> parent = Assessment
BY NamesAssumption DEF Siblings, Parents, Ids

LEMMA StillTables ==
    ASSUME UNCHANGED tables
    PROVE  /\ TableInv => TableInv'
           /\ \A s \in Requests : Keeps(s)
<1>1. \A q : Numbers(q)' = Numbers(q) /\ Published(q)' = Published(q)
             /\ Archived(q)' = Archived(q)
  BY DEF tables, Numbers, GetQuestion, Published, Archived
<1>2. TableInv => TableInv'
  BY <1>1 DEF tables, TableInv, RowsInv, WrittenInv, KeyInv, NumberInv
<1>3. \A s \in Requests : Keeps(s)
  BY <1>1 DEF tables, Keeps
<1>. QED
  BY <1>2, <1>3

\* A row is locked that nobody else holds.
LEMMA TakeTables ==
    ASSUME TableInv, NEW r \in Requests, NEW x \in Ids, owner[x] \in {None, r}, Reserve(r, x),
           UNCHANGED <<committed, written>>
    PROVE  TableInv' /\ \A s \in Requests \ {r} : Keeps(s)
<1>1. \A q : Numbers(q)' = Numbers(q) /\ Published(q)' = Published(q)
             /\ Archived(q)' = Archived(q)
  BY DEF Numbers, GetQuestion, Published, Archived
<1>2. /\ owner \in [Ids -> Requests \cup {None}] /\ owner' = [owner EXCEPT ![x] = r]
      /\ owner'[x] = r /\ \A y \in Ids \ {x} : owner'[y] = owner[y]
  BY DEF TableInv, RowsInv, Reserve
<1>3. RowsInv'
  BY <1>1, <1>2 DEF TableInv, RowsInv
<1>4. WrittenInv'
  BY <1>2, Names DEF TableInv, WrittenInv
<1>5. KeyInv'
  BY <1>2, Names DEF TableInv, WrittenInv, KeyInv
<1>6. NumberInv'
  BY <1>1 DEF TableInv, NumberInv
<1>7. \A s \in Requests \ {r} : Keeps(s)
  BY <1>1, <1>2, Names DEF Keeps
<1>. QED
  BY <1>3, <1>4, <1>5, <1>6, <1>7 DEF TableInv

\* A version of a row enters the unique index: nobody has its key, and nobody
\* is about to leave or to take it.
LEMMA PutTables ==
    ASSUME TableInv, NEW r \in Requests, NEW x \in Ids, NEW row, owner[x] = r, RowOK(x, row),
           x \in Items => Published(row.of),
           committed[x] # None =>
              /\ committed[x].status \in {StatusActive, StatusDraft}
              /\ x \in Versions => Key(row) = Key(committed[x]),
           x \in Versions /\ committed[x] = None =>
              row.position >= 1 /\ 1..(row.position - 1) \subseteq Numbers(row.parent),
           ~Taken(r, x, Key(row)), Awaited(r, x, Key(row)) = {},
           written' = [written EXCEPT ![x] = row], UNCHANGED <<committed, owner>>
    PROVE  TableInv' /\ \A s \in Requests \ {r} : Keeps(s)
<1>1. \A q : Numbers(q)' = Numbers(q) /\ Published(q)' = Published(q)
             /\ Archived(q)' = Archived(q)
  BY DEF Numbers, GetQuestion, Published, Archived
<1>2. /\ written \in [Ids -> RowType \cup {None}] /\ row \in RowType /\ row # None
      /\ written'[x] = row /\ \A y \in Ids \ {x} : written'[y] = written[y]
  BY Names DEF TableInv, RowsInv, RowOK
<1>3. RowsInv'
  BY <1>1, <1>2, Names DEF TableInv, RowsInv
<1>4. WrittenInv'
  BY <1>2, Names DEF TableInv, WrittenInv
<1>5. \A y \in Ids \ {x} :
         /\ written[y] # None => Key(written[y]) # Key(row)
         /\ committed[y] # None /\ Key(committed[y]) = Key(row)
               => owner[y] = r /\ written[y] # None
  <2>. SUFFICES ASSUME NEW y \in Ids \ {x}
                PROVE  /\ written[y] # None => Key(written[y]) # Key(row)
                       /\ committed[y] # None /\ Key(committed[y]) = Key(row)
                             => owner[y] = r /\ written[y] # None
    OBVIOUS
  <2>1. owner[y] \in Requests \cup {None} /\ y # x
    BY DEF TableInv, RowsInv
  <2>2. CASE owner[y] \notin {None, r}
    BY <2>1, <2>2 DEF Awaited, Pending
  <2>3. CASE owner[y] \in {None, r}
    BY <2>1, <2>3, Names DEF Taken, View, TableInv, WrittenInv
  <2>. QED
    BY <2>2, <2>3
<1>6. KeyInv'
  <2>. SUFFICES ASSUME NEW y \in Ids, NEW z \in Ids, y # z, written'[y] # None
                PROVE  /\ written'[z] # None => Key(written'[y]) # Key(written'[z])
                       /\ committed[z] # None /\ Key(committed[z]) = Key(written'[y])
                             => owner[z] = owner[y] /\ written'[z] # None
    BY DEF TableInv, KeyInv
  <2>1. CASE y = x
    BY <1>2, <1>5, <2>1
  <2>2. CASE y # x
    BY <1>2, <1>5, <2>2 DEF TableInv, KeyInv
  <2>. QED
    BY <2>1, <2>2
<1>7. NumberInv'
  <2>1. ASSUME x \in Versions, committed[x] = None
        PROVE  row.position >= 1 /\ Numbers(row.parent) = 1..(row.position - 1)
    <3>. DEFINE q == row.parent
    <3>1. q \in Questions /\ row.position \in Nat
      BY <2>1, Parenthood DEF RowOK, RowType
    <3>2. PICK n \in Nat : Numbers(q) = 1..n
      BY <3>1 DEF TableInv, NumberInv
    <3>3. row.position \notin Numbers(q)
      <4>. SUFFICES ASSUME NEW v \in GetQuestion(q), committed[v].position = row.position
                    PROVE  FALSE
        BY DEF Numbers
      <4>1. v \in Ids \ {x} /\ v \in Versions /\ committed[v] # None
            /\ Key(committed[v]) = Key(row)
        BY <2>1, Names DEF GetQuestion, Key
      <4>2. owner[v] = r /\ written[v] # None /\ Key(written[v]) # Key(row)
        BY <1>5, <4>1
      <4>. QED
        BY <4>1, <4>2 DEF TableInv, WrittenInv
    <3>. DEFINE k == row.position
    <3>4. k >= 1 /\ 1..(k - 1) \subseteq 1..n /\ k \notin 1..n
      BY <2>1, <3>2, <3>3
    <3>5. k - 1 <= n
      BY <3>1, <3>4
    <3>6. k - 1 = n
      BY <3>1, <3>4, <3>5
    <3>. QED
      BY <3>2, <3>4, <3>6
  <2>. QED
    BY <1>1, <1>2, <2>1, Names DEF TableInv, NumberInv
<1>8. \A s \in Requests \ {r} : Keeps(s)
  BY <1>1, <1>2, Names DEF Keeps
<1>. QED
  BY <1>3, <1>4, <1>6, <1>7, <1>8 DEF TableInv

\* A transaction that ends without a trace.
LEMMA DropTables ==
    ASSUME TableInv, NEW r \in Requests, Release(r), UNCHANGED committed
    PROVE  /\ TableInv' /\ \A s \in Requests \ {r} : Keeps(s)
           /\ \A x \in Ids : owner'[x] # r
<1>1. \A q : Numbers(q)' = Numbers(q) /\ Published(q)' = Published(q)
             /\ Archived(q)' = Archived(q)
  BY DEF Numbers, GetQuestion, Published, Archived
<1>2. /\ owner' \in [Ids -> Requests \cup {None}]
      /\ written' \in [Ids -> RowType \cup {None}]
      /\ \A x \in Ids : /\ owner[x] = r => owner'[x] = None /\ written'[x] = None
                        /\ owner[x] # r => owner'[x] = owner[x] /\ written'[x] = written[x]
  BY DEF TableInv, RowsInv, Release, Owned
<1>3. RowsInv'
  BY <1>1, <1>2, Names DEF TableInv, RowsInv
<1>4. WrittenInv'
  BY <1>2, Names DEF TableInv, WrittenInv
<1>5. KeyInv'
  BY <1>2, Names DEF TableInv, WrittenInv, KeyInv
<1>6. NumberInv'
  BY <1>1, <1>2, Names DEF TableInv, NumberInv
<1>7. \A s \in Requests \ {r} : Keeps(s)
  BY <1>1, <1>2, Names DEF Keeps
<1>8. \A x \in Ids : owner'[x] # r
  BY <1>2, Names DEF TableInv, RowsInv
<1>. QED
  BY <1>3, <1>4, <1>5, <1>6, <1>7, <1>8 DEF TableInv

\* A transaction that commits.  A question has one more number at most: two
\* new versions of it would have the same key.
LEMMA CommitTables ==
    ASSUME TableInv, NEW r \in Requests, Release(r), committed' = [x \in Ids |-> View(r, x)]
    PROVE  /\ TableInv' /\ \A s \in Requests \ {r} : Keeps(s)
           /\ \A x \in Ids : /\ owner'[x] # r
                             /\ committed[x] # None => committed'[x] # None
                             /\ Archived(x) => Archived(x)'
                             /\ owner[x] = r /\ written[x] # None => committed'[x] = written[x]
<1>1. /\ owner' \in [Ids -> Requests \cup {None}]
      /\ written' \in [Ids -> RowType \cup {None}]
      /\ committed' \in [Ids -> RowType \cup {None}]
      /\ \A x \in Ids : /\ owner[x] = r => owner'[x] = None /\ written'[x] = None
                        /\ owner[x] # r => owner'[x] = owner[x] /\ written'[x] = written[x]
                                           /\ committed'[x] = committed[x]
                        /\ owner[x] = r /\ written[x] # None => committed'[x] = written[x]
                        /\ written[x] = None => committed'[x] = committed[x]
  BY DEF TableInv, RowsInv, Release, Owned, View
<1>2. \A x \in Ids : /\ committed[x] # None => committed'[x] # None
                     /\ Archived(x) => Archived(x)'
                     /\ Published(x) => Published(x)'
                     /\ owner'[x] # r
  BY <1>1, Names, StatusNames DEF TableInv, WrittenInv, Archived, Published
<1>3. \A x \in Ids : \/ committed'[x] = committed[x]
                     \/ owner[x] = r /\ written[x] # None /\ committed'[x] = written[x]
  BY <1>1
<1>4. RowsInv'
  <2>1. \A x \in Ids : /\ committed'[x] # None => RowOK(x, committed'[x])
                       /\ written'[x] # None => RowOK(x, written'[x])
    BY <1>1, <1>3 DEF TableInv, RowsInv
  <2>2. ASSUME NEW i \in Items
        PROVE  /\ (committed[i] # None => Published(committed[i].of))'
               /\ (written[i] # None => Published(written[i].of))'
    <3>1. \A v : Published(v) => Published(v)'
      BY <1>2, Names DEF Published
    <3>2. /\ committed[i] # None => Published(committed[i].of)
          /\ written[i] # None => Published(written[i].of)
      BY DEF TableInv, RowsInv
    <3>3. /\ \/ committed'[i] = committed[i]
             \/ committed'[i] = written[i] /\ written[i] # None
          /\ written'[i] = None \/ written'[i] = written[i]
      <4>1. i \in Ids
        BY Names
      <4>2. owner[i] = r \/ owner[i] # r
        OBVIOUS
      <4>. QED
        BY <1>1, <1>3, <4>1, <4>2
    <3>4. committed'[i] # None => Published(committed[i].of)'
      <4>1. CASE committed'[i] = committed[i]
        BY <3>1, <3>2, <4>1 DEF Published
      <4>2. CASE committed'[i] = written[i] /\ written[i] # None
        BY <3>1, <3>2, <4>2 DEF Published
      <4>. QED
        BY <3>3, <4>1, <4>2
    <3>5. written'[i] # None => Published(written[i].of)'
      BY <3>1, <3>2, <3>3 DEF Published
    <3>. QED
      BY <3>4, <3>5
  <2>. QED
    BY <1>1, <2>1, <2>2 DEF RowsInv
<1>5. WrittenInv'
  BY <1>1, Names DEF TableInv, RowsInv, WrittenInv
<1>6. KeyInv'
  <2>1. \A x, y \in Ids : x # y /\ written'[x] # None =>
          /\ written'[y] # None => Key(written'[x]) # Key(written'[y])
          /\ committed'[y] # None /\ Key(committed'[y]) = Key(written'[x])
                => owner'[y] = owner'[x] /\ written'[y] # None
    BY <1>1, <1>3, Names DEF TableInv, KeyInv
  <2>2. ASSUME NEW x \in Ids, NEW y \in Ids, committed'[x] # None, committed'[y] # None,
               Key(committed'[x]) = Key(committed'[y]), x # y
        PROVE  FALSE
    <3>1. CASE committed'[x] = committed[x] /\ committed'[y] = committed[y]
      BY <2>2, <3>1 DEF TableInv, KeyInv
    <3>2. CASE owner[x] = r /\ written[x] # None /\ committed'[x] = written[x]
      BY <1>1, <1>3, <2>2, <3>2 DEF TableInv, KeyInv
    <3>3. CASE owner[y] = r /\ written[y] # None /\ committed'[y] = written[y]
      BY <1>1, <1>3, <2>2, <3>3 DEF TableInv, KeyInv
    <3>. QED
      BY <1>3, <3>1, <3>2, <3>3
  <2>. QED
    BY <2>1, <2>2 DEF KeyInv
<1>. DEFINE Added(q) == {v \in Versions : /\ owner[v] = r /\ written[v] # None
                                         /\ committed[v] = None /\ written[v].parent = q}
<1>7. \A q : Numbers(q)' = Numbers(q) \cup {written[v].position : v \in Added(q)}
  <2>1. ASSUME NEW v \in Versions, committed[v] # None
        PROVE  committed'[v] # None /\ Key(committed'[v]) = Key(committed[v])
    BY <1>1, <1>3, <2>1, Names DEF TableInv, WrittenInv
  <2>2. ASSUME NEW v \in Versions, committed[v] = None
        PROVE  \/ committed'[v] = None /\ \A q : v \notin Added(q)
               \/ owner[v] = r /\ written[v] # None /\ committed'[v] = written[v]
    BY <1>1, <1>3, <2>2, Names
  <2>3. \A v \in Versions : /\ committed[v] # None => committed'[v] # None
                            /\ committed[v] # None => committed'[v].parent = committed[v].parent
                            /\ committed[v] # None => committed'[v].position = committed[v].position
    BY <2>1 DEF Key
  <2>. SUFFICES ASSUME NEW q
                PROVE  Numbers(q)' = Numbers(q) \cup {written[v].position : v \in Added(q)}
    OBVIOUS
  <2>4. ASSUME NEW v \in Versions, committed'[v] # None, committed'[v].parent = q
        PROVE  committed'[v].position \in Numbers(q) \cup {written[u].position : u \in Added(q)}
    BY <2>2, <2>3, <2>4 DEF Numbers, GetQuestion
  <2>5. ASSUME NEW v \in Versions, committed[v] # None, committed[v].parent = q
        PROVE  committed[v].position \in Numbers(q)'
    BY <2>3, <2>5 DEF Numbers, GetQuestion
  <2>6. ASSUME NEW v \in Added(q) PROVE written[v].position \in Numbers(q)'
    BY <2>2, <2>6 DEF Numbers, GetQuestion
  <2>. QED
    BY <2>4, <2>5, <2>6 DEF Numbers, GetQuestion
<1>8. ASSUME NEW q \in Questions, NEW v \in Added(q)
      PROVE  /\ Added(q) = {v}
             /\ written[v].position \in Nat /\ written[v].position >= 1
             /\ Numbers(q) = 1..(written[v].position - 1)
             /\ Numbers(q)' = 1..written[v].position
             /\ \A u \in Versions : written[u] # None /\ committed[u] = None
                                    /\ written[u].parent = q => u = v
  <2>1. \A u \in Versions : written[u] # None /\ committed[u] = None /\ written[u].parent = q
          => /\ written[u].position \in Nat /\ written[u].position >= 1
             /\ Numbers(q) = 1..(written[u].position - 1)
    BY Names DEF TableInv, RowsInv, RowOK, RowType, NumberInv
  <2>2. /\ written[v].position \in Nat /\ written[v].position >= 1
        /\ Numbers(q) = 1..(written[v].position - 1)
    BY <2>1
  <2>3. ASSUME NEW u \in Versions, written[u] # None, committed[u] = None, written[u].parent = q
        PROVE  u = v
    <3>1. /\ written[u].position \in Nat /\ written[u].position >= 1
          /\ 1..(written[u].position - 1) = 1..(written[v].position - 1)
      BY <2>1, <2>2, <2>3
    <3>2. written[u].position = written[v].position
      BY <2>2, <3>1
    <3>. QED
      BY <2>3, <3>2, Names DEF TableInv, KeyInv, Key
  <2>4. Added(q) = {v}
    BY <2>3
  <2>5. Numbers(q)' = 1..(written[v].position - 1) \cup {written[v].position}
    BY <1>7, <2>2, <2>4
  <2>. QED
    BY <2>2, <2>3, <2>4, <2>5
<1>9. \A q \in Questions : Added(q) = {} => Numbers(q)' = Numbers(q)
  BY <1>7
<1>10. NumberInv'
  <2>1. ASSUME NEW q \in Questions PROVE \E n \in Nat : Numbers(q)' = 1..n
    BY <1>8, <1>9 DEF TableInv, NumberInv
  <2>2. ASSUME NEW v \in Versions, written'[v] # None, committed'[v] = None
        PROVE  (/\ written[v].position >= 1
                /\ Numbers(written[v].parent) = 1..(written[v].position - 1))'
    <3>1. owner[v] # r /\ written'[v] = written[v] /\ committed[v] = None
      BY <1>1, <1>2, <2>2, Names
    <3>2. written[v].parent \in Questions
      BY <2>2, <3>1, Parenthood, Names DEF TableInv, RowsInv, RowOK, RowType
    <3>3. Added(written[v].parent) = {}
      BY <1>8, <2>2, <3>1, <3>2
    <3>. QED
      BY <1>9, <2>2, <3>1, <3>2, <3>3 DEF TableInv, NumberInv
  <2>. QED
    BY <2>1, <2>2 DEF NumberInv
<1>11. \A s \in Requests \ {r} : Keeps(s)
  BY <1>1, <1>2, <1>7, Names DEF Keeps
<1>. QED
  BY <1>1, <1>2, <1>4, <1>5, <1>6, <1>10, <1>11 DEF TableInv

-----------------------------------------------------------------------------
(* One request among the others *)

\* What a step of r has to show.
Moves(r) ==
    /\ TableInv' /\ \A s \in Requests \ {r} : Keeps(s)
    /\ \E q \in RequestType : req' = [req EXCEPT ![r] = q]
    /\ RequestInv(r)'
    /\ req'[r].op = "publish" /\ req'[r].pc = "ok" => ~Published(req'[r].row)

LEMMA RequestKept ==
    ASSUME NEW s \in Requests, req[s] \in RequestType, RequestInv(s), req'[s] = req[s], Keeps(s)
    PROVE  RequestInv(s)'
<1>. DEFINE q == req[s]
<1>1. /\ q.row \in Ids \cup {None} /\ q.todo \in Seq(Inserts \cup Updates)
      /\ q.order \in Seq(Ids) /\ q.pc \in Labels /\ q.new \in Ids \cup {None}
  BY DEF RequestType
<1>2. \A v : Published(v) => Published(v)'
  BY DEF Keeps, Published
<1>3. NamedInv(s)'
  BY <1>2, Names DEF RequestInv, NamedInv, Keeps
<1>4. TodoInv(s)'
  <2>1. ASSUME NEW j \in 1..Len(q.todo) PROVE WriteOK(q.todo[j])'
    <3>1. q.todo[j] \in Inserts \cup Updates /\ WriteOK(q.todo[j])
      BY <1>1 DEF RequestInv, TodoInv
    <3>2. CASE q.todo[j].where = None
      BY <1>2, <3>1, <3>2 DEF WriteOK, InsertOK, Keeps
    <3>3. CASE q.todo[j].where # None
      <4>1. q.todo[j].row \in Ids
        BY <3>1, <3>3 DEF Inserts, Updates
      <4>. QED
        BY <1>2, <3>1, <3>3, <4>1 DEF WriteOK, UpdateOK, Keeps
    <3>. QED
      BY <3>2, <3>3
  <2>. QED
    BY <2>1 DEF RequestInv, TodoInv
<1>5. HoldInv(s)'
  BY DEF RequestInv, HoldInv, Keeps, View
<1>6. PublishInv(s)'
  <2>1. q.op = "publish" /\ ((q.pc = "lock" /\ q.todo = << >>) \/ q.pc = "commit")
          => q.row \in Ids
    BY Names DEF RequestInv, NamedInv, Ended
  <2>. QED
    BY <1>2, <2>1 DEF RequestInv, PublishInv, Keeps
<1>7. ReorderInv(s)'
  <2>1. ASSUME NEW x \in Ids, NEW k, Placed(s, x, k) PROVE Placed(s, x, k)'
    BY <2>1 DEF Placed, Keeps
  <2>2. \A i \in 1..(Len(q.order) - Len(q.todo)) : Len(q.todo) <= Len(q.order)
          => q.order[i] \in Ids
    BY <1>1
  <2>. QED
    BY <2>1, <2>2 DEF RequestInv, ReorderInv, Keeps
<1>. QED
  BY <1>3, <1>4, <1>5, <1>6, <1>7 DEF RequestInv

LEMMA StepInv ==
    ASSUME IInv, NEW r \in Requests, Moves(r)
    PROVE  IInv'
<1>1. PICK q \in RequestType : req' = [req EXCEPT ![r] = q]
  BY DEF Moves
<1>2. ASSUME NEW s \in Requests \ {r}
      PROVE  req'[s] = req[s] /\ req'[s] \in RequestType /\ RequestInv(s)'
  <2>1. req'[s] = req[s] /\ req[s] \in RequestType /\ RequestInv(s) /\ Keeps(s)
    BY <1>1 DEF IInv, Moves
  <2>. QED
    BY <2>1, RequestKept
<1>3. req'[r] \in RequestType /\ RequestInv(r)'
  BY <1>1 DEF Moves, IInv
<1>4. OnePublished'
  <2>1. \A s \in Requests : req[s].op = "publish" /\ req[s].pc = "ok" => Published(req[s].row)
    BY DEF IInv, RequestInv, PublishInv
  <2>. QED
    BY <1>2, <2>1 DEF IInv, OnePublished, Moves
<1>. QED
  BY <1>2, <1>3, <1>4 DEF IInv, Moves

LEMMA IdleRequest ==
    /\ Idle \in RequestType
    /\ Idle.op = None /\ Idle.row = None /\ Idle.new = None /\ Idle.todo = << >>
<1>1. << >> \in Seq(Ids) /\ << >> \in Seq(Inserts \cup Updates)
  OBVIOUS
<1>2. "idle" \in Labels
  BY DEF Labels
<1>. QED
  BY <1>1, <1>2 DEF Idle, RequestType

\* A request that has nothing left to write and is not in a transaction.
LEMMA NothingHeld ==
    ASSUME NEW r \in Requests, req'[r].todo = << >>, req'[r].pc \in Ended \cup {"source", "plan"},
           \A x \in Ids : owner'[x] # r, NamedInv(r)', req'[r].new = None,
           req'[r].op = "publish" /\ req'[r].pc = "ok" => Published(req[r].row)'
    PROVE  RequestInv(r)'
<1>. DEFINE q == req'[r]
<1>1. Len(q.todo) = 0 /\ q.pc \notin {"lock", "index", "copy", "commit"}
  BY DEF Ended
<1>2. TodoInv(r)'
  BY <1>1 DEF TodoInv
<1>3. HoldInv(r)'
  BY <1>1 DEF HoldInv
<1>4. PublishInv(r)' /\ ReorderInv(r)'
  BY <1>1 DEF PublishInv, ReorderInv
<1>. QED
  BY <1>2, <1>3, <1>4 DEF RequestInv

LEMMA AbortMoves ==
    ASSUME IInv, NEW r \in Requests, Abort(r)
    PROVE  Moves(r)
<1>. DEFINE q == [Idle EXCEPT !.pc = "error"]
<1>1. q \in RequestType /\ q.pc = "error" /\ q.todo = << >> /\ q.new = None
  <2>1. "error" \in Labels
    BY DEF Labels
  <2>. QED
    BY <2>1, IdleRequest DEF RequestType
<1>2. req' = [req EXCEPT ![r] = q] /\ req'[r] = q
  BY DEF Abort, Goto, IInv
<1>3. TableInv' /\ (\A s \in Requests \ {r} : Keeps(s)) /\ \A x \in Ids : owner'[x] # r
  BY DropTables DEF IInv, Abort
<1>4. NamedInv(r)'
  BY <1>1, <1>2 DEF NamedInv, Ended
<1>5. RequestInv(r)'
  BY <1>1, <1>2, <1>3, <1>4, NothingHeld DEF Ended
<1>. QED
  BY <1>1, <1>2, <1>3, <1>5 DEF Moves

LEMMA IssueMoves ==
    ASSUME IInv, NEW r \in Requests, NEW op \in OpNames, NEW parent \in Parents \cup {None},
           NEW row \in Ids \cup {None}, NEW of \in Versions \cup {None, StatusDraft, StatusPublished},
           NEW position \in Nat, NEW order \in Seq(Ids), Issue(r, op, parent, row, of, position, order),
           op \in {"create", "duplicate"} => parent \in Lists,
           op = "create" => IF parent = Assessment THEN of = None ELSE Published(of),
           op \in {"update", "delete"} => row \in Sections \cup Items,
           op = "update" /\ of # None => row \in Items /\ Published(of),
           op = "duplicate" /\ row \in Sections => parent = Assessment,
           op = "reorder" => parent \in Lists,
           op = "version" => parent \in Questions /\ of \in {StatusDraft, StatusPublished},
           op = "publish" => row \in Versions
    PROVE  Moves(r)
<1>0. PICK label \in {"source", "plan"} : label = IF op = "duplicate" THEN "source" ELSE "plan"
  OBVIOUS
<1>. DEFINE q == [Idle EXCEPT !.op = op, !.parent = parent, !.row = row, !.of = of,
                              !.position = position, !.order = order, !.pc = label]
<1>1. /\ q.op = op /\ q.parent = parent /\ q.row = row /\ q.of = of /\ q.pc = label
      /\ q.new = None /\ q.todo = << >> /\ q \in RequestType
  <2>1. label \in Labels
    BY DEF Labels
  <2>. QED
    BY <2>1, IdleRequest DEF RequestType
<1>2. /\ req' = [req EXCEPT ![r] = q] /\ req'[r] = q /\ UNCHANGED tables
      /\ row # None => committed[row] # None
      /\ req[r].pc = "idle"
  BY <1>0 DEF Issue, Goto, IInv, Known
<1>3. TableInv' /\ \A s \in Requests \ {r} : Keeps(s)
  BY <1>2, StillTables DEF IInv
<1>4. \A x \in Ids : owner'[x] # r
  BY <1>2 DEF IInv, RequestInv, HoldInv, Ended, tables
<1>5. \A v : Published(v)' = Published(v)
  BY <1>2 DEF tables, Published
<1>6. NamedInv(r)'
  BY <1>0, <1>1, <1>2, <1>5, Names DEF NamedInv, tables
<1>7. RequestInv(r)'
  BY <1>1, <1>2, <1>4, <1>6, NothingHeld
<1>. QED
  BY <1>1, <1>2, <1>3, <1>7 DEF Moves

LEMMA ClientMoves ==
    ASSUME IInv, NEW r \in Requests, Clients(r)
    PROVE  Moves(r)
<1>1. /\ Assessment \in Parents /\ Assessment \in Lists /\ << >> \in Seq(Ids)
      /\ \A s \in Sections : s \in Parents /\ s \in Lists /\ s # Assessment /\ s \in Ids
      /\ \A i \in Items : i \in Ids /\ i \notin Sections
      /\ \A v \in Versions : v \in Ids /\ (QuestionVersionExists(v) => Published(v))
      /\ \A q \in Questions : q \in Parents
      /\ Positions \subseteq Nat /\ Orders \subseteq Seq(Ids)
  BY NamesAssumption, BodiesAssumption
     DEF Parents, Lists, Ids, QuestionVersionExists, Published
<1>2. ASSUME NEW position \in Positions, CreateSection(r, position) PROVE Moves(r)
  BY <1>1, <1>2, IssueMoves DEF CreateSection, OpNames
<1>3. ASSUME NEW position \in Positions, NEW s \in Sections, NEW v \in Versions,
             CreateItem(r, s, v, position)
      PROVE  Moves(r)
  BY <1>1, <1>3, IssueMoves DEF CreateItem, OpNames
<1>4. ASSUME NEW position \in Positions, NEW s \in Sections, UpdateSection(r, s, position)
      PROVE  Moves(r)
  BY <1>1, <1>4, IssueMoves DEF UpdateSection, OpNames
<1>5. ASSUME NEW position \in Positions, NEW i \in Items, NEW v \in Versions \cup {None},
             UpdateItem(r, i, v, position)
      PROVE  Moves(r)
  BY <1>1, <1>5, IssueMoves DEF UpdateItem, OpNames
<1>6. ASSUME NEW s \in Sections, DeleteSection(r, s) \/ DuplicateSection(r, s) PROVE Moves(r)
  BY <1>1, <1>6, IssueMoves DEF DeleteSection, DuplicateSection, OpNames
<1>7. ASSUME NEW i \in Items, DeleteItem(r, i) PROVE Moves(r)
  BY <1>1, <1>7, IssueMoves DEF DeleteItem, OpNames
<1>8. ASSUME NEW i \in Items, NEW s \in Sections, DuplicateItem(r, s, i) PROVE Moves(r)
  BY <1>1, <1>8, IssueMoves DEF DuplicateItem, OpNames
<1>9. ASSUME NEW ids \in Orders, ReorderSections(r, ids) PROVE Moves(r)
  BY <1>1, <1>9, IssueMoves DEF ReorderSections, OpNames
<1>10. ASSUME NEW ids \in Orders, NEW s \in Sections, ReorderItems(r, s, ids) PROVE Moves(r)
  BY <1>1, <1>10, IssueMoves DEF ReorderItems, OpNames
<1>11. ASSUME NEW q \in Questions, CreateQuestion(r, q) PROVE Moves(r)
  BY <1>1, <1>11, IssueMoves DEF CreateQuestion, OpNames
<1>12. ASSUME NEW q \in Questions, NEW status \in {StatusDraft, StatusPublished},
              CreateQuestionVersion(r, q, status)
       PROVE  Moves(r)
  BY <1>1, <1>12, IssueMoves DEF CreateQuestionVersion, OpNames
<1>13. ASSUME NEW q \in Questions, NEW v \in Versions, PublishQuestionVersion(r, q, v)
       PROVE  Moves(r)
  BY <1>1, <1>13, IssueMoves DEF PublishQuestionVersion, OpNames
<1>. QED
  BY <1>2, <1>3, <1>4, <1>5, <1>6, <1>7, <1>8, <1>9, <1>10, <1>11, <1>12, <1>13 DEF Clients

-----------------------------------------------------------------------------
(* Greatest numbers and lists of sets *)

\* A finite set of numbers has a greatest: one without would have a subset
\* without, and a least such.
LEMMA HasGreatest ==
    ASSUME NEW S \in SUBSET Nat, IsFiniteSet(S)
    PROVE  Greatest(S) \in S \cup {0} /\ \A k \in S : k <= Greatest(S)
<1>. DEFINE Has(U) == \E n \in U \cup {0} : \A k \in U : k <= n
            Lacking == {U \in SUBSET S : ~Has(U)}
<1>1. CASE Lacking = {}
  <2>1. Has(S)
    BY <1>1
  <2>. QED
    BY <2>1 DEF Greatest
<1>2. CASE Lacking # {}
  <2>1. IsWellFoundedOn(StrictSubsetOrdering(S), SUBSET S)
    BY FS_StrictSubsetOrderingWellFounded, FS_FiniteSubsetsOfFinite
  <2>2. Lacking \subseteq SUBSET S
    OBVIOUS
  <2>3. PICK U \in Lacking : \A V \in Lacking : <<V, U>> \notin StrictSubsetOrdering(S)
    <3>. HIDE DEF Lacking
    <3>. QED
      BY <1>2, <2>1, <2>2, WFMin
  <2>4. PICK k \in U : TRUE
    BY <2>3
  <2>5. U \ {k} \in SUBSET S /\ <<U \ {k}, U>> \in StrictSubsetOrdering(S)
    BY <2>3, <2>4 DEF StrictSubsetOrdering
  <2>6. Has(U \ {k})
    BY <2>3, <2>5
  <2>7. PICK n \in (U \ {k}) \cup {0} : \A j \in U \ {k} : j <= n
    BY <2>6
  <2>8. Has(U)
    <3>1. n \in Nat /\ k \in Nat /\ \A j \in U : j \in Nat
      BY <2>3, <2>4, <2>7
    <3>2. CASE k <= n
      BY <2>4, <2>7, <3>1, <3>2
    <3>3. CASE ~(k <= n)
      BY <2>4, <2>7, <3>1, <3>3
    <3>. QED
      BY <3>2, <3>3
  <2>. QED
    BY <2>3, <2>8
<1>. QED
  BY <1>1, <1>2

LEMMA Listed ==
    ASSUME NEW S, IsFiniteSet(S)
    PROVE  SetToSeq(S) \in Seq(S)
<1>1. PICK n \in Nat : ExistsBijection(1..n, S)
  BY FS_NatBijection
<1>2. Cardinality(S) = n
  BY <1>1, FS_CountingElements
<1>3. \E f \in [1..Cardinality(S) -> S] : IsInjective(f)
  BY <1>1, <1>2 DEF ExistsBijection, Bijection, Injection
<1>4. SetToSeq(S) \in [1..Cardinality(S) -> S]
  BY <1>3 DEF SetToSeq
<1>. QED
  BY <1>2, <1>4

LEMMA FiniteImage ==
    ASSUME NEW S \in SUBSET Ids, NEW T, NEW f \in [S -> T]
    PROVE  IsFiniteSet({f[x] : x \in S})
<1>1. IsFiniteSet(S)
  BY NamesAssumption, FS_Subset
<1>2. f \in Surjection(S, {f[x] : x \in S})
  BY DEF Surjection
<1>. QED
  BY <1>1, <1>2, FS_Surjection

-----------------------------------------------------------------------------
(* Steps that only read *)

\* What a request that holds nothing sees of a row.
LEMMA Unlocked ==
    ASSUME IInv, NEW r \in Requests, req[r].pc \in Ended \cup {"source", "plan"}
    PROVE  \A x \in Ids : owner[x] # r /\ View(r, x) = committed[x]
BY DEF IInv, RequestInv, HoldInv, View

\* What it sees of an active row.
LEMMA ActiveRow ==
    ASSUME IInv, NEW r \in Requests, NEW parent \in Parents, NEW x \in Active(r, parent)
    PROVE  /\ x \in Ids \ Versions /\ View(r, x) # None /\ View(r, x) \in RowType
           /\ View(r, x).status = StatusActive /\ x \in Siblings(parent)
           /\ parent \in Sections => Published(View(r, x).of)
           /\ parent = Assessment => View(r, x).of = None
<1>1. /\ x \in Ids /\ View(r, x) # None /\ View(r, x).status = StatusActive
      /\ View(r, x).parent = parent
  BY DEF Active, Seen
<1>2. /\ RowOK(x, View(r, x))
      /\ x \in Items => Published(View(r, x).of)
  BY <1>1 DEF View, IInv, TableInv, RowsInv
<1>. QED
  BY <1>1, <1>2, Parenthood, Names, StatusNames, NamesAssumption DEF RowOK

LEMMA ReadSourceMoves ==
    ASSUME IInv, NEW r \in Requests, ReadSource(r)
    PROVE  Moves(r)
<1>. DEFINE of == committed[req[r].row].of
            q == [req[r] EXCEPT !.of = of, !.pc = "plan"]
<1>1. /\ req' = [req EXCEPT ![r] = q] /\ req'[r] = q /\ UNCHANGED tables
      /\ req[r].pc = "source" /\ req[r].row \in Active(r, req[r].parent)
      /\ req[r] \in RequestType
  BY DEF ReadSource, Goto, IInv
<1>2. /\ req[r].op = "duplicate" /\ req[r].parent \in Lists /\ req[r].todo = << >>
      /\ req[r].row \in Sections => req[r].parent = Assessment
      /\ req[r].new # None => req[r].new \in Siblings(req[r].parent)
  <2>1. req[r].op = "duplicate" /\ req[r].parent \in Lists /\ req[r].todo = << >>
        /\ (req[r].row \in Sections => req[r].parent = Assessment)
    BY <1>1 DEF IInv, RequestInv, NamedInv, TodoInv, Ended
  <2>2. req[r].row # None
    BY <1>1, Names DEF Active, Seen
  <2>. QED
    BY <1>1, <2>1, <2>2 DEF IInv, RequestInv, HoldInv, Ended
<1>3. /\ req[r].row \in Ids /\ of = View(r, req[r].row).of /\ of \in Versions \cup {None}
      /\ IF req[r].parent = Assessment THEN of = None ELSE Published(of)
  <2>1. req[r].parent \in Parents
    BY <1>2 DEF Lists, Parents
  <2>2. req[r].row \in Ids /\ View(r, req[r].row) = committed[req[r].row]
    BY <1>1, <2>1, ActiveRow, Unlocked
  <2>. QED
    BY <1>1, <1>2, <2>1, <2>2, ActiveRow DEF Lists, RowType
<1>4. q \in RequestType
  BY <1>1, <1>3 DEF RequestType, Labels
<1>5. /\ q.op = req[r].op /\ q.parent = req[r].parent /\ q.row = req[r].row /\ q.of = of
      /\ q.new = req[r].new /\ q.todo = << >> /\ q.pc = "plan"
  BY <1>1, <1>2 DEF RequestType
<1>. HIDE DEF q, of
<1>6. \A v : Published(v)' = Published(v)
  BY <1>1 DEF tables, Published
<1>7. NamedInv(r)'
  BY <1>1, <1>2, <1>3, <1>5, <1>6 DEF NamedInv, OpNames
<1>8. \A x \in Ids : owner'[x] # r
  BY <1>1, Unlocked DEF tables
<1>9. RequestInv(r)'
  <2>1. TodoInv(r)'
    BY <1>1, <1>5 DEF TodoInv
  <2>2. HoldInv(r)'
    BY <1>1, <1>2, <1>5, <1>8 DEF HoldInv
  <2>3. PublishInv(r)' /\ ReorderInv(r)'
    BY <1>1, <1>2, <1>5 DEF PublishInv, ReorderInv
  <2>. QED
    BY <1>7, <2>1, <2>2, <2>3 DEF RequestInv
<1>. QED
  BY <1>1, <1>2, <1>4, <1>5, <1>9, StillTables DEF Moves, IInv

\* A request has read what it needs and is going to write it.
LEMMA PlanMoves ==
    ASSUME IInv, NEW r \in Requests, req[r].pc = "plan",
           NEW todo \in Seq(Inserts \cup Updates), PlanWrites(r, todo),
           \A j \in 1..Len(todo) : WriteOK(todo[j]) /\ (todo[j].where = None => todo[j].row = None),
           req[r].op = "duplicate" =>
              Len(todo) >= 1 /\ todo[1].where = None /\ todo[1].set.parent = req[r].parent,
           req[r].op = "publish" =>
              todo = <<UpdateRow(req[r].row, StatusDraft, [status |-> StatusPublished])>>,
           req[r].op = "reorder" =>
              /\ Len(todo) = Len(req[r].order)
              /\ \A j \in 1..Len(todo) : todo[j] = UpdatePosition(req[r].order[j], 10 * j)
    PROVE  Moves(r)
<1>. DEFINE q == [req[r] EXCEPT !.todo = todo, !.pc = "lock"]
<1>1. /\ req' = [req EXCEPT ![r] = q] /\ req'[r] = q /\ UNCHANGED tables
      /\ req[r] \in RequestType
  BY DEF PlanWrites, Goto, IInv
<1>2. q \in RequestType
  BY <1>1 DEF RequestType, Labels
<1>3. /\ q.op = req[r].op /\ q.parent = req[r].parent /\ q.row = req[r].row
      /\ q.of = req[r].of /\ q.order = req[r].order /\ q.new = req[r].new
      /\ q.todo = todo /\ q.pc = "lock"
      /\ Len(todo) \in Nat /\ q.order \in Seq(Ids) /\ Len(q.order) \in Nat
  BY <1>1 DEF RequestType
<1>. HIDE DEF q
<1>4. \A v : Published(v)' = Published(v) /\ Numbers(v)' = Numbers(v)
  BY <1>1 DEF tables, Published, Numbers, GetQuestion
<1>5. NamedInv(r)'
  BY <1>1, <1>3, <1>4 DEF IInv, RequestInv, NamedInv, Ended, tables
<1>6. TodoInv(r)'
  <2>1. \A j \in 1..Len(todo) : WriteOK(todo[j])'
    BY <1>1, <1>4 DEF WriteOK, InsertOK, UpdateOK, tables
  <2>. QED
    BY <1>1, <1>3, <2>1 DEF TodoInv
<1>7. HoldInv(r)'
  BY <1>1, <1>3 DEF IInv, RequestInv, HoldInv, Ended
<1>8. PublishInv(r)'
  <2>1. ASSUME q.op = "publish" PROVE todo # << >>
    <3>1. todo = <<UpdateRow(req[r].row, StatusDraft, [status |-> StatusPublished])>>
      BY <1>3, <2>1
    <3>. HIDE DEF UpdateRow
    <3>. QED
      BY <3>1
  <2>. QED
    BY <1>1, <1>3, <2>1 DEF PublishInv
<1>9. ReorderInv(r)'
  <2>1. \A x \in Ids : owner'[x] # r
    BY <1>1, Unlocked DEF tables
  <2>2. ASSUME q.op = "reorder"
        PROVE  /\ Len(todo) <= Len(q.order)
               /\ LET done == Len(q.order) - Len(todo) IN
                  /\ \A j \in 1..Len(todo) :
                        todo[j] = UpdatePosition(q.order[done + j], 10 * (done + j))
                  /\ 1..done = {}
    <3>. DEFINE done == Len(q.order) - Len(todo)
    <3>1. Len(q.order) = Len(todo) /\ done = 0
      BY <1>3, <2>2
    <3>2. ASSUME NEW j \in 1..Len(todo)
          PROVE  todo[j] = UpdatePosition(q.order[done + j], 10 * (done + j))
      <4>1. done + j = j
        BY <1>3, <3>1
      <4>2. todo[j] = UpdatePosition(q.order[j], 10 * j)
        BY <1>3, <2>2
      <4>. QED
        BY <4>1, <4>2
    <3>. QED
      BY <1>3, <3>1, <3>2
  <2>. QED
    BY <1>1, <1>3, <2>1, <2>2 DEF ReorderInv
<1>. QED
  BY <1>1, <1>2, <1>3, <1>5, <1>6, <1>7, <1>8, <1>9, StillTables DEF Moves, IInv, RequestInv

\* A question's next number is one that follows those there are.
LEMMA LatestNumber ==
    ASSUME IInv, NEW r \in Requests, req[r].pc = "plan", NEW q \in Questions
    PROVE  /\ GetLatestVersionNumber(r, q) \in Nat
           /\ 1..GetLatestVersionNumber(r, q) \subseteq Numbers(q)
<1>1. PICK n \in Nat : Numbers(q) = 1..n
  BY DEF IInv, TableInv, NumberInv
<1>2. Seen(r, q) = GetQuestion(q)
  <2>1. \A x \in Ids : /\ View(r, x) = committed[x]
                       /\ committed[x] # None /\ committed[x].parent = q => x \in Versions
    <3>1. q \in Parents
      BY DEF Parents
    <3>2. \A x \in Ids : committed[x] # None => x \in Siblings(committed[x].parent)
      BY DEF IInv, TableInv, RowsInv, RowOK
    <3>. QED
      BY <3>1, <3>2, Unlocked, Parenthood
  <2>. QED
    BY <2>1, Names DEF Seen, GetQuestion
<1>3. {View(r, x).position : x \in Seen(r, q)} = 1..n
  <2>1. \A x \in GetQuestion(q) : View(r, x) = committed[x]
    BY Unlocked, Names DEF GetQuestion
  <2>. QED
    BY <1>1, <1>2, <2>1 DEF Numbers
<1>4. Greatest(1..n) \in (1..n) \cup {0} /\ \A k \in 1..n : k <= Greatest(1..n)
  <2>1. IsFiniteSet(1..n)
    BY FS_Interval
  <2>. QED
    BY <2>1, HasGreatest
<1>5. GetLatestVersionNumber(r, q) = Greatest(1..n)
  BY <1>3 DEF GetLatestVersionNumber, MaxPosition
<1>6. Greatest(1..n) = n
  BY <1>4
<1>. QED
  BY <1>1, <1>5, <1>6

LEMMA NamedRequest ==
    ASSUME IInv, NEW r \in Requests
    PROVE  /\ req[r] \in RequestType /\ req[r].row \in Ids \cup {None}
           /\ req[r].position \in Nat /\ req[r].order \in Seq(Ids)
           /\ req[r].todo \in Seq(Inserts \cup Updates) /\ Len(req[r].todo) \in Nat
           /\ req[r].pc \in Labels /\ req[r].new \in Ids \cup {None}
<1>1. req[r] \in RequestType
  BY DEF IInv
<1>. QED
  BY <1>1 DEF RequestType

\* The transaction of an insert that the request plans in the parent it named.
LEMMA PlanInsert ==
    ASSUME IInv, NEW r \in Requests, req[r].pc = "plan",
           NEW row \in RowType, row.parent = req[r].parent, PlanWrites(r, <<Insert(row)>>),
           req[r].op \in {"create", "duplicate", "version"}, InsertOK(Insert(row))
    PROVE  Moves(r)
<1>. DEFINE w == Insert(row)
<1>1. w \in Inserts /\ w.where = None /\ w.row = None /\ w.set = row
  BY DEF Insert, Inserts
<1>2. WriteOK(w)
  BY <1>1 DEF WriteOK
<1>. HIDE DEF w
<1>3. /\ <<w>> \in Seq(Inserts \cup Updates) /\ Len(<<w>>) = 1 /\ <<w>>[1] = w
      /\ \A j \in 1..1 : j = 1
  BY <1>1
<1>4. PlanWrites(r, <<w>>)
  BY DEF w
<1>5. \A j \in 1..Len(<<w>>) :
         WriteOK(<<w>>[j]) /\ (<<w>>[j].where = None => <<w>>[j].row = None)
  BY <1>1, <1>2, <1>3
<1>6. Len(<<w>>) >= 1 /\ <<w>>[1].where = None /\ <<w>>[1].set.parent = req[r].parent
  BY <1>1, <1>3
<1>7. req[r].op # "publish" /\ req[r].op # "reorder"
  OBVIOUS
<1>. QED
  BY <1>3, <1>4, <1>5, <1>6, <1>7, PlanMoves

LEMMA PlanChange ==
    ASSUME IInv, NEW r \in Requests, req[r].pc = "plan", NEW w \in Updates,
           PlanWrites(r, <<w>>), UpdateOK(w), req[r].op \in {"update", "delete", "publish"},
           req[r].op = "publish"
              => w = UpdateRow(req[r].row, StatusDraft, [status |-> StatusPublished])
    PROVE  Moves(r)
<1>1. w.where # None /\ WriteOK(w)
  BY Names DEF WriteOK, Updates
<1>2. /\ <<w>> \in Seq(Inserts \cup Updates) /\ Len(<<w>>) = 1 /\ <<w>>[1] = w
      /\ \A j \in 1..1 : j = 1
  OBVIOUS
<1>. QED
  BY <1>1, <1>2, PlanMoves

LEMMA PlanStepMoves ==
    ASSUME IInv, NEW r \in Requests, Plan(r)
    PROVE  Moves(r)
<1>. DEFINE q == req[r]
<1>1. q.pc = "plan" /\ NamedInv(r)
  BY DEF Plan, IInv, RequestInv
<1>2. /\ Assessment \in Parents /\ Sections \subseteq Parents /\ Questions \subseteq Parents
      /\ Lists \subseteq Parents /\ Lists \cap Questions = {} /\ Assessment \notin Sections
      /\ Lists = {Assessment} \cup Sections
  BY NamesAssumption DEF Parents, Lists
<1>3. ASSUME PlanCreate(r) PROVE Moves(r)
  <2>. DEFINE row == Row(q.parent, q.position, StatusActive, q.of)
  <2>1. /\ q.op = "create" /\ q.parent \in Lists
        /\ IF q.parent = Assessment THEN q.of = None ELSE Published(q.of)
    BY <1>1, <1>3 DEF PlanCreate, NamedInv, Ended
  <2>2. row \in RowType /\ InsertOK(Insert(row)) /\ row.parent = q.parent
    BY <1>2, <2>1, NamedRequest DEF Row, RowType, InsertOK, Insert, Published
  <2>. QED
    BY <1>1, <1>3, <2>1, <2>2, PlanInsert DEF PlanCreate
<1>4. ASSUME PlanDuplicate(r) PROVE Moves(r)
  <2>. DEFINE last == MaxPosition(r, Active(r, q.parent))
              row == Row(q.parent, last + 10, StatusActive, q.of)
  <2>1. /\ q.op = "duplicate" /\ q.parent \in Lists /\ q.parent \in Parents
        /\ IF q.parent = Assessment THEN q.of = None ELSE Published(q.of)
    BY <1>1, <1>2, <1>4 DEF PlanDuplicate, NamedInv, Ended
  <2>2. last \in Nat
    <3>. DEFINE A == Active(r, q.parent)
                f == [x \in A |-> View(r, x).position]
    <3>1. A \subseteq Ids /\ \A x \in A : View(r, x).position \in Nat
      BY <2>1, ActiveRow DEF RowType
    <3>2. f \in [A -> Nat]
      BY <3>1
    <3>3. IsFiniteSet({f[x] : x \in A})
      BY <3>1, <3>2, FiniteImage
    <3>4. last = Greatest({f[x] : x \in A}) /\ {f[x] : x \in A} \in SUBSET Nat
      BY <3>2 DEF MaxPosition
    <3>5. last \in {f[x] : x \in A} \cup {0}
      <4>. HIDE DEF f, last
      <4>. QED
        BY <3>3, <3>4, HasGreatest
    <3>. QED
      BY <3>4, <3>5
  <2>3. row \in RowType /\ InsertOK(Insert(row)) /\ row.parent = q.parent
    <3>. HIDE DEF last
    <3>. QED
      BY <1>2, <2>1, <2>2 DEF Row, RowType, InsertOK, Insert, Published
  <2>. QED
    BY <1>1, <1>4, <2>1, <2>3, PlanInsert DEF PlanDuplicate
<1>5. ASSUME PlanVersion(r) PROVE Moves(r)
  <2>. DEFINE latest == GetLatestVersionNumber(r, q.parent)
              row == Row(q.parent, latest + 1, q.of, None)
  <2>1. q.op = "version" /\ q.parent \in Questions /\ q.of \in {StatusDraft, StatusPublished}
    BY <1>1, <1>5 DEF PlanVersion, NamedInv, Ended
  <2>2. latest \in Nat /\ 1..latest \subseteq Numbers(q.parent)
    BY <1>1, <2>1, LatestNumber
  <2>3. row \in RowType /\ InsertOK(Insert(row)) /\ row.parent = q.parent
    <3>. HIDE DEF latest
    <3>1. latest + 1 - 1 = latest /\ latest + 1 >= 1 /\ latest + 1 \in Nat
      BY <2>2
    <3>2. row \in RowType /\ row.parent = q.parent /\ row.position = latest + 1
          /\ row.status = q.of /\ row.of = None
      BY <1>2, <2>1, <3>1 DEF Row, RowType
    <3>. HIDE DEF row
    <3>. QED
      BY <1>2, <2>1, <2>2, <3>1, <3>2 DEF InsertOK, Insert
  <2>. QED
    BY <1>1, <1>5, <2>1, <2>3, PlanInsert DEF PlanVersion
<1>6. ASSUME PlanUpdate(r) PROVE Moves(r)
  <2>. DEFINE set == IF q.of = None THEN [position |-> q.position]
                     ELSE [position |-> q.position, of |-> q.of]
              w == UpdateRow(q.row, StatusActive, set)
  <2>1. /\ q.op = "update" /\ q.row \in Sections \cup Items /\ committed[q.row] # None
        /\ q.of # None => q.row \in Items /\ Published(q.of)
    BY <1>1, <1>6 DEF PlanUpdate, NamedInv, Ended
  <2>2. q.row \in Ids \ Versions /\ q.position \in Nat /\ StatusActive # StatusDraft
    BY <2>1, NamesAssumption, NamedRequest, StatusNames DEF Ids
  <2>3. CASE q.of = None
    <3>1. w \in Updates /\ UpdateOK(w)
      BY <2>1, <2>2, <2>3 DEF UpdateRow, Updates, UpdateOK
    <3>. QED
      BY <1>1, <1>6, <2>1, <3>1, PlanChange DEF PlanUpdate
  <2>4. CASE q.of # None
    <3>1. w \in Updates /\ UpdateOK(w)
      BY <2>1, <2>2, <2>4 DEF UpdateRow, Updates, UpdateOK, Published
    <3>. QED
      BY <1>1, <1>6, <2>1, <3>1, PlanChange DEF PlanUpdate
  <2>. QED
    BY <2>3, <2>4
<1>7. ASSUME PlanArchive(r) PROVE Moves(r)
  <2>. DEFINE w == UpdateRow(q.row, StatusActive, [status |-> StatusArchived])
  <2>1. q.op = "delete" /\ q.row \in Sections \cup Items /\ committed[q.row] # None
    BY <1>1, <1>7 DEF PlanArchive, NamedInv, Ended
  <2>2. q.row \in Ids \ Versions /\ StatusActive # StatusDraft
    BY <2>1, NamesAssumption, StatusNames DEF Ids
  <2>3. w \in Updates /\ UpdateOK(w)
    BY <2>1, <2>2 DEF UpdateRow, Updates, UpdateOK
  <2>. QED
    BY <1>1, <1>7, <2>1, <2>3, PlanChange DEF PlanArchive
<1>8. ASSUME PlanPublish(r) PROVE Moves(r)
  <2>. DEFINE w == UpdateRow(q.row, StatusDraft, [status |-> StatusPublished])
  <2>1. q.op = "publish" /\ q.row \in Versions /\ committed[q.row] # None
    BY <1>1, <1>8 DEF PlanPublish, NamedInv, Ended
  <2>2. w \in Updates /\ UpdateOK(w)
    BY <2>1, Names, StatusNames DEF UpdateRow, Updates, UpdateOK
  <2>. QED
    BY <1>1, <1>8, <2>1, <2>2, PlanChange DEF PlanPublish
<1>9. ASSUME PlanReorder(r) PROVE Moves(r)
  <2>. DEFINE ids == q.order
              todo == [i \in DOMAIN ids |-> UpdatePosition(ids[i], 10 * i)]
  <2>1. /\ q.op = "reorder" /\ q.parent \in Parents /\ ToSet(ids) \subseteq Active(r, q.parent)
        /\ ids \in Seq(Ids)
    BY <1>1, <1>2, <1>9, NamedRequest DEF PlanReorder, CheckedOrder, NamedInv, Ended
  <2>2. ASSUME NEW j \in 1..Len(ids)
        PROVE  /\ todo[j] = UpdatePosition(ids[j], 10 * j) /\ todo[j] \in Updates
               /\ todo[j].where # None /\ WriteOK(todo[j])
    <3>1. ids[j] \in Active(r, q.parent) /\ j \in DOMAIN ids
      BY <2>1 DEF ToSet
    <3>2. ids[j] \in Ids \ Versions /\ committed[ids[j]] # None
      BY <1>1, <2>1, <3>1, ActiveRow, Unlocked
    <3>3. todo[j] = UpdatePosition(ids[j], 10 * j)
      BY <3>1
    <3>. HIDE DEF todo
    <3>4. todo[j] \in Updates /\ UpdateOK(todo[j]) /\ todo[j].where # None
      BY <3>2, <3>3, Names, StatusNames DEF UpdatePosition, Updates, UpdateOK
    <3>. QED
      BY <3>3, <3>4 DEF WriteOK
  <2>3. todo \in Seq(Inserts \cup Updates) /\ Len(todo) = Len(ids)
    <3>. HIDE DEF UpdatePosition
    <3>1. DOMAIN ids = 1..Len(ids) /\ Len(ids) \in Nat
      BY <2>1
    <3>2. todo \in [1..Len(ids) -> Inserts \cup Updates]
      BY <2>2, <3>1
    <3>. QED
      BY <3>1, <3>2
  <2>. HIDE DEF todo
  <2>4. PlanWrites(r, todo)
    BY <1>9 DEF PlanReorder, todo
  <2>. QED
    BY <1>1, <2>1, <2>2, <2>3, <2>4, PlanMoves
<1>. QED
  BY <1>3, <1>4, <1>5, <1>6, <1>7, <1>8, <1>9 DEF Plan

\* The items of a copied section go to the new section.
LEMMA CopyItemsMoves ==
    ASSUME IInv, NEW r \in Requests, CopyItems(r)
    PROVE  Moves(r)
<1>. DEFINE s == req[r].row
            copy(i) == Row(req[r].new, View(r, i).position, StatusActive, View(r, i).of)
            S == {Insert(copy(i)) : i \in Active(r, s)}
            todo == SetToSeq(S)
            q == [req[r] EXCEPT !.todo = todo, !.row = None, !.pc = "lock"]
<1>1. /\ req' = [req EXCEPT ![r] = q] /\ req'[r] = q /\ UNCHANGED tables
      /\ req[r].pc = "copy" /\ req[r] \in RequestType
  BY DEF CopyItems, Goto, IInv
<1>2. /\ req[r].op = "duplicate" /\ s \in Sections /\ s \in Parents /\ s # Assessment
      /\ req[r].parent = Assessment
  BY <1>1, NamesAssumption DEF IInv, RequestInv, NamedInv, Ended, Parents, OpNames
<1>3. req[r].new \in Sections
  <2>1. s # None
    BY <1>2, Names
  <2>2. req[r].new # None /\ (req[r].new # None => req[r].new \in Siblings(req[r].parent))
    BY <1>1, <1>2, <2>1 DEF IInv, RequestInv, HoldInv, Ended
  <2>. QED
    BY <1>2, <2>2 DEF Siblings
<1>4. ASSUME NEW i \in Active(r, s)
      PROVE  Insert(copy(i)) \in Inserts /\ InsertOK(Insert(copy(i))) /\ i \in Ids
  <2>1. /\ View(r, i) \in RowType /\ Published(View(r, i).of) /\ i \in Ids
    BY <1>2, ActiveRow
  <2>2. req[r].new \in Parents /\ req[r].new \notin Questions /\ req[r].new \in Sections
    BY <1>3, NamesAssumption DEF Parents
  <2>3. View(r, i).position \in Nat /\ View(r, i).of \in Versions
    BY <2>1 DEF RowType, Published
  <2>4. copy(i) \in RowType
    BY <2>2, <2>3 DEF Row, RowType
  <2>5. copy(i).parent = req[r].new /\ copy(i).status = StatusActive
        /\ copy(i).of = View(r, i).of
    BY DEF Row
  <2>. HIDE DEF copy
  <2>. QED
    BY <2>1, <2>2, <2>4, <2>5 DEF Insert, Inserts, InsertOK
<1>5. todo \in Seq(S)
  <2>. DEFINE f == [i \in Active(r, s) |-> Insert(copy(i))]
  <2>1. Active(r, s) \in SUBSET Ids /\ f \in [Active(r, s) -> Inserts]
    BY <1>4
  <2>2. S = {f[i] : i \in Active(r, s)}
    OBVIOUS
  <2>. HIDE DEF f, S
  <2>. QED
    BY <2>1, <2>2, FiniteImage, Listed
<1>6. \A w \in S : w \in Inserts /\ w.where = None /\ w.row = None /\ WriteOK(w)
  BY <1>4 DEF Insert, WriteOK
<1>. HIDE DEF S, todo
<1>7. todo \in Seq(Inserts \cup Updates) /\ Len(todo) \in Nat
      /\ \A j \in 1..Len(todo) : todo[j] \in S
  BY <1>5, <1>6
<1>8. q \in RequestType
  BY <1>1, <1>7 DEF RequestType, Labels
<1>9. /\ q.op = req[r].op /\ q.parent = req[r].parent /\ q.row = None /\ q.of = req[r].of
      /\ q.todo = todo /\ q.pc = "lock"
  BY <1>1 DEF RequestType
<1>. HIDE DEF q
<1>10. \A v : Published(v)' = Published(v) /\ Numbers(v)' = Numbers(v)
  BY <1>1 DEF tables, Published, Numbers, GetQuestion
<1>11. NamedInv(r)'
  BY <1>1, <1>2, <1>9, <1>10, Names DEF NamedInv, IInv, RequestInv, Ended, Lists
<1>12. TodoInv(r)'
  <2>1. \A w \in S : WriteOK(w)'
    BY <1>1, <1>6, <1>10 DEF WriteOK, InsertOK, UpdateOK, tables
  <2>. QED
    BY <1>1, <1>6, <1>7, <1>9, <2>1 DEF TodoInv
<1>13. HoldInv(r)' /\ PublishInv(r)' /\ ReorderInv(r)'
  BY <1>1, <1>2, <1>9 DEF HoldInv, PublishInv, ReorderInv, Ended
<1>. QED
  BY <1>1, <1>2, <1>8, <1>9, <1>11, <1>12, <1>13, StillTables DEF Moves, IInv, RequestInv

LEMMA EndOfWritesMoves ==
    ASSUME IInv, NEW r \in Requests, EndOfWrites(r)
    PROVE  Moves(r)
<1>1. PICK label \in {"copy", "commit"} :
         label = IF req[r].op = "duplicate" /\ req[r].row \in Sections THEN "copy" ELSE "commit"
  OBVIOUS
<1>. DEFINE q == [req[r] EXCEPT !.pc = label]
<1>2. /\ req' = [req EXCEPT ![r] = q] /\ req'[r] = q /\ UNCHANGED tables
      /\ req[r].pc = "lock" /\ req[r].todo = << >> /\ req[r] \in RequestType
  BY <1>1 DEF EndOfWrites, Goto, IInv
<1>3. q \in RequestType
  BY <1>2 DEF RequestType, Labels
<1>4. /\ q.op = req[r].op /\ q.parent = req[r].parent /\ q.row = req[r].row /\ q.of = req[r].of
      /\ q.todo = << >> /\ q.pc = label /\ q.new = req[r].new /\ q.order = req[r].order
      /\ Len(<< >>) = 0
  BY <1>2 DEF RequestType
<1>. HIDE DEF q
<1>5. \A v : Published(v)' = Published(v) /\ Archived(v)' = Archived(v)
  BY <1>2 DEF tables, Published, Archived
<1>6. NamedInv(r)'
  BY <1>1, <1>2, <1>4, <1>5 DEF NamedInv, IInv, RequestInv, Ended, tables
<1>7. TodoInv(r)'
  BY <1>2, <1>4 DEF TodoInv
<1>8. HoldInv(r)'
  BY <1>1, <1>2, <1>4 DEF HoldInv, IInv, RequestInv, Ended
<1>9. PublishInv(r)'
  BY <1>1, <1>2, <1>4 DEF PublishInv, IInv, RequestInv, tables
<1>10. ReorderInv(r)'
  <2>1. \A x, k : Placed(r, x, k)' = Placed(r, x, k)
    BY <1>2, <1>5 DEF Placed, tables
  <2>2. ASSUME q.op = "reorder"
        PROVE  /\ Len(q.todo) <= Len(q.order)
               /\ \A x \in Ids : owner[x] = r /\ written[x] # None
                                    => written[x].status = StatusActive
               /\ IsInjective(q.order) => \A i \in 1..(Len(q.order) - Len(q.todo)) :
                                              Placed(r, q.order[i], 10 * i)
    <3>1. req[r].op = "reorder" /\ req[r].pc = "lock" /\ ReorderInv(r)
          /\ q.order = req[r].order /\ q.todo = req[r].todo
      BY <1>2, <1>4, <2>2 DEF IInv, RequestInv
    <3>. QED
      BY <3>1 DEF ReorderInv
  <2>3. \A j \in 1..Len(q.todo) : FALSE
    BY <1>4
  <2>4. ASSUME q.op = "reorder", IsInjective(q.order),
               NEW i \in 1..(Len(q.order) - Len(q.todo))
        PROVE  Placed(r, req[r].order[i], 10 * i)'
    BY <1>2, <2>1, <2>2, <2>4
  <2>. HIDE DEF Placed
  <2>. QED
    BY <1>2, <2>2, <2>3, <2>4 DEF ReorderInv, tables
<1>. QED
  BY <1>1, <1>2, <1>3, <1>4, <1>6, <1>7, <1>8, <1>9, <1>10, StillTables
     DEF Moves, IInv, RequestInv

-----------------------------------------------------------------------------
(* Steps that lock and write *)

\* The write a request is about to do.
LEMMA FirstWrite ==
    ASSUME IInv, NEW r \in Requests, req[r].todo # << >>
    PROVE  LET w == Head(req[r].todo) IN
           /\ w = req[r].todo[1] /\ Len(req[r].todo) >= 1 /\ 1 \in 1..Len(req[r].todo)
           /\ w.where = None => w \in Inserts /\ InsertOK(w)
           /\ w.where # None => w \in Updates /\ w.row \in Ids /\ w.row # None /\ UpdateOK(w)
           /\ req[r].pc = "lock" => (w.where = None <=> w.row = None)
           /\ req[r].pc \in {"lock", "index"}
<1>. DEFINE todo == req[r].todo
            w == Head(todo)
<1>1. todo \in Seq(Inserts \cup Updates) /\ todo # << >> /\ req[r].pc \in Labels
  BY NamedRequest
<1>2. w = todo[1] /\ w \in Inserts \cup Updates /\ Len(todo) >= 1 /\ 1 \in 1..Len(todo)
  BY <1>1
<1>3. /\ WriteOK(w) /\ req[r].pc \in {"lock", "index"}
      /\ w.where = None /\ w.row # None => req[r].pc = "index"
  BY <1>1, <1>2 DEF IInv, RequestInv, TodoInv
<1>4. w.where = None => w \in Inserts
  BY <1>2, Names DEF Updates
<1>5. w.where # None => w \in Updates /\ w.row \in Ids
  BY <1>2 DEF Inserts, Updates
<1>6. WriteOK(w) => IF w.where = None THEN InsertOK(w) ELSE UpdateOK(w)
  BY DEF WriteOK
<1>. HIDE DEF w
<1>7. req[r].pc = "lock" => (w.where = None <=> w.row = None)
  BY <1>3, <1>5, Names
<1>8. w.where # None => w.row # None
  BY <1>5, Names
<1>. QED
  BY <1>2, <1>3, <1>4, <1>5, <1>6, <1>7, <1>8 DEF w

\* How a list with a writes, of which b are left, is counted.
LEMMA Counting ==
    ASSUME NEW a \in Nat, NEW b \in Nat, b >= 1, b <= a
    PROVE  /\ 1 \in 1..b /\ a - b + 1 \in 1..a /\ b - 1 <= a /\ a - (b - 1) = a - b + 1
           /\ \A n, j \in Int : n = a - b + 1 => a - b + (j + 1) = n + j
           /\ \A i \in 1..(a - b + 1) : i # a - b + 1 => i \in 1..(a - b) /\ i \in 1..a
OBVIOUS

\* The publication and the reorder a request is about to write for.
LEMMA FirstOfMany ==
    ASSUME IInv, NEW r \in Requests, req[r].todo # << >>
    PROVE  LET q == req[r]
               w == Head(q.todo)
               n == Len(q.order) - Len(q.todo) + 1
           IN
           /\ q.op = "publish" =>
                 /\ w = UpdateRow(q.row, StatusDraft, [status |-> StatusPublished])
                 /\ Tail(q.todo) = << >>
           /\ q.op = "reorder" =>
                 /\ n \in 1..Len(q.order) /\ w = UpdatePosition(q.order[n], 10 * n)
                 /\ \A x \in Ids : owner[x] = r /\ written[x] # None
                                      => written[x].status = StatusActive
<1>. DEFINE q == req[r]
            w == Head(q.todo)
            n == Len(q.order) - Len(q.todo) + 1
<1>1. /\ w = q.todo[1] /\ Len(q.todo) >= 1 /\ q.pc \in {"lock", "index"}
      /\ PublishInv(r) /\ ReorderInv(r)
      /\ Len(q.todo) \in Nat /\ q.order \in Seq(Ids) /\ Len(q.order) \in Nat
  BY FirstWrite, NamedRequest DEF IInv, RequestInv
<1>2. ASSUME q.op = "publish"
      PROVE  /\ w = UpdateRow(q.row, StatusDraft, [status |-> StatusPublished])
             /\ Tail(q.todo) = << >>
  <2>1. q.todo = <<UpdateRow(q.row, StatusDraft, [status |-> StatusPublished])>>
    BY <1>1, <1>2 DEF PublishInv
  <2>. HIDE DEF UpdateRow
  <2>. QED
    BY <2>1
<1>3. ASSUME q.op = "reorder"
      PROVE  /\ n \in 1..Len(q.order) /\ w = UpdatePosition(q.order[n], 10 * n)
             /\ \A x \in Ids : owner[x] = r /\ written[x] # None
                                  => written[x].status = StatusActive
  <2>1. /\ Len(q.todo) <= Len(q.order)
        /\ \A j \in 1..Len(q.todo) :
              q.todo[j] = UpdatePosition(q.order[Len(q.order) - Len(q.todo) + j],
                                         10 * (Len(q.order) - Len(q.todo) + j))
        /\ \A x \in Ids : owner[x] = r /\ written[x] # None => written[x].status = StatusActive
    BY <1>1, <1>3 DEF ReorderInv
  <2>2. 1 \in 1..Len(q.todo) /\ n \in 1..Len(q.order)
    BY <1>1, <2>1, Counting
  <2>3. q.todo[1] = UpdatePosition(q.order[n], 10 * n)
    BY <2>1, <2>2
  <2>. QED
    BY <1>1, <2>1, <2>2, <2>3
<1>. QED
  BY <1>2, <1>3

\* The first write is done, or not to be done, and the others are left.
LEMMA TailInv ==
    ASSUME IInv, NEW r \in Requests, req[r].todo # << >>, UNCHANGED committed,
           req' = [req EXCEPT ![r] = [req[r] EXCEPT !.todo = Tail(@), !.pc = "lock"]],
           \A x \in Ids : owner'[x] = r <=> owner[x] = r,
           LET q == req[r] IN q.op = "publish" =>
              /\ owner'[q.row] = r /\ written'[q.row] # None
              /\ written'[q.row].status = StatusPublished,
           req[r].pc = "index" \/ Head(req[r].todo).where # None,
           NEW n, n = Len(req[r].order) - Len(req[r].todo) + 1, NEW y, y = Head(req[r].todo).row,
           req[r].op = "reorder" =>
              /\ Placed(r, y, 10 * n)' /\ \A x \in Ids \ {y} : written'[x] = written[x]
              /\ \A x \in Ids : owner[x] = r /\ written'[x] # None
                                   => written'[x].status = StatusActive
    PROVE  /\ RequestInv(r)'
           /\ \E q \in RequestType : q.pc = "lock" /\ req' = [req EXCEPT ![r] = q]
<1>0. PICK p, q : p = req[r] /\ q = [p EXCEPT !.todo = Tail(@), !.pc = "lock"]
  OBVIOUS
<1>1. /\ p \in RequestType /\ p.todo \in Seq(Inserts \cup Updates) /\ p.todo # << >>
      /\ p.pc \in {"lock", "index"} /\ p.order \in Seq(Ids) /\ Len(p.order) \in Nat
  BY <1>0, NamedRequest, FirstWrite
<1>2. /\ Tail(p.todo) \in Seq(Inserts \cup Updates) /\ Len(Tail(p.todo)) = Len(p.todo) - 1
      /\ Len(p.todo) \in Nat /\ Len(p.todo) >= 1
      /\ \A j \in 1..Len(Tail(p.todo)) : Tail(p.todo)[j] = p.todo[j + 1]
                                         /\ j + 1 \in 1..Len(p.todo) /\ j + 1 # 1
  BY <1>1
<1>3. q \in RequestType
  BY <1>0, <1>1, <1>2 DEF RequestType, Labels
<1>4. /\ q.op = p.op /\ q.parent = p.parent /\ q.row = p.row /\ q.of = p.of
      /\ q.todo = Tail(p.todo) /\ q.pc = "lock" /\ q.new = p.new /\ q.order = p.order
  BY <1>0, <1>1 DEF RequestType
<1>5. req' = [req EXCEPT ![r] = q] /\ req'[r] = q /\ req[r] = p
  BY <1>0 DEF IInv
<1>6. \A v : Published(v)' = Published(v) /\ Numbers(v)' = Numbers(v) /\ Archived(v)' = Archived(v)
  BY DEF Published, Numbers, GetQuestion, Archived
<1>7. NamedInv(r)'
  BY <1>1, <1>4, <1>5, <1>6 DEF NamedInv, IInv, RequestInv, Ended
<1>8. TodoInv(r)'
  <2>1. ASSUME NEW j \in 1..Len(q.todo)
        PROVE  WriteOK(q.todo[j])' /\ (q.todo[j].where = None => q.todo[j].row = None)
    <3>1. q.todo[j] = p.todo[j + 1] /\ j + 1 \in 1..Len(p.todo) /\ j + 1 # 1
      BY <1>2, <1>4
    <3>2. WriteOK(p.todo[j + 1]) /\ (p.todo[j + 1].where = None => p.todo[j + 1].row = None)
      BY <1>5, <3>1 DEF IInv, RequestInv, TodoInv
    <3>3. \A v : WriteOK(v) => WriteOK(v)'
      BY <1>6 DEF WriteOK, InsertOK, UpdateOK
    <3>. QED
      BY <1>5, <3>1, <3>2, <3>3
  <2>. QED
    BY <1>4, <1>5, <2>1 DEF TodoInv
<1>9. HoldInv(r)'
  <2>1. ASSUME q.op = "duplicate", q.row # None
        PROVE  /\ q.new # None => q.new \in Siblings(q.parent)
               /\ q.new = None => FALSE
    <3>1. HoldInv(r) /\ p.pc \notin Ended /\ p.op = "duplicate" /\ p.row # None
      BY <1>1, <1>4, <2>1 DEF IInv, RequestInv, Ended
    <3>2. p.new # None => p.new \in Siblings(p.parent)
      BY <1>5, <3>1 DEF HoldInv
    <3>3. p.new = None => p.pc = "lock" /\ p.todo[1].where = None
      BY <1>1, <1>5, <3>1 DEF HoldInv
    <3>4. p.todo[1] = Head(p.todo)
      BY <1>1
    <3>. QED
      BY <1>4, <1>5, <3>2, <3>3, <3>4
  <2>. QED
    BY <1>4, <1>5, <2>1 DEF HoldInv, Ended
<1>10. PublishInv(r)'
  <2>1. q.op = "publish" => q.todo = << >>
    BY <1>4, <1>5, FirstOfMany
  <2>. QED
    BY <1>4, <1>5, <2>1 DEF PublishInv
<1>11. ReorderInv(r)'
  <2>1. ASSUME q.op = "reorder"
        PROVE  /\ n \in 1..Len(p.order) /\ Len(p.order) - Len(q.todo) = n
               /\ Len(q.todo) <= Len(q.order) /\ y = p.order[n] /\ Len(p.todo) <= Len(p.order)
    <3>1. n \in 1..Len(p.order) /\ Head(p.todo) = UpdatePosition(p.order[n], 10 * n)
      BY <1>4, <1>5, <2>1, FirstOfMany
    <3>2. Len(p.todo) <= Len(p.order)
      BY <1>1, <1>4, <1>5, <2>1 DEF IInv, RequestInv, ReorderInv
    <3>3. Len(p.order) - Len(q.todo) = n /\ Len(q.todo) <= Len(q.order)
      <4>. DEFINE a == Len(p.order)
                  b == Len(p.todo)
      <4>1. /\ a \in Nat /\ b \in Nat /\ b >= 1 /\ b <= a /\ Len(q.todo) = b - 1
            /\ Len(q.order) = a /\ n = a - b + 1
        BY <1>1, <1>2, <1>4, <1>5, <3>2
      <4>. HIDE DEF a, b
      <4>2. a - (b - 1) = n /\ b - 1 <= a
        BY <4>1, Counting
      <4>. QED
        BY <4>1, <4>2 DEF a, b
    <3>4. y = p.order[n]
      <4>1. UpdatePosition(p.order[n], 10 * n).row = p.order[n]
        BY DEF UpdatePosition
      <4>. QED
        BY <1>5, <3>1, <4>1
    <3>. QED
      BY <3>1, <3>2, <3>3, <3>4
  <2>2. ASSUME q.op = "reorder", NEW j \in 1..Len(q.todo)
        PROVE  q.todo[j] = UpdatePosition(q.order[n + j], 10 * (n + j))
    <3>1. q.todo[j] = p.todo[j + 1] /\ j + 1 \in 1..Len(p.todo)
      BY <1>2, <1>4
    <3>2. p.todo[j + 1] = UpdatePosition(p.order[Len(p.order) - Len(p.todo) + (j + 1)],
                                         10 * (Len(p.order) - Len(p.todo) + (j + 1)))
      BY <1>1, <1>4, <1>5, <2>2, <3>1 DEF IInv, RequestInv, ReorderInv
    <3>3. Len(p.order) - Len(p.todo) + (j + 1) = n + j
      <4>. DEFINE a == Len(p.order)
                  b == Len(p.todo)
      <4>1. a \in Nat /\ b \in Nat /\ b >= 1 /\ b <= a /\ n = a - b + 1
        BY <1>1, <1>2, <1>4, <1>5, <2>1, <2>2
      <4>2. j \in Nat
        BY <1>2, <1>4, <2>2
      <4>. HIDE DEF a, b
      <4>3. n \in Int /\ j \in Int
        BY <4>1, <4>2
      <4>4. a - b + (j + 1) = n + j
        BY <4>1, <4>3, Counting
      <4>. QED
        BY <4>4 DEF a, b
    <3>. QED
      BY <1>4, <3>1, <3>2, <3>3
  <2>3. ASSUME q.op = "reorder", IsInjective(q.order), NEW i \in 1..n
        PROVE  Placed(r, q.order[i], 10 * i)'
    <3>1. CASE i = n
      BY <1>4, <1>5, <2>1, <2>3, <3>1
    <3>2. CASE i # n
      <4>1. i \in 1..(Len(p.order) - Len(p.todo)) /\ n \in 1..Len(p.order)
            /\ i \in 1..Len(p.order)
        BY <1>1, <1>2, <1>5, <2>1, <2>3, <3>2, Counting
      <4>2. Placed(r, p.order[i], 10 * i)
        BY <1>1, <1>4, <1>5, <2>3, <4>1 DEF IInv, RequestInv, ReorderInv
      <4>3. p.order[i] \in Ids \ {y}
        <5>1. DOMAIN p.order = 1..Len(p.order) /\ p.order[i] \in Ids
          BY <1>1, <4>1
        <5>2. IsInjective(p.order) /\ y = p.order[n]
          BY <1>4, <2>1, <2>3
        <5>3. p.order[i] # p.order[n]
          BY <3>2, <4>1, <5>1, <5>2 DEF IsInjective
        <5>. QED
          BY <5>1, <5>2, <5>3
      <4>4. written'[p.order[i]] = written[p.order[i]]
            /\ (owner'[p.order[i]] = r <=> owner[p.order[i]] = r)
        BY <1>4, <1>5, <2>3, <4>3
      <4>5. Placed(r, p.order[i], 10 * i) => Placed(r, p.order[i], 10 * i)'
        BY <1>6, <4>4 DEF Placed
      <4>. QED
        BY <1>4, <4>2, <4>5
    <3>. QED
      BY <3>1, <3>2
  <2>. HIDE DEF Placed
  <2>4. ASSUME q.op = "reorder", IsInjective(q.order), NEW i \in 1..n
        PROVE  Placed(r, req[r].order[i], 10 * i)'
    BY <1>5, <2>3, <2>4
  <2>5. ASSUME q.op = "reorder"
        PROVE  /\ Len(q.todo) <= Len(q.order)
               /\ \A x \in Ids : owner'[x] = r /\ written'[x] # None
                                    => written'[x].status = StatusActive
               /\ Len(q.order) - Len(q.todo) = n
    BY <1>4, <1>5, <2>1, <2>5
  <2>6. SUFFICES ASSUME q.op = "reorder" PROVE ReorderInv(r)'
    BY <1>5 DEF ReorderInv
  <2>. QED
    BY <1>5, <2>2, <2>4, <2>5, <2>6 DEF ReorderInv
<1>. QED
  BY <1>3, <1>4, <1>5, <1>7, <1>8, <1>9, <1>10, <1>11 DEF RequestInv

LEMMA LockRowMoves ==
    ASSUME IInv, NEW r \in Requests, LockRow(r)
    PROVE  Moves(r)
<1>1. PICK p, w : p = req[r] /\ w = Head(p.todo)
  OBVIOUS
<1>2. /\ p.pc = "lock" /\ p.todo # << >> /\ w.row # None /\ owner[w.row] \in {None, r}
      /\ p \in RequestType /\ p.todo \in Seq(Inserts \cup Updates)
  BY <1>1, NamedRequest DEF LockRow, HoldsOrFree
<1>3. /\ w \in Updates /\ w.row \in Ids /\ UpdateOK(w) /\ w.where # None
      /\ w = p.todo[1] /\ Len(p.todo) >= 1
  BY <1>1, <1>2, FirstWrite
<1>4. CASE View(r, w.row).status = w.where /\ Reserve(r, w.row)
           /\ Goto(r, [req[r] EXCEPT !.pc = "index"]) /\ UNCHANGED <<committed, written>>
  <2>1. PICK q : q = [p EXCEPT !.pc = "index"]
    OBVIOUS
  <2>2. q \in RequestType
    BY <1>2, <2>1 DEF RequestType, Labels
  <2>3. /\ q.op = p.op /\ q.parent = p.parent /\ q.row = p.row /\ q.of = p.of
        /\ q.todo = p.todo /\ q.pc = "index" /\ q.new = p.new /\ q.order = p.order
    BY <1>2, <2>1 DEF RequestType
  <2>4. req' = [req EXCEPT ![r] = q] /\ req'[r] = q /\ req[r] = p
    BY <1>1, <1>4, <2>1 DEF Goto, IInv
  <2>5. TableInv' /\ \A s \in Requests \ {r} : Keeps(s)
    BY <1>2, <1>3, <1>4, TakeTables DEF IInv
  <2>6. /\ owner'[w.row] = r
        /\ \A x \in Ids : /\ owner[x] = r => owner'[x] = r
                          /\ written[x] # None => (owner'[x] = r <=> owner[x] = r)
    BY <1>2, <1>3, <1>4, Names DEF Reserve, IInv, TableInv, RowsInv, WrittenInv
  <2>7. \A v : Published(v)' = Published(v) /\ Numbers(v)' = Numbers(v)
               /\ Archived(v)' = Archived(v)
    BY <1>4 DEF Published, Numbers, GetQuestion, Archived
  <2>8. NamedInv(r)'
    BY <1>2, <1>4, <2>3, <2>4, <2>7 DEF NamedInv, IInv, RequestInv, Ended
  <2>9. TodoInv(r)'
    <3>1. \A u : WriteOK(u) => WriteOK(u)'
      BY <1>4, <2>7 DEF WriteOK, InsertOK, UpdateOK
    <3>2. \A j \in 1..Len(p.todo) : /\ WriteOK(p.todo[j])
                                    /\ p.todo[j].where = None => p.todo[j].row = None
      BY <1>2, <2>4 DEF IInv, RequestInv, TodoInv
    <3>3. \A j \in 1..Len(p.todo) : WriteOK(p.todo[j])'
      BY <3>1, <3>2
    <3>4. \A j \in 1..Len(p.todo) : WriteOK(req[r].todo[j])'
      BY <2>3, <2>4, <3>3
    <3>. QED
      BY <2>3, <2>4, <3>2, <3>4 DEF TodoInv
  <2>10. HoldInv(r)'
    <3>1. View(r, w.row)' = View(r, w.row)
      BY <1>2, <1>3, <1>4, <2>6, Names DEF View, IInv, TableInv, WrittenInv
    <3>2. View(r, req[r].todo[1].row)' = View(r, w.row)
      BY <1>3, <2>3, <2>4, <3>1
    <3>3. ASSUME q.op = "duplicate", q.row # None
          PROVE  q.new # None /\ q.new \in Siblings(q.parent)
      <4>1. HoldInv(r) /\ p.pc \notin Ended /\ p.op = "duplicate" /\ p.row # None
        BY <1>2, <2>3, <3>3 DEF IInv, RequestInv, Ended
      <4>2. p.new # None => p.new \in Siblings(p.parent)
        BY <2>4, <4>1 DEF HoldInv
      <4>3. p.new = None => p.todo[1].where = None
        BY <1>2, <2>4, <4>1 DEF HoldInv
      <4>. QED
        BY <1>3, <2>3, <4>2, <4>3
    <3>. QED
      BY <1>3, <1>4, <2>3, <2>4, <2>6, <3>2, <3>3 DEF HoldInv, Ended
  <2>11. PublishInv(r)'
    BY <1>2, <2>3, <2>4 DEF PublishInv, IInv, RequestInv
  <2>12. ReorderInv(r)'
    <3>1. \A x \in Ids : \A k : Placed(r, x, k) => Placed(r, x, k)'
      BY <1>4, <2>6, <2>7 DEF Placed
    <3>2. ASSUME q.op = "reorder"
          PROVE  /\ Len(q.todo) <= Len(q.order)
                 /\ \A x \in Ids : owner'[x] = r /\ written'[x] # None
                                      => written'[x].status = StatusActive
                 /\ \A j \in 1..Len(q.todo) :
                       q.todo[j] = UpdatePosition(q.order[Len(q.order) - Len(q.todo) + j],
                                                  10 * (Len(q.order) - Len(q.todo) + j))
                 /\ IsInjective(q.order) => \A i \in 1..(Len(q.order) - Len(q.todo)) :
                                                Placed(r, q.order[i], 10 * i)
      BY <1>2, <1>4, <2>3, <2>4, <2>6, <3>2 DEF IInv, RequestInv, ReorderInv
    <3>3. ASSUME q.op = "reorder", IsInjective(q.order),
                 NEW i \in 1..(Len(q.order) - Len(q.todo))
          PROVE  Placed(r, req[r].order[i], 10 * i)'
      <4>1. q.order \in Seq(Ids) /\ i \in 1..Len(q.order)
        BY <1>2, <2>3, <3>2, <3>3 DEF RequestType
      <4>2. q.order[i] \in Ids
        BY <4>1
      <4>3. Placed(r, q.order[i], 10 * i)'
        BY <3>1, <3>2, <3>3, <4>2
      <4>. QED
        BY <2>4, <4>3
    <3>. HIDE DEF Placed
    <3>. QED
      BY <2>4, <3>2, <3>3 DEF ReorderInv
  <2>. QED
    BY <2>2, <2>3, <2>4, <2>5, <2>8, <2>9, <2>10, <2>11, <2>12 DEF Moves, RequestInv
<1>5. CASE Abort(r)
  BY <1>5, AbortMoves
<1>6. CASE View(r, w.row).status # w.where /\ ~w.must
           /\ Goto(r, [req[r] EXCEPT !.todo = Tail(@)]) /\ UNCHANGED tables
  <2>1. req' = [req EXCEPT ![r] = [req[r] EXCEPT !.todo = Tail(@), !.pc = "lock"]]
    BY <1>1, <1>2, <1>6 DEF Goto, RequestType
  <2>2. PICK n : n = Len(req[r].order) - Len(req[r].todo) + 1
    OBVIOUS
  <2>3. ASSUME req[r].op = "publish" PROVE FALSE
    <3>1. w = UpdateRow(p.row, StatusDraft, [status |-> StatusPublished])
      BY <1>1, <1>2, <2>3, FirstOfMany
    <3>2. w.must
      BY <3>1 DEF UpdateRow
    <3>. QED
      BY <1>6, <3>2
  <2>4. ASSUME req[r].op = "reorder"
        PROVE  /\ Placed(r, w.row, 10 * n)'
               /\ \A x \in Ids : owner[x] = r /\ written[x] # None
                                    => written[x].status = StatusActive
    <3>1. /\ w.where = StatusActive
          /\ \A x \in Ids : owner[x] = r /\ written[x] # None => written[x].status = StatusActive
      <4>1. /\ w = UpdatePosition(p.order[n], 10 * n)
            /\ \A x \in Ids : owner[x] = r /\ written[x] # None
                                 => written[x].status = StatusActive
        BY <1>1, <1>2, <2>2, <2>4, FirstOfMany
      <4>. QED
        BY <4>1 DEF UpdatePosition
    <3>2. View(r, w.row) = committed[w.row]
      BY <1>3, <1>6, <3>1 DEF View
    <3>3. committed[w.row] # None /\ w.row \notin Versions
      BY <1>3, <3>1 DEF UpdateOK
    <3>4. Archived(w.row)
      BY <1>3, <1>6, <3>1, <3>2, <3>3 DEF Archived, IInv, TableInv, RowsInv, RowOK
    <3>. QED
      BY <1>6, <3>1, <3>4 DEF Placed, Archived, tables
  <2>5. RequestInv(r)' /\ \E q \in RequestType : q.pc = "lock" /\ req' = [req EXCEPT ![r] = q]
    BY <1>1, <1>2, <1>3, <1>6, <2>1, <2>2, <2>3, <2>4, TailInv DEF tables
  <2>6. req'[r].pc = "lock"
    BY <2>5 DEF IInv
  <2>. QED
    BY <1>6, <2>5, <2>6, StillTables DEF Moves, IInv
<1>. QED
  BY <1>1, <1>4, <1>5, <1>6 DEF LockRow

LEMMA NewRowMoves ==
    ASSUME IInv, NEW r \in Requests, NewRow(r)
    PROVE  Moves(r)
<1>1. PICK p, w, x : /\ p = req[r] /\ w = Head(p.todo)
                     /\ x = CHOOSE y \in Unused(Siblings(w.set.parent)) : TRUE
  OBVIOUS
<1>2. /\ p.pc = "lock" /\ p.todo # << >> /\ w.row = None /\ p \in RequestType
      /\ p.todo \in Seq(Inserts \cup Updates) /\ p.new \in Ids \cup {None}
      /\ x \in Siblings(w.set.parent) /\ committed[x] = None /\ owner[x] = None
      /\ Reserve(r, x) /\ UNCHANGED <<committed, written>>
  BY <1>1, NamedRequest DEF NewRow, Unused
<1>3. w = p.todo[1] /\ Len(p.todo) >= 1 /\ w.where = None /\ w \in Inserts /\ InsertOK(w)
      /\ Len(p.todo) \in Nat
  BY <1>1, <1>2, FirstWrite
<1>4. x \in Ids /\ x # None
  BY <1>2, Names DEF Siblings, Ids
<1>5. PICK v, todo, q :
         /\ v = [w EXCEPT !.row = x] /\ todo = <<v>> \o Tail(p.todo)
         /\ q = [p EXCEPT !.todo = todo, !.new = IF p.new = None THEN x ELSE p.new,
                          !.pc = "index"]
  OBVIOUS
<1>6. v \in Inserts /\ v.where = None /\ v.row = x /\ v.set = w.set
  BY <1>3, <1>4, <1>5 DEF Inserts
<1>7. /\ todo \in Seq(Inserts \cup Updates) /\ Len(todo) = Len(p.todo)
      /\ \A j \in 1..Len(todo) : todo[j] = IF j = 1 THEN v ELSE p.todo[j]
  BY <1>2, <1>5, <1>6
<1>8. q \in RequestType
  BY <1>2, <1>4, <1>5, <1>7 DEF RequestType, Labels
<1>9. /\ q.op = p.op /\ q.parent = p.parent /\ q.row = p.row /\ q.of = p.of
      /\ q.todo = todo /\ q.pc = "index" /\ q.new = (IF p.new = None THEN x ELSE p.new)
  BY <1>2, <1>5 DEF RequestType
<1>10. req' = [req EXCEPT ![r] = q] /\ req'[r] = q /\ req[r] = p
  BY <1>1, <1>5 DEF NewRow, Goto, IInv
<1>11. TableInv' /\ \A s \in Requests \ {r} : Keeps(s)
  BY <1>2, <1>4, TakeTables DEF IInv
<1>12. owner'[x] = r
  BY <1>2, <1>4 DEF Reserve, IInv, TableInv, RowsInv
<1>13. \A u : Published(u)' = Published(u) /\ Numbers(u)' = Numbers(u)
  BY <1>2 DEF Published, Numbers, GetQuestion
<1>14. NamedInv(r)'
  BY <1>2, <1>9, <1>10, <1>13 DEF NamedInv, IInv, RequestInv, Ended
<1>15. TodoInv(r)'
  <2>1. \A u : WriteOK(u) => WriteOK(u)'
    BY <1>2, <1>13 DEF WriteOK, InsertOK, UpdateOK
  <2>2. WriteOK(v)
    BY <1>3, <1>6 DEF WriteOK, InsertOK
  <2>3. \A j \in 1..Len(p.todo) : /\ WriteOK(p.todo[j])
                                  /\ p.todo[j].where = None => p.todo[j].row = None
    BY <1>2, <1>10 DEF IInv, RequestInv, TodoInv
  <2>4. \A j \in 1..Len(todo) : /\ WriteOK(todo[j])
                                /\ todo[j].where = None /\ todo[j].row # None => j = 1
    BY <1>7, <2>2, <2>3
  <2>5. \A j \in 1..Len(todo) : WriteOK(todo[j])'
    BY <2>1, <2>4
  <2>6. \A j \in 1..Len(todo) : WriteOK(req[r].todo[j])'
    BY <1>9, <1>10, <2>5
  <2>. QED
    BY <1>9, <1>10, <2>4, <2>6 DEF TodoInv
<1>16. HoldInv(r)'
  <2>1. q.todo[1] = v /\ Len(q.todo) >= 1
    BY <1>3, <1>7, <1>9
  <2>2. ASSUME q.op = "duplicate", q.row # None
        PROVE  q.new # None /\ q.new \in Siblings(q.parent)
    <3>1. HoldInv(r) /\ p.pc \notin Ended /\ p.op = "duplicate" /\ p.row # None
      BY <1>2, <1>9, <1>10, <2>2 DEF IInv, RequestInv, Ended
    <3>2. p.new # None => p.new \in Siblings(p.parent)
      BY <1>10, <3>1 DEF HoldInv
    <3>3. p.new = None => p.todo[1].set.parent = p.parent
      BY <1>2, <1>10, <3>1 DEF HoldInv
    <3>. QED
      BY <1>2, <1>3, <1>4, <1>9, <3>2, <3>3
  <2>. QED
    BY <1>2, <1>4, <1>6, <1>9, <1>10, <1>12, <2>1, <2>2 DEF HoldInv, Ended
<1>17. PublishInv(r)' /\ ReorderInv(r)'
  <2>1. p.op # "publish"
    <3>1. ASSUME p.op = "publish" PROVE FALSE
      <4>1. w = UpdateRow(p.row, StatusDraft, [status |-> StatusPublished])
        BY <1>1, <1>2, <3>1, FirstOfMany
      <4>2. w.where = StatusDraft
        BY <4>1 DEF UpdateRow
      <4>. QED
        BY <1>3, <4>2, Names
    <3>. QED
      BY <3>1
  <2>2. p.op # "reorder"
    <3>1. ASSUME p.op = "reorder" PROVE FALSE
      <4>1. \E y, k : w = UpdatePosition(y, k)
        BY <1>1, <1>2, <3>1, FirstOfMany
      <4>2. w.where = StatusActive
        BY <4>1 DEF UpdatePosition
      <4>. QED
        BY <1>3, <4>2, Names
    <3>. QED
      BY <3>1
  <2>. QED
    BY <1>9, <1>10, <2>1, <2>2 DEF PublishInv, ReorderInv
<1>. QED
  BY <1>8, <1>9, <1>10, <1>11, <1>14, <1>15, <1>16, <1>17 DEF Moves, RequestInv

\* What a statement writes may stand in the tables.
LEMMA WrittenRow ==
    ASSUME IInv, NEW r \in Requests, req[r].pc = "index", NEW w, w = Head(req[r].todo),
           NEW x, x = w.row, NEW row, row = NewVersion(r, w)
    PROVE  /\ x \in Ids /\ owner[x] = r /\ RowOK(x, row)
           /\ x \in Items => Published(row.of)
           /\ committed[x] # None =>
                 /\ committed[x].status \in {StatusActive, StatusDraft}
                 /\ x \in Versions => Key(row) = Key(committed[x])
           /\ x \in Versions /\ committed[x] = None =>
                 row.position >= 1 /\ 1..(row.position - 1) \subseteq Numbers(row.parent)
           /\ w.set = [status |-> StatusPublished] => row.status = StatusPublished
           /\ \A y, k : w = UpdatePosition(y, k)
                 => row.status = StatusActive /\ row.position = k
<1>1. /\ w = req[r].todo[1] /\ x \in Ids /\ owner[x] = r
      /\ IF w.where = None THEN committed[x] = None /\ x \in Siblings(w.set.parent)
         ELSE View(r, x).status = w.where
  BY DEF IInv, RequestInv, HoldInv
<1>2. /\ w.where = None => w \in Inserts /\ InsertOK(w)
      /\ w.where # None => w \in Updates /\ UpdateOK(w)
  <2>1. req[r].todo # << >>
    BY DEF IInv, RequestInv, HoldInv
  <2>. QED
    BY <2>1, FirstWrite
<1>3. CASE w.where = None
  <2>1. row = w.set /\ row \in RowType /\ row.parent \in Parents /\ committed[x] = None
    BY <1>1, <1>2, <1>3 DEF NewVersion, Inserts, RowType
  <2>2. /\ row.parent \in Lists => row.status = StatusActive
        /\ row.parent \in Sections => Published(row.of)
        /\ row.parent \in Questions =>
              /\ row.status \in {StatusDraft, StatusPublished}
              /\ row.position >= 1 /\ 1..(row.position - 1) \subseteq Numbers(row.parent)
        /\ row.parent \notin Sections => row.of = None
    BY <1>2, <1>3, <2>1 DEF InsertOK
  <2>3. /\ x \in Siblings(row.parent)
        /\ x \in Versions <=> row.parent \in Questions
        /\ x \in Items <=> row.parent \in Sections
        /\ row.parent \in Questions \/ row.parent \in Lists
    BY <1>1, <1>3, <2>1, Parenthood DEF Parents, Lists
  <2>4. RowOK(x, row)
    BY <2>1, <2>2, <2>3, Names, NamesAssumption DEF RowOK, Published, Lists
  <2>5. w.set # [status |-> StatusPublished] \/ row.status = StatusPublished
    BY <2>1
  <2>6. ASSUME NEW y, NEW k, w = UpdatePosition(y, k) PROVE FALSE
    BY <1>3, <2>6, Names DEF UpdatePosition
  <2>. QED
    BY <1>1, <2>1, <2>2, <2>3, <2>4, <2>5, <2>6
<1>4. CASE w.where # None
  <2>. DEFINE old == View(r, x)
  <2>1. committed[x] # None /\ old # None /\ old.status = w.where /\ row = Changed(old, w.set)
    BY <1>1, <1>2, <1>4 DEF UpdateOK, View, NewVersion
  <2>2. /\ old \in RowType /\ RowOK(x, old)
        /\ x \in Items => Published(old.of)
        /\ x \in Versions => Key(old) = Key(committed[x])
    BY <1>1, <2>1 DEF View, IInv, TableInv, RowsInv, WrittenInv, RowOK
  <2>3. committed[x].status \in {StatusActive, StatusDraft}
    BY <1>1, <1>2, <1>4, <2>1 DEF View, IInv, TableInv, WrittenInv, Updates
  <2>. HIDE DEF old
  <2>4. CASE \E p \in Nat : w.set = [position |-> p]
    <3>1. PICK p \in Nat : w.set = [position |-> p]
      BY <2>4
    <3>2. row = [old EXCEPT !.position = p]
      <4>1. Changed(old, [position |-> p]) = [old EXCEPT !.position = p]
        BY <2>2 DEF RowType, Changed
      <4>. QED
        BY <2>1, <3>1, <4>1
    <3>3. /\ row \in RowType /\ row.position = p /\ row.parent = old.parent
          /\ row.of = old.of /\ row.status = old.status
      BY <2>2, <3>2 DEF RowType
    <3>4. x \notin Versions
      <4>1. w.where # StatusDraft
        <5>1. [position |-> p] # [status |-> StatusPublished]
          OBVIOUS
        <5>. QED
          BY <1>2, <1>4, <3>1, <5>1 DEF UpdateOK
      <4>. QED
        BY <1>1, <1>2, <1>4, <4>1 DEF UpdateOK, Updates
    <3>5. RowOK(x, row)
      BY <2>2, <3>3 DEF RowOK
    <3>6. w.set # [status |-> StatusPublished]
      BY <3>1
    <3>7. ASSUME NEW y, NEW k, w = UpdatePosition(y, k)
          PROVE  row.status = StatusActive /\ row.position = k
      <4>1. w.set = [position |-> k] /\ w.where = StatusActive
        BY <3>7 DEF UpdatePosition
      <4>. QED
        BY <2>1, <3>1, <3>3, <4>1
    <3>. QED
      BY <1>1, <2>1, <2>2, <2>3, <3>3, <3>4, <3>5, <3>6, <3>7
  <2>5. CASE \E p \in Nat, v \in Versions : w.set = [position |-> p, of |-> v]
    <3>1. PICK p \in Nat, v \in Versions : w.set = [position |-> p, of |-> v]
      BY <2>5
    <3>2. \A c \in DOMAIN old : row[c] = IF c = "position" THEN p
                                        ELSE IF c = "of" THEN v ELSE old[c]
      BY <2>1, <3>1 DEF Changed
    <3>3. /\ row \in RowType /\ row.position = p /\ row.parent = old.parent
          /\ row.of = v /\ row.status = old.status
      <4>1. DOMAIN old = {"parent", "position", "of", "status"} /\ old = [c \in DOMAIN old |-> old[c]]
        BY <2>2 DEF RowType
      <4>2. row = [c \in {"parent", "position", "of", "status"} |-> row[c]]
        BY <2>1, <4>1 DEF Changed
      <4>3. /\ row.position = p /\ row.parent = old.parent
            /\ row.of = v /\ row.status = old.status
        BY <3>2, <4>1
      <4>. QED
        BY <2>2, <4>2, <4>3 DEF RowType
    <3>4. x \notin Versions /\ x \in Items /\ Published(v)
      <4>1. /\ [position |-> p, of |-> v] # [status |-> StatusPublished]
            /\ w.set \notin [position : Nat] \cup [status : {StatusArchived}]
            /\ w.set.of = v
        BY <3>1
      <4>2. w.where = StatusActive
        BY <1>2, <1>4, <3>1, <4>1 DEF UpdateOK, Updates
      <4>. QED
        BY <1>1, <1>2, <1>4, <4>1, <4>2 DEF UpdateOK
    <3>5. RowOK(x, row)
      BY <2>2, <3>3, <3>4, Names DEF RowOK
    <3>6. w.set # [status |-> StatusPublished]
      BY <3>1
    <3>7. ASSUME NEW y, NEW k, w = UpdatePosition(y, k) PROVE FALSE
      BY <3>1, <3>7 DEF UpdatePosition
    <3>. QED
      BY <1>1, <2>1, <2>3, <3>3, <3>4, <3>5, <3>6, <3>7
  <2>6. CASE \E s \in {StatusArchived, StatusPublished} : w.set = [status |-> s]
    <3>1. PICK s \in {StatusArchived, StatusPublished} : w.set = [status |-> s]
      BY <2>6
    <3>2. row = [old EXCEPT !.status = s]
      <4>1. Changed(old, [status |-> s]) = [old EXCEPT !.status = s]
        BY <2>2 DEF RowType, Changed
      <4>. QED
        BY <2>1, <3>1, <4>1
    <3>3. /\ row \in RowType /\ row.position = old.position /\ row.parent = old.parent
          /\ row.of = old.of /\ row.status = s
      BY <2>2, <3>2 DEF RowType
    <3>4. IF x \in Versions THEN s = StatusPublished ELSE s = StatusArchived
      <4>1. CASE w.where = StatusActive
        BY <1>1, <1>2, <1>4, <3>1, <4>1 DEF UpdateOK
      <4>2. CASE w.where = StatusDraft
        BY <1>1, <1>2, <1>4, <3>1, <4>2 DEF UpdateOK
      <4>. QED
        BY <1>2, <1>4, <4>1, <4>2 DEF Updates
    <3>5. RowOK(x, row)
      BY <2>2, <3>3, <3>4 DEF RowOK
    <3>6. x \in Versions => Key(row) = Key(committed[x])
      BY <2>2, <3>3 DEF Key
    <3>7. w.set = [status |-> StatusPublished] => row.status = StatusPublished
      BY <3>1, <3>3
    <3>8. ASSUME NEW y, NEW k, w = UpdatePosition(y, k) PROVE FALSE
      BY <3>1, <3>8 DEF UpdatePosition
    <3>. QED
      BY <1>1, <2>1, <2>2, <2>3, <3>3, <3>5, <3>6, <3>7, <3>8
  <2>. QED
    BY <1>2, <1>4, <2>4, <2>5, <2>6 DEF Updates
<1>. QED
  BY <1>3, <1>4

LEMMA IndexRowMoves ==
    ASSUME IInv, NEW r \in Requests, IndexRow(r)
    PROVE  Moves(r)
<1>1. PICK w, x, row, n : /\ w = Head(req[r].todo) /\ x = w.row /\ row = NewVersion(r, w)
                          /\ n = Len(req[r].order) - Len(req[r].todo) + 1
  OBVIOUS
<1>2. /\ req[r].pc = "index" /\ Awaited(r, x, Key(row)) = {} /\ req[r] \in RequestType
      /\ NextKey(r) = Key(row)
  BY <1>1, NamedRequest DEF IndexRow, NextKey
<1>3. /\ x \in Ids /\ owner[x] = r /\ RowOK(x, row) /\ row \in RowType
      /\ x \in Items => Published(row.of)
      /\ committed[x] # None =>
            /\ committed[x].status \in {StatusActive, StatusDraft}
            /\ x \in Versions => Key(row) = Key(committed[x])
      /\ x \in Versions /\ committed[x] = None =>
            row.position >= 1 /\ 1..(row.position - 1) \subseteq Numbers(row.parent)
      /\ w.set = [status |-> StatusPublished] => row.status = StatusPublished
      /\ \A y, k : w = UpdatePosition(y, k) => row.status = StatusActive /\ row.position = k
  BY <1>1, <1>2, WrittenRow DEF RowOK
<1>4. CASE Taken(r, x, Key(row)) /\ Abort(r)
  BY <1>4, AbortMoves
<1>5. CASE /\ ~Taken(r, x, Key(row)) /\ written' = [written EXCEPT ![x] = row]
           /\ Goto(r, [req[r] EXCEPT !.todo = Tail(@), !.pc = "lock"])
           /\ UNCHANGED <<committed, owner>>
  <2>1. TableInv' /\ \A s \in Requests \ {r} : Keeps(s)
    BY <1>2, <1>3, <1>5, PutTables DEF IInv
  <2>2. /\ written'[x] = row /\ \A y \in Ids \ {x} : written'[y] = written[y]
        /\ row # None
    BY <1>3, <1>5, Names DEF IInv, TableInv, RowsInv
  <2>3. req[r].todo # << >>
    BY <1>2 DEF IInv, RequestInv, HoldInv
  <2>4. ASSUME req[r].op = "publish"
        PROVE  /\ owner'[req[r].row] = r /\ written'[req[r].row] # None
               /\ written'[req[r].row].status = StatusPublished
    <3>1. w = UpdateRow(req[r].row, StatusDraft, [status |-> StatusPublished])
      BY <1>1, <2>3, <2>4, FirstOfMany
    <3>2. x = req[r].row /\ w.set = [status |-> StatusPublished]
      BY <1>1, <3>1 DEF UpdateRow
    <3>. QED
      BY <1>3, <1>5, <2>2, <3>2
  <2>5. ASSUME req[r].op = "reorder"
        PROVE  /\ Placed(r, x, 10 * n)' /\ \A y \in Ids \ {x} : written'[y] = written[y]
               /\ \A y \in Ids : owner[y] = r /\ written'[y] # None
                                    => written'[y].status = StatusActive
    <3>1. \A y \in Ids : owner[y] = r /\ written[y] # None => written[y].status = StatusActive
      BY <2>3, <2>5, FirstOfMany
    <3>2. w = UpdatePosition(req[r].order[n], 10 * n)
      BY <1>1, <2>3, <2>5, FirstOfMany
    <3>3. row.status = StatusActive /\ row.position = 10 * n
      BY <1>3, <3>2
    <3>4. Placed(r, x, 10 * n)'
      BY <1>3, <1>5, <2>2, <3>3 DEF Placed
    <3>. QED
      BY <1>5, <2>2, <3>1, <3>3, <3>4
  <2>6. /\ req' = [req EXCEPT ![r] = [req[r] EXCEPT !.todo = Tail(@), !.pc = "lock"]]
        /\ \A y \in Ids : owner'[y] = r <=> owner[y] = r
    BY <1>5 DEF Goto
  <2>7. RequestInv(r)' /\ \E q \in RequestType : q.pc = "lock" /\ req' = [req EXCEPT ![r] = q]
    BY <1>1, <1>2, <1>5, <2>3, <2>4, <2>5, <2>6, TailInv
  <2>8. req'[r].pc = "lock"
    BY <2>7 DEF IInv
  <2>. QED
    BY <2>1, <2>7, <2>8 DEF Moves
<1>. QED
  BY <1>1, <1>2, <1>4, <1>5 DEF IndexRow

LEMMA CommitMoves ==
    ASSUME IInv, NEW r \in Requests, Commit(r)
    PROVE  Moves(r)
<1>1. PICK p, q : /\ p = req[r] /\ req' = [req EXCEPT ![r] = q]
                  /\ \/ q = [Idle EXCEPT !.op = p.op, !.row = p.row, !.pc = "ok"]
                     \/ q = [Idle EXCEPT !.pc = "error"]
  BY DEF Commit, Goto
<1>2. p.pc = "commit" /\ p \in RequestType /\ req'[r] = q
  BY <1>1 DEF Commit, IInv
<1>3. /\ q \in RequestType /\ q.todo = << >> /\ q.new = None
      /\ \/ q.pc = "ok" /\ q.op = p.op /\ q.row = p.row
         \/ q.pc = "error"
  <2>1. "ok" \in Labels /\ "error" \in Labels
    BY DEF Labels
  <2>2. CASE q = [Idle EXCEPT !.op = p.op, !.row = p.row, !.pc = "ok"]
    BY <1>2, <2>1, <2>2, IdleRequest DEF RequestType
  <2>3. CASE q = [Idle EXCEPT !.pc = "error"]
    BY <2>1, <2>3, IdleRequest DEF RequestType
  <2>. QED
    BY <1>1, <2>2, <2>3
<1>4. /\ TableInv' /\ \A s \in Requests \ {r} : Keeps(s)
      /\ \A x \in Ids : owner'[x] # r
      /\ \A x \in Ids : owner[x] = r /\ written[x] # None => committed'[x] = written[x]
  BY CommitTables DEF Commit, IInv
<1>5. ASSUME q.op = "publish", q.pc = "ok"
      PROVE  ~Published(q.row) /\ Published(req[r].row)'
  <2>1. p.op = "publish" /\ q.row = p.row /\ p.row \in Versions /\ committed[p.row] # None
    BY <1>1, <1>2, <1>3, <1>5 DEF IInv, RequestInv, NamedInv, Ended
  <2>2. /\ owner[p.row] = r /\ written[p.row] # None
        /\ written[p.row].status = StatusPublished
    BY <1>1, <1>2, <2>1 DEF IInv, RequestInv, PublishInv
  <2>3. committed[p.row].status \in {StatusActive, StatusDraft}
    BY <2>1, <2>2, Names DEF IInv, TableInv, WrittenInv
  <2>4. committed'[p.row] = written[p.row]
    BY <1>4, <2>1, <2>2, Names
  <2>. QED
    BY <1>2, <2>1, <2>2, <2>3, <2>4, StatusNames DEF Published
<1>6. NamedInv(r)'
  BY <1>2, <1>3 DEF NamedInv, Ended
<1>7. RequestInv(r)'
  BY <1>2, <1>3, <1>4, <1>5, <1>6, NothingHeld DEF Ended
<1>. QED
  BY <1>1, <1>2, <1>3, <1>4, <1>5, <1>7 DEF Moves

-----------------------------------------------------------------------------
(* The invariant and the theorems *)

LEMMA NextMoves ==
    ASSUME IInv, [Next]_vars
    PROVE  IInv'
<1>1. ASSUME NEW r \in Requests, Clients(r) \/ Server(r) \/ Fail(r) \/ DetectDeadlock(r)
      PROVE  IInv'
  <2>1. Moves(r)
    BY <1>1, ClientMoves, ReadSourceMoves, PlanStepMoves, CopyItemsMoves, LockRowMoves,
       NewRowMoves, IndexRowMoves, EndOfWritesMoves, CommitMoves, AbortMoves
       DEF Server, Refuse, Fail, DetectDeadlock
  <2>. QED
    BY <2>1, StepInv
<1>2. CASE UNCHANGED vars
  <2>1. UNCHANGED tables /\ UNCHANGED req
    BY <1>2 DEF vars
  <2>2. \A s \in Requests : RequestInv(s)'
    BY <2>1, StillTables, RequestKept DEF IInv
  <2>. QED
    BY <2>1, <2>2, StillTables DEF IInv, OnePublished
<1>. QED
  BY <1>1, <1>2 DEF Next

LEMMA InitInv == Init => IInv
<1>. SUFFICES ASSUME Init PROVE IInv
  OBVIOUS
<1>1. /\ committed \in [Ids -> RowType \cup {None}]
      /\ \A x \in Ids : committed[x] # None => RowOK(x, committed[x])
      /\ \A x, y \in Ids : committed[x] # None /\ committed[y] # None
            /\ Key(committed[x]) = Key(committed[y]) => x = y
      /\ \A i \in Items : committed[i] # None
            => committed[committed[i].of] # None
               /\ committed[committed[i].of].status = StatusPublished
      /\ \A q \in Questions : \E n \in Nat : Numbers(q) = 1..n
  <2>1. committed \in InitialRows
    BY DEF Init
  <2>2. ASSUME NEW q \in Questions PROVE \E n \in Nat : Numbers(q) = 1..n
    <3>1. PICK n \in 0..Cardinality(Versions) :
             {committed[v].position : v \in {v \in Versions : committed[v] # None
                                                /\ committed[v].parent = q}} = 1..n
      BY <2>1, TablesAssumption
    <3>2. n \in Nat
      BY <3>1
    <3>. QED
      BY <3>1, <3>2 DEF Numbers, GetQuestion
  <2>. QED
    BY <2>1, <2>2, TablesAssumption
<1>2. /\ written = [x \in Ids |-> None] /\ owner = [x \in Ids |-> None]
      /\ req = [r \in Requests |-> Idle]
  BY DEF Init
<1>3. RowsInv
  <2>1. \A i \in Items : committed[i] # None => committed[i].of \in Versions
    BY <1>1, Names DEF RowOK, RowType
  <2>. QED
    BY <1>1, <1>2, <2>1, Names DEF RowsInv, Published
<1>4. TableInv
  BY <1>1, <1>2, <1>3, Names DEF TableInv, WrittenInv, KeyInv, NumberInv
<1>5. ASSUME NEW r \in Requests PROVE RequestInv(r)
  <2>1. req[r] = Idle /\ Idle.pc = "idle" /\ Idle.todo = << >> /\ Idle.new = None
        /\ Len(<< >>) = 0
    BY <1>2, IdleRequest DEF Idle
  <2>2. NamedInv(r) /\ TodoInv(r)
    BY <2>1 DEF NamedInv, TodoInv, Ended
  <2>3. HoldInv(r)
    BY <1>2, <2>1, Names DEF HoldInv, Ended
  <2>4. PublishInv(r) /\ ReorderInv(r)
    BY <2>1 DEF PublishInv, ReorderInv
  <2>. QED
    BY <2>2, <2>3, <2>4 DEF RequestInv
<1>6. OnePublished
  BY <1>2 DEF OnePublished, Idle
<1>. QED
  BY <1>2, <1>4, <1>5, <1>6, IdleRequest DEF IInv

THEOREM Inductive == Spec => []IInv
<1>. QED
  BY InitInv, NextMoves, PTL DEF Spec

\* Rows have parents of the right kind and keys of their own, and a request
\* that is not in a transaction holds no row.
THEOREM TypeCorrect == Spec => []TypeOK
<1>1. IInv => TypeOK
  <2>. SUFFICES ASSUME IInv PROVE TypeOK
    OBVIOUS
  <2>1. \A r \in Requests : req[r].pc \in Labels
    BY NamedRequest
  <2>2. \A r \in Requests : req[r].pc \in Ended => Owned(r) = {}
    BY DEF IInv, RequestInv, HoldInv, Owned
  <2>3. \A x \in Ids : \A row \in {committed[x], written[x]} \ {None} : RowOK(x, row)
    BY DEF IInv, TableInv, RowsInv
  <2>. QED
    BY <2>1, <2>2, <2>3 DEF TypeOK, IInv, TableInv, RowsInv, WrittenInv, KeyInv, Labels, Ended
<1>. QED
  BY <1>1, Inductive, PTL

\* Versions get consecutive numbers, items are of published versions, and one
\* request publishes a version, however requests interleave and fail.
THEOREM VersionsNumbered == Spec => []VersionsInOrder
<1>1. IInv => VersionsInOrder
  <2>. SUFFICES ASSUME IInv PROVE VersionsInOrder
    OBVIOUS
  <2>1. ASSUME NEW q \in Questions
        PROVE  {committed[v].position : v \in GetQuestion(q)} = 1..Cardinality(GetQuestion(q))
    <3>1. PICK n \in Nat : Numbers(q) = 1..n
      BY DEF IInv, TableInv, NumberInv
    <3>. DEFINE f == [v \in GetQuestion(q) |-> committed[v].position]
    <3>2. \A u, v \in GetQuestion(q) : committed[u].position = committed[v].position => u = v
      BY Names DEF GetQuestion, Key, IInv, TableInv, KeyInv
    <3>3. f \in Bijection(GetQuestion(q), 1..n)
      <4>1. f \in [GetQuestion(q) -> 1..n]
        BY <3>1 DEF Numbers
      <4>2. IsInjective(f)
        BY <3>2 DEF IsInjective
      <4>3. \A k \in 1..n : \E v \in GetQuestion(q) : f[v] = k
        BY <3>1 DEF Numbers
      <4>. QED
        BY <4>1, <4>2, <4>3 DEF Bijection, Injection, Surjection
    <3>4. IsFiniteSet(GetQuestion(q))
      <4>1. GetQuestion(q) \in SUBSET Ids
        BY Names DEF GetQuestion
      <4>. QED
        BY <4>1, NamesAssumption, FS_Subset
    <3>5. Cardinality(GetQuestion(q)) = Cardinality(1..n)
      BY <3>3, <3>4, FS_Bijection DEF ExistsBijection
    <3>6. Cardinality(1..n) = n
      BY FS_Interval
    <3>. QED
      BY <3>1, <3>5, <3>6 DEF Numbers
  <2>2. \A i \in Items : committed[i] # None
          => committed[committed[i].of].status = StatusPublished
    BY DEF IInv, TableInv, RowsInv, Published
  <2>. QED
    BY <2>1, <2>2 DEF VersionsInOrder, IInv, OnePublished
<1>. QED
  BY <1>1, Inductive, PTL

\* A reorder that commits leaves the rows it listed where it was asked to, but
\* for those archived before it came to them.
THEOREM ReorderRight == Spec => ReorderHonoured
<1>. DEFINE Honoured ==
       \A r \in Requests :
          req[r].pc = "commit" /\ req'[r].pc # "commit" /\ req[r].op = "reorder"
             /\ committed' # committed /\ IsInjective(req[r].order)
          => \A i \in DOMAIN req[r].order :
                LET row == committed'[req[r].order[i]] IN
                row.status = StatusActive => row.position = 10 * i
<1>1. IInv /\ [Next]_vars => [Honoured]_vars
  <2>. SUFFICES ASSUME IInv, Next, NEW r \in Requests, req[r].pc = "commit",
                       req'[r].pc # "commit", req[r].op = "reorder", committed' # committed,
                       IsInjective(req[r].order), NEW i \in DOMAIN req[r].order
                PROVE  LET row == committed'[req[r].order[i]] IN
                       row.status = StatusActive => row.position = 10 * i
    OBVIOUS
  <2>. DEFINE x == req[r].order[i]
  <2>1. PICK s \in Requests : Commit(s)
    <3>1. PICK s \in Requests : Clients(s) \/ Server(s) \/ Fail(s) \/ DetectDeadlock(s)
      BY DEF Next
    <3>2. Clients(s) => committed' = committed
      BY DEF Clients, CreateSection, CreateItem, UpdateSection, UpdateItem, DeleteSection,
         DuplicateSection, DeleteItem, DuplicateItem, ReorderSections, ReorderItems,
         CreateQuestion, CreateQuestionVersion, PublishQuestionVersion, Issue, tables
    <3>3. Server(s) /\ ~Commit(s) => committed' = committed
      BY DEF Server, ReadSource, Plan, PlanCreate, PlanUpdate, PlanArchive, PlanReorder,
         PlanDuplicate, PlanVersion, PlanPublish, PlanWrites, CopyItems, LockRow, NewRow,
         IndexRow, EndOfWrites, Refuse, Abort, tables
    <3>4. Fail(s) \/ DetectDeadlock(s) => committed' = committed
      BY DEF Fail, DetectDeadlock, Abort
    <3>. QED
      BY <3>1, <3>2, <3>3, <3>4
  <2>2. s = r
    BY <2>1 DEF Commit, Goto, IInv
  <2>3. /\ \A y \in Ids : owner[y] = r /\ written[y] # None => committed'[y] = written[y]
        /\ \A y \in Ids : Archived(y) => Archived(y)'
    BY <2>1, <2>2, CommitTables DEF Commit, IInv
  <2>4. x \in Ids /\ i \in 1..Len(req[r].order)
    BY NamedRequest
  <2>5. Placed(r, x, 10 * i)
    <3>1. req[r].todo = << >> /\ Len(<< >>) = 0
      BY DEF IInv, RequestInv, TodoInv
    <3>2. \A j \in 1..(Len(req[r].order) - Len(req[r].todo)) :
             Placed(r, req[r].order[j], 10 * j)
      BY DEF IInv, RequestInv, ReorderInv
    <3>3. Len(req[r].order) - Len(req[r].todo) = Len(req[r].order)
      BY <3>1, NamedRequest
    <3>. QED
      BY <2>4, <3>2, <3>3
  <2>6. CASE Archived(x)
    BY <2>3, <2>4, <2>6, StatusNames DEF Archived
  <2>7. CASE owner[x] = r /\ written[x] # None /\ written[x].position = 10 * i
    BY <2>3, <2>4, <2>7
  <2>. QED
    BY <2>5, <2>6, <2>7 DEF Placed
<1>. QED
  BY <1>1, Inductive, PTL DEF Spec, ReorderHonoured

=============================================================================
