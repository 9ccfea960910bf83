-------------------------- MODULE PublishingProofs --------------------------
(***************************************************************************)
(* Theorems about Publishing, for any rows, requests and schedules.        *)
(*                                                                         *)
(* What a publishing request has read stays true until something disturbs  *)
(* it (Fresh), since every change of the draft marks the requests beside   *)
(* it.  The requests that may still write once the assessment is no DRAFT  *)
(* are those that were writing when it was published (LateInv).            *)
(***************************************************************************)
EXTENDS Publishing, FiniteSetTheorems, TLAPS

-----------------------------------------------------------------------------
(* Types *)

Writers == {r \in Requests : pc[r] \in {"write", "copy"}}
Typing == TypeOK /\ \A r \in Writers : op[r] \in Edits \cup UpdateRequests

\* The arguments of each kind of request.
LEMMA Arguments ==
    ASSUME NEW e \in Edits \cup UpdateRequests
    PROVE  /\ e.kind = "CreateItem" => e.section \in Sections /\ e.positive \in BOOLEAN
           /\ e.kind = "UpdateItem" => e.item \in Items /\ e.positive \in BOOLEAN
           /\ e.kind \in {"DeleteItem", "DuplicateItem"} => e.item \in Items
           /\ e.kind \in {"DeleteSection", "DuplicateSection"} => e.section \in Sections
           /\ e.kind \in {"CreateTarget", "DeleteTarget"} => e.class \in Classes
           /\ e.kind = "UpdateAssessment" =>
                 /\ e.opens \in Times \cup {None} /\ e.closes \in Times \cup {None}
                 /\ e.duration \in Nat
BY EditsAssumption DEF EditRequests, UpdateRequests

\* The instant that tsPtr formats, and how far it is from the row's.
LEMMA CutTime ==
    ASSUME NEW t \in Times \cup {None}
    PROVE  /\ Cut(t) \in Times \cup {None} /\ (Cut(t) = None <=> t = None)
           /\ t # None => Cut(t) <= t /\ t < Cut(t) + PerSecond
<1>1. CASE t = None
  BY <1>1 DEF Cut
<1>2. CASE t # None
  <2>1. t \in Nat /\ t <= MaxTime /\ MaxTime \in Nat /\ PerSecond \in Nat /\ PerSecond > 0
    BY <1>2, BoundsAssumption DEF Times
  <2> DEFINE m == t % PerSecond
  <2>2. m \in 0..(PerSecond - 1) /\ m <= t
    BY <2>1
  <2>3. Cut(t) = t - m
    BY <1>2 DEF Cut
  <2> HIDE DEF m
  <2>4. t - m \in Times /\ t - m <= t /\ t < (t - m) + PerSecond
    BY <2>1, <2>2 DEF Times
  <2> QED
    BY <1>2, <2>3, <2>4, NoneAssumption DEF Times
<1> QED
  BY <1>1, <1>2

\* A request that has read nothing.
LEMMA NoSnapType == NoSnap \in Snapshots
BY DEF NoSnap, Snapshots, Statuses

\* The first state is well-typed.
LEMMA InitTyping == Init => Typing
BY NoSnapType, BoundsAssumption
   DEF Init, Typing, TypeOK, Writers, NoItem, Statuses, RowStates, PcLabels, Times

\* Actions end a request with one of these.
LEMMA FinishTyping ==
    ASSUME Typing, NEW r \in Requests, Finish(r)
    PROVE  /\ pc' \in [Requests -> PcLabels]
           /\ op' \in [Requests -> {None} \cup Edits \cup UpdateRequests]
           /\ snap' \in [Requests -> Snapshots]
           /\ \A q \in Writers' : op'[q] \in Edits \cup UpdateRequests
BY NoSnapType DEF Typing, TypeOK, Finish, Goto, Writers, PcLabels

\* What every edit leaves well-typed.
LEMMA EditTyping ==
    ASSUME Typing, NEW r \in Requests, EditCommitted(r),
           section' \in [Sections -> RowStates],
           item' \in [Items -> [state : RowStates, section : Sections \cup {None},
                                positive : BOOLEAN]],
           target' \in [Classes -> RowStates]
    PROVE  Typing'
<1>1. /\ pc' \in [Requests -> PcLabels]
      /\ op' \in [Requests -> {None} \cup Edits \cup UpdateRequests]
      /\ snap' \in [Requests -> Snapshots]
      /\ \A q \in Writers' : op'[q] \in Edits \cup UpdateRequests
  BY FinishTyping DEF EditCommitted
<1>2. late' \in Nat /\ disturbed' \subseteq Requests
  BY DEF EditCommitted, Disturb, Typing, TypeOK
<1> QED
  BY <1>1, <1>2 DEF EditCommitted, Untouched, row, Typing, TypeOK

ItemRows == [state : RowStates, section : Sections \cup {None}, positive : BOOLEAN]

\* Replacing a row or a field of a row.
LEMMA ItemUpdates ==
    ASSUME Typing, NEW i \in Items
    PROVE  /\ \A p \in BOOLEAN : [item EXCEPT ![i].positive = p] \in [Items -> ItemRows]
           /\ \A s \in RowStates : [item EXCEPT ![i].state = s] \in [Items -> ItemRows]
           /\ \A n \in ItemRows : [item EXCEPT ![i] = n] \in [Items -> ItemRows]
BY DEF ItemRows, Typing, TypeOK

\* An edit works on the arguments it was given.
LEMMA WritingArguments ==
    ASSUME Typing, NEW r \in Requests, NEW k, Writing(r, k)
    PROVE  op[r] \in Edits \cup UpdateRequests /\ op[r].kind = k
BY DEF Writing, Typing, Writers

\* The copies are rows.
LEMMA CopiesTyping ==
    ASSUME Typing, NEW S \in SUBSET Items, NEW f \in [S -> Items], NEW s \in Sections
    PROVE  Copies(f, s) \in [Items -> [state : RowStates,
                                      section : Sections \cup {None},
                                      positive : BOOLEAN]]
<1> SUFFICES ASSUME NEW i \in Items
             PROVE  Copies(f, s)[i] \in [state : RowStates,
                                        section : Sections \cup {None},
                                        positive : BOOLEAN]
  BY DEF Copies
<1>1. CASE \E j \in S : f[j] = i
  <2> DEFINE j == CHOOSE j \in S : f[j] = i
  <2>1. j \in Items
    BY <1>1
  <2>2. item[j].positive \in BOOLEAN
    BY <2>1 DEF Typing, TypeOK
  <2>3. Copies(f, s)[i] = NewItem(s, item[j].positive)
    BY <1>1 DEF Copies
  <2> QED
    BY <2>2, <2>3 DEF NewItem, RowStates
<1>2. CASE ~ \E j \in S : f[j] = i
  BY <1>2 DEF Copies, Typing, TypeOK
<1> QED
  BY <1>1, <1>2

\* DuplicateSection's second step.
LEMMA CopyTyping ==
    ASSUME Typing, NEW r \in Requests, CopySection(r)
    PROVE  Typing'
<1>1. PICK s \in Sections, f \in Injection(ItemsOf(op[r].section), FreeItems) :
         /\ section' = [section EXCEPT ![s] = "ACTIVE"]
         /\ item' = Copies(f, s)
  BY DEF CopySection
<1>2. ItemsOf(op[r].section) \in SUBSET Items /\ FreeItems \subseteq Items
  BY DEF ItemsOf, ActiveItems, FreeItems
<1>3. f \in [ItemsOf(op[r].section) -> Items]
  BY <1>2 DEF Injection
<1>4. item' \in [Items -> [state : RowStates, section : Sections \cup {None},
                           positive : BOOLEAN]]
  BY <1>1, <1>2, <1>3, CopiesTyping
<1>5. section' \in [Sections -> RowStates] /\ target' \in [Classes -> RowStates]
  BY <1>1 DEF CopySection, Typing, TypeOK, RowStates
<1> QED
  BY <1>4, <1>5, EditTyping DEF CopySection

\* A step that ends the request r and leaves the tables alone.
LEMMA EndTyping ==
    ASSUME Typing, NEW r \in Requests, Finish(r), Settled(r),
           UNCHANGED <<Unwritten, clean, late>>
    PROVE  Typing'
BY FinishTyping DEF Settled, Unwritten, row, content, Typing, TypeOK

\* A read of the validation.
LEMMA ValidateTyping ==
    ASSUME Typing, NEW r \in Requests, NEW from \in PublishSteps, NEW valid,
           NEW to \in PublishSteps, Validate(r, from, valid, to)
    PROVE  Typing'
<1>1. CASE Goto(r, to) /\ Stay(r) /\ UNCHANGED disturbed
  BY <1>1 DEF Goto, Stay, Validate, Unwritten, row, content, Typing, TypeOK,
              PublishSteps, PcLabels, Writers
<1>2. CASE Finish(r) /\ Settled(r)
  BY <1>2, EndTyping DEF Validate
<1> QED
  BY <1>1, <1>2 DEF Validate

\* A read of the snapshot.
LEMMA ReadTyping ==
    ASSUME Typing, NEW r \in Requests, NEW from \in PublishSteps,
           NEW seen \in Snapshots, NEW to \in PublishSteps, Read(r, from, seen, to)
    PROVE  Typing'
BY DEF Read, Goto, Unwritten, row, content, history, Typing, TypeOK, PublishSteps,
       PcLabels, Writers

\* The items of a snapshot.
LEMMA SnapshotItemsType ==
    ASSUME Typing, NEW S
    PROVE  SnapshotItems(S) \in SUBSET [item : Items, section : Sections \cup {None},
                                        positive : BOOLEAN]
BY DEF SnapshotItems, ActiveItems, Typing, TypeOK

\* Every step keeps the types.
LEMMA StepTyping ==
    ASSUME Typing, [Next]_vars
    PROVE  Typing'
<1>1. ASSUME NEW r \in Requests, NEW e \in Edits, StartEdit(r, e)
      PROVE  Typing'
  BY <1>1, BoundsAssumption
     DEF StartEdit, Goto, row, content, history, Typing, TypeOK, PcLabels, Writers
<1>2. ASSUME NEW r \in Requests, NEW u \in Settings, StartUpdateAssessment(r, u)
      PROVE  Typing'
  <2> DEFINE new == [kind |-> "UpdateAssessment", opens |-> u.opens,
                     closes |-> u.closes,
                     duration |-> IF u.duration = None THEN settings.duration
                                  ELSE u.duration]
  <2>1. new \in UpdateRequests
    BY SettingsAssumption DEF UpdateRequests, Typing, TypeOK
  <2>2. op' = [op EXCEPT ![r] = new]
    BY <1>2 DEF StartUpdateAssessment
  <2> HIDE DEF new
  <2> QED
    BY <1>2, <2>1, <2>2, BoundsAssumption
       DEF StartUpdateAssessment, Goto, row, content, history, Typing, TypeOK,
           PcLabels, Writers
<1>3. ASSUME NEW r \in Requests, CreateSection(r)
      PROVE  Typing'
  BY <1>3, EditTyping DEF CreateSection, Typing, TypeOK, RowStates
<1>4. ASSUME NEW r \in Requests, DeleteSection(r)
      PROVE  Typing'
  BY <1>4, EditTyping DEF DeleteSection, Typing, TypeOK, RowStates
<1>5. ASSUME NEW r \in Requests, CreateItem(r)
      PROVE  Typing'
  <2>1. op[r].section \in Sections /\ op[r].positive \in BOOLEAN
    BY <1>5, WritingArguments, Arguments DEF CreateItem
  <2>2. NewItem(op[r].section, op[r].positive) \in ItemRows
    BY <2>1 DEF NewItem, ItemRows, RowStates
  <2>3. item' \in [Items -> ItemRows]
    BY <1>5, <2>2, ItemUpdates DEF CreateItem
  <2> QED
    BY <1>5, <2>3, EditTyping DEF CreateItem, ItemRows, Typing, TypeOK
<1>6. ASSUME NEW r \in Requests, UpdateItem(r)
      PROVE  Typing'
  <2>1. op[r].item \in Items /\ op[r].positive \in BOOLEAN
    BY <1>6, WritingArguments, Arguments DEF UpdateItem
  <2> QED
    BY <1>6, <2>1, EditTyping, ItemUpdates DEF UpdateItem, ItemRows, Typing, TypeOK
<1>7. ASSUME NEW r \in Requests, DeleteItem(r)
      PROVE  Typing'
  <2>1. op[r].item \in Items
    BY <1>7, WritingArguments, Arguments DEF DeleteItem
  <2> QED
    BY <1>7, <2>1, EditTyping, ItemUpdates
       DEF DeleteItem, ItemRows, RowStates, Typing, TypeOK
<1>8. ASSUME NEW r \in Requests, DuplicateItem(r)
      PROVE  Typing'
  <2>1. op[r].item \in Items
    BY <1>8, WritingArguments, Arguments DEF DuplicateItem
  <2>2. NewItem(item[op[r].item].section, item[op[r].item].positive) \in ItemRows
    BY <2>1 DEF NewItem, ItemRows, RowStates, Typing, TypeOK
  <2>3. item' \in [Items -> ItemRows]
    BY <1>8, <2>2, ItemUpdates DEF DuplicateItem
  <2> QED
    BY <1>8, <2>3, EditTyping DEF DuplicateItem, ItemRows, Typing, TypeOK
<1>9. ASSUME NEW r \in Requests, DuplicateSection(r)
      PROVE  Typing'
  BY <1>9 DEF DuplicateSection, Writing, Goto, Stay, Untouched, row, content, history,
              Typing, TypeOK, PcLabels, Writers
<1>10. ASSUME NEW r \in Requests, CopySection(r)
       PROVE  Typing'
  BY <1>10, CopyTyping
<1>11. ASSUME NEW r \in Requests, CreateTarget(r)
       PROVE  Typing'
  BY <1>11, EditTyping DEF CreateTarget, Typing, TypeOK, RowStates
<1>12. ASSUME NEW r \in Requests, DeleteTarget(r)
       PROVE  Typing'
  BY <1>12, EditTyping DEF DeleteTarget, Typing, TypeOK, RowStates
<1>13. ASSUME NEW r \in Requests, UpdateAssessment(r)
       PROVE  Typing'
  <2>1. settings' \in [opens : Times \cup {None}, closes : Times \cup {None},
                       duration : Nat]
    BY <1>13, WritingArguments, Arguments DEF UpdateAssessment
  <2>2. disturbed' \subseteq Requests
    BY <1>13 DEF UpdateAssessment, Disturb, Typing, TypeOK
  <2> QED
    BY <1>13, <2>1, <2>2, FinishTyping DEF UpdateAssessment, content, Typing, TypeOK
<1>14. ASSUME NEW r \in Requests, StartPublish(r)
       PROVE  Typing'
  BY <1>14 DEF StartPublish, Goto, Stay, Unwritten, row, content, history, Typing,
               TypeOK, PublishSteps, PcLabels, Writers
<1>15. ASSUME NEW r \in Requests,
              \/ ValidateSettings(r) \/ ValidateSections(r)
              \/ ValidateItems(r) \/ ValidateTargets(r)
       PROVE  Typing'
  BY <1>15, ValidateTyping
     DEF ValidateSettings, ValidateSections, ValidateItems, ValidateTargets, PublishSteps
<1>16. ASSUME NEW r \in Requests, Load(r)
       PROVE  Typing'
  <2> DEFINE seen == [snap[r] EXCEPT !.opens = ReadSettings.opens,
                         !.closes = ReadSettings.closes,
                         !.duration = settings.duration, !.revision = revision,
                         !.status = DeterminePublishStatus(ReadSettings.opens,
                                                           ReadSettings.closes)]
  <2>1. DeterminePublishStatus(ReadSettings.opens, ReadSettings.closes) \in Statuses
    BY DEF DeterminePublishStatus, Statuses
  <2>2. /\ ReadSettings.opens \in Times \cup {None}
        /\ ReadSettings.closes \in Times \cup {None}
    BY CutTime DEF ReadSettings, Typing, TypeOK
  <2>3. seen \in Snapshots
    BY <2>1, <2>2 DEF Snapshots, Typing, TypeOK
  <2> HIDE DEF seen
  <2>4. Read(r, "load", seen, "sections")
    BY <1>16 DEF Load, seen
  <2> QED
    BY <2>3, <2>4, ReadTyping DEF PublishSteps
<1>17. ASSUME NEW r \in Requests, ReadSections(r)
       PROVE  Typing'
  <2>1. [snap[r] EXCEPT !.sections = ActiveSections] \in Snapshots
    BY DEF ActiveSections, Snapshots, Typing, TypeOK
  <2> QED
    BY <1>17, <2>1, ReadTyping DEF ReadSections, PublishSteps
<1>18. ASSUME NEW r \in Requests, ReadItems(r)
       PROVE  Typing'
  <2>1. [snap[r] EXCEPT !.items = SnapshotItems(snap[r].sections)] \in Snapshots
    BY SnapshotItemsType DEF Snapshots, Typing, TypeOK
  <2> QED
    BY <1>18, <2>1, ReadTyping DEF ReadItems, PublishSteps
<1>19. ASSUME NEW r \in Requests, ReadTargets(r)
       PROVE  Typing'
  <2>1. [snap[r] EXCEPT !.targets = ActiveTargets] \in Snapshots
    BY DEF ActiveTargets, Snapshots, Typing, TypeOK
  <2> QED
    BY <1>19, <2>1, ReadTyping DEF ReadTargets, PublishSteps
<1>20. ASSUME NEW r \in Requests, CommitPublish(r)
       PROVE  Typing'
  <2>1. status' \in Statuses /\ revision' \in Nat /\ clean' \in BOOLEAN
    BY <1>20 DEF CommitPublish, Snapshots, Typing, TypeOK
  <2>2. publications' \in Seq([version : Nat, snapshot : Snapshots])
    BY <1>20, <2>1 DEF CommitPublish, Typing, TypeOK
  <2> QED
    BY <1>20, <2>1, <2>2, FinishTyping
       DEF CommitPublish, Settled, content, Typing, TypeOK
<1>21. ASSUME NEW r \in Requests, Fail(r)
       PROVE  Typing'
  BY <1>21, EndTyping DEF Fail
<1>22. CASE TransitionToOpen
  BY <1>22 DEF TransitionToOpen, Requesting, content, history, Typing, TypeOK,
               Statuses, Writers
<1>23. CASE TransitionToClosed
  BY <1>23 DEF TransitionToClosed, Requesting, content, history, Typing, TypeOK,
               Statuses, Writers
<1>24. CASE Tick
  BY <1>24, BoundsAssumption
     DEF Tick, Times, Requesting, row, content, history, Typing, TypeOK, Writers
<1>25. ASSUME NEW c \in Classes, ArchiveClass(c)
       PROVE  Typing'
  BY <1>25 DEF ArchiveClass, Disturb, row, content, Typing, TypeOK, Writers
<1>26. CASE UNCHANGED vars
  BY <1>26 DEF vars, row, content, history, Typing, TypeOK, Writers
<1> QED
  BY <1>1, <1>2, <1>3, <1>4, <1>5, <1>6, <1>7, <1>8, <1>9, <1>10, <1>11, <1>12,
     <1>13, <1>14, <1>15, <1>16, <1>17, <1>18, <1>19, <1>20, <1>21, <1>22, <1>23,
     <1>24, <1>25, <1>26
     DEF Next, Edit, Publish

-----------------------------------------------------------------------------
(* Undisturbed requests *)

\* How far a publishing request has come.
PastSettings == PublishSteps \ {"validate"}
PastSections == PastSettings \ {"validateSections"}
PastItems == PastSections \ {"validateItems"}
PastTargets == PastItems \ {"validateTargets"}
Loaded == {"sections", "items", "targets", "commit"}

\* A status that suits the schedule at this time.
Suits(st, opens, closes) ==
    /\ st = "OPEN" => opens = None \/ opens < now + PerSecond
    /\ st = "CLOSED" => closes # None /\ closes < now + PerSecond
    /\ st = "PUBLISHED" => opens # None
    /\ st # "DRAFT"

\* What the request has checked and read holds now.
FreshOK(r) ==
    /\ pc[r] \in PastSettings => SettingsValid
    /\ pc[r] \in PastSections => ActiveSections # {}
    /\ pc[r] \in PastItems => ItemsValid
    /\ pc[r] \in PastTargets => TargetsValid
    /\ pc[r] \in Loaded =>
          /\ snap[r].opens = ReadSettings.opens /\ snap[r].closes = ReadSettings.closes
          /\ snap[r].duration = settings.duration
          /\ Suits(snap[r].status, settings.opens, settings.closes)
    /\ pc[r] \in {"items", "targets", "commit"} => snap[r].sections = ActiveSections
    /\ pc[r] \in {"targets", "commit"} => snap[r].items = SnapshotItems(ActiveSections)
    /\ pc[r] = "commit" => snap[r].targets = ActiveTargets

Fresh == status = "DRAFT" => \A r \in Requests \ disturbed : FreshOK(r)

Same == UNCHANGED <<row, content, active>>

\* The checks depend on the tables only.
LEMMA SameChecks ==
    ASSUME Same
    PROVE  /\ SettingsValid' = SettingsValid /\ ItemsValid' = ItemsValid
           /\ TargetsValid' = TargetsValid /\ ActiveSections' = ActiveSections
           /\ ActiveTargets' = ActiveTargets /\ ReadSettings' = ReadSettings
           /\ SnapshotItems(ActiveSections)' = SnapshotItems(ActiveSections)
BY DEF Same, row, content, SettingsValid, ItemsValid, TargetsValid, ActiveItems,
       ActiveSections, ActiveTargets, SnapshotItems, ReadSettings, Cut

\* Time makes no status unsuitable.
LEMMA SuitsLater ==
    ASSUME NEW st, NEW opens \in Times \cup {None}, NEW closes \in Times \cup {None},
           now \in Nat, now' \in Nat, now <= now', Suits(st, opens, closes)
    PROVE  /\ st = "OPEN" => opens = None \/ opens < now' + PerSecond
           /\ st = "CLOSED" => closes # None /\ closes < now' + PerSecond
           /\ st = "PUBLISHED" => opens # None
           /\ st # "DRAFT"
<1>1. PerSecond \in Nat
  BY BoundsAssumption
<1>2. (opens # None => opens \in Nat) /\ (closes # None => closes \in Nat)
  BY DEF Times
<1> QED
  BY <1>1, <1>2 DEF Suits

\* A request that does nothing keeps what it has.
LEMMA FreshStays ==
    ASSUME Typing, Typing', Same, now <= now', NEW q \in Requests, FreshOK(q),
           pc'[q] = pc[q], snap'[q] = snap[q]
    PROVE  FreshOK(q)'
<1>1. settings.opens \in Times \cup {None} /\ settings.closes \in Times \cup {None}
      /\ now \in Nat /\ now' \in Nat /\ settings' = settings
  BY BoundsAssumption DEF Typing, TypeOK, Times, Same, row
<1>2. pc[q] \in Loaded => Suits(snap[q].status, settings.opens, settings.closes)'
  BY <1>1, SuitsLater DEF FreshOK, Suits
<1> QED
  BY <1>1, <1>2, SameChecks DEF FreshOK

\* A step of one request that leaves the tables alone.
LEMMA FreshStep ==
    ASSUME Typing, Typing', Fresh, Same, now' = now, NEW r \in Requests,
           \A q \in Requests \ {r} :
              /\ pc'[q] = pc[q] /\ snap'[q] = snap[q]
              /\ q \in disturbed => q \in disturbed',
           status = "DRAFT" /\ r \notin disturbed' => FreshOK(r)'
    PROVE  Fresh'
<1> SUFFICES ASSUME status = "DRAFT", NEW q \in Requests, q \notin disturbed'
             PROVE  FreshOK(q)'
  BY DEF Fresh, Same, row
<1>1. CASE q = r
  BY <1>1
<1>2. CASE q # r
  <2>1. FreshOK(q) /\ pc'[q] = pc[q] /\ snap'[q] = snap[q]
    BY <1>2 DEF Fresh
  <2> QED
    BY <2>1, FreshStays DEF Typing, TypeOK, Times
<1> QED
  BY <1>1, <1>2

\* A request outside PublishSteps has nothing to keep.
LEMMA FreshElsewhere ==
    ASSUME NEW q, ~Publishing(q) \/ pc[q] = "validate"
    PROVE  FreshOK(q)
BY DEF FreshOK, Publishing, PublishSteps, PastSettings, PastSections, PastItems,
       PastTargets, Loaded

\* A change of the tables marks every publishing request.
LEMMA FreshDisturbed ==
    ASSUME Typing, Typing', Disturb,
           \A q \in Requests : pc'[q] = pc[q] \/ ~Publishing(q)'
    PROVE  Fresh'
<1> SUFFICES ASSUME NEW q \in Requests, q \notin disturbed'
             PROVE  FreshOK(q)'
  BY DEF Fresh
<1>1. ~Publishing(q)'
  BY DEF Disturb, Publishing
<1> QED
  BY <1>1, FreshElsewhere DEF FreshOK, Publishing, PublishSteps, PastSettings,
     PastSections, PastItems, PastTargets, Loaded

\* The same of the next state.
LEMMA FreshElsewhereNext ==
    ASSUME NEW q, ~Publishing(q)' \/ pc'[q] = "validate"
    PROVE  FreshOK(q)'
BY DEF FreshOK, Publishing, PublishSteps, PastSettings, PastSections, PastItems,
       PastTargets, Loaded

\* A request that goes on, ends or begins, without writing a table.
LEMMA FreshMoves ==
    ASSUME Typing, Typing', Fresh, Same, now' = now, NEW r \in Requests,
           disturbed' = disturbed \/ Settled(r),
           \/ Finish(r)
           \/ \E l \in {"validate", "write", "copy"} : Goto(r, l) /\ UNCHANGED snap
    PROVE  Fresh'
<1>1. ~Publishing(r)' \/ pc'[r] = "validate"
  BY DEF Finish, Goto, Publishing, PublishSteps, Typing, TypeOK
<1>2. \A q \in Requests \ {r} :
         /\ pc'[q] = pc[q] /\ snap'[q] = snap[q]
         /\ q \in disturbed => q \in disturbed'
  BY DEF Finish, Goto, Settled, Typing, TypeOK
<1> QED
  BY <1>1, <1>2, FreshStep, FreshElsewhereNext

\* A check of the validation that succeeds holds afterwards.
LEMMA FreshValidates ==
    ASSUME Typing, Typing', Fresh, NEW r \in Requests,
           NEW from \in PublishSteps, NEW valid, NEW to \in PublishSteps,
           Validate(r, from, valid, to),
           Same /\ FreshOK(r) /\ valid /\ Goto(r, to) => FreshOK(r)'
    PROVE  Fresh'
<1>1. Same /\ now' = now
  BY DEF Validate, Unwritten, Same
<1>2. CASE Goto(r, to) /\ Stay(r) /\ UNCHANGED disturbed /\ valid
  <2>1. \A q \in Requests \ {r} :
           /\ pc'[q] = pc[q] /\ snap'[q] = snap[q]
           /\ q \in disturbed => q \in disturbed'
    BY <1>2 DEF Goto, Stay, Typing, TypeOK
  <2>2. status = "DRAFT" /\ r \notin disturbed' => FreshOK(r)'
    BY <1>1, <1>2 DEF Fresh
  <2> QED
    BY <1>1, <2>1, <2>2, FreshStep
<1>3. CASE Finish(r) /\ Settled(r)
  BY <1>1, <1>3, FreshMoves
<1> QED
  BY <1>2, <1>3 DEF Validate

\* What a read of the snapshot finds holds afterwards.
LEMMA FreshReads ==
    ASSUME Typing, Typing', Fresh, NEW r \in Requests,
           NEW from \in PublishSteps, NEW seen, NEW to \in PublishSteps,
           Read(r, from, seen, to),
           Same /\ now' = now /\ FreshOK(r) /\ pc'[r] = to /\ snap'[r] = seen
              => FreshOK(r)'
    PROVE  Fresh'
<1>1. Same /\ now' = now /\ disturbed' = disturbed
  BY DEF Read, Unwritten, Same, history
<1>2. \A q \in Requests \ {r} : pc'[q] = pc[q] /\ snap'[q] = snap[q]
  BY DEF Read, Goto, Typing, TypeOK
<1>3. pc'[r] = to /\ snap'[r] = seen
  BY DEF Read, Goto, Typing, TypeOK
<1>4. status = "DRAFT" /\ r \notin disturbed' => FreshOK(r)'
  BY <1>1, <1>3 DEF Fresh
<1> QED
  BY <1>1, <1>2, <1>4, FreshStep

\* A status is chosen to suit the schedule.
LEMMA DeterminedSuits ==
    ASSUME NEW opens \in Times \cup {None}, NEW closes \in Times \cup {None},
           now \in Nat
    PROVE  Suits(DeterminePublishStatus(Cut(opens), Cut(closes)), opens, closes)
<1>1. /\ Cut(opens) # None => Cut(opens) \in Nat
      /\ opens # None => opens \in Nat /\ Cut(opens) # None /\ opens < Cut(opens) + PerSecond
      /\ opens = None => Cut(opens) = None
  BY CutTime DEF Times
<1>2. /\ Cut(closes) # None => Cut(closes) \in Nat
      /\ closes # None => closes \in Nat /\ closes < Cut(closes) + PerSecond
      /\ closes = None => Cut(closes) = None
  BY CutTime DEF Times
<1> QED
  BY <1>1, <1>2, BoundsAssumption DEF Suits, DeterminePublishStatus

\* The validation keeps what it has found.
LEMMA FreshValidation ==
    ASSUME Typing, Typing', Fresh, NEW r \in Requests,
           \/ ValidateSettings(r) \/ ValidateSections(r)
           \/ ValidateItems(r) \/ ValidateTargets(r)
    PROVE  Fresh'
<1> USE DEF PublishSteps
<1>1. CASE ValidateSettings(r)
  <2>1. Same /\ FreshOK(r) /\ SettingsValid /\ Goto(r, "validateSections") => FreshOK(r)'
    BY SameChecks DEF FreshOK, Goto, Typing, TypeOK, PastSettings, PastSections,
                      PastItems, PastTargets, Loaded
  <2> QED
    BY <1>1, <2>1, FreshValidates DEF ValidateSettings
<1>2. CASE ValidateSections(r)
  <2>1. /\ Same /\ FreshOK(r) /\ ActiveSections # {}
        /\ Goto(r, "validateItems") /\ pc[r] = "validateSections"
        => FreshOK(r)'
    BY SameChecks DEF FreshOK, Goto, Typing, TypeOK, PastSettings, PastSections,
                      PastItems, PastTargets, Loaded
  <2> QED
    BY <1>2, <2>1, FreshValidates DEF ValidateSections, Validate
<1>3. CASE ValidateItems(r)
  <2>1. /\ Same /\ FreshOK(r) /\ ItemsValid
        /\ Goto(r, "validateTargets") /\ pc[r] = "validateItems"
        => FreshOK(r)'
    BY SameChecks DEF FreshOK, Goto, Typing, TypeOK, PastSettings, PastSections,
                      PastItems, PastTargets, Loaded
  <2> QED
    BY <1>3, <2>1, FreshValidates DEF ValidateItems, Validate
<1>4. CASE ValidateTargets(r)
  <2>1. /\ Same /\ FreshOK(r) /\ TargetsValid
        /\ Goto(r, "load") /\ pc[r] = "validateTargets"
        => FreshOK(r)'
    BY SameChecks DEF FreshOK, Goto, Typing, TypeOK, PastSettings, PastSections,
                      PastItems, PastTargets, Loaded
  <2> QED
    BY <1>4, <2>1, FreshValidates DEF ValidateTargets, Validate
<1> QED
  BY <1>1, <1>2, <1>3, <1>4

\* The reads of the snapshot keep what they have found.
LEMMA FreshReading ==
    ASSUME Typing, Typing', Fresh, NEW r \in Requests,
           Load(r) \/ ReadSections(r) \/ ReadItems(r) \/ ReadTargets(r)
    PROVE  Fresh'
<1> USE DEF PublishSteps
<1>1. CASE Load(r)
  <2> DEFINE chosen == DeterminePublishStatus(ReadSettings.opens, ReadSettings.closes)
             seen == [snap[r] EXCEPT !.opens = ReadSettings.opens,
                         !.closes = ReadSettings.closes,
                         !.duration = settings.duration, !.revision = revision,
                         !.status = chosen]
  <2>1. Suits(chosen, settings.opens, settings.closes)
    <3>1. settings.opens \in Times \cup {None} /\ settings.closes \in Times \cup {None}
      BY DEF Typing, TypeOK
    <3>2. now \in Nat
      BY BoundsAssumption DEF Typing, TypeOK, Times
    <3> QED
      BY <3>1, <3>2, DeterminedSuits DEF ReadSettings
  <2>2. /\ seen.opens = ReadSettings.opens /\ seen.closes = ReadSettings.closes
        /\ seen.duration = settings.duration /\ seen.status = chosen
    BY DEF Typing, TypeOK, Snapshots
  <2>3. Read(r, "load", seen, "sections") /\ pc[r] = "load"
    BY <1>1 DEF Load, Read
  <2> HIDE DEF seen, chosen
  <2>4. /\ Same /\ now' = now /\ FreshOK(r) /\ pc'[r] = "sections" /\ snap'[r] = seen
        => FreshOK(r)'
    <3> SUFFICES ASSUME Same, now' = now, FreshOK(r), pc'[r] = "sections",
                        snap'[r] = seen
                 PROVE  FreshOK(r)'
      OBVIOUS
    <3>1. settings' = settings
      BY DEF Same, row
    <3>2. Suits(snap[r].status, settings.opens, settings.closes)'
      BY <2>1, <2>2, <3>1 DEF Suits
    <3>3. SettingsValid /\ ActiveSections # {} /\ ItemsValid /\ TargetsValid
      BY <2>3 DEF FreshOK, PastSettings, PastSections, PastItems, PastTargets
    <3> QED
      BY <2>2, <3>1, <3>2, <3>3, SameChecks
         DEF FreshOK, PastSettings, PastSections, PastItems, PastTargets, Loaded
  <2> QED
    BY <2>3, <2>4, FreshReads
<1>2. CASE ReadSections(r)
  <2> DEFINE seen == [snap[r] EXCEPT !.sections = ActiveSections]
  <2>1. /\ seen.opens = snap[r].opens /\ seen.closes = snap[r].closes
        /\ seen.duration = snap[r].duration /\ seen.status = snap[r].status
        /\ seen.sections = ActiveSections
    BY DEF Typing, TypeOK, Snapshots
  <2>2. Read(r, "sections", seen, "items") /\ pc[r] = "sections"
    BY <1>2 DEF ReadSections, Read
  <2> HIDE DEF seen
  <2>3. /\ Same /\ now' = now /\ FreshOK(r) /\ pc'[r] = "items" /\ snap'[r] = seen
        => FreshOK(r)'
    BY <2>1, <2>2, SameChecks
       DEF FreshOK, Same, row, Suits, PastSettings, PastSections, PastItems,
           PastTargets, Loaded
  <2> QED
    BY <2>2, <2>3, FreshReads
<1>3. CASE ReadItems(r)
  <2> DEFINE seen == [snap[r] EXCEPT !.items = SnapshotItems(snap[r].sections)]
  <2>1. /\ seen.opens = snap[r].opens /\ seen.closes = snap[r].closes
        /\ seen.duration = snap[r].duration /\ seen.status = snap[r].status
        /\ seen.sections = snap[r].sections
        /\ seen.items = SnapshotItems(snap[r].sections)
    BY DEF Typing, TypeOK, Snapshots
  <2>2. Read(r, "items", seen, "targets") /\ pc[r] = "items"
    BY <1>3 DEF ReadItems, Read
  <2> HIDE DEF seen
  <2>3. /\ Same /\ now' = now /\ FreshOK(r) /\ pc'[r] = "targets" /\ snap'[r] = seen
        => FreshOK(r)'
    BY <2>1, <2>2, SameChecks
       DEF FreshOK, Same, row, Suits, PastSettings, PastSections, PastItems,
           PastTargets, Loaded
  <2> QED
    BY <2>2, <2>3, FreshReads
<1>4. CASE ReadTargets(r)
  <2> DEFINE seen == [snap[r] EXCEPT !.targets = ActiveTargets]
  <2>1. /\ seen.opens = snap[r].opens /\ seen.closes = snap[r].closes
        /\ seen.duration = snap[r].duration /\ seen.status = snap[r].status
        /\ seen.sections = snap[r].sections /\ seen.items = snap[r].items
        /\ seen.targets = ActiveTargets
    BY DEF Typing, TypeOK, Snapshots
  <2>2. Read(r, "targets", seen, "commit") /\ pc[r] = "targets"
    BY <1>4 DEF ReadTargets, Read
  <2> HIDE DEF seen
  <2>3. /\ Same /\ now' = now /\ FreshOK(r) /\ pc'[r] = "commit" /\ snap'[r] = seen
        => FreshOK(r)'
    BY <2>1, <2>2, SameChecks
       DEF FreshOK, Same, row, Suits, PastSettings, PastSections, PastItems,
           PastTargets, Loaded
  <2> QED
    BY <2>2, <2>3, FreshReads
<1> QED
  BY <1>1, <1>2, <1>3, <1>4

\* The edits.
Edited(r) ==
    \/ CreateSection(r) \/ DeleteSection(r) \/ CreateItem(r) \/ UpdateItem(r)
    \/ DeleteItem(r) \/ DuplicateItem(r) \/ CopySection(r) \/ CreateTarget(r)
    \/ DeleteTarget(r)

\* An edit ends its request, which was no publishing one.
LEMMA EditedCommits ==
    ASSUME NEW r \in Requests, Edited(r)
    PROVE  EditCommitted(r) /\ pc[r] \in {"write", "copy"}
BY DEF Edited, CreateSection, DeleteSection, CreateItem, UpdateItem, DeleteItem,
       DuplicateItem, CopySection, CreateTarget, DeleteTarget, Writing

\* The steps, by what they may change.
LEMMA Steps ==
    ASSUME [Next]_vars
    PROVE  \/ \E r \in Requests :
                \/ \E e \in Edits : StartEdit(r, e)
                \/ \E u \in Settings : StartUpdateAssessment(r, u)
                \/ Edited(r) \/ DuplicateSection(r) \/ UpdateAssessment(r)
                \/ StartPublish(r)
                \/ ValidateSettings(r) \/ ValidateSections(r)
                \/ ValidateItems(r) \/ ValidateTargets(r)
                \/ Load(r) \/ ReadSections(r) \/ ReadItems(r) \/ ReadTargets(r)
                \/ CommitPublish(r) \/ Fail(r)
           \/ TransitionToOpen \/ TransitionToClosed \/ Tick
           \/ \E c \in Classes : ArchiveClass(c)
           \/ UNCHANGED vars
BY DEF Next, Edit, Publish, Edited

\* A loaded status is one of a publication.
LoadedStatus == \A r \in Requests : pc[r] \in Loaded => snap[r].status # "DRAFT"

\* The read that chooses the status.
LEMMA LoadSnapshot ==
    ASSUME Typing, NEW r \in Requests, Load(r)
    PROVE  snap'[r].status # "DRAFT" /\ snap'[r].revision = revision
BY DEF Load, Read, DeterminePublishStatus, Typing, TypeOK, Snapshots

\* The later reads.
LEMMA LaterReads ==
    ASSUME Typing, NEW r \in Requests, ReadSections(r) \/ ReadItems(r) \/ ReadTargets(r)
    PROVE  /\ snap'[r].status = snap[r].status /\ snap'[r].revision = snap[r].revision
           /\ pc[r] \in Loaded
BY DEF ReadSections, ReadItems, ReadTargets, Read, Typing, TypeOK, Snapshots, Loaded

\* Requests load their status before they are Loaded.
LEMMA LoadedFrom ==
    ASSUME Typing, [Next]_vars, NEW q \in Requests, pc'[q] \in Loaded
    PROVE  \/ Load(q)
           \/ /\ pc[q] \in Loaded /\ snap'[q].status = snap[q].status
              /\ snap'[q].revision = snap[q].revision
<1> USE DEF Typing, TypeOK, Goto, Finish, Loaded
<1>1. ASSUME NEW r \in Requests, Load(r)
      PROVE  q = r \/ (pc'[q] = pc[q] /\ snap'[q] = snap[q])
  BY <1>1 DEF Load, Read
<1>2. ASSUME NEW r \in Requests, ReadSections(r) \/ ReadItems(r) \/ ReadTargets(r)
      PROVE  q = r \/ (pc'[q] = pc[q] /\ snap'[q] = snap[q])
  BY <1>2 DEF ReadSections, ReadItems, ReadTargets, Read
<1>3. ASSUME NEW r \in Requests,
             \/ \E e \in Edits : StartEdit(r, e)
             \/ \E u \in Settings : StartUpdateAssessment(r, u)
             \/ DuplicateSection(r) \/ StartPublish(r)
      PROVE  pc'[q] = pc[q] /\ snap'[q] = snap[q]
  BY <1>3 DEF StartEdit, StartUpdateAssessment, DuplicateSection, StartPublish, Stay
<1>4. ASSUME NEW r \in Requests,
             Edited(r) \/ UpdateAssessment(r) \/ CommitPublish(r) \/ Fail(r)
      PROVE  pc'[q] = pc[q] /\ snap'[q] = snap[q]
  <2>1. Finish(r)
    BY <1>4, EditedCommits DEF EditCommitted, UpdateAssessment, CommitPublish, Fail
  <2> QED
    BY <2>1
<1>5. ASSUME NEW r \in Requests,
             \/ ValidateSettings(r) \/ ValidateSections(r)
             \/ ValidateItems(r) \/ ValidateTargets(r)
      PROVE  pc'[q] = pc[q] /\ snap'[q] = snap[q]
  BY <1>5 DEF ValidateSettings, ValidateSections, ValidateItems, ValidateTargets,
              Validate, Stay
<1>6. CASE \/ TransitionToOpen \/ TransitionToClosed \/ Tick
           \/ \E c \in Classes : ArchiveClass(c)
           \/ UNCHANGED vars
  BY <1>6 DEF TransitionToOpen, TransitionToClosed, Tick, ArchiveClass, vars, Requesting
<1> HIDE DEF Typing, TypeOK, Goto, Finish, Loaded
<1> QED
  BY <1>1, <1>2, <1>3, <1>4, <1>5, <1>6, Steps, LaterReads

\* No step loads a draft's status.
LEMMA LoadedStatusStep ==
    ASSUME Typing, LoadedStatus, [Next]_vars
    PROVE  LoadedStatus'
BY LoadedFrom, LoadSnapshot DEF LoadedStatus

\* Undisturbed requests stay exact.
LEMMA FreshInvariant ==
    ASSUME Typing, Typing', Fresh, LoadedStatus, [Next]_vars
    PROVE  Fresh'
<1>1. ASSUME NEW r \in Requests,
             \/ \E e \in Edits : StartEdit(r, e)
             \/ \E u \in Settings : StartUpdateAssessment(r, u)
             \/ DuplicateSection(r) \/ StartPublish(r)
      PROVE  Fresh'
  <2>1. /\ Same /\ now' = now /\ disturbed' = disturbed /\ UNCHANGED snap
        /\ \E l \in {"validate", "write", "copy"} : Goto(r, l)
    BY <1>1 DEF StartEdit, StartUpdateAssessment, DuplicateSection, StartPublish, Stay,
                Untouched, Unwritten, Same, history
  <2> QED
    BY <2>1, FreshMoves
<1>2. ASSUME NEW r \in Requests, Fail(r)
      PROVE  Fresh'
  BY <1>2, FreshMoves DEF Fail, Unwritten, Same
<1>3. ASSUME NEW r \in Requests, Edited(r) \/ UpdateAssessment(r)
      PROVE  Fresh'
  <2>1. Disturb /\ Finish(r)
    BY <1>3, EditedCommits DEF EditCommitted, UpdateAssessment
  <2>2. \A q \in Requests : pc'[q] = pc[q] \/ ~Publishing(q)'
    BY <2>1 DEF Finish, Goto, Publishing, PublishSteps, Typing, TypeOK
  <2> QED
    BY <2>1, <2>2, FreshDisturbed
<1>4. ASSUME NEW c \in Classes, ArchiveClass(c)
      PROVE  Fresh'
  BY <1>4, FreshDisturbed DEF ArchiveClass
<1>5. ASSUME NEW r \in Requests, CommitPublish(r)
      PROVE  Fresh'
  BY <1>5 DEF CommitPublish, LoadedStatus, Loaded, Fresh
<1>6. CASE TransitionToOpen \/ TransitionToClosed
  BY <1>6 DEF TransitionToOpen, TransitionToClosed, Fresh
<1>7. CASE Tick \/ UNCHANGED vars
  <2>1. /\ Same /\ status' = status /\ disturbed' = disturbed /\ pc' = pc /\ snap' = snap
        /\ now <= now'
    BY <1>7, BoundsAssumption
       DEF Tick, vars, Same, row, Requesting, history, Typing, TypeOK, Times
  <2> QED
    BY <2>1, FreshStays DEF Fresh
<1> QED
  BY <1>1, <1>2, <1>3, <1>4, <1>5, <1>6, <1>7, Steps, FreshValidation, FreshReading

-----------------------------------------------------------------------------
(* The publication, the status and the late edits *)

\* Only a publication makes a publication, and nothing returns to DRAFT.
LEMMA Frame ==
    ASSUME Typing, [Next]_vars, ~ \E r \in Requests : CommitPublish(r)
    PROVE  /\ revision' = revision /\ publications' = publications /\ clean' = clean
           /\ status' = status \/ TransitionToOpen \/ TransitionToClosed
           /\ settings' = settings \/ (status = "DRAFT" /\ status' = status)
<1>1. ASSUME NEW r \in Requests, Edited(r)
      PROVE  UNCHANGED <<row, publications, clean>>
  BY <1>1, EditedCommits DEF EditCommitted, Untouched
<1>2. ASSUME NEW r \in Requests,
             \/ \E e \in Edits : StartEdit(r, e)
             \/ \E u \in Settings : StartUpdateAssessment(r, u)
             \/ DuplicateSection(r) \/ StartPublish(r) \/ Fail(r)
      PROVE  UNCHANGED <<row, publications, clean>>
  BY <1>2 DEF StartEdit, StartUpdateAssessment, DuplicateSection, StartPublish, Fail,
              Untouched, Unwritten, history
<1>3. ASSUME NEW r \in Requests,
             \/ ValidateSettings(r) \/ ValidateSections(r)
             \/ ValidateItems(r) \/ ValidateTargets(r)
      PROVE  UNCHANGED <<row, publications, clean>>
  BY <1>3 DEF ValidateSettings, ValidateSections, ValidateItems, ValidateTargets,
              Validate, Unwritten
<1>4. ASSUME NEW r \in Requests,
             Load(r) \/ ReadSections(r) \/ ReadItems(r) \/ ReadTargets(r)
      PROVE  UNCHANGED <<row, publications, clean>>
  BY <1>4 DEF Load, ReadSections, ReadItems, ReadTargets, Read, Unwritten, history
<1>5. ASSUME NEW r \in Requests, UpdateAssessment(r)
      PROVE  UNCHANGED <<status, revision, publications, clean>> /\ status = "DRAFT"
  BY <1>5 DEF UpdateAssessment
<1>6. CASE TransitionToOpen \/ TransitionToClosed
  BY <1>6 DEF TransitionToOpen, TransitionToClosed, Requesting, history
<1>7. CASE Tick \/ (\E c \in Classes : ArchiveClass(c)) \/ UNCHANGED vars
  BY <1>7 DEF Tick, ArchiveClass, vars, row, Requesting, history
<1> QED
  BY <1>1, <1>2, <1>3, <1>4, <1>5, <1>6, <1>7, Steps DEF row

\* The revision a request has loaded is the one of the draft.
LoadedRevision ==
    status = "DRAFT" => \A r \in Requests : pc[r] \in Loaded => snap[r].revision = 1

\* A draft becomes published by one request, with the revision it loaded.
LEMMA PublishedOnceStep ==
    ASSUME Typing, LoadedStatus, LoadedRevision, PublishedOnce, [Next]_vars
    PROVE  LoadedRevision' /\ PublishedOnce'
<1>1. CASE \E r \in Requests : CommitPublish(r)
  <2>1. PICK r \in Requests : CommitPublish(r)
    BY <1>1
  <2>2. /\ status = "DRAFT" /\ status' # "DRAFT" /\ snap[r].revision = 1
        /\ revision' = revision + 1 /\ revision = 1 /\ publications = << >>
    BY <2>1 DEF CommitPublish, LoadedStatus, LoadedRevision, Loaded, PublishedOnce
  <2>3. publications' = <<[version |-> 2, snapshot |-> snap[r]]>>
    BY <2>1, <2>2 DEF CommitPublish
  <2> QED
    BY <2>2, <2>3 DEF LoadedRevision, PublishedOnce
<1>2. CASE ~ \E r \in Requests : CommitPublish(r)
  <2>1. LoadedRevision'
    BY <1>2, Frame, LoadedFrom, LoadSnapshot
       DEF LoadedRevision, PublishedOnce, TransitionToOpen, TransitionToClosed
  <2>2. PublishedOnce'
    BY <1>2, Frame DEF PublishedOnce, TransitionToOpen, TransitionToClosed
  <2> QED
    BY <2>1, <2>2
<1> QED
  BY <1>1, <1>2

\* The clock.
LEMMA TimeStep ==
    ASSUME Typing, [Next]_vars
    PROVE  now \in Nat /\ now' \in Nat /\ now <= now'
<1>1. now \in Nat /\ now' \in Nat
  BY StepTyping, BoundsAssumption DEF Typing, TypeOK, Times
<1>2. now' = now \/ Tick
  <2>1. ASSUME NEW r \in Requests, Edited(r)
        PROVE  now' = now
    BY <2>1, EditedCommits DEF EditCommitted, Untouched
  <2>2. ASSUME NEW r \in Requests,
               \/ ValidateSettings(r) \/ ValidateSections(r)
               \/ ValidateItems(r) \/ ValidateTargets(r)
               \/ Load(r) \/ ReadSections(r) \/ ReadItems(r) \/ ReadTargets(r)
        PROVE  now' = now
    BY <2>2 DEF ValidateSettings, ValidateSections, ValidateItems, ValidateTargets,
                Validate, Load, ReadSections, ReadItems, ReadTargets, Read, Unwritten
  <2>3. ASSUME NEW r \in Requests,
               \/ \E e \in Edits : StartEdit(r, e)
               \/ \E u \in Settings : StartUpdateAssessment(r, u)
               \/ DuplicateSection(r) \/ UpdateAssessment(r) \/ StartPublish(r)
               \/ CommitPublish(r) \/ Fail(r)
        PROVE  now' = now
    BY <2>3 DEF StartEdit, StartUpdateAssessment, DuplicateSection, UpdateAssessment,
                StartPublish, CommitPublish, Fail, Untouched, Unwritten
  <2>4. CASE \/ TransitionToOpen \/ TransitionToClosed
             \/ (\E c \in Classes : ArchiveClass(c)) \/ UNCHANGED vars
    BY <2>4 DEF TransitionToOpen, TransitionToClosed, ArchiveClass, vars
  <2> QED
    BY <2>1, <2>2, <2>3, <2>4, Steps
<1> QED
  BY <1>1, <1>2 DEF Tick

\* The status suits the schedule when it is written and as time goes on.
LEMMA StatusJustifiedStep ==
    ASSUME Typing, Typing', Fresh, LoadedStatus, StatusJustified, [Next]_vars
    PROVE  StatusJustified'
<1>1. /\ settings.opens \in Times \cup {None} /\ settings.closes \in Times \cup {None}
      /\ now \in Nat /\ now' \in Nat /\ now <= now'
  BY TimeStep DEF Typing, TypeOK
<1>2. CASE \E r \in Requests : CommitPublish(r)
  <2>1. PICK r \in Requests : CommitPublish(r)
    BY <1>2
  <2>2. r \notin disturbed => Suits(snap[r].status, settings.opens, settings.closes)
    BY <2>1 DEF CommitPublish, Fresh, FreshOK, Loaded
  <2>3. /\ clean' = (r \notin disturbed) /\ status' = snap[r].status
        /\ settings' = settings /\ now' = now
    BY <2>1 DEF CommitPublish
  <2> QED
    BY <2>2, <2>3 DEF Suits, StatusJustified
<1>3. CASE ~ \E r \in Requests : CommitPublish(r)
  <2>1. CASE TransitionToOpen
    BY <1>1, <2>1, BoundsAssumption DEF TransitionToOpen, StatusJustified, Times
  <2>2. CASE TransitionToClosed
    BY <1>1, <2>2, BoundsAssumption DEF TransitionToClosed, StatusJustified, Times
  <2>3. CASE status' = status
    <3>1. clean' = clean /\ (settings' = settings \/ status = "DRAFT")
      BY <1>3, Frame
    <3>2. CASE status = "DRAFT"
      BY <2>3, <3>2 DEF StatusJustified
    <3>3. CASE settings' = settings
      BY <1>1, <2>3, <3>1, <3>3, BoundsAssumption DEF StatusJustified, Times
    <3> QED
      BY <3>1, <3>2, <3>3
  <2> QED
    BY <1>3, <2>1, <2>2, <2>3, Frame
<1> QED
  BY <1>2, <1>3

\* Each writer can still commit one change, and the publisher is none.
LateInv ==
    IF status = "DRAFT" THEN late = 0
    ELSE late + Cardinality(Writers) <= Cardinality(Requests) - 1

\* Subsets of the requests.
LEMMA RequestCounts ==
    ASSUME NEW S \in SUBSET Requests
    PROVE  /\ IsFiniteSet(S) /\ Cardinality(S) \in Nat
           /\ \A T \in SUBSET S : Cardinality(T) <= Cardinality(S)
           /\ \A r \in S : Cardinality(S \ {r}) = Cardinality(S) - 1
BY RequestsAssumption, FS_Subset, FS_CardinalityType, FS_RemoveElement

\* A request that ends writes no more.
LEMMA FinishWriters ==
    ASSUME Typing, NEW r \in Requests, Finish(r)
    PROVE  Writers' = Writers \ {r}
BY DEF Finish, Goto, Writers, Typing, TypeOK

\* Who writes, and which step counts as late.
LEMMA WritersStep ==
    ASSUME Typing, [Next]_vars
    PROVE  \/ \E r \in Requests : CommitPublish(r) /\ Finish(r) /\ late' = late
           \/ /\ status' = status \/ (status # "DRAFT" /\ status' # "DRAFT")
              /\ late' = late /\ (status # "DRAFT" => Writers' \subseteq Writers)
           \/ \E r \in Writers :
                 /\ status' = status /\ Writers' = Writers \ {r}
                 /\ late' = IF status = "DRAFT" THEN late ELSE late + 1
<1>1. ASSUME NEW r \in Requests, Edited(r)
      PROVE  /\ r \in Writers /\ status' = status /\ Writers' = Writers \ {r}
             /\ late' = IF status = "DRAFT" THEN late ELSE late + 1
  BY <1>1, EditedCommits, FinishWriters DEF EditCommitted, Untouched, row, Writers
<1>2. ASSUME NEW r \in Requests,
             \/ \E e \in Edits : StartEdit(r, e)
             \/ \E u \in Settings : StartUpdateAssessment(r, u)
      PROVE  status' = status /\ late' = late /\ status = "DRAFT"
  BY <1>2 DEF StartEdit, StartUpdateAssessment, row, history
<1>3. ASSUME NEW r \in Requests, UpdateAssessment(r) \/ Fail(r)
      PROVE  status' = status /\ late' = late /\ Writers' \subseteq Writers
  BY <1>3, FinishWriters DEF UpdateAssessment, Fail, Unwritten, row
<1>4. ASSUME NEW r \in Requests, DuplicateSection(r)
      PROVE  status' = status /\ late' = late /\ Writers' \subseteq Writers
  BY <1>4 DEF DuplicateSection, Writing, Goto, Untouched, row, history, Writers,
              Typing, TypeOK
<1>5. ASSUME NEW r \in Requests, StartPublish(r)
      PROVE  status' = status /\ late' = late /\ Writers' \subseteq Writers
  BY <1>5 DEF StartPublish, Goto, Unwritten, row, history, Writers, Typing, TypeOK
<1>6. ASSUME NEW r \in Requests,
             \/ ValidateSettings(r) \/ ValidateSections(r)
             \/ ValidateItems(r) \/ ValidateTargets(r)
      PROVE  status' = status /\ late' = late /\ Writers' \subseteq Writers
  BY <1>6, FinishWriters
     DEF ValidateSettings, ValidateSections, ValidateItems, ValidateTargets, Validate,
         Goto, Unwritten, row, Writers, Typing, TypeOK
<1>7. ASSUME NEW r \in Requests,
             Load(r) \/ ReadSections(r) \/ ReadItems(r) \/ ReadTargets(r)
      PROVE  status' = status /\ late' = late /\ Writers' \subseteq Writers
  BY <1>7 DEF Load, ReadSections, ReadItems, ReadTargets, Read, Goto, Unwritten, row,
              history, Writers, Typing, TypeOK
<1>8. ASSUME NEW r \in Requests, CommitPublish(r)
      PROVE  Finish(r) /\ late' = late
  BY <1>8 DEF CommitPublish
<1>9. CASE TransitionToOpen \/ TransitionToClosed
  BY <1>9 DEF TransitionToOpen, TransitionToClosed, Requesting, history, Writers
<1>10. CASE Tick \/ (\E c \in Classes : ArchiveClass(c)) \/ UNCHANGED vars
  BY <1>10 DEF Tick, ArchiveClass, vars, row, Requesting, history, Writers
<1> QED
  BY <1>1, <1>2, <1>3, <1>4, <1>5, <1>6, <1>7, <1>8, <1>9, <1>10, Steps

\* Every change after the publication uses up a writer.
LEMMA LateStep ==
    ASSUME Typing, Typing', LoadedStatus, LateInv, [Next]_vars
    PROVE  LateInv'
<1>1. /\ Writers \in SUBSET Requests /\ Writers' \in SUBSET Requests
      /\ Cardinality(Writers) \in Nat /\ Cardinality(Writers') \in Nat
      /\ Cardinality(Requests) \in Nat /\ late \in Nat
  <2>1. Writers \in SUBSET Requests /\ Writers' \in SUBSET Requests
    BY DEF Writers
  <2> QED
    BY <2>1, RequestCounts DEF Typing, TypeOK
<1>2. ASSUME NEW r \in Requests, CommitPublish(r), Finish(r), late' = late
      PROVE  LateInv'
  <2>1. status = "DRAFT" /\ status' # "DRAFT" /\ late = 0
    BY <1>2 DEF CommitPublish, LoadedStatus, Loaded, LateInv
  <2>2. Writers' \in SUBSET (Requests \ {r})
    BY <1>2, FinishWriters DEF Writers
  <2>3. Cardinality(Writers') <= Cardinality(Requests) - 1
    <3>1. /\ Cardinality(Writers') <= Cardinality(Requests \ {r})
          /\ Cardinality(Requests \ {r}) = Cardinality(Requests) - 1
      BY <2>2, RequestCounts
    <3> QED
      BY <3>1
  <2> QED
    BY <1>1, <1>2, <2>1, <2>3 DEF LateInv
<1>3. CASE /\ status' = status \/ (status # "DRAFT" /\ status' # "DRAFT")
           /\ late' = late /\ (status # "DRAFT" => Writers' \subseteq Writers)
  <2>1. status # "DRAFT" => Cardinality(Writers') <= Cardinality(Writers)
    BY <1>1, <1>3, RequestCounts
  <2> QED
    BY <1>1, <1>3, <2>1 DEF LateInv
<1>4. ASSUME NEW r \in Writers, status' = status, Writers' = Writers \ {r},
             late' = IF status = "DRAFT" THEN late ELSE late + 1
      PROVE  LateInv'
  <2>1. Cardinality(Writers') = Cardinality(Writers) - 1
    BY <1>1, <1>4, RequestCounts
  <2> QED
    BY <1>1, <1>4, <2>1 DEF LateInv
<1> QED
  BY <1>2, <1>3, <1>4, WritersStep

-----------------------------------------------------------------------------
(* Theorems *)

\* The inductive invariant.
PublishingInv ==
    /\ Typing /\ Fresh /\ LoadedStatus /\ LoadedRevision /\ LateInv
    /\ PublishedOnce /\ StatusJustified

\* It holds in every state.
THEOREM PublishingInvariant == Spec => []PublishingInv
<1>1. Init => PublishingInv
  <2> SUFFICES ASSUME Init
               PROVE  PublishingInv
    OBVIOUS
  <2>1. Typing
    BY InitTyping
  <2>2. Fresh
    BY FreshElsewhere DEF Init, Fresh, Publishing, PublishSteps
  <2>3. LoadedStatus /\ LoadedRevision
    BY DEF Init, LoadedStatus, LoadedRevision, Loaded
  <2>4. LateInv /\ PublishedOnce /\ StatusJustified
    BY DEF Init, LateInv, PublishedOnce, StatusJustified
  <2> QED
    BY <2>1, <2>2, <2>3, <2>4 DEF PublishingInv
<1>2. PublishingInv /\ [Next]_vars => PublishingInv'
  <2> SUFFICES ASSUME PublishingInv, [Next]_vars
               PROVE  PublishingInv'
    OBVIOUS
  <2>1. Typing'
    BY StepTyping DEF PublishingInv
  <2> QED
    BY <2>1, FreshInvariant, LoadedStatusStep, PublishedOnceStep, StatusJustifiedStep,
       LateStep
       DEF PublishingInv
<1> QED
  BY <1>1, <1>2, PTL DEF Spec

\* Every variable keeps its type.
THEOREM TypeCorrect == Spec => []TypeOK
<1>1. PublishingInv => TypeOK
  BY DEF PublishingInv, Typing
<1> QED
  BY <1>1, PublishingInvariant, PTL

\* However many managers publish at once, one publication comes of it.
THEOREM PublicationIsUnique == Spec => []PublishedOnce
<1>1. PublishingInv => PublishedOnce
  BY DEF PublishingInv
<1> QED
  BY <1>1, PublishingInvariant, PTL

\* A publication no change ran beside has the status its schedule asks for,
\* give or take the part of a second that formatting the schedule cuts off.
THEOREM StatusSuitsSchedule == Spec => []StatusJustified
<1>1. PublishingInv => StatusJustified
  BY DEF PublishingInv
<1> QED
  BY <1>1, PublishingInvariant, PTL

\* At most all other requests change a published assessment, once each.
THEOREM LateEditsAreFew ==
    ASSUME Requests # {}
    PROVE  Spec => []LateEditsBounded
<1>1. ASSUME PublishingInv
      PROVE  LateEditsBounded
  <2>1. /\ Cardinality(Writers) \in Nat /\ Cardinality(Requests) \in Nat
        /\ late \in Nat
    <3>1. Writers \in SUBSET Requests
      BY DEF Writers
    <3> QED
      BY <1>1, <3>1, RequestCounts DEF PublishingInv, Typing, TypeOK
  <2>2. Cardinality(Requests) >= 1
    BY <2>1, RequestsAssumption, FS_EmptySet
  <2> QED
    BY <1>1, <2>1, <2>2 DEF PublishingInv, LateInv, LateEditsBounded
<1> QED
  BY <1>1, PublishingInvariant, PTL

\* What a publication stores is the draft as it stands, checked as it stands,
\* unless a change committed while the request was at it.
THEOREM SnapshotIsTheDraft == Spec => LonePublishExact
<1> DEFINE Exact(r) ==
      LET s == publications'[1].snapshot IN
      /\ SettingsValid /\ ItemsValid /\ TargetsValid
      /\ ActiveSections # {}
      /\ ReadSettings = [opens |-> s.opens, closes |-> s.closes, duration |-> s.duration]
      /\ s.sections = ActiveSections /\ s.targets = ActiveTargets
      /\ s.items = SnapshotItems(ActiveSections)
<1>1. ASSUME PublishingInv, Next, NEW r \in Requests, publications' # publications,
             pc[r] # pc'[r], r \notin disturbed
      PROVE  Exact(r)
  <2>1. PICK q \in Requests : CommitPublish(q)
    BY <1>1, Frame DEF PublishingInv
  <2>2. q = r
    BY <1>1, <2>1 DEF CommitPublish, Finish, Goto, PublishingInv, Typing, TypeOK
  <2>3. /\ status = "DRAFT" /\ publications = << >> /\ pc[r] = "commit"
        /\ publications'[1].snapshot = snap[r]
    BY <1>1, <2>1, <2>2 DEF CommitPublish, PublishingInv, PublishedOnce
  <2>4. FreshOK(r)
    BY <1>1, <2>3 DEF PublishingInv, Fresh
  <2>5. ReadSettings = [opens |-> ReadSettings.opens, closes |-> ReadSettings.closes,
                        duration |-> settings.duration]
    BY DEF ReadSettings
  <2> QED
    BY <2>3, <2>4, <2>5
       DEF FreshOK, PastSettings, PastSections, PastItems, PastTargets, PublishSteps,
           Loaded
<1>2. PublishingInv /\ [Next]_vars =>
        [\A r \in Requests :
          publications' # publications /\ pc[r] # pc'[r] /\ r \notin disturbed =>
            LET s == publications'[1].snapshot IN
            /\ SettingsValid /\ ItemsValid /\ TargetsValid
            /\ ActiveSections # {}
            /\ ReadSettings = [opens |-> s.opens, closes |-> s.closes,
                               duration |-> s.duration]
            /\ s.sections = ActiveSections /\ s.targets = ActiveTargets
            /\ s.items = SnapshotItems(ActiveSections)]_vars
  BY <1>1
<1> QED
  BY <1>2, PublishingInvariant, PTL DEF Spec, LonePublishExact

=============================================================================
