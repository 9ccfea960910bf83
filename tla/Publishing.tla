----------------------------- MODULE Publishing -----------------------------
(***************************************************************************)
(* One assessment of the builder: its draft is edited and published by     *)
(* requests that overlap, and the scheduler opens and closes it.           *)
(*                                                                         *)
(* Every edit checks that the assessment is a DRAFT, then writes its rows  *)
(* in a transaction that does not look at the assessment again; only the   *)
(* update of the settings and the publication repeat the check in their    *)
(* UPDATE.  PublishAssessment validates with four reads, builds the        *)
(* snapshot with four more and writes both in a short transaction at the   *)
(* end.  Inserts into the child tables take FOR KEY SHARE on the           *)
(* assessment, which the UPDATE of its status does not wait for.           *)
(*                                                                         *)
(* Titles, positions and question contents are left out.  A clash of       *)
(* positions ends an edit without effect: it is one of the ways to Fail.   *)
(***************************************************************************)
EXTENDS Integers, FiniteSets, Sequences, Functions

CONSTANTS Sections, Items,  \* ids the database may hand out
          Classes,          \* class sections that may be targets
          Requests,         \* concurrent requests of managers
          Edits, Settings,  \* edits and values UpdateAssessment may be sent
          PerSecond,        \* instants of the clock in a second
          MaxTime,          \* bound of the clock
          MaxEdits,         \* bound of the edits begun
          None              \* SQL NULL, a field not sent, no operation

Times == 0..MaxTime

EditRequests ==
    [kind : {"CreateSection"}]
    \cup [kind : {"DeleteSection", "DuplicateSection"}, section : Sections]
    \cup [kind : {"CreateItem"}, section : Sections, positive : BOOLEAN]
    \cup [kind : {"UpdateItem"}, item : Items, positive : BOOLEAN]
    \cup [kind : {"DeleteItem", "DuplicateItem"}, item : Items]
    \cup [kind : {"CreateTarget", "DeleteTarget"}, class : Classes]

\* UpdateAssessment with every field filled in.  duration stands for
\* duration_minutes and max_attempts, which validation treats alike.
UpdateRequests ==
    [kind : {"UpdateAssessment"}, opens : Times \cup {None},
     closes : Times \cup {None}, duration : Nat]

ASSUME RequestsAssumption == IsFiniteSet(Requests)
ASSUME EditsAssumption == Edits \subseteq EditRequests
ASSUME SettingsAssumption ==
    Settings \subseteq [opens : Times \cup {None}, closes : Times \cup {None},
                        duration : Nat \cup {None}]
ASSUME BoundsAssumption ==
    MaxTime \in Nat /\ MaxEdits \in Nat /\ PerSecond \in Nat \ {0}
ASSUME NoneAssumption == None \notin Nat \cup Sections \cup Items

VARIABLES status, revision,
          settings,      \* opens_at, closes_at, duration
          section,       \* assessment_sections: "absent" or their status
          item,          \* assessment_items with section and sign of points
          target,        \* assessment_targets by class
          active,        \* class sections that are ACTIVE
          publications,  \* assessment_publications in order of insertion
          now

VARIABLES pc, op,        \* requests: next step, operation and its arguments
          snap           \* what a publishing request has read

\* History, read by the properties and the bound only.
VARIABLES edits,         \* edits begun
          disturbed,     \* publishing requests beside which a change committed
          clean,         \* was the publication made by an undisturbed request
          late           \* content changes committed after the publication

row == <<status, revision, settings>>
content == <<section, item, target>>
history == <<disturbed, clean, late>>
vars == <<row, content, active, publications, now, pc, op, snap, edits, history>>

-----------------------------------------------------------------------------
(* Rows and requests *)

NoItem == [state |-> "absent", section |-> None, positive |-> FALSE]
NewItem(s, p) == [state |-> "ACTIVE", section |-> s, positive |-> p]
NoSnap == [opens |-> None, closes |-> None, duration |-> 0, status |-> "DRAFT",
           revision |-> 0, sections |-> {}, items |-> {}, targets |-> {}]

ActiveSections == {s \in Sections : section[s] = "ACTIVE"}
ActiveItems == {i \in Items : item[i].state = "ACTIVE"}
ItemsOf(s) == {i \in ActiveItems : item[i].section = s}

ActiveTargets == {c \in Classes : target[c] = "ACTIVE"}

\* tsPtr formats the instants of a row in whole seconds.
Cut(t) == IF t = None THEN None ELSE t - (t % PerSecond)

\* The settings as GetAssessment returns them.
ReadSettings == [opens |-> Cut(settings.opens), closes |-> Cut(settings.closes),
                 duration |-> settings.duration]

\* buildSnapshot drops an item whose section it did not read.
SnapshotItems(S) ==
    {[item |-> i, section |-> item[i].section, positive |-> item[i].positive] :
        i \in {i \in ActiveItems : item[i].section \in S}}

\* Mistake: a status that the scheduler's queries know but nothing else.
DeterminePublishStatusScheduled(opens, closes) ==
    IF opens # None /\ opens > now THEN "SCHEDULED"
    ELSE IF closes # None /\ closes <= now THEN "CLOSED"
    ELSE "OPEN"

\* determinePublishStatus
DeterminePublishStatus(opens, closes) ==
    IF opens # None /\ opens > now THEN "PUBLISHED"
    ELSE IF closes # None /\ closes <= now THEN "CLOSED"
    ELSE "OPEN"

\* The lookups of the row's assessment, which do not look at the row's status.
Known(e) ==
    /\ e.kind \in {"DeleteSection", "CreateItem"} => section[e.section] # "absent"
    /\ e.kind \in {"UpdateItem", "DeleteItem"} => item[e.item].state # "absent"
    /\ e.kind = "DuplicateItem" => item[e.item].state # "absent"
    /\ e.kind = "DeleteTarget" => target[e.class] # "absent"

PublishSteps == {"validate", "validateSections", "validateItems",
                 "validateTargets", "load", "sections", "items", "targets",
                 "commit"}
Publishing(q) == pc[q] \in PublishSteps

Init ==
    /\ status = "DRAFT" /\ revision = 1
    /\ settings = [opens |-> None, closes |-> None, duration |-> 1]
    /\ section = [s \in Sections |-> "absent"]
    /\ item = [i \in Items |-> NoItem]
    /\ target = [c \in Classes |-> "absent"]
    /\ active = Classes
    /\ publications = << >>
    /\ now = 0
    /\ pc = [r \in Requests |-> "idle"]
    /\ op = [r \in Requests |-> None]
    /\ snap = [r \in Requests |-> NoSnap]
    /\ edits = 0 /\ disturbed = {} /\ clean = TRUE /\ late = 0

Goto(r, label) == pc' = [pc EXCEPT ![r] = label]
Finish(r) == /\ Goto(r, "idle")
             /\ op' = [op EXCEPT ![r] = None]
             /\ snap' = [snap EXCEPT ![r] = NoSnap]

Stay(r) == UNCHANGED <<op, snap>>
Settled(r) == disturbed' = disturbed \ {r}

-----------------------------------------------------------------------------
(* Edits of the draft *)

Untouched == <<row, active, publications, now, edits>>

\* Mistake: requireDraft is not asked.
StartEditAnytime(r, e) ==
    /\ pc[r] = "idle" /\ edits < MaxEdits
    /\ Known(e)
    /\ Goto(r, "write") /\ op' = [op EXCEPT ![r] = e]
    /\ edits' = edits + 1
    /\ UNCHANGED <<row, content, active, publications, now, snap,
                   history>>

\* requireDraft, before the transaction; a refused request changes nothing.
StartEdit(r, e) ==
    /\ pc[r] = "idle" /\ edits < MaxEdits
    /\ Known(e) /\ status = "DRAFT"
    /\ Goto(r, "write") /\ op' = [op EXCEPT ![r] = e]
    /\ edits' = edits + 1
    /\ UNCHANGED <<row, content, active, publications, now, snap,
                   history>>

\* UpdateAssessment fills the fields not sent from the row it reads, but
\* opens_at and closes_at are taken as sent.
StartUpdateAssessment(r, u) ==
    /\ pc[r] = "idle" /\ edits < MaxEdits
    /\ status = "DRAFT"
    /\ Goto(r, "write")
    /\ op' = [op EXCEPT ![r] = [kind |-> "UpdateAssessment", opens |-> u.opens,
          closes |-> u.closes,
          duration |-> IF u.duration = None THEN settings.duration ELSE u.duration]]
    /\ edits' = edits + 1
    /\ UNCHANGED <<row, content, active, publications, now, snap,
                   history>>

Writing(r, kind) == pc[r] = "write" /\ op[r].kind = kind

Disturb == disturbed' = disturbed \cup {q \in Requests : Publishing(q)}
EditCommitted(r) ==
    /\ Finish(r)
    /\ Disturb
    /\ late' = IF status = "DRAFT" THEN late ELSE late + 1
    /\ UNCHANGED <<Untouched, clean>>

CreateSection(r) ==
    /\ Writing(r, "CreateSection")
    /\ \E s \in Sections : /\ section[s] = "absent"
                           /\ section' = [section EXCEPT ![s] = "ACTIVE"]
    /\ EditCommitted(r) /\ UNCHANGED <<item, target>>

\* The items of an archived section stay ACTIVE.
DeleteSection(r) ==
    /\ Writing(r, "DeleteSection")
    /\ section[op[r].section] = "ACTIVE"
    /\ section' = [section EXCEPT ![op[r].section] = "ARCHIVED"]
    /\ EditCommitted(r) /\ UNCHANGED <<item, target>>

\* The section may be ARCHIVED: nothing looks at its status.
CreateItem(r) ==
    /\ Writing(r, "CreateItem")
    /\ \E i \in Items :
          /\ item[i].state = "absent"
          /\ item' = [item EXCEPT ![i] = NewItem(op[r].section, op[r].positive)]
    /\ EditCommitted(r) /\ UNCHANGED <<section, target>>

\* Points of zero are taken for points not sent, so only negative ones are not
\* positive here.
UpdateItem(r) ==
    /\ Writing(r, "UpdateItem")
    /\ item[op[r].item].state = "ACTIVE"
    /\ item' = [item EXCEPT ![op[r].item].positive = op[r].positive]
    /\ EditCommitted(r) /\ UNCHANGED <<section, target>>

DeleteItem(r) ==
    /\ Writing(r, "DeleteItem")
    /\ item[op[r].item].state = "ACTIVE"
    /\ item' = [item EXCEPT ![op[r].item].state = "ARCHIVED"]
    /\ EditCommitted(r) /\ UNCHANGED <<section, target>>

DuplicateItem(r) ==
    /\ Writing(r, "DuplicateItem")
    /\ LET source == item[op[r].item] IN
          /\ source.state = "ACTIVE"
          /\ \E i \in Items :
                /\ item[i].state = "absent"
                /\ item' = [item EXCEPT ![i] = NewItem(source.section, source.positive)]
    /\ EditCommitted(r) /\ UNCHANGED <<section, target>>

\* DuplicateSection looks at its source ...
DuplicateSection(r) ==
    /\ Writing(r, "DuplicateSection")
    /\ section[op[r].section] = "ACTIVE"
    /\ Goto(r, "copy") /\ Stay(r)
    /\ UNCHANGED <<content, Untouched, history>>

\* Each item j of the source gets a copy, row f[j], in section s.
Copies(f, s) ==
    [i \in Items |->
        IF \E j \in DOMAIN f : f[j] = i
        THEN NewItem(s, item[CHOOSE j \in DOMAIN f : f[j] = i].positive)
        ELSE item[i]]
FreeItems == {i \in Items : item[i].state = "absent"}

\* ... and then copies it with the items it has by now.
CopySection(r) ==
    /\ pc[r] = "copy"
    /\ \E s \in Sections, f \in Injection(ItemsOf(op[r].section), FreeItems) :
          /\ section[s] = "absent"
          /\ section' = [section EXCEPT ![s] = "ACTIVE"]
          /\ item' = Copies(f, s)
    /\ EditCommitted(r) /\ UNCHANGED target

\* The unique key counts archived rows: a class can be a target once.
CreateTarget(r) ==
    /\ Writing(r, "CreateTarget")
    /\ target[op[r].class] = "absent"
    /\ target' = [target EXCEPT ![op[r].class] = "ACTIVE"]
    /\ EditCommitted(r) /\ UNCHANGED <<section, item>>

DeleteTarget(r) ==
    /\ Writing(r, "DeleteTarget")
    /\ target[op[r].class] = "ACTIVE"
    /\ target' = [target EXCEPT ![op[r].class] = "ARCHIVED"]
    /\ EditCommitted(r) /\ UNCHANGED <<section, item>>

\* Mistake: WHERE status = 'DRAFT' is missing.
UpdateAssessmentAnytime(r) ==
    /\ Writing(r, "UpdateAssessment")
    /\ settings' = [opens |-> op[r].opens, closes |-> op[r].closes,
                    duration |-> op[r].duration]
    /\ Finish(r) /\ Disturb
    /\ UNCHANGED <<status, revision, content, active, publications, now,
                    edits, clean, late>>

\* The UPDATE checks the status again.
UpdateAssessment(r) ==
    /\ Writing(r, "UpdateAssessment")
    /\ status = "DRAFT"
    /\ settings' = [opens |-> op[r].opens, closes |-> op[r].closes,
                    duration |-> op[r].duration]
    /\ Finish(r) /\ Disturb
    /\ UNCHANGED <<status, revision, content, active, publications, now,
                    edits, clean, late>>

-----------------------------------------------------------------------------
(* PublishAssessment *)

Unwritten == <<row, content, active, publications, now, edits>>

StartPublish(r) ==
    /\ pc[r] = "idle"
    /\ Goto(r, "validate") /\ Stay(r)
    /\ UNCHANGED <<Unwritten, history>>

\* A read of ValidateAssessment: with an error in it the publication fails.
Validate(r, from, valid, to) ==
    /\ pc[r] = from
    /\ IF valid THEN Goto(r, to) /\ Stay(r) /\ UNCHANGED disturbed
       ELSE Finish(r) /\ Settled(r)
    /\ UNCHANGED <<Unwritten, clean, late>>

SettingsValid ==
    /\ status = "DRAFT" /\ settings.duration >= 1
    /\ settings.opens # None /\ settings.closes # None =>
          ReadSettings.opens < ReadSettings.closes
ItemsValid == ActiveItems # {} /\ \A i \in ActiveItems : item[i].positive
TargetsValid == ActiveTargets # {} /\ ActiveTargets \subseteq active

ValidateSettings(r) == Validate(r, "validate", SettingsValid, "validateSections")
ValidateSections(r) ==
    Validate(r, "validateSections", ActiveSections # {}, "validateItems")

\* Mistake: only the number of items is looked at.
ValidateItemsCount(r) ==
    Validate(r, "validateItems", ActiveItems # {}, "validateTargets")
ValidateItems(r) == Validate(r, "validateItems", ItemsValid, "validateTargets")
ValidateTargets(r) == Validate(r, "validateTargets", TargetsValid, "load")

Read(r, from, seen, to) ==
    /\ pc[r] = from
    /\ snap' = [snap EXCEPT ![r] = seen]
    /\ Goto(r, to)
    /\ UNCHANGED <<Unwritten, op, history>>

\* The second GetAssessment, and the status the clock gives it.
Load(r) ==
    Read(r, "load",
         [snap[r] EXCEPT !.opens = ReadSettings.opens, !.closes = ReadSettings.closes,
                         !.duration = settings.duration, !.revision = revision,
                         !.status = DeterminePublishStatus(ReadSettings.opens,
                                                           ReadSettings.closes)],
         "sections")

\* buildSnapshot
ReadSections(r) ==
    Read(r, "sections", [snap[r] EXCEPT !.sections = ActiveSections], "items")
ReadItems(r) ==
    Read(r, "items", [snap[r] EXCEPT !.items = SnapshotItems(snap[r].sections)],
         "targets")
ReadTargets(r) ==
    Read(r, "targets", [snap[r] EXCEPT !.targets = ActiveTargets], "commit")

\* Mistake: the UPDATE does not ask for a DRAFT.
CommitPublishAgain(r) ==
    /\ pc[r] = "commit"
    /\ status' = snap[r].status
    /\ revision' = revision + 1
    /\ publications' = Append(publications,
                             [version |-> revision', snapshot |-> snap[r]])
    /\ clean' = (r \notin disturbed)
    /\ Finish(r) /\ Settled(r)
    /\ UNCHANGED <<settings, content, active, now, edits, late>>

\* The transaction.  The second of two waits for the row and finds no DRAFT.
\* The notifications that follow it are left to the notifications feature.
CommitPublish(r) ==
    /\ pc[r] = "commit" /\ status = "DRAFT"
    /\ status' = snap[r].status
    /\ revision' = revision + 1
    /\ publications' = Append(publications,
                             [version |-> revision', snapshot |-> snap[r]])
    /\ clean' = (r \notin disturbed)
    /\ Finish(r) /\ Settled(r)
    /\ UNCHANGED <<settings, content, active, now, edits, late>>

\* A request ends without further effect: its row is gone, a unique key
\* clashes, the context ends, the server stops.
Fail(r) ==
    /\ pc[r] # "idle"
    /\ Finish(r) /\ Settled(r)
    /\ UNCHANGED <<Unwritten, clean, late>>

-----------------------------------------------------------------------------
(* The transition job, the clock and the class directory *)

Requesting == <<pc, op, snap, edits, history>>

\* Mistake: a strict comparison.
TransitionToOpenStrictly ==
    /\ status = "PUBLISHED"
    /\ settings.opens # None /\ settings.opens < now
    /\ status' = "OPEN"
    /\ UNCHANGED <<revision, settings, content, active, publications,
                   now, Requesting>>

\* The two UPDATEs of the transition job, each its own transaction.  One that
\* finds no row to change, or fails, changes nothing.
TransitionToOpen ==
    /\ status = "PUBLISHED"
    /\ settings.opens # None /\ settings.opens <= now
    /\ status' = "OPEN"
    /\ UNCHANGED <<revision, settings, content, active, publications,
                   now, Requesting>>

TransitionToClosed ==
    /\ status = "OPEN"
    /\ settings.closes # None /\ settings.closes <= now
    /\ status' = "CLOSED"
    /\ UNCHANGED <<revision, settings, content, active, publications,
                   now, Requesting>>

Tick ==
    /\ now < MaxTime /\ now' = now + 1
    /\ UNCHANGED <<row, content, active, publications, Requesting>>

\* ArchiveClass of the academics feature.
ArchiveClass(c) ==
    /\ c \in active /\ active' = active \ {c}
    /\ Disturb
    /\ UNCHANGED <<row, content, publications, now, pc, op, snap,
                   edits, clean, late>>

-----------------------------------------------------------------------------
(* The specification *)

Edit(r) ==
    \/ \E e \in Edits : StartEdit(r, e)
    \/ \E u \in Settings : StartUpdateAssessment(r, u)
    \/ CreateSection(r) \/ DeleteSection(r)
    \/ CreateItem(r) \/ UpdateItem(r) \/ DeleteItem(r) \/ DuplicateItem(r)
    \/ DuplicateSection(r) \/ CopySection(r)
    \/ CreateTarget(r) \/ DeleteTarget(r) \/ UpdateAssessment(r)

Publish(r) ==
    \/ StartPublish(r) \/ ValidateSettings(r) \/ ValidateSections(r)
    \/ ValidateItems(r) \/ ValidateTargets(r) \/ Load(r) \/ ReadSections(r)
    \/ ReadItems(r) \/ ReadTargets(r) \/ CommitPublish(r)

Next ==
    \/ \E r \in Requests : Edit(r) \/ Publish(r) \/ Fail(r)
    \/ TransitionToOpen \/ TransitionToClosed \/ Tick
    \/ \E c \in Classes : ArchiveClass(c)

Spec == Init /\ [][Next]_vars

\* The ticker runs the job as long as a server runs, and an UPDATE that fails
\* is tried again by the next run.
Fairness == WF_vars(TransitionToOpen) /\ WF_vars(TransitionToClosed)

-----------------------------------------------------------------------------
(* Properties *)

PcLabels == {"idle", "write", "copy"} \cup PublishSteps
Statuses == {"DRAFT", "PUBLISHED", "OPEN", "CLOSED"}
RowStates == {"absent", "ACTIVE", "ARCHIVED"}
Snapshots ==
    [opens : Times \cup {None}, closes : Times \cup {None}, duration : Nat,
     status : Statuses, revision : Nat, sections : SUBSET Sections,
     items : SUBSET [item : Items, section : Sections \cup {None},
                     positive : BOOLEAN],
     targets : SUBSET Classes]

\* Type invariant.
TypeOK ==
    /\ status \in Statuses /\ revision \in Nat
    /\ settings \in [opens : Times \cup {None}, closes : Times \cup {None},
                     duration : Nat]
    /\ section \in [Sections -> RowStates]
    /\ item \in [Items -> [state : RowStates, section : Sections \cup {None},
                           positive : BOOLEAN]]
    /\ target \in [Classes -> RowStates]
    /\ active \subseteq Classes
    /\ publications \in Seq([version : Nat, snapshot : Snapshots])
    /\ now \in Times
    /\ pc \in [Requests -> PcLabels]
    /\ op \in [Requests -> {None} \cup Edits \cup UpdateRequests]
    /\ snap \in [Requests -> Snapshots]
    /\ edits \in 0..MaxEdits /\ late \in Nat
    /\ disturbed \subseteq Requests /\ clean \in BOOLEAN

\* However many requests publish at once, exactly one publication comes of it:
\* the assessment left DRAFT if and only if there is one, and it carries the
\* revision of the row.
PublishedOnce ==
    IF status = "DRAFT" THEN publications = << >> /\ revision = 1
    ELSE /\ Len(publications) = 1
         /\ publications[1].version = revision
         /\ publications[1].snapshot.revision = revision - 1

\* requireDraft runs outside the transaction, so an edit can still change the
\* content of a published assessment, but only one that had passed the check
\* before: each other request can do so once.
LateEditsBounded == late <= Cardinality(Requests) - 1

\* A publication beside which nothing else changed opens no exam as much as a
\* second before its opens_at, closes none as much as a second before its
\* closes_at (it sees both in whole seconds) and leaves PUBLISHED none that the
\* scheduler will never open.
StatusJustified ==
    clean =>
        /\ status = "OPEN" => settings.opens = None \/ settings.opens < now + PerSecond
        /\ status = "CLOSED" => settings.closes # None /\ settings.closes < now + PerSecond
        /\ status = "PUBLISHED" => settings.opens # None

\* What such a publication stores is the draft as it stood, its schedule in
\* whole seconds, and it had passed every check of the validation.
LonePublishExact ==
    [][\A r \in Requests :
          publications' # publications /\ pc[r] # pc'[r] /\ r \notin disturbed =>
            LET s == publications'[1].snapshot IN
            /\ SettingsValid /\ ItemsValid /\ TargetsValid
            /\ ActiveSections # {}
            /\ ReadSettings = [opens |-> s.opens, closes |-> s.closes,
                               duration |-> s.duration]
            /\ s.sections = ActiveSections /\ s.targets = ActiveTargets
            /\ s.items = SnapshotItems(ActiveSections)]_vars

\* The transition job opens an assessment once it is due and closes it once
\* that is due.
Due(t) == t # None /\ t <= now
ScheduleHonoured ==
    /\ status = "PUBLISHED" /\ Due(settings.opens) ~> status \in {"OPEN", "CLOSED"}
    /\ status = "OPEN" /\ Due(settings.closes) ~> status = "CLOSED"

\* 04-domain-model.md: publishing needs at least one item.
PublishedExamHasItems ==
    publications # << >> /\ clean => publications[1].snapshot.items # {}

=============================================================================
