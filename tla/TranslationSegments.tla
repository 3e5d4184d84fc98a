------------------------- MODULE TranslationSegments -------------------------
(***************************************************************************)
(* The translations of one project: the machine writes of /api/translate,  *)
(* the writes of the workspace, of the visual editor and of imports, and   *)
(* the review workflow (src/lib/translation-workflow.ts and its callers).  *)
(*                                                                         *)
(* Every write is a transaction that holds the project's row lock, so it   *)
(* is one step; what it depends on was often read before.  A machine       *)
(* translation takes four steps: its rows are read, the dispatch is        *)
(* admitted under the lock, the provider answers, the result is stored     *)
(* under the lock.  A user acts on what a tab of the workspace last        *)
(* showed.                                                                 *)
(***************************************************************************)
EXTENDS Naturals, FiniteSets

CONSTANTS
    Segments,       \* source texts, each for one target language
    Languages,
    LangOf,         \* target language of a segment
    Texts,          \* what a translation may read
    Members,        \* translators of the project
    Requests,       \* translations under way at the same time
    Tabs,           \* users' views of the workspace, and removal previews
    MaxWrites,      \* bound: writes, which also number the versions
    MaxDepartures,  \* bound: members who leave the workspace
    NoRow, Nobody, Manager, AnyLanguage

ASSUME SegmentsAssumption ==
    /\ LangOf \in [Segments -> Languages]
    /\ MaxWrites \in Nat
    /\ MaxDepartures \in Nat
    /\ Nobody \notin Members
    /\ Manager \notin Members
    /\ AnyLanguage \notin Languages \cup {"left"}
    /\ "left" \notin Languages

VARIABLES
    rows,        \* Translation
    rules,       \* version of the newest glossary rule for a segment, or 0
    language,    \* ProjectLanguage
    automation,  \* automaticTranslation of the project and of its targets
    members,     \* the language a member is confined to, if present
    request,     \* translations under way
    view,        \* what a tab shows
    clock,       \* number of writes so far; updatedAt of the last one
    departures   \* members who left the workspace

vars == <<rows, rules, language, automation, members, request, view, clock, departures>>

Statuses == {"MACHINE", "ASSIGNED", "IN_REVIEW", "APPROVED"}

Rows == [text: Texts, manual: BOOLEAN, status: Statuses,
         assignee: Members \cup {Nobody}, version: Nat]

ASSUME NullAssumption == NoRow \notin Rows

Snapshots == [Segments -> Rows \cup {NoRow}]
Blank == [s \in Segments |-> NoRow]

(* asked: the rows a manager confirmed for a forced request; seen: the rows *)
(* the request looked up, kept for the segments it sends to the provider.   *)
RequestStates == [phase: {"idle", "confirmed", "found", "sent"}, forced: BOOLEAN,
                  language: Languages \cup {AnyLanguage}, pending: SUBSET Segments,
                  asked: Snapshots, seen: Snapshots, rules: [Segments -> Nat]]

IdleRequest == [phase |-> "idle", forced |-> FALSE, language |-> AnyLanguage,
                pending |-> {}, asked |-> Blank, seen |-> Blank,
                rules |-> [s \in Segments |-> 0]]

In(l) == {s \in Segments : LangOf[s] = l}
Active(l) == language[l] = "active"
Present(m) == members[m] # "left"

(* resolveTranslationWorkflowLanguage: who may work on a language.         *)
MayWork(who, l) == who # Manager => members[who] \in {AnyLanguage, l}

Kept(snapshot, S) == [s \in Segments |-> IF s \in S THEN snapshot[s] ELSE NoRow]

Init ==
    /\ rows = Blank
    /\ rules = [s \in Segments |-> 0]
    /\ language = [l \in Languages |-> "active"]
    /\ automation = "on"
    /\ members = [m \in Members |-> AnyLanguage]
    /\ request = [r \in Requests |-> IdleRequest]
    /\ view = [t \in Tabs |-> Blank]
    /\ clock = 0
    /\ departures = 0

(* Every write takes the next version; new holds the rows it writes.       *)
Put(new) ==
    /\ clock < MaxWrites
    /\ clock' = clock + 1
    /\ rows' = [s \in Segments |-> IF s \in DOMAIN new THEN new[s] ELSE rows[s]]

NewRow(text, manual, status) ==
    [text |-> text, manual |-> manual, status |-> status,
     assignee |-> Nobody, version |-> clock + 1]

Rewritten(row, text, manual) ==
    [row EXCEPT !.text = text, !.manual = manual, !.version = clock + 1]

(* A change of text takes back what was decided on the old one; the        *)
(* assignment, as far as the writer knows it, stays.  The writers in the   *)
(* workspace know the row as it is.                                        *)
Reset(row, known) ==
    IF known.assignee # Nobody
    THEN [row EXCEPT !.status = "ASSIGNED"]
    ELSE [row EXCEPT !.status = "MACHINE", !.assignee = Nobody]

Overwritten(row, text, manual) ==
    IF row.text = text THEN Rewritten(row, text, manual)
    ELSE Reset(Rewritten(row, text, manual), row)

-----------------------------------------------------------------------------
(* Machine translation.  A request is for one language; of its texts, the  *)
(* ones that have no row or a machine row older than a glossary rule go to *)
(* the provider, unless translation memory or a parent locale serves them. *)
Outdated(s) == rows[s] # NoRow => ~rows[s].manual /\ rows[s].version < rules[s]

LookUp(r, l, S) ==
    /\ request[r].phase = "idle"
    /\ S # {}
    /\ \A s \in S : LangOf[s] = l /\ Outdated(s)
    /\ Active(l)
    /\ automation = "on"
    /\ request' = [request EXCEPT ![r] =
           [IdleRequest EXCEPT !.phase = "found", !.language = l, !.pending = S,
                               !.seen = Kept(rows, S)]]
    /\ UNCHANGED <<rows, rules, language, automation, members, view, clock, departures>>

(* A manager's confirmed URL operation forces machine rows nobody has      *)
(* edited or reviewed and no glossary rule protects, in the versions it    *)
(* has read; the rows are then looked up as for any request.               *)
Disposable(s) ==
    /\ rows[s] # NoRow
    /\ ~rows[s].manual
    /\ rows[s].status = "MACHINE"
    /\ rules[s] = 0

Confirm(r, l, S) ==
    /\ request[r].phase = "idle"
    /\ S # {}
    /\ \A s \in S : LangOf[s] = l /\ Disposable(s)
    /\ Active(l)
    /\ automation # "off"
    /\ request' = [request EXCEPT ![r] =
           [IdleRequest EXCEPT !.phase = "confirmed", !.forced = TRUE, !.language = l,
                               !.pending = S, !.asked = Kept(rows, S), !.rules = rules]]
    /\ UNCHANGED <<rows, rules, language, automation, members, view, clock, departures>>

AsConfirmed(r, s) == rows[s] # NoRow /\ rows[s].version = request[r].asked[s].version

LookUpForced(r) ==
    /\ request[r].phase = "confirmed"
    /\ \A s \in request[r].pending : rows[s] # NoRow => AsConfirmed(r, s)
    /\ Active(request[r].language)
    /\ automation = "on"
    /\ request' = [request EXCEPT ![r].phase = "found",
                                  ![r].seen = Kept(rows, request[r].pending)]
    /\ UNCHANGED <<rows, rules, language, automation, members, view, clock, departures>>

(* Mutant: rules made since the confirmation go unnoticed.                 *)
KnownRulesAsConfirmed(r) ==
    request[r].forced =>
        \A s \in In(request[r].language) :
            request[r].rules[s] # 0 => rules[s] = request[r].rules[s]

RulesAsConfirmed(r) ==
    request[r].forced =>
        \A s \in In(request[r].language) : rules[s] = request[r].rules[s]

Dispatch(r) ==
    /\ request[r].phase = "found"
    /\ Active(request[r].language)
    /\ automation # "off"
    /\ RulesAsConfirmed(r)
    /\ request' = [request EXCEPT ![r].phase = "sent"]
    /\ UNCHANGED <<rows, rules, language, automation, members, view, clock, departures>>

(* The upsert: a row the lookup had found is reset as it was found; a row  *)
(* that has come into being since keeps its workflow.                      *)
Machined(row, known, text) ==
    IF row = NoRow THEN NewRow(text, FALSE, "MACHINE")
    ELSE IF known = NoRow THEN Rewritten(row, text, FALSE)
    ELSE Reset(Rewritten(row, text, FALSE), known)

(* Mutant: the language configuration is not read again before the write.  *)
PersistUnchecked(r, text) ==
    /\ request[r].phase = "sent"
    /\ automation = "on"
    /\ RulesAsConfirmed(r)
    /\ request[r].forced =>
           \A s \in request[r].pending :
               AsConfirmed(r, s) /\ ~rows[s].manual /\ rows[s].status = "MACHINE"
    /\ Put([s \in request[r].pending |->
               Machined(rows[s], request[r].seen[s], text[s])])
    /\ request' = [request EXCEPT ![r] = IdleRequest]
    /\ UNCHANGED <<rules, language, automation, members, view, departures>>

Persist(r, text) ==
    /\ request[r].phase = "sent"
    /\ Active(request[r].language)
    /\ automation = "on"
    /\ RulesAsConfirmed(r)
    /\ request[r].forced =>
           \A s \in request[r].pending :
               AsConfirmed(r, s) /\ ~rows[s].manual /\ rows[s].status = "MACHINE"
    /\ Put([s \in request[r].pending |->
               Machined(rows[s], request[r].seen[s], text[s])])
    /\ request' = [request EXCEPT ![r] = IdleRequest]
    /\ UNCHANGED <<rules, language, automation, members, view, departures>>

(* A request that is refused at one of these points, that no provider      *)
(* answers, or whose function is stopped stores nothing.                   *)
GiveUp(r) ==
    /\ request[r].phase # "idle"
    /\ request' = [request EXCEPT ![r] = IdleRequest]
    /\ UNCHANGED <<rows, rules, language, automation, members, view, clock, departures>>

Translating ==
    \E r \in Requests :
        \/ \E l \in Languages : \E S \in SUBSET In(l) : LookUp(r, l, S) \/ Confirm(r, l, S)
        \/ LookUpForced(r)
        \/ Dispatch(r)
        \/ \E text \in [request[r].pending -> Texts] : Persist(r, text)
        \/ GiveUp(r)

-----------------------------------------------------------------------------
(* Edits in the workspace, with the version the tab showed.                *)
Look(t) ==
    /\ view[t] # rows
    /\ view' = [view EXCEPT ![t] = rows]
    /\ UNCHANGED <<rows, rules, language, automation, members, request, clock, departures>>

(* Mutant: the version the tab showed is not compared.                     *)
StillThere(t, s) == rows[s] # NoRow /\ view[t][s] # NoRow

AsShown(t, s) ==
    /\ rows[s] # NoRow
    /\ view[t][s] # NoRow
    /\ rows[s].version = view[t][s].version

MayEdit(who, s) ==
    /\ MayWork(who, LangOf[s])
    /\ who # Manager => rows[s].assignee = who

(* Mutant: the edit leaves the workflow as it is.                          *)
EditedOnly(row, text) == Rewritten(row, text, TRUE)

Edited(row, text) == Overwritten(row, text, TRUE)

(* updateProjectTranslationContent; saving the text as it is writes nothing. *)
Edit(t, who, s, text) ==
    /\ AsShown(t, s)
    /\ MayEdit(who, s)
    /\ Active(LangOf[s])
    /\ rows[s].text # text
    /\ Put([x \in {s} |-> Edited(rows[x], text)])
    /\ UNCHANGED <<rules, language, automation, members, request, view, departures>>

(* applyWorkspaceReplacement: all rows or none.                            *)
Replace(t, who, S, text) ==
    /\ S # {}
    /\ \A s \in S : /\ AsShown(t, s)
                    /\ MayEdit(who, s)
                    /\ Active(LangOf[s])
                    /\ rows[s].text # text[s]
    /\ Put([s \in S |-> Edited(rows[s], text[s])])
    /\ UNCHANGED <<rules, language, automation, members, request, view, departures>>

(* adoptProfessionalDelivery: a vendor's text is saved and put into review, *)
(* whether it differs from the present one or not.                         *)
Adopted(row, text) ==
    [(IF row.text = text THEN Rewritten(row, text, row.manual) ELSE Edited(row, text))
        EXCEPT !.status = "IN_REVIEW"]

Adopt(t, s, text) ==
    /\ AsShown(t, s)
    /\ Active(LangOf[s])
    /\ Put([x \in {s} |-> Adopted(rows[x], text)])
    /\ UNCHANGED <<rules, language, automation, members, request, view, departures>>

Delete(t, s) ==
    /\ AsShown(t, s)
    /\ Put([x \in {s} |-> NoRow])
    /\ UNCHANGED <<rules, language, automation, members, request, view, departures>>

(* The confirmed deletion of a URL deletes its machine rows.               *)
DeleteUrl(t, S) ==
    /\ S # {}
    /\ \A s \in S : AsShown(t, s) /\ Disposable(s)
    /\ Put([s \in S |-> NoRow])
    /\ UNCHANGED <<rules, language, automation, members, request, view, departures>>

Editing ==
    \E t \in Tabs :
        \/ Look(t)
        \/ \E s \in Segments : Delete(t, s) \/ \E text \in Texts : Adopt(t, s, text)
        \/ \E who \in Members \cup {Manager} : \E S \in SUBSET Segments :
               \/ \E text \in [S -> Texts] : Replace(t, who, S, text)
               \/ \E s \in S : \E text \in Texts : Edit(t, who, s, text)
        \/ \E S \in SUBSET Segments : DeleteUrl(t, S)

-----------------------------------------------------------------------------
(* Texts written without a version: the visual editor saves one, a chunk   *)
(* of a CSV or PO import several in one transaction.                       *)
Save(S, text) ==
    /\ S # {}
    /\ \A s \in S : Active(LangOf[s])
    /\ Put([s \in S |-> IF rows[s] = NoRow THEN NewRow(text[s], TRUE, "MACHINE")
                       ELSE Overwritten(rows[s], text[s], TRUE)])
    /\ UNCHANGED <<rules, language, automation, members, request, view, departures>>

(* An XLIFF file leaves manual and approved texts as they are; it may mark *)
(* a text as approved and a row as still the machine's.  A row it does not *)
(* change is not written.                                                  *)
XliffAccepted(row, text) ==
    row # NoRow => (row.text # text => ~row.manual /\ row.status # "APPROVED")

XliffStatus(row, text, approve) ==
    IF approve THEN "APPROVED"
    ELSE IF row.text = text THEN row.status
    ELSE IF row.assignee # Nobody THEN "ASSIGNED"
    ELSE "MACHINE"

(* Mutant: the raw UPDATE of the import forgets updatedAt.                 *)
XliffUnstamped(row, text, approve, machine) ==
    IF row = NoRow THEN NewRow(text, TRUE, IF approve THEN "APPROVED" ELSE "MACHINE")
    ELSE [row EXCEPT !.text = text,
                     !.manual = ~(machine /\ ~row.manual /\ row.text = text),
                     !.status = XliffStatus(row, text, approve)]

XliffRow(row, text, approve, machine) ==
    IF row = NoRow THEN NewRow(text, TRUE, IF approve THEN "APPROVED" ELSE "MACHINE")
    ELSE LET manual == ~(machine /\ ~row.manual /\ row.text = text)
             new == [row EXCEPT !.text = text, !.manual = manual,
                                !.status = XliffStatus(row, text, approve)]
         IN  IF new = row THEN row ELSE [new EXCEPT !.version = clock + 1]

ImportXliff(l, S, text, approved, machine) ==
    /\ S # {}
    /\ S \subseteq In(l)
    /\ Active(l)
    /\ \A s \in S : XliffAccepted(rows[s], text[s])
    /\ Put([s \in S |-> XliffRow(rows[s], text[s], s \in approved, s \in machine)])
    /\ rows' # rows
    /\ UNCHANGED <<rules, language, automation, members, request, view, departures>>

Importing ==
    \E S \in SUBSET Segments : \E text \in [S -> Texts] :
        \/ Save(S, text)
        \/ \E l \in Languages : \E approved, machine \in SUBSET S :
               ImportXliff(l, S, text, approved, machine)

-----------------------------------------------------------------------------
(* The review workflow: planTranslationWorkflowUpdate.  A patch names a    *)
(* status, an assignee or both; a missing status follows from the assignee. *)
ManagerTransitions(status) ==
    CASE status = "MACHINE"   -> {"MACHINE", "ASSIGNED"}
      [] status = "ASSIGNED"  -> {"ASSIGNED", "IN_REVIEW", "MACHINE"}
      [] status = "IN_REVIEW" -> {"IN_REVIEW", "APPROVED", "ASSIGNED", "MACHINE"}
      [] status = "APPROVED"  -> {"APPROVED", "ASSIGNED", "MACHINE"}

Assignable(member, l) == member # Nobody => MayWork(member, l)

MayMove(who, s, to, assigns, holder) ==
    /\ MayWork(who, LangOf[s])
    /\ IF assigns THEN who = Manager /\ Assignable(holder, LangOf[s])
       ELSE holder = rows[s].assignee
    /\ IF who = Manager THEN to \in ManagerTransitions(rows[s].status)
       ELSE /\ rows[s].assignee = who
            /\ rows[s].status \in {"ASSIGNED", "IN_REVIEW"}
            /\ to = "IN_REVIEW"
    /\ holder # rows[s].assignee => to \in {"ASSIGNED", "MACHINE"}
    /\ to \in {"ASSIGNED", "IN_REVIEW"} => holder # Nobody

Moved(row, to, holder) ==
    [row EXCEPT !.status = to, !.assignee = IF to = "MACHINE" THEN Nobody ELSE holder,
                !.version = clock + 1]

(* One row, whatever version of it the caller has seen.                    *)
UpdateWorkflow(who, s, to, assigns, holder) ==
    /\ rows[s] # NoRow
    /\ MayMove(who, s, to, assigns, holder)
    /\ Put([x \in {s} |-> Moved(rows[x], to, holder)])
    /\ UNCHANGED <<rules, language, automation, members, request, view, departures>>

BulkKinds == {"assign", "unassign", "submit", "approve", "return", "reopen"}

BulkRequires(kind) ==
    CASE kind = "submit"             -> {"ASSIGNED"}
      [] kind \in {"approve", "return"} -> {"IN_REVIEW"}
      [] kind = "reopen"             -> {"APPROVED"}
      [] OTHER                       -> Statuses

BulkStatus(kind, row) ==
    CASE kind = "assign"             -> "ASSIGNED"
      [] kind = "unassign"           -> "MACHINE"
      [] kind = "submit"             -> "IN_REVIEW"
      [] kind = "approve"            -> "APPROVED"
      [] OTHER                       -> IF row.assignee = Nobody THEN "MACHINE" ELSE "ASSIGNED"

BulkHolder(kind, row, member) ==
    CASE kind = "assign"   -> member
      [] kind = "unassign" -> Nobody
      [] OTHER             -> row.assignee

(* Several rows, as the tab showed them: all are moved or none.            *)
BulkWorkflow(t, who, S, kind, member) ==
    /\ S # {}
    /\ \A s \in S :
           /\ AsShown(t, s)
           /\ rows[s].status = view[t][s].status
           /\ rows[s].assignee = view[t][s].assignee
           /\ Active(LangOf[s])
           /\ rows[s].status \in BulkRequires(kind)
           /\ MayMove(who, s, BulkStatus(kind, rows[s]), kind \in {"assign", "unassign"},
                      BulkHolder(kind, rows[s], member))
    /\ Put([s \in S |-> Moved(rows[s], BulkStatus(kind, rows[s]),
                              BulkHolder(kind, rows[s], member))])
    /\ UNCHANGED <<rules, language, automation, members, request, view, departures>>

Reviewing ==
    \E who \in Members \cup {Manager} :
        \/ \E s \in Segments : \E to \in Statuses : \E assigns \in BOOLEAN :
               \E holder \in Members \cup {Nobody} : UpdateWorkflow(who, s, to, assigns, holder)
        \/ \E t \in Tabs : \E S \in SUBSET Segments : \E kind \in BulkKinds :
               \E member \in Members : BulkWorkflow(t, who, S, kind, member)

-----------------------------------------------------------------------------
(* Glossary, languages and the automatic translation switches.  A rule     *)
(* that is changed is newer than every row written before; the language of *)
(* a changed rule is not looked up.                                        *)
ChangeRule(s) ==
    /\ clock < MaxWrites
    /\ clock' = clock + 1
    /\ rules' = [rules EXCEPT ![s] = clock + 1]
    /\ UNCHANGED <<rows, language, automation, members, request, view, departures>>

DeleteRule(s) ==
    /\ rules[s] # 0
    /\ rules' = [rules EXCEPT ![s] = 0]
    /\ UNCHANGED <<rows, language, automation, members, request, view, clock, departures>>

SetLanguage(l, to) ==
    /\ language[l] # to
    /\ to = "paused" => language[l] = "active"
    /\ language' = [language EXCEPT ![l] = to]
    /\ UNCHANGED <<rows, rules, automation, members, request, view, clock, departures>>

(* The confirmation names the rows of the preview by id and version (and   *)
(* what else it deletes, and the project's version: these only refuse more). *)
AsPreviewed(t, s) ==
    IF view[t][s] = NoRow THEN rows[s] = NoRow ELSE AsShown(t, s)

RemoveLanguage(t, l) ==
    /\ language[l] # "removed"
    /\ \A s \in In(l) : AsPreviewed(t, s)
    /\ Put([s \in In(l) |-> NoRow])
    /\ rules' = [s \in Segments |-> IF LangOf[s] = l THEN 0 ELSE rules[s]]
    /\ language' = [language EXCEPT ![l] = "removed"]
    /\ UNCHANGED <<automation, members, request, view, departures>>

Switch(to) ==
    /\ automation # to
    /\ automation' = to
    /\ UNCHANGED <<rows, rules, language, members, request, view, clock, departures>>

Configuring ==
    \/ \E s \in Segments : ChangeRule(s) \/ DeleteRule(s)
    \/ \E l \in Languages : \/ \E to \in {"active", "paused"} : SetLanguage(l, to)
                            \/ \E t \in Tabs : RemoveLanguage(t, l)
    \/ \E to \in {"on", "target_off", "off"} : Switch(to)

-----------------------------------------------------------------------------
(* Members.  Removal from the project, or confinement to a language, takes *)
(* back the assignments it makes void; resetProjectMemberWorkflowAssignments. *)
(* Mutant: the assignee is cleared, the status is not.                     *)
Unheld(S) == [s \in S |-> [rows[s] EXCEPT !.assignee = Nobody, !.version = clock + 1]]

Released(S) == [s \in S |-> Moved(rows[s], "MACHINE", Nobody)]
Held(m) == {s \in Segments : rows[s] # NoRow /\ rows[s].assignee = m}

(* Mutant: the membership goes, its assignments stay.                      *)
RemoveMemberOnly(m) ==
    /\ Present(m)
    /\ members' = [members EXCEPT ![m] = "left"]
    /\ UNCHANGED <<rows, rules, language, automation, request, view, clock, departures>>

RemoveMember(m) ==
    /\ Present(m)
    /\ Put(Released(Held(m)))
    /\ members' = [members EXCEPT ![m] = "left"]
    /\ UNCHANGED <<rules, language, automation, request, view, departures>>

ConfineMember(m, l) ==
    /\ Present(m)
    /\ Active(l)
    /\ Put(Released(Held(m) \ In(l)))
    /\ members' = [members EXCEPT ![m] = l]
    /\ UNCHANGED <<rules, language, automation, request, view, departures>>

FreeMember(m) ==
    /\ Present(m)
    /\ members[m] # AnyLanguage
    /\ members' = [members EXCEPT ![m] = AnyLanguage]
    /\ UNCHANGED <<rows, rules, language, automation, request, view, clock, departures>>

(* Removal from the workspace, its transfer and the deletion of the account *)
(* delete the membership; the database then clears the assignee and nothing *)
(* else of the rows that were assigned.                                    *)
LeaveWorkspace(m) ==
    /\ Present(m)
    /\ departures < MaxDepartures
    /\ departures' = departures + 1
    /\ rows' = [s \in Segments |->
                   IF s \in Held(m) THEN [rows[s] EXCEPT !.assignee = Nobody] ELSE rows[s]]
    /\ members' = [members EXCEPT ![m] = "left"]
    /\ UNCHANGED <<rules, language, automation, request, view, clock>>

Staffing ==
    \E m \in Members :
        \/ RemoveMember(m)
        \/ \E l \in Languages : ConfineMember(m, l)
        \/ FreeMember(m)
        \/ LeaveWorkspace(m)

-----------------------------------------------------------------------------
Next ==
    \/ Translating
    \/ Editing
    \/ Importing
    \/ Reviewing
    \/ Configuring
    \/ Staffing

Spec == Init /\ [][Next]_vars

-----------------------------------------------------------------------------
TypeOK ==
    /\ rows \in Snapshots
    /\ rules \in [Segments -> Nat]
    /\ language \in [Languages -> {"active", "paused", "removed"}]
    /\ automation \in {"on", "target_off", "off"}
    /\ members \in [Members -> Languages \cup {AnyLanguage, "left"}]
    /\ request \in [Requests -> RequestStates]
    /\ view \in [Tabs -> Snapshots]
    /\ clock \in 0 .. MaxWrites
    /\ departures \in 0 .. MaxDepartures

(* What a tab or a request remembers of the rows.                          *)
Remembered == {view[t] : t \in Tabs} \cup {request[r].seen : r \in Requests}
                                      \cup {request[r].asked : r \in Requests}

(* The versions (updatedAt) that tabs, previews and requests compare with   *)
(* identify the text and its origin: as long as the version they remember   *)
(* is the row's, so are the text and the manual flag, through every writer, *)
(* deletion and re-creation.                                                *)
VersionsNameTexts ==
    \A snapshot \in Remembered : \A s \in Segments :
        (/\ snapshot[s] # NoRow
         /\ rows[s] # NoRow
         /\ snapshot[s].version = rows[s].version)
            => /\ snapshot[s].text = rows[s].text
               /\ snapshot[s].manual = rows[s].manual

(* A user's edit, replacement, adoption, deletion, bulk review or removal   *)
(* of a language changes a row only when it still reads what the user saw,  *)
(* so that a bulk approval approves the text that was shown.                *)
ActsOnTab(t) ==
    \/ \E s \in Segments : Delete(t, s) \/ \E text \in Texts : Adopt(t, s, text)
    \/ \E l \in Languages : RemoveLanguage(t, l)
    \/ \E S \in SUBSET Segments :
           \/ DeleteUrl(t, S)
           \/ \E who \in Members \cup {Manager} :
                  \/ \E text \in [S -> Texts] : Replace(t, who, S, text)
                  \/ \E s \in S : \E text \in Texts : Edit(t, who, s, text)
                  \/ \E kind \in BulkKinds : \E member \in Members :
                         BulkWorkflow(t, who, S, kind, member)

TabsChangeWhatTheySaw ==
    [][\A t \in Tabs : ActsOnTab(t) =>
           \A s \in Segments : (rows'[s] # rows[s] /\ rows[s] # NoRow) =>
               /\ view[t][s] # NoRow
               /\ view[t][s].text = rows[s].text]_vars

(* What a confirmed retranslation overwrites, after the provider's answer,  *)
(* is the very text the manager confirmed, still the machine's, unreviewed  *)
(* and outside the glossary.                                                *)
ForcedWritesAreConfirmed ==
    [][\A r \in Requests :
           (request[r].forced /\ request'[r].phase = "idle" /\ rows' # rows) =>
               \A s \in request[r].pending :
                   /\ rows[s] # NoRow
                   /\ rows[s].text = request[r].asked[s].text
                   /\ ~rows[s].manual
                   /\ rows[s].status = "MACHINE"
                   /\ rules[s] = 0]_vars

(* Nothing that was under way when a target language was removed - a        *)
(* provider's answer, an import, an edit - brings back a row of it.         *)
RemovedLanguagesStayEmpty ==
    \A s \in Segments : language[LangOf[s]] = "removed" => rows[s] = NoRow

(* A row's assignee is a member who may work on its language, and a row     *)
(* nobody reviews has none.                                                 *)
AssigneesMayWork ==
    \A s \in Segments : (rows[s] # NoRow /\ rows[s].assignee # Nobody) =>
        /\ MayWork(rows[s].assignee, LangOf[s])
        /\ rows[s].status # "MACHINE"

(* A machine translation is stored over a row that is not, or no longer,    *)
(* the one its lookup had found.                                            *)
Overtaken(s) ==
    \E r \in Requests : /\ request[r].phase = "sent"
                        /\ request'[r].phase = "idle"
                        /\ s \in request[r].pending
                        /\ request[r].seen[s] # rows[s]

(* Editing the text of an approved row takes the approval back (the comment *)
(* of resetTranslationWorkflowAfterContentEdit), through every writer but a *)
(* machine translation that was overtaken.                                  *)
ApprovalsLapse ==
    [][\A s \in Segments :
           (/\ rows[s] # NoRow
            /\ rows'[s] # NoRow
            /\ rows[s].status = "APPROVED"
            /\ rows'[s].text # rows[s].text)
               => rows'[s].status # "APPROVED" \/ Overtaken(s)]_vars

(* No edit, import, review, removal or confinement leaves a row assigned to *)
(* nobody (the last check of planTranslationWorkflowUpdate): only a         *)
(* departure from the workspace does, or a translation that was overtaken.  *)
Vacant(s) == rows[s] # NoRow /\ rows[s].status = "ASSIGNED" /\ rows[s].assignee = Nobody

AssignmentsStayHeld ==
    [][\A s \in Segments :
           Vacant(s)' /\ ~Vacant(s) => departures' # departures \/ Overtaken(s)]_vars

(* The approval lapses without that exception, as                           *)
(* translation-workflow-wiring.test.ts puts it.                             *)
EditsInvalidateApproval ==
    [][\A s \in Segments :
           (/\ rows[s] # NoRow
            /\ rows'[s] # NoRow
            /\ rows[s].status = "APPROVED"
            /\ rows'[s].text # rows[s].text)
               => rows'[s].status # "APPROVED"]_vars

=============================================================================
