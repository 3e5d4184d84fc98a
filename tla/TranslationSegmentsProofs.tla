---------------------- MODULE TranslationSegmentsProofs ----------------------
(* Proofs about translation rows, for any number of segments, languages,   *)
(* members, tabs and translations under way.                               *)
EXTENDS TranslationSegments, TLAPS

(* A row that has an assignee is not the machine's.                        *)
Occupied(row) == row.assignee # Nobody => row.status # "MACHINE"

(* What every writer makes of a row, and what it leaves of the assignment. *)
Fits(new) ==
    /\ new \in Rows
    /\ new.version = clock + 1
    /\ Occupied(new)

Keeps(new, old) ==
    new.assignee # Nobody => old # NoRow /\ new.assignee = old.assignee

(* A request's rows are of its language; a confirmed one's were there, and  *)
(* no glossary rule was.                                                    *)
Scoped(q) ==
    /\ q.phase = "idle" => ~q.forced
    /\ \A s \in q.pending : LangOf[s] = q.language
    /\ q.forced => \A s \in q.pending : q.asked[s] # NoRow /\ q.rules[s] = 0

RequestsAreScoped == \A r \in Requests : Scoped(request[r])

(* What is remembered is not newer than the last write, and names its text. *)
Matches(snapshot, s) ==
    snapshot[s] # NoRow =>
        /\ snapshot[s].version <= clock
        /\ (rows[s] # NoRow /\ snapshot[s].version = rows[s].version) =>
               /\ snapshot[s].text = rows[s].text
               /\ snapshot[s].manual = rows[s].manual

VersionsAreStamped ==
    /\ \A s \in Segments : rows[s] # NoRow => rows[s].version <= clock
    /\ \A t \in Tabs : \A s \in Segments : Matches(view[t], s)
    /\ \A r \in Requests : \A s \in Segments :
           Matches(request[r].seen, s) /\ Matches(request[r].asked, s)

IInv ==
    /\ TypeOK
    /\ RequestsAreScoped
    /\ VersionsAreStamped
    /\ AssigneesMayWork
    /\ RemovedLanguagesStayEmpty

(* What a step may do to a row: leave it, delete it, write it, or clear its *)
(* assignee.                                                                *)
Becomes(s, new) ==
    /\ Fits(new)
    /\ rows[s] # NoRow \/ Active(LangOf[s])
    /\ Keeps(new, rows[s]) \/ MayWork(new.assignee, LangOf[s])

Orphaned(s) == rows[s] # NoRow /\ rows'[s] = [rows[s] EXCEPT !.assignee = Nobody]

RowStep(s) ==
    \/ rows'[s] = rows[s]
    \/ rows'[s] = NoRow
    \/ Becomes(s, rows'[s]) /\ clock' = clock + 1
    \/ Orphaned(s)

(* A step remembers of a row what it did before, nothing, or the row.      *)
Recalls(new, old) ==
    \A s \in Segments :
        \/ new[s] = old[s]
        \/ new[s] = NoRow
        \/ new[s] = rows[s] /\ UNCHANGED <<rows, clock>>

-----------------------------------------------------------------------------
LEMMA RowFields ==
    ASSUME NEW row \in Rows
    PROVE  /\ row # NoRow
           /\ row.text \in Texts
           /\ row.manual \in BOOLEAN
           /\ row.status \in Statuses
           /\ row.assignee \in Members \cup {Nobody}
           /\ row.version \in Nat
BY NullAssumption DEF Rows

LEMMA NewRowFits ==
    ASSUME clock \in Nat, NEW text \in Texts, NEW manual \in BOOLEAN, NEW status \in Statuses,
           NEW old
    PROVE  Fits(NewRow(text, manual, status)) /\ Keeps(NewRow(text, manual, status), old)
BY DEF Fits, Keeps, Occupied, NewRow, Rows

LEMMA RewrittenFits ==
    ASSUME clock \in Nat, NEW row \in Rows, Occupied(row), NEW text \in Texts, NEW manual \in BOOLEAN
    PROVE  /\ Fits(Rewritten(row, text, manual))
           /\ Keeps(Rewritten(row, text, manual), row)
<1>1. PICK version \in Nat : version = clock + 1
  OBVIOUS
<1> DEFINE new == [row EXCEPT !.text = text, !.manual = manual, !.version = version]
<1>2. Rewritten(row, text, manual) = new
  BY <1>1 DEF Rewritten
<1>3. /\ new \in Rows
      /\ new.version = version
      /\ new.status = row.status
      /\ new.assignee = row.assignee
  BY DEF Rows
<1> HIDE DEF new
<1>4. QED
  BY <1>1, <1>2, <1>3, NullAssumption DEF Fits, Keeps, Occupied

LEMMA ResetFits ==
    ASSUME NEW row, Fits(row), NEW old, Keeps(row, old), NEW known
    PROVE  Fits(Reset(row, known)) /\ Keeps(Reset(row, known), old)
BY RowFields DEF Fits, Keeps, Occupied, Reset, Rows, Statuses

LEMMA OverwrittenFits ==
    ASSUME clock \in Nat, NEW row \in Rows, Occupied(row), NEW text \in Texts, NEW manual \in BOOLEAN
    PROVE  /\ Fits(Overwritten(row, text, manual))
           /\ Keeps(Overwritten(row, text, manual), row)
BY RewrittenFits, ResetFits DEF Overwritten

LEMMA MachinedFits ==
    ASSUME clock \in Nat, NEW row \in Rows \cup {NoRow}, row # NoRow => Occupied(row),
           NEW known, NEW text \in Texts
    PROVE  Fits(Machined(row, known, text)) /\ Keeps(Machined(row, known, text), row)
BY NewRowFits, RewrittenFits, ResetFits DEF Machined, Statuses

LEMMA AdoptedFits ==
    ASSUME clock \in Nat, NEW row \in Rows, Occupied(row), NEW text \in Texts
    PROVE  Fits(Adopted(row, text)) /\ Keeps(Adopted(row, text), row)
<1>1. row.manual \in BOOLEAN
  BY RowFields
<1> DEFINE new == IF row.text = text THEN Rewritten(row, text, row.manual)
                  ELSE Edited(row, text)
<1>2. Fits(new) /\ Keeps(new, row)
  BY <1>1, RewrittenFits, OverwrittenFits DEF Edited
<1>3. Adopted(row, text) = [new EXCEPT !.status = "IN_REVIEW"]
  BY DEF Adopted
<1> HIDE DEF new
<1>4. QED
  BY <1>2, <1>3, RowFields DEF Fits, Keeps, Occupied, Rows, Statuses

LEMMA XliffRowFits ==
    ASSUME clock \in Nat, NEW row \in Rows \cup {NoRow}, row # NoRow => Occupied(row),
           NEW text \in Texts, NEW approve \in BOOLEAN, NEW machine \in BOOLEAN
    PROVE  \/ XliffRow(row, text, approve, machine) = row
           \/ /\ Fits(XliffRow(row, text, approve, machine))
              /\ Keeps(XliffRow(row, text, approve, machine), row)
<1>1. CASE row = NoRow
  BY <1>1, NewRowFits DEF XliffRow, Statuses
<1>2. CASE row # NoRow
  <2> DEFINE manual == ~(machine /\ ~row.manual /\ row.text = text)
             status == XliffStatus(row, text, approve)
             new == [row EXCEPT !.text = text, !.manual = manual, !.status = status]
             stamped == [new EXCEPT !.version = clock + 1]
  <2>1. row \in Rows /\ Occupied(row) /\ manual \in BOOLEAN
    BY <1>2
  <2>2. status \in Statuses /\ (row.assignee # Nobody => status # "MACHINE")
    BY <2>1, RowFields DEF XliffStatus, Occupied, Statuses
  <2>3. XliffRow(row, text, approve, machine) = IF new = row THEN row ELSE stamped
    BY <1>2 DEF XliffRow
  <2> HIDE DEF manual, status
  <2>4. PICK version \in Nat : version = clock + 1
    OBVIOUS
  <2> DEFINE made == [[row EXCEPT !.text = text, !.manual = manual, !.status = status]
                         EXCEPT !.version = version]
  <2>5. /\ made \in Rows
        /\ made.version = version
        /\ made.status = status
        /\ made.assignee = row.assignee
    BY <2>1, <2>2 DEF Rows
  <2>6. stamped = made
    BY <2>4
  <2> HIDE DEF made, stamped
  <2>7. Fits(stamped) /\ Keeps(stamped, row)
    BY <2>1, <2>2, <2>4, <2>5, <2>6, NullAssumption DEF Fits, Keeps, Occupied
  <2>8. QED
    BY <2>3, <2>7
<1>3. QED
  BY <1>1, <1>2

LEMMA MovedFits ==
    ASSUME clock \in Nat, NEW row \in Rows, NEW to \in Statuses,
           NEW holder \in Members \cup {Nobody}
    PROVE  /\ Fits(Moved(row, to, holder))
           /\ Moved(row, to, holder).assignee \in {Nobody, holder}
           /\ to = "MACHINE" => Moved(row, to, holder).assignee = Nobody
<1>1. PICK version \in Nat : version = clock + 1
  OBVIOUS
<1>2. PICK assignee \in Members \cup {Nobody} :
          assignee = IF to = "MACHINE" THEN Nobody ELSE holder
  OBVIOUS
<1> DEFINE new == [row EXCEPT !.status = to, !.assignee = assignee, !.version = version]
<1>3. /\ new \in Rows
      /\ new.version = version
      /\ new.status = to
      /\ new.assignee = assignee
  BY DEF Rows
<1>4. Moved(row, to, holder) = new
  BY <1>1, <1>2 DEF Moved
<1> HIDE DEF new
<1>5. QED
  BY <1>1, <1>2, <1>3, <1>4 DEF Fits, Occupied

-----------------------------------------------------------------------------
LEMMA StateTypes ==
    ASSUME IInv
    PROVE  /\ clock \in Nat
           /\ \A s \in Segments :
                  /\ LangOf[s] \in Languages
                  /\ rows[s] \in Rows \cup {NoRow}
                  /\ rows[s] # NoRow => rows[s] \in Rows /\ Occupied(rows[s])
BY SegmentsAssumption DEF IInv, TypeOK, Snapshots, AssigneesMayWork, Occupied

LEMMA PutStep ==
    ASSUME NEW new, Put(new), NEW s \in Segments,
           s \in DOMAIN new =>
               new[s] = NoRow \/ new[s] = rows[s] \/ Becomes(s, new[s])
    PROVE  RowStep(s)
BY DEF Put, RowStep

LEMMA PersistStep ==
    ASSUME IInv, NEW r \in Requests, NEW text \in [request[r].pending -> Texts],
           Persist(r, text), NEW s \in Segments
    PROVE  RowStep(s)
<1> DEFINE new == [x \in request[r].pending |->
                      Machined(rows[x], request[r].seen[x], text[x])]
<1>1. Put(new)
  BY DEF Persist
<1>2. ASSUME s \in request[r].pending
      PROVE  Becomes(s, Machined(rows[s], request[r].seen[s], text[s]))
  <2>1. text[s] \in Texts
    BY <1>2
  <2>2. Active(LangOf[s])
    BY <1>2 DEF Persist, IInv, RequestsAreScoped, Scoped
  <2>3. QED
    BY <2>1, <2>2, StateTypes, MachinedFits DEF Becomes
<1>3. s \in DOMAIN new => Becomes(s, new[s])
  BY <1>2
<1> HIDE DEF new
<1>4. QED
  BY <1>1, <1>3, PutStep

LEMMA EditStep ==
    ASSUME IInv, NEW t \in Tabs, NEW who, NEW s \in Segments,
           \/ \E x \in Segments : \E text \in Texts :
                  Edit(t, who, x, text) \/ Adopt(t, x, text)
           \/ \E S \in SUBSET Segments : \E text \in [S -> Texts] : Replace(t, who, S, text)
           \/ \E x \in Segments : Delete(t, x)
           \/ \E S \in SUBSET Segments : DeleteUrl(t, S)
    PROVE  RowStep(s)
<1>1. ASSUME rows[s] # NoRow, NEW text \in Texts
      PROVE  Becomes(s, Edited(rows[s], text)) /\ Becomes(s, Adopted(rows[s], text))
  <2>1. Fits(Edited(rows[s], text)) /\ Keeps(Edited(rows[s], text), rows[s])
    BY <1>1, StateTypes, OverwrittenFits DEF Edited
  <2>2. Fits(Adopted(rows[s], text)) /\ Keeps(Adopted(rows[s], text), rows[s])
    BY <1>1, StateTypes, AdoptedFits
  <2>3. QED
    BY <1>1, <2>1, <2>2 DEF Becomes
<1>2. ASSUME NEW x \in Segments, NEW text \in Texts, Edit(t, who, x, text)
      PROVE  RowStep(s)
  <2> DEFINE new == [y \in {x} |-> Edited(rows[y], text)]
  <2>1. Put(new)
    BY <1>2 DEF Edit
  <2>2. s \in DOMAIN new => Becomes(s, new[s])
    BY <1>1, <1>2 DEF Edit, AsShown
  <2> HIDE DEF new
  <2>3. QED
    BY <2>1, <2>2, PutStep
<1>3. ASSUME NEW x \in Segments, NEW text \in Texts, Adopt(t, x, text)
      PROVE  RowStep(s)
  <2> DEFINE new == [y \in {x} |-> Adopted(rows[y], text)]
  <2>1. Put(new)
    BY <1>3 DEF Adopt
  <2>2. s \in DOMAIN new => Becomes(s, new[s])
    BY <1>1, <1>3 DEF Adopt, AsShown
  <2> HIDE DEF new
  <2>3. QED
    BY <2>1, <2>2, PutStep
<1>4. ASSUME NEW S \in SUBSET Segments, NEW text \in [S -> Texts], Replace(t, who, S, text)
      PROVE  RowStep(s)
  <2> DEFINE new == [y \in S |-> Edited(rows[y], text[y])]
  <2>1. Put(new)
    BY <1>4 DEF Replace
  <2>2. s \in DOMAIN new => Becomes(s, new[s])
    <3>1. ASSUME s \in S PROVE Becomes(s, Edited(rows[s], text[s]))
      BY <1>1, <1>4, <3>1 DEF Replace, AsShown
    <3>2. QED
      BY <3>1
  <2> HIDE DEF new
  <2>3. QED
    BY <2>1, <2>2, PutStep
<1>5. ASSUME NEW S, Put([x \in S |-> NoRow]) PROVE RowStep(s)
  BY <1>5, PutStep
<1>6. QED
  BY <1>2, <1>3, <1>4, <1>5 DEF Delete, DeleteUrl

LEMMA ImportStep ==
    ASSUME IInv, Importing, NEW s \in Segments
    PROVE  RowStep(s)
<1>1. ASSUME NEW S \in SUBSET Segments, NEW text \in [S -> Texts], Save(S, text)
      PROVE  RowStep(s)
  <2> DEFINE new == [x \in S |-> IF rows[x] = NoRow THEN NewRow(text[x], TRUE, "MACHINE")
                                 ELSE Overwritten(rows[x], text[x], TRUE)]
  <2>1. Put(new)
    BY <1>1 DEF Save
  <2>2. ASSUME s \in S, rows[s] = NoRow
        PROVE  Becomes(s, NewRow(text[s], TRUE, "MACHINE"))
    BY <1>1, <2>2, StateTypes, NewRowFits DEF Becomes, Save, Statuses
  <2>3. ASSUME s \in S, rows[s] # NoRow
        PROVE  Becomes(s, Overwritten(rows[s], text[s], TRUE))
    BY <1>1, <2>3, StateTypes, OverwrittenFits DEF Becomes
  <2>4. s \in DOMAIN new => Becomes(s, new[s])
    BY <2>2, <2>3
  <2> HIDE DEF new
  <2>5. QED
    BY <2>1, <2>4, PutStep
<1>2. ASSUME NEW S \in SUBSET Segments, NEW text \in [S -> Texts], NEW l \in Languages,
             NEW approved \in SUBSET S, NEW machine \in SUBSET S,
             ImportXliff(l, S, text, approved, machine)
      PROVE  RowStep(s)
  <2> DEFINE new == [x \in S |-> XliffRow(rows[x], text[x], x \in approved, x \in machine)]
  <2>1. Put(new)
    BY <1>2 DEF ImportXliff
  <2>2. ASSUME s \in S PROVE new[s] = rows[s] \/ Becomes(s, new[s])
    <3> DEFINE row == XliffRow(rows[s], text[s], s \in approved, s \in machine)
    <3>1. text[s] \in Texts /\ (s \in approved) \in BOOLEAN /\ (s \in machine) \in BOOLEAN
      BY <2>2
    <3>2. Active(LangOf[s])
      BY <1>2, <2>2 DEF ImportXliff, In
    <3>3. row = rows[s] \/ (Fits(row) /\ Keeps(row, rows[s]))
      BY <3>1, StateTypes, XliffRowFits
    <3>4. new[s] = row
      BY <2>2
    <3> HIDE DEF row, new
    <3>5. QED
      BY <3>2, <3>3, <3>4 DEF Becomes
  <2>3. s \in DOMAIN new => new[s] = rows[s] \/ Becomes(s, new[s])
    BY <2>2
  <2> HIDE DEF new
  <2>4. QED
    BY <2>1, <2>3, PutStep
<1>3. QED
  BY <1>1, <1>2 DEF Importing

LEMMA MoveBecomes ==
    ASSUME IInv, NEW s \in Segments, rows[s] # NoRow, NEW who, NEW to \in Statuses,
           NEW assigns \in BOOLEAN, NEW holder \in Members \cup {Nobody},
           MayMove(who, s, to, assigns, holder)
    PROVE  Becomes(s, Moved(rows[s], to, holder))
<1> DEFINE new == Moved(rows[s], to, holder)
<1>1. /\ Fits(new)
      /\ new.assignee \in {Nobody, holder}
  BY StateTypes, MovedFits
<1>2. holder = rows[s].assignee \/ holder = Nobody \/ MayWork(holder, LangOf[s])
  BY DEF MayMove, Assignable
<1> HIDE DEF new
<1>3. ASSUME new.assignee # Nobody
      PROVE  new.assignee = rows[s].assignee \/ MayWork(new.assignee, LangOf[s])
  <2>1. new.assignee = holder /\ holder # Nobody
    BY <1>1, <1>3
  <2>2. QED
    BY <1>2, <2>1
<1>4. Keeps(new, rows[s]) \/ MayWork(new.assignee, LangOf[s])
  BY <1>3 DEF Keeps
<1>5. QED
  BY <1>1, <1>4 DEF Becomes, new

LEMMA ReviewStep ==
    ASSUME IInv, Reviewing, NEW s \in Segments
    PROVE  RowStep(s)
<1>1. ASSUME NEW who, NEW x \in Segments, NEW to \in Statuses, NEW assigns \in BOOLEAN,
             NEW holder \in Members \cup {Nobody}, UpdateWorkflow(who, x, to, assigns, holder)
      PROVE  RowStep(s)
  <2> DEFINE new == [y \in {x} |-> Moved(rows[y], to, holder)]
  <2>1. Put(new)
    BY <1>1 DEF UpdateWorkflow
  <2>2. ASSUME s = x PROVE Becomes(s, Moved(rows[s], to, holder))
    BY <1>1, <2>2, MoveBecomes DEF UpdateWorkflow
  <2>3. s \in DOMAIN new => Becomes(s, new[s])
    BY <2>2
  <2> HIDE DEF new
  <2>4. QED
    BY <2>1, <2>3, PutStep
<1>2. ASSUME NEW t \in Tabs, NEW who, NEW S \in SUBSET Segments, NEW kind \in BulkKinds,
             NEW member \in Members, BulkWorkflow(t, who, S, kind, member)
      PROVE  RowStep(s)
  <2> DEFINE to(x) == BulkStatus(kind, rows[x])
             holder(x) == BulkHolder(kind, rows[x], member)
             new == [x \in S |-> Moved(rows[x], to(x), holder(x))]
  <2>1. Put(new)
    BY <1>2 DEF BulkWorkflow
  <2>2. ASSUME s \in S PROVE Becomes(s, Moved(rows[s], to(s), holder(s)))
    <3>1. rows[s] # NoRow /\ rows[s] \in Rows
      BY <1>2, <2>2, StateTypes DEF BulkWorkflow, AsShown
    <3>2. to(s) \in Statuses
      BY DEF BulkStatus, Statuses
    <3>3. holder(s) \in Members \cup {Nobody}
      BY <3>1, RowFields DEF BulkHolder
    <3>4. MayMove(who, s, to(s), kind \in {"assign", "unassign"}, holder(s))
      BY <1>2, <2>2 DEF BulkWorkflow
    <3>5. (kind \in {"assign", "unassign"}) \in BOOLEAN
      OBVIOUS
    <3> HIDE DEF to, holder
    <3>6. QED
      BY <3>1, <3>2, <3>3, <3>4, <3>5, MoveBecomes
  <2>3. s \in DOMAIN new => Becomes(s, new[s])
    BY <2>2
  <2> HIDE DEF new
  <2>4. QED
    BY <2>1, <2>3, PutStep
<1>3. QED
  BY <1>1, <1>2 DEF Reviewing

LEMMA ReleaseStep ==
    ASSUME IInv, NEW S \in SUBSET Segments, \A x \in S : rows[x] # NoRow,
           Put(Released(S)), NEW s \in Segments
    PROVE  /\ s \in S => rows'[s] # NoRow /\ rows'[s].assignee = Nobody
           /\ s \notin S => rows'[s] = rows[s]
           /\ RowStep(s)
<1> DEFINE row == Moved(rows[s], "MACHINE", Nobody)
<1>1. ASSUME s \in S PROVE Fits(row) /\ row.assignee = Nobody
  <2>1. rows[s] \in Rows
    BY <1>1, StateTypes
  <2>2. QED
    BY <2>1, StateTypes, MovedFits DEF Statuses
<1>2. rows'[s] = IF s \in S THEN row ELSE rows[s]
  BY DEF Put, Released
<1>3. clock' = clock + 1
  BY DEF Put
<1> HIDE DEF row
<1>4. ASSUME s \in S PROVE rows'[s] # NoRow /\ rows'[s].assignee = Nobody /\ RowStep(s)
  <2>1. rows'[s] = row /\ rows[s] # NoRow
    BY <1>2, <1>4
  <2>2. row # NoRow
    BY <1>1, <1>4, NullAssumption DEF Fits
  <2>3. Becomes(s, row)
    BY <1>1, <1>4, <2>1 DEF Becomes, Keeps
  <2>4. QED
    BY <1>1, <1>3, <1>4, <2>1, <2>2, <2>3 DEF RowStep
<1>5. ASSUME s \notin S PROVE rows'[s] = rows[s] /\ RowStep(s)
  BY <1>2, <1>5 DEF RowStep
<1>6. QED
  BY <1>4, <1>5

LEMMA LeaveStep ==
    ASSUME IInv, NEW m \in Members, LeaveWorkspace(m), NEW s \in Segments
    PROVE  /\ s \in Held(m) => Orphaned(s)
           /\ s \notin Held(m) => rows'[s] = rows[s]
BY DEF LeaveWorkspace, Orphaned, Held

LEMMA OrphanFields ==
    ASSUME NEW row \in Rows
    PROVE  LET new == [row EXCEPT !.assignee = Nobody]
           IN  /\ new \in Rows
               /\ new.assignee = Nobody
               /\ new.version = row.version
               /\ new.text = row.text
               /\ new.manual = row.manual
               /\ new.status = row.status
BY DEF Rows

(* Every step does one of four things to every row.                        *)
LEMMA RowsStep ==
    ASSUME IInv, Next, NEW s \in Segments
    PROVE  RowStep(s)
<1>1. CASE Translating
  <2>1. ASSUME UNCHANGED rows PROVE RowStep(s)
    BY <2>1 DEF RowStep
  <2>2. QED
    BY <1>1, <2>1, PersistStep
       DEF Translating, LookUp, Confirm, LookUpForced, Dispatch, GiveUp
<1>2. CASE Editing
  <2>1. ASSUME NEW t \in Tabs, Look(t) PROVE RowStep(s)
    BY <2>1 DEF Look, RowStep
  <2>2. ASSUME NEW t \in Tabs, NEW x \in Segments, Delete(t, x) PROVE RowStep(s)
    BY <2>2, EditStep
  <2>3. ASSUME NEW t \in Tabs, NEW x \in Segments, NEW text \in Texts, Adopt(t, x, text)
        PROVE  RowStep(s)
    BY <2>3, EditStep
  <2>4. ASSUME NEW t \in Tabs, NEW who, NEW S \in SUBSET Segments, NEW text \in [S -> Texts],
               Replace(t, who, S, text)
        PROVE  RowStep(s)
    BY <2>4, EditStep
  <2>5. ASSUME NEW t \in Tabs, NEW who, NEW x \in Segments, NEW text \in Texts,
               Edit(t, who, x, text)
        PROVE  RowStep(s)
    BY <2>5, EditStep
  <2>6. ASSUME NEW t \in Tabs, NEW S \in SUBSET Segments, DeleteUrl(t, S) PROVE RowStep(s)
    BY <2>6, EditStep
  <2>7. QED
    BY <1>2, <2>1, <2>2, <2>3, <2>4, <2>5, <2>6 DEF Editing
<1>3. CASE Importing
  BY <1>3, ImportStep
<1>4. CASE Reviewing
  BY <1>4, ReviewStep
<1>5. CASE Configuring
  <2>1. ASSUME UNCHANGED rows PROVE RowStep(s)
    BY <2>1 DEF RowStep
  <2>2. ASSUME NEW t \in Tabs, NEW l \in Languages, RemoveLanguage(t, l) PROVE RowStep(s)
    <3>1. Put([x \in In(l) |-> NoRow])
      BY <2>2 DEF RemoveLanguage
    <3>2. QED
      BY <3>1, PutStep
  <2>3. QED
    BY <1>5, <2>1, <2>2 DEF Configuring, ChangeRule, DeleteRule, SetLanguage, Switch
<1>6. CASE Staffing
  <2>1. ASSUME NEW m \in Members, RemoveMember(m) PROVE RowStep(s)
    BY <2>1, ReleaseStep DEF RemoveMember, Held
  <2>2. ASSUME NEW m \in Members, NEW l \in Languages, ConfineMember(m, l) PROVE RowStep(s)
    <3>1. Held(m) \ In(l) \in SUBSET Segments /\ \A x \in Held(m) \ In(l) : rows[x] # NoRow
      BY DEF Held
    <3>2. QED
      BY <2>2, <3>1, ReleaseStep DEF ConfineMember
  <2>3. ASSUME NEW m \in Members, FreeMember(m) PROVE RowStep(s)
    BY <2>3 DEF FreeMember, RowStep
  <2>4. ASSUME NEW m \in Members, LeaveWorkspace(m) PROVE RowStep(s)
    BY <2>4, LeaveStep DEF RowStep
  <2>5. QED
    BY <1>6, <2>1, <2>2, <2>3, <2>4 DEF Staffing
<1>7. QED
  BY <1>1, <1>2, <1>3, <1>4, <1>5, <1>6 DEF Next

-----------------------------------------------------------------------------
LEMMA RequestFields ==
    ASSUME IInv, NEW r \in Requests
    PROVE  /\ request[r] \in RequestStates
           /\ request[r].language \in Languages \cup {AnyLanguage}
           /\ request[r].pending \in SUBSET Segments
           /\ request[r].asked \in Snapshots
           /\ request[r].seen \in Snapshots
           /\ Scoped(request[r])
BY DEF IInv, TypeOK, RequestStates, RequestsAreScoped

LEMMA KeptType ==
    ASSUME IInv, NEW S
    PROVE  Kept(rows, S) \in Snapshots
BY DEF IInv, TypeOK, Kept, Snapshots

LEMMA KeptRecalls ==
    ASSUME UNCHANGED <<rows, clock>>, NEW S, NEW old
    PROVE  Recalls(Kept(rows, S), old)
BY DEF Recalls, Kept

LEMMA IdleFits ==
    /\ IdleRequest \in RequestStates
    /\ Scoped(IdleRequest)
    /\ IdleRequest.seen = Blank
    /\ IdleRequest.asked = Blank
    /\ IdleRequest.phase = "idle"
    /\ ~IdleRequest.forced
BY DEF IdleRequest, RequestStates, Scoped, Snapshots, Blank

LEMMA BlankRecalls ==
    ASSUME NEW old
    PROVE  Recalls(Blank, old)
BY DEF Recalls, Blank

RequestStep(r, q) ==
    /\ q \in RequestStates
    /\ Scoped(q)
    /\ Recalls(q.seen, request[r].seen)
    /\ Recalls(q.asked, request[r].asked)

LEMMA SameStep ==
    ASSUME IInv, NEW r \in Requests
    PROVE  RequestStep(r, request[r])
BY RequestFields DEF RequestStep, Recalls

LEMMA IdleStep ==
    ASSUME NEW r
    PROVE  RequestStep(r, IdleRequest)
BY IdleFits, BlankRecalls DEF RequestStep

LEMMA LookUpStep ==
    ASSUME IInv, NEW r \in Requests, NEW l \in Languages, NEW S \in SUBSET In(l), LookUp(r, l, S)
    PROVE  RequestStep(r, request'[r]) /\ \A p \in Requests \ {r} : request'[p] = request[p]
<1> DEFINE q == [IdleRequest EXCEPT !.phase = "found", !.language = l, !.pending = S,
                                    !.seen = Kept(rows, S)]
<1>1. S \in SUBSET Segments /\ \A s \in S : LangOf[s] = l
  BY DEF In
<1>2. /\ q \in RequestStates
      /\ q.phase = "found"
      /\ q.forced = IdleRequest.forced
      /\ q.language = l
      /\ q.pending = S
      /\ q.asked = IdleRequest.asked
      /\ q.seen = Kept(rows, S)
  BY <1>1, IdleFits, KeptType DEF RequestStates
<1>3. request \in [Requests -> RequestStates] /\ request' = [request EXCEPT ![r] = q]
  BY DEF LookUp, IInv, TypeOK
<1> HIDE DEF q
<1>4. Scoped(q)
  BY <1>1, <1>2, IdleFits DEF Scoped
<1>5. Recalls(q.seen, request[r].seen) /\ Recalls(q.asked, request[r].asked)
  BY <1>2, IdleFits, KeptRecalls, BlankRecalls DEF LookUp
<1>6. QED
  BY <1>2, <1>3, <1>4, <1>5 DEF RequestStep

LEMMA ConfirmStep ==
    ASSUME IInv, NEW r \in Requests, NEW l \in Languages, NEW S \in SUBSET In(l), Confirm(r, l, S)
    PROVE  RequestStep(r, request'[r]) /\ \A p \in Requests \ {r} : request'[p] = request[p]
<1> DEFINE q == [IdleRequest EXCEPT !.phase = "confirmed", !.forced = TRUE, !.language = l,
                                    !.pending = S, !.asked = Kept(rows, S), !.rules = rules]
<1>1. S \in SUBSET Segments /\ \A s \in S : LangOf[s] = l
  BY DEF In
<1>2. rules \in [Segments -> Nat]
  BY DEF IInv, TypeOK
<1>3. /\ q \in RequestStates
      /\ q.phase = "confirmed"
      /\ q.language = l
      /\ q.pending = S
      /\ q.asked = Kept(rows, S)
      /\ q.rules = rules
      /\ q.seen = IdleRequest.seen
  BY <1>1, <1>2, IdleFits, KeptType DEF RequestStates
<1>4. request \in [Requests -> RequestStates] /\ request' = [request EXCEPT ![r] = q]
  BY DEF Confirm, IInv, TypeOK
<1>5. \A s \in S : Kept(rows, S)[s] # NoRow /\ rules[s] = 0
  BY <1>1 DEF Confirm, Disposable, Kept
<1> HIDE DEF q
<1>6. Scoped(q)
  BY <1>1, <1>3, <1>5 DEF Scoped
<1>7. Recalls(q.seen, request[r].seen) /\ Recalls(q.asked, request[r].asked)
  BY <1>3, IdleFits, KeptRecalls, BlankRecalls DEF Confirm
<1>8. QED
  BY <1>3, <1>4, <1>6, <1>7 DEF RequestStep

LEMMA LookUpForcedStep ==
    ASSUME IInv, NEW r \in Requests, LookUpForced(r)
    PROVE  RequestStep(r, request'[r]) /\ \A p \in Requests \ {r} : request'[p] = request[p]
<1> DEFINE q == [request[r] EXCEPT !.phase = "found",
                                   !.seen = Kept(rows, request[r].pending)]
<1>1. request \in [Requests -> RequestStates] /\ request' = [request EXCEPT ![r] = q]
  BY DEF LookUpForced, IInv, TypeOK
<1>2. /\ q \in RequestStates
      /\ q.phase = "found"
      /\ q.forced = request[r].forced
      /\ q.language = request[r].language
      /\ q.pending = request[r].pending
      /\ q.asked = request[r].asked
      /\ q.rules = request[r].rules
      /\ q.seen = Kept(rows, request[r].pending)
  BY KeptType, RequestFields DEF RequestStates
<1>3. Recalls(q.seen, request[r].seen) /\ Recalls(q.asked, request[r].asked)
  BY <1>2, KeptRecalls DEF LookUpForced, Recalls
<1> HIDE DEF q
<1>4. Scoped(q)
  BY <1>2, RequestFields DEF Scoped
<1>5. QED
  BY <1>1, <1>2, <1>3, <1>4 DEF RequestStep

LEMMA DispatchStep ==
    ASSUME IInv, NEW r \in Requests, Dispatch(r)
    PROVE  RequestStep(r, request'[r]) /\ \A p \in Requests \ {r} : request'[p] = request[p]
<1> DEFINE q == [request[r] EXCEPT !.phase = "sent"]
<1>1. request \in [Requests -> RequestStates] /\ request' = [request EXCEPT ![r] = q]
  BY DEF Dispatch, IInv, TypeOK
<1>2. /\ q \in RequestStates
      /\ q.phase = "sent"
      /\ q.forced = request[r].forced
      /\ q.language = request[r].language
      /\ q.pending = request[r].pending
      /\ q.asked = request[r].asked
      /\ q.rules = request[r].rules
      /\ q.seen = request[r].seen
  BY RequestFields DEF RequestStates
<1>3. Recalls(q.seen, request[r].seen) /\ Recalls(q.asked, request[r].asked)
  BY <1>2 DEF Recalls
<1> HIDE DEF q
<1>4. Scoped(q)
  BY <1>2, RequestFields DEF Scoped
<1>5. QED
  BY <1>1, <1>2, <1>3, <1>4 DEF RequestStep

LEMMA RequestsStep ==
    ASSUME IInv, Next
    PROVE  /\ request' \in [Requests -> RequestStates]
           /\ \A r \in Requests : RequestStep(r, request'[r])
<1>1. ASSUME \A r \in Requests : request'[r] = request[r]
      PROVE  \A r \in Requests : RequestStep(r, request'[r])
  BY <1>1, SameStep
<1>2. ASSUME Translating PROVE \A r \in Requests : RequestStep(r, request'[r])
  <2>1. ASSUME NEW r \in Requests, RequestStep(r, request'[r]),
               \A p \in Requests \ {r} : request'[p] = request[p]
        PROVE  \A p \in Requests : RequestStep(p, request'[p])
    BY <2>1, SameStep
  <2>2. ASSUME NEW r \in Requests, request' = [request EXCEPT ![r] = IdleRequest]
        PROVE  \A p \in Requests : RequestStep(p, request'[p])
    <3>1. /\ request'[r] = IdleRequest
          /\ \A p \in Requests \ {r} : request'[p] = request[p]
      BY <2>2 DEF IInv, TypeOK
    <3>2. QED
      BY <3>1, <2>1, IdleStep
  <2>3. ASSUME NEW r \in Requests, NEW l \in Languages, NEW S \in SUBSET In(l),
               LookUp(r, l, S) \/ Confirm(r, l, S)
        PROVE  \A p \in Requests : RequestStep(p, request'[p])
    BY <2>3, <2>1, LookUpStep, ConfirmStep
  <2>4. ASSUME NEW r \in Requests, LookUpForced(r) \/ Dispatch(r)
        PROVE  \A p \in Requests : RequestStep(p, request'[p])
    BY <2>4, <2>1, LookUpForcedStep, DispatchStep
  <2>5. ASSUME NEW r \in Requests, GiveUp(r) \/ \E text : Persist(r, text)
        PROVE  \A p \in Requests : RequestStep(p, request'[p])
    BY <2>5, <2>2 DEF GiveUp, Persist
  <2>6. QED
    BY <1>2, <2>3, <2>4, <2>5 DEF Translating
<1>3. ASSUME Next, ~Translating PROVE \A r \in Requests : RequestStep(r, request'[r])
  <2>1. UNCHANGED request
    BY <1>3 DEF Next, Editing, Look, Edit, Replace, Adopt, Delete, DeleteUrl,
                Importing, Save, ImportXliff, Reviewing, UpdateWorkflow, BulkWorkflow,
                Configuring, ChangeRule, DeleteRule, SetLanguage, RemoveLanguage, Switch,
                Staffing, RemoveMember, ConfineMember, FreeMember, LeaveWorkspace
  <2>2. QED
    BY <1>1, <2>1
<1>4. request' = [r \in Requests |-> request'[r]]
  <2>1. request = [r \in Requests |-> request[r]]
    BY DEF IInv, TypeOK
  <2>2. CASE Translating
    BY <2>1, <2>2 DEF Translating, LookUp, Confirm, LookUpForced, Dispatch, Persist, GiveUp
  <2>3. CASE ~Translating
    BY <2>1, <2>3 DEF Next, Editing, Look, Edit, Replace, Adopt, Delete, DeleteUrl,
                Importing, Save, ImportXliff, Reviewing, UpdateWorkflow, BulkWorkflow,
                Configuring, ChangeRule, DeleteRule, SetLanguage, RemoveLanguage, Switch,
                Staffing, RemoveMember, ConfineMember, FreeMember, LeaveWorkspace
  <2>4. QED
    BY <2>2, <2>3
<1>5. \A r \in Requests : RequestStep(r, request'[r])
  BY <1>2, <1>3
<1>6. QED
  BY <1>4, <1>5 DEF RequestStep

-----------------------------------------------------------------------------
LEMMA ClockStep ==
    ASSUME IInv, Next
    PROVE  clock' \in 0 .. MaxWrites /\ clock' \in {clock, clock + 1}
<1> DEFINE Ticks == UNCHANGED clock \/ (clock < MaxWrites /\ clock' = clock + 1)
<1>1. Ticks
  <2>1. CASE Translating
    <3>1. ASSUME NEW r \in Requests, NEW text, Persist(r, text) PROVE Ticks
      BY <3>1 DEF Persist, Put
    <3>2. QED
      BY <2>1, <3>1 DEF Translating, LookUp, Confirm, LookUpForced, Dispatch, GiveUp
  <2>2. CASE Editing
    <3>1. ASSUME NEW t \in Tabs, Look(t) PROVE Ticks
      BY <3>1 DEF Look
    <3>2. ASSUME NEW new, Put(new) PROVE Ticks
      BY <3>2 DEF Put
    <3>3. QED
      BY <2>2, <3>1, <3>2 DEF Editing, Edit, Replace, Adopt, Delete, DeleteUrl
  <2>3. CASE Importing \/ Reviewing
    <3>1. ASSUME NEW new, Put(new) PROVE Ticks
      BY <3>1 DEF Put
    <3>2. QED
      BY <2>3, <3>1 DEF Importing, Save, ImportXliff, Reviewing, UpdateWorkflow, BulkWorkflow
  <2>4. CASE Configuring \/ Staffing
    <3>1. ASSUME NEW m \in Members, FreeMember(m) \/ LeaveWorkspace(m) PROVE UNCHANGED clock
      BY <3>1 DEF FreeMember, LeaveWorkspace
    <3>2. QED
      BY <2>4, <3>1 DEF Put, Configuring, ChangeRule, DeleteRule, SetLanguage,
                        RemoveLanguage, Switch, Staffing, RemoveMember, ConfineMember
  <2>5. QED
    BY <2>1, <2>2, <2>3, <2>4 DEF Next
<1>2. clock \in 0 .. MaxWrites
  BY DEF IInv, TypeOK
<1>3. QED
  BY <1>1, <1>2, SegmentsAssumption

LEMMA ViewStep ==
    ASSUME IInv, Next
    PROVE  /\ view' \in [Tabs -> Snapshots]
           /\ \A t \in Tabs : Recalls(view'[t], view[t])
<1>1. view \in [Tabs -> Snapshots] /\ rows \in Snapshots
  BY DEF IInv, TypeOK
<1>2. ASSUME NEW t \in Tabs, Look(t)
      PROVE  /\ view' \in [Tabs -> Snapshots]
             /\ \A u \in Tabs : Recalls(view'[u], view[u])
  BY <1>1, <1>2 DEF Look, Recalls
<1>3. ASSUME UNCHANGED view
      PROVE  /\ view' \in [Tabs -> Snapshots]
             /\ \A t \in Tabs : Recalls(view'[t], view[t])
  BY <1>1, <1>3 DEF Recalls
<1>4. UNCHANGED view \/ \E t \in Tabs : Look(t)
  BY DEF Next, Translating, LookUp, Confirm, LookUpForced, Dispatch, Persist, GiveUp,
         Editing, Edit, Replace, Adopt, Delete, DeleteUrl,
         Importing, Save, ImportXliff, Reviewing, UpdateWorkflow, BulkWorkflow,
         Configuring, ChangeRule, DeleteRule, SetLanguage, RemoveLanguage, Switch,
         Staffing, RemoveMember, ConfineMember, FreeMember, LeaveWorkspace
<1>5. QED
  BY <1>2, <1>3, <1>4

LEMMA RowsType ==
    ASSUME IInv, Next
    PROVE  rows' \in Snapshots
<1>1. rows' = [s \in Segments |-> rows'[s]]
  <2>1. rows = [s \in Segments |-> rows[s]]
    BY DEF IInv, TypeOK, Snapshots
  <2>2. UNCHANGED rows \/ (\E new : Put(new)) \/ \E m \in Members : LeaveWorkspace(m)
    BY DEF Next, Translating, LookUp, Confirm, LookUpForced, Dispatch, Persist, GiveUp,
         Editing, Look, Edit, Replace, Adopt, Delete, DeleteUrl,
         Importing, Save, ImportXliff, Reviewing, UpdateWorkflow, BulkWorkflow,
         Configuring, ChangeRule, DeleteRule, SetLanguage, RemoveLanguage, Switch,
         Staffing, RemoveMember, ConfineMember, FreeMember
  <2>3. QED
    BY <2>1, <2>2 DEF Put, LeaveWorkspace
<1>2. ASSUME NEW s \in Segments PROVE rows'[s] \in Rows \cup {NoRow}
  BY StateTypes, RowsStep, OrphanFields DEF RowStep, Becomes, Fits, Orphaned
<1>3. QED
  BY <1>1, <1>2 DEF Snapshots

LEMMA OtherTypes ==
    ASSUME IInv, Next
    PROVE  /\ rules' \in [Segments -> Nat]
           /\ language' \in [Languages -> {"active", "paused", "removed"}]
           /\ automation' \in {"on", "target_off", "off"}
           /\ members' \in [Members -> Languages \cup {AnyLanguage, "left"}]
           /\ departures' \in 0 .. MaxDepartures
<1>1. TypeOK /\ clock \in Nat
  BY StateTypes DEF IInv
<1>2. CASE Translating \/ Editing \/ Importing \/ Reviewing
  <2>1. UNCHANGED <<rules, language, automation, members, departures>>
    BY <1>2 DEF Translating, LookUp, Confirm, LookUpForced, Dispatch, Persist, GiveUp,
         Editing, Look, Edit, Replace, Adopt, Delete, DeleteUrl,
         Importing, Save, ImportXliff, Reviewing, UpdateWorkflow, BulkWorkflow
  <2>2. QED
    BY <1>1, <2>1 DEF TypeOK
<1>3. CASE Configuring
  <2>1. rules' \in [Segments -> Nat]
    <3>1. ASSUME NEW s \in Segments, ChangeRule(s) PROVE rules' \in [Segments -> Nat]
      <4>1. PICK version \in Nat : version = clock + 1
        BY <1>1
      <4>2. rules' = [rules EXCEPT ![s] = version]
        BY <3>1, <4>1 DEF ChangeRule
      <4>3. QED
        BY <1>1, <4>2 DEF TypeOK
    <3>2. ASSUME NEW s \in Segments, DeleteRule(s) PROVE rules' \in [Segments -> Nat]
      BY <1>1, <3>2 DEF TypeOK, DeleteRule
    <3>3. ASSUME NEW t \in Tabs, NEW l \in Languages, RemoveLanguage(t, l)
          PROVE  rules' \in [Segments -> Nat]
      BY <1>1, <3>3 DEF TypeOK, RemoveLanguage
    <3>4. QED
      BY <1>1, <1>3, <3>1, <3>2, <3>3 DEF TypeOK, Configuring, SetLanguage, Switch
  <2>2. language' \in [Languages -> {"active", "paused", "removed"}]
    BY <1>1, <1>3 DEF TypeOK, Configuring, ChangeRule, DeleteRule, SetLanguage,
                      RemoveLanguage, Switch
  <2>3. automation' \in {"on", "target_off", "off"} /\ UNCHANGED <<members, departures>>
    BY <1>1, <1>3 DEF TypeOK, Configuring, ChangeRule, DeleteRule, SetLanguage,
                      RemoveLanguage, Switch
  <2>4. QED
    BY <1>1, <2>1, <2>2, <2>3 DEF TypeOK
<1>4. CASE Staffing
  <2>1. UNCHANGED <<rules, language, automation>>
    BY <1>4 DEF Staffing, RemoveMember, ConfineMember, FreeMember, LeaveWorkspace
  <2>2. members' \in [Members -> Languages \cup {AnyLanguage, "left"}]
    BY <1>1, <1>4
       DEF TypeOK, Staffing, RemoveMember, ConfineMember, FreeMember, LeaveWorkspace
  <2>3. UNCHANGED departures \/ (departures < MaxDepartures /\ departures' = departures + 1)
    BY <1>4 DEF Staffing, RemoveMember, ConfineMember, FreeMember, LeaveWorkspace
  <2>4. departures' \in 0 .. MaxDepartures
    BY <1>1, <2>3, SegmentsAssumption DEF TypeOK
  <2>5. QED
    BY <1>1, <2>1, <2>2, <2>4 DEF TypeOK
<1>5. QED
  BY <1>2, <1>3, <1>4 DEF Next

LEMMA TypeStep ==
    ASSUME IInv, Next
    PROVE  TypeOK'
BY RowsType, OtherTypes, RequestsStep, ViewStep, ClockStep DEF TypeOK

MatchesAfter(snapshot, s) ==
    snapshot[s] # NoRow =>
        /\ snapshot[s].version <= clock'
        /\ (rows'[s] # NoRow /\ snapshot[s].version = rows'[s].version) =>
               /\ snapshot[s].text = rows'[s].text
               /\ snapshot[s].manual = rows'[s].manual

LEMMA MatchesStep ==
    ASSUME IInv, Next, NEW s \in Segments, NEW old \in Snapshots, Matches(old, s),
           NEW new, Recalls(new, old)
    PROVE  MatchesAfter(new, s)
<1>1. clock \in Nat /\ clock' \in {clock, clock + 1}
  BY StateTypes, ClockStep
<1>2. rows[s] # NoRow => rows[s] \in Rows /\ rows[s].version <= clock
  BY StateTypes DEF IInv, VersionsAreStamped
<1>3. CASE new[s] = NoRow
  BY <1>3 DEF MatchesAfter
<1>4. CASE new[s] = rows[s] /\ UNCHANGED <<rows, clock>>
  BY <1>2, <1>4 DEF MatchesAfter
<1>5. CASE new[s] = old[s] /\ new[s] # NoRow
  <2>1. old[s] \in Rows /\ old[s].version \in Nat /\ old[s].version <= clock
    BY <1>5, RowFields DEF Matches, Snapshots
  <2>2. CASE rows'[s] = rows[s] \/ rows'[s] = NoRow
    BY <1>1, <1>5, <2>1, <2>2 DEF MatchesAfter, Matches
  <2>3. CASE Becomes(s, rows'[s])
    BY <1>1, <1>5, <2>1, <2>3 DEF MatchesAfter, Becomes, Fits
  <2>4. CASE Orphaned(s)
    <3>1. /\ rows[s] # NoRow
          /\ rows'[s].version = rows[s].version
          /\ rows'[s].text = rows[s].text
          /\ rows'[s].manual = rows[s].manual
      BY <2>4, <1>2, OrphanFields DEF Orphaned
    <3>2. QED
      BY <1>1, <1>5, <2>1, <3>1 DEF MatchesAfter, Matches
  <2>5. QED
    BY <2>2, <2>3, <2>4, RowsStep DEF RowStep
<1>6. QED
  BY <1>3, <1>4, <1>5 DEF Recalls

LEMMA VersionsStep ==
    ASSUME IInv, Next
    PROVE  VersionsAreStamped'
<1>1. ASSUME NEW s \in Segments, rows'[s] # NoRow PROVE rows'[s].version <= clock'
  <2>1. clock \in Nat /\ clock' \in {clock, clock + 1}
    BY StateTypes, ClockStep
  <2>2. rows[s] # NoRow =>
            rows[s] \in Rows /\ rows[s].version \in Nat /\ rows[s].version <= clock
    BY StateTypes, RowFields DEF IInv, VersionsAreStamped
  <2>3. CASE rows'[s] = rows[s]
    BY <1>1, <2>1, <2>2, <2>3
  <2>4. CASE Becomes(s, rows'[s]) /\ clock' = clock + 1
    BY <2>1, <2>4 DEF Becomes, Fits
  <2>5. CASE Orphaned(s)
    BY <2>1, <2>2, <2>5, OrphanFields DEF Orphaned
  <2>6. QED
    BY <1>1, <2>3, <2>4, <2>5, RowsStep DEF RowStep
<1>2. ASSUME NEW t \in Tabs, NEW s \in Segments PROVE MatchesAfter(view'[t], s)
  BY ViewStep, MatchesStep DEF IInv, TypeOK, VersionsAreStamped
<1>3. ASSUME NEW r \in Requests, NEW s \in Segments
      PROVE  MatchesAfter(request'[r].seen, s) /\ MatchesAfter(request'[r].asked, s)
  <2>1. request[r].seen \in Snapshots /\ request[r].asked \in Snapshots
    BY RequestFields
  <2>2. RequestStep(r, request'[r])
    BY RequestsStep
  <2>3. QED
    BY <2>1, <2>2, MatchesStep DEF IInv, VersionsAreStamped, RequestStep
<1>4. QED
  BY <1>1, <1>2, <1>3 DEF VersionsAreStamped, Matches, MatchesAfter

-----------------------------------------------------------------------------
LEMMA OrphanedRow ==
    ASSUME IInv, NEW s \in Segments, Orphaned(s)
    PROVE  rows'[s].assignee = Nobody /\ Occupied(rows'[s])
<1>1. rows[s] \in Rows /\ rows'[s] = [rows[s] EXCEPT !.assignee = Nobody]
  BY StateTypes DEF Orphaned
<1>2. QED
  BY <1>1, OrphanFields DEF Occupied

LEMMA AssigneesStep ==
    ASSUME IInv, Next
    PROVE  AssigneesMayWork'
<1>1. ASSUME NEW s \in Segments, rows[s] # NoRow, rows[s].assignee # Nobody
      PROVE  /\ rows[s].assignee \in Members
             /\ members[rows[s].assignee] \in {AnyLanguage, LangOf[s]}
             /\ rows[s].status # "MACHINE"
  BY <1>1, StateTypes, RowFields, SegmentsAssumption DEF IInv, AssigneesMayWork, MayWork
<1>2. ASSUME NEW s \in Segments, rows'[s] # NoRow PROVE Occupied(rows'[s])
  <2>1. RowStep(s)
    BY RowsStep
  <2>2. QED
    BY <1>2, <2>1, StateTypes, OrphanedRow DEF RowStep, Becomes, Fits
<1>3. ASSUME UNCHANGED members, NEW s \in Segments, rows'[s] # NoRow, rows'[s].assignee # Nobody
      PROVE  MayWork(rows'[s].assignee, LangOf[s])
  <2>1. RowStep(s) /\ ~Orphaned(s)
    BY <1>3, RowsStep, OrphanedRow
  <2>2. \/ rows[s] # NoRow /\ rows[s].assignee = rows'[s].assignee
        \/ MayWork(rows'[s].assignee, LangOf[s])
    BY <1>3, <2>1 DEF RowStep, Becomes, Keeps
  <2>3. QED
    BY <1>1, <1>3, <2>2 DEF MayWork
<1>4. ASSUME NEW m \in Members, Present(m), members' \in [Members -> Languages \cup {AnyLanguage, "left"}],
             NEW l, members' = [members EXCEPT ![m] = l],
             NEW s \in Segments, rows'[s] # NoRow, rows'[s].assignee # Nobody,
             rows'[s] = rows[s], rows[s].assignee = m => l \in {AnyLanguage, LangOf[s]}
      PROVE  members'[rows'[s].assignee] \in {AnyLanguage, LangOf[s]}
  BY <1>1, <1>4 DEF IInv, TypeOK
<1>5. ASSUME Staffing, NEW s \in Segments, rows'[s] # NoRow, rows'[s].assignee # Nobody
      PROVE  members'[rows'[s].assignee] \in {AnyLanguage, LangOf[s]}
  <2>1. members' \in [Members -> Languages \cup {AnyLanguage, "left"}]
    BY OtherTypes
  <2>2. ASSUME NEW m \in Members, RemoveMember(m)
        PROVE  members'[rows'[s].assignee] \in {AnyLanguage, LangOf[s]}
    <3>1. s \notin Held(m) /\ rows'[s] = rows[s]
      BY <1>5, <2>2, ReleaseStep DEF RemoveMember, Held
    <3>2. QED
      BY <1>4, <1>5, <2>1, <2>2, <3>1 DEF RemoveMember, Held
  <2>3. ASSUME NEW m \in Members, NEW l \in Languages, ConfineMember(m, l)
        PROVE  members'[rows'[s].assignee] \in {AnyLanguage, LangOf[s]}
    <3>1. Held(m) \ In(l) \in SUBSET Segments /\ \A x \in Held(m) \ In(l) : rows[x] # NoRow
      BY DEF Held
    <3>2. s \notin Held(m) \ In(l) /\ rows'[s] = rows[s]
      BY <1>5, <2>3, <3>1, ReleaseStep DEF ConfineMember
    <3>3. QED
      BY <1>4, <1>5, <2>1, <2>3, <3>2 DEF ConfineMember, Held, In
  <2>4. ASSUME NEW m \in Members, FreeMember(m)
        PROVE  members'[rows'[s].assignee] \in {AnyLanguage, LangOf[s]}
    BY <1>4, <1>5, <2>1, <2>4 DEF FreeMember
  <2>5. ASSUME NEW m \in Members, LeaveWorkspace(m)
        PROVE  members'[rows'[s].assignee] \in {AnyLanguage, LangOf[s]}
    <3>1. s \notin Held(m) /\ rows'[s] = rows[s]
      BY <1>5, <2>5, LeaveStep, OrphanedRow
    <3>2. QED
      BY <1>4, <1>5, <2>1, <2>5, <3>1 DEF LeaveWorkspace, Held
  <2>6. QED
    BY <1>5, <2>2, <2>3, <2>4, <2>5 DEF Staffing
<1>6. UNCHANGED members \/ Staffing
  BY DEF Next, Translating, LookUp, Confirm, LookUpForced, Dispatch, Persist, GiveUp,
         Editing, Look, Edit, Replace, Adopt, Delete, DeleteUrl,
         Importing, Save, ImportXliff, Reviewing, UpdateWorkflow, BulkWorkflow,
         Configuring, ChangeRule, DeleteRule, SetLanguage, RemoveLanguage, Switch
<1>7. QED
  BY <1>2, <1>3, <1>5, <1>6 DEF AssigneesMayWork, MayWork, Occupied

LEMMA RemovedStep ==
    ASSUME IInv, Next
    PROVE  RemovedLanguagesStayEmpty'
<1>1. ASSUME UNCHANGED language PROVE RemovedLanguagesStayEmpty'
  BY <1>1, RowsStep
     DEF IInv, RemovedLanguagesStayEmpty, RowStep, Becomes, Orphaned, Active
<1>2. ASSUME NEW l \in Languages, NEW to \in {"active", "paused"}, SetLanguage(l, to)
      PROVE  RemovedLanguagesStayEmpty'
  BY <1>2 DEF IInv, TypeOK, RemovedLanguagesStayEmpty, SetLanguage
<1>3. ASSUME NEW t \in Tabs, NEW l \in Languages, RemoveLanguage(t, l)
      PROVE  RemovedLanguagesStayEmpty'
  <2>1. \A s \in Segments : rows'[s] = IF LangOf[s] = l THEN NoRow ELSE rows[s]
    BY <1>3 DEF RemoveLanguage, Put, In
  <2>2. \A s \in Segments : LangOf[s] # l => language'[LangOf[s]] = language[LangOf[s]]
    BY <1>3 DEF RemoveLanguage, IInv, TypeOK
  <2>3. QED
    BY <2>1, <2>2 DEF IInv, RemovedLanguagesStayEmpty
<1>4. \/ UNCHANGED language
      \/ \E l \in Languages : \/ \E to \in {"active", "paused"} : SetLanguage(l, to)
                              \/ \E t \in Tabs : RemoveLanguage(t, l)
  BY DEF Next, Translating, LookUp, Confirm, LookUpForced, Dispatch, Persist, GiveUp,
         Editing, Look, Edit, Replace, Adopt, Delete, DeleteUrl,
         Importing, Save, ImportXliff, Reviewing, UpdateWorkflow, BulkWorkflow,
         Configuring, ChangeRule, DeleteRule, Switch,
         Staffing, RemoveMember, ConfineMember, FreeMember, LeaveWorkspace
<1>5. QED
  BY <1>1, <1>2, <1>3, <1>4

LEMMA InitInv == Init => IInv
<1>1. ASSUME Init PROVE TypeOK
  BY <1>1, IdleFits, SegmentsAssumption DEF Init, TypeOK, Snapshots, Blank
<1>2. ASSUME Init PROVE RequestsAreScoped
  BY <1>2, IdleFits DEF Init, RequestsAreScoped
<1>3. ASSUME Init PROVE VersionsAreStamped
  BY <1>3, IdleFits DEF Init, VersionsAreStamped, Matches, Blank
<1>4. ASSUME Init PROVE AssigneesMayWork /\ RemovedLanguagesStayEmpty
  BY <1>4 DEF Init, AssigneesMayWork, RemovedLanguagesStayEmpty, Blank
<1>5. QED
  BY <1>1, <1>2, <1>3, <1>4 DEF IInv

LEMMA InvStep == IInv /\ [Next]_vars => IInv'
<1>1. ASSUME IInv, Next PROVE IInv'
  <2>1. RequestsAreScoped'
    BY <1>1, RequestsStep DEF RequestsAreScoped, RequestStep, Scoped
  <2>2. QED
    BY <1>1, <2>1, TypeStep, VersionsStep, AssigneesStep, RemovedStep DEF IInv
<1>2. ASSUME IInv, UNCHANGED vars PROVE IInv'
  BY <1>2 DEF vars, IInv, TypeOK, RequestsAreScoped, Scoped, VersionsAreStamped, Matches,
              AssigneesMayWork, MayWork, RemovedLanguagesStayEmpty
<1>3. QED
  BY <1>1, <1>2

LEMMA Invariance == Spec => []IInv
<1>1. QED
  BY InitInv, InvStep, PTL DEF Spec

(* Every variable keeps its type, for every set of segments, languages,    *)
(* members, tabs and requests.                                              *)
THEOREM TypeCorrect == Spec => []TypeOK
<1>1. IInv => TypeOK
  BY DEF IInv
<1>2. QED
  BY <1>1, Invariance, PTL

(* A remembered version that is still the row's stands for the same text   *)
(* and origin: no writer of the project reuses or keeps a version.          *)
THEOREM VersionsAreSound == Spec => []VersionsNameTexts
<1>1. IInv => VersionsNameTexts
  BY DEF IInv, VersionsAreStamped, Matches, VersionsNameTexts, Remembered
<1>2. QED
  BY <1>1, Invariance, PTL

(* Rows are never left with, or given to, a member who may not work on     *)
(* their language, whoever is removed, confined or leaves meanwhile.        *)
THEOREM AssignmentsAreValid == Spec => []AssigneesMayWork
<1>1. IInv => AssigneesMayWork
  BY DEF IInv
<1>2. QED
  BY <1>1, Invariance, PTL

(* No write under way brings back a row of a removed target language.      *)
THEOREM RemovalIsFinal == Spec => []RemovedLanguagesStayEmpty
<1>1. IInv => RemovedLanguagesStayEmpty
  BY DEF IInv
<1>2. QED
  BY <1>1, Invariance, PTL

-----------------------------------------------------------------------------
LEMMA ShownText ==
    ASSUME IInv, NEW t \in Tabs, NEW s \in Segments, AsShown(t, s)
    PROVE  view[t][s] # NoRow /\ view[t][s].text = rows[s].text
BY DEF AsShown, IInv, VersionsAreStamped, Matches

(* What acts on a tab writes only rows that are as the tab shows them.     *)
LEMMA TabStep ==
    ASSUME NEW t \in Tabs, ActsOnTab(t), NEW s \in Segments,
           rows'[s] # rows[s], rows[s] # NoRow
    PROVE  AsShown(t, s)
<1>1. ASSUME NEW new, Put(new) PROVE s \in DOMAIN new
  BY <1>1 DEF Put
<1>2. ASSUME NEW x \in Segments, Delete(t, x) PROVE AsShown(t, s)
  BY <1>1, <1>2 DEF Delete
<1>3. ASSUME NEW x \in Segments, NEW text \in Texts, Adopt(t, x, text) PROVE AsShown(t, s)
  BY <1>1, <1>3 DEF Adopt
<1>4. ASSUME NEW l \in Languages, RemoveLanguage(t, l) PROVE AsShown(t, s)
  <2>1. s \in In(l)
    BY <1>1, <1>4 DEF RemoveLanguage
  <2>2. QED
    BY <1>4, <2>1 DEF RemoveLanguage, AsPreviewed, AsShown
<1>5. ASSUME NEW S \in SUBSET Segments, DeleteUrl(t, S) PROVE AsShown(t, s)
  BY <1>1, <1>5 DEF DeleteUrl
<1>6. ASSUME NEW S \in SUBSET Segments, NEW who, NEW text \in [S -> Texts],
             Replace(t, who, S, text)
      PROVE  AsShown(t, s)
  BY <1>1, <1>6 DEF Replace
<1>7. ASSUME NEW who, NEW x \in Segments, NEW text \in Texts, Edit(t, who, x, text)
      PROVE  AsShown(t, s)
  BY <1>1, <1>7 DEF Edit
<1>8. ASSUME NEW S \in SUBSET Segments, NEW who, NEW kind \in BulkKinds, NEW member \in Members,
             BulkWorkflow(t, who, S, kind, member)
      PROVE  AsShown(t, s)
  BY <1>1, <1>8 DEF BulkWorkflow
<1>9. QED
  BY <1>2, <1>3, <1>4, <1>5, <1>6, <1>7, <1>8 DEF ActsOnTab

(* A forced request ends in a write only where it is persisted.            *)
LEMMA ForcedPersists ==
    ASSUME IInv, Next, NEW r \in Requests, request[r].forced, request'[r].phase = "idle",
           rows' # rows
    PROVE  \E text \in [request[r].pending -> Texts] : Persist(r, text)
<1>1. request[r].phase # "idle"
  BY RequestFields DEF Scoped
<1>2. request' # request
  BY <1>1
<1>3. Translating
  BY <1>2 DEF Next, Editing, Look, Edit, Replace, Adopt, Delete, DeleteUrl,
              Importing, Save, ImportXliff, Reviewing, UpdateWorkflow, BulkWorkflow,
              Configuring, ChangeRule, DeleteRule, SetLanguage, RemoveLanguage, Switch,
              Staffing, RemoveMember, ConfineMember, FreeMember, LeaveWorkspace
<1>4. PICK q \in Requests : \E text \in [request[q].pending -> Texts] : Persist(q, text)
  BY <1>3 DEF Translating, LookUp, Confirm, LookUpForced, Dispatch, GiveUp
<1>5. request' = [request EXCEPT ![q] = IdleRequest]
  BY <1>4 DEF Persist
<1>6. q = r
  BY <1>1, <1>5 DEF IInv, TypeOK
<1>7. QED
  BY <1>4, <1>6

LEMMA ForcedStep ==
    ASSUME IInv, Next, NEW r \in Requests, request[r].forced, request'[r].phase = "idle",
           rows' # rows, NEW s \in request[r].pending
    PROVE  /\ rows[s] # NoRow
           /\ rows[s].text = request[r].asked[s].text
           /\ ~rows[s].manual
           /\ rows[s].status = "MACHINE"
           /\ rules[s] = 0
<1>1. PICK text \in [request[r].pending -> Texts] : Persist(r, text)
  BY ForcedPersists
<1>2. /\ s \in Segments
      /\ s \in In(request[r].language)
      /\ request[r].asked[s] # NoRow
      /\ request[r].rules[s] = 0
  BY RequestFields DEF Scoped, In
<1>3. /\ AsConfirmed(r, s)
      /\ ~rows[s].manual
      /\ rows[s].status = "MACHINE"
      /\ rules[s] = request[r].rules[s]
  BY <1>1, <1>2 DEF Persist, RulesAsConfirmed
<1>4. Matches(request[r].asked, s)
  BY <1>2 DEF IInv, VersionsAreStamped
<1>5. QED
  BY <1>2, <1>3, <1>4 DEF AsConfirmed, Matches

(* Users change only rows that read what their tab shows: edits,           *)
(* replacements, adoptions, deletions, bulk reviews, language removals.     *)
THEOREM TabsAreCurrent == Spec => TabsChangeWhatTheySaw
<1>1. IInv /\ [Next]_vars =>
          [\A t \in Tabs : ActsOnTab(t) =>
               \A s \in Segments : (rows'[s] # rows[s] /\ rows[s] # NoRow) =>
                   /\ view[t][s] # NoRow
                   /\ view[t][s].text = rows[s].text]_vars
  BY TabStep, ShownText
<1>2. QED
  BY <1>1, Invariance, PTL DEF Spec, TabsChangeWhatTheySaw

(* A confirmed retranslation overwrites, after the provider has answered,  *)
(* only the machine texts its manager confirmed.                            *)
THEOREM ForcedWritesAreSafe == Spec => ForcedWritesAreConfirmed
<1>1. IInv /\ [Next]_vars =>
          [\A r \in Requests :
               (request[r].forced /\ request'[r].phase = "idle" /\ rows' # rows) =>
                   \A s \in request[r].pending :
                       /\ rows[s] # NoRow
                       /\ rows[s].text = request[r].asked[s].text
                       /\ ~rows[s].manual
                       /\ rows[s].status = "MACHINE"
                       /\ rules[s] = 0]_vars
  BY ForcedStep
<1>2. QED
  BY <1>1, Invariance, PTL DEF Spec, ForcedWritesAreConfirmed

-----------------------------------------------------------------------------
(* What a writer that knows the row makes of review and assignment: a new   *)
(* text is not approved, and nobody newly holds what is assigned.           *)
Vacates(row) == row.status = "ASSIGNED" /\ row.assignee = Nobody

Meaningful(new, old) ==
    /\ (old # NoRow /\ old.status = "APPROVED" /\ new.text # old.text)
           => new.status # "APPROVED"
    /\ Vacates(new) => old # NoRow /\ Vacates(old)

Settles(s) ==
    \/ rows'[s] = rows[s]
    \/ rows'[s] = NoRow
    \/ Meaningful(rows'[s], rows[s])

LEMMA NewRowMeans ==
    ASSUME NEW text, NEW manual, NEW status \in {"MACHINE", "APPROVED"}
    PROVE  Meaningful(NewRow(text, manual, status), NoRow)
BY DEF Meaningful, Vacates, NewRow

LEMMA RewrittenFields ==
    ASSUME NEW row \in Rows, NEW text, NEW manual
    PROVE  /\ Rewritten(row, text, manual).text = text
           /\ Rewritten(row, text, manual).status = row.status
           /\ Rewritten(row, text, manual).assignee = row.assignee
BY DEF Rewritten, Rows

LEMMA ResetMeans ==
    ASSUME NEW row \in Rows, NEW text, NEW manual
    PROVE  Meaningful(Reset(Rewritten(row, text, manual), row), row)
<1>1. ASSUME row.assignee # Nobody
      PROVE  /\ Reset(Rewritten(row, text, manual), row).status = "ASSIGNED"
             /\ Reset(Rewritten(row, text, manual), row).assignee # Nobody
  BY <1>1 DEF Reset, Rewritten, Rows
<1>2. ASSUME row.assignee = Nobody
      PROVE  Reset(Rewritten(row, text, manual), row).status = "MACHINE"
  BY <1>2 DEF Reset, Rewritten, Rows
<1>3. QED
  BY <1>1, <1>2 DEF Meaningful, Vacates

LEMMA OverwrittenMeans ==
    ASSUME NEW row \in Rows, NEW text, NEW manual
    PROVE  Meaningful(Overwritten(row, text, manual), row)
<1>1. CASE row.text = text
  BY <1>1, RewrittenFields, NullAssumption DEF Overwritten, Meaningful, Vacates
<1>2. CASE row.text # text
  BY <1>2, ResetMeans, RewrittenFields DEF Overwritten
<1>3. QED
  BY <1>1, <1>2

LEMMA MachinedMeans ==
    ASSUME NEW row \in Rows \cup {NoRow}, NEW text
    PROVE  Meaningful(Machined(row, row, text), row)
<1>1. CASE row = NoRow
  BY <1>1, NewRowMeans DEF Machined
<1>2. CASE row # NoRow
  BY <1>2, ResetMeans DEF Machined
<1>3. QED
  BY <1>1, <1>2

LEMMA AdoptedMeans ==
    ASSUME NEW row \in Rows, clock \in Nat, Occupied(row), NEW text \in Texts
    PROVE  Meaningful(Adopted(row, text), row)
<1> DEFINE new == IF row.text = text THEN Rewritten(row, text, row.manual)
                  ELSE Edited(row, text)
<1>1. new \in Rows
  BY RewrittenFits, OverwrittenFits, RowFields DEF Edited, Fits
<1>2. Adopted(row, text) = [new EXCEPT !.status = "IN_REVIEW"]
  BY DEF Adopted
<1> HIDE DEF new
<1>3. Adopted(row, text).status = "IN_REVIEW"
  BY <1>1, <1>2 DEF Rows
<1>4. QED
  BY <1>3 DEF Meaningful, Vacates

LEMMA XliffRowMeans ==
    ASSUME clock \in Nat, NEW row \in Rows, NEW text \in Texts, XliffAccepted(row, text),
           NEW approve \in BOOLEAN, NEW machine \in BOOLEAN
    PROVE  Meaningful(XliffRow(row, text, approve, machine), row)
<1> DEFINE manual == ~(machine /\ ~row.manual /\ row.text = text)
           status == XliffStatus(row, text, approve)
           new == [row EXCEPT !.text = text, !.manual = manual, !.status = status]
           stamped == [new EXCEPT !.version = clock + 1]
<1>1. row # NoRow
  BY RowFields
<1>2. XliffRow(row, text, approve, machine) = IF new = row THEN row ELSE stamped
  BY <1>1 DEF XliffRow
<1>3. /\ stamped.text = text
      /\ stamped.status = status
      /\ stamped.assignee = row.assignee
  BY DEF Rows
<1>4. (row.text # text => row.status # "APPROVED")
  BY <1>1 DEF XliffAccepted
<1>5. status = "ASSIGNED" => row.assignee # Nobody \/ row.status = "ASSIGNED"
  BY DEF XliffStatus
<1> HIDE DEF manual, status, new, stamped
<1>6. Meaningful(row, row) /\ Meaningful(stamped, row)
  BY <1>1, <1>3, <1>4, <1>5 DEF Meaningful, Vacates
<1>7. QED
  BY <1>2, <1>6

LEMMA MovedMeans ==
    ASSUME NEW row \in Rows, NEW to, NEW holder, to = "ASSIGNED" => holder # Nobody
    PROVE  Meaningful(Moved(row, to, holder), row)
<1>1. /\ Moved(row, to, holder).text = row.text
      /\ Moved(row, to, holder).status = to
      /\ to # "MACHINE" => Moved(row, to, holder).assignee = holder
  BY DEF Moved, Rows
<1>2. QED
  BY <1>1 DEF Meaningful, Vacates

-----------------------------------------------------------------------------
LEMMA PutSettles ==
    ASSUME NEW new, Put(new), NEW s \in Segments,
           s \in DOMAIN new =>
               new[s] = NoRow \/ new[s] = rows[s] \/ Meaningful(new[s], rows[s])
    PROVE  Settles(s)
BY DEF Put, Settles

LEMMA EditSettles ==
    ASSUME IInv, Editing, NEW s \in Segments
    PROVE  Settles(s)
<1>1. ASSUME NEW t \in Tabs, Look(t) PROVE Settles(s)
  BY <1>1 DEF Look, Settles
<1>2. ASSUME NEW S, Put([x \in S |-> NoRow]) PROVE Settles(s)
  BY <1>2, PutSettles
<1>3. ASSUME NEW t \in Tabs, NEW x \in Segments, NEW text \in Texts, Adopt(t, x, text)
      PROVE  Settles(s)
  <2> DEFINE new == [y \in {x} |-> Adopted(rows[y], text)]
  <2>1. Put(new)
    BY <1>3 DEF Adopt
  <2>2. s \in DOMAIN new => Meaningful(new[s], rows[s])
    BY <1>3, StateTypes, AdoptedMeans DEF Adopt, AsShown
  <2> HIDE DEF new
  <2>3. QED
    BY <2>1, <2>2, PutSettles
<1>4. ASSUME NEW t \in Tabs, NEW who, NEW x \in Segments, NEW text \in Texts,
             Edit(t, who, x, text)
      PROVE  Settles(s)
  <2> DEFINE new == [y \in {x} |-> Edited(rows[y], text)]
  <2>1. Put(new)
    BY <1>4 DEF Edit
  <2>2. s \in DOMAIN new => Meaningful(new[s], rows[s])
    BY <1>4, StateTypes, OverwrittenMeans DEF Edit, AsShown, Edited
  <2> HIDE DEF new
  <2>3. QED
    BY <2>1, <2>2, PutSettles
<1>5. ASSUME NEW t \in Tabs, NEW who, NEW S \in SUBSET Segments, NEW text \in [S -> Texts],
             Replace(t, who, S, text)
      PROVE  Settles(s)
  <2> DEFINE new == [y \in S |-> Edited(rows[y], text[y])]
  <2>1. Put(new)
    BY <1>5 DEF Replace
  <2>2. ASSUME s \in S PROVE Meaningful(Edited(rows[s], text[s]), rows[s])
    <3>1. rows[s] \in Rows
      BY <1>5, <2>2, StateTypes DEF Replace, AsShown
    <3>2. QED
      BY <3>1, OverwrittenMeans DEF Edited
  <2>3. s \in DOMAIN new => Meaningful(new[s], rows[s])
    BY <2>2
  <2> HIDE DEF new
  <2>4. QED
    BY <2>1, <2>3, PutSettles
<1>6. QED
  BY <1>1, <1>2, <1>3, <1>4, <1>5 DEF Editing, Delete, DeleteUrl

LEMMA ImportSettles ==
    ASSUME IInv, Importing, NEW s \in Segments
    PROVE  Settles(s)
<1>1. ASSUME NEW S \in SUBSET Segments, NEW text \in [S -> Texts], Save(S, text)
      PROVE  Settles(s)
  <2> DEFINE new == [x \in S |-> IF rows[x] = NoRow THEN NewRow(text[x], TRUE, "MACHINE")
                                 ELSE Overwritten(rows[x], text[x], TRUE)]
  <2>1. Put(new)
    BY <1>1 DEF Save
  <2>2. ASSUME s \in S, rows[s] = NoRow
        PROVE  Meaningful(NewRow(text[s], TRUE, "MACHINE"), rows[s])
    BY <2>2, NewRowMeans
  <2>3. ASSUME s \in S, rows[s] # NoRow
        PROVE  Meaningful(Overwritten(rows[s], text[s], TRUE), rows[s])
    BY <2>3, StateTypes, OverwrittenMeans
  <2>4. s \in DOMAIN new => Meaningful(new[s], rows[s])
    BY <2>2, <2>3
  <2> HIDE DEF new
  <2>5. QED
    BY <2>1, <2>4, PutSettles
<1>2. ASSUME NEW S \in SUBSET Segments, NEW text \in [S -> Texts], NEW l \in Languages,
             NEW approved \in SUBSET S, NEW machine \in SUBSET S,
             ImportXliff(l, S, text, approved, machine)
      PROVE  Settles(s)
  <2> DEFINE new == [x \in S |-> XliffRow(rows[x], text[x], x \in approved, x \in machine)]
  <2>1. Put(new)
    BY <1>2 DEF ImportXliff
  <2>2. ASSUME s \in S
        PROVE  Meaningful(XliffRow(rows[s], text[s], s \in approved, s \in machine), rows[s])
    <3>1. /\ text[s] \in Texts
          /\ (s \in approved) \in BOOLEAN /\ (s \in machine) \in BOOLEAN
          /\ XliffAccepted(rows[s], text[s])
      BY <1>2, <2>2 DEF ImportXliff
    <3>2. CASE rows[s] = NoRow
      BY <3>2, NewRowMeans DEF XliffRow
    <3>3. CASE rows[s] # NoRow
      BY <3>1, <3>3, StateTypes, XliffRowMeans
    <3>4. QED
      BY <3>2, <3>3
  <2>3. s \in DOMAIN new => Meaningful(new[s], rows[s])
    BY <2>2
  <2> HIDE DEF new
  <2>4. QED
    BY <2>1, <2>3, PutSettles
<1>3. QED
  BY <1>1, <1>2 DEF Importing

LEMMA ReviewSettles ==
    ASSUME IInv, Reviewing, NEW s \in Segments
    PROVE  Settles(s)
<1>1. ASSUME NEW who, NEW x \in Segments, NEW to \in Statuses, NEW assigns \in BOOLEAN,
             NEW holder \in Members \cup {Nobody}, UpdateWorkflow(who, x, to, assigns, holder)
      PROVE  Settles(s)
  <2> DEFINE new == [y \in {x} |-> Moved(rows[y], to, holder)]
  <2>1. Put(new)
    BY <1>1 DEF UpdateWorkflow
  <2>2. ASSUME s = x PROVE Meaningful(Moved(rows[s], to, holder), rows[s])
    BY <1>1, <2>2, StateTypes, MovedMeans DEF UpdateWorkflow, MayMove
  <2>3. s \in DOMAIN new => Meaningful(new[s], rows[s])
    BY <2>2
  <2> HIDE DEF new
  <2>4. QED
    BY <2>1, <2>3, PutSettles
<1>2. ASSUME NEW t \in Tabs, NEW who, NEW S \in SUBSET Segments, NEW kind \in BulkKinds,
             NEW member \in Members, BulkWorkflow(t, who, S, kind, member)
      PROVE  Settles(s)
  <2> DEFINE to(x) == BulkStatus(kind, rows[x])
             holder(x) == BulkHolder(kind, rows[x], member)
             new == [x \in S |-> Moved(rows[x], to(x), holder(x))]
  <2>1. Put(new)
    BY <1>2 DEF BulkWorkflow
  <2>2. ASSUME s \in S PROVE Meaningful(Moved(rows[s], to(s), holder(s)), rows[s])
    <3>1. rows[s] \in Rows
      BY <1>2, <2>2, StateTypes DEF BulkWorkflow, AsShown
    <3>2. MayMove(who, s, to(s), kind \in {"assign", "unassign"}, holder(s))
      BY <1>2, <2>2 DEF BulkWorkflow
    <3> HIDE DEF to, holder
    <3>3. to(s) = "ASSIGNED" => holder(s) # Nobody
      BY <3>2 DEF MayMove
    <3>4. QED
      BY <3>1, <3>3, MovedMeans
  <2>3. s \in DOMAIN new => Meaningful(new[s], rows[s])
    BY <2>2
  <2> HIDE DEF new
  <2>4. QED
    BY <2>1, <2>3, PutSettles
<1>3. QED
  BY <1>1, <1>2 DEF Reviewing

LEMMA StaffSettles ==
    ASSUME IInv, Staffing, NEW s \in Segments
    PROVE  Settles(s) \/ departures' # departures
<1>1. ASSUME NEW S \in SUBSET Segments, \A x \in S : rows[x] # NoRow, Put(Released(S))
      PROVE  Settles(s)
  <2>1. ASSUME s \in S PROVE Meaningful(Moved(rows[s], "MACHINE", Nobody), rows[s])
    BY <1>1, <2>1, StateTypes, MovedMeans
  <2>2. s \in DOMAIN Released(S) => Meaningful(Released(S)[s], rows[s])
    BY <2>1 DEF Released
  <2>3. QED
    BY <1>1, <2>2, PutSettles
<1>2. ASSUME NEW m \in Members, RemoveMember(m) PROVE Settles(s)
  BY <1>1, <1>2 DEF RemoveMember, Held
<1>3. ASSUME NEW m \in Members, NEW l \in Languages, ConfineMember(m, l) PROVE Settles(s)
  <2>1. Held(m) \ In(l) \in SUBSET Segments /\ \A x \in Held(m) \ In(l) : rows[x] # NoRow
    BY DEF Held
  <2>2. QED
    BY <1>1, <1>3, <2>1 DEF ConfineMember
<1>4. ASSUME NEW m \in Members, FreeMember(m) PROVE Settles(s)
  BY <1>4 DEF FreeMember, Settles
<1>5. ASSUME NEW m \in Members, LeaveWorkspace(m) PROVE departures' # departures
  BY <1>5 DEF LeaveWorkspace, IInv, TypeOK
<1>6. QED
  BY <1>2, <1>3, <1>4, <1>5 DEF Staffing

LEMMA TranslationSettles ==
    ASSUME IInv, Translating, NEW s \in Segments
    PROVE  Settles(s) \/ Overtaken(s)
<1>1. ASSUME UNCHANGED rows PROVE Settles(s)
  BY <1>1 DEF Settles
<1>2. ASSUME NEW r \in Requests, NEW text \in [request[r].pending -> Texts], Persist(r, text)
      PROVE  Settles(s) \/ Overtaken(s)
  <2> DEFINE new == [x \in request[r].pending |->
                        Machined(rows[x], request[r].seen[x], text[x])]
  <2>1. Put(new)
    BY <1>2 DEF Persist
  <2>2. CASE s \in request[r].pending /\ request[r].seen[s] # rows[s]
    BY <1>2, <2>2 DEF Persist, Overtaken, IdleRequest, IInv, TypeOK
  <2>3. CASE s \in request[r].pending /\ request[r].seen[s] = rows[s]
    <3>1. Meaningful(Machined(rows[s], rows[s], text[s]), rows[s])
      BY StateTypes, MachinedMeans
    <3>2. s \in DOMAIN new => Meaningful(new[s], rows[s])
      BY <2>3, <3>1
    <3> HIDE DEF new
    <3>3. QED
      BY <2>1, <3>2, PutSettles
  <2>4. CASE s \notin request[r].pending
    <3>1. s \notin DOMAIN new
      BY <2>4
    <3> HIDE DEF new
    <3>2. QED
      BY <2>1, <3>1, PutSettles
  <2>5. QED
    BY <2>2, <2>3, <2>4
<1>3. QED
  BY <1>1, <1>2 DEF Translating, LookUp, Confirm, LookUpForced, Dispatch, GiveUp

LEMMA EveryStepSettles ==
    ASSUME IInv, Next, NEW s \in Segments
    PROVE  Settles(s) \/ departures' # departures \/ Overtaken(s)
<1>1. CASE Configuring
  <2>1. ASSUME UNCHANGED rows PROVE Settles(s)
    BY <2>1 DEF Settles
  <2>2. ASSUME NEW t \in Tabs, NEW l \in Languages, RemoveLanguage(t, l) PROVE Settles(s)
    <3>1. Put([x \in In(l) |-> NoRow])
      BY <2>2 DEF RemoveLanguage
    <3>2. QED
      BY <3>1, PutSettles
  <2>3. QED
    BY <1>1, <2>1, <2>2 DEF Configuring, ChangeRule, DeleteRule, SetLanguage, Switch
<1>2. QED
  BY <1>1, EditSettles, ImportSettles, ReviewSettles, StaffSettles, TranslationSettles DEF Next

(* A departure clears assignees and leaves texts as they are.              *)
LEMMA DeparturesKeepTexts ==
    ASSUME IInv, Next, departures' # departures, NEW s \in Segments, rows[s] # NoRow
    PROVE  rows'[s] # NoRow => rows'[s].text = rows[s].text
<1>1. departures \in Nat
  BY DEF IInv, TypeOK
<1>2. PICK m \in Members : LeaveWorkspace(m)
  BY DEF Next, Translating, LookUp, Confirm, LookUpForced, Dispatch, Persist, GiveUp,
         Editing, Look, Edit, Replace, Adopt, Delete, DeleteUrl,
         Importing, Save, ImportXliff, Reviewing, UpdateWorkflow, BulkWorkflow,
         Configuring, ChangeRule, DeleteRule, SetLanguage, RemoveLanguage, Switch,
         Staffing, RemoveMember, ConfineMember, FreeMember
<1>3. rows[s] \in Rows
  BY StateTypes
<1>4. rows'[s] = rows[s] \/ Orphaned(s)
  BY <1>2, LeaveStep
<1>5. QED
  BY <1>3, <1>4, OrphanFields DEF Orphaned

(* A changed text is not approved any more, whichever writer of the project *)
(* changes it, except a machine translation the row has overtaken.          *)
THEOREM ApprovalsFollowTexts == Spec => ApprovalsLapse
<1>1. ASSUME IInv, [Next]_vars
      PROVE  [\A s \in Segments :
                  (/\ rows[s] # NoRow
                   /\ rows'[s] # NoRow
                   /\ rows[s].status = "APPROVED"
                   /\ rows'[s].text # rows[s].text)
                      => rows'[s].status # "APPROVED" \/ Overtaken(s)]_vars
  <2>1. SUFFICES ASSUME Next, NEW s \in Segments, rows[s] # NoRow, rows'[s] # NoRow,
                        rows[s].status = "APPROVED", rows'[s].text # rows[s].text
                 PROVE  rows'[s].status # "APPROVED" \/ Overtaken(s)
    BY <1>1
  <2>2. Settles(s) \/ Overtaken(s)
    BY <1>1, <2>1, EveryStepSettles, DeparturesKeepTexts
  <2>3. QED
    BY <2>1, <2>2 DEF Settles, Meaningful
<1>2. QED
  BY <1>1, Invariance, PTL DEF Spec, ApprovalsLapse

(* Rows are assigned to somebody, except after a departure or a machine    *)
(* translation the row has overtaken.                                       *)
THEOREM AssignmentsAreHeld == Spec => AssignmentsStayHeld
<1>1. ASSUME IInv, [Next]_vars
      PROVE  [\A s \in Segments :
                  Vacant(s)' /\ ~Vacant(s) => departures' # departures \/ Overtaken(s)]_vars
  <2>1. SUFFICES ASSUME Next, NEW s \in Segments, Vacant(s)', ~Vacant(s)
                 PROVE  departures' # departures \/ Overtaken(s)
    BY <1>1
  <2>2. Settles(s) \/ departures' # departures \/ Overtaken(s)
    BY <1>1, <2>1, EveryStepSettles
  <2>3. QED
    BY <2>1, <2>2 DEF Settles, Meaningful, Vacant, Vacates
<1>2. QED
  BY <1>1, Invariance, PTL DEF Spec, AssignmentsStayHeld

=============================================================================
