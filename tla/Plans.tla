------------------------------- MODULE Plans --------------------------------
(***************************************************************************)
(* The deltas the writer publishes for each operation (writer.py): a plan  *)
(* is a sequence of elements, one per delta.  Creating a task takes        *)
(* several: a skeleton without a name first, then one update per field.    *)
(* Everything else takes one: the whole object, or a deletion.             *)
(*                                                                         *)
(* The builders take the children of an element as a function from tags to *)
(* values.  A child whose value is absent, an argument the code leaves     *)
(* None, is not rendered.                                                  *)
(***************************************************************************)
EXTENDS Elements

Absent ==
    [task |-> Nobody, folder |-> Nobody, context |-> Nobody,
     hidden |-> Never, due |-> Never, completed |-> Never, reviewed |-> Never]

Given(fields) ==
    Once([tag \in {t \in DOMAIN fields : t \in DOMAIN Absent => fields[t] # Absent[t]} |-> fields[tag]])

ProjectContainer(p) == Given([folder |-> p.folder, reviewed |-> p.reviewed, status |-> p.status])

FolderElement(id, fields) == Element("folder", id, "none", Given(fields))

TagElement(id, fields) == Element("context", id, "none", Given(fields))

\* A whole task with its tags.
TaskElement(id, fields, tags) ==
    LET body == Given(fields)
    IN  Element("task", id, "none",
            IF tags = Empty THEN body
            ELSE [tag \in DOMAIN body \union {"context"} |-> IF tag = "context" THEN tags ELSE body[tag]])

-----------------------------------------------------------------------------
(* The transaction builder: whole objects, skeletons, updates, deletions. *)

\* Mutant: the drop date is left out of the snapshot.
BuilderAddTaskNoHidden(t) ==
    TaskElement(t.id,
        [project |-> Empty, inbox |-> t.inbox, task |-> t.parent, name |-> t.name, note |-> t.note,
         due |-> t.due, completed |-> t.completed, order |-> t.order, flagged |-> t.flagged],
        t.tags)

BuilderAddTask(t) ==
    TaskElement(t.id,
        [project |-> Empty, inbox |-> t.inbox, task |-> t.parent, name |-> t.name, note |-> t.note,
         hidden |-> t.hidden, due |-> t.due, completed |-> t.completed, order |-> t.order,
         flagged |-> t.flagged],
        t.tags)

Order(inbox) == IF inbox THEN "sequential" ELSE "parallel"

\* Mutant: the skeleton carries a name of its own.
AddTaskSnapshotNamed(id, parent, inbox) ==
    Element("task", id, "none",
        Once([project |-> Empty, inbox |-> inbox, task |-> parent, name |-> "new", note |-> Nobody,
              hidden |-> Never, context |-> Nobody, due |-> Never, completed |-> Never,
              order |-> Order(inbox), flagged |-> FALSE]))

\* An app-style skeleton spells out the children it leaves empty.
AddTaskSnapshot(id, parent, inbox) ==
    Element("task", id, "none",
        Once([project |-> Empty, inbox |-> inbox, task |-> parent, name |-> Nobody, note |-> Nobody,
              hidden |-> Never, context |-> Nobody, due |-> Never, completed |-> Never,
              order |-> Order(inbox), flagged |-> FALSE]))

UpdateTaskFields(id, fields) == Element("task", id, "update", Once(fields))

BuilderAddProject(p) ==
    TaskElement(p.id,
        [project |-> ProjectContainer(p), inbox |-> FALSE, name |-> p.name, note |-> p.note,
         due |-> p.due, completed |-> p.completed, order |-> "parallel", flagged |-> p.flagged],
        p.tags)

BuilderAddFolder(f) == FolderElement(f.id, [name |-> f.name, folder |-> f.parent])

BuilderAddTag(g) ==
    TagElement(g.id, [name |-> g.name, note |-> g.note, context |-> g.parent, hidden |-> g.hidden])

BuilderUpdateFolder(f) == BuilderAddFolder(f)
BuilderUpdateTag(g) == BuilderAddTag(g)

AddFolderDeletion(id) == Element("folder", id, "delete", Empty)

-----------------------------------------------------------------------------
(* The plans of the task writer. *)

\* The updates of a new task: its name always, a field only if it is asked.
AddTaskPlan(id, name, parent, inbox, note, flagged, due) ==
    LET Field(fields, absent) ==
            IF absent THEN Empty ELSE <<UpdateTaskFields(id, fields)>>
    IN  <<AddTaskSnapshot(id, parent, inbox), UpdateTaskFields(id, [name |-> name])>>
          \o Field([note |-> note], note = Nobody) \o Field([flagged |-> flagged], ~flagged)
          \o Field([due |-> due], due = Never)

UpdateTaskPlan(t) == <<BuilderAddTask(t)>>
CompleteTaskPlan(t, now) == UpdateTaskPlan([t EXCEPT !.completed = now])
DropTaskPlan(t, now) == UpdateTaskPlan([t EXCEPT !.hidden = now])

\* A new project or tag is written like an updated one: a whole object.
AddProjectPlan(p) == <<BuilderAddProject(p)>>
UpdateProjectPlan(p) == <<BuilderAddProject(p)>>

\* Mutant: the date of completion is left to the caller.
CompleteProjectPlanUndated(p, now) == UpdateProjectPlan([p EXCEPT !.status = "done"])

CompleteProjectPlan(p, now) == UpdateProjectPlan([p EXCEPT !.status = "done", !.completed = now])
DropProjectPlan(p) == UpdateProjectPlan([p EXCEPT !.status = "dropped"])

AddFolderPlan(f) == <<BuilderAddFolder(f)>>
UpdateFolderPlan(f) == <<BuilderUpdateFolder(f)>>
DropFolderPlan(f) == <<AddFolderDeletion(f.id)>>

AddTagPlan(g) == <<BuilderAddTag(g)>>
UpdateTagPlan(g) == <<BuilderUpdateTag(g)>>
DropTagPlan(g, now) == UpdateTagPlan([g EXCEPT !.hidden = now])
=============================================================================
