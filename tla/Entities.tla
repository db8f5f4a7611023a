------------------------------ MODULE Entities ------------------------------
(***************************************************************************)
(* The service behind the HTTP and MCP servers (api_service.py) and the    *)
(* store's mutators.  A request loads the model, checks its arguments      *)
(* against it and plans the deltas it will publish; the deltas then follow *)
(* one by one, and whatever others publish in between comes first.  A      *)
(* request that fails a check changes nothing and is no step.  A caller    *)
(* may stop before any of its deltas: an upload failed, the server gave up *)
(* on the request, or the process ended.  The OmniFocus app edits the same *)
(* bundle.                                                                 *)
(*                                                                         *)
(* Readers apply deltas parents first, and else by their names, which      *)
(* begin with a date to the second (graph.py).  Two deltas commute unless  *)
(* they are about the same object, so that the order matters per object.   *)
(* All deltas are dated when they are written, except that those of a new  *)
(* task are dated one second after the other, ahead of the clock, and go   *)
(* out when they may.  So objects are read in the order of publication,    *)
(* but a new task need not be: a delta that does not descend from those    *)
(* of the addition may come before some of them, and the other way round.  *)
(* Left out: names given in the same second, or by clocks that disagree.   *)
(*                                                                         *)
(* The arguments of a request are a function from the names of those that  *)
(* were passed to their values; a date is cleared by passing Never.        *)
(***************************************************************************)
EXTENDS Plans, Views

CONSTANTS
    Callers,
    Baseline,        \* what the bundle held at first, an index of elements
    NewIds,          \* what generate_id returns, one for each request
    MaxRequests,     \* bound: requests accepted
    MaxEdits,        \* bound: edits by the app
    AppElements,     \* what the app may publish
    NewTasks, NewProjects, NewFolders, NewTags,                \* arguments of additions
    TaskChanges, ProjectChanges, FolderChanges, TagChanges     \* and of updates

-----------------------------------------------------------------------------
(* What others may write: OmniFocus and its app keep their own objects in  *)
(* order, one change at a time.                                            *)

Kinds == {"task", "folder", "context"}

IsSequence(s) == s \in Seq(Range(s))

Single(body, tags) == \A tag \in tags \intersect DOMAIN body : body[tag] = <<body[tag][1]>>

Container(body) == Value(body, "project", Empty)

\* A task in the inbox is below nothing, and a done project has a date.
SoundTask(body) ==
    /\ Single(body, {"name", "inbox", "task", "project", "completed"})
    /\ Single(Container(body), {"status"})
    /\ "context" \in DOMAIN body => IsSequence(body["context"]) /\ body["context"] # Empty
    /\ Value(body, "inbox", FALSE) => Value(body, "task", Nobody) = Nobody
    /\ Value(Container(body), "status", Nobody) = "done" => Value(body, "completed", Never) # Never

\* An update says where the task is as a whole, and reopens what it undates.
SoundTaskUpdate(body) ==
    /\ "inbox" \in DOMAIN body <=> "task" \in DOMAIN body
    /\ ("completed" \in DOMAIN body /\ body["completed"][1] = Never) =>
           /\ "project" \in DOMAIN body
           /\ "status" \in DOMAIN Container(body) \/ DOMAIN Container(body) = {}

\* A folder or a tag names its parent under the tag that it has itself.
SoundGroup(kind, body) == Single(body, {"name", kind})

Updates(e) == e.op \in {"update", "reference"}

SoundElement(e) ==
    /\ e = Element(e.kind, e.id, e.op, e.body)
    /\ e.kind \in Kinds /\ e.id # Nobody
    /\ e.kind = "task" =>
           /\ SoundTask(Content(e))
           /\ Updates(e) => SoundTaskUpdate(Content(e))
    /\ e.kind # "task" => SoundGroup(e.kind, Content(e))

SoundIndex(x) ==
    /\ x = [kind \in Kinds |-> x[kind]]
    /\ \A kind \in Kinds : IsFiniteSet(DOMAIN x[kind]) /\ Nobody \notin DOMAIN x[kind]
    /\ \A id \in DOMAIN x.task : SoundTask(x.task[id])
    /\ \A kind \in Kinds \ {"task"} : \A id \in DOMAIN x[kind] : SoundGroup(kind, x[kind][id])

ASSUME CallersAssumption == Nobody \notin Callers

ASSUME BaselineAssumption == SoundIndex(Baseline)

\* What is passed as tags is a list, and a flag is a truth value.
ASSUME ArgsAssumption ==
    /\ \A args \in TaskChanges \union ProjectChanges : "tags" \in DOMAIN args => IsSequence(args.tags)
    /\ \A args \in NewTasks : "flagged" \in DOMAIN args => args.flagged \in BOOLEAN

ASSUME AppAssumption == \A e \in AppElements : SoundElement(e)

\* What generate_id returns is new.
ASSUME IdAssumption ==
    /\ MaxRequests \in Nat /\ MaxEdits \in Nat
    /\ DOMAIN NewIds = 1..MaxRequests
    /\ \A i \in 1..MaxRequests :
           /\ NewIds[i] # Nobody
           /\ \A kind \in Kinds : NewIds[i] \notin DOMAIN Baseline[kind]
           /\ \A j \in 1..MaxRequests : NewIds[i] = NewIds[j] => i = j

-----------------------------------------------------------------------------
VARIABLES
    index,     \* the elements of all deltas, merged
    model,     \* what a reader makes of the index
    call,      \* what each caller has yet to publish
    now,       \* the clock, which counts requests
    edits,     \* edits by the app
    log,       \* per task that was added, its deltas as readers apply them
    forked,    \* two writes overlapped: the deltas may not be one chain
    tainted    \* kinds of objects that were written from a stale model

vars == <<index, model, call, now, edits, log, forked, tainted>>

\* fresh: nobody else published an element of this kind since the load;
\* goal: the object as it was asked for, or Empty if it is to go;
\* chain: the plan has several deltas, which only that of a new task has.
Idle == [plan |-> Empty, of |-> "task", id |-> Nobody, goal |-> Empty, chain |-> FALSE, fresh |-> TRUE]

Arg(args, key, default) == IF key \in DOMAIN args THEN args[key] ELSE default

Ready(c) == call[c] = Idle /\ now <= MaxRequests

Accept(c, of, id, goal, plan) ==
    /\ call' = [call EXCEPT ![c] = [plan |-> plan, of |-> of, id |-> id, goal |-> goal,
                                    chain |-> Len(plan) > 1, fresh |-> TRUE]]
    /\ now' = now + 1
    /\ UNCHANGED <<index, model, edits, log, forked, tainted>>

Together(args, keys) == keys \subseteq DOMAIN args

-----------------------------------------------------------------------------
(* Tasks. *)

ProjectOf(m, parent) ==
    IF parent \in DOMAIN m.project THEN parent
    ELSE IF parent \in DOMAIN m.task THEN m.task[parent].project ELSE Nobody

OpenProject(m, id) == id \in DOMAIN m.project /\ m.project[id].status \notin {"done", "dropped"}

\* The store's add_task: the skeleton and the updates that fill it in.
CreateTask(c, args, parent, inbox) ==
    LET id == NewIds[now]
        name == Arg(args, "name", Nobody)
        note == Arg(args, "note", Nobody)
        flagged == Arg(args, "flagged", FALSE)
        due == Arg(args, "due", Never)
    IN  Accept(c, "task", id,
            [id |-> id, name |-> name, parent |-> parent, project |-> ProjectOf(model, parent),
             inbox |-> inbox, completed |-> Never, hidden |-> Never, flagged |-> flagged,
             note |-> note, due |-> due, tags |-> Empty,
             order |-> IF inbox THEN "sequential" ELSE "parallel"],
            AddTaskPlan(id, name, parent, inbox, note, flagged, due))

\* Below a task or project given as parent_task_id the project's status is
\* not looked at.
AddTask(c, args) ==
    /\ Ready(c)
    /\ Arg(args, "name", Nobody) # Nobody
    /\ ~Together(args, {"project", "parent"})
    /\ "project" \in DOMAIN args => OpenProject(model, args.project)
    /\ "parent" \in DOMAIN args => args.parent \in DOMAIN model.task \union DOMAIN model.project
    /\ CreateTask(c, args, Arg(args, "project", Arg(args, "parent", Nobody)),
           DOMAIN args \intersect {"project", "parent"} = {})

KnownTags(m, args) == \A i \in DOMAIN Arg(args, "tags", Empty) : args.tags[i] \in DOMAIN m.tag

\* A move is into a project, or out of all of them and to the inbox.
MovedInto(args) == Arg(args, "project", Nobody) # Nobody
MovedOut(args) == "clear_project" \in DOMAIN args \/ Arg(args, "inbox", FALSE)

\* Mutant: a task moved to a project stays in the inbox.
NewInboxKept(t, args) == t.inbox \/ MovedOut(args)

NewInbox(t, args) == ~MovedInto(args) /\ (t.inbox \/ MovedOut(args))

BuildUpdatedTask(t, args) ==
    LET Place(old) == IF MovedInto(args) THEN args.project ELSE IF MovedOut(args) THEN Nobody ELSE old
    IN  [t EXCEPT
            !.name = Arg(args, "name", @), !.note = Arg(args, "note", @),
            !.flagged = Arg(args, "flagged", @), !.due = Arg(args, "due", @),
            !.parent = Place(@), !.project = Place(@), !.inbox = NewInbox(t, args),
            !.tags = IF "clear_tags" \in DOMAIN args THEN Empty ELSE Arg(args, "tags", @),
            !.hidden = IF "dropped" \in DOMAIN args THEN IF args.dropped THEN now ELSE Never ELSE @]

\* The checks of _build_updated_task.
TaskChangeOK(m, args) ==
    /\ MovedInto(args) =>
           /\ "clear_project" \notin DOMAIN args /\ ~Arg(args, "inbox", FALSE)
           /\ OpenProject(m, args.project)
    /\ "clear_project" \in DOMAIN args => Arg(args, "inbox", TRUE)
    /\ ~Together(args, {"tags", "clear_tags"})
    /\ KnownTags(m, args)

UpdateTask(c, id, args) ==
    /\ Ready(c)
    /\ id \in DOMAIN model.task
    /\ TaskChangeOK(model, args)
    /\ LET updated == BuildUpdatedTask(model.task[id], args)
       IN  Accept(c, "task", id, updated,
               IF Arg(args, "dropped", FALSE) THEN DropTaskPlan(updated, now)
               ELSE UpdateTaskPlan(updated))

CompleteTask(c, id) ==
    /\ Ready(c)
    /\ id \in DOMAIN model.task
    /\ LET task == model.task[id]
       IN  Accept(c, "task", id, [task EXCEPT !.completed = now], CompleteTaskPlan(task, now))

-----------------------------------------------------------------------------
(* Projects. *)

CreateProject(c, args) ==
    LET project == [id |-> NewIds[now], name |-> Arg(args, "name", Nobody),
                    folder |-> Arg(args, "folder", Nobody),
                    status |-> Arg(args, "status", "active"), reviewed |-> Never,
                    completed |-> Never, flagged |-> Arg(args, "flagged", FALSE),
                    note |-> Arg(args, "note", Nobody), due |-> Arg(args, "due", Never),
                    tags |-> Empty]
    IN  Accept(c, "project", project.id, project, AddProjectPlan(project))

AddProject(c, args) ==
    /\ Ready(c)
    /\ Arg(args, "name", Nobody) # Nobody
    /\ Arg(args, "status", "active") \in {"active", "inactive"}
    /\ "folder" \in DOMAIN args => args.folder \in DOMAIN model.folder
    /\ CreateProject(c, args)

\* The checks of _build_updated_project, and the project it returns.
ProjectChangeOK(m, args) ==
    /\ Arg(args, "folder", Nobody) # Nobody => "clear_folder" \notin DOMAIN args
    /\ ~Together(args, {"tags", "clear_tags"})
    /\ Arg(args, "status", "active") \in {"active", "inactive", "done", "dropped"}
    /\ "folder" \in DOMAIN args => args.folder \in DOMAIN m.folder
    /\ KnownTags(m, args)

BuildUpdatedProject(p, args) ==
    [p EXCEPT
        !.name = Arg(args, "name", @), !.note = Arg(args, "note", @),
        !.flagged = Arg(args, "flagged", @), !.due = Arg(args, "due", @),
        !.status = Arg(args, "status", @),
        !.folder = IF "clear_folder" \in DOMAIN args THEN Nobody ELSE Arg(args, "folder", @),
        !.completed = IF Arg(args, "status", Nobody) = "done" /\ @ = Never THEN now ELSE @,
        !.tags = IF "clear_tags" \in DOMAIN args THEN Empty ELSE Arg(args, "tags", @)]

\* What is asked of the store depends on a status: that of the updated
\* project for the service, the one that was passed for the command line.
SaveProject(c, updated, status) ==
    CASE status = "done" ->
            Accept(c, "project", updated.id, [updated EXCEPT !.completed = now],
                CompleteProjectPlan(updated, now))
      [] status = "dropped" ->
            Accept(c, "project", updated.id, updated, DropProjectPlan(updated))
      [] OTHER ->
            Accept(c, "project", updated.id, updated, UpdateProjectPlan(updated))

UpdateProject(c, id, args) ==
    /\ Ready(c)
    /\ id \in DOMAIN model.project
    /\ ProjectChangeOK(model, args)
    /\ LET updated == BuildUpdatedProject(model.project[id], args)
       IN  SaveProject(c, updated, updated.status)

CompleteProject(c, id) ==
    /\ Ready(c)
    /\ id \in DOMAIN model.project
    /\ LET project == model.project[id]
       IN  Accept(c, "project", id, [project EXCEPT !.status = "done", !.completed = now],
               CompleteProjectPlan(project, now))

\* When the project is next to be reviewed is the matter of Review.
MarkProjectReviewed(c, id) ==
    /\ Ready(c)
    /\ id \in DOMAIN model.project
    /\ LET reviewed == [model.project[id] EXCEPT !.reviewed = now]
       IN  Accept(c, "project", id, reviewed, UpdateProjectPlan(reviewed))

-----------------------------------------------------------------------------
(* Folders and tags. *)

\* Mutant: only the object itself is refused as its new parent.
LeadsOutParentOnly(objects, id, parent) == parent # id

\* The walk up from the new parent must neither come by the object nor by
\* anything twice; then it ends, at the latest behind an unknown parent.
LeadsOut(objects, id, parent) ==
    LET last == Cardinality(DOMAIN objects) + 1
        walk == Walk([i \in DOMAIN objects |-> objects[i].parent], parent, last)
    IN  walk[last] \notin DOMAIN objects /\ \A n \in 0..last : walk[n] # id

SoundParent(objects, id, args) ==
    /\ ~(Arg(args, "parent", Nobody) # Nobody /\ "clear_parent" \in DOMAIN args)
    /\ "parent" \in DOMAIN args =>
           args.parent \in DOMAIN objects /\ LeadsOut(objects, id, args.parent)

ValidateFolderParentChange(m, id, args) == SoundParent(m.folder, id, args)
ValidateTagParentChange(m, id, args) == SoundParent(m.tag, id, args)

Placed(object, args) ==
    [object EXCEPT
        !.name = Arg(args, "name", @),
        !.parent = Arg(args, "parent", IF "clear_parent" \in DOMAIN args THEN Nobody ELSE @)]

CreateFolder(c, args) ==
    LET folder == [id |-> NewIds[now], name |-> Arg(args, "name", Nobody),
                   parent |-> Arg(args, "parent", Nobody)]
    IN  Accept(c, "folder", folder.id, folder, AddFolderPlan(folder))

AddFolder(c, args) ==
    /\ Ready(c)
    /\ Arg(args, "name", Nobody) # Nobody
    /\ "parent" \in DOMAIN args => args.parent \in DOMAIN model.folder
    /\ CreateFolder(c, args)

UpdateFolder(c, id, args) ==
    /\ Ready(c)
    /\ id \in DOMAIN model.folder
    /\ ValidateFolderParentChange(model, id, args)
    /\ LET updated == Placed(model.folder[id], args)
       IN  Accept(c, "folder", id, updated, UpdateFolderPlan(updated))

DropFolder(c, id) ==
    /\ Ready(c)
    /\ id \in DOMAIN model.folder
    /\ Accept(c, "folder", id, Empty, DropFolderPlan(model.folder[id]))

CreateTag(c, args) ==
    LET tag == [id |-> NewIds[now], name |-> Arg(args, "name", Nobody),
                parent |-> Arg(args, "parent", Nobody), note |-> Arg(args, "note", Nobody),
                hidden |-> Never]
    IN  Accept(c, "tag", tag.id, tag, AddTagPlan(tag))

AddTag(c, args) ==
    /\ Ready(c)
    /\ Arg(args, "name", Nobody) # Nobody
    /\ "parent" \in DOMAIN args => args.parent \in DOMAIN model.tag
    /\ CreateTag(c, args)

UpdateTag(c, id, args) ==
    /\ Ready(c)
    /\ id \in DOMAIN model.tag
    /\ ValidateTagParentChange(model, id, args)
    /\ LET updated == [Placed(model.tag[id], args) EXCEPT !.note = Arg(args, "note", @)]
       IN  Accept(c, "tag", id, updated, UpdateTagPlan(updated))

DropTag(c, id) ==
    /\ Ready(c)
    /\ id \in DOMAIN model.tag
    /\ LET tag == model.tag[id]
       IN  Accept(c, "tag", id, [tag EXCEPT !.hidden = now], DropTagPlan(tag, now))

-----------------------------------------------------------------------------
(* Publishing. *)

\* A call that is under way may have looked for its parent delta already.
Forks(caller) == forked \/ \E d \in Callers \ {caller} : call[d].plan # Empty

\* A delta of a new task's log: is it one of the addition, and does every
\* later delta descend from it, as of a chain without forks?
Entry(e, caller) ==
    [element |-> e, added |-> caller \in Callers /\ call[caller].chain, trunk |-> ~Forks(caller)]

\* The skeleton, as which a new task begins.
Begins(e, caller) == Entry(e, caller).added /\ e.op = "none"

LogWith(id, entries) ==
    [i \in DOMAIN log \union {id} |-> IF i = id THEN entries ELSE log[i]]

Logged(e, caller) ==
    IF Begins(e, caller) THEN LogWith(e.id, <<Entry(e, caller)>>)
    ELSE IF e.kind = "task" /\ e.id \in DOMAIN log
    THEN LogWith(e.id, Append(log[e.id], Entry(e, caller)))
    ELSE log

\* The deltas of the addition keep their order, and so do all others: what
\* comes before one that was published earlier is of the other sort.
EarlierPlaces(entries, entry) ==
    {i \in 2..Len(entries) : \A j \in i..Len(entries) :
         ~entries[j].trunk /\ entries[j].added # entry.added}

\* What readers make of a task that is theirs to read from its skeleton on.
Reread(x, id, entries) ==
    LET at[n \in 0..Len(entries)] ==
            IF n = 0 THEN Dropped(x, "task", id) ELSE IndexElement(at[n - 1], entries[n].element)
    IN  at[Len(entries)]

AppliedLast(e, caller) ==
    /\ log' = Logged(e, caller)
    /\ index' = IndexElement(index, e)

AppliedEarlier(e, caller) ==
    /\ Forks(caller)
    /\ ~Begins(e, caller)
    /\ e.kind = "task" /\ e.id \in DOMAIN log
    /\ \E i \in EarlierPlaces(log[e.id], Entry(e, caller)) :
           log' = LogWith(e.id, InsertAt(log[e.id], i, Entry(e, caller)))
    /\ index' = Reread(index, e.id, log'[e.id])

\* What is left of the calls when somebody publishes e: all others who
\* loaded before hold a stale model of its kind.
Remaining(e, caller) ==
    LET Stale(d) == call[d].plan # Empty /\ Head(call[d].plan).kind = e.kind
    IN  [d \in Callers |->
            IF d = caller
            THEN IF Len(call[d].plan) = 1 THEN Idle ELSE [call[d] EXCEPT !.plan = Tail(@)]
            ELSE IF Stale(d) THEN [call[d] EXCEPT !.fresh = FALSE] ELSE call[d]]

\* Mutant: the cached model outlives the upload.
UploadedCached(e, caller) ==
    /\ AppliedLast(e, caller) \/ AppliedEarlier(e, caller)
    /\ forked' = Forks(caller)
    /\ model' = model
    /\ call' = Remaining(e, caller)

Uploaded(e, caller) ==
    /\ AppliedLast(e, caller) \/ AppliedEarlier(e, caller)
    /\ forked' = Forks(caller)
    /\ model' = BuildModel(index')
    /\ call' = Remaining(e, caller)

Publish(c) ==
    /\ call[c].plan # Empty
    /\ Uploaded(Head(call[c].plan), c)
    /\ tainted' = IF call[c].fresh THEN tainted ELSE tainted \union {call[c].of}
    /\ UNCHANGED <<now, edits>>

Abandon(c) ==
    /\ call[c].plan # Empty
    /\ call' = [call EXCEPT ![c] = Idle]
    /\ UNCHANGED <<index, model, now, edits, log, forked, tainted>>

\* The app edits what it knows.
AppEdit(e) ==
    /\ edits < MaxEdits
    /\ e.id \in DOMAIN index[e.kind]
    /\ Uploaded(e, Nobody)
    /\ edits' = edits + 1
    /\ UNCHANGED <<now, tainted>>

-----------------------------------------------------------------------------
Init ==
    /\ index = Baseline
    /\ model = BuildModel(index)
    /\ call = [c \in Callers |-> Idle]
    /\ now = 1 /\ edits = 0
    /\ log = Empty /\ forked = FALSE /\ tainted = {}

\* The requests as the MCP tools pass them on; the HTTP routes pass the same
\* arguments.  (The tool that completes a task finds it like the command
\* line: DoneCmd of Commands.)
TaskRequest(c) ==
    \/ \E args \in NewTasks : AddTask(c, args)
    \/ \E id \in DOMAIN model.task, args \in TaskChanges : UpdateTask(c, id, args)
    \/ \E id \in DOMAIN model.task : CompleteTask(c, id)

ProjectRequest(c) ==
    \/ \E args \in NewProjects : AddProject(c, args)
    \/ \E id \in DOMAIN model.project, args \in ProjectChanges : UpdateProject(c, id, args)
    \/ \E id \in DOMAIN model.project : CompleteProject(c, id) \/ MarkProjectReviewed(c, id)

FolderRequest(c) ==
    \/ \E args \in NewFolders : AddFolder(c, args)
    \/ \E id \in DOMAIN model.folder, args \in FolderChanges : UpdateFolder(c, id, args)
    \/ \E id \in DOMAIN model.folder : DropFolder(c, id)

TagRequest(c) ==
    \/ \E args \in NewTags : AddTag(c, args)
    \/ \E id \in DOMAIN model.tag, args \in TagChanges : UpdateTag(c, id, args)
    \/ \E id \in DOMAIN model.tag : DropTag(c, id)

Request(c) == TaskRequest(c) \/ ProjectRequest(c) \/ FolderRequest(c) \/ TagRequest(c)

Delivery ==
    \/ \E c \in Callers : Publish(c) \/ Abandon(c)
    \/ \E e \in AppElements : AppEdit(e)
=============================================================================
