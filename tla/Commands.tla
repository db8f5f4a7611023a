------------------------------ MODULE Commands ------------------------------
(***************************************************************************)
(* The command line (cli.py) beside the service: each command loads the    *)
(* model itself, makes its own checks, which are not quite those of the    *)
(* service, and hands the object to the same store.  A command names its   *)
(* object by a query; here the query is the id or matches one name only.   *)
(* Many commands ask for a confirmation between the load and the write.    *)
(***************************************************************************)
EXTENDS Entities

\* A task is found only while it is neither completed nor dropped.
MatchTask(id) == id \in DOMAIN model.task /\ model.task[id].completed = Never /\ model.task[id].hidden = Never
MatchActiveProject(id) == id \in DOMAIN model.project /\ model.project[id].status = "active"
MatchProject(id) == id \in DOMAIN model.project
MatchFolder(id) == id \in DOMAIN model.folder
MatchVisibleTag(id) == id \in DOMAIN model.tag /\ model.tag[id].hidden = Never

\* An option that is empty counts as not passed.
Passed(args, keys) ==
    LET None(key) == IF key = "tags" THEN Empty ELSE Nobody
    IN  [k \in {x \in DOMAIN args : x \in keys => args[x] # None(x)} |-> args[k]]

Offered(args, keys) == DOMAIN args \subseteq keys

AddCmd(c, args) ==
    /\ Ready(c)
    /\ Offered(args, {"name", "project", "note", "flagged", "due"})
    /\ "project" \in DOMAIN args => MatchActiveProject(args.project)
    /\ CreateTask(c, args, Arg(args, "project", Nobody), "project" \notin DOMAIN args)

DoneCmd(c, id) == MatchTask(id) /\ CompleteTask(c, id)

TaskUpdateCmd(c, id, args) ==
    LET passed == Passed(args, {"name", "project", "tags"})
    IN  /\ Ready(c)
        /\ MatchTask(id)
        /\ "dropped" \notin DOMAIN args /\ Arg(args, "inbox", TRUE)
        /\ TaskChangeOK(model, passed)
        /\ LET updated == BuildUpdatedTask(model.task[id], passed)
           IN  Accept(c, "task", id, updated, UpdateTaskPlan(updated))

TaskDropCmd(c, id) ==
    /\ Ready(c)
    /\ MatchTask(id)
    /\ LET task == model.task[id]
       IN  Accept(c, "task", id, [task EXCEPT !.hidden = now], DropTaskPlan(task, now))

CliValidateFolderParentChange(m, id, args) == SoundParent(m.folder, id, args)
CliValidateTagParentChange(m, id, args) == SoundParent(m.tag, id, args)

FolderAddCmd(c, args) ==
    /\ Ready(c)
    /\ Arg(args, "parent", Nobody) # Nobody => args.parent \in DOMAIN model.folder
    /\ CreateFolder(c, args)

FolderUpdateCmd(c, id, args) ==
    /\ Ready(c)
    /\ MatchFolder(id)
    /\ CliValidateFolderParentChange(model, id, args)
    /\ LET updated == Placed(model.folder[id], Passed(args, {"name"}))
       IN  Accept(c, "folder", id, updated, UpdateFolderPlan(updated))

FolderDropCmd(c, id) == MatchFolder(id) /\ DropFolder(c, id)

TagAddCmd(c, args) ==
    /\ Ready(c)
    /\ Arg(args, "parent", Nobody) # Nobody => args.parent \in DOMAIN model.tag
    /\ CreateTag(c, args)

\* Dropped tags too can be updated, but not dropped again.
TagUpdateCmd(c, id, args) ==
    /\ Ready(c)
    /\ id \in DOMAIN model.tag
    /\ CliValidateTagParentChange(model, id, args)
    /\ LET updated == [Placed(model.tag[id], Passed(args, {"name"})) EXCEPT !.note = Arg(args, "note", @)]
       IN  Accept(c, "tag", id, updated, UpdateTagPlan(updated))

TagDropCmd(c, id) == MatchVisibleTag(id) /\ DropTag(c, id)

ProjectAddCmd(c, args) ==
    /\ Ready(c)
    /\ "folder" \in DOMAIN args => MatchFolder(args.folder)
    /\ Arg(args, "status", "active") \in {"active", "inactive"}
    /\ CreateProject(c, args)

\* Unlike the service's, an update of a done project that does not pass the
\* status leaves the date of its completion alone.
ProjectUpdateCmd(c, id, args) ==
    LET passed == Passed(args, {"name", "folder", "tags"})
    IN  /\ Ready(c)
        /\ MatchProject(id)
        /\ ProjectChangeOK(model, passed)
        /\ SaveProject(c, BuildUpdatedProject(model.project[id], passed), Arg(passed, "status", Nobody))

ProjectDoneCmd(c, id) == MatchProject(id) /\ CompleteProject(c, id)

-----------------------------------------------------------------------------
Command(c) ==
    \/ \E args \in NewTasks : AddCmd(c, args)
    \/ \E id \in DOMAIN model.task : DoneCmd(c, id) \/ TaskDropCmd(c, id)
    \/ \E id \in DOMAIN model.task, args \in TaskChanges : TaskUpdateCmd(c, id, args)
    \/ \E args \in NewFolders : FolderAddCmd(c, args)
    \/ \E id \in DOMAIN model.folder, args \in FolderChanges : FolderUpdateCmd(c, id, args)
    \/ \E id \in DOMAIN model.folder : FolderDropCmd(c, id)
    \/ \E args \in NewTags : TagAddCmd(c, args)
    \/ \E id \in DOMAIN model.tag, args \in TagChanges : TagUpdateCmd(c, id, args)
    \/ \E id \in DOMAIN model.tag : TagDropCmd(c, id)
    \/ \E args \in NewProjects : ProjectAddCmd(c, args)
    \/ \E id \in DOMAIN model.project, args \in ProjectChanges : ProjectUpdateCmd(c, id, args)
    \/ \E id \in DOMAIN model.project : ProjectDoneCmd(c, id)

Next ==
    \/ \E c \in Callers : Request(c) \/ Command(c)
    \/ Delivery

Spec == Init /\ [][Next]_vars

-----------------------------------------------------------------------------
(* Properties. *)

\* The variables keep their types, and the model is what the index says
\* (parser.py, build_model).
TypeOK ==
    /\ model = BuildModel(index)
    /\ \A c \in Callers : call[c].of \in {"task", "project", "folder", "tag"} /\ call[c].fresh \in BOOLEAN
    /\ now \in 1..(MaxRequests + 1)
    /\ edits \in 0..MaxEdits
    /\ forked \in BOOLEAN
    /\ tainted \subseteq {"task", "project", "folder", "tag"}

\* The model shows the object as it was asked for; without a name it shows
\* nothing.
Shows(m, request) ==
    LET objects == m[request.of]
    IN  IF request.goal = Empty \/ request.goal.name = Nobody THEN request.id \notin DOMAIN objects
        ELSE request.id \in DOMAIN objects /\ objects[request.id] = request.goal

\* When a caller has published its last delta, and nobody got between its
\* load and that delta, readers see exactly what it asked for: nothing is
\* lost or added on the way through the writer's elements, the reader's
\* merge and the reader's builders (api_service.py:252, writer.py:900).
\* This is so where readers apply the delta last, as they do unless two
\* writes overlapped: in a bundle that forked, deltas of a task's addition
\* may come behind a later update of the task and undo it (graph.py:97).
PublishedAsPromised ==
    [][\A c \in Callers :
           (/\ Publish(c)
            /\ Len(call[c].plan) = 1 /\ call[c].fresh
            /\ AppliedLast(Head(call[c].plan), c)) => Shows(model', call[c])]_vars

\* Tasks of which only the skeleton is in the bundle.
Half == {id \in DOMAIN log : Len(log[id]) = 1}

\* A task of which only the skeleton got into the bundle, because the caller
\* stopped or is not done yet, is shown to nobody (writer.py:937).
HalfAddedHidden == Half \intersect DOMAIN model.task = {}

\* A task in the inbox is in no project and below no task, however requests
\* interleave (api_service.py:731).
InboxApart == \A id \in DOMAIN model.task : model.task[id].inbox =>
                  model.task[id].parent = Nobody /\ model.task[id].project = Nobody

\* A done project bears the date it was done at, whichever transport set the
\* status, and also after stale writes (writer.py:1426, api_service.py:889).
DoneIsDated == \A id \in DOMAIN model.project :
                   model.project[id].status = "done" => model.project[id].completed # Never

\* The child, possibly of the <project> child, that a field is read from.
FieldTag(of, field) ==
    CASE field = "parent" -> IF of = "tag" THEN "context" ELSE of
      [] field = "project" -> "task"
      [] field = "tags" -> "context"
      [] OTHER -> field

Named(body) == (DOMAIN body \ {"project"}) \union DOMAIN Value(body, "project", Empty)

KeptBy(body, of, old, new) ==
    /\ \A f \in DOMAIN old : FieldTag(of, f) \notin Named(body) => new[f] = old[f]
    /\ (of \in {"task", "project"} /\ "context" \in DOMAIN body) =>
           /\ Last(body["context"]) # Nobody => Last(new.tags) = Last(body["context"])
           /\ Range(new.tags) \subseteq Range(old.tags) \union Range(Values(body, "context"))

\* What elements of a kind are built into.
BuiltFrom(kind) == CASE kind = "task" -> {"task", "project"} [] kind = "folder" -> {"folder"} [] OTHER -> {"tag"}

\* A partial update by the app that readers apply last changes no field but
\* those it names, those inside a <project> included; of several tags it
\* names, at least the last one is taken, and no tag comes from elsewhere
\* (parser.py:170).
PartialUpdateKept ==
    [][\A e \in AppElements : (AppEdit(e) /\ Updates(e) /\ AppliedLast(e, Nobody)) =>
           \A of \in BuiltFrom(e.kind) : e.id \in DOMAIN model[of] \intersect DOMAIN model'[of] =>
               KeptBy(Content(e), of, model[of][e.id], model'[of][e.id])]_vars

\* As long as no folder was written from a stale model, every folder hangs
\* in the tree, and every project is in its folder or in one of the two lists
\* beside the tree, and in one place only (formatting.py:141).
TreeShowsAll ==
    "folder" \notin tainted =>
        /\ TreeFolders(model) = DOMAIN model.folder
        /\ \A p \in DOMAIN model.project :
               Cardinality({S \in {1, 2, 3} :
                   p \in CASE S = 1 -> TreeProjects(model) [] S = 2 -> NoFolderProjects(model)
                           [] S = 3 -> DanglingFolderProjects(model)}) = 1

-----------------------------------------------------------------------------
(* Folders and tags as trees. *)

Groups == {"folder", "context"}

Of(kind) == IF kind = "folder" THEN "folder" ELSE "tag"
Objects(m, kind) == IF kind = "folder" THEN m.folder ELSE m.tag
Additions(kind) == IF kind = "folder" THEN NewFolders ELSE NewTags
Changes(kind) == IF kind = "folder" THEN FolderChanges ELSE TagChanges

ParentOf(kind, body) == Value(body, kind, Nobody)

\* A folder or tag without a name has no parent: readers do not show it, so
\* that requests do not find it on the way up.
NamelessAtRoot(kind, body) == Value(body, "name", Nobody) = Nobody => ParentOf(kind, body) = Nobody

\* Whoever takes the name from a folder or a tag takes it out of the tree.
\* Nothing in the code sees to that.
NamesKept(kind) ==
    /\ \A args \in Additions(kind) :
           Arg(args, "name", Nobody) = Nobody => Arg(args, "parent", Nobody) = Nobody
    /\ \A args \in Changes(kind) :
           ("name" \in DOMAIN args /\ args.name = Nobody) =>
               "clear_parent" \in DOMAIN args /\ "parent" \notin DOMAIN args

\* The bundle starts with a forest, of which the app moves nothing.
StartsAsForest(kind) ==
    LET known == DOMAIN Baseline[kind]
        parent == [id \in known |-> ParentOf(kind, Baseline[kind][id])]
    IN  /\ \A id \in known : parent[id] \in known \union {Nobody} /\ NamelessAtRoot(kind, Baseline[kind][id])
        /\ \A C \in SUBSET known : C # {} => \E id \in C : parent[id] \notin C

AppMovesNothing(kind) ==
    \A e \in AppElements : e.kind = kind =>
        /\ kind \notin DOMAIN Content(e)
        /\ "name" \in DOMAIN Content(e) => Value(Content(e), "name", Nobody) # Nobody

Orderly(kind) == NamesKept(kind) /\ StartsAsForest(kind) /\ AppMovesNothing(kind)

\* All that is or will be a folder, or a tag.
FolderIds == DOMAIN Baseline.folder \union Range(NewIds)
TagIds == DOMAIN Baseline.context \union Range(NewIds)

Ids(kind) == IF kind = "folder" THEN FolderIds ELSE TagIds

ParentIn(objects, id) == IF id \in DOMAIN objects THEN objects[id].parent ELSE Nobody

FolderTree == INSTANCE Hierarchy WITH
    Nodes <- FolderIds, Nobody <- Nobody,
    up <- [f \in FolderIds |-> ParentIn(model.folder, f)], tainted <- "folder" \in tainted

TagTree == INSTANCE Hierarchy WITH
    Nodes <- TagIds, Nobody <- Nobody,
    up <- [g \in TagIds |-> ParentIn(model.tag, g)], tainted <- "tag" \in tainted

\* Folders implement the forest of Hierarchy: whatever the service, the
\* command line and the app do at a time, a write from a model that is not
\* stale moves one folder to a place that is not below it (api_common.py:166).
FolderTreeSpec == FolderTree!Spec

\* And so do tags (api_common.py:193).
TagTreeSpec == TagTree!Spec

\* No folder is its own ancestor: what docs/http.md:404 says moves are
\* validated against.
FoldersNeverCycle == FolderTree!Acyclic
=============================================================================
