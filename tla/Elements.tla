------------------------------ MODULE Elements ------------------------------
(***************************************************************************)
(* What a transaction says and what a reader makes of it.  The writer      *)
(* (writer.py) renders tasks, projects, folders and tags as elements; the  *)
(* reader (parser.py) merges the elements of all transactions, oldest      *)
(* first, into an index, and builds the model from the index.              *)
(*                                                                         *)
(* An element is [kind, id, op, body]: its tag, its id attribute, its op   *)
(* attribute ("none" if it has none) and its children.  The body maps the  *)
(* tags of the children to the values of the children with that tag, in    *)
(* the order of the document; the order of different tags means nothing to *)
(* the reader.  A value is the text or the idref ("" for an empty child),  *)
(* a stamp (0 for an empty one), a Boolean, or, of a <project> child and a *)
(* <reference-snapshot>, a body.  Of the scalar fields that are rendered,  *)
(* merged and read alike, note and due stand for all (start, planned,      *)
(* estimate, rank, repetition, alarms); reviewed stands for the three      *)
(* review fields.                                                          *)
(***************************************************************************)
EXTENDS Integers, SequencesExt

Nobody == ""     \* no id, and the text of an empty child
Never == 0       \* no date
Empty == <<>>    \* no children; also the function with no arguments

\* A body in which every tag occurs once.
Once(fields) == [tag \in DOMAIN fields |-> <<fields[tag]>>]

Element(kind, id, op, body) == [kind |-> kind, id |-> id, op |-> op, body |-> body]

-----------------------------------------------------------------------------
(* Reading the children of an element. *)

\* The text, flag or idref of the first child with that tag.
Value(body, tag, default) == IF tag \in DOMAIN body THEN body[tag][1] ELSE default

\* The values that are not empty, in their order.
Filled(values) ==
    LET kept[i \in 0..Len(values)] ==
            IF i = 0 THEN Empty
            ELSE IF values[i] = Nobody THEN kept[i - 1] ELSE Append(kept[i - 1], values[i])
    IN  kept[Len(values)]

Values(body, tag) == IF tag \in DOMAIN body THEN Filled(body[tag]) ELSE Empty

-----------------------------------------------------------------------------
(* Merging an update into what is known. *)

\* The dictionary of the code holds, per tag, the last child of the element
\* as it was, then the child that took its place: always the last one.
ReplaceLast(values, val) == [values EXCEPT ![Len(values)] = val]

MergeNested(old, new) ==
    [tag \in DOMAIN old \union DOMAIN new |->
        IF tag \notin DOMAIN new THEN old[tag]
        ELSE IF tag \notin DOMAIN old THEN new[tag]
        ELSE ReplaceLast(old[tag], Last(new[tag]))]

\* A <project> with children is merged into the one that is there; an empty
\* one replaces it: the project becomes a plain task.
MergedChild(tag, old, new) ==
    IF tag = "project" /\ DOMAIN new # {} THEN MergeNested(old, new) ELSE new

\* Mutant: an update replaces the element it finds.
MergeReplace(old, new) == new

MergeUpdate(old, new) ==
    [tag \in DOMAIN old \union DOMAIN new |->
        IF tag \notin DOMAIN new THEN old[tag]
        ELSE IF tag \notin DOMAIN old THEN new[tag]
        ELSE ReplaceLast(old[tag], MergedChild(tag, Last(old[tag]), Last(new[tag])))]

Materialize(body) == Value(body, "reference-snapshot", body)

Stored(index, kind, id, body) ==
    [index EXCEPT ![kind] = [i \in DOMAIN @ \union {id} |-> IF i = id THEN body ELSE @[i]]]
Dropped(index, kind, id) == [index EXCEPT ![kind] = Restrict(@, DOMAIN @ \ {id})]

\* A deletion, or, a task or tag without a name, the old way to say so.
Removes(e) ==
    \/ e.op = "delete"
    \/ /\ e.op \notin {"update", "reference"}
       /\ e.kind \in {"task", "context"}
       /\ "name" \notin DOMAIN e.body

Content(e) == IF e.op = "reference" THEN Materialize(e.body) ELSE e.body

IndexElement(index, e) ==
    LET known == e.id \in DOMAIN index[e.kind]
        body == Content(e)
    IN  IF Removes(e) THEN Dropped(index, e.kind, e.id)
        ELSE IF e.op \in {"update", "reference"} /\ known
        THEN Stored(index, e.kind, e.id, MergeUpdate(index[e.kind][e.id], body))
        ELSE Stored(index, e.kind, e.id, body)

-----------------------------------------------------------------------------
(* Building the model. *)

BuildFolder(id, body) ==
    [id |-> id, name |-> Value(body, "name", Nobody), parent |-> Value(body, "folder", Nobody)]

BuildTag(id, body) ==
    [id |-> id, name |-> Value(body, "name", Nobody), parent |-> Value(body, "context", Nobody),
     note |-> Value(body, "note", Nobody), hidden |-> Value(body, "hidden", Never)]

IsProject(body) == DOMAIN Value(body, "project", Empty) # {}

BuildProject(id, body) ==
    LET proj == Value(body, "project", Empty)
        folder == Value(proj, "folder", Nobody)
        status == Value(proj, "status", Nobody)
    IN  [id |-> id, name |-> Value(body, "name", Nobody),
         folder |-> IF folder = Nobody THEN Value(body, "folder", Nobody) ELSE folder,
         status |-> IF status = Nobody THEN "active" ELSE status,
         reviewed |-> Value(proj, "reviewed", Never),
         completed |-> Value(body, "completed", Never),
         flagged |-> Value(body, "flagged", FALSE), note |-> Value(body, "note", Nobody),
         due |-> Value(body, "due", Never), tags |-> Values(body, "context")]

BuildTask(id, body, project) ==
    LET order == Value(body, "order", Nobody)
    IN  [id |-> id, name |-> Value(body, "name", Nobody), parent |-> Value(body, "task", Nobody),
         project |-> project, inbox |-> Value(body, "inbox", FALSE),
         completed |-> Value(body, "completed", Never), hidden |-> Value(body, "hidden", Never),
         flagged |-> Value(body, "flagged", FALSE), note |-> Value(body, "note", Nobody),
         due |-> Value(body, "due", Never), tags |-> Values(body, "context"),
         order |-> IF order = Nobody THEN "parallel" ELSE order]

\* Where one is after each of n steps, standing still where none leads on.
Walk(step, start, n) ==
    LET at[k \in 0..n] ==
            IF k = 0 THEN start
            ELSE IF at[k - 1] \in DOMAIN step THEN step[at[k - 1]] ELSE at[k - 1]
    IN  at

\* The first project on the way up from a task; nobody if the way ends at a
\* task without a parent or at an unknown id, or runs in a circle.
ResolveProject(raw, projects, t) ==
    LET size == Cardinality(DOMAIN raw)
        up == [i \in DOMAIN raw \ projects |-> Value(raw[i], "task", Nobody)]
        top == Walk(up, t, size)[size]
    IN  IF top \in projects THEN top ELSE Nobody

\* Objects without a name are not built.
Built(objects) == [id \in {i \in DOMAIN objects : objects[i].name # Nobody} |-> objects[id]]

BuildModel(index) ==
    LET raw == index.task
        projects == {id \in DOMAIN raw : IsProject(raw[id])}
    IN  [folder |-> Built([id \in DOMAIN index.folder |-> BuildFolder(id, index.folder[id])]),
         tag |-> Built([id \in DOMAIN index.context |-> BuildTag(id, index.context[id])]),
         project |-> Built([id \in projects |-> BuildProject(id, raw[id])]),
         task |-> Built([id \in DOMAIN raw \ projects |->
                            BuildTask(id, raw[id], ResolveProject(raw, projects, id))])]
=============================================================================
