----------------------------- MODULE MCCommands -----------------------------
(* Small instances of Commands for TLC. *)
EXTENDS Commands

Interchangeable == Permutations(Callers)

Ids2 == <<"n1", "n2">>

\* A folder f1 with a folder f2 in it, a folder f3, a tag g1 with a tag g2
\* below, a project p1 in f2 with a task t1, and a task t2 in the inbox.
Base ==
    [folder |-> [f1 |-> [name |-> <<"x">>],
                 f2 |-> [name |-> <<"x">>, folder |-> <<"f1">>],
                 f3 |-> [name |-> <<"x">>]],
     context |-> [g1 |-> [name |-> <<"x">>, note |-> <<Nobody>>],
                  g2 |-> [name |-> <<"x">>, note |-> <<Nobody>>, context |-> <<"g1">>]],
     task |-> [p1 |-> [project |-> <<[folder |-> <<"f2">>, status |-> <<"active">>]>>,
                       inbox |-> <<FALSE>>, name |-> <<"x">>, note |-> <<Nobody>>,
                       order |-> <<"parallel">>, flagged |-> <<FALSE>>, context |-> <<"g1">>],
               t1 |-> [project |-> <<Empty>>, inbox |-> <<FALSE>>, task |-> <<"p1">>,
                       name |-> <<"x">>, note |-> <<"a">>, order |-> <<"parallel">>,
                       flagged |-> <<TRUE>>, context |-> <<"g1", "g2">>],
               t2 |-> [project |-> <<Empty>>, inbox |-> <<TRUE>>, task |-> <<Nobody>>,
                       name |-> <<"x">>, note |-> <<Nobody>>, order |-> <<"sequential">>,
                       flagged |-> <<FALSE>>]]]

AppUpdates ==
    {Element("task", "t1", "update", [note |-> <<"b">>, context |-> <<"g2", "g1">>]),
     Element("task", "p1", "update", [project |-> <<[status |-> <<"inactive">>]>>]),
     Element("task", "p1", "update", [project |-> <<Empty>>]),
     Element("folder", "f2", "reference", [tag \in {"reference-snapshot"} |-> <<[name |-> <<"y">>]>>]),
     Element("task", "n1", "update", [note |-> <<"c">>]),
     Element("task", "t1", "none", Empty)}

Tasks1 ==
    {[name |-> "y"], [name |-> "y", project |-> "p1", note |-> "b"],
     [name |-> "y", parent |-> "t1", flagged |-> TRUE, due |-> 5],
     [name |-> "y", parent |-> "p1"], [name |-> "", due |-> 5]}
Projects1 == {[name |-> "y", folder |-> "f1", due |-> 5], [name |-> "y", status |-> "inactive"]}
Folders1 == {[name |-> "y"], [name |-> "y", parent |-> "f2"]}
Tags1 == {[name |-> "y", note |-> "b"], [name |-> "y", parent |-> "g2"]}

TaskChanges1 ==
    {[name |-> "", note |-> ""], [project |-> "p1"],
     [project |-> "p1", inbox |-> TRUE], [clear_project |-> TRUE, flagged |-> FALSE],
     [tags |-> <<"g2">>], [clear_tags |-> TRUE, due |-> 5], [dropped |-> TRUE],
     [dropped |-> FALSE]}
ProjectChanges1 ==
    {[name |-> "y", tags |-> <<"g2", "g1">>], [clear_folder |-> TRUE], [folder |-> "f3"],
     [status |-> "done"], [status |-> "dropped"], [status |-> "active", flagged |-> TRUE]}
FolderChanges1 ==
    {[parent |-> "f1"], [parent |-> "f2"], [parent |-> "f3"],
     [clear_parent |-> TRUE, name |-> ""]}
TagChanges1 == {[name |-> "y", note |-> "b"], [parent |-> "g1"], [parent |-> "g2"], [clear_parent |-> TRUE]}

ASSUME InstanceIsOrderly == \A kind \in Groups : Orderly(kind)

\* Moves of folders only.
NoArgs == {}
FolderMoves == {[parent |-> "f1"], [parent |-> "f2"], [parent |-> "f3"]}
=============================================================================
