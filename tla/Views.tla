------------------------------- MODULE Views --------------------------------
(***************************************************************************)
(* What the folder tree shows of a model (formatting.py): each folder      *)
(* hangs below its parent if that one is known, else it is a root, and     *)
(* only what hangs below a root is shown.  A project is shown in its       *)
(* folder; projects without one, and projects whose folder is unknown, are *)
(* listed beside the tree.                                                 *)
(***************************************************************************)
EXTENDS Elements

Roots(m) == {f \in DOMAIN m.folder : m.folder[f].parent \notin DOMAIN m.folder}

TreeFolders(m) ==
    LET folders == DOMAIN m.folder
        below == [F \in SUBSET folders |-> F \union {f \in folders : m.folder[f].parent \in F}]
        depth == Cardinality(folders)
    IN  Walk(below, Roots(m), depth)[depth]

TreeProjects(m) == {p \in DOMAIN m.project : m.project[p].folder \in TreeFolders(m)}

NoFolderProjects(m) == {p \in DOMAIN m.project : m.project[p].folder = Nobody}

\* Mutant: a project of a deleted folder is in no list.
NoDanglingFolderProjects(m) == {}

DanglingFolderProjects(m) ==
    {p \in DOMAIN m.project : m.project[p].folder \notin DOMAIN m.folder \union {Nobody}}
=============================================================================
