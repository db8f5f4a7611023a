SPECIFICATION Spec
CONSTANTS
    Callers = {c1, c2}
    Baseline <- Base
    NewIds <- Ids2
    MaxRequests = 2
    MaxEdits = 0
    AppElements <- NoArgs
    NewTasks <- NoArgs
    NewProjects <- NoArgs
    NewFolders <- NoArgs
    NewTags <- NoArgs
    TaskChanges <- NoArgs
    ProjectChanges <- NoArgs
    FolderChanges <- FolderMoves
    TagChanges <- NoArgs
INVARIANTS
    FoldersNeverCycle
CHECK_DEADLOCK FALSE
