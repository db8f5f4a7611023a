SPECIFICATION Spec
CONSTANTS
    Callers = {c1, c2}
    Baseline <- Base
    NewIds <- Ids2
    MaxRequests = 2
    MaxEdits = 1
    AppElements <- AppUpdates
    NewTasks <- Tasks1
    NewProjects <- Projects1
    NewFolders <- Folders1
    NewTags <- Tags1
    TaskChanges <- TaskChanges1
    ProjectChanges <- ProjectChanges1
    FolderChanges <- FolderChanges1
    TagChanges <- TagChanges1
INVARIANTS
    TypeOK
    HalfAddedHidden
    InboxApart
    DoneIsDated
    TreeShowsAll
PROPERTIES
    PublishedAsPromised
    PartialUpdateKept
    FolderTreeSpec
    TagTreeSpec
SYMMETRY Interchangeable
CHECK_DEADLOCK FALSE
