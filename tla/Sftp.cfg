\* Two directories, two navigations and a transfer, or two transfers in one; two
\* navigations, a refresh and the opening of the local directory; a tree of two files
\* in two runs; a watch of a folder and a file, with three edits in three seconds; two
\* navigations in flight in each panel.
SPECIFICATION Spec
CONSTANTS
    Dirs = {a, b}
    InitialDir = a
    NoDir = NoDir
    Transfers = {t1, t2}
    Parts = {"browse", "transfers", "local", "tree", "remote", "near", "watch"}
    MaxNavs = 2
    AliasedDir = b
    Alias = alias
    Navigations = {n1, n2}
    Refreshes = {r1}
    Opening = opening
    None = None
    Root = root
    Folder = folder
    FileA = fileA
    FileB = fileB
    NoPath = NoPath
    MaxSize = 2
    MaxTime = 3
    MaxChanges = 2
    MaxRuns = 2
    MaxWatched = 3
    MaxSecond = 3
    Debounce = 1
    Retries = 2
    Workspaces = {1}
    NoWorkspace = 0
    Names = {1}
    MaxTrips = 2
INVARIANTS
    ShownIsSaved
    TransfersAreWhole
    DoneMeansSame
    SettledIsUploaded
    PanelsMeanWhatTheyShow
PROPERTIES
    RefreshNeverMoves
\* Sessions and watches end, transfers and runs are used up.
CHECK_DEADLOCK FALSE
