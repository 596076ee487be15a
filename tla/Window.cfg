\* Three workspaces opened one after the other, one of them with a new status; one
\* profile in two versions with three operations and refreshes under way; a screen of
\* two lines with a history of one, four lines of one text or none.
SPECIFICATION Spec
CONSTANTS
    Tabs = {1, 2, 3}
    NoTab = 0
    MaxStatus = 1
    Profiles = {p}
    Queries = {{p}, {}}
    MaxVersion = 2
    MaxWork = 3
    Texts = {t1}
    Blank = blank
    Rows = 2
    Scrollback = 1
    Tracked = 3
    MaxLines = 4
INVARIANTS
    WindowShowsTheContext
    TerminalIsShown
    PicturesAreTrue
PROPERTIES
    DragFollowsThePointer
\* Identities and lines are used up.
CHECK_DEADLOCK FALSE
