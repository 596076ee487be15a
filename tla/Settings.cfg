\* Two themes, two backgrounds and a crash; two operations on one profile of three
\* versions; two verifications of two hosts and keys, and a crash; two editors of two
\* configurations; three callers on two workspaces with two watches.
SPECIFICATION Spec
CONSTANTS
    ChosenThemes = {"DefaultTheme", "Custom"}
    Colours = {100}
    Absent = Absent
    Torn = Torn
    MaxCrashes = 1
    Ops = {o1, o2}
    NoOp = NoOp
    MaxVersion = 3
    Checks = {k1, k2}
    Endpoints = {h1, h2}
    Keys = {key1, key2}
    NoKey = NoKey
    Editors = {e1, e2}
    NoEditor = NoEditor
    Configs <- ThreeConfigs
    None = None
    MaxEntries = 2
    Ids = {i1, i2}
    NoId = NoId
    NoKind = NoKind
    Callers = {c1, c2, c3}
    Watches = {w1, w2}
    NoWatch = NoWatch
INVARIANTS
    PlacesAgree
    WatchesOwned
    NewestIsKept
    TunnelsFollowProfiles
PROPERTIES
    StepsMeanWhatTheySay
\* The program ends, and the profile is deleted.
CHECK_DEADLOCK FALSE
