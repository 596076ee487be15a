\* Two requests of two workspaces and channels of one element, so that commands
\* wait, a lane is met that was left behind and events are lost; one client with
\* channels of one and two elements; three changes of the settings and a crash.
SPECIFICATION Spec
CONSTANTS
    Workspaces = {w1, w2}
    Control = control
    LaneIds = {0, 1, 2}
    ControlLane = 0
    NoLane = NoLane
    MaxRequests = 2
    IngressCapacity = 1
    LaneCapacity = 1
    EventCapacity = 1
    MaxIdle = 1
    Sessions = {1, 2}
    Clients = {1}
    BusCapacity = 1
    SentCapacity = 2
    MaxSelections = 1
    Ports = {1, 2}
    DefaultPort = 1
    Absent = Absent
    Torn = Torn
    MaxTokens = 3
    MaxCrashes = 1
INVARIANTS
    ClientsKnow
    ServedIsShown
    ToolsActOnWhatTheyName
PROPERTIES
    Answered
    OverMeansEnded
\* The requests may all be answered, the clients gone and the program ended.
CHECK_DEADLOCK FALSE
