\* Two servers of a service, the stored one and the one an SSH server left behind;
\* two clients of a proxy that serves one; two SFTP connections, two shells of one channel
\* and two forwarded ports; three MCP requests of two workspaces.
SPECIFICATION Spec
CONSTANTS
    Kinds = {"http", "socks5", "ssh"}
    Ports = {p1, p2}
    NoPort = NoPort
    Torn = Torn
    Servers = {s1, s2}
    NoServer = NoServer
    MaxConn = 1
    MaxCount = 2
    MaxCrashes = 1
    Clients = {1, 2}
    Ids = {1, 2}
    MaxConnections = 1
    MaxRejected = 1
    ShellIds = {1, 2}
    NoShell = 0
    Channels = {1}
    QueueSize = 1
    MaxUnread = 1
    BindPorts = {1, 2}
    MaxRelays = 2
    Conns = {c1, c2}
    NoConn = NoConn
    Names = {1, 2}
    NoName = 0
    Served <- Trees
    MaxSessions = 2
    MaxRaw = 2
    MaxNodes = 2
    Workspaces = {w1, w2}
    Control = control
    LaneIds = {0, 1, 2, 3}
    ControlLane = 0
    NoLane = NoLane
    MaxRequests = 3
    IngressCapacity = 1
    LaneCapacity = 1
    EventCapacity = 1
    MaxIdle = 1
INVARIANTS
    ServersAreShown
    CommandsRunOnce
    ClientsAreAccountedFor
    HandlesStayApart
    TargetsAreAsked
\* Programs, sessions and connections end, and identities are used up.
CHECK_DEADLOCK FALSE
