\* One rule with every kind of configuration; two navigations and a transfer; a shell
\* with queues of two elements; two connections that forward two ports; one theme.
SPECIFICATION Spec
CONSTANTS
    Rules = {r1}
    Configs = {good, other, bad}
    Malformed = {bad}
    TaskIds = {t1, t2}
    NoRule = NoRule
    NoTask = NoTask
    NoStatus = NoStatus
    Dirs = {a}
    InitialDir = a
    NoDir = NoDir
    Transfers = {x1}
    NoShell = NoShell
    Conns = {c1, c2}
    NoConn = NoConn
    Absent = Absent
    Torn = Torn
PROPERTIES
    OperationsEnd
    OverMeansEnded
\* Programs, sessions and connections end.
CHECK_DEADLOCK FALSE
