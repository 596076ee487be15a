\* Two rules, so that autostart and shutdown handle several listeners, with every
\* kind of configuration, one connection each and one crash.
SPECIFICATION Spec
CONSTANTS
    Rules = {r1, r2}
    Configs = {good, other, bad}
    Malformed = {bad}
    TaskIds = {t1, t2, t3}
    MaxConn = 1
    MaxCrashes = 1
    NoRule = NoRule
    NoTask = NoTask
    NoStatus = NoStatus
SYMMETRY Symmetry
INVARIANTS
    TypeOK
    OneTaskPerRule
    ShownMatchesFile
    ShownIsExplained
    ShutdownReleasesAll
PROPERTIES
    ImplementsContract
\* The program ends with shutdown.
CHECK_DEADLOCK FALSE
