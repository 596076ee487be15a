\* One SFTP workspace, two callers and the two watches of the race.
SPECIFICATION Spec
CONSTANTS
    Ids = {i1}
    NoId = NoId
    Kinds = {"sftp"}
    NoKind = NoKind
    Callers = {c1, c2}
    Watches = {w1, w2}
    NoWatch = NoWatch
INVARIANT RunningIsListed
\* Every identity is used up.
CHECK_DEADLOCK FALSE
