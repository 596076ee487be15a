\* Three chunks of output and two commands that wait, beside the last one.
SPECIFICATION Spec
CONSTANTS
    MaxOutput = 3
    MaxCommands = 2
INVARIANTS
    TypeOK
    LastOutputShown
PROPERTIES
    SessionEnds
\* The session may have ended, or a server send nothing more.
CHECK_DEADLOCK FALSE
