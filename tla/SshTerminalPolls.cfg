\* An agent that polls while the user has scrolled back.
SPECIFICATION Spec
CONSTANTS
    MaxOutput = 2
    MaxCommands = 1
INVARIANT NothingMissed
CHECK_DEADLOCK FALSE
