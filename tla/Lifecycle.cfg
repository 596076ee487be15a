\* Three callers, one handler at a time and one slot in the channel, so that
\* callers wait for the channel, for the handler and for the lock at once.
SPECIFICATION FairSpec
CONSTANTS
    Callers = {c1, c2, c3}
    Boot = boot
    Writer = writer
    MaxHandlers = 1
    BusCapacity = 1
INVARIANTS
    TypeOK
    NoWorkAfterDrain
    NoRefreshDropped
PROPERTIES
    ExitAndAnswers
