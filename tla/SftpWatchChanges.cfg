\* A folder with a file, and a file beside it; three changes in six seconds, after
\* which nothing changes. Of the seconds only the order matters.
SPECIFICATION Spec
CONSTANTS
    Folder = d
    Inner = f
    Outer = g
    NoPath = none
    MaxEdits = 3
    MaxSecond = 6
    Retries = 3
    Debounce = 2
INVARIANT ChangesAreUploaded
\* The watch waits for events that no longer come.
CHECK_DEADLOCK FALSE
