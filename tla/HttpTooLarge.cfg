\* The claim of the log line `request too large', for a buffer of two pieces.
CONSTANTS
    BufSize = 2
    Room = 2
    FileSizes = {1}
    SendFiles = {FALSE}
    Deferred = {FALSE}
    EpollFails = FALSE
    MaxPieces = 2
    MaxClients = 1
SPECIFICATION Spec
INVARIANT RefusedIsTooLarge
CHECK_DEADLOCK FALSE
