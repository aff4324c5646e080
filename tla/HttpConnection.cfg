\* A buffer of a request and one piece more, and a socket that holds less
\* than a response with the larger file: both run over.  accept() reads at
\* once, or leaves the first read to init_connection.
CONSTANTS
    BufSize = 3
    Room = 2
    FileSizes = {1, 2}
    SendFiles = {TRUE, FALSE}
    Deferred = {TRUE, FALSE}
    EpollFails = FALSE
    MaxPieces = 4
    MaxClients = 1
SPECIFICATION Spec
INVARIANTS
    NoLostWakeup
    RepliedOnce
PROPERTIES
    Converses
    NotCutShort
CHECK_DEADLOCK FALSE
