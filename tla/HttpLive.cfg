\* Two requests, whose responses fit into the socket with room for one more
\* header.  Files are read into buffers, and epoll_ctl may fail.
CONSTANTS
    BufSize = 3
    Room = 7
    FileSizes = {2}
    SendFiles = {FALSE}
    Deferred = {FALSE}
    EpollFails = TRUE
    MaxPieces = 4
    MaxClients = 1
SPECIFICATION FairSpec
INVARIANT ReadStatesTimed
PROPERTIES
    SlowClientClosed
    RequestEnds
CHECK_DEADLOCK FALSE
