\* Texts of five pieces, seven commands, four log files, three address blocks,
\* three workers, four tasks for three threads, three locations.
CONSTANTS
    Words = {"a", "b"}
    MaxPieces = 5
    MaxItems = 7
    Paths = {"a", "b"}
    MaxFiles = 4
    NoFd = NoFd
    Fds = {0, 1, 2, 3, 4, 5, 6, 7}
    Garbage = {NoFd, 0}
    Hosts = {h1, h2}
    Wildcard = any
    Ports = {80}
    Attrs = {a1, a2}
    ServerNames = {n1}
    MaxServers = 2
    MaxBlocks = 3
    Pids = {p1, p2, p3, p4, p5}
    FirstPid = p1
    Workers = 3
    Daemon = TRUE
    Threads = {t1, t2, t3}
    Producer = main
    MaxTasks = 4
    Chars = {"/", "a"}
    Slash = "/"
    MaxLen = 3
    MaxLocations = 3
    Sizes = {1, 2}
    Bodies = {0, 2}
SPECIFICATION PartSpec
INVARIANTS
    ReadAsWritten
    OwnObject
    LinesInFiles
    ServedAsConfigured
    LongestPrefix
PROPERTIES
    WorkersServe
    TasksDoneOnce
CHECK_DEADLOCK FALSE
