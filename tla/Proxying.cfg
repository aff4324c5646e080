\* Bodies of up to three buffers with bytes of the next request behind; three
\* servers and three descriptors; answers with up to two buffers of body.
CONSTANTS
    Size = 3
    Fds = {f1, f2, f3}
    None = none
    MaxRequests = 4
    Lengths = {0, 1, 2, 3, 5}
    Uses = {"read", "discard"}
    RecvBuf = 3
    BodyBuf = 2
    MaxSent = 6
    BufSize = 3
    Replies <- Answers
    Excess = 1
    AskSizes = {2}
    TooLarge = {TRUE, FALSE}
    Sockets = {"none", "failed"}
    EpollFails = TRUE
    UpRoom = 1
    Room = 4
SPECIFICATION PartSpec
INVARIANTS
    SocketsOwned
    TakenInTurn
    BodyComplete
    NoLostWakeup
    OpenWhileProxied
    PassedOn
PROPERTIES
    BodyEnds
    ExchangeEnds
CHECK_DEADLOCK FALSE
