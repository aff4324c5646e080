\* Four objects for five descriptors, two of them held by the listening
\* sockets: descriptors and objects can run out, in either order.
CONSTANTS
    Listeners = {11, 12}
    Slots = {1, 2, 3, 4}
    Fds = {1, 2, 3, 4, 5}
    NoFd = NoFd
    NoSlot = NoSlot
    Start = 2
    MaxTime = 6
    Second = 2
    Slack = 1
    Width = 64
    MultiAccept = {TRUE, FALSE}
    MaxBacklog = 2
    MaxLoad = 3
SPECIFICATION FairSpec
INVARIANTS
    RetryArmed
    OneSwitch
    ListenersKeepSlots
PROPERTIES
    QueueServed
    RetryDelivered
CHECK_DEADLOCK FALSE
