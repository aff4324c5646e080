\* The claim of the comment at accept.cpp:21, on the smallest system that
\* runs out of descriptors.
CONSTANTS
    Listeners = {11}
    Slots = {1, 2}
    Fds = {1, 2}
    NoFd = NoFd
    NoSlot = NoSlot
    Start = 2
    MaxTime = 6
    Second = 2
    Slack = 1
    Width = 64
    MultiAccept = {FALSE}
    MaxBacklog = 1
    MaxLoad = 2
SPECIFICATION FairSpec
PROPERTIES
    RetryInTime
CHECK_DEADLOCK FALSE
