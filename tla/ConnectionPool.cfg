\* Three objects and four descriptors: the pool runs out before the
\* descriptors do.  A worker that crashed does nothing more.
CONSTANTS
    Slots = {s1, s2, s3}
    Fds = {f1, f2, f3, f4}
    NoFd = NoFd
SPECIFICATION Spec
INVARIANTS
    SlotsPartitioned
    DescriptorsOwned
PROPERTY
    ImplementsAllocator
CHECK_DEADLOCK FALSE
