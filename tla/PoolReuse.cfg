\* The claim of the log line `reusing connection'.
CONSTANTS
    Slots = {s1, s2}
    Fds = {f1, f2, f3}
    NoFd = NoFd
SPECIFICATION Spec
INVARIANT ReuseSurvives
CHECK_DEADLOCK FALSE
