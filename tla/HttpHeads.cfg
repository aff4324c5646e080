\* Requests and responses of an upstream, in pieces that end anywhere.
CONSTANTS
    Rules <- Table
    Inputs <- Messages
    Dirty <- DirtyPairs
SPECIFICATION Spec
INVARIANT
    AcceptedAsSent
PROPERTIES
    AsOneScan
    RightVerdict
CHECK_DEADLOCK FALSE
