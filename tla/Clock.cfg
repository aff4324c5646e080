\* 1000 ms are three ticks, so that updates fall within a second of each
\* other and further apart; nine ticks leave room for three refreshes, and the
\* wall clock moves between any two statements of an update.
CONSTANTS
    Start = 5
    MaxTime = 14
    Second = 3
    Torn = Torn
SPECIFICATION GrainSpec
INVARIANTS
    StringsFollowTime
    ReadersSeeWhole
