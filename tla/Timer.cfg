\* Three events, so that one can sit before and one behind the event that
\* moves; deadlines one tick apart are close enough, two ticks are not, and
\* three ticks apart are close again by the width of the cast.
CONSTANTS
    Events = {1, 2, 3}
    Listening = {2}
    Delays = {0, 1, 3}
    MaxTime = 4
    Slack = 2
    Width = 4
SPECIFICATION FairSpec
INVARIANTS
    TreeMatchesFields
    DeadlineHonoured
PROPERTIES
    SweepIsThorough
    FiresInOrder
    DueTimersFire
