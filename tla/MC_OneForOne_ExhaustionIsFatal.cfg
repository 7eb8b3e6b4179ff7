CONSTANTS
    MaxChildren <- MCMaxChildren
    StartTimeouts <- MCStartTimeouts
    Slack <- MCSlack
    MaxTime <- MCMaxTime
    Limit <- MCLimit
    Within <- MCWithin
SPECIFICATION Spec
INVARIANT ExhaustionIsFatal
CHECK_DEADLOCK FALSE
