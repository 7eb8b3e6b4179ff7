CONSTANTS
    MaxChildren <- MCMaxChildren
    StartTimeouts <- MCStartTimeouts
    Slack <- MCSlack
    MaxTime <- MCMaxTime
    Limit <- MCLimit
    Within <- MCWithin
SPECIFICATION Spec
INVARIANT OkOnlyRunningOrDone
CHECK_DEADLOCK FALSE
