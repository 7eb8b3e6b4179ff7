CONSTANTS
    MaxChildren <- MCMaxChildren
    StartTimeouts <- MCStartTimeouts
    Slack <- MCSlack
    MaxTime <- MCMaxTime
    Limit <- MCLimit
    Within <- MCWithin
SPECIFICATION FairSpec
PROPERTY StartResolves
CHECK_DEADLOCK FALSE
