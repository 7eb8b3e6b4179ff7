CONSTANTS
    MaxChildren <- MCMaxChildren
    StartTimeouts <- MCStartTimeouts
    Slack <- MCSlack
    MaxTime <- MCMaxTime
    Limit <- MCLimit
    Within <- MCWithin
SPECIFICATION FairSpec
PROPERTY ImplementsAbstract
CHECK_DEADLOCK FALSE
