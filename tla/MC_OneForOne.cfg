CONSTANTS
    MaxChildren <- MCMaxChildren
    StartTimeouts <- MCStartTimeouts
    Slack <- MCSlack
    MaxTime <- MCMaxTime
    Limit <- MCLimit
    Within <- MCWithin
SPECIFICATION Spec
INVARIANT TypeOK
INVARIANT NoOkWhileStarting
INVARIANT EscalationJustified
INVARIANT LimiterNotCalledAfterExhaustion
PROPERTY ShutdownDrainFull
\* The start future resolves and is dropped unless Ok: the system stops.
CHECK_DEADLOCK FALSE
