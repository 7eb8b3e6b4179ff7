CONSTANTS
    r1 = r1
    r2 = r2
    T1 = T1
    T2 = T2
    Requests <- MCRequests
    Types <- MCTypes
SYMMETRY MCSymmetry
SPECIFICATION Spec
INVARIANT ClosedMeansNoReply
INVARIANT AcceptedReplyKept
\* Every request ends: its envelope consumed and both ends dropped or done.
CHECK_DEADLOCK FALSE
