CONSTANTS
    MaxStarts <- MCMaxStarts
SPECIFICATION Spec
INVARIANT TypeOK
INVARIANT SenderNeverMissing
INVARIANT RefsForwardedInOrder
INVARIANT ClosedOnlyWhenGone
PROPERTY ImplementsRefStream
\* The wrapper ends when its child is gone for good and the observer is done.
CHECK_DEADLOCK FALSE
