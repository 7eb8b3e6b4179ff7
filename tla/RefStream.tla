------------------------------ MODULE RefStream ------------------------------
(***************************************************************************)
(* What RefSenderSpec promises the holder of its receiver, without the    *)
(* three wrappers it is made of: while the child may still start, each    *)
(* successful start publishes the next reference, 1, 2, 3, ...; the       *)
(* stream ends once the child is gone for good, and only then does the    *)
(* observer see it closed.  Failed starts and restarts are invisible.     *)
(***************************************************************************)
EXTENDS Naturals, Sequences

CONSTANT MaxStarts

VARIABLES
    alive,      \* the child may still start again
    starts,     \* references published so far
    queue,      \* published, not yet received
    rxAlive,    \* the observer still holds the receiver
    received,   \* what the observer has received, in order
    sawClosed   \* the observer was told the stream ended

svars == <<alive, starts, queue, rxAlive, received, sawClosed>>

SInit ==
    /\ alive = TRUE
    /\ starts = 0
    /\ queue = <<>>
    /\ rxAlive = TRUE
    /\ received = <<>>
    /\ sawClosed = FALSE

\* A start succeeds: the next reference is published (and lost if the
\* receiver is gone).
SPublish ==
    /\ alive
    /\ starts < MaxStarts
    /\ starts' = starts + 1
    /\ queue' = IF rxAlive THEN Append(queue, starts + 1) ELSE queue
    /\ UNCHANGED <<alive, rxAlive, received, sawClosed>>

\* The child is gone for good.
SEnd ==
    /\ alive
    /\ alive' = FALSE
    /\ UNCHANGED <<starts, queue, rxAlive, received, sawClosed>>

SRecv ==
    /\ rxAlive
    /\ queue # <<>>
    /\ received' = Append(received, Head(queue))
    /\ queue' = Tail(queue)
    /\ UNCHANGED <<alive, starts, rxAlive, sawClosed>>

\* The stream ends: drained, and the child gone.
SRecvClosed ==
    /\ rxAlive
    /\ queue = <<>>
    /\ ~alive
    /\ ~sawClosed
    /\ sawClosed' = TRUE
    /\ UNCHANGED <<alive, starts, queue, rxAlive, received>>

SDrop ==
    /\ rxAlive
    /\ rxAlive' = FALSE
    /\ queue' = <<>>
    /\ UNCHANGED <<alive, starts, received, sawClosed>>

SNext == SPublish \/ SEnd \/ SRecv \/ SRecvClosed \/ SDrop

SSpec == SInit /\ [][SNext]_svars

=============================================================================
