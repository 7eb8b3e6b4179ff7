------------------------------ MODULE RefSender ------------------------------
(***************************************************************************)
(* The reference-forwarding wrapper of channel_spec.rs: RefSenderSpec,     *)
(* RefSenderSpecFut and RefSenderSupervisee, each owning the inner unit    *)
(* and an Option<mpsc::UnboundedSender> to the observer's receiver.        *)
(*                                                                         *)
(* Exactly one of the three wrappers exists at a time, since each is       *)
(* consumed to build the next: `phase` says which, and `sender` whether    *)
(* its sender field is Some.  The wrapped child is the environment: each   *)
(* poll of its start future or supervisee may resolve to any result its    *)
(* type allows.  The observer holding the receiver reads the channel,      *)
(* sees it closed once the only sender is dropped, or drops the receiver.  *)
(* The channel is the one RefSenderSpec::new creates, so the wrapper holds *)
(* its only sender.                                                        *)
(***************************************************************************)
EXTENDS Naturals, Sequences

CONSTANT MaxStarts      \* bound on the successful starts explored

ASSUME MaxStartsAssumption == MaxStarts \in Nat \ {0}

VARIABLES
    phase,      \* "spec", "fut", "sup", or the end: "finished", "failed",
                \* "panicked" (an unwrap of a None sender)
    sender,     \* the current wrapper's sender field is Some
    queue,      \* references in the channel, not yet received
    rxAlive,    \* the UnboundedReceiver is not dropped
    received,   \* references the observer has received, in order
    sawClosed,  \* the observer's recv() returned None
    starts      \* successful starts so far; the k-th produces reference k

vars == <<phase, sender, queue, rxAlive, received, sawClosed, starts>>
observerVars == <<rxAlive, received, sawClosed>>

\* The phases in which no wrapper is left: the sender is gone with it.
Gone == {"finished", "failed", "panicked"}

\* mpsc send: delivered while the receiver lives, otherwise the error is
\* ignored (let _ = sender.send(reference)).
Send(q, r) == IF rxAlive THEN Append(q, r) ELSE q

\* RefSenderSpec::new / new_with_channel: a fresh channel, the sender Some.
Init ==
    /\ phase = "spec"
    /\ sender = TRUE
    /\ queue = <<>>
    /\ rxAlive = TRUE
    /\ received = <<>>
    /\ sawClosed = FALSE
    /\ starts = 0

\* Specification::start: start the inner spec, move the sender into the
\* future.
Start ==
    /\ phase = "spec"
    /\ starts < MaxStarts
    /\ phase' = "fut"
    /\ UNCHANGED <<sender, queue, observerVars, starts>>

\* Mutant of StartedOk: the supervisee is built with `sender: None`.
StartedOkDropsSender ==
    /\ phase = "fut"
    /\ phase' = IF sender THEN "sup" ELSE "panicked"
    /\ starts' = IF sender THEN starts + 1 ELSE starts
    /\ queue' = IF sender THEN Send(queue, starts + 1) ELSE queue
    /\ sender' = FALSE
    /\ UNCHANGED observerVars

\* Mutant of StartedOk: the reference of the previous start is pushed.
StartedOkStaleRef ==
    /\ phase = "fut"
    /\ phase' = IF sender THEN "sup" ELSE "panicked"
    /\ starts' = IF sender THEN starts + 1 ELSE starts
    /\ queue' = IF sender THEN Send(queue, starts) ELSE queue
    /\ UNCHANGED <<sender, observerVars>>

\* RefSenderSpecFut::poll, inner Ok((supervisee, reference)): unwrap the
\* sender, push the reference, keep the sender in the supervisee.
StartedOk ==
    /\ phase = "fut"
    /\ phase' = IF sender THEN "sup" ELSE "panicked"
    /\ starts' = IF sender THEN starts + 1 ELSE starts
    /\ queue' = IF sender THEN Send(queue, starts + 1) ELSE queue
    /\ UNCHANGED <<sender, observerVars>>

\* Mutant of StartedFailure: the reference-free failure also pushes a value.
StartedFailurePushes ==
    /\ phase = "fut"
    /\ phase' = IF sender THEN "spec" ELSE "panicked"
    /\ queue' = IF sender THEN Send(queue, starts + 1) ELSE queue
    /\ UNCHANGED <<sender, observerVars, starts>>

\* RefSenderSpecFut::poll, inner Failure(spec): unwrap the sender and hand
\* it back in the rebuilt RefSenderSpec.
StartedFailure ==
    /\ phase = "fut"
    /\ phase' = IF sender THEN "spec" ELSE "panicked"
    /\ UNCHANGED <<sender, queue, observerVars, starts>>

\* RefSenderSpecFut::poll, inner Finished or Unhandled: the result carries
\* no sender, and the future that owned it is dropped.
StartedEnd ==
    /\ phase = "fut"
    /\ \E p \in {"finished", "failed"} : phase' = p
    /\ sender' = FALSE
    /\ UNCHANGED <<queue, observerVars, starts>>

\* Mutant of ExitRestart: the rebuilt spec gets `sender: None` instead of
\* the supervisee's sender.
ExitRestartDropsSender ==
    /\ phase = "sup"
    /\ phase' = "spec"
    /\ sender' = FALSE
    /\ UNCHANGED <<queue, observerVars, starts>>

\* RefSenderSupervisee::poll, inner Ok(Some(spec)): the restart spec takes
\* the supervisee's sender (sender.take()).
ExitRestart ==
    /\ phase = "sup"
    /\ phase' = "spec"
    /\ UNCHANGED <<sender, queue, observerVars, starts>>

\* RefSenderSupervisee::poll, inner Ok(None) or Err(e): the exit carries
\* no sender, and the resolved supervisee is dropped by its parent.
ExitEnd ==
    /\ phase = "sup"
    /\ \E p \in {"finished", "failed"} : phase' = p
    /\ sender' = FALSE
    /\ UNCHANGED <<queue, observerVars, starts>>

\* The observer receives the oldest reference.
Recv ==
    /\ rxAlive
    /\ queue # <<>>
    /\ received' = Append(received, Head(queue))
    /\ queue' = Tail(queue)
    /\ UNCHANGED <<phase, sender, rxAlive, sawClosed, starts>>

\* The observer's recv() returns None: empty and no sender left.
RecvClosed ==
    /\ rxAlive
    /\ queue = <<>>
    /\ ~sender
    /\ ~sawClosed
    /\ sawClosed' = TRUE
    /\ UNCHANGED <<phase, sender, queue, rxAlive, received, starts>>

\* The observer drops the receiver; the buffered references go with it.
DropReceiver ==
    /\ rxAlive
    /\ rxAlive' = FALSE
    /\ queue' = <<>>
    /\ UNCHANGED <<phase, sender, received, sawClosed, starts>>

Next ==
    \/ Start \/ StartedOk \/ StartedFailure \/ StartedEnd
    \/ ExitRestart \/ ExitEnd
    \/ Recv \/ RecvClosed \/ DropReceiver

Spec == Init /\ [][Next]_vars

\* The stream the observer is promised, in RefStream: the child is alive
\* while some wrapper exists; the wrappers' relay is hidden.
Stream == INSTANCE RefStream WITH alive <- phase \notin Gone

-----------------------------------------------------------------------------
(* Properties. *)

\* Every variable of the wrapper and its observer keeps its type.
TypeOK ==
    /\ phase \in {"spec", "fut", "sup"} \cup Gone
    /\ sender \in BOOLEAN
    /\ queue \in Seq(1..MaxStarts)
    /\ rxAlive \in BOOLEAN
    /\ received \in Seq(1..MaxStarts)
    /\ sawClosed \in BOOLEAN
    /\ starts \in 0..MaxStarts

\* The sender.take().unwrap() of RefSenderSpecFut::poll never finds None:
\* across any number of failed starts and restarts the sender travels
\* spec -> future -> supervisee -> restart spec without being lost.
SenderNeverMissing == phase # "panicked"

\* While the observer holds the receiver, what it has received followed by
\* what is buffered is exactly the references of the successful starts, in
\* start order: one per start, none for a failed start, none lost across
\* restarts.
RefsForwardedInOrder ==
    rxAlive => received \o queue = [k \in 1..starts |-> k]

\* The observer sees the channel closed only once the child is gone for
\* good: a failed start or a restart keeps the sender, so a child that may
\* still come back never looks finished to the observer.
ClosedOnlyWhenGone == sawClosed => phase \in Gone

\* RefSenderSpec implements its promised stream: every start, poll and
\* exit of the three wrappers publishes the next reference, ends the
\* stream, or is invisible to the observer; so the relay of the sender
\* through failed starts and restarts neither publishes nor closes.
ImplementsRefStream == Stream!SSpec

=============================================================================
