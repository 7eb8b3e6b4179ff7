------------------------------ MODULE Messaging ------------------------------
(***************************************************************************)
(* The request/reply plumbing of request.rs and boxed_msg.rs.  A request   *)
(* is created by Request::new_pair: the message travels with its Tx as     *)
(* the Sends, boxed by BoxedMessage::new into a type-erased envelope, and  *)
(* the requester keeps the Rx.  The receiving actor downcasts the envelope *)
(* to the types it accepts, and replies through the Tx.  An envelope that  *)
(* could not be delivered comes back to the requester, which recovers its  *)
(* message with downcast_into_msg.                                         *)
(*                                                                         *)
(* The oneshot under Tx/Rx is tokio's: a one-value slot, closed by         *)
(* Rx::close or by dropping either end.  Several requests are in flight at *)
(* once; each has its own channel, so they interact only through the       *)
(* interleaving of their steps.                                            *)
(***************************************************************************)
EXTENDS Naturals

CONSTANTS
    Requests,   \* the requests in flight
    Types       \* the message types (their TypeIds)

ASSUME MessagingAssumption == Requests # {} /\ Types # {}

VARIABLES
    msgType,    \* the type each request's message was boxed as
    box,        \* where the envelope is: "requester", "inbox", "none"
    tx,         \* the Tx: "msg" (inside the Sends), "actor", "used",
                \* "dropped"
    rx,         \* the Rx: "open", "closed", "dropped"
    slot,       \* the oneshot's value slot: "empty", "full", "taken"
    sendRes,    \* what Tx::send returned: "none", "Ok", "TxError"
    seen        \* the requester's last receive: "none", "Ok", "Empty",
                \* "Closed"

vars == <<msgType, box, tx, rx, slot, sendRes, seen>>

\* The Tx still exists and can still send.
TxAlive(r) == tx[r] \in {"msg", "actor"}

\* BoxedMessage::downcast::<U>: Box<dyn Any>::downcast succeeds exactly
\* when U is the type the envelope was built from.
DowncastOk(r, U) == msgType[r] = U

\* Request::new_pair and BoxedMessage::new for every request: each message,
\* of some type, is boxed with its Tx; the requester holds the envelope and
\* the Rx.
Init ==
    /\ msgType \in [Requests -> Types]
    /\ box = [r \in Requests |-> "requester"]
    /\ tx = [r \in Requests |-> "msg"]
    /\ rx = [r \in Requests |-> "open"]
    /\ slot = [r \in Requests |-> "empty"]
    /\ sendRes = [r \in Requests |-> "none"]
    /\ seen = [r \in Requests |-> "none"]

\* The envelope is put in the actor's inbox.
Deliver(r) ==
    /\ box[r] = "requester"
    /\ box' = [box EXCEPT ![r] = "inbox"]
    /\ UNCHANGED <<msgType, tx, rx, slot, sendRes, seen>>

\* The inbox is closed: the envelope comes back to the requester.
Bounce(r) ==
    /\ box[r] = "inbox"
    /\ box' = [box EXCEPT ![r] = "requester"]
    /\ UNCHANGED <<msgType, tx, rx, slot, sendRes, seen>>

\* downcast_into_msg::<U>(returns) by the requester on its envelope: on a
\* match, into_msg keeps the message and drops the Sends' Tx and the
\* returns (the Rx); otherwise Err gives the envelope back unchanged.
DowncastIntoMsg(r, U) ==
    /\ box[r] = "requester"
    /\ DowncastOk(r, U)
    /\ box' = [box EXCEPT ![r] = "none"]
    /\ tx' = [tx EXCEPT ![r] = "dropped"]
    /\ rx' = [rx EXCEPT ![r] = "dropped"]
    /\ slot' = [slot EXCEPT ![r] = "empty"]
    /\ UNCHANGED <<msgType, sendRes, seen>>

\* The actor takes the envelope and downcast::<U>s it: Ok unboxes the
\* Sends, so the actor holds the message and its Tx.  A failed downcast
\* (Err(Self(boxed))) leaves the envelope for the next accepted type.
ActorDowncast(r, U) ==
    /\ box[r] = "inbox"
    /\ DowncastOk(r, U)
    /\ box' = [box EXCEPT ![r] = "none"]
    /\ tx' = [tx EXCEPT ![r] = "actor"]
    /\ UNCHANGED <<msgType, rx, slot, sendRes, seen>>

\* The actor accepts no type of the envelope and drops it, Tx included.
ActorDrop(r) ==
    /\ box[r] = "inbox"
    /\ box' = [box EXCEPT ![r] = "none"]
    /\ tx' = [tx EXCEPT ![r] = "dropped"]
    /\ UNCHANGED <<msgType, rx, slot, sendRes, seen>>

\* Mutant of Reply: Tx::send drops the oneshot's error and answers Ok(())
\* even when the Rx had closed or gone.
ReplyIgnoresError(r) ==
    /\ tx[r] = "actor"
    /\ tx' = [tx EXCEPT ![r] = "used"]
    /\ sendRes' = [sendRes EXCEPT ![r] = "Ok"]
    /\ slot' = [slot EXCEPT ![r] = IF rx[r] = "open" THEN "full" ELSE slot[r]]
    /\ UNCHANGED <<msgType, box, rx, seen>>

\* Tx::send: the Tx is consumed; the reply is stored unless the Rx closed
\* or was dropped, in which case it comes back in TxError.
Reply(r) ==
    /\ tx[r] = "actor"
    /\ tx' = [tx EXCEPT ![r] = "used"]
    /\ IF rx[r] = "open"
         THEN /\ slot' = [slot EXCEPT ![r] = "full"]
              /\ sendRes' = [sendRes EXCEPT ![r] = "Ok"]
         ELSE /\ sendRes' = [sendRes EXCEPT ![r] = "TxError"]
              /\ UNCHANGED slot
    /\ UNCHANGED <<msgType, box, rx, seen>>

\* The actor drops the Tx without replying.
DropTx(r) ==
    /\ tx[r] = "actor"
    /\ tx' = [tx EXCEPT ![r] = "dropped"]
    /\ UNCHANGED <<msgType, box, rx, slot, sendRes, seen>>

\* The answer of a receive on a channel holding no value, before the
\* From<TryRecvError> conversion: Empty while the Tx can still send.
NoValue(r) == IF TxAlive(r) /\ rx[r] = "open" THEN "Empty" ELSE "Closed"

\* Mutant of TryRecv: the From<TryRecvError> arms are swapped.
TryRecvSwapped(r) ==
    /\ rx[r] # "dropped"
    /\ IF slot[r] = "full"
         THEN /\ slot' = [slot EXCEPT ![r] = "taken"]
              /\ seen' = [seen EXCEPT ![r] = "Ok"]
         ELSE /\ seen' = [seen EXCEPT ![r] =
                            IF NoValue(r) = "Empty" THEN "Closed" ELSE "Empty"]
              /\ UNCHANGED slot
    /\ UNCHANGED <<msgType, box, tx, rx, sendRes>>

\* Rx::try_recv: take the value if there is one, else Empty or Closed
\* through the From<TryRecvError> conversion.
TryRecv(r) ==
    /\ rx[r] # "dropped"
    /\ IF slot[r] = "full"
         THEN /\ slot' = [slot EXCEPT ![r] = "taken"]
              /\ seen' = [seen EXCEPT ![r] = "Ok"]
         ELSE /\ seen' = [seen EXCEPT ![r] = NoValue(r)]
              /\ UNCHANGED slot
    /\ UNCHANGED <<msgType, box, tx, rx, sendRes>>

\* The Rx future resolves (poll, or recv_blocking, which also consumes the
\* Rx): Ok with the value, or RxError once no value can come.  Pending
\* while the channel is empty and open is no step.
Await(r) ==
    /\ rx[r] # "dropped"
    /\ slot[r] = "full" \/ NoValue(r) = "Closed"
    /\ \E consume \in BOOLEAN :
         rx' = [rx EXCEPT ![r] = IF consume THEN "dropped" ELSE rx[r]]
    /\ IF slot[r] = "full"
         THEN /\ slot' = [slot EXCEPT ![r] = "taken"]
              /\ seen' = [seen EXCEPT ![r] = "Ok"]
         ELSE /\ seen' = [seen EXCEPT ![r] = "Closed"]
              /\ UNCHANGED slot
    /\ UNCHANGED <<msgType, box, tx, sendRes>>

\* Rx::close: no value can be sent from now on; one already sent stays.
Close(r) ==
    /\ rx[r] = "open"
    /\ rx' = [rx EXCEPT ![r] = "closed"]
    /\ UNCHANGED <<msgType, box, tx, slot, sendRes, seen>>

\* The requester drops the Rx, and an unread value with it.
DropRx(r) ==
    /\ rx[r] # "dropped"
    /\ rx' = [rx EXCEPT ![r] = "dropped"]
    /\ slot' = [slot EXCEPT ![r] = IF slot[r] = "full" THEN "empty" ELSE slot[r]]
    /\ UNCHANGED <<msgType, box, tx, sendRes, seen>>

Next ==
    \E r \in Requests :
        \/ Deliver(r) \/ Bounce(r) \/ \E U \in Types : DowncastIntoMsg(r, U)
        \/ \E U \in Types : ActorDowncast(r, U)
        \/ ActorDrop(r) \/ Reply(r) \/ DropTx(r)
        \/ TryRecv(r) \/ Await(r) \/ Close(r) \/ DropRx(r)

Spec == Init /\ [][Next]_vars

-----------------------------------------------------------------------------
(* Properties. *)

\* Every request's state keeps its type.
TypeOK ==
    /\ msgType \in [Requests -> Types]
    /\ box \in [Requests -> {"requester", "inbox", "none"}]
    /\ tx \in [Requests -> {"msg", "actor", "used", "dropped"}]
    /\ rx \in [Requests -> {"open", "closed", "dropped"}]
    /\ slot \in [Requests -> {"empty", "full", "taken"}]
    /\ sendRes \in [Requests -> {"none", "Ok", "TxError"}]
    /\ seen \in [Requests -> {"none", "Ok", "Empty", "Closed"}]

\* A requester told Closed (by try_recv or by the Rx future) is told so
\* only when no reply can reach it any more: the Tx is gone or the Rx is
\* closed, and no reply is waiting in the slot.
ClosedMeansNoReply ==
    \A r \in Requests :
        seen[r] = "Closed" => slot[r] # "full" /\ ~(TxAlive(r) /\ rx[r] = "open")

\* Tx::send answers Ok only for a reply the requester can still get: while
\* the Rx lives (even closed after the send), an accepted reply is in the
\* slot or the requester has taken it.  A reply that could not be stored
\* must come back to the actor in TxError.
AcceptedReplyKept ==
    \A r \in Requests :
        sendRes[r] = "Ok" /\ rx[r] # "dropped" => slot[r] \in {"full", "taken"}

=============================================================================
