--------------------------- MODULE Messaging_proofs ---------------------------
(***************************************************************************)
(* Proofs about the request/reply plumbing of request.rs and boxed_msg.rs, *)
(* for every set of requests and message types.                           *)
(***************************************************************************)
EXTENDS Messaging, TLAPS

\* The Tx is inside the Sends exactly while the envelope exists: boxing
\* puts it there, and the envelope is consumed only by a downcast that
\* hands the Tx to the actor, by downcast_into_msg or by a drop.
EnvelopeHoldsTx == \A r \in Requests : (box[r] # "none") <=> (tx[r] = "msg")

MInv == TypeOK /\ EnvelopeHoldsTx /\ ClosedMeansNoReply /\ AcceptedReplyKept

LEMMA MInit == Init => MInv
BY DEF Init, MInv, TypeOK, EnvelopeHoldsTx, ClosedMeansNoReply, AcceptedReplyKept

\* One step of request r leaves every other request alone, and keeps the
\* strengthening for r.
LEMMA MStep == MInv /\ [Next]_vars => MInv'
<1> SUFFICES ASSUME MInv, [Next]_vars PROVE MInv'
  OBVIOUS
<1>. USE DEF MInv, TypeOK, EnvelopeHoldsTx, ClosedMeansNoReply, AcceptedReplyKept,
             TxAlive
<1>1. ASSUME NEW r \in Requests, Deliver(r) PROVE MInv'
  BY <1>1 DEF Deliver
<1>2. ASSUME NEW r \in Requests, Bounce(r) PROVE MInv'
  BY <1>2 DEF Bounce
<1>3. ASSUME NEW r \in Requests, NEW U \in Types, DowncastIntoMsg(r, U) PROVE MInv'
  BY <1>3 DEF DowncastIntoMsg
<1>4. ASSUME NEW r \in Requests, NEW U \in Types, ActorDowncast(r, U) PROVE MInv'
  BY <1>4 DEF ActorDowncast
<1>5. ASSUME NEW r \in Requests, ActorDrop(r) PROVE MInv'
  BY <1>5 DEF ActorDrop
<1>6. ASSUME NEW r \in Requests, Reply(r) PROVE MInv'
  \* Told Closed, the requester has no live Tx or no open Rx, so this
  \* reply cannot land in the slot.
  BY <1>6 DEF Reply
<1>7. ASSUME NEW r \in Requests, DropTx(r) PROVE MInv'
  BY <1>7 DEF DropTx
<1>8. ASSUME NEW r \in Requests, TryRecv(r) PROVE MInv'
  BY <1>8 DEF TryRecv, NoValue
<1>9. ASSUME NEW r \in Requests, Await(r) PROVE MInv'
  BY <1>9 DEF Await, NoValue
<1>10. ASSUME NEW r \in Requests, Close(r) PROVE MInv'
  BY <1>10 DEF Close
<1>11. ASSUME NEW r \in Requests, DropRx(r) PROVE MInv'
  BY <1>11 DEF DropRx
<1>12. CASE UNCHANGED vars
  BY <1>12 DEF vars
<1>. QED  BY <1>1, <1>2, <1>3, <1>4, <1>5, <1>6, <1>7, <1>8, <1>9, <1>10,
             <1>11, <1>12 DEF Next

-----------------------------------------------------------------------------
(* The properties checked by messaging_safety, for all constants. *)

\* try_recv and the Rx future answer Closed only when no reply is waiting
\* and none can come.
THEOREM ClosedIsTrue == Spec => []ClosedMeansNoReply
BY MInit, MStep, PTL DEF Spec, MInv

\* A reply Tx::send accepted stays receivable while the Rx lives, even
\* after Rx::close.
THEOREM AcceptedReplyStays == Spec => []AcceptedReplyKept
BY MInit, MStep, PTL DEF Spec, MInv

====
