----------------------- MODULE OneForOne_refinement_proofs -----------------------
(***************************************************************************)
(* The one-for-one start protocol implements its abstract promise         *)
(* (OneForOneAbstract, through the instance Abs of OneForOne): every step  *)
(* of the builder, of OneForOneStartFut::poll, of the clock and of the     *)
(* supervisee is an ABuild, AStart, AChild or AResolve step, or leaves     *)
(* stage, items and result alone.  The safety part is proved here; the    *)
(* fairness part (WF of AResolve) is liveness and stays with TLC.          *)
(***************************************************************************)
EXTENDS OneForOne_proofs

\* A builder holds only specifications, at most MaxChildren of them:
\* add_spec is their only producer.
BuildSpecs ==
    stage = "build" =>
        /\ \A j \in DOMAIN items : items[j] = "Spec"
        /\ Len(items) <= MaxChildren

RefInv == TypeInv /\ OkInv /\ BuildSpecs

\* A sequence of Specs is the constant sequence of its length, and so are
\* its extension by a Spec and its prefix one shorter.
LEMMA SpecSeqShape ==
    ASSUME NEW its \in Seq(ItemKinds), \A j \in DOMAIN its : its[j] = "Spec"
    PROVE  /\ its = [j \in 1..Len(its) |-> "Spec"]
           /\ Append(its, "Spec") = [j \in 1..(Len(its) + 1) |-> "Spec"]
           /\ its # <<>> =>
                SubSeq(its, 1, Len(its) - 1) = [j \in 1..(Len(its) - 1) |-> "Spec"]
<1>1. Len(its) \in Nat /\ DOMAIN its = 1..Len(its)
  BY LenProperties
<1>2. its = [j \in 1..Len(its) |-> "Spec"]
  BY <1>1
<1>3. Append(its, "Spec") = [j \in 1..(Len(its) + 1) |-> "Spec"]
  <2>1. /\ Append(its, "Spec") \in Seq(ItemKinds)
        /\ Len(Append(its, "Spec")) = Len(its) + 1
        /\ \A i \in 1..Len(its) : Append(its, "Spec")[i] = its[i]
        /\ Append(its, "Spec")[Len(its) + 1] = "Spec"
    BY AppendProperties DEF ItemKinds
  <2>2. DOMAIN Append(its, "Spec") = 1..(Len(its) + 1)
    BY <2>1, LenProperties
  <2>3. \A i \in 1..(Len(its) + 1) : Append(its, "Spec")[i] = "Spec"
    BY <2>1, <1>1
  <2>4. [j \in 1..(Len(its) + 1) |-> "Spec"] \in Seq(ItemKinds)
    BY <1>1 DEF ItemKinds
  <2>5. Len([j \in 1..(Len(its) + 1) |-> "Spec"]) = Len(its) + 1
    BY <1>1
  <2>6. \A i \in 1..Len(Append(its, "Spec")) :
          Append(its, "Spec")[i] = [j \in 1..(Len(its) + 1) |-> "Spec"][i]
    BY <2>1, <2>3
  <2>. QED  BY <2>1, <2>4, <2>5, <2>6, SeqEqual, Zenon
<1>4. its # <<>> =>
        SubSeq(its, 1, Len(its) - 1) = [j \in 1..(Len(its) - 1) |-> "Spec"]
  <2> SUFFICES ASSUME its # <<>>
               PROVE  SubSeq(its, 1, Len(its) - 1) = [j \in 1..(Len(its) - 1) |-> "Spec"]
    OBVIOUS
  <2>1. Len(its) - 1 \in Nat
    BY <1>1, EmptySeq
  <2>2. /\ SubSeq(its, 1, Len(its) - 1) \in Seq(ItemKinds)
        /\ Len(SubSeq(its, 1, Len(its) - 1)) = Len(its) - 1
        /\ \A i \in 1..(Len(its) - 1) : SubSeq(its, 1, Len(its) - 1)[i] = its[i]
    BY <1>1, <2>1, SubSeqProperties
  <2>3. DOMAIN SubSeq(its, 1, Len(its) - 1) = 1..(Len(its) - 1)
    BY <2>2, LenProperties
  <2>4. [j \in 1..(Len(its) - 1) |-> "Spec"] \in Seq(ItemKinds)
    BY <2>1 DEF ItemKinds
  <2>. QED  BY <1>1, <2>1, <2>2, <2>4, SeqEqual
<1>. QED  BY <1>2, <1>3, <1>4

LEMMA BuildSpecsStep == TypeInv /\ BuildSpecs /\ [Next]_vars => BuildSpecs'
<1> SUFFICES ASSUME TypeInv, BuildSpecs, [Next]_vars PROVE BuildSpecs'
  OBVIOUS
<1>0. /\ items \in Seq(ItemKinds)
      /\ Len(items) \in Nat
      /\ DOMAIN items = 1..Len(items)
      /\ stage = "build" => pc = "idle"
      /\ MaxChildren \in Nat
  BY LenProperties, GroupAssumption DEF TypeInv, TypeOK, BuildAtRest
<1>1. ASSUME NEW t \in StartTimeouts, AddSpec(t) PROVE BuildSpecs'
  <2>1. items' = [j \in 1..(Len(items) + 1) |-> "Spec"]
    BY <1>1, <1>0, SpecSeqShape DEF AddSpec, BuildSpecs
  <2>2. Len(items) + 1 <= MaxChildren
    BY <1>1, <1>0 DEF AddSpec
  <2>. QED  BY <1>1, <2>1, <2>2 DEF AddSpec, BuildSpecs
<1>2. CASE PopSpec
  <2>1. items' = [j \in 1..(Len(items) - 1) |-> "Spec"]
    BY <1>2, <1>0, SpecSeqShape DEF PopSpec, BuildSpecs
  <2>2. Len(items) - 1 <= MaxChildren /\ Len(items) - 1 \in Nat
    BY <1>2, <1>0, EmptySeq DEF PopSpec, BuildSpecs
  <2>. QED  BY <1>2, <2>1, <2>2 DEF PopSpec, BuildSpecs
<1>3. CASE Start
  BY <1>3 DEF Start, BuildSpecs
<1>4. CASE Poll
  BY <1>4 DEF Poll, BuildSpecs
<1>5. CASE PollStep
  \* A poll under way: the stage is "starting", and it stays or resolves.
  <2>1. pc # "idle"
    BY <1>5 DEF PollStep, Skip1, PollStart1, StartFailed1, EndLoop1,
                Escalate1, Ready1, Timeout1, Pending1, Skip2, PollStart2,
                PollSupervisee2, EndLoop2, Drained2, Timeout2, Pending2
  <2>2. stage' \in {stage, "done"}
    BY <1>5 DEF PollStep, Skip1, PollStart1, StartFailed1, EndLoop1,
                Escalate1, Ready1, Timeout1, Pending1, Skip2, PollStart2,
                PollSupervisee2, EndLoop2, Drained2, Timeout2, Pending2,
                Resolve
  <2>. QED  BY <2>1, <2>2, <1>0 DEF BuildSpecs
<1>6. CASE Tick
  BY <1>6 DEF Tick, BuildSpecs
<1>7. CASE Halt
  BY <1>7 DEF Halt, BuildSpecs
<1>8. CASE Abort
  BY <1>8 DEF Abort, BuildSpecs
<1>9. CASE UNCHANGED vars
  BY <1>9 DEF vars, BuildSpecs
<1>. QED  BY <1>1, <1>2, <1>3, <1>4, <1>5, <1>6, <1>7, <1>8, <1>9 DEF Next

\* The strengthening holds in every state.
LEMMA RefInvariant == Spec => []RefInv
<1>1. Init => BuildSpecs
  BY GroupAssumption, EmptySeq DEF Init, BuildSpecs
<1>. QED  BY <1>1, TypeInit, TypeStep, OkInit, OkStep, BuildSpecsStep, PTL
          DEF Spec, RefInv

-----------------------------------------------------------------------------
\* A start future that resolves becomes the child slot's new variant, one
\* of the moves the abstract spec allows a start future.
LEMMA StartedAsMove ==
    ASSUME NEW r \in {"Ok", "Completed", "Failed", "Irrecoverable"}
    PROVE  <<"StartFut", StartedAs[r]>> \in Abs!ChildMoves
BY DEF StartedAs, Abs!ChildMoves

\* A running supervisee that exits becomes one of the abstract moves.
LEMMA ExitedAsMove ==
    ASSUME NEW e \in {"Restart", "Finished", "Error"}
    PROVE  <<"Supervisee", ExitedAs[e]>> \in Abs!ChildMoves
BY DEF ExitedAs, Abs!ChildMoves

\* Polling item idx of a start future, which settles as k: one AChild step.
LEMMA SettleIsChild ==
    ASSUME NEW k, NEW from, <<from, k>> \in Abs!ChildMoves,
           stage = "starting", idx \in DOMAIN items, items[idx] = from,
           items' = [items EXCEPT ![idx] = k],
           stage' = stage, result' = result
    PROVE  Abs!AChild
BY DEF Abs!AChild

\* The abstract state is the part of the state the step leaves alone.
LEMMA KeepsAbstract ==
    ASSUME stage' = stage, items' = items, result' = result
    PROVE  UNCHANGED Abs!avars
BY DEF Abs!avars

\* Every step of the group, with the invariant before and after it, is a
\* step of the abstract spec or leaves its state alone.
LEMMA RefStep ==
    ASSUME RefInv, RefInv', [Next]_vars
    PROVE  [Abs!ANext]_(Abs!avars)
<1>0. /\ items \in Seq(ItemKinds)
      /\ Len(items) \in Nat
      /\ DOMAIN items = 1..Len(items)
      /\ idx \in 1..(Len(items) + 1)
      /\ MaxChildren \in Nat
      /\ pc # "idle" => stage = "starting"
  BY LenProperties, GroupAssumption
  DEF RefInv, TypeInv, TypeOK, BuildAtRest, OkInv, ResolvedAtRest
<1>1. ASSUME NEW t \in StartTimeouts, AddSpec(t) PROVE Abs!ABuild
  <2>1. items' = [j \in 1..(Len(items) + 1) |-> "Spec"]
    BY <1>1, <1>0, SpecSeqShape DEF AddSpec, RefInv, BuildSpecs
  <2>2. Len(items) + 1 \in 0..MaxChildren
    BY <1>1, <1>0 DEF AddSpec
  <2>. QED  BY <1>1, <2>1, <2>2 DEF AddSpec, Abs!ABuild
<1>2. CASE PopSpec
  <2>1. items' = [j \in 1..(Len(items) - 1) |-> "Spec"]
    BY <1>2, <1>0, SpecSeqShape DEF PopSpec, RefInv, BuildSpecs
  <2>2. Len(items) - 1 \in 0..MaxChildren
    BY <1>2, <1>0, EmptySeq DEF PopSpec, RefInv, BuildSpecs
  <2>3. Abs!ABuild
    BY <1>2, <2>1, <2>2 DEF PopSpec, Abs!ABuild
  <2>. QED  BY <2>3 DEF Abs!ANext
<1>3. CASE Start
  <2>1. Abs!AStart
    BY <1>3 DEF Start, StartedItems, Abs!AStart
  <2>. QED  BY <2>1 DEF Abs!ANext
<1>4. CASE Poll
  BY <1>4, KeepsAbstract DEF Poll, buildVars
<1>5. ASSUME NEW r \in {"Pending", "Ok", "Completed"}, PollStart1(r)
      PROVE  Abs!ANext \/ UNCHANGED Abs!avars
  <2>1. CASE r = "Pending"
    BY <1>5, <2>1, KeepsAbstract DEF PollStart1
  <2>2. CASE r # "Pending"
    <3>a. <<"StartFut", StartedAs[r]>> \in Abs!ChildMoves
      BY <2>2, StartedAsMove
    <3>b. stage = "starting" /\ idx \in DOMAIN items
      BY <1>5, <1>0 DEF PollStart1
    <3>c. Abs!AChild
      BY <1>5, <2>2, <3>a, <3>b, SettleIsChild DEF PollStart1
    <3>. QED  BY <3>c DEF Abs!ANext
  <2>. QED  BY <2>1, <2>2
<1>6. ASSUME NEW r \in {"Failed", "Irrecoverable"}, StartFailed1(r)
      PROVE  Abs!ANext \/ UNCHANGED Abs!avars
  <2>a. <<"StartFut", StartedAs[r]>> \in Abs!ChildMoves
    BY StartedAsMove
  <2>b. stage = "starting" /\ idx \in DOMAIN items
    BY <1>6, <1>0 DEF StartFailed1
  <2>c. Abs!AChild
    BY <1>6, <2>a, <2>b, SettleIsChild DEF StartFailed1
  <2>. QED  BY <2>c DEF Abs!ANext
<1>7. ASSUME NEW r \in StartResults, PollStart2(r)
      PROVE  Abs!ANext \/ UNCHANGED Abs!avars
  <2>1. CASE r = "Pending"
    BY <1>7, <2>1, KeepsAbstract DEF PollStart2
  <2>2. CASE r # "Pending"
    <3>a. <<"StartFut", StartedAs[r]>> \in Abs!ChildMoves
      BY <2>2, StartedAsMove DEF StartResults
    <3>b. stage = "starting" /\ idx \in DOMAIN items
      BY <1>7, <1>0 DEF PollStart2
    <3>c. Abs!AChild
      BY <1>7, <2>2, <3>a, <3>b, SettleIsChild DEF PollStart2
    <3>. QED  BY <3>c DEF Abs!ANext
  <2>. QED  BY <2>1, <2>2
<1>8. ASSUME NEW e \in ExitResults, PollSupervisee2(e)
      PROVE  Abs!ANext \/ UNCHANGED Abs!avars
  <2>1. CASE e = "Pending"
    BY <1>8, <2>1, KeepsAbstract DEF PollSupervisee2
  <2>2. CASE e # "Pending"
    <3>a. <<"Supervisee", ExitedAs[e]>> \in Abs!ChildMoves
      BY <2>2, ExitedAsMove DEF ExitResults
    <3>b. stage = "starting" /\ idx \in DOMAIN items
      BY <1>8, <1>0 DEF PollSupervisee2
    <3>c. Abs!AChild
      BY <1>8, <2>2, <3>a, <3>b, SettleIsChild DEF PollSupervisee2
    <3>. QED  BY <3>c DEF Abs!ANext
  <2>. QED  BY <2>1, <2>2
<1>9. CASE Ready1
  \* Ok, and NoOkWhileStarting after the step says no child is starting.
  <2>1. stage = "starting" /\ stage' = "done" /\ result' = "Ok" /\ items' = items
    BY <1>9, <1>0 DEF Ready1, Resolve
  <2>2. \A j \in DOMAIN items : items[j] # "StartFut"
    BY <2>1 DEF RefInv, OkInv, NoOkWhileStarting
  <2>3. Abs!AResolve
    BY <2>1, <2>2 DEF Abs!AResolve, Abs!Outcomes
  <2>. QED  BY <2>3 DEF Abs!ANext
<1>10. CASE Drained2 \/ Timeout2
  \* take_start_now's verdict is an abstract outcome, Ok only without a
  \* start future, and never Failed, so the items are kept.
  <2>1. /\ stage = "starting" /\ stage' = "done"
        /\ result' = Verdict(items)
        /\ items' = IF Verdict(items) = "Failed" THEN SpecsOnly(items) ELSE items
    BY <1>10, <1>0 DEF Drained2, Timeout2, Resolve
  <2>2. Verdict(items) \in Abs!Outcomes /\ Verdict(items) # "Failed"
    BY TakeStartNowOutcomes DEF Abs!Outcomes
  <2>3. Verdict(items) = "Ok" => \A j \in DOMAIN items : items[j] # "StartFut"
    BY VerdictOkNoStartFut
  <2>4. Abs!AResolve
    BY <2>1, <2>2, <2>3 DEF Abs!AResolve
  <2>. QED  BY <2>4 DEF Abs!ANext
<1>11. CASE \/ Skip1 \/ EndLoop1 \/ Escalate1 \/ Timeout1 \/ Pending1
            \/ Skip2 \/ EndLoop2 \/ Pending2
  BY <1>11, KeepsAbstract
  DEF Skip1, EndLoop1, Escalate1, Timeout1, Pending1, Skip2, EndLoop2,
      Pending2, EnterPhase2, buildVars
<1>12. CASE Tick \/ Halt \/ Abort
  BY <1>12, KeepsAbstract DEF Tick, Halt, Abort, buildVars
<1>13. CASE UNCHANGED vars
  BY <1>13, KeepsAbstract DEF vars
<1>. QED
  BY <1>1, <1>2, <1>3, <1>4, <1>5, <1>6, <1>7, <1>8, <1>9, <1>10, <1>11,
     <1>12, <1>13 DEF Next, PollStep, Abs!ANext

\* The group's start protocol implements the safety part of its abstract
\* promise: OneForOneSpec::start, OneForOneStartFut::poll with its timers
\* and limiter, and the supervisee's halt/abort only ever build, start,
\* settle one child, or resolve to Ok (with no child starting) or
\* Irrecoverable.
THEOREM ImplementsAbstractSafety == Spec => Abs!ASpec
<1>1. Init => Abs!AInit
  BY DEF Init, Abs!AInit
<1>. QED  BY <1>1, RefInvariant, RefStep, PTL DEF Spec, Abs!ASpec
====
