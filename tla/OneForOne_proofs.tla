--------------------------- MODULE OneForOne_proofs ---------------------------
(***************************************************************************)
(* Proofs about the one-for-one start future, for every value of the      *)
(* constants that satisfies LimiterAssumption and GroupAssumption.        *)
(***************************************************************************)
EXTENDS OneForOne, SequenceTheorems, FiniteSetTheorems, TLAPS

\* The builder's state: no poll has begun, so the loop index is at rest.
BuildAtRest == stage = "build" => pc = "idle" /\ idx = 1

\* TypeOK together with the fact it needs to be inductive.
TypeInv == TypeOK /\ BuildAtRest

(***************************************************************************)
(* The strengthening of NoOkWhileStarting.  In phase 1, all_ready still   *)
(* true means that every item the loop has passed is no start future; at *)
(* the end of the loop the loop has passed every item; and the items are  *)
(* not touched once the future has resolved.                              *)
(***************************************************************************)
ResolvedAtRest ==
    /\ (result # "none") <=> (stage = "done")
    /\ stage = "done" => pc = "idle"

PassedNotStarting ==
    pc \in {"loop1", "after1"} /\ ~startFailure /\ allReady
        => \A j \in 1..(idx - 1) : items[j] # "StartFut"

LoopFinished ==
    pc = "after1" /\ ~startFailure => idx = Len(items) + 1

OkInv ==
    /\ NoOkWhileStarting
    /\ ResolvedAtRest
    /\ PassedNotStarting
    /\ LoopFinished

LEMMA StartTimeType ==
    ASSUME NEW ts \in Seq(StartTimeouts)
    PROVE  StartTime(ts) \in {m + Slack : m \in {0} \cup StartTimeouts}
<1>1. CASE ts = <<>>
  BY <1>1, GroupAssumption DEF StartTime
<1>2. CASE ts # <<>>
  <2>1. Len(ts) \in Nat \ {0} /\ DOMAIN ts = 1..Len(ts)
    BY <1>2, EmptySeq, LenProperties
  <2>2. \A j \in DOMAIN ts : ts[j] \in StartTimeouts
    BY LenProperties
  <2>3. SpecTimes(ts) \in SUBSET StartTimeouts
    BY <2>2 DEF SpecTimes
  <2>4. SpecTimes(ts) # {}
    <3>1. 1 \in DOMAIN ts  BY <2>1
    <3>. QED  BY <3>1 DEF SpecTimes
  <2>5. \E m \in SpecTimes(ts) : \A x \in SpecTimes(ts) : x <= m
    BY <2>3, <2>4, GroupAssumption, Zenon
  <2>6. (CHOOSE m \in SpecTimes(ts) : \A x \in SpecTimes(ts) : x <= m) \in StartTimeouts
    BY <2>3, <2>5
  <2>7. StartTime(ts) = (CHOOSE m \in SpecTimes(ts) : \A x \in SpecTimes(ts) : x <= m) + Slack
    BY <1>2 DEF StartTime
  <2>. QED  BY <2>6, <2>7, Zenon
<1>. QED  BY <1>1, <1>2

LEMMA SpecsOnlyType ==
    ASSUME NEW its \in Seq(ItemKinds)
    PROVE  SpecsOnly(its) \in Seq(ItemKinds)
<1>1. {k \in DOMAIN its : its[k] = "Spec"} \subseteq 1..Len(its)
  OBVIOUS
<1>2. IsFiniteSet({k \in DOMAIN its : its[k] = "Spec"})
  BY <1>1, FS_Interval, FS_Subset
<1>3. Cardinality({k \in DOMAIN its : its[k] = "Spec"}) \in Nat
  BY <1>2, FS_CardinalityType
<1>. QED  BY <1>3 DEF SpecsOnly, ItemKinds

\* take_start_now answers only Ok or Irrecoverable: `ok` is false only when
\* some item is a start future or irrecoverable, and then `irrecoverable`
\* is true, so its Completed and Failed branches are dead code.
THEOREM TakeStartNowOutcomes ==
    ASSUME NEW its
    PROVE  Verdict(its) \in {"Ok", "Irrecoverable"}
BY DEF Verdict

LEMMA VerdictType ==
    ASSUME NEW its
    PROVE  Verdict(its) \in Verdicts /\ Verdict(its) # "Failed"
BY TakeStartNowOutcomes DEF Verdicts

\* Replacing one item keeps a sequence of item kinds of the same length.
LEMMA ReplaceItemType ==
    ASSUME NEW its \in Seq(ItemKinds), NEW i \in 1..Len(its), NEW k \in ItemKinds
    PROVE  /\ [its EXCEPT ![i] = k] \in Seq(ItemKinds)
           /\ Len([its EXCEPT ![i] = k]) = Len(its)
BY DEF ItemKinds

\* Starting every item keeps a sequence of item kinds of the same length.
LEMMA StartAllType ==
    ASSUME NEW its \in Seq(ItemKinds)
    PROVE  /\ StartedItems(its) \in Seq(ItemKinds)
           /\ Len(StartedItems(its)) = Len(its)
BY DEF ItemKinds, StartedItems

LEMMA StartedAsType ==
    ASSUME NEW r \in {"Ok", "Completed", "Failed", "Irrecoverable"}
    PROVE  StartedAs[r] \in ItemKinds
BY DEF StartedAs, ItemKinds

LEMMA ExitedAsType ==
    ASSUME NEW e \in {"Restart", "Finished", "Error"}
    PROVE  ExitedAs[e] \in ItemKinds
BY DEF ExitedAs, ItemKinds

\* Resolving keeps the items a sequence of item kinds.
LEMMA ResolveType ==
    ASSUME NEW v \in Verdicts, items \in Seq(ItemKinds), Resolve(v)
    PROVE  items' \in Seq(ItemKinds) /\ result' \in {"none"} \cup Verdicts
BY SpecsOnlyType DEF Resolve

\* The restart limiter's log stays a sequence of instants.
LEMMA RecordType ==
    ASSUME NEW log \in Seq(Nat), NEW t \in Nat
    PROVE  Record(log, t) \in Seq(Nat)
BY DEF Record

\* The initial state is well typed, with the builder at rest.
LEMMA TypeInit == Init => TypeInv
<1> SUFFICES ASSUME Init PROVE TypeInv
  OBVIOUS
<1>1. <<>> \in Seq(ItemKinds) /\ <<>> \in Seq(StartTimeouts) /\ <<>> \in Seq(Nat)
  BY EmptySeq
<1>2. idx \in 1..(Len(items) + 1)
  BY EmptySeq DEF Init
<1>. QED  BY <1>1, <1>2 DEF Init, TypeInv, TypeOK, BuildAtRest, Verdicts

\* Every step keeps the state well typed.
LEMMA TypeStep == TypeInv /\ [Next]_vars => TypeInv'
<1> SUFFICES ASSUME TypeInv, [Next]_vars PROVE TypeInv'
  OBVIOUS
<1>0. /\ Len(items) \in Nat
      /\ DOMAIN items = 1..Len(items)
      /\ Len(timeouts) \in Nat
  BY LenProperties DEF TypeInv, TypeOK
<1>. USE DEF TypeInv, TypeOK, BuildAtRest
<1>1. ASSUME NEW t \in StartTimeouts, AddSpec(t) PROVE TypeInv'
  <2>1. items' \in Seq(ItemKinds) /\ Len(items') = Len(items) + 1
    BY <1>1, AppendProperties DEF AddSpec, ItemKinds
  <2>2. timeouts' \in Seq(StartTimeouts)
    BY <1>1, AppendProperties DEF AddSpec
  <2>. QED  BY <1>0, <1>1, <2>1, <2>2 DEF AddSpec, timerVars, pollVars, superviseeVars
<1>2. CASE PopSpec
  <2>1. Len(items) \in Nat \ {0}
    BY <1>2, EmptySeq DEF PopSpec
  <2>2. items' \in Seq(ItemKinds)
    BY <1>2, <2>1, <1>0, SubSeqProperties DEF PopSpec
  <2>3. timeouts' \in Seq(StartTimeouts)
    <3>1. CASE Len(timeouts) = 0
      BY <1>2, <3>1, EmptySeq, SubSeqEmpty DEF PopSpec
    <3>2. CASE Len(timeouts) # 0
      BY <1>2, <1>0, <3>2, LenProperties, SubSeqProperties DEF PopSpec
    <3>. QED  BY <3>1, <3>2
  <2>4. stage = "build" /\ idx = 1 /\ UNCHANGED <<stage, idx, pc>>
    BY <1>2 DEF PopSpec, pollVars
  <2>5. 1 \in 1..(Len(items') + 1)
    BY <2>2, LenProperties
  <2>. QED  BY <1>2, <2>2, <2>3, <2>4, <2>5 DEF PopSpec, timerVars, pollVars, superviseeVars
<1>3. CASE Start
  <2>1. StartTime(timeouts) \in {m + Slack : m \in {0} \cup StartTimeouts}
    BY StartTimeType
  <2>2. StartTime(timeouts) \in Nat
    BY <2>1, GroupAssumption
  <2>3. items' \in Seq(ItemKinds) /\ Len(items') = Len(items)
    BY <1>3, StartAllType DEF Start
  <2>4. idx' \in 1..(Len(items') + 1)
    BY <1>3, <2>3 DEF Start
  <2>5. shutdownTime' \in {m + Slack : m \in {0} \cup StartTimeouts}
    BY <1>3, <2>1 DEF Start
  <2>6. deadline' \in Nat /\ startDeadline' \in Nat
    BY <1>3, <2>2 DEF Start
  <2>. QED  BY <1>3, <2>2, <2>3, <2>4, <2>5, <2>6 DEF Start, superviseeVars
<1>4. CASE Poll
  BY <1>4, <1>0 DEF Poll, buildVars, timerVars, superviseeVars
<1>5. CASE PollStep
  <2>1. CASE Skip1
    BY <2>1 DEF Skip1, buildVars, timerVars, superviseeVars
  <2>2. ASSUME NEW r \in {"Pending", "Ok", "Completed"}, PollStart1(r)
        PROVE TypeInv'
    <3>1. items' \in Seq(ItemKinds) /\ Len(items') = Len(items)
      <4>1. CASE r = "Pending"
        BY <2>2, <4>1 DEF PollStart1
      <4>2. CASE r # "Pending"
        BY <2>2, <4>2, StartedAsType, ReplaceItemType DEF PollStart1
      <4>. QED  BY <4>1, <4>2
    <3>. QED  BY <2>2, <3>1 DEF PollStart1, timerVars, superviseeVars
  <2>3. ASSUME NEW r \in {"Failed", "Irrecoverable"}, StartFailed1(r)
        PROVE TypeInv'
    <3>1. items' \in Seq(ItemKinds) /\ Len(items') = Len(items)
      BY <2>3, StartedAsType, ReplaceItemType DEF StartFailed1
    <3>2. attempts' \in Seq(Nat)
      BY <2>3, RecordType DEF StartFailed1
    <3>3. stage # "build" /\ idx \in 1..Len(items)
      BY <2>3 DEF StartFailed1
    <3>4. idx' \in 1..(Len(items') + 1) /\ pc' \in {"loop1", "after1"}
          /\ startFailure' \in BOOLEAN
      <4>1. CASE WithinLimit(attempts, now)
        BY <2>3, <3>1, <3>3, <4>1 DEF StartFailed1
      <4>2. CASE ~WithinLimit(attempts, now)
        BY <2>3, <3>1, <3>3, <4>2 DEF StartFailed1
      <4>. QED  BY <4>1, <4>2
    <3>. QED  BY <2>3, <3>1, <3>2, <3>3, <3>4 DEF StartFailed1, timerVars, superviseeVars
  <2>4. CASE EndLoop1
    BY <2>4 DEF EndLoop1, buildVars, timerVars, superviseeVars
  <2>5. CASE Escalate1
    BY <2>5, <1>0 DEF Escalate1, EnterPhase2, buildVars, superviseeVars
  <2>6. CASE Ready1
    <3>1. items' = items /\ result' = "Ok" /\ stage' = "done" /\ pc' = "idle"
      BY <2>6 DEF Ready1, Resolve
    <3>. QED  BY <2>6, <3>1 DEF Ready1, Verdicts, timerVars, superviseeVars
  <2>7. CASE Timeout1
    BY <2>7, <1>0 DEF Timeout1, EnterPhase2, buildVars, superviseeVars
  <2>8. CASE Pending1
    BY <2>8 DEF Pending1, buildVars, timerVars, superviseeVars
  <2>9. CASE Skip2
    BY <2>9 DEF Skip2, buildVars, timerVars, superviseeVars
  <2>10. ASSUME NEW r \in StartResults, PollStart2(r) PROVE TypeInv'
    <3>1. items' \in Seq(ItemKinds) /\ Len(items') = Len(items)
      <4>1. CASE r = "Pending"
        BY <2>10, <4>1 DEF PollStart2
      <4>2. CASE r # "Pending"
        BY <2>10, <4>2, StartedAsType, ReplaceItemType DEF PollStart2, StartResults
      <4>. QED  BY <4>1, <4>2
    <3>. QED  BY <2>10, <3>1 DEF PollStart2, timerVars, superviseeVars
  <2>11. ASSUME NEW e \in ExitResults, PollSupervisee2(e) PROVE TypeInv'
    <3>1. items' \in Seq(ItemKinds) /\ Len(items') = Len(items)
      <4>1. CASE e = "Pending"
        BY <2>11, <4>1 DEF PollSupervisee2
      <4>2. CASE e # "Pending"
        BY <2>11, <4>2, ExitedAsType, ReplaceItemType DEF PollSupervisee2, ExitResults
      <4>. QED  BY <4>1, <4>2
    <3>. QED  BY <2>11, <3>1 DEF PollSupervisee2, timerVars, superviseeVars
  <2>12. CASE EndLoop2
    BY <2>12 DEF EndLoop2, buildVars, timerVars, superviseeVars
  <2>13. CASE Drained2
    <3>1. items' \in Seq(ItemKinds) /\ result' \in {"none"} \cup Verdicts
      BY <2>13, ResolveType, VerdictType DEF Drained2
    <3>2. stage' = "done" /\ pc' = "idle"
      BY <2>13 DEF Drained2, Resolve
    <3>3. idx' \in 1..(Len(items') + 1)
      BY <2>13, VerdictType DEF Drained2, Resolve
    <3>. QED  BY <2>13, <3>1, <3>2, <3>3 DEF Drained2, timerVars, superviseeVars
  <2>14. CASE Timeout2
    <3>1. items' \in Seq(ItemKinds) /\ result' \in {"none"} \cup Verdicts
      BY <2>14, ResolveType, VerdictType DEF Timeout2
    <3>2. stage' = "done" /\ pc' = "idle"
      BY <2>14 DEF Timeout2, Resolve
    <3>3. idx' \in 1..(Len(items') + 1)
      BY <2>14, VerdictType DEF Timeout2, Resolve
    <3>. QED  BY <2>14, <3>1, <3>2, <3>3 DEF Timeout2, superviseeVars
  <2>15. CASE Pending2
    BY <2>15 DEF Pending2, buildVars, timerVars, superviseeVars
  <2>. QED  BY <1>5, <2>1, <2>2, <2>3, <2>4, <2>5, <2>6, <2>7, <2>8, <2>9,
               <2>10, <2>11, <2>12, <2>13, <2>14, <2>15 DEF PollStep
<1>6. CASE Tick
  BY <1>6 DEF Tick, buildVars, timerVars, pollVars, superviseeVars
<1>7. CASE Halt
  BY <1>7, <1>0 DEF Halt, Running, buildVars, timerVars, pollVars
<1>8. CASE Abort
  BY <1>8, <1>0 DEF Abort, Running, buildVars, timerVars, pollVars
<1>9. CASE UNCHANGED vars
  BY <1>9 DEF vars
<1>. QED  BY <1>1, <1>2, <1>3, <1>4, <1>5, <1>6, <1>7, <1>8, <1>9 DEF Next

\* The type invariant holds in every state of the specification.
THEOREM TypeCorrect == Spec => []TypeOK
BY TypeInit, TypeStep, PTL DEF Spec, TypeInv

-----------------------------------------------------------------------------
\* An Ok verdict of take_start_now leaves no start future.
LEMMA VerdictOkNoStartFut ==
    ASSUME NEW its, Verdict(its) = "Ok"
    PROVE  \A j \in DOMAIN its : its[j] # "StartFut"
BY DEF Verdict

LEMMA OkInit == Init => OkInv
BY DEF Init, OkInv, NoOkWhileStarting, ResolvedAtRest, PassedNotStarting,
       LoopFinished

LEMMA OkStep == TypeInv /\ OkInv /\ [Next]_vars => OkInv'
<1> SUFFICES ASSUME TypeInv, OkInv, [Next]_vars PROVE OkInv'
  OBVIOUS
<1>0. /\ Len(items) \in Nat
      /\ DOMAIN items = 1..Len(items)
      /\ idx \in 1..(Len(items) + 1)
      /\ stage = "build" => pc = "idle"
  BY LenProperties DEF TypeInv, TypeOK, BuildAtRest
<1>. USE DEF OkInv, NoOkWhileStarting, ResolvedAtRest, PassedNotStarting,
             LoopFinished
<1>1. ASSUME NEW t \in StartTimeouts, AddSpec(t) PROVE OkInv'
  <2>1. stage = "build" /\ stage' = "build" /\ pc' = "idle" /\ result' = result
    BY <1>1, <1>0 DEF AddSpec, pollVars
  <2>. QED  BY <2>1
<1>2. CASE PopSpec
  <2>1. stage = "build" /\ stage' = "build" /\ pc' = "idle" /\ result' = result
    BY <1>2, <1>0 DEF PopSpec, pollVars
  <2>. QED  BY <2>1
<1>3. CASE Start
  BY <1>3 DEF Start
<1>4. CASE Poll
  BY <1>4 DEF Poll
<1>5. CASE PollStep
  <2>1. CASE Skip1
    BY <2>1, <1>0 DEF Skip1, buildVars
  <2>2. ASSUME NEW r \in {"Pending", "Ok", "Completed"}, PollStart1(r)
        PROVE OkInv'
    <3>1. stage # "done" /\ result = "none"
      BY <2>2 DEF PollStart1
    <3>2. DOMAIN items' = DOMAIN items
      BY <2>2 DEF PollStart1
    <3>3. ~startFailure' /\ allReady' =>
            \A j \in 1..(idx' - 1) : items'[j] # "StartFut"
      <4>1. CASE r = "Pending"
        BY <2>2, <4>1 DEF PollStart1
      <4>2. CASE r # "Pending"
        <5>1. items'[idx] # "StartFut"
          BY <2>2, <4>2, <1>0 DEF PollStart1, StartedAs
        <5>2. \A j \in 1..(idx - 1) : items'[j] = items[j]
          BY <2>2, <4>2, <1>0 DEF PollStart1
        <5>3. idx' = idx + 1 /\ idx \in 1..Len(items) /\ pc = "loop1"
          BY <2>2, <1>0 DEF PollStart1
        <5>4. (allReady' => allReady) /\ startFailure' = startFailure
          BY <2>2, Zenon DEF PollStart1
        <5>. QED  BY <5>1, <5>2, <5>3, <5>4, <1>0
      <4>. QED  BY <4>1, <4>2
    <3>. QED  BY <2>2, <3>1, <3>2, <3>3 DEF PollStart1
  <2>3. ASSUME NEW r \in {"Failed", "Irrecoverable"}, StartFailed1(r)
        PROVE OkInv'
    <3>1. stage # "done" /\ result = "none" /\ result' = "none" /\ stage' = stage
      BY <2>3 DEF StartFailed1
    <3>2. items'[idx] # "StartFut" /\ \A j \in 1..(idx - 1) : items'[j] = items[j]
      BY <2>3, <1>0 DEF StartFailed1, StartedAs
    <3>3. CASE WithinLimit(attempts, now)
      BY <2>3, <3>1, <3>2, <3>3, <1>0 DEF StartFailed1
    <3>4. CASE ~WithinLimit(attempts, now)
      BY <2>3, <3>1, <3>4 DEF StartFailed1
    <3>. QED  BY <3>3, <3>4
  <2>4. CASE EndLoop1
    BY <2>4, <1>0 DEF EndLoop1, buildVars
  <2>5. CASE Escalate1
    BY <2>5 DEF Escalate1, EnterPhase2
  <2>6. CASE Ready1
    <3>1. \A j \in DOMAIN items : items[j] # "StartFut"
      BY <2>6, <1>0 DEF Ready1
    <3>. QED  BY <2>6, <3>1 DEF Ready1, Resolve
  <2>7. CASE Timeout1
    BY <2>7 DEF Timeout1, EnterPhase2
  <2>8. CASE Pending1
    BY <2>8 DEF Pending1
  <2>9. CASE Skip2
    BY <2>9 DEF Skip2
  <2>10. ASSUME NEW r \in StartResults, PollStart2(r) PROVE OkInv'
    BY <2>10 DEF PollStart2
  <2>11. ASSUME NEW e \in ExitResults, PollSupervisee2(e) PROVE OkInv'
    BY <2>11 DEF PollSupervisee2
  <2>12. CASE EndLoop2
    BY <2>12 DEF EndLoop2
  <2>13. CASE Drained2
    <3>1. items' = items /\ result' = Verdict(items) /\ stage' = "done"
          /\ pc' = "idle"
      BY <2>13, VerdictType DEF Drained2, Resolve
    <3>2. result' = "Ok" => \A j \in DOMAIN items : items[j] # "StartFut"
      BY <3>1, VerdictOkNoStartFut
    <3>3. result' # "none"
      BY <3>1, VerdictType DEF Verdicts
    <3>. QED  BY <3>1, <3>2, <3>3
  <2>14. CASE Timeout2
    <3>1. items' = items /\ result' = Verdict(items) /\ stage' = "done"
          /\ pc' = "idle"
      BY <2>14, VerdictType DEF Timeout2, Resolve
    <3>2. result' = "Ok" => \A j \in DOMAIN items : items[j] # "StartFut"
      BY <3>1, VerdictOkNoStartFut
    <3>3. result' # "none"
      BY <3>1, VerdictType DEF Verdicts
    <3>. QED  BY <3>1, <3>2, <3>3
  <2>15. CASE Pending2
    BY <2>15 DEF Pending2
  <2>. QED  BY <1>5, <2>1, <2>2, <2>3, <2>4, <2>5, <2>6, <2>7, <2>8, <2>9,
               <2>10, <2>11, <2>12, <2>13, <2>14, <2>15 DEF PollStep
<1>6. CASE Tick
  BY <1>6 DEF Tick, buildVars, pollVars
<1>7. CASE Halt
  BY <1>7 DEF Halt, buildVars, pollVars
<1>8. CASE Abort
  BY <1>8 DEF Abort, buildVars, pollVars
<1>9. CASE UNCHANGED vars
  BY <1>9 DEF vars
<1>. QED  BY <1>1, <1>2, <1>3, <1>4, <1>5, <1>6, <1>7, <1>8, <1>9 DEF Next

\* The group never reports Ok while a child is still starting, for every
\* number of children, start times, slack and restart budget.
THEOREM OkMeansNoneStarting == Spec => []NoOkWhileStarting
<1>1. Init => TypeInv /\ OkInv
  BY TypeInit, OkInit
<1>2. TypeInv /\ OkInv /\ [Next]_vars => (TypeInv /\ OkInv)'
  BY TypeStep, OkStep
<1>. QED  BY <1>1, <1>2, PTL DEF Spec, OkInv

-----------------------------------------------------------------------------
(***************************************************************************)
(* The strengthening of ShutdownDrainFull.  Throughout the drain the      *)
(* timer is the Sleep armed when it began, shutdown_time long; and in a   *)
(* phase 2 pass, all_ready still true means that every item passed is     *)
(* settled, so a drain that ends with a child unsettled ends on the       *)
(* timer.                                                                  *)
(***************************************************************************)
DrainTimer ==
    stage = "starting" /\ startFailure /\ pc \in {"idle", "loop2", "after2"}
        => timerArmed /\ deadline = drainStart + shutdownTime

PassedSettled ==
    pc \in {"loop2", "after2"} /\ allReady
        => \A j \in 1..(idx - 1) : items[j] \notin {"StartFut", "Supervisee"}

Drain2Finished == pc = "after2" => idx = Len(items) + 1

DrainInv == DrainTimer /\ PassedSettled /\ Drain2Finished

LEMMA DrainInit == Init => DrainInv
BY DEF Init, DrainInv, DrainTimer, PassedSettled, Drain2Finished

LEMMA DrainStep == TypeInv /\ DrainInv /\ [Next]_vars => DrainInv'
<1> SUFFICES ASSUME TypeInv, DrainInv, [Next]_vars PROVE DrainInv'
  OBVIOUS
<1>0. /\ Len(items) \in Nat
      /\ DOMAIN items = 1..Len(items)
      /\ idx \in 1..(Len(items) + 1)
      /\ stage = "build" => pc = "idle"
  BY LenProperties DEF TypeInv, TypeOK, BuildAtRest
<1>. USE DEF DrainInv, DrainTimer, PassedSettled, Drain2Finished
<1>1. ASSUME NEW t \in StartTimeouts, AddSpec(t) PROVE DrainInv'
  BY <1>1, <1>0 DEF AddSpec, pollVars, timerVars
<1>2. CASE PopSpec
  BY <1>2, <1>0 DEF PopSpec, pollVars, timerVars
<1>3. CASE Start
  BY <1>3, <1>0 DEF Start
<1>4. CASE Poll
  BY <1>4 DEF Poll, buildVars, timerVars
<1>5. CASE PollStep
  <2>1. CASE Skip1 \/ EndLoop1 \/ Pending1
    BY <2>1 DEF Skip1, EndLoop1, Pending1, buildVars, timerVars
  <2>2. ASSUME NEW r \in {"Pending", "Ok", "Completed"}, PollStart1(r)
        PROVE DrainInv'
    BY <2>2 DEF PollStart1, timerVars
  <2>3. ASSUME NEW r \in {"Failed", "Irrecoverable"}, StartFailed1(r)
        PROVE DrainInv'
    BY <2>3 DEF StartFailed1, timerVars
  <2>4. CASE Escalate1 \/ Timeout1
    BY <2>4 DEF Escalate1, Timeout1, EnterPhase2
  <2>5. CASE Ready1 \/ Drained2 \/ Timeout2
    BY <2>5 DEF Ready1, Drained2, Timeout2, Resolve
  <2>6. CASE Skip2
    <3>1. \A j \in 1..idx : items[j] \notin {"StartFut", "Supervisee"} \/ ~allReady
      BY <2>6, <1>0 DEF Skip2
    <3>. QED  BY <2>6, <3>1, <1>0 DEF Skip2, buildVars, timerVars
  <2>7. ASSUME NEW r \in StartResults, PollStart2(r) PROVE DrainInv'
    <3>1. idx \in 1..Len(items) /\ idx' = idx + 1 /\ pc' = pc /\ pc = "loop2"
      BY <2>7, <1>0 DEF PollStart2
    <3>2. DOMAIN items' = DOMAIN items /\ \A j \in 1..(idx - 1) : items'[j] = items[j]
      BY <2>7, <3>1, <1>0 DEF PollStart2
    <3>3. allReady' => allReady /\ items'[idx] \notin {"StartFut", "Supervisee"}
      <4>1. CASE r \in {"Pending", "Ok"}
        BY <2>7, <4>1 DEF PollStart2
      <4>2. CASE r \in {"Completed", "Failed", "Irrecoverable"}
        <5>1. items'[idx] = StartedAs[r] /\ (allReady' => allReady)
          BY <2>7, <3>1, <4>2, <1>0 DEF PollStart2
        <5>2. StartedAs[r] \in {"Completed", "Spec", "Irrecoverable"}
          BY <4>2 DEF StartedAs
        <5>. QED  BY <5>1, <5>2
      <4>. QED  BY <4>1, <4>2 DEF StartResults
    <3>4. PassedSettled'
      BY <3>1, <3>2, <3>3, <1>0
    <3>. QED  BY <2>7, <3>1, <3>4 DEF PollStart2, timerVars
  <2>8. ASSUME NEW e \in ExitResults, PollSupervisee2(e) PROVE DrainInv'
    <3>1. idx \in 1..Len(items) /\ idx' = idx + 1 /\ pc' = pc /\ pc = "loop2"
      BY <2>8, <1>0 DEF PollSupervisee2
    <3>2. DOMAIN items' = DOMAIN items /\ \A j \in 1..(idx - 1) : items'[j] = items[j]
      BY <2>8, <3>1, <1>0 DEF PollSupervisee2
    <3>3. allReady' => allReady /\ items'[idx] \notin {"StartFut", "Supervisee"}
      <4>1. CASE e = "Pending"
        BY <2>8, <4>1 DEF PollSupervisee2
      <4>2. CASE e \in {"Restart", "Finished", "Error"}
        <5>1. items'[idx] = ExitedAs[e] /\ (allReady' => allReady)
          BY <2>8, <3>1, <4>2, <1>0 DEF PollSupervisee2
        <5>2. ExitedAs[e] \in {"Spec", "Completed", "Irrecoverable"}
          BY <4>2 DEF ExitedAs
        <5>. QED  BY <5>1, <5>2
      <4>. QED  BY <4>1, <4>2 DEF ExitResults
    <3>4. PassedSettled'
      BY <3>1, <3>2, <3>3, <1>0
    <3>. QED  BY <2>8, <3>1, <3>4 DEF PollSupervisee2, timerVars
  <2>9. CASE EndLoop2
    BY <2>9, <1>0 DEF EndLoop2, buildVars, timerVars
  <2>10. CASE Pending2
    BY <2>10 DEF Pending2, buildVars, timerVars
  <2>. QED  BY <1>5, <2>1, <2>2, <2>3, <2>4, <2>5, <2>6, <2>7, <2>8, <2>9,
               <2>10 DEF PollStep
<1>6. CASE Tick
  BY <1>6 DEF Tick, buildVars, timerVars, pollVars
<1>7. CASE Halt \/ Abort
  BY <1>7 DEF Halt, Abort, buildVars, timerVars, pollVars
<1>8. CASE UNCHANGED vars
  BY <1>8 DEF vars
<1>. QED  BY <1>1, <1>2, <1>3, <1>4, <1>5, <1>6, <1>7, <1>8 DEF Next

\* Under the invariants, a step that resolves the drain with a child still
\* starting or running is the timer's: Timeout2 on the Sleep armed when
\* the drain began.  Drained2 cannot leave one, Ready1 is not in the drain.
LEMMA DrainFullStep ==
    ASSUME TypeInv, DrainInv, [Next]_vars,
           stage = "starting", startFailure, stage' = "done",
           NEW k \in DOMAIN items, items[k] \in {"StartFut", "Supervisee"}
    PROVE  now >= drainStart + shutdownTime
<1>0. /\ Len(items) \in Nat
      /\ DOMAIN items = 1..Len(items)
      /\ now \in Nat /\ deadline \in Nat
  BY LenProperties DEF TypeInv, TypeOK
<1>1. CASE Timeout2
  <2>1. pc = "after2" /\ (~timerArmed \/ now >= deadline)
    BY <1>1 DEF Timeout2, TimeLimitReached
  <2>2. timerArmed /\ deadline = drainStart + shutdownTime
    BY <2>1 DEF DrainInv, DrainTimer
  <2>. QED  BY <2>1, <2>2
<1>2. CASE Drained2
  <2>1. pc = "after2" /\ allReady
    BY <1>2 DEF Drained2
  <2>2. idx = Len(items) + 1
    BY <2>1 DEF DrainInv, Drain2Finished
  <2>. QED  BY <2>1, <2>2, <1>0 DEF DrainInv, PassedSettled
<1>3. CASE Ready1
  BY <1>3 DEF Ready1
<1>4. CASE ~Timeout2 /\ ~Drained2 /\ ~Ready1
  \* Every other step leaves the stage alone, or starts the group.
  <2>1. stage' # "done"
    BY <1>4 DEF Next, PollStep, AddSpec, PopSpec, Start, Poll, Skip1, PollStart1,
                StartFailed1, EndLoop1, Escalate1, Timeout1, Pending1, Skip2,
                PollStart2, PollSupervisee2, EndLoop2, Pending2, Tick, Halt, Abort,
                vars
  <2>. QED  BY <2>1
<1>. QED  BY <1>1, <1>2, <1>3, <1>4

\* The shutdown drain is never cut short, for every number of children,
\* start times, slack and restart budget: with start_failure set, the group
\* gives up on a child still starting or running only once shutdown_time
\* has passed since the drain began (ShutdownDrainFull).
THEOREM DrainNeverCutShort == Spec => ShutdownDrainFull
<1>1. Spec => [](TypeInv /\ DrainInv)
  <2>1. Init => TypeInv /\ DrainInv
    BY TypeInit, DrainInit
  <2>2. TypeInv /\ DrainInv /\ [Next]_vars => (TypeInv /\ DrainInv)'
    BY TypeStep, DrainStep
  <2>. QED  BY <2>1, <2>2, PTL DEF Spec
<1>2. TypeInv /\ DrainInv /\ [Next]_vars
        => [ /\ stage = "starting" /\ startFailure /\ stage' = "done"
             /\ \E j \in DOMAIN items : items[j] \in {"StartFut", "Supervisee"}
             => now >= drainStart + shutdownTime ]_vars
  BY DrainFullStep
<1>. QED  BY <1>1, <1>2, PTL DEF Spec, ShutdownDrainFull

=============================================================================
