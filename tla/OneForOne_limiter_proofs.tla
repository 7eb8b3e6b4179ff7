----------------------- MODULE OneForOne_limiter_proofs -----------------------
(***************************************************************************)
(* Proofs about the start future's use of the restart limiter: the group   *)
(* escalates to phase 2 only when it has a reason to, and it stops asking  *)
(* the limiter once the limiter has refused, for every value of the        *)
(* constants.                                                              *)
(***************************************************************************)
EXTENDS OneForOne_proofs

(***************************************************************************)
(* The strengthening.  Phase 1's loop runs only while start_failure is     *)
(* false; until then the first Sleep is the armed timer; a refusal of the  *)
(* limiter always sets start_failure; and a builder has no attempts.       *)
(***************************************************************************)
PhaseOneNoFailure == pc = "loop1" => ~startFailure

FirstTimerArmed ==
    stage = "starting" /\ ~startFailure => timerArmed /\ deadline = startDeadline

ExhaustedEscalates == Exhausted(attempts) => startFailure

BuildFresh == stage = "build" => attempts = <<>> /\ ~startFailure

EscInv ==
    /\ PhaseOneNoFailure
    /\ FirstTimerArmed
    /\ ExhaustedEscalates
    /\ BuildFresh
    /\ LimiterNotCalledAfterExhaustion
    /\ EscalationJustified

-----------------------------------------------------------------------------
(* The limiter's log under Record: the calls already made keep their     *)
(* answers, and the new call is judged on the old log.                   *)

LEMMA PrefixOfAppend ==
    ASSUME NEW a \in Seq(Nat), NEW t \in Nat, NEW j \in 1..(Len(a) + 1)
    PROVE  [k \in 1..(j - 1) |-> Append(a, t)[k]] = [k \in 1..(j - 1) |-> a[k]]
BY AppendProperties

LEMMA RejectedAtAppend ==
    ASSUME NEW a \in Seq(Nat), NEW t \in Nat, NEW j \in 1..Len(a)
    PROVE  RejectedAt(Append(a, t), j) <=> RejectedAt(a, j)
<1>1. [k \in 1..(j - 1) |-> Append(a, t)[k]] = [k \in 1..(j - 1) |-> a[k]]
  BY PrefixOfAppend
<1>2. Append(a, t)[j] = a[j]
  BY AppendProperties
<1>. QED  BY <1>1, <1>2 DEF RejectedAt

LEMMA RejectedAtLast ==
    ASSUME NEW a \in Seq(Nat), NEW t \in Nat
    PROVE  RejectedAt(Append(a, t), Len(a) + 1) <=> ~WithinLimit(a, t)
<1>1. [k \in 1..(Len(a) + 1 - 1) |-> Append(a, t)[k]] = a
  <2>1. [k \in 1..(Len(a) + 1 - 1) |-> Append(a, t)[k]] = [k \in 1..Len(a) |-> a[k]]
    BY PrefixOfAppend
  <2>2. a = [k \in 1..Len(a) |-> a[k]]
    BY LenProperties
  <2>. QED  BY <2>1, <2>2
<1>2. Append(a, t)[Len(a) + 1] = t
  BY AppendProperties
<1>. QED  BY <1>1, <1>2 DEF RejectedAt

\* Recording a call on a log with no refusal: the only refusal the new log
\* can hold is the new call, and it is one exactly when the limit is hit.
LEMMA RecordOnFreshLog ==
    ASSUME NEW a \in Seq(Nat), NEW t \in Nat, ~Exhausted(a)
    PROVE  /\ Exhausted(Record(a, t)) <=> ~WithinLimit(a, t)
           /\ \A j \in DOMAIN Record(a, t) :
                 RejectedAt(Record(a, t), j) => j = Len(Record(a, t))
<1>1. DOMAIN Record(a, t) = 1..(Len(a) + 1) /\ Len(Record(a, t)) = Len(a) + 1
  BY AppendProperties DEF Record
<1>2. \A j \in 1..Len(a) : ~RejectedAt(Record(a, t), j)
  <2>1. \A j \in 1..Len(a) : ~RejectedAt(a, j)
    BY LenProperties DEF Exhausted
  <2>. QED  BY <2>1, RejectedAtAppend DEF Record
<1>3. RejectedAt(Record(a, t), Len(a) + 1) <=> ~WithinLimit(a, t)
  BY RejectedAtLast DEF Record
<1>4. \A j \in DOMAIN Record(a, t) : j \in 1..Len(a) \/ j = Len(a) + 1
  BY <1>1
<1>. QED  BY <1>1, <1>2, <1>3, <1>4 DEF Exhausted

LEMMA EmptyLogFresh == ~Exhausted(<<>>)
BY DEF Exhausted

-----------------------------------------------------------------------------

LEMMA EscInit == Init => EscInv
BY EmptyLogFresh DEF Init, EscInv, PhaseOneNoFailure, FirstTimerArmed,
   ExhaustedEscalates, BuildFresh, LimiterNotCalledAfterExhaustion,
   EscalationJustified

LEMMA EscStep == TypeInv /\ OkInv /\ EscInv /\ [Next]_vars => EscInv'
<1> SUFFICES ASSUME TypeInv, OkInv, EscInv, [Next]_vars PROVE EscInv'
  OBVIOUS
<1>0. /\ attempts \in Seq(Nat) /\ now \in Nat /\ startDeadline \in Nat
      /\ stage \in {"build", "starting", "done"}
      /\ pc \in {"after1", "after2", "loop1", "loop2"} => stage = "starting"
  BY DEF TypeInv, TypeOK, BuildAtRest, OkInv, ResolvedAtRest
<1>. USE DEF EscInv, PhaseOneNoFailure, FirstTimerArmed, ExhaustedEscalates,
             BuildFresh
\* The steps that leave pc's phase, start_failure, the timer, the clock and
\* the limiter's log as they are.
<1>1. ASSUME NEW t \in StartTimeouts, AddSpec(t) PROVE EscInv'
  BY <1>1 DEF AddSpec, timerVars, pollVars, LimiterNotCalledAfterExhaustion,
     EscalationJustified
<1>2. CASE PopSpec
  BY <1>2 DEF PopSpec, timerVars, pollVars, LimiterNotCalledAfterExhaustion,
     EscalationJustified
<1>3. CASE Start
  <2>1. attempts = <<>> /\ attempts' = <<>> /\ ~startFailure'
        /\ stage' = "starting" /\ pc' = "idle"
        /\ timerArmed' /\ deadline' = startDeadline'
    BY <1>3 DEF Start
  <2>. QED  BY <2>1, EmptyLogFresh DEF LimiterNotCalledAfterExhaustion,
              EscalationJustified, Exhausted
<1>4. CASE Poll
  BY <1>4 DEF Poll, buildVars, timerVars, LimiterNotCalledAfterExhaustion,
     EscalationJustified
<1>5. CASE PollStep
  <2>1. CASE Skip1
    BY <2>1 DEF Skip1, buildVars, timerVars, LimiterNotCalledAfterExhaustion,
       EscalationJustified
  <2>2. ASSUME NEW r \in {"Pending", "Ok", "Completed"}, PollStart1(r)
        PROVE EscInv'
    BY <2>2 DEF PollStart1, timerVars, LimiterNotCalledAfterExhaustion,
       EscalationJustified
  <2>3. ASSUME NEW r \in {"Failed", "Irrecoverable"}, StartFailed1(r)
        PROVE EscInv'
    <3>1. ~startFailure /\ ~Exhausted(attempts) /\ pc = "loop1"
          /\ stage = "starting" /\ timerArmed /\ deadline = startDeadline
      BY <2>3, <1>0 DEF StartFailed1
    <3>2. /\ attempts' = Record(attempts, now)
          /\ UNCHANGED <<stage, timerArmed, deadline, startDeadline, now>>
      BY <2>3 DEF StartFailed1, timerVars
    <3>3. /\ Exhausted(attempts') <=> ~WithinLimit(attempts, now)
          /\ LimiterNotCalledAfterExhaustion'
      BY <3>1, <3>2, <1>0, RecordOnFreshLog DEF LimiterNotCalledAfterExhaustion
    <3>4. BuildFresh' /\ FirstTimerArmed'
      BY <3>1, <3>2
    <3>5. CASE WithinLimit(attempts, now)
      <4>1. ~startFailure' /\ pc' = "loop1"
        BY <2>3, <3>1, <3>5 DEF StartFailed1
      <4>2. ~Exhausted(attempts')
        BY <3>3, <3>5
      <4>. QED  BY <3>3, <3>4, <4>1, <4>2 DEF EscalationJustified
    <3>6. CASE ~WithinLimit(attempts, now)
      <4>1. startFailure' /\ pc' = "after1"
        BY <2>3, <3>6 DEF StartFailed1
      <4>2. Exhausted(attempts')
        BY <3>3, <3>6
      <4>. QED  BY <3>3, <3>4, <4>1, <4>2 DEF EscalationJustified
    <3>. QED  BY <3>5, <3>6
  <2>4. CASE EndLoop1
    BY <2>4 DEF EndLoop1, buildVars, timerVars, LimiterNotCalledAfterExhaustion,
       EscalationJustified
  <2>5. CASE Escalate1
    <3>1. startFailure /\ startFailure' /\ pc' = "loop2"
          /\ UNCHANGED <<stage, attempts, now, startDeadline>>
      BY <2>5 DEF Escalate1, EnterPhase2
    <3>. QED  BY <3>1 DEF LimiterNotCalledAfterExhaustion, EscalationJustified
  <2>6. CASE Ready1
    <3>1. stage' = "done" /\ pc' = "idle"
          /\ UNCHANGED <<startFailure, attempts, now, startDeadline>>
      BY <2>6 DEF Ready1, Resolve, timerVars
    <3>. QED  BY <3>1, <1>0 DEF LimiterNotCalledAfterExhaustion, EscalationJustified
  <2>7. CASE Timeout1
    <3>1. stage = "starting" /\ ~startFailure
      BY <2>7, <1>0 DEF Timeout1
    <3>2. now >= startDeadline
      BY <2>7, <3>1 DEF Timeout1, TimeLimitReached
    <3>3. startFailure' /\ pc' = "loop2"
          /\ UNCHANGED <<stage, attempts, now, startDeadline>>
      BY <2>7 DEF Timeout1, EnterPhase2
    <3>. QED  BY <3>1, <3>2, <3>3 DEF LimiterNotCalledAfterExhaustion,
                EscalationJustified
  <2>8. CASE Pending1
    BY <2>8 DEF Pending1, buildVars, timerVars, LimiterNotCalledAfterExhaustion,
       EscalationJustified
  <2>9. CASE Skip2
    BY <2>9 DEF Skip2, buildVars, timerVars, LimiterNotCalledAfterExhaustion,
       EscalationJustified
  <2>10. ASSUME NEW r \in StartResults, PollStart2(r) PROVE EscInv'
    BY <2>10 DEF PollStart2, timerVars, LimiterNotCalledAfterExhaustion,
       EscalationJustified
  <2>11. ASSUME NEW e \in ExitResults, PollSupervisee2(e) PROVE EscInv'
    BY <2>11 DEF PollSupervisee2, timerVars, LimiterNotCalledAfterExhaustion,
       EscalationJustified
  <2>12. CASE EndLoop2
    BY <2>12 DEF EndLoop2, buildVars, timerVars, LimiterNotCalledAfterExhaustion,
       EscalationJustified
  <2>13. CASE Drained2
    <3>1. stage' = "done" /\ pc' = "idle"
          /\ UNCHANGED <<startFailure, attempts, now, startDeadline>>
      BY <2>13 DEF Drained2, Resolve, timerVars
    <3>. QED  BY <3>1, <1>0 DEF LimiterNotCalledAfterExhaustion, EscalationJustified
  <2>14. CASE Timeout2
    <3>1. stage' = "done" /\ pc' = "idle"
          /\ UNCHANGED <<startFailure, attempts, now, startDeadline>>
      BY <2>14 DEF Timeout2, Resolve
    <3>. QED  BY <3>1, <1>0 DEF LimiterNotCalledAfterExhaustion, EscalationJustified
  <2>15. CASE Pending2
    BY <2>15 DEF Pending2, buildVars, timerVars, LimiterNotCalledAfterExhaustion,
       EscalationJustified
  <2>. QED  BY <1>5, <2>1, <2>2, <2>3, <2>4, <2>5, <2>6, <2>7, <2>8, <2>9,
               <2>10, <2>11, <2>12, <2>13, <2>14, <2>15 DEF PollStep
<1>6. CASE Tick
  <2>1. now' = now + 1 /\ stage = "starting"
        /\ UNCHANGED <<stage, pc, startFailure, timerArmed, deadline,
                       startDeadline, attempts>>
    BY <1>6 DEF Tick, timerVars, pollVars
  <2>2. EscalationJustified'
    BY <2>1, <1>0 DEF EscalationJustified
  <2>3. LimiterNotCalledAfterExhaustion'
    BY <2>1 DEF LimiterNotCalledAfterExhaustion
  <2>. QED  BY <2>1, <2>2, <2>3
<1>7. CASE Halt
  BY <1>7 DEF Halt, buildVars, timerVars, pollVars,
     LimiterNotCalledAfterExhaustion, EscalationJustified
<1>8. CASE Abort
  BY <1>8 DEF Abort, buildVars, timerVars, pollVars,
     LimiterNotCalledAfterExhaustion, EscalationJustified
<1>9. CASE UNCHANGED vars
  BY <1>9 DEF vars, LimiterNotCalledAfterExhaustion, EscalationJustified
<1>. QED  BY <1>1, <1>2, <1>3, <1>4, <1>5, <1>6, <1>7, <1>8, <1>9 DEF Next

\* The group enters phase 2 only after the restart limiter has refused a
\* restart or the start timer armed by start() has elapsed, whatever the
\* number of children, their start times and the restart budget.
THEOREM EscalationIsJustified == Spec => []EscalationJustified
<1>1. Init => TypeInv /\ OkInv /\ EscInv
  BY TypeInit, OkInit, EscInit
<1>2. TypeInv /\ OkInv /\ EscInv /\ [Next]_vars => (TypeInv /\ OkInv /\ EscInv)'
  BY TypeStep, OkStep, EscStep
<1>. QED  BY <1>1, <1>2, PTL DEF Spec, EscInv

\* Once within_limit() has answered "exceeded", the start future never
\* calls it again: the refusal is the last entry of the limiter's log.
THEOREM LimiterAskedNoMore == Spec => []LimiterNotCalledAfterExhaustion
<1>1. Init => TypeInv /\ OkInv /\ EscInv
  BY TypeInit, OkInit, EscInit
<1>2. TypeInv /\ OkInv /\ EscInv /\ [Next]_vars => (TypeInv /\ OkInv /\ EscInv)'
  BY TypeStep, OkStep, EscStep
<1>. QED  BY <1>1, <1>2, PTL DEF Spec, EscInv

=============================================================================
