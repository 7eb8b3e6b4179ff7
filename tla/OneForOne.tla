------------------------------ MODULE OneForOne ------------------------------
(***************************************************************************)
(* The one-for-one combinator of zestors                                   *)
(* (src/zestors/src/supervision/combinator_specs/one_for_one.rs).          *)
(*                                                                         *)
(* A OneForOneSpec is built by add_spec / pop_spec; start() turns every    *)
(* item into a start future and arms one timer; OneForOneStartFut::poll    *)
(* then runs in two phases.  Phase 1 (start_failure = false) polls every   *)
(* start future, consulting the restart limiter on each failed start, and  *)
(* succeeds once no start future is pending.  Phase 2 (start_failure =     *)
(* true, entered on budget exhaustion or on the timer) drains start        *)
(* futures and running supervisees until all are settled or a fresh timer *)
(* fires, and then take_start_now computes the verdict.  The resulting     *)
(* OneForOneSupervisee forwards halt / abort to its running children.      *)
(*                                                                         *)
(* A poll is one synchronous call, but its loop is modelled one item per   *)
(* step (pc, idx, allReady are the loop's position and locals), so that    *)
(* the clock can move and children can settle between two items.  What a  *)
(* child's future returns when polled is chosen at the poll from the       *)
(* outcomes its type allows; the children themselves are the environment. *)
(***************************************************************************)
EXTENDS Integers, Sequences, FiniteSets, RestartLimiter

CONSTANTS
    MaxChildren,    \* bound on the number of add_spec calls
    StartTimeouts,  \* the start_time() a child specification may report
    Slack,          \* the Duration::from_millis(10) added to the largest
    MaxTime         \* bound on the clock, beyond the armed deadline

ASSUME GroupAssumption ==
    /\ MaxChildren \in Nat
    /\ StartTimeouts \subseteq Nat /\ StartTimeouts # {}
    \* every set of start times has a largest element (StartTimeouts is finite)
    /\ \A S \in SUBSET StartTimeouts : S # {} => \E m \in S : \A x \in S : x <= m
    /\ Slack \in Nat
    /\ MaxTime \in Nat

VARIABLES
    items,          \* OneForOneSpec::items: the variant of each OneForOneItem
    timeouts,       \* start_time() of the specification added at each position
    stage,          \* "build": a OneForOneSpec; "starting": its OneForOneStartFut
                    \* is pending; "done": the start future has resolved
    startFailure,   \* OneForOneStartFut::start_failure
    timerArmed,     \* OneForOneStartFut::timer is Some(_)
    deadline,       \* the instant at which that Sleep elapses
    shutdownTime,   \* OneForOneStartFut::shutdown_time
    startDeadline,  \* history: the deadline of the first Sleep, armed by start()
    drainStart,     \* history: the instant the shutdown drain (phase 2) began
    now,            \* tokio's Instant::now(), in ticks
    attempts,       \* the restart limiter's log of attempt instants
    pc,             \* where OneForOneStartFut::poll is: "idle" (returned
                    \* Pending), "loop1"/"after1" (phase 1 loop / after it),
                    \* "loop2"/"after2" (phase 2 loop / after it)
    idx,            \* the item the 'inner loop is at
    allReady,       \* the local all_ready of the current pass
    result,         \* "none" until resolved, then the StartResult's variant
    halted,         \* OneForOneSupervisee::halted
    aborted,        \* OneForOneSupervisee::aborted
    signals         \* <<i, s>>: the supervisee forwarded signal s to item i

buildVars == <<items, timeouts>>
timerVars == <<timerArmed, deadline, shutdownTime, startDeadline, drainStart>>
pollVars == <<pc, idx, allReady>>
superviseeVars == <<halted, aborted, signals>>
vars == <<items, timeouts, stage, startFailure, timerArmed, deadline,
          shutdownTime, startDeadline, drainStart, now, attempts, pc, idx, allReady,
          result, halted, aborted, signals>>

-----------------------------------------------------------------------------
(* The variants of OneForOneItem, and what the children's futures return. *)

ItemKinds == {"Spec", "StartFut", "Supervisee", "Irrecoverable", "Completed"}

\* Poll of a DynStartFut: Pending, Ok((supervisee, ref)), or a StartError.
StartResults == {"Pending", "Ok", "Completed", "Failed", "Irrecoverable"}

\* Poll of a DynSupervisee: Pending, Ok(Some(spec)), Ok(None) or Err(e).
ExitResults == {"Pending", "Restart", "Finished", "Error"}

Verdicts == {"Ok", "Irrecoverable", "Completed", "Failed"}

\* The variant an item takes when its start future returns r.
StartedAs == [Ok |-> "Supervisee", Completed |-> "Completed",
              Failed |-> "Spec", Irrecoverable |-> "Irrecoverable"]

\* The variant an item takes when its supervisee exits with e.
ExitedAs == [Restart |-> "Spec", Finished |-> "Completed",
             Error |-> "Irrecoverable"]

\* The start times of the specifications of a group.
SpecTimes(ts) == {ts[j] : j \in DOMAIN ts}

\* Mutant of StartTime: the fold adds the start times instead of taking
\* their maximum.
StartTimeSummed(ts) ==
    LET sum[i \in 0..Len(ts)] == IF i = 0 THEN 0 ELSE sum[i - 1] + ts[i]
    IN  sum[Len(ts)] + Slack

\* OneForOneSpec::start: the fold of Ord::max over the items' start_time()
\* from Duration::ZERO, plus the slack (saturating_add: no overflow here).
StartTime(ts) ==
    (IF ts = <<>> THEN 0
     ELSE CHOOSE m \in SpecTimes(ts) : \A x \in SpecTimes(ts) : x <= m)
    + Slack

\* OneForOneStartFut::time_limit_reached: no timer, or its Sleep elapsed.
TimeLimitReached == ~timerArmed \/ now >= deadline

\* Mutant of Verdict: a start future still pending does not clear `ok`.
VerdictIgnoresStartFut(its) ==
    IF \A j \in DOMAIN its : its[j] # "Irrecoverable" THEN "Ok"
    ELSE "Irrecoverable"

\* take_start_now: the StartResult computed from the items.
Verdict(its) ==
    LET ok == \A j \in DOMAIN its : its[j] \notin {"StartFut", "Irrecoverable"}
        irrecoverable ==
            \E j \in DOMAIN its : its[j] \in {"StartFut", "Supervisee", "Irrecoverable"}
        completed == \A j \in DOMAIN its : its[j] # "Spec"
    IN  IF ok THEN "Ok"
        ELSE IF irrecoverable THEN "Irrecoverable"
        ELSE IF completed THEN "Completed"
        ELSE "Failed"

\* The items of the OneForOneSpec returned with StartError::Failed: only
\* the Spec items are kept.
SpecsOnly(its) == [j \in 1..Cardinality({k \in DOMAIN its : its[k] = "Spec"}) |-> "Spec"]

-----------------------------------------------------------------------------
(* Building the OneForOneSpec. *)

Init ==
    /\ items = <<>>
    /\ timeouts = <<>>
    /\ stage = "build"
    /\ startFailure = FALSE
    /\ timerArmed = FALSE
    /\ deadline = 0
    /\ shutdownTime = 0
    /\ startDeadline = 0
    /\ drainStart = 0
    /\ now = 0
    /\ attempts = <<>>
    /\ pc = "idle"
    /\ idx = 1
    /\ allReady = TRUE
    /\ result = "none"
    /\ halted = FALSE
    /\ aborted = FALSE
    /\ signals = {}

\* add_spec / with_spec: push a Spec item.
AddSpec(t) ==
    /\ stage = "build"
    /\ Len(items) < MaxChildren
    /\ items' = Append(items, "Spec")
    /\ timeouts' = Append(timeouts, t)
    /\ UNCHANGED <<stage, startFailure, timerVars, now, attempts, pollVars,
                   result, superviseeVars>>

\* pop_spec: pop items from the back until a Spec comes off.  A builder
\* holds only Spec items (add_spec is their only producer), so the loop
\* stops at the first pop; on an empty builder it returns None.
PopSpec ==
    /\ stage = "build"
    /\ items # <<>>
    /\ items[Len(items)] = "Spec"
    /\ items' = SubSeq(items, 1, Len(items) - 1)
    /\ timeouts' = SubSeq(timeouts, 1, Len(timeouts) - 1)
    /\ UNCHANGED <<stage, startFailure, timerVars, now, attempts, pollVars,
                   result, superviseeVars>>

\* OneForOneItem::start on every item: a Spec becomes its StartFut.
StartedItems(its) == [j \in DOMAIN its |-> "StartFut"]

\* Specification::start for OneForOneSpec: compute the start time (the
\* fold panics on an item that is not a Spec), start every item, and
\* build the OneForOneStartFut with timer sleep(start_time) and
\* shutdown_time = start_time.
Start ==
    /\ stage = "build"
    /\ \A j \in DOMAIN items : items[j] = "Spec"
    /\ LET st == StartTime(timeouts) IN
         /\ items' = StartedItems(items)
         /\ stage' = "starting"
         /\ startFailure' = FALSE
         /\ timerArmed' = TRUE
         /\ deadline' = now + st
         /\ shutdownTime' = st
         /\ startDeadline' = now + st
    /\ pc' = "idle"
    /\ UNCHANGED <<timeouts, drainStart, now, attempts, idx, allReady, result,
                   superviseeVars>>

-----------------------------------------------------------------------------
(* OneForOneStartFut::poll. *)

\* The future is polled: the 'outer loop picks the phase by start_failure.
Poll ==
    /\ stage = "starting"
    /\ pc = "idle"
    /\ pc' = IF startFailure THEN "loop2" ELSE "loop1"
    /\ idx' = 1
    /\ allReady' = TRUE
    /\ UNCHANGED <<buildVars, stage, startFailure, timerVars, now, attempts,
                   result, superviseeVars>>

\* Resolve the start future with verdict v.
Resolve(v) ==
    /\ result' = v
    /\ stage' = "done"
    /\ pc' = "idle"
    /\ items' = IF v = "Failed" THEN SpecsOnly(items) ELSE items

\* Mutant of EnterPhase2: start_failure is set but the timer is not re-armed.
EnterPhase2NoRearm ==
    /\ UNCHANGED <<timerArmed, deadline>>
    /\ drainStart' = now
    /\ startFailure' = TRUE
    /\ pc' = "loop2"
    /\ idx' = 1
    /\ allReady' = TRUE

\* Arm a fresh Sleep of shutdown_time and restart the 'outer loop in phase 2.
EnterPhase2 ==
    /\ timerArmed' = TRUE
    /\ deadline' = now + shutdownTime
    /\ drainStart' = now
    /\ startFailure' = TRUE
    /\ pc' = "loop2"
    /\ idx' = 1
    /\ allReady' = TRUE

\* Phase 1, an item that is not a start future: nothing to poll.
Skip1 ==
    /\ pc = "loop1"
    /\ idx <= Len(items)
    /\ items[idx] # "StartFut"
    /\ idx' = idx + 1
    /\ UNCHANGED <<buildVars, stage, startFailure, timerVars, now, attempts,
                   pc, allReady, result, superviseeVars>>

\* Mutant of PollStart1: a pending start future does not clear all_ready.
PollStart1KeepsReady(r) ==
    /\ pc = "loop1"
    /\ idx <= Len(items)
    /\ items[idx] = "StartFut"
    /\ items' = IF r = "Pending" THEN items ELSE [items EXCEPT ![idx] = StartedAs[r]]
    /\ idx' = idx + 1
    /\ UNCHANGED <<timeouts, stage, startFailure, timerVars, now, attempts,
                   pc, allReady, result, superviseeVars>>

\* Phase 1, a start future polled: still pending (all_ready = false),
\* started (Supervisee) or completed.
PollStart1(r) ==
    /\ pc = "loop1"
    /\ idx <= Len(items)
    /\ items[idx] = "StartFut"
    /\ items' = IF r = "Pending" THEN items ELSE [items EXCEPT ![idx] = StartedAs[r]]
    /\ allReady' = (allReady /\ r # "Pending")
    /\ idx' = idx + 1
    /\ UNCHANGED <<timeouts, stage, startFailure, timerVars, now, attempts,
                   pc, result, superviseeVars>>

\* Mutant of StartFailed1: the limiter's answer is used without the `!`.
StartFailed1Inverted(r) ==
    /\ pc = "loop1"
    /\ idx <= Len(items)
    /\ items[idx] = "StartFut"
    /\ items' = [items EXCEPT ![idx] = StartedAs[r]]
    /\ attempts' = Record(attempts, now)
    /\ IF ~WithinLimit(attempts, now)
         THEN /\ idx' = idx + 1
              /\ UNCHANGED <<startFailure, pc>>
         ELSE /\ startFailure' = TRUE
              /\ pc' = "after1"
              /\ UNCHANGED idx
    /\ UNCHANGED <<timeouts, stage, timerVars, now, allReady, result,
                   superviseeVars>>

\* Mutant of StartFailed1: `break 'inner` dropped, the loop goes on.
StartFailed1NoBreak(r) ==
    /\ pc = "loop1"
    /\ idx <= Len(items)
    /\ items[idx] = "StartFut"
    /\ items' = [items EXCEPT ![idx] = StartedAs[r]]
    /\ attempts' = Record(attempts, now)
    /\ idx' = idx + 1
    /\ startFailure' = (startFailure \/ ~WithinLimit(attempts, now))
    /\ UNCHANGED <<timeouts, stage, timerVars, now, pc, allReady, result,
                   superviseeVars>>

\* Phase 1, a start future failed (Failed gives back a Spec, Irrecoverable
\* an error): the limiter is consulted; if it is exhausted the loop breaks
\* with start_failure set.
StartFailed1(r) ==
    /\ pc = "loop1"
    /\ idx <= Len(items)
    /\ items[idx] = "StartFut"
    /\ items' = [items EXCEPT ![idx] = StartedAs[r]]
    /\ attempts' = Record(attempts, now)
    /\ IF WithinLimit(attempts, now)
         THEN /\ idx' = idx + 1
              /\ UNCHANGED <<startFailure, pc>>
         ELSE /\ startFailure' = TRUE
              /\ pc' = "after1"
              /\ UNCHANGED idx
    /\ UNCHANGED <<timeouts, stage, timerVars, now, allReady, result,
                   superviseeVars>>

\* Phase 1, the 'inner loop has visited every item.
EndLoop1 ==
    /\ pc = "loop1"
    /\ idx > Len(items)
    /\ pc' = "after1"
    /\ UNCHANGED <<buildVars, stage, startFailure, timerVars, now, attempts,
                   idx, allReady, result, superviseeVars>>

\* After the phase 1 loop, start_failure set: re-arm the timer with the
\* shutdown time and go on to phase 2 in the same poll.
Escalate1 ==
    /\ pc = "after1"
    /\ startFailure
    /\ EnterPhase2
    /\ UNCHANGED <<buildVars, stage, shutdownTime, startDeadline, now,
                   attempts, result, superviseeVars>>

\* After the phase 1 loop, every start future was ready: resolve Ok.
Ready1 ==
    /\ pc = "after1"
    /\ ~startFailure
    /\ allReady
    /\ Resolve("Ok")
    /\ UNCHANGED <<timeouts, startFailure, timerVars, now, attempts, idx,
                   allReady, superviseeVars>>

\* After the phase 1 loop, some start future pending and the time limit
\* reached: re-arm with the shutdown time and go on to phase 2.
Timeout1 ==
    /\ pc = "after1"
    /\ ~startFailure
    /\ ~allReady
    /\ TimeLimitReached
    /\ EnterPhase2
    /\ UNCHANGED <<buildVars, stage, shutdownTime, startDeadline, now,
                   attempts, result, superviseeVars>>

\* After the phase 1 loop, some start future pending, time left: Pending.
Pending1 ==
    /\ pc = "after1"
    /\ ~startFailure
    /\ ~allReady
    /\ ~TimeLimitReached
    /\ pc' = "idle"
    /\ UNCHANGED <<buildVars, stage, startFailure, timerVars, now, attempts,
                   idx, allReady, result, superviseeVars>>

\* Phase 2, an item that is neither a start future nor a supervisee.
Skip2 ==
    /\ pc = "loop2"
    /\ idx <= Len(items)
    /\ items[idx] \notin {"StartFut", "Supervisee"}
    /\ idx' = idx + 1
    /\ UNCHANGED <<buildVars, stage, startFailure, timerVars, now, attempts,
                   pc, allReady, result, superviseeVars>>

\* Phase 2, a start future polled; a child that starts now is running, and
\* keeps the drain going (all_ready = false), and the limiter is not asked.
PollStart2(r) ==
    /\ pc = "loop2"
    /\ idx <= Len(items)
    /\ items[idx] = "StartFut"
    /\ items' = IF r = "Pending" THEN items ELSE [items EXCEPT ![idx] = StartedAs[r]]
    /\ allReady' = (allReady /\ r \notin {"Pending", "Ok"})
    /\ idx' = idx + 1
    /\ UNCHANGED <<timeouts, stage, startFailure, timerVars, now, attempts,
                   pc, result, superviseeVars>>

\* Phase 2, a running supervisee polled: still running, or exited asking
\* for a restart (Spec), finished (Completed) or failed (Irrecoverable).
PollSupervisee2(e) ==
    /\ pc = "loop2"
    /\ idx <= Len(items)
    /\ items[idx] = "Supervisee"
    /\ items' = IF e = "Pending" THEN items ELSE [items EXCEPT ![idx] = ExitedAs[e]]
    /\ allReady' = (allReady /\ e # "Pending")
    /\ idx' = idx + 1
    /\ UNCHANGED <<timeouts, stage, startFailure, timerVars, now, attempts,
                   pc, result, superviseeVars>>

\* Phase 2, the 'inner loop has visited every item.
EndLoop2 ==
    /\ pc = "loop2"
    /\ idx > Len(items)
    /\ pc' = "after2"
    /\ UNCHANGED <<buildVars, stage, startFailure, timerVars, now, attempts,
                   idx, allReady, result, superviseeVars>>

\* After the phase 2 loop, everything settled: take_start_now (the timer
\* is not polled, `||` short-circuits).
Drained2 ==
    /\ pc = "after2"
    /\ allReady
    /\ Resolve(Verdict(items))
    /\ UNCHANGED <<timeouts, startFailure, timerVars, now, attempts, idx,
                   allReady, superviseeVars>>

\* After the phase 2 loop, the shutdown timer fired (it is taken out of
\* the future): take_start_now.
Timeout2 ==
    /\ pc = "after2"
    /\ ~allReady
    /\ TimeLimitReached
    /\ timerArmed' = FALSE
    /\ Resolve(Verdict(items))
    /\ UNCHANGED <<timeouts, startFailure, deadline, shutdownTime,
                   startDeadline, drainStart, now, attempts, idx, allReady,
                   superviseeVars>>

\* Mutant of Pending2: the drain returns Pending without asking the timer.
Pending2IgnoresTimer ==
    /\ pc = "after2"
    /\ ~allReady
    /\ pc' = "idle"
    /\ UNCHANGED <<buildVars, stage, startFailure, timerVars, now, attempts,
                   idx, allReady, result, superviseeVars>>

\* After the phase 2 loop, something unsettled and time left: Pending.
Pending2 ==
    /\ pc = "after2"
    /\ ~allReady
    /\ ~TimeLimitReached
    /\ pc' = "idle"
    /\ UNCHANGED <<buildVars, stage, startFailure, timerVars, now, attempts,
                   idx, allReady, result, superviseeVars>>

\* Time passes while the start future is pending or being polled.
Tick ==
    /\ stage = "starting"
    /\ now < MaxTime \/ (timerArmed /\ now < deadline)
    /\ now' = now + 1
    /\ UNCHANGED <<buildVars, stage, startFailure, timerVars, attempts,
                   pollVars, result, superviseeVars>>

-----------------------------------------------------------------------------
(* OneForOneSupervisee: halt and abort forward to every Supervisee item. *)
(* Its poll is todo!() in the code and is not modelled.                  *)

\* The items currently running.
Running == {j \in DOMAIN items : items[j] = "Supervisee"}

Halt ==
    /\ stage = "done"
    /\ result = "Ok"
    /\ halted' = TRUE
    /\ signals' = signals \cup {<<j, "halt">> : j \in Running}
    /\ UNCHANGED <<buildVars, stage, startFailure, timerVars, now, attempts,
                   pollVars, result, aborted>>

Abort ==
    /\ stage = "done"
    /\ result = "Ok"
    /\ aborted' = TRUE
    /\ signals' = signals \cup {<<j, "abort">> : j \in Running}
    /\ UNCHANGED <<buildVars, stage, startFailure, timerVars, now, attempts,
                   pollVars, result, halted>>

-----------------------------------------------------------------------------

\* The steps of one call of OneForOneStartFut::poll after it has begun.
PollStep ==
    \/ Skip1
    \/ \E r \in {"Pending", "Ok", "Completed"} : PollStart1(r)
    \/ \E r \in {"Failed", "Irrecoverable"} : StartFailed1(r)
    \/ EndLoop1 \/ Escalate1 \/ Ready1 \/ Timeout1 \/ Pending1
    \/ Skip2
    \/ \E r \in StartResults : PollStart2(r)
    \/ \E e \in ExitResults : PollSupervisee2(e)
    \/ EndLoop2 \/ Drained2 \/ Timeout2 \/ Pending2

Next ==
    \/ \E t \in StartTimeouts : AddSpec(t)
    \/ PopSpec
    \/ Start
    \/ Poll
    \/ PollStep
    \/ Tick
    \/ Halt
    \/ Abort

Spec == Init /\ [][Next]_vars

\* The executor keeps running a poll it has begun; tokio's clock advances;
\* and the timer's waker gets the future polled once its Sleep has elapsed.
\* No fairness is assumed of the children: a start future or a supervisee
\* may stay pending forever.
FairSpec ==
    /\ Spec
    /\ WF_vars(PollStep)
    /\ WF_vars(Tick)
    /\ WF_vars(Poll /\ TimeLimitReached)

\* The promise of the start of a group, in OneForOneAbstract: the
\* builder, the start future and the child slots are the same state seen
\* without the loop, the timers and the limiter.
Abs == INSTANCE OneForOneAbstract WITH stage <- stage, items <- items, result <- result

-----------------------------------------------------------------------------
(* Properties. *)

\* Every variable has its type; the group's timer lasts the largest start
\* time of its children plus the slack.
TypeOK ==
    /\ items \in Seq(ItemKinds)
    /\ timeouts \in Seq(StartTimeouts)
    /\ stage \in {"build", "starting", "done"}
    /\ startFailure \in BOOLEAN
    /\ timerArmed \in BOOLEAN
    /\ deadline \in Nat
    /\ shutdownTime \in Nat
    /\ stage # "build" => shutdownTime \in {m + Slack : m \in {0} \cup StartTimeouts}
    /\ startDeadline \in Nat
    /\ drainStart \in Nat
    /\ now \in Nat
    /\ attempts \in Seq(Nat)
    /\ pc \in {"idle", "loop1", "after1", "loop2", "after2"}
    /\ idx \in 1..(Len(items) + 1)
    /\ allReady \in BOOLEAN
    /\ result \in {"none"} \cup Verdicts
    /\ halted \in BOOLEAN
    /\ aborted \in BOOLEAN
    /\ signals \subseteq (Nat \ {0}) \X {"halt", "abort"}

\* The group never reports Ok while a child is still starting: poll's
\* all_ready, accumulated over one pass of the loop, and take_start_now's
\* verdict both see every start future pending at that moment.
NoOkWhileStarting ==
    result = "Ok" => \A j \in DOMAIN items : items[j] # "StartFut"

\* The group gives up starting (start_failure) only when the restart
\* limiter has answered "exceeded" or the start timer has elapsed.
EscalationJustified ==
    startFailure => Exhausted(attempts) \/ now >= startDeadline

\* Once the limiter has answered "exceeded" it is never consulted again:
\* the loop breaks and phase 2 does not count restarts (spec 4.1: one call
\* per restart decision, none speculative).
LimiterNotCalledAfterExhaustion ==
    \A j \in DOMAIN attempts : RejectedAt(attempts, j) => j = Len(attempts)

\* The shutdown drain is never cut short: when start_failure is set, the
\* group resolves with a child still starting or running only once
\* shutdown_time has passed since the drain began.  Both ways into phase 2
\* (a limiter refusal, the start timer) must arm a fresh Sleep; without
\* it the drain stops on the old, elapsed timer at its first pass.
ShutdownDrainFull ==
    [][ /\ stage = "starting" /\ startFailure /\ stage' = "done"
        /\ \E j \in DOMAIN items : items[j] \in {"StartFut", "Supervisee"}
        => now >= drainStart + shutdownTime ]_vars

\* A started group eventually resolves: the timers bound both phases even
\* when children never settle.
StartResolves == stage = "starting" ~> stage = "done"

\* The whole start protocol implements its abstract promise: every step of
\* the builder, of OneForOneStartFut::poll and of the supervisee is a step
\* of OneForOneAbstract or leaves its state alone, so children settle one
\* at a time, take_start_now answers only Ok or Irrecoverable, Ok never
\* with a child still starting, and, under the executor's and the
\* timer's fairness, the start future resolves.
ImplementsAbstract == Abs!AFairSpec

\* Spec 4.5: start-up succeeds when every slot is Running or Done.
\* (Checked as a violation: the code reports Ok with Spec and
\* Irrecoverable items left over from phase 1.)
OkOnlyRunningOrDone ==
    result = "Ok" => \A j \in DOMAIN items : items[j] \in {"Supervisee", "Completed"}

\* Spec 8.4: a group whose restart budget is exhausted during start-up
\* ends irrecoverable, whatever its healthy children did.
\* (Checked as a violation: the code reports Ok.)
ExhaustionIsFatal ==
    Exhausted(attempts) /\ stage = "done" => result = "Irrecoverable"

=============================================================================
