# TLA+ models of zestors' supervision combinators

This directory holds TLA+ models of the Rust crate zestors (under `../src`). It also holds the TLC
configurations that model-check the models and the TLAPS proofs about them. Every definition is
translated from the source. `PROJECT.json` maps each definition to the lines it models.

## 1. The system and its parts

| Part | Source | State and operations | Modelled by |
|---|---|---|---|
| One-for-one combinator | `zestors/src/supervision/combinator_specs/one_for_one.rs` | `OneForOneSpec`: a vector of items (`Spec`, `StartFut`, `Supervisee`, `Irrecoverable`, `Completed`) and a `RestartLimiter`. Operations: `new`, `add_spec`/`with_spec`, `pop_spec`, `start`. `OneForOneStartFut`: the spec, a `Sleep` timer, `shutdown_time`, `start_failure`; its `poll` is a two-phase loop and `take_start_now` decides the verdict. `OneForOneSupervisee`: `halt`, `abort`; `poll` is `todo!()`. | `OneForOne` |
| Restart limiter | not under `src/` (spec.md §3, §4.1) | A log of restart instants. `within_limit()` records one and says whether the attempts inside the window `within` are at most `limit`. | `RestartLimiter` (spec-modelled) |
| Child specifications and supervisees | traits, not under `src/` | Each child's start future resolves to Ok / Completed / Failed(spec) / Irrecoverable. Each supervisee exits to Restart(spec) / Finished / Error. | The environment of `OneForOne`: a nondeterministic choice at each poll |
| Reference-forwarding spec | `zestors/src/supervision/channel_spec.rs` | `RefSenderSpec` wraps a spec and an `Option<mpsc::UnboundedSender>`. Each successful start sends the new reference. A failed start and a restart move the sender into the rebuilt spec. Finished/Unhandled drop it. | `RefSender` (§6) |
| Request oneshot | `zestors/src/request.rs` | `Tx`/`Rx` wrappers over tokio's oneshot: send, close, try_recv, recv. | `Messaging` (§7) |
| Boxed messages | `zestors-core/src/boxed_msg.rs` | `BoxedMessage`: a `Box<dyn Any>` with a downcast round trip. | `Messaging` (§7) |
| Start-up promise | spec.md §4.5 | What any one-for-one start may do: build, start all, settle children one at a time, resolve once. | `OneForOneAbstract` (§5) |
| Child pool | `zestors-core/src/actor/child_pool.rs` | Every method forwards to `tiny_actor::ChildPool`. | not modelled: it has no state or control of its own |

**How the parts interact.** A one-for-one group is itself a `Specification`. Starting it starts
every child. Its start future then polls the children's start futures, and it calls the restart
limiter once for each failed child start. It resolves when all children are ready, or when the
budget or the timer gives out. If it resolves `Ok`, the result is a supervisee that forwards
`halt`/`abort` to its running children.

**What makes it hard.** Several things are hard to test:
- the order in which child futures resolve within one poll, and across polls;
- the timer firing between polls;
- the loop breaking out as soon as the limiter refuses;
- a second timer (the shutdown timer) that bounds the drain;
- running children that never exit;
- a verdict function whose flags interact.

## 2. `RestartLimiter`

This module is modelled from spec.md, because its code is not under `src/`. The log of attempt
instants is kept whole. `WithinLimit(log, t)` appends `t` and counts the entries inside the
trailing window. The clock never goes back, so an entry that has left the window never counts
again. `RejectedAt`/`Exhausted` say which calls answered "exceeded". The properties use them.

## 3. `OneForOne`: the combinator

**State.**
- `items` / `timeouts`: the item vector and each child's `start_time`.
- `stage`: builder, start future, or resolved.
- `startFailure`: the `start_failure` field.
- `timerArmed` / `deadline`: `timer: Option<Sleep>`, with the deadline as an absolute tick.
- `shutdownTime`.
- `attempts`: the limiter's log.
- `now`: tokio's clock.
- `pc` / `idx` / `allReady`: the program counter, the index of the `'inner` for loop, and its
  `all_ready` local.
- `result`.
- `halted` / `aborted` / `signals`: what the supervisee forwarded to which child.
- `startDeadline`: a history variable, the deadline of the first timer.
- `drainStart`: a history variable, the instant phase 2 (the shutdown drain) began.

**Actions.** Each action is one step of the code.
- The builder:
  - `AddSpec`;
  - `PopSpec`. A builder holds only `Spec` items, so the pop loop stops at once.
  - `Start`: `Specification::start`. It takes the fold of start times plus `Slack`, which stands for the 10 ms `saturating_add`.
    Then it starts every item (`StartedItems`, `OneForOneItem::start`) and arms
    `sleep(start_time)`.
- `Poll` enters the `'outer` loop.
- Phase 1 handles one item per step:
  - `Skip1`;
  - `PollStart1`, for pending, Ok and Completed results;
  - `StartFailed1`, for Failed and Irrecoverable results. It calls `within_limit()` and breaks
    out when the limiter refuses.
- The end of phase 1 takes one of four actions:
  - `Escalate1`: re-arm the timer with `shutdown_time`;
  - `Ready1`: `Ok`;
  - `Timeout1`: `time_limit_reached`, then re-arm;
  - `Pending1`.
- Phase 2 polls start futures and supervisees (`PollStart2`, `PollSupervisee2`). It ends in
  `Drained2` or `Timeout2`, both of which call `take_start_now`, or in `Pending2`.
- `Verdict` is `take_start_now`'s three flags. `SpecsOnly` is its `Failed` filter.
- `Tick` advances the clock.
- `Halt`/`Abort` are the resolved group's forwarding.

The child's result at each poll is chosen from every value its type allows. The combinator
must be right for every child.

**Fairness (`FairSpec`).** `FairSpec` assumes three kinds of fairness:
- `WF(PollStep)`: a poll that has begun runs to its end, because `poll` is one synchronous call;
- `WF(Tick)`: tokio's clock advances;
- `WF(Poll /\ TimeLimitReached)`: the elapsed `Sleep`'s waker gets the future polled again.

Nothing is assumed of the children. A start future or a supervisee may stay pending forever.

## 4. Runs of `OneForOne` (`MC_OneForOne.tla`)

**Bounds.**

| Constant | Value | Why |
|---|---|---|
| `MaxChildren` | 3 | A failure can happen before and after another child in one pass. |
| `StartTimeouts` | {1,2} | The fold's maximum matters. |
| `Slack` | 1 | |
| `MaxTime` | 2 | The clock runs only while the start future is pending. Two free ticks reach the shortest start timer. Past `MaxTime` the clock moves only up to an armed deadline, so every armed timer can elapse. |
| `Limit` | 1 | The second failure inside a window is refused. |
| `Within` | 2 | Ticks can move an attempt out of the window. |

With these bounds, the runs reach the following cases:
- exhaustion in the middle of a pass;
- timeouts in both phases;
- an attempt aging out of the window.

| Run | cfg | Result | What it shows |
|---|---|---|---|
| oneforone_safety | `MC_OneForOne.cfg` | pass (about 324k states) | It checks five properties: `TypeOK`; `NoOkWhileStarting` (the future never answers `Ok` while a child is still a `StartFut`, which needs `all_ready` to be accumulated right over the pass); `EscalationJustified` (phase 2 is entered only after the limiter refused or the first timer elapsed); `LimiterNotCalledAfterExhaustion` (after a refusal, `within_limit()` is never called again); `ShutdownDrainFull` (an action property: with `start_failure` set, the group resolves with a child still starting or running only once `shutdown_time` has passed since the drain began, measured by the history variable `drainStart`). |
| oneforone_liveness | `MC_OneForOne_live.cfg` | pass | `StartResolves`: under `FairSpec` every start future resolves, even when the running children never exit. This holds only because the re-armed shutdown timer ends the drain. |
| ok_with_unstarted_children | `MC_OneForOne_OkOnlyRunningOrDone.cfg` | violation | An `Ok` verdict with a child left as a `Spec`. One child fails recoverably within budget: line 226 puts it back and nothing restarts it. Spec §4.5/§8.3 say it would be restarted. |
| oneforone_refines_abstract | `MC_OneForOne_refine.cfg` | pass (about 324k states) | `ImplementsAbstract`: under `FairSpec` the combinator implements `OneForOneAbstract` (§5), including that the start future is eventually resolved. |
| exhaustion_not_fatal | `MC_OneForOne_ExhaustionIsFatal.cfg` | violation | Two recoverable failures exhaust the budget. The drain then ends in `take_start_now`, whose `ok` flag ignores `Spec` items (line 182), so the verdict is `Ok`. Spec §8.4 says it is irrecoverable. |

`CHECK_DEADLOCK FALSE` is set because the system really stops: a resolved non-`Ok` start
future is dropped.

Each property has a mutant in `PROJECT.json`. Each mutant is a plausible bug that the property
catches:
- the start-time fold summing instead of taking the maximum;
- a pending start future not clearing `all_ready`;
- the `within_limit` test inverted;
- the missing `break 'inner`;
- the timer not re-armed on entry to phase 2 (lines 247 and 254): the drain then ends on the old
  timer, which has already elapsed;
- phase 2 ignoring the timer;
- `take_start_now` not letting a pending start future clear `ok` (caught by `ImplementsAbstract`).

## 5. `OneForOneAbstract` and the refinement

`OneForOneAbstract` is the start protocol without the poll loop, the timers and the limiter. It
has three variables, `stage`, `items` and `result`, and four actions:
- `ABuild`: the builder holds some number of `Spec`s, at most `MaxChildren`;
- `AStart`: every `Spec` becomes a `StartFut`;
- `AChild`: one child slot makes one move (a start future starts, completes, fails back to a
  `Spec` or fails for good; a supervisee restarts, finishes or fails);
- `AResolve`: the start future resolves to `Ok` or `Irrecoverable`, `Ok` only when no child is
  a `StartFut`.

`AFairSpec` adds weak fairness on `AResolve`. `OneForOne` defines `Abs == INSTANCE
OneForOneAbstract WITH stage <- stage, items <- items, result <- result`. The mapping is the
identity on those three variables; every other variable of `OneForOne` is hidden. The run
`oneforone_refines_abstract` checks `ImplementsAbstract == Abs!AFairSpec` under `FairSpec`. The
safety part is proved as well (§8).

## 6. `RefSender`: the reference-forwarding wrapper (`channel_spec.rs`)

The three wrappers are consumed in turn (`spec -> fut -> sup -> spec ...`), so one variable
`phase` says which one exists, and `sender` says whether its `Option` is `Some`.
- `Start` is `Specification::start`.
- `StartedOk`, `StartedFailure` and `StartedEnd` are the four arms of
  `RefSenderSpecFut::poll`. `StartedOk` and `StartedFailure` do `take().unwrap()`; a `None` there
  is the phase `panicked`. `Send` is the ignored `let _ = sender.send(reference)`.
- `ExitRestart` and `ExitEnd` are `RefSenderSupervisee::poll`: `Ok(Some(spec))` takes the
  sender into the restart spec; `Ok(None)` and `Err` drop it with the supervisee.
- The observer holding the receiver is the environment: `Recv`, `RecvClosed` (recv returns
  `None` on an empty channel with no sender), `DropReceiver`.
- `starts` counts successful starts, capped by `MaxStarts`; the k-th start sends reference k.

Run `refsender_safety` (`MC_RefSender.cfg`, `MaxStarts = 4`, 158 states) checks:
- `SenderNeverMissing`: no unwrap ever finds `None`, across any mix of failed starts and
  restarts;
- `RefsForwardedInOrder`: while the receiver lives, what it received followed by what is
  buffered is exactly `1..starts`;
- `ClosedOnlyWhenGone`: the observer sees the channel closed only after a final exit;
- `ImplementsRefStream`: the wrappers implement `RefStream` (`RefStream.tla`). `RefStream` is the
  plain stream the holder of the receiver is promised: while the child is `alive`, each successful
  start publishes the next reference; the child ends once; Closed is seen only after the end and
  when the stream is drained. The mapping is `alive <- phase \notin Gone`, and every other variable
  maps to itself. `Start`, `StartedFailure` and `ExitRestart` are stutters, `StartedOk` is
  `SPublish`, and `StartedEnd` and `ExitEnd` are `SEnd`. A failed start that sent a reference would
  break it.

Four starts let two failures and two restarts interleave with receives and a receiver drop.
`CHECK_DEADLOCK FALSE`: the wrapper really stops once the child is gone and the observer is done.

## 7. `Messaging`: requests and boxed messages (`request.rs`, `boxed_msg.rs`)

Each request has its own oneshot, modelled as a one-value `slot` with `tx`/`rx` ends.
- `Init` is `Request::new_pair` plus `BoxedMessage::new`; `msgType` is the envelope's type tag.
- `DowncastOk` is `Box<dyn Any>::downcast`: it succeeds exactly on the boxed type.
- `ActorDowncast` is `BoxedMessage::downcast` by the receiving actor. `DowncastIntoMsg` is the
  requester recovering an undelivered envelope; it drops the Tx and the Rx.
- `Reply` is `Tx::send`: `Ok` into the slot while the Rx is open, `TxError` otherwise.
- `TryRecv` is `Rx::try_recv` with the `From<TryRecvError>` conversion (`NoValue`). `Await` is
  the `Rx` future and `recv_blocking`, with `RxError`. `Close` is `Rx::close`.
- `Deliver`, `Bounce`, `ActorDrop`, `DropTx` and `DropRx` are the environment.

Run `messaging_safety` (`MC_Messaging.cfg`, two requests and two types as model values, with
symmetry, 2652 states) checks:
- `ClosedMeansNoReply`: a requester is told `Closed` only when no reply waits and none can come;
- `AcceptedReplyKept`: `Tx::send` answers `Ok` only for a reply that stays in the slot, or has
  been taken, while the Rx lives, even after `close`. Its mutant is a `Tx::send` that drops the
  oneshot's error and answers `Ok(())`.

The run checks no type invariant. Every field is a small enumeration, and no compilable change
to `request.rs` or `boxed_msg.rs` puts one outside its type. `TypeOK` is still part of the proved
invariant `MInv`.

Two types are enough for a failed downcast. Two requests show that their channels do not
interfere.

## 8. Proofs

The proofs are checked by `tlapm`, for every value of the constants that satisfies
`LimiterAssumption` and `GroupAssumption`. `GroupAssumption` asks that `StartTimeouts` be a
nonempty set of naturals in which every nonempty subset has a maximum, which makes the
`CHOOSE`-defined fold defined.

`OneForOne_proofs.tla`:
- `TakeStartNowOutcomes`: `Verdict(its) \in {"Ok","Irrecoverable"}`. It follows from the flags:
  `irrecoverable` is set wherever `ok` is cleared. So the `Completed` and `Failed` branches of
  `take_start_now` (lines 188-201) are dead code.
- `TypeCorrect`: `Spec => []TypeOK`. It is proved from `TypeInv == TypeOK /\ BuildAtRest`.
  `BuildAtRest` is needed because `Start` keeps `idx`, and `idx` must stay in range for the new
  items. The proof has one step per action. `Drained2`/`Timeout2` use `TakeStartNowOutcomes`,
  because a `Failed` verdict would shrink `items` below `idx`.
- `OkMeansNoneStarting`: `Spec => []NoOkWhileStarting`. `NoOkWhileStarting` is not inductive by
  itself. The inductive invariant `OkInv` adds three facts:
  - a resolved future is at rest (`ResolvedAtRest`);
  - in phase 1 with `all_ready` still true, no item before `idx` is a `StartFut`
    (`PassedNotStarting`);
  - a phase-1 pass that ends without a refusal has visited every item (`LoopFinished`).

  Together they make `Ready1` safe. Phase 2's `Ok` comes from `Verdict`, whose `ok` flag is
  false whenever a `StartFut` remains (`VerdictOkNoStartFut`).
- `DrainNeverCutShort`: `Spec => ShutdownDrainFull`, the action property. It rests on `DrainInv`,
  which adds three facts:
  - throughout the drain, the timer is armed with deadline `drainStart + shutdownTime`
    (`DrainTimer`);
  - in a phase-2 pass with `all_ready` still true, every item passed is settled (`PassedSettled`);
  - `after2` means the pass visited every item (`Drain2Finished`).

  So a `Drained2` step leaves no child unsettled. A `Timeout2` step happens only once
  `now >= drainStart + shutdownTime`. The lemma `DrainFullStep` makes this case split.

`OneForOne_limiter_proofs.tla`:
- `EscalationIsJustified`: `Spec => []EscalationJustified`.
- `LimiterAskedNoMore`: `Spec => []LimiterNotCalledAfterExhaustion`.

Both rest on `EscInv`, which adds to the two properties:
- phase 1 runs only without `start_failure` (`PhaseOneNoFailure`);
- until the first escalation the first timer is armed with its original deadline
  (`FirstTimerArmed`), so `Timeout1` implies `now >= startDeadline`;
- an exhausted log implies `start_failure` (`ExhaustedEscalates`), which is what stops a second
  call of `within_limit()`: phase 2 never calls it;
- a builder has an empty log (`BuildFresh`).

The lemmas about the limiter's log (`RejectedAtAppend`, `RejectedAtLast`, `PrefixOfAppend`)
show that appending an instant does not change the verdicts of the earlier entries.

`OneForOne_refinement_proofs.tla`:
- `ImplementsAbstractSafety`: `Spec => Abs!ASpec`. It uses `RefInv == TypeInv /\ OkInv /\
  BuildSpecs`, where `BuildSpecs` says a builder holds only `Spec`s, at most `MaxChildren`. So
  `AddSpec`/`PopSpec` are `ABuild` steps. Each poll of a start future or supervisee that
  resolves is an `AChild` step (`StartedAsMove`, `ExitedAsMove`). `Ready1` is an `AResolve` by
  `NoOkWhileStarting` after the step. `Drained2`/`Timeout2` are `AResolve` steps by
  `TakeStartNowOutcomes` and `VerdictOkNoStartFut`. Every other step leaves the abstract state
  alone.

`RefSender_proofs.tla` proves, for every `MaxStarts` satisfying `MaxStartsAssumption`:
- `RefSenderTypeCorrect`, `SenderNeverLost`, `RefsInOrder` and `ClosedMeansGone`. They state the four invariants of
  refsender_safety: `TypeOK`, `SenderNeverMissing`, `RefsForwardedInOrder` and `ClosedOnlyWhenGone`.

- `RefSenderImplementsStream`: `Spec => ImplementsRefStream`, the refinement of `RefStream`.
  The lemma `StreamStep` maps each step from an `RInv` state to a `RefStream` step or a stutter.
  `FutHasRoom` gives `SPublish` its bound. `SenderHeld` shows that `StartedOk` keeps the child
  alive, and that `RecvClosed` fires only when `~alive`.

All of these rest on `RInv`, which adds two facts to them:
- `SenderHeld`: a live wrapper (`spec`, `fut` or `sup`) holds its sender. This is why neither
  unwrap panics, and why `RecvClosed` can fire only once the child is gone.
- `FutHasRoom`: a start future exists only when one more start is within the bound. This keeps the
  next reference inside `1..MaxStarts`.

The sequence lemmas `ConcatAppend` and `MoveHead` show that a send and a receive keep
`received \o queue`. `RefsAppend` shows that appending the next reference to `1..n` gives
`1..n+1`.

`Messaging_proofs.tla` proves, for every set of requests and of types:
- `ClosedIsTrue` and `AcceptedReplyStays`: the two invariants of messaging_safety.

The invariant `MInv` adds `EnvelopeHoldsTx`: the Tx sits in the Sends exactly while the envelope
exists. Without it a dropped Tx could seem to come back to the actor through `ActorDowncast`.
Then a reply could land after a `Closed`.

TLC checked each inductive invariant (`TypeInv`, `OkInv`, `DrainInv`, `EscInv`, `BuildSpecs`, `RInv`, `MInv`)
as an invariant of its run's instance before it was proved.

Some properties are checked only by TLC:
- `StartResolves`, and the fairness half of `ImplementsAbstract`, are liveness properties.
  Liveness is beyond TLAPS, so they stay with TLC.

## 9. What is not modelled

- `OneForOneSupervisee::poll` is `todo!()`, so there is no running-phase restart logic to
  model.
- A nested group as a child is not modelled. A nested group reports `start_time =
  Duration::MAX`, which is a hazard listed in `PROJECT.json`.
- The tokio substrate, the dynamic-erasure layer and `ChildPool` only forward calls.
- `RefSenderSupervisee::halt`/`abort`, `abort_timeout`, `start_timeout` and `Tx::closed` forward
  to the inner value and change no state.
- `RefSender` is not composed with `OneForOne` as its child. `OneForOne` already lets a child's
  start future and supervisee return any result, and a `RefSenderSpec` child is one of them.

## 10. Plan

1. A stand-alone MC of `RestartLimiter` for spec §8.1.
2. A nested-group child with an unbounded start time (the `Duration::MAX` hazard).
