--------------------------- MODULE RestartLimiter ---------------------------
(***************************************************************************)
(* The restart limiter that the one-for-one combinator consults once per   *)
(* failed start (one_for_one.rs lines 227 and 234).  Its code is not under *)
(* src/, so it is modelled from spec.md (sections 3 and 4.1): a log of the *)
(* instants of restart attempts; within_limit() records the current        *)
(* instant, forgets attempts older than `within`, and answers whether the  *)
(* attempts left in the window are at most `limit`.                        *)
(*                                                                         *)
(* The log is kept whole and only the attempts inside the trailing window  *)
(* are counted: since the clock never goes back, an attempt that has left  *)
(* the window never counts again, which is what forgetting it means.       *)
(***************************************************************************)
EXTENDS Integers, Sequences, FiniteSets

CONSTANTS
    Limit,      \* RestartLimiter::limit: restarts allowed inside one window
    Within      \* RestartLimiter::within: length of the window, in ticks

ASSUME LimiterAssumption == Limit \in Nat /\ Within \in Nat \ {0}

\* The positions of log whose attempt lies in the window ending at instant t.
InWindow(log, t) == {j \in DOMAIN log : t - log[j] < Within}

\* within_limit() called at instant t: the attempt is appended to the log.
Record(log, t) == Append(log, t)

\* The answer of within_limit() at instant t, given the log before the call.
WithinLimit(log, t) == Cardinality(InWindow(Record(log, t), t)) <= Limit

\* The j-th recorded call of within_limit() answered "exceeded".
RejectedAt(log, j) ==
    ~WithinLimit([k \in 1..(j - 1) |-> log[k]], log[j])

\* Some call recorded in log answered "exceeded".
Exhausted(log) == \E j \in DOMAIN log : RejectedAt(log, j)

=============================================================================
