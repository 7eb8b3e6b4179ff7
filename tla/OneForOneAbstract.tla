-------------------------- MODULE OneForOneAbstract --------------------------
(***************************************************************************)
(* What the start of a one-for-one group promises, without its poll loop,  *)
(* timers or restart limiter.  A OneForOneSpec is a list of child          *)
(* specifications; start() turns all of them into start futures; then the  *)
(* children settle one at a time as their futures and supervisees resolve, *)
(* until the group's start future resolves once and for all: Ok only when  *)
(* no child is still starting, otherwise Irrecoverable.  Under fairness it *)
(* does resolve.                                                           *)
(***************************************************************************)
EXTENDS Naturals, Sequences

CONSTANT MaxChildren

VARIABLES
    stage,      \* "build", "starting", "done"
    items,      \* the state of each child slot
    result      \* "none", then the verdict

avars == <<stage, items, result>>

\* How one child slot may change while the group is starting: a start
\* future resolves (started, completed, failed back to a spec, or
\* irrecoverable), or a running supervisee exits.
ChildMoves ==
    {<<"StartFut", s>> : s \in {"Supervisee", "Completed", "Spec", "Irrecoverable"}}
    \cup {<<"Supervisee", s>> : s \in {"Spec", "Completed", "Irrecoverable"}}

\* The verdicts the start future may resolve to.
Outcomes == {"Ok", "Irrecoverable"}

AInit ==
    /\ stage = "build"
    /\ items = <<>>
    /\ result = "none"

\* The builder holds some child specifications.
ABuild ==
    /\ stage = "build"
    /\ \E n \in 0..MaxChildren : items' = [j \in 1..n |-> "Spec"]
    /\ UNCHANGED <<stage, result>>

\* start(): every specification becomes a start future.
AStart ==
    /\ stage = "build"
    /\ stage' = "starting"
    /\ items' = [j \in DOMAIN items |-> "StartFut"]
    /\ UNCHANGED result

\* One child settles.
AChild ==
    /\ stage = "starting"
    /\ \E j \in DOMAIN items, m \in ChildMoves :
         /\ items[j] = m[1]
         /\ items' = [items EXCEPT ![j] = m[2]]
    /\ UNCHANGED <<stage, result>>

\* The start future resolves; Ok requires that no child is still starting.
AResolve ==
    /\ stage = "starting"
    /\ \E v \in Outcomes :
         /\ v = "Ok" => \A j \in DOMAIN items : items[j] # "StartFut"
         /\ result' = v
    /\ stage' = "done"
    /\ UNCHANGED items

ANext == ABuild \/ AStart \/ AChild \/ AResolve

ASpec == AInit /\ [][ANext]_avars

\* A started group's start future is not left pending forever.
AFairSpec == ASpec /\ WF_avars(AResolve)

=============================================================================
