---------------------------- MODULE MC_OneForOne ----------------------------
(* A small instance of OneForOne for TLC: up to three children, so that a *)
(* failure can exhaust a budget of one restart while a third child is     *)
(* still starting; two start times, so that the group's timer is a real   *)
(* maximum; a window of two ticks, so that an attempt can leave it.       *)
EXTENDS OneForOne

MCMaxChildren == 3
MCStartTimeouts == {1, 2}
MCSlack == 1
MCMaxTime == 2
MCLimit == 1
MCWithin == 2

=============================================================================
