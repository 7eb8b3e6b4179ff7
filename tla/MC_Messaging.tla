---------------------------- MODULE MC_Messaging ----------------------------
(* Model-checking instance of Messaging: two requests in flight, two     *)
(* message types, so that a downcast can fail and two requests can       *)
(* interleave.                                                           *)
EXTENDS Messaging, TLC

CONSTANTS r1, r2, T1, T2

MCRequests == {r1, r2}
MCTypes == {T1, T2}

\* Requests are interchangeable, and so are types.
MCSymmetry == Permutations(MCRequests) \cup Permutations(MCTypes)
=============================================================================
