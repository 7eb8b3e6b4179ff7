---------------------------- MODULE MC_RefSender ----------------------------
(* Model-checking instance of RefSender: four successful starts, enough  *)
(* for a restart after a restart, with the receiver dropped in between.   *)
EXTENDS RefSender

MCMaxStarts == 4
=============================================================================
