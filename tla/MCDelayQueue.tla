---------------------------- MODULE MCDelayQueue ----------------------------
(* DelayQueue for TLC: the constant is in the cfg. *)
EXTENDS DelayQueue
=============================================================================
