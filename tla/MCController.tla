---------------------------- MODULE MCController ----------------------------
(* Controller for TLC: the constants are in the cfgs. *)
EXTENDS Controller
=============================================================================
