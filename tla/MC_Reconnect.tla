---------------------------- MODULE MC_Reconnect ----------------------------
(***************************************************************************)
(* Instances of Reconnect: two reconnect goroutines, so that a duplicate   *)
(* can appear, and a few clients.  Two attempts stand for the code's five: *)
(* what matters is that one may fail before another succeeds.              *)
(***************************************************************************)
EXTENDS Reconnect

CONSTANTS r1, r2
==============================================================================
