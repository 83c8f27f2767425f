----------------------------- MODULE MC_EventLoop -----------------------------
(* Instances of EventLoop: channels of one or two places, so that they     *)
(* fill up.                                                                *)
EXTENDS EventLoop

MC_All        == {"quit", "connect", "disconnect", "logout", "reset"}
MC_Disconnect == {"disconnect"}
==============================================================================
