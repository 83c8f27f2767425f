---------------------------- MODULE MC_Downloads ----------------------------
(* Three media messages: two with the same sender's file name, one without *)
(* a usable name.                                                          *)
EXTENDS Downloads, TLC

CONSTANTS m1, m2, m3, report, download, preview

MCNameOf == (m1 :> report) @@ (m2 :> report) @@ (m3 :> NoName)
==============================================================================
