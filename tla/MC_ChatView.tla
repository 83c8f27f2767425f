----------------------------- MODULE MC_ChatView -----------------------------
(***************************************************************************)
(* Instances of ChatView with pages of one or two messages, so that three  *)
(* messages already leave one hidden.                                      *)
(***************************************************************************)
EXTENDS ChatView, TLC

CONSTANTS pn, lid, o1, o2, n1

(* History brings o1 and o2 (o1 in the LID chat); n1 arrives, in the       *)
(* second of o2.                                                           *)
MC_TsOf   == o1 :> 1 @@ o2 :> 2 @@ n1 :> 2
MC_ChatOf == o1 :> lid @@ o2 :> pn @@ n1 :> lid

(* All in one chat, a second apart. *)
MC_Times   == o1 :> 1 @@ o2 :> 2 @@ n1 :> 3
MC_OneChat == o1 :> pn @@ o2 :> pn @@ n1 :> pn
==============================================================================
