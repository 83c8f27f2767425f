--------------------------- MODULE MC_PriorityQueue ---------------------------
(* Instances of PriorityQueue: a LID chat, the chat it is merged into, and *)
(* others that differ by what they are called.  With six places a removal  *)
(* can end in a sift up.                                                   *)
EXTENDS PriorityQueue, TLC

CONSTANTS lidChat, pnChat, others

MC_Chats    == {lidChat, pnChat} \cup others
MC_Merged   == lidChat :> pnChat
MC_Symmetry == Permutations(others)
==============================================================================
