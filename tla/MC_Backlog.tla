------------------------------ MODULE MC_Backlog ------------------------------
(* Instances of Backlog: the phone has four messages, of which the newest  *)
(* is stored and one has no text; one more may arrive.  An answer brings   *)
(* up to three; two may be due or in progress at a time, each of them      *)
(* possibly twice, and the program is killed once.                         *)
EXTENDS Backlog
==============================================================================
