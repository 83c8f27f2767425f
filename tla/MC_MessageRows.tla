--------------------------- MODULE MC_MessageRows ---------------------------
(***************************************************************************)
(* Small instances of MessageRows: Alice, who has a number and a LID, Bob, *)
(* a group in which Bob is admin, and our own account.                     *)
(***************************************************************************)
EXTENDS MessageRows, TLC

CONSTANTS group, alice, bob, me, aliceLid, i1, i2, w1, w2

MC_Pns    == {alice, bob, me}
MC_PnOf   == aliceLid :> alice
MC_Admins == group :> {bob}

Src(chat, sender, alt) ==
  [chat |-> chat, sender |-> sender, fromMe |-> sender = me, alt |-> alt]
Msg(id, src, hasMedia) == [id |-> id, src |-> src, hasMedia |-> hasMedia]

(* i1 is an ID two chats use, i2 a message of ours and a group message. *)
MC_Wire ==
  { Msg(i1, Src(aliceLid, aliceLid, FALSE), TRUE),
    Msg(i1, Src(group, bob, FALSE), TRUE),
    Msg(i2, Src(aliceLid, me, FALSE), TRUE),
    Msg(i2, Src(group, aliceLid, FALSE), FALSE) }

(* The same without shared IDs. *)
MC_DistinctWire ==
  { Msg(i1, Src(aliceLid, aliceLid, FALSE), TRUE),
    Msg(i2, Src(aliceLid, me, FALSE), FALSE) }

MC_Claims ==
  { Src(alice, alice, FALSE), Src(aliceLid, aliceLid, TRUE),
    Src(group, alice, FALSE), Src(group, bob, FALSE),
    Src(alice, me, FALSE) }

MC_WorkerSymmetry == Permutations(Workers)
==============================================================================
