----------------------------- MODULE MC_ChatList -----------------------------
(***************************************************************************)
(* Instances of ChatList: Alice with a number and a LID, a group, and our  *)
(* own account.                                                            *)
(***************************************************************************)
EXTENDS ChatList, TLC

CONSTANTS group, alice, me, aliceLid, i1, i2, i3

MC_Pns  == {alice, me}
MC_PnOf == aliceLid :> alice
MC_NoLids == <<>>

Src(chat, sender) ==
  [chat |-> chat, sender |-> sender, fromMe |-> sender = me, alt |-> FALSE]
Msg(id, src, ts) == [id |-> id, src |-> src, ts |-> ts]

(* TLC's workers share these values.  It orders the fields of a record     *)
(* when it first looks into it: testing each for its type does so while    *)
(* the set is built, before the workers start.                             *)
Typed(msgs)           == {m \in msgs : m \in [id: Ids, src: Sources, ts: Nat]}
TypedBatches(batches) == {b \in batches : b \in Seq(HistoryConversation)}

(* Alice writes under her LID, then under her number; or in the group. *)
MC_Wire ==
  Typed({ Msg(i1, Src(aliceLid, aliceLid), 1), Msg(i2, Src(alice, alice), 2) })
MC_GroupWire ==
  Typed({ Msg(i1, Src(group, alice), 1), Msg(i2, Src(group, alice), 2) })
MC_OneWire == Typed({ Msg(i1, Src(group, alice), 1) })
MC_Sends == {[id |-> i2, ts |-> 2]}

Conv(jid, time, unread, msgs) ==
  [jid |-> jid, alt |-> FALSE, time |-> time, unread |-> unread, pinned |-> FALSE,
   archived |-> FALSE, msgs |-> msgs]
Old(id, ts, fromMe) == [id |-> id, ts |-> ts, fromMe |-> fromMe]

(* History of Alice's chat: the contact alone, by both of her addresses,   *)
(* then the chat under her LID with a message of ours.                     *)
MC_Batches ==
  TypedBatches(
    { << [Conv(aliceLid, 0, 0, <<>>) EXCEPT !.alt = TRUE],
         [Conv(aliceLid, 3, 0, <<Old(i3, 3, TRUE)>>) EXCEPT !.pinned = TRUE] >> })

(* A conversation dated later than the messages it carries. *)
MC_LateBatches == TypedBatches({ << Conv(group, 2, 0, <<Old(i1, 1, FALSE)>>) >> })
==============================================================================
