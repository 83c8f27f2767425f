------------------------------- MODULE JidNorm -------------------------------
(***************************************************************************)
(* src/messages/jid_norm.go and the address rules of revoke_incoming.go:   *)
(* one canonical chat JID per person.  WhatsApp addresses a person by      *)
(* phone number or by LID; the LID to number mapping becomes known over    *)
(* time (it lives in the whatsmeow store), so every operator takes the set *)
(* `known' of LIDs whose number the store can return at that moment.       *)
(***************************************************************************)
CONSTANTS
  Groups,   \* group chat JIDs (@g.us)
  Pns,      \* phone-number JIDs (@s.whatsapp.net): a user and its 1:1 chat
  Lids,     \* LID JIDs (@lid)
  PnOf      \* the number behind each LID, whether known to us yet or not

Users == Pns \cup Lids
Chats == Groups \cup Users

(* A number has at most one LID, and the JID namespaces are disjoint. *)
ASSUME JidAssumption ==
  /\ PnOf \in [Lids -> Pns]
  /\ \A a, b \in Lids : PnOf[a] = PnOf[b] => a = b
  /\ Groups \cap Users = {} /\ Pns \cap Lids = {}

(* canonicalUserJID, and canonicalChatJID: only @lid JIDs are rewritten. *)
Canonical(known, jid) == IF jid \in known THEN PnOf[jid] ELSE jid

(* A MessageSource.  alt: the stanza carries the other address of the     *)
(* contact (SenderAlt, or RecipientAlt for our own message).               *)
Sources == [chat: Chats, sender: Users, fromMe: BOOLEAN, alt: BOOLEAN]

(* canonicalChatForSource: the alternate address first, then the store. *)
CanonicalChat(known, src) ==
  IF src.chat \in Lids /\ src.alt /\ (src.fromMe \/ src.sender = src.chat)
  THEN PnOf[src.chat]
  ELSE Canonical(known, src.chat)

(* sameUser: equal, or in different namespaces with one canonical form. *)
SameUser(known, a, b) ==
  \/ a = b
  \/ (a \in Lids) # (b \in Lids) /\ Canonical(known, a) = Canonical(known, b)

(* The addresses a source gives for its sender: Sender and SenderAlt. *)
SenderAddresses(src) ==
  {src.sender} \cup
  (IF ~src.alt THEN {}
   ELSE {a \in Users : \/ src.sender \in Lids /\ a = PnOf[src.sender]
                       \/ a \in Lids /\ PnOf[a] = src.sender})

(* revokeChatMatches: the stored chat is the chat of the event, in either  *)
(* JID form.  Groups have a single form.                                   *)
ChatMatches(known, src, stored) ==
  \/ stored = src.chat
  \/ stored = CanonicalChat(known, src)
  \/ /\ stored \notin Groups /\ src.chat \notin Groups
     /\ SameUser(known, stored, src.chat)

(* The sender of the source is the sender stored with the message. *)
SentBy(known, src, sender) ==
  \E a \in SenderAddresses(src) : SameUser(known, a, sender)

------------------------------------------------------------------------------
(* What the operators above stand for, independent of what is known yet:  *)
(* the person or group behind an address.                                  *)
Identity(jid) == IF jid \in Lids THEN PnOf[jid] ELSE jid
==============================================================================
