--------------------------- MODULE MessageLifecycle ---------------------------
(***************************************************************************)
(* What the store promises about one message, whoever writes to it: it is  *)
(* stored once, may gain media metadata once and a saved file, may be      *)
(* edited while it is live, and a revoke takes all of that away for good.  *)
(* Only a delete makes room for the ID again.  No chats, senders or        *)
(* goroutines appear here; MessageRows implements this specification.      *)
(***************************************************************************)
CONSTANTS Ids, Absent

VARIABLE message   \* message[id]: Absent or what is stored of it

Fresh(media) == [text |-> "original", media |-> media, path |-> ""]
Placeholder  == [text |-> "[message revoked]", media |-> "", path |-> ""]

Init == message = [id \in Ids |-> Absent]

Live(id) == message[id] # Absent /\ message[id].text # Placeholder.text

Store(id, media) ==
  /\ message[id] = Absent
  /\ message' = [message EXCEPT ![id] = Fresh(media)]

AttachMedia(id) ==
  /\ Live(id) /\ message[id].media = ""
  /\ message' = [message EXCEPT ![id].media = "media"]

Save(id) ==
  /\ Live(id)
  /\ message' = [message EXCEPT ![id].path = "file"]

Edit(id) ==
  /\ Live(id)
  /\ message' = [message EXCEPT ![id].text = "edited"]

Revoke(id) ==
  /\ Live(id)
  /\ message' = [message EXCEPT ![id] = Placeholder]

Delete(id) ==
  /\ message[id] # Absent
  /\ message' = [message EXCEPT ![id] = Absent]

Next ==
  \E id \in Ids :
    \/ \E media \in {"", "media"} : Store(id, media)
    \/ AttachMedia(id) \/ Save(id) \/ Edit(id) \/ Revoke(id) \/ Delete(id)

Spec == Init /\ [][Next]_message
==============================================================================
