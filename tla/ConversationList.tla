--------------------------- MODULE ConversationList ---------------------------
(***************************************************************************)
(* What a reader of the queue is promised (snapshotPQ): a list with one    *)
(* conversation a chat, in which a handler adds or changes one and touches *)
(* no other, a merge is one step that leaves the number's chat as recent   *)
(* and as pinned as the two were, and a reset empties it.  No places,      *)
(* indices or sifts appear here; PriorityQueue implements this.            *)
(***************************************************************************)
EXTENDS Integers

CONSTANTS Chats, Merged, Times

VARIABLE list   \* from the listed chats to what the list knows of each

Conversation == [time : Times, pinned : BOOLEAN]

Init == DOMAIN list = {}

(* The list with one conversation added or changed. *)
Put(c, conv) ==
  list' = [d \in DOMAIN list \cup {c} |-> IF d = c THEN conv ELSE list[d]]

Merge(lid) ==
  LET both == {lid, Merged[lid]} \cap DOMAIN list IN
  /\ lid \in both
  /\ \E last \in both :
       /\ \A c \in both : list[c].time <= list[last].time
       /\ list' = [c \in (DOMAIN list \ {lid}) \cup {Merged[lid]} |->
            IF c = Merged[lid]
            THEN [time |-> list[last].time, pinned |-> \E d \in both : list[d].pinned]
            ELSE list[c]]

Clear == DOMAIN list' = {}

Next ==
  \/ \E c \in Chats, conv \in Conversation : Put(c, conv)
  \/ \E lid \in DOMAIN Merged : Merge(lid)
  \/ Clear

Spec == Init /\ [][Next]_list
==============================================================================
