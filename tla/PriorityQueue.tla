----------------------------- MODULE PriorityQueue -----------------------------
(***************************************************************************)
(* The queue of conversations (priority_queue.go) as the handlers use it:  *)
(* a binary heap that container/heap keeps in order, and convByJID.  The   *)
(* heap is told of a changed conversation by the Index the conversation    *)
(* carries, which Swap, Push, Pop and mergeLIDChat write by hand.          *)
(*                                                                         *)
(* All of it runs under sm.mu: a handler takes the lock, changes one       *)
(* conversation and has the heap repaired, here one comparison a step.     *)
(* A conversation object is named by its JID, under which it is created    *)
(* once as long as the map and the queue agree.                            *)
(***************************************************************************)
EXTENDS Integers

CONSTANTS
  Chats,       \* JIDs of conversations
  Groups,      \* those that are groups
  Merged,      \* from a LID to the phone number its chat is merged into
  Times        \* times of messages; 0 is the time of a chat without one

ASSUME PriorityQueueAssumption ==
  /\ Groups \subseteq Chats
  /\ DOMAIN Merged \subseteq Chats /\ Merged \in [DOMAIN Merged -> Chats]
  /\ \A lid \in DOMAIN Merged : Merged[lid] \notin DOMAIN Merged
  /\ Times \subseteq Nat /\ 0 \in Times

VARIABLES
  queue,       \* sm.priorityQueue, by place, the first being 0
  len,         \* its length
  index,       \* Conversation.Index
  time,        \* Conversation.LastMsgTime
  pinned,      \* the chats whose IsPinned is set
  listed,      \* the keys of convByJID
  sift,        \* what runs under sm.mu
  at, from,    \* where a sift is and where it began
  size,        \* the places it looks at
  leaving      \* the LID chats whose removal is under way

keys  == <<time, pinned>>
place == <<at, from, size>>
vars  == <<queue, len, index, keys, listed, sift, place, leaving>>

Places(n) == 0..(n - 1)

TypeOK ==
  /\ len \in Nat /\ queue \in [Places(len) -> Chats]
  /\ index \in [Chats -> Int] /\ time \in [Chats -> Times]
  /\ pinned \subseteq Chats /\ listed \subseteq Chats
  /\ sift \in {"unlocked", "down", "up", "pop", "merge"}
  /\ at \in Nat /\ from \in Nat /\ size \in Nat
  /\ leaving \subseteq DOMAIN Merged

Init ==
  /\ len = 0 /\ queue = [i \in Places(0) |-> 0]
  /\ index = [c \in Chats |-> -1]
  /\ time = [c \in Chats |-> 0] /\ pinned = {}
  /\ listed = {} /\ sift = "unlocked" /\ at = 0 /\ from = 0 /\ size = 0 /\ leaving = {}

Parent(k) == (k - 1) \div 2

(* Less, of two conversations. *)
Before(c, d) ==
  \/ c \in pinned /\ d \notin pinned
  \/ (c \in pinned <=> d \in pinned) /\ time[c] > time[d]

Less(i, j) == Before(queue[i], queue[j])

(* Mutant of Swap: the two places are exchanged, one Index is not. *)
SwapHalf(i, j) ==
  /\ queue' = [queue EXCEPT ![i] = queue[j], ![j] = queue[i]]
  /\ index' = [index EXCEPT ![queue[j]] = i]

Swap(i, j) ==
  /\ queue' = [queue EXCEPT ![i] = queue[j], ![j] = queue[i]]
  /\ index' = [index EXCEPT ![queue[j]] = i, ![queue[i]] = j]

Sift(direction, k, n) ==
  sift' = direction /\ at' = k /\ from' = k /\ size' = n

(* heap.Push: the conversation goes last and sifts up. *)
HeapPush(c) ==
  /\ queue' = [i \in Places(len + 1) |-> IF i = len THEN c ELSE queue[i]]
  /\ len' = len + 1
  /\ index' = [index EXCEPT ![c] = len]
  /\ Sift("up", len, len + 1)

(* heap.Fix, at the place the conversation says it has. *)
HeapFix(i) == Sift("down", i, len) /\ UNCHANGED <<queue, len, index>>

(* heap.Remove: the last conversation takes the place, and sifts.          *)
HeapRemove(i) ==
  /\ len > 0 /\ UNCHANGED len
  /\ IF i = len - 1
     THEN sift' = "pop" /\ UNCHANGED <<queue, index, place>>
     ELSE Swap(i, len - 1) /\ Sift("down", i, len - 1)
------------------------------------------------------------------------------
(* down: the smaller child of a place is exchanged with it, and on from    *)
(* there.  Without an exchange Fix and Remove sift up.                     *)
Children == {k \in {2 * at + 1, 2 * at + 2} : k < size}

First(k) == \A j \in Children : ~Less(j, k)

DownSwap ==
  /\ sift = "down"
  /\ \E k \in Children :
       First(k) /\ Less(k, at) /\ Swap(k, at) /\ at' = k
  /\ UNCHANGED <<len, keys, listed, sift, from, size, leaving>>

Sifted ==
  IF leaving # {} THEN sift' = "pop" /\ UNCHANGED place
  ELSE sift' = "unlocked" /\ at' = 0 /\ from' = 0 /\ size' = 0

DownEnds ==
  /\ sift = "down"
  /\ ~\E k \in Children : Less(k, at)
  /\ IF at > from THEN Sifted ELSE sift' = "up" /\ UNCHANGED place
  /\ UNCHANGED <<queue, len, index, keys, listed, leaving>>

UpSwap ==
  /\ sift = "up" /\ at > 0 /\ Less(at, Parent(at))
  /\ Swap(at, Parent(at)) /\ at' = Parent(at)
  /\ UNCHANGED <<len, keys, listed, sift, from, size, leaving>>

UpEnds ==
  /\ sift = "up" /\ ~(at > 0 /\ Less(at, Parent(at)))
  /\ Sifted
  /\ UNCHANGED <<queue, len, index, keys, listed, leaving>>

(* Pop: the last place is cut off. *)
Pop ==
  /\ sift = "pop"
  /\ len' = len - 1
  /\ queue' = [i \in Places(len - 1) |-> queue[i]]
  /\ index' = [index EXCEPT ![queue[len - 1]] = -1]
  /\ listed' = listed \ leaving
  /\ sift' = "merge" /\ at' = 0 /\ from' = 0 /\ size' = 0
  /\ UNCHANGED <<keys, leaving>>
------------------------------------------------------------------------------
(* The handlers. *)
Pins(c) == {pinned \cup {c}, pinned \ {c}}

(* A conversation the map does not have. *)
New(c, t, pins) ==
  /\ c \notin listed /\ listed' = listed \cup {c}
  /\ time' = [time EXCEPT ![c] = t] /\ pinned' = pins
  /\ HeapPush(c)
  /\ UNCHANGED leaving

(* PriorityQueue.Update *)
Update(c, t, pins) ==
  /\ c \in listed
  /\ time' = [time EXCEPT ![c] = t] /\ pinned' = pins
  /\ HeapFix(index[c])
  /\ UNCHANGED <<listed, leaving>>

Unlocked == sift = "unlocked"

(* Init loads a conversation. *)
Load(c, t) == Unlocked /\ \E pins \in Pins(c) : New(c, t, pins)

(* processIncomingMessage *)
Arrives(c, t) ==
  Unlocked /\ (Update(c, t, pinned) \/ New(c, t, pinned \ {c}))

Newer(t, u) == IF t > u THEN t ELSE u

(* Mutant of HistorySync: a pin that changes is not told to the heap. *)
HistorySyncNoFix(c, t) ==
  Unlocked /\ \E pins \in Pins(c) :
    \/ /\ c \in listed /\ time' = [time EXCEPT ![c] = Newer(t, time[c])] /\ pinned' = pins
       /\ UNCHANGED <<queue, len, index, listed, sift, place, leaving>>
    \/ New(c, t, pins)

(* storeHistorySync, for one conversation.  One that isEmptyChat keeps out *)
(* has no unread messages either, which the queue does not tell apart.     *)
HistorySync(c, t) ==
  Unlocked /\ \E pins \in Pins(c) :
    \/ Update(c, Newer(t, time[c]), pins)
    \/ New(c, t, pins)

(* importContacts and the group sync: a group that is new. *)
AddGroup(c) == Unlocked /\ c \in Groups /\ New(c, 0, pinned \ {c})

(* refreshPreviewAfterDelete: the last message of the chat is deleted, and *)
(* the time becomes that of the newest one left, or stays.                 *)
DeleteLast(c, t) == Unlocked /\ Update(c, t, pinned)

(* mergeLIDChat, under its write lock: the LID chat is removed ...         *)
Merge(lid) ==
  /\ Unlocked /\ lid \in listed
  /\ leaving' = {lid}
  /\ HeapRemove(index[lid])
  /\ UNCHANGED <<keys, listed>>

(* Mutant of SetMerged: the number's chat keeps its own pin, whatever the  *)
(* LID chat had.                                                           *)
SetMergedOwnPin(lid, pn) ==
  LET both == {lid} \cup (listed \cap {pn}) IN
  /\ \E t \in {time[c] : c \in both} :
       /\ \A c \in both : time[c] <= t
       /\ time' = [time EXCEPT ![pn] = t, ![lid] = 0]
  /\ pinned' = pinned \ ({lid} \cup ({pn} \ listed))

(* mergedConversation; lid is gone. *)
SetMerged(lid, pn) ==
  LET both == {lid} \cup (listed \cap {pn}) IN
  /\ \E t \in {time[c] : c \in both} :
       /\ \A c \in both : time[c] <= t
       /\ time' = [time EXCEPT ![pn] = t, ![lid] = 0]
  /\ pinned' = (pinned \cup IF both \cap pinned # {} THEN {pn} ELSE {}) \ {lid}

(* Mutant of MergeInto: the merged conversation keeps Index 0, which       *)
(* mergedConversation gave it.                                             *)
MergeIntoZero ==
  /\ sift = "merge" /\ leaving' = {}
  /\ \E lid \in leaving : LET pn == Merged[lid] IN
       /\ SetMerged(lid, pn)
       /\ IF pn \in listed
          THEN /\ index' = [index EXCEPT ![pn] = 0] /\ Sift("down", 0, len)
               /\ UNCHANGED <<queue, len, listed>>
          ELSE HeapPush(pn) /\ listed' = listed \cup {pn}

(* Mutant of MergeInto: that there may be no phone-number chat is forgotten. *)
MergeIntoListed ==
  /\ sift = "merge" /\ leaving' = {}
  /\ \E lid \in leaving : LET pn == Merged[lid] IN
       SetMerged(lid, pn) /\ HeapFix(index[pn]) /\ UNCHANGED listed

(* ... and the phone-number chat is what mergedConversation makes of both, *)
(* at its place, or a new one.                                             *)
MergeInto ==
  /\ sift = "merge" /\ leaving' = {}
  /\ \E lid \in leaving : LET pn == Merged[lid] IN
       /\ SetMerged(lid, pn)
       /\ IF pn \in listed
          THEN HeapFix(index[pn]) /\ UNCHANGED listed
          ELSE HeapPush(pn) /\ listed' = listed \cup {pn}

(* /reset: both are made anew. *)
Reset ==
  /\ Unlocked
  /\ len' = 0 /\ queue' = [i \in Places(0) |-> 0] /\ listed' = {}
  /\ index' = [c \in Chats |-> -1]
  /\ time' = [c \in Chats |-> 0] /\ pinned' = {}
  /\ UNCHANGED <<sift, place, leaving>>

Heap == DownSwap \/ DownEnds \/ UpSwap \/ UpEnds \/ Pop \/ MergeInto

Next ==
  \/ Heap \/ Reset
  \/ \E c \in Chats :
       \/ AddGroup(c)
       \/ c \in DOMAIN Merged /\ Merge(c)
       \/ \E t \in Times :
            \/ Load(c, t) \/ Arrives(c, t) \/ HistorySync(c, t) \/ DeleteLast(c, t)

Spec == Init /\ [][Next]_vars
------------------------------------------------------------------------------
(* Every conversation knows its place: what heap.Fix and heap.Remove are   *)
(* given by mergeLIDChat, a delete, a history sync or a message is the     *)
(* place of that conversation and of no other.                             *)
IndexIsPlace == \A i \in Places(len) : index[queue[i]] = i

(* The queue and convByJID have the same conversations, at every step: no  *)
(* handler loses one or lists one twice.                                   *)
Queued == {queue[i] : i \in Places(len)}

SameConversations == Queued = listed

(* priority_queue.go: pinned chats first, then the newer ones.  Whenever   *)
(* sm.mu is free the queue is a heap: no chat comes before its parent.     *)
HeapOrdered ==
  sift = "unlocked" => \A k \in Places(len) : k > 0 => ~Less(k, Parent(k))

(* What a reader of the queue sees (snapshotPQ).  A LID chat that is being *)
(* taken out counts until what takes its place is in, under the same lock. *)
Snapshot ==
  [c \in Queued \cup leaving |-> [time |-> time[c], pinned |-> c \in pinned]]

List == INSTANCE ConversationList WITH list <- Snapshot

(* Through the heap's comparisons, exchanges and indices every handler     *)
(* does one thing to the list: it changes its own conversation and no      *)
(* other, and a merge puts one in the place of two, as recent and as       *)
(* pinned as they were.                                                    *)
ImplementsList == List!Spec
==============================================================================
