----------------------------- MODULE ChatListProofs -----------------------------
(***************************************************************************)
(* Proofs about ChatList for any chats, messages, history syncs and        *)
(* goroutines of the five kinds.  Types need nothing else.  The properties *)
(* are about who has still to put right what is not yet: the handler that  *)
(* will list a sender (Listing), the one that holds the copy of a changed  *)
(* conversation (Saved), the message that is stored and not yet counted    *)
(* (Counted); each theorem names what it assumes of the program's run.     *)
(***************************************************************************)
EXTENDS ChatList, WellFoundedInduction, FiniteSetTheorems, SequenceTheorems,
  TLAPS

(* A history sync has a conversation before it, and the messages it still  *)
(* has to store are of that one.                                           *)
HistoryAtWork ==
  At("history", "history") =>
    LET t == task["history"] IN
    /\ t.convs # <<>>
    /\ \A i \in DOMAIN t.convs : \E b \in Batches : \E j \in DOMAIN b : t.convs[i] = b[j]
    /\ \A i \in DOMAIN t.msgs : \E j \in DOMAIN Head(t.convs).msgs :
         t.msgs[i] = Head(t.convs).msgs[j]

Typed ==
  /\ TypeOK /\ HistoryAtWork
  /\ \A p \in Goroutines : At(p, "save") => task[p].copies # <<>>
------------------------------------------------------------------------------
(* SenderIsListed: a row is of a listed chat, or of one its handler lists. *)
WillList(chat) ==
  \/ At("messages", "list") /\ task["messages"].chat = chat
  \/ /\ At("history", "history") /\ task["history"].chat = chat
     /\ ~EmptyChat(chat, FromHistory(Head(task["history"].convs)))

FromOthers(id) == rows[id] # NoRow /\ ~rows[id].fromMe

Listing ==
  \A id \in Ids : FromOthers(id) =>
    \E c \in Chats : Identity(c) = Identity(rows[id].chat) /\ (mem[c] # None \/ WillList(c))

(* ListIsSaved: whoever changed the list still has the copy, and a merge   *)
(* between its transaction and its change of the list knows what to list.  *)
Carries(p, chat) ==
  /\ task[p] # Idle /\ task[p].step \in {"save", "history"}
  /\ \E i \in DOMAIN task[p].copies : task[p].copies[i].chat = chat

Merging(p, lid) == At(p, "mergeList") /\ task[p].lid = lid

ListedIsSaved ==
  reset # "tables" => \A c \in Chats : mem[c] # None =>
    db[c] # None \/ \E p \in Goroutines : Carries(p, c) \/ Merging(p, c)

OnlyListed ==
  reset = "no" => \A c \in Chats \ Lids :
    db[c] # None \/ (\E p \in Goroutines : Carries(p, c)) =>
      mem[c] # None \/ \E p \in Goroutines, lid \in Lids : Merging(p, lid) /\ PnOf[lid] = c

MergesKnown ==
  \A p \in Goroutines, lid \in Lids :
    /\ Merging(p, lid) => db[PnOf[lid]] # None
    /\ Merging(p, lid) \/ (At(p, "mergeTx") /\ task[p].lid = lid) =>
         mem[lid] # None \/ mem[PnOf[lid]] # None

Saved ==
  /\ ListedIsSaved /\ OnlyListed /\ MergesKnown
  /\ ~Resets => reset = "no"

(* UnreadMatchesArrivals and NothingCountedTwice. *)
ListedIsStored ==
  At("messages", "list") =>
    LET t == task["messages"] IN
    /\ rows[t.msg.id] # NoRow /\ rows[t.msg.id].fromMe = t.msg.src.fromMe
    /\ Identity(rows[t.msg.id].chat) = Identity(t.chat)

Counted ==
  /\ \A who \in Groups \cup Pns : ListUnread(who) = Cardinality(Arrived(who) \ Counting)
  /\ ListedIsStored

CountedOnce ==
  /\ \A who \in Groups \cup Pns : ListUnread(who) <= Cardinality(Arrived(who) \ Counting)
  /\ ListedIsStored
------------------------------------------------------------------------------
(* Conversations stay conversations, whatever is done to them. *)
LEMMA Markers ==
  /\ None \notin Conversation /\ None \notin Chats /\ NoRow \notin Stored /\ Idle \notin Busy
  /\ Wire \subseteq [id: Ids, src: Sources, ts: Nat] /\ Sends \subseteq [id: Ids, ts: Nat]
  /\ Opened \subseteq Chats /\ Restarts \in BOOLEAN /\ Resets \in BOOLEAN
  /\ \A b \in Batches : b \in Seq(HistoryConversation)
BY ChatListAssumption

LEMMA Addresses ==
  /\ \A lid \in Lids : PnOf[lid] \in Pns /\ PnOf[lid] \notin Lids /\ PnOf[lid] \in Chats /\ lid \in Chats
  /\ \A a, b \in Lids : PnOf[a] = PnOf[b] => a = b
  /\ \A c \in Groups \cup Pns : c \in Chats /\ c \notin Lids
BY JidAssumption DEF Chats, Users

LEMMA ChatTypes ==
  /\ \A k \in SUBSET Lids, c \in Chats : Canonical(k, c) \in Chats
  /\ \A k \in SUBSET Lids, src \in Sources : CanonicalChat(k, src) \in Chats
<1>1. ASSUME NEW k \in SUBSET Lids, NEW c \in Chats PROVE Canonical(k, c) \in Chats
  BY Addresses DEF Canonical
<1>2. QED BY <1>1, Addresses DEF CanonicalChat, Sources

LEMMA Counts ==
  /\ MaxUint16 \in Nat
  /\ \A n, max \in Nat : n % (max + 1) \in 0..max /\ (n < max => (n + 1) % (max + 1) = n + 1)
<1>1. MaxUint16 \in Nat
  BY SMT DEF MaxUint16
<1>2. QED BY <1>1

LEMMA Elements ==
  ASSUME NEW S, NEW s \in Seq(S)
  PROVE  /\ Len(s) \in Nat /\ DOMAIN s = 1..Len(s) /\ \A i \in DOMAIN s : s[i] \in S
         /\ s # <<>> => /\ Len(s) > 0 /\ Head(s) = s[1] /\ 1 \in DOMAIN s
                        /\ Tail(s) \in Seq(S) /\ Len(Tail(s)) = Len(s) - 1
                        /\ \A i \in DOMAIN Tail(s) : i + 1 \in DOMAIN s /\ Tail(s)[i] = s[i + 1]
BY ElementOfSeq, EmptySeq, HeadTailProperties

LEMMA ListedType ==
  ASSUME NEW conv \in Conversation \cup {None}, NEW m \in Wire
  PROVE  Listed(conv, m) \in Conversation
<1> DEFINE new == [time |-> m.ts, preview |-> m.id, unread |-> 0, pinned |-> FALSE, archived |-> FALSE]
           old == IF conv = None THEN new ELSE [conv EXCEPT !.time = m.ts, !.preview = m.id]
<1>1. m.ts \in Nat /\ m.id \in Ids
  BY Markers
<1>2. new \in Conversation
  BY <1>1, Counts DEF Conversation
<1>3. old \in Conversation
  <2> HIDE DEF new
  <2>1. QED BY <1>1, <1>2 DEF Conversation
<1>4. Listed(conv, m) = IF m.src.fromMe THEN old
                        ELSE [old EXCEPT !.unread = (@ + 1) % (MaxUint16 + 1)]
  BY DEF Listed
<1> HIDE DEF old
<1>5. old.unread + 1 \in Nat
  BY <1>3, Counts DEF Conversation
<1>6. (old.unread + 1) % (MaxUint16 + 1) \in 0..MaxUint16
  BY <1>5, Counts
<1>7. QED BY <1>3, <1>4, <1>6 DEF Conversation

(* Of the messages a conversation carries one is the newest. *)
Earlier == {p \in Nat \X Nat : p[1] < p[2]}

LEMMA NewestExists ==
  ASSUME NEW msgs \in HistoryMessages, msgs # <<>>
  PROVE  \E i \in DOMAIN msgs : \A j \in DOMAIN msgs :
           msgs[j].ts < msgs[i].ts \/ (msgs[j].ts = msgs[i].ts /\ i <= j)
<1> DEFINE Newest(n, i) == \A j \in 1..n :
             msgs[j].ts < msgs[i].ts \/ (msgs[j].ts = msgs[i].ts /\ i <= j)
           B == {n \in 1..Len(msgs) : \A i \in 1..n : ~Newest(n, i)}
<1> DEFINE S == [id: Ids, ts: Nat, fromMe: BOOLEAN]
<1>0. Len(msgs) \in Nat \ {0} /\ DOMAIN msgs = 1..Len(msgs) /\ \A i \in DOMAIN msgs : msgs[i] \in S
  <2> HIDE DEF S
  <2>1. msgs \in Seq(S)
    BY DEF HistoryMessages, S
  <2>2. QED BY <2>1, Elements
<1>1. /\ DOMAIN msgs = 1..Len(msgs) /\ Len(msgs) \in Nat \ {0}
      /\ \A i \in 1..Len(msgs) : msgs[i].ts \in Nat
  BY <1>0
<1> HIDE DEF S
<1>2. ASSUME B # {} PROVE FALSE
  <2>1. IsWellFoundedOn(Earlier, Nat) /\ B \subseteq Nat
    BY <1>1, NatLessThanWellFounded DEF OpToRel, Earlier
  <2>2. PICK n \in B : \A m \in B : <<m, n>> \notin Earlier
    <3> HIDE DEF B
    <3> QED BY <1>2, <2>1, WFMin
  <2>3. n \in 1..Len(msgs) /\ \A i \in 1..n : ~Newest(n, i)
    OBVIOUS
  <2>4. n \in Nat /\ 1 <= n /\ n <= Len(msgs) /\ Len(msgs) \in Nat
    BY <1>1, <2>3
  <2>5. \A m \in 1..Len(msgs) : m < n => \E i \in 1..m : Newest(m, i)
    <3> SUFFICES ASSUME NEW m \in 1..Len(msgs), m < n PROVE m \notin B
      OBVIOUS
    <3> HIDE DEF B
    <3>1. <<m, n>> \in Nat \X Nat /\ <<m, n>>[1] < <<m, n>>[2]
      BY <2>4
    <3>2. QED BY <2>2, <3>1 DEF Earlier
  <2> HIDE DEF B
  <2>6. CASE n = 1
    <3>1. \A j \in 1..1 : j = 1
      OBVIOUS
    <3>2. Newest(1, 1)
      BY <3>1
    <3>3. QED BY <2>3, <2>6, <3>2
  <2>7. CASE n # 1
    <3>1. n - 1 \in 1..Len(msgs) /\ n - 1 < n
      BY <2>4, <2>7
    <3>2. PICK i \in 1..(n - 1) : Newest(n - 1, i)
      BY <2>5, <3>1
    <3>3. /\ i \in 1..n /\ n \in 1..n /\ i < n /\ i \in 1..Len(msgs) /\ n \in 1..Len(msgs)
          /\ \A j \in 1..n : j \in 1..(n - 1) \/ j = n
      BY <2>4, <2>7
    <3>4. msgs[n].ts \in Nat /\ msgs[i].ts \in Nat
      BY <1>1, <3>3
    <3>5. CASE msgs[n].ts <= msgs[i].ts
      <4>1. Newest(n, i)
        BY <2>4, <3>2, <3>3, <3>4, <3>5
      <4>2. QED BY <2>3, <3>3, <4>1
    <3>6. CASE msgs[i].ts < msgs[n].ts
      <4>1. \A j \in 1..(n - 1) : msgs[j].ts \in Nat /\ msgs[j].ts < msgs[n].ts
        BY <1>1, <2>4, <3>2, <3>4, <3>6
      <4>2. Newest(n, n)
        BY <2>4, <3>3, <4>1
      <4>3. QED BY <2>3, <3>3, <4>2
    <3>7. QED BY <3>4, <3>5, <3>6
  <2>8. QED BY <2>6, <2>7
<1>3. \E i \in 1..Len(msgs) : Newest(Len(msgs), i)
  <2>1. Len(msgs) \in 1..Len(msgs)
    BY <1>1
  <2>2. QED BY <1>2, <2>1
<1>4. QED BY <1>1, <1>3

LEMMA NewestFacts ==
  ASSUME NEW h \in HistoryConversation
  PROVE  /\ NewestOf(h).ts \in Nat /\ NewestOf(h).id \in Ids \cup {NewChat}
         /\ \A j \in DOMAIN h.msgs : h.msgs[j].ts \in Nat /\ h.msgs[j].ts <= NewestOf(h).ts
<1>1. h.msgs \in HistoryMessages
  BY DEF HistoryConversation
<1>2. CASE h.msgs = <<>>
  BY <1>2 DEF NewestOf
<1>3. CASE h.msgs # <<>>
  <2> DEFINE at == CHOOSE i \in DOMAIN h.msgs : \A j \in DOMAIN h.msgs :
                     h.msgs[j].ts < h.msgs[i].ts \/ (h.msgs[j].ts = h.msgs[i].ts /\ i <= j)
  <2>1. /\ at \in DOMAIN h.msgs
        /\ \A j \in DOMAIN h.msgs : h.msgs[j].ts < h.msgs[at].ts \/ h.msgs[j].ts = h.msgs[at].ts
    BY <1>1, <1>3, NewestExists
  <2>2. NewestOf(h) = h.msgs[at]
    BY <1>3 DEF NewestOf
  <2> HIDE DEF at
  <2>3. \A j \in DOMAIN h.msgs : h.msgs[j] \in [id: Ids, ts: Nat, fromMe: BOOLEAN]
    BY <1>1, Elements DEF HistoryMessages
  <2>4. QED BY <2>1, <2>2, <2>3
<1>4. QED BY <1>2, <1>3

LEMMA HistoryTypes ==
  ASSUME NEW h \in HistoryConversation
  PROVE  /\ FromHistory(h) \in Conversation
         /\ \A conv \in Conversation : Refreshed(conv, h) \in Conversation
         /\ \A k \in SUBSET Lids : known = k => HistoryChat(h) \in Chats
<1>1. /\ h.time \in Nat /\ h.unread \in 0..MaxUint16 /\ h.pinned \in BOOLEAN /\ h.archived \in BOOLEAN
      /\ h.jid \in Chats
  BY DEF HistoryConversation
<1>2. FromHistory(h) \in Conversation
  BY <1>1, NewestFacts DEF FromHistory, Conversation, Larger
<1>3. ASSUME NEW conv \in Conversation PROVE Refreshed(conv, h) \in Conversation
  <2> DEFINE new == FromHistory(h)
             dated == IF new.time > conv.time
                      THEN [conv EXCEPT !.time = new.time, !.preview = new.preview] ELSE conv
  <2> HIDE DEF new
  <2>1. dated \in Conversation
    BY <1>2 DEF Conversation, new
  <2> HIDE DEF dated
  <2>2. Larger(dated.unread, h.unread) \in 0..MaxUint16
    BY <1>1, <2>1 DEF Larger, Conversation
  <2>3. Refreshed(conv, h) = [dated EXCEPT !.unread = Larger(@, h.unread), !.pinned = h.pinned,
                                           !.archived = h.archived]
    BY DEF Refreshed, dated, new
  <2>4. QED BY <1>1, <2>1, <2>2, <2>3 DEF Conversation
<1>4. ASSUME NEW k \in SUBSET Lids, known = k PROVE HistoryChat(h) \in Chats
  BY <1>1, <1>4, Addresses, ChatTypes DEF HistoryChat
<1>5. QED BY <1>2, <1>3, <1>4

LEMMA MergedType ==
  ASSUME NEW a \in Conversation, NEW b \in Conversation \cup {None}
  PROVE  Merged(a, b) \in Conversation
<1>1. CASE b = None
  BY <1>1 DEF Merged
<1>2. CASE b \in Conversation /\ b # None
  <2> DEFINE newer == IF b.time >= a.time THEN b ELSE a
             sum == IF b.unread + a.unread > MaxUint16 THEN MaxUint16 ELSE b.unread + a.unread
  <2>1. newer \in Conversation /\ b.pinned \in BOOLEAN /\ a.pinned \in BOOLEAN
    BY <1>2 DEF Conversation
  <2>2. sum \in 0..MaxUint16
    <3>1. a.unread \in Nat /\ b.unread \in Nat /\ MaxUint16 \in Nat
      BY <1>2, Counts DEF Conversation
    <3>2. QED BY <3>1
  <2>3. Merged(a, b) = [newer EXCEPT !.unread = sum, !.pinned = b.pinned \/ a.pinned,
                                     !.archived = b.archived /\ a.archived]
    BY <1>2 DEF Merged
  <2> HIDE DEF newer, sum
  <2>4. QED BY <2>1, <2>2, <2>3 DEF Conversation
<1>3. QED BY <1>1, <1>2
------------------------------------------------------------------------------
(* What a goroutine at a step remembers. *)
LEMMA Remembers ==
  ASSUME TypeOK, NEW p \in Goroutines, task[p] # Idle
  PROVE  /\ task[p].step = "save" => task[p] \in [step: {"save"}, copies: Copies, then: {Idle} \cup Merges]
         /\ task[p].step \in {"store", "list"} => task[p] \in [step: {"store", "list"}, msg: Wire, chat: Chats]
         /\ task[p].step = "history" =>
              task[p] \in [step: {"history"}, convs: Seq(HistoryConversation), chat: Chats,
                           msgs: HistoryMessages, copies: Copies]
         /\ task[p].step = "read" => task[p] \in [step: {"read"}, chat: Chats]
         /\ task[p].step = "delete" => task[p] \in [step: {"delete"}, id: Ids, row: Stored]
         /\ task[p].step = "latest" => task[p] \in [step: {"latest"}, row: Stored]
         /\ task[p].step = "preview" =>
              task[p] \in [step: {"preview"}, row: Stored, id: Ids \cup {NewChat}, ts: Nat]
         /\ task[p].step = "merge" => task[p] \in [step: {"merge"}, todo: SUBSET Lids]
         /\ task[p].step \in {"mergeTx", "mergeList"} =>
              task[p] \in [step: {"mergeTx", "mergeList"}, lid: Lids, todo: SUBSET Lids, conv: Conversation]
<1>1. task[p] \in Busy
  BY DEF TypeOK, Tasks
<1>2. QED BY <1>1 DEF Busy, Merges

LEMMA DoTypes ==
  ASSUME TypeOK, NEW p \in Goroutines, NEW t \in Tasks, Do(p, t)
  PROVE  task' \in [Goroutines -> Tasks]
BY DEF Do, TypeOK

LEMMA MemTypes ==
  ASSUME TypeOK
  PROVE  /\ mem \in [Chats -> Conversation \cup {None}] /\ db \in [Chats -> Conversation \cup {None}]
         /\ \A c \in Chats : mem[c] # None => mem[c] \in Conversation
         /\ rows \in [Ids -> Stored \cup {NoRow}] /\ known \in SUBSET Lids
BY DEF TypeOK

(* A conversation changed and its copy taken, in one step. *)
LEMMA SaveTypes ==
  ASSUME TypeOK, NEW p \in Goroutines, NEW chat \in Chats, NEW conv \in Conversation,
         mem' = [mem EXCEPT ![chat] = conv], NEW then \in {Idle} \cup Merges,
         Do(p, Saving(<<Copy(chat)>>, then)), UNCHANGED <<rows, db, known, reset>>,
         open' \in Chats \cup {None}
  PROVE  TypeOK' /\ task'[p] = Saving(<<Copy(chat)>>, then)
<1>1. mem' \in [Chats -> Conversation \cup {None}] /\ mem'[chat] = conv
  BY MemTypes
<1>2. Copy(chat) \in [chat: Chats, conv: Conversation]
  BY <1>1 DEF Copy
<1>3. Saving(<<Copy(chat)>>, then) \in [step: {"save"}, copies: Copies, then: {Idle} \cup Merges]
  BY <1>2 DEF Saving, Copies
<1>4. Saving(<<Copy(chat)>>, then) \in Tasks
  BY <1>3 DEF Tasks, Busy
<1>5. task' \in [Goroutines -> Tasks]
  BY <1>4, DoTypes
<1>6. task'[p] = Saving(<<Copy(chat)>>, then)
  BY DEF Do, TypeOK
<1>7. QED BY <1>1, <1>5, <1>6 DEF TypeOK

LEMMA InsertTypes ==
  ASSUME TypeOK, NEW id \in Ids, NEW row \in Stored, Insert(id, row)
  PROVE  rows' \in [Ids -> Stored \cup {NoRow}]
BY DEF TypeOK, Insert

LEMMA InitTypeOK == Init => TypeOK
<1> SUFFICES ASSUME Init PROVE TypeOK
  OBVIOUS
<1>1. mem = [c \in Chats |-> None] /\ db = [c \in Chats |-> None]
  BY DEF Init
<1>2. {mem, db} \subseteq [Chats -> Conversation \cup {None}]
  BY <1>1
<1>3. rows \in [Ids -> Stored \cup {NoRow}] /\ task \in [Goroutines -> Tasks]
  BY DEF Init, Tasks
<1>4. QED BY <1>2, <1>3 DEF Init, TypeOK

LEMMA HistoryTaskType ==
  ASSUME TypeOK, NEW convs \in Seq(HistoryConversation), NEW copies \in Copies
  PROVE  HistoryTask(convs, copies) \in Busy /\ HistoryTask(convs, copies) \in Tasks
<1>1. CASE convs # <<>>
  <2>1. Head(convs) \in HistoryConversation
    BY <1>1, Elements
  <2>2. HistoryChat(Head(convs)) \in Chats /\ Head(convs).msgs \in HistoryMessages
    BY <2>1, HistoryTypes, MemTypes DEF HistoryConversation
  <2>3. HistoryTask(convs, copies) \in [step: {"history"}, convs: Seq(HistoryConversation),
                                        chat: Chats, msgs: HistoryMessages, copies: Copies]
    BY <1>1, <2>2 DEF HistoryTask
  <2>4. QED BY <2>3 DEF Tasks, Busy
<1>2. CASE convs = <<>>
  <2>1. [step |-> "collect"] \in Merges
    BY DEF Merges
  <2>2. Saving(copies, [step |-> "collect"]) \in Busy
    BY <2>1 DEF Saving, Busy
  <2>3. QED BY <1>2, <2>1, <2>2 DEF HistoryTask, Tasks, Busy
<1>3. QED BY <1>1, <1>2

(* Messages arriving and sent. *)
LEMMA MessagesTyped == TypeOK /\ Messages => TypeOK'
<1> SUFFICES ASSUME TypeOK, Messages PROVE TypeOK'
  OBVIOUS
<1>1. ASSUME NEW m \in Wire, Incoming(m) PROVE TypeOK'
  <2>1. CanonicalChat(known, m.src) \in Chats
    BY Markers, ChatTypes, MemTypes
  <2>2. [step |-> "store", msg |-> m, chat |-> CanonicalChat(known, m.src)] \in Tasks
    BY <2>1 DEF Tasks, Busy
  <2>3. task' \in [Goroutines -> Tasks]
    BY <1>1, <2>2, DoTypes DEF Incoming, Free
  <2>4. QED BY <1>1, <2>3 DEF Incoming, TypeOK
<1>2. CASE StoreIncoming
  <2> DEFINE t == task["messages"]
             next == [t EXCEPT !.step = "list"]
             row == [chat |-> t.chat, ts |-> t.msg.ts, fromMe |-> t.msg.src.fromMe]
  <2>1. t \in [step: {"store", "list"}, msg: Wire, chat: Chats] /\ "messages" \in Goroutines
    BY <1>2, Remembers DEF StoreIncoming, At
  <2>2. next \in Tasks /\ Idle \in Tasks
    BY <2>1 DEF Tasks, Busy
  <2>3. row \in Stored /\ t.msg.id \in Ids
    BY <2>1, Markers DEF Stored, Sources
  <2>4. \/ Insert(t.msg.id, row) /\ (Do("messages", next) \/ Do("messages", Idle))
        \/ UNCHANGED rows /\ Do("messages", next)
    BY <1>2 DEF StoreIncoming
  <2> HIDE DEF next, row, t
  <2>5. task' \in [Goroutines -> Tasks]
    BY <2>1, <2>2, <2>4, DoTypes
  <2>6. rows' \in [Ids -> Stored \cup {NoRow}]
    BY <2>3, <2>4, InsertTypes, MemTypes
  <2>7. QED BY <1>2, <2>5, <2>6 DEF StoreIncoming, TypeOK
<1>3. CASE IncomingListed
  <2> DEFINE t == task["messages"]
             conv == Listed(mem[t.chat], t.msg)
  <2>1. t \in [step: {"store", "list"}, msg: Wire, chat: Chats] /\ "messages" \in Goroutines
    BY <1>3, Remembers DEF IncomingListed, At
  <2>2. conv \in Conversation /\ t.chat \in Chats
    BY <2>1, ListedType, MemTypes
  <2>3. mem' = [mem EXCEPT ![t.chat] = conv]
    BY <1>3 DEF IncomingListed
  <2>4. Do("messages", Saving(<<Copy(t.chat)>>, Idle)) /\ UNCHANGED <<rows, db, known, open, reset>>
    BY <1>3 DEF IncomingListed, Save
  <2> HIDE DEF conv, t
  <2>5. open' \in Chats \cup {None}
    BY <2>4 DEF TypeOK
  <2>6. QED BY <2>1, <2>2, <2>3, <2>4, <2>5, SaveTypes
<1>4. QED BY <1>1, <1>2, <1>3 DEF Messages

(* A history sync. *)
LEMMA HistoryTyped == TypeOK /\ HistoryAtWork /\ History => TypeOK'
<1> SUFFICES ASSUME TypeOK, HistoryAtWork, History PROVE TypeOK'
  OBVIOUS
<1>1. ASSUME NEW b \in Batches, HistorySync(b) PROVE TypeOK'
  <2>0. b \in Seq(HistoryConversation) /\ <<>> \in Copies
    BY Markers DEF Copies
  <2>1. HistoryTask(b, <<>>) \in Tasks
    BY <2>0, HistoryTaskType
  <2>2. task' \in [Goroutines -> Tasks]
    BY <1>1, <2>1, DoTypes DEF HistorySync, Free
  <2>3. QED BY <1>1, <2>2 DEF HistorySync, TypeOK
<1> DEFINE t == task["history"]
<1>2. CASE HistoryMessage
  <2> DEFINE m == Head(t.msgs)
             row == [chat |-> t.chat, ts |-> m.ts, fromMe |-> m.fromMe]
  <2>1. /\ t \in [step: {"history"}, convs: Seq(HistoryConversation), chat: Chats,
                  msgs: HistoryMessages, copies: Copies]
        /\ "history" \in Goroutines /\ t.msgs # <<>>
    BY <1>2, Remembers DEF HistoryMessage, At
  <2>2. m \in [id: Ids, ts: Nat, fromMe: BOOLEAN] /\ Tail(t.msgs) \in HistoryMessages
    <3> DEFINE S == [id: Ids, ts: Nat, fromMe: BOOLEAN]
    <3> HIDE DEF S, t, m
    <3>1. t.msgs \in Seq(S) /\ t.msgs # <<>>
      BY <2>1 DEF HistoryMessages, S
    <3>2. Head(t.msgs) \in S /\ Tail(t.msgs) \in Seq(S)
      BY <3>1, Elements
    <3>3. QED BY <3>2 DEF S, m, HistoryMessages
  <2>3. row \in Stored /\ m.id \in Ids
    BY <2>1, <2>2 DEF Stored
  <2>4. (Insert(m.id, row) \/ UNCHANGED rows) /\ UNCHANGED <<mem, db, known, open, reset>>
    BY <1>2 DEF HistoryMessage
  <2>5. task' \in [Goroutines -> Tasks]
    <3>1. [t EXCEPT !.msgs = Tail(@)] \in Tasks
      BY <2>1, <2>2 DEF Tasks, Busy
    <3>2. task' = [task EXCEPT !["history"] = [t EXCEPT !.msgs = Tail(@)]]
      BY <1>2 DEF HistoryMessage
    <3>3. QED BY <3>1, <3>2 DEF TypeOK
  <2> HIDE DEF t, m, row
  <2>6. rows' \in [Ids -> Stored \cup {NoRow}]
    BY <2>3, <2>4, InsertTypes, MemTypes
  <2>7. QED BY <2>4, <2>5, <2>6 DEF TypeOK
<1>3. CASE HistoryListed
  <2> DEFINE h == Head(t.convs)
             conv == IF mem[t.chat] # None THEN Refreshed(mem[t.chat], h)
                     ELSE IF EmptyChat(t.chat, FromHistory(h)) THEN None
                     ELSE FromHistory(h)
             copies == IF conv = mem[t.chat] THEN t.copies ELSE Append(t.copies, Copy(t.chat))
  <2>1. t.convs # <<>>
    BY <1>3 DEF HistoryAtWork, HistoryListed
  <2>2. QED
    <3>1. /\ t \in [step: {"history"}, convs: Seq(HistoryConversation), chat: Chats,
                    msgs: HistoryMessages, copies: Copies]
          /\ "history" \in Goroutines
      BY <1>3, Remembers DEF HistoryListed, At
    <3>2. h \in HistoryConversation /\ Tail(t.convs) \in Seq(HistoryConversation)
      BY <2>1, <3>1, Elements
    <3>3. conv \in Conversation \cup {None} /\ (conv = None => mem[t.chat] = None)
      BY <3>1, <3>2, HistoryTypes, MemTypes, Markers
    <3>4. /\ mem' = [mem EXCEPT ![t.chat] = conv] /\ UNCHANGED <<rows, db, known, open, reset>>
          /\ Do("history", HistoryTask(Tail(t.convs), copies))
      BY <1>3 DEF HistoryListed
    <3>5. mem' \in [Chats -> Conversation \cup {None}] /\ mem'[t.chat] = conv
      <4> HIDE DEF conv, t
      <4>1. QED BY <3>1, <3>3, <3>4, MemTypes
    <3>6. copies \in Copies
      <4>1. CASE conv = mem[t.chat]
        BY <3>1, <4>1
      <4>2. CASE conv # mem[t.chat]
        <5> HIDE DEF conv
        <5>1. Copy(t.chat) \in [chat: Chats, conv: Conversation]
          BY <3>1, <3>3, <3>5, <4>2 DEF Copy
        <5>2. QED BY <3>1, <4>2, <5>1, AppendProperties DEF Copies
      <4>3. QED BY <4>1, <4>2
    <3> HIDE DEF conv, copies, h
    <3>7. HistoryTask(Tail(t.convs), copies) \in Tasks
      BY <3>2, <3>6, HistoryTaskType
    <3>8. task' \in [Goroutines -> Tasks]
      BY <3>1, <3>4, <3>7, DoTypes
    <3>9. QED BY <3>4, <3>5, <3>8 DEF TypeOK
<1>4. QED BY <1>1, <1>2, <1>3 DEF History

(* The contact import and read receipts. *)
LEMMA ContactsTyped == TypeOK /\ Contacts => TypeOK'
<1> SUFFICES ASSUME TypeOK, NEW chat \in Chats, ContactSync(chat) PROVE TypeOK'
  BY DEF Contacts
<1> DEFINE conv == IF mem[chat] # None THEN mem[chat]
                   ELSE [time |-> 0, preview |-> NewChat, unread |-> 0,
                         pinned |-> FALSE, archived |-> FALSE]
<1>1. conv \in Conversation
  BY MemTypes, Counts DEF Conversation
<1>2. mem' = [mem EXCEPT ![chat] = conv]
  BY MemTypes DEF ContactSync
<1>3. /\ Do("contacts", Saving(<<Copy(chat)>>, Idle)) /\ UNCHANGED <<rows, db, known, open, reset>>
      /\ "contacts" \in Goroutines
  BY DEF ContactSync, Save, Free
<1> HIDE DEF conv
<1>4. open' \in Chats \cup {None}
  BY <1>3 DEF TypeOK
<1>5. QED BY <1>1, <1>2, <1>3, <1>4, SaveTypes

LEMMA ReaderTyped == TypeOK /\ Reader => TypeOK'
<1> SUFFICES ASSUME TypeOK, Reader PROVE TypeOK'
  OBVIOUS
<1>1. ASSUME NEW chat \in Chats, ReadChat(chat) PROVE TypeOK'
  <2>1. [step |-> "read", chat |-> chat] \in Tasks
    BY DEF Tasks, Busy
  <2>2. task' \in [Goroutines -> Tasks]
    BY <1>1, <2>1, DoTypes DEF ReadChat, Free
  <2>3. QED BY <1>1, <2>2 DEF ReadChat, TypeOK
<1>2. CASE ReceiptsSent
  <2> DEFINE chat == task["reader"].chat
             conv == [mem[chat] EXCEPT !.unread = 0]
  <2>1. chat \in Chats /\ "reader" \in Goroutines
    BY <1>2, Remembers DEF ReceiptsSent, At
  <2>2. CASE mem[chat] = None
    <3>1. task' \in [Goroutines -> Tasks]
      BY <1>2, <2>1, <2>2, DoTypes DEF ReceiptsSent, Tasks
    <3>2. QED BY <1>2, <2>2, <3>1 DEF ReceiptsSent, TypeOK
  <2>3. CASE mem[chat] # None
    <3>1. conv \in Conversation
      BY <2>1, <2>3, MemTypes, Counts DEF Conversation
    <3>2. mem' = [mem EXCEPT ![chat] = conv]
      BY <1>2, <2>3 DEF ReceiptsSent
    <3>3. Do("reader", Saving(<<Copy(chat)>>, Idle)) /\ UNCHANGED <<rows, db, known, open, reset>>
      BY <1>2, <2>3 DEF ReceiptsSent, Save
    <3> HIDE DEF conv, chat
    <3>4. open' \in Chats \cup {None}
      BY <3>3 DEF TypeOK
    <3>5. QED BY <2>1, <3>1, <3>2, <3>3, <3>4, SaveTypes
  <2>4. QED BY <2>2, <2>3
<1>3. CASE ReceiptsFail
  <2>1. task' \in [Goroutines -> Tasks]
    BY <1>3, DoTypes DEF ReceiptsFail, At, Tasks
  <2>2. QED BY <1>3, <2>1 DEF ReceiptsFail, TypeOK
<1>4. QED BY <1>1, <1>2, <1>3 DEF Reader

(* "Delete for me". *)
LEMMA AppStateTyped == TypeOK /\ AppState => TypeOK'
<1> SUFFICES ASSUME TypeOK, AppState PROVE TypeOK'
  OBVIOUS
<1> DEFINE t == task["appState"]
<1>1. ASSUME NEW id \in Ids, DeleteForMe(id) PROVE TypeOK'
  <2>1. rows[id] \in Stored
    BY <1>1, MemTypes DEF DeleteForMe
  <2>2. [step |-> "delete", id |-> id, row |-> rows[id]] \in Tasks
    BY <2>1 DEF Tasks, Busy
  <2>3. task' \in [Goroutines -> Tasks]
    BY <1>1, <2>2, DoTypes DEF DeleteForMe, Free
  <2>4. QED BY <1>1, <2>3 DEF DeleteForMe, TypeOK
<1>2. CASE DeleteRow
  <2>1. t.row \in Stored /\ "appState" \in Goroutines
    BY <1>2, Remembers DEF DeleteRow, At
  <2>2. [step |-> "latest", row |-> t.row] \in Tasks /\ Idle \in Tasks
    BY <2>1 DEF Tasks, Busy
  <2>3. task' \in [Goroutines -> Tasks]
    BY <1>2, <2>1, <2>2, DoTypes DEF DeleteRow
  <2>4. rows' \in [Ids -> Stored \cup {NoRow}]
    BY <1>2, MemTypes DEF DeleteRow
  <2>5. QED BY <1>2, <2>3, <2>4 DEF DeleteRow, TypeOK
<1>3. CASE FindLatest
  <2>1. t.row \in Stored /\ "appState" \in Goroutines
    BY <1>3, Remembers DEF FindLatest, At
  <2>2. ASSUME NEW id \in Ids \cup {NewChat}, NEW ts \in Nat,
               Do("appState", [step |-> "preview", row |-> t.row, id |-> id, ts |-> ts])
        PROVE  task' \in [Goroutines -> Tasks]
    <3>1. [step |-> "preview", row |-> t.row, id |-> id, ts |-> ts] \in Tasks
      BY <2>1 DEF Tasks, Busy
    <3>2. QED BY <2>1, <2>2, <3>1, DoTypes
  <2>3. ASSUME Do("appState", Idle) PROVE task' \in [Goroutines -> Tasks]
    BY <2>1, <2>3, DoTypes DEF Tasks
  <2>4. \A id \in InChat(t.row.chat) : id \in Ids /\ rows[id].ts \in Nat
    BY MemTypes DEF InChat, StillIn, Stored
  <2>5. task' \in [Goroutines -> Tasks]
    <3> HIDE DEF t
    <3>1. \/ Do("appState", [step |-> "preview", row |-> t.row, id |-> NewChat, ts |-> 0])
          \/ \E id \in InChat(t.row.chat) :
               Do("appState", [step |-> "preview", row |-> t.row, id |-> id, ts |-> rows[id].ts])
          \/ Do("appState", Idle)
      BY <1>3 DEF FindLatest, t
    <3>2. QED BY <2>2, <2>3, <2>4, <3>1
  <2>6. QED BY <1>3, <2>5 DEF FindLatest, TypeOK
<1>4. CASE PreviewAfterDelete
  <2> DEFINE chat == t.row.chat
             conv == [mem[chat] EXCEPT !.preview = t.id, !.time = IF t.id = NewChat THEN @ ELSE t.ts]
  <2>1. /\ chat \in Chats /\ t.id \in Ids \cup {NewChat} /\ t.ts \in Nat
        /\ "appState" \in Goroutines
    BY <1>4, Remembers DEF PreviewAfterDelete, At, Stored
  <2>2. CASE mem[chat] = None \/ t.row.ts < mem[chat].time
    <3>1. Do("appState", Idle) /\ UNCHANGED <<rows, mem, db, known, open, reset>>
      BY <1>4, <2>2 DEF PreviewAfterDelete
    <3>2. task' \in [Goroutines -> Tasks]
      BY <2>1, <3>1, DoTypes DEF Tasks
    <3>3. QED BY <3>1, <3>2 DEF TypeOK
  <2>3. CASE ~(mem[chat] = None \/ t.row.ts < mem[chat].time)
    <3>1. conv \in Conversation
      BY <2>1, <2>3, MemTypes DEF Conversation
    <3>2. /\ mem' = [mem EXCEPT ![chat].preview = t.id,
                              ![chat].time = IF t.id = NewChat THEN @ ELSE t.ts]
          /\ Do("appState", Saving(<<Copy(chat)>>, Idle)) /\ UNCHANGED <<rows, db, known, open, reset>>
      BY <1>4, <2>3 DEF PreviewAfterDelete, Save
    <3> HIDE DEF t, chat
    <3>3. mem' = [mem EXCEPT ![chat] = conv]
      BY <2>1, <3>2, MemTypes
    <3> HIDE DEF conv
    <3>4. open' \in Chats \cup {None}
      BY <3>2 DEF TypeOK
    <3>5. QED BY <2>1, <3>1, <3>2, <3>3, <3>4, SaveTypes
  <2>4. QED BY <2>2, <2>3
<1>5. QED BY <1>1, <1>2, <1>3, <1>4 DEF AppState

(* The table is written. *)
LEMMA UpsertTyped ==
  ASSUME Typed, NEW p \in Goroutines, Upsert(p)
  PROVE  TypeOK'
<1> DEFINE t == task[p]
<1>1. TypeOK /\ t \in [step: {"save"}, copies: Copies, then: {Idle} \cup Merges] /\ t.copies # <<>>
  BY Remembers DEF Typed, Upsert, At
<1>2. t.copies \in Copies /\ t.then \in {Idle} \cup Merges
  BY <1>1
<1>3. /\ t.copies[1] \in [chat: Chats, conv: Conversation] /\ Tail(t.copies) \in Copies
  <2> HIDE DEF t
  <2> DEFINE S == [chat: Chats, conv: Conversation]
  <2> HIDE DEF S
  <2>1. t.copies \in Seq(S)
    BY <1>2 DEF Copies, S
  <2>2. t.copies[1] \in S /\ Tail(t.copies) \in Seq(S)
    BY <1>1, <2>1, Elements
  <2>3. QED BY <2>2 DEF Copies, S
<1>4. [t EXCEPT !.copies = Tail(@)] \in Tasks /\ t.then \in Tasks
  BY <1>1, <1>2, <1>3 DEF Tasks, Busy
<1>5. task' \in [Goroutines -> Tasks]
  BY <1>1, <1>4, DoTypes DEF Upsert
<1>6. db' \in [Chats -> Conversation \cup {None}]
  BY <1>1, <1>3, MemTypes DEF Upsert
<1>7. UNCHANGED <<rows, mem, known, open, reset>>
  BY DEF Upsert
<1>8. QED BY <1>1, <1>5, <1>6, <1>7 DEF TypeOK

(* LID chats are merged. *)
LEMMA MergerTyped ==
  ASSUME TypeOK, NEW p \in Goroutines, Merger(p)
  PROVE  TypeOK'
<1> DEFINE t == task[p]
<1>1. CASE StartMerge(p)
  <2>1. [step |-> "merge", todo |-> {lid \in Lids : mem[lid] # None}] \in Tasks
    BY DEF Tasks, Busy, Merges
  <2>2. task' \in [Goroutines -> Tasks]
    BY <1>1, <2>1, DoTypes DEF StartMerge
  <2>3. QED BY <1>1, <2>2 DEF StartMerge, TypeOK
<1>2. CASE NextMerge(p)
  <2>1. t \in [step: {"merge"}, todo: SUBSET Lids]
    BY <1>2, Remembers DEF NextMerge, At
  <2>2. Idle \in Tasks
    BY DEF Tasks
  <2>3. ASSUME NEW lid \in t.todo
        PROVE  /\ [step |-> "merge", todo |-> t.todo \ {lid}] \in Tasks
               /\ mem[lid] # None =>
                    [step |-> "mergeTx", lid |-> lid, todo |-> t.todo \ {lid},
                     conv |-> Merged(mem[lid], mem[PnOf[lid]])] \in Tasks
    <3>1. lid \in Lids /\ t.todo \ {lid} \in SUBSET Lids
      BY <2>1, <2>3
    <3>2. mem[lid] # None => Merged(mem[lid], mem[PnOf[lid]]) \in Conversation
      BY <3>1, Addresses, MemTypes, MergedType
    <3>3. QED BY <3>1, <3>2 DEF Tasks, Busy, Merges
  <2>4. task' \in [Goroutines -> Tasks]
    <3>1. \/ Do(p, Idle)
          \/ \E lid \in t.todo :
               Do(p, IF lid \in known /\ mem[lid] # None
                     THEN [step |-> "mergeTx", lid |-> lid, todo |-> t.todo \ {lid},
                           conv |-> Merged(mem[lid], mem[PnOf[lid]])]
                     ELSE [step |-> "merge", todo |-> t.todo \ {lid}])
      BY <1>2 DEF NextMerge
    <3>2. QED BY <2>2, <2>3, <3>1, DoTypes
  <2>5. QED BY <1>2, <2>4 DEF NextMerge, TypeOK
<1>3. CASE MergeTx(p)
  <2> DEFINE pn == PnOf[t.lid]
  <2>1. t \in [step: {"mergeTx", "mergeList"}, lid: Lids, todo: SUBSET Lids, conv: Conversation]
    BY <1>3, Remembers DEF MergeTx, At
  <2>2. t.lid \in Chats /\ pn \in Chats /\ t.conv \in Conversation
    BY <2>1, Addresses
  <2>3. CASE /\ rows' = [id \in Ids |-> IF id \in InChat(t.lid)
                                        THEN [rows[id] EXCEPT !.chat = pn] ELSE rows[id]]
             /\ db' = [db EXCEPT ![t.lid] = None, ![pn] = t.conv]
             /\ task' = [task EXCEPT ![p].step = "mergeList"]
    <3>1. rows' \in [Ids -> Stored \cup {NoRow}]
      <4>1. \A id \in InChat(t.lid) : rows[id] \in Stored
        BY MemTypes DEF InChat, StillIn
      <4>2. \A id \in InChat(t.lid) : [rows[id] EXCEPT !.chat = pn] \in Stored
        BY <2>2, <4>1 DEF Stored
      <4>3. QED BY <2>3, <4>2, MemTypes
    <3>2. db' \in [Chats -> Conversation \cup {None}]
      BY <2>2, <2>3, MemTypes
    <3>3. [t EXCEPT !.step = "mergeList"] \in Tasks
      BY <2>1 DEF Tasks, Busy
    <3>4. task' = [task EXCEPT ![p] = [t EXCEPT !.step = "mergeList"]]
      BY <2>3
    <3>5. task' \in [Goroutines -> Tasks]
      BY <3>3, <3>4 DEF TypeOK
    <3>6. QED BY <1>3, <3>1, <3>2, <3>5 DEF MergeTx, TypeOK
  <2>4. CASE UNCHANGED <<rows, db>> /\ Do(p, [step |-> "merge", todo |-> t.todo])
    <3>1. [step |-> "merge", todo |-> t.todo] \in Tasks
      BY <2>1 DEF Tasks, Busy, Merges
    <3>2. task' \in [Goroutines -> Tasks]
      BY <2>4, <3>1, DoTypes
    <3>3. QED BY <1>3, <2>4, <3>2 DEF MergeTx, TypeOK
  <2>5. QED BY <1>3, <2>3, <2>4 DEF MergeTx
<1>4. CASE MergeList(p)
  <2> DEFINE pn == PnOf[t.lid]
             final == Merged(mem[t.lid], mem[pn])
             next == [step |-> "merge", todo |-> t.todo]
  <2>1. t \in [step: {"mergeTx", "mergeList"}, lid: Lids, todo: SUBSET Lids, conv: Conversation]
    BY <1>4, Remembers DEF MergeList, At
  <2>2. t.lid \in Chats /\ pn \in Chats /\ pn # t.lid
    BY <2>1, Addresses
  <2>3. next \in Merges /\ next \in Tasks
    BY <2>1 DEF Tasks, Busy, Merges
  <2>4. CASE mem[t.lid] = None
    <3>1. Do(p, next) /\ UNCHANGED <<mem, open, rows, db, known, reset>>
      BY <1>4, <2>4 DEF MergeList
    <3>2. task' \in [Goroutines -> Tasks]
      <4> HIDE DEF next
      <4>1. QED BY <2>3, <3>1, DoTypes
    <3>3. QED BY <3>1, <3>2 DEF TypeOK
  <2>5. CASE mem[t.lid] # None
    <3>1. final \in Conversation
      BY <2>2, <2>5, MemTypes, MergedType
    <3>2. /\ mem' = [mem EXCEPT ![t.lid] = None, ![pn] = final]
          /\ open' = IF open = t.lid THEN pn ELSE open
          /\ Do(p, IF final = t.conv THEN next ELSE Saving(<<Copy(pn)>>, next))
          /\ UNCHANGED <<rows, db, known, reset>>
      BY <1>4, <2>5 DEF MergeList
    <3> HIDE DEF final, next, pn
    <3>3. mem' \in [Chats -> Conversation \cup {None}] /\ mem'[pn] = final
      BY <2>2, <3>1, <3>2, MemTypes
    <3>4. Saving(<<Copy(pn)>>, next) \in Tasks
      <4>1. Copy(pn) \in [chat: Chats, conv: Conversation]
        BY <2>2, <3>1, <3>3 DEF Copy
      <4>2. QED BY <2>3, <4>1 DEF Saving, Copies, Tasks, Busy
    <3>5. task' \in [Goroutines -> Tasks]
      BY <2>3, <3>2, <3>4, DoTypes
    <3>6. open' \in Chats \cup {None}
      BY <2>2, <3>2 DEF TypeOK
    <3>7. QED BY <3>2, <3>3, <3>5, <3>6 DEF TypeOK
  <2>6. QED BY <2>4, <2>5
<1>5. QED BY <1>1, <1>2, <1>3, <1>4 DEF Merger

(* Sent messages, mappings, /reset and a restart. *)
LEMMA OthersTyped ==
  ASSUME TypeOK,
         \/ \E c \in Opened : Open(c) \/ \E m \in Sends : Send(m, c)
         \/ \E lid \in Lids : LearnMapping(lid)
         \/ ResetTables \/ ResetList \/ Restart
  PROVE  TypeOK'
<1>1. ASSUME NEW c \in Opened, Open(c) PROVE TypeOK'
  BY <1>1, Markers DEF Open, TypeOK
<1>2. ASSUME NEW c \in Opened, NEW m \in Sends, Send(m, c) PROVE TypeOK'
  <2>1. [chat |-> c, ts |-> m.ts, fromMe |-> TRUE] \in Stored /\ m.id \in Ids
    BY <1>2, Markers DEF Stored
  <2>2. rows' \in [Ids -> Stored \cup {NoRow}]
    BY <1>2, <2>1, InsertTypes DEF Send
  <2>3. QED BY <1>2, <2>2 DEF Send, TypeOK
<1>3. ASSUME NEW lid \in Lids, LearnMapping(lid) PROVE TypeOK'
  BY <1>3 DEF LearnMapping, TypeOK
<1>4. CASE ResetTables
  BY <1>4 DEF ResetTables, TypeOK
<1>5. CASE ResetList
  BY <1>5 DEF ResetList, TypeOK
<1>6. CASE Restart
  <2>1. db' \in [Chats -> Conversation \cup {None}]
    BY <1>6, MemTypes DEF Restart
  <2>2. task' \in [Goroutines -> Tasks]
    BY <1>6 DEF Restart, Tasks
  <2>3. QED BY <1>6, <2>1, <2>2 DEF Restart, TypeOK
<1>7. QED BY <1>1, <1>2, <1>3, <1>4, <1>5, <1>6
------------------------------------------------------------------------------
(* One goroutine moves at a time. *)
LEMMA DoFacts ==
  ASSUME TypeOK, NEW p \in Goroutines, NEW t, Do(p, t)
  PROVE  task'[p] = t /\ \A q \in Goroutines : q # p => task'[q] = task[q]
BY DEF Do, TypeOK

NotInHistory(p) ==
  task[p] # Idle => task[p].step # "history" /\ (task[p].step = "save" => task[p].copies # <<>>)

LEMMA OthersKeepTyped ==
  ASSUME Typed, TypeOK', NEW p \in Goroutines, NotInHistory(p)',
         \A q \in Goroutines : q # p => task'[q] = task[q]
  PROVE  Typed'
<1>1. ASSUME NEW q \in Goroutines, At(q, "save")' PROVE task'[q].copies # <<>>
  BY <1>1 DEF Typed, At, NotInHistory
<1>2. HistoryAtWork'
  <2>1. CASE p = "history"
    BY <2>1 DEF HistoryAtWork, At, NotInHistory
  <2>2. CASE p # "history" /\ "history" \in Goroutines
    <3>1. task'["history"] = task["history"]
      BY <2>2
    <3>2. QED BY <3>1 DEF Typed, HistoryAtWork, At
  <2>3. QED BY <2>1, <2>2 DEF HistoryAtWork, At
<1>3. QED BY <1>1, <1>2 DEF Typed

LEMMA SaveFacts ==
  ASSUME NEW c, NEW next
  PROVE  /\ Saving(<<c>>, next) # Idle => /\ Saving(<<c>>, next).step = "save"
                                          /\ Saving(<<c>>, next).copies = <<c>>
                                          /\ Saving(<<c>>, next).then = next
         /\ <<c>> # <<>> /\ Len(<<c>>) = 1 /\ <<c>>[1] = c /\ DOMAIN <<c>> = {1}
BY DEF Saving

LEMMA HandlersMove ==
  ASSUME TypeOK, Messages \/ Contacts \/ Reader \/ AppState
  PROVE  \E p \in Goroutines : /\ NotInHistory(p)'
                               /\ \A q \in Goroutines : q # p => task'[q] = task[q]
<1> DEFINE Moves(p) == /\ NotInHistory(p)'
                       /\ \A q \in Goroutines : q # p => task'[q] = task[q]
<1>1. ASSUME NEW p \in Goroutines, NEW t, Do(p, t),
             t # Idle => t.step # "history" /\ t.step # "save"
      PROVE  Moves(p)
  BY <1>1, DoFacts DEF NotInHistory
<1>2. ASSUME NEW p \in Goroutines, NEW c, NEW next, Do(p, Saving(<<c>>, next)) PROVE Moves(p)
  BY <1>2, DoFacts, SaveFacts DEF NotInHistory
<1>3. CASE Messages
  <2>1. "messages" \in Goroutines
    BY <1>3 DEF Messages, Incoming, StoreIncoming, IncomingListed, Free, At
  <2>2. ASSUME NEW m \in Wire, Incoming(m) PROVE Moves("messages")
    <3> DEFINE new == [step |-> "store", msg |-> m, chat |-> CanonicalChat(known, m.src)]
    <3>1. Do("messages", new) /\ new.step = "store"
      BY <2>2 DEF Incoming
    <3> HIDE DEF new
    <3>2. QED BY <1>1, <2>1, <3>1
  <2>3. CASE StoreIncoming
    <3> DEFINE new == [task["messages"] EXCEPT !.step = "list"]
    <3>1. Do("messages", new) \/ Do("messages", Idle)
      BY <2>3 DEF StoreIncoming
    <3>2. task["messages"] \in [step: {"store", "list"}, msg: Wire, chat: Chats]
      BY <2>3, Remembers DEF StoreIncoming, At
    <3>3. new.step = "list"
      BY <3>2
    <3> HIDE DEF new
    <3>4. QED BY <1>1, <2>1, <3>1, <3>3
  <2>4. CASE IncomingListed
    <3>1. Do("messages", Saving(<<Copy(task["messages"].chat)>>, Idle))
      BY <2>4 DEF IncomingListed, Save
    <3>2. QED BY <1>2, <2>1, <3>1
  <2>5. QED BY <1>3, <2>1, <2>2, <2>3, <2>4 DEF Messages
<1>4. CASE Contacts
  <2>1. PICK c \in Chats : ContactSync(c)
    BY <1>4 DEF Contacts
  <2>2. "contacts" \in Goroutines /\ Do("contacts", Saving(<<Copy(c)>>, Idle))
    BY <2>1 DEF ContactSync, Save, Free
  <2>3. QED BY <1>2, <2>2
<1>5. CASE Reader
  <2>1. "reader" \in Goroutines
    BY <1>5 DEF Reader, ReadChat, ReceiptsSent, ReceiptsFail, Free, At
  <2>2. ASSUME NEW c \in Chats, ReadChat(c) PROVE Moves("reader")
    <3> DEFINE new == [step |-> "read", chat |-> c]
    <3>1. Do("reader", new) /\ new.step = "read"
      BY <2>2 DEF ReadChat
    <3> HIDE DEF new
    <3>2. QED BY <1>1, <2>1, <3>1
  <2>3. CASE ReceiptsSent
    <3>1. \/ Do("reader", Idle)
          \/ Do("reader", Saving(<<Copy(task["reader"].chat)>>, Idle))
      BY <2>3 DEF ReceiptsSent, Save
    <3>2. QED BY <1>1, <1>2, <2>1, <3>1
  <2>4. CASE ReceiptsFail
    BY <1>1, <2>1, <2>4 DEF ReceiptsFail
  <2>5. QED BY <1>5, <2>1, <2>2, <2>3, <2>4 DEF Reader
<1>6. CASE AppState
  <2>1. "appState" \in Goroutines
    BY <1>6 DEF AppState, DeleteForMe, DeleteRow, FindLatest, PreviewAfterDelete, Free, At
  <2>2. ASSUME NEW id \in Ids, DeleteForMe(id) PROVE Moves("appState")
    <3> DEFINE new == [step |-> "delete", id |-> id, row |-> rows[id]]
    <3>1. Do("appState", new) /\ new.step = "delete"
      BY <2>2 DEF DeleteForMe
    <3> HIDE DEF new
    <3>2. QED BY <1>1, <2>1, <3>1
  <2>3. CASE DeleteRow
    <3> DEFINE new == [step |-> "latest", row |-> task["appState"].row]
    <3>1. (Do("appState", new) \/ Do("appState", Idle)) /\ new.step = "latest"
      BY <2>3 DEF DeleteRow
    <3> HIDE DEF new
    <3>2. QED BY <1>1, <2>1, <3>1
  <2>4. CASE FindLatest
    <3> DEFINE new(id, ts) == [step |-> "preview", row |-> task["appState"].row, id |-> id, ts |-> ts]
    <3>1. (\E id, ts : Do("appState", new(id, ts))) \/ Do("appState", Idle)
      BY <2>4 DEF FindLatest
    <3>2. \A id, ts : new(id, ts).step = "preview"
      OBVIOUS
    <3> HIDE DEF new
    <3>3. QED BY <1>1, <2>1, <3>1, <3>2
  <2>5. CASE PreviewAfterDelete
    <3>1. \/ Do("appState", Idle)
          \/ Do("appState", Saving(<<Copy(task["appState"].row.chat)>>, Idle))
      BY <2>5 DEF PreviewAfterDelete, Save
    <3>2. QED BY <1>1, <1>2, <2>1, <3>1
  <2>6. QED BY <1>6, <2>1, <2>2, <2>3, <2>4, <2>5 DEF AppState
<1>7. QED BY <1>3, <1>4, <1>5, <1>6

LEMMA WritersMove ==
  ASSUME Typed, NEW p \in Goroutines, Upsert(p) \/ Merger(p)
  PROVE  /\ NotInHistory(p)' /\ (task'[p] # Idle => task'[p].step # "list")
         /\ \A q \in Goroutines : q # p => task'[q] = task[q]
<1> DEFINE t == task[p]
           Moves == /\ NotInHistory(p)' /\ (task'[p] # Idle => task'[p].step # "list")
                    /\ \A q \in Goroutines : q # p => task'[q] = task[q]
<1>0. TypeOK
  BY DEF Typed
<1>1. ASSUME NEW new, Do(p, new), new # Idle => new.step \notin {"history", "save", "list"} PROVE Moves
  BY <1>0, <1>1, DoFacts DEF NotInHistory
<1>2. ASSUME NEW c, NEW next, Do(p, Saving(<<c>>, next)) PROVE Moves
  BY <1>0, <1>2, DoFacts, SaveFacts DEF NotInHistory
<1>3. CASE Upsert(p)
  <2>1. t \in [step: {"save"}, copies: Copies, then: {Idle} \cup Merges] /\ t.copies # <<>>
    BY <1>0, <1>3, Remembers DEF Typed, Upsert, At
  <2>2. t.then \in {Idle} \cup Merges /\ t.copies \in Copies
    BY <2>1
  <2>3. CASE Len(t.copies) > 1
    <3> DEFINE new == [t EXCEPT !.copies = Tail(@)]
    <3>1. Do(p, new) /\ new.step = "save" /\ new.copies = Tail(t.copies)
      BY <1>3, <2>1, <2>3 DEF Upsert
    <3>2. Tail(t.copies) # <<>>
      <4>1. Len(Tail(t.copies)) = Len(t.copies) - 1 /\ Len(t.copies) \in Nat
        BY <2>1, <2>2, Elements DEF Copies
      <4> DEFINE rest == Tail(t.copies)
      <4>2. Len(rest) > 0
        BY <2>3, <4>1
      <4> HIDE DEF rest
      <4>3. rest # <<>>
        BY <4>2, EmptySeq
      <4>4. QED BY <4>3 DEF rest
    <3> HIDE DEF new, t
    <3>3. QED BY <1>0, <3>1, <3>2, DoFacts DEF NotInHistory
  <2>4. CASE ~(Len(t.copies) > 1)
    <3>1. Do(p, t.then)
      BY <1>3, <2>4 DEF Upsert
    <3>2. t.then # Idle => t.then.step \in {"collect", "merge"}
      BY <2>2 DEF Merges
    <3>3. QED BY <1>1, <3>1, <3>2
  <2>5. QED BY <2>3, <2>4
<1>4. CASE StartMerge(p)
  <2> DEFINE new == [step |-> "merge", todo |-> {lid \in Lids : mem[lid] # None}]
  <2>1. Do(p, new) /\ new.step = "merge"
    BY <1>4 DEF StartMerge
  <2> HIDE DEF new
  <2>2. QED BY <1>1, <2>1
<1> DEFINE merge(todo) == [step |-> "merge", todo |-> todo]
<1>5. \A todo : merge(todo).step = "merge"
  OBVIOUS
<1>6. CASE NextMerge(p)
  <2> DEFINE tx(lid) == [step |-> "mergeTx", lid |-> lid, todo |-> t.todo \ {lid},
                         conv |-> Merged(mem[lid], mem[PnOf[lid]])]
  <2>1. Do(p, Idle) \/ \E lid \in t.todo : Do(p, tx(lid)) \/ Do(p, merge(t.todo \ {lid}))
    BY <1>6 DEF NextMerge
  <2>2. \A lid : tx(lid).step = "mergeTx"
    OBVIOUS
  <2> HIDE DEF tx, merge
  <2>3. QED BY <1>1, <1>5, <2>1, <2>2
<1>7. CASE MergeTx(p)
  <2> DEFINE new == [t EXCEPT !.step = "mergeList"]
  <2>1. t \in [step: {"mergeTx", "mergeList"}, lid: Lids, todo: SUBSET Lids, conv: Conversation]
    BY <1>0, <1>7, Remembers DEF MergeTx, At
  <2>2. new.step = "mergeList"
    BY <2>1
  <2>3. Do(p, new) \/ Do(p, merge(t.todo))
    BY <1>7 DEF MergeTx, Do
  <2> HIDE DEF new, merge
  <2>4. QED BY <1>1, <1>5, <2>2, <2>3
<1>8. CASE MergeList(p)
  <2>1. Do(p, merge(t.todo)) \/ Do(p, Saving(<<Copy(PnOf[t.lid])>>, merge(t.todo)))
    BY <1>8 DEF MergeList
  <2> HIDE DEF merge
  <2>2. QED BY <1>1, <1>2, <1>5, <2>1
<1>9. QED BY <1>3, <1>4, <1>6, <1>7, <1>8 DEF Merger

LEMMA HistoryTaskFacts ==
  ASSUME NEW convs, NEW copies
  PROVE  /\ convs # <<>> => HistoryTask(convs, copies) =
              [step |-> "history", convs |-> convs, chat |-> HistoryChat(Head(convs)),
               msgs |-> Head(convs).msgs, copies |-> copies]
         /\ convs = <<>> /\ copies # <<>> =>
              HistoryTask(convs, copies) = Saving(copies, [step |-> "collect"])
         /\ convs = <<>> /\ copies = <<>> => HistoryTask(convs, copies) = [step |-> "collect"]
BY DEF HistoryTask

(* A conversation of a history sync begins. *)
LEMMA HistoryBegins ==
  ASSUME Typed, TypeOK', "history" \in Goroutines, NEW convs \in Seq(HistoryConversation),
         NEW copies, Do("history", HistoryTask(convs, copies)),
         \A i \in DOMAIN convs : \E b \in Batches : \E j \in DOMAIN b : convs[i] = b[j]
  PROVE  Typed'
<1>1. /\ task'["history"] = HistoryTask(convs, copies)
      /\ \A q \in Goroutines : q # "history" => task'[q] = task[q]
  BY DoFacts DEF Typed
<1>2. CASE convs = <<>>
  <2>1. CASE copies = <<>>
    <3>1. task'["history"].step = "collect"
      BY <1>1, <1>2, <2>1, HistoryTaskFacts
    <3>2. QED BY <1>1, <3>1, OthersKeepTyped DEF NotInHistory
  <2>2. CASE copies # <<>>
    <3>1. task'["history"].step = "save" /\ task'["history"].copies = copies
      BY <1>1, <1>2, <2>2, HistoryTaskFacts DEF Saving
    <3>2. QED BY <1>1, <2>2, <3>1, OthersKeepTyped DEF NotInHistory
  <2>3. QED BY <2>1, <2>2
<1>3. CASE convs # <<>>
  <2>1. /\ task'["history"].step = "history" /\ task'["history"].convs = convs
        /\ task'["history"].msgs = Head(convs).msgs
    BY <1>1, <1>3, HistoryTaskFacts
  <2>2. HistoryAtWork'
    BY <1>3, <2>1 DEF HistoryAtWork, At
  <2>3. \A p \in Goroutines : At(p, "save")' => task'[p].copies # <<>>
    BY <1>1, <2>1 DEF At, Typed
  <2>4. QED BY <2>2, <2>3 DEF Typed
<1>4. QED BY <1>2, <1>3

LEMMA HistoryKeepsTyped == Typed /\ History => Typed'
<1> SUFFICES ASSUME Typed, History PROVE Typed'
  OBVIOUS
<1> DEFINE t == task["history"]
<1>0. TypeOK /\ HistoryAtWork /\ TypeOK' /\ "history" \in Goroutines
  BY HistoryTyped DEF Typed, History, HistorySync, HistoryMessage, HistoryListed, Free, At
<1>1. ASSUME NEW b \in Batches, HistorySync(b) PROVE Typed'
  <2>1. b \in Seq(HistoryConversation) /\ Do("history", HistoryTask(b, <<>>))
    BY <1>1, Markers DEF HistorySync
  <2>2. \A i \in DOMAIN b : \E a \in Batches : \E j \in DOMAIN a : b[i] = a[j]
    OBVIOUS
  <2>3. QED BY <1>0, <2>1, <2>2, HistoryBegins
<1>2. ASSUME HistoryMessage \/ HistoryListed
      PROVE  /\ t \in [step: {"history"}, convs: Seq(HistoryConversation), chat: Chats,
                       msgs: HistoryMessages, copies: Copies]
             /\ t.convs # <<>> /\ Len(t.convs) \in Nat /\ DOMAIN t.convs = 1..Len(t.convs)
             /\ \A i \in DOMAIN t.convs : \E b \in Batches : \E j \in DOMAIN b : t.convs[i] = b[j]
             /\ \A i \in DOMAIN t.msgs : \E j \in DOMAIN Head(t.convs).msgs :
                  t.msgs[i] = Head(t.convs).msgs[j]
  <2>1. At("history", "history")
    BY <1>2 DEF HistoryMessage, HistoryListed
  <2>2. t \in [step: {"history"}, convs: Seq(HistoryConversation), chat: Chats,
               msgs: HistoryMessages, copies: Copies]
    BY <1>0, <2>1, Remembers DEF At
  <2>3. Len(t.convs) \in Nat /\ DOMAIN t.convs = 1..Len(t.convs)
    BY <2>2, Elements
  <2>4. QED BY <1>0, <2>1, <2>2, <2>3 DEF HistoryAtWork
<1>3. CASE HistoryMessage
  <2> DEFINE new == [t EXCEPT !.msgs = Tail(@)]
  <2>1. Do("history", new)
    BY <1>3 DEF HistoryMessage, Do
  <2>2. /\ new.step = "history" /\ new.convs = t.convs /\ new.msgs = Tail(t.msgs)
        /\ t.msgs \in HistoryMessages /\ t.msgs # <<>>
    BY <1>2, <1>3 DEF HistoryMessage
  <2>3. task'["history"] = new /\ \A q \in Goroutines : q # "history" => task'[q] = task[q]
    <3> HIDE DEF new
    <3>1. QED BY <1>0, <2>1, DoFacts
  <2> HIDE DEF new
  <2>4. \A i \in DOMAIN Tail(t.msgs) : i + 1 \in DOMAIN t.msgs /\ Tail(t.msgs)[i] = t.msgs[i + 1]
    <3> HIDE DEF t
    <3>1. QED BY <2>2, Elements DEF HistoryMessages
  <2>5. HistoryAtWork'
    <3> SUFFICES ASSUME At("history", "history")'
                 PROVE  /\ new.convs # <<>>
                        /\ \A i \in DOMAIN new.convs : \E b \in Batches : \E j \in DOMAIN b :
                             new.convs[i] = b[j]
                        /\ \A i \in DOMAIN new.msgs : \E j \in DOMAIN Head(new.convs).msgs :
                             new.msgs[i] = Head(new.convs).msgs[j]
      BY <2>3 DEF HistoryAtWork
    <3>1. QED BY <1>2, <1>3, <2>2, <2>4
  <2>6. \A p \in Goroutines : At(p, "save")' => task'[p].copies # <<>>
    BY <2>2, <2>3 DEF At, Typed
  <2>7. QED BY <1>0, <2>5, <2>6 DEF Typed
<1>4. CASE HistoryListed
  <2>1. Tail(t.convs) \in Seq(HistoryConversation)
    BY <1>2, <1>4, Elements
  <2>2. \A i \in DOMAIN Tail(t.convs) : \E b \in Batches : \E j \in DOMAIN b : Tail(t.convs)[i] = b[j]
    <3>1. \A i \in DOMAIN Tail(t.convs) : i + 1 \in DOMAIN t.convs /\ Tail(t.convs)[i] = t.convs[i + 1]
      BY <1>2, <1>4, Elements
    <3>2. QED BY <1>2, <1>4, <3>1
  <2>3. \E copies : Do("history", HistoryTask(Tail(t.convs), copies))
    BY <1>4 DEF HistoryListed
  <2> HIDE DEF t
  <2>4. QED BY <1>0, <2>1, <2>2, <2>3, HistoryBegins
<1>5. QED BY <1>1, <1>3, <1>4 DEF History

LEMMA StepTyped ==
  ASSUME Typed, [Next]_vars
  PROVE  Typed'
<1>0. TypeOK
  BY DEF Typed
<1>1. CASE Messages \/ Contacts \/ Reader \/ AppState
  <2>1. TypeOK'
    BY <1>0, <1>1, MessagesTyped, ContactsTyped, ReaderTyped, AppStateTyped
  <2>2. QED BY <1>0, <1>1, <2>1, HandlersMove, OthersKeepTyped
<1>2. CASE History
  BY <1>2, HistoryKeepsTyped
<1>3. ASSUME NEW p \in Goroutines, Upsert(p) \/ Merger(p) PROVE Typed'
  <2>1. TypeOK'
    BY <1>0, <1>3, UpsertTyped, MergerTyped
  <2>2. QED BY <1>3, <2>1, WritersMove, OthersKeepTyped
<1> DEFINE Other == \/ \E c \in Opened : Open(c) \/ \E m \in Sends : Send(m, c)
                    \/ \E lid \in Lids : LearnMapping(lid)
                    \/ ResetTables \/ ResetList \/ Restart
<1>4. CASE Other
  <2>1. TypeOK'
    BY <1>0, <1>4, OthersTyped
  <2>2. UNCHANGED task \/ \A p \in Goroutines : task'[p] = Idle
    BY <1>4 DEF Open, Send, LearnMapping, ResetTables, ResetList, Restart
  <2> HIDE DEF Other
  <2>3. QED BY <2>1, <2>2 DEF Typed, HistoryAtWork, At
<1>5. CASE UNCHANGED vars
  BY <1>5 DEF vars, Typed, TypeOK, HistoryAtWork, At
<1>6. QED BY <1>1, <1>2, <1>3, <1>4, <1>5 DEF Next

LEMMA InitTyped == Init => Typed
BY InitTypeOK DEF Init, Typed, HistoryAtWork, At

LEMMA AlwaysTyped == Spec => []Typed
<1>1. Typed /\ [Next]_vars => Typed'
  BY StepTyped
<1>2. QED BY <1>1, InitTyped, PTL DEF Spec

(* The conversations in memory and in the table, the rows, and whatever a  *)
(* goroutine remembers across its database and network steps are always of *)
(* their types: no unread count leaves 16 bits, no goroutine waits to list *)
(* or save a chat that is none.                                            *)
THEOREM TypeCorrect == Spec => []TypeOK
BY AlwaysTyped, PTL DEF Typed
------------------------------------------------------------------------------
(* SenderIsListed, while the program is neither killed nor reset and the   *)
(* messages of others in a history sync are dated (a chat with an undated  *)
(* one only is taken for an empty chat).                                   *)
Undisturbed == ~Restarts /\ ~Resets

DatedHistory ==
  \A batch \in Batches : \A i \in DOMAIN batch : \A j \in DOMAIN batch[i].msgs :
    ~batch[i].msgs[j].fromMe => batch[i].msgs[j].ts > 0

(* Whoever is about to list a chat still is. *)
Holding ==
  /\ At("messages", "list") => task'["messages"] = task["messages"]
  /\ At("history", "history") => task'["history"] = task["history"]

LEMMA HoldingElsewhere ==
  ASSUME TypeOK, NEW p \in Goroutines, NEW t, Do(p, t),
         task[p] = Idle \/ task[p].step \notin {"list", "history"}
  PROVE  Holding
BY DoFacts DEF Holding, At

LEMMA HoldingKeeps ==
  ASSUME Holding, NEW c, WillList(c)
  PROVE  WillList(c)'
BY DEF Holding, WillList, At

LEMMA ListingKept ==
  ASSUME Listing,
         \A id \in Ids : FromOthers(id)' =>
           FromOthers(id) /\ Identity(rows'[id].chat) = Identity(rows[id].chat),
         \A c \in Chats : mem[c] # None => \E d \in Chats : Identity(d) = Identity(c) /\ mem'[d] # None,
         \A c \in Chats : WillList(c) => mem'[c] # None \/ WillList(c)'
  PROVE  Listing'
<1> SUFFICES ASSUME NEW id \in Ids, FromOthers(id)'
             PROVE  \E d \in Chats : /\ Identity(d) = Identity(rows'[id].chat)
                                     /\ mem'[d] # None \/ WillList(d)'
  BY DEF Listing
<1>1. PICK c \in Chats : Identity(c) = Identity(rows[id].chat) /\ (mem[c] # None \/ WillList(c))
  BY DEF Listing
<1>2. QED BY <1>1

(* The list loses no chat of a person, and the rows stay as they are. *)
LEMMA ListingStays ==
  ASSUME Listing, Holding, UNCHANGED rows, \A c \in Chats : mem[c] # None => mem'[c] # None
  PROVE  Listing'
BY ListingKept, HoldingKeeps DEF FromOthers

LEMMA SameIdentityMerged ==
  ASSUME NEW lid \in Lids
  PROVE  Identity(PnOf[lid]) = Identity(lid) /\ Identity(lid) = PnOf[lid] /\ PnOf[lid] \in Chats
BY Addresses DEF Identity

LEMMA InsertListing ==
  ASSUME TypeOK, Listing, NEW i \in Ids, NEW row \in Stored, Insert(i, row),
         UNCHANGED mem,
         \A c \in Chats : WillList(c) => WillList(c)',
         rows[i] = NoRow => row.fromMe \/ WillList(row.chat)'
  PROVE  Listing'
<1> SUFFICES ASSUME NEW id \in Ids, FromOthers(id)'
             PROVE  \E d \in Chats : /\ Identity(d) = Identity(rows'[id].chat)
                                     /\ mem'[d] # None \/ WillList(d)'
  BY DEF Listing
<1>1. CASE id = i /\ rows[i] = NoRow
  <2>1. rows'[id] = row
    BY <1>1, MemTypes DEF Insert
  <2>2. WillList(row.chat)' /\ row.chat \in Chats
    BY <1>1, <2>1 DEF FromOthers, Stored
  <2>3. QED BY <2>1, <2>2
<1>2. CASE ~(id = i /\ rows[i] = NoRow)
  <2>1. rows'[id] = rows[id]
    BY <1>2, MemTypes DEF Insert
  <2>2. FromOthers(id)
    BY <2>1 DEF FromOthers
  <2>3. PICK c \in Chats : Identity(c) = Identity(rows[id].chat) /\ (mem[c] # None \/ WillList(c))
    BY <2>2 DEF Listing
  <2>4. QED BY <2>1, <2>3
<1>3. QED BY <1>1, <1>2

LEMMA MessagesListing ==
  ASSUME Typed, Listing, Messages
  PROVE  Listing'
<1>0. TypeOK /\ "messages" \in Goroutines
  BY DEF Typed, Messages, Incoming, StoreIncoming, IncomingListed, Free, At
<1> DEFINE t == task["messages"]
<1>1. ASSUME NEW m \in Wire, Incoming(m) PROVE Listing'
  <2>1. Holding
    BY <1>0, <1>1, HoldingElsewhere DEF Incoming, Free
  <2>2. QED BY <1>1, <2>1, ListingStays DEF Incoming
<1>2. CASE StoreIncoming
  <2> DEFINE row == [chat |-> t.chat, ts |-> t.msg.ts, fromMe |-> t.msg.src.fromMe]
             next == [t EXCEPT !.step = "list"]
  <2>1. t \in [step: {"store", "list"}, msg: Wire, chat: Chats] /\ t.step = "store" /\ t # Idle
    BY <1>0, <1>2, Remembers DEF StoreIncoming, At
  <2>2. PICK r \in Stored, i \in Ids : r = row /\ i = t.msg.id
    BY <2>1, Markers DEF Stored, Sources
  <2>3. Holding
    BY <1>0, <1>2, <2>1, HoldingElsewhere DEF StoreIncoming
  <2>4. UNCHANGED mem
    BY <1>2 DEF StoreIncoming
  <2>5. CASE UNCHANGED rows
    BY <2>3, <2>4, <2>5, ListingStays
  <2>6. CASE /\ Insert(t.msg.id, row)
             /\ Do("messages", IF rows[t.msg.id] = NoRow THEN next ELSE Idle)
    <3>1. ASSUME rows[i] = NoRow PROVE WillList(r.chat)'
      <4>1. task'["messages"] = next
        BY <1>0, <2>2, <2>6, <3>1, DoFacts
      <4>2. next \in [step: {"store", "list"}, msg: Wire, chat: Chats] /\ next.step = "list" /\ next.chat = r.chat
        BY <2>1, <2>2
      <4>3. next # Idle
        BY <4>2, Markers DEF Busy
      <4>4. QED BY <1>0, <4>1, <4>2, <4>3 DEF WillList, At
    <3>2. Insert(i, r)
      BY <2>2, <2>6
    <3>3. \A c \in Chats : WillList(c) => WillList(c)'
      BY <2>3, HoldingKeeps
    <3>4. QED BY <1>0, <2>4, <3>1, <3>2, <3>3, InsertListing
  <2>7. QED BY <1>2, <2>5, <2>6 DEF StoreIncoming
<1>3. CASE IncomingListed
  <2>1. t \in [step: {"store", "list"}, msg: Wire, chat: Chats] /\ t.step = "list" /\ t # Idle
    BY <1>0, <1>3, Remembers DEF IncomingListed, At
  <2>2. Listed(mem[t.chat], t.msg) \in Conversation /\ t.chat \in Chats
    BY <1>0, <2>1, ListedType, MemTypes
  <2>3. mem' = [mem EXCEPT ![t.chat] = Listed(mem[t.chat], t.msg)] /\ UNCHANGED rows
    BY <1>3 DEF IncomingListed
  <2>4. mem'[t.chat] # None /\ \A c \in Chats : mem[c] # None => mem'[c] # None
    BY <1>0, <2>2, <2>3, MemTypes, Markers
  <2>5. At("history", "history") => task'["history"] = task["history"]
    BY <1>0, <1>3, DoFacts DEF IncomingListed, Save, At
  <2>6. \A c \in Chats : WillList(c) => mem'[c] # None \/ WillList(c)'
    BY <2>4, <2>5 DEF WillList, At
  <2>7. QED BY <2>3, <2>4, <2>6, ListingKept DEF FromOthers
<1>4. QED BY <1>1, <1>2, <1>3 DEF Messages

(* What a history sync is at: its conversation and the messages left. *)
LEMMA AtHistory ==
  ASSUME Typed, At("history", "history")
  PROVE  LET t == task["history"]  h == Head(t.convs) IN
         /\ t \in [step: {"history"}, convs: Seq(HistoryConversation), chat: Chats,
                   msgs: HistoryMessages, copies: Copies]
         /\ t.chat \in Chats /\ h \in HistoryConversation /\ t.copies \in Copies
         /\ Tail(t.convs) \in Seq(HistoryConversation)
         /\ \E b \in Batches : \E i \in DOMAIN b : h = b[i]
         /\ t.msgs # <<>> =>
              /\ Head(t.msgs) \in [id: Ids, ts: Nat, fromMe: BOOLEAN]
              /\ \E j \in DOMAIN h.msgs : Head(t.msgs) = h.msgs[j]
<1> DEFINE t == task["history"]  S == [id: Ids, ts: Nat, fromMe: BOOLEAN]
<1>1. /\ t \in [step: {"history"}, convs: Seq(HistoryConversation), chat: Chats,
                msgs: HistoryMessages, copies: Copies]
      /\ t.convs # <<>>
      /\ \A i \in DOMAIN t.convs : \E b \in Batches : \E j \in DOMAIN b : t.convs[i] = b[j]
      /\ \A i \in DOMAIN t.msgs : \E j \in DOMAIN Head(t.convs).msgs :
           t.msgs[i] = Head(t.convs).msgs[j]
  BY Remembers DEF Typed, HistoryAtWork, At
<1>2. t.convs \in Seq(HistoryConversation) /\ t.msgs \in Seq(S)
  BY <1>1 DEF HistoryMessages
<1>3. /\ Head(t.convs) = t.convs[1] /\ 1 \in DOMAIN t.convs /\ t.convs[1] \in HistoryConversation
      /\ Tail(t.convs) \in Seq(HistoryConversation)
  BY <1>1, <1>2, Elements
<1>4. t.msgs # <<>> => Head(t.msgs) = t.msgs[1] /\ 1 \in DOMAIN t.msgs /\ t.msgs[1] \in S
  <2> HIDE DEF t, S
  <2>1. QED BY <1>2, Elements
<1>5. QED BY <1>1, <1>3, <1>4

LEMMA DatedIsListed ==
  ASSUME Typed, DatedHistory, At("history", "history"), task["history"].msgs # <<>>,
         ~Head(task["history"].msgs).fromMe
  PROVE  WillList(task["history"].chat)
<1> DEFINE h == Head(task["history"].convs)
<1>1. PICK b \in Batches : \E i \in DOMAIN b : h = b[i]
  BY AtHistory
<1>2. PICK j \in DOMAIN h.msgs : Head(task["history"].msgs) = h.msgs[j]
  BY AtHistory
<1>3. h.msgs[j].ts > 0
  BY <1>1, <1>2 DEF DatedHistory
<1>4. h \in HistoryConversation /\ h.time \in Nat
  BY AtHistory DEF HistoryConversation
<1>5. NewestOf(h).ts \in Nat /\ h.msgs[j].ts \in Nat /\ h.msgs[j].ts <= NewestOf(h).ts
  BY <1>4, NewestFacts
<1> HIDE DEF h
<1>6. Larger(h.time, NewestOf(h).ts) # 0
  BY <1>3, <1>4, <1>5 DEF Larger
<1>7. ~EmptyChat(task["history"].chat, FromHistory(h))
  BY <1>6 DEF EmptyChat, FromHistory
<1>8. QED BY <1>7 DEF WillList, h

(* One of its messages is stored. *)
LEMMA MessageStored ==
  ASSUME Typed, HistoryMessage
  PROVE  /\ At("history", "history") /\ At("history", "history")'
         /\ task'["history"].chat = task["history"].chat
         /\ task'["history"].convs = task["history"].convs
         /\ task'["history"].copies = task["history"].copies
         /\ \A q \in Goroutines : q # "history" => task'[q] = task[q]
<1> DEFINE t == task["history"]  S == [id: Ids, ts: Nat, fromMe: BOOLEAN]
           new == [t EXCEPT !.msgs = Tail(@)]
<1>1. TypeOK /\ At("history", "history") /\ t.msgs # <<>> /\ "history" \in Goroutines
  BY DEF Typed, HistoryMessage, At
<1>2. /\ t \in [step: {"history"}, convs: Seq(HistoryConversation), chat: Chats,
                msgs: HistoryMessages, copies: Copies]
      /\ t.msgs \in Seq(S)
  BY <1>1, AtHistory DEF HistoryMessages
<1>3. Do("history", new)
  BY DEF HistoryMessage, Do
<1>4. Tail(t.msgs) \in HistoryMessages
  <2> HIDE DEF S, t
  <2>1. Tail(t.msgs) \in Seq(S)
    BY <1>1, <1>2, Elements
  <2>2. QED BY <2>1 DEF S, HistoryMessages
<1>5. /\ new \in [step: {"history"}, convs: Seq(HistoryConversation), chat: Chats,
                  msgs: HistoryMessages, copies: Copies]
      /\ new.chat = t.chat /\ new.convs = t.convs /\ new.copies = t.copies
  BY <1>2, <1>4
<1>6. new \in Busy /\ new # Idle
  BY <1>5, Markers DEF Busy
<1>7. new.step = "history"
  BY <1>5
<1> HIDE DEF new
<1>8. task'["history"] = new /\ \A q \in Goroutines : q # "history" => task'[q] = task[q]
  BY <1>1, <1>3, DoFacts
<1>9. QED BY <1>1, <1>5, <1>6, <1>7, <1>8 DEF At

LEMMA HistoryListing ==
  ASSUME Typed, Listing, DatedHistory, History
  PROVE  Listing'
<1>0. TypeOK /\ "history" \in Goroutines
  BY DEF Typed, History, HistorySync, HistoryMessage, HistoryListed, Free, At
<1> DEFINE t == task["history"]
<1>1. ASSUME NEW b \in Batches, HistorySync(b) PROVE Listing'
  <2>1. Holding
    BY <1>0, <1>1, HoldingElsewhere DEF HistorySync, Free
  <2>2. QED BY <1>1, <2>1, ListingStays DEF HistorySync
<1>2. CASE HistoryMessage
  <2> DEFINE m == Head(t.msgs)
  <2>1. At("history", "history") /\ t.msgs # <<>> /\ UNCHANGED mem
    BY <1>2 DEF HistoryMessage
  <2>2. /\ t \in [step: {"history"}, convs: Seq(HistoryConversation), chat: Chats,
                  msgs: HistoryMessages, copies: Copies]
        /\ m \in [id: Ids, ts: Nat, fromMe: BOOLEAN]
    BY <2>1, AtHistory
  <2>3. \A c \in Chats : WillList(c) => WillList(c)'
    <3> SUFFICES ASSUME NEW c \in Chats, WillList(c) PROVE WillList(c)'
      OBVIOUS
    <3>1. CASE At("messages", "list") /\ task["messages"].chat = c
      BY <1>2, <3>1, MessageStored DEF WillList, At
    <3>2. CASE t.chat = c /\ ~EmptyChat(c, FromHistory(Head(t.convs)))
      BY <1>2, <3>2, MessageStored DEF WillList
    <3>3. QED BY <3>1, <3>2 DEF WillList
  <2>4. PICK i \in Ids, r \in Stored :
          i = m.id /\ r = [chat |-> t.chat, ts |-> m.ts, fromMe |-> m.fromMe]
    BY <2>2 DEF Stored
  <2>5. Insert(i, r) \/ UNCHANGED rows
    BY <1>2, <2>4 DEF HistoryMessage
  <2>6. r.fromMe \/ WillList(r.chat)'
    <3>1. r.fromMe \/ WillList(r.chat)
      BY <2>1, <2>4, DatedIsListed
    <3>2. QED BY <2>3, <3>1 DEF Stored
  <2>7. CASE Insert(i, r)
    BY <1>0, <2>1, <2>3, <2>6, <2>7, InsertListing
  <2>8. CASE UNCHANGED rows
    BY <2>1, <2>3, <2>8, ListingKept DEF FromOthers
  <2>9. QED BY <2>5, <2>7, <2>8
<1>3. CASE HistoryListed
  <2> DEFINE h == Head(t.convs)
             conv == IF mem[t.chat] # None THEN Refreshed(mem[t.chat], h)
                     ELSE IF EmptyChat(t.chat, FromHistory(h)) THEN None
                     ELSE FromHistory(h)
  <2>1. At("history", "history") /\ t.chat \in Chats /\ h \in HistoryConversation
    BY <1>3, AtHistory DEF HistoryListed
  <2>2. /\ mem' = [mem EXCEPT ![t.chat] = conv] /\ UNCHANGED rows
        /\ \E new : Do("history", new)
    BY <1>3 DEF HistoryListed
  <2>3. (mem[t.chat] # None \/ ~EmptyChat(t.chat, FromHistory(h))) => conv # None
    BY <1>0, <2>1, HistoryTypes, MemTypes, Markers
  <2> HIDE DEF conv
  <2>4. \A c \in Chats : mem[c] # None => mem'[c] # None
    BY <1>0, <2>1, <2>2, <2>3, MemTypes
  <2>5. ~EmptyChat(t.chat, FromHistory(h)) => mem'[t.chat] # None
    BY <1>0, <2>1, <2>2, <2>3, MemTypes
  <2>6. At("messages", "list") => task'["messages"] = task["messages"]
    BY <1>0, <2>2, DoFacts DEF At
  <2>7. \A c \in Chats : WillList(c) => mem'[c] # None \/ WillList(c)'
    <3> SUFFICES ASSUME NEW c \in Chats, WillList(c) PROVE mem'[c] # None \/ WillList(c)'
      OBVIOUS
    <3>1. CASE At("messages", "list") /\ task["messages"].chat = c
      BY <2>6, <3>1 DEF WillList, At
    <3>2. CASE t.chat = c /\ ~EmptyChat(c, FromHistory(h))
      BY <2>5, <3>2
    <3>3. QED BY <3>1, <3>2 DEF WillList
  <2>8. QED BY <2>2, <2>4, <2>7, ListingKept DEF FromOthers
<1>4. QED BY <1>1, <1>2, <1>3 DEF History

LEMMA HandlersListing ==
  ASSUME TypeOK, Listing, Contacts \/ Reader \/ AppState
  PROVE  Listing'
<1>1. CASE Contacts
  <2>1. PICK chat \in Chats : ContactSync(chat)
    BY <1>1 DEF Contacts
  <2>2. Holding
    BY <2>1, HoldingElsewhere DEF ContactSync, Free, Save
  <2>3. \A c \in Chats : mem[c] # None => mem'[c] # None
    BY <2>1, MemTypes DEF ContactSync
  <2>4. QED BY <2>1, <2>2, <2>3, ListingStays DEF ContactSync
<1>2. CASE Reader
  <2>1. Holding
    <3>1. "reader" \in Goroutines /\ (task["reader"] = Idle \/ task["reader"].step = "read")
      BY <1>2 DEF Reader, ReadChat, ReceiptsSent, ReceiptsFail, Free, At
    <3>2. \E t : Do("reader", t)
      BY <1>2 DEF Reader, ReadChat, ReceiptsSent, ReceiptsFail, Save
    <3>3. QED BY <3>1, <3>2, HoldingElsewhere
  <2>2. UNCHANGED rows
    BY <1>2 DEF Reader, ReadChat, ReceiptsSent, ReceiptsFail
  <2>3. \A c \in Chats : mem[c] # None => mem'[c] # None
    <3>1. CASE ReceiptsSent
      <4> DEFINE chat == task["reader"].chat
                 conv == [mem[chat] EXCEPT !.unread = 0]
      <4>1. chat \in Chats
        BY <3>1, Remembers DEF ReceiptsSent, At
      <4>2. mem[chat] # None => conv # None
        BY <4>1, MemTypes, Counts, Markers DEF Conversation
      <4>3. UNCHANGED mem \/ (mem[chat] # None /\ mem' = [mem EXCEPT ![chat] = conv])
        BY <3>1 DEF ReceiptsSent
      <4> HIDE DEF conv, chat
      <4>4. QED BY <4>1, <4>2, <4>3, MemTypes
    <3>2. CASE UNCHANGED mem
      BY <3>2
    <3>3. QED BY <1>2, <3>1, <3>2 DEF Reader, ReadChat, ReceiptsFail
  <2>4. QED BY <2>1, <2>2, <2>3, ListingStays
<1>3. CASE AppState
  <2>1. Holding
    <3>1. /\ "appState" \in Goroutines
          /\ task["appState"] = Idle \/ task["appState"].step \in {"delete", "latest", "preview"}
      BY <1>3 DEF AppState, DeleteForMe, DeleteRow, FindLatest, PreviewAfterDelete, Free, At
    <3>2. \E t : Do("appState", t)
      BY <1>3 DEF AppState, DeleteForMe, DeleteRow, FindLatest, PreviewAfterDelete, Save
    <3>3. QED BY <3>1, <3>2, HoldingElsewhere
  <2>2. \A id \in Ids : rows'[id] = rows[id] \/ rows'[id] = NoRow
    BY <1>3, MemTypes DEF AppState, DeleteForMe, DeleteRow, FindLatest, PreviewAfterDelete
  <2>3. \A c \in Chats : mem[c] # None => mem'[c] # None
    <3>1. CASE PreviewAfterDelete
      <4> DEFINE t == task["appState"]  chat == t.row.chat
                 conv == [mem[chat] EXCEPT !.preview = t.id, !.time = IF t.id = NewChat THEN @ ELSE t.ts]
      <4>1. chat \in Chats /\ t.id \in Ids \cup {NewChat} /\ t.ts \in Nat
        BY <3>1, Remembers DEF PreviewAfterDelete, At, Stored
      <4>2. mem[chat] # None => conv # None
        BY <4>1, MemTypes, Markers DEF Conversation
      <4>3. UNCHANGED mem \/ (mem[chat] # None /\ mem' = [mem EXCEPT ![chat] = conv])
        <5> HIDE DEF t, chat
        <5>1. \/ UNCHANGED mem
              \/ /\ mem[chat] # None
                 /\ mem' = [mem EXCEPT ![chat].preview = t.id,
                                       ![chat].time = IF t.id = NewChat THEN @ ELSE t.ts]
          BY <3>1 DEF PreviewAfterDelete, t, chat
        <5>2. QED BY <4>1, <5>1, MemTypes
      <4> HIDE DEF conv, chat
      <4>4. QED BY <4>1, <4>2, <4>3, MemTypes
    <3>2. CASE UNCHANGED mem
      BY <3>2
    <3>3. QED BY <1>3, <3>1, <3>2 DEF AppState, DeleteForMe, DeleteRow, FindLatest
  <2>4. \A id \in Ids : FromOthers(id)' =>
          FromOthers(id) /\ Identity(rows'[id].chat) = Identity(rows[id].chat)
    BY <2>2 DEF FromOthers
  <2>5. QED BY <2>1, <2>3, <2>4, HoldingKeeps, ListingKept
<1>4. QED BY <1>1, <1>2, <1>3

LEMMA WritersListing ==
  ASSUME TypeOK, Listing, NEW p \in Goroutines, Upsert(p) \/ Merger(p)
  PROVE  Listing'
<1> DEFINE t == task[p]  pn == PnOf[t.lid]
<1>1. Holding
  <2>1. t = Idle \/ t.step \in {"save", "collect", "merge", "mergeTx", "mergeList"}
    BY DEF Upsert, Merger, StartMerge, NextMerge, MergeTx, MergeList, Free, At
  <2>2. \E new : Do(p, new)
    BY DEF Upsert, Merger, StartMerge, NextMerge, MergeTx, MergeList, Do
  <2>3. QED BY <2>1, <2>2, HoldingElsewhere
<1>2. CASE UNCHANGED rows /\ UNCHANGED mem
  BY <1>1, <1>2, ListingStays
<1>3. CASE MergeTx(p) /\ ~UNCHANGED rows
  <2>1. t.lid \in Lids
    BY <1>3, Remembers DEF MergeTx, At
  <2>2. /\ rows' = [id \in Ids |-> IF id \in InChat(t.lid)
                                   THEN [rows[id] EXCEPT !.chat = pn] ELSE rows[id]]
        /\ UNCHANGED mem
    BY <1>3 DEF MergeTx
  <2>3. \A id \in Ids : FromOthers(id)' =>
          FromOthers(id) /\ Identity(rows'[id].chat) = Identity(rows[id].chat)
    <3> SUFFICES ASSUME NEW id \in Ids, FromOthers(id)'
                 PROVE  FromOthers(id) /\ Identity(rows'[id].chat) = Identity(rows[id].chat)
      OBVIOUS
    <3>1. CASE id \in InChat(t.lid)
      <4>1. rows[id] \in Stored /\ rows[id].chat = t.lid /\ rows[id] # NoRow
        BY <3>1, MemTypes DEF InChat, StillIn
      <4>2. rows'[id] = [rows[id] EXCEPT !.chat = pn]
        BY <2>2, <3>1
      <4>3. rows'[id].chat = pn /\ rows'[id].fromMe = rows[id].fromMe
        BY <4>1, <4>2 DEF Stored
      <4>4. QED BY <2>1, <4>1, <4>3, SameIdentityMerged DEF FromOthers
    <3>2. CASE id \notin InChat(t.lid)
      BY <2>2, <3>2 DEF FromOthers
    <3>3. QED BY <3>1, <3>2
  <2>4. QED BY <1>1, <2>2, <2>3, HoldingKeeps, ListingKept
<1>4. CASE MergeList(p) /\ ~UNCHANGED mem
  <2>1. t.lid \in Lids /\ t.lid \in Chats /\ pn \in Chats /\ pn # t.lid
    BY <1>4, Remembers, Addresses DEF MergeList, At
  <2>2. /\ mem[t.lid] # None /\ UNCHANGED rows
        /\ mem' = [mem EXCEPT ![t.lid] = None, ![pn] = Merged(mem[t.lid], mem[pn])]
    BY <1>4 DEF MergeList
  <2>3. Merged(mem[t.lid], mem[pn]) # None
    BY <2>1, <2>2, MergedType, MemTypes, Markers
  <2>4. mem'[pn] # None /\ \A c \in Chats : c # t.lid => (mem[c] # None => mem'[c] # None)
    BY <2>1, <2>2, <2>3, MemTypes
  <2>5. \A c \in Chats : mem[c] # None => \E d \in Chats : Identity(d) = Identity(c) /\ mem'[d] # None
    BY <2>1, <2>4, SameIdentityMerged
  <2>6. QED BY <1>1, <2>2, <2>5, HoldingKeeps, ListingKept DEF FromOthers
<1>5. QED BY <1>2, <1>3, <1>4 DEF Upsert, Merger, StartMerge, NextMerge, MergeTx, MergeList

LEMMA StaysUp ==
  ASSUME Undisturbed, reset = "no", [Next]_vars
  PROVE  reset' = "no"
BY DEF Next, vars, Undisturbed, Messages, History, Contacts, Reader, AppState, Merger, Upsert,
   Incoming, StoreIncoming, IncomingListed, HistorySync, HistoryMessage, HistoryListed, ContactSync,
   ReadChat, ReceiptsSent, ReceiptsFail, DeleteForMe, DeleteRow, FindLatest, PreviewAfterDelete,
   StartMerge, NextMerge, MergeTx, MergeList, Open, Send, LearnMapping, ResetTables, ResetList, Restart

LEMMA StepListing ==
  ASSUME Undisturbed, DatedHistory, Typed, reset = "no", Listing, [Next]_vars
  PROVE  Listing'
<1>0. TypeOK
  BY DEF Typed
<1>1. ASSUME Messages \/ History \/ Contacts \/ Reader \/ AppState PROVE Listing'
  BY <1>0, <1>1, MessagesListing, HistoryListing, HandlersListing
<1>2. ASSUME NEW p \in Goroutines, Upsert(p) \/ Merger(p) PROVE Listing'
  BY <1>0, <1>2, WritersListing
<1>3. ASSUME NEW c \in Opened, NEW m \in Sends, Send(m, c) PROVE Listing'
  <2>1. [chat |-> c, ts |-> m.ts, fromMe |-> TRUE] \in Stored /\ m.id \in Ids
    BY Markers DEF Stored
  <2>2. Holding /\ UNCHANGED mem
    BY <1>3 DEF Send, Holding
  <2>3. QED BY <1>0, <1>3, <2>1, <2>2, HoldingKeeps, InsertListing DEF Send
<1>4. ASSUME \/ \E c \in Opened : Open(c)
             \/ \E lid \in Lids : LearnMapping(lid)
             \/ UNCHANGED vars
      PROVE  Listing'
  <2>1. UNCHANGED <<rows, mem, task>>
    BY <1>4 DEF Open, LearnMapping, vars
  <2>2. QED BY <2>1, ListingStays DEF Holding
<1>5. ASSUME ResetTables \/ ResetList \/ Restart PROVE Listing'
  BY <1>5 DEF ResetTables, ResetList, Restart, Undisturbed
<1>6. QED BY <1>1, <1>2, <1>3, <1>4, <1>5 DEF Next

(* Whoever wrote to us is in the list, however arrivals, history syncs,    *)
(* deletes and merges interleave and whichever database statement fails:   *)
(* a stored message is of a listed chat of its sender, or the goroutine    *)
(* that stored it is about to list that chat.                              *)
THEOREM SendersAreListed ==
  ASSUME Undisturbed, DatedHistory
  PROVE  Spec => []SenderIsListed
<1> DEFINE Inv == Typed /\ reset = "no" /\ Listing
<1>1. Init => Inv
  BY InitTyped DEF Init, Listing, FromOthers
<1>2. Inv /\ [Next]_vars => Inv'
  BY StepTyped, StepListing, StaysUp
<1>3. Inv => SenderIsListed
  <2> SUFFICES ASSUME Inv, Quiet PROVE \A id \in Ids : FromOthers(id) =>
                 \E c \in Chats : Identity(c) = Identity(rows[id].chat) /\ mem[c] # None
    BY DEF SenderIsListed, FromOthers
  <2>1. \A c : ~WillList(c)
    BY DEF Quiet, WillList, At
  <2>2. QED BY <2>1 DEF Listing
<1>4. QED BY <1>1, <1>2, <1>3, PTL DEF Spec
------------------------------------------------------------------------------
(* SameChatsSaved and ListIsSaved: while no write of a conversation fails  *)
(* and, if the user resets the program, no LID chat is there to be merged. *)
SavesSucceed == "conversations" \notin DbErrors
CalmResets   == Resets => Lids = {}

(* Goroutine p lists chats only with a copy to save, keeps its copies      *)
(* until they are written, and is not in the middle of a merge.            *)
LEMMA SavedStep ==
  ASSUME Saved, NEW p \in Goroutines, \A q \in Goroutines : q # p => task'[q] = task[q],
         UNCHANGED reset,
         \A c \in Chats : mem[c] # None => mem'[c] # None,
         \A c \in Chats : mem'[c] # None => mem[c] # None \/ Carries(p, c)',
         \A c \in Chats : Carries(p, c) => Carries(p, c)' \/ db'[c] # None,
         \A c \in Chats : Carries(p, c)' => Carries(p, c) \/ mem'[c] # None,
         \A c \in Chats : db[c] # None => db'[c] # None,
         \A c \in Chats : db'[c] # None => db[c] # None \/ Carries(p, c),
         ~At(p, "mergeList") /\ ~At(p, "mergeList")',
         \A lid \in Lids : At(p, "mergeTx")' /\ task'[p].lid = lid =>
           mem[lid] # None \/ (At(p, "mergeTx") /\ task[p].lid = lid)
  PROVE  Saved'
<1>1. \A q \in Goroutines, c \in Chats : q # p => (Carries(q, c)' <=> Carries(q, c))
  BY DEF Carries
<1>2. \A q \in Goroutines : \A lid : Merging(q, lid)' <=> Merging(q, lid)
  BY DEF Merging, At
<1>3. \A q \in Goroutines, c \in Chats : Carries(q, c) => Carries(q, c)' \/ db'[c] # None
  BY <1>1
<1>4. \A q \in Goroutines, c \in Chats : Carries(q, c)' => Carries(q, c) \/ mem'[c] # None
  BY <1>1
<1>5. ListedIsSaved'
  <2> SUFFICES ASSUME reset # "tables", NEW c \in Chats, mem'[c] # None, db'[c] = None
               PROVE  \E q \in Goroutines : Carries(q, c)' \/ Merging(q, c)'
    BY DEF ListedIsSaved
  <2>1. CASE Carries(p, c)'
    BY <2>1
  <2>2. CASE mem[c] # None
    <3>1. PICK q \in Goroutines : Carries(q, c) \/ Merging(q, c)
      BY <2>2 DEF Saved, ListedIsSaved
    <3>2. QED BY <1>2, <1>3, <3>1
  <2>3. QED BY <2>1, <2>2
<1>6. OnlyListed'
  <2> SUFFICES ASSUME reset = "no", NEW c \in Chats \ Lids, mem'[c] = None,
                      db'[c] # None \/ \E q \in Goroutines : Carries(q, c)'
               PROVE  \E q \in Goroutines, lid \in Lids : Merging(q, lid)' /\ PnOf[lid] = c
    BY DEF OnlyListed
  <2>1. mem[c] = None /\ (db[c] # None \/ \E q \in Goroutines : Carries(q, c))
    BY <1>4
  <2>2. QED BY <1>2, <2>1 DEF Saved, OnlyListed
<1>7. MergesKnown'
  <2> SUFFICES ASSUME NEW q \in Goroutines, NEW lid \in Lids
               PROVE  /\ Merging(q, lid)' => db'[PnOf[lid]] # None
                      /\ Merging(q, lid)' \/ (At(q, "mergeTx")' /\ task'[q].lid = lid) =>
                           mem'[lid] # None \/ mem'[PnOf[lid]] # None
    BY DEF MergesKnown
  <2>1. lid \in Chats /\ PnOf[lid] \in Chats
    BY Addresses
  <2>2. Merging(q, lid)' => db'[PnOf[lid]] # None
    BY <1>2, <2>1 DEF Saved, MergesKnown
  <2>3. ASSUME Merging(q, lid)' \/ (At(q, "mergeTx")' /\ task'[q].lid = lid)
        PROVE  mem[lid] # None \/ Merging(q, lid) \/ (At(q, "mergeTx") /\ task[q].lid = lid)
    BY <1>2, <2>3 DEF At
  <2>4. QED BY <2>1, <2>2, <2>3 DEF Saved, MergesKnown
<1>8. QED BY <1>5, <1>6, <1>7 DEF Saved

(* A goroutine moves between steps at which it has nothing to save. *)
LEMMA SavedElsewhere ==
  ASSUME TypeOK, Saved, NEW p \in Goroutines, NEW t, Do(p, t), UNCHANGED <<mem, db, reset>>,
         task[p] = Idle \/ task[p].step \notin {"save", "history", "mergeList"},
         t = Idle \/ t.step \notin {"save", "history", "mergeList", "mergeTx"}
  PROVE  Saved'
<1>1. task'[p] = t /\ \A q \in Goroutines : q # p => task'[q] = task[q]
  BY DoFacts
<1>2. ~At(p, "mergeList") /\ ~At(p, "mergeList")' /\ ~At(p, "mergeTx")'
  BY <1>1 DEF At
<1>3. \A c \in Chats : ~Carries(p, c) /\ ~Carries(p, c)'
  BY <1>1 DEF Carries
<1>4. QED BY <1>1, <1>2, <1>3, SavedStep

(* A goroutine changes a conversation and takes a copy. *)
LEMMA SavedWithCopy ==
  ASSUME TypeOK, Saved, NEW p \in Goroutines, NEW chat \in Chats, NEW conv \in Conversation,
         mem' = [mem EXCEPT ![chat] = conv], NEW then \in {Idle} \cup Merges,
         Do(p, Saving(<<Copy(chat)>>, then)), UNCHANGED <<db, reset>>,
         task[p] = Idle \/ task[p].step \notin {"save", "history", "mergeList", "mergeTx"}
  PROVE  Saved'
<1>0. Saving(<<Copy(chat)>>, then) # Idle
  <2>1. mem'[chat] = conv
    BY MemTypes
  <2>2. Copy(chat) \in [chat: Chats, conv: Conversation]
    BY <2>1 DEF Copy
  <2>3. Saving(<<Copy(chat)>>, then) \in Busy
    BY <2>2 DEF Saving, Copies, Busy
  <2>4. QED BY <2>3, Markers
<1>1. /\ task'[p] = Saving(<<Copy(chat)>>, then)
      /\ \A q \in Goroutines : q # p => task'[q] = task[q]
  BY DoFacts
<1>2. task'[p] # Idle /\ task'[p].step = "save" /\ task'[p].copies = <<Copy(chat)>> /\ Copy(chat).chat = chat
  BY <1>0, <1>1 DEF Saving, Copy
<1>3. Carries(p, chat)' /\ \A c : Carries(p, c)' => c = chat
  BY <1>2 DEF Carries
<1>4. ~At(p, "mergeList") /\ ~At(p, "mergeList")' /\ ~At(p, "mergeTx")'
  BY <1>2 DEF At
<1>5. \A c \in Chats : ~Carries(p, c)
  BY DEF Carries
<1>6. mem'[chat] # None /\ \A c \in Chats : c # chat => mem'[c] = mem[c]
  BY MemTypes, Markers
<1>7. QED BY <1>1, <1>3, <1>4, <1>5, <1>6, SavedStep

LEMMA HandlersSaved ==
  ASSUME TypeOK, Saved, Messages \/ Contacts \/ Reader \/ AppState
  PROVE  Saved'
<1> DEFINE Elsewhere(p) == p \in Goroutines
                       /\ (task[p] = Idle \/ task[p].step \notin {"save", "history", "mergeList", "mergeTx"})
           Plain(t) == t = Idle \/ t.step \notin {"save", "history", "mergeList", "mergeTx"}
<1>1. CASE Messages
  <2> DEFINE t == task["messages"]
  <2>0. Elsewhere("messages")
    BY <1>1 DEF Messages, Incoming, StoreIncoming, IncomingListed, Free, At
  <2>1. ASSUME NEW m \in Wire, Incoming(m) PROVE Saved'
    <3> DEFINE new == [step |-> "store", msg |-> m, chat |-> CanonicalChat(known, m.src)]
    <3>1. Do("messages", new) /\ Plain(new) /\ UNCHANGED <<mem, db, reset>>
      BY <2>1 DEF Incoming
    <3> HIDE DEF new
    <3>2. QED BY <2>0, <3>1, SavedElsewhere
  <2>2. CASE StoreIncoming
    <3> DEFINE new == [t EXCEPT !.step = "list"]
    <3>1. t \in [step: {"store", "list"}, msg: Wire, chat: Chats]
      BY <2>2, Remembers DEF StoreIncoming, At
    <3>2. Plain(new) /\ UNCHANGED <<mem, db, reset>>
      BY <2>2, <3>1 DEF StoreIncoming
    <3>3. Do("messages", new) \/ Do("messages", Idle)
      BY <2>2 DEF StoreIncoming
    <3> HIDE DEF new
    <3>4. QED BY <2>0, <3>2, <3>3, SavedElsewhere
  <2>3. CASE IncomingListed
    <3>1. t \in [step: {"store", "list"}, msg: Wire, chat: Chats]
      BY <2>3, Remembers DEF IncomingListed, At
    <3>2. PICK chat \in Chats, conv \in Conversation : chat = t.chat /\ conv = Listed(mem[t.chat], t.msg)
      BY <3>1, ListedType, MemTypes
    <3>3. /\ mem' = [mem EXCEPT ![chat] = conv] /\ UNCHANGED <<db, reset>>
          /\ Do("messages", Saving(<<Copy(chat)>>, Idle))
      BY <2>3, <3>2 DEF IncomingListed, Save
    <3>4. QED BY <2>0, <3>3, SavedWithCopy
  <2>4. QED BY <1>1, <2>1, <2>2, <2>3 DEF Messages
<1>2. CASE Contacts
  <2>1. PICK chat \in Chats : ContactSync(chat)
    BY <1>2 DEF Contacts
  <2>2. PICK conv \in Conversation :
          conv = IF mem[chat] # None THEN mem[chat]
                 ELSE [time |-> 0, preview |-> NewChat, unread |-> 0,
                       pinned |-> FALSE, archived |-> FALSE]
    <3>1. /\ mem[chat] # None => mem[chat] \in Conversation
          /\ [time |-> 0, preview |-> NewChat, unread |-> 0, pinned |-> FALSE, archived |-> FALSE]
               \in Conversation
      BY MemTypes, Counts DEF Conversation
    <3>2. QED BY <3>1
  <2>3. mem' = [mem EXCEPT ![chat] = conv]
    BY <2>1, <2>2, MemTypes DEF ContactSync
  <2>4. /\ Do("contacts", Saving(<<Copy(chat)>>, Idle)) /\ UNCHANGED <<db, reset>>
        /\ Elsewhere("contacts")
    BY <2>1 DEF ContactSync, Save, Free
  <2>5. QED BY <2>3, <2>4, SavedWithCopy
<1>3. CASE Reader
  <2>0. Elsewhere("reader")
    BY <1>3 DEF Reader, ReadChat, ReceiptsSent, ReceiptsFail, Free, At
  <2>1. ASSUME NEW c \in Chats, ReadChat(c) PROVE Saved'
    <3> DEFINE new == [step |-> "read", chat |-> c]
    <3>1. Do("reader", new) /\ Plain(new) /\ UNCHANGED <<mem, db, reset>>
      BY <2>1 DEF ReadChat
    <3> HIDE DEF new
    <3>2. QED BY <2>0, <3>1, SavedElsewhere
  <2>2. CASE Do("reader", Idle) /\ UNCHANGED <<mem, db, reset>>
    BY <2>0, <2>2, SavedElsewhere
  <2>3. CASE ReceiptsSent /\ mem[task["reader"].chat] # None
    <3>1. PICK chat \in Chats : chat = task["reader"].chat
      BY <2>3, Remembers DEF ReceiptsSent, At
    <3>2. PICK conv \in Conversation : conv = [mem[chat] EXCEPT !.unread = 0]
      <4>1. [mem[chat] EXCEPT !.unread = 0] \in Conversation
        BY <2>3, <3>1, MemTypes, Counts DEF Conversation
      <4>2. QED BY <4>1
    <3>3. /\ mem' = [mem EXCEPT ![chat] = conv] /\ UNCHANGED <<db, reset>>
          /\ Do("reader", Saving(<<Copy(chat)>>, Idle))
      BY <2>3, <3>1, <3>2 DEF ReceiptsSent, Save
    <3>4. QED BY <2>0, <3>3, SavedWithCopy
  <2>4. QED BY <1>3, <2>1, <2>2, <2>3 DEF Reader, ReceiptsSent, ReceiptsFail
<1>4. CASE AppState
  <2> DEFINE t == task["appState"]
  <2>0. Elsewhere("appState")
    BY <1>4 DEF AppState, DeleteForMe, DeleteRow, FindLatest, PreviewAfterDelete, Free, At
  <2>1. CASE UNCHANGED <<mem, db, reset>> /\ Do("appState", Idle)
    BY <2>0, <2>1, SavedElsewhere
  <2>2. ASSUME NEW id \in Ids, DeleteForMe(id) PROVE Saved'
    <3> DEFINE new == [step |-> "delete", id |-> id, row |-> rows[id]]
    <3>1. Do("appState", new) /\ Plain(new) /\ UNCHANGED <<mem, db, reset>>
      BY <2>2 DEF DeleteForMe
    <3> HIDE DEF new
    <3>2. QED BY <2>0, <3>1, SavedElsewhere
  <2>3. CASE DeleteRow
    <3> DEFINE new == [step |-> "latest", row |-> t.row]
    <3>1. (Do("appState", new) \/ Do("appState", Idle)) /\ Plain(new) /\ UNCHANGED <<mem, db, reset>>
      BY <2>3 DEF DeleteRow
    <3> HIDE DEF new
    <3>2. QED BY <2>0, <2>1, <3>1, SavedElsewhere
  <2>4. CASE FindLatest
    <3> DEFINE new(id, ts) == [step |-> "preview", row |-> t.row, id |-> id, ts |-> ts]
    <3>1. (\E id, ts : Do("appState", new(id, ts))) \/ Do("appState", Idle)
      BY <2>4 DEF FindLatest
    <3>2. (\A id, ts : Plain(new(id, ts))) /\ UNCHANGED <<mem, db, reset>>
      BY <2>4 DEF FindLatest
    <3> HIDE DEF new
    <3>3. QED BY <2>0, <2>1, <3>1, <3>2, SavedElsewhere
  <2>5. CASE PreviewAfterDelete /\ mem[t.row.chat] # None /\ ~(t.row.ts < mem[t.row.chat].time)
    <3>1. PICK chat \in Chats : chat = t.row.chat /\ t.id \in Ids \cup {NewChat} /\ t.ts \in Nat
      BY <2>5, Remembers DEF PreviewAfterDelete, At, Stored
    <3>2. PICK conv \in Conversation :
            conv = [mem[chat] EXCEPT !.preview = t.id, !.time = IF t.id = NewChat THEN @ ELSE t.ts]
      <4> HIDE DEF t
      <4>1. [mem[chat] EXCEPT !.preview = t.id, !.time = IF t.id = NewChat THEN @ ELSE t.ts]
              \in Conversation
        BY <2>5, <3>1, MemTypes DEF Conversation
      <4>2. QED BY <4>1
    <3>3. /\ mem' = [mem EXCEPT ![chat].preview = t.id,
                                ![chat].time = IF t.id = NewChat THEN @ ELSE t.ts]
          /\ Do("appState", Saving(<<Copy(chat)>>, Idle)) /\ UNCHANGED <<db, reset>>
      BY <2>5, <3>1 DEF PreviewAfterDelete, Save
    <3>4. mem' = [mem EXCEPT ![chat] = conv]
      BY <3>1, <3>2, <3>3, MemTypes
    <3>5. QED BY <2>0, <3>3, <3>4, SavedWithCopy
  <2>6. QED BY <1>4, <2>1, <2>2, <2>3, <2>4, <2>5 DEF AppState, PreviewAfterDelete
<1>5. QED BY <1>1, <1>2, <1>3, <1>4

LEMMA HistoryCarries ==
  ASSUME TypeOK, "history" \in Goroutines, NEW convs \in Seq(HistoryConversation),
         NEW copies \in Copies, NEW t, t = HistoryTask(convs, copies), Do("history", t)
  PROVE  /\ \A c : Carries("history", c)' <=> \E i \in DOMAIN copies : copies[i].chat = c
         /\ ~At("history", "mergeList")' /\ ~At("history", "mergeTx")'
         /\ \A q \in Goroutines : q # "history" => task'[q] = task[q]
<1>1. task'["history"] = t /\ t # Idle /\ \A q \in Goroutines : q # "history" => task'[q] = task[q]
  BY DoFacts, HistoryTaskType, Markers
<1>2. \/ t.step \in {"save", "history"} /\ t.copies = copies
      \/ t.step = "collect" /\ copies = <<>>
  <2>1. CASE convs # <<>>
    BY <2>1, HistoryTaskFacts
  <2>2. CASE convs = <<>> /\ copies # <<>>
    BY <2>2, HistoryTaskFacts DEF Saving
  <2>3. CASE convs = <<>> /\ copies = <<>>
    BY <2>3, HistoryTaskFacts
  <2>4. QED BY <2>1, <2>2, <2>3
<1>3. DOMAIN <<>> = {}
  OBVIOUS
<1>4. QED BY <1>1, <1>2, <1>3 DEF Carries, At

LEMMA HistorySaved ==
  ASSUME Typed, Saved, History
  PROVE  Saved'
<1>0. TypeOK /\ "history" \in Goroutines
  BY DEF Typed, History, HistorySync, HistoryMessage, HistoryListed, Free, At
<1> DEFINE t == task["history"]
<1>1. ASSUME NEW b \in Batches, HistorySync(b) PROVE Saved'
  <2>1. b \in Seq(HistoryConversation) /\ <<>> \in Copies /\ DOMAIN <<>> = {}
    BY Markers DEF Copies
  <2>2. PICK new : new = HistoryTask(b, <<>>)
    OBVIOUS
  <2>3. Do("history", new) /\ task["history"] = Idle /\ UNCHANGED <<mem, db, reset>>
    BY <1>1, <2>2 DEF HistorySync, Free
  <2>4. /\ \A c : ~Carries("history", c)'
        /\ ~At("history", "mergeList")' /\ ~At("history", "mergeTx")'
        /\ \A q \in Goroutines : q # "history" => task'[q] = task[q]
    BY <1>0, <2>1, <2>2, <2>3, HistoryCarries
  <2>5. ~At("history", "mergeList") /\ \A c : ~Carries("history", c)
    BY <2>3 DEF At, Carries
  <2>6. QED BY <1>0, <2>3, <2>4, <2>5, SavedStep
<1>2. ASSUME At("history", "history")
      PROVE  /\ t \in [step: {"history"}, convs: Seq(HistoryConversation), chat: Chats,
                       msgs: HistoryMessages, copies: Copies]
             /\ t # Idle /\ ~At("history", "mergeList") /\ ~At("history", "mergeTx")
             /\ \A c : Carries("history", c) <=> \E i \in DOMAIN t.copies : t.copies[i].chat = c
  <2>1. t.step = "history" /\ t # Idle
    BY <1>2 DEF At
  <2>2. t \in [step: {"history"}, convs: Seq(HistoryConversation), chat: Chats,
               msgs: HistoryMessages, copies: Copies]
    BY <1>2, AtHistory
  <2>3. QED BY <2>1, <2>2 DEF At, Carries
<1>3. CASE HistoryMessage
  <2>1. At("history", "history") /\ At("history", "history")' /\ UNCHANGED <<mem, db, reset>>
    BY <1>3, MessageStored DEF HistoryMessage
  <2>2. ~At("history", "mergeList")' /\ ~At("history", "mergeTx")'
    BY <2>1 DEF At
  <2>3. \A c : Carries("history", c)' <=> Carries("history", c)
    BY <1>3, <2>1, MessageStored DEF Carries, At
  <2>4. \A q \in Goroutines : q # "history" => task'[q] = task[q]
    BY <1>3, MessageStored
  <2>5. QED BY <1>0, <1>2, <2>1, <2>2, <2>3, <2>4, SavedStep
<1>4. CASE HistoryListed
  <2>1. At("history", "history")
    BY <1>4 DEF HistoryListed
  <2>2. PICK chat \in Chats, h \in HistoryConversation, rest \in Seq(HistoryConversation) :
          chat = t.chat /\ h = Head(t.convs) /\ rest = Tail(t.convs)
    BY <2>1, AtHistory
  <2>3. PICK conv \in Conversation \cup {None} :
          conv = IF mem[chat] # None THEN Refreshed(mem[chat], h)
                 ELSE IF EmptyChat(chat, FromHistory(h)) THEN None
                 ELSE FromHistory(h)
    <3>1. /\ mem[chat] # None => Refreshed(mem[chat], h) \in Conversation
          /\ FromHistory(h) \in Conversation
      BY <1>0, HistoryTypes, MemTypes
    <3>2. QED BY <3>1
  <2>4. conv = None => mem[chat] = None
    BY <1>0, <2>3, HistoryTypes, MemTypes, Markers
  <2>5. PICK copies \in Copies :
          /\ copies = IF conv = mem[chat] THEN t.copies ELSE Append(t.copies, Copy(chat))
          /\ \A c : (\E i \in DOMAIN copies : copies[i].chat = c) <=>
               (\E i \in DOMAIN t.copies : t.copies[i].chat = c) \/ (conv # mem[chat] /\ c = chat)
    <3>1. CASE conv = mem[chat]
      BY <1>2, <2>1, <3>1
    <3>2. CASE conv # mem[chat]
      <4>1. mem'[chat] = conv
        BY <1>0, <1>4, <2>2, <2>3, MemTypes DEF HistoryListed
      <4>2. PICK copy \in [chat: Chats, conv: Conversation] : copy = Copy(chat) /\ copy.chat = chat
        <5>1. Copy(chat) \in [chat: Chats, conv: Conversation] /\ Copy(chat).chat = chat
          BY <2>4, <3>2, <4>1 DEF Copy
        <5>2. QED BY <5>1
      <4>3. t.copies \in Seq([chat: Chats, conv: Conversation])
        BY <1>2, <2>1 DEF Copies
      <4> HIDE DEF t
      <4>4. PICK new \in Copies : new = Append(t.copies, copy)
        BY <4>3, AppendProperties DEF Copies
      <4>5. /\ DOMAIN t.copies = 1..Len(t.copies) /\ Len(t.copies) \in Nat
            /\ DOMAIN new = 1..(Len(t.copies) + 1) /\ new[Len(t.copies) + 1] = copy
            /\ \A i \in 1..Len(t.copies) : new[i] = t.copies[i]
        BY <4>3, <4>4, AppendProperties, LenProperties
      <4>6. \A c : (\E i \in DOMAIN new : new[i].chat = c) <=>
                     (\E i \in DOMAIN t.copies : t.copies[i].chat = c) \/ c = chat
        <5>1. Len(t.copies) + 1 \in DOMAIN new /\ DOMAIN t.copies \subseteq DOMAIN new
          BY <4>5
        <5>2. \A i \in DOMAIN new : i \in DOMAIN t.copies \/ i = Len(t.copies) + 1
          BY <4>5
        <5>3. QED BY <4>2, <4>5, <5>1, <5>2
      <4>7. new = IF conv = mem[chat] THEN t.copies ELSE Append(t.copies, Copy(chat))
        BY <3>2, <4>2, <4>4
      <4>8. \A c : (\E i \in DOMAIN new : new[i].chat = c) <=>
                     (\E i \in DOMAIN t.copies : t.copies[i].chat = c) \/ (conv # mem[chat] /\ c = chat)
        BY <3>2, <4>6
      <4>9. QED BY <4>7, <4>8
    <3>3. QED BY <3>1, <3>2
  <2>6. /\ mem' = [mem EXCEPT ![chat] = conv] /\ UNCHANGED <<db, reset>>
        /\ Do("history", HistoryTask(rest, copies))
    BY <1>4, <2>2, <2>3, <2>5 DEF HistoryListed
  <2>7. /\ \A c : Carries("history", c)' <=> Carries("history", c) \/ (conv # mem[chat] /\ c = chat)
        /\ ~At("history", "mergeList")' /\ ~At("history", "mergeTx")'
        /\ \A q \in Goroutines : q # "history" => task'[q] = task[q]
    <3>1. PICK new : new = HistoryTask(rest, copies)
      OBVIOUS
    <3>2. /\ \A c : Carries("history", c)' <=> \E i \in DOMAIN copies : copies[i].chat = c
          /\ ~At("history", "mergeList")' /\ ~At("history", "mergeTx")'
          /\ \A q \in Goroutines : q # "history" => task'[q] = task[q]
      BY <1>0, <2>6, <3>1, HistoryCarries
    <3>3. QED BY <1>2, <2>1, <2>5, <3>2
  <2>8. mem'[chat] = conv /\ \A c \in Chats : c # chat => mem'[c] = mem[c]
    BY <1>0, <2>6, MemTypes
  <2>9. QED BY <1>0, <1>2, <2>1, <2>4, <2>6, <2>7, <2>8, SavedStep
<1>5. QED BY <1>1, <1>3, <1>4 DEF History

LEMMA UpsertSaved ==
  ASSUME SavesSucceed, Typed, Saved, NEW p \in Goroutines, Upsert(p)
  PROVE  Saved'
<1> DEFINE t == task[p]  S == [chat: Chats, conv: Conversation]
           new == [t EXCEPT !.copies = Tail(@)]
<1>1. /\ TypeOK /\ t \in [step: {"save"}, copies: Copies, then: {Idle} \cup Merges]
      /\ t # Idle /\ t.step = "save" /\ t.copies # <<>> /\ t.copies \in Seq(S)
      /\ t.then \in {Idle} \cup Merges
  BY Remembers DEF Typed, Upsert, At, Copies
<1>2. /\ t.copies[1] \in S /\ DOMAIN t.copies = 1..Len(t.copies) /\ Len(t.copies) \in Nat
      /\ Tail(t.copies) \in Seq(S) /\ Len(Tail(t.copies)) = Len(t.copies) - 1
      /\ \A i \in DOMAIN Tail(t.copies) : i + 1 \in DOMAIN t.copies /\ Tail(t.copies)[i] = t.copies[i + 1]
      /\ DOMAIN Tail(t.copies) = 1..Len(Tail(t.copies)) /\ 1 \in DOMAIN t.copies
  <2> HIDE DEF t, S
  <2>1. QED BY <1>1, Elements
<1>3. PICK chat \in Chats, conv \in Conversation : chat = t.copies[1].chat /\ conv = t.copies[1].conv
  BY <1>2
<1>4. /\ db' = [db EXCEPT ![chat] = conv] /\ UNCHANGED <<mem, reset>>
      /\ Do(p, IF Len(t.copies) > 1 THEN new ELSE t.then)
  BY <1>3 DEF Upsert, SavesSucceed
<1>5. db'[chat] # None /\ \A c \in Chats : c # chat => db'[c] = db[c]
  BY <1>1, <1>3, <1>4, MemTypes, Markers
<1>6. \A c : Carries(p, c) <=> \E i \in DOMAIN t.copies : t.copies[i].chat = c
  BY <1>1 DEF Carries
<1>7. Carries(p, chat)
  BY <1>2, <1>3, <1>6
<1>8. \A q \in Goroutines : q # p => task'[q] = task[q]
  BY <1>1, <1>4, DoFacts
<1>9. ~At(p, "mergeList") /\ ~At(p, "mergeTx")
  BY <1>1 DEF At
<1>10. CASE Len(t.copies) > 1
  <2>1. new \in [step: {"save"}, copies: Copies, then: {Idle} \cup Merges] /\ new.step = "save"
        /\ new.copies = Tail(t.copies)
    BY <1>1, <1>2 DEF Copies
  <2>2. new # Idle
    BY <2>1, Markers DEF Busy
  <2>3. task'[p] = new
    <3>1. Do(p, new)
      BY <1>4, <1>10
    <3> HIDE DEF new
    <3>2. QED BY <1>1, <3>1, DoFacts
  <2> HIDE DEF new
  <2>4. /\ \A c : Carries(p, c)' <=> \E i \in DOMAIN Tail(t.copies) : Tail(t.copies)[i].chat = c
        /\ ~At(p, "mergeList")' /\ ~At(p, "mergeTx")'
    <3> HIDE DEF t
    <3>1. task'[p] # Idle /\ task'[p].step = "save" /\ task'[p].copies = Tail(t.copies)
      BY <2>1, <2>2, <2>3
    <3>2. PICK rest : rest = Tail(t.copies)
      OBVIOUS
    <3>3. QED BY <3>1, <3>2 DEF Carries, At
  <2>5. \A c : Carries(p, c)' => Carries(p, c)
    BY <1>2, <1>6, <2>4
  <2>6. \A i \in DOMAIN t.copies : i = 1 \/ (i - 1 \in DOMAIN Tail(t.copies) /\ Tail(t.copies)[i - 1] = t.copies[i])
    <3>1. \A i \in 2..Len(t.copies) : i - 1 \in DOMAIN Tail(t.copies) /\ (i - 1) + 1 = i
      BY <1>2
    <3>2. QED BY <1>2, <3>1
  <2>7. \A c : Carries(p, c) => c = chat \/ Carries(p, c)'
    BY <1>3, <1>6, <2>4, <2>6
  <2>8. QED BY <1>4, <1>5, <1>7, <1>8, <1>9, <2>4, <2>5, <2>7, SavedStep
<1>11. CASE ~(Len(t.copies) > 1)
  <2>1. Do(p, t.then)
    BY <1>4, <1>11
  <2>2. task'[p] = t.then
    BY <1>1, <2>1, DoFacts
  <2>3. \A c : ~Carries(p, c)'
    BY <1>1, <2>2 DEF Carries, Merges
  <2>4. ~At(p, "mergeList")' /\ ~At(p, "mergeTx")'
    BY <1>1, <2>2 DEF At, Merges
  <2>5. \A c : Carries(p, c) => c = chat
    <3>1. \A i \in DOMAIN t.copies : i = 1
      BY <1>2, <1>11
    <3>2. QED BY <1>3, <1>6, <3>1
  <2>6. QED BY <1>4, <1>5, <1>7, <1>8, <1>9, <2>3, <2>4, <2>5, SavedStep
<1>12. QED BY <1>10, <1>11

(* The transaction of a merge, and the change of the list after it. *)
LEMMA MergeSaved ==
  ASSUME TypeOK, Saved, NEW p \in Goroutines, NEW lid \in Lids,
         task[p] # Idle, task[p].lid = lid, UNCHANGED reset,
         \A q \in Goroutines : q # p => task'[q] = task[q],
         \/ /\ task[p].step = "mergeTx" /\ Merging(p, lid)'
            /\ UNCHANGED mem /\ \E conv \in Conversation : db' = [db EXCEPT ![lid] = None, ![PnOf[lid]] = conv]
         \/ /\ task[p].step = "mergeList" /\ UNCHANGED db
            /\ \E conv \in Conversation : mem' = [mem EXCEPT ![lid] = None, ![PnOf[lid]] = conv]
            /\ task'[p] = Idle \/ task'[p].step \notin {"history", "mergeTx", "mergeList"}
            /\ \A c : Carries(p, c)' => c = PnOf[lid]
  PROVE  Saved'
<1> DEFINE pn == PnOf[lid]
<1>1. /\ lid \in Chats /\ pn \in Chats /\ pn # lid /\ pn \notin Lids
      /\ \A other \in Lids : PnOf[other] \in Chats /\ PnOf[other] \notin Lids
                             /\ (PnOf[other] = pn => other = lid)
  BY Addresses
<1>2. \A q \in Goroutines, c \in Chats : q # p => (Carries(q, c)' <=> Carries(q, c))
  BY DEF Carries
<1>3. \A q \in Goroutines : \A l : q # p => (Merging(q, l)' <=> Merging(q, l))
  BY DEF Merging, At
<1>4. \A c \in Chats : ~Carries(p, c)
  BY DEF Carries
<1>5. CASE /\ task[p].step = "mergeTx" /\ Merging(p, lid)' /\ UNCHANGED mem
           /\ \E conv \in Conversation : db' = [db EXCEPT ![lid] = None, ![pn] = conv]
  <2>1. db'[pn] # None /\ \A c \in Chats : c \notin {lid, pn} => db'[c] = db[c]
    BY <1>1, <1>5, MemTypes, Markers
  <2>2. \A l : ~Merging(p, l) /\ (Merging(p, l)' => l = lid)
    BY <1>5 DEF Merging, At
  <2>3. /\ \A c : ~Carries(p, c)'
        /\ ~At(p, "mergeTx")' /\ At(p, "mergeTx")
    BY <1>5 DEF Merging, Carries, At
  <2>4. mem[lid] # None \/ mem[pn] # None
    BY <2>3 DEF Saved, MergesKnown
  <2>5. ListedIsSaved'
    <3> SUFFICES ASSUME reset # "tables", NEW c \in Chats, mem[c] # None, db'[c] = None
                 PROVE  \E q \in Goroutines : Carries(q, c)' \/ Merging(q, c)'
      BY <1>5 DEF ListedIsSaved
    <3>1. CASE c = lid
      BY <1>5, <3>1
    <3>2. CASE c # lid
      <4>1. db[c] = None
        BY <2>1, <3>2
      <4>2. PICK q \in Goroutines : Carries(q, c) \/ Merging(q, c)
        BY <4>1 DEF Saved, ListedIsSaved
      <4>3. q # p
        BY <1>4, <2>2, <4>2
      <4>4. QED BY <1>2, <1>3, <4>2, <4>3
    <3>3. QED BY <3>1, <3>2
  <2>6. OnlyListed'
    <3> SUFFICES ASSUME reset = "no", NEW c \in Chats \ Lids, mem[c] = None,
                        db'[c] # None \/ \E q \in Goroutines : Carries(q, c)'
                 PROVE  \E q \in Goroutines, l \in Lids : Merging(q, l)' /\ PnOf[l] = c
      BY <1>5 DEF OnlyListed
    <3>1. CASE c = pn
      BY <1>5, <3>1
    <3>2. CASE c # pn
      <4>1. db[c] # None \/ \E q \in Goroutines : Carries(q, c)
        BY <1>2, <2>1, <2>3, <3>2
      <4>2. PICK q \in Goroutines, l \in Lids : Merging(q, l) /\ PnOf[l] = c
        BY <4>1 DEF Saved, OnlyListed
      <4>3. QED BY <1>3, <2>2, <4>2
    <3>3. QED BY <3>1, <3>2
  <2>7. MergesKnown'
    <3> SUFFICES ASSUME NEW q \in Goroutines, NEW l \in Lids
                 PROVE  /\ Merging(q, l)' => db'[PnOf[l]] # None
                        /\ Merging(q, l)' \/ (At(q, "mergeTx")' /\ task'[q].lid = l) =>
                             mem[l] # None \/ mem[PnOf[l]] # None
      BY <1>5 DEF MergesKnown
    <3>1. CASE q = p
      BY <2>1, <2>2, <2>3, <2>4, <3>1
    <3>2. CASE q # p
      <4>1. /\ Merging(q, l)' <=> Merging(q, l)
            /\ (At(q, "mergeTx")' /\ task'[q].lid = l) <=> (At(q, "mergeTx") /\ task[q].lid = l)
        BY <1>3, <3>2 DEF At
      <4>2. Merging(q, l) => db'[PnOf[l]] # None
        BY <1>1, <2>1 DEF Saved, MergesKnown
      <4>3. QED BY <4>1, <4>2 DEF Saved, MergesKnown
    <3>3. QED BY <3>1, <3>2
  <2>8. QED BY <2>5, <2>6, <2>7 DEF Saved
<1>6. CASE /\ task[p].step = "mergeList" /\ UNCHANGED db
           /\ \E conv \in Conversation : mem' = [mem EXCEPT ![lid] = None, ![pn] = conv]
           /\ task'[p] = Idle \/ task'[p].step \notin {"history", "mergeTx", "mergeList"}
           /\ \A c : Carries(p, c)' => c = pn
  <2>1. mem'[pn] # None /\ mem'[lid] = None /\ \A c \in Chats : c \notin {lid, pn} => mem'[c] = mem[c]
    BY <1>1, <1>6, MemTypes, Markers
  <2>2. Merging(p, lid) /\ \A l : (Merging(p, l) => l = lid) /\ ~Merging(p, l)'
    BY <1>6 DEF Merging, At
  <2>3. ~At(p, "mergeTx")' /\ ~At(p, "mergeTx")
    BY <1>6 DEF At
  <2>4. db[pn] # None
    BY <2>2 DEF Saved, MergesKnown
  <2>5. ListedIsSaved'
    <3> SUFFICES ASSUME reset # "tables", NEW c \in Chats, mem'[c] # None, db[c] = None
                 PROVE  \E q \in Goroutines : Carries(q, c)' \/ Merging(q, c)'
      BY <1>6 DEF ListedIsSaved
    <3>1. c # lid /\ c # pn /\ mem[c] # None
      BY <2>1, <2>4
    <3>2. PICK q \in Goroutines : Carries(q, c) \/ Merging(q, c)
      BY <3>1 DEF Saved, ListedIsSaved
    <3>3. q # p
      BY <1>4, <2>2, <3>1, <3>2
    <3>4. QED BY <1>2, <1>3, <3>2, <3>3
  <2>6. OnlyListed'
    <3> SUFFICES ASSUME reset = "no", NEW c \in Chats \ Lids, mem'[c] = None,
                        db[c] # None \/ \E q \in Goroutines : Carries(q, c)'
                 PROVE  \E q \in Goroutines, l \in Lids : Merging(q, l)' /\ PnOf[l] = c
      BY <1>6 DEF OnlyListed
    <3>1. c # pn /\ mem[c] = None
      BY <2>1
    <3>2. db[c] # None \/ \E q \in Goroutines : Carries(q, c)
      BY <1>2, <1>6, <3>1
    <3>3. PICK q \in Goroutines, l \in Lids : Merging(q, l) /\ PnOf[l] = c
      BY <3>1, <3>2 DEF Saved, OnlyListed
    <3>4. QED BY <1>3, <2>2, <3>1, <3>3
  <2>7. MergesKnown'
    <3> SUFFICES ASSUME NEW q \in Goroutines, NEW l \in Lids
                 PROVE  /\ Merging(q, l)' => db[PnOf[l]] # None
                        /\ Merging(q, l)' \/ (At(q, "mergeTx")' /\ task'[q].lid = l) =>
                             mem'[l] # None \/ mem'[PnOf[l]] # None
      BY <1>6 DEF MergesKnown
    <3>1. CASE q = p
      BY <2>2, <2>3, <3>1
    <3>2. CASE q # p
      <4>1. /\ Merging(q, l)' <=> Merging(q, l)
            /\ (At(q, "mergeTx")' /\ task'[q].lid = l) <=> (At(q, "mergeTx") /\ task[q].lid = l)
        BY <1>3, <3>2 DEF At
      <4>2. mem[l] # None \/ mem[PnOf[l]] # None => mem'[l] # None \/ mem'[PnOf[l]] # None
        <5>1. CASE l = lid
          BY <2>1, <5>1
        <5>2. CASE l # lid
          BY <1>1, <2>1, <5>2, Addresses
        <5>3. QED BY <5>1, <5>2
      <4>3. QED BY <4>1, <4>2 DEF Saved, MergesKnown
    <3>3. QED BY <3>1, <3>2
  <2>8. QED BY <2>5, <2>6, <2>7 DEF Saved
<1>7. QED BY <1>5, <1>6

LEMMA MergerSaved ==
  ASSUME TypeOK, Saved, NEW p \in Goroutines, Merger(p)
  PROVE  Saved'
<1> DEFINE t == task[p]
           merge(todo) == [step |-> "merge", todo |-> todo]
           tx(lid) == [step |-> "mergeTx", lid |-> lid, todo |-> t.todo \ {lid},
                       conv |-> Merged(mem[lid], mem[PnOf[lid]])]
<1>1. \A todo : merge(todo).step = "merge"
  OBVIOUS
<1>2. CASE StartMerge(p)
  <2> DEFINE new == merge({lid \in Lids : mem[lid] # None})
  <2>1. Do(p, new) /\ UNCHANGED <<mem, db, reset>> /\ (t = Idle \/ t.step = "collect") /\ new.step = "merge"
    BY <1>2 DEF StartMerge, Free, At
  <2> HIDE DEF new
  <2>2. QED BY <2>1, SavedElsewhere
<1>3. CASE NextMerge(p)
  <2>1. t # Idle /\ t.step = "merge" /\ UNCHANGED <<mem, db, reset>>
    BY <1>3 DEF NextMerge, At
  <2>2. \/ Do(p, Idle) \/ \E lid \in t.todo : Do(p, merge(t.todo \ {lid}))
        \/ \E lid \in t.todo : mem[lid] # None /\ Do(p, tx(lid))
    BY <1>3 DEF NextMerge
  <2>3. CASE Do(p, Idle)
    BY <2>1, <2>3, SavedElsewhere
  <2>4. ASSUME NEW lid \in t.todo, Do(p, merge(t.todo \ {lid})) PROVE Saved'
    <3> HIDE DEF merge
    <3>1. QED BY <1>1, <2>1, <2>4, SavedElsewhere
  <2>5. ASSUME NEW lid \in t.todo, mem[lid] # None, Do(p, tx(lid)) PROVE Saved'
    <3>1. PICK new : new = tx(lid)
      OBVIOUS
    <3>2. new.step = "mergeTx" /\ new.lid = lid
      BY <3>1
    <3>3. task'[p] = new /\ \A q \in Goroutines : q # p => task'[q] = task[q]
      BY <2>5, <3>1, DoFacts
    <3>4. /\ ~At(p, "mergeList") /\ ~At(p, "mergeList")'
          /\ \A c : ~Carries(p, c) /\ ~Carries(p, c)'
      BY <2>1, <3>2, <3>3 DEF At, Carries
    <3>5. QED BY <2>1, <2>5, <3>2, <3>3, <3>4, SavedStep
  <2>6. QED BY <2>2, <2>3, <2>4, <2>5
<1>4. ASSUME MergeTx(p) \/ MergeList(p)
      PROVE  /\ t \in [step: {"mergeTx", "mergeList"}, lid: Lids, todo: SUBSET Lids, conv: Conversation]
             /\ t # Idle
  BY <1>4, Remembers DEF MergeTx, MergeList, At
<1>5. CASE MergeTx(p)
  <2> DEFINE new == [t EXCEPT !.step = "mergeList"]
  <2>1. PICK lid \in Lids, conv \in Conversation : lid = t.lid /\ conv = t.conv
    BY <1>4, <1>5
  <2>2. t.step = "mergeTx" /\ UNCHANGED <<mem, reset>>
    BY <1>5 DEF MergeTx, At
  <2>3. CASE Do(p, merge(t.todo)) /\ UNCHANGED db
    <3> HIDE DEF merge
    <3>1. QED BY <1>1, <2>2, <2>3, SavedElsewhere
  <2>4. CASE /\ db' = [db EXCEPT ![t.lid] = None, ![PnOf[t.lid]] = t.conv]
             /\ task' = [task EXCEPT ![p].step = "mergeList"]
    <3>1. /\ new \in [step: {"mergeTx", "mergeList"}, lid: Lids, todo: SUBSET Lids, conv: Conversation]
          /\ new.step = "mergeList" /\ new.lid = lid
      BY <1>4, <1>5, <2>1
    <3>2. new # Idle
      BY <3>1, Markers DEF Busy
    <3>3. Do(p, new)
      BY <2>4 DEF Do
    <3> HIDE DEF new
    <3>4. task'[p] = new /\ \A q \in Goroutines : q # p => task'[q] = task[q]
      BY <3>3, DoFacts
    <3>5. Merging(p, lid)'
      BY <3>1, <3>2, <3>4 DEF Merging, At
    <3>6. db' = [db EXCEPT ![lid] = None, ![PnOf[lid]] = conv]
      BY <2>1, <2>4
    <3>7. QED BY <1>4, <1>5, <2>1, <2>2, <3>4, <3>5, <3>6, MergeSaved
  <2>5. QED BY <1>5, <2>3, <2>4 DEF MergeTx
<1>6. CASE MergeList(p)
  <2>1. PICK lid \in Lids, next \in {merge(t.todo)} : lid = t.lid /\ next = merge(t.todo)
    BY <1>4, <1>6
  <2>2. PICK pn \in Chats : pn = PnOf[lid] /\ pn # lid /\ lid \in Chats
    BY <2>1, Addresses
  <2>3. t.step = "mergeList" /\ t # Idle /\ UNCHANGED <<db, reset>> /\ next.step = "merge"
    BY <1>1, <1>6, <2>1 DEF MergeList, At
  <2>4. mem[lid] # None \/ mem[pn] # None
    BY <2>1, <2>2, <2>3 DEF Saved, MergesKnown, Merging, At
  <2>5. CASE mem[lid] = None
    <3>1. Do(p, next) /\ UNCHANGED mem
      BY <1>6, <2>1, <2>5 DEF MergeList
    <3>2. task'[p] = next /\ \A q \in Goroutines : q # p => task'[q] = task[q]
      BY <3>1, DoFacts
    <3>3. /\ mem[pn] \in Conversation /\ mem' = [mem EXCEPT ![lid] = None, ![pn] = mem[pn]]
          /\ \A c : ~Carries(p, c)'
      BY <2>2, <2>3, <2>4, <2>5, <3>1, <3>2, MemTypes DEF Carries
    <3>4. QED BY <2>1, <2>2, <2>3, <3>2, <3>3, MergeSaved
  <2>6. CASE mem[lid] # None
    <3>1. PICK conv \in Conversation : conv = Merged(mem[lid], mem[pn])
      BY <2>2, <2>6, MemTypes, MergedType
    <3>2. /\ mem' = [mem EXCEPT ![lid] = None, ![pn] = conv]
          /\ Do(p, next) \/ Do(p, Saving(<<Copy(pn)>>, next))
      BY <1>6, <2>1, <2>2, <2>6, <3>1 DEF MergeList
    <3>3. PICK new : Do(p, new) /\ (new = next \/ new = Saving(<<Copy(pn)>>, next))
      BY <3>2
    <3>4. task'[p] = new /\ \A q \in Goroutines : q # p => task'[q] = task[q]
      BY <3>3, DoFacts
    <3>5. CASE new = next
      <4>1. \A c : ~Carries(p, c)'
        BY <2>3, <3>4, <3>5 DEF Carries
      <4>2. QED BY <2>1, <2>2, <2>3, <3>2, <3>4, <3>5, <4>1, MergeSaved
    <3>6. CASE new = Saving(<<Copy(pn)>>, next)
      <4>1. new.step = "save" /\ new.copies = <<Copy(pn)>> /\ Copy(pn).chat = pn
        BY <3>6 DEF Saving, Copy
      <4>2. \A c : Carries(p, c)' => c = pn
        BY <3>4, <4>1 DEF Carries
      <4>3. QED BY <2>1, <2>2, <2>3, <3>2, <3>4, <4>1, <4>2, MergeSaved
    <3>7. QED BY <3>3, <3>5, <3>6
  <2>7. QED BY <2>5, <2>6
<1>7. QED BY <1>2, <1>3, <1>5, <1>6 DEF Merger

LEMMA NoTaskSaved ==
  ASSUME TypeOK, Saved, UNCHANGED <<mem, db, task, reset>>
  PROVE  Saved'
<1>1. \A p, c : (Carries(p, c)' <=> Carries(p, c)) /\ (Merging(p, c)' <=> Merging(p, c))
  BY DEF Carries, Merging, At
<1>2. \A p : At(p, "mergeTx")' <=> At(p, "mergeTx")
  BY DEF At
<1>3. ListedIsSaved' /\ OnlyListed' /\ MergesKnown'
  BY <1>1, <1>2 DEF Saved, ListedIsSaved, OnlyListed, MergesKnown
<1>4. QED BY <1>3 DEF Saved

LEMMA ResetSaved ==
  ASSUME CalmResets, TypeOK, Saved, ResetTables \/ ResetList \/ Restart
  PROVE  Saved'
<1>1. CASE ResetTables \/ ResetList
  <2>1. Resets /\ Lids = {} /\ reset' # "no"
    BY <1>1 DEF ResetTables, ResetList, Saved, CalmResets
  <2>2. ListedIsSaved'
    BY <1>1 DEF ResetTables, ResetList, ListedIsSaved
  <2>3. QED BY <2>1, <2>2 DEF Saved, OnlyListed, MergesKnown
<1>2. CASE Restart
  <2>1. mem' = db' /\ reset' = "no" /\ \A p \in Goroutines : task'[p] = Idle
    BY <1>2 DEF Restart
  <2>2. \A p \in Goroutines : \A c : ~Carries(p, c)' /\ ~Merging(p, c)' /\ ~At(p, "mergeTx")'
    BY <2>1 DEF Carries, Merging, At
  <2>3. QED BY <2>1, <2>2 DEF Saved, ListedIsSaved, OnlyListed, MergesKnown
<1>3. QED BY <1>1, <1>2

LEMMA StepSaved ==
  ASSUME SavesSucceed, CalmResets, Typed, Saved, [Next]_vars
  PROVE  Saved'
<1>0. TypeOK
  BY DEF Typed
<1>1. CASE Messages \/ History \/ Contacts \/ Reader \/ AppState
  BY <1>0, <1>1, HandlersSaved, HistorySaved
<1>2. ASSUME NEW p \in Goroutines, Upsert(p) \/ Merger(p) PROVE Saved'
  BY <1>0, <1>2, UpsertSaved, MergerSaved
<1>3. CASE \/ \E c \in Opened : Open(c) \/ \E m \in Sends : Send(m, c)
           \/ \E lid \in Lids : LearnMapping(lid)
           \/ UNCHANGED vars
  <2>1. UNCHANGED <<mem, db, task, reset>>
    BY <1>3 DEF Open, Send, LearnMapping, vars
  <2>2. QED BY <1>0, <2>1, NoTaskSaved
<1>4. CASE ResetTables \/ ResetList \/ Restart
  BY <1>0, <1>4, ResetSaved
<1>5. QED BY <1>1, <1>2, <1>3, <1>4 DEF Next

LEMMA InitSaved == Init => Saved
<1> SUFFICES ASSUME Init PROVE Saved
  OBVIOUS
<1>1. /\ mem = [c \in Chats |-> None] /\ db = mem /\ reset = "no"
      /\ \A p \in Goroutines : task[p] = Idle
  BY DEF Init
<1>2. \A p \in Goroutines : \A c : ~Carries(p, c) /\ ~Merging(p, c) /\ ~At(p, "mergeTx")
  BY <1>1 DEF Carries, Merging, At
<1>3. QED BY <1>1, <1>2 DEF Saved, ListedIsSaved, OnlyListed, MergesKnown

(* Once the handlers are done the table has every chat the list shows, and *)
(* no other but for LID chats that were merged, however handlers, merges,  *)
(* kills and /reset interleave: between changing the list and writing the  *)
(* table somebody always holds the copy that will be written.              *)
THEOREM ListSaved ==
  ASSUME SavesSucceed, CalmResets
  PROVE  Spec => []ListIsSaved
<1> DEFINE Inv == Typed /\ Saved
<1>1. Init => Inv
  BY InitTyped, InitSaved
<1>2. Inv /\ [Next]_vars => Inv'
  BY StepTyped, StepSaved
<1>3. Inv => ListIsSaved
  <2> SUFFICES ASSUME Inv, Quiet PROVE ListIsSaved
    BY DEF ListIsSaved
  <2>1. reset # "tables" /\ \A p \in Goroutines : \A c : ~Carries(p, c) /\ ~Merging(p, c)
    BY DEF Quiet, Carries, Merging, At
  <2>2. QED BY <2>1 DEF ListIsSaved, Saved, ListedIsSaved, OnlyListed
<1>4. QED BY <1>1, <1>2, <1>3, PTL DEF Spec

(* Without LID chats they are the same, with kills and /reset at any time. *)
THEOREM SameSaved ==
  ASSUME SavesSucceed, Lids = {}
  PROVE  Spec => []SameChatsSaved
<1>1. CalmResets
  BY DEF CalmResets
<1>2. ListIsSaved => SameChatsSaved
  BY DEF ListIsSaved, SameChatsSaved
<1>3. QED BY <1>1, <1>2, ListSaved, PTL
------------------------------------------------------------------------------
(* UnreadMatchesArrivals, for arrivals and merges alone: nothing is read   *)
(* or deleted, the program is neither killed nor reset, messages can be    *)
(* stored, history brings messages of ours, and 16 bits count every one.   *)
ArrivalsOnly ==
  /\ Undisturbed /\ "messages" \notin DbErrors
  /\ "reader" \notin Goroutines /\ "appState" \notin Goroutines
  /\ \A batch \in Batches : \A i \in DOMAIN batch :
       batch[i].unread = 0 /\ \A j \in DOMAIN batch[i].msgs : batch[i].msgs[j].fromMe
  /\ IsFiniteSet(Ids) /\ Cardinality(Ids) <= MaxUint16

LEMMA CountFacts ==
  ASSUME ArrivalsOnly, NEW S, S \subseteq Ids
  PROVE  /\ IsFiniteSet(S) /\ Cardinality(S) \in Nat /\ Cardinality(S) <= MaxUint16
         /\ \A x \in S : /\ Cardinality(S \ {x}) \in Nat
                         /\ Cardinality(S) = Cardinality(S \ {x}) + 1
<1>1. IsFiniteSet(S) /\ Cardinality(S) <= Cardinality(Ids) /\ Cardinality(S) \in Nat /\ Cardinality(Ids) \in Nat
  BY FS_Subset, FS_CardinalityType DEF ArrivalsOnly
<1>2. ASSUME NEW x \in S PROVE Cardinality(S \ {x}) \in Nat /\ Cardinality(S) = Cardinality(S \ {x}) + 1
  <2>1. IsFiniteSet(S \ {x}) /\ Cardinality(S \ {x}) = Cardinality(S) - 1
    BY <1>1, FS_RemoveElement
  <2>2. QED BY <1>1, <2>1, FS_CardinalityType
<1>3. QED BY <1>1, <1>2, Counts DEF ArrivalsOnly

LEMMA UnreadTypes ==
  ASSUME TypeOK
  PROVE  \A c \in Chats : Unread(c) \in Nat
BY MemTypes, Counts DEF Unread, Conversation

(* A person has a chat, and with a LID two. *)
LEMMA TwoChats ==
  /\ \A lid \in Lids : ListUnread(PnOf[lid]) = Unread(PnOf[lid]) + Unread(lid)
  /\ \A who \in Chats : (\A lid \in Lids : PnOf[lid] # who) => ListUnread(who) = Unread(who) + 0
<1>1. ASSUME NEW lid \in Lids PROVE ListUnread(PnOf[lid]) = Unread(PnOf[lid]) + Unread(lid)
  <2>1. (CHOOSE l \in Lids : PnOf[l] = PnOf[lid]) = lid
    BY Addresses
  <2>2. QED BY <2>1 DEF ListUnread
<1>2. QED BY <1>1 DEF ListUnread

LEMMA TwoChatsNext ==
  /\ \A lid \in Lids : ListUnread(PnOf[lid])' = Unread(PnOf[lid])' + Unread(lid)'
  /\ \A who \in Chats : (\A lid \in Lids : PnOf[lid] # who) => ListUnread(who)' = Unread(who)' + 0
<1>1. ASSUME NEW lid \in Lids PROVE ListUnread(PnOf[lid])' = Unread(PnOf[lid])' + Unread(lid)'
  <2>1. (CHOOSE l \in Lids : PnOf[l] = PnOf[lid]) = lid
    BY Addresses
  <2>2. QED BY <2>1 DEF ListUnread
<1>2. QED BY <1>1 DEF ListUnread

LEMMA ListedUnread ==
  ASSUME TypeOK, NEW c \in Chats, NEW m \in Wire, m.src.fromMe \in BOOLEAN
  PROVE  /\ m.src.fromMe => Listed(mem[c], m).unread = Unread(c)
         /\ ~m.src.fromMe /\ Unread(c) < MaxUint16 => Listed(mem[c], m).unread = Unread(c) + 1
<1> DEFINE new == [time |-> m.ts, preview |-> m.id, unread |-> 0, pinned |-> FALSE, archived |-> FALSE]
           old == IF mem[c] = None THEN new ELSE [mem[c] EXCEPT !.time = m.ts, !.preview = m.id]
<1>1. m.ts \in Nat /\ m.id \in Ids
  BY Markers
<1>2. new \in Conversation /\ new.unread = 0
  BY <1>1, Counts DEF Conversation
<1>3. mem[c] # None => mem[c] \in Conversation
  BY MemTypes
<1>4. old \in Conversation /\ old.unread = Unread(c)
  <2> HIDE DEF new
  <2>1. QED BY <1>1, <1>2, <1>3 DEF Conversation, Unread
<1>5. Listed(mem[c], m) = IF m.src.fromMe THEN old
                          ELSE [old EXCEPT !.unread = (@ + 1) % (MaxUint16 + 1)]
  BY DEF Listed
<1> HIDE DEF old
<1>6. ~m.src.fromMe => Listed(mem[c], m).unread = (Unread(c) + 1) % (MaxUint16 + 1)
  BY <1>4, <1>5 DEF Conversation
<1>7. Unread(c) < MaxUint16 => (Unread(c) + 1) % (MaxUint16 + 1) = Unread(c) + 1
  BY Counts, UnreadTypes
<1>8. QED BY <1>4, <1>5, <1>6, <1>7

LEMMA MergedUnread ==
  ASSUME TypeOK, NEW lid \in Lids, mem[lid] # None,
         Unread(PnOf[lid]) + Unread(lid) <= MaxUint16
  PROVE  Merged(mem[lid], mem[PnOf[lid]]).unread = Unread(PnOf[lid]) + Unread(lid)
<1> DEFINE pn == PnOf[lid]
<1>1. lid \in Chats /\ pn \in Chats /\ Unread(pn) \in Nat /\ Unread(lid) \in Nat
  BY Addresses, UnreadTypes
<1>2. CASE mem[pn] = None
  BY <1>1, <1>2 DEF Merged, Unread
<1>3. CASE mem[pn] # None
  <2>1. /\ mem[pn] \in Conversation /\ mem[lid] \in Conversation
        /\ Unread(pn) = mem[pn].unread /\ Unread(lid) = mem[lid].unread
    BY <1>1, <1>3, MemTypes DEF Unread
  <2>2. ~(mem[pn].unread + mem[lid].unread > MaxUint16)
    BY <1>1, <2>1, Counts
  <2>3. Merged(mem[lid], mem[pn]) =
          [(IF mem[pn].time >= mem[lid].time THEN mem[pn] ELSE mem[lid]) EXCEPT
             !.unread = mem[pn].unread + mem[lid].unread,
             !.pinned = mem[pn].pinned \/ mem[lid].pinned,
             !.archived = mem[pn].archived /\ mem[lid].archived]
    BY <1>3, <2>2 DEF Merged
  <2>4. QED BY <2>1, <2>3 DEF Conversation
<1>4. QED BY <1>2, <1>3

LEMMA ListUnreadKept ==
  ASSUME \A c \in Chats : Unread(c)' = Unread(c), NEW who \in Chats
  PROVE  ListUnread(who)' = ListUnread(who)
<1>1. CASE \E lid \in Lids : PnOf[lid] = who
  BY <1>1, TwoChats, TwoChatsNext, Addresses
<1>2. CASE \A lid \in Lids : PnOf[lid] # who
  BY <1>2, TwoChats, TwoChatsNext
<1>3. QED BY <1>1, <1>2

(* A step that neither lists a message nor receives one. *)
LEMMA CountedKept ==
  ASSUME Counted,
         \A c \in Chats : Unread(c)' = Unread(c),
         \A id \in Ids : FromOthers(id)' => FromOthers(id),
         \A id \in Ids : rows[id] # NoRow =>
           /\ rows'[id] # NoRow /\ rows'[id].fromMe = rows[id].fromMe
           /\ Identity(rows'[id].chat) = Identity(rows[id].chat),
         At("messages", "list")' => At("messages", "list"),
         At("messages", "list") => /\ task'["messages"] = task["messages"]
                                   /\ task["messages"].msg.id \in Ids
  PROVE  Counted'
<1>1. \A id \in Ids : FromOthers(id)' <=> FromOthers(id)
  BY DEF FromOthers
<1>2. \A id \in Ids : FromOthers(id) => Identity(rows'[id].chat) = Identity(rows[id].chat)
  BY DEF FromOthers
<1>3. Counting' = Counting
  BY DEF Counting, At
<1>4. ASSUME NEW who \in Groups \cup Pns
      PROVE  ListUnread(who)' = Cardinality(Arrived(who)' \ Counting')
  <2>1. ListUnread(who)' = ListUnread(who)
    BY Addresses, ListUnreadKept
  <2>2. Arrived(who)' = Arrived(who)
    BY <1>1, <1>2 DEF Arrived, FromOthers
  <2>3. QED BY <1>3, <2>1, <2>2 DEF Counted
<1>5. ASSUME At("messages", "list")'
      PROVE  LET t == task'["messages"] IN
             /\ rows'[t.msg.id] # NoRow /\ rows'[t.msg.id].fromMe = t.msg.src.fromMe
             /\ Identity(rows'[t.msg.id].chat) = Identity(t.chat)
  BY <1>5 DEF Counted, ListedIsStored
<1>6. QED BY <1>4, <1>5 DEF Counted, ListedIsStored

LEMMA ListIds ==
  ASSUME TypeOK, At("messages", "list")
  PROVE  /\ task["messages"] \in [step: {"store", "list"}, msg: Wire, chat: Chats]
         /\ task["messages"].msg.id \in Ids /\ task["messages"].msg.src.fromMe \in BOOLEAN
<1>1. task["messages"] \in [step: {"store", "list"}, msg: Wire, chat: Chats]
  BY Remembers DEF At
<1>2. QED BY <1>1, Markers DEF Sources

LEMMA ListIdsNext ==
  ASSUME TypeOK', At("messages", "list")'
  PROVE  LET t == task'["messages"] IN
         /\ t \in [step: {"store", "list"}, msg: Wire, chat: Chats]
         /\ t.msg.id \in Ids /\ t.msg.ts \in Nat /\ t.msg.src.fromMe \in BOOLEAN
<1>1. task'["messages"] \in Busy /\ task'["messages"].step = "list"
  BY DEF TypeOK, At, Tasks
<1>2. task'["messages"] \in [step: {"store", "list"}, msg: Wire, chat: Chats]
  BY <1>1 DEF Busy, Merges
<1>3. QED BY <1>2, Markers DEF Sources

(* Goroutine p is not one with a message, and changes no count. *)
LEMMA CountedElsewhere ==
  ASSUME TypeOK, Counted, NEW p \in Goroutines, NEW t, Do(p, t),
         task[p] = Idle \/ task[p].step # "list", t = Idle \/ t.step # "list",
         UNCHANGED rows, \A c \in Chats : Unread(c)' = Unread(c)
  PROVE  Counted'
<1>1. task'[p] = t /\ \A q \in Goroutines : q # p => task'[q] = task[q]
  BY DoFacts
<1>2. /\ At("messages", "list")' => At("messages", "list")
      /\ At("messages", "list") => task'["messages"] = task["messages"]
  BY <1>1 DEF At
<1>3. QED BY <1>2, ListIds, CountedKept DEF FromOthers

LEMMA UnreadSame ==
  ASSUME UNCHANGED mem
  PROVE  \A c \in Chats : Unread(c)' = Unread(c)
BY DEF Unread

LEMMA MessagesCounted ==
  ASSUME ArrivalsOnly, TypeOK, Counted, Messages
  PROVE  Counted'
<1>0. "messages" \in Goroutines
  BY DEF Messages, Incoming, StoreIncoming, IncomingListed, Free, At
<1> DEFINE t == task["messages"]
<1>1. ASSUME NEW m \in Wire, Incoming(m) PROVE Counted'
  <2> DEFINE new == [step |-> "store", msg |-> m, chat |-> CanonicalChat(known, m.src)]
  <2>1. Do("messages", new) /\ new.step = "store" /\ UNCHANGED <<rows, mem>> /\ t = Idle
    BY <1>1 DEF Incoming, Free
  <2> HIDE DEF new
  <2>2. QED BY <1>0, <2>1, UnreadSame, CountedElsewhere
<1>2. CASE StoreIncoming
  <2> DEFINE next == [t EXCEPT !.step = "list"]
  <2>1. t \in [step: {"store", "list"}, msg: Wire, chat: Chats] /\ t.step = "store" /\ t # Idle
    BY <1>2, Remembers DEF StoreIncoming, At
  <2>2. PICK id \in Ids, chat \in Chats, fromMe \in BOOLEAN, row \in Stored :
          /\ id = t.msg.id /\ chat = t.chat /\ fromMe = t.msg.src.fromMe
          /\ row = [chat |-> t.chat, ts |-> t.msg.ts, fromMe |-> t.msg.src.fromMe]
    BY <2>1, Markers DEF Stored, Sources
  <2>3. /\ UNCHANGED mem /\ Insert(id, row)
        /\ Do("messages", IF rows[id] = NoRow THEN next ELSE Idle)
    BY <1>2, <2>2 DEF StoreIncoming, ArrivalsOnly
  <2>4. CASE rows[id] # NoRow
    <3>1. UNCHANGED rows /\ Do("messages", Idle)
      BY <2>3, <2>4 DEF Insert
    <3>2. QED BY <1>0, <2>1, <2>3, <3>1, UnreadSame, CountedElsewhere
  <2>5. CASE rows[id] = NoRow
    <3>1. task'["messages"] = next
      BY <1>0, <2>3, <2>5, DoFacts
    <3>2. /\ next \in [step: {"store", "list"}, msg: Wire, chat: Chats]
          /\ next.step = "list" /\ next.msg = t.msg /\ next.chat = chat
      BY <2>1, <2>2
    <3>3. next # Idle
      BY <3>2, Markers DEF Busy
    <3>4. At("messages", "list")' /\ task'["messages"].msg = t.msg /\ task'["messages"].chat = chat
      BY <1>0, <3>1, <3>2, <3>3 DEF At
    <3>5. rows'[id] = row /\ row # NoRow /\ \A i \in Ids : i # id => rows'[i] = rows[i]
      BY <2>3, <2>5, MemTypes, Markers DEF Insert
    <3>6. Counting = {} /\ Counting' = {id}
      BY <2>1, <2>2, <3>4 DEF Counting, At
    <3>7. ASSUME NEW who \in Groups \cup Pns
          PROVE  ListUnread(who)' = Cardinality(Arrived(who)' \ Counting')
      <4>1. ListUnread(who)' = ListUnread(who)
        BY <2>3, Addresses, UnreadSame, ListUnreadKept
      <4>2. Arrived(who)' \ {id} = Arrived(who) \ {}
        BY <2>5, <3>5 DEF Arrived, FromOthers
      <4>3. QED BY <3>6, <4>1, <4>2 DEF Counted
    <3>8. QED BY <2>2, <3>4, <3>5, <3>7 DEF Counted, ListedIsStored
  <2>6. QED BY <2>4, <2>5
<1>3. CASE IncomingListed
  <2>1. /\ t \in [step: {"store", "list"}, msg: Wire, chat: Chats]
        /\ t.msg.id \in Ids /\ t.msg.src.fromMe \in BOOLEAN /\ At("messages", "list")
    BY <1>3, ListIds DEF IncomingListed
  <2>2. PICK id \in Ids, chat \in Chats, m \in Wire, person \in Groups \cup Pns :
          /\ id = t.msg.id /\ chat = t.chat /\ m = t.msg
          /\ m.src.fromMe \in BOOLEAN /\ person = Identity(chat)
          /\ chat = person \/ (chat \in Lids /\ person = PnOf[chat])
    BY <2>1, Addresses DEF Identity, Chats, Users
  <2>3. /\ rows[id] # NoRow /\ rows[id].fromMe = m.src.fromMe /\ Identity(rows[id].chat) = person
    <3>1. /\ rows[t.msg.id] # NoRow /\ rows[t.msg.id].fromMe = t.msg.src.fromMe
          /\ Identity(rows[t.msg.id].chat) = Identity(t.chat)
      BY <2>1 DEF Counted, ListedIsStored
    <3> HIDE DEF t
    <3>2. QED BY <2>2, <3>1
  <2>4. /\ mem' = [mem EXCEPT ![chat] = Listed(mem[chat], m)] /\ UNCHANGED rows
        /\ Do("messages", Saving(<<Copy(chat)>>, Idle))
    BY <1>3, <2>2 DEF IncomingListed, Save
  <2>5. PICK conv \in Conversation : conv = Listed(mem[chat], m)
    BY <2>2, ListedType, MemTypes
  <2>6. mem'[chat] = conv /\ \A c \in Chats : c # chat => mem'[c] = mem[c]
    BY <2>4, <2>5, MemTypes
  <2>7. Unread(chat)' = conv.unread /\ \A c \in Chats : c # chat => Unread(c)' = Unread(c)
    BY <2>5, <2>6, Markers DEF Unread
  <2>8. ~At("messages", "list")'
    BY <1>0, <2>4, DoFacts DEF At, Saving
  <2>9. Counting = {id} /\ Counting' = {}
    BY <2>1, <2>2, <2>8 DEF Counting
  <2>10. \A who : Arrived(who)' = Arrived(who)
    BY <2>4 DEF Arrived, FromOthers
  <2>11. \A who : Arrived(who) \subseteq Ids /\ (id \in Arrived(who) <=> ~m.src.fromMe /\ who = person)
    BY <2>3 DEF Arrived, FromOthers
  <2>12. \A who \in Groups \cup Pns : ListUnread(who) = Cardinality(Arrived(who) \ {id})
    BY <2>9 DEF Counted
  <2>13. CASE m.src.fromMe
    <3>1. \A c \in Chats : Unread(c)' = Unread(c)
      BY <2>2, <2>5, <2>7, <2>13, ListedUnread
    <3>2. ASSUME NEW who \in Groups \cup Pns
          PROVE  ListUnread(who)' = Cardinality(Arrived(who)' \ Counting')
      <4>1. Arrived(who) \ {id} = Arrived(who)' \ Counting'
        BY <2>9, <2>10, <2>11, <2>13
      <4>2. QED BY <2>12, <3>1, <4>1, Addresses, ListUnreadKept
    <3>3. QED BY <2>8, <3>2 DEF Counted, ListedIsStored
  <2>14. CASE ~m.src.fromMe
    <3>1. /\ Cardinality(Arrived(person) \ {id}) \in Nat
          /\ Cardinality(Arrived(person)) = Cardinality(Arrived(person) \ {id}) + 1
          /\ Cardinality(Arrived(person)) <= MaxUint16
      BY <2>11, <2>14, CountFacts
    <3>2. /\ Unread(chat) \in Nat /\ Unread(chat) <= ListUnread(person)
          /\ Unread(chat)' = Unread(chat) + 1 => ListUnread(person)' = ListUnread(person) + 1
      <4>1. /\ \A c \in Chats : Unread(c) \in Nat
            /\ \A lid \in Lids : lid \in Chats /\ PnOf[lid] \in Chats /\ PnOf[lid] # lid
            /\ person \in Chats /\ \A lid \in Lids : PnOf[lid] = person /\ chat \in Lids => lid = chat
        BY <2>2, UnreadTypes, Addresses
      <4>2. CASE \E lid \in Lids : PnOf[lid] = person
        <5>1. PICK lid \in Lids : PnOf[lid] = person
          BY <4>2
        <5>2. /\ ListUnread(person) = Unread(person) + Unread(lid)
              /\ ListUnread(person)' = Unread(person)' + Unread(lid)'
          BY <5>1, TwoChats, TwoChatsNext
        <5>3. chat = person \/ chat = lid
          BY <2>2, <4>1, <5>1
        <5>4. QED BY <2>7, <4>1, <5>1, <5>2, <5>3
      <4>3. CASE \A lid \in Lids : PnOf[lid] # person
        <5>1. chat = person
          BY <2>2, <4>3
        <5>2. ListUnread(person) = Unread(person) + 0 /\ ListUnread(person)' = Unread(person)' + 0
          BY <4>1, <4>3, TwoChats, TwoChatsNext
        <5>3. QED BY <4>1, <5>1, <5>2
      <4>4. QED BY <4>2, <4>3
    <3>3. conv.unread = Unread(chat) + 1
      <4>1. ListUnread(person) = Cardinality(Arrived(person) \ {id})
        BY <2>2, <2>12
      <4>2. Unread(chat) < MaxUint16
        BY <3>1, <3>2, <4>1, Counts
      <4>3. QED BY <2>2, <2>5, <2>14, <4>2, ListedUnread
    <3>4. ASSUME NEW who \in Groups \cup Pns
          PROVE  ListUnread(who)' = Cardinality(Arrived(who)' \ Counting')
      <4>1. CASE who = person
        BY <2>7, <2>9, <2>10, <2>12, <3>1, <3>2, <3>3, <4>1
      <4>2. CASE who # person
        <5>1. Arrived(who) \ {id} = Arrived(who)' \ Counting'
          BY <2>9, <2>10, <2>11, <4>2
        <5>2. ListUnread(who)' = ListUnread(who)
          <6>1. who \in Chats /\ who \notin Lids /\ chat # who
            BY <2>2, <4>2, Addresses
          <6>2. \A lid \in Lids : PnOf[lid] = who => lid # chat /\ lid \in Chats
            BY <2>2, <4>2, Addresses
          <6>3. CASE \E lid \in Lids : PnOf[lid] = who
            BY <2>7, <6>1, <6>2, <6>3, TwoChats, TwoChatsNext
          <6>4. CASE \A lid \in Lids : PnOf[lid] # who
            BY <2>7, <6>1, <6>4, TwoChats, TwoChatsNext
          <6>5. QED BY <6>3, <6>4
        <5>3. QED BY <2>12, <5>1, <5>2
      <4>3. QED BY <4>1, <4>2
    <3>5. QED BY <2>8, <3>4 DEF Counted, ListedIsStored
  <2>15. QED BY <2>13, <2>14
<1>4. QED BY <1>1, <1>2, <1>3 DEF Messages

(* A message of ours is stored. *)
LEMMA InsertCounted ==
  ASSUME TypeOK, Counted, NEW i \in Ids, NEW row \in Stored, row.fromMe,
         Insert(i, row), UNCHANGED mem,
         At("messages", "list")' => At("messages", "list"),
         At("messages", "list") => task'["messages"] = task["messages"]
  PROVE  Counted'
<1>1. \A id \in Ids : rows[id] # NoRow => rows'[id] = rows[id]
  BY MemTypes DEF Insert
<1>2. \A id \in Ids : rows'[id] = rows[id] \/ rows'[id] = row
  BY MemTypes DEF Insert
<1>3. \A id \in Ids : FromOthers(id)' => FromOthers(id)
  BY <1>2 DEF FromOthers
<1>4. QED BY <1>1, <1>3, UnreadSame, ListIds, CountedKept

LEMMA RefreshedIsLarger ==
  ASSUME NEW conv \in Conversation, NEW h \in HistoryConversation
  PROVE  Refreshed(conv, h).unread = Larger(conv.unread, h.unread)
<1> DEFINE new == FromHistory(h)
           dated == IF new.time > conv.time
                    THEN [conv EXCEPT !.time = new.time, !.preview = new.preview] ELSE conv
<1> HIDE DEF new
<1>1. dated \in [time: {dated.time}, preview: {dated.preview}, unread: {conv.unread},
                 pinned: BOOLEAN, archived: BOOLEAN]
  BY DEF Conversation
<1>2. Refreshed(conv, h) = [dated EXCEPT !.unread = Larger(@, h.unread), !.pinned = h.pinned,
                                         !.archived = h.archived]
  BY DEF Refreshed, dated, new
<1> HIDE DEF dated
<1>3. QED BY <1>1, <1>2

LEMMA HistoryCounted ==
  ASSUME ArrivalsOnly, Typed, Counted, History
  PROVE  Counted'
<1>0. TypeOK /\ "history" \in Goroutines
  BY DEF Typed, History, HistorySync, HistoryMessage, HistoryListed, Free, At
<1> DEFINE t == task["history"]
<1>1. ASSUME NEW convs, NEW copies, NEW new, new = HistoryTask(convs, copies) PROVE new.step # "list"
  BY <1>1, HistoryTaskFacts DEF Saving
<1>2. ASSUME NEW b \in Batches, HistorySync(b) PROVE Counted'
  <2>1. PICK new : new = HistoryTask(b, <<>>)
    OBVIOUS
  <2>2. Do("history", new) /\ t = Idle /\ UNCHANGED <<rows, mem>>
    BY <1>2, <2>1 DEF HistorySync, Free
  <2>3. new.step # "list"
    BY <1>1, <2>1
  <2>4. QED BY <1>0, <2>2, <2>3, UnreadSame, CountedElsewhere
<1>3. CASE HistoryMessage
  <2> DEFINE m == Head(t.msgs)  h == Head(t.convs)
  <2>1. At("history", "history") /\ t.msgs # <<>> /\ UNCHANGED mem
    BY <1>3 DEF HistoryMessage
  <2>2. m \in [id: Ids, ts: Nat, fromMe: BOOLEAN] /\ t.chat \in Chats
    BY <2>1, AtHistory
  <2>3. m.fromMe
    <3>1. PICK b \in Batches : \E i \in DOMAIN b : h = b[i]
      BY <2>1, AtHistory
    <3>2. PICK j \in DOMAIN h.msgs : m = h.msgs[j]
      BY <2>1, AtHistory
    <3>3. QED BY <3>1, <3>2 DEF ArrivalsOnly
  <2>4. PICK i \in Ids, row \in Stored :
          i = m.id /\ row = [chat |-> t.chat, ts |-> m.ts, fromMe |-> m.fromMe]
    BY <2>2 DEF Stored
  <2>5. row.fromMe /\ Insert(i, row)
    BY <1>3, <2>3, <2>4 DEF HistoryMessage, ArrivalsOnly
  <2>6. /\ At("messages", "list")' => At("messages", "list")
        /\ At("messages", "list") => task'["messages"] = task["messages"]
    BY <1>3, MessageStored DEF At
  <2>7. QED BY <1>0, <2>1, <2>5, <2>6, InsertCounted
<1>4. CASE HistoryListed
  <2>1. At("history", "history")
    BY <1>4 DEF HistoryListed
  <2>2. PICK chat \in Chats, h \in HistoryConversation : chat = t.chat /\ h = Head(t.convs)
    BY <2>1, AtHistory
  <2>3. PICK b \in Batches : \E i \in DOMAIN b : h = b[i]
    BY <2>1, <2>2, AtHistory
  <2>4. h.unread = 0
    BY <2>3 DEF ArrivalsOnly
  <2>5. PICK conv, new :
          /\ conv = IF mem[chat] # None THEN Refreshed(mem[chat], h)
                    ELSE IF EmptyChat(chat, FromHistory(h)) THEN None
                    ELSE FromHistory(h)
          /\ mem' = [mem EXCEPT ![chat] = conv] /\ UNCHANGED rows
          /\ \E copies : new = HistoryTask(Tail(t.convs), copies)
          /\ Do("history", new)
    BY <1>4, <2>2 DEF HistoryListed
  <2>6. (conv = None => Unread(chat) = 0) /\ (conv # None => conv.unread = Unread(chat))
    <3>1. CASE mem[chat] # None
      <4>1. mem[chat] \in Conversation /\ Unread(chat) = mem[chat].unread
        BY <1>0, <3>1, MemTypes DEF Unread
      <4>2. conv = Refreshed(mem[chat], h)
        BY <2>5, <3>1
      <4>3. conv \in Conversation /\ conv.unread = mem[chat].unread
        <5>1. conv.unread = Larger(mem[chat].unread, h.unread) /\ mem[chat].unread \in Nat
          BY <4>1, <4>2, RefreshedIsLarger, Counts DEF Conversation
        <5>2. QED BY <2>4, <4>1, <4>2, <5>1, HistoryTypes DEF Larger
      <4>4. QED BY <4>1, <4>3, Markers
    <3>2. CASE mem[chat] = None
      BY <2>4, <2>5, <3>2 DEF Unread, FromHistory
    <3>3. QED BY <3>1, <3>2
  <2>7. mem'[chat] = conv /\ \A c \in Chats : c # chat => mem'[c] = mem[c]
    BY <1>0, <2>5, MemTypes
  <2>8. \A c \in Chats : Unread(c)' = Unread(c)
    <3>1. Unread(chat)' = IF conv = None THEN 0 ELSE conv.unread
      BY <2>7 DEF Unread
    <3>2. \A c \in Chats : c # chat => Unread(c)' = Unread(c)
      BY <2>7 DEF Unread
    <3>3. QED BY <2>6, <3>1, <3>2
  <2>9. new.step # "list"
    BY <1>1, <2>5
  <2>10. t.step # "list"
    BY <2>1 DEF At
  <2>11. QED BY <1>0, <2>5, <2>8, <2>9, <2>10, CountedElsewhere
<1>5. QED BY <1>2, <1>3, <1>4 DEF History

LEMMA ContactsCounted ==
  ASSUME TypeOK, Counted, Contacts
  PROVE  Counted'
<1>1. PICK chat \in Chats : ContactSync(chat)
  BY DEF Contacts
<1>2. PICK new : new = Saving(<<Copy(chat)>>, Idle)
  OBVIOUS
<1>3. /\ "contacts" \in Goroutines /\ task["contacts"] = Idle /\ Do("contacts", new)
      /\ UNCHANGED rows /\ new.step # "list"
  BY <1>1, <1>2 DEF ContactSync, Save, Free, Saving
<1>4. \A c \in Chats : Unread(c)' = Unread(c)
  <2>1. \A c \in Chats : mem[c] # None \/ c # chat => mem'[c] = mem[c]
    BY <1>1, MemTypes DEF ContactSync
  <2>2. mem[chat] = None => mem'[chat].unread = 0
    BY <1>1, MemTypes DEF ContactSync
  <2>3. QED BY <2>1, <2>2 DEF Unread
<1>5. QED BY <1>3, <1>4, CountedElsewhere

LEMMA WritersCounted ==
  ASSUME ArrivalsOnly, Typed, Counted, NEW p \in Goroutines, Upsert(p) \/ Merger(p)
  PROVE  Counted'
<1> DEFINE t == task[p]
<1>0. TypeOK
  BY DEF Typed
<1>1. /\ At("messages", "list")' => At("messages", "list")
      /\ At("messages", "list") => /\ task'["messages"] = task["messages"]
                                   /\ task["messages"].msg.id \in Ids
  <2>1. \A q \in Goroutines : q # p => task'[q] = task[q]
    BY WritersMove
  <2>2. /\ t # Idle => t.step # "list"
        /\ task'[p] # Idle => task'[p].step # "list"
    BY WritersMove DEF Upsert, Merger, StartMerge, NextMerge, MergeTx, MergeList, Free, At
  <2>3. QED BY <1>0, <2>1, <2>2, ListIds DEF At
<1>2. CASE UNCHANGED <<rows, mem>>
  BY <1>1, <1>2, UnreadSame, CountedKept DEF FromOthers
<1>3. CASE MergeTx(p) /\ ~UNCHANGED rows
  <2>1. PICK lid \in Lids : lid = t.lid
    BY <1>0, <1>3, Remembers DEF MergeTx, At
  <2>2. /\ rows' = [id \in Ids |-> IF id \in InChat(lid)
                                   THEN [rows[id] EXCEPT !.chat = PnOf[lid]] ELSE rows[id]]
        /\ UNCHANGED mem
    BY <1>3, <2>1 DEF MergeTx
  <2>3. ASSUME NEW id \in Ids
        PROVE  /\ FromOthers(id)' => FromOthers(id)
               /\ rows[id] # NoRow =>
                    /\ rows'[id] # NoRow /\ rows'[id].fromMe = rows[id].fromMe
                    /\ Identity(rows'[id].chat) = Identity(rows[id].chat)
    <3>1. CASE id \in InChat(lid)
      <4>1. rows[id] \in Stored /\ rows[id].chat = lid /\ rows[id] # NoRow
        BY <1>0, <3>1, MemTypes DEF InChat, StillIn
      <4>2. rows'[id] = [rows[id] EXCEPT !.chat = PnOf[lid]]
        BY <2>2, <3>1
      <4>3. rows'[id] \in Stored /\ rows'[id].chat = PnOf[lid] /\ rows'[id].fromMe = rows[id].fromMe
        BY <2>1, <4>1, <4>2, SameIdentityMerged DEF Stored
      <4>4. QED BY <2>1, <4>1, <4>3, SameIdentityMerged, Markers DEF FromOthers
    <3>2. CASE id \notin InChat(lid)
      BY <2>2, <3>2 DEF FromOthers
    <3>3. QED BY <3>1, <3>2
  <2>4. QED BY <1>1, <2>2, <2>3, UnreadSame, CountedKept
<1>4. CASE MergeList(p) /\ ~UNCHANGED mem
  <2>1. PICK lid \in Lids, pn \in Chats : lid = t.lid /\ pn = PnOf[lid] /\ pn # lid /\ lid \in Chats
                                          /\ pn \in Pns
    BY <1>0, <1>4, Remembers, Addresses DEF MergeList, At
  <2>2. /\ mem[lid] # None /\ UNCHANGED rows
        /\ mem' = [mem EXCEPT ![lid] = None, ![pn] = Merged(mem[lid], mem[pn])]
    BY <1>4, <2>1 DEF MergeList
  <2>3. /\ ListUnread(pn) = Cardinality(Arrived(pn) \ Counting)
        /\ ListUnread(pn) = Unread(pn) + Unread(lid)
    BY <2>1, TwoChats DEF Counted
  <2>4. Arrived(pn) \ Counting \subseteq Ids
    BY DEF Arrived
  <2>5. Unread(pn) + Unread(lid) <= MaxUint16
    BY <2>3, <2>4, CountFacts
  <2>6. PICK conv \in Conversation : conv = Merged(mem[lid], mem[pn])
    BY <1>0, <2>1, <2>2, MergedType, MemTypes
  <2>7. conv.unread = Unread(pn) + Unread(lid)
    BY <1>0, <2>1, <2>2, <2>5, <2>6, MergedUnread
  <2>8. mem'[lid] = None /\ mem'[pn] = conv /\ \A c \in Chats : c \notin {lid, pn} => mem'[c] = mem[c]
    BY <1>0, <2>1, <2>2, <2>6, MemTypes
  <2>9. /\ Unread(lid)' = 0 /\ Unread(pn)' = conv.unread
        /\ \A c \in Chats : c \notin {lid, pn} => Unread(c)' = Unread(c)
    BY <2>6, <2>8, Markers DEF Unread
  <2>10. \A who \in Groups \cup Pns : ListUnread(who)' = ListUnread(who)
    <3> SUFFICES ASSUME NEW who \in Groups \cup Pns PROVE ListUnread(who)' = ListUnread(who)
      OBVIOUS
    <3>1. who \in Chats /\ who # lid
      BY <2>1, Addresses
    <3>2. CASE who = pn
      <4>1. ListUnread(pn)' = Unread(pn)' + Unread(lid)'
        BY <2>1, TwoChatsNext
      <4>2. Unread(pn) \in Nat /\ Unread(lid) \in Nat
        BY <1>0, <2>1, UnreadTypes
      <4>3. QED BY <2>3, <2>7, <2>9, <3>2, <4>1, <4>2
    <3>3. CASE who # pn /\ \E l \in Lids : PnOf[l] = who
      <4>1. PICK l \in Lids : PnOf[l] = who
        BY <3>3
      <4>2. l # lid /\ l # pn /\ l \in Chats
        BY <2>1, <3>3, <4>1, Addresses
      <4>3. QED BY <2>9, <3>1, <3>3, <4>1, <4>2, TwoChats, TwoChatsNext
    <3>4. CASE who # pn /\ \A l \in Lids : PnOf[l] # who
      BY <2>9, <3>1, <3>4, TwoChats, TwoChatsNext
    <3>5. QED BY <3>2, <3>3, <3>4
  <2>11. Counting' = Counting /\ \A who : Arrived(who)' = Arrived(who)
    BY <1>1, <2>2 DEF Counting, Arrived, FromOthers, At
  <2>12. QED BY <1>1, <2>2, <2>10, <2>11 DEF Counted, ListedIsStored
<1>5. QED BY <1>2, <1>3, <1>4 DEF Upsert, Merger, StartMerge, NextMerge, MergeTx, MergeList

LEMMA StepCounted ==
  ASSUME ArrivalsOnly, Typed, reset = "no", Counted, [Next]_vars
  PROVE  Counted'
<1>0. TypeOK
  BY DEF Typed
<1>1. CASE Messages \/ History \/ Contacts
  BY <1>0, <1>1, MessagesCounted, HistoryCounted, ContactsCounted
<1>2. CASE Reader \/ AppState
  BY <1>2 DEF ArrivalsOnly, Reader, ReadChat, ReceiptsSent, ReceiptsFail, AppState, DeleteForMe,
              DeleteRow, FindLatest, PreviewAfterDelete, Free, At
<1>3. ASSUME NEW p \in Goroutines, Upsert(p) \/ Merger(p) PROVE Counted'
  BY <1>3, WritersCounted
<1>4. ASSUME NEW c \in Opened, NEW m \in Sends, Send(m, c) PROVE Counted'
  <2>1. PICK i \in Ids, row \in Stored : i = m.id /\ row = [chat |-> c, ts |-> m.ts, fromMe |-> TRUE]
    BY Markers DEF Stored
  <2>2. row.fromMe /\ Insert(i, row) /\ UNCHANGED <<mem, task>>
    BY <1>4, <2>1 DEF Send
  <2>3. QED BY <1>0, <2>2, InsertCounted DEF At
<1>5. CASE \/ \E c \in Opened : Open(c)
           \/ \E lid \in Lids : LearnMapping(lid)
           \/ UNCHANGED vars
  <2>1. UNCHANGED <<rows, mem, task>>
    BY <1>5 DEF Open, LearnMapping, vars
  <2>2. QED BY <1>0, <2>1, UnreadSame, ListIds, CountedKept DEF FromOthers, At
<1>6. CASE ResetTables \/ ResetList \/ Restart
  BY <1>6 DEF ResetTables, ResetList, Restart, Undisturbed, ArrivalsOnly
<1>7. QED BY <1>1, <1>2, <1>3, <1>4, <1>5, <1>6 DEF Next

LEMMA InitCounted ==
  ASSUME Init
  PROVE  Counted
<1>1. \A c \in Chats : Unread(c) = 0
  BY DEF Init, Unread
<1>2. ASSUME NEW who \in Groups \cup Pns PROVE ListUnread(who) = 0
  <2>1. CASE \E lid \in Lids : PnOf[lid] = who
    BY <1>1, <2>1, TwoChats, Addresses
  <2>2. CASE \A lid \in Lids : PnOf[lid] # who
    BY <1>1, <2>2, TwoChats, Addresses
  <2>3. QED BY <2>1, <2>2
<1>3. \A who : Arrived(who) \ Counting = {}
  BY DEF Init, Arrived, FromOthers
<1>4. ~At("messages", "list") /\ Cardinality({}) = 0
  BY FS_EmptySet DEF Init, At
<1>5. QED BY <1>2, <1>3, <1>4 DEF Counted, ListedIsStored

(* A person's unread count, over both of its chats, is the number of its   *)
(* messages that arrived and were counted: a redelivered ID is not counted *)
(* twice, whichever address it came by, and a merge neither loses a count  *)
(* nor adds one twice, even when messages are listed while it runs.        *)
THEOREM UnreadCounted ==
  ASSUME ArrivalsOnly
  PROVE  Spec => []UnreadMatchesArrivals
<1> DEFINE Inv == Typed /\ reset = "no" /\ Counted
<1>1. Init => Inv
  BY InitTyped, InitCounted DEF Init
<1>2. Inv /\ [Next]_vars => Inv'
  BY StepTyped, StepCounted, StaysUp DEF ArrivalsOnly
<1>3. Counted => UnreadMatchesArrivals
  BY DEF Counted, UnreadMatchesArrivals
<1>4. QED BY <1>1, <1>2, <1>3, PTL DEF Spec
------------------------------------------------------------------------------
(* CountsRiseByArrivals, whatever is received, read, deleted, merged, reset *)
(* or fails: what each step does to the counts.                             *)
LEMMA Lowered ==
  ASSUME TypeOK, TypeOK', \A c \in Chats : Unread(c)' <= Unread(c), NEW who \in Groups \cup Pns
  PROVE  ListUnread(who)' <= ListUnread(who)
<1>1. \A c \in Chats : Unread(c) \in Nat /\ Unread(c)' \in Nat
  BY UnreadTypes DEF TypeOK, Unread, Conversation
<1>2. who \in Chats
  BY Addresses
<1>3. CASE \E lid \in Lids : PnOf[lid] = who
  <2>1. PICK lid \in Lids : PnOf[lid] = who /\ lid \in Chats
    BY <1>3, Addresses
  <2>2. /\ ListUnread(who) = Unread(who) + Unread(lid)
        /\ ListUnread(who)' = Unread(who)' + Unread(lid)'
    BY <2>1, TwoChats, TwoChatsNext
  <2>3. QED BY <1>1, <1>2, <2>1, <2>2
<1>4. CASE \A lid \in Lids : PnOf[lid] # who
  BY <1>1, <1>2, <1>4, TwoChats, TwoChatsNext
<1>5. QED BY <1>3, <1>4

LEMMA ListUnreadType ==
  ASSUME TypeOK, NEW who \in Groups \cup Pns
  PROVE  ListUnread(who) \in Nat
<1>1. CASE \E lid \in Lids : PnOf[lid] = who
  BY <1>1, TwoChats, UnreadTypes, Addresses
<1>2. CASE \A lid \in Lids : PnOf[lid] # who
  BY <1>2, TwoChats, UnreadTypes, Addresses
<1>3. QED BY <1>1, <1>2

LEMMA ListUnreadTypeNext ==
  ASSUME TypeOK', NEW who \in Groups \cup Pns
  PROVE  ListUnread(who)' \in Nat
<1>1. \A c \in Chats : Unread(c)' \in Nat
  BY UnreadTypes DEF TypeOK, Unread, Conversation
<1>2. who \in Chats
  BY Addresses
<1>3. CASE \E lid \in Lids : PnOf[lid] = who
  BY <1>1, <1>2, <1>3, TwoChatsNext, Addresses
<1>4. CASE \A lid \in Lids : PnOf[lid] # who
  BY <1>1, <1>2, <1>4, TwoChatsNext
<1>5. QED BY <1>3, <1>4

(* One chat's count moves the count of its person and of nobody else.      *)
LEMMA OneChatMoves ==
  ASSUME TypeOK, TypeOK', NEW chat \in Chats,
         \A c \in Chats : c # chat => Unread(c)' = Unread(c), NEW who \in Groups \cup Pns
  PROVE  /\ who # Identity(chat) => ListUnread(who)' = ListUnread(who)
         /\ who = Identity(chat) =>
              ListUnread(who)' = (ListUnread(who) - Unread(chat)) + Unread(chat)'
<1>1. \A c \in Chats : Unread(c) \in Nat /\ Unread(c)' \in Nat
  BY UnreadTypes DEF TypeOK, Unread, Conversation
<1>2. who \in Chats /\ who \notin Lids
  BY Addresses
<1>3. CASE \E lid \in Lids : PnOf[lid] = who
  <2>1. PICK lid \in Lids : PnOf[lid] = who /\ lid \in Chats /\ lid # who
    BY <1>3, <1>2, Addresses
  <2>2. /\ ListUnread(who) = Unread(who) + Unread(lid)
        /\ ListUnread(who)' = Unread(who)' + Unread(lid)'
    BY <2>1, TwoChats, TwoChatsNext
  <2>3. who = Identity(chat) <=> chat = who \/ chat = lid
    BY <1>2, <2>1, Addresses DEF Identity
  <2>4. QED BY <1>1, <1>2, <2>1, <2>2, <2>3
<1>4. CASE \A lid \in Lids : PnOf[lid] # who
  <2>1. ListUnread(who) = Unread(who) + 0 /\ ListUnread(who)' = Unread(who)' + 0
    BY <1>2, <1>4, TwoChats, TwoChatsNext
  <2>2. who = Identity(chat) <=> chat = who
    BY <1>2, <1>4 DEF Identity
  <2>3. QED BY <1>1, <1>2, <2>1, <2>2
<1>5. QED BY <1>3, <1>4

(* A listed message counts for one at most: a full uint16 starts again.    *)
LEMMA ListedAtMostOne ==
  ASSUME TypeOK, NEW c \in Chats, NEW m \in Wire, m.src.fromMe \in BOOLEAN
  PROVE  /\ Listed(mem[c], m).unread \in Nat
         /\ Listed(mem[c], m).unread <= Unread(c) + 1
         /\ m.src.fromMe => Listed(mem[c], m).unread = Unread(c)
<1>1. Unread(c) \in Nat
  BY UnreadTypes
<1>2. Listed(mem[c], m).unread \in 0..MaxUint16 /\ MaxUint16 \in Nat
  BY ListedType, MemTypes, Counts DEF Conversation
<1>3. CASE Unread(c) < MaxUint16 \/ m.src.fromMe
  BY <1>1, <1>2, <1>3, ListedUnread
<1>4. CASE ~(Unread(c) < MaxUint16) /\ ~m.src.fromMe
  BY <1>1, <1>2, <1>4
<1>5. QED BY <1>3, <1>4

(* A merge adds up, and stops at the end of a uint16. *)
LEMMA MergedAtMostSum ==
  ASSUME TypeOK, NEW lid \in Lids, mem[lid] # None
  PROVE  Merged(mem[lid], mem[PnOf[lid]]).unread <= Unread(PnOf[lid]) + Unread(lid)
<1> DEFINE pn == PnOf[lid]
<1>1. lid \in Chats /\ pn \in Chats /\ Unread(pn) \in Nat /\ Unread(lid) \in Nat
  BY Addresses, UnreadTypes
<1>2. CASE Unread(pn) + Unread(lid) <= MaxUint16
  BY <1>1, <1>2, MergedUnread
<1>3. CASE ~(Unread(pn) + Unread(lid) <= MaxUint16)
  <2>1. Merged(mem[lid], mem[pn]) \in Conversation
    BY <1>1, MergedType, MemTypes
  <2>2. Merged(mem[lid], mem[pn]).unread \in 0..MaxUint16 /\ MaxUint16 \in Nat
    BY <2>1, Counts DEF Conversation
  <2>3. QED BY <1>1, <1>3, <2>2
<1>4. QED BY <1>2, <1>3

(* What CountsRiseByArrivals allows.  What history says is said where it   *)
(* is more than the list has, and of that chat only.                       *)
Rises(who) ==
  \/ Restart
  \/ /\ At("messages", "list") /\ ~At("messages", "list")'
     /\ ~task["messages"].msg.src.fromMe /\ Identity(task["messages"].chat) = who
     /\ ListUnread(who)' = ListUnread(who) + 1
  \/ \E c \in Chats :
       /\ At("history", "history") /\ task["history"].chat = c /\ Identity(c) = who
       /\ Unread(c)' = Head(task["history"].convs).unread /\ Unread(c)' > Unread(c)

LEMMA MessagesRise ==
  ASSUME TypeOK, TypeOK', Messages, NEW who \in Groups \cup Pns, ListUnread(who)' > ListUnread(who)
  PROVE  Rises(who)
<1> DEFINE t == task["messages"]
<1>1. IncomingListed
  <2>1. ASSUME UNCHANGED mem PROVE FALSE
    BY <2>1, UnreadSame, ListUnreadKept, ListUnreadType, Addresses
  <2>2. QED BY <2>1 DEF Messages, Incoming, StoreIncoming
<1>2. /\ "messages" \in Goroutines /\ At("messages", "list")
      /\ t \in [step: {"store", "list"}, msg: Wire, chat: Chats]
  BY <1>1, ListIds DEF IncomingListed, At
<1>3. PICK chat \in Chats, m \in Wire :
        chat = t.chat /\ m = t.msg /\ m.src.fromMe \in BOOLEAN
  BY <1>2, ListIds
<1>4. /\ mem' = [mem EXCEPT ![chat] = Listed(mem[chat], m)]
      /\ Do("messages", Saving(<<Copy(chat)>>, Idle))
  BY <1>1, <1>3 DEF IncomingListed, Save
<1>5. PICK conv \in Conversation : conv = Listed(mem[chat], m)
  BY <1>3, ListedType, MemTypes
<1>6. mem'[chat] = conv /\ \A c \in Chats : c # chat => mem'[c] = mem[c]
  BY <1>4, <1>5, MemTypes
<1>7. Unread(chat)' = conv.unread /\ \A c \in Chats : c # chat => Unread(c)' = Unread(c)
  BY <1>5, <1>6, Markers DEF Unread
<1>8. ~At("messages", "list")'
  BY <1>2, <1>4, DoFacts DEF At, Saving
<1>9. /\ Unread(chat) \in Nat /\ conv.unread \in Nat /\ conv.unread <= Unread(chat) + 1
      /\ m.src.fromMe => conv.unread = Unread(chat)
  BY <1>3, <1>5, ListedAtMostOne, UnreadTypes
<1>10. /\ ListUnread(who) \in Int
       /\ who # Identity(chat) => ListUnread(who)' = ListUnread(who)
       /\ who = Identity(chat) =>
            ListUnread(who)' = (ListUnread(who) - Unread(chat)) + conv.unread
  BY <1>7, OneChatMoves, ListUnreadType
<1>11. who = Identity(chat) /\ ~m.src.fromMe /\ ListUnread(who)' = ListUnread(who) + 1
  BY <1>9, <1>10
<1>12. QED BY <1>2, <1>3, <1>8, <1>11 DEF Rises

LEMMA HistoryRises ==
  ASSUME Typed, TypeOK', History, NEW who \in Groups \cup Pns, ListUnread(who)' > ListUnread(who)
  PROVE  Rises(who)
<1> DEFINE t == task["history"]
<1>0. TypeOK
  BY DEF Typed
<1>1. HistoryListed
  <2>1. ASSUME UNCHANGED mem PROVE FALSE
    BY <1>0, <2>1, UnreadSame, ListUnreadKept, ListUnreadType, Addresses
  <2>2. QED BY <2>1 DEF History, HistorySync, HistoryMessage
<1>2. At("history", "history")
  BY <1>1 DEF HistoryListed
<1>3. PICK chat \in Chats, h \in HistoryConversation : chat = t.chat /\ h = Head(t.convs)
  BY <1>2, AtHistory
<1>4. PICK conv :
        /\ conv = IF mem[chat] # None THEN Refreshed(mem[chat], h)
                  ELSE IF EmptyChat(chat, FromHistory(h)) THEN None
                  ELSE FromHistory(h)
        /\ mem' = [mem EXCEPT ![chat] = conv]
  BY <1>1, <1>3 DEF HistoryListed
<1>5. mem'[chat] = conv /\ \A c \in Chats : c # chat => mem'[c] = mem[c]
  BY <1>0, <1>4, MemTypes
<1>6. \A c \in Chats : c # chat => Unread(c)' = Unread(c)
  BY <1>5 DEF Unread
<1>7. Unread(chat) \in Nat /\ Unread(chat)' \in Nat /\ h.unread \in Nat
  BY <1>0, UnreadTypes, Counts DEF TypeOK, Unread, Conversation, HistoryConversation
<1>8. Unread(chat)' \in {Unread(chat), h.unread, 0}
  <2>1. CASE mem[chat] # None
    <3>1. mem[chat] \in Conversation /\ Unread(chat) = mem[chat].unread
      BY <1>0, <2>1, MemTypes DEF Unread
    <3>2. conv \in Conversation /\ conv.unread = Larger(mem[chat].unread, h.unread)
      BY <1>4, <2>1, <3>1, HistoryTypes, RefreshedIsLarger
    <3>3. Unread(chat)' = conv.unread
      BY <1>5, <3>2, Markers DEF Unread
    <3>4. QED BY <3>1, <3>2, <3>3 DEF Larger
  <2>2. CASE mem[chat] = None
    <3>1. conv = None \/ conv.unread = h.unread
      BY <1>4, <2>2 DEF FromHistory
    <3>2. QED BY <1>5, <3>1 DEF Unread
  <2>3. QED BY <2>1, <2>2
<1>9. /\ ListUnread(who) \in Int
      /\ who # Identity(chat) => ListUnread(who)' = ListUnread(who)
      /\ who = Identity(chat) =>
           ListUnread(who)' = (ListUnread(who) - Unread(chat)) + Unread(chat)'
  BY <1>0, <1>6, OneChatMoves, ListUnreadType
<1>10. who = Identity(chat) /\ Unread(chat)' > Unread(chat)
  BY <1>7, <1>9
<1>11. Unread(chat)' = h.unread
  BY <1>7, <1>8, <1>10
<1>12. QED BY <1>2, <1>3, <1>10, <1>11 DEF Rises

(* A contact sync adds a chat without a count, a receipt resets one, and a *)
(* delete leaves them alone.                                               *)
LEMMA HandlersRise ==
  ASSUME TypeOK, TypeOK', Contacts \/ Reader \/ AppState, NEW who \in Groups \cup Pns
  PROVE  ListUnread(who)' <= ListUnread(who)
<1> SUFFICES \A c \in Chats : Unread(c)' <= Unread(c)
  BY Lowered
<1>1. \A c \in Chats : Unread(c) \in Nat /\ (mem'[c] = mem[c] => Unread(c)' = Unread(c))
  BY UnreadTypes DEF Unread
<1>2. CASE UNCHANGED mem
  BY <1>1, <1>2
<1>3. ASSUME NEW chat \in Chats, ContactSync(chat) PROVE \A c \in Chats : Unread(c)' <= Unread(c)
  <2>1. \A c \in Chats : mem[c] # None \/ c # chat => mem'[c] = mem[c]
    BY <1>3, MemTypes DEF ContactSync
  <2>2. mem[chat] = None => mem'[chat].unread = 0
    BY <1>3, MemTypes DEF ContactSync
  <2>3. QED BY <1>1, <2>1, <2>2 DEF Unread
<1>4. CASE ReceiptsSent /\ ~UNCHANGED mem
  <2>1. PICK chat \in Chats : chat = task["reader"].chat /\ mem[chat] # None
    BY <1>4, Remembers DEF ReceiptsSent, At
  <2>2. mem' = [mem EXCEPT ![chat].unread = 0]
    BY <1>4, <2>1 DEF ReceiptsSent
  <2>3. mem[chat] \in Conversation
    BY <2>1, MemTypes
  <2>4. mem'[chat] = [mem[chat] EXCEPT !.unread = 0] /\ \A c \in Chats : c # chat => mem'[c] = mem[c]
    BY <2>2, MemTypes
  <2>5. mem'[chat].unread = 0
    BY <2>3, <2>4 DEF Conversation
  <2>6. Unread(chat)' = 0
    BY <2>5 DEF Unread
  <2>7. ASSUME NEW c \in Chats PROVE Unread(c)' <= Unread(c)
    <3>1. Unread(c) \in Nat
      BY <1>1
    <3>2. CASE c = chat
      BY <2>6, <3>1, <3>2
    <3>3. CASE c # chat
      BY <1>1, <2>4, <3>1, <3>3
    <3>4. QED BY <3>2, <3>3
  <2>8. QED BY <2>7
<1>5. CASE PreviewAfterDelete /\ ~UNCHANGED mem
  <2>1. PICK chat \in Chats : chat = task["appState"].row.chat /\ mem[chat] # None
    BY <1>5, Remembers DEF PreviewAfterDelete, At, Stored
  <2>2. mem[chat] \in Conversation
    BY <2>1, MemTypes
  <2>3. PICK id, ts : mem' = [mem EXCEPT ![chat].preview = id, ![chat].time = ts]
    BY <1>5, <2>1 DEF PreviewAfterDelete
  <2>4. /\ mem'[chat] = [[mem[chat] EXCEPT !.preview = id] EXCEPT !.time = ts]
        /\ \A c \in Chats : c # chat => mem'[c] = mem[c]
    BY <2>3, MemTypes
  <2>5. mem'[chat].unread = mem[chat].unread
    BY <2>2, <2>4 DEF Conversation
  <2>6. Unread(chat)' \in {0, mem[chat].unread} /\ Unread(chat) = mem[chat].unread
    BY <2>1, <2>5 DEF Unread
  <2>7. ASSUME NEW c \in Chats PROVE Unread(c)' <= Unread(c)
    <3>1. Unread(c) \in Nat
      BY <1>1
    <3>2. CASE c = chat
      BY <2>6, <3>1, <3>2
    <3>3. CASE c # chat
      BY <1>1, <2>4, <3>1, <3>3
    <3>4. QED BY <3>2, <3>3
  <2>8. QED BY <2>7
<1>6. QED
  BY <1>2, <1>3, <1>4, <1>5 DEF Contacts, Reader, AppState, ReadChat, ReceiptsSent, ReceiptsFail,
     DeleteForMe, DeleteRow, FindLatest, PreviewAfterDelete

(* A merge puts at most the sum where the two counts were, and that is the *)
(* sum of what the list holds by now.                                      *)
LEMMA MergeRises ==
  ASSUME TypeOK, TypeOK', NEW p \in Goroutines, MergeList(p), NEW who \in Groups \cup Pns
  PROVE  ListUnread(who)' <= ListUnread(who)
<1> DEFINE t == task[p]
<1>1. CASE UNCHANGED mem
  BY <1>1, UnreadSame, ListUnreadKept, ListUnreadType, Addresses
<1>2. CASE ~UNCHANGED mem
  <2>1. PICK lid \in Lids, pn \in Chats : lid = t.lid /\ pn = PnOf[lid] /\ pn # lid /\ lid \in Chats
    BY <1>2, Remembers, Addresses DEF MergeList, At
  <2>2. /\ mem[lid] # None
        /\ mem' = [mem EXCEPT ![lid] = None, ![pn] = Merged(mem[lid], mem[pn])]
    BY <1>2, <2>1 DEF MergeList
  <2>3. PICK conv \in Conversation : conv = Merged(mem[lid], mem[pn])
    BY <2>1, <2>2, MergedType, MemTypes
  <2>4. mem'[lid] = None /\ mem'[pn] = conv /\ \A c \in Chats : c \notin {lid, pn} => mem'[c] = mem[c]
    BY <2>1, <2>2, <2>3, MemTypes
  <2>5. /\ Unread(lid)' = 0 /\ Unread(pn)' = conv.unread
        /\ \A c \in Chats : c \notin {lid, pn} => Unread(c)' = Unread(c)
    BY <2>3, <2>4, Markers DEF Unread
  <2>6. conv.unread <= Unread(pn) + Unread(lid) /\ conv.unread \in Nat
    BY <2>1, <2>2, <2>3, MergedAtMostSum, Counts DEF Conversation
  <2>7. \A c \in Chats : Unread(c) \in Nat
    BY UnreadTypes
  <2>8. who \in Chats /\ who # lid
    BY <2>1, Addresses
  <2>9. CASE who = pn
    <3>1. /\ ListUnread(pn)' = Unread(pn)' + Unread(lid)'
          /\ ListUnread(pn) = Unread(pn) + Unread(lid)
      BY <2>1, TwoChats, TwoChatsNext
    <3>2. QED BY <2>1, <2>5, <2>6, <2>7, <2>9, <3>1
  <2>10. CASE who # pn /\ \E l \in Lids : PnOf[l] = who
    <3>1. PICK l \in Lids : PnOf[l] = who
      BY <2>10
    <3>2. l # lid /\ l # pn /\ l \in Chats
      BY <2>1, <2>10, <3>1, Addresses
    <3>3. QED BY <2>5, <2>7, <2>8, <2>10, <3>1, <3>2, TwoChats, TwoChatsNext
  <2>11. CASE who # pn /\ \A l \in Lids : PnOf[l] # who
    BY <2>5, <2>7, <2>8, <2>11, TwoChats, TwoChatsNext
  <2>12. QED BY <2>9, <2>10, <2>11
<1>3. QED BY <1>1, <1>2

LEMMA StepRises ==
  ASSUME Typed, [Next]_vars, NEW who \in Groups \cup Pns, ListUnread(who)' > ListUnread(who)
  PROVE  Rises(who)
<1>1. TypeOK /\ TypeOK' /\ ListUnread(who) \in Nat /\ ListUnread(who)' \in Nat
  <2>1. TypeOK /\ TypeOK'
    BY StepTyped DEF Typed
  <2>2. QED BY <2>1, ListUnreadType, ListUnreadTypeNext
<1>2. ~UNCHANGED mem
  BY <1>1, UnreadSame, ListUnreadKept, Addresses
<1>3. ~(ListUnread(who)' <= ListUnread(who))
  BY <1>1
<1>4. CASE Messages \/ History
  BY <1>1, <1>4, MessagesRise, HistoryRises
<1>5. CASE Contacts \/ Reader \/ AppState
  BY <1>1, <1>3, <1>5, HandlersRise
<1>6. ASSUME NEW p \in Goroutines, Upsert(p) \/ Merger(p) PROVE FALSE
  BY <1>1, <1>2, <1>3, <1>6, MergeRises DEF Upsert, Merger, StartMerge, NextMerge, MergeTx
<1>7. CASE ResetList
  <2>1. \A c \in Chats : Unread(c) \in Nat /\ Unread(c)' = 0
    BY <1>1, <1>7, UnreadTypes DEF ResetList, Unread
  <2>2. QED BY <1>1, <1>3, <2>1, Lowered
<1>8. CASE Restart
  BY <1>8 DEF Rises
<1>9. QED
  BY <1>2, <1>4, <1>5, <1>6, <1>7, <1>8 DEF Next, Open, Send, LearnMapping, ResetTables, vars

(* What was read stays read, for any chats, messages and goroutines,       *)
(* whatever is deleted, reset or fails: a count rises by one message that  *)
(* is being listed, to what a history sync says, or at a start.  A receipt *)
(* that overtakes a merge is not undone by it.                             *)
THEOREM CountsRise == Spec => CountsRiseByArrivals
<1> DEFINE Allowed == \A who \in Groups \cup Pns : ListUnread(who)' > ListUnread(who) => Rises(who)
<1>1. Typed /\ [Next]_vars => Allowed
  BY StepRises
<1>2. Allowed => \A who \in Groups \cup Pns : ListUnread(who)' > ListUnread(who) =>
       \/ Restart
       \/ /\ At("messages", "list") /\ ~At("messages", "list")'
          /\ ~task["messages"].msg.src.fromMe /\ Identity(task["messages"].chat) = who
          /\ ListUnread(who)' = ListUnread(who) + 1
       \/ \E c \in Chats :
            /\ At("history", "history") /\ task["history"].chat = c /\ Identity(c) = who
            /\ Unread(c)' = Head(task["history"].convs).unread
  BY DEF Rises
<1> HIDE DEF Allowed
<1>3. QED BY <1>1, <1>2, AlwaysTyped, PTL DEF Spec, CountsRiseByArrivals
------------------------------------------------------------------------------
(* NothingCountedTwice, with receipts and merges at any step, for any      *)
(* number of messages: nothing is deleted, the program is neither killed   *)
(* nor reset, messages can be stored and history counts none as unread.    *)
ArrivalsAndReceipts ==
  /\ Undisturbed /\ "messages" \notin DbErrors /\ "appState" \notin Goroutines
  /\ \A batch \in Batches : \A i \in DOMAIN batch : batch[i].unread = 0
  /\ IsFiniteSet(Ids)

(* A stored message stays one of the same person or group. *)
RowKept(id) ==
  rows[id] # NoRow =>
    /\ rows'[id] # NoRow /\ rows'[id].fromMe = rows[id].fromMe
    /\ Identity(rows'[id].chat) = Identity(rows[id].chat)

(* Only a message just stored becomes one that is being listed. *)
JustStored ==
  /\ At("messages", "list")' /\ task'["messages"].msg.id \in Ids
  /\ rows[task'["messages"].msg.id] = NoRow
  /\ LET t == task'["messages"] IN
     rows'[t.msg.id] = [chat |-> t.chat, ts |-> t.msg.ts, fromMe |-> t.msg.src.fromMe]

StillListed ==
  /\ At("messages", "list")' /\ At("messages", "list")
  /\ task'["messages"] = task["messages"]

LEMMA InsertKeeps ==
  ASSUME TypeOK, NEW i, NEW row, Insert(i, row)
  PROVE  \A id \in Ids : RowKept(id)
BY MemTypes DEF Insert, RowKept

LEMMA MessagesKeep ==
  ASSUME ArrivalsAndReceipts, TypeOK, Messages
  PROVE  /\ \A id \in Ids : RowKept(id)
         /\ At("messages", "list")' => StillListed \/ JustStored
<1>0. "messages" \in Goroutines
  BY DEF Messages, Incoming, StoreIncoming, IncomingListed, Free, At
<1> DEFINE t == task["messages"]
<1>1. ASSUME NEW m \in Wire, Incoming(m) PROVE UNCHANGED rows /\ ~At("messages", "list")'
  <2> DEFINE new == [step |-> "store", msg |-> m, chat |-> CanonicalChat(known, m.src)]
  <2>1. Do("messages", new) /\ new.step = "store" /\ UNCHANGED rows
    BY <1>1 DEF Incoming
  <2> HIDE DEF new
  <2>2. QED BY <1>0, <2>1, DoFacts DEF At
<1>2. CASE IncomingListed
  <2>1. UNCHANGED rows /\ Do("messages", Saving(<<Copy(t.chat)>>, Idle))
    BY <1>2 DEF IncomingListed, Save
  <2>2. ~At("messages", "list")'
    BY <1>0, <2>1, DoFacts DEF At, Saving
  <2>3. QED BY <2>1, <2>2 DEF RowKept
<1>3. CASE StoreIncoming
  <2> DEFINE next == [t EXCEPT !.step = "list"]
             row  == [chat |-> t.chat, ts |-> t.msg.ts, fromMe |-> t.msg.src.fromMe]
  <2>1. t \in [step: {"store", "list"}, msg: Wire, chat: Chats]
    BY <1>3, Remembers DEF StoreIncoming, At
  <2>2. t.msg.id \in Ids /\ next.msg = t.msg /\ next.chat = t.chat
    BY <2>1, Markers
  <2>3. /\ Insert(t.msg.id, row)
        /\ Do("messages", IF rows[t.msg.id] = NoRow THEN next ELSE Idle)
    BY <1>3 DEF StoreIncoming, ArrivalsAndReceipts
  <2> HIDE DEF next, row
  <2>4. ASSUME At("messages", "list")' PROVE JustStored
    <3>1. rows[t.msg.id] = NoRow /\ task'["messages"] = next
      BY <1>0, <2>3, <2>4, DoFacts DEF At
    <3>2. rows'[t.msg.id] = row
      BY <2>2, <2>3, <3>1, MemTypes DEF Insert
    <3>3. QED BY <2>2, <2>4, <3>1, <3>2 DEF JustStored, row
  <2>5. QED BY <2>3, <2>4, InsertKeeps
<1>4. QED BY <1>1, <1>2, <1>3 DEF Messages, RowKept

LEMMA MergeKeeps ==
  ASSUME TypeOK, NEW p \in Goroutines, MergeTx(p)
  PROVE  \A id \in Ids : RowKept(id)
<1>1. CASE UNCHANGED rows
  BY <1>1 DEF RowKept
<1>2. CASE ~UNCHANGED rows
  <2>1. PICK lid \in Lids : lid = task[p].lid
    BY <1>2, Remembers DEF MergeTx, At
  <2>2. rows' = [id \in Ids |-> IF id \in InChat(lid)
                                THEN [rows[id] EXCEPT !.chat = PnOf[lid]] ELSE rows[id]]
    BY <1>2, <2>1 DEF MergeTx
  <2>3. ASSUME NEW id \in InChat(lid), id \in Ids PROVE RowKept(id)
    <3>1. rows[id] \in Stored /\ rows[id].chat = lid /\ rows[id] # NoRow
      BY <2>3, MemTypes DEF InChat, StillIn
    <3>2. rows'[id] = [rows[id] EXCEPT !.chat = PnOf[lid]]
      BY <2>2, <2>3
    <3>3. rows'[id] \in Stored /\ rows'[id].chat = PnOf[lid] /\ rows'[id].fromMe = rows[id].fromMe
      BY <2>1, <3>1, <3>2, SameIdentityMerged DEF Stored
    <3>4. QED BY <2>1, <3>1, <3>3, SameIdentityMerged, Markers DEF RowKept
  <2>4. QED BY <2>2, <2>3 DEF RowKept
<1>3. QED BY <1>1, <1>2

LEMMA StepKeeps ==
  ASSUME ArrivalsAndReceipts, Typed, reset = "no", [Next]_vars
  PROVE  /\ \A id \in Ids : RowKept(id)
         /\ At("messages", "list")' => StillListed \/ JustStored
<1>0. TypeOK
  BY DEF Typed
<1>1. ASSUME UNCHANGED rows PROVE \A id \in Ids : RowKept(id)
  BY <1>1 DEF RowKept
<1>2. ASSUME NEW p \in Goroutines, NEW t, Do(p, t), p # "messages" PROVE At("messages", "list")' => StillListed
  BY <1>0, <1>2, DoFacts DEF At, StillListed
<1>3. CASE Messages
  BY <1>0, <1>3, MessagesKeep
<1>4. CASE History
  <2>1. CASE HistoryMessage
    <3>1. \A id \in Ids : RowKept(id)
      BY <1>0, <1>1, <2>1, InsertKeeps DEF HistoryMessage
    <3>2. At("messages", "list")' => StillListed
      BY <2>1, MessageStored DEF At, StillListed
    <3>3. QED BY <3>1, <3>2
  <2>2. CASE HistoryListed \/ \E b \in Batches : HistorySync(b)
    <3>1. UNCHANGED rows /\ "history" \in Goroutines /\ \E t : Do("history", t)
      BY <2>2 DEF HistoryListed, HistorySync, Free, At
    <3>2. QED BY <1>1, <1>2, <3>1
  <2>3. QED BY <1>4, <2>1, <2>2 DEF History
<1>5. CASE Contacts
  <2>1. UNCHANGED rows /\ "contacts" \in Goroutines /\ \E t : Do("contacts", t)
    BY <1>5 DEF Contacts, ContactSync, Save, Free
  <2>2. QED BY <1>1, <1>2, <2>1
<1>6. CASE Reader
  <2>1. UNCHANGED rows /\ "reader" \in Goroutines /\ \E t : Do("reader", t)
    BY <1>6 DEF Reader, ReadChat, ReceiptsSent, ReceiptsFail, Save, Free, At
  <2>2. QED BY <1>1, <1>2, <2>1
<1>7. CASE AppState
  BY <1>7 DEF ArrivalsAndReceipts, AppState, DeleteForMe, DeleteRow, FindLatest,
              PreviewAfterDelete, Free, At
<1>8. ASSUME NEW p \in Goroutines, Upsert(p) \/ Merger(p)
      PROVE  /\ \A id \in Ids : RowKept(id)
             /\ At("messages", "list")' => StillListed
  <2>1. \A id \in Ids : RowKept(id)
    BY <1>0, <1>1, <1>8, MergeKeeps DEF Upsert, Merger, StartMerge, NextMerge, MergeList
  <2>2. At("messages", "list")' => StillListed
    BY <1>8, WritersMove DEF At, StillListed
  <2>3. QED BY <2>1, <2>2
<1>9. ASSUME NEW c, NEW m, Send(m, c) PROVE UNCHANGED task /\ \A id \in Ids : RowKept(id)
  BY <1>0, <1>9, InsertKeeps DEF Send
<1>10. CASE \/ \E c \in Opened : Open(c)
            \/ \E lid \in Lids : LearnMapping(lid)
            \/ UNCHANGED vars
  BY <1>1, <1>10 DEF Open, LearnMapping, vars, At, StillListed
<1>11. ~(ResetTables \/ ResetList \/ Restart)
  BY DEF ResetTables, ResetList, Restart, ArrivalsAndReceipts, Undisturbed
<1>12. UNCHANGED task => (At("messages", "list")' => StillListed)
  BY DEF At, StillListed
<1>13. QED
  BY <1>3, <1>4, <1>5, <1>6, <1>7, <1>8, <1>9, <1>10, <1>11, <1>12 DEF Next

LEMMA StepCountedOnce ==
  ASSUME ArrivalsAndReceipts, Typed, Typed', reset = "no", CountedOnce, [Next]_vars
  PROVE  CountedOnce'
<1>0. TypeOK /\ TypeOK'
  BY DEF Typed
<1>1. \A id \in Ids : RowKept(id)
  BY StepKeeps
<1>2. At("messages", "list")' => StillListed \/ JustStored
  BY StepKeeps
<1>3. ListedIsStored'
  <2>1. CASE StillListed
    <3>1. task["messages"].msg.id \in Ids
      BY <1>0, <2>1, ListIds DEF StillListed
    <3>2. QED BY <1>1, <2>1, <3>1 DEF StillListed, CountedOnce, ListedIsStored, RowKept
  <2>2. CASE JustStored
    <3>1. rows'[task'["messages"].msg.id] \in Stored \cup {NoRow}
      BY <1>0, <2>2 DEF JustStored, TypeOK
    <3>2. PICK t : t = task'["messages"]
      OBVIOUS
    <3>3. t \in [step: {"store", "list"}, msg: Wire, chat: Chats] /\ t.msg.id \in Ids
             /\ t.msg.ts \in Nat /\ t.msg.src.fromMe \in BOOLEAN
      BY <1>0, <2>2, <3>2, ListIdsNext DEF JustStored
    <3>4. rows'[t.msg.id] = [chat |-> t.chat, ts |-> t.msg.ts, fromMe |-> t.msg.src.fromMe]
      BY <2>2, <3>2 DEF JustStored
    <3>5. rows'[t.msg.id] \in Stored
      BY <3>3, <3>4 DEF Stored
    <3>6. QED BY <3>2, <3>4, <3>5, Markers DEF ListedIsStored
  <2>3. QED BY <1>2, <2>1, <2>2 DEF ListedIsStored
<1>4. ASSUME NEW who \in Groups \cup Pns
      PROVE  ListUnread(who)' <= Cardinality(Arrived(who)' \ Counting')
  <2> DEFINE Heard == Arrived(who) \ Counting
             Later == Arrived(who)' \ Counting'
  <2>1. Heard \subseteq Later
    <3>1. Arrived(who) \subseteq Arrived(who)'
      BY <1>1 DEF Arrived, FromOthers, RowKept
    <3>2. ASSUME NEW id \in Heard, id \in Counting' PROVE FALSE
      <4>1. id \in Ids /\ rows[id] # NoRow /\ id \notin Counting
        BY <3>2 DEF Arrived
      <4>2. At("messages", "list")' /\ task'["messages"].msg.id = id
        BY <3>2 DEF Counting
      <4>3. QED BY <1>2, <4>1, <4>2 DEF StillListed, JustStored, Counting
    <3>3. QED BY <3>1, <3>2
  <2>2. /\ IsFiniteSet(Later) /\ Cardinality(Later) \in Nat
        /\ Cardinality(Heard) \in Nat /\ Cardinality(Heard) <= Cardinality(Later)
    <3>1. Later \subseteq Ids
      BY DEF Arrived
    <3>2. IsFiniteSet(Later)
      BY <3>1, FS_Subset DEF ArrivalsAndReceipts
    <3>3. QED BY <2>1, <3>2, FS_Subset, FS_CardinalityType
  <2>3. /\ ListUnread(who) \in Nat /\ ListUnread(who)' \in Nat
        /\ ListUnread(who) <= Cardinality(Heard)
    BY <1>0, ListUnreadType, ListUnreadTypeNext DEF CountedOnce
  <2>4. CASE ~(ListUnread(who)' > ListUnread(who))
    <3> HIDE DEF Heard, Later
    <3>1. Cardinality(Later) \in Nat /\ ListUnread(who)' <= Cardinality(Later)
      BY <2>2, <2>3, <2>4
    <3>2. QED BY <3>1 DEF Later
  <2>5. CASE ListUnread(who)' > ListUnread(who)
    <3>1. Rises(who)
      BY <2>5, StepRises
    <3>2. ~Restart
      BY DEF Restart, ArrivalsAndReceipts, Undisturbed
    <3>3. ASSUME NEW c \in Chats, At("history", "history"),
                 Unread(c)' = Head(task["history"].convs).unread, Unread(c)' > Unread(c)
          PROVE  FALSE
      <4>1. Head(task["history"].convs).unread = 0
        <5>1. PICK b \in Batches : \E i \in DOMAIN b : Head(task["history"].convs) = b[i]
          BY <3>3, AtHistory
        <5>2. QED BY <5>1 DEF ArrivalsAndReceipts
      <4>2. Unread(c) \in Nat
        BY <1>0, UnreadTypes
      <4>3. QED BY <3>3, <4>1, <4>2
    <3>4. /\ At("messages", "list") /\ ~At("messages", "list")'
          /\ ~task["messages"].msg.src.fromMe /\ Identity(task["messages"].chat) = who
          /\ ListUnread(who)' = ListUnread(who) + 1
      BY <3>1, <3>2, <3>3 DEF Rises
    <3>5. PICK id \in Ids : id = task["messages"].msg.id
      BY <1>0, <3>4, ListIds
    <3>6. id \in Arrived(who) /\ id \in Counting
      BY <3>4, <3>5 DEF CountedOnce, ListedIsStored, Arrived, FromOthers, Counting
    <3>7. id \in Later /\ id \notin Heard
      BY <1>1, <3>4, <3>6 DEF Arrived, FromOthers, RowKept, Counting
    <3>8. Cardinality(Heard) + 1 <= Cardinality(Later)
      <4> HIDE DEF Heard, Later
      <4>1. IsFiniteSet(Later \ {id}) /\ Cardinality(Later \ {id}) = Cardinality(Later) - 1
        BY <2>2, <3>7, FS_RemoveElement
      <4>2. Heard \subseteq Later \ {id}
        BY <2>1, <3>7
      <4>3. Cardinality(Heard) <= Cardinality(Later \ {id})
        BY <4>1, <4>2, FS_Subset
      <4>4. QED BY <2>2, <4>1, <4>3
    <3>9. ListUnread(who)' <= Cardinality(Later)
      <4> HIDE DEF Heard, Later
      <4>1. QED BY <2>2, <2>3, <3>4, <3>8
    <3>10. QED BY <3>9
  <2>6. QED BY <2>4, <2>5
<1>5. QED BY <1>3, <1>4 DEF CountedOnce

(* No message is counted twice for a person, over both chats together,     *)
(* whichever receipts, redeliveries and merges come between storing it and *)
(* listing it.                                                             *)
THEOREM CountedOnlyOnce ==
  ASSUME ArrivalsAndReceipts
  PROVE  Spec => []NothingCountedTwice
<1> DEFINE Inv == Typed /\ reset = "no" /\ CountedOnce
<1>1. Init => Inv
  <2> SUFFICES ASSUME Init PROVE CountedOnce
    BY InitTyped DEF Init
  <2>1. Counted
    BY InitCounted
  <2>2. \A who : Arrived(who) \ Counting = {}
    BY DEF Init, Arrived, FromOthers
  <2>3. Cardinality({}) = 0
    BY FS_EmptySet
  <2>4. QED BY <2>1, <2>2, <2>3 DEF Counted, CountedOnce
<1>2. Inv /\ [Next]_vars => Inv'
  BY StepTyped, StepCountedOnce, StaysUp DEF ArrivalsAndReceipts
<1>3. CountedOnce => NothingCountedTwice
  BY DEF CountedOnce, NothingCountedTwice
<1>4. QED BY <1>1, <1>2, <1>3, PTL DEF Spec
==============================================================================
