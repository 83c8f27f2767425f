----------------------------- MODULE ChatViewProofs -----------------------------
(***************************************************************************)
(* Proofs about ChatView for any chats and messages, lengths of a page and *)
(* number of commands and updates waiting.  A view is known by what is     *)
(* above its anchor: rows are added and moved with their chat, never taken *)
(* away, so a page once above an anchor stays there (Paged, PagedStays),   *)
(* whichever goroutine carries the anchor and whatever happens meanwhile.  *)
(***************************************************************************)
EXTENDS ChatView, WellFoundedInduction, FiniteSetTheorems, TLAPS

(* The chat that has the messages of `chat' by now. *)
Now(chat) == IF merged /\ chat = LidChat THEN PnChat ELSE chat

Between(chat, low, high) ==
  {id \in Ids : rows[id] = chat /\ low <= TsOf[id] /\ TsOf[id] < high}

(* From `low' up to `high' there is all of the chat, or n messages. *)
Paged(chat, low, high, n) == low = 0 \/ Cardinality(Between(Now(chat), low, high)) >= n

(* A merge leaves no row of the LID chat, and none comes afterwards. *)
RowsMove ==
  /\ merger.at = "idle" <=> ~merged
  /\ merged => \A id \in Ids : rows[id] # LidChat

(* The view and every anchor a command carries towards it have a page. *)
ViewPaged ==
  /\ current # None => Paged(current, anchor, Infinity, PageSize)
  /\ manager.at \in {"open", "page", "set"} =>
       Paged(manager.chat, manager.anchor, Infinity, PageSize)
  /\ manager.at = "set" => Paged(manager.chat, manager.anchor, manager.from, MorePageSize)

Inv == TypeOK /\ RowsMove /\ ViewPaged
------------------------------------------------------------------------------
LEMMA Numbers ==
  /\ {PageSize, MorePageSize, MaxCommands, MaxDraws} \subseteq Nat \ {0} /\ Infinity \in Nat
  /\ IsFiniteSet(Ids) /\ Live \subseteq Ids /\ ChatOf \in [Ids -> Chats]
  /\ \A id \in Ids : TsOf[id] \in 1..(Infinity - 1) /\ ChatOf[id] \in Chats
  /\ None \notin Chats /\ LidChat \in Chats /\ PnChat \in Chats /\ LidChat # PnChat
BY ChatViewAssumption

(* Every set of messages is finite, and the larger has no fewer. *)
LEMMA Counted ==
  ASSUME NEW S, NEW T, S \subseteq T, T \subseteq Ids
  PROVE  /\ IsFiniteSet(S) /\ IsFiniteSet(T)
         /\ Cardinality(S) \in Nat /\ Cardinality(T) \in Nat
         /\ Cardinality(S) <= Cardinality(T)
<1>1. IsFiniteSet(T) /\ S \in SUBSET T
  BY Numbers, FS_Subset
<1>2. QED BY <1>1, FS_Subset, FS_CardinalityType

(* The largest number of a bounded set: the smallest distance to the bound. *)
Earlier == {p \in Nat \X Nat : p[1] < p[2]}

LEMMA Largest ==
  ASSUME NEW n \in Nat, NEW S, S \subseteq 0..n, S # {}
  PROVE  \E x \in S : \A y \in S : y <= x
<1> DEFINE D == {n - x : x \in S}
<1>0. \A x \in S : n - x \in Nat
  OBVIOUS
<1>1. D \subseteq Nat /\ D # {}
  BY <1>0
<1>2. IsWellFoundedOn(Earlier, Nat)
  BY NatLessThanWellFounded DEF OpToRel, Earlier
<1>3. PICK d \in D : \A e \in D : <<e, d>> \notin Earlier
  <2> HIDE DEF D
  <2> QED BY <1>1, <1>2, WFMin
<1>4. PICK x \in S : d = n - x
  OBVIOUS
<1>5. ASSUME NEW y \in S PROVE y <= x
  <2>1. <<n - y, n - x>> \in Nat \X Nat
    OBVIOUS
  <2>2. ~(n - y < n - x)
    BY <2>1, <1>3, <1>4 DEF Earlier
  <2>3. QED BY <2>2
<1>6. QED BY <1>5

(* NthTimestampBefore returns 0 or the time of the n-th newest message:    *)
(* from there on are n, and from there on without its second are fewer.    *)
LEMMA NthBeforeFacts ==
  ASSUME NEW chat, NEW before \in Nat, NEW n \in Nat \ {0}
  PROVE  LET t == NthBefore(chat, before, n) IN
         /\ t \in Nat
         /\ t = 0 \/ (t < before /\ Cardinality(Between(chat, t, before)) >= n)
<1> DEFINE older == {id \in Ids : rows[id] = chat /\ TsOf[id] < before}
           above(t) == {id \in older : TsOf[id] > t}
           from(t) == {id \in older : TsOf[id] >= t}
           times == {TsOf[id] : id \in older}
           T == {t \in 0..Infinity : n <= Cardinality(from(t))}
<1>1. older \subseteq Ids /\ \A t : above(t) \subseteq Ids /\ from(t) \subseteq Ids
  OBVIOUS
<1>2. \A t : Cardinality(above(t)) \in Nat /\ Cardinality(from(t)) \in Nat
  BY <1>1, Counted
<1>3. CASE Cardinality(older) < n
  BY <1>3 DEF NthBefore
<1>4. CASE ~(Cardinality(older) < n)
  <2>1. Cardinality(older) \in Nat
    BY <1>1, Counted
  <2>2. from(0) = older
    BY Numbers
  <2>3. 0 \in T
    BY <2>1, <2>2, <1>4, Numbers
  <2>4. PICK t \in T : \A u \in T : u <= t
    <3>1. T \subseteq 0..Infinity /\ T # {} /\ Infinity \in Nat
      BY <2>3, Numbers
    <3> HIDE DEF T
    <3>2. QED BY <3>1, Largest
  <2>5. t \in 0..Infinity /\ n <= Cardinality(from(t))
    OBVIOUS
  <2>6. from(t + 1) = above(t)
    BY <2>5, Numbers
  <2>7. Cardinality(above(t)) < n
    <3>1. CASE t + 1 \in 0..Infinity
      <4>1. t + 1 \notin T
        BY <2>4, <2>5
      <4>2. ~(n <= Cardinality(from(t + 1)))
        BY <4>1, <3>1
      <4>3. Cardinality(above(t)) \in Nat
        BY <1>2
      <4> HIDE DEF above, from
      <4>4. QED BY <4>2, <4>3, <2>6
    <3>2. CASE t + 1 \notin 0..Infinity
      <4>1. above(t) = {}
        BY <3>2, <2>5, Numbers
      <4>2. QED BY <4>1, FS_EmptySet
    <3>3. QED BY <3>1, <3>2
  <2>8. t \in times
    <3>1. from(t) # above(t)
      BY <2>5, <2>7, <1>2
    <3>2. QED BY <3>1, <2>5, Numbers
  <2> DEFINE r == NthBefore(chat, before, n)
  <2>9. r = CHOOSE u \in times : Cardinality(above(u)) < n /\ n <= Cardinality(from(u))
    BY <1>4 DEF NthBefore
  <2>10. r \in times /\ n <= Cardinality(from(r))
    <3> HIDE DEF r, times, above, from
    <3> QED BY <2>5, <2>7, <2>8, <2>9
  <2>11. r \in Nat /\ r < before
    BY <2>10, Numbers
  <2>12. from(r) = Between(chat, r, before)
    BY DEF Between
  <2>13. QED BY <2>10, <2>11, <2>12, <1>2
<1>5. QED BY <1>3, <1>4
------------------------------------------------------------------------------
(* A page stays: as long as a chat keeps its messages, in the chat it is   *)
(* merged into perhaps, anchors keep what is above them.                   *)
Kept(chat) == \A id \in Ids : rows[id] = Now(chat) => rows'[id] = Now(chat)'

LEMMA PagedStays ==
  ASSUME NEW chat \in Chats, NEW low \in Nat, NEW high \in Nat, NEW n \in Nat,
         Kept(chat), Paged(chat, low, high, n)
  PROVE  Paged(chat, low, high, n)'
<1> DEFINE S == Between(Now(chat), low, high)
<1>1. S \subseteq S' /\ S' \subseteq Ids
  BY DEF Between, Kept
<1>2. Cardinality(S) \in Nat /\ Cardinality(S') \in Nat /\ Cardinality(S) <= Cardinality(S')
  BY <1>1, Counted
<1>3. QED BY <1>2 DEF Paged

(* The lower of two anchors has the page of the higher. *)
LEMMA PagedBelow ==
  ASSUME NEW chat, NEW low \in Nat, NEW high \in Nat, NEW lower \in Nat, NEW n \in Nat,
         lower < low \/ lower = 0, Paged(chat, low, high, n)
  PROVE  Paged(chat, lower, high, n)
<1> DEFINE S == Between(Now(chat), low, high)
           T == Between(Now(chat), lower, high)
<1>1. CASE lower = 0
  BY <1>1 DEF Paged
<1>2. CASE lower # 0
  <2>1. S \subseteq T /\ T \subseteq Ids
    BY <1>2, Numbers DEF Between
  <2>2. Cardinality(S) \in Nat /\ Cardinality(T) \in Nat /\ Cardinality(S) <= Cardinality(T)
    BY <2>1, Counted
  <2>3. Cardinality(S) >= n
    BY <1>2 DEF Paged
  <2>4. Cardinality(T) >= n
    BY <2>2, <2>3
  <2>5. QED BY <2>4 DEF Paged
<1>3. QED BY <1>1, <1>2

(* Nothing that happens takes a message out of a chat. *)
LEMMA ChatsKeepMessages ==
  ASSUME Inv, [Next]_vars, NEW chat \in Chats
  PROVE  Kept(chat)
<1>1. CASE UNCHANGED <<rows, merged>>
  BY <1>1 DEF Kept, Now
<1>2. ASSUME NEW id \in Ids, rows[id] = None, Store(id), UNCHANGED merged
      PROVE  Kept(chat)
  BY <1>2, Numbers DEF Store, Kept, Now, Inv, TypeOK
<1>3. CASE MergeRows
  BY <1>3, Numbers DEF MergeRows, Kept, Now, Inv, RowsMove, Idle
<1>4. QED
  BY <1>1, <1>2, <1>3 DEF Next, vars, goroutines, ui, SetDisplayedChat, AskForMore, Draw,
     Select, SetReceiver, ShowScreen, More, MorePage, MoreSet, Arrive, HistoryStore, ShowNew,
     StartHistory, HistoryStored, LowerViewAnchor, HistoryRefresh, MergeOpen, MergeDraw
------------------------------------------------------------------------------
LEMMA AnchorTypes ==
  /\ \A chat \in Chats : OpenAnchor(chat) \in Nat
  /\ \A chat \in Chats, before \in Nat : NthBefore(chat, before, MorePageSize) \in Nat
BY Numbers, NthBeforeFacts DEF OpenAnchor

LEMMA ScreenType == \A chat : Screen(chat) \in [do: {"screen"}, msgs: SUBSET Ids]
BY DEF Screen, Messages

(* Every order of a set of messages is a sequence of messages. *)
LEMMA OrdersAreSequences ==
  ASSUME NEW msgs \in SUBSET Ids, NEW seq \in OldestFirst(msgs)
  PROVE  seq \in Seq(Ids)
<1>1. Cardinality(msgs) \in Nat
  BY Counted
<1>2. seq \in [1..Cardinality(msgs) -> msgs]
  BY DEF OldestFirst, SetToSeqs
<1>3. seq \in [1..Cardinality(msgs) -> Ids]
  BY <1>2
<1>4. QED BY <1>1, <1>3

LEMMA InitInv == Init => Inv
<1> SUFFICES ASSUME Init PROVE Inv
  OBVIOUS
<1>1. TypeOK
  <2>1. rows \in [Ids -> Chats \cup {None}]
    BY Numbers DEF Init
  <2>2. commands \in Seq([do: {"select"}, chat: Chats] \cup [do: {"more"}]) /\ pane \in Seq(Ids)
    BY DEF Init
  <2>3. merger \in [at: {"idle", "move", "draw", "done"}]
    BY DEF Init, Idle
  <2>4. QED BY <2>1, <2>2, <2>3 DEF Init, TypeOK
<1>2. RowsMove
  BY DEF Init, RowsMove, Idle
<1>3. ViewPaged
  BY DEF Init, ViewPaged, Idle
<1>4. QED BY <1>1, <1>2, <1>3 DEF Inv

LEMMA StepTyped == Inv /\ [Next]_vars => TypeOK'
<1> SUFFICES ASSUME Inv, [Next]_vars PROVE TypeOK'
  OBVIOUS
<1>0. TypeOK
  BY DEF Inv
<1>1. ASSUME NEW chat \in Chats, SetDisplayedChat(chat) PROVE TypeOK'
  BY <1>0, <1>1 DEF TypeOK, SetDisplayedChat, Give, goroutines
<1>2. CASE AskForMore
  BY <1>0, <1>2 DEF TypeOK, AskForMore, Give, goroutines, ui
<1>3. ASSUME NEW update \in draws, Draw(update) PROVE TypeOK'
  <2>0. draws' \subseteq draws /\ UNCHANGED <<rows, merged, current, anchor, commands, goroutines, uiChat>>
    BY <1>3 DEF Draw
  <2>1. CASE update.do = "screen"
    <3>1. update.msgs \in SUBSET Ids
      BY <1>0, <2>1 DEF TypeOK
    <3>2. pane' \in Seq(Ids)
      BY <1>3, <2>1, <3>1, OrdersAreSequences DEF Draw
    <3>3. QED BY <1>0, <2>0, <3>2 DEF TypeOK, goroutines
  <2>2. CASE update.do = "append"
    <3>1. pane \in Seq(Ids) /\ update.id \in Ids
      BY <1>0, <2>2 DEF TypeOK
    <3>2. pane' \in Seq(Ids)
      BY <1>3, <2>2, <3>1 DEF Draw
    <3>3. QED BY <1>0, <2>0, <3>2 DEF TypeOK, goroutines
  <2>3. QED BY <1>3, <2>1, <2>2 DEF Draw
<1>4. CASE Select
  <2>1. Head(commands).chat \in Chats /\ commands' \in Seq([do: {"select"}, chat: Chats] \cup [do: {"more"}])
    BY <1>0, <1>4 DEF TypeOK, Select, NextIs
  <2>2. manager' \in [at: {"open", "page"}, chat: Chats, anchor: Nat]
    BY <1>4, <2>1, AnchorTypes DEF Select
  <2>3. QED BY <1>0, <1>4, <2>1, <2>2 DEF TypeOK, Select, ui
<1>5. CASE SetReceiver
  BY <1>0, <1>5 DEF TypeOK, SetReceiver, Idle, ui
<1>6. CASE ShowScreen
  BY <1>0, <1>6, ScreenType DEF TypeOK, ShowScreen, Queue
<1>7. CASE More
  BY <1>0, <1>7 DEF TypeOK, More, NextIs, ui
<1>8. CASE MorePage
  <2>1. manager \in [at: {"open", "page"}, chat: Chats, anchor: Nat]
    BY <1>0, <1>8 DEF TypeOK, MorePage, Idle
  <2>2. manager' \in [at: {"set"}, chat: Chats, from: Nat, anchor: Nat]
    BY <1>8, <2>1, AnchorTypes DEF MorePage
  <2>3. QED BY <1>0, <1>8, <2>2 DEF TypeOK, MorePage, ui
<1>9. CASE MoreSet
  BY <1>0, <1>9 DEF TypeOK, MoreSet, Idle, ui
<1>10. ASSUME NEW id \in Ids, Arrive(id) PROVE TypeOK'
  BY <1>0, <1>10, Numbers DEF TypeOK, Arrive, Store, ChatNow, ui
<1>11. ASSUME NEW id \in Ids, HistoryStore(id) PROVE TypeOK'
  <2>1. history \in [at: {"store", "lower", "refresh"}, chat: Chats \cup {None}, oldest: Nat]
    BY <1>0, <1>11 DEF TypeOK, HistoryStore, Idle
  <2>2. history' \in [at: {"store", "lower", "refresh"}, chat: Chats \cup {None}, oldest: Nat]
    BY <1>11, <2>1, Numbers DEF HistoryStore
  <2>3. QED BY <1>0, <1>11, <2>2, Numbers DEF TypeOK, HistoryStore, Store, ChatNow, ui
<1>12. CASE ShowNew
  BY <1>0, <1>12 DEF TypeOK, ShowNew, Queue, Idle
<1>13. CASE StartHistory
  BY <1>0, <1>13, Numbers DEF TypeOK, StartHistory, ui
<1>14. CASE HistoryStored \/ LowerViewAnchor \/ HistoryRefresh
  <2>1. history \in [at: {"store", "lower", "refresh"}, chat: Chats \cup {None}, oldest: Nat]
    BY <1>0, <1>14 DEF TypeOK, HistoryStored, LowerViewAnchor, HistoryRefresh, Idle
  <2>2. CASE HistoryStored
    BY <1>0, <2>1, <2>2 DEF TypeOK, HistoryStored, ui
  <2>3. CASE LowerViewAnchor
    BY <1>0, <2>1, <2>3 DEF TypeOK, LowerViewAnchor, ui
  <2>4. CASE HistoryRefresh
    BY <1>0, <2>1, <2>4, ScreenType DEF TypeOK, HistoryRefresh, Queue
  <2>5. QED BY <1>14, <2>2, <2>3, <2>4
<1>15. CASE MergeRows
  BY <1>0, <1>15, Numbers DEF TypeOK, MergeRows, ui
<1>16. CASE MergeOpen
  BY <1>0, <1>16, Numbers DEF TypeOK, MergeOpen, ui
<1>17. CASE MergeDraw
  BY <1>0, <1>17, ScreenType DEF TypeOK, MergeDraw, Queue
<1>18. CASE UNCHANGED vars
  BY <1>0, <1>18 DEF TypeOK, vars, goroutines, ui
<1>19. QED
  BY <1>1, <1>2, <1>3, <1>4, <1>5, <1>6, <1>7, <1>8, <1>9, <1>10, <1>11, <1>12, <1>13, <1>14,
     <1>15, <1>16, <1>17, <1>18 DEF Next
------------------------------------------------------------------------------
LEMMA StepRowsMove == Inv /\ [Next]_vars => RowsMove'
<1> SUFFICES ASSUME Inv, [Next]_vars PROVE RowsMove'
  OBVIOUS
<1>1. CASE UNCHANGED <<rows, merged, merger>>
  BY <1>1 DEF Inv, RowsMove
<1>2. ASSUME NEW id \in Ids, Store(id), UNCHANGED <<merged, merger>> PROVE RowsMove'
  <2>1. merged => ChatNow(id) # LidChat
    BY Numbers DEF ChatNow
  <2>2. QED BY <1>2, <2>1 DEF Inv, TypeOK, RowsMove, Store
<1>3. CASE MergeRows
  BY <1>3, Numbers DEF MergeRows, RowsMove
<1>4. CASE MergeOpen \/ MergeDraw
  BY <1>4 DEF MergeOpen, MergeDraw, Inv, TypeOK, RowsMove
<1>5. QED
  BY <1>1, <1>2, <1>3, <1>4 DEF Next, vars, goroutines, ui, SetDisplayedChat, AskForMore, Draw,
     Select, SetReceiver, ShowScreen, More, MorePage, MoreSet, Arrive, HistoryStore, ShowNew,
     StartHistory, HistoryStored, LowerViewAnchor, HistoryRefresh

(* What NthTimestampBefore returns begins a page. *)
LEMMA PageFound ==
  ASSUME Inv, NEW chat \in Chats, NEW before \in Nat, NEW n \in Nat \ {0}
  PROVE  LET t == NthBefore(chat, before, n) IN
         t \in Nat /\ (t = 0 \/ t < before) /\ Paged(chat, t, before, n)
<1> DEFINE t == NthBefore(chat, before, n)
<1>1. /\ t \in Nat
      /\ t = 0 \/ (t < before /\ Cardinality(Between(chat, t, before)) >= n)
  BY NthBeforeFacts
<1> HIDE DEF t
<1>2. CASE Now(chat) = chat
  BY <1>1, <1>2 DEF Paged, t
<1>3. CASE Now(chat) # chat
  <2>1. Between(chat, t, before) = {}
    BY <1>3 DEF Now, Between, Inv, RowsMove
  <2>2. Cardinality(Between(chat, t, before)) = 0
    BY <2>1, FS_EmptySet
  <2>3. t = 0
    BY <1>1, <2>2
  <2>4. QED BY <1>1, <2>3 DEF Paged, t
<1>4. QED BY <1>2, <1>3

LEMMA StepViewPaged == Inv /\ [Next]_vars => ViewPaged'
<1> SUFFICES ASSUME Inv, [Next]_vars PROVE ViewPaged'
  OBVIOUS
<1>1. /\ current # None => current \in Chats
      /\ anchor \in Nat
      /\ manager.at \in {"open", "page", "set"} => manager.chat \in Chats /\ manager.anchor \in Nat
      /\ manager.at = "set" => manager.from \in Nat
  BY DEF Inv, TypeOK, Idle
<1>2. /\ Infinity \in Nat /\ PageSize \in Nat \ {0} /\ MorePageSize \in Nat \ {0}
      /\ None \notin Chats /\ LidChat \in Chats
  BY Numbers
<1>3. \A chat \in Chats, low, high, n \in Nat : Paged(chat, low, high, n) => Paged(chat, low, high, n)'
  BY ChatsKeepMessages, PagedStays
<1>4. /\ current # None => Paged(current, anchor, Infinity, PageSize)
      /\ manager.at \in {"open", "page", "set"} =>
           Paged(manager.chat, manager.anchor, Infinity, PageSize)
      /\ manager.at = "set" => Paged(manager.chat, manager.anchor, manager.from, MorePageSize)
  BY DEF Inv, ViewPaged
<1>5. /\ manager'.at \in {"open", "page", "set"} /\ UNCHANGED manager =>
           Paged(manager.chat, manager.anchor, Infinity, PageSize)'
      /\ manager'.at = "set" /\ UNCHANGED manager =>
           Paged(manager.chat, manager.anchor, manager.from, MorePageSize)'
      /\ current' # None /\ UNCHANGED <<current, anchor>> =>
           Paged(current, anchor, Infinity, PageSize)'
  BY <1>1, <1>2, <1>3, <1>4
<1>6. CASE UNCHANGED <<current, anchor, manager>>
  BY <1>5, <1>6 DEF ViewPaged
<1>7. CASE Select
  <2>1. PICK chat \in Chats : chat = Head(commands).chat
    BY <1>7 DEF Inv, TypeOK, Select, NextIs
  <2>2. PICK a \in Nat : a = OpenAnchor(chat) /\ Paged(chat, a, Infinity, PageSize)
    BY <1>2, PageFound DEF OpenAnchor
  <2>3. Paged(chat, a, Infinity, PageSize)'
    BY <1>2, <1>3, <2>2
  <2>4. manager' = [at |-> "open", chat |-> chat, anchor |-> a]
    BY <1>7, <2>1, <2>2 DEF Select
  <2>5. Paged(manager.chat, manager.anchor, Infinity, PageSize)'
    BY <2>3, <2>4
  <2>6. QED BY <1>5, <1>7, <2>4, <2>5 DEF Select, ViewPaged
<1>8. CASE SetReceiver
  BY <1>1, <1>2, <1>3, <1>4, <1>8 DEF SetReceiver, ViewPaged
<1>9. CASE ShowScreen
  BY <1>5, <1>9 DEF ShowScreen, ViewPaged, Idle
<1>10. CASE More
  BY <1>5, <1>10 DEF More, ViewPaged, Idle
<1>11. CASE MorePage
  <2> DEFINE t == NthBefore(manager.chat, manager.anchor, MorePageSize)
  <2>1. /\ t \in Nat /\ (t = 0 \/ t < manager.anchor)
        /\ Paged(manager.chat, t, manager.anchor, MorePageSize)
    BY <1>1, <1>2, <1>11, PageFound DEF MorePage
  <2>2. Paged(manager.chat, t, Infinity, PageSize)
    BY <1>1, <1>2, <1>4, <1>11, <2>1, PagedBelow DEF MorePage
  <2>3. manager' = [at |-> "set", chat |-> manager.chat, from |-> manager.anchor, anchor |-> t]
    BY <1>11 DEF MorePage
  <2> HIDE DEF t
  <2>4. Paged(manager.chat, manager.anchor, Infinity, PageSize)'
    BY <1>1, <1>2, <1>3, <2>1, <2>2, <2>3, <1>11 DEF MorePage, Paged, Between, Now
  <2>5. Paged(manager.chat, manager.anchor, manager.from, MorePageSize)'
    BY <1>1, <1>2, <2>1, <2>3, <1>11 DEF MorePage, Paged, Between, Now
  <2>6. QED BY <1>5, <1>11, <2>4, <2>5 DEF MorePage, ViewPaged
<1>12. CASE MoreSet
  BY <1>1, <1>2, <1>3, <1>4, <1>5, <1>12 DEF MoreSet, ViewPaged, Idle
<1>13. CASE LowerViewAnchor
  <2>1. CASE current = history.chat /\ history.oldest < anchor /\ current # None
    <3>1. history.oldest \in Nat
      BY <1>13 DEF LowerViewAnchor, Inv, TypeOK, Idle
    <3>2. Paged(current, history.oldest, Infinity, PageSize)
      BY <1>1, <1>2, <1>4, <2>1, <3>1, PagedBelow
    <3>3. Paged(current, anchor, Infinity, PageSize)'
      BY <1>13, <2>1, <3>2 DEF LowerViewAnchor, Paged, Between, Now
    <3>4. QED BY <1>5, <1>13, <3>3 DEF LowerViewAnchor, ViewPaged
  <2>2. CASE ~(current = history.chat /\ history.oldest < anchor /\ current # None)
    BY <1>5, <1>13, <2>2 DEF LowerViewAnchor, ViewPaged
  <2>3. QED BY <2>1, <2>2
<1>14. CASE MergeOpen
  <2>1. merged
    BY <1>14 DEF MergeOpen, Inv, RowsMove
  <2>2. current' # None => Paged(current, anchor, Infinity, PageSize)'
    BY <1>4, <1>14, <2>1, <1>2 DEF MergeOpen, Paged, Between, Now
  <2>3. QED BY <1>5, <1>14, <2>2 DEF MergeOpen, ViewPaged
<1>15. QED
  BY <1>6, <1>7, <1>8, <1>9, <1>10, <1>11, <1>12, <1>13, <1>14 DEF Next, vars, goroutines, ui,
     SetDisplayedChat, AskForMore, Draw, Arrive, HistoryStore, ShowNew, StartHistory,
     HistoryStored, HistoryRefresh, MergeRows, MergeDraw

LEMMA Invariant == Spec => []Inv
BY InitInv, StepTyped, StepRowsMove, StepViewPaged, PTL DEF Spec, Inv
------------------------------------------------------------------------------
(* The anchors, the commands and updates that wait and the pane keep their *)
(* types, whatever order updates are drawn in.                             *)
THEOREM TypeCorrect == Spec => []TypeOK
<1>1. Inv => TypeOK
  BY DEF Inv
<1>2. QED BY <1>1, Invariant, PTL

(* chat_view.go: however opening, paging, history syncs and a merge        *)
(* interleave, the open chat shows its newest page, or all of it.          *)
THEOREM PageStaysVisible == Spec => []FullPageVisible
<1>1. Inv => FullPageVisible
  <2> SUFFICES ASSUME Inv, current # None
               PROVE  Cardinality(Visible) >= Smaller(PageSize, Cardinality(Messages(current, 0)))
    BY DEF FullPageVisible
  <2>1. /\ Cardinality(Visible) \in Nat /\ Cardinality(Messages(current, 0)) \in Nat
        /\ PageSize \in Nat
    BY Counted, Numbers DEF Visible, Messages
  <2>2. CASE anchor = 0
    BY <2>1, <2>2 DEF Visible, Smaller
  <2>3. CASE Now(current) # current
    <3>1. Messages(current, 0) = {}
      BY <2>3 DEF Now, Messages, Inv, RowsMove
    <3>2. QED BY <2>1, <3>1, FS_EmptySet DEF Smaller
  <2>4. CASE anchor # 0 /\ Now(current) = current
    <3>1. Cardinality(Between(current, anchor, Infinity)) >= PageSize
      BY <2>4 DEF Inv, ViewPaged, Paged
    <3>2. Between(current, anchor, Infinity) \subseteq Visible
      BY Numbers DEF Between, Visible, Messages, Inv, TypeOK
    <3>3. Between(current, anchor, Infinity) = Visible
      BY <3>2, Numbers DEF Between, Visible, Messages, Inv, TypeOK
    <3>4. QED BY <2>1, <3>1, <3>3 DEF Smaller
  <2>5. QED BY <2>2, <2>3, <2>4
<1>2. QED BY <1>1, Invariant, PTL

(* cmd_basic.go, cmdMore: what /more was asked for appears even if, between *)
(* its query and its setting the anchor, messages arrive or the chat is    *)
(* merged.                                                                 *)
THEOREM MoreAlwaysReveals == Spec => MoreRevealsPage
<1> DEFINE older == {id \in Ids : rows[id] = current /\ TsOf[id] < manager.from}
           Revealed == Cardinality(older \cap Visible') >= Smaller(MorePageSize, Cardinality(older))
<1>1. ASSUME Inv, MoreSet, manager'.at = "screen" PROVE Revealed
  <2>1. /\ manager \in [at: {"set"}, chat: Chats, from: Nat, anchor: Nat]
        /\ current = manager.chat /\ current' = current /\ anchor' = manager.anchor
        /\ UNCHANGED rows
    BY <1>1 DEF MoreSet, Inv, TypeOK, Idle
  <2>2. older \cap Visible' = Between(current, manager.anchor, manager.from)
    BY <2>1 DEF Visible, Messages, Between
  <2>3. older \subseteq Ids /\ Between(current, manager.anchor, manager.from) \subseteq older
    BY DEF Between
  <2> DEFINE shown == Between(current, manager.anchor, manager.from)
  <2>4. Cardinality(older) \in Nat /\ Cardinality(shown) \in Nat /\ MorePageSize \in Nat
    BY <2>3, Counted, Numbers
  <2>5. CASE manager.anchor = 0
    <3>1. shown = older
      BY <2>5, Numbers DEF Between
    <3>2. QED BY <2>2, <2>4, <3>1 DEF Smaller
  <2>6. CASE Now(current) # current
    <3>1. older = {}
      BY <1>1, <2>6 DEF Now, Inv, RowsMove
    <3>2. QED BY <2>2, <2>4, <3>1, FS_EmptySet DEF Smaller
  <2>7. CASE manager.anchor # 0 /\ Now(current) = current
    <3>1. Cardinality(shown) >= MorePageSize
      BY <1>1, <2>1, <2>7 DEF Inv, ViewPaged, Paged
    <3> HIDE DEF shown, older
    <3>2. QED BY <2>2, <2>4, <3>1 DEF Smaller, shown
  <2>8. QED BY <2>5, <2>6, <2>7
<1>2. Inv /\ [Next]_vars => [MoreSet /\ manager'.at = "screen" => Revealed]_vars
  BY <1>1
<1>3. QED BY <1>2, Invariant, PTL DEF Spec, MoreRevealsPage
==============================================================================
