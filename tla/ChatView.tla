------------------------------- MODULE ChatView -------------------------------
(***************************************************************************)
(* The open chat: what the message pane shows of the messages stored.      *)
(* SessionManager keeps the open chat (currentReceiver) and the timestamp  *)
(* its view starts at (viewAnchor); the UI keeps the chat it displays and  *)
(* the pane (chat_view.go, chat_state.go, cmd_basic.go, cmd_chat.go,       *)
(* history_sync.go, lid_merge.go, event_handler.go, ui_handler.go,         *)
(* ui_helpers.go).                                                         *)
(*                                                                         *)
(* Commands reach runManager through a channel, in order.  Every UI update *)
(* is queued by a goroutine of its own, so updates are drawn in any order. *)
(* getMessages reads the anchor and the rows in one step here: an update   *)
(* computed from rows read earlier is among the delayed ones anyway.       *)
(* Left out: deletions and revokes, and the UI updates that draw a chat    *)
(* again without a change of the view.                                     *)
(***************************************************************************)
EXTENDS Naturals, SequencesExt

CONSTANTS
  Chats, LidChat, PnChat,  \* LidChat is to be merged into PnChat
  Ids, TsOf, ChatOf,       \* messages: timestamp, and chat they are stored under
  Live,                    \* those that arrive one by one; the others by history
  Infinity,                \* newer than every message (MaxInt64)
  PageSize, MorePageSize,  \* 200 and 200 in the code
  MaxCommands,             \* bound: commands waiting
  MaxDraws,                \* bound: UI updates waiting
  None

ASSUME ChatViewAssumption ==
  /\ {LidChat, PnChat} \subseteq Chats /\ LidChat # PnChat /\ None \notin Chats
  /\ IsFiniteSet(Ids) /\ Live \subseteq Ids
  /\ Infinity \in Nat /\ TsOf \in [Ids -> 1..(Infinity - 1)] /\ ChatOf \in [Ids -> Chats]
  /\ {PageSize, MorePageSize, MaxCommands, MaxDraws} \subseteq Nat \ {0}

VARIABLES
  rows,      \* the chat each message is stored under, or None
  merged,    \* the messages of LidChat have moved
  current,   \* currentReceiver
  anchor,    \* viewAnchor
  commands,  \* CommandChannel
  manager, live, history, merger,   \* what each goroutine is at
  uiChat,    \* ctx.CurrentReceiver
  draws,     \* queued UI updates
  pane       \* the messages in the pane, in order

goroutines == <<manager, live, history, merger>>
ui         == <<uiChat, draws, pane>>
vars       == <<rows, merged, current, anchor, commands, goroutines, ui>>

Idle     == [at |-> "idle"]

Messages(chat, since) == {id \in Ids : rows[id] = chat /\ TsOf[id] >= since}
Visible               == Messages(current, anchor)

TypeOK ==
  /\ rows \in [Ids -> Chats \cup {None}] /\ merged \in BOOLEAN
  /\ current \in Chats \cup {None} /\ anchor \in Nat
  /\ commands \in Seq([do: {"select"}, chat: Chats] \cup [do: {"more"}])
  /\ manager \in {Idle} \cup [at: {"screen"}, chat: Chats]
                       \cup [at: {"open", "page"}, chat: Chats, anchor: Nat]
                       \cup [at: {"set"}, chat: Chats, from: Nat, anchor: Nat]
  /\ live \in {Idle} \cup [at: {"show"}, id: Ids, chat: Chats]
  /\ history \in {Idle} \cup [at: {"store", "lower", "refresh"}, chat: Chats \cup {None}, oldest: Nat]
  /\ merger \in [at: {"idle", "move", "draw", "done"}]
  /\ uiChat \in Chats \cup {None}
  /\ draws \subseteq ([do: {"screen"}, msgs: SUBSET Ids] \cup [do: {"append"}, id: Ids])
  /\ pane \in Seq(Ids)

(* Any of the old messages may be stored from earlier; no chat is open. *)
Init ==
  /\ \E old \in SUBSET (Ids \ Live) : rows = [id \in Ids |-> IF id \in old THEN ChatOf[id] ELSE None]
  /\ merged = FALSE
  /\ current = None /\ anchor = 0 /\ commands = <<>>
  /\ manager = Idle /\ live = Idle /\ history = Idle /\ merger = Idle
  /\ uiChat = None /\ draws = {} /\ pane = <<>>
------------------------------------------------------------------------------
(* Mutant of NthBefore: the messages of all chats are counted. *)
NthBeforeAnywhere(chat, before, n) ==
  LET older == {id \in Ids : rows[id] # None /\ TsOf[id] < before}
  IN IF Cardinality(older) < n THEN 0
     ELSE CHOOSE t \in {TsOf[id] : id \in older} :
            /\ Cardinality({id \in older : TsOf[id] > t}) < n
            /\ n <= Cardinality({id \in older : TsOf[id] >= t})

(* NthTimestampBefore: the n-th newest message older than `before', or 0.  *)
NthBefore(chat, before, n) ==
  LET older == {id \in Ids : rows[id] = chat /\ TsOf[id] < before}
      above(t) == Cardinality({id \in older : TsOf[id] > t})
  IN IF Cardinality(older) < n THEN 0
     ELSE CHOOSE t \in {TsOf[id] : id \in older} :
            above(t) < n /\ n <= Cardinality({id \in older : TsOf[id] >= t})

OpenAnchor(chat) == NthBefore(chat, Infinity, PageSize)

(* getMessages: from the anchor for the open chat, else the newest page. *)
Screen(chat) ==
  [do |-> "screen",
   msgs |-> Messages(chat, IF chat = current THEN anchor ELSE OpenAnchor(chat))]

Queue(update) == Cardinality(draws) < MaxDraws /\ draws' = draws \cup {update}
------------------------------------------------------------------------------
(* The UI: SetDisplayedChat, the /more command, and a queued update drawn. *)
Give(command) ==
  Len(commands) < MaxCommands /\ commands' = Append(commands, command)

SetDisplayedChat(chat) ==
  /\ Give([do |-> "select", chat |-> chat])
  /\ uiChat' = chat /\ pane' = <<>>
  /\ UNCHANGED <<rows, merged, current, anchor, goroutines, draws>>

AskForMore ==
  /\ Give([do |-> "more"])
  /\ UNCHANGED <<rows, merged, current, anchor, goroutines, ui>>

(* ORDER BY timestamp: messages of one second come in any order. *)
OldestFirst(msgs) ==
  {seq \in SetToSeqs(msgs) : \A i, j \in DOMAIN seq : i < j => TsOf[seq[i]] <= TsOf[seq[j]]}

Draw(update) ==
  /\ draws' = draws \ {update}
  /\ \/ update.do = "screen" /\ pane' \in OldestFirst(update.msgs)
     \/ update.do = "append" /\ pane' = Append(pane, update.id)
  /\ UNCHANGED <<rows, merged, current, anchor, commands, goroutines, uiChat>>
------------------------------------------------------------------------------
(* runManager takes the next command. *)
NextIs(do) ==
  /\ manager = Idle /\ commands # <<>> /\ Head(commands).do = do
  /\ commands' = Tail(commands)

(* setCurrentReceiver: the anchor is read, then set with the chat. *)
Select ==
  /\ NextIs("select")
  /\ LET chat == Head(commands).chat IN
     manager' = [at |-> "open", chat |-> chat, anchor |-> OpenAnchor(chat)]
  /\ UNCHANGED <<rows, merged, current, anchor, live, history, merger, ui>>

SetReceiver ==
  /\ manager.at = "open"
  /\ current' = manager.chat /\ anchor' = manager.anchor
  /\ manager' = [at |-> "screen", chat |-> manager.chat]
  /\ UNCHANGED <<rows, merged, commands, live, history, merger, ui>>

ShowScreen ==
  /\ manager.at = "screen"
  /\ Queue(Screen(manager.chat))
  /\ manager' = Idle
  /\ UNCHANGED <<rows, merged, current, anchor, commands, live, history, merger, uiChat, pane>>

(* cmdMore: read chat and anchor; page back; set, unless the chat changed. *)
More ==
  /\ NextIs("more")
  /\ manager' = IF current = None \/ anchor = 0 THEN Idle
                ELSE [at |-> "page", chat |-> current, anchor |-> anchor]
  /\ UNCHANGED <<rows, merged, current, anchor, live, history, merger, ui>>

(* Mutant of MorePage: it pages from the newest message. *)
MorePageFromNewest ==
  /\ manager.at = "page"
  /\ manager' = [at |-> "set", chat |-> manager.chat, from |-> manager.anchor,
                 anchor |-> NthBefore(manager.chat, Infinity, MorePageSize)]
  /\ UNCHANGED <<rows, merged, current, anchor, commands, live, history, merger, ui>>

MorePage ==
  /\ manager.at = "page"
  /\ manager' = [at |-> "set", chat |-> manager.chat, from |-> manager.anchor,
                 anchor |-> NthBefore(manager.chat, manager.anchor, MorePageSize)]
  /\ UNCHANGED <<rows, merged, current, anchor, commands, live, history, merger, ui>>

(* Mutant of MoreSet: one second below the page, also below 0. *)
MoreSetBelow ==
  /\ manager.at = "set"
  /\ IF current # manager.chat THEN manager' = Idle /\ UNCHANGED anchor
     ELSE /\ anchor' = manager.anchor - 1
          /\ manager' = [at |-> "screen", chat |-> manager.chat]
  /\ UNCHANGED <<rows, merged, current, commands, live, history, merger, ui>>

MoreSet ==
  /\ manager.at = "set"
  /\ IF current # manager.chat THEN manager' = Idle /\ UNCHANGED anchor
     ELSE /\ anchor' = manager.anchor
          /\ manager' = [at |-> "screen", chat |-> manager.chat]
  /\ UNCHANGED <<rows, merged, current, commands, live, history, merger, ui>>
------------------------------------------------------------------------------
(* processIncomingMessage: store; then, if its chat is open, show it. *)
ChatNow(id) == IF merged /\ ChatOf[id] = LidChat THEN PnChat ELSE ChatOf[id]

Store(id) == rows' = [rows EXCEPT ![id] = ChatNow(id)]

Arrive(id) ==
  /\ live = Idle /\ id \in Live /\ rows[id] = None
  /\ Store(id) /\ live' = [at |-> "show", id |-> id, chat |-> ChatNow(id)]
  /\ UNCHANGED <<merged, current, anchor, commands, manager, history, merger, ui>>

ShowNew ==
  /\ live.at = "show"
  /\ IF live.chat = current THEN Queue([do |-> "append", id |-> live.id]) ELSE UNCHANGED draws
  /\ live' = Idle
  /\ UNCHANGED <<rows, merged, current, anchor, commands, manager, history, merger, uiChat, pane>>
------------------------------------------------------------------------------
(* storeHistorySync: the open chat is noted, messages are stored, and the  *)
(* view is lowered to the oldest stored there and drawn again.             *)
StartHistory ==
  /\ history = Idle
  /\ history' = [at |-> "store", chat |-> current, oldest |-> Infinity]
  /\ UNCHANGED <<rows, merged, current, anchor, commands, manager, live, merger, ui>>

HistoryStore(id) ==
  /\ history.at = "store" /\ id \notin Live /\ rows[id] = None
  /\ Store(id)
  /\ history' = IF ChatNow(id) = history.chat /\ TsOf[id] < history.oldest
                THEN [history EXCEPT !.oldest = TsOf[id]] ELSE history
  /\ UNCHANGED <<merged, current, anchor, commands, manager, live, merger, ui>>

HistoryStored ==
  /\ history.at = "store"
  /\ history' = IF history.oldest = Infinity THEN Idle ELSE [history EXCEPT !.at = "lower"]
  /\ UNCHANGED <<rows, merged, current, anchor, commands, manager, live, merger, ui>>

LowerViewAnchor ==
  /\ history.at = "lower"
  /\ anchor' = IF current = history.chat /\ history.oldest < anchor
               THEN history.oldest ELSE anchor
  /\ history' = [history EXCEPT !.at = "refresh"]
  /\ UNCHANGED <<rows, merged, current, commands, manager, live, merger, ui>>

HistoryRefresh ==
  /\ history.at = "refresh"
  /\ IF current = history.chat THEN Queue(Screen(current)) ELSE UNCHANGED draws
  /\ history' = Idle
  /\ UNCHANGED <<rows, merged, current, anchor, commands, manager, live, merger, uiChat, pane>>

(* mergeLIDChat: the rows move, then the open chat, which is drawn again;  *)
(* the anchor stays.                                                       *)
MergeRows ==
  /\ merger = Idle
  /\ rows' = [id \in Ids |-> IF rows[id] = LidChat THEN PnChat ELSE rows[id]]
  /\ merged' = TRUE /\ merger' = [at |-> "move"]
  /\ UNCHANGED <<current, anchor, commands, manager, live, history, ui>>

MergeOpen ==
  /\ merger.at = "move"
  /\ current' = IF current = LidChat THEN PnChat ELSE current
  /\ merger' = [at |-> IF current = LidChat THEN "draw" ELSE "done"]
  /\ UNCHANGED <<rows, merged, anchor, commands, manager, live, history, ui>>

MergeDraw ==
  /\ merger.at = "draw"
  /\ Queue(Screen(PnChat)) /\ merger' = [at |-> "done"]
  /\ UNCHANGED <<rows, merged, current, anchor, commands, manager, live, history, uiChat, pane>>

Next ==
  \/ \E chat \in Chats : SetDisplayedChat(chat)
  \/ AskForMore
  \/ \E update \in draws : Draw(update)
  \/ Select \/ SetReceiver \/ ShowScreen \/ More \/ MorePage \/ MoreSet
  \/ \E id \in Ids : Arrive(id) \/ HistoryStore(id)
  \/ ShowNew \/ StartHistory \/ HistoryStored \/ LowerViewAnchor \/ HistoryRefresh
  \/ MergeRows \/ MergeOpen \/ MergeDraw

Spec == Init /\ [][Next]_vars
------------------------------------------------------------------------------
Smaller(a, b) == IF a <= b THEN a ELSE b

(* The open chat shows its newest page at least, whatever is stored,       *)
(* moved by a merge or paged while it is opened.                           *)
FullPageVisible ==
  current # None =>
    Cardinality(Visible) >= Smaller(PageSize, Cardinality(Messages(current, 0)))

(* /more reveals a page, or everything: of the messages older than the     *)
(* view it started from, the newest MorePageSize are in the new view.      *)
MoreRevealsPage ==
  [][MoreSet /\ manager'.at = "screen" =>
       LET older == {id \in Ids : rows[id] = current /\ TsOf[id] < manager.from}
       IN Cardinality(older \cap Visible') >= Smaller(MorePageSize, Cardinality(older))]_vars

(* chat_view.go: older messages stored by a history sync "lower it so they *)
(* appear": until the chat is opened anew the view never shrinks.          *)
LoweredStaysLowered ==
  [][current' = current /\ ~SetReceiver => anchor' <= anchor]_vars

(* chat_view.go: "New messages are newer than the anchor, so they always   *)
(* show": with everything drawn, the pane has the messages of the view     *)
(* that arrived live.                                                      *)
Quiet ==
  /\ commands = <<>> /\ draws = {} /\ manager = Idle /\ live = Idle
  /\ history = Idle /\ merger.at \in {"idle", "done"}
  /\ uiChat = current /\ current # None

NewMessagesShow ==
  Quiet => \A id \in Live \cap Visible : \E i \in DOMAIN pane : pane[i] = id
==============================================================================
