------------------------------- MODULE ChatList -------------------------------
(***************************************************************************)
(* The chat list: the conversations in memory (convByJID, the priority     *)
(* queue holds the same records) and their copies in the `conversations'   *)
(* table, under the handlers that change them: arriving messages           *)
(* (event_handler.go), history syncs and the contact import                *)
(* (history_sync.go), "delete for me" (delete_for_me.go), read receipts    *)
(* (chat_state.go), /sync-groups (cmd_chat.go) and the merge of LID chats  *)
(* (lid_merge.go); and the start-up that loads the table.                  *)
(*                                                                         *)
(* sm.mu is never held over database work: a handler stores its messages,  *)
(* changes the conversation under the lock, copies it, and writes the copy *)
(* after unlocking.  task[p] is what goroutine p has still to do.  /reset  *)
(* (cmd_connection.go) waits for none of them.                             *)
(* Left out: names (a rename is the copy it writes) and the drawing.       *)
(***************************************************************************)
EXTENDS JidNorm, Naturals, Sequences, FiniteSets

CONSTANTS
  Ids,          \* message IDs
  Goroutines,   \* those that run, of the kinds below
  Wire,         \* messages that may arrive, once or several times
  Batches,      \* history syncs: sequences of conversations
  Sends,        \* messages of ours, sent from the open chat
  Opened,       \* chats the user opens
  MaxUnread,    \* bound: no message arrives in a chat with more unread
  Restarts,     \* may the program be killed and started again?
  Resets,       \* does the user reset the program?
  DbErrors,     \* the tables on which a statement of SQLite may fail
  NoRow, None, Idle

MaxUint16 == 65535
NewChat   == "New chat"         \* the preview of a chat without messages
(* messages: whatsmeow's message events, one at a time; appState: deletes; *)
(* history: one history sync; contacts: loadRecentChats and /sync-groups;  *)
(* reader: markChatAsRead.                                                 *)
Kinds == {"messages", "appState", "history", "contacts", "reader"}

Conversation == [time: Nat, preview: Ids \cup {NewChat}, unread: 0..MaxUint16,
                 pinned: BOOLEAN, archived: BOOLEAN]
HistoryMessages == Seq([id: Ids, ts: Nat, fromMe: BOOLEAN])
HistoryConversation ==
  [jid: Chats, alt: BOOLEAN, time: Nat, unread: 0..MaxUint16, pinned: BOOLEAN,
   archived: BOOLEAN, msgs: HistoryMessages]
Stored       == [chat: Chats, ts: Nat, fromMe: BOOLEAN]

(* What a goroutine has still to do: the step it is at, and what it        *)
(* remembers of the steps before.                                          *)
Copies == Seq([chat: Chats, conv: Conversation])
Merges == [step: {"collect"}] \cup [step: {"merge"}, todo: SUBSET Lids]
Busy ==
  Merges
    \cup [step: {"save"}, copies: Copies, then: {Idle} \cup Merges]
    \cup [step: {"store", "list"}, msg: Wire, chat: Chats]
    \cup [step: {"history"}, convs: Seq(HistoryConversation), chat: Chats,
          msgs: HistoryMessages, copies: Copies]
    \cup [step: {"read"}, chat: Chats]
    \cup [step: {"delete"}, id: Ids, row: Stored]
    \cup [step: {"latest"}, row: Stored]
    \cup [step: {"preview"}, row: Stored, id: Ids \cup {NewChat}, ts: Nat]
    \cup [step: {"mergeTx", "mergeList"}, lid: Lids, todo: SUBSET Lids, conv: Conversation]
Tasks == {Idle} \cup Busy

ASSUME ChatListAssumption ==
  /\ Goroutines \subseteq Kinds
  /\ Wire \subseteq [id: Ids, src: Sources, ts: Nat]
  /\ Sends \subseteq [id: Ids, ts: Nat]
  /\ \A batch \in Batches : batch \in Seq(HistoryConversation)
  /\ MaxUnread \in Nat /\ Opened \subseteq Chats /\ {Restarts, Resets} \subseteq BOOLEAN
  /\ DbErrors \subseteq {"messages", "conversations", "both"}
  /\ NoRow \notin Stored /\ None \notin Conversation \cup Chats
  /\ Idle \notin Busy

VARIABLES
  rows,      \* the messages table
  mem,       \* convByJID
  db,        \* the conversations table
  known,     \* LIDs whose number the LID store can return
  open,      \* currentReceiver
  task,      \* what each goroutine has still to do
  reset      \* how far /reset is, since the program was started

vars == <<rows, mem, db, known, open, task, reset>>

TypeOK ==
  /\ rows \in [Ids -> Stored \cup {NoRow}]
  /\ {mem, db} \subseteq [Chats -> Conversation \cup {None}]
  /\ known \subseteq Lids /\ open \in Chats \cup {None}
  /\ task \in [Goroutines -> Tasks]
  /\ reset \in {"no", "tables", "done"}

Init ==
  /\ rows = [id \in Ids |-> NoRow]
  /\ mem = [c \in Chats |-> None] /\ db = mem
  /\ known \in SUBSET Lids /\ open = None
  /\ task = [p \in Goroutines |-> Idle] /\ reset = "no"
------------------------------------------------------------------------------
At(p, step) == p \in Goroutines /\ task[p] # Idle /\ task[p].step = step
Free(p)     == p \in Goroutines /\ task[p] = Idle
Do(p, next) == task' = [task EXCEPT ![p] = next]

(* Copies to be written after the lock is released, and what comes then. *)
Copy(chat)           == [chat |-> chat, conv |-> mem'[chat]]
Saving(copies, then) == [step |-> "save", copies |-> copies, then |-> then]
Save(p, chat)        == Do(p, Saving(<<Copy(chat)>>, Idle))

(* UpsertConversation writes the whole row; an error is only reported.     *)
Upsert(p) ==
  /\ At(p, "save")
  /\ LET t == task[p] IN
     /\ \/ db' = [db EXCEPT ![t.copies[1].chat] = t.copies[1].conv]
        \/ "conversations" \in DbErrors /\ UNCHANGED db
     /\ Do(p, IF Len(t.copies) > 1 THEN [t EXCEPT !.copies = Tail(@)] ELSE t.then)
  /\ UNCHANGED <<rows, mem, known, open, reset>>

Insert(id, row) == rows' = IF rows[id] = NoRow THEN [rows EXCEPT ![id] = row] ELSE rows
------------------------------------------------------------------------------
(* processIncomingMessage: the chat is resolved for what is known now, ... *)
Incoming(m) ==
  /\ Free("messages")
  /\ \A c \in Chats : mem[c] # None => mem[c].unread <= MaxUnread
  /\ Do("messages", [step |-> "store", msg |-> m, chat |-> CanonicalChat(known, m.src)])
  /\ UNCHANGED <<rows, mem, db, known, open, reset>>

(* ... and the message is stored: a known ID ends it here, an error does   *)
(* not.                                                                    *)
StoreIncoming ==
  /\ At("messages", "store")
  /\ LET t == task["messages"]
         next == [t EXCEPT !.step = "list"]
     IN \/ /\ Insert(t.msg.id, [chat |-> t.chat, ts |-> t.msg.ts, fromMe |-> t.msg.src.fromMe])
           /\ Do("messages", IF rows[t.msg.id] = NoRow THEN next ELSE Idle)
        \/ "messages" \in DbErrors /\ UNCHANGED rows /\ Do("messages", next)
  /\ UNCHANGED <<mem, db, known, open, reset>>

(* Then, after the chat's name has been looked up, the list changes. *)
Listed(conv, m) ==
  LET new == [time |-> m.ts, preview |-> m.id, unread |-> 0,
              pinned |-> FALSE, archived |-> FALSE]
      old == IF conv = None THEN new ELSE [conv EXCEPT !.time = m.ts, !.preview = m.id]
  IN IF m.src.fromMe THEN old ELSE [old EXCEPT !.unread = (@ + 1) % (MaxUint16 + 1)]

(* Mutants of IncomingListed: only listed chats change; nothing is saved. *)
IncomingInListedChats ==
  /\ At("messages", "list")
  /\ LET t == task["messages"] IN
     IF mem[t.chat] = None THEN UNCHANGED mem /\ Do("messages", Idle)
     ELSE /\ mem' = [mem EXCEPT ![t.chat] = Listed(@, t.msg)]
          /\ Save("messages", t.chat)
  /\ UNCHANGED <<rows, db, known, open, reset>>

IncomingUnsaved ==
  /\ At("messages", "list")
  /\ LET t == task["messages"] IN mem' = [mem EXCEPT ![t.chat] = Listed(@, t.msg)]
  /\ Do("messages", Idle)
  /\ UNCHANGED <<rows, db, known, open, reset>>

(* Another: the conversation is read from the table, which may be behind. *)
IncomingListedAsSaved ==
  /\ At("messages", "list")
  /\ LET t == task["messages"] IN
     /\ mem' = [mem EXCEPT ![t.chat] = Listed(db[t.chat], t.msg)]
     /\ Save("messages", t.chat)
  /\ UNCHANGED <<rows, db, known, open, reset>>

IncomingListed ==
  /\ At("messages", "list")
  /\ LET t == task["messages"] IN
     /\ mem' = [mem EXCEPT ![t.chat] = Listed(@, t.msg)]
     /\ Save("messages", t.chat)
  /\ UNCHANGED <<rows, db, known, open, reset>>

(* sendText and storeSentMedia: the message is stored under the JID of the *)
(* chat as the user opened it, which a merge may have replaced since; the  *)
(* conversation does not change.                                           *)
Send(m, chat) ==
  /\ open # None
  /\ Insert(m.id, [chat |-> chat, ts |-> m.ts, fromMe |-> TRUE])
  /\ UNCHANGED <<mem, db, known, open, task, reset>>

Open(chat) ==
  /\ open' = chat
  /\ UNCHANGED <<rows, mem, db, known, task, reset>>
------------------------------------------------------------------------------
(* storeHistorySync: for each conversation the chat is resolved, its       *)
(* messages are stored one by one, and the list changes under the lock.    *)
HistoryChat(h) == IF h.jid \in Lids /\ h.alt THEN PnOf[h.jid] ELSE Canonical(known, h.jid)

HistoryTask(convs, copies) ==
  IF convs # <<>>
  THEN [step |-> "history", convs |-> convs, chat |-> HistoryChat(Head(convs)),
        msgs |-> Head(convs).msgs, copies |-> copies]
  ELSE IF copies # <<>> THEN Saving(copies, [step |-> "collect"])
  ELSE [step |-> "collect"]

HistorySync(batch) ==
  /\ Free("history")
  /\ Do("history", HistoryTask(batch, <<>>))
  /\ UNCHANGED <<rows, mem, db, known, open, reset>>

HistoryMessage ==
  /\ At("history", "history") /\ task["history"].msgs # <<>>
  /\ LET t == task["history"]  m == Head(t.msgs) IN
     \/ Insert(m.id, [chat |-> t.chat, ts |-> m.ts, fromMe |-> m.fromMe])
     \/ "messages" \in DbErrors /\ UNCHANGED rows
  /\ task' = [task EXCEPT !["history"].msgs = Tail(@)]
  /\ UNCHANGED <<mem, db, known, open, reset>>

Larger(a, b) == IF a >= b THEN a ELSE b

(* The newest message a conversation carries, for time and preview. *)
NewestOf(h) ==
  LET at == CHOOSE i \in DOMAIN h.msgs : \A j \in DOMAIN h.msgs :
              h.msgs[j].ts < h.msgs[i].ts \/ (h.msgs[j].ts = h.msgs[i].ts /\ i <= j)
  IN IF h.msgs = <<>> THEN [ts |-> 0, id |-> NewChat] ELSE h.msgs[at]

(* What history says about a chat without a conversation, and with one:    *)
(* newer data and a higher unread count win, pin and archive are adopted.  *)
FromHistory(h) ==
  [time |-> Larger(h.time, NewestOf(h).ts), preview |-> NewestOf(h).id,
   unread |-> h.unread, pinned |-> h.pinned, archived |-> h.archived]

Refreshed(conv, h) ==
  LET new == FromHistory(h)
      dated == IF new.time > conv.time
               THEN [conv EXCEPT !.time = new.time, !.preview = new.preview] ELSE conv
  IN [dated EXCEPT !.unread = Larger(@, h.unread), !.pinned = h.pinned,
                   !.archived = h.archived]

EmptyChat(chat, conv) ==
  chat \notin Groups /\ conv.time = 0 /\ conv.unread = 0 /\ ~conv.pinned

HistoryListed ==
  /\ At("history", "history") /\ task["history"].msgs = <<>>
  /\ LET t == task["history"]
         h == Head(t.convs)
         conv == IF mem[t.chat] # None THEN Refreshed(mem[t.chat], h)
                 ELSE IF EmptyChat(t.chat, FromHistory(h)) THEN None
                 ELSE FromHistory(h)
     IN /\ mem' = [mem EXCEPT ![t.chat] = conv]
        /\ Do("history", HistoryTask(Tail(t.convs),
             IF conv = mem[t.chat] THEN t.copies ELSE Append(t.copies, Copy(t.chat))))
  /\ UNCHANGED <<rows, db, known, open, reset>>

(* importContacts and cmdSyncGroups: a listed chat may get a new name, a   *)
(* group that is not listed is added.                                      *)
ContactSync(chat) ==
  /\ Free("contacts")
  /\ mem[chat] # None \/ chat \in Groups
  /\ mem' = [mem EXCEPT ![chat] =
       IF @ # None THEN @
       ELSE [time |-> 0, preview |-> NewChat, unread |-> 0,
             pinned |-> FALSE, archived |-> FALSE]]
  /\ Save("contacts", chat)
  /\ UNCHANGED <<rows, db, known, open, reset>>
------------------------------------------------------------------------------
(* markChatAsRead: receipts for a chat with incoming messages go out over  *)
(* the network; then the unread count is reset.                            *)
ReadChat(chat) ==
  /\ Free("reader")
  /\ \E id \in Ids : rows[id] # NoRow /\ rows[id].chat = chat /\ ~rows[id].fromMe
  /\ Do("reader", [step |-> "read", chat |-> chat])
  /\ UNCHANGED <<rows, mem, db, known, open, reset>>

ReceiptsSent ==
  /\ At("reader", "read")
  /\ LET chat == task["reader"].chat IN
     IF mem[chat] = None THEN UNCHANGED mem /\ Do("reader", Idle)
     ELSE /\ mem' = [mem EXCEPT ![chat].unread = 0]
          /\ Save("reader", chat)
  /\ UNCHANGED <<rows, db, known, open, reset>>

ReceiptsFail ==
  /\ At("reader", "read")
  /\ Do("reader", Idle)
  /\ UNCHANGED <<rows, mem, db, known, open, reset>>
------------------------------------------------------------------------------
(* handleDeleteForMe: read the row, delete it, look for the newest one     *)
(* left, and move the chat's time and preview there.                       *)
DeleteForMe(id) ==
  /\ Free("appState") /\ rows[id] # NoRow
  /\ Do("appState", [step |-> "delete", id |-> id, row |-> rows[id]])
  /\ UNCHANGED <<rows, mem, db, known, open, reset>>

StillIn(id, chat) == rows[id] # NoRow /\ rows[id].chat = chat

DeleteRow ==
  /\ At("appState", "delete")
  /\ LET t == task["appState"] IN
     \/ /\ StillIn(t.id, t.row.chat)
        /\ rows' = [rows EXCEPT ![t.id] = NoRow]
        /\ Do("appState", [step |-> "latest", row |-> t.row])
     \/ /\ "messages" \in DbErrors \/ ~StillIn(t.id, t.row.chat)
        /\ UNCHANGED rows /\ Do("appState", Idle)
  /\ UNCHANGED <<mem, db, known, open, reset>>

InChat(chat) == {id \in Ids : StillIn(id, chat)}

(* Mutant of FindLatest: no preview when no message is left. *)
FindLatestOrNothing ==
  /\ At("appState", "latest")
  /\ LET t == task["appState"] IN
     Do("appState", [step |-> "preview", row |-> t.row, id |-> NoRow, ts |-> 0])
  /\ UNCHANGED <<rows, mem, db, known, open, reset>>

FindLatest ==
  /\ At("appState", "latest")
  /\ LET t == task["appState"]  left == InChat(t.row.chat) IN
     \/ /\ left = {}
        /\ Do("appState", [step |-> "preview", row |-> t.row, id |-> NewChat, ts |-> 0])
     \/ \E id \in left :
          /\ \A other \in left : rows[other].ts <= rows[id].ts
          /\ Do("appState", [step |-> "preview", row |-> t.row, id |-> id, ts |-> rows[id].ts])
     \/ "messages" \in DbErrors /\ Do("appState", Idle)
  /\ UNCHANGED <<rows, mem, db, known, open, reset>>

PreviewAfterDelete ==
  /\ At("appState", "preview")
  /\ LET t == task["appState"]  chat == t.row.chat IN
     IF mem[chat] = None \/ t.row.ts < mem[chat].time
     THEN UNCHANGED mem /\ Do("appState", Idle)
     ELSE /\ mem' = [mem EXCEPT ![chat].preview = t.id,
                                ![chat].time = IF t.id = NewChat THEN @ ELSE t.ts]
          /\ Save("appState", chat)
  /\ UNCHANGED <<rows, db, known, open, reset>>
------------------------------------------------------------------------------
LearnMapping(lid) ==
  /\ known' = known \cup {lid} /\ lid \notin known
  /\ UNCHANGED <<rows, mem, db, open, task, reset>>

(* Mutant of Merged: the newer side's count is kept. *)
MergedNewerCount(lid, pn) ==
  IF pn = None THEN lid
  ELSE [(IF pn.time >= lid.time THEN pn ELSE lid) EXCEPT
          !.pinned = pn.pinned \/ lid.pinned,
          !.archived = pn.archived /\ lid.archived]

(* mergedConversation: the newer side gives time and preview, the counts   *)
(* add up, pinned if either side is, archived only if both are.            *)
Merged(lid, pn) ==
  IF pn = None THEN lid
  ELSE [(IF pn.time >= lid.time THEN pn ELSE lid) EXCEPT
          !.unread = IF pn.unread + lid.unread > MaxUint16 THEN MaxUint16
                     ELSE pn.unread + lid.unread,
          !.pinned = pn.pinned \/ lid.pinned,
          !.archived = pn.archived /\ lid.archived]

(* mergeKnownLIDChats at the end of loadRecentChats or of a history sync:  *)
(* the LID chats listed now are looked at one after the other.             *)
StartMerge(p) ==
  /\ (p = "contacts" /\ Free(p)) \/ At(p, "collect")
  /\ Do(p, [step |-> "merge", todo |-> {lid \in Lids : mem[lid] # None}])
  /\ UNCHANGED <<rows, mem, db, known, open, reset>>

(* One whose number is known, and still listed, is to be merged. *)
NextMerge(p) ==
  /\ At(p, "merge")
  /\ LET todo == task[p].todo IN
     \/ todo = {} /\ Do(p, Idle)
     \/ \E lid \in todo :
          Do(p, IF lid \in known /\ mem[lid] # None
                THEN [step |-> "mergeTx", lid |-> lid, todo |-> todo \ {lid},
                      conv |-> Merged(mem[lid], mem[PnOf[lid]])]
                ELSE [step |-> "merge", todo |-> todo \ {lid}])
  /\ UNCHANGED <<rows, mem, db, known, open, reset>>

(* Mutant of MergeTx: the LID's conversation is deleted, none is written. *)
MergeTxDeletes(p) ==
  /\ At(p, "mergeTx")
  /\ LET t == task[p] IN
     /\ rows' = [id \in Ids |-> IF id \in InChat(t.lid)
                                THEN [rows[id] EXCEPT !.chat = PnOf[t.lid]] ELSE rows[id]]
     /\ db' = [db EXCEPT ![t.lid] = None]
     /\ task' = [task EXCEPT ![p].step = "mergeList"]
  /\ UNCHANGED <<mem, known, open, reset>>

(* MergeChat: one transaction over both tables; it may fail. *)
MergeTx(p) ==
  /\ At(p, "mergeTx")
  /\ LET t == task[p]  pn == PnOf[t.lid] IN
     \/ /\ rows' = [id \in Ids |-> IF id \in InChat(t.lid)
                                   THEN [rows[id] EXCEPT !.chat = pn] ELSE rows[id]]
        /\ db' = [db EXCEPT ![t.lid] = None, ![pn] = t.conv]
        /\ task' = [task EXCEPT ![p].step = "mergeList"]
     \/ /\ "both" \in DbErrors /\ UNCHANGED <<rows, db>>
        /\ Do(p, [step |-> "merge", todo |-> t.todo])
  /\ UNCHANGED <<mem, known, open, reset>>

(* The list is merged from what it holds by now; a result other than the   *)
(* one written is written again.  An open LID chat becomes the other.      *)
MergeList(p) ==
  /\ At(p, "mergeList")
  /\ LET t == task[p]
         pn == PnOf[t.lid]
         final == Merged(mem[t.lid], mem[pn])
         next == [step |-> "merge", todo |-> t.todo]
     IN IF mem[t.lid] = None
        THEN Do(p, next) /\ UNCHANGED <<mem, open>>
        ELSE /\ mem' = [mem EXCEPT ![t.lid] = None, ![pn] = final]
             /\ open' = IF open = t.lid THEN pn ELSE open
             /\ Do(p, IF final = t.conv THEN next
                      ELSE Saving(<<Copy(pn)>>, next))
  /\ UNCHANGED <<rows, db, known, reset>>
------------------------------------------------------------------------------
(* cmdReset deletes the database and starts a new one, then empties the    *)
(* list.  currentReceiver stays.  Bound: one /reset between two starts.    *)
ResetTables ==
  /\ Resets /\ reset = "no" /\ reset' = "tables"
  /\ rows' = [id \in Ids |-> NoRow]
  /\ db' = [c \in Chats |-> None]
  /\ UNCHANGED <<mem, known, open, task>>

ResetList ==
  /\ reset = "tables" /\ reset' = "done"
  /\ mem' = [c \in Chats |-> None]
  /\ UNCHANGED <<rows, db, known, open, task>>

(* The program dies at any point and starts again: Init drops the empty    *)
(* conversations of the table and loads the others.                        *)
Restart ==
  /\ Restarts
  /\ db' = [c \in Chats |->
              IF db[c] # None /\ EmptyChat(c, db[c]) /\ InChat(c) = {} THEN None ELSE db[c]]
  /\ mem' = db' /\ open' = None /\ reset' = "no"
  /\ task' = [p \in Goroutines |-> Idle]
  /\ UNCHANGED <<rows, known>>

Messages == \/ \E m \in Wire : Incoming(m)
            \/ StoreIncoming \/ IncomingListed
History  == \/ \E b \in Batches : HistorySync(b)
            \/ HistoryMessage \/ HistoryListed
Contacts == \E c \in Chats : ContactSync(c)
Reader   == \/ \E c \in Chats : ReadChat(c)
            \/ ReceiptsSent \/ ReceiptsFail
AppState == \/ \E id \in Ids : DeleteForMe(id)
            \/ DeleteRow \/ FindLatest \/ PreviewAfterDelete
Merger(p) == StartMerge(p) \/ NextMerge(p) \/ MergeTx(p) \/ MergeList(p)

Next ==
  \/ Messages \/ History \/ Contacts \/ Reader \/ AppState
  \/ \E p \in Goroutines : Upsert(p) \/ Merger(p)
  \/ \E c \in Opened : Open(c) \/ \E m \in Sends : Send(m, c)
  \/ \E lid \in Lids : LearnMapping(lid)
  \/ ResetTables \/ ResetList \/ Restart

Spec == Init /\ [][Next]_vars
------------------------------------------------------------------------------
Quiet == reset # "tables" /\ \A p \in Goroutines : task[p] = Idle

Unread(c)       == IF mem[c] = None THEN 0 ELSE mem[c].unread
ListUnread(who) ==
  Unread(who) + (IF \E lid \in Lids : PnOf[lid] = who
                 THEN Unread(CHOOSE lid \in Lids : PnOf[lid] = who) ELSE 0)

(* What others wrote to a person or group, or wrote in it, by now; and of  *)
(* that the message whose handler has yet to count it.                     *)
Arrived(who) ==
  {id \in Ids : rows[id] # NoRow /\ ~rows[id].fromMe /\ Identity(rows[id].chat) = who}
Counting == {id \in Ids : At("messages", "list") /\ task["messages"].msg.id = id}

(* "A redelivered message ID changes nothing" (event_handler.go), and a    *)
(* merge adds the counts up (lid_merge.go): however arrivals, redeliveries *)
(* and merges interleave, a person's unread count over both of its chats   *)
(* is the number of messages that arrived and were counted.  For runs      *)
(* without receipts, in which history brings our own messages only.        *)
UnreadMatchesArrivals ==
  \A who \in Groups \cup Pns : ListUnread(who) = Cardinality(Arrived(who) \ Counting)

(* The same with receipts, which may come at any step of an arrival or of  *)
(* a merge: no message is counted twice, over both chats together.         *)
NothingCountedTwice ==
  \A who \in Groups \cup Pns : ListUnread(who) <= Cardinality(Arrived(who) \ Counting)

(* What was read stays read (markChatAsRead): between two starts a         *)
(* person's count rises by one message that is listed, and by that one     *)
(* only, or to what a history sync says of the chat.  No merge brings back *)
(* a count that a receipt has reset while the transaction ran.             *)
CountsRiseByArrivals ==
  [][\A who \in Groups \cup Pns : ListUnread(who)' > ListUnread(who) =>
       \/ Restart
       \/ /\ At("messages", "list") /\ ~At("messages", "list")'
          /\ ~task["messages"].msg.src.fromMe /\ Identity(task["messages"].chat) = who
          /\ ListUnread(who)' = ListUnread(who) + 1
       \/ \E c \in Chats :
            /\ At("history", "history") /\ task["history"].chat = c /\ Identity(c) = who
            /\ Unread(c)' = Head(task["history"].convs).unread]_vars

(* Whoever wrote to us is in the list: once the handlers are done there is *)
(* a chat for the sender of every message received, by one address or the  *)
(* other, whatever was merged between resolving, storing and listing it.   *)
SenderIsListed ==
  Quiet => \A id \in Ids :
    rows[id] # NoRow /\ ~rows[id].fromMe =>
      \E c \in Chats : Identity(c) = Identity(rows[id].chat) /\ mem[c] # None

(* The table lists the chats the list shows, whatever fails, is killed or  *)
(* reset in between; no others, but for those that were being saved when   *)
(* the list was emptied by /reset.                                         *)
SameChatsSaved ==
  Quiet => \A c \in Chats : /\ mem[c] # None => db[c] # None
                            /\ db[c] # None /\ reset = "no" => mem[c] # None

(* The same while LID chats are merged; only the row of a LID chat may     *)
(* come back, from a copy taken before the merge (MergedForGood).          *)
ListIsSaved ==
  Quiet => \A c \in Chats :
    /\ mem[c] # None => db[c] # None
    /\ db[c] # None /\ reset = "no" => mem[c] # None \/ c \in Lids

(* cmdReset: "fully reset everything".  What is in the table afterwards is *)
(* in the list.                                                            *)
ResetLeavesNothing ==
  Quiet => \A c \in Chats : db[c] # None => mem[c] # None

(* README: "chats and messages survive restarts": what would be loaded is  *)
(* what the list shows.                                                    *)
SavedListIsCurrent == Quiet => db = mem

(* README: the list shows "the time of the last message". *)
TimeOfLastMessage ==
  Quiet => \A id \in Ids :
    rows[id] # NoRow /\ mem[rows[id].chat] # None => rows[id].ts <= mem[rows[id].chat].time

(* A merged LID chat is gone: no conversation to be loaded at the next     *)
(* start and no message that no chat of the list would show.               *)
MergedForGood ==
  Quiet => \A lid \in known : mem[lid] = None => db[lid] = None /\ InChat(lid) = {}

(* The preview is a message the chat still has. *)
PreviewIsStored ==
  Quiet => \A c \in Chats : mem[c] # None =>
    mem[c].preview = NewChat \/ (rows[mem[c].preview] # NoRow /\ rows[mem[c].preview].chat = c)
==============================================================================
