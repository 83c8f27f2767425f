----------------------------- MODULE MessageRows -----------------------------
(***************************************************************************)
(* The messages table of whatscli under everything that writes it:         *)
(* arriving and sent messages (event_handler.go, history_sync.go,          *)
(* chat_state.go), incoming and own revokes (revoke_incoming.go,           *)
(* cmd_message.go), edits (edit_incoming.go), "delete for me"              *)
(* (delete_for_me.go), downloads (cmd_message.go) and the merge of a LID   *)
(* chat (lid_merge.go).                                                    *)
(*                                                                         *)
(* No handler holds a lock over its database work: each one reads a row,   *)
(* decides on that copy, may wait for the network, and then issues its     *)
(* statement.  A worker is one goroutine; `task[w]' is what it has still   *)
(* to do, with the part of the copy its last statement uses.               *)
(***************************************************************************)
EXTENDS Storage, JidNorm

CONSTANTS
  Ids,       \* message IDs
  Workers,   \* goroutines inside a handler (event, history, command, ...)
  Idle,      \* the task of a goroutine that is in no handler
  Wire,      \* the messages WhatsApp may deliver, once or several times
  Claims,    \* the sources revokes and edits may come from
  Admins     \* Admins[g]: the admins of group g, by any of their addresses

VARIABLES
  rows,      \* the messages table
  known,     \* LIDs whose phone number the LID store can return
  task       \* what each worker has still to do

vars == <<rows, known, task>>

Media == {"media"}             \* metadata the arriving message carries
Texts == {"original", "edited", RevokedText}
Row   == [chat: Chats, sender: Users, fromMe: BOOLEAN, text: Texts,
          media: {NoMedia} \cup Media, path: {NoPath, "file"}]

(* A row without its chat and sender. *)
Content == [text: Texts, media: {NoMedia} \cup Media, path: {NoPath, "file"}]

WireMessages == [id: Ids, src: Sources, hasMedia: BOOLEAN]

ASSUME RowsAssumption ==
  /\ NoRow \notin Row \cup Content
  /\ Wire \subseteq WireMessages
  /\ Claims \subseteq Sources
  /\ Admins \in [Groups -> SUBSET Users]

(* The second half of a handler, with what it remembers of the first. *)
Fills     == [op: {"fill"}, id: Ids, chat: Chats]
Claimed   == [op: {"admin", "revoke", "edit"}, id: Ids, chat: Chats, by: Claims]
Requested == [op: {"ownRevoke", "delete", "download"}, id: Ids, chat: Chats]
Tasks     == {Idle} \cup Fills \cup Claimed \cup Requested

ASSUME IdleAssumption == Idle \notin Fills \cup Claimed \cup Requested

TypeOK ==
  /\ rows \in [Ids -> Row \cup {NoRow}]
  /\ known \subseteq Lids
  /\ task \in [Workers -> Tasks]

(* The database keeps rows of earlier sessions; an empty one is enough to  *)
(* reach each of them.  The LID store may know any mapping at the start.   *)
Init ==
  /\ rows = [id \in Ids |-> NoRow]
  /\ known \in SUBSET Lids
  /\ task = [w \in Workers |-> Idle]

------------------------------------------------------------------------------
(* whatsmeow learns the phone number of a LID. *)
LearnMapping(lid) ==
  /\ lid \notin known
  /\ known' = known \cup {lid}
  /\ UNCHANGED <<rows, task>>

(* MergeChat moves the messages of a LID chat whose number is known. *)
MergeChat(lid) ==
  /\ lid \in known
  /\ rows' = MoveMessages(rows, lid, PnOf[lid])
  /\ UNCHANGED <<known, task>>

(* AddMessage of message m under `chat': the INSERT, and when the ID was   *)
(* stored already and m has media, the UPDATE still to come.  Media        *)
(* metadata may be lost on the way (attachMediaInfo fails).                *)
AddMessage(w, m, chat, media) ==
  /\ task[w] = Idle
  /\ rows' = InsertOrIgnore(rows, m.id,
       [chat |-> chat, sender |-> m.src.sender, fromMe |-> m.src.fromMe,
        text |-> "original", media |-> media, path |-> NoPath])
  /\ task' = IF rows[m.id] # NoRow /\ media # NoMedia
             THEN [task EXCEPT ![w] = [op |-> "fill", id |-> m.id, chat |-> chat]]
             ELSE task
  /\ UNCHANGED known

MediaOf(m) == IF m.hasMedia THEN {NoMedia} \cup Media ELSE {NoMedia}

(* processIncomingMessage, and storeHistorySync for one message: the chat  *)
(* is canonical for what was known when it was resolved, a little earlier. *)
IncomingMessage(w, m) ==
  \E media \in MediaOf(m), before \in SUBSET known :
    AddMessage(w, m, CanonicalChat(before, m.src), media)

(* sendText and storeSentMedia: the chat is the open chat's JID as it is.  *)
SentMessage(w, m) ==
  /\ m.src.fromMe
  /\ AddMessage(w, m, m.src.chat, IF m.hasMedia THEN "media" ELSE NoMedia)

FinishFill(w) ==
  /\ task[w] # Idle /\ task[w].op = "fill"
  /\ rows' = FillMedia(rows, task[w].chat, task[w].id, "media")
  /\ task' = [task EXCEPT ![w] = Idle]
  /\ UNCHANGED known

------------------------------------------------------------------------------
(* decideRevoke on the row just read. *)
AppliesNow(src, row) ==
  \/ src.fromMe
  \/ ~row.fromMe /\ SentBy(known, src, row.sender)

(* handleIncomingRevoke: read the target, decide; apply, or in a group     *)
(* start the goroutine that asks for the group's admins.                   *)
IncomingRevoke(w, src, id) ==
  /\ task[w] = Idle
  /\ rows[id] # NoRow
  /\ ChatMatches(known, src, rows[id].chat)
  /\ \/ /\ AppliesNow(src, rows[id])
        /\ task' = [task EXCEPT ![w] =
             [op |-> "revoke", id |-> id, chat |-> rows[id].chat, by |-> src]]
     \/ /\ ~AppliesNow(src, rows[id])
        /\ src.chat \in Groups
        /\ task' = [task EXCEPT ![w] =
             [op |-> "admin", id |-> id, chat |-> rows[id].chat, by |-> src]]
  /\ UNCHANGED <<rows, known>>

(* isGroupAdmin answers yes: the revoker is among the group's admins. *)
AdminConfirmed(w) ==
  /\ task[w] # Idle /\ task[w].op = "admin"
  /\ \E a \in Admins[task[w].by.chat] : SentBy(known, task[w].by, a)
  /\ task' = [task EXCEPT ![w].op = "revoke"]
  /\ UNCHANGED <<rows, known>>

(* applyRevoke, for an incoming revoke and for our own. *)
ApplyRevoke(w) ==
  /\ task[w] # Idle /\ task[w].op \in {"revoke", "ownRevoke"}
  /\ rows' = MarkMessageRevoked(rows, task[w].chat, task[w].id)
  /\ task' = [task EXCEPT ![w] = Idle]
  /\ UNCHANGED known

(* cmdRevoke up to SendMessage, which takes a network round trip. *)
OwnRevoke(w, id) ==
  /\ task[w] = Idle
  /\ rows[id] # NoRow /\ rows[id].fromMe /\ rows[id].text # RevokedText
  /\ task' = [task EXCEPT ![w] =
       [op |-> "ownRevoke", id |-> id, chat |-> rows[id].chat]]
  /\ UNCHANGED <<rows, known>>

------------------------------------------------------------------------------
(* Mutant of EditAllowed: any participant may edit. *)
EditAllowedToAll(src, row) ==
  ChatMatches(known, src, row.chat) /\ src.fromMe = row.fromMe

(* editAllowed: the editor is the sender of the stored message. *)
EditAllowed(src, row) ==
  /\ ChatMatches(known, src, row.chat)
  /\ src.fromMe = row.fromMe
  /\ src.fromMe \/ SentBy(known, src, row.sender)

IncomingEdit(w, src, id) ==
  /\ task[w] = Idle
  /\ rows[id] # NoRow /\ EditAllowed(src, rows[id])
  /\ task' = [task EXCEPT ![w] =
       [op |-> "edit", id |-> id, chat |-> rows[id].chat, by |-> src]]
  /\ UNCHANGED <<rows, known>>

ApplyEdit(w) ==
  /\ task[w] # Idle /\ task[w].op = "edit"
  /\ rows' = UpdateMessageText(rows, task[w].chat, task[w].id, "edited")
  /\ task' = [task EXCEPT ![w] = Idle]
  /\ UNCHANGED known

(* handleDeleteForMe: our own delete on the phone.  The event names the    *)
(* chat only; it carries no alternate address.                             *)
DeleteForMe(w, src, id) ==
  /\ task[w] = Idle
  /\ rows[id] # NoRow
  /\ ChatMatches(known, [src EXCEPT !.alt = FALSE], rows[id].chat)
  /\ task' = [task EXCEPT ![w] =
       [op |-> "delete", id |-> id, chat |-> rows[id].chat]]
  /\ UNCHANGED <<rows, known>>

ApplyDelete(w) ==
  /\ task[w] # Idle /\ task[w].op = "delete"
  /\ rows' = DeleteMessage(rows, task[w].chat, task[w].id)
  /\ task' = [task EXCEPT ![w] = Idle]
  /\ UNCHANGED known

(* runDownload: the row read must have media; the download goroutine then  *)
(* records the path of the file it saved (fetchMedia).                     *)
StartDownload(w, id) ==
  /\ task[w] = Idle
  /\ rows[id] # NoRow /\ rows[id].media # NoMedia
  /\ task' = [task EXCEPT ![w] =
       [op |-> "download", id |-> id, chat |-> rows[id].chat]]
  /\ UNCHANGED <<rows, known>>

FinishDownload(w) ==
  /\ task[w] # Idle /\ task[w].op = "download"
  /\ rows' = SetLocalPath(rows, task[w].chat, task[w].id, "file")
  /\ task' = [task EXCEPT ![w] = Idle]
  /\ UNCHANGED known

(* The handler ends without its statement: the admin check said no, the    *)
(* send or the download failed, or SQLite returned an error.               *)
GiveUp(w) ==
  /\ task[w] # Idle
  /\ task' = [task EXCEPT ![w] = Idle]
  /\ UNCHANGED <<rows, known>>

Worker(w) ==
  \/ \E m \in Wire : IncomingMessage(w, m) \/ SentMessage(w, m)
  \/ \E src \in Claims, id \in Ids :
       IncomingRevoke(w, src, id) \/ IncomingEdit(w, src, id) \/ DeleteForMe(w, src, id)
  \/ \E id \in Ids : OwnRevoke(w, id) \/ StartDownload(w, id)
  \/ FinishFill(w) \/ AdminConfirmed(w) \/ ApplyRevoke(w) \/ ApplyEdit(w)
  \/ ApplyDelete(w) \/ FinishDownload(w) \/ GiveUp(w)

Next ==
  \/ \E lid \in Lids : LearnMapping(lid) \/ MergeChat(lid)
  \/ \E w \in Workers : Worker(w)

Spec == Init /\ [][Next]_vars
------------------------------------------------------------------------------
(* A message deleted for everyone keeps nothing of its content: whatever   *)
(* fill, download or edit was in flight when the revoke landed, the row    *)
(* never regains media metadata or a saved path.                           *)
Revoked(row) == row # NoRow /\ row.text = RevokedText

RevokedRowsAreBare ==
  \A id \in Ids :
    Revoked(rows[id]) => rows[id].media = NoMedia /\ rows[id].path = NoPath

(* A revoke is final: a placeholder may move with its chat or be deleted,  *)
(* but no late edit, fill or redelivery of the message turns it back.      *)
RevokesAreFinal ==
  [][\A id \in Ids : Revoked(rows[id]) => rows'[id] = NoRow \/ Revoked(rows'[id])]_vars

(* The first write of an ID wins: while a row exists its sender and        *)
(* direction stay, its chat changes only from a LID to that LID's number,  *)
(* and media metadata is never replaced, only cleared by a revoke.         *)
FirstWriteWins ==
  [][\A id \in Ids : rows[id] # NoRow /\ rows'[id] # NoRow =>
       /\ rows'[id].sender = rows[id].sender
       /\ rows'[id].fromMe = rows[id].fromMe
       /\ rows'[id].chat = rows[id].chat \/ rows'[id].chat = Canonical(known, rows[id].chat)
       /\ rows[id].media # NoMedia =>
            rows'[id].media = rows[id].media \/ Revoked(rows'[id])]_vars

(* Who may change the text of a message, by real identity: its sender.     *)
SameIdentity(src, row) ==
  /\ src.fromMe = row.fromMe
  /\ src.fromMe \/ Identity(src.sender) = Identity(row.sender)

(* Who may delete it for everyone: also our account and a group's admin.   *)
MayRevoke(src, row) ==
  \/ src.fromMe
  \/ SameIdentity(src, row)
  \/ /\ row.chat \in Groups
     /\ \E a \in Admins[row.chat] : Identity(a) = Identity(src.sender)

(* The row a statement changes is one the claim was entitled to change,    *)
(* in the chat the claim was made in, even if the row that was read has    *)
(* been deleted and its ID stored again in between.                        *)
ClaimsAreEntitled ==
  [][\A id \in Ids :
       rows[id] # NoRow /\ rows'[id] # NoRow /\ rows'[id].text # rows[id].text =>
         \E w \in Workers :
           /\ task[w] # Idle /\ task'[w] = Idle /\ task[w].id = id
           /\ \/ /\ task[w].op \in {"revoke", "edit"}
                 /\ Identity(task[w].by.chat) = Identity(rows[id].chat)
                 /\ IF Revoked(rows'[id]) THEN MayRevoke(task[w].by, rows[id])
                                          ELSE SameIdentity(task[w].by, rows[id])
              \/ task[w].op = "ownRevoke" /\ rows[id].fromMe]_vars

(* A revoke that was accepted takes effect: once its statement has run,    *)
(* the message is a placeholder or gone.  applyRevoke (cmd_message.go)     *)
(* relies on "chatID must be the chat the message is stored under".        *)
RevokeTakesEffect ==
  [][\A w \in Workers :
       ApplyRevoke(w) => rows'[task[w].id] = NoRow \/ Revoked(rows'[task[w].id])]_vars

------------------------------------------------------------------------------
(* The rows as MessageLifecycle sees them. *)
View(row) ==
  IF row = NoRow THEN NoRow
  ELSE [text |-> row.text, media |-> row.media, path |-> row.path]

Lifecycle == INSTANCE MessageLifecycle WITH
  Absent <- NoRow, message <- [id \in Ids |-> View(rows[id])]

(* Every statement any goroutine issues, at whatever moment, is one step   *)
(* of the lifecycle of one message or leaves every message as it is.       *)
ImplementsLifecycle == Lifecycle!Spec
==============================================================================
