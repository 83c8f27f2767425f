-------------------------- MODULE MessageRowsProofs --------------------------
(***************************************************************************)
(* Proofs about MessageRows for any number of messages, chats, goroutines  *)
(* and any traffic.  The argument has two layers: StatementType,           *)
(* StatementKeepsBare and StatementLifecycle say what one statement does   *)
(* to one row, and each theorem then says that every action issues at most *)
(* one statement.  ClaimsStayEntitled looks at the tasks too: what a       *)
(* handler decided on must still be true of the row its statement finds.   *)
(***************************************************************************)
EXTENDS MessageRows, TLAPS

Table == [Ids -> Row \cup {NoRow}]

(* The row AddMessage inserts. *)
NewRow(m, chat, media) ==
  [chat |-> chat, sender |-> m.src.sender, fromMe |-> m.src.fromMe,
   text |-> "original", media |-> media, path |-> NoPath]

(* Every step changes the table by at most one of the statements. *)
Statement ==
  \/ rows' = rows
  \/ \E m \in Wire, chat \in Chats, media \in {NoMedia} \cup Media :
       /\ Identity(chat) = Identity(m.src.chat)
       /\ rows' = InsertOrIgnore(rows, m.id, NewRow(m, chat, media))
  \/ \E chat \in Chats, id \in Ids :
       \/ rows' = FillMedia(rows, chat, id, "media")
       \/ rows' = MarkMessageRevoked(rows, chat, id)
       \/ rows' = UpdateMessageText(rows, chat, id, "edited")
       \/ rows' = DeleteMessage(rows, chat, id)
       \/ rows' = SetLocalPath(rows, chat, id, "file")
  \/ \E lid \in known : rows' = MoveMessages(rows, lid, PnOf[lid])

(* The chat a message is stored under is a chat, of the same person or     *)
(* group as the chat it was sent in.                                       *)
LEMMA CanonicalChatType ==
  ASSUME NEW src \in Sources, NEW before \in SUBSET Lids
  PROVE  /\ CanonicalChat(before, src) \in Chats /\ src.chat \in Chats
         /\ Identity(CanonicalChat(before, src)) = Identity(src.chat)
BY JidAssumption DEF Sources, CanonicalChat, Canonical, Chats, Users, Identity

LEMMA CanonicalType ==
  ASSUME NEW lid \in known, known \subseteq Lids
  PROVE  lid \in Chats /\ PnOf[lid] \in Chats
BY JidAssumption DEF Chats, Users

(* A busy worker's task names an ID and a chat. *)
LEMMA TaskType ==
  ASSUME TypeOK, NEW w \in Workers, task[w] # Idle
  PROVE  task[w].id \in Ids /\ task[w].chat \in Chats
BY DEF TypeOK, Tasks, Fills, Claimed, Requested

LEMMA StepIsStatement ==
  ASSUME TypeOK, Next
  PROVE  Statement
<1>1. ASSUME NEW lid \in Lids, LearnMapping(lid) \/ MergeChat(lid)
      PROVE  Statement
  BY <1>1 DEF LearnMapping, MergeChat, Statement
<1>2. ASSUME NEW w \in Workers, Worker(w)
      PROVE  Statement
  <2>1. ASSUME NEW m \in Wire, NEW chat \in Chats,
               NEW media \in {NoMedia} \cup Media, AddMessage(w, m, chat, media),
               Identity(chat) = Identity(m.src.chat)
        PROVE  Statement
    BY <2>1 DEF AddMessage, Statement, NewRow
  <2>2. ASSUME NEW m \in Wire, IncomingMessage(w, m) PROVE Statement
    <3>1. \A before \in SUBSET known :
            LET chat == CanonicalChat(before, m.src)
            IN  chat \in Chats /\ Identity(chat) = Identity(m.src.chat)
      BY CanonicalChatType, RowsAssumption DEF WireMessages, TypeOK
    <3>2. QED BY <2>1, <2>2, <3>1 DEF IncomingMessage, MediaOf
  <2>3. ASSUME NEW m \in Wire, SentMessage(w, m) PROVE Statement
    <3>1. m.src.chat \in Chats
      BY CanonicalChatType, RowsAssumption DEF WireMessages, TypeOK
    <3>2. QED BY <2>1, <2>3, <3>1 DEF SentMessage, Media
  <2>4. ASSUME \/ FinishFill(w) \/ ApplyRevoke(w) \/ ApplyEdit(w)
               \/ ApplyDelete(w) \/ FinishDownload(w)
        PROVE  Statement
    <3>1. task[w].id \in Ids /\ task[w].chat \in Chats
      BY <2>4, TaskType DEF FinishFill, ApplyRevoke, ApplyEdit, ApplyDelete, FinishDownload
    <3>2. QED
      BY <2>4, <3>1
      DEF FinishFill, ApplyRevoke, ApplyEdit, ApplyDelete, FinishDownload, Statement
  <2>5. ASSUME \/ \E src \in Claims, id \in Ids :
                    \/ IncomingRevoke(w, src, id) \/ IncomingEdit(w, src, id)
                    \/ DeleteForMe(w, src, id)
               \/ \E id \in Ids : OwnRevoke(w, id) \/ StartDownload(w, id)
               \/ AdminConfirmed(w) \/ GiveUp(w)
        PROVE  rows' = rows
    BY <2>5 DEF IncomingRevoke, IncomingEdit, DeleteForMe, OwnRevoke,
                StartDownload, AdminConfirmed, GiveUp
  <2>6. QED BY <1>2, <2>2, <2>3, <2>4, <2>5 DEF Worker, Statement
<1>3. QED BY <1>1, <1>2 DEF Next

------------------------------------------------------------------------------
LEMMA NewRowType ==
  ASSUME NEW m \in Wire, NEW chat \in Chats, NEW media \in {NoMedia} \cup Media
  PROVE  NewRow(m, chat, media) \in Row
BY RowsAssumption DEF WireMessages, Sources, NewRow, Row, Texts, NoPath

LEMMA StatementType ==
  ASSUME TypeOK, Statement
  PROVE  rows' \in Table
<1> USE RowsAssumption DEF TypeOK, Table
<1>1. ASSUME NEW m \in Wire, NEW chat \in Chats, NEW media \in {NoMedia} \cup Media,
             rows' = InsertOrIgnore(rows, m.id, NewRow(m, chat, media))
      PROVE  rows' \in Table
  BY <1>1, NewRowType DEF InsertOrIgnore
<1>2. ASSUME NEW chat \in Chats, NEW id \in Ids,
             \/ rows' = FillMedia(rows, chat, id, "media")
             \/ rows' = MarkMessageRevoked(rows, chat, id)
             \/ rows' = UpdateMessageText(rows, chat, id, "edited")
             \/ rows' = DeleteMessage(rows, chat, id)
             \/ rows' = SetLocalPath(rows, chat, id, "file")
      PROVE  rows' \in Table
  <2>1. rows[id] \in Row \cup {NoRow}
    OBVIOUS
  <2>2. QED
    BY <1>2, <2>1 DEF FillMedia, MarkMessageRevoked, UpdateMessageText,
       DeleteMessage, SetLocalPath, RowIn, LiveRowIn, Row, Texts, Media
<1>3. ASSUME NEW lid \in known, rows' = MoveMessages(rows, lid, PnOf[lid])
      PROVE  rows' \in Table
  BY <1>3, CanonicalType DEF MoveMessages, RowIn, Row
<1>4. QED BY <1>1, <1>2, <1>3 DEF Statement

(* The tasks a step leaves behind are tasks. *)
LEMMA StepTaskType ==
  ASSUME TypeOK, Next
  PROVE  task' \in [Workers -> Tasks] /\ known' \subseteq Lids
<1> USE DEF TypeOK
<1>1. ASSUME NEW lid \in Lids, LearnMapping(lid) \/ MergeChat(lid)
      PROVE  task' \in [Workers -> Tasks] /\ known' \subseteq Lids
  BY <1>1 DEF LearnMapping, MergeChat
<1>2. ASSUME NEW w \in Workers, Worker(w)
      PROVE  task' \in [Workers -> Tasks] /\ known' \subseteq Lids
  <2>1. ASSUME NEW t \in Tasks, task' = [task EXCEPT ![w] = t]
        PROVE  task' \in [Workers -> Tasks]
    BY <2>1
  <2>2. ASSUME NEW m \in Wire, NEW chat \in Chats,
               NEW media \in {NoMedia} \cup Media, AddMessage(w, m, chat, media)
        PROVE  task' \in [Workers -> Tasks] /\ known' \subseteq Lids
    <3>1. [op |-> "fill", id |-> m.id, chat |-> chat] \in Tasks
      BY RowsAssumption DEF WireMessages, Tasks, Fills
    <3>2. QED BY <2>1, <2>2, <3>1 DEF AddMessage
  <2>3. ASSUME NEW m \in Wire, IncomingMessage(w, m) \/ SentMessage(w, m)
        PROVE  task' \in [Workers -> Tasks] /\ known' \subseteq Lids
    <3>1. /\ m.src.chat \in Chats
          /\ \A before \in SUBSET known : CanonicalChat(before, m.src) \in Chats
      BY CanonicalChatType, RowsAssumption DEF WireMessages
    <3>2. QED BY <2>2, <2>3, <3>1 DEF IncomingMessage, SentMessage, MediaOf, Media
  <2>4. ASSUME NEW src \in Claims, NEW id \in Ids, NEW chat \in Chats
        PROVE  /\ \A op \in {"admin", "revoke", "edit"} :
                    [op |-> op, id |-> id, chat |-> chat, by |-> src] \in Tasks
               /\ \A op \in {"ownRevoke", "delete", "download"} :
                    [op |-> op, id |-> id, chat |-> chat] \in Tasks
    BY DEF Tasks, Claimed, Requested
  <2>5. \A id \in Ids : rows[id] # NoRow => rows[id].chat \in Chats
    BY DEF Row
  <2>6. ASSUME NEW src \in Claims, NEW id \in Ids,
               \/ IncomingRevoke(w, src, id) \/ IncomingEdit(w, src, id)
               \/ DeleteForMe(w, src, id)
        PROVE  task' \in [Workers -> Tasks] /\ known' \subseteq Lids
    BY <2>6, <2>1, <2>4, <2>5 DEF IncomingRevoke, IncomingEdit, DeleteForMe
  <2>7. ASSUME NEW id \in Ids, OwnRevoke(w, id) \/ StartDownload(w, id)
        PROVE  task' \in [Workers -> Tasks] /\ known' \subseteq Lids
    <3>1. \A op \in {"ownRevoke", "download"} :
             [op |-> op, id |-> id, chat |-> rows[id].chat] \in Tasks
      BY <2>7, <2>5 DEF OwnRevoke, StartDownload, Tasks, Requested
    <3>2. QED BY <2>7, <2>1, <3>1 DEF OwnRevoke, StartDownload
  <2>8. ASSUME AdminConfirmed(w)
        PROVE  task' \in [Workers -> Tasks] /\ known' \subseteq Lids
    <3>1. task[w] \in Claimed
      BY <2>8 DEF AdminConfirmed, Tasks, Fills, Requested, Claimed
    <3>2. [task[w] EXCEPT !.op = "revoke"] \in Tasks
      BY <3>1 DEF Claimed, Tasks
    <3>3. QED BY <2>8, <2>1, <3>2 DEF AdminConfirmed
  <2>9. ASSUME \/ FinishFill(w) \/ ApplyRevoke(w) \/ ApplyEdit(w)
               \/ ApplyDelete(w) \/ FinishDownload(w) \/ GiveUp(w)
        PROVE  task' \in [Workers -> Tasks] /\ known' \subseteq Lids
    BY <2>9 DEF FinishFill, ApplyRevoke, ApplyEdit, ApplyDelete,
                FinishDownload, GiveUp, Tasks
  <2>10. QED BY <1>2, <2>3, <2>6, <2>7, <2>8, <2>9 DEF Worker
<1>3. QED BY <1>1, <1>2 DEF Next

(* The state always has the declared type. *)
THEOREM TypeCorrect == Spec => []TypeOK
<1>1. Init => TypeOK
  BY DEF Init, TypeOK, Tasks
<1>2. TypeOK /\ [Next]_vars => TypeOK'
  <2> SUFFICES ASSUME TypeOK, [Next]_vars PROVE TypeOK'
    OBVIOUS
  <2>1. CASE Next
    BY <2>1, StepIsStatement, StatementType, StepTaskType DEF TypeOK, Table
  <2>2. CASE UNCHANGED vars
    BY <2>2 DEF TypeOK, vars
  <2>3. QED BY <2>1, <2>2
<1>3. QED BY <1>1, <1>2, PTL DEF Spec

------------------------------------------------------------------------------
Bare(row) == Revoked(row) => row.media = NoMedia /\ row.path = NoPath

(* What one of the UPDATE and DELETE statements does to the row with its   *)
(* ID, by field; the other rows stay.                                      *)
RowChange(old, new) ==
  \/ new = old
  \/ new = NoRow
  \/ /\ new \in Row /\ new.text = RevokedText
     /\ new.media = NoMedia /\ new.path = NoPath
     /\ new.sender = old.sender /\ new.fromMe = old.fromMe /\ new.chat = old.chat
  \/ /\ new \in Row /\ old.text # RevokedText
     /\ new.sender = old.sender /\ new.fromMe = old.fromMe /\ new.chat = old.chat
     /\ \/ /\ old.media = NoMedia /\ new.media = "media"
           /\ new.text = old.text /\ new.path = old.path
        \/ /\ new.text = "edited"
           /\ new.media = old.media /\ new.path = old.path
        \/ /\ new.path = "file"
           /\ new.text = old.text /\ new.media = old.media

LEMMA UpdateChangesRow ==
  ASSUME TypeOK, NEW chat \in Chats, NEW id \in Ids,
         \/ rows' = FillMedia(rows, chat, id, "media")
         \/ rows' = MarkMessageRevoked(rows, chat, id)
         \/ rows' = UpdateMessageText(rows, chat, id, "edited")
         \/ rows' = DeleteMessage(rows, chat, id)
         \/ rows' = SetLocalPath(rows, chat, id, "file")
  PROVE  \/ rows' = rows
         \/ /\ rows[id] \in Row /\ RowChange(rows[id], rows'[id])
            /\ rows' = [rows EXCEPT ![id] = rows'[id]]
<1> SUFFICES ASSUME rows' # rows
             PROVE  /\ rows[id] \in Row /\ RowChange(rows[id], rows'[id])
                    /\ rows' = [rows EXCEPT ![id] = rows'[id]]
  OBVIOUS
<1>1. rows[id] \in Row
  BY DEF TypeOK, FillMedia, MarkMessageRevoked, UpdateMessageText,
     DeleteMessage, SetLocalPath, RowIn, LiveRowIn
<1>2. CASE rows' = FillMedia(rows, chat, id, "media")
  BY <1>1, <1>2 DEF TypeOK, FillMedia, LiveRowIn, RowChange, Row, Media
<1>3. CASE rows' = MarkMessageRevoked(rows, chat, id)
  BY <1>1, <1>3 DEF TypeOK, MarkMessageRevoked, RowChange, Row, Texts
<1>4. CASE rows' = UpdateMessageText(rows, chat, id, "edited")
  BY <1>1, <1>4 DEF TypeOK, UpdateMessageText, LiveRowIn, RowChange, Row, Texts
<1>5. CASE rows' = DeleteMessage(rows, chat, id)
  BY <1>1, <1>5 DEF TypeOK, DeleteMessage, RowChange
<1>6. CASE rows' = SetLocalPath(rows, chat, id, "file")
  BY <1>1, <1>6 DEF TypeOK, SetLocalPath, LiveRowIn, RowChange, Row
<1>7. QED BY <1>2, <1>3, <1>4, <1>5, <1>6

(* A merge changes the chat of rows and nothing else. *)
LEMMA MoveChangesChat ==
  ASSUME TypeOK, NEW lid \in known, rows' = MoveMessages(rows, lid, PnOf[lid]),
         NEW x \in Ids
  PROVE  \/ rows'[x] = rows[x]
         \/ /\ rows[x] \in Row /\ rows[x].chat = lid
            /\ rows'[x] \in Row /\ rows'[x].chat = PnOf[lid]
            /\ rows'[x].sender = rows[x].sender /\ rows'[x].fromMe = rows[x].fromMe
            /\ rows'[x].text = rows[x].text
            /\ rows'[x].media = rows[x].media /\ rows'[x].path = rows[x].path
BY CanonicalType DEF TypeOK, MoveMessages, RowIn, Row

(* The INSERT stores the new row where there was none. *)
LEMMA InsertChangesRow ==
  ASSUME TypeOK, NEW m \in Wire, NEW chat \in Chats, NEW media \in {NoMedia} \cup Media,
         rows' = InsertOrIgnore(rows, m.id, NewRow(m, chat, media))
  PROVE  \/ rows' = rows
         \/ /\ m.id \in Ids /\ rows[m.id] = NoRow
            /\ rows' = [rows EXCEPT ![m.id] = NewRow(m, chat, media)]
BY RowsAssumption DEF WireMessages, InsertOrIgnore

(* One statement leaves a bare placeholder bare, and revokes to a bare one. *)
LEMMA StatementKeepsBare ==
  ASSUME TypeOK, Statement, RevokedRowsAreBare
  PROVE  RevokedRowsAreBare'
<1> SUFFICES ASSUME NEW x \in Ids PROVE Bare(rows'[x])
  BY DEF RevokedRowsAreBare, Bare
<1>0. Bare(rows[x])
  BY DEF RevokedRowsAreBare, Bare
<1>1. CASE rows' = rows
  BY <1>0, <1>1
<1>2. ASSUME NEW m \in Wire, NEW chat \in Chats, NEW media \in {NoMedia} \cup Media,
             rows' = InsertOrIgnore(rows, m.id, NewRow(m, chat, media))
      PROVE  Bare(rows'[x])
  <2>1. Bare(NewRow(m, chat, media))
    BY DEF NewRow, RevokedText, Bare, Revoked
  <2>2. rows'[x] = rows[x] \/ rows'[x] = NewRow(m, chat, media)
    <3>1. rows' = rows \/ rows' = [rows EXCEPT ![m.id] = NewRow(m, chat, media)]
      BY <1>2, InsertChangesRow
    <3>2. QED BY <3>1 DEF TypeOK
  <2>3. QED BY <1>0, <2>1, <2>2
<1>3. ASSUME NEW chat \in Chats, NEW id \in Ids,
             \/ rows' = FillMedia(rows, chat, id, "media")
             \/ rows' = MarkMessageRevoked(rows, chat, id)
             \/ rows' = UpdateMessageText(rows, chat, id, "edited")
             \/ rows' = DeleteMessage(rows, chat, id)
             \/ rows' = SetLocalPath(rows, chat, id, "file")
      PROVE  Bare(rows'[x])
  <2>1. rows'[x] = rows[x] \/ RowChange(rows[x], rows'[x])
    BY <1>3, UpdateChangesRow DEF TypeOK
  <2>2. QED BY <1>0, <2>1 DEF RowChange, Bare, Revoked, RevokedText
<1>4. ASSUME NEW lid \in known, rows' = MoveMessages(rows, lid, PnOf[lid])
      PROVE  Bare(rows'[x])
  BY <1>0, <1>4, MoveChangesChat, RowsAssumption DEF Bare, Revoked
<1>5. QED BY <1>1, <1>2, <1>3, <1>4 DEF Statement

(* No fill, download or edit in flight gives a revoked message content back. *)
THEOREM RevokedStayBare == Spec => []RevokedRowsAreBare
<1>1. Init => RevokedRowsAreBare
  BY DEF Init, RevokedRowsAreBare, Revoked
<1>2. TypeOK /\ RevokedRowsAreBare /\ [Next]_vars => RevokedRowsAreBare'
  <2> SUFFICES ASSUME TypeOK, RevokedRowsAreBare, [Next]_vars
               PROVE  RevokedRowsAreBare'
    OBVIOUS
  <2>1. CASE Next
    BY <2>1, StepIsStatement, StatementKeepsBare
  <2>2. CASE UNCHANGED vars
    BY <2>2 DEF RevokedRowsAreBare, Revoked, vars
  <2>3. QED BY <2>1, <2>2
<1>3. QED BY <1>1, <1>2, TypeCorrect, PTL DEF Spec

------------------------------------------------------------------------------
(* One statement is at most one lifecycle step of one message.  A move    *)
(* changes no View, so a merge of any number of rows is a stutter.         *)
Views == [id \in Ids |-> View(rows[id])]

LEMMA ViewAfterUpdate ==
  ASSUME TypeOK, NEW id \in Ids, NEW r \in Row \cup {NoRow},
         rows' = [rows EXCEPT ![id] = r]
  PROVE  Views' = [Views EXCEPT ![id] = View(r)]
BY DEF TypeOK, Views, View

LEMMA ViewOfRow ==
  ASSUME NEW r \in Row
  PROVE  View(r) = [text |-> r.text, media |-> r.media, path |-> r.path]
BY RowsAssumption DEF View

LEMMA ViewType ==
  ASSUME NEW r \in Row
  PROVE  View(r) \in Content /\ View(r) # NoRow
BY ViewOfRow, RowsAssumption DEF Row, Content

(* A change of one row by UPDATE or DELETE is one step of the lifecycle. *)
LEMMA RowChangeIsLifecycleStep ==
  ASSUME TypeOK, NEW id \in Ids, rows[id] \in Row, Bare(rows[id]),
         RowChange(rows[id], rows'[id]),
         rows' = [rows EXCEPT ![id] = rows'[id]]
  PROVE  Lifecycle!Next \/ Views' = Views
<1> DEFINE old == rows[id]
           new == rows'[id]
           v   == View(old)
<1>1. /\ v = [text |-> old.text, media |-> old.media, path |-> old.path]
      /\ v # NoRow
      /\ v.text = old.text /\ v.media = old.media /\ v.path = old.path
  <2>1. v = [text |-> old.text, media |-> old.media, path |-> old.path] /\ v # NoRow
    BY ViewOfRow, ViewType
  <2>2. QED BY <2>1
<1>2. new \in Row \cup {NoRow}
  BY DEF RowChange
<1>3. Views[id] = v /\ Views' = [Views EXCEPT ![id] = View(new)]
  BY <1>2, ViewAfterUpdate DEF Views
<1>4. \A r \in Row : View(r) = [text |-> r.text, media |-> r.media, path |-> r.path]
  BY ViewOfRow
<1> HIDE DEF v
<1>5. CASE new = old
  BY <1>5, <1>3 DEF Views, v
<1>6. CASE new = NoRow
  <2>1. View(new) = NoRow
    BY <1>6 DEF View
  <2>2. Lifecycle!Delete(id)
    BY <1>1, <1>3, <2>1 DEF Lifecycle!Delete, Views
  <2>3. QED BY <2>2 DEF Lifecycle!Next
<1>7. CASE /\ new \in Row /\ new.text = RevokedText
           /\ new.media = NoMedia /\ new.path = NoPath
  <2>1. View(new) = Lifecycle!Placeholder
    BY <1>4, <1>7 DEF Lifecycle!Placeholder, RevokedText, NoMedia, NoPath
  <2>2. CASE old.text = RevokedText
    <3>1. Revoked(old)
      BY <2>2, RowsAssumption DEF Revoked
    <3>2. v = Lifecycle!Placeholder
      BY <1>1, <2>2, <3>1 DEF Bare, Lifecycle!Placeholder, RevokedText, NoMedia, NoPath
    <3>3. Views' = [Views EXCEPT ![id] = Views[id]]
      BY <1>3, <2>1, <3>2
    <3>4. QED BY <3>3 DEF Views
  <2>3. CASE old.text # RevokedText
    <3>1. Lifecycle!Live(id)
      <4>1. Views[id] # NoRow /\ Views[id].text # RevokedText
        BY <1>1, <1>3, <2>3
      <4>2. Lifecycle!Placeholder.text = RevokedText
        BY DEF Lifecycle!Placeholder, RevokedText
      <4>3. QED BY <4>1, <4>2 DEF Lifecycle!Live, Views
    <3>2. Lifecycle!Revoke(id)
      BY <1>3, <2>1, <3>1 DEF Lifecycle!Revoke, Views
    <3>3. QED BY <3>2 DEF Lifecycle!Next
  <2>4. QED BY <2>2, <2>3
<1>8. ASSUME new \in Row, old.text # RevokedText
      PROVE  Lifecycle!Live(id) /\ View(new) =
               [text |-> new.text, media |-> new.media, path |-> new.path]
  <2>1. View(new) = [text |-> new.text, media |-> new.media, path |-> new.path]
    BY <1>4, <1>8
  <2>2. Views[id] # NoRow /\ Views[id].text # RevokedText
    BY <1>1, <1>3, <1>8
  <2>3. Lifecycle!Placeholder.text = RevokedText
    BY DEF Lifecycle!Placeholder, RevokedText
  <2>4. QED BY <2>1, <2>2, <2>3 DEF Lifecycle!Live, Views
<1>9. CASE /\ new \in Row /\ old.text # RevokedText
           /\ old.media = NoMedia /\ new.media = "media"
           /\ new.text = old.text /\ new.path = old.path
  <2>1. View(new) = [v EXCEPT !.media = "media"] /\ v.media = ""
    <3>1. View(new) = [text |-> old.text, media |-> "media", path |-> old.path]
      BY <1>8, <1>9
    <3>2. v.media = ""
      BY <1>1, <1>9 DEF NoMedia
    <3>3. View(new) = [v EXCEPT !.media = "media"]
      BY <1>1, <3>1
    <3>4. QED BY <3>2, <3>3
  <2>2. Lifecycle!AttachMedia(id)
    BY <1>3, <1>8, <1>9, <2>1 DEF Lifecycle!AttachMedia, Views
  <2>3. QED BY <2>2 DEF Lifecycle!Next
<1>10. CASE /\ new \in Row /\ old.text # RevokedText /\ new.text = "edited"
            /\ new.media = old.media /\ new.path = old.path
  <2>1. View(new) = [v EXCEPT !.text = "edited"]
    BY <1>1, <1>8, <1>10
  <2>2. Lifecycle!Edit(id)
    BY <1>3, <1>8, <1>10, <2>1 DEF Lifecycle!Edit, Views
  <2>3. QED BY <2>2 DEF Lifecycle!Next
<1>11. CASE /\ new \in Row /\ old.text # RevokedText /\ new.path = "file"
            /\ new.text = old.text /\ new.media = old.media
  <2>1. View(new) = [v EXCEPT !.path = "file"]
    BY <1>1, <1>8, <1>11
  <2>2. Lifecycle!Save(id)
    BY <1>3, <1>8, <1>11, <2>1 DEF Lifecycle!Save, Views
  <2>3. QED BY <2>2 DEF Lifecycle!Next
<1>12. QED BY <1>5, <1>6, <1>7, <1>9, <1>10, <1>11 DEF RowChange

LEMMA StatementLifecycle ==
  ASSUME TypeOK, Statement, RevokedRowsAreBare
  PROVE  Lifecycle!Next \/ Views' = Views
<1>1. CASE rows' = rows
  BY <1>1 DEF Views
<1>2. ASSUME NEW m \in Wire, NEW chat \in Chats, NEW media \in {NoMedia} \cup Media,
             rows' = InsertOrIgnore(rows, m.id, NewRow(m, chat, media))
      PROVE  Lifecycle!Next \/ Views' = Views
  <2>1. SUFFICES ASSUME m.id \in Ids, rows[m.id] = NoRow,
                        rows' = [rows EXCEPT ![m.id] = NewRow(m, chat, media)]
                 PROVE  Lifecycle!Next
    BY <1>1, <1>2, InsertChangesRow
  <2>2. View(NewRow(m, chat, media)) = Lifecycle!Fresh(media)
    BY ViewOfRow, NewRowType DEF NewRow, Lifecycle!Fresh, NoPath
  <2>3. Views' = [Views EXCEPT ![m.id] = Lifecycle!Fresh(media)]
    BY <2>1, <2>2, NewRowType, ViewAfterUpdate
  <2>4. Views[m.id] = NoRow
    BY <2>1 DEF Views, View
  <2>5. Lifecycle!Store(m.id, media)
    BY <2>3, <2>4 DEF Lifecycle!Store, Views
  <2>6. QED BY <2>1, <2>5 DEF Lifecycle!Next, Media, NoMedia
<1>3. ASSUME NEW chat \in Chats, NEW id \in Ids,
             \/ rows' = FillMedia(rows, chat, id, "media")
             \/ rows' = MarkMessageRevoked(rows, chat, id)
             \/ rows' = UpdateMessageText(rows, chat, id, "edited")
             \/ rows' = DeleteMessage(rows, chat, id)
             \/ rows' = SetLocalPath(rows, chat, id, "file")
      PROVE  Lifecycle!Next \/ Views' = Views
  <2>1. Bare(rows[id])
    BY DEF RevokedRowsAreBare, Bare
  <2>2. QED
    BY <1>1, <1>3, <2>1, UpdateChangesRow, RowChangeIsLifecycleStep
<1>4. ASSUME NEW lid \in known, rows' = MoveMessages(rows, lid, PnOf[lid])
      PROVE  Views' = Views
  <2>1. ASSUME NEW x \in Ids PROVE View(rows'[x]) = View(rows[x])
    BY <1>4, MoveChangesChat, ViewOfRow
  <2>2. QED BY <2>1 DEF Views
<1>5. QED BY <1>1, <1>2, <1>3, <1>4 DEF Statement

(* The messages table implements the lifecycle of each message. *)
THEOREM RowsImplementLifecycle == Spec => ImplementsLifecycle
<1>1. Init => Lifecycle!Init
  BY DEF Init, Lifecycle!Init, View
<1>2. TypeOK /\ RevokedRowsAreBare /\ [Next]_vars => [Lifecycle!Next]_Views
  <2> SUFFICES ASSUME TypeOK, RevokedRowsAreBare, [Next]_vars
               PROVE  Lifecycle!Next \/ Views' = Views
    OBVIOUS
  <2>1. CASE Next
    BY <2>1, StepIsStatement, StatementLifecycle
  <2>2. CASE UNCHANGED vars
    BY <2>2 DEF vars, Views
  <2>3. QED BY <2>1, <2>2
<1>3. QED
  BY <1>1, <1>2, TypeCorrect, RevokedStayBare, PTL
  DEF Spec, ImplementsLifecycle, Lifecycle!Spec, Views

------------------------------------------------------------------------------
(* How one statement relates a row to itself: nothing, the INSERT of an    *)
(* absent ID, one UPDATE or DELETE, or the move of its chat.               *)
LEMMA StatementRelation ==
  ASSUME TypeOK, Statement, NEW x \in Ids
  PROVE  \/ rows'[x] = rows[x]
         \/ rows[x] = NoRow
         \/ rows[x] \in Row /\ RowChange(rows[x], rows'[x])
         \/ /\ rows[x] \in Row /\ rows'[x] \in Row
            /\ rows[x].chat \in known /\ rows'[x].chat = PnOf[rows[x].chat]
            /\ rows'[x].sender = rows[x].sender /\ rows'[x].fromMe = rows[x].fromMe
            /\ rows'[x].text = rows[x].text /\ rows'[x].media = rows[x].media
<1>1. CASE rows' = rows
  BY <1>1
<1>2. ASSUME NEW m \in Wire, NEW chat \in Chats, NEW media \in {NoMedia} \cup Media,
             rows' = InsertOrIgnore(rows, m.id, NewRow(m, chat, media)), rows' # rows
      PROVE  rows'[x] = rows[x] \/ rows[x] = NoRow
  <2>1. rows[m.id] = NoRow /\ rows' = [rows EXCEPT ![m.id] = NewRow(m, chat, media)]
    BY <1>2, InsertChangesRow
  <2>2. QED BY <2>1 DEF TypeOK
<1>3. ASSUME NEW chat \in Chats, NEW id \in Ids, rows' # rows,
             \/ rows' = FillMedia(rows, chat, id, "media")
             \/ rows' = MarkMessageRevoked(rows, chat, id)
             \/ rows' = UpdateMessageText(rows, chat, id, "edited")
             \/ rows' = DeleteMessage(rows, chat, id)
             \/ rows' = SetLocalPath(rows, chat, id, "file")
      PROVE  rows'[x] = rows[x] \/ (rows[x] \in Row /\ RowChange(rows[x], rows'[x]))
  <2>1. /\ rows[id] \in Row /\ RowChange(rows[id], rows'[id])
        /\ rows' = [rows EXCEPT ![id] = rows'[id]]
    BY <1>3, UpdateChangesRow
  <2>2. CASE x = id
    BY <2>1, <2>2
  <2>3. CASE x # id
    BY <2>1, <2>3 DEF TypeOK
  <2>4. QED BY <2>2, <2>3
<1>4. ASSUME NEW lid \in known, rows' = MoveMessages(rows, lid, PnOf[lid])
      PROVE  \/ rows'[x] = rows[x]
             \/ /\ rows[x] \in Row /\ rows'[x] \in Row
                /\ rows[x].chat \in known /\ rows'[x].chat = PnOf[rows[x].chat]
                /\ rows'[x].sender = rows[x].sender /\ rows'[x].fromMe = rows[x].fromMe
                /\ rows'[x].text = rows[x].text /\ rows'[x].media = rows[x].media
  BY <1>4, MoveChangesChat
<1>5. QED BY <1>1, <1>2, <1>3, <1>4 DEF Statement

(* A revoked message never comes back; only a delete removes it. *)
THEOREM RevokesStayFinal == Spec => RevokesAreFinal
<1> DEFINE Final == \A id \in Ids :
                      Revoked(rows[id]) => rows'[id] = NoRow \/ Revoked(rows'[id])
<1>1. TypeOK /\ [Next]_vars => [Final]_vars
  <2> SUFFICES ASSUME TypeOK, Next, NEW id \in Ids, Revoked(rows[id])
               PROVE  rows'[id] = NoRow \/ Revoked(rows'[id])
    OBVIOUS
  <2>1. Statement
    BY StepIsStatement
  <2>2. QED BY <2>1, StatementRelation, RowsAssumption DEF Revoked, RowChange
<1>2. QED BY <1>1, TypeCorrect, PTL DEF Spec, RevokesAreFinal

(* No write replaces what the first write of an ID stored. *)
THEOREM FirstWriteStays == Spec => FirstWriteWins
<1> DEFINE Kept(old, new) ==
             /\ new.sender = old.sender
             /\ new.fromMe = old.fromMe
             /\ new.chat = old.chat \/ new.chat = Canonical(known, old.chat)
             /\ old.media # NoMedia => new.media = old.media \/ Revoked(new)
<1>1. TypeOK /\ [Next]_vars =>
        [\A id \in Ids : rows[id] # NoRow /\ rows'[id] # NoRow =>
           Kept(rows[id], rows'[id])]_vars
  <2> SUFFICES ASSUME TypeOK, Next, NEW id \in Ids,
                      rows[id] # NoRow, rows'[id] # NoRow
               PROVE  Kept(rows[id], rows'[id])
    OBVIOUS
  <2>1. Statement
    BY StepIsStatement
  <2>2. CASE rows'[id] = rows[id]
    BY <2>2
  <2>3. CASE rows[id] \in Row /\ RowChange(rows[id], rows'[id])
    <3>1. CASE rows'[id] \in Row /\ rows'[id].text = RevokedText
      <4>1. Revoked(rows'[id])
        BY <3>1, RowsAssumption DEF Revoked
      <4>2. /\ rows'[id].sender = rows[id].sender /\ rows'[id].fromMe = rows[id].fromMe
            /\ rows'[id].chat = rows[id].chat
        BY <2>3 DEF RowChange
      <4>3. QED BY <4>1, <4>2
    <3>2. CASE rows'[id] \in Row /\ rows'[id].text # RevokedText
      BY <2>3, <3>2 DEF RowChange
    <3>3. CASE rows'[id] = rows[id]
      BY <3>3
    <3>4. QED BY <2>3, <3>1, <3>2, <3>3 DEF RowChange
  <2>4. CASE /\ rows[id].chat \in known /\ rows'[id].chat = PnOf[rows[id].chat]
             /\ rows'[id].sender = rows[id].sender /\ rows'[id].fromMe = rows[id].fromMe
             /\ rows'[id].media = rows[id].media
    BY <2>4 DEF Canonical
  <2>5. QED BY <2>1, <2>2, <2>3, <2>4, StatementRelation
<1>2. QED BY <1>1, TypeCorrect, PTL DEF Spec, FirstWriteWins
------------------------------------------------------------------------------
(* WhatsApp names a message by chat and ID: what is delivered under one ID *)
(* in one chat, under either of its addresses, is one person's message.    *)
(* Between chats an ID may repeat.                                         *)
IdsNameMessages ==
  \A m, n \in Wire :
    m.id = n.id /\ Identity(m.src.chat) = Identity(n.src.chat) =>
      /\ m.src.fromMe = n.src.fromMe
      /\ Identity(m.src.sender) = Identity(n.src.sender)

(* The row is the delivered message m, moved by merges at most. *)
StoredFrom(row, m) ==
  /\ Identity(row.chat) = Identity(m.src.chat)
  /\ row.sender = m.src.sender /\ row.fromMe = m.src.fromMe

RowsAreDelivered ==
  \A id \in Ids :
    rows[id] # NoRow => \E m \in Wire : m.id = id /\ StoredFrom(rows[id], m)

(* Who may delete message m for everyone, whichever row it is stored in. *)
MayRevokeSent(by, m) ==
  \/ by.fromMe
  \/ SameIdentity(by, m.src)
  \/ by.chat \in Groups /\ \E a \in Admins[by.chat] : Identity(a) = Identity(by.sender)

(* What the first half of a handler has established, in terms that a later *)
(* delete, redelivery or merge does not change: it is entitled to whatever *)
(* is delivered under the ID in the chat its statement names.              *)
TaskEntitled(t) ==
  /\ t.op \in {"admin", "revoke", "edit"} => Identity(t.by.chat) = Identity(t.chat)
  /\ t.op = "admin" => t.by.chat \in Groups
  /\ \A m \in Wire : m.id = t.id /\ Identity(m.src.chat) = Identity(t.chat) =>
       /\ t.op = "edit" => SameIdentity(t.by, m.src)
       /\ t.op = "revoke" => MayRevokeSent(t.by, m)
       /\ t.op = "ownRevoke" => m.src.fromMe

TasksAreEntitled == \A w \in Workers : task[w] # Idle => TaskEntitled(task[w])

LEMMA SameUserIdentity ==
  ASSUME NEW before \in SUBSET Lids, NEW a \in Chats, NEW b \in Chats,
         SameUser(before, a, b)
  PROVE  Identity(a) = Identity(b)
BY JidAssumption DEF SameUser, Canonical, Chats, Users, Identity

(* The rules of revoke_incoming.go tell people apart as they really are,   *)
(* whatever the LID store knows so far.                                    *)
LEMMA ChatMatchesIdentity ==
  ASSUME NEW before \in SUBSET Lids, NEW src \in Sources, NEW chat \in Chats,
         ChatMatches(before, src, chat)
  PROVE  Identity(src.chat) = Identity(chat)
BY CanonicalChatType, SameUserIdentity DEF ChatMatches

LEMMA SentByIdentity ==
  ASSUME NEW before \in SUBSET Lids, NEW src \in Sources, NEW sender \in Users,
         SentBy(before, src, sender)
  PROVE  Identity(src.sender) = Identity(sender)
<1>1. PICK a \in SenderAddresses(src) : SameUser(before, a, sender)
  BY DEF SentBy
<1>2. a \in Users /\ src.sender \in Users
  BY <1>1 DEF SenderAddresses, Sources
<1>3. Identity(a) = Identity(src.sender)
  BY <1>1, <1>2, JidAssumption DEF SenderAddresses, Identity, Users
<1>4. Identity(a) = Identity(sender)
  BY <1>1, <1>2, SameUserIdentity DEF Chats
<1>5. QED BY <1>3, <1>4

(* Every row is a delivered message, and a merge only changes its address. *)
LEMMA RowsStayDelivered ==
  ASSUME TypeOK, Statement, RowsAreDelivered
  PROVE  RowsAreDelivered'
<1> SUFFICES ASSUME NEW x \in Ids, rows'[x] # NoRow
             PROVE  \E m \in Wire : m.id = x /\ StoredFrom(rows'[x], m)
  BY DEF RowsAreDelivered
<1>0. ASSUME rows[x] # NoRow, rows'[x].sender = rows[x].sender,
             rows'[x].fromMe = rows[x].fromMe,
             Identity(rows'[x].chat) = Identity(rows[x].chat)
      PROVE  \E m \in Wire : m.id = x /\ StoredFrom(rows'[x], m)
  <2>1. PICK m \in Wire : m.id = x /\ StoredFrom(rows[x], m)
    BY <1>0 DEF RowsAreDelivered
  <2>2. QED BY <1>0, <2>1 DEF StoredFrom
<1>1. CASE rows' = rows
  BY <1>0, <1>1
<1>2. ASSUME NEW m \in Wire, NEW chat \in Chats, NEW media \in {NoMedia} \cup Media,
             Identity(chat) = Identity(m.src.chat), rows' # rows,
             rows' = InsertOrIgnore(rows, m.id, NewRow(m, chat, media))
      PROVE  \E n \in Wire : n.id = x /\ StoredFrom(rows'[x], n)
  <2>1. m.id \in Ids /\ rows' = [rows EXCEPT ![m.id] = NewRow(m, chat, media)]
    BY <1>2, InsertChangesRow
  <2>2. CASE x = m.id
    <3>1. rows'[x] = NewRow(m, chat, media)
      BY <2>1, <2>2 DEF TypeOK
    <3>2. StoredFrom(rows'[x], m)
      BY <1>2, <3>1 DEF StoredFrom, NewRow
    <3>3. QED BY <2>2, <3>2
  <2>3. CASE x # m.id
    <3>1. rows'[x] = rows[x]
      BY <2>1, <2>3 DEF TypeOK
    <3>2. QED BY <1>0, <3>1
  <2>4. QED BY <2>2, <2>3
<1>3. ASSUME NEW chat \in Chats, NEW id \in Ids, rows' # rows,
             \/ rows' = FillMedia(rows, chat, id, "media")
             \/ rows' = MarkMessageRevoked(rows, chat, id)
             \/ rows' = UpdateMessageText(rows, chat, id, "edited")
             \/ rows' = DeleteMessage(rows, chat, id)
             \/ rows' = SetLocalPath(rows, chat, id, "file")
      PROVE  \E m \in Wire : m.id = x /\ StoredFrom(rows'[x], m)
  <2>1. \/ rows'[x] = rows[x]
        \/ rows[x] \in Row /\ RowChange(rows[x], rows'[x])
    BY <1>3, UpdateChangesRow DEF TypeOK
  <2>2. rows[x] # NoRow /\ rows'[x].sender = rows[x].sender
        /\ rows'[x].fromMe = rows[x].fromMe /\ rows'[x].chat = rows[x].chat
    BY <2>1, RowsAssumption DEF RowChange
  <2>3. QED BY <1>0, <2>2
<1>4. ASSUME NEW lid \in known, rows' = MoveMessages(rows, lid, PnOf[lid])
      PROVE  \E m \in Wire : m.id = x /\ StoredFrom(rows'[x], m)
  <2>1. Identity(PnOf[lid]) = Identity(lid)
    BY JidAssumption DEF TypeOK, Identity
  <2>2. CASE rows'[x] = rows[x]
    BY <1>0, <2>2
  <2>3. CASE /\ rows[x] \in Row /\ rows[x].chat = lid /\ rows'[x].chat = PnOf[lid]
             /\ rows'[x].sender = rows[x].sender /\ rows'[x].fromMe = rows[x].fromMe
    BY <1>0, <2>1, <2>3, RowsAssumption
  <2>4. QED BY <1>4, <2>2, <2>3, MoveChangesChat
<1>5. QED BY <1>1, <1>2, <1>3, <1>4 DEF Statement

(* What is delivered under the ID of a row in the chat of the row has the  *)
(* row's direction and sender.                                             *)
LEMMA RowNamesMessage ==
  ASSUME TypeOK, IdsNameMessages, RowsAreDelivered, NEW id \in Ids, rows[id] # NoRow,
         NEW m \in Wire, m.id = id, Identity(m.src.chat) = Identity(rows[id].chat)
  PROVE  m.src.fromMe = rows[id].fromMe /\ Identity(m.src.sender) = Identity(rows[id].sender)
<1>1. PICK n \in Wire : n.id = id /\ StoredFrom(rows[id], n)
  BY DEF RowsAreDelivered
<1>2. QED BY <1>1 DEF StoredFrom, IdsNameMessages

LEMMA RowFields ==
  ASSUME TypeOK, NEW id \in Ids, rows[id] # NoRow
  PROVE  rows[id].chat \in Chats /\ rows[id].sender \in Users /\ rows[id].fromMe \in BOOLEAN
BY DEF TypeOK, Row

LEMMA NewTaskEntitled ==
  ASSUME TypeOK, TasksAreEntitled, NEW w \in Workers, NEW t,
         task' = [task EXCEPT ![w] = t], t = Idle \/ TaskEntitled(t)
  PROVE  TasksAreEntitled'
BY DEF TypeOK, TasksAreEntitled

LEMMA TasksStayEntitled ==
  ASSUME TypeOK, IdsNameMessages, RowsAreDelivered, TasksAreEntitled, Next
  PROVE  TasksAreEntitled'
<1>1. ASSUME NEW lid \in Lids, LearnMapping(lid) \/ MergeChat(lid)
      PROVE  TasksAreEntitled'
  BY <1>1 DEF LearnMapping, MergeChat, TasksAreEntitled
<1>2. ASSUME NEW w \in Workers, Worker(w)
      PROVE  TasksAreEntitled'
  <2>1. ASSUME NEW m \in Wire, IncomingMessage(w, m) \/ SentMessage(w, m)
        PROVE  TasksAreEntitled'
    <3>1. PICK chat, media : AddMessage(w, m, chat, media)
      BY <2>1 DEF IncomingMessage, SentMessage
    <3>2. CASE task' = task
      BY <3>2 DEF TasksAreEntitled
    <3>3. CASE task' = [task EXCEPT ![w] = [op |-> "fill", id |-> m.id, chat |-> chat]]
      <4>1. TaskEntitled([op |-> "fill", id |-> m.id, chat |-> chat])
        BY DEF TaskEntitled
      <4>2. QED BY <3>3, <4>1, NewTaskEntitled
    <3>4. QED BY <3>1, <3>2, <3>3 DEF AddMessage
  <2>2. ASSUME NEW src \in Claims, NEW id \in Ids, IncomingRevoke(w, src, id)
        PROVE  TasksAreEntitled'
    <3>1. /\ rows[id] # NoRow /\ src \in Sources /\ known \in SUBSET Lids
          /\ ChatMatches(known, src, rows[id].chat)
      BY <2>2, RowsAssumption DEF IncomingRevoke, TypeOK
    <3>2. Identity(src.chat) = Identity(rows[id].chat)
      BY <3>1, RowFields, ChatMatchesIdentity
    <3>3. ASSUME AppliesNow(src, rows[id])
          PROVE  TaskEntitled([op |-> "revoke", id |-> id, chat |-> rows[id].chat, by |-> src])
      <4>1. ASSUME NEW m \in Wire, m.id = id, Identity(m.src.chat) = Identity(rows[id].chat)
            PROVE  MayRevokeSent(src, m)
        <5>1. CASE src.fromMe
          BY <5>1 DEF MayRevokeSent
        <5>2. CASE ~src.fromMe /\ ~rows[id].fromMe /\ SentBy(known, src, rows[id].sender)
          <6>1. Identity(src.sender) = Identity(rows[id].sender)
            BY <3>1, <5>2, RowFields, SentByIdentity
          <6>2. m.src.fromMe = rows[id].fromMe /\ Identity(m.src.sender) = Identity(rows[id].sender)
            BY <3>1, <4>1, RowNamesMessage
          <6>3. src.fromMe = rows[id].fromMe
            BY <3>1, <5>2, RowFields DEF Sources
          <6>4. QED BY <6>1, <6>2, <6>3 DEF MayRevokeSent, SameIdentity
        <5>3. QED BY <3>3, <5>1, <5>2 DEF AppliesNow
      <4>2. QED BY <3>2, <4>1 DEF TaskEntitled
    <3>4. ASSUME src.chat \in Groups
          PROVE  TaskEntitled([op |-> "admin", id |-> id, chat |-> rows[id].chat, by |-> src])
      BY <3>2, <3>4 DEF TaskEntitled
    <3>5. QED BY <2>2, <3>3, <3>4, NewTaskEntitled DEF IncomingRevoke
  <2>3. ASSUME NEW src \in Claims, NEW id \in Ids, IncomingEdit(w, src, id)
        PROVE  TasksAreEntitled'
    <3>1. /\ rows[id] # NoRow /\ src \in Sources /\ known \in SUBSET Lids
          /\ ChatMatches(known, src, rows[id].chat) /\ src.fromMe = rows[id].fromMe
          /\ src.fromMe \/ SentBy(known, src, rows[id].sender)
      BY <2>3, RowsAssumption DEF IncomingEdit, EditAllowed, TypeOK
    <3>2. Identity(src.chat) = Identity(rows[id].chat)
      BY <3>1, RowFields, ChatMatchesIdentity
    <3>3. src.fromMe \/ Identity(src.sender) = Identity(rows[id].sender)
      BY <3>1, RowFields, SentByIdentity
    <3>4. ASSUME NEW m \in Wire, m.id = id, Identity(m.src.chat) = Identity(rows[id].chat)
          PROVE  SameIdentity(src, m.src)
      BY <3>1, <3>3, <3>4, RowNamesMessage DEF SameIdentity
    <3>5. TaskEntitled([op |-> "edit", id |-> id, chat |-> rows[id].chat, by |-> src])
      BY <3>2, <3>4 DEF TaskEntitled
    <3>6. QED BY <2>3, <3>5, NewTaskEntitled DEF IncomingEdit
  <2>4. ASSUME NEW src \in Claims, NEW id \in Ids, DeleteForMe(w, src, id)
        PROVE  TasksAreEntitled'
    <3>1. TaskEntitled([op |-> "delete", id |-> id, chat |-> rows[id].chat])
      BY DEF TaskEntitled
    <3>2. QED BY <2>4, <3>1, NewTaskEntitled DEF DeleteForMe
  <2>5. ASSUME NEW id \in Ids, OwnRevoke(w, id)
        PROVE  TasksAreEntitled'
    <3>1. ASSUME NEW m \in Wire, m.id = id, Identity(m.src.chat) = Identity(rows[id].chat)
          PROVE  m.src.fromMe
      BY <2>5, <3>1, RowNamesMessage DEF OwnRevoke
    <3>2. TaskEntitled([op |-> "ownRevoke", id |-> id, chat |-> rows[id].chat])
      BY <3>1 DEF TaskEntitled
    <3>3. QED BY <2>5, <3>2, NewTaskEntitled DEF OwnRevoke
  <2>6. ASSUME NEW id \in Ids, StartDownload(w, id)
        PROVE  TasksAreEntitled'
    <3>1. TaskEntitled([op |-> "download", id |-> id, chat |-> rows[id].chat])
      BY DEF TaskEntitled
    <3>2. QED BY <2>6, <3>1, NewTaskEntitled DEF StartDownload
  <2>7. CASE AdminConfirmed(w)
    <3> DEFINE t == task[w]
               u == [t EXCEPT !.op = "revoke"]
    <3>1. t \in Claimed /\ t.op = "admin"
      BY <2>7 DEF AdminConfirmed, TypeOK, Tasks, Fills, Requested, Claimed
    <3>2. /\ u.op = "revoke" /\ u.id = t.id /\ u.chat = t.chat /\ u.by = t.by
          /\ task' = [task EXCEPT ![w] = u]
      BY <2>7, <3>1 DEF AdminConfirmed, TypeOK, Claimed
    <3>3. Identity(t.by.chat) = Identity(t.chat) /\ t.by.chat \in Groups
      BY <2>7, <3>1 DEF AdminConfirmed, TasksAreEntitled, TaskEntitled
    <3>4. PICK a \in Admins[t.by.chat] : SentBy(known, t.by, a)
      BY <2>7 DEF AdminConfirmed
    <3>5. t.by \in Sources /\ a \in Users
      BY <3>1, <3>3, <3>4, RowsAssumption DEF Claimed
    <3>6. Identity(a) = Identity(t.by.sender)
      BY <3>4, <3>5, SentByIdentity DEF TypeOK
    <3>7. \A m \in Wire : MayRevokeSent(t.by, m)
      BY <3>3, <3>4, <3>6 DEF MayRevokeSent
    <3> HIDE DEF u, t
    <3>8. TaskEntitled(u)
      BY <3>2, <3>3, <3>7 DEF TaskEntitled
    <3>9. QED BY <3>2, <3>8, NewTaskEntitled
  <2>8. CASE \/ FinishFill(w) \/ ApplyRevoke(w) \/ ApplyEdit(w)
             \/ ApplyDelete(w) \/ FinishDownload(w) \/ GiveUp(w)
    <3>1. task' = [task EXCEPT ![w] = Idle]
      BY <2>8 DEF FinishFill, ApplyRevoke, ApplyEdit, ApplyDelete, FinishDownload, GiveUp
    <3>2. QED BY <3>1, NewTaskEntitled
  <2>9. QED
    BY <1>2, <2>1, <2>2, <2>3, <2>4, <2>5, <2>6, <2>7, <2>8 DEF Worker
<1>3. QED BY <1>1, <1>2 DEF Next

(* The statement that changes a text is a revoke's or an edit's; at that   *)
(* moment its task is entitled to the row in front of it.                  *)
Entitles(t, row, new) ==
  \/ /\ t.op \in {"revoke", "edit"}
     /\ Identity(t.by.chat) = Identity(row.chat)
     /\ IF Revoked(new) THEN MayRevoke(t.by, row) ELSE SameIdentity(t.by, row)
  \/ t.op = "ownRevoke" /\ row.fromMe

LEMMA ApplyIsEntitled ==
  ASSUME TypeOK, RowsAreDelivered, TasksAreEntitled,
         NEW w \in Workers, ApplyRevoke(w) \/ ApplyEdit(w),
         NEW id \in Ids, rows[id] # NoRow, rows'[id].text # rows[id].text
  PROVE  /\ task[w] # Idle /\ task'[w] = Idle /\ task[w].id = id
         /\ Entitles(task[w], rows[id], rows'[id])
<1> DEFINE t == task[w]
<1>1. /\ t # Idle /\ task'[w] = Idle /\ TaskEntitled(t)
      /\ t.op \in {"revoke", "ownRevoke", "edit"}
  BY DEF ApplyRevoke, ApplyEdit, TypeOK, TasksAreEntitled
<1>2. /\ t.id = id /\ RowIn(rows, t.chat, id)
      /\ rows'[id].text = IF t.op = "edit" THEN "edited" ELSE RevokedText
  BY DEF ApplyRevoke, ApplyEdit, TypeOK, MarkMessageRevoked, UpdateMessageText,
         LiveRowIn, RowIn, Row
<1>3. PICK m \in Wire : m.id = id /\ StoredFrom(rows[id], m)
  BY DEF RowsAreDelivered
<1>4. Identity(m.src.chat) = Identity(t.chat) /\ rows[id].chat = t.chat
  BY <1>2, <1>3 DEF RowIn, StoredFrom
<1>5. /\ rows[id].sender = m.src.sender /\ rows[id].fromMe = m.src.fromMe
  BY <1>3 DEF StoredFrom
<1>6. CASE t.op = "ownRevoke"
  BY <1>1, <1>2, <1>3, <1>4, <1>5, <1>6 DEF TaskEntitled, Entitles
<1>7. CASE t.op = "edit"
  <2>1. ~Revoked(rows'[id])
    BY <1>2, <1>7 DEF Revoked, RevokedText
  <2>2. SameIdentity(t.by, m.src) /\ Identity(t.by.chat) = Identity(t.chat)
    BY <1>1, <1>2, <1>3, <1>4, <1>7 DEF TaskEntitled
  <2>3. SameIdentity(t.by, rows[id])
    BY <1>5, <2>2 DEF SameIdentity
  <2>4. QED BY <1>1, <1>2, <1>4, <1>7, <2>1, <2>2, <2>3 DEF Entitles
<1>8. CASE t.op = "revoke"
  <2>1. rows'[id] # NoRow
    <3>1. rows[id] \in Row /\ rows' = MarkMessageRevoked(rows, t.chat, id)
      BY <1>2, <1>8 DEF ApplyRevoke, ApplyEdit, TypeOK
    <3>2. rows'[id] \in Row
      BY <1>2, <3>1 DEF MarkMessageRevoked, TypeOK, Row, Texts
    <3>3. QED BY <3>2, RowsAssumption
  <2>2. MayRevokeSent(t.by, m) /\ Identity(t.by.chat) = Identity(t.chat)
    BY <1>1, <1>2, <1>3, <1>4, <1>8 DEF TaskEntitled
  <2>3. MayRevoke(t.by, rows[id])
    <3>1. CASE t.by.chat \in Groups /\ \E a \in Admins[t.by.chat] : Identity(a) = Identity(t.by.sender)
      <4>1. t.chat \in Chats
        BY <1>1, TaskType
      <4>2. t.by.chat = t.chat
        BY <2>2, <3>1, <4>1, JidAssumption DEF Identity, Chats, Users
      <4>3. QED BY <1>4, <3>1, <4>2 DEF MayRevoke
    <3>2. CASE t.by.fromMe \/ SameIdentity(t.by, m.src)
      BY <1>5, <3>2 DEF MayRevoke, SameIdentity
    <3>3. QED BY <2>2, <3>1, <3>2 DEF MayRevokeSent
  <2>4. Revoked(rows'[id])
    BY <1>2, <1>8, <2>1 DEF Revoked
  <2>5. QED BY <1>1, <1>2, <1>4, <1>8, <2>2, <2>3, <2>4 DEF Entitles
<1>9. QED BY <1>1, <1>2, <1>6, <1>7, <1>8

(* No other statement changes the text of a row. *)
LEMMA OthersKeepText ==
  ASSUME TypeOK, Next, NEW id \in Ids, rows[id] # NoRow, rows'[id] # NoRow,
         rows'[id].text # rows[id].text
  PROVE  \E w \in Workers : ApplyRevoke(w) \/ ApplyEdit(w)
<1>0. rows[id] \in Row
  BY DEF TypeOK
<1>1. ASSUME NEW lid \in Lids, LearnMapping(lid) \/ MergeChat(lid) PROVE FALSE
  BY <1>0, <1>1, MoveChangesChat DEF LearnMapping, MergeChat
<1>2. ASSUME NEW w \in Workers, Worker(w), ~ApplyRevoke(w), ~ApplyEdit(w) PROVE FALSE
  <2>1. ASSUME NEW m \in Wire, IncomingMessage(w, m) \/ SentMessage(w, m) PROVE FALSE
    <3>1. PICK chat, media : AddMessage(w, m, chat, media)
      BY <2>1 DEF IncomingMessage, SentMessage
    <3>2. rows'[id] = rows[id]
      BY <3>1 DEF AddMessage, InsertOrIgnore, TypeOK
    <3>3. QED BY <3>2
  <2>2. CASE FinishFill(w)
    BY <1>0, <2>2 DEF FinishFill, FillMedia, TypeOK, Row
  <2>3. CASE ApplyDelete(w)
    BY <1>0, <2>3 DEF ApplyDelete, DeleteMessage, TypeOK, Row
  <2>4. CASE FinishDownload(w)
    BY <1>0, <2>4 DEF FinishDownload, SetLocalPath, TypeOK, Row
  <2>5. CASE rows' = rows
    BY <2>5
  <2>6. QED
    BY <1>2, <2>1, <2>2, <2>3, <2>4, <2>5
    DEF Worker, IncomingRevoke, IncomingEdit, DeleteForMe, OwnRevoke,
        StartDownload, AdminConfirmed, GiveUp
<1>3. QED BY <1>1, <1>2 DEF Next

LEMMA EntitledInvariant ==
  ASSUME IdsNameMessages
  PROVE  Spec => [](RowsAreDelivered /\ TasksAreEntitled)
<1>1. Init => RowsAreDelivered /\ TasksAreEntitled
  BY DEF Init, RowsAreDelivered, TasksAreEntitled
<1>2. TypeOK /\ RowsAreDelivered /\ TasksAreEntitled /\ [Next]_vars =>
        (RowsAreDelivered /\ TasksAreEntitled)'
  <2> SUFFICES ASSUME TypeOK, RowsAreDelivered, TasksAreEntitled, [Next]_vars
               PROVE  (RowsAreDelivered /\ TasksAreEntitled)'
    OBVIOUS
  <2>1. CASE Next
    BY <2>1, StepIsStatement, RowsStayDelivered, TasksStayEntitled
  <2>2. CASE UNCHANGED vars
    BY <2>2 DEF RowsAreDelivered, TasksAreEntitled, vars
  <2>3. QED BY <2>1, <2>2
<1>3. QED BY <1>1, <1>2, TypeCorrect, PTL DEF Spec

(* Nobody changes another's message: between the check of a revoke or an   *)
(* edit (decideRevoke, editAllowed, cmdRevoke) and its statement the row   *)
(* may be moved, deleted and stored again, and the statement still hits    *)
(* only a message its author was entitled to change.                       *)
THEOREM ClaimsStayEntitled ==
  ASSUME IdsNameMessages
  PROVE  Spec => ClaimsAreEntitled
<1> DEFINE ByEntitled ==
      \A id \in Ids :
        rows[id] # NoRow /\ rows'[id] # NoRow /\ rows'[id].text # rows[id].text =>
          \E w \in Workers :
            /\ task[w] # Idle /\ task'[w] = Idle /\ task[w].id = id
            /\ Entitles(task[w], rows[id], rows'[id])
<1>1. TypeOK /\ RowsAreDelivered /\ TasksAreEntitled /\ [Next]_vars => [ByEntitled]_vars
  <2> SUFFICES ASSUME TypeOK, RowsAreDelivered, TasksAreEntitled, Next, NEW id \in Ids,
                      rows[id] # NoRow, rows'[id] # NoRow, rows'[id].text # rows[id].text
               PROVE  \E w \in Workers :
                        /\ task[w] # Idle /\ task'[w] = Idle /\ task[w].id = id
                        /\ Entitles(task[w], rows[id], rows'[id])
    OBVIOUS
  <2>1. PICK w \in Workers : ApplyRevoke(w) \/ ApplyEdit(w)
    BY OthersKeepText
  <2>2. QED BY <2>1, ApplyIsEntitled
<1>2. QED
  BY <1>1, TypeCorrect, EntitledInvariant, PTL DEF Spec, ClaimsAreEntitled, Entitles
==============================================================================
