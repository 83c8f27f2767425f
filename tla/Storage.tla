------------------------------- MODULE Storage -------------------------------
(***************************************************************************)
(* The statements of src/messages/storage.go and lid_merge.go that write   *)
(* the `messages' table, as operators from a table to a table.  SQLite     *)
(* runs each statement atomically and the primary key is the message ID,   *)
(* so a table is a function from IDs to a row or NoRow, and one use of an  *)
(* operator is one atomic statement.                                       *)
(*                                                                         *)
(* A row is a record; the statements read or write these fields of it:     *)
(*   chat   chat_id                                                        *)
(*   text   the message text                                               *)
(*   media  media_kind, mime_type, file_name and media_proto together      *)
(*          (every writer sets or clears the four at once)                 *)
(*   path   local_path, where the media was saved                          *)
(* Other fields (sender, from_me, timestamp) are written by the INSERT     *)
(* only and belong to the module that uses them.                           *)
(***************************************************************************)
CONSTANT NoRow          \* the value of a table at an ID that has no row

RevokedText == "[message revoked]"
NoMedia     == ""       \* media_kind = '' and no media_proto
NoPath      == ""       \* local_path IS NULL

(* The WHERE clause `id = ? AND chat_id = ?' shared by the statements. *)
RowIn(rows, chat, id) == rows[id] # NoRow /\ rows[id].chat = chat

(* The same, plus `COALESCE(text, '') <> RevokedText'. *)
LiveRowIn(rows, chat, id) ==
  RowIn(rows, chat, id) /\ rows[id].text # RevokedText

(* Mutant of InsertOrIgnore: INSERT OR REPLACE, the last write wins. *)
InsertOrReplace(rows, id, row) == [rows EXCEPT ![id] = row]

(* AddMessage, first statement: INSERT OR IGNORE, the first write wins. *)
InsertOrIgnore(rows, id, row) ==
  IF rows[id] = NoRow THEN [rows EXCEPT ![id] = row] ELSE rows

(* AddMessage, second statement: media metadata for a row stored without. *)
FillMedia(rows, chat, id, media) ==
  IF LiveRowIn(rows, chat, id) /\ rows[id].media = NoMedia
  THEN [rows EXCEPT ![id].media = media]
  ELSE rows

(* Mutant of MarkMessageRevoked: the saved path is kept. *)
MarkRevokedKeepingPath(rows, chat, id) ==
  IF RowIn(rows, chat, id)
  THEN [rows EXCEPT ![id].text = RevokedText, ![id].media = NoMedia]
  ELSE rows

(* A message deleted for everyone: a placeholder without media or path. *)
MarkMessageRevoked(rows, chat, id) ==
  IF RowIn(rows, chat, id)
  THEN [rows EXCEPT ![id].text = RevokedText, ![id].media = NoMedia,
                    ![id].path = NoPath]
  ELSE rows

(* Mutant of UpdateMessageText: an edit reaches a revoked message too. *)
UpdateTextOfAnyRow(rows, chat, id, text) ==
  IF RowIn(rows, chat, id) THEN [rows EXCEPT ![id].text = text] ELSE rows

UpdateMessageText(rows, chat, id, text) ==
  IF LiveRowIn(rows, chat, id) THEN [rows EXCEPT ![id].text = text] ELSE rows

(* Mutant of DeleteMessage: the row is blanked and stays. *)
BlankMessage(rows, chat, id) ==
  IF RowIn(rows, chat, id) THEN [rows EXCEPT ![id].text = ""] ELSE rows

DeleteMessage(rows, chat, id) ==
  IF RowIn(rows, chat, id) THEN [rows EXCEPT ![id] = NoRow] ELSE rows

(* Mutant of SetLocalPath: a download that ends late marks a revoked one. *)
SetPathOfAnyRow(rows, chat, id, path) ==
  IF RowIn(rows, chat, id) THEN [rows EXCEPT ![id].path = path] ELSE rows

SetLocalPath(rows, chat, id, path) ==
  IF LiveRowIn(rows, chat, id) THEN [rows EXCEPT ![id].path = path] ELSE rows

(* The first statement of the MergeChat transaction. *)
MoveMessages(rows, from, to) ==
  [id \in DOMAIN rows |->
     IF RowIn(rows, from, id) THEN [rows[id] EXCEPT !.chat = to] ELSE rows[id]]
==============================================================================
