-------------------------------- MODULE Backlog --------------------------------
(***************************************************************************)
(* /backlog: asking the phone for older messages of the open chat          *)
(* (cmd_chat.go, history_sync.go, chat_view.go, lid_merge.go,              *)
(* session_manager.go).  The request is anchored on the oldest stored      *)
(* message; a goroutine sends it and polls the number of stored messages;  *)
(* the answer comes as a history sync, at any later time, which a          *)
(* goroutine of its own stores row by row.                                 *)
(*                                                                         *)
(* One chat: messages are numbered by age, 1 being the oldest the phone    *)
(* has.  A contact known by a LID has two addresses until they are merged. *)
(* The chat is opened once per start of the program (ChatView has the      *)
(* switching of chats, the pages behind the first and the drawing).        *)
(* cmdBacklog reads its chat, anchor and count in one step.                *)
(*                                                                         *)
(* External: the phone, which answers with the messages just older than    *)
(* the anchor, newest first, once, late or never; a message that is being  *)
(* stored when the program is killed may be sent again.                    *)
(***************************************************************************)
EXTENDS Naturals, FiniteSetsExt

CONSTANTS
  Requests,      \* goroutines of cmdBacklog
  Histories,     \* goroutines of processHistorySync
  Stored,        \* the oldest message stored at first
  Newest,        \* the newest one then
  MaxNewest,     \* bound: messages, with those that arrive later
  Textless,      \* messages without a text to show; they are not stored
  Quantity,      \* messages asked for (BacklogMsgQuantity)
  PageSize,      \* messages shown when the chat is opened (200)
  MaxRestarts    \* bound: kills and quits

Messages == 1..MaxNewest

ASSUME BacklogAssumption ==
  /\ {Stored, Newest, MaxNewest, Quantity, PageSize} \subseteq Nat \ {0}
  /\ Stored <= Newest /\ Newest <= MaxNewest
  /\ Textless \subseteq 1..(Stored - 1) /\ MaxRestarts \in Nat

VARIABLES
  rows,      \* the address each message is stored under, or none
  newest,    \* the newest message there is
  form,      \* the address the phone uses for the chat
  known,     \* the number of its LID is known
  current,   \* currentReceiver
  anchor,    \* viewAnchor
  brought,   \* the oldest message answers stored since the chat was opened
  req,       \* the cmdBacklog goroutines
  phone,     \* the anchors of the requests the phone has yet to answer
  hist,      \* the history goroutines
  said,      \* what the last status of a request gave: a count, or an error
  run,       \* running, ctx cancelled, database closed
  restarts   \* how often the program was started again

view == <<current, anchor, brought>>
chat == <<newest, form, known>>
vars == <<rows, chat, view, req, phone, hist, said, run, restarts>>

Idle     == [at |-> "idle"]
Infinity == MaxNewest + 1                \* math.MaxUint64
Forms    == {"lid", "pn"}
Running  == run = "running"

Under(c) == {m \in Messages : rows[m] = c}

TypeOK ==
  /\ rows \in [Messages -> Forms \cup {"none"}] /\ newest \in Messages
  /\ form \in Forms /\ known \in BOOLEAN
  /\ current \in Forms \cup {"none"} /\ anchor \in 0..MaxNewest /\ brought \in 1..Infinity
  /\ \A r \in Requests :
       req[r] \in {Idle} \cup [at: {"send", "poll"}, chat: Forms, oldest: Messages, before: Messages]
  /\ \A h \in Histories : hist[h].at \in {"idle", "store", "move", "lower"}
  /\ phone \subseteq Messages
  /\ restarts \in 0..MaxRestarts
  /\ said \in {"count", "error"} /\ run \in {"running", "cancelled", "closed"}

(* openViewAnchor: the page's oldest message; 0 shows everything. *)
OpenAnchor(c) ==
  IF Cardinality(Under(c)) < PageSize THEN 0
  ELSE CHOOSE m \in Under(c) : Cardinality({k \in Under(c) : k >= m}) = PageSize

Init ==
  /\ form \in Forms /\ known = FALSE /\ newest = Newest
  /\ rows = [m \in Messages |-> IF m \in Stored..Newest THEN form ELSE "none"]
  /\ current = form /\ anchor = OpenAnchor(form) /\ brought = Infinity
  /\ req = [r \in Requests |-> Idle] /\ hist = [h \in Histories |-> Idle]
  /\ phone = {} /\ said = "count" /\ run = "running" /\ restarts = 0
------------------------------------------------------------------------------
(* canonicalChatJID of the chat *)
Canonical == IF form = "pn" \/ known THEN "pn" ELSE "lid"

Learn ==
  /\ form = "lid" /\ known' = TRUE
  /\ UNCHANGED <<rows, newest, form, view, req, phone, hist, said, run, restarts>>

(* A message arrives and is stored; it is newer than the view's anchor. *)
Arrive ==
  /\ run # "closed" /\ newest < MaxNewest
  /\ newest' = newest + 1
  /\ rows' = [rows EXCEPT ![newest + 1] = Canonical]
  /\ UNCHANGED <<form, known, view, req, phone, hist, said, run, restarts>>

(* setCurrentReceiver *)
Open(c) ==
  /\ Running /\ current = "none" /\ Under(c) # {}
  /\ current' = c /\ anchor' = OpenAnchor(c) /\ brought' = Infinity
  /\ UNCHANGED <<rows, chat, req, phone, hist, said, run, restarts>>
------------------------------------------------------------------------------
(* Mutant of OldestMessage: the rows are sorted the other way. *)
NewestMessage(c) == Max(Under(c))

(* GetOldestMessage *)
OldestMessage(c) == Min(Under(c))

(* Bound: answers that are due or being stored. *)
Outstanding == Cardinality(phone) + Cardinality({h \in Histories : hist[h] # Idle})

(* cmdBacklog: refused for a chat whose answer would go to another one     *)
(* (backlogTarget).                                                        *)
Ask(r) ==
  /\ Running /\ req[r] = Idle /\ Outstanding < Cardinality(Histories)
  /\ current # "none" /\ current = Canonical /\ Under(current) # {}
  /\ req' = [req EXCEPT ![r] =
       [at |-> "send", chat |-> current, oldest |-> OldestMessage(current),
        before |-> Cardinality(Under(current))]]
  /\ UNCHANGED <<rows, chat, view, phone, hist, said, run, restarts>>

(* SendPeerMessage; the root context is cancelled first when quitting. *)
SendOk(r) ==
  /\ req[r].at = "send" /\ Running
  /\ phone' = phone \cup {req[r].oldest}
  /\ req' = [req EXCEPT ![r].at = "poll"]
  /\ UNCHANGED <<rows, chat, view, hist, said, run, restarts>>

SendFails(r) ==
  /\ req[r].at = "send"
  /\ req' = [req EXCEPT ![r] = Idle]
  /\ UNCHANGED <<rows, chat, view, phone, hist, said, run, restarts>>

Grown(r) == Cardinality(Under(req[r].chat)) > req[r].before

(* Mutant of Report: it does not look at the context. *)
ReportAlways(found) == said' = found

(* backlogStatus, unless the program is quitting. *)
Report(found) == said' = IF Running THEN found ELSE said

(* Mutant of Poll: the deadline is gone. *)
PollForMessages(r) ==
  /\ req[r].at = "poll"
  /\ \/ run = "closed" /\ Report("error")
     \/ run # "closed" /\ (Grown(r) \/ ~Running) /\ Report("count")
  /\ req' = [req EXCEPT ![r] = Idle]
  /\ UNCHANGED <<rows, chat, view, phone, hist, run, restarts>>

(* waitForNewMessages returns: the count fails or has grown, the time is   *)
(* up, or the context is cancelled.  The time may be up whenever it looks, *)
(* so that it does not matter here whether the count has grown.            *)
Poll(r) ==
  /\ req[r].at = "poll"
  /\ \/ run = "closed" /\ Report("error")
     \/ run # "closed" /\ Report("count")
  /\ req' = [req EXCEPT ![r] = Idle]
  /\ UNCHANGED <<rows, chat, view, phone, hist, run, restarts>>
------------------------------------------------------------------------------
(* The answer: historyChatJID takes the number's address from the answer,  *)
(* which teaches it to whatsmeow as well, or from what is known.  It is    *)
(* dropped while there is no connection.                                   *)
Lose(oldest) ==
  /\ phone' = phone \ {oldest}
  /\ UNCHANGED <<rows, chat, view, req, hist, said, run, restarts>>

Answer(h, oldest) ==
  /\ run # "closed" /\ hist[h] = Idle
  /\ phone' = phone \ {oldest}
  /\ \E jid \in {Canonical, "pn"} :
       /\ known' = (known \/ (form = "lid" /\ jid = "pn"))
       /\ hist' = [hist EXCEPT ![h] =
            [at |-> "store", before |-> oldest,
             todo |-> {m \in Messages : oldest <= m + Quantity /\ m < oldest} \ Textless,
             jid |-> jid, chat |-> current, oldest |-> Infinity]]
  /\ UNCHANGED <<rows, newest, form, view, req, said, run, restarts>>

Inserted(m) == rows[m] = "none" /\ run # "closed"

(* Mutant of First: the messages are stored by time. *)
ByTime(S) == Min(S)

(* The order the messages come in. *)
First(S) == Max(S)

(* AddMessage, for the next message of the answer. *)
StoreNext(g) ==
  /\ hist[g].at = "store" /\ hist[g].todo # {}
  /\ LET h == hist[g]
         m == First(h.todo)
     IN /\ rows' = IF Inserted(m) THEN [rows EXCEPT ![m] = h.jid] ELSE rows
        /\ brought' = IF Inserted(m) /\ h.chat # "none" THEN Min({m, brought}) ELSE brought
        /\ hist' = [hist EXCEPT ![g] =
             [h EXCEPT !.todo = h.todo \ {m},
                       !.oldest = IF Inserted(m) /\ h.jid = h.chat THEN Min({@, m}) ELSE @]]
  /\ UNCHANGED <<chat, current, anchor, req, phone, said, run, restarts>>

(* All are stored; mergeKnownLIDChats: the rows, then the open chat. *)
MergeRows(h) ==
  /\ hist[h].at = "store" /\ hist[h].todo = {}
  /\ IF known /\ Under("lid") # {} /\ run # "closed"
     THEN /\ rows' = [m \in Messages |-> IF rows[m] = "lid" THEN "pn" ELSE rows[m]]
          /\ hist' = [hist EXCEPT ![h].at = "move"]
     ELSE hist' = [hist EXCEPT ![h].at = "lower"] /\ UNCHANGED rows
  /\ UNCHANGED <<chat, view, req, phone, said, run, restarts>>

MoveOpen(h) ==
  /\ hist[h].at = "move"
  /\ current' = IF current = "lid" THEN "pn" ELSE current
  /\ hist' = [hist EXCEPT ![h].at = "lower"]
  /\ UNCHANGED <<rows, chat, anchor, brought, req, phone, said, run, restarts>>

(* Mutant of LowerViewAnchor: also when nothing was stored there. *)
LowerAlways(h) ==
  /\ hist[h].at = "lower"
  /\ anchor' = IF current = hist[h].chat THEN hist[h].oldest ELSE anchor
  /\ hist' = [hist EXCEPT ![h] = Idle]
  /\ UNCHANGED <<rows, chat, current, brought, req, phone, said, run, restarts>>

(* Mutant of LowerViewAnchor: the view starts after the oldest. *)
LowerToNext(h) ==
  /\ hist[h].at = "lower"
  /\ anchor' = IF current = hist[h].chat /\ hist[h].oldest + 1 < anchor
               THEN hist[h].oldest + 1 ELSE anchor
  /\ hist' = [hist EXCEPT ![h] = Idle]
  /\ UNCHANGED <<rows, chat, current, brought, req, phone, said, run, restarts>>

(* lowerViewAnchor, for the chat that was open when the answer came. *)
LowerViewAnchor(h) ==
  /\ hist[h].at = "lower"
  /\ anchor' = IF current = hist[h].chat /\ hist[h].oldest < anchor
               THEN hist[h].oldest ELSE anchor
  /\ hist' = [hist EXCEPT ![h] = Idle]
  /\ UNCHANGED <<rows, chat, current, brought, req, phone, said, run, restarts>>
------------------------------------------------------------------------------
(* Shutdown: the context, then the database. *)
Shutdown ==
  /\ \/ run = "running" /\ run' = "cancelled"
     \/ run = "cancelled" /\ run' = "closed"
  /\ UNCHANGED <<rows, chat, view, req, phone, hist, said, restarts>>

(* The program ends, or is killed, anywhere, and is started again.  No     *)
(* chat is open then.                                                      *)
Restart ==
  /\ restarts < MaxRestarts /\ restarts' = restarts + 1
  /\ run' = "running" /\ current' = "none" /\ anchor' = 0 /\ brought' = Infinity /\ said' = "count"
  /\ req' = [r \in Requests |-> Idle] /\ hist' = [h \in Histories |-> Idle]
  /\ \E again \in SUBSET {hist[h].before : h \in {h \in Histories : hist[h] # Idle}} :
       phone' = phone \cup again
  /\ UNCHANGED <<rows, chat>>

Requesting(r) == SendOk(r) \/ SendFails(r) \/ Poll(r)
Storing(h)    == StoreNext(h) \/ MergeRows(h) \/ MoveOpen(h) \/ LowerViewAnchor(h)

Next ==
  \/ Learn \/ Arrive \/ Shutdown \/ Restart
  \/ \E c \in Forms : Open(c)
  \/ \E oldest \in phone : Lose(oldest) \/ \E h \in Histories : Answer(h, oldest)
  \/ \E r \in Requests : Ask(r) \/ Requesting(r)
  \/ \E h \in Histories : Storing(h)

(* The goroutines run, and the network call of a request returns.  Nothing *)
(* is asked of the user or of the phone.                                   *)
Fairness ==
  /\ \A r \in Requests : WF_vars(Requesting(r))
  /\ \A h \in Histories : WF_vars(Storing(h))

Spec == Init /\ [][Next]_vars /\ Fairness
------------------------------------------------------------------------------
HasText(m) == m \notin Textless

(* What is stored has no hole: kills, answers that come twice, late, or    *)
(* beside each other never leave out a message that no later request would *)
(* ask for, since each one starts from the oldest message stored.          *)
NoHole ==
  \A m \in Messages : rows[m] # "none" =>
    \A k \in m..newest : HasText(k) => rows[k] # "none"

(* ARCHITECTURE.md: quitting stops the request and its poll.  The closed   *)
(* database under a poll is never reported as its error.                   *)
ShutdownIsQuiet == said # "error"

Settled == \A h \in Histories : hist[h] = Idle

(* chat_view.go: older messages stored by backlog lower the anchor "so     *)
(* they appear": once the answers are stored, what they brought while the  *)
(* chat was open is in the view.                                           *)
AnswersAppear ==
  Settled /\ form = "pn" => anchor <= brought

(* The same of a chat that is merged while its answer is stored.           *)
LidAnswersAppear ==
  Settled => (brought <= MaxNewest /\ rows[brought] = current => anchor <= brought)

(* cmdBacklog: the wait ends; each request reports within its time or the  *)
(* program ends.                                                           *)
RequestsEnd ==
  \A r \in Requests : (req[r] # Idle) ~> (req[r] = Idle \/ run = "closed")

(* A user who keeps asking, of a phone that answers what it is asked, gets *)
(* every message with a text that is older than those stored.              *)
AskingLoadsAll ==
  /\ []<><<\E r \in Requests : SendOk(r)>>_vars
  /\ []<>(phone = {}) /\ <>[][~\E oldest \in phone : Lose(oldest)]_vars
  => <>(\A m \in 1..Newest : HasText(m) => rows[m] # "none")
==============================================================================
