------------------------------ MODULE EventLoop ------------------------------
(***************************************************************************)
(* The event loop: runManager is the only receiver of CommandChannel and   *)
(* of StatusChannel, both of limited length (session_manager.go).  The UI  *)
(* goroutine sends commands and waits while the channel is full; logins,   *)
(* whatsmeow's event handlers, and the commands runManager itself runs,    *)
(* send a status and wait while that channel is full (connection.go,       *)
(* cmd_connection.go, event_handler.go).                                   *)
(*                                                                         *)
(* Who may log in, and when, and each client by itself, are Reconnect's    *)
(* subject: here a Disconnected event may start a reconnect goroutine or   *)
(* not, a failed attempt may be the last or not, a device may be paired or *)
(* not, and of the clients that were replaced one is kept.  Channels are   *)
(* counts: any command the user may give is chosen when it is received,    *)
(* and a status makes runManager ask the client, whatever it says.         *)
(***************************************************************************)
EXTENDS Naturals

CONSTANTS
  CommandPlaces,   \* places of CommandChannel (10 in the code)
  StatusPlaces,    \* places of StatusChannel (10 in the code)
  Commands,        \* the commands the user gives
  Background,      \* goroutines for the start-up login and for reconnects
  MaxPending       \* bound: events waiting for their handler

(* A command that sends no status is, here, a "disconnect" of a client     *)
(* that is not connected.                                                  *)
Kinds == {"quit", "connect", "disconnect", "logout", "reset"}

ASSUME EventLoopAssumption ==
  /\ {CommandPlaces, StatusPlaces, MaxPending} \subseteq Nat \ {0}
  /\ Commands \subseteq Kinds
  /\ Background # {} /\ "manager" \notin Background

Logins == Background \cup {"manager"}      \* goroutines that log in

VARIABLES
  cmds,       \* how many commands wait in CommandChannel
  statuses,   \* how many messages wait in StatusChannel
  pc,         \* where each goroutine of Logins is
  client,     \* sm.client: none, or how it is connected
  holders,    \* the logins that work with the current client
  stray,      \* the connection of a client that was replaced
  events,     \* how many events their handlers have not seen
  shown,      \* statusInfo.Connected
  ui,         \* what the UI goroutine does
  quitAsked,  \* cmdQuit has queued App.Stop
  main        \* how far Shutdown is

session == <<client, holders, stray>>
rest    == <<cmds, statuses, events, shown, ui, quitAsked, main>>
vars    == <<pc, session, rest>>

(* pairing: connected to show QR codes; open: not authenticated yet; lost: *)
(* lost by the network, and whatsmeow may reconnect by itself.             *)
ConnStates == {"down", "pairing", "open", "up", "lost"}
LoginSteps == {"clear", "get", "clean", "connect", "getNew", "qr", "scan"}
SendSteps  == {"sendDown", "sendFalse", "sendTrue"}

TypeOK ==
  /\ cmds \in 0..CommandPlaces /\ statuses \in 0..StatusPlaces /\ events \in 0..MaxPending
  /\ pc \in [Logins -> LoginSteps \cup SendSteps \cup
                       {"off", "start", "loop", "logout", "returned", "gone"}]
  /\ pc["manager"] # "off"
  /\ client \in ConnStates \cup {"none"} /\ stray \in {"none", "up", "lost"}
  /\ holders \subseteq Logins /\ (client = "none" => holders = {})
  /\ shown \in BOOLEAN /\ quitAsked \in BOOLEAN
  /\ ui \in {"free", "sending", "quitting", "stopped"}
  /\ main \in {"running", "stopped", "exited"}

(* StartManager has started runManager; the UI is up. *)
Init ==
  /\ cmds = 0 /\ statuses = 0 /\ events = 0
  /\ pc = [p \in Logins |-> IF p = "manager" THEN "start" ELSE "off"]
  /\ client = "none" /\ holders = {} /\ stray = "none"
  /\ shown = FALSE /\ ui = "free" /\ quitAsked = FALSE /\ main = "running"

Connections      == {"pairing", "open", "up"}
IsConnected(c)   == c \in Connections
AfterDisconnect(c) == IF IsConnected(c) THEN "down" ELSE c
Stopped          == main # "running"            \* the stop channel is closed

Goto(p, step) == pc' = [pc EXCEPT ![p] = step]

(* Mutant of End: a command that is done ends runManager as well. *)
EndForGood(p) == Goto(p, IF p = "manager" THEN "gone" ELSE "off")

End(p) == Goto(p, IF p = "manager" THEN "loop" ELSE "off")

(* A login ends; a reconnect goroutine may try again (and so may, here,    *)
(* the login at start-up).                                                 *)
Failed(p) ==
  /\ holders' = holders \ {p}
  /\ End(p) \/ (p \in Background /\ Goto(p, "clear"))

(* Mutant of Forget: logins go on as if their client were the current one. *)
ForgetAlone ==
  /\ client' = "none" /\ UNCHANGED holders
  /\ stray' = IF IsConnected(client) THEN "up"
              ELSE IF client = "lost" THEN "lost" ELSE stray

(* The current client is set to nil; its connection lives on. *)
Forget ==
  /\ client' = "none" /\ holders' = {}
  /\ stray' = IF IsConnected(client) THEN "up"
              ELSE IF client = "lost" THEN "lost" ELSE stray

(* The client login p works with, current or replaced, gets connection c.  *)
SetConnection(p, c) ==
  IF p \in holders THEN client' = c /\ UNCHANGED stray
  ELSE stray' = (IF IsConnected(c) THEN "up" ELSE "none") /\ UNCHANGED client
------------------------------------------------------------------------------
(* Who sends a status waits for a place; so does runManager itself.        *)
Send(p) ==
  /\ pc[p] \in SendSteps /\ statuses < StatusPlaces
  /\ statuses' = statuses + 1
  /\ IF pc[p] = "sendDown" THEN Goto(p, "connect") /\ UNCHANGED holders
     ELSE End(p) /\ holders' = holders \ {p}
  /\ UNCHANGED <<cmds, client, stray, events, shown, ui, quitAsked, main>>

(* getConnection: the existing client, or a new one; it may fail. *)
GetConnection(p, next) ==
  \/ /\ client' = (IF client = "none" THEN "down" ELSE client)
     /\ holders' = holders \cup {p}
     /\ Goto(p, next)
  \/ client = "none" /\ Failed(p) /\ UNCHANGED client

(* runManager: without a first connection it returns; with one a login     *)
(* runs beside it.                                                         *)
ManagerStarts ==
  /\ pc["manager"] = "start"
  /\ \/ \E p \in Background :
          /\ client' = "down" /\ holders' = {p}
          /\ pc' = [pc EXCEPT !["manager"] = "loop", ![p] = "clean"]
     \/ Goto("manager", "returned") /\ UNCHANGED <<client, holders>>
  /\ UNCHANGED <<stray, rest>>

(* login() and loginWithConnection(), run by any of Logins. *)
LoginClear(p) ==
  /\ pc[p] = "clear"
  /\ Forget
  /\ Goto(p, "get")
  /\ UNCHANGED rest

LoginGet(p) ==
  /\ \/ pc[p] = "get" /\ GetConnection(p, "clean")
     \/ pc[p] = "getNew" /\ GetConnection(p, "qr")
  /\ UNCHANGED <<stray, rest>>

LoginClean(p) ==
  /\ pc[p] = "clean"
  /\ IF IsConnected(IF p \in holders THEN client ELSE stray)
     THEN SetConnection(p, "down") /\ Goto(p, "sendDown")
     ELSE UNCHANGED <<client, stray>> /\ Goto(p, "connect")
  /\ UNCHANGED <<holders, rest>>

(* Connect(): connected, failed, expired (a new client pairs), or there is *)
(* no device and this client pairs.                                        *)
Connect(p) ==
  /\ pc[p] = "connect"
  /\ \/ SetConnection(p, "open") /\ Goto(p, "sendTrue") /\ UNCHANGED holders
     \/ Failed(p) /\ UNCHANGED <<client, stray>>
     \/ Forget /\ Goto(p, "getNew")
     \/ Goto(p, "qr") /\ UNCHANGED session
  /\ UNCHANGED rest

QRConnect(p) ==
  /\ pc[p] = "qr"
  /\ \/ SetConnection(p, "pairing") /\ Goto(p, "scan") /\ UNCHANGED holders
     \/ Failed(p) /\ UNCHANGED <<client, stray>>
  /\ UNCHANGED rest

(* The code is scanned, there is no code left, or the pairing fails. *)
Scan(p) ==
  /\ pc[p] = "scan"
  /\ \/ SetConnection(p, "open") /\ Goto(p, "sendTrue") /\ UNCHANGED holders
     \/ Goto(p, "sendFalse") /\ UNCHANGED session
     \/ Failed(p) /\ UNCHANGED <<client, stray>>
  /\ UNCHANGED rest

LoginStep(p) ==
  LoginClear(p) \/ LoginGet(p) \/ LoginClean(p) \/ Connect(p) \/ QRConnect(p)
------------------------------------------------------------------------------
(* runManager's select: any of the cases that are ready.                   *)
Loops == pc["manager"] = "loop"

TakeStop ==
  /\ Loops /\ Stopped
  /\ client' = AfterDisconnect(client)
  /\ Goto("manager", "gone")
  /\ UNCHANGED <<holders, stray, rest>>

TakeStatus ==
  /\ Loops /\ statuses > 0
  /\ statuses' = statuses - 1
  /\ shown' = IsConnected(client)
  /\ UNCHANGED <<cmds, pc, session, events, ui, quitAsked, main>>

Takes(c) ==
  /\ Loops /\ c \in Commands /\ cmds > 0
  /\ cmds' = cmds - 1
  /\ UNCHANGED <<statuses, events, shown, ui, main>>

CmdQuit == Takes("quit") /\ quitAsked' = TRUE /\ UNCHANGED <<pc, session>>

CmdConnect == Takes("connect") /\ Goto("manager", "clear") /\ UNCHANGED <<session, quitAsked>>

(* Mutant of CmdDisconnect: nothing is said of it. *)
DisconnectSilently ==
  /\ Takes("disconnect")
  /\ client' = AfterDisconnect(client)
  /\ UNCHANGED <<pc, holders, stray, quitAsked>>

CmdDisconnect ==
  /\ Takes("disconnect")
  /\ client' = AfterDisconnect(client)
  /\ IF IsConnected(client) THEN Goto("manager", "sendFalse") ELSE UNCHANGED pc
  /\ UNCHANGED <<holders, stray, quitAsked>>

(* logout: the client is taken under the lock and disconnected after it.   *)
(* The replaced client that is kept is that one, or another.               *)
CmdLogout ==
  /\ Takes("logout")
  /\ Forget
  /\ Goto("manager", IF client = "none" THEN "sendFalse" ELSE "logout")
  /\ UNCHANGED quitAsked

FinishLogout ==
  /\ pc["manager"] = "logout"
  /\ stray' \in {stray, "none"}
  /\ Goto("manager", "sendFalse")
  /\ UNCHANGED <<client, holders, rest>>

CmdReset ==
  /\ Takes("reset")
  /\ client' = "none" /\ holders' = {}
  /\ Goto("manager", "sendFalse")
  /\ UNCHANGED <<stray, quitAsked>>

RunCommand ==
  CmdQuit \/ CmdConnect \/ CmdDisconnect \/ CmdLogout \/ CmdReset
------------------------------------------------------------------------------
(* whatsmeow and the network, and the handlers of the clients' events.     *)
Emit == events < MaxPending /\ events' = events + 1

(* A connection is authenticated, or comes back by itself. *)
ComesUp ==
  /\ \/ client \in {"open", "lost"} /\ client' = "up" /\ UNCHANGED stray
     \/ stray = "lost" /\ stray' = "up" /\ UNCHANGED client
  /\ Emit
  /\ UNCHANGED <<cmds, statuses, pc, holders, shown, ui, quitAsked, main>>

(* It is lost, or logged out by the phone. *)
IsLost ==
  /\ \/ IsConnected(client) /\ client' \in {"lost", "down"} /\ UNCHANGED stray
     \/ stray = "up" /\ stray' \in {"lost", "none"} /\ UNCHANGED client
  /\ Emit
  /\ UNCHANGED <<cmds, statuses, pc, holders, shown, ui, quitAsked, main>>

(* Handle waits for a place too; a loss may start the reconnects. *)
HandleEvent ==
  /\ events > 0 /\ statuses < StatusPlaces
  /\ events' = events - 1 /\ statuses' = statuses + 1
  /\ \/ UNCHANGED pc
     \/ ~Stopped /\ \E p \in Background : pc[p] = "off" /\ Goto(p, "clear")
  /\ UNCHANGED <<cmds, session, shown, ui, quitAsked, main>>
------------------------------------------------------------------------------
(* The UI goroutine: a key or a line of input is a command; handleQuit     *)
(* sends /disconnect and stops the application.                            *)
Give(next) ==
  /\ ui = "free"
  /\ ui' = next
  /\ UNCHANGED <<cmds, statuses, pc, session, events, shown, quitAsked, main>>

UiSends ==
  /\ ui \in {"sending", "quitting"} /\ cmds < CommandPlaces
  /\ cmds' = cmds + 1
  /\ ui' = IF ui = "quitting" THEN "stopped" ELSE "free"
  /\ UNCHANGED <<statuses, pc, session, events, shown, quitAsked, main>>

(* The stop that cmdQuit queued runs when the UI goroutine is free. *)
UiStops ==
  /\ ui = "free" /\ quitAsked
  /\ ui' = "stopped" /\ quitAsked' = FALSE
  /\ UNCHANGED <<cmds, statuses, pc, session, events, shown, main>>

(* Mutant of Shutdown: it waits for runManager. *)
ShutdownWaits ==
  /\ ui = "stopped"
  /\ \/ main = "running" /\ main' = "stopped" /\ client' = AfterDisconnect(client)
     \/ main = "stopped" /\ pc["manager"] = "gone" /\ main' = "exited" /\ UNCHANGED client
  /\ UNCHANGED <<cmds, statuses, pc, holders, stray, events, shown, ui, quitAsked>>

(* Run() returns; Shutdown closes the stop channel and disconnects, then   *)
(* closes the database, and the process ends.  It waits for no goroutine.  *)
Shutdown ==
  /\ ui = "stopped"
  /\ \/ main = "running" /\ main' = "stopped" /\ client' = AfterDisconnect(client)
     \/ main = "stopped" /\ main' = "exited" /\ UNCHANGED client
  /\ UNCHANGED <<cmds, statuses, pc, holders, stray, events, shown, ui, quitAsked>>

Exited == main = "exited" /\ UNCHANGED vars

Runs == main # "exited"          \* the process, with all its goroutines

Next ==
  \/ Runs /\ \E p \in Logins : Send(p) \/ LoginStep(p) \/ Scan(p)
  \/ Runs /\ (ManagerStarts \/ TakeStop \/ TakeStatus \/ RunCommand \/ FinishLogout)
  \/ Runs /\ (ComesUp \/ IsLost \/ HandleEvent)
  \/ Runs /\ (Give("sending") \/ Give("quitting") \/ UiSends \/ UiStops \/ Shutdown)
  \/ Exited

ManagerWorks == ManagerStarts \/ FinishLogout \/ Send("manager") \/ LoginStep("manager")

(* runManager and the UI goroutine run, and select is fair to commands.    *)
(* Nothing is asked of the network, of the user, of the scan of a QR code  *)
(* or of the other goroutines.                                             *)
Fairness ==
  /\ WF_vars(Runs /\ ManagerWorks) /\ SF_vars(Runs /\ RunCommand)
  /\ WF_vars(Runs /\ (UiSends \/ Shutdown))

Spec == Init /\ [][Next]_vars /\ Fairness
------------------------------------------------------------------------------
(* CONTRIBUTING.md: nothing blocks runManager.  It never waits for a place *)
(* in the channel that only it empties.                                    *)
NobodyWaitsForItself ==
  ~(pc["manager"] \in SendSteps /\ statuses = StatusPlaces)

(* A /connect that waits for a QR code, a wait for itself, or no first     *)
(* connection: runManager receives nothing.                                *)
ManagerHangs == pc["manager"] \in {"scan", "returned"} \/ ~NobodyWaitsForItself

(* The UI goroutine never hangs for another reason: as long as runManager  *)
(* comes back to its select, each key and command is taken, however fast   *)
(* connections come and go.                                                *)
UiHangsOnlyWithManager ==
  <>[](ui \in {"sending", "quitting"} /\ Runs) => <>[]ManagerHangs

(* Quitting ends the process, also while runManager hangs: once the UI has *)
(* stopped nothing is waited for.                                          *)
QuitEnds == (ui = "stopped") ~> ~Runs

Quiet ==
  /\ statuses = 0 /\ events = 0
  /\ \A p \in Background : pc[p] = "off"
  /\ Loops /\ ~Stopped

(* When nothing is under way the status bar tells the truth: an            *)
(* authenticated connection is shown, and "connected" is shown only while  *)
(* a client has a connection.                                              *)
StatusIsCurrent ==
  Quiet => /\ client = "up" => shown
           /\ shown => IsConnected(client) \/ stray = "up"

(* And it is the current client's connection.                              *)
StatusIsOfClient == Quiet /\ shown => IsConnected(client)

(* session_manager.go: Shutdown disconnects.  No connection outlives it.   *)
ShutdownDisconnects == main = "exited" => ~IsConnected(client)
==============================================================================
