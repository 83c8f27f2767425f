------------------------------ MODULE Reconnect ------------------------------
(***************************************************************************)
(* Who connects, and when: the flags `started', `reconnecting' and         *)
(* `loggedOut' of SessionManager, the current whatsmeow client, the        *)
(* auto-reconnect goroutines, the login at start-up and the commands       *)
(* /connect, /disconnect, /logout and /reset (connection.go,               *)
(* cmd_connection.go, event_handler.go, session_manager.go).               *)
(*                                                                         *)
(* sm.mu is held for single steps only, so every pc below is a point where *)
(* another goroutine can run.  A client that login() drops keeps its event *)
(* handler; its connection and its events live on.                         *)
(***************************************************************************)
EXTENDS Naturals, Sequences, FiniteSets

CONSTANTS
  Reconnectors,   \* goroutines Disconnected events may start
  MaxAttempts,    \* logins per reconnect goroutine (5 in the code)
  MaxClients,     \* bound: clients created in a behaviour
  MaxPending,     \* bound: events of one client waiting for the handler
  Commands,       \* the commands the user gives
  DropBeforeAuth, \* may a connection be lost before it is authenticated?
  SelfReconnects  \* does whatsmeow itself reconnect a lost connection?

ASSUME ReconnectAssumption ==
  /\ IsFiniteSet(Reconnectors) /\ Reconnectors \cap {"startup", "manager", "main"} = {}
  /\ {MaxAttempts, MaxClients, MaxPending} \subseteq Nat \ {0}
  /\ Commands \subseteq {"connect", "disconnect", "logout", "reset"}
  /\ DropBeforeAuth \in BOOLEAN /\ SelfReconnects \in BOOLEAN

Clients == 1..MaxClients
None    == 0
Logins  == Reconnectors \cup {"startup", "manager"}   \* goroutines that log in

VARIABLES
  client,        \* sm.client: the current client or None
  created,       \* how many clients exist
  conn,          \* conn[c]: the connection of client c
  events,        \* events[c]: events of c its handler has not yet seen
  paired,        \* the session database holds a paired device
  started, reconnecting, loggedOut,
  pc,            \* where each goroutine is
  using,         \* the client a login works with
  attempt        \* the attempt a reconnect goroutine is at

vars == <<client, created, conn, events, paired, started, reconnecting,
          loggedOut, pc, using, attempt>>

(* pairing: connected to show QR codes; open: connected with credentials,  *)
(* not authenticated yet; dropped: lost by the network; closed:            *)
(* disconnected by us or ended by a remote logout.                         *)
ConnStates == {"idle", "pairing", "open", "up", "dropped", "closed"}
LoginSteps == {"clear", "get", "clean", "connect", "getNew", "qr", "scan"}

TypeOK ==
  /\ client \in Clients \cup {None} /\ created \in Clients
  /\ conn \in [Clients -> ConnStates]
  /\ \A c \in Clients :
       /\ events[c] \in Seq({"Connected", "Disconnected", "LoggedOut"})
       /\ Len(events[c]) <= MaxPending
  /\ paired \in BOOLEAN /\ started \in BOOLEAN
  /\ reconnecting \in BOOLEAN /\ loggedOut \in BOOLEAN
  /\ using \in [Logins -> Clients]
  /\ attempt \in [Reconnectors -> 1..MaxAttempts]
  /\ \A r \in Reconnectors :
       pc[r] \in LoginSteps \cup {"off", "check", "wait", "recheck", "abort",
                                  "release", "exhausted"}
  /\ pc["startup"] \in LoginSteps \cup {"off"}
  /\ pc["manager"] \in LoginSteps \cup {"off", "logout", "reset", "stopped"}
  /\ pc["main"] \in {"running", "disconnect", "off"}

IsConnected(c) == c # None /\ conn[c] \in {"pairing", "open", "up"}
Disconnected(c) == IF IsConnected(c) THEN [conn EXCEPT ![c] = "closed"] ELSE conn

(* StartManager and the start of runManager: the first client exists and   *)
(* the start-up login works with it.  A device may be paired or not.       *)
Init ==
  /\ client = 1 /\ created = 1
  /\ conn = [c \in Clients |-> "idle"]
  /\ events = [c \in Clients |-> <<>>]
  /\ paired \in BOOLEAN
  /\ started = TRUE /\ reconnecting = FALSE /\ loggedOut = FALSE
  /\ pc = [p \in Logins \cup {"main"} |->
             CASE p = "startup" -> "clean" [] p = "main" -> "running" [] OTHER -> "off"]
  /\ using = [p \in Logins |-> 1]
  /\ attempt = [r \in Reconnectors |-> 1]

flags == <<started, reconnecting, loggedOut>>
Goto(p, step) == pc' = [pc EXCEPT ![p] = step]
------------------------------------------------------------------------------
(* login() and loginWithConnection(), run by any of Logins. *)

(* Mutant of LoginOk: the reconnect goroutine does not return. *)
LoginOkGoesOn(p) ==
  Goto(p, IF p \in Reconnectors THEN "check" ELSE "off") /\ UNCHANGED attempt

LoginOk(p) == Goto(p, "off") /\ UNCHANGED attempt

(* Mutants of LoginFailed: one attempt too many; attempts not counted. *)
LoginFailedLate(p) ==
  IF p \notin Reconnectors THEN Goto(p, "off") /\ UNCHANGED attempt
  ELSE IF attempt[p] <= MaxAttempts
       THEN Goto(p, "check") /\ attempt' = [attempt EXCEPT ![p] = @ + 1]
       ELSE Goto(p, "release") /\ UNCHANGED attempt

LoginFailedUncounted(p) ==
  IF p \notin Reconnectors THEN Goto(p, "off") /\ UNCHANGED attempt
  ELSE Goto(p, "check") /\ UNCHANGED attempt

(* A failed login ends /connect and the start-up; a reconnect goroutine    *)
(* tries again until its attempts are used up.                             *)
LoginFailed(p) ==
  IF p \notin Reconnectors THEN Goto(p, "off") /\ UNCHANGED attempt
  ELSE IF attempt[p] < MaxAttempts
       THEN Goto(p, "check") /\ attempt' = [attempt EXCEPT ![p] = @ + 1]
       ELSE Goto(p, "release") /\ UNCHANGED attempt

(* login() forgets the current client; it does not disconnect it. *)
LoginClear(p) ==
  /\ pc[p] = "clear"
  /\ client' = None
  /\ Goto(p, "get")
  /\ UNCHANGED <<created, conn, events, paired, flags, using, attempt>>

(* getConnection: the existing client, or a new one; it may fail. *)
GetConnection(p) ==
  /\ pc[p] \in {"get", "getNew"}
  /\ \/ /\ client # None
        /\ using' = [using EXCEPT ![p] = client]
        /\ UNCHANGED <<client, created, attempt>>
        /\ Goto(p, IF pc[p] = "get" THEN "clean" ELSE "qr")
     \/ /\ client = None /\ created < MaxClients
        /\ created' = created + 1 /\ client' = created + 1
        /\ using' = [using EXCEPT ![p] = created + 1]
        /\ UNCHANGED attempt
        /\ Goto(p, IF pc[p] = "get" THEN "clean" ELSE "qr")
     \/ /\ client = None
        /\ LoginFailed(p)
        /\ UNCHANGED <<client, created, using>>
  /\ UNCHANGED <<conn, events, paired, flags>>

(* The client is disconnected first; without a device it has to pair. *)
LoginClean(p) ==
  /\ pc[p] = "clean"
  /\ conn' = Disconnected(using[p])
  /\ Goto(p, IF paired THEN "connect" ELSE "qr")
  /\ UNCHANGED <<client, created, events, paired, flags, using, attempt>>

(* Connect() with a stored device: connected, failed, or the session has   *)
(* expired and is deleted, which leads to pairing with a new client.       *)
Connect(p) ==
  /\ pc[p] = "connect"
  /\ \/ /\ ~IsConnected(using[p])
        /\ conn' = [conn EXCEPT ![using[p]] = "open"]
        /\ LoginOk(p)
        /\ UNCHANGED <<client, paired>>
     \/ LoginFailed(p) /\ UNCHANGED <<client, conn, paired>>
     \/ /\ ~IsConnected(using[p])
        /\ paired' = FALSE /\ client' = None
        /\ Goto(p, "getNew")
        /\ UNCHANGED <<conn, attempt>>
  /\ UNCHANGED <<created, events, flags, using>>

(* loginWithQRCode connects and then waits for the user to scan. *)
QRConnect(p) ==
  /\ pc[p] = "qr"
  /\ \/ /\ ~IsConnected(using[p])
        /\ conn' = [conn EXCEPT ![using[p]] = "pairing"]
        /\ Goto(p, "scan") /\ UNCHANGED attempt
     \/ LoginFailed(p) /\ UNCHANGED conn
  /\ UNCHANGED <<client, created, events, paired, flags, using>>

(* The code is scanned, or the seventh code or an error ends the login,    *)
(* which leaves the client connected.                                      *)
Scan(p) ==
  /\ pc[p] = "scan"
  /\ \/ /\ conn[using[p]] = "pairing"
        /\ conn' = [conn EXCEPT ![using[p]] = "open"]
        /\ paired' = TRUE /\ LoginOk(p)
     \/ LoginFailed(p) /\ UNCHANGED <<conn, paired>>
  /\ UNCHANGED <<client, created, events, flags, using>>

LoginStep(p) ==
  LoginClear(p) \/ GetConnection(p) \/ LoginClean(p) \/ Connect(p) \/ QRConnect(p)
------------------------------------------------------------------------------
(* scheduleReconnect. *)
Abort == loggedOut \/ ~started

CheckBeforeWait(r) ==
  /\ pc[r] = "check"
  /\ Goto(r, IF Abort THEN "abort" ELSE "wait")
  /\ UNCHANGED <<client, created, conn, events, paired, flags, using, attempt>>

(* The backoff timer fires, or Shutdown has closed the stop channel. *)
BackoffEnds(r) ==
  /\ pc[r] = "wait"
  /\ Goto(r, "recheck") \/ (~started /\ Goto(r, "abort"))
  /\ UNCHANGED <<client, created, conn, events, paired, flags, using, attempt>>

CheckAfterWait(r) ==
  /\ pc[r] = "recheck"
  /\ Goto(r, IF Abort THEN "abort" ELSE "clear")
  /\ UNCHANGED <<client, created, conn, events, paired, flags, using, attempt>>

(* After an abort, and after the last failed attempt, the flag is cleared; *)
(* after a successful login it is left to the Connected event.             *)
ReleaseFlag(r) ==
  /\ pc[r] \in {"abort", "release"}
  /\ reconnecting' = FALSE
  /\ Goto(r, IF pc[r] = "abort" THEN "off" ELSE "exhausted")
  /\ UNCHANGED <<client, created, conn, events, paired, started, loggedOut, using, attempt>>

ReconnectStep(r) ==
  CheckBeforeWait(r) \/ BackoffEnds(r) \/ CheckAfterWait(r) \/ ReleaseFlag(r)
------------------------------------------------------------------------------
(* What whatsmeow does with a connection, and the handler of its events.   *)
Emit(c, e) ==
  /\ Len(events[c]) < MaxPending
  /\ events' = [events EXCEPT ![c] = Append(@, e)]

Authenticated(c) ==
  /\ conn[c] = "open"
  /\ conn' = [conn EXCEPT ![c] = "up"]
  /\ Emit(c, "Connected")
  /\ UNCHANGED <<client, created, paired, flags, pc, using, attempt>>

Dropped(c) ==
  /\ conn[c] \in (IF DropBeforeAuth THEN {"pairing", "open", "up"} ELSE {"up"})
  /\ conn' = [conn EXCEPT ![c] = "dropped"]
  /\ Emit(c, "Disconnected")
  /\ UNCHANGED <<client, created, paired, flags, pc, using, attempt>>

(* A paired client may come back without whatscli's doing, also one that   *)
(* login() has already replaced.                                           *)
SelfReconnect(c) ==
  /\ SelfReconnects /\ conn[c] = "dropped" /\ paired
  /\ conn' = [conn EXCEPT ![c] = "open"]
  /\ UNCHANGED <<client, created, events, paired, flags, pc, using, attempt>>

RemoteLogout(c) ==
  /\ conn[c] = "up"
  /\ conn' = [conn EXCEPT ![c] = "closed"]
  /\ paired' = FALSE
  /\ Emit(c, "LoggedOut")
  /\ UNCHANGED <<client, created, flags, pc, using, attempt>>

Handles(c, e) ==
  /\ events[c] # <<>> /\ Head(events[c]) = e
  /\ events' = [events EXCEPT ![c] = Tail(@)]

(* Mutant of HandleConnected: `reconnecting' stays set. *)
HandleConnectedKeepsFlag(c) ==
  /\ Handles(c, "Connected")
  /\ loggedOut' = FALSE
  /\ UNCHANGED <<client, created, conn, paired, started, reconnecting, pc, using, attempt>>

HandleConnected(c) ==
  /\ Handles(c, "Connected")
  /\ reconnecting' = FALSE /\ loggedOut' = FALSE
  /\ UNCHANGED <<client, created, conn, paired, started, pc, using, attempt>>

ShouldReconnect == ~loggedOut /\ ~reconnecting /\ started

HandleDisconnected(c) ==
  /\ Handles(c, "Disconnected")
  /\ \/ /\ ShouldReconnect
        /\ reconnecting' = TRUE
        /\ \E r \in Reconnectors :
             /\ pc[r] \in {"off", "exhausted"}
             /\ Goto(r, "check") /\ attempt' = [attempt EXCEPT ![r] = 1]
     \/ ~ShouldReconnect /\ UNCHANGED <<reconnecting, pc, attempt>>
  /\ UNCHANGED <<client, created, conn, paired, started, loggedOut, using>>

HandleLoggedOut(c) ==
  /\ Handles(c, "LoggedOut")
  /\ loggedOut' = TRUE
  /\ UNCHANGED <<client, created, conn, paired, started, reconnecting, pc, using, attempt>>

HandleEvent(c) == HandleConnected(c) \/ HandleDisconnected(c) \/ HandleLoggedOut(c)
------------------------------------------------------------------------------
(* The commands, run one at a time by runManager.  Until it sees that the  *)
(* stop channel is closed it may take a command that is waiting.           *)
Command(name) == name \in Commands /\ pc["manager"] = "off"

CmdConnect ==
  /\ Command("connect")
  /\ Goto("manager", "clear")
  /\ UNCHANGED <<client, created, conn, events, paired, flags, using, attempt>>

CmdDisconnect ==
  /\ Command("disconnect") /\ IsConnected(client)
  /\ conn' = Disconnected(client)
  /\ UNCHANGED <<client, created, events, paired, flags, pc, using, attempt>>

(* Deleting the device may fail, which only prints a warning. *)
DeleteDevice == paired' \in {FALSE, paired}

(* logout: flag and client under the lock, then disconnect and delete. *)
CmdLogout ==
  /\ Command("logout")
  /\ loggedOut' = TRUE
  /\ \/ client = None /\ UNCHANGED <<client, pc, using>>
     \/ /\ client # None
        /\ using' = [using EXCEPT !["manager"] = client]
        /\ client' = None
        /\ Goto("manager", "logout")
  /\ UNCHANGED <<created, conn, events, paired, started, reconnecting, attempt>>

FinishLogout ==
  /\ pc["manager"] = "logout"
  /\ conn' = Disconnected(using["manager"])
  /\ DeleteDevice
  /\ Goto("manager", "off")
  /\ UNCHANGED <<client, created, events, flags, using, attempt>>

(* cmdReset does both under the lock, and clears loggedOut at the end. *)
CmdReset ==
  /\ Command("reset")
  /\ conn' = Disconnected(client)
  /\ DeleteDevice /\ client' = None
  /\ Goto("manager", "reset")
  /\ UNCHANGED <<created, events, flags, using, attempt>>

FinishReset ==
  /\ pc["manager"] = "reset"
  /\ loggedOut' = FALSE
  /\ Goto("manager", "off")
  /\ UNCHANGED <<client, created, conn, events, paired, started, reconnecting, using, attempt>>

(* Shutdown closes the stop channel and disconnects; runManager, when it   *)
(* sees the closed channel, disconnects too and returns.                   *)
Shutdown ==
  /\ pc["main"] = "running"
  /\ started' = FALSE
  /\ Goto("main", "disconnect")
  /\ UNCHANGED <<client, created, conn, events, paired, reconnecting, loggedOut, using, attempt>>

StopDisconnects(p, at, next) ==
  /\ pc[p] = at /\ ~started
  /\ conn' = Disconnected(client)
  /\ Goto(p, next)
  /\ UNCHANGED <<client, created, events, paired, flags, using, attempt>>

ShutdownDisconnects == StopDisconnects("main", "disconnect", "off")
ManagerStops        == StopDisconnects("manager", "off", "stopped")

ManagerStep ==
  \/ CmdConnect \/ CmdDisconnect \/ CmdLogout \/ FinishLogout
  \/ CmdReset \/ FinishReset \/ ManagerStops

Next ==
  \/ \E p \in Logins : LoginStep(p) \/ Scan(p)
  \/ \E r \in Reconnectors : ReconnectStep(r)
  \/ \E c \in Clients :
       \/ Authenticated(c) \/ Dropped(c) \/ SelfReconnect(c) \/ RemoteLogout(c)
       \/ HandleEvent(c)
  \/ ManagerStep \/ Shutdown \/ ShutdownDisconnects

(* Goroutines run and events are delivered; the network, the user and the  *)
(* scan of a QR code owe nothing.                                          *)
Fairness ==
  /\ \A p \in Logins : WF_vars(LoginStep(p))
  /\ \A r \in Reconnectors : WF_vars(ReconnectStep(r))
  /\ \A c \in Clients : WF_vars(HandleEvent(c))

Spec == Init /\ [][Next]_vars /\ Fairness
------------------------------------------------------------------------------
Reconnecting(r) == pc[r] \notin {"off", "exhausted"}

(* session_manager.go: `reconnecting' guards against duplicate reconnect   *)
(* goroutines.                                                             *)
OneReconnector ==
  Cardinality({r \in Reconnectors : Reconnecting(r)}) <= 1

(* loginWithConnection works on a clean slate: two clients never hold a    *)
(* session with our credentials at once.                                   *)
OneLiveClient ==
  Cardinality({c \in Clients : conn[c] \in {"open", "up"}}) <= 1

(* A lost connection is never forgotten: once its Disconnected event has   *)
(* been handled, a goroutine is reconnecting, a login is under way or all  *)
(* attempts have been used up, unless the user logged out or stopped.      *)
LossIsHandled ==
  \A c \in Clients :
    conn[c] = "dropped" /\ c = client /\ events[c] = <<>> /\ started /\ ~loggedOut =>
      \/ \E r \in Reconnectors : pc[r] # "off"
      \/ \E p \in {"startup", "manager"} : pc[p] \in LoginSteps

(* And it leads somewhere: connected again, logged out, stopped, waiting   *)
(* for a QR scan, or every attempt used up and reported.                   *)
LossRecovers ==
  (\E c \in Clients : c = client /\ conn[c] = "dropped") ~>
     \/ \E c \in Clients : IsConnected(c)
     \/ \E r \in Reconnectors : pc[r] = "exhausted"
     \/ Abort

(* Reconnecting ends, whatever the user and the network do meanwhile: a    *)
(* reconnect goroutine connects, aborts, waits for a QR scan, or uses up   *)
(* its attempts and says so.  None of them tries for ever.                 *)
ReconnectEnds ==
  \A r \in Reconnectors :
    Reconnecting(r) ~> ~Reconnecting(r) \/ pc[r] = "scan"

(* session_manager.go: `loggedOut' is "set on explicit logout to suppress  *)
(* auto-reconnect": no reconnect goroutine connects while it is set.       *)
LogoutSuppressesReconnect ==
  [][\A r \in Reconnectors :
       (Connect(r) \/ QRConnect(r)) /\ conn' # conn => ~loggedOut]_vars
==============================================================================
