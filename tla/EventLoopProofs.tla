---------------------------- MODULE EventLoopProofs ----------------------------
(***************************************************************************)
(* Proofs about EventLoop for channels of any length, any commands and any *)
(* number of goroutines that log in.  The status bar is current because    *)
(* whatever changes the connection leaves something that makes runManager  *)
(* look again: a status, an event, or a goroutine about to send one.       *)
(***************************************************************************)
EXTENDS EventLoop, TLAPS

Coming == statuses > 0 \/ events > 0

(* A connection that came up is shown, or will be. *)
Announced == client = "up" => shown \/ Coming

Telling(p) == pc[p] \in SendSteps \cup {"logout"}

Pending == Coming \/ Stopped \/ \E p \in Logins : Telling(p)

(* One that is gone is not, but for the time until somebody says so.  A    *)
(* client lost by the network has always been reported.                    *)
Withdrawn ==
  shown => \/ Pending \/ IsConnected(client)
           \/ stray = "up" /\ client \in {"none", "down"}

Unstarted == pc["manager"] = "start" => ~shown

Inv == TypeOK /\ Announced /\ Withdrawn /\ Unstarted
------------------------------------------------------------------------------
LEMMA Numbers ==
  /\ CommandPlaces \in Nat \ {0} /\ StatusPlaces \in Nat \ {0} /\ MaxPending \in Nat \ {0}
  /\ "manager" \in Logins /\ Background \subseteq Logins /\ "manager" \notin Background
BY EventLoopAssumption DEF Logins

LEMMA InitInv == Init => Inv
<1> SUFFICES ASSUME Init PROVE Inv
  OBVIOUS
<1>1. pc \in [Logins -> {"start", "off"}] /\ pc["manager"] = "start"
  BY Numbers DEF Init
<1>2. TypeOK
  <2>1. 0 \in 0..CommandPlaces /\ 0 \in 0..StatusPlaces /\ 0 \in 0..MaxPending
    BY Numbers
  <2>2. QED BY <1>1, <2>1 DEF Init, TypeOK
<1>3. Announced /\ Withdrawn /\ Unstarted
  BY DEF Init, Announced, Withdrawn, Unstarted
<1>4. QED BY <1>2, <1>3 DEF Inv

LEMMA SendInv ==
  ASSUME Inv, NEW p \in Logins, Send(p)
  PROVE  Inv'
<1>1. TypeOK'
  BY Numbers DEF Inv, TypeOK, Send, End, Goto, LoginSteps
<1>2. Announced'
  BY DEF Inv, TypeOK, Announced, Coming, Send
<1>3. Withdrawn'
  BY DEF Inv, TypeOK, Withdrawn, Pending, Coming, Send
<1>4. Unstarted'
  BY Numbers DEF Inv, TypeOK, Unstarted, Send, End, Goto
<1>5. QED BY <1>1, <1>2, <1>3, <1>4 DEF Inv

LEMMA ManagerStartsInv ==
  ASSUME Inv, ManagerStarts
  PROVE  Inv'
<1>1. TypeOK'
  BY Numbers DEF Inv, TypeOK, ManagerStarts, Goto, rest, ConnStates, LoginSteps
<1>2. Announced'
  BY DEF Inv, Announced, Coming, ManagerStarts, rest
<1>3. Withdrawn'
  BY DEF Inv, Withdrawn, Unstarted, ManagerStarts, rest
<1>4. Unstarted'
  BY Numbers DEF Inv, TypeOK, Unstarted, ManagerStarts, Goto
<1>5. QED BY <1>1, <1>2, <1>3, <1>4 DEF Inv

LEMMA ClearInv ==
  ASSUME Inv, NEW p \in Logins, LoginClear(p)
  PROVE  Inv'
<1>1. TypeOK'
  BY DEF Inv, TypeOK, LoginClear, Forget, Goto, rest, LoginSteps
<1>2. Announced'
  BY DEF Announced, LoginClear, Forget
<1>3. Withdrawn'
  BY DEF Inv, Withdrawn, Pending, Coming, Stopped, Telling, SendSteps, LoginClear, Forget,
     Goto, rest
<1>4. Unstarted'
  BY DEF Inv, Unstarted, LoginClear, Goto, rest
<1>5. QED BY <1>1, <1>2, <1>3, <1>4 DEF Inv

LEMMA GetInv ==
  ASSUME Inv, NEW p \in Logins, LoginGet(p)
  PROVE  Inv'
<1>1. TypeOK'
  BY Numbers DEF Inv, TypeOK, LoginGet, GetConnection, Failed, End, Goto, rest, ConnStates,
     LoginSteps
<1>2. Announced'
  BY DEF Inv, Announced, Coming, LoginGet, GetConnection, rest
<1>3. Withdrawn'
  BY DEF Inv, TypeOK, Withdrawn, Pending, Coming, Stopped, Telling, SendSteps, LoginGet,
     GetConnection, Failed, End, Goto, rest, IsConnected, Connections
<1>4. Unstarted'
  BY Numbers DEF Inv, TypeOK, Unstarted, LoginGet, GetConnection, Failed, End, Goto, rest
<1>5. QED BY <1>1, <1>2, <1>3, <1>4 DEF Inv

LEMMA CleanInv ==
  ASSUME Inv, NEW p \in Logins, LoginClean(p)
  PROVE  Inv'
<1>1. TypeOK'
  BY Numbers DEF Inv, TypeOK, LoginClean, SetConnection, Goto, rest, ConnStates, LoginSteps,
     SendSteps
<1>2. Announced'
  BY DEF Inv, Announced, Coming, LoginClean, SetConnection, rest
<1>3. Withdrawn'
  BY DEF Inv, TypeOK, Withdrawn, Pending, Coming, Stopped, Telling, SendSteps, LoginClean,
     Goto, rest
<1>4. Unstarted'
  BY Numbers DEF Inv, TypeOK, Unstarted, LoginClean, Goto, rest
<1>5. QED BY <1>1, <1>2, <1>3, <1>4 DEF Inv

LEMMA ConnectInv ==
  ASSUME Inv, NEW p \in Logins, Connect(p)
  PROVE  Inv'
<1>1. TypeOK'
  BY Numbers DEF Inv, TypeOK, Connect, SetConnection, Failed, Forget, End, Goto, session, rest,
     ConnStates, LoginSteps, SendSteps
<1>2. Announced'
  BY DEF Inv, Announced, Coming, Connect, SetConnection, Forget, session, rest
<1>3. Withdrawn'
  BY DEF Inv, TypeOK, Withdrawn, Pending, Coming, Stopped, Telling, SendSteps, Connect, Failed,
     Forget, End, Goto, session, rest
<1>4. Unstarted'
  BY Numbers DEF Inv, TypeOK, Unstarted, Connect, Failed, End, Goto, rest
<1>5. QED BY <1>1, <1>2, <1>3, <1>4 DEF Inv

LEMMA QRInv ==
  ASSUME Inv, NEW p \in Logins, QRConnect(p)
  PROVE  Inv'
<1>1. TypeOK'
  BY Numbers DEF Inv, TypeOK, QRConnect, SetConnection, Failed, End, Goto, rest, ConnStates,
     LoginSteps
<1>2. Announced'
  BY DEF Inv, Announced, Coming, QRConnect, SetConnection, rest
<1>3. Withdrawn'
  BY DEF Inv, TypeOK, Withdrawn, Pending, Coming, Stopped, Telling, SendSteps, QRConnect,
     SetConnection, Failed, End, Goto, rest, IsConnected, Connections
<1>4. Unstarted'
  BY Numbers DEF Inv, TypeOK, Unstarted, QRConnect, Failed, End, Goto, rest
<1>5. QED BY <1>1, <1>2, <1>3, <1>4 DEF Inv

LEMMA ScanInv ==
  ASSUME Inv, NEW p \in Logins, Scan(p)
  PROVE  Inv'
<1>1. TypeOK'
  BY Numbers DEF Inv, TypeOK, Scan, SetConnection, Failed, End, Goto, session, rest,
     ConnStates, LoginSteps, SendSteps
<1>2. Announced'
  BY DEF Inv, Announced, Coming, Scan, SetConnection, session, rest
<1>3. Withdrawn'
  BY DEF Inv, TypeOK, Withdrawn, Pending, Coming, Stopped, Telling, SendSteps, Scan, Failed,
     End, Goto, rest
<1>4. Unstarted'
  BY Numbers DEF Inv, TypeOK, Unstarted, Scan, Failed, End, Goto, rest
<1>5. QED BY <1>1, <1>2, <1>3, <1>4 DEF Inv

LEMMA StopInv ==
  ASSUME Inv, TakeStop
  PROVE  Inv'
<1>1. TypeOK'
  BY DEF Inv, TypeOK, TakeStop, Goto, rest, AfterDisconnect, ConnStates
<1>2. Announced'
  BY DEF Inv, Announced, Coming, TakeStop, rest, AfterDisconnect
<1>3. Withdrawn'
  BY DEF Withdrawn, Pending, Stopped, TakeStop, rest
<1>4. Unstarted'
  BY Numbers DEF Inv, TypeOK, Unstarted, TakeStop, Goto
<1>5. QED BY <1>1, <1>2, <1>3, <1>4 DEF Inv

LEMMA StatusInv ==
  ASSUME Inv, TakeStatus
  PROVE  Inv'
<1>1. TypeOK'
  BY Numbers DEF Inv, TypeOK, TakeStatus, session, IsConnected
<1>2. Announced'
  BY DEF Announced, TakeStatus, session, IsConnected, Connections
<1>3. Withdrawn'
  BY DEF Withdrawn, TakeStatus, session
<1>4. Unstarted'
  BY DEF Unstarted, TakeStatus, Loops
<1>5. QED BY <1>1, <1>2, <1>3, <1>4 DEF Inv

LEMMA QuitInv ==
  ASSUME Inv, CmdQuit
  PROVE  Inv'
<1>1. TypeOK'
  BY Numbers DEF Inv, TypeOK, CmdQuit, Takes, session
<1>2. Announced'
  BY DEF Inv, Announced, Coming, CmdQuit, Takes, session
<1>3. Withdrawn'
  BY DEF Inv, Withdrawn, Pending, Coming, Stopped, Telling, CmdQuit, Takes, session
<1>4. Unstarted'
  BY DEF Inv, Unstarted, CmdQuit, Takes
<1>5. QED BY <1>1, <1>2, <1>3, <1>4 DEF Inv

LEMMA CmdConnectInv ==
  ASSUME Inv, CmdConnect
  PROVE  Inv'
<1>1. TypeOK'
  BY Numbers DEF Inv, TypeOK, CmdConnect, Takes, session, Goto, LoginSteps
<1>2. Announced'
  BY DEF Inv, Announced, Coming, CmdConnect, Takes, session
<1>3. Withdrawn'
  BY DEF Inv, Withdrawn, Pending, Coming, Stopped, Telling, SendSteps, CmdConnect, Takes,
     session, Goto, Loops
<1>4. Unstarted'
  BY Numbers DEF Inv, TypeOK, Unstarted, CmdConnect, Goto
<1>5. QED BY <1>1, <1>2, <1>3, <1>4 DEF Inv

LEMMA DisconnectInv ==
  ASSUME Inv, CmdDisconnect
  PROVE  Inv'
<1>1. TypeOK'
  BY Numbers DEF Inv, TypeOK, CmdDisconnect, Takes, Goto, AfterDisconnect, ConnStates,
     SendSteps
<1>2. Announced'
  BY DEF Inv, Announced, Coming, CmdDisconnect, Takes, AfterDisconnect
<1>3. Withdrawn'
  BY Numbers DEF Inv, TypeOK, Withdrawn, Pending, Coming, Stopped, Telling, SendSteps,
     CmdDisconnect, Takes, Goto, AfterDisconnect
<1>4. Unstarted'
  BY DEF Inv, TypeOK, Unstarted, CmdDisconnect, Takes, Goto
<1>5. QED BY <1>1, <1>2, <1>3, <1>4 DEF Inv

LEMMA LogoutInv ==
  ASSUME Inv, CmdLogout
  PROVE  Inv'
<1>1. TypeOK'
  BY Numbers DEF Inv, TypeOK, CmdLogout, Takes, Forget, Goto, SendSteps
<1>2. Announced'
  BY DEF Announced, CmdLogout, Forget
<1>3. Withdrawn'
  BY Numbers DEF Inv, TypeOK, Withdrawn, Pending, Telling, SendSteps, CmdLogout, Goto
<1>4. Unstarted'
  BY Numbers DEF Inv, TypeOK, Unstarted, CmdLogout, Goto
<1>5. QED BY <1>1, <1>2, <1>3, <1>4 DEF Inv

LEMMA FinishLogoutInv ==
  ASSUME Inv, FinishLogout
  PROVE  Inv'
<1>1. TypeOK'
  BY DEF Inv, TypeOK, FinishLogout, Goto, rest, SendSteps
<1>2. Announced'
  BY DEF Inv, Announced, Coming, FinishLogout, rest
<1>3. Withdrawn'
  BY Numbers DEF Withdrawn, Pending, Telling, SendSteps, FinishLogout, Goto
<1>4. Unstarted'
  BY DEF Unstarted, FinishLogout, Goto
<1>5. QED BY <1>1, <1>2, <1>3, <1>4 DEF Inv

LEMMA ResetInv ==
  ASSUME Inv, CmdReset
  PROVE  Inv'
<1>1. TypeOK'
  BY Numbers DEF Inv, TypeOK, CmdReset, Takes, Goto, SendSteps
<1>2. Announced'
  BY DEF Announced, CmdReset
<1>3. Withdrawn'
  BY Numbers DEF Inv, TypeOK, Withdrawn, Pending, Telling, SendSteps, CmdReset, Goto
<1>4. Unstarted'
  BY Numbers DEF Inv, TypeOK, Unstarted, CmdReset, Goto
<1>5. QED BY <1>1, <1>2, <1>3, <1>4 DEF Inv

LEMMA ComesUpInv ==
  ASSUME Inv, ComesUp
  PROVE  Inv'
<1>1. TypeOK'
  BY Numbers DEF Inv, TypeOK, ComesUp, Emit, ConnStates
<1>2. Announced'
  BY DEF Inv, TypeOK, Announced, Coming, ComesUp, Emit
<1>3. Withdrawn'
  BY DEF Inv, TypeOK, Withdrawn, Pending, Coming, ComesUp, Emit
<1>4. Unstarted'
  BY DEF Inv, Unstarted, ComesUp
<1>5. QED BY <1>1, <1>2, <1>3, <1>4 DEF Inv

LEMMA IsLostInv ==
  ASSUME Inv, IsLost
  PROVE  Inv'
<1>1. TypeOK'
  BY Numbers DEF Inv, TypeOK, IsLost, Emit, ConnStates
<1>2. Announced'
  BY DEF Inv, TypeOK, Announced, Coming, IsLost, Emit
<1>3. Withdrawn'
  BY DEF Inv, TypeOK, Withdrawn, Pending, Coming, IsLost, Emit
<1>4. Unstarted'
  BY DEF Inv, Unstarted, IsLost
<1>5. QED BY <1>1, <1>2, <1>3, <1>4 DEF Inv

LEMMA EventInv ==
  ASSUME Inv, HandleEvent
  PROVE  Inv'
<1>1. TypeOK'
  BY Numbers DEF Inv, TypeOK, HandleEvent, Goto, session, LoginSteps
<1>2. Announced'
  BY DEF Inv, TypeOK, Announced, Coming, HandleEvent
<1>3. Withdrawn'
  BY DEF Inv, TypeOK, Withdrawn, Pending, Coming, HandleEvent
<1>4. Unstarted'
  BY Numbers DEF Inv, TypeOK, Unstarted, HandleEvent, Goto
<1>5. QED BY <1>1, <1>2, <1>3, <1>4 DEF Inv

LEMMA GiveInv ==
  ASSUME Inv, NEW n \in {"sending", "quitting"}, Give(n)
  PROVE  Inv'
<1>1. TypeOK'
  BY DEF Inv, TypeOK, Give, session
<1>2. Announced'
  BY DEF Inv, Announced, Coming, Give, session
<1>3. Withdrawn'
  BY DEF Inv, Withdrawn, Pending, Coming, Stopped, Telling, Give, session
<1>4. Unstarted'
  BY DEF Inv, Unstarted, Give
<1>5. QED BY <1>1, <1>2, <1>3, <1>4 DEF Inv

LEMMA UiSendsInv ==
  ASSUME Inv, UiSends
  PROVE  Inv'
<1>1. TypeOK'
  BY Numbers DEF Inv, TypeOK, UiSends, session
<1>2. Announced'
  BY DEF Inv, Announced, Coming, UiSends, session
<1>3. Withdrawn'
  BY DEF Inv, Withdrawn, Pending, Coming, Stopped, Telling, UiSends, session
<1>4. Unstarted'
  BY DEF Inv, Unstarted, UiSends
<1>5. QED BY <1>1, <1>2, <1>3, <1>4 DEF Inv

LEMMA UiStopsInv ==
  ASSUME Inv, UiStops
  PROVE  Inv'
<1>1. TypeOK'
  BY DEF Inv, TypeOK, UiStops, session
<1>2. Announced'
  BY DEF Inv, Announced, Coming, UiStops, session
<1>3. Withdrawn'
  BY DEF Inv, Withdrawn, Pending, Coming, Stopped, Telling, UiStops, session
<1>4. Unstarted'
  BY DEF Inv, Unstarted, UiStops
<1>5. QED BY <1>1, <1>2, <1>3, <1>4 DEF Inv

LEMMA ShutdownInv ==
  ASSUME Inv, Shutdown
  PROVE  Inv'
<1>1. TypeOK'
  BY DEF Inv, TypeOK, Shutdown, AfterDisconnect, ConnStates
<1>2. Announced'
  BY DEF Inv, Announced, Coming, Shutdown, AfterDisconnect
<1>3. Withdrawn'
  BY DEF Withdrawn, Pending, Stopped, Shutdown
<1>4. Unstarted'
  BY DEF Inv, Unstarted, Shutdown
<1>5. QED BY <1>1, <1>2, <1>3, <1>4 DEF Inv

LEMMA StepInv ==
  ASSUME Inv, [Next]_vars
  PROVE  Inv'
<1>1. CASE Next
  BY <1>1, SendInv, ManagerStartsInv, ClearInv, GetInv, CleanInv, ConnectInv, QRInv, ScanInv,
     StopInv, StatusInv, QuitInv, CmdConnectInv, DisconnectInv, LogoutInv, FinishLogoutInv,
     ResetInv, ComesUpInv, IsLostInv, EventInv, GiveInv, UiSendsInv, UiStopsInv, ShutdownInv
     DEF Next, LoginStep, RunCommand, Exited, vars, session, rest, Inv, TypeOK, Announced,
     Coming, Withdrawn, Pending, Stopped, Unstarted
<1>2. CASE UNCHANGED vars
  BY <1>2 DEF vars, session, rest, Inv, TypeOK, Announced, Coming, Withdrawn, Pending, Stopped,
     Telling, Unstarted
<1>3. QED BY <1>1, <1>2

LEMMA Invariant == Spec => []Inv
BY InitInv, StepInv, PTL DEF Spec

(* The variables of the loop keep their types, whatever the length of the  *)
(* channels and the number of goroutines that log in.                      *)
THEOREM TypeCorrect == Spec => []TypeOK
<1>1. Inv => TypeOK
  BY DEF Inv
<1>2. QED BY <1>1, Invariant, PTL

(* ui_handler.go and connection.go: when nothing is under way the status   *)
(* bar shows an authenticated connection, and shows "connected" only while *)
(* a client has a connection, however long the channels are.               *)
THEOREM StatusStaysCurrent == Spec => []StatusIsCurrent
<1>1. Inv => StatusIsCurrent
  BY DEF Inv, StatusIsCurrent, Quiet, Announced, Withdrawn, Pending, Coming, Telling,
     SendSteps, Loops, Logins
<1>2. QED BY <1>1, Invariant, PTL
==============================================================================
