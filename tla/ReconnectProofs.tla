---------------------------- MODULE ReconnectProofs ----------------------------
(***************************************************************************)
(* Proofs about Reconnect for any number of goroutines, attempts, clients  *)
(* and waiting events.  Types are kept whatever happens; the rest is       *)
(* proved without the three things that TLC shows to break it              *)
(* (Undisturbed).  Then there is one token: a login or a                   *)
(* reconnect goroutine under way, a live connection, or a loss that is     *)
(* still to be handled.  Every step passes it on or drops it, none makes a *)
(* second one; `reconnecting' is needed for the losses only.               *)
(***************************************************************************)
EXTENDS Reconnect, FiniteSetTheorems, TLAPS

Undisturbed == "connect" \notin Commands /\ ~DropBeforeAuth /\ ~SelfReconnects

Events == {"Connected", "Disconnected", "LoggedOut"}
Places == Logins \cup {"main"}
Actors == Reconnectors \cup {"startup"}

Typed ==
  /\ TypeOK
  /\ pc = [p \in Places |-> pc[p]] /\ events \in [Clients -> Seq(Events)]
  /\ pc["manager"] \notin LoginSteps
  /\ \A c \in Clients : c > created => conn[c] = "idle"
  /\ client <= created /\ \A p \in Logins : using[p] <= created

StepsOf(p) ==
  IF p \in Reconnectors
  THEN LoginSteps \cup {"off", "check", "wait", "recheck", "abort", "release", "exhausted"}
  ELSE IF p = "startup" THEN LoginSteps \cup {"off"}
  ELSE IF p = "manager" THEN {"off", "logout", "reset", "stopped"}
  ELSE {"running", "disconnect", "off"}

Has(q, e) == \E i \in 1..Len(q) : q[i] = e

(* Nothing comes after a loss; a Connected comes before it, if any. *)
LossIsLast(q) == \A i \in 1..Len(q) : q[i] = "Disconnected" => i = Len(q)

BeforeLoss(q) ==
  \E i \in 1..Len(q) :
    q[i] = "Connected" /\ \A j \in 1..Len(q) : q[j] = "Disconnected" => i < j

Active(p) == pc[p] \notin {"off", "exhausted"}
Live(c)   == conn[c] \in {"open", "up"}
Won(c)    == Has(events[c], "Connected")
Lost(c)   == Has(events[c], "Disconnected")
Out(c)    == Has(events[c], "LoggedOut")

Current(c) == client \in {None, c}

OneActor ==
  \A p \in Actors : Active(p) =>
    /\ \A q \in Actors : Active(q) => p = q
    /\ \A c \in Clients : ~Live(c) /\ ~Won(c) /\ ~Lost(c) /\ ~Out(c)
    /\ pc[p] \in {"clean", "connect", "qr", "scan"} => Current(using[p])

OneLive ==
  \A c \in Clients : Live(c) =>
    /\ Current(c)
    /\ \A d \in Clients : ~Lost(d) /\ ~Out(d) /\ (Live(d) \/ Won(d) => d = c)

OneLoss ==
  \A c \in Clients : Lost(c) =>
    /\ Current(c) /\ LossIsLast(events[c])
    /\ \A d \in Clients : ~Out(d) /\ (Lost(d) \/ Won(d) => d = c)

(* Whose events wait is current, and what became of it is known. *)
Owed ==
  \A c \in Clients :
    /\ Won(c) \/ Out(c) => Current(c)
    /\ Won(c) /\ conn[c] = "dropped" => Lost(c)
    /\ Out(c) => conn[c] = "closed"

(* The flags that would make the handler ignore a loss are cleared by a    *)
(* Connected before it.                                                    *)
Released ==
  \A c \in Clients :
    (conn[c] = "up" \/ Lost(c)) /\ (reconnecting \/ (loggedOut /\ c = client)) =>
      BeforeLoss(events[c])

ClientDropped == client # None /\ conn[client] = "dropped"

Handled ==
  ClientDropped =>
    /\ ~Active("startup")
    /\ loggedOut => Lost(client)
    /\ started => /\ \A r \in Reconnectors : pc[r] # "abort"
                  /\ Lost(client) \/ \E r \in Reconnectors : pc[r] # "off"

(* Before the start-up login is over nothing was ever lost. *)
StartsFresh == Active("startup") => \A c \in Clients : conn[c] # "dropped"

Inv == Typed /\ OneActor /\ OneLive /\ OneLoss /\ Owed /\ Released /\ Handled /\ StartsFresh
------------------------------------------------------------------------------
LEMMA Constants ==
  /\ MaxClients \in Nat \ {0} /\ MaxPending \in Nat \ {0} /\ MaxAttempts \in Nat \ {0}
  /\ 1 \in Clients /\ \A c \in Clients : c \in Nat /\ c # None
  /\ "startup" \in Actors /\ "startup" \notin Reconnectors
  /\ "manager" \notin Actors /\ "main" \notin Actors
  /\ Actors \subseteq Places /\ Reconnectors \subseteq Actors
  /\ "manager" \in Places /\ "main" \in Places /\ "manager" # "main"
  /\ "manager" \notin Reconnectors /\ "main" \notin Reconnectors
BY ReconnectAssumption DEF Clients, None, Actors, Places, Logins

LEMMA AppendFacts ==
  ASSUME NEW q \in Seq(Events), NEW e \in Events
  PROVE  /\ Append(q, e) \in Seq(Events) /\ Len(Append(q, e)) = Len(q) + 1
         /\ \A x : Has(Append(q, e), x) <=> Has(q, x) \/ x = e
         /\ e = "Disconnected" /\ ~Has(q, e) => LossIsLast(Append(q, e))
         /\ e = "Disconnected" /\ BeforeLoss(q) => BeforeLoss(Append(q, e))
         /\ e = "Connected" /\ ~Has(q, "Disconnected") => BeforeLoss(Append(q, e))
<1>1. Append(q, e) \in Seq(Events) /\ Len(q) \in Nat /\ Len(Append(q, e)) = Len(q) + 1
  OBVIOUS
<1>2. \A i \in 1..Len(q) + 1 : Append(q, e)[i] = IF i <= Len(q) THEN q[i] ELSE e
  OBVIOUS
<1>3. \A i \in 1..Len(q) + 1 : i \in 1..Len(q) \/ i = Len(q) + 1
  BY <1>1
<1>4. \A x : Has(Append(q, e), x) <=> Has(q, x) \/ x = e
  BY <1>1, <1>2, <1>3 DEF Has
<1>5. e = "Disconnected" /\ ~Has(q, e) => LossIsLast(Append(q, e))
  BY <1>1, <1>2, <1>3 DEF Has, LossIsLast
<1>6. e = "Disconnected" /\ BeforeLoss(q) => BeforeLoss(Append(q, e))
  BY <1>1, <1>2, <1>3 DEF BeforeLoss
<1>7. e = "Connected" /\ ~Has(q, "Disconnected") => BeforeLoss(Append(q, e))
  <2> SUFFICES ASSUME e = "Connected", ~Has(q, "Disconnected") PROVE BeforeLoss(Append(q, e))
    OBVIOUS
  <2>1. \A j \in 1..Len(q) + 1 : Append(q, e)[j] # "Disconnected"
    BY <1>1, <1>2, <1>3 DEF Has
  <2>2. Append(q, e)[Len(q) + 1] = "Connected"
    BY <1>1, <1>2
  <2>3. QED BY <1>1, <2>1, <2>2 DEF BeforeLoss
<1>8. QED BY <1>1, <1>4, <1>5, <1>6, <1>7

LEMMA TailFacts ==
  ASSUME NEW q \in Seq(Events), q # <<>>
  PROVE  /\ Tail(q) \in Seq(Events) /\ Len(Tail(q)) = Len(q) - 1 /\ Len(q) \in Nat \ {0}
         /\ Has(q, Head(q))
         /\ \A x : Has(Tail(q), x) => Has(q, x)
         /\ \A x : Has(q, x) /\ Head(q) # x => Has(Tail(q), x)
         /\ LossIsLast(q) => LossIsLast(Tail(q))
         /\ LossIsLast(q) /\ Head(q) = "Disconnected" => \A x : ~Has(Tail(q), x)
         /\ BeforeLoss(q) => Head(q) # "Disconnected"
         /\ BeforeLoss(q) /\ Head(q) # "Connected" => BeforeLoss(Tail(q))
<1>1. /\ Tail(q) \in Seq(Events) /\ Len(Tail(q)) = Len(q) - 1 /\ Len(q) \in Nat \ {0}
      /\ Head(q) = q[1]
  OBVIOUS
<1>2. \A i \in 1..Len(q) - 1 : Tail(q)[i] = q[i + 1]
  OBVIOUS
<1>3. \A i \in 1..Len(q) : i = 1 \/ i - 1 \in 1..Len(q) - 1
  BY <1>1
<1>4. \A i \in 1..Len(q) - 1 : i + 1 \in 1..Len(q)
  BY <1>1
<1>5. Has(q, Head(q)) /\ \A x : Has(Tail(q), x) => Has(q, x)
  BY <1>1, <1>2, <1>4 DEF Has
<1>6. \A x : Has(q, x) /\ Head(q) # x => Has(Tail(q), x)
  <2> SUFFICES ASSUME NEW x, Has(q, x), Head(q) # x PROVE Has(Tail(q), x)
    OBVIOUS
  <2>1. PICK i \in 1..Len(q) : q[i] = x
    BY DEF Has
  <2>2. i - 1 \in 1..Len(q) - 1 /\ Tail(q)[i - 1] = x
    BY <1>1, <1>2, <1>3, <2>1
  <2>3. QED BY <1>1, <2>2 DEF Has
<1>7. LossIsLast(q) => LossIsLast(Tail(q))
  <2> SUFFICES ASSUME LossIsLast(q) PROVE LossIsLast(Tail(q))
    OBVIOUS
  <2>1. ASSUME NEW i \in 1..Len(q) - 1, Tail(q)[i] = "Disconnected" PROVE i = Len(q) - 1
    <3>1. i + 1 \in 1..Len(q) /\ q[i + 1] = "Disconnected"
      BY <1>2, <1>4, <2>1
    <3>2. i + 1 = Len(q)
      BY <3>1 DEF LossIsLast
    <3>3. Len(q) \in Nat
      BY <1>1
    <3>4. QED BY <3>2, <3>3
  <2>2. QED BY <1>1, <2>1 DEF LossIsLast
<1>8. LossIsLast(q) /\ Head(q) = "Disconnected" => \A x : ~Has(Tail(q), x)
  <2> SUFFICES ASSUME LossIsLast(q), q[1] = "Disconnected" PROVE \A x : ~Has(Tail(q), x)
    BY <1>1
  <2>1. 1 \in 1..Len(q)
    BY <1>1
  <2>2. 1 = Len(q)
    BY <2>1 DEF LossIsLast
  <2>3. QED BY <1>1, <2>2 DEF Has
<1>9. BeforeLoss(q) => Head(q) # "Disconnected"
  BY <1>1 DEF BeforeLoss
<1>10. BeforeLoss(q) /\ Head(q) # "Connected" => BeforeLoss(Tail(q))
  <2> SUFFICES ASSUME BeforeLoss(q), Head(q) # "Connected" PROVE BeforeLoss(Tail(q))
    OBVIOUS
  <2>1. PICK i \in 1..Len(q) :
          q[i] = "Connected" /\ \A j \in 1..Len(q) : q[j] = "Disconnected" => i < j
    BY DEF BeforeLoss
  <2>2. i - 1 \in 1..Len(q) - 1 /\ Tail(q)[i - 1] = "Connected"
    BY <1>1, <1>2, <1>3, <2>1
  <2>3. \A j \in 1..Len(q) - 1 : Tail(q)[j] = "Disconnected" => i - 1 < j
    BY <1>1, <1>2, <1>4, <2>1
  <2>4. QED BY <1>1, <2>2, <2>3 DEF BeforeLoss
<1>11. QED BY <1>1, <1>5, <1>6, <1>7, <1>8, <1>9, <1>10
------------------------------------------------------------------------------
LEMMA InitInv == Init => Inv
<1> SUFFICES ASSUME Init PROVE Inv
  OBVIOUS
<1>1. \A c \in Clients : conn[c] = "idle" /\ events[c] = <<>> /\ ~Won(c) /\ ~Lost(c) /\ ~Out(c)
  BY DEF Init, Won, Lost, Out, Has
<1>2. /\ pc = [p \in Places |-> pc[p]] /\ pc["startup"] = "clean" /\ pc["manager"] = "off"
      /\ pc["main"] = "running" /\ \A r \in Reconnectors : pc[r] = "off"
  BY Constants DEF Init, Places, Logins, Actors
<1>3. Typed
  <2>1. /\ 1 \in Clients /\ conn \in [Clients -> ConnStates] /\ using \in [Logins -> Clients]
        /\ attempt \in [Reconnectors -> 1..MaxAttempts]
    BY Constants DEF Init, ConnStates
  <2>2. \A c \in Clients : Len(events[c]) <= MaxPending /\ events[c] \in Seq(Events)
    <3>1. <<>> \in Seq(Events) /\ Len(<<>>) = 0
      OBVIOUS
    <3>2. 0 <= MaxPending
      BY Constants
    <3>3. QED BY <1>1, <3>1, <3>2
  <2>3. \A c \in Clients : c > created => conn[c] = "idle"
    BY <1>1
  <2>4. TypeOK
    BY <1>2, <2>1, <2>2 DEF Init, TypeOK, LoginSteps, Events
  <2>5. events \in [Clients -> Seq(Events)]
    BY DEF Init
  <2>6. client <= created /\ \A p \in Logins : using[p] <= created
    BY DEF Init
  <2>7. QED BY <2>3, <2>4, <2>5, <2>6, <1>2 DEF Typed, LoginSteps
<1>4. OneActor
  BY <1>1, <1>2, Constants DEF Init, OneActor, Active, Actors, Live, Current
<1>5. OneLive /\ OneLoss /\ Owed /\ Released /\ StartsFresh
  BY <1>1 DEF OneLive, OneLoss, Owed, Released, StartsFresh, Live
<1>6. Handled
  BY <1>1, Constants DEF Init, Handled, ClientDropped
<1>7. QED BY <1>3, <1>4, <1>5, <1>6 DEF Inv

(* Where a goroutine goes, and what is disconnected. *)
LEMMA GotoFacts ==
  ASSUME Typed, NEW p \in Places, NEW s \in StepsOf(p), Goto(p, s)
  PROVE  /\ pc' = [q \in Places |-> pc'[q]] /\ pc'[p] = s
         /\ \A q \in Places : q # p => pc'[q] = pc[q]
         /\ \A q \in Places : pc'[q] \in StepsOf(q)
<1>1. /\ pc' = [q \in Places |-> pc'[q]] /\ pc'[p] = s
      /\ \A q \in Places : q # p => pc'[q] = pc[q]
  BY DEF Typed, Goto
<1>2. \A q \in Places : pc[q] \in StepsOf(q)
  BY Constants DEF Typed, TypeOK, StepsOf, Places, Logins
<1>3. QED BY <1>1, <1>2

LEMMA StepsFacts ==
  ASSUME NEW f, \A q \in Places : f[q] \in StepsOf(q)
  PROVE  /\ \A r \in Reconnectors :
              f[r] \in LoginSteps \cup {"off", "check", "wait", "recheck", "abort", "release",
                                        "exhausted"}
         /\ f["startup"] \in LoginSteps \cup {"off"}
         /\ f["manager"] \in {"off", "logout", "reset", "stopped"}
         /\ f["main"] \in {"running", "disconnect", "off"}
BY Constants DEF StepsOf, Places, Logins

LEMMA PcTyped ==
  ASSUME Typed
  PROVE  \A q \in Places : pc[q] \in StepsOf(q)
BY Constants DEF Typed, TypeOK, StepsOf, Places, Logins

LEMMA DisconnectedFacts ==
  ASSUME Typed, NEW c
  PROVE  /\ Disconnected(c) \in [Clients -> ConnStates]
         /\ \A d \in Clients : \/ Disconnected(c)[d] = conn[d]
                               \/ Disconnected(c)[d] = "closed" /\ conn[d] \notin {"idle", "dropped"}
BY DEF Typed, TypeOK, Disconnected, IsConnected, ConnStates

(* What an actor does before it is connected: it passes the token to       *)
(* itself, or drops it.                                                    *)
LEMMA ActorMoves ==
  ASSUME Inv, Typed', NEW p \in Actors, Active(p),
         UNCHANGED <<events, started, loggedOut>>, reconnecting' \in {reconnecting, FALSE},
         \A q \in Actors : q # p => pc'[q] = pc[q],
         \A c \in Clients : conn'[c] = conn[c] \/ conn'[c] \notin {"open", "up", "dropped"},
         client' \in {client, None} \/ (client' \in Clients /\ conn'[client'] = "idle"),
         pc'[p] \in {"clean", "connect", "qr", "scan"} => client' \in {None, using'[p]},
         pc'[p] = "abort" => loggedOut \/ ~started,
         pc'[p] = "off" /\ p # "startup" => pc[p] = "abort"
  PROVE  Inv'
<1>1. \A q \in Actors : Active(q) => q = p
  BY DEF Inv, OneActor
<1>2. \A c \in Clients : ~Live(c) /\ ~Won(c) /\ ~Lost(c) /\ ~Out(c)
  BY DEF Inv, OneActor
<1>3. \A q \in Actors : Active(q)' => q = p
  BY <1>1 DEF Active
<1>4. \A c \in Clients : ~Live(c)' /\ ~Won(c)' /\ ~Lost(c)' /\ ~Out(c)' /\ conn'[c] # "up"
  BY <1>2 DEF Live, Won, Lost, Out
<1>5. OneActor'
  BY <1>3, <1>4 DEF OneActor, Current
<1>6. OneLive' /\ OneLoss' /\ Owed' /\ Released'
  BY <1>4 DEF OneLive, OneLoss, Owed, Released
<1>7. Handled'
  <2> SUFFICES ASSUME ClientDropped'
               PROVE  /\ ~Active("startup")' /\ ~loggedOut
                      /\ started => /\ \A r \in Reconnectors : pc'[r] # "abort"
                                    /\ \E r \in Reconnectors : pc'[r] # "off"
    BY DEF Handled
  <2>1. client' = client /\ client \in Clients /\ ClientDropped
    BY DEF ClientDropped, Inv, Typed, TypeOK
  <2>2. /\ ~Active("startup") /\ ~loggedOut
        /\ started => \A r \in Reconnectors : pc[r] # "abort"
    BY <2>1, <1>2 DEF Inv, Handled
  <2>3. p \in Reconnectors /\ p # "startup"
    BY <2>2 DEF Actors
  <2>4. ~Active("startup")'
    BY <1>3, <2>3, Constants
  <2>5. started => pc'[p] # "abort" /\ pc'[p] # "off"
    BY <2>2, <2>3
  <2>6. QED BY <2>2, <2>3, <2>4, <2>5, Constants
<1>8. StartsFresh'
  BY <1>3, Constants DEF Inv, StartsFresh
<1>9. QED BY <1>5, <1>6, <1>7, <1>8 DEF Inv

(* An actor is connected: the token is its connection now. *)
LEMMA ActorConnects ==
  ASSUME Inv, Typed', NEW p \in Actors, pc[p] \in {"connect", "scan"},
         UNCHANGED <<events, flags, client>>,
         pc'[p] = "off", \A q \in Actors : q # p => pc'[q] = pc[q],
         conn'[using[p]] = "open", \A c \in Clients : c # using[p] => conn'[c] = conn[c]
  PROVE  Inv'
<1>1. Active(p) /\ Current(using[p])
  BY DEF Inv, OneActor, Active
<1>2. \A c \in Clients : ~Live(c) /\ ~Won(c) /\ ~Lost(c) /\ ~Out(c)
  BY <1>1 DEF Inv, OneActor
<1>3. \A q \in Actors : ~Active(q)'
  BY <1>1 DEF Inv, OneActor, Active
<1>4. \A c \in Clients : /\ ~Won(c)' /\ ~Lost(c)' /\ ~Out(c)' /\ conn'[c] # "up"
                         /\ Live(c)' => c = using[p]
  BY <1>2 DEF Live, Won, Lost, Out
<1>5. OneActor' /\ StartsFresh'
  BY <1>3, Constants DEF OneActor, StartsFresh
<1>6. OneLive'
  BY <1>1, <1>4 DEF OneLive, Current
<1>7. OneLoss' /\ Owed' /\ Released'
  BY <1>4 DEF OneLoss, Owed, Released
<1>8. Handled'
  <2>1. ~ClientDropped'
    BY <1>1 DEF Current, ClientDropped, Inv, Typed, TypeOK
  <2>2. QED BY <2>1 DEF Handled
<1>9. QED BY <1>5, <1>6, <1>7, <1>8 DEF Inv

(* What the user's commands do: they only close connections, forget the    *)
(* client and clear or set flags.                                          *)
LEMMA CommandMoves ==
  ASSUME Inv, Typed', UNCHANGED <<events, reconnecting>>,
         \A q \in Actors : pc'[q] = pc[q] /\ using'[q] = using[q],
         \A c \in Clients : \/ conn'[c] = conn[c]
                            \/ conn'[c] = "closed" /\ conn[c] \notin {"idle", "dropped"},
         client' \in {client, None},
         loggedOut' => loggedOut \/ client' = None, started' => started
  PROVE  Inv'
<1>1. \A c \in Clients : /\ Live(c)' => Live(c)
                         /\ Won(c)' = Won(c) /\ Lost(c)' = Lost(c) /\ Out(c)' = Out(c)
                         /\ Current(c) => Current(c)'
  BY DEF Live, Won, Lost, Out, Current
<1>2. \A q \in Actors : /\ Active(q)' = Active(q) /\ using[q] \in Clients
                        /\ Current(using[q]) => Current(using[q])'
  BY DEF Active, Current, Inv, Typed, TypeOK, Actors, Logins
<1>3. OneActor'
  BY <1>1, <1>2 DEF Inv, OneActor
<1>4. OneLive'
  BY <1>1 DEF Inv, OneLive
<1>5. OneLoss'
  BY <1>1 DEF Inv, OneLoss
<1>6. Owed'
  BY <1>1 DEF Inv, Owed
<1>7. Released'
  BY <1>1, Constants DEF Inv, Released
<1>8. Handled'
  <2> SUFFICES ASSUME ClientDropped'
               PROVE  /\ ~Active("startup")'
                      /\ loggedOut' => Lost(client)'
                      /\ started' => /\ \A r \in Reconnectors : pc'[r] # "abort"
                                     /\ Lost(client)' \/ \E r \in Reconnectors : pc'[r] # "off"
    BY DEF Handled
  <2>1. client' = client /\ client \in Clients /\ ClientDropped /\ (loggedOut' => loggedOut)
    BY DEF ClientDropped, Inv, Typed, TypeOK
  <2>2. Lost(client)' = Lost(client)
    BY <2>1 DEF Lost
  <2>3. QED BY <2>1, <2>2, <1>2, Constants DEF Inv, Handled
<1>9. StartsFresh'
  BY <1>2, Constants DEF Inv, StartsFresh
<1>10. QED BY <1>3, <1>4, <1>5, <1>6, <1>7, <1>8, <1>9 DEF Inv
------------------------------------------------------------------------------
(* What keeps the types: the queues, the places, the connections. *)
LEMMA EmitFacts ==
  ASSUME Typed, NEW c \in Clients, NEW e \in Events, Emit(c, e)
  PROVE  /\ events' \in [Clients -> Seq(Events)]
         /\ \A d \in Clients : Len(events'[d]) <= MaxPending
         /\ events[c] \in Seq(Events) /\ events'[c] = Append(events[c], e)
         /\ \A d \in Clients : d # c => events'[d] = events[d]
<1>1. events[c] \in Seq(Events)
  BY DEF Typed
<1>2. Append(events[c], e) \in Seq(Events) /\ Len(Append(events[c], e)) = Len(events[c]) + 1
  BY <1>1, AppendFacts
<1>3. Len(events[c]) \in Nat /\ Len(events[c]) < MaxPending
  BY <1>1 DEF Emit
<1>4. Len(Append(events[c], e)) <= MaxPending
  BY <1>2, <1>3, Constants
<1>5. QED BY <1>1, <1>2, <1>4 DEF Typed, TypeOK, Emit

LEMMA HandlesFacts ==
  ASSUME Typed, NEW c \in Clients, NEW e \in Events, Handles(c, e)
  PROVE  /\ events' \in [Clients -> Seq(Events)]
         /\ \A d \in Clients : Len(events'[d]) <= MaxPending
         /\ events[c] \in Seq(Events) /\ events[c] # <<>> /\ Head(events[c]) = e
         /\ Has(events[c], e) /\ events'[c] = Tail(events[c])
         /\ \A d \in Clients : d # c => events'[d] = events[d]
         /\ \A d \in Clients, x \in Events : Has(events'[d], x) => Has(events[d], x)
<1>1. events[c] \in Seq(Events) /\ events[c] # <<>> /\ Head(events[c]) = e
  BY DEF Typed, Handles
<1>2. /\ Tail(events[c]) \in Seq(Events) /\ Len(Tail(events[c])) = Len(events[c]) - 1
      /\ Len(events[c]) \in Nat \ {0} /\ Has(events[c], e)
      /\ \A x : Has(Tail(events[c]), x) => Has(events[c], x)
  BY <1>1, TailFacts
<1>3. Len(events[c]) <= MaxPending
  BY DEF Typed, TypeOK
<1>4. Len(Tail(events[c])) <= MaxPending
  BY <1>2, <1>3, Constants
<1>5. QED BY <1>1, <1>2, <1>4 DEF Typed, TypeOK, Handles

LEMMA MoveTyped ==
  ASSUME Typed, NEW p \in Places, NEW s \in StepsOf(p), Goto(p, s),
         UNCHANGED events, client' \in Clients \cup {None}, created' \in Clients,
         conn' \in [Clients -> ConnStates], \A c \in Clients : c > created' => conn'[c] = "idle",
         {paired', started', reconnecting', loggedOut'} \subseteq BOOLEAN,
         using' \in [Logins -> Clients], attempt' \in [Reconnectors -> 1..MaxAttempts],
         client' <= created', \A q \in Logins : using'[q] <= created'
  PROVE  Typed'
<1>1. /\ pc' = [q \in Places |-> pc'[q]] /\ pc'[p] = s
      /\ \A q \in Places : q # p => pc'[q] = pc[q]
      /\ \A q \in Places : pc'[q] \in StepsOf(q)
  BY GotoFacts
<1>2. /\ \A r \in Reconnectors :
           pc'[r] \in LoginSteps \cup {"off", "check", "wait", "recheck", "abort", "release",
                                       "exhausted"}
      /\ pc'["startup"] \in LoginSteps \cup {"off"}
      /\ pc'["manager"] \in {"off", "logout", "reset", "stopped"}
      /\ pc'["main"] \in {"running", "disconnect", "off"}
  BY <1>1, StepsFacts
<1>3. TypeOK'
  BY <1>2 DEF Typed, TypeOK
<1>4. pc'["manager"] \notin LoginSteps
  BY <1>2 DEF LoginSteps
<1>5. QED BY <1>1, <1>3, <1>4 DEF Typed

LEMMA EventTyped ==
  ASSUME Typed, events' \in [Clients -> Seq(Events)],
         \A d \in Clients : Len(events'[d]) <= MaxPending,
         UNCHANGED <<client, created, started, pc, using, attempt>>,
         conn' \in [Clients -> ConnStates], \A c \in Clients : c > created => conn'[c] = "idle",
         {paired', reconnecting', loggedOut'} \subseteq BOOLEAN
  PROVE  Typed'
<1>1. \A c \in Clients : events'[c] \in Seq({"Connected", "Disconnected", "LoggedOut"})
  BY DEF Events
<1>2. QED BY <1>1 DEF Typed, TypeOK

LEMMA FailedFacts ==
  ASSUME Typed, NEW p \in Actors, pc[p] \in LoginSteps, LoginFailed(p)
  PROVE  \E s \in StepsOf(p) :
           /\ Goto(p, s) /\ s \in {"off", "check", "release"} /\ (s = "off" => p = "startup")
           /\ attempt' \in [Reconnectors -> 1..MaxAttempts]
<1>1. CASE p \notin Reconnectors
  BY <1>1 DEF Actors, LoginFailed, StepsOf, Typed, TypeOK
<1>2. CASE p \in Reconnectors
  <2>1. attempt[p] \in 1..MaxAttempts
    BY <1>2 DEF Typed, TypeOK
  <2>2. attempt[p] < MaxAttempts => attempt[p] + 1 \in 1..MaxAttempts
    BY <2>1, Constants
  <2>3. {"check", "release"} \subseteq StepsOf(p)
    BY <1>2 DEF StepsOf
  <2>4. CASE attempt[p] < MaxAttempts
    BY <1>2, <2>2, <2>3, <2>4 DEF LoginFailed, Typed, TypeOK
  <2>5. CASE ~(attempt[p] < MaxAttempts)
    BY <1>2, <2>3, <2>5 DEF LoginFailed, Typed, TypeOK
  <2>6. QED BY <2>4, <2>5
<1>3. QED BY <1>1, <1>2
------------------------------------------------------------------------------
(* The steps of a login. *)
LEMMA ClearInv ==
  ASSUME Inv, NEW p \in Actors, LoginClear(p)
  PROVE  Inv'
<1>1. p \in Places /\ "get" \in StepsOf(p) /\ Typed /\ pc[p] = "clear" /\ Goto(p, "get")
  BY Constants DEF Inv, StepsOf, Actors, LoginClear, LoginSteps
<1>2. pc'[p] = "get" /\ \A q \in Places : q # p => pc'[q] = pc[q]
  BY <1>1, GotoFacts
<1>3. client' <= created' /\ created \in Clients
  BY <1>1, Constants DEF LoginClear, Typed, TypeOK, None
<1>4. Typed'
  BY <1>1, <1>3, MoveTyped DEF LoginClear, flags, Typed, TypeOK
<1>5. QED BY <1>1, <1>2, <1>4, ActorMoves, Constants DEF LoginClear, flags, Active

LEMMA GetInv ==
  ASSUME Inv, NEW p \in Actors, GetConnection(p)
  PROVE  Inv'
<1> DEFINE next == IF pc[p] = "get" THEN "clean" ELSE "qr"
<1>1. p \in Places /\ Typed /\ Active(p) /\ pc[p] \in LoginSteps /\ p \in Logins
  BY Constants DEF Inv, Active, GetConnection, LoginSteps, Actors, Logins
<1>2. next \in StepsOf(p) /\ next \in {"clean", "qr"}
  BY DEF StepsOf, Actors, LoginSteps
<1>3. UNCHANGED <<conn, events, paired, started, reconnecting, loggedOut>>
  BY DEF GetConnection, flags
<1>4. CASE client # None /\ using' = [using EXCEPT ![p] = client] /\ Goto(p, next)
           /\ UNCHANGED <<client, created, attempt>>
  <2>1. pc'[p] = next /\ \A q \in Places : q # p => pc'[q] = pc[q]
    BY <1>1, <1>2, <1>4, GotoFacts
  <2>2. using' \in [Logins -> Clients] /\ using'[p] = client
    BY <1>1, <1>4 DEF Typed, TypeOK
  <2>3. Typed'
    BY <1>1, <1>2, <1>3, <1>4, <2>2, MoveTyped DEF Typed, TypeOK
  <2>4. QED BY <1>1, <1>2, <1>3, <1>4, <2>1, <2>2, <2>3, ActorMoves, Constants
<1>5. CASE /\ client = None /\ created < MaxClients
           /\ created' = created + 1 /\ client' = created + 1
           /\ using' = [using EXCEPT ![p] = created + 1] /\ Goto(p, next) /\ UNCHANGED attempt
  <2>1. pc'[p] = next /\ \A q \in Places : q # p => pc'[q] = pc[q]
    BY <1>1, <1>2, <1>5, GotoFacts
  <2>2. created \in Nat /\ created + 1 \in Clients /\ created + 1 > created
    BY <1>1, <1>5, Constants DEF Typed, TypeOK, Clients
  <2>3. using' \in [Logins -> Clients] /\ using'[p] = client'
    BY <1>1, <1>5, <2>2 DEF Typed, TypeOK
  <2>4. \A c \in Clients : c > created' => conn'[c] = "idle"
    BY <1>1, <1>3, <1>5, <2>2, Constants DEF Typed
  <2>5. conn'[client'] = "idle"
    BY <1>1, <1>3, <1>5, <2>2 DEF Typed
  <2>6. client' <= created' /\ \A q \in Logins : using'[q] <= created'
    BY <1>1, <1>5, <2>2, Constants DEF Typed, TypeOK
  <2>7. Typed'
    BY <1>1, <1>2, <1>3, <1>5, <2>2, <2>3, <2>4, <2>6, MoveTyped DEF Typed, TypeOK
  <2>8. QED BY <1>1, <1>2, <1>3, <1>5, <2>1, <2>2, <2>3, <2>5, <2>7, ActorMoves, Constants
<1>6. CASE client = None /\ LoginFailed(p) /\ UNCHANGED <<client, created, using>>
  <2>1. PICK s \in StepsOf(p) :
          /\ Goto(p, s) /\ s \in {"off", "check", "release"} /\ (s = "off" => p = "startup")
          /\ attempt' \in [Reconnectors -> 1..MaxAttempts]
    BY <1>1, <1>6, FailedFacts
  <2>2. pc'[p] = s /\ \A q \in Places : q # p => pc'[q] = pc[q]
    BY <1>1, <2>1, GotoFacts
  <2>3. Typed'
    BY <1>1, <1>3, <1>6, <2>1, MoveTyped DEF Typed, TypeOK
  <2>4. QED BY <1>1, <1>3, <1>6, <2>1, <2>2, <2>3, ActorMoves, Constants
<1>7. QED BY <1>4, <1>5, <1>6 DEF GetConnection

LEMMA CleanInv ==
  ASSUME Inv, NEW p \in Actors, LoginClean(p)
  PROVE  Inv'
<1> DEFINE next == IF paired THEN "connect" ELSE "qr"
<1>1. /\ p \in Places /\ Typed /\ Active(p) /\ pc[p] = "clean" /\ Goto(p, next)
      /\ next \in StepsOf(p) /\ next \in {"connect", "qr"}
  BY Constants DEF Inv, Active, LoginClean, LoginSteps, Actors, StepsOf
<1>2. pc'[p] = next /\ \A q \in Places : q # p => pc'[q] = pc[q]
  BY <1>1, GotoFacts
<1>3. /\ conn' = Disconnected(using[p])
      /\ UNCHANGED <<client, created, events, paired, started, reconnecting, loggedOut, using,
                     attempt>>
  BY DEF LoginClean, flags
<1>4. /\ conn' \in [Clients -> ConnStates]
      /\ \A c \in Clients : \/ conn'[c] = conn[c]
                            \/ conn'[c] = "closed" /\ conn[c] \notin {"idle", "dropped"}
  BY <1>1, <1>3 DEF Disconnected, IsConnected, ConnStates, Typed, TypeOK
<1>5. Typed'
  BY <1>1, <1>3, <1>4, MoveTyped DEF Typed, TypeOK
<1>6. Current(using[p])
  BY <1>1 DEF Inv, OneActor
<1>7. QED BY <1>1, <1>2, <1>3, <1>4, <1>5, <1>6, ActorMoves, Constants DEF Current

(* A connection attempt that does not connect. *)
LEMMA FailedInv ==
  ASSUME Inv, NEW p \in Actors, pc[p] \in LoginSteps, LoginFailed(p),
         UNCHANGED <<client, created, conn, events, paired, flags, using>>
  PROVE  Inv'
<1>1. p \in Places /\ Typed /\ Active(p)
  BY Constants DEF Inv, Active, LoginSteps
<1>2. PICK s \in StepsOf(p) :
        /\ Goto(p, s) /\ s \in {"off", "check", "release"} /\ (s = "off" => p = "startup")
        /\ attempt' \in [Reconnectors -> 1..MaxAttempts]
  BY <1>1, FailedFacts
<1>3. pc'[p] = s /\ \A q \in Places : q # p => pc'[q] = pc[q]
  BY <1>1, <1>2, GotoFacts
<1>4. Typed'
  BY <1>1, <1>2, MoveTyped DEF flags, Typed, TypeOK
<1>5. QED BY <1>1, <1>2, <1>3, <1>4, ActorMoves, Constants DEF flags

(* One that does. *)
LEMMA LoginOkInv ==
  ASSUME Inv, NEW p \in Actors, pc[p] \in {"connect", "scan"}, LoginOk(p),
         conn' = [conn EXCEPT ![using[p]] = "open"], paired' \in BOOLEAN,
         UNCHANGED <<client, created, events, flags, using>>
  PROVE  Inv'
<1>1. p \in Places /\ Typed /\ "off" \in StepsOf(p) /\ Goto(p, "off") /\ using[p] \in Clients
  BY Constants DEF Inv, Typed, TypeOK, StepsOf, Actors, Logins, LoginOk
<1>2. pc'[p] = "off" /\ \A q \in Places : q # p => pc'[q] = pc[q]
  BY <1>1, GotoFacts
<1>3. /\ conn' \in [Clients -> ConnStates] /\ conn'[using[p]] = "open"
      /\ \A c \in Clients : c # using[p] => conn'[c] = conn[c]
  BY <1>1 DEF Typed, TypeOK, ConnStates
<1>4. \A c \in Clients : c > created => conn'[c] = "idle"
  <2>1. using[p] <= created /\ created \in Nat
    BY <1>1, Constants DEF Typed, TypeOK, Actors, Logins
  <2>2. \A c \in Clients : c > created => c # using[p]
    BY <1>1, <2>1, Constants
  <2>3. QED BY <1>1, <1>3, <2>2 DEF Typed
<1>5. Typed'
  <2>1. UNCHANGED <<client, created, events, started, reconnecting, loggedOut, using, attempt>>
    BY DEF LoginOk, flags
  <2>2. /\ client \in Clients \cup {None} /\ created \in Clients
        /\ {started, reconnecting, loggedOut} \subseteq BOOLEAN
        /\ using \in [Logins -> Clients] /\ attempt \in [Reconnectors -> 1..MaxAttempts]
        /\ client <= created /\ \A q \in Logins : using[q] <= created
    BY <1>1 DEF Typed, TypeOK
  <2>3. QED BY <1>1, <1>3, <1>4, <2>1, <2>2, MoveTyped
<1>6. QED BY <1>1, <1>2, <1>3, <1>5, ActorConnects, Constants DEF flags

LEMMA ConnectInv ==
  ASSUME Inv, NEW p \in Actors, Connect(p)
  PROVE  Inv'
<1>1. p \in Places /\ Typed /\ Active(p) /\ pc[p] = "connect" /\ pc[p] \in LoginSteps
  BY Constants DEF Inv, Active, Connect, LoginSteps
<1>2. CASE conn' = [conn EXCEPT ![using[p]] = "open"] /\ LoginOk(p) /\ UNCHANGED <<client, paired>>
  BY <1>1, <1>2, LoginOkInv DEF Connect, Typed, TypeOK
<1>3. CASE LoginFailed(p) /\ UNCHANGED <<client, conn, paired>>
  BY <1>1, <1>3, FailedInv DEF Connect
<1>4. CASE paired' = FALSE /\ client' = None /\ Goto(p, "getNew") /\ UNCHANGED <<conn, attempt>>
  <2>1. "getNew" \in StepsOf(p)
    BY DEF StepsOf, Actors, LoginSteps
  <2>2. pc'[p] = "getNew" /\ \A q \in Places : q # p => pc'[q] = pc[q]
    BY <1>1, <1>4, <2>1, GotoFacts
  <2>3. UNCHANGED <<created, events, started, reconnecting, loggedOut, using>>
    BY DEF Connect, flags
  <2>4. client' <= created' /\ created \in Clients
    BY <1>1, <1>4, <2>3, Constants DEF Typed, TypeOK, None
  <2>5. Typed'
    BY <1>1, <1>4, <2>1, <2>3, <2>4, MoveTyped DEF Typed, TypeOK
  <2>6. QED BY <1>1, <1>4, <2>2, <2>3, <2>5, ActorMoves, Constants
<1>5. QED BY <1>2, <1>3, <1>4 DEF Connect

LEMMA QRInv ==
  ASSUME Inv, NEW p \in Actors, QRConnect(p)
  PROVE  Inv'
<1>1. p \in Places /\ Typed /\ Active(p) /\ pc[p] = "qr" /\ pc[p] \in LoginSteps
  BY Constants DEF Inv, Active, QRConnect, LoginSteps
<1>2. CASE /\ conn' = [conn EXCEPT ![using[p]] = "pairing"]
           /\ Goto(p, "scan") /\ UNCHANGED attempt
  <2>1. "scan" \in StepsOf(p)
    BY DEF StepsOf, Actors, LoginSteps
  <2>2. pc'[p] = "scan" /\ \A q \in Places : q # p => pc'[q] = pc[q]
    BY <1>1, <1>2, <2>1, GotoFacts
  <2>3. UNCHANGED <<client, created, events, paired, started, reconnecting, loggedOut, using>>
    BY DEF QRConnect, flags
  <2>4. /\ using[p] \in Clients /\ conn' \in [Clients -> ConnStates]
        /\ conn'[using[p]] = "pairing" /\ \A c \in Clients : c # using[p] => conn'[c] = conn[c]
    BY <1>1, <1>2 DEF Typed, TypeOK, ConnStates, Actors, Logins
  <2>5. \A c \in Clients : c > created => conn'[c] = "idle"
    <3>1. using[p] <= created /\ created \in Nat
      BY <1>1, Constants DEF Typed, TypeOK, Actors, Logins
    <3>2. \A c \in Clients : c > created => c # using[p]
      BY <2>4, <3>1, Constants
    <3>3. QED BY <1>1, <2>4, <3>2 DEF Typed
  <2>6. Typed'
    <3>1. /\ client \in Clients \cup {None} /\ created \in Clients
          /\ {paired, started, reconnecting, loggedOut} \subseteq BOOLEAN
          /\ using \in [Logins -> Clients] /\ attempt \in [Reconnectors -> 1..MaxAttempts]
          /\ client <= created /\ \A q \in Logins : using[q] <= created
      BY <1>1 DEF Typed, TypeOK
    <3>2. QED BY <1>1, <1>2, <2>1, <2>3, <2>4, <2>5, <3>1, MoveTyped
  <2>7. Current(using[p])
    BY <1>1 DEF Inv, OneActor
  <2>8. \A c \in Clients : conn'[c] = conn[c] \/ conn'[c] \notin {"open", "up", "dropped"}
    BY <2>4
  <2>9. QED BY <1>1, <2>2, <2>3, <2>6, <2>7, <2>8, ActorMoves, Constants DEF Current
<1>3. CASE LoginFailed(p) /\ UNCHANGED conn
  BY <1>1, <1>3, FailedInv DEF QRConnect
<1>4. QED BY <1>2, <1>3 DEF QRConnect

LEMMA ScanInv ==
  ASSUME Inv, NEW p \in Actors, Scan(p)
  PROVE  Inv'
<1>1. pc[p] = "scan" /\ pc[p] \in LoginSteps
  BY DEF Scan, LoginSteps
<1>2. CASE conn' = [conn EXCEPT ![using[p]] = "open"] /\ paired' = TRUE /\ LoginOk(p)
  BY <1>1, <1>2, LoginOkInv DEF Scan
<1>3. CASE LoginFailed(p) /\ UNCHANGED <<conn, paired>>
  BY <1>1, <1>3, FailedInv DEF Scan
<1>4. QED BY <1>2, <1>3 DEF Scan
------------------------------------------------------------------------------
(* The steps of scheduleReconnect outside of login(). *)
LEMMA ReconnectStepInv ==
  ASSUME Inv, NEW r \in Reconnectors, ReconnectStep(r)
  PROVE  Inv'
<1>1. /\ r \in Places /\ r \in Actors /\ r # "startup" /\ Typed /\ Active(r)
      /\ UNCHANGED <<client, created, conn, events, paired, started, loggedOut, using, attempt>>
      /\ reconnecting' \in {reconnecting, FALSE}
  BY Constants DEF Inv, Active, ReconnectStep, CheckBeforeWait, BackoffEnds, CheckAfterWait,
     ReleaseFlag, flags
<1>2. PICK s : /\ Goto(r, s) /\ s \in {"abort", "wait", "recheck", "clear", "off", "exhausted"}
               /\ s = "abort" => loggedOut \/ ~started
               /\ s = "off" => pc[r] = "abort"
  BY DEF ReconnectStep, CheckBeforeWait, BackoffEnds, CheckAfterWait, ReleaseFlag, Abort
<1>3. s \in StepsOf(r)
  BY <1>2 DEF StepsOf, LoginSteps
<1>4. pc'[r] = s /\ \A q \in Places : q # r => pc'[q] = pc[q]
  BY <1>1, <1>2, <1>3, GotoFacts
<1>5. Typed'
  BY <1>1, <1>2, <1>3, MoveTyped DEF Typed, TypeOK
<1>6. QED BY <1>1, <1>2, <1>4, <1>5, ActorMoves, Constants
------------------------------------------------------------------------------
(* The commands and Shutdown. *)
LEMMA CommandInv ==
  ASSUME Inv, NEW p \in {"manager", "main"}, NEW s \in StepsOf(p), Goto(p, s),
         UNCHANGED <<created, events, reconnecting, attempt>>,
         conn' = conn \/ \E c \in Clients \cup {None} : conn' = Disconnected(c),
         client' \in {client, None}, paired' \in BOOLEAN,
         loggedOut' \in BOOLEAN, loggedOut' => loggedOut \/ client' = None,
         started' \in BOOLEAN, started' => started,
         using' \in [Logins -> Clients],
         \A q \in Logins : using'[q] = using[q] \/ (q = "manager" /\ using'[q] = client)
  PROVE  Inv'
<1>1. p \in Places /\ p \notin Actors /\ Typed
  BY Constants DEF Inv
<1>2. \A q \in Places : q # p => pc'[q] = pc[q]
  BY <1>1, GotoFacts
<1>3. /\ conn' \in [Clients -> ConnStates]
      /\ \A d \in Clients : \/ conn'[d] = conn[d]
                            \/ conn'[d] = "closed" /\ conn[d] \notin {"idle", "dropped"}
  <2>1. CASE conn' = conn
    BY <1>1, <2>1 DEF Typed, TypeOK
  <2>2. ASSUME NEW c \in Clients \cup {None}, conn' = Disconnected(c)
        PROVE  /\ conn' \in [Clients -> ConnStates]
               /\ \A d \in Clients : \/ conn'[d] = conn[d]
                                     \/ conn'[d] = "closed" /\ conn[d] \notin {"idle", "dropped"}
    <3>1. /\ Disconnected(c) \in [Clients -> ConnStates]
          /\ \A d \in Clients :
               \/ Disconnected(c)[d] = conn[d]
               \/ Disconnected(c)[d] = "closed" /\ conn[d] \notin {"idle", "dropped"}
      BY <1>1, DisconnectedFacts
    <3>2. QED BY <2>2, <3>1
  <2>3. QED BY <2>1, <2>2
<1>4. client' <= created' /\ \A q \in Logins : using'[q] <= created'
  <2>1. client <= created /\ None <= created /\ \A q \in Logins : using[q] <= created
    BY <1>1, Constants DEF Typed, TypeOK, None
  <2>2. QED BY <2>1
<1>5. Typed'
  <2>1. /\ client' \in Clients \cup {None} /\ created' \in Clients
        /\ attempt' \in [Reconnectors -> 1..MaxAttempts]
        /\ {paired', started', reconnecting', loggedOut'} \subseteq BOOLEAN
        /\ \A c \in Clients : c > created' => conn'[c] = "idle"
    BY <1>1, <1>3 DEF Typed, TypeOK
  <2>2. QED BY <1>1, <1>3, <1>4, <2>1, MoveTyped
<1>6. \A q \in Actors : pc'[q] = pc[q] /\ using'[q] = using[q]
  BY <1>1, <1>2, Constants DEF Actors, Logins
<1>7. QED BY <1>3, <1>5, <1>6, CommandMoves

LEMMA DisconnectInv ==
  ASSUME Inv, CmdDisconnect
  PROVE  Inv'
<1>1. /\ Typed /\ conn' = Disconnected(client)
      /\ UNCHANGED <<client, created, events, paired, started, reconnecting, loggedOut, pc, using,
                     attempt>>
  BY DEF Inv, CmdDisconnect, flags
<1>2. /\ Disconnected(client) \in [Clients -> ConnStates]
      /\ \A d \in Clients :
           \/ Disconnected(client)[d] = conn[d]
           \/ Disconnected(client)[d] = "closed" /\ conn[d] \notin {"idle", "dropped"}
  BY <1>1, DisconnectedFacts
<1>3. Typed'
  BY <1>1, <1>2 DEF Typed, TypeOK
<1>4. QED BY <1>1, <1>2, <1>3, CommandMoves

LEMMA LogoutInv ==
  ASSUME Inv, CmdLogout
  PROVE  Inv'
<1>1. /\ Typed /\ loggedOut' = TRUE /\ client \in Clients \cup {None}
      /\ UNCHANGED <<created, conn, events, paired, started, reconnecting, attempt>>
      /\ "manager" \in Logins
  BY DEF Inv, Typed, TypeOK, CmdLogout, Logins
<1>2. CASE client = None /\ UNCHANGED <<client, pc, using>>
  <2>1. Typed'
    BY <1>1, <1>2 DEF Typed, TypeOK
  <2>2. QED BY <1>1, <1>2, <2>1, CommandMoves
<1>3. CASE /\ client # None /\ using' = [using EXCEPT !["manager"] = client] /\ client' = None
           /\ Goto("manager", "logout")
  <2>1. "logout" \in StepsOf("manager")
    BY Constants DEF StepsOf
  <2>2. /\ using' \in [Logins -> Clients]
        /\ \A q \in Logins : using'[q] = using[q] \/ (q = "manager" /\ using'[q] = client)
    BY <1>1, <1>3 DEF Typed, TypeOK
  <2>3. QED BY <1>1, <1>3, <2>1, <2>2, CommandInv DEF Typed, TypeOK
<1>4. QED BY <1>2, <1>3 DEF CmdLogout

LEMMA FinishLogoutInv ==
  ASSUME Inv, FinishLogout
  PROVE  Inv'
<1>1. /\ "off" \in StepsOf("manager") /\ Typed /\ using["manager"] \in Clients
      /\ UNCHANGED <<started, reconnecting, loggedOut>> /\ paired' \in BOOLEAN
  BY Constants DEF StepsOf, Inv, Typed, TypeOK, Logins, FinishLogout, flags, DeleteDevice
<1>2. QED BY <1>1, CommandInv DEF FinishLogout, Typed, TypeOK

LEMMA ResetInv ==
  ASSUME Inv, CmdReset
  PROVE  Inv'
<1>1. /\ "reset" \in StepsOf("manager") /\ Typed /\ client \in Clients \cup {None}
      /\ UNCHANGED <<started, reconnecting, loggedOut>> /\ paired' \in BOOLEAN
  BY Constants DEF StepsOf, Inv, Typed, TypeOK, CmdReset, flags, DeleteDevice
<1>2. QED BY <1>1, CommandInv DEF CmdReset, Typed, TypeOK

LEMMA FinishResetInv ==
  ASSUME Inv, FinishReset
  PROVE  Inv'
<1>1. "off" \in StepsOf("manager") /\ Typed
  BY Constants DEF StepsOf, Inv
<1>2. QED BY <1>1, CommandInv DEF FinishReset, Typed, TypeOK

LEMMA ShutdownInv ==
  ASSUME Inv, Shutdown
  PROVE  Inv'
<1>1. "disconnect" \in StepsOf("main") /\ Typed
  BY Constants DEF StepsOf, Inv
<1>2. QED BY <1>1, CommandInv DEF Shutdown, Typed, TypeOK

LEMMA StopInv ==
  ASSUME Inv, ShutdownDisconnects \/ ManagerStops
  PROVE  Inv'
<1>1. /\ "off" \in StepsOf("main") /\ "stopped" \in StepsOf("manager") /\ Typed
      /\ client \in Clients \cup {None} /\ conn' = Disconnected(client)
      /\ UNCHANGED <<client, created, events, paired, started, reconnecting, loggedOut, using,
                     attempt>>
      /\ Goto("main", "off") \/ Goto("manager", "stopped")
  BY Constants DEF StepsOf, Inv, Typed, TypeOK, ShutdownDisconnects, ManagerStops,
     StopDisconnects, flags
<1>2. QED BY <1>1, CommandInv DEF Typed, TypeOK
------------------------------------------------------------------------------
(* Authentication, loss and remote logout, and the handler of the events. *)
LEMMA AuthenticatedInv ==
  ASSUME Inv, NEW c \in Clients, Authenticated(c)
  PROVE  Inv'
<1>1. /\ Typed /\ conn[c] = "open" /\ Live(c) /\ conn' = [conn EXCEPT ![c] = "up"]
      /\ Emit(c, "Connected") /\ "Connected" \in Events
      /\ UNCHANGED <<client, created, paired, started, reconnecting, loggedOut, pc, using, attempt>>
  BY DEF Inv, Live, Authenticated, Events, flags
<1>2. /\ events' \in [Clients -> Seq(Events)]
      /\ \A d \in Clients : Len(events'[d]) <= MaxPending
      /\ events[c] \in Seq(Events) /\ events'[c] = Append(events[c], "Connected")
      /\ \A d \in Clients : d # c => events'[d] = events[d]
  BY <1>1, EmitFacts
<1>3. /\ conn' \in [Clients -> ConnStates] /\ conn'[c] = "up"
      /\ \A d \in Clients : d # c => conn'[d] = conn[d]
  BY <1>1 DEF Typed, TypeOK, ConnStates
<1>4. Typed'
  BY <1>1, <1>2, <1>3, EventTyped DEF Typed, TypeOK
<1>5. /\ \A x : Has(events'[c], x) <=> Has(events[c], x) \/ x = "Connected"
      /\ ~Has(events[c], "Disconnected") => BeforeLoss(events'[c])
  BY <1>1, <1>2, AppendFacts
<1>6. /\ Current(c) /\ \A q \in Actors : ~Active(q)
      /\ \A d \in Clients : ~Lost(d) /\ ~Out(d) /\ (Live(d) \/ Won(d) => d = c)
  BY <1>1 DEF Inv, OneActor, OneLive
<1>7. /\ \A d \in Clients : ~Lost(d)' /\ ~Out(d)' /\ (Live(d)' \/ Won(d)' => d = c)
      /\ Current(c)' /\ \A q \in Actors : ~Active(q)'
  BY <1>1, <1>2, <1>3, <1>5, <1>6 DEF Lost, Out, Live, Won, Current, Active
<1>8. BeforeLoss(events'[c])
  BY <1>5, <1>6 DEF Lost
<1>9. OneActor' /\ OneLive' /\ OneLoss'
  BY <1>7 DEF OneActor, OneLive, OneLoss
<1>10. Owed'
  BY <1>3, <1>7 DEF Owed
<1>11. Released'
  BY <1>7, <1>8 DEF Released, Live
<1>12. ~ClientDropped'
  BY <1>1, <1>3, <1>6 DEF ClientDropped, Current, Typed, TypeOK, Inv, Live, None
<1>13. Handled' /\ StartsFresh'
  BY <1>7, <1>12, Constants DEF Handled, StartsFresh
<1>14. QED BY <1>4, <1>9, <1>10, <1>11, <1>13 DEF Inv

LEMMA DroppedInv ==
  ASSUME Undisturbed, Inv, NEW c \in Clients, Dropped(c)
  PROVE  Inv'
<1>1. /\ Typed /\ conn[c] = "up" /\ Live(c) /\ conn' = [conn EXCEPT ![c] = "dropped"]
      /\ Emit(c, "Disconnected") /\ "Disconnected" \in Events
      /\ UNCHANGED <<client, created, paired, started, reconnecting, loggedOut, pc, using, attempt>>
  BY DEF Inv, Live, Dropped, Events, flags, Undisturbed
<1>2. /\ events' \in [Clients -> Seq(Events)]
      /\ \A d \in Clients : Len(events'[d]) <= MaxPending
      /\ events[c] \in Seq(Events) /\ events'[c] = Append(events[c], "Disconnected")
      /\ \A d \in Clients : d # c => events'[d] = events[d]
  BY <1>1, EmitFacts
<1>3. /\ conn' \in [Clients -> ConnStates] /\ conn'[c] = "dropped"
      /\ \A d \in Clients : d # c => conn'[d] = conn[d]
  BY <1>1 DEF Typed, TypeOK, ConnStates
<1>4. Typed'
  <2>1. \A d \in Clients : d > created => conn'[d] = "idle"
    BY <1>1, <1>3 DEF Typed
  <2>2. QED BY <1>1, <1>2, <1>3, <2>1, EventTyped DEF Typed, TypeOK
<1>5. /\ \A x : Has(events'[c], x) <=> Has(events[c], x) \/ x = "Disconnected"
      /\ ~Has(events[c], "Disconnected") => LossIsLast(events'[c])
      /\ BeforeLoss(events[c]) => BeforeLoss(events'[c])
  BY <1>1, <1>2, AppendFacts
<1>6. /\ Current(c) /\ \A q \in Actors : ~Active(q)
      /\ \A d \in Clients : ~Lost(d) /\ ~Out(d) /\ (Live(d) \/ Won(d) => d = c)
  BY <1>1 DEF Inv, OneActor, OneLive
<1>7. /\ \A d \in Clients : ~Live(d)' /\ ~Out(d)' /\ (Lost(d)' \/ Won(d)' => d = c)
      /\ Current(c)' /\ Lost(c)' /\ \A q \in Actors : ~Active(q)'
  BY <1>1, <1>2, <1>3, <1>5, <1>6 DEF Lost, Out, Live, Won, Current, Active
<1>8. LossIsLast(events'[c])
  BY <1>5, <1>6 DEF Lost
<1>9. OneActor' /\ OneLive' /\ OneLoss'
  BY <1>7, <1>8 DEF OneActor, OneLive, OneLoss
<1>10. Owed'
  BY <1>7 DEF Owed
<1>11. Released'
  <2>1. reconnecting \/ (loggedOut /\ c = client) => BeforeLoss(events[c])
    BY <1>1 DEF Inv, Released
  <2>2. QED BY <1>1, <1>5, <1>7, <2>1 DEF Released, Live
<1>12. Handled'
  <2>1. client \in {None, c} /\ \A r \in Reconnectors : pc'[r] # "abort"
    BY <1>6, <1>7, Constants DEF Current, Active
  <2>2. ~Active("startup")'
    BY <1>7, Constants
  <2>3. ClientDropped' => client' = c
    BY <1>1, <2>1 DEF ClientDropped
  <2>4. QED BY <1>7, <2>1, <2>2, <2>3 DEF Handled
<1>13. StartsFresh'
  BY <1>7, Constants DEF StartsFresh
<1>14. QED BY <1>4, <1>9, <1>10, <1>11, <1>12, <1>13 DEF Inv

LEMMA RemoteLogoutInv ==
  ASSUME Inv, NEW c \in Clients, RemoteLogout(c)
  PROVE  Inv'
<1>1. /\ Typed /\ conn[c] = "up" /\ Live(c) /\ conn' = [conn EXCEPT ![c] = "closed"]
      /\ Emit(c, "LoggedOut") /\ "LoggedOut" \in Events /\ paired' \in BOOLEAN
      /\ UNCHANGED <<client, created, started, reconnecting, loggedOut, pc, using, attempt>>
  BY DEF Inv, Live, RemoteLogout, Events, flags
<1>2. /\ events' \in [Clients -> Seq(Events)]
      /\ \A d \in Clients : Len(events'[d]) <= MaxPending
      /\ events[c] \in Seq(Events) /\ events'[c] = Append(events[c], "LoggedOut")
      /\ \A d \in Clients : d # c => events'[d] = events[d]
  BY <1>1, EmitFacts
<1>3. /\ conn' \in [Clients -> ConnStates] /\ conn'[c] = "closed"
      /\ \A d \in Clients : d # c => conn'[d] = conn[d]
  BY <1>1 DEF Typed, TypeOK, ConnStates
<1>4. Typed'
  <2>1. \A d \in Clients : d > created => conn'[d] = "idle"
    BY <1>1, <1>3 DEF Typed
  <2>2. QED BY <1>1, <1>2, <1>3, <2>1, EventTyped DEF Typed, TypeOK
<1>5. \A x : Has(events'[c], x) <=> Has(events[c], x) \/ x = "LoggedOut"
  BY <1>1, <1>2, AppendFacts
<1>6. /\ Current(c) /\ \A q \in Actors : ~Active(q)
      /\ \A d \in Clients : ~Lost(d) /\ ~Out(d) /\ (Live(d) \/ Won(d) => d = c)
  BY <1>1 DEF Inv, OneActor, OneLive
<1>7. /\ \A d \in Clients : ~Live(d)' /\ ~Lost(d)' /\ (Out(d)' \/ Won(d)' => d = c)
      /\ Current(c)' /\ \A q \in Actors : ~Active(q)'
  BY <1>1, <1>2, <1>3, <1>5, <1>6 DEF Lost, Out, Live, Won, Current, Active
<1>8. OneActor' /\ OneLive' /\ OneLoss' /\ Released'
  BY <1>7 DEF OneActor, OneLive, OneLoss, Released, Live
<1>9. Owed'
  BY <1>3, <1>7 DEF Owed
<1>10. ~ClientDropped'
  BY <1>1, <1>3, <1>6 DEF ClientDropped, Current
<1>11. Handled' /\ StartsFresh'
  BY <1>7, <1>10, Constants DEF Handled, StartsFresh
<1>12. QED BY <1>4, <1>8, <1>9, <1>11 DEF Inv

LEMMA HandleConnectedInv ==
  ASSUME Inv, NEW c \in Clients, HandleConnected(c)
  PROVE  Inv'
<1>1. /\ Typed /\ Handles(c, "Connected") /\ "Connected" \in Events
      /\ ~reconnecting' /\ ~loggedOut' /\ {reconnecting', loggedOut'} \subseteq BOOLEAN
      /\ UNCHANGED <<client, created, conn, paired, started, pc, using, attempt>>
  BY DEF Inv, HandleConnected, Events
<1>2. /\ events' \in [Clients -> Seq(Events)]
      /\ \A d \in Clients : Len(events'[d]) <= MaxPending
      /\ events[c] \in Seq(Events) /\ events[c] # <<>> /\ Head(events[c]) = "Connected"
      /\ Has(events[c], "Connected") /\ events'[c] = Tail(events[c])
      /\ \A d \in Clients : d # c => events'[d] = events[d]
      /\ \A d \in Clients, x \in Events : Has(events'[d], x) => Has(events[d], x)
  BY <1>1, HandlesFacts
<1>3. Typed'
  BY <1>1, <1>2, EventTyped DEF Typed, TypeOK
<1>4. /\ \A x : Has(events[c], x) /\ "Connected" # x => Has(Tail(events[c]), x)
      /\ LossIsLast(events[c]) => LossIsLast(Tail(events[c]))
  BY <1>2, TailFacts
<1>5. \A d \in Clients : /\ (Won(d)' => Won(d)) /\ (Lost(d)' <=> Lost(d)) /\ (Out(d)' => Out(d))
                         /\ (Live(d)' <=> Live(d)) /\ (Current(d)' <=> Current(d))
  <2>1. \A d \in Clients : (Won(d)' => Won(d)) /\ (Lost(d)' => Lost(d)) /\ (Out(d)' => Out(d))
    BY <1>2 DEF Won, Lost, Out, Events
  <2>2. \A d \in Clients : Lost(d) => Lost(d)'
    BY <1>2, <1>4 DEF Lost
  <2>3. \A d \in Clients : (Live(d)' <=> Live(d)) /\ (Current(d)' <=> Current(d))
    <3>1. client' = client /\ conn' = conn
      BY <1>1
    <3>2. QED BY <3>1 DEF Live, Current
  <2>4. QED BY <2>1, <2>2, <2>3
<1>6. \A q \in Actors : ~Active(q)
  BY <1>2 DEF Inv, OneActor, Won
<1>7. \A q \in Actors : ~Active(q)'
  BY <1>1, <1>6 DEF Active
<1>8. OneActor' /\ StartsFresh'
  BY <1>7, Constants DEF OneActor, StartsFresh
<1>9. OneLive'
  BY <1>5 DEF Inv, OneLive
<1>10. OneLoss'
  <2>1. \A d \in Clients : LossIsLast(events[d]) => LossIsLast(events'[d])
    BY <1>2, <1>4
  <2>2. QED BY <1>5, <2>1 DEF Inv, OneLoss
<1>11. Owed'
  BY <1>1, <1>5 DEF Inv, Owed
<1>12. Released'
  BY <1>1 DEF Released
<1>13. Handled'
  <2> SUFFICES ASSUME ClientDropped', started'
               PROVE  /\ \A r \in Reconnectors : pc'[r] # "abort"
                      /\ Lost(client)' \/ \E r \in Reconnectors : pc'[r] # "off"
    BY <1>1, <1>7, Constants DEF Handled
  <2>1. ClientDropped /\ client \in Clients /\ client' = client /\ started
    BY <1>1 DEF ClientDropped, Typed, TypeOK
  <2>2. Lost(client)' <=> Lost(client)
    BY <1>5, <2>1 DEF Lost
  <2>3. QED BY <1>1, <2>1, <2>2 DEF Inv, Handled
<1>14. QED BY <1>3, <1>8, <1>9, <1>10, <1>11, <1>12, <1>13 DEF Inv

LEMMA HandleDisconnectedInv ==
  ASSUME Inv, NEW c \in Clients, HandleDisconnected(c)
  PROVE  Inv'
<1>1. /\ Typed /\ Handles(c, "Disconnected") /\ "Disconnected" \in Events
      /\ UNCHANGED <<client, created, conn, paired, started, loggedOut, using>>
  BY DEF Inv, HandleDisconnected, Events
<1>2. /\ events' \in [Clients -> Seq(Events)]
      /\ \A d \in Clients : Len(events'[d]) <= MaxPending
      /\ events[c] \in Seq(Events) /\ events[c] # <<>> /\ Head(events[c]) = "Disconnected"
      /\ Has(events[c], "Disconnected") /\ events'[c] = Tail(events[c])
      /\ \A d \in Clients : d # c => events'[d] = events[d]
      /\ \A d \in Clients, x \in Events : Has(events'[d], x) => Has(events[d], x)
  BY <1>1, HandlesFacts
<1>3. /\ LossIsLast(events[c]) => \A x : ~Has(Tail(events[c]), x)
      /\ ~BeforeLoss(events[c])
  BY <1>2, TailFacts
<1>4. /\ Lost(c) /\ Current(c) /\ LossIsLast(events[c])
      /\ \A d \in Clients : ~Out(d) /\ ~Live(d) /\ (Lost(d) \/ Won(d) => d = c)
      /\ \A q \in Actors : ~Active(q)
  BY <1>2 DEF Inv, OneActor, OneLive, OneLoss, Lost
<1>5. \A d \in Clients : ~Won(d)' /\ ~Lost(d)' /\ ~Out(d)' /\ ~Live(d)' /\ conn'[d] # "up"
  BY <1>1, <1>2, <1>3, <1>4 DEF Won, Lost, Out, Live, Events
<1>6. OneLive' /\ OneLoss' /\ Owed' /\ Released'
  BY <1>5 DEF OneLive, OneLoss, Owed, Released
<1>7. ~reconnecting /\ ~(loggedOut /\ c = client)
  BY <1>3, <1>4 DEF Inv, Released
<1>8. client \in {None, c}
  BY <1>4, Constants DEF Current
<1>9. CASE ShouldReconnect
  <2>1. /\ reconnecting' = TRUE /\ ~loggedOut
        /\ \E r \in Reconnectors : Goto(r, "check") /\ attempt' = [attempt EXCEPT ![r] = 1]
    BY <1>9 DEF HandleDisconnected, ShouldReconnect
  <2>2. PICK r \in Reconnectors : Goto(r, "check") /\ attempt' = [attempt EXCEPT ![r] = 1]
    BY <2>1
  <2>3. "check" \in StepsOf(r) /\ r \in Places /\ r \in Actors /\ r # "startup"
    BY Constants DEF StepsOf
  <2>4. /\ pc' = [q \in Places |-> pc'[q]] /\ pc'[r] = "check"
        /\ \A q \in Places : q # r => pc'[q] = pc[q]
        /\ \A q \in Places : pc'[q] \in StepsOf(q)
    BY <1>1, <2>2, <2>3, GotoFacts
  <2>5. Typed'
    <3>1. /\ \A q \in Reconnectors :
               pc'[q] \in LoginSteps \cup {"off", "check", "wait", "recheck", "abort",
                                           "release", "exhausted"}
          /\ pc'["startup"] \in LoginSteps \cup {"off"}
          /\ pc'["manager"] \in {"off", "logout", "reset", "stopped"}
          /\ pc'["main"] \in {"running", "disconnect", "off"}
      BY <2>4, StepsFacts
    <3>2. attempt' \in [Reconnectors -> 1..MaxAttempts]
      BY <1>1, <2>2, Constants DEF Typed, TypeOK
    <3>3. \A d \in Clients : events'[d] \in Seq({"Connected", "Disconnected", "LoggedOut"})
      BY <1>2 DEF Events
    <3>4. TypeOK'
      BY <1>1, <1>2, <2>1, <3>1, <3>2, <3>3 DEF Typed, TypeOK
    <3>5. pc'["manager"] \notin LoginSteps
      BY <3>1 DEF LoginSteps
    <3>6. QED BY <1>1, <1>2, <2>4, <3>4, <3>5 DEF Typed
  <2>6. \A q \in Actors : Active(q)' => q = r
    BY <1>4, <2>4, Constants DEF Active
  <2>7. OneActor'
    BY <1>5, <2>4, <2>6 DEF OneActor
  <2>8. Handled'
    <3>1. \A q \in Reconnectors : pc'[q] # "abort"
      BY <2>4, <2>6, Constants DEF Active
    <3>2. ~Active("startup")'
      BY <2>3, <2>6, Constants
    <3>3. QED BY <1>1, <2>1, <2>4, <3>1, <3>2 DEF Handled
  <2>9. StartsFresh'
    BY <2>3, <2>6, Constants DEF StartsFresh
  <2>10. QED BY <1>6, <2>5, <2>7, <2>8, <2>9 DEF Inv
<1>10. CASE ~ShouldReconnect
  <2>1. UNCHANGED <<reconnecting, pc, attempt>>
    BY <1>10 DEF HandleDisconnected
  <2>2. Typed'
    BY <1>1, <1>2, <2>1, EventTyped DEF Typed, TypeOK
  <2>3. \A q \in Actors : ~Active(q)'
    BY <1>4, <2>1 DEF Active
  <2>4. OneActor' /\ StartsFresh'
    BY <2>3, Constants DEF OneActor, StartsFresh
  <2>5. ClientDropped' => client = c /\ client' = c
    BY <1>1, <1>8 DEF ClientDropped
  <2>6. ClientDropped' => ~loggedOut /\ ~started
    BY <1>7, <1>10, <2>5 DEF ShouldReconnect
  <2>7. Handled'
    BY <1>1, <2>3, <2>6, Constants DEF Handled
  <2>8. QED BY <1>6, <2>2, <2>4, <2>7 DEF Inv
<1>11. QED BY <1>9, <1>10

LEMMA HandleLoggedOutInv ==
  ASSUME Inv, NEW c \in Clients, HandleLoggedOut(c)
  PROVE  Inv'
<1>1. /\ Typed /\ Handles(c, "LoggedOut") /\ "LoggedOut" \in Events /\ loggedOut' = TRUE
      /\ UNCHANGED <<client, created, conn, paired, started, reconnecting, pc, using, attempt>>
  BY DEF Inv, HandleLoggedOut, Events
<1>2. /\ events' \in [Clients -> Seq(Events)]
      /\ \A d \in Clients : Len(events'[d]) <= MaxPending
      /\ Has(events[c], "LoggedOut")
      /\ \A d \in Clients, x \in Events : Has(events'[d], x) => Has(events[d], x)
  BY <1>1, HandlesFacts
<1>3. Typed'
  BY <1>1, <1>2, EventTyped DEF Typed, TypeOK
<1>4. /\ Out(c) /\ Current(c) /\ conn[c] = "closed" /\ \A q \in Actors : ~Active(q)
      /\ \A d \in Clients : ~Live(d) /\ ~Lost(d)
  BY <1>2 DEF Inv, OneActor, OneLive, OneLoss, Owed, Out
<1>5. /\ \A q \in Actors : ~Active(q)'
      /\ \A d \in Clients : /\ ~Live(d)' /\ ~Lost(d)' /\ conn'[d] # "up"
                            /\ (Won(d)' => Won(d)) /\ (Out(d)' => Out(d))
  BY <1>1, <1>2, <1>4 DEF Active, Live, Lost, Won, Out, Events
<1>6. OneActor' /\ OneLive' /\ OneLoss' /\ Released' /\ StartsFresh'
  BY <1>5, Constants DEF OneActor, OneLive, OneLoss, Released, StartsFresh
<1>7. Owed'
  <2>1. \A d \in Clients : Current(d)' = Current(d) /\ conn'[d] = conn[d]
    BY <1>1 DEF Current
  <2>2. QED BY <1>4, <1>5, <2>1 DEF Inv, Owed
<1>8. ~ClientDropped'
  BY <1>1, <1>4 DEF ClientDropped, Current
<1>9. Handled'
  BY <1>8 DEF Handled
<1>10. QED BY <1>3, <1>6, <1>7, <1>9 DEF Inv
------------------------------------------------------------------------------
(* Types need none of that: whatever is connected, lost or typed. *)
WellTyped ==
  /\ TypeOK
  /\ pc = [p \in Places |-> pc[p]] /\ events \in [Clients -> Seq(Events)]

AllSteps(p) ==
  IF p = "manager" THEN LoginSteps \cup {"off", "logout", "reset", "stopped"} ELSE StepsOf(p)

LEMMA GotoTyped ==
  ASSUME WellTyped, NEW p \in Places, NEW s \in AllSteps(p), Goto(p, s)
  PROVE  /\ pc' = [q \in Places |-> pc'[q]]
         /\ \A r \in Reconnectors :
              pc'[r] \in LoginSteps \cup {"off", "check", "wait", "recheck", "abort", "release",
                                         "exhausted"}
         /\ pc'["startup"] \in LoginSteps \cup {"off"}
         /\ pc'["manager"] \in LoginSteps \cup {"off", "logout", "reset", "stopped"}
         /\ pc'["main"] \in {"running", "disconnect", "off"}
<1>1. /\ pc' = [q \in Places |-> pc'[q]] /\ pc'[p] = s
      /\ \A q \in Places : q # p => pc'[q] = pc[q]
  BY DEF WellTyped, Goto
<1>2. \A q \in Places : pc[q] \in AllSteps(q)
  BY Constants DEF WellTyped, TypeOK, AllSteps, StepsOf, Places, Logins
<1>3. \A q \in Places : pc'[q] \in AllSteps(q)
  BY <1>1, <1>2
<1>4. "manager" \in Places /\ "main" \in Places /\ "startup" \in Places /\ Reconnectors \subseteq Places
  BY Constants
<1>5. QED BY <1>1, <1>3, <1>4, Constants DEF AllSteps, StepsOf

(* A login that fails, and one that ends. *)
LEMMA FailedTyped ==
  ASSUME WellTyped, NEW p \in Logins, LoginFailed(p)
  PROVE  \E s \in AllSteps(p) : Goto(p, s) /\ attempt' \in [Reconnectors -> 1..MaxAttempts]
<1>1. CASE p \notin Reconnectors
  BY <1>1, Constants DEF LoginFailed, AllSteps, StepsOf, WellTyped, TypeOK, Logins
<1>2. CASE p \in Reconnectors
  <2>1. attempt[p] \in 1..MaxAttempts /\ {"check", "release"} \subseteq AllSteps(p)
    BY <1>2, Constants DEF WellTyped, TypeOK, AllSteps, StepsOf
  <2>2. attempt[p] < MaxAttempts => attempt[p] + 1 \in 1..MaxAttempts
    BY <2>1, Constants
  <2>3. QED BY <1>2, <2>1, <2>2 DEF LoginFailed, WellTyped, TypeOK
<1>3. QED BY <1>1, <1>2

(* What a step leaves to show once places and queues are typed. *)
LEMMA MovesTyped ==
  ASSUME WellTyped, NEW p \in Places, NEW s \in AllSteps(p), Goto(p, s), UNCHANGED events,
         client' \in Clients \cup {None}, created' \in Clients, conn' \in [Clients -> ConnStates],
         {paired', started', reconnecting', loggedOut'} \subseteq BOOLEAN,
         using' \in [Logins -> Clients], attempt' \in [Reconnectors -> 1..MaxAttempts]
  PROVE  WellTyped'
BY GotoTyped DEF WellTyped, TypeOK

LEMMA ClosingTyped ==
  ASSUME WellTyped, NEW c
  PROVE  Disconnected(c) \in [Clients -> ConnStates]
BY DEF WellTyped, TypeOK, Disconnected, IsConnected, ConnStates

LEMMA LoginTyped ==
  ASSUME WellTyped, NEW p \in Logins, LoginStep(p) \/ Scan(p)
  PROVE  WellTyped'
<1>1. /\ p \in Places /\ using[p] \in Clients /\ client \in Clients \cup {None}
      /\ LoginSteps \subseteq AllSteps(p) /\ "off" \in AllSteps(p)
  BY Constants DEF WellTyped, TypeOK, Places, Logins, AllSteps, StepsOf
<1>2. CASE LoginClear(p)
  BY <1>1, <1>2, MovesTyped DEF LoginClear, flags, WellTyped, TypeOK, LoginSteps
<1>3. CASE GetConnection(p)
  <2>1. CASE client # None /\ using' = [using EXCEPT ![p] = client]
             /\ UNCHANGED <<client, created, attempt>>
             /\ Goto(p, IF pc[p] = "get" THEN "clean" ELSE "qr")
    BY <1>1, <1>3, <2>1, MovesTyped DEF GetConnection, flags, WellTyped, TypeOK, LoginSteps
  <2>2. CASE client = None /\ created < MaxClients
             /\ created' = created + 1 /\ client' = created + 1
             /\ using' = [using EXCEPT ![p] = created + 1] /\ UNCHANGED attempt
             /\ Goto(p, IF pc[p] = "get" THEN "clean" ELSE "qr")
    <3>1. created + 1 \in Clients
      BY <2>2, Constants DEF WellTyped, TypeOK, Clients
    <3>2. QED BY <1>1, <1>3, <2>2, <3>1, MovesTyped
                 DEF GetConnection, flags, WellTyped, TypeOK, LoginSteps
  <2>3. CASE client = None /\ LoginFailed(p) /\ UNCHANGED <<client, created, using>>
    BY <1>1, <1>3, <2>3, FailedTyped, MovesTyped DEF GetConnection, flags, WellTyped, TypeOK
  <2>4. QED BY <1>3, <2>1, <2>2, <2>3 DEF GetConnection
<1>4. CASE LoginClean(p)
  BY <1>1, <1>4, ClosingTyped, MovesTyped DEF LoginClean, flags, WellTyped, TypeOK, LoginSteps
<1>5. CASE Connect(p)
  <2>1. /\ [conn EXCEPT ![using[p]] = "open"] \in [Clients -> ConnStates]
        /\ UNCHANGED <<created, events, started, reconnecting, loggedOut, using>>
    BY <1>1, <1>5 DEF Connect, flags, WellTyped, TypeOK, ConnStates
  <2>2. CASE conn' = [conn EXCEPT ![using[p]] = "open"] /\ LoginOk(p) /\ UNCHANGED <<client, paired>>
    BY <1>1, <2>1, <2>2, MovesTyped DEF LoginOk, WellTyped, TypeOK
  <2>3. CASE LoginFailed(p) /\ UNCHANGED <<client, conn, paired>>
    BY <1>1, <2>1, <2>3, FailedTyped, MovesTyped DEF WellTyped, TypeOK
  <2>4. CASE paired' = FALSE /\ client' = None /\ Goto(p, "getNew") /\ UNCHANGED <<conn, attempt>>
    BY <1>1, <2>1, <2>4, MovesTyped DEF WellTyped, TypeOK, LoginSteps
  <2>5. QED BY <1>5, <2>2, <2>3, <2>4 DEF Connect
<1>6. CASE QRConnect(p)
  <2>1. /\ [conn EXCEPT ![using[p]] = "pairing"] \in [Clients -> ConnStates]
        /\ UNCHANGED <<client, created, events, paired, started, reconnecting, loggedOut, using>>
    BY <1>1, <1>6 DEF QRConnect, flags, WellTyped, TypeOK, ConnStates
  <2>2. CASE conn' = [conn EXCEPT ![using[p]] = "pairing"] /\ Goto(p, "scan") /\ UNCHANGED attempt
    BY <1>1, <2>1, <2>2, MovesTyped DEF WellTyped, TypeOK, LoginSteps
  <2>3. CASE LoginFailed(p) /\ UNCHANGED conn
    BY <1>1, <2>1, <2>3, FailedTyped, MovesTyped DEF WellTyped, TypeOK
  <2>4. QED BY <1>6, <2>2, <2>3 DEF QRConnect
<1>7. CASE Scan(p)
  <2>1. /\ [conn EXCEPT ![using[p]] = "open"] \in [Clients -> ConnStates]
        /\ UNCHANGED <<client, created, events, started, reconnecting, loggedOut, using>>
    BY <1>1, <1>7 DEF Scan, flags, WellTyped, TypeOK, ConnStates
  <2>2. CASE conn' = [conn EXCEPT ![using[p]] = "open"] /\ paired' = TRUE /\ LoginOk(p)
    BY <1>1, <2>1, <2>2, MovesTyped DEF LoginOk, WellTyped, TypeOK
  <2>3. CASE LoginFailed(p) /\ UNCHANGED <<conn, paired>>
    BY <1>1, <2>1, <2>3, FailedTyped, MovesTyped DEF WellTyped, TypeOK
  <2>4. QED BY <1>7, <2>2, <2>3 DEF Scan
<1>8. QED BY <1>2, <1>3, <1>4, <1>5, <1>6, <1>7 DEF LoginStep

LEMMA ReconnectTyped ==
  ASSUME WellTyped, NEW r \in Reconnectors, ReconnectStep(r)
  PROVE  WellTyped'
<1>1. r \in Places /\ {"abort", "wait", "recheck", "clear", "off", "exhausted"} \subseteq AllSteps(r)
  BY Constants DEF AllSteps, StepsOf, LoginSteps
<1>2. \E s \in AllSteps(r) : Goto(r, s)
  BY <1>1 DEF ReconnectStep, CheckBeforeWait, BackoffEnds, CheckAfterWait, ReleaseFlag
<1>3. /\ UNCHANGED <<client, created, conn, events, paired, started, loggedOut, using, attempt>>
      /\ reconnecting' \in BOOLEAN
  BY DEF ReconnectStep, CheckBeforeWait, BackoffEnds, CheckAfterWait, ReleaseFlag, flags,
         WellTyped, TypeOK
<1>4. QED BY <1>1, <1>2, <1>3, MovesTyped DEF WellTyped, TypeOK

LEMMA ConnectionTyped ==
  ASSUME WellTyped, NEW c \in Clients,
         Authenticated(c) \/ Dropped(c) \/ SelfReconnect(c) \/ RemoteLogout(c) \/ HandleEvent(c)
  PROVE  WellTyped'
<1>1. UNCHANGED <<client, created, started, using>>
  BY DEF Authenticated, Dropped, SelfReconnect, RemoteLogout, HandleEvent, HandleConnected,
         HandleDisconnected, HandleLoggedOut, flags
<1>2. conn' \in [Clients -> ConnStates] /\ {paired', reconnecting', loggedOut'} \subseteq BOOLEAN
  BY DEF Authenticated, Dropped, SelfReconnect, RemoteLogout, HandleEvent, HandleConnected,
         HandleDisconnected, HandleLoggedOut, flags, WellTyped, TypeOK, ConnStates
<1>3. /\ events' \in [Clients -> Seq(Events)]
      /\ \A d \in Clients : Len(events'[d]) <= MaxPending
  <2>1. events \in [Clients -> Seq(Events)] /\ \A d \in Clients : Len(events[d]) <= MaxPending
    BY DEF WellTyped, TypeOK
  <2>2. CASE \E e \in Events : Emit(c, e)
    <3>1. PICK e \in Events : Emit(c, e)
      BY <2>2
    <3>2. Append(events[c], e) \in Seq(Events) /\ Len(Append(events[c], e)) = Len(events[c]) + 1
      BY <2>1, AppendFacts
    <3>3. Len(events[c]) \in Nat /\ Len(events[c]) < MaxPending
      BY <2>1, <3>1 DEF Emit
    <3>4. Len(Append(events[c], e)) <= MaxPending
      BY <3>2, <3>3, Constants
    <3>5. QED BY <2>1, <3>1, <3>2, <3>4 DEF Emit
  <2>3. CASE \E e \in Events : Handles(c, e)
    <3>1. events[c] \in Seq(Events) /\ events[c] # <<>> /\ events' = [events EXCEPT ![c] = Tail(@)]
      BY <2>1, <2>3 DEF Handles
    <3>2. /\ Tail(events[c]) \in Seq(Events) /\ Len(Tail(events[c])) = Len(events[c]) - 1
          /\ Len(events[c]) \in Nat \ {0}
      BY <3>1, TailFacts
    <3>3. Len(Tail(events[c])) <= MaxPending
      BY <2>1, <3>2, Constants
    <3>4. QED BY <2>1, <3>1, <3>2, <3>3
  <2>4. CASE UNCHANGED events
    BY <2>1, <2>4
  <2>5. QED BY <2>2, <2>3, <2>4 DEF Authenticated, Dropped, SelfReconnect, RemoteLogout, HandleEvent,
               HandleConnected, HandleDisconnected, HandleLoggedOut, Events
<1>4. \A d \in Clients : events'[d] \in Seq({"Connected", "Disconnected", "LoggedOut"})
  BY <1>3 DEF Events
<1>5. CASE UNCHANGED <<pc, attempt>>
  BY <1>1, <1>2, <1>3, <1>4, <1>5 DEF WellTyped, TypeOK
<1>6. CASE \E r \in Reconnectors : Goto(r, "check") /\ attempt' = [attempt EXCEPT ![r] = 1]
  <2>1. PICK r \in Reconnectors : Goto(r, "check") /\ attempt' = [attempt EXCEPT ![r] = 1]
    BY <1>6
  <2>2. "check" \in AllSteps(r) /\ r \in Places
    BY Constants DEF AllSteps, StepsOf
  <2>3. attempt' \in [Reconnectors -> 1..MaxAttempts]
    BY <2>1, Constants DEF WellTyped, TypeOK
  <2>4. QED BY <1>1, <1>2, <1>3, <1>4, <2>1, <2>2, <2>3, GotoTyped DEF WellTyped, TypeOK
<1>7. QED BY <1>5, <1>6 DEF Authenticated, Dropped, SelfReconnect, RemoteLogout, HandleEvent,
             HandleConnected, HandleDisconnected, HandleLoggedOut

LEMMA CommandTyped ==
  ASSUME WellTyped, ManagerStep \/ Shutdown \/ ShutdownDisconnects
  PROVE  WellTyped'
<1>1. /\ UNCHANGED <<created, events, reconnecting, attempt>>
      /\ client' \in {client, None}
      /\ {paired', started', loggedOut'} \subseteq BOOLEAN
  BY DEF ManagerStep, CmdConnect, CmdDisconnect, CmdLogout, FinishLogout, CmdReset, FinishReset,
         ManagerStops, Shutdown, ShutdownDisconnects, StopDisconnects, DeleteDevice, flags,
         WellTyped, TypeOK
<1>2. conn' \in [Clients -> ConnStates]
  BY ClosingTyped DEF ManagerStep, CmdConnect, CmdDisconnect, CmdLogout, FinishLogout, CmdReset,
         FinishReset, ManagerStops, Shutdown, ShutdownDisconnects, StopDisconnects, WellTyped, TypeOK
<1>3. using' \in [Logins -> Clients]
  BY DEF ManagerStep, CmdConnect, CmdDisconnect, CmdLogout, FinishLogout, CmdReset, FinishReset,
         ManagerStops, Shutdown, ShutdownDisconnects, StopDisconnects, WellTyped, TypeOK
<1>4. CASE UNCHANGED pc
  BY <1>1, <1>2, <1>3, <1>4 DEF WellTyped, TypeOK
<1>5. CASE \E p \in {"manager", "main"} : \E s \in AllSteps(p) : Goto(p, s)
  BY <1>1, <1>2, <1>3, <1>5, MovesTyped, Constants DEF WellTyped, TypeOK
<1>6. /\ {"clear", "off", "logout", "reset", "stopped"} \subseteq AllSteps("manager")
      /\ {"disconnect", "off"} \subseteq AllSteps("main")
  BY Constants DEF AllSteps, StepsOf, LoginSteps
<1>7. QED BY <1>4, <1>5, <1>6 DEF ManagerStep, CmdConnect, CmdDisconnect, CmdLogout, FinishLogout,
             CmdReset, FinishReset, ManagerStops, Shutdown, ShutdownDisconnects, StopDisconnects

(* Session flags, connections, events and the places of the goroutines     *)
(* keep their types, whatever the network, whatsmeow and the user do: a    *)
(* login works with a client there is, an attempt is one of those allowed. *)
THEOREM TypeCorrect == Spec => []TypeOK
<1>1. Init => WellTyped
  BY InitInv DEF Inv, Typed, WellTyped
<1>2. WellTyped /\ [Next]_vars => WellTyped'
  <2> SUFFICES ASSUME WellTyped, [Next]_vars PROVE WellTyped'
    OBVIOUS
  <2>1. CASE UNCHANGED vars
    BY <2>1 DEF vars, WellTyped, TypeOK
  <2>2. CASE Next
    BY <2>2, LoginTyped, ReconnectTyped, ConnectionTyped, CommandTyped DEF Next
  <2>3. QED BY <2>1, <2>2
<1>3. WellTyped => TypeOK
  BY DEF WellTyped
<1>4. QED BY <1>1, <1>2, <1>3, PTL DEF Spec
------------------------------------------------------------------------------
LEMMA StepInv ==
  ASSUME Undisturbed, Inv, [Next]_vars
  PROVE  Inv'
<1>1. ASSUME NEW p \in Logins, LoginStep(p) \/ Scan(p) PROVE Inv'
  <2>1. pc[p] \in LoginSteps
    BY <1>1 DEF LoginStep, LoginClear, GetConnection, LoginClean, Connect, QRConnect, Scan,
       LoginSteps
  <2>2. p \in Actors
    BY <2>1 DEF Inv, Typed, Logins, Actors
  <2>3. QED BY <1>1, <2>2, ClearInv, GetInv, CleanInv, ConnectInv, QRInv, ScanInv DEF LoginStep
<1>2. ASSUME NEW r \in Reconnectors, ReconnectStep(r) PROVE Inv'
  BY <1>2, ReconnectStepInv
<1>3. ASSUME NEW c \in Clients, Authenticated(c) \/ Dropped(c) \/ SelfReconnect(c) \/ RemoteLogout(c)
      PROVE  Inv'
  <2>1. ~SelfReconnect(c)
    BY DEF SelfReconnect, Undisturbed
  <2>2. QED BY <1>3, <2>1, AuthenticatedInv, DroppedInv, RemoteLogoutInv
<1>4. ASSUME NEW c \in Clients, HandleEvent(c) PROVE Inv'
  BY <1>4, HandleConnectedInv, HandleDisconnectedInv, HandleLoggedOutInv DEF HandleEvent
<1>5. ASSUME ManagerStep PROVE Inv'
  <2>1. ~CmdConnect
    BY DEF CmdConnect, Command, Undisturbed
  <2>2. QED BY <1>5, <2>1, DisconnectInv, LogoutInv, FinishLogoutInv, ResetInv, FinishResetInv,
          StopInv DEF ManagerStep
<1>6. CASE UNCHANGED vars
  <2>1. Typed'
    BY <1>6 DEF vars, Inv, Typed, TypeOK
  <2>2. UNCHANGED <<events, reconnecting, loggedOut, started, client, conn, pc, using>>
    BY <1>6 DEF vars
  <2>3. QED BY <2>1, <2>2, CommandMoves
<1>7. QED BY <1>1, <1>2, <1>3, <1>4, <1>5, <1>6, ShutdownInv, StopInv DEF Next

LEMMA Invariant == ASSUME Undisturbed PROVE Spec => []Inv
<1>1. Inv /\ [Next]_vars => Inv'
  BY StepInv
<1>2. QED BY InitInv, <1>1, PTL DEF Spec

(* connection.go, scheduleReconnect: whatever the user types and the       *)
(* network does, one goroutine at most is reconnecting.                    *)
THEOREM OneGoroutine == ASSUME Undisturbed PROVE Spec => []OneReconnector
<1>1. Inv => OneReconnector
  <2> SUFFICES ASSUME Inv PROVE OneReconnector
    OBVIOUS
  <2>1. \A q, r \in Reconnectors : Reconnecting(q) /\ Reconnecting(r) => q = r
    BY Constants DEF Inv, OneActor, Active, Reconnecting
  <2> DEFINE S == {r \in Reconnectors : Reconnecting(r)}
  <2>2. CASE S = {}
    BY <2>2, FS_EmptySet DEF OneReconnector
  <2>3. CASE S # {}
    <3>1. PICK r : S = {r}
      BY <2>1, <2>3
    <3>2. QED BY <3>1, FS_Singleton DEF OneReconnector
  <2>4. QED BY <2>2, <2>3
<1>2. QED BY <1>1, Invariant, PTL

(* connection.go, loginWithConnection: two clients are never connected     *)
(* with our credentials at once.                                           *)
THEOREM OneSession == ASSUME Undisturbed PROVE Spec => []OneLiveClient
<1>1. Inv => OneLiveClient
  <2> SUFFICES ASSUME Inv PROVE OneLiveClient
    OBVIOUS
  <2>1. \A c, d \in Clients : Live(c) /\ Live(d) => c = d
    BY DEF Inv, OneLive
  <2> DEFINE S == {c \in Clients : conn[c] \in {"open", "up"}}
  <2>2. CASE S = {}
    BY <2>2, FS_EmptySet DEF OneLiveClient
  <2>3. CASE S # {}
    <3>1. PICK c : c \in S
      BY <2>3
    <3>2. \A d \in S : d = c
      BY <2>1, <3>1 DEF Live
    <3>3. S = {c}
      BY <3>1, <3>2
    <3>4. Cardinality(S) = 1
      BY <3>3, FS_Singleton
    <3>5. QED BY <3>4 DEF OneLiveClient
  <2>4. QED BY <2>2, <2>3
<1>2. QED BY <1>1, Invariant, PTL

(* event_handler.go, handleDisconnected: a lost connection is being        *)
(* repaired, or every attempt has been used up, once its event is handled. *)
THEOREM NoLossForgotten == ASSUME Undisturbed PROVE Spec => []LossIsHandled
<1>1. Inv => LossIsHandled
  <2> SUFFICES ASSUME Inv, NEW c \in Clients, conn[c] = "dropped", c = client,
                      events[c] = <<>>, started
               PROVE  \E r \in Reconnectors : pc[r] # "off"
    BY DEF LossIsHandled
  <2>1. ClientDropped /\ ~Lost(c)
    BY Constants DEF ClientDropped, Lost, Has
  <2>2. QED BY <2>1 DEF Inv, Handled
<1>2. QED BY <1>1, Invariant, PTL
==============================================================================
