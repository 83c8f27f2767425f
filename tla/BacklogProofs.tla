---------------------------- MODULE BacklogProofs ----------------------------
(***************************************************************************)
(* Proofs about Backlog for any phone, number of requests, of answers in   *)
(* progress, and size of an answer and of a page.  Filling says why a kill *)
(* or a second answer leaves no hole: what an answer has still to store    *)
(* reaches up to what is stored.  OneAddress is about chats that keep      *)
(* theirs: whoever still has to lower the anchor remembers how far.        *)
(***************************************************************************)
EXTENDS Backlog, WellFoundedInduction, FiniteSetTheorems, TLAPS

ReqTypes == {Idle} \cup [at: {"send", "poll"}, chat: Forms, oldest: Messages, before: Messages]

HistTypes ==
  {Idle} \cup [at: {"store", "move", "lower"}, before: Messages, todo: SUBSET Messages,
               jid: Forms, chat: Forms \cup {"none"}, oldest: 1..Infinity]

Typed == TypeOK /\ req \in [Requests -> ReqTypes] /\ hist \in [Histories -> HistTypes]

(* Whatever is asked for lies just before a message that is stored. *)
Anchored ==
  /\ \A a \in phone : rows[a] # "none"
  /\ \A r \in Requests : req[r] # Idle => rows[req[r].oldest] # "none"
  /\ \A h \in Histories : hist[h] # Idle => rows[hist[h].before] # "none"

Filling ==
  run # "closed" =>
    \A h \in Histories : hist[h].at = "store" =>
      \A m \in hist[h].todo, k \in Messages :
        m <= k /\ k <= newest /\ HasText(k) => rows[k] # "none" \/ k \in hist[h].todo

(* A number's chat has one address, and the view is as low as what was     *)
(* brought, but for the answers that have yet to lower it.                 *)
OneAddress ==
  form = "pn" =>
    /\ current # "lid" /\ \A m \in Messages : rows[m] # "lid"
    /\ \A h \in Histories : hist[h] # Idle =>
         /\ hist[h].jid = "pn" /\ hist[h].chat # "lid"
         /\ hist[h].chat # "none" => current = "pn"
    /\ anchor > brought =>
         \E h \in Histories :
           hist[h] # Idle /\ hist[h].chat = "pn" /\ hist[h].oldest <= brought

Inv == Typed /\ Anchored /\ NoHole /\ Filling /\ OneAddress /\ ShutdownIsQuiet
------------------------------------------------------------------------------
(* Least and greatest numbers of a set, and the page OpenAnchor begins.    *)
Earlier == {p \in Nat \X Nat : p[1] < p[2]}

LEMMA EarlierIsWellFounded == IsWellFoundedOn(Earlier, Nat)
BY NatLessThanWellFounded DEF OpToRel, Earlier

LEMMA MinFacts ==
  ASSUME NEW S, S \subseteq Nat, S # {}
  PROVE  Min(S) \in S /\ \A y \in S : Min(S) <= y
<1>1. PICK x \in S : \A y \in S : <<y, x>> \notin Earlier
  BY EarlierIsWellFounded, WFMin
<1>2. \A y \in S : <<y, x>> \in Nat \X Nat
  OBVIOUS
<1>3. \A y \in S : x \in Nat /\ y \in Nat /\ ~(y < x)
  BY <1>1, <1>2 DEF Earlier
<1>4. \A y \in S : x <= y
  BY <1>3
<1>5. QED BY <1>4 DEF Min

LEMMA MaxFacts ==
  ASSUME NEW n \in Nat, NEW S, S \subseteq 0..n, S # {}
  PROVE  Max(S) \in S /\ \A y \in S : Max(S) >= y
<1> DEFINE D == {n - x : x \in S}
<1>0. \A x \in S : x \in Nat /\ n - x \in Nat
  OBVIOUS
<1>1. D \subseteq Nat /\ D # {}
  BY <1>0
<1>2. Min(D) \in D /\ \A y \in D : Min(D) <= y
  <2> HIDE DEF D
  <2> QED BY <1>1, MinFacts
<1>3. PICK x \in S : Min(D) = n - x
  BY <1>2
<1>4. \A y \in S : x >= y
  <2> SUFFICES ASSUME NEW y \in S PROVE x >= y
    OBVIOUS
  <2>1. n - y \in D
    OBVIOUS
  <2>2. n - x <= n - y
    BY <2>1, <1>2, <1>3
  <2> QED BY <2>2
<1>5. QED BY <1>4 DEF Max

LEMMA UnderIsFinite ==
  ASSUME NEW S, S \subseteq Messages
  PROVE  IsFiniteSet(S) /\ Cardinality(S) \in Nat /\ Cardinality(S) <= MaxNewest
<1>1. MaxNewest \in Nat
  BY BacklogAssumption
<1>2. IsFiniteSet(Messages) /\ Cardinality(Messages) = MaxNewest
  BY <1>1, FS_Interval DEF Messages
<1>3. QED BY <1>1, <1>2, FS_Subset, FS_CardinalityType

Page(S, m) == {k \in S : k >= m}

LEMMA PageBegins ==
  ASSUME NEW S, S \subseteq Messages, Cardinality(S) >= PageSize
  PROVE  \E m \in S : Cardinality(Page(S, m)) = PageSize
<1> DEFINE T == {m \in 0..MaxNewest : Cardinality(Page(S, m)) >= PageSize}
           m == Max(T)
<1>0. MaxNewest \in Nat /\ PageSize \in Nat \ {0}
  BY BacklogAssumption
<1>a. \A k \in S : k \in Nat /\ k <= MaxNewest
  BY <1>0 DEF Messages
<1>1. \A x : Page(S, x) \subseteq Messages /\ Page(S, x) \subseteq S
  BY DEF Page
<1>2. Page(S, 0) = S
  BY <1>a DEF Page
<1>3. 0 \in T
  BY <1>2, <1>0
<1>4. m \in T /\ \A y \in T : m >= y
  <2>1. T \subseteq 0..MaxNewest
    OBVIOUS
  <2> HIDE DEF T
  <2> QED BY <2>1, <1>3, <1>0, MaxFacts
<1> HIDE DEF m
<1>5. m \in Nat
  BY <1>4
<1>6. IsFiniteSet(Page(S, m)) /\ Cardinality(Page(S, m)) \in Nat
      /\ Cardinality(Page(S, m + 1)) \in Nat
  BY <1>1, UnderIsFinite
<1>7. Cardinality(Page(S, m + 1)) < PageSize
  <2>1. CASE m + 1 \in 0..MaxNewest
    <3>1. m + 1 \notin T
      BY <1>4, <1>5
    <3>2. QED BY <3>1, <2>1, <1>6, <1>0
  <2>2. CASE m + 1 \notin 0..MaxNewest
    <3>1. Page(S, m + 1) = {}
      BY <2>2, <1>5, <1>a, <1>0 DEF Page
    <3>2. QED BY <3>1, <1>0, FS_EmptySet
  <2>3. QED BY <2>1, <2>2
<1>8. Page(S, m + 1) = Page(S, m) \ {m}
  BY <1>5, <1>a DEF Page
<1>9. Cardinality(Page(S, m + 1)) =
        IF m \in Page(S, m) THEN Cardinality(Page(S, m)) - 1 ELSE Cardinality(Page(S, m))
  BY <1>6, <1>8, FS_RemoveElement
<1>10. Cardinality(Page(S, m)) >= PageSize
  BY <1>4
<1>11. m \in Page(S, m) /\ Cardinality(Page(S, m)) = PageSize
  BY <1>6, <1>7, <1>9, <1>10, <1>0
<1>12. QED BY <1>11 DEF Page

LEMMA OpenAnchorType ==
  ASSUME NEW c
  PROVE  OpenAnchor(c) \in 0..MaxNewest
<1>0. MaxNewest \in Nat /\ PageSize \in Nat
  BY BacklogAssumption
<1>1. Under(c) \subseteq Messages /\ Cardinality(Under(c)) \in Nat
  BY UnderIsFinite DEF Under
<1>2. CASE Cardinality(Under(c)) < PageSize
  BY <1>0, <1>2 DEF OpenAnchor
<1>3. CASE Cardinality(Under(c)) >= PageSize
  <2>1. \E m \in Under(c) : Cardinality({k \in Under(c) : k >= m}) = PageSize
    BY <1>1, <1>3, PageBegins DEF Page
  <2>2. OpenAnchor(c) = CHOOSE m \in Under(c) : Cardinality({k \in Under(c) : k >= m}) = PageSize
    BY <1>0, <1>1, <1>3 DEF OpenAnchor
  <2>3. OpenAnchor(c) \in Under(c)
    BY <2>1, <2>2
  <2>4. QED BY <1>0, <1>1, <2>3 DEF Messages
<1>4. QED BY <1>0, <1>1, <1>2, <1>3

LEMMA Numbers ==
  /\ MaxNewest \in Nat \ {0} /\ Newest \in Messages /\ Stored \in Messages /\ Stored <= Newest
  /\ Infinity \in Nat /\ \A m \in Messages : m \in Nat /\ m \in 1..Infinity /\ m < Infinity
  /\ Quantity \in Nat
BY BacklogAssumption DEF Messages, Infinity

LEMMA AskedMessages ==
  ASSUME NEW c, Under(c) # {}
  PROVE  /\ OldestMessage(c) \in Messages /\ rows[OldestMessage(c)] = c
         /\ Cardinality(Under(c)) \in Messages
<1>1. Under(c) \subseteq Messages /\ Under(c) \subseteq Nat
  BY Numbers DEF Under
<1>2. OldestMessage(c) \in Under(c)
  BY <1>1, MinFacts DEF OldestMessage
<1>3. /\ IsFiniteSet(Under(c)) /\ Cardinality(Under(c)) \in Nat
      /\ Cardinality(Under(c)) <= MaxNewest
  BY <1>1, UnderIsFinite
<1>4. Cardinality(Under(c)) # 0
  BY <1>3, FS_EmptySet
<1>5. Cardinality(Under(c)) \in Messages
  BY <1>3, <1>4, Numbers DEF Messages
<1>6. QED BY <1>2, <1>5 DEF Under
------------------------------------------------------------------------------
LEMMA InitInv == Init => Inv
<1> SUFFICES ASSUME Init PROVE Inv
  OBVIOUS
<1>1. OpenAnchor(form) \in 0..MaxNewest
  BY OpenAnchorType
<1>2. rows \in [Messages -> Forms \cup {"none"}] /\ \A m \in Messages : rows[m] # "none" <=> m \in Stored..Newest
  BY Numbers DEF Init, Forms
<1>3. Typed
  <2>1. req \in [Requests -> ReqTypes] /\ hist \in [Histories -> HistTypes]
    BY DEF Init, ReqTypes, HistTypes
  <2>2. \A h \in Histories : hist[h].at \in {"idle", "store", "move", "lower"}
    BY DEF Init, Idle
  <2>3. \A r \in Requests : req[r] \in {Idle}
    BY DEF Init
  <2>4. /\ form \in Forms /\ current \in Forms \cup {"none"} /\ anchor \in 0..MaxNewest
        /\ brought \in 1..Infinity /\ newest \in Messages /\ restarts \in 0..MaxRestarts
    BY <1>1, Numbers, BacklogAssumption DEF Init, Infinity
  <2>5. QED BY <1>2, <2>1, <2>2, <2>3, <2>4 DEF Init, Typed, TypeOK
<1>4. Anchored /\ Filling /\ ShutdownIsQuiet
  BY DEF Init, Anchored, Filling, ShutdownIsQuiet, Idle
<1>5. NoHole
  BY <1>2, Numbers DEF Init, NoHole, Messages
<1>6. OneAddress
  <2>1. \A m \in Messages : rows[m] \in {form, "none"}
    BY DEF Init
  <2>2. ~(anchor > brought)
    BY <1>1, Numbers DEF Init, Infinity
  <2>3. QED BY <2>1, <2>2 DEF Init, OneAddress
<1>7. QED BY <1>3, <1>4, <1>5, <1>6 DEF Inv

LEMMA HistFacts ==
  ASSUME Typed, NEW h \in Histories, hist[h] # Idle
  PROVE  /\ hist[h] \in [at: {"store", "move", "lower"}, before: Messages, todo: SUBSET Messages,
                         jid: Forms, chat: Forms \cup {"none"}, oldest: 1..Infinity]
         /\ hist[h].at \in {"store", "move", "lower"} /\ hist[h].before \in Messages
         /\ hist[h].todo \subseteq Messages /\ hist[h].jid \in Forms
         /\ hist[h].chat \in Forms \cup {"none"} /\ hist[h].oldest \in 1..Infinity
BY DEF Typed, HistTypes

LEMMA IdleAt ==
  ASSUME Typed, NEW h \in Histories
  PROVE  hist[h].at = "idle" <=> hist[h] = Idle
BY DEF Typed, HistTypes, Idle

LEMMA LearnInv ==
  ASSUME Inv, Learn
  PROVE  Inv'
<1>1. Typed'
  BY DEF Inv, Typed, TypeOK, Learn, view
<1>2. Anchored'
  BY DEF Inv, Anchored, Learn
<1>3. NoHole'
  BY DEF Inv, NoHole, Learn
<1>4. Filling'
  BY DEF Inv, Filling, Learn
<1>5. OneAddress'
  BY DEF OneAddress, Learn
<1>6. ShutdownIsQuiet'
  BY DEF Inv, ShutdownIsQuiet, Learn
<1>7. QED BY <1>1, <1>2, <1>3, <1>4, <1>5, <1>6 DEF Inv

LEMMA OpenInv ==
  ASSUME Inv, NEW c \in Forms, Open(c)
  PROVE  Inv'
<1>1. Typed'
  <2>1. OpenAnchor(c) \in 0..MaxNewest /\ Infinity \in 1..Infinity
    BY OpenAnchorType, Numbers
  <2>2. QED BY <2>1 DEF Inv, Typed, TypeOK, Open, chat
<1>2. Anchored'
  BY DEF Inv, Anchored, Open
<1>3. NoHole'
  BY DEF Inv, NoHole, Open, chat
<1>4. Filling'
  BY DEF Inv, Filling, Open, chat
<1>5. OneAddress'
  <2>1. OpenAnchor(c) \in 0..MaxNewest /\ ~(OpenAnchor(c) > Infinity)
    BY OpenAnchorType, Numbers DEF Infinity
  <2>2. form = "pn" => c # "lid"
    BY DEF Inv, OneAddress, Open, Under
  <2>3. form = "pn" => \A h \in Histories : hist[h] # Idle => hist[h].chat = "none"
    BY DEF Inv, OneAddress, Open
  <2>4. QED BY <2>1, <2>2, <2>3 DEF Inv, OneAddress, Open, chat
<1>6. ShutdownIsQuiet'
  BY DEF Inv, ShutdownIsQuiet, Open
<1>7. QED BY <1>1, <1>2, <1>3, <1>4, <1>5, <1>6 DEF Inv

LEMMA AskInv ==
  ASSUME Inv, NEW r \in Requests, Ask(r)
  PROVE  Inv'
<1> DEFINE new == [at |-> "send", chat |-> current, oldest |-> OldestMessage(current),
                   before |-> Cardinality(Under(current))]
<1>0. current \in Forms /\ new \in ReqTypes /\ rows[new.oldest] # "none"
  <2>1. current \in Forms /\ current # "none"
    BY DEF Inv, Typed, TypeOK, Ask
  <2>2. /\ OldestMessage(current) \in Messages /\ rows[OldestMessage(current)] = current
        /\ Cardinality(Under(current)) \in Messages
    BY AskedMessages DEF Ask
  <2>3. QED BY <2>1, <2>2 DEF ReqTypes
<1>a. req' = [req EXCEPT ![r] = new]
  BY DEF Ask
<1> HIDE DEF new
<1>1. Typed'
  <2>1. req' \in [Requests -> ReqTypes]
    BY <1>0, <1>a DEF Inv, Typed
  <2>2. QED BY <2>1 DEF Inv, Typed, TypeOK, Ask, chat, view, ReqTypes
<1>2. Anchored'
  BY <1>0, <1>a DEF Inv, Typed, Anchored, Ask
<1>3. NoHole'
  BY DEF Inv, NoHole, Ask, chat
<1>4. Filling'
  BY DEF Inv, Filling, Ask, chat
<1>5. OneAddress'
  BY DEF Inv, OneAddress, Ask, chat, view
<1>6. ShutdownIsQuiet'
  BY DEF Inv, ShutdownIsQuiet, Ask
<1>7. QED BY <1>1, <1>2, <1>3, <1>4, <1>5, <1>6 DEF Inv

LEMMA SendInv ==
  ASSUME Inv, NEW r \in Requests, SendOk(r) \/ SendFails(r)
  PROVE  Inv'
<1>1. Typed'
  BY DEF Inv, Typed, TypeOK, SendOk, SendFails, chat, view, ReqTypes, Idle
<1>2. Anchored'
  BY DEF Inv, Typed, TypeOK, Anchored, SendOk, SendFails, Idle
<1>3. NoHole'
  BY DEF Inv, NoHole, SendOk, SendFails, chat
<1>4. Filling'
  BY DEF Inv, Filling, SendOk, SendFails, chat
<1>5. OneAddress'
  BY DEF Inv, OneAddress, SendOk, SendFails, chat, view
<1>6. ShutdownIsQuiet'
  BY DEF Inv, ShutdownIsQuiet, SendOk, SendFails
<1>7. QED BY <1>1, <1>2, <1>3, <1>4, <1>5, <1>6 DEF Inv

LEMMA PollInv ==
  ASSUME Inv, NEW r \in Requests, Poll(r)
  PROVE  Inv'
<1>1. Typed'
  BY DEF Inv, Typed, TypeOK, Poll, Report, chat, view, ReqTypes
<1>2. Anchored'
  BY DEF Inv, Anchored, Poll
<1>3. NoHole'
  BY DEF Inv, NoHole, Poll, chat
<1>4. Filling'
  BY DEF Inv, Filling, Poll, chat
<1>5. OneAddress'
  BY DEF Inv, OneAddress, Poll, chat, view
<1>6. ShutdownIsQuiet'
  BY DEF Inv, ShutdownIsQuiet, Poll, Running, Report
<1>7. QED BY <1>1, <1>2, <1>3, <1>4, <1>5, <1>6 DEF Inv

LEMMA LoseInv ==
  ASSUME Inv, NEW a \in phone, Lose(a)
  PROVE  Inv'
<1>1. Typed'
  BY DEF Inv, Typed, TypeOK, Lose, chat, view
<1>2. Anchored'
  BY DEF Inv, Anchored, Lose
<1>3. NoHole'
  BY DEF Inv, NoHole, Lose, chat
<1>4. Filling'
  BY DEF Inv, Filling, Lose, chat
<1>5. OneAddress'
  BY DEF Inv, OneAddress, Lose, chat, view
<1>6. ShutdownIsQuiet'
  BY DEF Inv, ShutdownIsQuiet, Lose
<1>7. QED BY <1>1, <1>2, <1>3, <1>4, <1>5, <1>6 DEF Inv

LEMMA ShutdownInv ==
  ASSUME Inv, Shutdown
  PROVE  Inv'
<1>1. Typed'
  BY DEF Inv, Typed, TypeOK, Shutdown, chat, view
<1>2. Anchored'
  BY DEF Inv, Anchored, Shutdown
<1>3. NoHole'
  BY DEF Inv, NoHole, Shutdown, chat
<1>4. Filling'
  BY DEF Inv, Filling, Shutdown, chat
<1>5. OneAddress'
  BY DEF Inv, OneAddress, Shutdown, chat, view
<1>6. ShutdownIsQuiet'
  BY DEF Inv, ShutdownIsQuiet, Shutdown
<1>7. QED BY <1>1, <1>2, <1>3, <1>4, <1>5, <1>6 DEF Inv

LEMMA ArriveInv ==
  ASSUME Inv, Arrive
  PROVE  Inv'
<1>0. /\ newest + 1 \in Messages /\ Canonical \in Forms /\ Canonical # "none"
      /\ form = "pn" => Canonical = "pn"
  BY Numbers DEF Inv, Typed, TypeOK, Arrive, Messages, Canonical, Forms
<1>a. rows' = [rows EXCEPT ![newest + 1] = Canonical] /\ newest' = newest + 1
  BY DEF Arrive
<1>b. \A m \in Messages : rows'[m] = IF m = newest + 1 THEN Canonical ELSE rows[m]
  BY <1>a DEF Inv, Typed, TypeOK
<1>c. \A m \in Messages : rows[m] # "none" => rows'[m] # "none"
  BY <1>b, <1>0
<1>d. newest \in Nat /\ \A k \in Messages : k \in Nat /\ (k <= newest + 1 => k <= newest \/ k = newest + 1)
  BY Numbers DEF Inv, Typed, TypeOK
<1>1. Typed'
  BY <1>0, <1>a DEF Inv, Typed, TypeOK, Arrive, view
<1>2. Anchored'
  <2>1. phone \subseteq Messages
        /\ (\A r \in Requests : req[r] # Idle => req[r].oldest \in Messages)
        /\ \A h \in Histories : hist[h] # Idle => hist[h].before \in Messages
    BY HistFacts DEF Inv, Typed, TypeOK, ReqTypes
  <2>2. QED BY <1>c, <2>1 DEF Inv, Anchored, Arrive
<1>3. NoHole'
  <2> SUFFICES ASSUME NEW m \in Messages, rows'[m] # "none",
                      NEW k \in m..newest', HasText(k)
               PROVE  rows'[k] # "none"
    BY DEF NoHole, HasText
  <2>1. k \in Messages /\ m <= k /\ k <= newest + 1
    BY <1>a, <1>0, <1>d, Numbers DEF Messages
  <2>2. CASE k = newest + 1
    BY <2>1, <2>2, <1>b, <1>0
  <2>3. CASE k <= newest
    <3>1. m # newest + 1 /\ k \in m..newest
      BY <2>1, <2>3, <1>d
    <3>2. rows[m] # "none"
      BY <3>1, <1>b
    <3>3. QED BY <2>1, <3>1, <3>2, <1>c DEF Inv, NoHole
  <2>4. QED BY <2>1, <2>2, <2>3, <1>d
<1>4. Filling'
  <2> SUFFICES ASSUME NEW h \in Histories, hist[h].at = "store",
                      NEW m \in hist[h].todo, NEW k \in Messages,
                      m <= k, k <= newest + 1, HasText(k)
               PROVE  rows'[k] # "none" \/ k \in hist[h].todo
    BY <1>a DEF Filling, HasText, Arrive
  <2>1. CASE k = newest + 1
    BY <2>1, <1>b, <1>0
  <2>2. CASE k <= newest
    BY <2>2, <1>c DEF Inv, Filling, Arrive
  <2>3. QED BY <2>1, <2>2, <1>d
<1>5. OneAddress'
  BY <1>b, <1>0 DEF Inv, OneAddress, Arrive, view
<1>6. ShutdownIsQuiet'
  BY DEF Inv, ShutdownIsQuiet, Arrive
<1>7. QED BY <1>1, <1>2, <1>3, <1>4, <1>5, <1>6 DEF Inv

LEMMA MinOfTwo ==
  ASSUME NEW x \in Nat, NEW y \in Nat
  PROVE  Min({x, y}) \in {x, y} /\ Min({x, y}) <= x /\ Min({x, y}) <= y
<1>1. {x, y} \subseteq Nat /\ {x, y} # {}
  OBVIOUS
<1>2. QED BY <1>1, MinFacts

LEMMA HistUpdate ==
  ASSUME Typed, NEW h \in Histories, NEW new \in HistTypes, hist' = [hist EXCEPT ![h] = new]
  PROVE  /\ hist' \in [Histories -> HistTypes] /\ hist'[h] = new
         /\ \A g \in Histories : g # h => hist'[g] = hist[g]
         /\ \A g \in Histories : hist'[g].at \in {"idle", "store", "move", "lower"}
<1>1. /\ hist' \in [Histories -> HistTypes] /\ hist'[h] = new
      /\ \A g \in Histories : g # h => hist'[g] = hist[g]
  BY DEF Typed
<1>2. \A x \in HistTypes : x.at \in {"idle", "store", "move", "lower"}
  BY DEF HistTypes, Idle
<1>3. QED BY <1>1, <1>2

LEMMA AnswerInv ==
  ASSUME Inv, NEW h \in Histories, NEW a \in phone, Answer(h, a)
  PROVE  Inv'
<1> DEFINE todo == {m \in Messages : a <= m + Quantity /\ m < a} \ Textless
<1>1. PICK jid \in {Canonical, "pn"} :
        /\ known' = (known \/ (form = "lid" /\ jid = "pn"))
        /\ hist' = [hist EXCEPT ![h] =
             [at |-> "store", before |-> a, todo |-> todo,
              jid |-> jid, chat |-> current, oldest |-> Infinity]]
  BY DEF Answer
<1> DEFINE new == [at |-> "store", before |-> a, todo |-> todo,
                   jid |-> jid, chat |-> current, oldest |-> Infinity]
<1>2. jid \in Forms /\ (form = "pn" => jid = "pn")
  BY DEF Canonical, Forms
<1>3. a \in Messages /\ rows[a] # "none" /\ todo \subseteq Messages
  BY DEF Inv, Typed, TypeOK, Anchored
<1>4. new \in HistTypes
  BY <1>2, <1>3, Numbers DEF Inv, Typed, TypeOK, HistTypes
<1>5. /\ hist' = [hist EXCEPT ![h] = new] /\ new.at = "store" /\ new.before = a /\ new.todo = todo
      /\ new.jid = jid /\ new.chat = current
  BY <1>1
<1>6. /\ UNCHANGED <<rows, newest, form, current, anchor, brought, req, said, run, restarts>>
      /\ phone' \subseteq phone /\ known' \in BOOLEAN
  BY <1>1 DEF Answer, view
<1>7. \A m \in todo, k \in Messages :
        m <= k /\ k <= newest /\ HasText(k) => rows[k] # "none" \/ k \in todo
  <2> SUFFICES ASSUME NEW m \in todo, NEW k \in Messages, m <= k, k <= newest, HasText(k)
               PROVE  rows[k] # "none" \/ k \in todo
    OBVIOUS
  <2>1. CASE k >= a
    <3>1. k \in a..newest
      BY <1>3, <2>1, Numbers DEF Inv, Typed, TypeOK
    <3>2. QED BY <3>1, <1>3 DEF Inv, NoHole
  <2>2. CASE k < a
    BY <2>2, <1>3, Numbers DEF HasText
  <2>3. QED BY <2>1, <2>2, <1>3, Numbers
<1> HIDE DEF new, todo
<1>8. /\ hist' \in [Histories -> HistTypes] /\ hist'[h] = new
      /\ \A g \in Histories : g # h => hist'[g] = hist[g]
      /\ \A g \in Histories : hist'[g].at \in {"idle", "store", "move", "lower"}
  <2>1. Typed /\ hist' = [hist EXCEPT ![h] = new]
    BY <1>5 DEF Inv
  <2>2. QED BY <2>1, <1>4, HistUpdate
<1>11. Typed'
  BY <1>6, <1>8 DEF Inv, Typed, TypeOK, ReqTypes
<1>12. Anchored'
  BY <1>3, <1>5, <1>6, <1>8 DEF Inv, Anchored
<1>13. NoHole'
  BY <1>6 DEF Inv, NoHole
<1>14. Filling'
  <2> SUFFICES ASSUME run # "closed", NEW g \in Histories, hist'[g].at = "store",
                      NEW m \in hist'[g].todo, NEW k \in Messages,
                      m <= k, k <= newest, HasText(k)
               PROVE  rows[k] # "none" \/ k \in hist'[g].todo
    BY <1>6 DEF Filling, HasText
  <2>1. CASE g = h
    BY <2>1, <1>5, <1>7, <1>8
  <2>2. CASE g # h
    BY <2>2, <1>8 DEF Inv, Filling
  <2>3. QED BY <2>1, <2>2
<1>15. OneAddress'
  <2> SUFFICES ASSUME form = "pn"
               PROVE  /\ \A g \in Histories : hist'[g] # Idle =>
                           /\ hist'[g].jid = "pn" /\ hist'[g].chat # "lid"
                           /\ hist'[g].chat # "none" => current = "pn"
                      /\ anchor > brought =>
                           \E g \in Histories :
                             hist'[g] # Idle /\ hist'[g].chat = "pn" /\ hist'[g].oldest <= brought
    BY <1>6 DEF Inv, OneAddress
  <2>1. current \in {"none", "pn"} /\ hist[h] = Idle
    BY DEF Inv, Typed, TypeOK, Forms, OneAddress, Answer
  <2>2. QED BY <2>1, <1>2, <1>5, <1>8 DEF Inv, OneAddress
<1>16. ShutdownIsQuiet'
  BY <1>6 DEF Inv, ShutdownIsQuiet
<1>17. QED BY <1>11, <1>12, <1>13, <1>14, <1>15, <1>16 DEF Inv

LEMMA StoreNextInv ==
  ASSUME Inv, NEW g \in Histories, StoreNext(g)
  PROVE  Inv'
<1> DEFINE h   == hist[g]
           m   == Max(h.todo)
           low == IF Inserted(m) /\ h.jid = h.chat THEN Min({h.oldest, m}) ELSE h.oldest
           new == [h EXCEPT !.todo = h.todo \ {m}, !.oldest = low]
<1>1. /\ rows' = IF Inserted(m) THEN [rows EXCEPT ![m] = h.jid] ELSE rows
      /\ brought' = IF Inserted(m) /\ h.chat # "none" THEN Min({m, brought}) ELSE brought
      /\ hist' = [hist EXCEPT ![g] = new]
      /\ UNCHANGED <<newest, form, known, current, anchor, req, phone, said, run, restarts>>
      /\ h.at = "store" /\ h.todo # {} /\ h # Idle
  BY DEF StoreNext, First, chat, Idle
<1>2. /\ h \in [at: {"store", "move", "lower"}, before: Messages, todo: SUBSET Messages,
                jid: Forms, chat: Forms \cup {"none"}, oldest: 1..Infinity]
      /\ h.before \in Messages /\ h.todo \subseteq Messages /\ h.jid \in Forms
      /\ h.chat \in Forms \cup {"none"} /\ h.oldest \in 1..Infinity
  BY <1>1, HistFacts DEF Inv
<1>3. m \in h.todo /\ (\A y \in h.todo : m >= y) /\ m \in Messages
  <2>1. h.todo \subseteq 0..MaxNewest
    BY <1>2 DEF Messages
  <2>2. QED BY <2>1, <1>1, <1>2, Numbers, MaxFacts
<1>4. low \in 1..Infinity /\ low <= h.oldest
      /\ (Inserted(m) /\ h.jid = h.chat => low <= m)
  <2>1. Min({h.oldest, m}) \in {h.oldest, m} /\ Min({h.oldest, m}) <= h.oldest
        /\ Min({h.oldest, m}) <= m
    BY <1>2, <1>3, Numbers, MinOfTwo
  <2>2. QED BY <2>1, <1>2, <1>3, Numbers
<1>5. /\ brought' \in 1..Infinity
      /\ brought' = brought \/ (brought' = m /\ Inserted(m) /\ h.chat # "none")
  <2>1. Min({m, brought}) \in {m, brought}
    BY <1>3, Numbers, MinOfTwo DEF Inv, Typed, TypeOK
  <2>2. QED BY <2>1, <1>1, <1>3, Numbers DEF Inv, Typed, TypeOK
<1>6. /\ new \in HistTypes /\ new # Idle /\ new.at = "store" /\ new.before = h.before
      /\ new.todo = h.todo \ {m} /\ new.jid = h.jid /\ new.chat = h.chat /\ new.oldest = low
  BY <1>1, <1>2, <1>4 DEF HistTypes, Idle
<1> HIDE DEF new, low, m
<1>7. /\ hist' \in [Histories -> HistTypes] /\ hist'[g] = new
      /\ \A f \in Histories : f # g => hist'[f] = hist[f]
      /\ \A f \in Histories : hist'[f].at \in {"idle", "store", "move", "lower"}
  BY <1>1, <1>6, HistUpdate DEF Inv
<1>8. /\ rows' \in [Messages -> Forms \cup {"none"}]
      /\ \A k \in Messages : rows[k] # "none" => rows'[k] # "none"
      /\ \A k \in Messages : rows'[k] = rows[k] \/ (k = m /\ Inserted(m) /\ rows'[k] = h.jid)
      /\ run # "closed" => rows'[m] # "none"
  BY <1>1, <1>2, <1>3 DEF Inserted, Inv, Typed, TypeOK, Forms
<1>11. Typed'
  BY <1>1, <1>5, <1>7, <1>8 DEF Inv, Typed, TypeOK, ReqTypes
<1>12. Anchored'
  <2>1. /\ phone \subseteq Messages
        /\ \A r \in Requests : req[r] # Idle => req[r].oldest \in Messages
        /\ \A f \in Histories : hist[f] # Idle => hist[f].before \in Messages
    BY HistFacts DEF Inv, Typed, TypeOK, ReqTypes
  <2>2. \A f \in Histories : hist'[f] # Idle => hist[f] # Idle /\ hist'[f].before = hist[f].before
    BY <1>1, <1>6, <1>7
  <2>3. QED BY <2>1, <2>2, <1>1, <1>8 DEF Inv, Anchored
<1>13. NoHole'
  <2> SUFFICES ASSUME NEW x \in Messages, rows'[x] # "none",
                      NEW k \in x..newest, HasText(k)
               PROVE  rows'[k] # "none"
    BY <1>1 DEF NoHole, HasText
  <2>1. newest \in Messages /\ k \in Messages /\ x <= k /\ k <= newest
    BY Numbers DEF Inv, Typed, TypeOK, Messages
  <2>2. CASE rows[x] # "none"
    BY <2>1, <2>2, <1>8 DEF Inv, NoHole
  <2>3. CASE rows[x] = "none"
    <3>1. x = m /\ run # "closed"
      BY <2>3, <1>8 DEF Inserted
    <3>2. rows[k] # "none" \/ k \in h.todo
      BY <3>1, <2>1, <1>1, <1>3 DEF Inv, Filling
    <3>3. CASE k \in h.todo
      <4>1. k = m
        BY <3>1, <3>3, <2>1, <1>3, Numbers
      <4>2. QED BY <4>1, <3>1, <1>8
    <3>4. QED BY <3>2, <3>3, <2>1, <1>8
  <2>4. QED BY <2>2, <2>3
<1>14. Filling'
  <2> SUFFICES ASSUME run # "closed", NEW f \in Histories, hist'[f].at = "store",
                      NEW x \in hist'[f].todo, NEW k \in Messages,
                      x <= k, k <= newest, HasText(k)
               PROVE  rows'[k] # "none" \/ k \in hist'[f].todo
    BY <1>1 DEF Filling, HasText
  <2>1. hist[f].at = "store" /\ x \in hist[f].todo
    BY <1>1, <1>6, <1>7
  <2>2. rows[k] # "none" \/ k \in hist[f].todo
    BY <2>1 DEF Inv, Filling
  <2>3. QED BY <2>2, <1>6, <1>7, <1>8
<1>15. OneAddress'
  <2> SUFFICES ASSUME form = "pn"
               PROVE  /\ current # "lid" /\ \A k \in Messages : rows'[k] # "lid"
                      /\ \A f \in Histories : hist'[f] # Idle =>
                           /\ hist'[f].jid = "pn" /\ hist'[f].chat # "lid"
                           /\ hist'[f].chat # "none" => current = "pn"
                      /\ anchor > brought' =>
                           \E f \in Histories :
                             hist'[f] # Idle /\ hist'[f].chat = "pn" /\ hist'[f].oldest <= brought'
    BY <1>1 DEF OneAddress
  <2>1. h.jid = "pn" /\ h.chat \in {"none", "pn"} /\ (h.chat # "none" => current = "pn")
    BY <1>1, <1>2 DEF Inv, OneAddress, Forms
  <2>2. current # "lid" /\ \A k \in Messages : rows'[k] # "lid"
    BY <2>1, <1>8 DEF Inv, OneAddress
  <2>3. \A f \in Histories : hist'[f] # Idle =>
          /\ hist'[f].jid = "pn" /\ hist'[f].chat # "lid"
          /\ hist'[f].chat # "none" => current = "pn"
    BY <2>1, <1>6, <1>7 DEF Inv, OneAddress
  <2>4. ASSUME anchor > brought'
        PROVE  \E f \in Histories :
                 hist'[f] # Idle /\ hist'[f].chat = "pn" /\ hist'[f].oldest <= brought'
    <3>1. CASE brought' = m /\ Inserted(m) /\ h.chat # "none"
      BY <3>1, <2>1, <1>4, <1>6, <1>7
    <3>2. CASE brought' = brought
      <4>1. PICK f \in Histories :
              hist[f] # Idle /\ hist[f].chat = "pn" /\ hist[f].oldest <= brought
        BY <2>4, <3>2 DEF Inv, OneAddress
      <4>2. CASE f = g
        <5>1. low <= brought'
          BY <4>1, <4>2, <3>2, <1>2, <1>4, Numbers DEF Inv, Typed, TypeOK
        <5>2. QED BY <4>1, <4>2, <5>1, <1>6, <1>7
      <4>3. QED BY <4>1, <4>2, <3>2, <1>7
    <3>3. QED BY <3>1, <3>2, <1>5
  <2>5. QED BY <2>2, <2>3, <2>4
<1>16. ShutdownIsQuiet'
  BY <1>1 DEF Inv, ShutdownIsQuiet
<1>17. QED BY <1>11, <1>12, <1>13, <1>14, <1>15, <1>16 DEF Inv

LEMMA MergeInv ==
  ASSUME Inv, NEW h \in Histories, MergeRows(h)
  PROVE  Inv'
<1>1. hist[h].at = "store" /\ hist[h] # Idle /\ hist[h].todo = {}
      /\ UNCHANGED <<newest, form, known, current, anchor, brought, req, phone, said, run, restarts>>
  BY DEF MergeRows, Idle, chat, view
<1>2. PICK at \in {"move", "lower"} : hist' = [hist EXCEPT ![h] = [hist[h] EXCEPT !.at = at]]
  BY DEF MergeRows
<1> DEFINE new == [hist[h] EXCEPT !.at = at]
<1>3. /\ new \in HistTypes /\ new # Idle /\ new.at = at
      /\ new.before = hist[h].before /\ new.todo = hist[h].todo
      /\ new.jid = hist[h].jid /\ new.chat = hist[h].chat /\ new.oldest = hist[h].oldest
  BY <1>1, HistFacts DEF Inv, HistTypes, Idle
<1> HIDE DEF new
<1>4. /\ hist' \in [Histories -> HistTypes] /\ hist'[h] = new
      /\ \A f \in Histories : f # h => hist'[f] = hist[f]
      /\ \A f \in Histories : hist'[f].at \in {"idle", "store", "move", "lower"}
  BY <1>2, <1>3, HistUpdate DEF Inv, new
<1>5. /\ rows' \in [Messages -> Forms \cup {"none"}]
      /\ \A m \in Messages : rows'[m] # "none" <=> rows[m] # "none"
      /\ form = "pn" => \A m \in Messages : rows'[m] # "lid"
  BY DEF MergeRows, Inv, Typed, TypeOK, OneAddress, Forms
<1>11. Typed'
  BY <1>1, <1>4, <1>5 DEF Inv, Typed, TypeOK, ReqTypes
<1>12. Anchored'
  <2>1. /\ phone \subseteq Messages
        /\ \A r \in Requests : req[r] # Idle => req[r].oldest \in Messages
        /\ \A f \in Histories : hist[f] # Idle => hist[f].before \in Messages
    BY HistFacts DEF Inv, Typed, TypeOK, ReqTypes
  <2>2. \A f \in Histories : hist'[f] # Idle => hist[f] # Idle /\ hist'[f].before = hist[f].before
    BY <1>1, <1>3, <1>4
  <2>3. QED BY <2>1, <2>2, <1>1, <1>5 DEF Inv, Anchored
<1>13. NoHole'
  <2>1. \A m \in Messages : m..newest \subseteq Messages
    BY Numbers DEF Inv, Typed, TypeOK, Messages
  <2>2. QED BY <2>1, <1>1, <1>5 DEF Inv, NoHole, HasText
<1>14. Filling'
  <2>1. \A f \in Histories : hist'[f].at = "store" => hist'[f] = hist[f]
    BY <1>3, <1>4
  <2>2. QED BY <2>1, <1>1, <1>5 DEF Inv, Filling, HasText
<1>15. OneAddress'
  BY <1>1, <1>3, <1>4, <1>5 DEF Inv, OneAddress
<1>16. ShutdownIsQuiet'
  BY <1>1 DEF Inv, ShutdownIsQuiet
<1>17. QED BY <1>11, <1>12, <1>13, <1>14, <1>15, <1>16 DEF Inv

LEMMA MoveInv ==
  ASSUME Inv, NEW h \in Histories, MoveOpen(h)
  PROVE  Inv'
<1> DEFINE new == [hist[h] EXCEPT !.at = "lower"]
<1>1. /\ hist[h].at = "move" /\ hist[h] # Idle /\ hist' = [hist EXCEPT ![h] = new]
      /\ current' = IF current = "lid" THEN "pn" ELSE current
      /\ UNCHANGED <<rows, newest, form, known, anchor, brought, req, phone, said, run, restarts>>
  BY DEF MoveOpen, Idle, chat
<1>3. /\ new \in HistTypes /\ new # Idle /\ new.at = "lower"
      /\ new.before = hist[h].before /\ new.jid = hist[h].jid
      /\ new.chat = hist[h].chat /\ new.oldest = hist[h].oldest
  BY <1>1, HistFacts DEF Inv, HistTypes, Idle
<1> HIDE DEF new
<1>4. /\ hist' \in [Histories -> HistTypes] /\ hist'[h] = new
      /\ \A f \in Histories : f # h => hist'[f] = hist[f]
      /\ \A f \in Histories : hist'[f].at \in {"idle", "store", "move", "lower"}
  BY <1>1, <1>3, HistUpdate DEF Inv
<1>11. Typed'
  BY <1>1, <1>4 DEF Inv, Typed, TypeOK, Forms
<1>12. Anchored'
  BY <1>1, <1>3, <1>4 DEF Inv, Anchored
<1>13. NoHole'
  BY <1>1 DEF Inv, NoHole
<1>14. Filling'
  <2>1. \A f \in Histories : hist'[f].at = "store" => hist'[f] = hist[f]
    BY <1>3, <1>4
  <2>2. QED BY <2>1, <1>1 DEF Inv, Filling, HasText
<1>15. OneAddress'
  BY <1>1, <1>3, <1>4 DEF Inv, OneAddress
<1>16. ShutdownIsQuiet'
  BY <1>1 DEF Inv, ShutdownIsQuiet
<1>17. QED BY <1>11, <1>12, <1>13, <1>14, <1>15, <1>16 DEF Inv

LEMMA LowerInv ==
  ASSUME Inv, NEW h \in Histories, LowerViewAnchor(h)
  PROVE  Inv'
<1>1. /\ hist[h].at = "lower" /\ hist[h] # Idle /\ hist' = [hist EXCEPT ![h] = Idle]
      /\ anchor' = IF current = hist[h].chat /\ hist[h].oldest < anchor
                   THEN hist[h].oldest ELSE anchor
      /\ UNCHANGED <<rows, newest, form, known, current, brought, req, phone, said, run, restarts>>
  BY DEF LowerViewAnchor, Idle, chat
<1>2. /\ hist' \in [Histories -> HistTypes] /\ hist'[h] = Idle
      /\ \A f \in Histories : f # h => hist'[f] = hist[f]
      /\ \A f \in Histories : hist'[f].at \in {"idle", "store", "move", "lower"}
  BY <1>1, HistUpdate DEF Inv, HistTypes
<1>3. /\ anchor \in 0..MaxNewest /\ brought \in 1..Infinity /\ hist[h].oldest \in 1..Infinity
      /\ anchor' \in 0..MaxNewest /\ anchor' <= anchor
  BY <1>1, HistFacts, Numbers DEF Inv, Typed, TypeOK
<1>11. Typed'
  BY <1>1, <1>2, <1>3 DEF Inv, Typed, TypeOK, ReqTypes
<1>12. Anchored'
  BY <1>1, <1>2 DEF Inv, Anchored
<1>13. NoHole'
  BY <1>1 DEF Inv, NoHole
<1>14. Filling'
  <2>1. \A f \in Histories : hist'[f].at = "store" => hist'[f] = hist[f]
    BY <1>2 DEF Idle
  <2>2. QED BY <2>1, <1>1 DEF Inv, Filling, HasText
<1>15. OneAddress'
  <2> SUFFICES ASSUME form = "pn", anchor' > brought
               PROVE  \E f \in Histories :
                        hist'[f] # Idle /\ hist'[f].chat = "pn" /\ hist'[f].oldest <= brought
    BY <1>1, <1>2 DEF Inv, OneAddress
  <2>1. anchor > brought
    BY <1>3, Numbers
  <2>2. PICK f \in Histories :
          hist[f] # Idle /\ hist[f].chat = "pn" /\ hist[f].oldest <= brought
    BY <2>1 DEF Inv, OneAddress
  <2>3. f # h
    <3>1. SUFFICES ASSUME f = h PROVE FALSE
      OBVIOUS
    <3>2. current = hist[h].chat
      BY <3>1, <2>2, <1>1 DEF Inv, OneAddress
    <3>3. anchor' <= hist[h].oldest
      BY <3>2, <1>1, <1>3, Numbers
    <3>4. QED BY <3>1, <3>3, <2>2, <1>3, Numbers
  <2>4. QED BY <2>2, <2>3, <1>2
<1>16. ShutdownIsQuiet'
  BY <1>1 DEF Inv, ShutdownIsQuiet
<1>17. QED BY <1>11, <1>12, <1>13, <1>14, <1>15, <1>16 DEF Inv

LEMMA RestartInv ==
  ASSUME Inv, Restart
  PROVE  Inv'
<1>1. /\ restarts' = restarts + 1 /\ restarts < MaxRestarts /\ run' = "running" /\ said' = "count"
      /\ current' = "none" /\ anchor' = 0 /\ brought' = Infinity
      /\ req' = [r \in Requests |-> Idle] /\ hist' = [h \in Histories |-> Idle]
      /\ UNCHANGED <<rows, newest, form, known>>
  BY DEF Restart, chat
<1>2. PICK again \in SUBSET {hist[h].before : h \in {f \in Histories : hist[f] # Idle}} :
        phone' = phone \cup again
  BY DEF Restart
<1>3. phone' \subseteq Messages /\ \A a \in phone' : rows[a] # "none"
  <2>1. \A h \in Histories : hist[h] # Idle =>
          hist[h].before \in Messages /\ rows[hist[h].before] # "none"
    BY HistFacts DEF Inv, Anchored
  <2>2. \A a \in again : a \in Messages /\ rows[a] # "none"
    BY <2>1
  <2>3. QED BY <2>2, <1>2 DEF Inv, Typed, TypeOK, Anchored
<1>4. /\ req' \in [Requests -> ReqTypes] /\ hist' \in [Histories -> HistTypes]
      /\ (\A r \in Requests : req'[r] = Idle) /\ \A h \in Histories : hist'[h] = Idle
  BY <1>1 DEF ReqTypes, HistTypes
<1>11. Typed'
  <2>1. /\ 0 \in 0..MaxNewest /\ Infinity \in 1..Infinity /\ restarts + 1 \in 0..MaxRestarts
        /\ \A h \in Histories : hist'[h].at \in {"idle", "store", "move", "lower"}
    BY <1>1, <1>4, Numbers, BacklogAssumption DEF Inv, Typed, TypeOK, Idle
  <2>2. QED BY <2>1, <1>1, <1>3, <1>4 DEF Inv, Typed, TypeOK
<1>12. Anchored'
  BY <1>1, <1>3, <1>4 DEF Anchored
<1>13. NoHole'
  BY <1>1 DEF Inv, NoHole
<1>14. Filling'
  BY <1>1, <1>4 DEF Filling, Idle
<1>15. OneAddress'
  <2>1. ~(0 > Infinity)
    BY Numbers
  <2>2. QED BY <2>1, <1>1, <1>4 DEF Inv, OneAddress
<1>16. ShutdownIsQuiet'
  BY <1>1 DEF ShutdownIsQuiet
<1>17. QED BY <1>11, <1>12, <1>13, <1>14, <1>15, <1>16 DEF Inv

LEMMA StepInv ==
  ASSUME Inv, [Next]_vars
  PROVE  Inv'
<1>1. CASE Next
  BY <1>1, LearnInv, ArriveInv, ShutdownInv, RestartInv, OpenInv, LoseInv, AnswerInv, AskInv,
     SendInv, PollInv, StoreNextInv, MergeInv, MoveInv, LowerInv DEF Next, Requesting, Storing
<1>2. CASE UNCHANGED vars
  BY <1>2 DEF vars, chat, view, Inv, Typed, TypeOK, Anchored, NoHole, Filling, OneAddress,
     ShutdownIsQuiet
<1>3. QED BY <1>1, <1>2

LEMMA Invariant == Spec => []Inv
BY InitInv, StepInv, PTL DEF Spec

(* The rows, the anchors and what goroutines remember keep their ranges in *)
(* every run, whatever the phone answers and whenever the program ends.    *)
THEOREM TypeCorrect == Spec => []TypeOK
<1>1. Inv => TypeOK
  BY DEF Inv, Typed
<1>2. QED BY <1>1, Invariant, PTL

(* cmd_chat.go and history_sync.go: answers that come late, twice or beside *)
(* each other, and kills between two rows, leave no message out below one  *)
(* that is stored: the next request asks for it.                           *)
THEOREM NothingIsLeftOut == Spec => []NoHole
<1>1. Inv => NoHole
  BY DEF Inv
<1>2. QED BY <1>1, Invariant, PTL

(* cmd_chat.go: the poll of a request never reports the database that      *)
(* Shutdown has closed under it.                                           *)
THEOREM QuitsQuietly == Spec => []ShutdownIsQuiet
<1>1. Inv => ShutdownIsQuiet
  BY DEF Inv
<1>2. QED BY <1>1, Invariant, PTL

(* chat_view.go: with one address, what answers brought to the open chat   *)
(* is in its view once they are stored, however many came at once.         *)
THEOREM AnswersShow == Spec => []AnswersAppear
<1>1. Inv => AnswersAppear
  <2> SUFFICES ASSUME Inv, Settled, form = "pn"
               PROVE  anchor <= brought
    BY DEF AnswersAppear
  <2>1. ~(anchor > brought)
    BY DEF Inv, OneAddress, Settled
  <2>2. QED BY <2>1, Numbers DEF Inv, Typed, TypeOK
<1>2. QED BY <1>1, Invariant, PTL
==============================================================================
