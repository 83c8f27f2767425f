------------------------- MODULE PriorityQueueProofs -------------------------
(***************************************************************************)
(* Proofs about PriorityQueue for any number of conversations and any      *)
(* times.  While a sift runs, one place may be out of order: Control says  *)
(* which places it looks at, Order which of them it has already settled.   *)
(***************************************************************************)
EXTENDS PriorityQueue, TLAPS

Settled(k) == ~Less(k, Parent(k))

Control ==
  /\ sift = "unlocked" => leaving = {}
  /\ sift \in {"down", "up"} =>
       /\ at \in Places(size) /\ (sift = "down" => from <= at)
       /\ size = IF leaving = {} THEN len ELSE len - 1
  /\ sift \in {"down", "up", "pop"} /\ leaving # {} =>
       len > 0 /\ leaving = {queue[len - 1]}
  /\ sift = "pop" => leaving # {}
  /\ sift = "merge" => leaving \cap listed = {}

(* Only the place a sift stands at is out of order: with its children      *)
(* while it goes down, with its parent while it goes up (and before it has *)
(* moved).  Its children are in order with its parent, so that whichever   *)
(* of the two takes its place fits there.                                  *)
Bridged == \A k \in Places(size) : k > 0 /\ Parent(k) = at /\ at > 0 => ~Less(k, Parent(at))

Order ==
  /\ sift \in {"unlocked", "merge"} => \A k \in Places(len) : k > 0 => Settled(k)
  /\ sift = "pop" => \A k \in Places(len - 1) : k > 0 => Settled(k)
  /\ sift = "down" =>
       /\ Bridged
       /\ \A k \in Places(size) :
            k > 0 /\ Parent(k) # at /\ (k = at => at > from) => Settled(k)
  /\ sift = "up" =>
       /\ Bridged
       /\ \A k \in Places(size) : k > 0 /\ k # at => Settled(k)

Inv == TypeOK /\ IndexIsPlace /\ SameConversations /\ Control /\ Order
------------------------------------------------------------------------------
(* The tree of places. *)
LEMMA ParentFacts ==
  \A k \in Nat : k > 0 =>
    /\ Parent(k) \in Nat /\ Parent(k) < k
    /\ k = 2 * Parent(k) + 1 \/ k = 2 * Parent(k) + 2
BY DEF Parent

LEMMA ParentOfChild ==
  ASSUME NEW i \in Nat, NEW k \in {2 * i + 1, 2 * i + 2}
  PROVE  k \in Nat /\ k > 0 /\ Parent(k) = i
BY DEF Parent

(* Before is a strict weak order. *)
LEMMA BeforeIsOrder ==
  ASSUME TypeOK, NEW a \in Chats, NEW b \in Chats, NEW c \in Chats
  PROVE  /\ Before(a, b) => ~Before(b, a)
         /\ Before(a, b) /\ Before(b, c) => Before(a, c)
         /\ ~Before(b, a) /\ ~Before(c, b) => ~Before(c, a)
<1>1. time[a] \in Nat /\ time[b] \in Nat /\ time[c] \in Nat
  BY PriorityQueueAssumption DEF TypeOK
<1>2. QED BY <1>1 DEF Before

(* What a step leaves of a conversation's priority. *)
Kept(c) == time'[c] = time[c] /\ (c \in pinned' <=> c \in pinned)

LEMMA BeforeKept ==
  ASSUME NEW a, NEW b, Kept(a), Kept(b)
  PROVE  Before(a, b)' <=> Before(a, b)
BY DEF Kept, Before

LEMMA PlacesDistinct ==
  ASSUME IndexIsPlace, NEW i \in Places(len), NEW j \in Places(len), i # j
  PROVE  queue[i] # queue[j]
BY DEF IndexIsPlace
------------------------------------------------------------------------------
(* What the operations of container/heap do to the queue. *)
Book == /\ len \in Nat /\ queue \in [Places(len) -> Chats]
        /\ index \in [Chats -> Int] /\ listed \subseteq Chats
        /\ IndexIsPlace /\ SameConversations

LEMMA SwapBook ==
  ASSUME Book, NEW i \in Places(len), NEW j \in Places(len), i # j,
         Swap(i, j), UNCHANGED <<len, listed>>
  PROVE  /\ Book'
         /\ queue'[i] = queue[j] /\ queue'[j] = queue[i]
         /\ \A k \in Places(len) : k # i /\ k # j => queue'[k] = queue[k]
<1> DEFINE a == queue[i]
           b == queue[j]
<1>1. a \in Chats /\ b \in Chats /\ a # b
  BY PlacesDistinct DEF Book
<1>2. /\ queue' \in [Places(len) -> Chats]
      /\ queue'[i] = b /\ queue'[j] = a
      /\ \A k \in Places(len) : k # i /\ k # j => queue'[k] = queue[k]
  BY <1>1 DEF Swap, Book
<1>3. /\ index' \in [Chats -> Int] /\ index'[b] = i /\ index'[a] = j
      /\ \A c \in Chats : c # a /\ c # b => index'[c] = index[c]
  BY <1>1 DEF Swap, Book, Places
<1>4. IndexIsPlace'
  <2> SUFFICES ASSUME NEW k \in Places(len) PROVE index'[queue'[k]] = k
    BY DEF IndexIsPlace
  <2>1. CASE k = i BY <2>1, <1>2, <1>3
  <2>2. CASE k = j BY <2>2, <1>2, <1>3
  <2>3. CASE k # i /\ k # j
    <3>1. queue[k] # a /\ queue[k] # b BY <2>3, PlacesDistinct DEF Book
    <3>2. QED BY <3>1, <2>3, <1>2, <1>3 DEF Book, IndexIsPlace
  <2>4. QED BY <2>1, <2>2, <2>3
<1>5. Queued' = Queued
  <2>1. \A k \in Places(len) : \E n \in Places(len) : queue'[k] = queue[n]
    BY <1>2
  <2>2. \A k \in Places(len) : \E n \in Places(len) : queue[k] = queue'[n]
    <3> SUFFICES ASSUME NEW k \in Places(len)
                 PROVE  \E n \in Places(len) : queue[k] = queue'[n]
      OBVIOUS
    <3>1. CASE k = i BY <3>1, <1>2
    <3>2. CASE k = j BY <3>2, <1>2
    <3>3. CASE k # i /\ k # j BY <3>3, <1>2
    <3>4. QED BY <3>1, <3>2, <3>3
  <2>3. QED BY <2>1, <2>2 DEF Queued
<1>6. QED BY <1>2, <1>3, <1>4, <1>5 DEF Book, SameConversations

LEMMA PushBook ==
  ASSUME Book, NEW c \in Chats, c \notin listed,
         HeapPush(c), listed' = listed \cup {c}
  PROVE  /\ Book' /\ queue'[len] = c
         /\ \A k \in Places(len) : queue'[k] = queue[k]
<1>1. /\ len' = len + 1 /\ len' \in Nat
      /\ queue' \in [Places(len + 1) -> Chats] /\ queue'[len] = c
      /\ \A k \in Places(len) : queue'[k] = queue[k]
  BY DEF HeapPush, Book, Places
<1>2. /\ index' \in [Chats -> Int] /\ index'[c] = len
      /\ \A d \in Chats : d # c => index'[d] = index[d]
  BY DEF HeapPush, Book
<1>3. Places(len + 1) = Places(len) \cup {len}
  BY DEF Book, Places
<1>4. \A k \in Places(len) : queue[k] # c
  BY DEF Book, SameConversations, Queued
<1>5. IndexIsPlace'
  <2> SUFFICES ASSUME NEW k \in Places(len + 1) PROVE index'[queue'[k]] = k
    BY <1>1 DEF IndexIsPlace
  <2>1. CASE k = len BY <2>1, <1>1, <1>2
  <2>2. CASE k \in Places(len)
    BY <2>2, <1>1, <1>2, <1>4 DEF Book, IndexIsPlace
  <2>3. QED BY <2>1, <2>2, <1>3
<1>6. Queued' = Queued \cup {c}
  BY <1>1, <1>3 DEF Queued
<1>7. QED BY <1>1, <1>2, <1>5, <1>6 DEF Book, SameConversations

LEMMA FixBook ==
  ASSUME Book, NEW c \in listed, UNCHANGED <<queue, len, index, listed>>
  PROVE  Book' /\ index[c] \in Places(len) /\ queue[index[c]] = c
<1>1. PICK k \in Places(len) : queue[k] = c
  BY DEF Book, SameConversations, Queued
<1>2. index[c] = k BY <1>1 DEF Book, IndexIsPlace
<1>3. QED BY <1>1, <1>2 DEF Book, IndexIsPlace, SameConversations, Queued
------------------------------------------------------------------------------
(* What a sift is given: a heap in which one conversation has changed.     *)
InOrder == \A k \in Places(len) : k > 0 => Settled(k)

(* Two steps up the tree are in order when each one is. *)
LEMMA Grandparent ==
  ASSUME TypeOK, NEW n \in Nat, n <= len, \A k \in Places(n) : k > 0 => Settled(k),
         NEW k \in Places(n), k > 0, Parent(k) > 0
  PROVE  ~Less(k, Parent(Parent(k)))
<1>1. /\ Parent(k) \in Places(n) /\ Parent(k) \in Nat
      /\ Parent(Parent(k)) \in Places(n)
  BY ParentFacts DEF Places
<1>2. ~Less(k, Parent(k)) /\ ~Less(Parent(k), Parent(Parent(k)))
  BY <1>1 DEF Settled
<1>3. \A j \in Places(n) : queue[j] \in Chats
  BY DEF TypeOK, Places
<1>4. QED BY <1>1, <1>2, <1>3, BeforeIsOrder DEF Less

LEMMA PushOrder ==
  ASSUME TypeOK, Book, InOrder, NEW c \in Chats, c \notin listed,
         HeapPush(c), listed' = listed \cup {c}, leaving' = {},
         \A d \in listed : Kept(d)
  PROVE  Control' /\ Order'
<1>1. /\ sift' = "up" /\ at' = len /\ from' = len /\ size' = len + 1 /\ len' = len + 1
      /\ \A k \in Places(len) : queue'[k] = queue[k] /\ queue[k] \in listed
  BY PushBook DEF HeapPush, Sift, Book, SameConversations, Queued
<1>2. Control'
  BY <1>1 DEF Control, Places, Book
<1>3. ASSUME NEW k \in Places(len + 1), k > 0, k # len PROVE Settled(k)'
  <2>1. k \in Places(len) /\ Parent(k) \in Places(len)
    BY <1>3, ParentFacts DEF Places, Book
  <2>2. Settled(k) BY <2>1, <1>3 DEF InOrder
  <2>3. queue'[k] = queue[k] /\ queue'[Parent(k)] = queue[Parent(k)]
        /\ Kept(queue[k]) /\ Kept(queue[Parent(k)])
    BY <2>1, <1>1
  <2>4. QED BY <2>2, <2>3, BeforeKept DEF Settled, Less, Parent
<1>4. \A k \in Places(len + 1) : k > 0 => Parent(k) # len
  BY ParentFacts DEF Places, Book
<1>5. QED BY <1>1, <1>2, <1>3, <1>4 DEF Order, Bridged

LEMMA FixOrder ==
  ASSUME TypeOK, Book, InOrder, NEW c \in listed,
         HeapFix(index[c]), listed' = listed, leaving' = {},
         \A d \in listed \ {c} : Kept(d)
  PROVE  Control' /\ Order'
<1>1. PICK i \in Places(len) : i = index[c] /\ queue[i] = c /\ i \in Nat
  BY FixBook DEF HeapFix, Places, Book
<1>2. /\ sift' = "down" /\ at' = i /\ from' = i /\ size' = len
      /\ len' = len /\ queue' = queue
  BY <1>1 DEF HeapFix, Sift
<1>3. Control'
  BY <1>1, <1>2 DEF Control
<1>4. \A k \in Places(len) : k # i => Kept(queue[k])
  BY <1>1, PlacesDistinct DEF Book, SameConversations, Queued
<1>5. ASSUME NEW k \in Places(len), k > 0, Parent(k) # i, k # i PROVE Settled(k)'
  <2>1. Parent(k) \in Places(len) BY <1>5, ParentFacts DEF Places, Book
  <2>2. Settled(k) BY <1>5 DEF InOrder
  <2>3. Kept(queue[k]) /\ Kept(queue[Parent(k)]) BY <2>1, <1>4, <1>5
  <2>4. QED BY <1>2, <2>2, <2>3, BeforeKept DEF Settled, Less, Parent
<1>6. ASSUME NEW k \in Places(len), k > 0, Parent(k) = i, i > 0
      PROVE  ~Less(k, Parent(i))'
  <2>1. ~Less(k, Parent(i))
    BY <1>6, Grandparent DEF InOrder, TypeOK
  <2>2. Parent(i) \in Places(len) /\ Parent(i) # i /\ k # i
    BY <1>1, <1>6, ParentFacts DEF Places, Book
  <2>3. Kept(queue[k]) /\ Kept(queue[Parent(i)]) BY <2>2, <1>4, <1>6
  <2>4. QED BY <1>2, <2>1, <2>3, BeforeKept DEF Less, Parent
<1>7. Bridged'
  BY <1>2, <1>6 DEF Bridged, Less, Before, Parent
<1>8. QED BY <1>1, <1>2, <1>3, <1>5, <1>7 DEF Order
------------------------------------------------------------------------------
(* The steps of a sift. *)
LEMMA InvBook ==
  ASSUME Inv PROVE Book /\ TypeOK /\ Control /\ Order
BY DEF Inv, Book, TypeOK

(* The places a sift looks at are places of the queue; the conversation    *)
(* that leaves is in none of them.                                         *)
LEMMA SiftPlaces ==
  ASSUME Inv, sift \in {"down", "up"}
  PROVE  /\ at \in Nat /\ size \in Nat /\ len \in Nat /\ size <= len /\ at < size
         /\ \A k \in Places(size) : k \in Places(len) /\ k \in Nat /\ queue[k] \in Chats
         /\ leaving # {} => len - 1 \in Places(len) /\ len - 1 \notin Places(size)
BY DEF Inv, TypeOK, Control, Places

LEMMA SwapControl ==
  ASSUME Inv, sift \in {"down", "up"}, NEW i \in Places(size), NEW j \in Places(size),
         i # j, Swap(i, j), at' \in Places(size), sift = "down" => from <= at',
         UNCHANGED <<len, keys, listed, sift, from, size, leaving>>
  PROVE  /\ Book' /\ TypeOK' /\ Control'
         /\ queue'[i] = queue[j] /\ queue'[j] = queue[i]
         /\ \A k \in Places(size) : k # i /\ k # j => queue'[k] = queue[k]
         /\ \A c, d : Before(c, d)' <=> Before(c, d)
<1>1. /\ Book' /\ queue'[i] = queue[j] /\ queue'[j] = queue[i]
      /\ \A k \in Places(len) : k # i /\ k # j => queue'[k] = queue[k]
  BY SwapBook, InvBook, SiftPlaces
<1>2. TypeOK'
  BY <1>1, SiftPlaces DEF Book, TypeOK, Inv, keys, Places
<1>3. leaving # {} => queue'[len - 1] = queue[len - 1]
  BY <1>1, SiftPlaces
<1>4. Control'
  BY <1>3 DEF Control, Inv, keys
<1>5. QED BY <1>1, <1>2, <1>4, SiftPlaces, BeforeKept DEF Kept, keys

LEMMA DownSwapInv ==
  ASSUME Inv, DownSwap PROVE Inv'
<1>1. PICK j \in Children : First(j) /\ Less(j, at) /\ Swap(j, at) /\ at' = j
  BY DEF DownSwap
<1>2. /\ at \in Places(size) /\ at \in Nat /\ j \in Places(size) /\ j \in Nat
      /\ j > 0 /\ Parent(j) = at /\ j > at /\ from <= at
      /\ from \in Nat /\ size \in Nat /\ sift = "down"
  <2>1. /\ sift = "down" /\ at \in Nat /\ size \in Nat /\ from \in Nat /\ at < size
        /\ from <= at
    BY SiftPlaces DEF DownSwap, Inv, Control, TypeOK
  <2>2. j \in Nat /\ j > 0 /\ Parent(j) = at /\ j < size
    BY <2>1, ParentOfChild DEF Children
  <2>3. QED BY <2>1, <2>2, ParentFacts DEF Places
<1>3. /\ Book' /\ TypeOK' /\ Control'
      /\ queue'[j] = queue[at] /\ queue'[at] = queue[j]
      /\ \A k \in Places(size) : k # j /\ k # at => queue'[k] = queue[k]
      /\ \A c, d : Before(c, d)' <=> Before(c, d)
  BY <1>1, <1>2, SwapControl DEF DownSwap
<1>4. /\ size' = size /\ from' = from /\ sift' = "down"
  BY <1>2 DEF DownSwap
<1>5. \A k \in Places(size) : queue[k] \in Chats
  BY <1>2, SiftPlaces
<1>6. ASSUME NEW k \in Places(size), k > 0, Parent(k) # j PROVE Settled(k)'
  <2>1. /\ k \in Nat /\ Parent(k) \in Places(size) /\ Parent(k) < k
        /\ Parent(k) = at => k \in Children
    BY <1>6, <1>2, ParentFacts DEF Places, Children
  <2>2. CASE k = j
    <3>1. ~Before(queue[at], queue[j]) BY <1>1, <1>2, <1>5, BeforeIsOrder DEF Less, Inv
    <3>2. QED BY <2>2, <3>1, <1>2, <1>3 DEF Settled, Less, Parent
  <2>3. CASE k # j /\ Parent(k) = at
    <3>1. ~Before(queue[k], queue[j]) BY <2>1, <2>3, <1>1 DEF First, Less
    <3>2. k # at BY <2>1, <2>3, <1>2
    <3>3. QED BY <2>3, <3>1, <3>2, <1>3 DEF Settled, Less, Parent
  <2>4. CASE k = at
    <3>1. ~Less(j, Parent(at)) /\ Parent(at) # at /\ Parent(at) # j
      BY <2>1, <2>4, <1>2, <1>6 DEF Inv, Order, Bridged
    <3>2. QED BY <2>1, <2>4, <3>1, <1>3 DEF Settled, Less, Parent
  <2>5. CASE k # j /\ k # at /\ Parent(k) # at
    <3>1. Settled(k) BY <2>5, <1>2, <1>6 DEF Inv, Order
    <3>2. QED BY <2>1, <2>5, <3>1, <1>3, <1>6 DEF Settled, Less, Parent
  <2>6. QED BY <2>2, <2>3, <2>4, <2>5
<1>7. ASSUME NEW k \in Places(size), k > 0, Parent(k) = j PROVE ~Less(k, Parent(j))'
  <2>1. k \in Nat /\ k > j BY <1>7, ParentFacts DEF Places
  <2>2. Settled(k) BY <2>1, <1>2, <1>7 DEF Inv, Order
  <2>3. QED BY <2>1, <2>2, <1>2, <1>3, <1>7 DEF Settled, Less, Parent
<1>8. Bridged'
  BY <1>1, <1>4, <1>7 DEF Bridged, Less, Before, Parent
<1>9. Order'
  BY <1>1, <1>2, <1>4, <1>6, <1>8 DEF Order
<1>10. QED BY <1>3, <1>9 DEF Inv, Book

LEMMA UpSwapInv ==
  ASSUME Inv, UpSwap PROVE Inv'
<1> DEFINE x == queue[at]
<1>1. PICK p \in Nat : p = Parent(at) /\ p < at /\ at' = p /\ Less(at, p) /\ Swap(at, p)
  BY SiftPlaces, ParentFacts DEF UpSwap
<1>2. /\ at \in Places(size) /\ at \in Nat /\ p \in Places(size) /\ p # at
      /\ sift = "up" /\ size \in Nat
  BY <1>1, SiftPlaces DEF UpSwap, Places
<1>3. /\ Book' /\ TypeOK' /\ Control'
      /\ queue'[p] = queue[at] /\ queue'[at] = queue[p]
      /\ \A k \in Places(size) : k # p /\ k # at => queue'[k] = queue[k]
      /\ \A c, d : Before(c, d)' <=> Before(c, d)
  BY <1>1, <1>2, SwapControl DEF UpSwap
<1>4. size' = size /\ sift' = "up"
  BY <1>2 DEF UpSwap
<1>5. \A k \in Places(size) : queue[k] \in Chats
  BY <1>2, SiftPlaces
<1>6. \A k \in Places(size) : k > 0 =>
         Parent(k) \in Places(size) /\ Parent(k) < k /\ k \in Nat
  BY <1>2, ParentFacts DEF Places
<1>7. ASSUME NEW k \in Places(size), k > 0, k # p PROVE Settled(k)'
  <2>1. CASE k = at
    <3>1. ~Before(queue[p], queue[at]) BY <1>1, <1>2, <1>5, BeforeIsOrder DEF Less, Inv
    <3>2. QED BY <2>1, <3>1, <1>1, <1>3 DEF Settled, Less, Parent
  <2>2. CASE k # at /\ Parent(k) = p
    <3>1. ~Before(queue[k], queue[p])
      BY <2>2, <1>2, <1>7 DEF Inv, Order, Settled, Less
    <3>2. ~Before(queue[k], queue[at])
      BY <3>1, <1>1, <1>2, <1>5, BeforeIsOrder DEF Less, Inv
    <3>3. QED BY <2>2, <3>2, <1>3, <1>7 DEF Settled, Less, Parent
  <2>3. CASE k # at /\ Parent(k) = at
    <3>1. ~Less(k, p) BY <2>3, <1>1, <1>2, <1>7 DEF Inv, Order, Bridged
    <3>2. QED BY <2>3, <3>1, <1>3, <1>7 DEF Settled, Less, Parent
  <2>4. CASE k # at /\ Parent(k) # p /\ Parent(k) # at
    <3>1. Settled(k) BY <2>4, <1>2, <1>7 DEF Inv, Order
    <3>2. QED BY <2>4, <3>1, <1>3, <1>6, <1>7 DEF Settled, Less, Parent
  <2>5. QED BY <2>1, <2>2, <2>3, <2>4
<1>8. ASSUME NEW k \in Places(size), k > 0, Parent(k) = p, p > 0
      PROVE  ~Less(k, Parent(p))'
  <2>1. /\ Parent(p) \in Places(size) /\ Parent(p) < p
        /\ ~Before(queue[p], queue[Parent(p)])
    BY <1>1, <1>2, <1>6, <1>8 DEF Inv, Order, Settled, Less
  <2>2. k # p BY <1>6, <1>8
  <2>3. CASE k = at BY <2>1, <2>3, <1>1, <1>3 DEF Less, Parent
  <2>4. CASE k # at
    <3>1. ~Before(queue[k], queue[p])
      BY <2>4, <1>2, <1>8 DEF Inv, Order, Settled, Less
    <3>2. ~Before(queue[k], queue[Parent(p)])
      BY <3>1, <2>1, <1>2, <1>5, BeforeIsOrder DEF Inv
    <3>3. QED BY <2>1, <2>2, <2>4, <3>2, <1>1, <1>2, <1>3 DEF Less, Parent
  <2>5. QED BY <2>3, <2>4
<1>9. Bridged'
  BY <1>1, <1>4, <1>8 DEF Bridged, Less, Before, Parent
<1>10. Order'
  BY <1>1, <1>2, <1>4, <1>7, <1>9 DEF Order
<1>11. QED BY <1>3, <1>10 DEF Inv, Book

LEMMA SiftedInv ==
  ASSUME Inv, sift \in {"down", "up"}, \A k \in Places(size) : k > 0 => Settled(k),
         Sifted, UNCHANGED <<queue, len, index, keys, listed, leaving>>
  PROVE  Inv'
<1>1. TypeOK' /\ IndexIsPlace' /\ SameConversations'
  BY DEF Inv, TypeOK, IndexIsPlace, SameConversations, Queued, Sifted, keys, place
<1>2. Control' BY DEF Inv, Control, Sifted, place
<1>3. size = IF leaving = {} THEN len ELSE len - 1
  BY DEF Inv, Control
<1>4. \A k \in Places(size) : k > 0 => Settled(k)'
  BY DEF Settled, Less, Before, Parent, keys
<1>5. Order' BY <1>3, <1>4 DEF Order, Sifted
<1>6. QED BY <1>1, <1>2, <1>5 DEF Inv

LEMMA DownEndsInv ==
  ASSUME Inv, DownEnds PROVE Inv'
<1>1. /\ at \in Nat /\ size \in Nat /\ sift = "down" /\ from <= at /\ from \in Nat
  BY SiftPlaces DEF DownEnds, Inv, Control, TypeOK
<1>2. ASSUME NEW k \in Places(size), k > 0, k = at => at > from PROVE Settled(k)
  <2>1. CASE Parent(k) = at
    <3>1. k \in Children BY <1>1, <1>2, <2>1, ParentFacts DEF Places, Children
    <3>2. QED BY <3>1, <2>1 DEF DownEnds, Settled
  <2>2. CASE Parent(k) # at BY <1>1, <1>2, <2>2 DEF Inv, Order
  <2>3. QED BY <2>1, <2>2
<1>3. CASE at > from
  BY <1>1, <1>2, <1>3, SiftedInv DEF DownEnds
<1>4. CASE ~(at > from)
  <2>1. sift' = "up" /\ UNCHANGED <<queue, len, index, keys, listed, leaving, place>>
    BY <1>4 DEF DownEnds
  <2>2. TypeOK' /\ IndexIsPlace' /\ SameConversations'
    BY <2>1 DEF Inv, TypeOK, IndexIsPlace, SameConversations, Queued, keys, place
  <2>3. Control' BY <2>1, <1>1 DEF Inv, Control, place
  <2>4. \A k \in Places(size) : k > 0 /\ k # at => Settled(k)'
    BY <1>2, <2>1 DEF Settled, Less, Before, Parent, keys
  <2>5. Bridged'
    BY <1>1, <2>1 DEF Inv, Order, Bridged, Less, Before, Parent, keys, place
  <2>6. Order' BY <2>1, <2>4, <2>5 DEF Order, place
  <2>7. QED BY <2>2, <2>3, <2>6 DEF Inv
<1>5. QED BY <1>3, <1>4

LEMMA UpEndsInv ==
  ASSUME Inv, UpEnds PROVE Inv'
<1>1. at \in Nat /\ sift = "up"
  BY SiftPlaces DEF UpEnds
<1>2. ASSUME NEW k \in Places(size), k > 0 PROVE Settled(k)
  <2>1. CASE k = at BY <1>2, <2>1 DEF UpEnds, Settled
  <2>2. CASE k # at BY <1>1, <1>2, <2>2 DEF Inv, Order
  <2>3. QED BY <2>1, <2>2
<1>3. QED BY <1>1, <1>2, SiftedInv DEF UpEnds

LEMMA PopInv ==
  ASSUME Inv, Pop PROVE Inv'
<1>1. /\ sift = "pop" /\ len \in Nat /\ len > 0 /\ leaving = {queue[len - 1]}
  BY DEF Inv, Control, TypeOK, Pop
<1> DEFINE c == queue[len - 1]
<1>2. /\ len - 1 \in Places(len) /\ len - 1 \in Nat
      /\ Places(len) = Places(len - 1) \cup {len - 1}
      /\ c \in Chats
      /\ \A k \in Places(len - 1) : k \in Places(len) /\ queue[k] \in Chats /\ queue[k] # c
  <2>1. /\ len - 1 \in Places(len) /\ len - 1 \in Nat
        /\ Places(len) = Places(len - 1) \cup {len - 1} /\ len - 1 \notin Places(len - 1)
    BY <1>1 DEF Places
  <2>2. QED BY <2>1, PlacesDistinct DEF Inv, TypeOK
<1>3. /\ len' = len - 1 /\ queue' \in [Places(len - 1) -> Chats]
      /\ \A k \in Places(len - 1) : queue'[k] = queue[k]
      /\ index' \in [Chats -> Int]
      /\ \A d \in Chats : d # c => index'[d] = index[d]
      /\ listed' = listed \ {c}
  BY <1>1, <1>2 DEF Pop, Inv, TypeOK
<1>4. TypeOK' BY <1>1, <1>2, <1>3 DEF Pop, Inv, TypeOK, keys
<1>5. IndexIsPlace' BY <1>2, <1>3 DEF Inv, IndexIsPlace
<1>6. Queued = Queued' \cup {c} /\ c \notin Queued'
  BY <1>2, <1>3 DEF Queued
<1>7. SameConversations' BY <1>3, <1>6 DEF Inv, SameConversations
<1>8. Control' BY <1>1, <1>3 DEF Pop, Control
<1>9. ASSUME NEW k \in Places(len - 1), k > 0 PROVE Settled(k)'
  <2>1. Parent(k) \in Places(len - 1) BY <1>1, <1>9, ParentFacts DEF Places
  <2>2. Settled(k) BY <1>1, <1>9 DEF Inv, Order
  <2>3. QED BY <2>1, <2>2, <1>3 DEF Pop, Settled, Less, Before, Parent, keys
<1>10. Order' BY <1>3, <1>9 DEF Pop, Order
<1>11. QED BY <1>4, <1>5, <1>7, <1>8, <1>10 DEF Inv
------------------------------------------------------------------------------
(* The handlers. *)
LEMMA KeptBut ==
  ASSUME NEW c, NEW t, time' = [time EXCEPT ![c] = t], TypeOK,
         pinned' \in {pinned \cup {c}, pinned \ {c}, pinned}
  PROVE  \A d \in Chats \ {c} : Kept(d)
BY DEF Kept, TypeOK

LEMMA NewInv ==
  ASSUME Inv, Unlocked, NEW c \in Chats, NEW t \in Times, NEW pins,
         pins \in {pinned \cup {c}, pinned \ {c}}, New(c, t, pins)
  PROVE  Inv'
<1>1. /\ c \notin listed /\ HeapPush(c) /\ listed' = listed \cup {c}
      /\ leaving = {} /\ leaving' = {} /\ InOrder
  BY DEF Unlocked, New, Inv, Control, Order, InOrder
<1>2. Book' BY <1>1, InvBook, PushBook
<1>3. \A d \in listed : Kept(d)
  BY <1>1, KeptBut DEF New, Inv, TypeOK
<1>4. Control' /\ Order' BY <1>1, <1>3, InvBook, PushOrder
<1>5. TypeOK'
  BY <1>1, <1>2 DEF New, HeapPush, Sift, Inv, TypeOK, Book
<1>6. QED BY <1>2, <1>4, <1>5 DEF Inv, Book

LEMMA UpdateInv ==
  ASSUME Inv, Unlocked, NEW c \in Chats, NEW t \in Times, NEW pins,
         pins \in {pinned \cup {c}, pinned \ {c}, pinned}, Update(c, t, pins)
  PROVE  Inv'
<1>1. /\ c \in listed /\ HeapFix(index[c]) /\ UNCHANGED <<queue, len, index, listed>>
      /\ leaving = {} /\ leaving' = {} /\ InOrder
  BY DEF Unlocked, Update, HeapFix, Inv, Control, Order, InOrder
<1>2. Book' /\ index[c] \in Places(len) BY <1>1, InvBook, FixBook
<1>3. \A d \in listed \ {c} : Kept(d)
  BY KeptBut DEF Update, Inv, TypeOK
<1>4. Control' /\ Order' BY <1>1, <1>3, InvBook, FixOrder
<1>5. TypeOK'
  BY <1>1, <1>2 DEF Update, HeapFix, Sift, Inv, TypeOK, Book, Places
<1>6. QED BY <1>2, <1>4, <1>5 DEF Inv, Book

LEMMA MergeInv ==
  ASSUME Inv, NEW lid \in DOMAIN Merged, Merge(lid)
  PROVE  Inv'
<1>1. /\ lid \in listed /\ leaving = {} /\ leaving' = {lid} /\ InOrder
      /\ HeapRemove(index[lid]) /\ UNCHANGED <<len, keys, listed>>
      /\ len \in Nat /\ len > 0
  BY DEF Merge, Unlocked, HeapRemove, Inv, Control, Order, InOrder, TypeOK
<1>2. PICK k \in Places(len) : queue[k] = lid
  BY <1>1 DEF Inv, SameConversations, Queued
<1>3. index[lid] = k /\ k \in Nat /\ k < len
  BY <1>1, <1>2 DEF Inv, IndexIsPlace, Places
<1>4. \A c, d : Before(c, d)' <=> Before(c, d)
  BY <1>1, BeforeKept DEF Kept, keys
<1>5. CASE k = len - 1
  <2>1. sift' = "pop" /\ UNCHANGED <<queue, index, place>>
    BY <1>1, <1>3, <1>5 DEF HeapRemove
  <2>2. TypeOK' /\ IndexIsPlace' /\ SameConversations'
    BY <1>1, <2>1 DEF Inv, TypeOK, IndexIsPlace, SameConversations, Queued, keys, place
  <2>3. Control' BY <1>1, <1>2, <1>5, <2>1 DEF Control
  <2>4. \A i \in Places(len) : i > 0 => Settled(i)'
    BY <1>1, <1>4, <2>1 DEF InOrder, Settled, Less, Parent
  <2>5. Order' BY <1>1, <2>1, <2>4 DEF Order, Places
  <2>6. QED BY <2>2, <2>3, <2>5 DEF Inv
<1>6. CASE k # len - 1
  <2>1. /\ Swap(k, len - 1) /\ sift' = "down" /\ at' = k /\ from' = k /\ size' = len - 1
        /\ len - 1 \in Places(len) /\ len - 1 \in Nat /\ k \in Places(len - 1)
        /\ \A i \in Places(len - 1) : i \in Places(len) /\ i \in Nat /\ i # len - 1
    BY <1>1, <1>3, <1>6 DEF HeapRemove, Sift, Places
  <2>2. /\ Book' /\ queue'[len - 1] = lid
        /\ \A i \in Places(len - 1) : i # k => queue'[i] = queue[i]
    BY <1>1, <1>2, <1>6, <2>1, SwapBook, InvBook
  <2>3. TypeOK' BY <1>1, <2>1, <2>2 DEF Inv, TypeOK, Book, keys
  <2>4. Control' BY <1>1, <1>3, <2>1, <2>2 DEF Control
  <2>5. \A i \in Places(len - 1) : i > 0 => Parent(i) \in Places(len - 1) /\ Parent(i) < i
    BY <1>1, <2>1, ParentFacts DEF Places
  <2>6. ASSUME NEW i \in Places(len - 1), i > 0, Parent(i) # k, i # k PROVE Settled(i)'
    BY <1>1, <1>4, <2>1, <2>2, <2>5, <2>6 DEF InOrder, Settled, Less, Parent
  <2>7. ASSUME NEW i \in Places(len - 1), i > 0, Parent(i) = k, k > 0
        PROVE  ~Less(i, Parent(k))'
    <3>1. ~Less(i, Parent(k))
      BY <1>1, <2>1, <2>7, Grandparent DEF InOrder, Inv, TypeOK
    <3>2. i # k /\ Parent(k) \in Places(len - 1) /\ Parent(k) # k
      BY <2>1, <2>5, <2>7
    <3>3. QED BY <1>4, <2>2, <3>1, <3>2 DEF Less, Parent
  <2>8. Bridged' BY <2>1, <2>7 DEF Bridged, Less, Before, Parent
  <2>9. Order' BY <1>3, <2>1, <2>6, <2>8 DEF Order
  <2>10. QED BY <2>2, <2>3, <2>4, <2>9 DEF Inv, Book
<1>7. QED BY <1>5, <1>6

LEMMA MergeIntoInv ==
  ASSUME Inv, MergeInto PROVE Inv'
<1>1. PICK lid \in leaving :
        /\ SetMerged(lid, Merged[lid])
        /\ IF Merged[lid] \in listed
           THEN HeapFix(index[Merged[lid]]) /\ UNCHANGED listed
           ELSE HeapPush(Merged[lid]) /\ listed' = listed \cup {Merged[lid]}
  BY DEF MergeInto
<1> DEFINE pn == Merged[lid]
<1>2. /\ lid \in Chats /\ lid \notin listed /\ pn \in Chats /\ pn # lid
      /\ leaving' = {} /\ InOrder
  BY PriorityQueueAssumption DEF Inv, TypeOK, Control, Order, InOrder, MergeInto
<1>3. PICK t \in Times : time' = [time EXCEPT ![pn] = t, ![lid] = 0]
  BY <1>1, <1>2 DEF SetMerged, Inv, TypeOK
<1>4. /\ time' \in [Chats -> Times] /\ pinned' \subseteq Chats
      /\ \A d \in listed \ {pn} : Kept(d)
  BY <1>1, <1>2, <1>3, PriorityQueueAssumption DEF SetMerged, Kept, Inv, TypeOK
<1>5. CASE pn \in listed
  <2>1. HeapFix(index[pn]) /\ UNCHANGED <<queue, len, index, listed>>
    BY <1>1, <1>5 DEF HeapFix
  <2>2. Book' /\ index[pn] \in Places(len) BY <1>5, <2>1, InvBook, FixBook
  <2>3. Control' /\ Order' BY <1>2, <1>4, <1>5, <2>1, InvBook, FixOrder
  <2>4. TypeOK'
    BY <1>2, <1>4, <2>1, <2>2 DEF HeapFix, Sift, Inv, TypeOK, Book, Places
  <2>5. QED BY <2>2, <2>3, <2>4 DEF Inv, Book
<1>6. CASE pn \notin listed
  <2>1. HeapPush(pn) /\ listed' = listed \cup {pn} BY <1>1, <1>6
  <2>2. Book' BY <1>2, <1>6, <2>1, InvBook, PushBook
  <2>3. Control' /\ Order' BY <1>2, <1>4, <1>6, <2>1, InvBook, PushOrder
  <2>4. TypeOK' BY <1>2, <1>4, <2>1, <2>2 DEF HeapPush, Sift, Inv, TypeOK, Book
  <2>5. QED BY <2>2, <2>3, <2>4 DEF Inv, Book
<1>7. QED BY <1>5, <1>6

LEMMA ResetInv ==
  ASSUME Inv, Reset PROVE Inv'
<1>1. Places(0) = {} BY DEF Places
<1>2. TypeOK' BY <1>1, PriorityQueueAssumption DEF Reset, Inv, TypeOK, place
<1>3. IndexIsPlace' /\ SameConversations'
  BY <1>1 DEF Reset, IndexIsPlace, SameConversations, Queued
<1>4. Control' BY DEF Reset, Unlocked, Inv, Control
<1>5. Order' BY <1>1 DEF Reset, Unlocked, Order
<1>6. QED BY <1>2, <1>3, <1>4, <1>5 DEF Inv

(* The state between two steps is the one the invariant describes.         *)
LEMMA InvStep ==
  ASSUME Inv, [Next]_vars PROVE Inv'
<1>1. CASE UNCHANGED vars
  BY <1>1 DEF Inv, TypeOK, IndexIsPlace, SameConversations, Queued, Control, Order,
              Bridged, Settled, Less, Before, Parent, vars, keys, place
<1>2. CASE Heap
  BY <1>2, DownSwapInv, DownEndsInv, UpSwapInv, UpEndsInv, PopInv, MergeIntoInv DEF Heap
<1>3. CASE Reset BY <1>3, ResetInv
<1>4. ASSUME NEW c \in Chats, AddGroup(c) PROVE Inv'
  BY <1>4, NewInv, PriorityQueueAssumption DEF AddGroup
<1>5. ASSUME NEW c \in DOMAIN Merged, Merge(c) PROVE Inv'
  BY <1>5, MergeInv
<1>6. ASSUME NEW c \in Chats, NEW t \in Times, Load(c, t) PROVE Inv'
  BY <1>6, NewInv DEF Load, Pins
<1>7. ASSUME NEW c \in Chats, NEW t \in Times, Arrives(c, t) PROVE Inv'
  BY <1>7, NewInv, UpdateInv DEF Arrives
<1>8. ASSUME NEW c \in Chats, NEW t \in Times, HistorySync(c, t) PROVE Inv'
  <2>1. Newer(t, time[c]) \in Times BY DEF Newer, Inv, TypeOK
  <2>2. QED BY <1>8, <2>1, NewInv, UpdateInv DEF HistorySync, Pins
<1>9. ASSUME NEW c \in Chats, NEW t \in Times, DeleteLast(c, t) PROVE Inv'
  BY <1>9, UpdateInv DEF DeleteLast
<1>10. QED
  BY <1>1, <1>2, <1>3, <1>4, <1>5, <1>6, <1>7, <1>8, <1>9 DEF Next

LEMMA InvInit ==
  ASSUME Init PROVE Inv
<1>1. Places(0) = {} BY DEF Places
<1>2. TypeOK BY <1>1, PriorityQueueAssumption DEF Init, TypeOK
<1>3. QED BY <1>1, <1>2 DEF Init, Inv, IndexIsPlace, SameConversations, Queued, Control, Order

THEOREM Invariant == Spec => []Inv
BY InvInit, InvStep, PTL DEF Spec

(* The queue and what a sift keeps have their types, in particular no sift *)
(* ever stands at a place the queue does not have (heap.Fix and            *)
(* heap.Remove would panic).                                               *)
THEOREM TypeCorrect == Spec => []TypeOK
<1>1. Inv => TypeOK BY DEF Inv
<1>2. QED BY <1>1, Invariant, PTL

(* Every Index a handler passes to heap.Fix or heap.Remove is the place of *)
(* its conversation, however many conversations there are.                 *)
THEOREM EveryIndexIsItsPlace == Spec => []IndexIsPlace
<1>1. Inv => IndexIsPlace BY DEF Inv
<1>2. QED BY <1>1, Invariant, PTL

(* No handler loses a conversation, or keeps one in only one of the queue  *)
(* and convByJID.                                                          *)
THEOREM QueueAndMapAgree == Spec => []SameConversations
<1>1. Inv => SameConversations BY DEF Inv
<1>2. QED BY <1>1, Invariant, PTL

(* Whenever sm.mu is free the queue is a heap: each handler repairs what   *)
(* it changed, and container/heap repairs it from that place.              *)
THEOREM HeapStaysOrdered == Spec => []HeapOrdered
<1>1. Inv => HeapOrdered BY DEF Inv, Order, HeapOrdered, Settled
<1>2. QED BY <1>1, Invariant, PTL
------------------------------------------------------------------------------
(* The refinement: a handler's first step changes the list, the steps of   *)
(* its sifts leave it alone, and a merge changes it when the number's chat *)
(* is in.                                                                  *)
Shown == Queued \cup leaving

LEMMA SnapshotKept ==
  ASSUME Shown' = Shown, keys' = keys
  PROVE  Snapshot' = Snapshot
BY DEF Snapshot, Shown, keys

LEMMA PutIsStep ==
  ASSUME NEW c \in Chats, NEW t \in Times, Shown' = Shown \cup {c},
         TypeOK, Shown \subseteq Chats, time' = [time EXCEPT ![c] = t],
         \A d \in Chats \ {c} : Kept(d)
  PROVE  List!Next
<1> DEFINE conv == [time |-> t, pinned |-> c \in pinned']
<1>1. conv \in List!Conversation BY DEF List!Conversation
<1>2. DOMAIN Snapshot = Shown BY DEF Snapshot, Shown
<1>3. Snapshot' = [d \in Shown' |-> [time |-> time'[d], pinned |-> d \in pinned']]
  BY DEF Snapshot, Shown
<1>4. \A d \in Shown : Snapshot[d] = [time |-> time[d], pinned |-> d \in pinned]
  BY DEF Snapshot, Shown
<1>5. ASSUME NEW d \in Shown \cup {c}
      PROVE  [time |-> time'[d], pinned |-> d \in pinned'] = IF d = c THEN conv ELSE Snapshot[d]
  <2>1. CASE d = c BY <2>1 DEF TypeOK
  <2>2. CASE d # c
    <3>1. d \in Shown /\ Kept(d) BY <1>5, <2>2
    <3>2. (d \in pinned') = (d \in pinned) BY <3>1 DEF Kept
    <3>3. QED BY <2>2, <3>1, <3>2, <1>4 DEF Kept
  <2>3. QED BY <2>1, <2>2
<1>6. Snapshot' = [d \in Shown \cup {c} |-> IF d = c THEN conv ELSE Snapshot[d]]
  BY <1>3, <1>5
<1>7. List!Put(c, conv) BY <1>2, <1>6 DEF List!Put
<1>8. QED BY <1>1, <1>7 DEF List!Next

LEMMA NewIsStep ==
  ASSUME Inv, Unlocked, NEW c \in Chats, NEW t \in Times, NEW pins,
         pins \in {pinned \cup {c}, pinned \ {c}}, New(c, t, pins)
  PROVE  List!Next
<1>1. Inv' BY NewInv
<1>2. /\ Shown = listed /\ listed' = listed \cup {c} /\ Shown \subseteq Chats
      /\ leaving' = {} /\ Queued' = listed'
  BY <1>1 DEF Inv, Unlocked, Control, SameConversations, Shown, New, TypeOK
<1>3. Shown' = Shown \cup {c} BY <1>2 DEF Shown
<1>4. \A d \in Chats \ {c} : Kept(d) BY KeptBut DEF New, Inv
<1>5. QED BY <1>2, <1>3, <1>4, PutIsStep DEF New, Inv

LEMMA UpdateIsStep ==
  ASSUME Inv, Unlocked, NEW c \in Chats, NEW t \in Times, NEW pins,
         pins \in {pinned \cup {c}, pinned \ {c}, pinned}, Update(c, t, pins)
  PROVE  List!Next
<1>1. Inv' BY UpdateInv
<1>2. /\ Shown = listed /\ listed' = listed /\ c \in listed /\ Shown \subseteq Chats
      /\ leaving' = {} /\ Queued' = listed'
  BY <1>1 DEF Inv, Unlocked, Control, SameConversations, Shown, Update, TypeOK
<1>3. Shown' = Shown \cup {c} BY <1>2 DEF Shown
<1>4. \A d \in Chats \ {c} : Kept(d) BY KeptBut DEF Update, Inv
<1>5. QED BY <1>2, <1>3, <1>4, PutIsStep DEF Update, Inv

LEMMA MergeIsHidden ==
  ASSUME Inv, NEW lid \in DOMAIN Merged, Merge(lid)
  PROVE  Snapshot' = Snapshot
<1>1. Inv' BY MergeInv
<1>2. /\ Queued = listed /\ Queued' = listed' /\ listed' = listed
      /\ lid \in listed /\ leaving = {} /\ leaving' = {lid} /\ keys' = keys
  BY <1>1 DEF Merge, Unlocked, Inv, Control, SameConversations
<1>3. Shown' = Shown BY <1>2 DEF Shown
<1>4. QED BY <1>2, <1>3, SnapshotKept

LEMMA PopIsHidden ==
  ASSUME Inv, Pop
  PROVE  Snapshot' = Snapshot
<1>1. Inv' BY PopInv
<1>2. /\ Queued = listed /\ Queued' = listed' /\ listed' = listed \ leaving
      /\ leaving' = leaving /\ keys' = keys
  BY <1>1 DEF Pop, Inv, SameConversations
<1>3. Shown' = Shown BY <1>2 DEF Shown
<1>4. QED BY <1>2, <1>3, SnapshotKept

LEMMA SiftIsHidden ==
  ASSUME Inv, DownSwap \/ DownEnds \/ UpSwap \/ UpEnds
  PROVE  Snapshot' = Snapshot
<1>1. Inv' BY DownSwapInv, DownEndsInv, UpSwapInv, UpEndsInv
<1>2. /\ Queued = listed /\ Queued' = listed' /\ listed' = listed
      /\ leaving' = leaving /\ keys' = keys
  BY <1>1 DEF DownSwap, DownEnds, UpSwap, UpEnds, Inv, SameConversations
<1>3. Shown' = Shown BY <1>2 DEF Shown
<1>4. QED BY <1>2, <1>3, SnapshotKept

(* One LID chat leaves at a time: sm.mu is held until it is merged.  And   *)
(* what is pinned is in the list, so that a number without a chat brings   *)
(* no pin of its own into a merge.                                         *)
ListInv ==
  /\ \A c, d \in leaving : c = d
  /\ pinned \subseteq listed \cup leaving

LEMMA ListInvStep ==
  ASSUME Inv, ListInv, [Next]_vars
  PROVE  ListInv'
<1>1. \/ leaving' = leaving
      \/ leaving' = {}
      \/ \E lid : leaving' = {lid}
  BY DEF Next, vars, Heap, DownSwap, DownEnds, UpSwap, UpEnds, Pop, MergeInto, Reset,
         AddGroup, Merge, Load, Arrives, HistorySync, DeleteLast, New, Update
<1>2. pinned' \subseteq listed' \cup leaving'
  <2>1. CASE UNCHANGED vars \/ DownSwap \/ DownEnds \/ UpSwap \/ UpEnds
    BY <2>1 DEF ListInv, keys, vars, DownSwap, DownEnds, UpSwap, UpEnds
  <2>2. CASE Pop BY <2>2 DEF Pop, ListInv, keys
  <2>3. CASE Reset BY <2>3 DEF Reset
  <2>4. CASE MergeInto
    <3>1. PICK lid \in leaving :
            /\ pinned' \subseteq (pinned \cup {Merged[lid]}) \ {lid}
            /\ listed' = listed \cup {Merged[lid]}
      BY <2>4 DEF MergeInto, SetMerged
    <3>2. leaving = {lid} BY <3>1 DEF ListInv
    <3>3. QED BY <3>1, <3>2 DEF ListInv
  <2>5. ASSUME NEW c, Merge(c) PROVE pinned' \subseteq listed' \cup leaving'
    BY <2>5 DEF Merge, Unlocked, Inv, Control, ListInv, keys
  <2>6. ASSUME NEW c, NEW t, NEW pins,
               pins \in {pinned, pinned \cup {c}, pinned \ {c}},
               New(c, t, pins) \/ Update(c, t, pins)
        PROVE  pinned' \subseteq listed' \cup leaving'
    BY <2>6 DEF New, Update, ListInv
  <2>7. QED
    BY <2>1, <2>2, <2>3, <2>4, <2>5, <2>6
       DEF Next, Heap, AddGroup, Load, Arrives, HistorySync, DeleteLast, Pins
<1>3. QED BY <1>1, <1>2 DEF ListInv

LEMMA MergeIntoIsStep ==
  ASSUME Inv, ListInv, MergeInto
  PROVE  List!Next
<1>1. PICK lid \in leaving :
        /\ SetMerged(lid, Merged[lid])
        /\ listed' = listed \cup {Merged[lid]}
  <2>1. PICK lid \in leaving :
          /\ SetMerged(lid, Merged[lid])
          /\ IF Merged[lid] \in listed
             THEN HeapFix(index[Merged[lid]]) /\ UNCHANGED listed
             ELSE HeapPush(Merged[lid]) /\ listed' = listed \cup {Merged[lid]}
    BY DEF MergeInto
  <2>2. QED BY <2>1
<1> DEFINE pn == Merged[lid]
<1>2. /\ lid \in DOMAIN Merged /\ lid \in Chats /\ pn \in Chats /\ pn # lid
      /\ lid \notin listed
  BY PriorityQueueAssumption DEF Inv, TypeOK, Control, MergeInto
<1>3. Inv' BY MergeIntoInv
<1>4. leaving = {lid} /\ leaving' = {}
  BY <1>1 DEF ListInv, MergeInto
<1>5. Shown = listed \cup {lid} /\ Shown' = (Shown \ {lid}) \cup {pn}
  BY <1>1, <1>2, <1>3, <1>4 DEF Inv, SameConversations, Shown
<1>6. /\ DOMAIN Snapshot = Shown
      /\ \A d \in Shown : Snapshot[d] = [time |-> time[d], pinned |-> d \in pinned]
      /\ Snapshot' = [d \in Shown' |-> [time |-> time'[d], pinned |-> d \in pinned']]
  BY DEF Snapshot, Shown
<1> DEFINE both == {lid, pn} \cap DOMAIN Snapshot
<1>7. both = {lid} \cup (listed \cap {pn}) /\ lid \in both /\ both \subseteq Shown
  BY <1>2, <1>5, <1>6
<1>8. /\ \E last \in both :
           /\ \A c \in both : time[c] <= time[last]
           /\ time' = [time EXCEPT ![pn] = time[last], ![lid] = 0]
      /\ pinned' = (pinned \cup IF both \cap pinned # {} THEN {pn} ELSE {}) \ {lid}
  <2> HIDE DEF both
  <2>1. both = {lid} \cup (listed \cap {pn}) BY <1>7
  <2>2. PICK t \in {time[c] : c \in both} :
          /\ \A c \in both : time[c] <= t
          /\ time' = [time EXCEPT ![pn] = t, ![lid] = 0]
    BY <1>1, <2>1 DEF SetMerged
  <2>3. PICK last \in both : t = time[last] BY <2>2
  <2>4. QED BY <1>1, <2>1, <2>2, <2>3 DEF SetMerged
<1>9. PICK last \in both :
         /\ \A c \in both : time[c] <= time[last]
         /\ time' = [time EXCEPT ![pn] = time[last], ![lid] = 0]
  BY <1>8
<1>10. /\ \A c \in both : Snapshot[c].time <= Snapshot[last].time
       /\ Snapshot[last].time = time[last]
       /\ (\E d \in both : Snapshot[d].pinned) <=> both \cap pinned # {}
  <2> HIDE DEF both
  <2>1. \A c \in both : Snapshot[c].time = time[c] BY <1>6, <1>7
  <2>2. ASSUME NEW d \in both PROVE Snapshot[d].pinned = (d \in pinned)
    <3> DEFINE p == d \in pinned
    <3>1. Snapshot[d] = [time |-> time[d], pinned |-> p] BY <1>6, <1>7
    <3> HIDE DEF p
    <3>2. Snapshot[d].pinned = p BY <3>1
    <3>3. QED BY <3>2 DEF p
  <2>3. QED BY <1>9, <2>1, <2>2
<1> DEFINE merged == [time |-> Snapshot[last].time,
                      pinned |-> \E d \in both : Snapshot[d].pinned]
<1>11. ASSUME NEW c \in (Shown \ {lid}) \cup {pn}
       PROVE  [time |-> time'[c], pinned |-> c \in pinned']
                = IF c = pn THEN merged ELSE Snapshot[c]
  <2>1. CASE c = pn
    <3>1. time'[c] = time[last] BY <2>1, <1>2, <1>9 DEF Inv, TypeOK
    <3>2. (c \in pinned') <=> (both \cap pinned # {})
      <4>1. pn \in pinned => pn \in both
        BY <1>2, <1>4, <1>7 DEF ListInv
      <4> HIDE DEF both
      <4>2. QED BY <2>1, <4>1, <1>2, <1>8
    <3>3. (c \in pinned') = (\E d \in both : Snapshot[d].pinned)
      <4> DEFINE p == c \in pinned'
                 q == \E d \in both : Snapshot[d].pinned
      <4>1. (p <=> q) /\ p \in BOOLEAN /\ q \in BOOLEAN BY <3>2, <1>10
      <4> HIDE DEF p, q
      <4>2. p = q BY <4>1
      <4>3. QED BY <4>2 DEF p, q
    <3>4. QED BY <2>1, <3>1, <3>3, <1>10
  <2>2. CASE c # pn
    <3>1. c \in Shown /\ c \in Chats /\ c # lid
      BY <2>2, <1>5, <1>11 DEF Inv, TypeOK
    <3>2. time'[c] = time[c] BY <2>2, <3>1, <1>2, <1>9 DEF Inv, TypeOK
    <3>3. (c \in pinned') = (c \in pinned)
      BY <2>2, <3>1, <1>8
    <3>4. QED BY <2>2, <3>1, <3>2, <3>3, <1>6
  <2>3. QED BY <2>1, <2>2
<1>12. Snapshot' = [c \in (DOMAIN Snapshot \ {lid}) \cup {pn} |->
                      IF c = pn THEN merged ELSE Snapshot[c]]
  BY <1>5, <1>6, <1>11
<1>13. List!Merge(lid)
  BY <1>7, <1>10, <1>12 DEF List!Merge
<1>14. QED BY <1>2, <1>13 DEF List!Next

LEMMA StepIsListStep ==
  ASSUME Inv, ListInv, [Next]_vars
  PROVE  [List!Next]_Snapshot
<1>1. CASE UNCHANGED vars
  <2>1. Shown' = Shown /\ keys' = keys
    BY <1>1 DEF vars, keys, Shown, Queued
  <2>2. QED BY <2>1, SnapshotKept
<1>2. CASE Heap
  BY <1>2, SiftIsHidden, PopIsHidden, MergeIntoIsStep DEF Heap
<1>3. CASE Reset
  <2>1. Shown' = {} BY <1>3 DEF Reset, Unlocked, Inv, Control, Shown, Queued, Places
  <2>2. List!Clear BY <2>1 DEF List!Clear, Snapshot, Shown
  <2>3. QED BY <2>2 DEF List!Next
<1>4. ASSUME NEW c \in Chats, AddGroup(c) PROVE List!Next
  BY <1>4, NewIsStep, PriorityQueueAssumption DEF AddGroup
<1>5. ASSUME NEW c \in DOMAIN Merged, Merge(c) PROVE Snapshot' = Snapshot
  BY <1>5, MergeIsHidden
<1>6. ASSUME NEW c \in Chats, NEW t \in Times, Load(c, t) PROVE List!Next
  BY <1>6, NewIsStep DEF Load, Pins
<1>7. ASSUME NEW c \in Chats, NEW t \in Times, Arrives(c, t) PROVE List!Next
  BY <1>7, NewIsStep, UpdateIsStep DEF Arrives
<1>8. ASSUME NEW c \in Chats, NEW t \in Times, HistorySync(c, t) PROVE List!Next
  <2>1. Newer(t, time[c]) \in Times BY DEF Newer, Inv, TypeOK
  <2>2. QED BY <1>8, <2>1, NewIsStep, UpdateIsStep DEF HistorySync, Pins
<1>9. ASSUME NEW c \in Chats, NEW t \in Times, DeleteLast(c, t) PROVE List!Next
  BY <1>9, UpdateIsStep DEF DeleteLast
<1>10. QED
  BY <1>1, <1>2, <1>3, <1>4, <1>5, <1>6, <1>7, <1>8, <1>9 DEF Next

(* What snapshotPQ shows behaves as a list in which every handler does one *)
(* thing: whatever the heap exchanges on the way, no step changes or loses *)
(* a conversation the handler is not about, and the merge of a LID chat is *)
(* one step that keeps the newer time and either pin.                      *)
THEOREM QueueIsList == Spec => ImplementsList
<1>1. Init => List!Init
  BY DEF Init, List!Init, Snapshot, Queued, Places
<1>2. Init => ListInv BY DEF Init, ListInv
<1>3. QED BY <1>1, <1>2, ListInvStep, StepIsListStep, Invariant, PTL
          DEF Spec, ImplementsList, List!Spec
==============================================================================
