------------------------ MODULE ChannelEndpoint_proof ------------------------
(***************************************************************************)
(* Proofs about ChannelEndpoint: the invariants of one end of a channel,   *)
(* for any number of threads, items and calls.                             *)
(*                                                                         *)
(* IInv is inductive.  Its parts say where the threads can stand together  *)
(* (LockInv, ReceiverInv), what the place of the channel in the factory    *)
(* says of its life and of who closed it (ObjectInv, ClosedInv), who may   *)
(* still call the callback with the endmarker and that nothing follows it  *)
(* (TokenInv, LastInv), that an error is kept until it is raised           *)
(* (ErrorInv), that ENDMARKER is on its way to a callback that waits for   *)
(* it (WakeInv), and which items the queue holds (ItemInv).                *)
(***************************************************************************)
EXTENDS ChannelEndpoint, TLAPS, FiniteSetTheorems

Holding == {"drain", "check", "register"}
Handling == {"close", "putend", "pop", "endcall", "set"}
Over == {"rest", "lastcall", "done", "dead"}
Stopped == {"terminate", "crash", "eof"}

HasEnd == \E i \in DOMAIN queue : queue[i] = EndMarker

\* _local_close() has found the channel and is not through.
Committed == rpc \in {"putend", "pop", "endcall", "set"} /\ rchan

\* One thread has _receivelock.
LockInv ==
  /\ Draining => ~ReceiverHoldsLock
  /\ \A u, v \in User : upc[u] \in Holding /\ upc[v] \in Holding => u = v

\* Where the receiver thread stands and what it handles.
ReceiverInv ==
  /\ rpc = "idle" => rmsg \notin Stopped
  /\ rpc \in {"put", "call", "senderror"} => rmsg = "data"
  /\ rpc \in Handling => rmsg \in ClosingMessage \cup {"text", "eof"}
  /\ rpc = "finish" => rmsg \in Stopped
  /\ rpc \in Over => rmsg = "eof"
  /\ finished <=> rmsg = "eof" /\ rpc # "finish"
  /\ rmsg \in ClosingMessage => peerclosed
  /\ rmsg = "text" => out # {}
  /\ rpc \in {"idle", "finish"} \cup Over => ~rchan
  /\ rpc \in {"putend", "set"} => rchan
  /\ rpc = "putend" /\ rmsg # "eof" => rqueue = items

\* The life of the object.
ObjectInv ==
  /\ listed \/ rchan => object = "alive"
  /\ object # "alive" => \A u \in User : upc[u] = "idle"
  /\ object = "unborn" =>
       /\ items /\ ~rclosed /\ errors = <<>> /\ raised = 0
       /\ rpc \in {"idle", "finish", "rest", "done"}
  /\ rpc = "pop" /\ ~rchan => ~listed
  /\ rpc \in {"endcall", "set"} \cup Over => ~listed
  /\ rpc = "put" /\ ~rchan => ~listed
  /\ \A u \in User : upc[u] \in {"get", "putback"} => u \in Getter

\* Who has closed the channel, and what the peer knows of it.
ClosedInv ==
  /\ rclosed <=> closedby # "none"
  /\ closed => rclosed
  /\ closedby \in {"none", "local", "text", "eof"} \cup ClosingMessage
  /\ closedby = "eof" => finished
  /\ closedby \in ClosingMessage => peerclosed
  /\ rclosed \/ object = "deleted" => out # {} \/ peerclosed \/ finished
  /\ \A u \in User :
       /\ upc[u] = "mark" => rclosed \/ out # {}
       /\ upc[u] \in {"readqueue", "putend", "pop"} => rclosed
  /\ object = "alive" /\ ~listed =>
       rclosed \/ Ends # {} \/ (rpc \in {"endcall", "set"} /\ rchan)

\* The right to call the callback with the endmarker: it goes from the queue to
\* setcallback(), to _callbacks, and to the one who takes the callback out.
TokenInv ==
  /\ items => /\ ~registered /\ callback = "none" /\ ~Draining
              /\ rpc \notin {"call", "endcall", "lastcall"}
              /\ \A u \in User : upc[u] # "endcall"
              /\ seen = <<>>
  /\ Draining \/ registered =>
       rpc \notin {"endcall", "lastcall"} /\ \A u \in User : upc[u] # "endcall"
  /\ Draining => ~registered /\ rpc # "call"
  /\ rpc \in {"endcall", "lastcall"} => \A u \in User : upc[u] # "endcall"
  /\ \A u, v \in User : upc[u] = "endcall" /\ upc[v] = "endcall" => u = v
  /\ Draining \/ registered \/ rpc \in {"endcall", "lastcall"}
       \/ (\E u \in User : upc[u] = "endcall") => Ends = {}

\* Nothing comes after the endmarker.
LastInv ==
  /\ \E k \in Nat : Ends \subseteq {k}
  /\ closedby # "local" => Ends \subseteq {Len(seen)}
  /\ rpc = "call" /\ ~registered => closedby = "local"
  /\ registered \/ (\E u \in User : upc[u] = "register") =>
       closedby \in {"none", "local", "eof"}
  /\ rpc \in {"endcall", "lastcall"} => closedby \in {"none", "local", "eof"}
  /\ rpc = "set" /\ rmsg # "eof" => ~registered

\* An error is kept until it is raised.
ErrorInv ==
  /\ errors \in {<<>>, <<"error">>, <<"text">>}
  /\ raised = 0 \/ (raised = 1 /\ errors = <<>>)
  /\ listed /\ ~Committed => errors = <<>> /\ raised = 0
  /\ (Committed /\ rmsg = "error") \/ closedby = "error" =>
       errors = <<"error">> \/ raised = 1
  /\ HasEnd \/ (\E u \in User : upc[u] = "putback" \/ result[u] # "none") =>
       closedby # "none" \/ (Committed /\ rpc # "putend") \/ rmsg \in Stopped
  /\ (\E u \in User : result[u] \in {"ok", "EOFError"}) =>
       \/ raised = 1
       \/ closedby \notin {"none", "error"}
       \/ closedby = "none" /\ Committed /\ rpc # "putend" /\ rmsg # "error"
       \/ closedby = "none" /\ rmsg \in Stopped
  /\ \A u \in User : result[u] = "ok" => rclosed /\ ~(closedby = "eof" /\ eoferror)

\* The peer has closed the channel, and ENDMARKER is in the queue if there is one.
PeerEnded ==
  \/ closedby \in ClosingMessage
  \/ rpc \in {"pop", "endcall", "set"} /\ rchan /\ rmsg \in ClosingMessage

EndComes == Ends # {} \/ EndTaken \/ \E u \in User : upc[u] = "endcall"

\* The endmarker is on its way to the callback.
WakeInv ==
  /\ PeerEnded /\ (items \/ \E u \in User : upc[u] = "drain") => HasEnd \/ EndTaken
  /\ PeerEnded /\ (\E u \in User : upc[u] \in {"check", "register"}) => EndTaken
  /\ callback = "endmarker" /\ ~items /\ ~Draining =>
       \/ registered \/ EndComes \/ rpc \in {"endcall", "lastcall"}
       \/ closedby \in {"local", "text", "eof"}

\* The items that arrived and are not in the receiver thread's hand.
Arrived == nsent - InHand

\* An item was dropped, and there will be no use for those that follow.
Lost ==
  /\ ~registered /\ rpc # "call" /\ ~(rpc = "put" /\ rchan /\ items)
  /\ \A u \in User : upc[u] # "register"
  /\ ~listed \/ ~items
  /\ object = "deleted" \/ rclosed \/ (~items /\ ~Draining)

\* The item at i in q is one from n + 1 to m, and all of those before it come before it.
Placed(q, n, m, i) ==
  /\ q[i] \in n + 1 .. m
  /\ \A k \in n + 1 .. m : k <= q[i] => \E j \in 1..i : q[j] = k
  /\ \A j \in DOMAIN q : q[j] = q[i] => j = i

InOrder(q, n, m) == \A i \in DOMAIN q : q[i] # EndMarker => Placed(q, n, m, i)

Covers(q, n, m) == \A k \in n + 1 .. m : \E i \in DOMAIN q : q[i] = k

EndsOnly(q) == \A i \in DOMAIN q : q[i] = EndMarker

\* The queue holds the items that follow those that were taken.
ItemInv ==
  /\ Len(taken) <= Arrived
  /\ \A i \in DOMAIN taken : taken[i] = i
  /\ InOrder(queue, Len(taken), Arrived)
  /\ registered \/ rpc = "call" \/ (\E u \in User : upc[u] \in {"check", "register"}) =>
       EndsOnly(queue)
  /\ rpc = "put" => ~registered
  /\ Lost \/ Covers(queue, Len(taken), Arrived)

ChannelTypes ==
  /\ object \in {"unborn", "alive", "deleted"}
  /\ items \in BOOLEAN
  /\ queue \in Seq(1..MaxItems \cup {EndMarker})
  /\ closed \in BOOLEAN
  /\ rclosed \in BOOLEAN
  /\ errors \in Seq({"error", "text"})
  /\ listed \in BOOLEAN
  /\ callback \in {"none", "plain", "endmarker"}
  /\ registered \in BOOLEAN

ReceiverTypes ==
  /\ finished \in BOOLEAN
  /\ eoferror \in BOOLEAN
  /\ rpc \in {"idle", "put", "call", "senderror", "close", "putend", "pop",
              "endcall", "set", "finish", "rest", "lastcall", "done", "dead"}
  /\ rmsg \in Cause
  /\ rchan \in BOOLEAN
  /\ rqueue \in BOOLEAN
  /\ nsent \in 0..MaxItems
  /\ peerclosed \in BOOLEAN
  /\ broken \in BOOLEAN
  /\ out \in SUBSET {"close", "closeerror", "last"}

UserTypes ==
  /\ upc \in [User -> {"idle", "drain", "check", "register", "get", "putback",
                       "waitclose", "sendclose", "mark", "readqueue", "putend",
                       "pop", "endcall"}]
  /\ calls \in [User -> Nat]
  /\ taken \in Seq(1..MaxItems)
  /\ seen \in Seq(1..MaxItems \cup {EndMarker})
  /\ closedby \in {"none", "local"} \cup Cause
  /\ result \in [User -> {"none", "ok", "EOFError", "RemoteError", "TypeError"}]
  /\ raised \in Nat

IInv ==
  /\ TypeOK /\ LockInv /\ ReceiverInv /\ ObjectInv /\ ClosedInv /\ TokenInv
  /\ LastInv /\ ErrorInv /\ WakeInv /\ ItemInv

-----------------------------------------------------------------------------
(* What an append to a sequence, or the loss of its head, changes.         *)

Item == 1..MaxItems

\* The endmarkers the callback has seen are those in seen.
LEMMA EndsKept == UNCHANGED seen => UNCHANGED Ends
BY DEF Ends

\* A call of the callback adds one when it is a call with the endmarker.
LEMMA EndsAppended ==
  ASSUME TypeOK, NEW x \in Item \cup {EndMarker}, seen' = Append(seen, x)
  PROVE  /\ Ends' = IF x = EndMarker THEN Ends \cup {Len(seen')} ELSE Ends
         /\ Len(seen') = Len(seen) + 1 /\ Len(seen) \in Nat
         /\ Ends \subseteq 1..Len(seen)
BY DEF TypeOK, Ends, Item

\* The item in the receiver thread's hand is the last one that was sent.
LEMMA InHandFacts ==
  ASSUME IInv
  PROVE  /\ Arrived \in Nat /\ Len(taken) \in Nat
         /\ rpc \in {"put", "call"} =>
              nsent \in Item /\ nsent # EndMarker /\ Arrived = nsent - 1
         /\ queue \in Seq(Item \cup {EndMarker}) /\ taken \in Seq(Item)
BY EndpointAssumption DEF IInv, TypeOK, ItemInv, Arrived, InHand, Item

\* The callback is called with an item.
LEMMA ItemSeen ==
  ASSUME IInv, CallCallback \/ (\E u \in User : DrainItem(u))
  PROVE  UNCHANGED Ends
<1>1. CASE CallCallback
  BY <1>1, InHandFacts, EndsAppended DEF CallCallback, IInv
<1>2. ASSUME NEW u \in User, DrainItem(u) PROVE UNCHANGED Ends
  <2>1. Head(queue) \in Item /\ Head(queue) # EndMarker
    BY <1>2 DEF DrainItem, IInv, TypeOK, Item
  <2> QED
    BY <1>2, <2>1, EndsAppended DEF DrainItem, IInv
<1> QED
  BY <1>1, <1>2

\* The callback is called with the endmarker.
LEMMA EndSeen ==
  ASSUME IInv, seen' = Append(seen, EndMarker)
  PROVE  Ends' = Ends \cup {Len(seen')} /\ Len(seen') \in Nat
BY EndsAppended DEF IInv

\* Whether ENDMARKER is queued depends on the queue alone,
LEMMA HasEndKept == UNCHANGED queue => (HasEnd' <=> HasEnd)
BY DEF HasEnd

\* and changes when it is appended, not when an item comes or goes.
LEMMA HasEndFacts ==
  ASSUME IInv
  PROVE  /\ UNCHANGED queue => (HasEnd' <=> HasEnd)
         /\ \A x : queue' = Append(queue, x) => (HasEnd' <=> HasEnd \/ x = EndMarker)
         /\ queue # <<>> /\ Head(queue) # EndMarker /\ queue' = Tail(queue) =>
              (HasEnd' <=> HasEnd)
<1> USE DEF IInv, TypeOK, HasEnd
<1>1. UNCHANGED queue => (HasEnd' <=> HasEnd)
  OBVIOUS
<1>2. ASSUME NEW x, queue' = Append(queue, x) PROVE HasEnd' <=> HasEnd \/ x = EndMarker
  <2>1. /\ DOMAIN queue' = 1..Len(queue) + 1 /\ DOMAIN queue = 1..Len(queue)
        /\ Len(queue) \in Nat /\ queue'[Len(queue) + 1] = x
        /\ \A i \in 1..Len(queue) : queue'[i] = queue[i]
    BY <1>2
  <2>2. HasEnd => HasEnd'
    <3> SUFFICES ASSUME NEW i \in 1..Len(queue), queue[i] = EndMarker PROVE HasEnd'
      BY <2>1
    <3>1. i \in DOMAIN queue' /\ queue'[i] = EndMarker
      BY <2>1
    <3> QED
      BY <3>1
  <2>3. x = EndMarker => HasEnd'
    <3>1. Len(queue) + 1 \in DOMAIN queue'
      BY <2>1
    <3> QED
      BY <2>1, <3>1
  <2>4. ASSUME HasEnd', x # EndMarker PROVE HasEnd
    <3>1. PICK i \in 1..Len(queue) + 1 : queue'[i] = EndMarker
      BY <2>1, <2>4
    <3>2. i \in 1..Len(queue)
      BY <2>1, <2>4, <3>1
    <3> QED
      BY <2>1, <3>1, <3>2
  <2> QED
    BY <2>2, <2>3, <2>4
<1>3. ASSUME queue # <<>>, Head(queue) # EndMarker, queue' = Tail(queue)
      PROVE  HasEnd' <=> HasEnd
  <2>1. /\ DOMAIN queue' = 1..Len(queue) - 1 /\ DOMAIN queue = 1..Len(queue)
        /\ Len(queue) \in Nat \ {0} /\ queue[1] # EndMarker
        /\ \A i \in 1..Len(queue) - 1 : queue'[i] = queue[i + 1]
    BY <1>3
  <2>2. HasEnd => HasEnd'
    <3> SUFFICES ASSUME NEW i \in 1..Len(queue), queue[i] = EndMarker PROVE HasEnd'
      BY <2>1
    <3>1. i - 1 \in 1..Len(queue) - 1 /\ queue'[i - 1] = EndMarker
      BY <2>1
    <3> QED
      BY <2>1, <3>1
  <2>3. HasEnd' => HasEnd
    <3> SUFFICES ASSUME NEW i \in 1..Len(queue) - 1, queue'[i] = EndMarker PROVE HasEnd
      BY <2>1
    <3>1. i + 1 \in DOMAIN queue /\ queue[i + 1] = EndMarker
      BY <2>1
    <3> QED
      BY <3>1
  <2> QED
    BY <2>2, <2>3
<1> QED
  BY <1>1, <1>2, <1>3

\* ENDMARKER is put into the queue, or taken out of it.
LEMMA EndInQueue ==
  ASSUME NEW q \in Seq(Item \cup {EndMarker}), NEW n \in Nat, NEW m \in Nat
  PROVE  /\ InOrder(q, n, m) => InOrder(Append(q, EndMarker), n, m)
         /\ Covers(q, n, m) => Covers(Append(q, EndMarker), n, m)
         /\ EndsOnly(q) => EndsOnly(Append(q, EndMarker))
         /\ q # <<>> /\ Head(q) = EndMarker =>
              /\ InOrder(q, n, m) => InOrder(Tail(q), n, m)
              /\ Covers(q, n, m) => Covers(Tail(q), n, m)
              /\ EndsOnly(q) => EndsOnly(Tail(q))
<1> USE EndpointAssumption DEF InOrder, Covers, EndsOnly, Item
<1>1. InOrder(q, n, m) => InOrder(Append(q, EndMarker), n, m)
  BY DEF Placed
<1>2. Covers(q, n, m) => Covers(Append(q, EndMarker), n, m)
  OBVIOUS
<1>3. EndsOnly(q) => EndsOnly(Append(q, EndMarker))
  OBVIOUS
<1>4. ASSUME q # <<>>, Head(q) = EndMarker
      PROVE  /\ InOrder(q, n, m) => InOrder(Tail(q), n, m)
             /\ Covers(q, n, m) => Covers(Tail(q), n, m)
             /\ EndsOnly(q) => EndsOnly(Tail(q))
  <2>1. /\ DOMAIN q = 1..Len(q) /\ DOMAIN Tail(q) = 1..Len(q) - 1 /\ Len(q) \in Nat \ {0}
        /\ q[1] = EndMarker /\ \A i \in 1..Len(q) - 1 : Tail(q)[i] = q[i + 1]
        /\ \A i \in 1..Len(q) : q[i] \in 1..MaxItems \cup {EndMarker}
    BY <1>4
  <2>2. EndsOnly(q) => EndsOnly(Tail(q))
    BY <2>1
  <2>3. Covers(q, n, m) => Covers(Tail(q), n, m)
    <3> SUFFICES ASSUME NEW k \in n + 1 .. m, NEW i \in 1..Len(q), q[i] = k
                 PROVE  \E j \in 1..Len(q) - 1 : Tail(q)[j] = k
      BY <2>1
    <3>1. i - 1 \in 1..Len(q) - 1 /\ Tail(q)[i - 1] = k
      BY <2>1
    <3> QED
      BY <3>1
  <2>4. ASSUME InOrder(q, n, m) PROVE InOrder(Tail(q), n, m)
    <3> SUFFICES ASSUME NEW i \in 1..Len(q) - 1, q[i + 1] # EndMarker
                 PROVE  Placed(Tail(q), n, m, i)
      BY <2>1
    <3>1. i + 1 \in 1..Len(q) /\ Placed(q, n, m, i + 1)
      BY <2>1, <2>4
    <3>2. ASSUME NEW k \in n + 1 .. m, k <= q[i + 1] PROVE \E j \in 1..i : Tail(q)[j] = k
      <4>1. PICK j \in 1..i + 1 : q[j] = k
        BY <3>1, <3>2 DEF Placed
      <4>2. j - 1 \in 1..i /\ Tail(q)[j - 1] = k
        BY <2>1, <4>1
      <4> QED
        BY <4>2
    <3>3. ASSUME NEW j \in 1..Len(q) - 1, q[j + 1] = q[i + 1] PROVE j = i
      <4>1. j + 1 = i + 1
        BY <2>1, <3>1, <3>3 DEF Placed
      <4> QED
        BY <4>1
    <3> QED
      BY <2>1, <3>1, <3>2, <3>3 DEF Placed
  <2> QED
    BY <2>2, <2>3, <2>4
<1> QED
  BY <1>1, <1>2, <1>3, <1>4

\* The next item is put into the queue.
LEMMA ItemQueued ==
  ASSUME NEW q \in Seq(Item \cup {EndMarker}), NEW n \in Nat, NEW m \in Nat, n <= m,
         m + 1 \in Item, InOrder(q, n, m), Covers(q, n, m)
  PROVE  InOrder(Append(q, m + 1), n, m + 1) /\ Covers(Append(q, m + 1), n, m + 1)
<1> DEFINE r == Append(q, m + 1)
<1> USE EndpointAssumption DEF Item
<1>1. /\ DOMAIN q = 1..Len(q) /\ DOMAIN r = 1..Len(q) + 1 /\ Len(q) \in Nat
      /\ r[Len(q) + 1] = m + 1 /\ \A i \in 1..Len(q) : r[i] = q[i]
      /\ \A i \in 1..Len(q) : q[i] \in 1..MaxItems \cup {EndMarker}
  OBVIOUS
<1>2. \A i \in 1..Len(q) : q[i] # m + 1
  BY <1>1 DEF InOrder, Placed
<1> HIDE DEF r
<1>3. Covers(r, n, m + 1)
  BY <1>1 DEF Covers
<1>4. ASSUME NEW i \in 1..Len(q), q[i] # EndMarker PROVE Placed(r, n, m + 1, i)
  <2>1. Placed(q, n, m, i)
    BY <1>1, <1>4 DEF InOrder
  <2>2. r[i] \in n + 1 .. m /\ r[i] = q[i]
    BY <1>1, <2>1 DEF Placed
  <2>3. ASSUME NEW k \in n + 1 .. m + 1, k <= r[i] PROVE \E j \in 1..i : r[j] = k
    BY <1>1, <2>1, <2>2, <2>3 DEF Placed
  <2>4. ASSUME NEW j \in 1..Len(q) + 1, r[j] = r[i] PROVE j = i
    <3>1. j # Len(q) + 1
      BY <1>1, <2>2, <2>4
    <3>2. j \in DOMAIN q /\ q[j] = q[i]
      BY <1>1, <2>2, <2>4, <3>1
    <3> QED
      BY <2>1, <3>2 DEF Placed
  <2> QED
    BY <1>1, <2>2, <2>3, <2>4 DEF Placed
<1>5. Placed(r, n, m + 1, Len(q) + 1)
  BY <1>1, <1>2, <1>3 DEF Covers, Placed
<1>6. InOrder(r, n, m + 1)
  BY <1>1, <1>4, <1>5 DEF InOrder
<1> QED
  BY <1>3, <1>6 DEF r

\* The first item is taken out of it.
LEMMA ItemTaken ==
  ASSUME NEW q \in Seq(Item \cup {EndMarker}), NEW n \in Nat, NEW m \in Nat,
         q # <<>>, Head(q) # EndMarker, InOrder(q, n, m)
  PROVE  /\ Head(q) = n + 1 /\ n + 1 <= m
         /\ InOrder(Tail(q), n + 1, m)
         /\ Covers(q, n, m) => Covers(Tail(q), n + 1, m)
<1> DEFINE r == Tail(q)
<1> USE EndpointAssumption DEF Item
<1>1. /\ DOMAIN q = 1..Len(q) /\ DOMAIN r = 1..Len(q) - 1 /\ Len(q) \in Nat \ {0}
      /\ q[1] = Head(q) /\ \A i \in 1..Len(q) - 1 : r[i] = q[i + 1]
      /\ \A i \in 1..Len(q) : q[i] \in 1..MaxItems \cup {EndMarker}
  OBVIOUS
<1>2. Placed(q, n, m, 1)
  BY <1>1 DEF InOrder
<1>3. q[1] = n + 1 /\ n + 1 <= m
  BY <1>1, <1>2 DEF Placed
<1> HIDE DEF r
<1>4. ASSUME NEW i \in 1..Len(q) - 1, q[i + 1] # EndMarker PROVE Placed(r, n + 1, m, i)
  <2>1. i + 1 \in 1..Len(q) /\ Placed(q, n, m, i + 1)
    BY <1>1, <1>4 DEF InOrder
  <2>2. r[i] = q[i + 1] /\ q[i + 1] \in n + 2 .. m
    BY <1>1, <1>2, <1>3, <2>1 DEF Placed
  <2>3. ASSUME NEW k \in n + 2 .. m, k <= r[i] PROVE \E j \in 1..i : r[j] = k
    <3>1. PICK j \in 1..i + 1 : q[j] = k
      BY <2>1, <2>2, <2>3 DEF Placed
    <3>2. j - 1 \in 1..i /\ r[j - 1] = k
      BY <1>1, <1>3, <3>1
    <3> QED
      BY <3>2
  <2>4. ASSUME NEW j \in 1..Len(q) - 1, r[j] = r[i] PROVE j = i
    <3>1. j + 1 \in DOMAIN q /\ q[j + 1] = q[i + 1]
      BY <1>1, <2>2, <2>4
    <3>2. j + 1 = i + 1
      BY <2>1, <3>1 DEF Placed
    <3> QED
      BY <3>2
  <2> QED
    BY <1>1, <2>2, <2>3, <2>4 DEF Placed
<1>5. InOrder(r, n + 1, m)
  BY <1>1, <1>4 DEF InOrder
<1>6. ASSUME Covers(q, n, m) PROVE Covers(r, n + 1, m)
  <2> SUFFICES ASSUME NEW k \in n + 2 .. m PROVE \E i \in DOMAIN r : r[i] = k
    BY DEF Covers
  <2>1. PICK i \in 1..Len(q) : q[i] = k
    BY <1>1, <1>6 DEF Covers
  <2>2. i # 1
    BY <1>3, <2>1
  <2>3. i - 1 \in 1..Len(q) - 1 /\ r[i - 1] = k
    BY <1>1, <2>1, <2>2
  <2> QED
    BY <1>1, <2>3
<1> QED
  BY <1>1, <1>3, <1>5, <1>6 DEF r

\* An item that is not queued changes nothing for the others.
LEMMA ItemLate ==
  ASSUME NEW q \in Seq(Item \cup {EndMarker}), NEW n \in Nat, NEW m \in Nat, InOrder(q, n,
     m)
  PROVE  InOrder(q, n, m + 1)
BY DEF InOrder, Placed

\* A queue without items covers no items.
LEMMA EndsOnlyFacts ==
  ASSUME NEW q \in Seq(Item \cup {EndMarker}), NEW n \in Nat, NEW m \in Nat, EndsOnly(q)
  PROVE  /\ InOrder(q, n, m)
         /\ Covers(q, n, m) /\ n <= m => n = m
         /\ Covers(q, n, n)
<1>1. ASSUME Covers(q, n, m), n < m PROVE FALSE
  <2>1. PICK i \in DOMAIN q : q[i] = n + 1
    BY <1>1 DEF Covers
  <2> QED
    BY <2>1, EndpointAssumption DEF EndsOnly
<1> QED
  BY <1>1 DEF InOrder, EndsOnly, Covers

\* The user's thread raises what is kept, if anything is.
LEMMA RaisedOnce ==
  ASSUME ErrorInv, NEW u, NEW otherwise, RaiseRemoteError(u, otherwise)
  PROVE  \/ /\ errors = <<>> /\ UNCHANGED <<errors, raised>>
            /\ result' = [result EXCEPT ![u] = IF eoferror THEN "EOFError" ELSE otherwise]
         \/ /\ errors = <<"error">> /\ errors' = <<>> /\ raised = 0 /\ raised' = 1
            /\ result' = [result EXCEPT ![u] = "RemoteError"]
         \/ /\ errors = <<"text">> /\ errors' = <<>> /\ raised = 0 /\ raised' = 0
            /\ result' = [result EXCEPT ![u] = "TypeError"]
<1>1. CASE errors = <<>>
  BY <1>1 DEF RaiseRemoteError
<1>2. CASE errors = <<"error">>
  <2>1. errors # <<>> /\ Head(errors) = "error" /\ Tail(errors) = <<>>
    BY <1>2
  <2> QED
    BY <1>2, <2>1 DEF RaiseRemoteError, ErrorInv
<1>3. CASE errors = <<"text">>
  <2>1. errors # <<>> /\ Head(errors) = "text" /\ Tail(errors) = <<>>
    BY <1>3
  <2> QED
    BY <1>3, <2>1 DEF RaiseRemoteError, ErrorInv
<1> QED
  BY <1>1, <1>2, <1>3 DEF ErrorInv

\* The next item is taken.
LEMMA TakenNext ==
  ASSUME taken \in Seq(Item), \A i \in DOMAIN taken : taken[i] = i,
         taken' = Append(taken, Len(taken) + 1)
  PROVE  /\ Len(taken') = Len(taken) + 1
         /\ \A i \in DOMAIN taken' : taken'[i] = i
OBVIOUS

\* What _local_close() keeps of the closing message.
LEMMA ErrorOrNot == Error \in Seq({"error", "text"})
<1>1. CASE rmsg \in {"error", "text"}
  <2>1. Error = <<rmsg>>
    BY <1>1 DEF Error
  <2> QED
    BY <1>1, <2>1
<1>2. CASE rmsg \notin {"error", "text"}
  <2>1. Error = <<>>
    BY <1>2 DEF Error
  <2> QED
    BY <2>1
<1> QED
  BY <1>1, <1>2

-----------------------------------------------------------------------------
(* Every step preserves the invariant: one lemma for each part.            *)

\* TypeOK in three parts, which the provers take one by one.
LEMMA TypeParts == TypeOK <=> ChannelTypes /\ ReceiverTypes /\ UserTypes
BY DEF TypeOK, ChannelTypes, ReceiverTypes, UserTypes

\* Every step keeps the types of the channel's and the factory's variables ...
LEMMA ChannelTypesKept == IInv /\ [Next]_vars => ChannelTypes'
<1> SUFFICES ASSUME IInv, [Next]_vars PROVE ChannelTypes'
  OBVIOUS
<1>0. ChannelTypes /\ ReceiverTypes /\ UserTypes
  BY TypeParts DEF IInv
<1> USE <1>0, EndpointAssumption DEF ChannelTypes, ReceiverTypes, UserTypes, vars, chan,
   chanButQueue, factory, receiver, users, peer, history
<1>1. ASSUME New PROVE ChannelTypes'
  BY <1>1 DEF New
<1>2. ASSUME Drop PROVE ChannelTypes'
  BY <1>2 DEF Drop, Farewell
<1>3. ASSUME PeerDies PROVE ChannelTypes'
  BY <1>3 DEF PeerDies
<1>4. ASSUME ReceiveData PROVE ChannelTypes'
  BY <1>4 DEF ReceiveData, Receive, LockFree
<1>5. ASSUME NEW m \in ClosingMessage, ReceiveClosing(m) PROVE ChannelTypes'
  BY <1>5 DEF ReceiveClosing, Receive, LockFree
<1>6. ASSUME ReceiveTerminate PROVE ChannelTypes'
  BY <1>6 DEF ReceiveTerminate, EndReceiving, LockFree
<1>7. ASSUME ReceiveEOF PROVE ChannelTypes'
  BY <1>7 DEF ReceiveEOF, EndReceiving, LockFree
<1>8. ASSUME PutItem PROVE ChannelTypes'
  <2>1. rpc = "put"
    BY <1>8 DEF PutItem
  <2>2. queue' \in Seq(Item \cup {EndMarker})
    BY <1>8, <2>1, InHandFacts DEF PutItem
  <2> QED
    BY <1>8, <2>2 DEF PutItem, Item
<1>9. ASSUME CallCallback PROVE ChannelTypes'
  BY <1>9 DEF CallCallback
<1>10. ASSUME SendError PROVE ChannelTypes'
  BY <1>10 DEF SendError
<1>11. ASSUME SendErrorFails PROVE ChannelTypes'
  BY <1>11 DEF SendErrorFails, Crash
<1>12. ASSUME LocalClose PROVE ChannelTypes'
  <2>1. errors' = errors \o Error
    BY <1>12 DEF LocalClose
  <2>2. errors' \in Seq({"error", "text"})
    BY <2>1, ErrorOrNot
  <2> QED
    BY <1>12, <2>2 DEF LocalClose
<1>13. ASSUME LocalCloseDeleted PROVE ChannelTypes'
  BY <1>13 DEF LocalCloseDeleted
<1>14. ASSUME LocalCloseOfText PROVE ChannelTypes'
  BY <1>14 DEF LocalCloseOfText, Crash
<1>15. ASSUME PutEnd PROVE ChannelTypes'
  BY <1>15 DEF PutEnd
<1>16. ASSUME Pop PROVE ChannelTypes'
  BY <1>16 DEF Pop, Forget, WantsEnd, HandlerReturns
<1>17. ASSUME CallEnd PROVE ChannelTypes'
  BY <1>17 DEF CallEnd, HandlerReturns
<1>18. ASSUME CallEndRaises PROVE ChannelTypes'
  BY <1>18 DEF CallEndRaises, Crash
<1>19. ASSUME SetClosed PROVE ChannelTypes'
  BY <1>19 DEF SetClosed, NowClosedBy, HandlerReturns
<1>20. ASSUME Finish PROVE ChannelTypes'
  BY <1>20 DEF Finish
<1>21. ASSUME FinishCallbacks PROVE ChannelTypes'
  BY <1>21 DEF FinishCallbacks, Forget, WantsEnd
<1>22. ASSUME CallLast PROVE ChannelTypes'
  BY <1>22 DEF CallLast
<1>23. ASSUME NEW u \in User, NEW how \in {"plain", "endmarker"}, SetCallback(u, how)
       PROVE  ChannelTypes'
  BY <1>23 DEF SetCallback, Call, Step, LockFree
<1>24. ASSUME NEW u \in User, Get(u) PROVE ChannelTypes'
  BY <1>24 DEF Get, Call, Step
<1>25. ASSUME NEW u \in User, WaitClose(u) PROVE ChannelTypes'
  BY <1>25 DEF WaitClose, Call, Step
<1>26. ASSUME NEW u \in User, Close(u) PROVE ChannelTypes'
  BY <1>26 DEF Close, Call, Step
<1>27. ASSUME NEW u \in User, DrainItem(u) PROVE ChannelTypes'
  BY <1>27 DEF DrainItem, Step
<1>28. ASSUME NEW u \in User, DrainEnd(u) PROVE ChannelTypes'
  BY <1>28 DEF DrainEnd, Step
<1>29. ASSUME NEW u \in User, DrainEmpty(u) PROVE ChannelTypes'
  BY <1>29 DEF DrainEmpty, QuietStep, Step
<1>30. ASSUME NEW u \in User, Check(u) PROVE ChannelTypes'
  BY <1>30 DEF Check, QuietStep, Step
<1>31. ASSUME NEW u \in User, Register(u) PROVE ChannelTypes'
  BY <1>31 DEF Register, Step
<1>32. ASSUME NEW u \in User, GetItem(u) PROVE ChannelTypes'
  BY <1>32 DEF GetItem, Step
<1>33. ASSUME NEW u \in User, GetEnd(u) PROVE ChannelTypes'
  BY <1>33 DEF GetEnd, Step
<1>34. ASSUME NEW u \in User, PutBack(u) PROVE ChannelTypes'
  BY <1>34 DEF PutBack, Step, RaiseRemoteError
<1>35. ASSUME NEW u \in User, WaitCloseReturns(u) PROVE ChannelTypes'
  BY <1>35 DEF WaitCloseReturns, Step, RaiseRemoteError
<1>36. ASSUME NEW u \in User, SendClose(u) PROVE ChannelTypes'
  BY <1>36 DEF SendClose, Step
<1>37. ASSUME NEW u \in User, SendCloseFails(u) PROVE ChannelTypes'
  BY <1>37 DEF SendCloseFails, QuietStep, Step
<1>38. ASSUME NEW u \in User, Mark(u) PROVE ChannelTypes'
  BY <1>38 DEF Mark, Step, NowClosedBy
<1>39. ASSUME NEW u \in User, ReadQueue(u) PROVE ChannelTypes'
  BY <1>39 DEF ReadQueue, QuietStep, Step
<1>40. ASSUME NEW u \in User, ClosePutEnd(u) PROVE ChannelTypes'
  BY <1>40 DEF ClosePutEnd, Step
<1>41. ASSUME NEW u \in User, ClosePop(u) PROVE ChannelTypes'
  BY <1>41 DEF ClosePop, Step, Forget, WantsEnd
<1>42. ASSUME NEW u \in User, CloseCallEnd(u) PROVE ChannelTypes'
  BY <1>42 DEF CloseCallEnd, Step
<1>43. CASE UNCHANGED vars
  BY <1>43 DEF vars
<1> QED
  BY <1>1, <1>2, <1>3, <1>4, <1>5, <1>6, <1>7, <1>8, <1>9, <1>10, <1>11, <1>12, <1>13,
     <1>14, <1>15, <1>16, <1>17, <1>18, <1>19, <1>20, <1>21, <1>22, <1>23, <1>24, <1>25,
     <1>26, <1>27, <1>28, <1>29, <1>30, <1>31, <1>32, <1>33, <1>34, <1>35, <1>36, <1>37,
     <1>38, <1>39, <1>40, <1>41, <1>42, <1>43
  DEF Next, Handle, Begin, Continue

\* ... of those of the receiver thread and the connection ...
LEMMA ReceiverTypesKept == IInv /\ [Next]_vars => ReceiverTypes'
<1> SUFFICES ASSUME IInv, [Next]_vars PROVE ReceiverTypes'
  OBVIOUS
<1>0. ChannelTypes /\ ReceiverTypes /\ UserTypes
  BY TypeParts DEF IInv
<1> USE <1>0, EndpointAssumption DEF ChannelTypes, ReceiverTypes, Cause, ClosingMessage,
   vars, chan, chanButQueue, factory, receiver, users, peer, history
<1>1. ASSUME New PROVE ReceiverTypes'
  BY <1>1 DEF New
<1>2. ASSUME Drop PROVE ReceiverTypes'
  BY <1>2 DEF Drop, Farewell
<1>3. ASSUME PeerDies PROVE ReceiverTypes'
  BY <1>3 DEF PeerDies
<1>4. ASSUME ReceiveData PROVE ReceiverTypes'
  <2>1. nsent' \in 0..MaxItems
    BY <1>4 DEF ReceiveData
  <2> QED
    BY <1>4, <2>1 DEF ReceiveData, Receive
<1>5. ASSUME NEW m \in ClosingMessage, ReceiveClosing(m) PROVE ReceiverTypes'
  BY <1>5 DEF ReceiveClosing, Receive, LockFree
<1>6. ASSUME ReceiveTerminate PROVE ReceiverTypes'
  BY <1>6 DEF ReceiveTerminate, EndReceiving, LockFree
<1>7. ASSUME ReceiveEOF PROVE ReceiverTypes'
  BY <1>7 DEF ReceiveEOF, EndReceiving, LockFree
<1>8. ASSUME PutItem PROVE ReceiverTypes'
  BY <1>8 DEF PutItem
<1>9. ASSUME CallCallback PROVE ReceiverTypes'
  BY <1>9 DEF CallCallback
<1>10. ASSUME SendError PROVE ReceiverTypes'
  BY <1>10 DEF SendError
<1>11. ASSUME SendErrorFails PROVE ReceiverTypes'
  BY <1>11 DEF SendErrorFails, Crash
<1>12. ASSUME LocalClose PROVE ReceiverTypes'
  <2>1. rqueue' \in BOOLEAN /\ rchan' \in BOOLEAN
    BY <1>12 DEF LocalClose
  <2> QED
    BY <1>12, <2>1 DEF LocalClose
<1>13. ASSUME LocalCloseDeleted PROVE ReceiverTypes'
  BY <1>13 DEF LocalCloseDeleted
<1>14. ASSUME LocalCloseOfText PROVE ReceiverTypes'
  BY <1>14 DEF LocalCloseOfText, Crash
<1>15. ASSUME PutEnd PROVE ReceiverTypes'
  BY <1>15 DEF PutEnd
<1>16. ASSUME Pop PROVE ReceiverTypes'
  BY <1>16 DEF Pop, Forget, WantsEnd, HandlerReturns
<1>17. ASSUME CallEnd PROVE ReceiverTypes'
  BY <1>17 DEF CallEnd, HandlerReturns
<1>18. ASSUME CallEndRaises PROVE ReceiverTypes'
  BY <1>18 DEF CallEndRaises, Crash
<1>19. ASSUME SetClosed PROVE ReceiverTypes'
  BY <1>19 DEF SetClosed, NowClosedBy, HandlerReturns
<1>20. ASSUME Finish PROVE ReceiverTypes'
  BY <1>20 DEF Finish
<1>21. ASSUME FinishCallbacks PROVE ReceiverTypes'
  BY <1>21 DEF FinishCallbacks, Forget, WantsEnd
<1>22. ASSUME CallLast PROVE ReceiverTypes'
  BY <1>22 DEF CallLast
<1>23. ASSUME NEW u \in User, NEW how \in {"plain", "endmarker"}, SetCallback(u, how)
       PROVE  ReceiverTypes'
  BY <1>23 DEF SetCallback, Call, Step, LockFree
<1>24. ASSUME NEW u \in User, Get(u) PROVE ReceiverTypes'
  BY <1>24 DEF Get, Call, Step
<1>25. ASSUME NEW u \in User, WaitClose(u) PROVE ReceiverTypes'
  BY <1>25 DEF WaitClose, Call, Step
<1>26. ASSUME NEW u \in User, Close(u) PROVE ReceiverTypes'
  BY <1>26 DEF Close, Call, Step
<1>27. ASSUME NEW u \in User, DrainItem(u) PROVE ReceiverTypes'
  BY <1>27 DEF DrainItem, Step
<1>28. ASSUME NEW u \in User, DrainEnd(u) PROVE ReceiverTypes'
  BY <1>28 DEF DrainEnd, Step
<1>29. ASSUME NEW u \in User, DrainEmpty(u) PROVE ReceiverTypes'
  BY <1>29 DEF DrainEmpty, QuietStep, Step
<1>30. ASSUME NEW u \in User, Check(u) PROVE ReceiverTypes'
  BY <1>30 DEF Check, QuietStep, Step
<1>31. ASSUME NEW u \in User, Register(u) PROVE ReceiverTypes'
  BY <1>31 DEF Register, Step
<1>32. ASSUME NEW u \in User, GetItem(u) PROVE ReceiverTypes'
  BY <1>32 DEF GetItem, Step
<1>33. ASSUME NEW u \in User, GetEnd(u) PROVE ReceiverTypes'
  BY <1>33 DEF GetEnd, Step
<1>34. ASSUME NEW u \in User, PutBack(u) PROVE ReceiverTypes'
  BY <1>34 DEF PutBack, Step, RaiseRemoteError
<1>35. ASSUME NEW u \in User, WaitCloseReturns(u) PROVE ReceiverTypes'
  BY <1>35 DEF WaitCloseReturns, Step, RaiseRemoteError
<1>36. ASSUME NEW u \in User, SendClose(u) PROVE ReceiverTypes'
  BY <1>36 DEF SendClose, Step
<1>37. ASSUME NEW u \in User, SendCloseFails(u) PROVE ReceiverTypes'
  BY <1>37 DEF SendCloseFails, QuietStep, Step
<1>38. ASSUME NEW u \in User, Mark(u) PROVE ReceiverTypes'
  BY <1>38 DEF Mark, Step, NowClosedBy
<1>39. ASSUME NEW u \in User, ReadQueue(u) PROVE ReceiverTypes'
  BY <1>39 DEF ReadQueue, QuietStep, Step
<1>40. ASSUME NEW u \in User, ClosePutEnd(u) PROVE ReceiverTypes'
  BY <1>40 DEF ClosePutEnd, Step
<1>41. ASSUME NEW u \in User, ClosePop(u) PROVE ReceiverTypes'
  BY <1>41 DEF ClosePop, Step, Forget, WantsEnd
<1>42. ASSUME NEW u \in User, CloseCallEnd(u) PROVE ReceiverTypes'
  BY <1>42 DEF CloseCallEnd, Step
<1>43. CASE UNCHANGED vars
  BY <1>43 DEF vars
<1> QED
  BY <1>1, <1>2, <1>3, <1>4, <1>5, <1>6, <1>7, <1>8, <1>9, <1>10, <1>11, <1>12, <1>13,
     <1>14, <1>15, <1>16, <1>17, <1>18, <1>19, <1>20, <1>21, <1>22, <1>23, <1>24, <1>25,
     <1>26, <1>27, <1>28, <1>29, <1>30, <1>31, <1>32, <1>33, <1>34, <1>35, <1>36, <1>37,
     <1>38, <1>39, <1>40, <1>41, <1>42, <1>43
  DEF Next, Handle, Begin, Continue

\* ... and of those of the users and the histories.
LEMMA UserTypesKept == IInv /\ [Next]_vars => UserTypes'
<1> SUFFICES ASSUME IInv, [Next]_vars PROVE UserTypes'
  OBVIOUS
<1>0. ChannelTypes /\ ReceiverTypes /\ UserTypes
  BY TypeParts DEF IInv
<1> USE <1>0, EndpointAssumption DEF ChannelTypes, ReceiverTypes, UserTypes, Cause,
   ClosingMessage, vars, chan, chanButQueue, factory, receiver, users, peer, history
<1>1. ASSUME New PROVE UserTypes'
  BY <1>1 DEF New
<1>2. ASSUME Drop PROVE UserTypes'
  BY <1>2 DEF Drop, Farewell
<1>3. ASSUME PeerDies PROVE UserTypes'
  BY <1>3 DEF PeerDies
<1>4. ASSUME ReceiveData PROVE UserTypes'
  BY <1>4 DEF ReceiveData, Receive, LockFree
<1>5. ASSUME NEW m \in ClosingMessage, ReceiveClosing(m) PROVE UserTypes'
  BY <1>5 DEF ReceiveClosing, Receive, LockFree
<1>6. ASSUME ReceiveTerminate PROVE UserTypes'
  BY <1>6 DEF ReceiveTerminate, EndReceiving, LockFree
<1>7. ASSUME ReceiveEOF PROVE UserTypes'
  BY <1>7 DEF ReceiveEOF, EndReceiving, LockFree
<1>8. ASSUME PutItem PROVE UserTypes'
  BY <1>8 DEF PutItem
<1>9. ASSUME CallCallback PROVE UserTypes'
  BY <1>9, InHandFacts DEF CallCallback, Item
<1>10. ASSUME SendError PROVE UserTypes'
  BY <1>10 DEF SendError
<1>11. ASSUME SendErrorFails PROVE UserTypes'
  BY <1>11 DEF SendErrorFails, Crash
<1>12. ASSUME LocalClose PROVE UserTypes'
  BY <1>12 DEF LocalClose, Error
<1>13. ASSUME LocalCloseDeleted PROVE UserTypes'
  BY <1>13 DEF LocalCloseDeleted
<1>14. ASSUME LocalCloseOfText PROVE UserTypes'
  BY <1>14 DEF LocalCloseOfText, Crash
<1>15. ASSUME PutEnd PROVE UserTypes'
  BY <1>15 DEF PutEnd
<1>16. ASSUME Pop PROVE UserTypes'
  BY <1>16 DEF Pop, Forget, WantsEnd, HandlerReturns
<1>17. ASSUME CallEnd PROVE UserTypes'
  BY <1>17 DEF CallEnd, HandlerReturns
<1>18. ASSUME CallEndRaises PROVE UserTypes'
  BY <1>18 DEF CallEndRaises, Crash
<1>19. ASSUME SetClosed PROVE UserTypes'
  BY <1>19 DEF SetClosed, NowClosedBy, HandlerReturns
<1>20. ASSUME Finish PROVE UserTypes'
  BY <1>20 DEF Finish
<1>21. ASSUME FinishCallbacks PROVE UserTypes'
  BY <1>21 DEF FinishCallbacks, Forget, WantsEnd
<1>22. ASSUME CallLast PROVE UserTypes'
  BY <1>22 DEF CallLast
<1>23. ASSUME NEW u \in User, NEW how \in {"plain", "endmarker"}, SetCallback(u, how)
       PROVE  UserTypes'
  BY <1>23 DEF SetCallback, Call, Step, LockFree
<1>24. ASSUME NEW u \in User, Get(u) PROVE UserTypes'
  BY <1>24 DEF Get, Call, Step
<1>25. ASSUME NEW u \in User, WaitClose(u) PROVE UserTypes'
  BY <1>25 DEF WaitClose, Call, Step
<1>26. ASSUME NEW u \in User, Close(u) PROVE UserTypes'
  BY <1>26 DEF Close, Call, Step
<1>27. ASSUME NEW u \in User, DrainItem(u) PROVE UserTypes'
  <2>1. Head(queue) \in 1..MaxItems
    BY <1>27 DEF DrainItem
  <2> QED
    BY <1>27, <2>1 DEF DrainItem, Step
<1>28. ASSUME NEW u \in User, DrainEnd(u) PROVE UserTypes'
  BY <1>28 DEF DrainEnd, Step
<1>29. ASSUME NEW u \in User, DrainEmpty(u) PROVE UserTypes'
  BY <1>29 DEF DrainEmpty, QuietStep, Step
<1>30. ASSUME NEW u \in User, Check(u) PROVE UserTypes'
  BY <1>30 DEF Check, QuietStep, Step
<1>31. ASSUME NEW u \in User, Register(u) PROVE UserTypes'
  BY <1>31 DEF Register, Step
<1>32. ASSUME NEW u \in User, GetItem(u) PROVE UserTypes'
  BY <1>32 DEF GetItem, Step
<1>33. ASSUME NEW u \in User, GetEnd(u) PROVE UserTypes'
  BY <1>33 DEF GetEnd, Step
<1>34. ASSUME NEW u \in User, PutBack(u) PROVE UserTypes'
  BY <1>34 DEF PutBack, Step, RaiseRemoteError
<1>35. ASSUME NEW u \in User, WaitCloseReturns(u) PROVE UserTypes'
  BY <1>35 DEF WaitCloseReturns, Step, RaiseRemoteError
<1>36. ASSUME NEW u \in User, SendClose(u) PROVE UserTypes'
  BY <1>36 DEF SendClose, Step
<1>37. ASSUME NEW u \in User, SendCloseFails(u) PROVE UserTypes'
  BY <1>37 DEF SendCloseFails, QuietStep, Step
<1>38. ASSUME NEW u \in User, Mark(u) PROVE UserTypes'
  BY <1>38 DEF Mark, Step, NowClosedBy
<1>39. ASSUME NEW u \in User, ReadQueue(u) PROVE UserTypes'
  BY <1>39 DEF ReadQueue, QuietStep, Step
<1>40. ASSUME NEW u \in User, ClosePutEnd(u) PROVE UserTypes'
  BY <1>40 DEF ClosePutEnd, Step
<1>41. ASSUME NEW u \in User, ClosePop(u) PROVE UserTypes'
  BY <1>41 DEF ClosePop, Step, Forget, WantsEnd
<1>42. ASSUME NEW u \in User, CloseCallEnd(u) PROVE UserTypes'
  BY <1>42 DEF CloseCallEnd, Step
<1>43. CASE UNCHANGED vars
  BY <1>43 DEF vars
<1> QED
  BY <1>1, <1>2, <1>3, <1>4, <1>5, <1>6, <1>7, <1>8, <1>9, <1>10, <1>11, <1>12, <1>13,
     <1>14, <1>15, <1>16, <1>17, <1>18, <1>19, <1>20, <1>21, <1>22, <1>23, <1>24, <1>25,
     <1>26, <1>27, <1>28, <1>29, <1>30, <1>31, <1>32, <1>33, <1>34, <1>35, <1>36, <1>37,
     <1>38, <1>39, <1>40, <1>41, <1>42, <1>43
  DEF Next, Handle, Begin, Continue

\* Every step keeps _receivelock with one thread.
LEMMA LockKept == IInv /\ [Next]_vars => LockInv'
<1> SUFFICES ASSUME IInv, [Next]_vars PROVE LockInv'
  OBVIOUS
<1> USE EndpointAssumption DEF IInv, TypeOK, LockInv, ReceiverInv, Holding, Handling, Over,
   Stopped, ClosingMessage, Draining, ReceiverHoldsLock, vars, chan, chanButQueue, factory,
   receiver, users, peer, history
<1>1. ASSUME New \/ Drop \/ PeerDies PROVE LockInv'
  BY <1>1 DEF New, Drop, Farewell, PeerDies
<1>2. ASSUME NEW m \in ClosingMessage, ReceiveData \/ ReceiveClosing(m) \/ ReceiveTerminate
             \/ ReceiveEOF
      PROVE  LockInv'
  BY <1>2
  DEF ReceiveData, Receive, LockFree, ReceiveClosing, ReceiveTerminate, EndReceiving,
      ReceiveEOF
<1>3. ASSUME PutItem PROVE LockInv'
  BY <1>3 DEF PutItem
<1>4. ASSUME CallCallback PROVE LockInv'
  BY <1>4 DEF CallCallback
<1>5. ASSUME SendError \/ SendErrorFails \/ LocalCloseDeleted \/ LocalCloseOfText
      PROVE  LockInv'
  BY <1>5 DEF SendError, SendErrorFails, Crash, LocalCloseDeleted, LocalCloseOfText
<1>6. ASSUME LocalClose PROVE LockInv'
  BY <1>6 DEF LocalClose, Error
<1>7. ASSUME PutEnd PROVE LockInv'
  BY <1>7 DEF PutEnd
<1>8. ASSUME Pop \/ CallEnd \/ CallEndRaises \/ SetClosed PROVE LockInv'
  BY <1>8
  DEF Pop, Forget, WantsEnd, HandlerReturns, CallEnd, CallEndRaises, Crash, SetClosed,
      NowClosedBy
<1>9. ASSUME Finish \/ FinishCallbacks \/ CallLast PROVE LockInv'
  BY <1>9 DEF Finish, FinishCallbacks, Forget, WantsEnd, CallLast
<1>10. ASSUME NEW u \in User, NEW how \in {"plain", "endmarker"}, SetCallback(u, how)
       PROVE  LockInv'
  BY <1>10 DEF SetCallback, Call, Step, LockFree
<1>11. ASSUME NEW u \in User, Get(u) PROVE LockInv'
  BY <1>11 DEF Get, Call, Step
<1>12. ASSUME NEW u \in User, WaitClose(u) PROVE LockInv'
  BY <1>12 DEF WaitClose, Call, Step
<1>13. ASSUME NEW u \in User, Close(u) PROVE LockInv'
  BY <1>13 DEF Close, Call, Step
<1>14. ASSUME NEW u \in User, DrainItem(u) PROVE LockInv'
  BY <1>14 DEF DrainItem, Step
<1>15. ASSUME NEW u \in User, DrainEnd(u) PROVE LockInv'
  BY <1>15 DEF DrainEnd, Step
<1>16. ASSUME NEW u \in User, DrainEmpty(u) PROVE LockInv'
  BY <1>16 DEF DrainEmpty, QuietStep, Step
<1>17. ASSUME NEW u \in User, Check(u) PROVE LockInv'
  BY <1>17 DEF Check, QuietStep, Step
<1>18. ASSUME NEW u \in User, Register(u) PROVE LockInv'
  BY <1>18 DEF Register, Step
<1>19. ASSUME NEW u \in User, GetItem(u) PROVE LockInv'
  BY <1>19 DEF GetItem, Step
<1>20. ASSUME NEW u \in User, GetEnd(u) PROVE LockInv'
  BY <1>20 DEF GetEnd, Step
<1>21. ASSUME NEW u \in User, PutBack(u) PROVE LockInv'
  BY <1>21 DEF PutBack, Step, RaiseRemoteError
<1>22. ASSUME NEW u \in User, WaitCloseReturns(u) PROVE LockInv'
  BY <1>22 DEF WaitCloseReturns, Step, RaiseRemoteError
<1>23. ASSUME NEW u \in User, SendClose(u) PROVE LockInv'
  BY <1>23 DEF SendClose, Step
<1>24. ASSUME NEW u \in User, SendCloseFails(u) PROVE LockInv'
  BY <1>24 DEF SendCloseFails, QuietStep, Step
<1>25. ASSUME NEW u \in User, Mark(u) PROVE LockInv'
  BY <1>25 DEF Mark, Step, NowClosedBy
<1>26. ASSUME NEW u \in User, ReadQueue(u) PROVE LockInv'
  BY <1>26 DEF ReadQueue, QuietStep, Step
<1>27. ASSUME NEW u \in User, ClosePutEnd(u) PROVE LockInv'
  BY <1>27 DEF ClosePutEnd, Step
<1>28. ASSUME NEW u \in User, ClosePop(u) PROVE LockInv'
  BY <1>28 DEF ClosePop, Step, Forget, WantsEnd
<1>29. ASSUME NEW u \in User, CloseCallEnd(u) PROVE LockInv'
  BY <1>29 DEF CloseCallEnd, Step
<1>30. CASE UNCHANGED vars
  BY <1>30 DEF vars
<1> HIDE DEF IInv, LockInv
<1> QED
  BY <1>1, <1>2, <1>3, <1>4, <1>5, <1>6, <1>7, <1>8, <1>9, <1>10, <1>11, <1>12, <1>13,
     <1>14, <1>15, <1>16, <1>17, <1>18, <1>19, <1>20, <1>21, <1>22, <1>23, <1>24, <1>25,
     <1>26, <1>27, <1>28, <1>29, <1>30
  DEF Next, Handle, Begin, Continue

\* Every step keeps what the receiver thread's place says of the message it handles.
LEMMA ReceiverKept == IInv /\ [Next]_vars => ReceiverInv'
<1> SUFFICES ASSUME IInv, [Next]_vars PROVE ReceiverInv'
  OBVIOUS
<1> USE EndpointAssumption DEF IInv, TypeOK, LockInv, ReceiverInv, Holding, Handling, Over,
   Stopped, ClosingMessage, Draining, ReceiverHoldsLock, vars, chan, chanButQueue, factory,
   receiver, users, peer, history
<1>1. ASSUME New \/ Drop \/ PeerDies PROVE ReceiverInv'
  BY <1>1 DEF New, Drop, Farewell, PeerDies
<1>2. ASSUME NEW m \in ClosingMessage, ReceiveData \/ ReceiveClosing(m) \/ ReceiveTerminate
             \/ ReceiveEOF
      PROVE  ReceiverInv'
  BY <1>2
  DEF ReceiveData, Receive, LockFree, ReceiveClosing, ReceiveTerminate, EndReceiving,
      ReceiveEOF
<1>3. ASSUME PutItem PROVE ReceiverInv'
  BY <1>3 DEF PutItem
<1>4. ASSUME CallCallback PROVE ReceiverInv'
  BY <1>4 DEF CallCallback
<1>5. ASSUME SendError PROVE ReceiverInv'
  BY <1>5 DEF SendError
<1>6. ASSUME SendErrorFails PROVE ReceiverInv'
  BY <1>6 DEF SendErrorFails, Crash
<1>7. ASSUME LocalClose PROVE ReceiverInv'
  BY <1>7 DEF LocalClose, Error
<1>8. ASSUME LocalCloseDeleted PROVE ReceiverInv'
  BY <1>8 DEF LocalCloseDeleted
<1>9. ASSUME LocalCloseOfText PROVE ReceiverInv'
  BY <1>9 DEF LocalCloseOfText, Crash
<1>10. ASSUME PutEnd PROVE ReceiverInv'
  BY <1>10 DEF PutEnd
<1>11. ASSUME Pop \/ CallEnd \/ CallEndRaises \/ SetClosed PROVE ReceiverInv'
  BY <1>11
  DEF Pop, Forget, WantsEnd, HandlerReturns, CallEnd, CallEndRaises, Crash, SetClosed,
      NowClosedBy
<1>12. ASSUME Finish \/ FinishCallbacks \/ CallLast PROVE ReceiverInv'
  BY <1>12 DEF Finish, FinishCallbacks, Forget, WantsEnd, CallLast
<1>13. ASSUME NEW u \in User, NEW how \in {"plain", "endmarker"}, SetCallback(u, how)
       PROVE  ReceiverInv'
  BY <1>13 DEF SetCallback, Call, Step, LockFree
<1>14. ASSUME NEW u \in User, Get(u) \/ WaitClose(u) \/ Close(u) PROVE ReceiverInv'
  BY <1>14 DEF Get, Call, Step, WaitClose, Close
<1>15. ASSUME NEW u \in User, DrainItem(u) PROVE ReceiverInv'
  BY <1>15 DEF DrainItem, Step
<1>16. ASSUME NEW u \in User, DrainEnd(u) PROVE ReceiverInv'
  BY <1>16 DEF DrainEnd, Step
<1>17. ASSUME NEW u \in User, DrainEmpty(u) \/ Check(u) \/ Register(u) PROVE ReceiverInv'
  BY <1>17 DEF DrainEmpty, QuietStep, Step, Check, Register
<1>18. ASSUME NEW u \in User, GetItem(u) PROVE ReceiverInv'
  BY <1>18 DEF GetItem, Step
<1>19. ASSUME NEW u \in User, GetEnd(u) PROVE ReceiverInv'
  BY <1>19 DEF GetEnd, Step
<1>20. ASSUME NEW u \in User, PutBack(u) PROVE ReceiverInv'
  BY <1>20 DEF PutBack, Step, RaiseRemoteError
<1>21. ASSUME NEW u \in User, WaitCloseReturns(u) PROVE ReceiverInv'
  BY <1>21 DEF WaitCloseReturns, Step, RaiseRemoteError
<1>22. ASSUME NEW u \in User, SendClose(u) \/ SendCloseFails(u) \/ Mark(u)
       PROVE  ReceiverInv'
  BY <1>22 DEF SendClose, Step, SendCloseFails, QuietStep, Mark, NowClosedBy
<1>23. ASSUME NEW u \in User, ReadQueue(u) \/ ClosePop(u) \/ CloseCallEnd(u)
       PROVE  ReceiverInv'
  BY <1>23 DEF ReadQueue, QuietStep, Step, ClosePop, Forget, WantsEnd, CloseCallEnd
<1>24. ASSUME NEW u \in User, ClosePutEnd(u) PROVE ReceiverInv'
  BY <1>24 DEF ClosePutEnd, Step
<1>25. CASE UNCHANGED vars
  BY <1>25 DEF vars
<1> HIDE DEF IInv, ReceiverInv
<1> QED
  BY <1>1, <1>2, <1>3, <1>4, <1>5, <1>6, <1>7, <1>8, <1>9, <1>10, <1>11, <1>12, <1>13,
     <1>14, <1>15, <1>16, <1>17, <1>18, <1>19, <1>20, <1>21, <1>22, <1>23, <1>24, <1>25
  DEF Next, Handle, Begin, Continue

\* Every step keeps what the channel's place in the factory says of its life.
LEMMA ObjectKept == IInv /\ [Next]_vars => ObjectInv'
<1> SUFFICES ASSUME IInv, [Next]_vars PROVE ObjectInv'
  OBVIOUS
<1> USE EndpointAssumption DEF IInv, TypeOK, ObjectInv, ReceiverInv, TokenInv, LockInv,
   Holding, Handling, Over, Stopped, ClosingMessage, Draining, ReceiverHoldsLock, vars,
   chan, chanButQueue, factory, receiver, users, peer, history
<1>1. ASSUME New \/ Drop \/ PeerDies PROVE ObjectInv'
  BY <1>1 DEF New, Drop, Farewell, PeerDies
<1>2. ASSUME NEW m \in ClosingMessage, ReceiveData \/ ReceiveClosing(m) \/ ReceiveTerminate
             \/ ReceiveEOF
      PROVE  ObjectInv'
  BY <1>2
  DEF ReceiveData, Receive, LockFree, ReceiveClosing, ReceiveTerminate, EndReceiving,
      ReceiveEOF
<1>3. ASSUME PutItem PROVE ObjectInv'
  BY <1>3 DEF PutItem
<1>4. ASSUME CallCallback PROVE ObjectInv'
  BY <1>4 DEF CallCallback
<1>5. ASSUME SendError \/ SendErrorFails \/ LocalCloseDeleted \/ LocalCloseOfText
      PROVE  ObjectInv'
  BY <1>5 DEF SendError, SendErrorFails, Crash, LocalCloseDeleted, LocalCloseOfText
<1>6. ASSUME LocalClose PROVE ObjectInv'
  BY <1>6 DEF LocalClose, Error
<1>7. ASSUME PutEnd PROVE ObjectInv'
  BY <1>7 DEF PutEnd
<1>8. ASSUME Pop \/ CallEnd \/ CallEndRaises \/ SetClosed PROVE ObjectInv'
  BY <1>8
  DEF Pop, Forget, WantsEnd, HandlerReturns, CallEnd, CallEndRaises, Crash, SetClosed,
      NowClosedBy
<1>9. ASSUME Finish \/ FinishCallbacks \/ CallLast PROVE ObjectInv'
  BY <1>9 DEF Finish, FinishCallbacks, Forget, WantsEnd, CallLast
<1>10. ASSUME NEW u \in User, NEW how \in {"plain", "endmarker"}, SetCallback(u, how)
       PROVE  ObjectInv'
  BY <1>10 DEF SetCallback, Call, Step, LockFree
<1>11. ASSUME NEW u \in User, Get(u) \/ WaitClose(u) \/ Close(u) PROVE ObjectInv'
  BY <1>11 DEF Get, Call, Step, WaitClose, Close
<1>12. ASSUME NEW u \in User, DrainItem(u) PROVE ObjectInv'
  BY <1>12 DEF DrainItem, Step
<1>13. ASSUME NEW u \in User, DrainEnd(u) PROVE ObjectInv'
  BY <1>13 DEF DrainEnd, Step
<1>14. ASSUME NEW u \in User, DrainEmpty(u) \/ Check(u) \/ Register(u) PROVE ObjectInv'
  BY <1>14 DEF DrainEmpty, QuietStep, Step, Check, Register
<1>15. ASSUME NEW u \in User, GetItem(u) PROVE ObjectInv'
  BY <1>15 DEF GetItem, Step
<1>16. ASSUME NEW u \in User, GetEnd(u) PROVE ObjectInv'
  BY <1>16 DEF GetEnd, Step
<1>17. ASSUME NEW u \in User, PutBack(u) PROVE ObjectInv'
  BY <1>17 DEF PutBack, Step, RaiseRemoteError
<1>18. ASSUME NEW u \in User, WaitCloseReturns(u) PROVE ObjectInv'
  BY <1>18 DEF WaitCloseReturns, Step, RaiseRemoteError
<1>19. ASSUME NEW u \in User, SendClose(u) \/ SendCloseFails(u) \/ Mark(u) PROVE ObjectInv'
  BY <1>19 DEF SendClose, Step, SendCloseFails, QuietStep, Mark, NowClosedBy
<1>20. ASSUME NEW u \in User, ReadQueue(u) \/ ClosePop(u) \/ CloseCallEnd(u)
       PROVE  ObjectInv'
  BY <1>20 DEF ReadQueue, QuietStep, Step, ClosePop, Forget, WantsEnd, CloseCallEnd
<1>21. ASSUME NEW u \in User, ClosePutEnd(u) PROVE ObjectInv'
  BY <1>21 DEF ClosePutEnd, Step
<1>22. CASE UNCHANGED vars
  BY <1>22 DEF vars
<1> HIDE DEF IInv, ObjectInv
<1> QED
  BY <1>1, <1>2, <1>3, <1>4, <1>5, <1>6, <1>7, <1>8, <1>9, <1>10, <1>11, <1>12, <1>13,
     <1>14, <1>15, <1>16, <1>17, <1>18, <1>19, <1>20, <1>21, <1>22
  DEF Next, Handle, Begin, Continue

\* Every step keeps the record of who has closed the channel.
LEMMA ClosedKept == IInv /\ [Next]_vars => ClosedInv'
<1> SUFFICES ASSUME IInv, [Next]_vars PROVE ClosedInv'
  OBVIOUS
<1> USE EndpointAssumption, EndsKept DEF IInv, TypeOK, ClosedInv, ObjectInv, ReceiverInv,
   TokenInv, Holding, Handling, Over, Stopped, ClosingMessage, Draining, ReceiverHoldsLock,
   vars, chan, chanButQueue, factory, receiver, users, peer, history
<1>1. ASSUME New PROVE ClosedInv'
  BY <1>1 DEF New
<1>2. ASSUME Drop PROVE ClosedInv'
  BY <1>2 DEF Drop, Farewell
<1>3. ASSUME PeerDies PROVE ClosedInv'
  BY <1>3 DEF PeerDies
<1>4. ASSUME ReceiveData PROVE ClosedInv'
  BY <1>4 DEF ReceiveData, Receive, LockFree
<1>5. ASSUME NEW m \in ClosingMessage, ReceiveClosing(m) PROVE ClosedInv'
  BY <1>5 DEF ReceiveClosing, Receive, LockFree
<1>6. ASSUME ReceiveTerminate PROVE ClosedInv'
  BY <1>6 DEF ReceiveTerminate, EndReceiving, LockFree
<1>7. ASSUME ReceiveEOF PROVE ClosedInv'
  BY <1>7 DEF ReceiveEOF, EndReceiving, LockFree
<1>8. ASSUME PutItem PROVE ClosedInv'
  BY <1>8 DEF PutItem
<1>9. ASSUME CallCallback PROVE ClosedInv'
  BY <1>9, ItemSeen DEF CallCallback
<1>10. ASSUME SendError PROVE ClosedInv'
  BY <1>10 DEF SendError
<1>11. ASSUME SendErrorFails PROVE ClosedInv'
  BY <1>11 DEF SendErrorFails, Crash
<1>12. ASSUME LocalClose PROVE ClosedInv'
  BY <1>12 DEF LocalClose, Error
<1>13. ASSUME LocalCloseDeleted PROVE ClosedInv'
  BY <1>13 DEF LocalCloseDeleted
<1>14. ASSUME LocalCloseOfText PROVE ClosedInv'
  BY <1>14 DEF LocalCloseOfText, Crash
<1>15. ASSUME PutEnd PROVE ClosedInv'
  BY <1>15 DEF PutEnd
<1>16. ASSUME Pop PROVE ClosedInv'
  BY <1>16 DEF Pop, Forget, WantsEnd, HandlerReturns
<1>17. ASSUME CallEnd PROVE ClosedInv'
  BY <1>17 DEF CallEnd, HandlerReturns
<1>18. ASSUME CallEndRaises PROVE ClosedInv'
  BY <1>18, EndSeen DEF CallEndRaises, Crash
<1>19. ASSUME SetClosed PROVE ClosedInv'
  BY <1>19 DEF SetClosed, NowClosedBy, HandlerReturns
<1>20. ASSUME Finish PROVE ClosedInv'
  BY <1>20 DEF Finish
<1>21. ASSUME FinishCallbacks PROVE ClosedInv'
  BY <1>21 DEF FinishCallbacks, Forget, WantsEnd
<1>22. ASSUME CallLast PROVE ClosedInv'
  BY <1>22 DEF CallLast
<1>23. ASSUME NEW u \in User, NEW how \in {"plain", "endmarker"}, SetCallback(u, how)
       PROVE  ClosedInv'
  BY <1>23 DEF SetCallback, Call, Step, LockFree
<1>24. ASSUME NEW u \in User, Get(u) PROVE ClosedInv'
  BY <1>24 DEF Get, Call, Step
<1>25. ASSUME NEW u \in User, WaitClose(u) PROVE ClosedInv'
  BY <1>25 DEF WaitClose, Call, Step
<1>26. ASSUME NEW u \in User, Close(u) PROVE ClosedInv'
  BY <1>26 DEF Close, Call, Step
<1>27. ASSUME NEW u \in User, DrainItem(u) PROVE ClosedInv'
  BY <1>27 DEF DrainItem, Step
<1>28. ASSUME NEW u \in User, DrainEnd(u) PROVE ClosedInv'
  BY <1>28 DEF DrainEnd, Step
<1>29. ASSUME NEW u \in User, DrainEmpty(u) PROVE ClosedInv'
  BY <1>29 DEF DrainEmpty, QuietStep, Step
<1>30. ASSUME NEW u \in User, Check(u) PROVE ClosedInv'
  BY <1>30 DEF Check, QuietStep, Step
<1>31. ASSUME NEW u \in User, Register(u) PROVE ClosedInv'
  BY <1>31 DEF Register, Step
<1>32. ASSUME NEW u \in User, GetItem(u) PROVE ClosedInv'
  BY <1>32 DEF GetItem, Step
<1>33. ASSUME NEW u \in User, GetEnd(u) PROVE ClosedInv'
  BY <1>33 DEF GetEnd, Step
<1>34. ASSUME NEW u \in User, PutBack(u) PROVE ClosedInv'
  BY <1>34 DEF PutBack, Step, RaiseRemoteError
<1>35. ASSUME NEW u \in User, WaitCloseReturns(u) PROVE ClosedInv'
  BY <1>35 DEF WaitCloseReturns, Step, RaiseRemoteError
<1>36. ASSUME NEW u \in User, SendClose(u) PROVE ClosedInv'
  BY <1>36 DEF SendClose, Step
<1>37. ASSUME NEW u \in User, SendCloseFails(u) PROVE ClosedInv'
  BY <1>37 DEF SendCloseFails, QuietStep, Step
<1>38. ASSUME NEW u \in User, Mark(u) PROVE ClosedInv'
  BY <1>38 DEF Mark, Step, NowClosedBy
<1>39. ASSUME NEW u \in User, ReadQueue(u) PROVE ClosedInv'
  BY <1>39 DEF ReadQueue, QuietStep, Step
<1>40. ASSUME NEW u \in User, ClosePutEnd(u) PROVE ClosedInv'
  BY <1>40 DEF ClosePutEnd, Step
<1>41. ASSUME NEW u \in User, ClosePop(u) PROVE ClosedInv'
  BY <1>41 DEF ClosePop, Step, Forget, WantsEnd
<1>42. ASSUME NEW u \in User, CloseCallEnd(u) PROVE ClosedInv'
  BY <1>42 DEF CloseCallEnd, Step
<1>43. CASE UNCHANGED vars
  BY <1>43 DEF vars
<1> HIDE DEF IInv, ClosedInv
<1> QED
  BY <1>1, <1>2, <1>3, <1>4, <1>5, <1>6, <1>7, <1>8, <1>9, <1>10, <1>11, <1>12, <1>13,
     <1>14, <1>15, <1>16, <1>17, <1>18, <1>19, <1>20, <1>21, <1>22, <1>23, <1>24, <1>25,
     <1>26, <1>27, <1>28, <1>29, <1>30, <1>31, <1>32, <1>33, <1>34, <1>35, <1>36, <1>37,
     <1>38, <1>39, <1>40, <1>41, <1>42, <1>43
  DEF Next, Handle, Begin, Continue

\* Every step keeps the right to call the callback with the endmarker in one place.
LEMMA TokenKept == IInv /\ [Next]_vars => TokenInv'
<1> SUFFICES ASSUME IInv, [Next]_vars PROVE TokenInv'
  OBVIOUS
<1> USE EndpointAssumption, EndsKept DEF IInv, TypeOK, TokenInv, ReceiverInv, ObjectInv,
   LockInv, Holding, Handling, Over, Stopped, ClosingMessage, Draining, ReceiverHoldsLock,
   vars, chan, chanButQueue, factory, receiver, users, peer, history
<1>1. ASSUME New PROVE TokenInv'
  BY <1>1 DEF New
<1>2. ASSUME Drop PROVE TokenInv'
  BY <1>2 DEF Drop, Farewell
<1>3. ASSUME PeerDies PROVE TokenInv'
  BY <1>3 DEF PeerDies
<1>4. ASSUME ReceiveData PROVE TokenInv'
  BY <1>4 DEF ReceiveData, Receive, LockFree
<1>5. ASSUME NEW m \in ClosingMessage, ReceiveClosing(m) PROVE TokenInv'
  BY <1>5 DEF ReceiveClosing, Receive, LockFree
<1>6. ASSUME ReceiveTerminate PROVE TokenInv'
  BY <1>6 DEF ReceiveTerminate, EndReceiving, LockFree
<1>7. ASSUME ReceiveEOF PROVE TokenInv'
  BY <1>7 DEF ReceiveEOF, EndReceiving, LockFree
<1>8. ASSUME PutItem PROVE TokenInv'
  BY <1>8 DEF PutItem
<1>9. ASSUME CallCallback PROVE TokenInv'
  BY <1>9, ItemSeen DEF CallCallback
<1>10. ASSUME SendError PROVE TokenInv'
  BY <1>10 DEF SendError
<1>11. ASSUME SendErrorFails PROVE TokenInv'
  BY <1>11 DEF SendErrorFails, Crash
<1>12. ASSUME LocalClose PROVE TokenInv'
  BY <1>12 DEF LocalClose, Error
<1>13. ASSUME LocalCloseDeleted PROVE TokenInv'
  BY <1>13 DEF LocalCloseDeleted
<1>14. ASSUME LocalCloseOfText PROVE TokenInv'
  BY <1>14 DEF LocalCloseOfText, Crash
<1>15. ASSUME PutEnd PROVE TokenInv'
  BY <1>15 DEF PutEnd
<1>16. ASSUME Pop PROVE TokenInv'
  BY <1>16 DEF Pop, Forget, WantsEnd, HandlerReturns
<1>17. ASSUME CallEnd PROVE TokenInv'
  BY <1>17 DEF CallEnd, HandlerReturns
<1>18. ASSUME CallEndRaises PROVE TokenInv'
  BY <1>18 DEF CallEndRaises, Crash
<1>19. ASSUME SetClosed PROVE TokenInv'
  BY <1>19 DEF SetClosed, NowClosedBy, HandlerReturns
<1>20. ASSUME Finish PROVE TokenInv'
  BY <1>20 DEF Finish
<1>21. ASSUME FinishCallbacks PROVE TokenInv'
  BY <1>21 DEF FinishCallbacks, Forget, WantsEnd
<1>22. ASSUME CallLast PROVE TokenInv'
  BY <1>22 DEF CallLast
<1>23. ASSUME NEW u \in User, NEW how \in {"plain", "endmarker"}, SetCallback(u, how)
       PROVE  TokenInv'
  <2>1. Ends = {}
    BY <1>23 DEF SetCallback, Ends
  <2> QED
    BY <1>23, <2>1 DEF SetCallback, Call, Step, LockFree
<1>24. ASSUME NEW u \in User, Get(u) PROVE TokenInv'
  BY <1>24 DEF Get, Call, Step
<1>25. ASSUME NEW u \in User, WaitClose(u) PROVE TokenInv'
  BY <1>25 DEF WaitClose, Call, Step
<1>26. ASSUME NEW u \in User, Close(u) PROVE TokenInv'
  BY <1>26 DEF Close, Call, Step
<1>27. ASSUME NEW u \in User, DrainItem(u) PROVE TokenInv'
  <2>1. UNCHANGED Ends
    BY <1>27, ItemSeen
  <2>2. /\ upc[u] = "drain" /\ upc'[u] \in {"drain", "idle"}
        /\ upc' = [upc EXCEPT ![u] = upc'[u]]
    BY <1>27 DEF DrainItem, Step
  <2> QED
    BY <1>27, <2>1, <2>2 DEF DrainItem
<1>28. ASSUME NEW u \in User, DrainEnd(u) PROVE TokenInv'
  BY <1>28 DEF DrainEnd, Step
<1>29. ASSUME NEW u \in User, DrainEmpty(u) PROVE TokenInv'
  BY <1>29 DEF DrainEmpty, QuietStep, Step
<1>30. ASSUME NEW u \in User, Check(u) PROVE TokenInv'
  BY <1>30 DEF Check, QuietStep, Step
<1>31. ASSUME NEW u \in User, Register(u) PROVE TokenInv'
  BY <1>31 DEF Register, Step
<1>32. ASSUME NEW u \in User, GetItem(u) PROVE TokenInv'
  BY <1>32 DEF GetItem, Step
<1>33. ASSUME NEW u \in User, GetEnd(u) PROVE TokenInv'
  BY <1>33 DEF GetEnd, Step
<1>34. ASSUME NEW u \in User, PutBack(u) PROVE TokenInv'
  BY <1>34 DEF PutBack, Step, RaiseRemoteError
<1>35. ASSUME NEW u \in User, WaitCloseReturns(u) PROVE TokenInv'
  BY <1>35 DEF WaitCloseReturns, Step, RaiseRemoteError
<1>36. ASSUME NEW u \in User, SendClose(u) PROVE TokenInv'
  BY <1>36 DEF SendClose, Step
<1>37. ASSUME NEW u \in User, SendCloseFails(u) PROVE TokenInv'
  BY <1>37 DEF SendCloseFails, QuietStep, Step
<1>38. ASSUME NEW u \in User, Mark(u) PROVE TokenInv'
  BY <1>38 DEF Mark, Step, NowClosedBy
<1>39. ASSUME NEW u \in User, ReadQueue(u) PROVE TokenInv'
  BY <1>39 DEF ReadQueue, QuietStep, Step
<1>40. ASSUME NEW u \in User, ClosePutEnd(u) PROVE TokenInv'
  BY <1>40 DEF ClosePutEnd, Step
<1>41. ASSUME NEW u \in User, ClosePop(u) PROVE TokenInv'
  BY <1>41 DEF ClosePop, Step, Forget, WantsEnd
<1>42. ASSUME NEW u \in User, CloseCallEnd(u) PROVE TokenInv'
  BY <1>42 DEF CloseCallEnd, Step
<1>43. CASE UNCHANGED vars
  BY <1>43 DEF vars
<1> HIDE DEF IInv, TokenInv
<1> QED
  BY <1>1, <1>2, <1>3, <1>4, <1>5, <1>6, <1>7, <1>8, <1>9, <1>10, <1>11, <1>12, <1>13,
     <1>14, <1>15, <1>16, <1>17, <1>18, <1>19, <1>20, <1>21, <1>22, <1>23, <1>24, <1>25,
     <1>26, <1>27, <1>28, <1>29, <1>30, <1>31, <1>32, <1>33, <1>34, <1>35, <1>36, <1>37,
     <1>38, <1>39, <1>40, <1>41, <1>42, <1>43
  DEF Next, Handle, Begin, Continue

\* No step calls the callback after its endmarker, or with a second one.
LEMMA LastKept == IInv /\ [Next]_vars => LastInv'
<1> SUFFICES ASSUME IInv, [Next]_vars PROVE LastInv'
  OBVIOUS
<1> USE EndpointAssumption, EndsKept DEF IInv, TypeOK, LastInv, TokenInv, ReceiverInv,
   LockInv, ClosedInv, Holding, Handling, Over, Stopped, ClosingMessage, Draining,
   ReceiverHoldsLock, vars, chan, chanButQueue, factory, receiver, users, peer, history
<1>1. ASSUME New PROVE LastInv'
  BY <1>1 DEF New
<1>2. ASSUME Drop PROVE LastInv'
  BY <1>2 DEF Drop, Farewell
<1>3. ASSUME PeerDies PROVE LastInv'
  BY <1>3 DEF PeerDies
<1>4. ASSUME ReceiveData PROVE LastInv'
  BY <1>4 DEF ReceiveData, Receive, LockFree
<1>5. ASSUME NEW m \in ClosingMessage, ReceiveClosing(m) PROVE LastInv'
  BY <1>5 DEF ReceiveClosing, Receive, LockFree
<1>6. ASSUME ReceiveTerminate PROVE LastInv'
  BY <1>6 DEF ReceiveTerminate, EndReceiving, LockFree
<1>7. ASSUME ReceiveEOF PROVE LastInv'
  BY <1>7 DEF ReceiveEOF, EndReceiving, LockFree
<1>8. ASSUME PutItem PROVE LastInv'
  BY <1>8 DEF PutItem
<1>9. ASSUME CallCallback PROVE LastInv'
  BY <1>9, ItemSeen DEF CallCallback
<1>10. ASSUME SendError PROVE LastInv'
  BY <1>10 DEF SendError
<1>11. ASSUME SendErrorFails PROVE LastInv'
  BY <1>11 DEF SendErrorFails, Crash
<1>12. ASSUME LocalClose PROVE LastInv'
  BY <1>12 DEF LocalClose, Error
<1>13. ASSUME LocalCloseDeleted PROVE LastInv'
  BY <1>13 DEF LocalCloseDeleted
<1>14. ASSUME LocalCloseOfText PROVE LastInv'
  BY <1>14 DEF LocalCloseOfText, Crash
<1>15. ASSUME PutEnd PROVE LastInv'
  BY <1>15 DEF PutEnd
<1>16. ASSUME Pop PROVE LastInv'
  BY <1>16 DEF Pop, Forget, WantsEnd, HandlerReturns
<1>17. ASSUME CallEnd PROVE LastInv'
  BY <1>17, EndSeen DEF CallEnd, HandlerReturns
<1>18. ASSUME CallEndRaises PROVE LastInv'
  BY <1>18, EndSeen DEF CallEndRaises, Crash
<1>19. ASSUME SetClosed PROVE LastInv'
  BY <1>19 DEF SetClosed, NowClosedBy, HandlerReturns
<1>20. ASSUME Finish PROVE LastInv'
  BY <1>20 DEF Finish
<1>21. ASSUME FinishCallbacks PROVE LastInv'
  BY <1>21 DEF FinishCallbacks, Forget, WantsEnd
<1>22. ASSUME CallLast PROVE LastInv'
  BY <1>22, EndSeen DEF CallLast
<1>23. ASSUME NEW u \in User, NEW how \in {"plain", "endmarker"}, SetCallback(u, how)
       PROVE  LastInv'
  BY <1>23 DEF SetCallback, Call, Step, LockFree
<1>24. ASSUME NEW u \in User, Get(u) PROVE LastInv'
  BY <1>24 DEF Get, Call, Step
<1>25. ASSUME NEW u \in User, WaitClose(u) PROVE LastInv'
  BY <1>25 DEF WaitClose, Call, Step
<1>26. ASSUME NEW u \in User, Close(u) PROVE LastInv'
  BY <1>26 DEF Close, Call, Step
<1>27. ASSUME NEW u \in User, DrainItem(u) PROVE LastInv'
  BY <1>27, ItemSeen DEF DrainItem, Step
<1>28. ASSUME NEW u \in User, DrainEnd(u) PROVE LastInv'
  BY <1>28, EndSeen DEF DrainEnd, Step
<1>29. ASSUME NEW u \in User, DrainEmpty(u) PROVE LastInv'
  BY <1>29 DEF DrainEmpty, QuietStep, Step
<1>30. ASSUME NEW u \in User, Check(u) PROVE LastInv'
  BY <1>30 DEF Check, QuietStep, Step
<1>31. ASSUME NEW u \in User, Register(u) PROVE LastInv'
  BY <1>31 DEF Register, Step
<1>32. ASSUME NEW u \in User, GetItem(u) PROVE LastInv'
  BY <1>32 DEF GetItem, Step
<1>33. ASSUME NEW u \in User, GetEnd(u) PROVE LastInv'
  BY <1>33 DEF GetEnd, Step
<1>34. ASSUME NEW u \in User, PutBack(u) PROVE LastInv'
  BY <1>34 DEF PutBack, Step, RaiseRemoteError
<1>35. ASSUME NEW u \in User, WaitCloseReturns(u) PROVE LastInv'
  BY <1>35 DEF WaitCloseReturns, Step, RaiseRemoteError
<1>36. ASSUME NEW u \in User, SendClose(u) PROVE LastInv'
  BY <1>36 DEF SendClose, Step
<1>37. ASSUME NEW u \in User, SendCloseFails(u) PROVE LastInv'
  BY <1>37 DEF SendCloseFails, QuietStep, Step
<1>38. ASSUME NEW u \in User, Mark(u) PROVE LastInv'
  BY <1>38 DEF Mark, Step, NowClosedBy
<1>39. ASSUME NEW u \in User, ReadQueue(u) PROVE LastInv'
  BY <1>39 DEF ReadQueue, QuietStep, Step
<1>40. ASSUME NEW u \in User, ClosePutEnd(u) PROVE LastInv'
  BY <1>40 DEF ClosePutEnd, Step
<1>41. ASSUME NEW u \in User, ClosePop(u) PROVE LastInv'
  BY <1>41 DEF ClosePop, Step, Forget, WantsEnd
<1>42. ASSUME NEW u \in User, CloseCallEnd(u) PROVE LastInv'
  BY <1>42, EndSeen DEF CloseCallEnd, Step
<1>43. CASE UNCHANGED vars
  BY <1>43 DEF vars
<1> HIDE DEF IInv, LastInv
<1> QED
  BY <1>1, <1>2, <1>3, <1>4, <1>5, <1>6, <1>7, <1>8, <1>9, <1>10, <1>11, <1>12, <1>13,
     <1>14, <1>15, <1>16, <1>17, <1>18, <1>19, <1>20, <1>21, <1>22, <1>23, <1>24, <1>25,
     <1>26, <1>27, <1>28, <1>29, <1>30, <1>31, <1>32, <1>33, <1>34, <1>35, <1>36, <1>37,
     <1>38, <1>39, <1>40, <1>41, <1>42, <1>43
  DEF Next, Handle, Begin, Continue

\* No step loses an error that the peer has sent, or raises it twice.
LEMMA ErrorKept == IInv /\ [Next]_vars => ErrorInv'
<1> SUFFICES ASSUME IInv, [Next]_vars PROVE ErrorInv'
  OBVIOUS
<1> USE EndpointAssumption, HasEndKept DEF IInv, TypeOK, ErrorInv, ObjectInv, ReceiverInv,
   ClosedInv, Committed, Holding, Handling, Over, Stopped, ClosingMessage, Draining,
   ReceiverHoldsLock, vars, chan, chanButQueue, factory, receiver, users, peer, history
<1>1. ASSUME New PROVE ErrorInv'
  BY <1>1 DEF New
<1>2. ASSUME Drop PROVE ErrorInv'
  BY <1>2 DEF Drop, Farewell
<1>3. ASSUME PeerDies PROVE ErrorInv'
  BY <1>3 DEF PeerDies
<1>4. ASSUME ReceiveData PROVE ErrorInv'
  BY <1>4 DEF ReceiveData, Receive, LockFree
<1>5. ASSUME NEW m \in ClosingMessage, ReceiveClosing(m) PROVE ErrorInv'
  BY <1>5 DEF ReceiveClosing, Receive, LockFree
<1>6. ASSUME ReceiveTerminate PROVE ErrorInv'
  BY <1>6 DEF ReceiveTerminate, EndReceiving, LockFree
<1>7. ASSUME ReceiveEOF PROVE ErrorInv'
  BY <1>7 DEF ReceiveEOF, EndReceiving, LockFree
<1>8. ASSUME PutItem PROVE ErrorInv'
  BY <1>8, HasEndFacts, InHandFacts DEF PutItem
<1>9. ASSUME CallCallback PROVE ErrorInv'
  BY <1>9 DEF CallCallback
<1>10. ASSUME SendError PROVE ErrorInv'
  BY <1>10 DEF SendError
<1>11. ASSUME SendErrorFails PROVE ErrorInv'
  BY <1>11 DEF SendErrorFails, Crash
<1>12. ASSUME LocalClose PROVE ErrorInv'
  BY <1>12 DEF LocalClose, Error
<1>13. ASSUME LocalCloseDeleted PROVE ErrorInv'
  BY <1>13 DEF LocalCloseDeleted
<1>14. ASSUME LocalCloseOfText PROVE ErrorInv'
  BY <1>14 DEF LocalCloseOfText, Crash
<1>15. ASSUME PutEnd PROVE ErrorInv'
  BY <1>15, HasEndFacts DEF PutEnd
<1>16. ASSUME Pop PROVE ErrorInv'
  BY <1>16 DEF Pop, Forget, WantsEnd, HandlerReturns
<1>17. ASSUME CallEnd PROVE ErrorInv'
  BY <1>17 DEF CallEnd, HandlerReturns
<1>18. ASSUME CallEndRaises PROVE ErrorInv'
  BY <1>18 DEF CallEndRaises, Crash
<1>19. ASSUME SetClosed PROVE ErrorInv'
  BY <1>19 DEF SetClosed, NowClosedBy, HandlerReturns
<1>20. ASSUME Finish PROVE ErrorInv'
  BY <1>20 DEF Finish
<1>21. ASSUME FinishCallbacks PROVE ErrorInv'
  BY <1>21 DEF FinishCallbacks, Forget, WantsEnd
<1>22. ASSUME CallLast PROVE ErrorInv'
  BY <1>22 DEF CallLast
<1>23. ASSUME NEW u \in User, NEW how \in {"plain", "endmarker"}, SetCallback(u, how)
       PROVE  ErrorInv'
  BY <1>23 DEF SetCallback, Call, Step, LockFree
<1>24. ASSUME NEW u \in User, Get(u) PROVE ErrorInv'
  BY <1>24 DEF Get, Call, Step
<1>25. ASSUME NEW u \in User, WaitClose(u) PROVE ErrorInv'
  BY <1>25 DEF WaitClose, Call, Step
<1>26. ASSUME NEW u \in User, Close(u) PROVE ErrorInv'
  BY <1>26 DEF Close, Call, Step
<1>27. ASSUME NEW u \in User, DrainItem(u) PROVE ErrorInv'
  <2>1. HasEnd' <=> HasEnd
    BY <1>27, HasEndFacts DEF DrainItem
  <2> QED
    BY <1>27, <2>1 DEF DrainItem, Step
<1>28. ASSUME NEW u \in User, DrainEnd(u) PROVE ErrorInv'
  <2>1. HasEnd
    BY <1>28 DEF DrainEnd, HasEnd
  <2> QED
    BY <1>28, <2>1 DEF DrainEnd, Step
<1>29. ASSUME NEW u \in User, DrainEmpty(u) PROVE ErrorInv'
  BY <1>29 DEF DrainEmpty, QuietStep, Step
<1>30. ASSUME NEW u \in User, Check(u) PROVE ErrorInv'
  BY <1>30 DEF Check, QuietStep, Step
<1>31. ASSUME NEW u \in User, Register(u) PROVE ErrorInv'
  BY <1>31 DEF Register, Step
<1>32. ASSUME NEW u \in User, GetItem(u) PROVE ErrorInv'
  <2>1. HasEnd' <=> HasEnd
    BY <1>32, HasEndFacts DEF GetItem
  <2> QED
    BY <1>32, <2>1 DEF GetItem, Step
<1>33. ASSUME NEW u \in User, GetEnd(u) PROVE ErrorInv'
  BY <1>33, HasEndFacts DEF GetEnd, Step, HasEnd
<1>34. ASSUME NEW u \in User, PutBack(u) PROVE ErrorInv'
  <2>1. HasEnd' <=> TRUE
    BY <1>34, HasEndFacts DEF PutBack
  <2>2. CASE errors = <<>> /\ UNCHANGED <<errors, raised>>
    BY <1>34, <2>1, <2>2, RaisedOnce DEF PutBack, Step
  <2>3. CASE errors = <<"error">> /\ errors' = <<>> /\ raised = 0 /\ raised' = 1
    BY <1>34, <2>1, <2>3, RaisedOnce DEF PutBack, Step
  <2>4. CASE errors = <<"text">> /\ errors' = <<>> /\ raised = 0 /\ raised' = 0
    BY <1>34, <2>1, <2>4, RaisedOnce DEF PutBack, Step
  <2> QED
    BY <1>34, <2>2, <2>3, <2>4, RaisedOnce DEF PutBack
<1>35. ASSUME NEW u \in User, WaitCloseReturns(u) PROVE ErrorInv'
  <2>1. HasEnd' <=> HasEnd
    BY <1>35, HasEndFacts DEF WaitCloseReturns
  <2>2. CASE errors = <<>> /\ UNCHANGED <<errors, raised>>
    BY <1>35, <2>1, <2>2, RaisedOnce DEF WaitCloseReturns, Step
  <2>3. CASE errors = <<"error">> /\ errors' = <<>> /\ raised = 0 /\ raised' = 1
    BY <1>35, <2>1, <2>3, RaisedOnce DEF WaitCloseReturns, Step
  <2>4. CASE errors = <<"text">> /\ errors' = <<>> /\ raised = 0 /\ raised' = 0
    BY <1>35, <2>1, <2>4, RaisedOnce DEF WaitCloseReturns, Step
  <2> QED
    BY <1>35, <2>2, <2>3, <2>4, RaisedOnce DEF WaitCloseReturns
<1>36. ASSUME NEW u \in User, SendClose(u) PROVE ErrorInv'
  BY <1>36 DEF SendClose, Step
<1>37. ASSUME NEW u \in User, SendCloseFails(u) PROVE ErrorInv'
  BY <1>37 DEF SendCloseFails, QuietStep, Step
<1>38. ASSUME NEW u \in User, Mark(u) PROVE ErrorInv'
  BY <1>38 DEF Mark, Step, NowClosedBy
<1>39. ASSUME NEW u \in User, ReadQueue(u) PROVE ErrorInv'
  BY <1>39 DEF ReadQueue, QuietStep, Step
<1>40. ASSUME NEW u \in User, ClosePutEnd(u) PROVE ErrorInv'
  BY <1>40, HasEndFacts DEF ClosePutEnd, Step
<1>41. ASSUME NEW u \in User, ClosePop(u) PROVE ErrorInv'
  BY <1>41 DEF ClosePop, Step, Forget, WantsEnd
<1>42. ASSUME NEW u \in User, CloseCallEnd(u) PROVE ErrorInv'
  BY <1>42 DEF CloseCallEnd, Step
<1>43. CASE UNCHANGED vars
  BY <1>43 DEF vars
<1> HIDE DEF IInv, ErrorInv
<1> QED
  BY <1>1, <1>2, <1>3, <1>4, <1>5, <1>6, <1>7, <1>8, <1>9, <1>10, <1>11, <1>12, <1>13,
     <1>14, <1>15, <1>16, <1>17, <1>18, <1>19, <1>20, <1>21, <1>22, <1>23, <1>24, <1>25,
     <1>26, <1>27, <1>28, <1>29, <1>30, <1>31, <1>32, <1>33, <1>34, <1>35, <1>36, <1>37,
     <1>38, <1>39, <1>40, <1>41, <1>42, <1>43
  DEF Next, Handle, Begin, Continue

\* No step loses the endmarker of a channel that the peer closes.
LEMMA WakeKept == IInv /\ [Next]_vars => WakeInv'
<1> SUFFICES ASSUME IInv, [Next]_vars PROVE WakeInv'
  OBVIOUS
<1> USE EndpointAssumption, EndsKept, HasEndKept DEF IInv, TypeOK, WakeInv, PeerEnded,
   EndComes, EndTaken, TokenInv, LastInv, LockInv, ReceiverInv, ObjectInv, ClosedInv,
   Holding, Handling, Over, Stopped, ClosingMessage, Draining, ReceiverHoldsLock, vars,
   chan, chanButQueue, factory, receiver, users, peer, history
<1>1. ASSUME New PROVE WakeInv'
  BY <1>1 DEF New
<1>2. ASSUME Drop PROVE WakeInv'
  BY <1>2 DEF Drop, Farewell
<1>3. ASSUME PeerDies PROVE WakeInv'
  BY <1>3 DEF PeerDies
<1>4. ASSUME ReceiveData PROVE WakeInv'
  BY <1>4 DEF ReceiveData, Receive, LockFree
<1>5. ASSUME NEW m \in ClosingMessage, ReceiveClosing(m) PROVE WakeInv'
  BY <1>5 DEF ReceiveClosing, Receive, LockFree
<1>6. ASSUME ReceiveTerminate PROVE WakeInv'
  BY <1>6 DEF ReceiveTerminate, EndReceiving, LockFree
<1>7. ASSUME ReceiveEOF PROVE WakeInv'
  BY <1>7 DEF ReceiveEOF, EndReceiving, LockFree
<1>8. ASSUME PutItem PROVE WakeInv'
  BY <1>8, InHandFacts, HasEndFacts DEF PutItem
<1>9. ASSUME CallCallback PROVE WakeInv'
  BY <1>9, ItemSeen DEF CallCallback
<1>10. ASSUME SendError PROVE WakeInv'
  BY <1>10 DEF SendError
<1>11. ASSUME SendErrorFails PROVE WakeInv'
  BY <1>11 DEF SendErrorFails, Crash
<1>12. ASSUME LocalClose PROVE WakeInv'
  BY <1>12 DEF LocalClose, Error
<1>13. ASSUME LocalCloseDeleted PROVE WakeInv'
  BY <1>13 DEF LocalCloseDeleted
<1>14. ASSUME LocalCloseOfText PROVE WakeInv'
  BY <1>14 DEF LocalCloseOfText, Crash
<1>15. ASSUME PutEnd PROVE WakeInv'
  BY <1>15, HasEndFacts DEF PutEnd
<1>16. ASSUME Pop PROVE WakeInv'
  BY <1>16 DEF Pop, Forget, WantsEnd, HandlerReturns
<1>17. ASSUME CallEnd PROVE WakeInv'
  BY <1>17, EndSeen DEF CallEnd, HandlerReturns
<1>18. ASSUME CallEndRaises PROVE WakeInv'
  BY <1>18, EndSeen DEF CallEndRaises, Crash
<1>19. ASSUME SetClosed PROVE WakeInv'
  BY <1>19 DEF SetClosed, NowClosedBy, HandlerReturns
<1>20. ASSUME Finish PROVE WakeInv'
  BY <1>20 DEF Finish
<1>21. ASSUME FinishCallbacks PROVE WakeInv'
  BY <1>21 DEF FinishCallbacks, Forget, WantsEnd
<1>22. ASSUME CallLast PROVE WakeInv'
  BY <1>22, EndSeen DEF CallLast
<1>23. ASSUME NEW u \in User, NEW how \in {"plain", "endmarker"}, SetCallback(u, how)
       PROVE  WakeInv'
  BY <1>23 DEF SetCallback, Call, Step, LockFree
<1>24. ASSUME NEW u \in User, Get(u) PROVE WakeInv'
  BY <1>24 DEF Get, Call, Step
<1>25. ASSUME NEW u \in User, WaitClose(u) PROVE WakeInv'
  BY <1>25 DEF WaitClose, Call, Step
<1>26. ASSUME NEW u \in User, Close(u) PROVE WakeInv'
  BY <1>26 DEF Close, Call, Step
<1>27. ASSUME NEW u \in User, DrainItem(u) PROVE WakeInv'
  <2>1. (HasEnd' <=> HasEnd) /\ UNCHANGED Ends
    BY <1>27, HasEndFacts, ItemSeen DEF DrainItem
  <2> QED
    BY <1>27, <2>1 DEF DrainItem, Step
<1>28. ASSUME NEW u \in User, DrainEnd(u) PROVE WakeInv'
  BY <1>28, EndSeen DEF DrainEnd, Step
<1>29. ASSUME NEW u \in User, DrainEmpty(u) PROVE WakeInv'
  BY <1>29 DEF DrainEmpty, QuietStep, Step, HasEnd
<1>30. ASSUME NEW u \in User, Check(u) PROVE WakeInv'
  BY <1>30 DEF Check, QuietStep, Step
<1>31. ASSUME NEW u \in User, Register(u) PROVE WakeInv'
  BY <1>31 DEF Register, Step
<1>32. ASSUME NEW u \in User, GetItem(u) PROVE WakeInv'
  <2>1. HasEnd' <=> HasEnd
    BY <1>32, HasEndFacts DEF GetItem
  <2> QED
    BY <1>32, <2>1 DEF GetItem, Step
<1>33. ASSUME NEW u \in User, GetEnd(u) PROVE WakeInv'
  BY <1>33 DEF GetEnd, Step
<1>34. ASSUME NEW u \in User, PutBack(u) PROVE WakeInv'
  BY <1>34, HasEndFacts DEF PutBack, Step, RaiseRemoteError
<1>35. ASSUME NEW u \in User, WaitCloseReturns(u) PROVE WakeInv'
  BY <1>35 DEF WaitCloseReturns, Step, RaiseRemoteError
<1>36. ASSUME NEW u \in User, SendClose(u) PROVE WakeInv'
  BY <1>36 DEF SendClose, Step
<1>37. ASSUME NEW u \in User, SendCloseFails(u) PROVE WakeInv'
  BY <1>37 DEF SendCloseFails, QuietStep, Step
<1>38. ASSUME NEW u \in User, Mark(u) PROVE WakeInv'
  BY <1>38 DEF Mark, Step, NowClosedBy
<1>39. ASSUME NEW u \in User, ReadQueue(u) PROVE WakeInv'
  BY <1>39 DEF ReadQueue, QuietStep, Step
<1>40. ASSUME NEW u \in User, ClosePutEnd(u) PROVE WakeInv'
  <2>1. HasEnd'
    BY <1>40, HasEndFacts DEF ClosePutEnd
  <2> QED
    BY <1>40, <2>1 DEF ClosePutEnd, Step
<1>41. ASSUME NEW u \in User, ClosePop(u) PROVE WakeInv'
  BY <1>41 DEF ClosePop, Step, Forget, WantsEnd
<1>42. ASSUME NEW u \in User, CloseCallEnd(u) PROVE WakeInv'
  BY <1>42, EndSeen DEF CloseCallEnd, Step
<1>43. CASE UNCHANGED vars
  BY <1>43 DEF vars
<1> HIDE DEF IInv, WakeInv
<1> QED
  BY <1>1, <1>2, <1>3, <1>4, <1>5, <1>6, <1>7, <1>8, <1>9, <1>10, <1>11, <1>12, <1>13,
     <1>14, <1>15, <1>16, <1>17, <1>18, <1>19, <1>20, <1>21, <1>22, <1>23, <1>24, <1>25,
     <1>26, <1>27, <1>28, <1>29, <1>30, <1>31, <1>32, <1>33, <1>34, <1>35, <1>36, <1>37,
     <1>38, <1>39, <1>40, <1>41, <1>42, <1>43
  DEF Next, Handle, Begin, Continue

\* No step loses, repeats or reorders an item.
LEMMA ItemKept == IInv /\ [Next]_vars => ItemInv'
<1> SUFFICES ASSUME IInv, [Next]_vars PROVE ItemInv'
  OBVIOUS
<1> USE EndpointAssumption DEF IInv, TypeOK, ItemInv, Arrived, InHand, Lost, TokenInv,
   LockInv, ReceiverInv, ObjectInv, ClosedInv, Holding, Handling, Over, Stopped,
   ClosingMessage, Draining, ReceiverHoldsLock, vars, chan, chanButQueue, factory, receiver,
   users, peer, history
<1>1. ASSUME New PROVE ItemInv'
  BY <1>1 DEF New
<1>2. ASSUME Drop PROVE ItemInv'
  BY <1>2 DEF Drop, Farewell
<1>3. ASSUME PeerDies PROVE ItemInv'
  BY <1>3 DEF PeerDies
<1>4. ASSUME ReceiveData PROVE ItemInv'
  BY <1>4 DEF ReceiveData, Receive, LockFree
<1>5. ASSUME NEW m \in ClosingMessage, ReceiveClosing(m) PROVE ItemInv'
  BY <1>5 DEF ReceiveClosing, Receive, LockFree
<1>6. ASSUME ReceiveTerminate PROVE ItemInv'
  BY <1>6 DEF ReceiveTerminate, EndReceiving, LockFree
<1>7. ASSUME ReceiveEOF PROVE ItemInv'
  BY <1>7 DEF ReceiveEOF, EndReceiving, LockFree
<1>8. ASSUME PutItem PROVE ItemInv'
  <2>1. /\ Arrived = nsent - 1 /\ Arrived' = nsent /\ Len(taken) <= Arrived
        /\ Arrived + 1 \in Item /\ Len(taken) \in Nat /\ Arrived \in Nat
    BY <1>8, InHandFacts DEF PutItem, Item
  <2>2. CASE rchan /\ items
    <3>1. Covers(queue, Len(taken), Arrived) /\ queue' = Append(queue, Arrived + 1)
      BY <1>8, <2>1, <2>2 DEF PutItem
    <3>2. /\ InOrder(queue', Len(taken), Arrived + 1)
          /\ Covers(queue', Len(taken), Arrived + 1)
      BY <2>1, <3>1, InHandFacts, ItemQueued
    <3> QED
      BY <1>8, <2>1, <2>2, <3>2 DEF PutItem
  <2>3. CASE ~(rchan /\ items)
    <3>1. InOrder(queue, Len(taken), Arrived + 1)
      BY <2>1, InHandFacts, ItemLate
    <3>2. Lost'
      BY <1>8, <2>3 DEF PutItem, Ends
    <3> QED
      BY <1>8, <2>1, <2>3, <3>1, <3>2 DEF PutItem
  <2> QED
    BY <2>2, <2>3
<1>9. ASSUME CallCallback PROVE ItemInv'
  <2>1. /\ Covers(queue, Len(taken), Arrived) /\ EndsOnly(queue)
        /\ Len(taken) <= Arrived /\ rpc = "call"
    BY <1>9 DEF CallCallback
  <2>2. nsent \in Item /\ Arrived = nsent - 1 /\ Arrived' = nsent
    BY <1>9, <2>1, InHandFacts DEF CallCallback
  <2>3. Len(taken) = Arrived /\ nsent \in Nat /\ nsent = Len(taken) + 1
    <3>1. Len(taken) \in Nat /\ Arrived \in Nat
      BY InHandFacts
    <3>2. Len(taken) = Arrived
      BY <2>1, <3>1, InHandFacts, EndsOnlyFacts
    <3> QED
      BY <2>2, <3>1, <3>2 DEF Item
  <2>4. InOrder(queue, nsent, nsent) /\ Covers(queue, nsent, nsent)
    BY <2>1, <2>3, InHandFacts, EndsOnlyFacts
  <2>5. Len(taken') = nsent /\ \A i \in DOMAIN taken' : taken'[i] = i
    BY <1>9, <2>2, <2>3, InHandFacts, TakenNext DEF CallCallback
  <2> QED
    BY <1>9, <2>1, <2>2, <2>4, <2>5 DEF CallCallback
<1>10. ASSUME SendError PROVE ItemInv'
  BY <1>10 DEF SendError
<1>11. ASSUME SendErrorFails PROVE ItemInv'
  BY <1>11 DEF SendErrorFails, Crash
<1>12. ASSUME LocalClose PROVE ItemInv'
  BY <1>12 DEF LocalClose, Error
<1>13. ASSUME LocalCloseDeleted PROVE ItemInv'
  BY <1>13 DEF LocalCloseDeleted
<1>14. ASSUME LocalCloseOfText PROVE ItemInv'
  BY <1>14 DEF LocalCloseOfText, Crash
<1>15. ASSUME PutEnd PROVE ItemInv'
  BY <1>15, InHandFacts, EndInQueue DEF PutEnd, Item
<1>16. ASSUME Pop PROVE ItemInv'
  BY <1>16 DEF Pop, Forget, WantsEnd, HandlerReturns
<1>17. ASSUME CallEnd PROVE ItemInv'
  BY <1>17 DEF CallEnd, HandlerReturns
<1>18. ASSUME CallEndRaises PROVE ItemInv'
  BY <1>18 DEF CallEndRaises, Crash
<1>19. ASSUME SetClosed PROVE ItemInv'
  BY <1>19 DEF SetClosed, NowClosedBy, HandlerReturns
<1>20. ASSUME Finish PROVE ItemInv'
  BY <1>20 DEF Finish
<1>21. ASSUME FinishCallbacks PROVE ItemInv'
  BY <1>21 DEF FinishCallbacks, Forget, WantsEnd
<1>22. ASSUME CallLast PROVE ItemInv'
  BY <1>22 DEF CallLast
<1>23. ASSUME NEW u \in User, NEW how \in {"plain", "endmarker"}, SetCallback(u, how)
       PROVE  ItemInv'
  BY <1>23 DEF SetCallback, Call, Step, LockFree
<1>24. ASSUME NEW u \in User, Get(u) PROVE ItemInv'
  BY <1>24 DEF Get, Call, Step
<1>25. ASSUME NEW u \in User, WaitClose(u) PROVE ItemInv'
  BY <1>25 DEF WaitClose, Call, Step
<1>26. ASSUME NEW u \in User, Close(u) PROVE ItemInv'
  BY <1>26 DEF Close, Call, Step
<1>27. ASSUME NEW u \in User, DrainItem(u) PROVE ItemInv'
  <2>1. /\ Len(taken) + 1 <= Arrived /\ Head(queue) = Len(taken) + 1
        /\ InOrder(queue', Len(taken) + 1, Arrived)
        /\ Covers(queue, Len(taken), Arrived) => Covers(queue', Len(taken) + 1, Arrived)
    BY <1>27, InHandFacts, ItemTaken DEF DrainItem
  <2>2. Len(taken') = Len(taken) + 1 /\ \A i \in DOMAIN taken' : taken'[i] = i
    BY <1>27, <2>1, InHandFacts, TakenNext DEF DrainItem
  <2>3. Arrived' = Arrived
    BY <1>27 DEF DrainItem
  <2>4. ~EndsOnly(queue)
    BY <1>27 DEF DrainItem, EndsOnly
  <2> QED
    BY <1>27, <2>1, <2>2, <2>3, <2>4 DEF DrainItem, Step
<1>28. ASSUME NEW u \in User, DrainEnd(u) PROVE ItemInv'
  <2>1. Tail(queue) \in Seq(Item \cup {EndMarker})
    BY <1>28 DEF DrainEnd, Item
  <2>2. /\ InOrder(queue', Len(taken), Arrived)
        /\ Covers(queue, Len(taken), Arrived) => Covers(queue', Len(taken), Arrived)
    BY <1>28, <2>1, InHandFacts, EndInQueue DEF DrainEnd, Item
  <2> QED
    BY <1>28, <2>2 DEF DrainEnd, Step
<1>29. ASSUME NEW u \in User, DrainEmpty(u) PROVE ItemInv'
  BY <1>29 DEF DrainEmpty, QuietStep, Step, EndsOnly
<1>30. ASSUME NEW u \in User, Check(u) PROVE ItemInv'
  BY <1>30 DEF Check, QuietStep, Step
<1>31. ASSUME NEW u \in User, Register(u) PROVE ItemInv'
  BY <1>31 DEF Register, Step
<1>32. ASSUME NEW u \in User, GetItem(u) PROVE ItemInv'
  <2>1. /\ Len(taken) + 1 <= Arrived /\ Head(queue) = Len(taken) + 1
        /\ InOrder(queue', Len(taken) + 1, Arrived)
        /\ Covers(queue, Len(taken), Arrived) => Covers(queue', Len(taken) + 1, Arrived)
    BY <1>32, InHandFacts, ItemTaken DEF GetItem
  <2>2. Len(taken') = Len(taken) + 1 /\ \A i \in DOMAIN taken' : taken'[i] = i
    BY <1>32, <2>1, InHandFacts, TakenNext DEF GetItem
  <2>3. Arrived' = Arrived
    BY <1>32 DEF GetItem
  <2>4. ~EndsOnly(queue)
    BY <1>32 DEF GetItem, EndsOnly
  <2> QED
    BY <1>32, <2>1, <2>2, <2>3, <2>4 DEF GetItem, Step
<1>33. ASSUME NEW u \in User, GetEnd(u) PROVE ItemInv'
  <2>1. /\ InOrder(queue', Len(taken), Arrived)
        /\ Covers(queue, Len(taken), Arrived) => Covers(queue', Len(taken), Arrived)
        /\ EndsOnly(queue) => EndsOnly(queue')
    BY <1>33, InHandFacts, EndInQueue DEF GetEnd
  <2> QED
    BY <1>33, <2>1 DEF GetEnd, Step
<1>34. ASSUME NEW u \in User, PutBack(u) PROVE ItemInv'
  <2>1. /\ InOrder(queue', Len(taken), Arrived)
        /\ Covers(queue, Len(taken), Arrived) => Covers(queue', Len(taken), Arrived)
        /\ EndsOnly(queue) => EndsOnly(queue')
    BY <1>34, InHandFacts, EndInQueue DEF PutBack
  <2> QED
    BY <1>34, <2>1 DEF PutBack, Step, RaiseRemoteError
<1>35. ASSUME NEW u \in User, WaitCloseReturns(u) PROVE ItemInv'
  BY <1>35 DEF WaitCloseReturns, Step, RaiseRemoteError
<1>36. ASSUME NEW u \in User, SendClose(u) PROVE ItemInv'
  BY <1>36 DEF SendClose, Step
<1>37. ASSUME NEW u \in User, SendCloseFails(u) PROVE ItemInv'
  BY <1>37 DEF SendCloseFails, QuietStep, Step
<1>38. ASSUME NEW u \in User, Mark(u) PROVE ItemInv'
  BY <1>38 DEF Mark, Step, NowClosedBy
<1>39. ASSUME NEW u \in User, ReadQueue(u) PROVE ItemInv'
  BY <1>39 DEF ReadQueue, QuietStep, Step
<1>40. ASSUME NEW u \in User, ClosePutEnd(u) PROVE ItemInv'
  BY <1>40, InHandFacts, EndInQueue DEF ClosePutEnd, Step, Item
<1>41. ASSUME NEW u \in User, ClosePop(u) PROVE ItemInv'
  BY <1>41 DEF ClosePop, Step, Forget, WantsEnd
<1>42. ASSUME NEW u \in User, CloseCallEnd(u) PROVE ItemInv'
  BY <1>42 DEF CloseCallEnd, Step
<1>43. CASE UNCHANGED vars
  BY <1>43 DEF vars
<1> HIDE DEF IInv, ItemInv
<1> QED
  BY <1>1, <1>2, <1>3, <1>4, <1>5, <1>6, <1>7, <1>8, <1>9, <1>10, <1>11, <1>12, <1>13,
     <1>14, <1>15, <1>16, <1>17, <1>18, <1>19, <1>20, <1>21, <1>22, <1>23, <1>24, <1>25,
     <1>26, <1>27, <1>28, <1>29, <1>30, <1>31, <1>32, <1>33, <1>34, <1>35, <1>36, <1>37,
     <1>38, <1>39, <1>40, <1>41, <1>42, <1>43
  DEF Next, Handle, Begin, Continue

-----------------------------------------------------------------------------
(* The invariant.                                                          *)

\* It holds initially,
LEMMA InitEstablishes == Init => IInv
<1> SUFFICES ASSUME Init PROVE IInv
  OBVIOUS
<1> USE EndpointAssumption DEF Init
<1>1. ChannelTypes
  <2>1. queue \in Seq(1..MaxItems \cup {EndMarker})
    OBVIOUS
  <2>2. errors \in Seq({"error", "text"})
    OBVIOUS
  <2> QED
    BY <2>1, <2>2 DEF ChannelTypes
<1>2. ReceiverTypes
  <2>1. nsent \in 0..MaxItems /\ rmsg \in Cause
    BY DEF Cause
  <2> QED
    BY <2>1 DEF ReceiverTypes
<1>3. UserTypes
  BY DEF UserTypes
<1>4. Ends = {} /\ ~HasEnd
  BY DEF Ends, HasEnd
<1>5. ~Draining /\ Arrived = 0 /\ Len(taken) = 0
  <2>1. InHand = 0 /\ ~Draining
    BY DEF InHand, Draining
  <2> QED
    BY <2>1 DEF Arrived
<1>6. LockInv /\ ReceiverInv /\ ObjectInv
  BY <1>4, <1>5 DEF LockInv, ReceiverInv, ObjectInv, Holding, Handling, Over, Stopped,
              ClosingMessage, ReceiverHoldsLock
<1>7. ClosedInv /\ TokenInv /\ LastInv
  BY <1>4, <1>5 DEF ClosedInv, TokenInv, LastInv, ClosingMessage
<1>8. ErrorInv /\ WakeInv
  BY <1>4, <1>5
  DEF ErrorInv, Committed, WakeInv, PeerEnded, EndComes, Stopped, ClosingMessage
<1>9. ItemInv
  BY <1>5 DEF ItemInv, InOrder, Covers, EndsOnly
<1> QED
  BY <1>1, <1>2, <1>3, <1>6, <1>7, <1>8, <1>9, TypeParts DEF IInv

\* every step preserves it,
LEMMA StepPreserves == IInv /\ [Next]_vars => IInv'
<1>1. IInv /\ [Next]_vars => TypeOK'
  BY ChannelTypesKept, ReceiverTypesKept, UserTypesKept
  DEF TypeOK, ChannelTypes, ReceiverTypes, UserTypes
<1> QED
  BY <1>1, LockKept, ReceiverKept, ObjectKept, ClosedKept, TokenKept, LastKept, ErrorKept,
     WakeKept, ItemKept
  DEF IInv

\* and so it always holds.
LEMMA Invariance == Spec => []IInv
BY InitEstablishes, StepPreserves, PTL DEF Spec

-----------------------------------------------------------------------------
(* What follows from it.                                                   *)

\* The variables have their types, for any number of threads, items and calls.
THEOREM TypeCorrect == Spec => []TypeOK
BY Invariance, PTL DEF IInv

\* However the threads meet, the callback gets its endmarker once at most, and last
\* unless the channel was closed on this side.
THEOREM EndmarkerOnceHolds == Spec => []EndmarkerOnce
<1>1. IInv => EndmarkerOnce
  <2> SUFFICES ASSUME IInv PROVE EndmarkerOnce
    OBVIOUS
  <2>1. PICK k \in Nat : Ends \subseteq {k}
    BY DEF IInv, LastInv
  <2>2. Ends = {} \/ Ends = {k}
    BY <2>1
  <2>3. Cardinality(Ends) = 0 \/ Cardinality(Ends) = 1
    BY <2>2, FS_EmptySet, FS_Singleton
  <2> QED
    BY <2>3 DEF EndmarkerOnce, IInv, LastInv
<1> QED
  BY <1>1, Invariance, PTL

\* User code gets the items in the order in which they were sent, none twice, none left out.
THEOREM ItemsInOrderHolds == Spec => []ItemsInOrder
<1>1. IInv => ItemsInOrder
  <2> SUFFICES ASSUME IInv PROVE ItemsInOrder
    OBVIOUS
  <2>1. \A i \in DOMAIN taken : taken[i] = i
    BY DEF IInv, ItemInv
  <2>2. ASSUME ~closed, ~rclosed, Listening PROVE Queued = Len(taken) + 1 .. nsent - InHand
    <3>1. InOrder(queue, Len(taken), Arrived)
      BY DEF IInv, ItemInv
    <3>2. ~Lost
      BY <2>2 DEF IInv, Listening, Lost, Draining, TokenInv, ObjectInv
    <3>3. Covers(queue, Len(taken), Arrived)
      BY <3>2 DEF IInv, ItemInv
    <3>4. Queued \subseteq Len(taken) + 1 .. Arrived
      BY <3>1 DEF Queued, InOrder, Placed
    <3>5. Len(taken) + 1 .. Arrived \subseteq Queued
      BY <3>3, InHandFacts, EndpointAssumption DEF Queued, Covers
    <3> QED
      BY <3>4, <3>5 DEF Arrived
  <2> QED
    BY <2>1, <2>2 DEF ItemsInOrder
<1> QED
  BY <1>1, Invariance, PTL

\* When waitclose() returns, the callback has been called with the endmarker.
THEOREM WaitCloseAfterEndmarkerHolds == Spec => []WaitCloseAfterEndmarker
<1>1. IInv => WaitCloseAfterEndmarker
  <2> SUFFICES ASSUME IInv, closedby \in ClosingMessage, callback = "endmarker", ~Draining
               PROVE  Ends # {} \/ EndTaken \/ \E u \in User : upc[u] = "endcall"
    BY DEF WaitCloseAfterEndmarker
  <2>1. closedby \notin {"none", "local", "text", "eof"}
    BY DEF ClosingMessage
  <2>2. ~items
    BY DEF IInv, TokenInv
  <2>3. ~registered /\ rpc \notin {"endcall", "lastcall"}
    BY <2>1 DEF IInv, LastInv
  <2> QED
    BY <2>1, <2>2, <2>3 DEF IInv, WakeInv, EndComes
<1> QED
  BY <1>1, Invariance, PTL

\* A failure is reported, and an error only once.
THEOREM FailureIsReportedHolds == Spec => []FailureIsReported
<1>1. IInv => FailureIsReported
  BY DEF IInv, ErrorInv, FailureIsReported
<1> QED
  BY <1>1, Invariance, PTL

\* When the receiver thread is through, every channel that is left is closed.
THEOREM AllClosedWhenDoneHolds == Spec => []AllClosedWhenDone
<1>1. IInv => AllClosedWhenDone
  <2> SUFFICES ASSUME IInv, rpc = "done", object = "alive", Ends = {} PROVE rclosed
    BY DEF AllClosedWhenDone
  <2>1. ~listed
    BY DEF IInv, ObjectInv, Over
  <2> QED
    BY <2>1 DEF IInv, ClosedInv
<1> QED
  BY <1>1, Invariance, PTL

\* A channel does not close or disappear without a word to the peer.
THEOREM PeerIsToldHolds == Spec => []PeerIsTold
<1>1. IInv => PeerIsTold
  BY DEF IInv, ClosedInv, PeerIsTold
<1> QED
  BY <1>1, Invariance, PTL
==============================================================================
