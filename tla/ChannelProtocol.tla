--------------------------- MODULE ChannelProtocol ---------------------------
(***************************************************************************)
(* Two gateways and their channels: the messages of gateway_base.py, the   *)
(* states "opened", "sendonly", "closed" and "deleted" its comments name,  *)
(* the numbering of channels, channels sent over channels, and the end of  *)
(* the connection.                                                         *)
(*                                                                         *)
(* A handler is one step here (the interleavings within one end are the    *)
(* subject of ChannelEndpoint), and so is a method of a channel.  Messages *)
(* of one direction arrive in order.  "new" is a channel number that this  *)
(* side has no object for yet.                                             *)
(***************************************************************************)
EXTENDS Naturals, Sequences, FiniteSets, FiniteSetsExt

CONSTANTS
  MaxId,        \* bound: the channel numbers
  MaxItems,     \* bound: the items a side sends over a channel
  MaxWire,      \* bound: the messages under way in one direction
  MaxCalls,     \* bound: the method calls users make
  Passing,      \* may users send channels over channels?
  Early         \* may users call reconfigure() on a channel unknown to the peer?

ASSUME ProtocolAssumption ==
  /\ MaxId \in Nat \ {0} /\ MaxItems \in Nat /\ MaxWire \in Nat /\ MaxCalls \in Nat
  /\ Passing \in BOOLEAN
  /\ Early \in BOOLEAN

Side == {"coordinator", "worker"}
Id == 1..MaxId
Peer(s) == IF s = "coordinator" THEN "worker" ELSE "coordinator"

\* _startcount of the two gateways.
StartCount(s) == IF s = "coordinator" THEN 1 ELSE 2

EndMarker == 0   \* ENDMARKER in a queue of items, which are numbered from 1
Plain == 0       \* an item that carries no channel

VARIABLES
  count,     \* the next channel number of each factory
  state,     \* of each side's channels
  items,     \* is _items the queue?
  queue,     \* its content
  callback,  \* is there a callback in _callbacks?  All want an endmarker
  held,      \* the channels user code has a reference to
  finished,  \* has the receiver thread ended?
  wire,      \* the messages under way to each side
  calls,     \* how many method calls users have made
  sent,      \* history: for each item sent over a channel, the channel it carries
  got,       \* history: the items user code got
  told,      \* history: has user code seen the end of the channel?
  again      \* history: channels that came to life a second time, or too late

vars == <<count, state, items, queue, callback, held, finished, wire, calls,
          sent, got, told, again>>

State == {"new", "opened", "sendonly", "closed", "deleted"}
Code == {"exec", "data", "close", "last", "reconfigure", "terminate"}
Message == [code : Code, id : Id, n : 0..MaxItems]

TypeOK ==
  /\ count \in [Side -> Nat]
  /\ state \in [Side -> [Id -> State]]
  /\ items \in [Side -> [Id -> BOOLEAN]]
  /\ queue \in [Side -> [Id -> Seq(0..MaxItems)]]
  /\ callback \in [Side -> [Id -> BOOLEAN]]
  /\ held \in [Side -> SUBSET Id]
  /\ \A s \in Side : \A i \in held[s] : state[s][i] \in {"opened", "sendonly", "closed"}
  /\ finished \in [Side -> BOOLEAN]
  /\ wire \in [Side -> Seq(Message)]
  /\ calls \in Nat
  /\ sent \in [Side -> [Id -> Seq(Id \cup {Plain})]]
  /\ got \in [Side -> [Id -> Seq(1..MaxItems)]]
  /\ told \in [Side -> [Id -> BOOLEAN]]
  /\ again \in [Side -> SUBSET Id]

ForAll(v) == [s \in Side |-> [i \in Id |-> v]]

Init ==
  /\ count = [s \in Side |-> StartCount(s)]
  /\ state = ForAll("new")
  /\ items = ForAll(TRUE)
  /\ queue = ForAll(<<>>)
  /\ callback = ForAll(FALSE)
  /\ held = [s \in Side |-> {}]
  /\ finished = [s \in Side |-> FALSE]
  /\ wire = [s \in Side |-> <<>>]
  /\ calls = 0
  /\ sent = ForAll(<<>>)
  /\ got = ForAll(<<>>)
  /\ told = ForAll(FALSE)
  /\ again = [s \in Side |-> {}]

-----------------------------------------------------------------------------
Msg(c, i, n) == [code |-> c, id |-> i, n |-> n]

\* _send(): nobody reads what is sent to a gateway that has ended, and _send() raises when
\* exit() has closed the pipe.  Tasks of a worker whose receiver thread has ended may send
\* for a while, until the peer finds the end of file.
Send(s, m) ==
  /\ Len(wire[Peer(s)]) < MaxWire
  /\ \A k \in DOMAIN wire[Peer(s)] : wire[Peer(s)][k].code # "terminate"
  /\ wire' = IF finished[Peer(s)] THEN wire
             ELSE [wire EXCEPT ![Peer(s)] = Append(@, m)]

Called == calls < MaxCalls /\ calls' = calls + 1

Set(f, s, i, v) == [f EXCEPT ![s][i] = v]

WithEnd(s, i) == IF items[s][i] THEN Append(queue[s][i], EndMarker) ELSE queue[s][i]

Carried(s, i, n) == IF n = EndMarker THEN Plain ELSE sent[Peer(s)][i][n]

Carries(s, i, q) == {Carried(s, i, q[k]) : k \in DOMAIN q} \ {Plain}

-----------------------------------------------------------------------------
(* ChannelFactory.new(): the next number of this side, or a given number.  *)

NextCount(n) == n + 2

\* Mutant: a new channel is not entered into _channels.
TakeNumberUnlisted(s) ==
  /\ ~finished[s]
  /\ count[s] \in Id
  /\ Called
  /\ count' = [count EXCEPT ![s] = NextCount(@)]
  /\ held' = [held EXCEPT ![s] = @ \cup {count[s]}]
  /\ UNCHANGED <<state, items, queue, callback, finished, sent, got, told, again>>

TakeNumber(s) ==
  /\ ~finished[s]
  /\ count[s] \in Id
  /\ Called
  /\ count' = [count EXCEPT ![s] = NextCount(@)]
  /\ state' = Set(state, s, count[s], "opened")
  /\ held' = [held EXCEPT ![s] = @ \cup {count[s]}]
  /\ UNCHANGED <<items, queue, callback, finished, sent, got, told, again>>

NewChannel(s) == TakeNumber(s) /\ UNCHANGED wire

RemoteExec(s) == s = "coordinator" /\ TakeNumber(s) /\ Send(s, Msg("exec", count[s], 0))

\* load_channel(): the channel of that number, or an object made for it; q is the
\* queues with the item that carried it.
Fresh(s, R) == {i \in R : state[s][i] # "opened"}

Load(s, R, q) ==
  /\ state' = [state EXCEPT ![s] = [i \in Id |-> IF i \in Fresh(s, R) THEN "opened" ELSE @[i]]]
  /\ items' = [items EXCEPT ![s] = [i \in Id |-> i \in Fresh(s, R) \/ @[i]]]
  /\ queue' = [q EXCEPT ![s] = [i \in Id |-> IF i \in Fresh(s, R) THEN <<>> ELSE @[i]]]
  /\ again' = [again EXCEPT ![s] = @ \cup {i \in Fresh(s, R) : state[s][i] # "new"}]

-----------------------------------------------------------------------------
(* The methods of Channel, and Gateway.exit().                             *)

\* send(): a channel that is sent may be closed already.
SendItem(s, i, r) ==
  /\ Called
  /\ i \in held[s]
  /\ state[s][i] \in {"opened", "sendonly"}
  /\ Len(sent[s][i]) < MaxItems
  /\ r # Plain => Passing /\ r \in held[s]
  /\ Send(s, Msg("data", i, Len(sent[s][i]) + 1))
  /\ sent' = Set(sent, s, i, Append(sent[s][i], r))
  /\ again' = IF r # Plain /\ state[s][r] # "opened"
              THEN [again EXCEPT ![s] = @ \cup {r}] ELSE again
  /\ UNCHANGED <<count, state, items, queue, callback, held, finished, got, told>>

\* receive(): an item, or the end, which stays in the queue.
ReceiveItem(s, i) ==
  /\ Called
  /\ i \in held[s]
  /\ items[s][i]
  /\ queue[s][i] # <<>>
  /\ LET n == Head(queue[s][i]) IN
       IF n = EndMarker
       THEN told' = Set(told, s, i, TRUE) /\ UNCHANGED <<queue, got, held>>
       ELSE /\ queue' = Set(queue, s, i, Tail(queue[s][i]))
            /\ got' = Set(got, s, i, Append(got[s][i], n))
            /\ held' = [held EXCEPT ![s] = @ \cup Carries(s, i, <<n>>)]
            /\ UNCHANGED told
  /\ UNCHANGED <<count, state, items, callback, finished, wire, sent, again>>

\* The items in a queue: what comes before its end.
Data(q) ==
  LET ends == {k \in DOMAIN q : q[k] = EndMarker}
  IN  IF ends = {} THEN q ELSE SubSeq(q, 1, Min(ends) - 1)

\* setcallback(): the queue first; registered unless the end was in the queue.
SetCallback(s, i) ==
  LET q == Data(queue[s][i]) IN
  /\ Called
  /\ i \in held[s]
  /\ items[s][i]
  /\ items' = Set(items, s, i, FALSE)
  /\ got' = Set(got, s, i, got[s][i] \o q)
  /\ held' = [held EXCEPT ![s] = @ \cup Carries(s, i, queue[s][i])]
  /\ queue' = Set(queue, s, i, <<>>)
  /\ callback' = Set(callback, s, i, callback[s][i] \/ state[s][i] = "opened")
  /\ told' = Set(told, s, i, told[s][i] \/ queue[s][i] # q)
  /\ UNCHANGED <<count, state, finished, wire, sent, again>>

\* _no_longer_opened() of a channel that ends up in state "to".
Ends(s, i, to) ==
  /\ state' = Set(state, s, i, to)
  /\ queue' = Set(queue, s, i, WithEnd(s, i))
  /\ told' = Set(told, s, i, told[s][i] \/ callback[s][i])
  /\ callback' = Set(callback, s, i, FALSE)
  /\ UNCHANGED <<count, items, held, finished, sent, got, again>>

\* Mutant: the peer is not told.
CloseSilently(s, i) ==
  /\ Called
  /\ i \in held[s]
  /\ \/ state[s][i] = "opened" /\ UNCHANGED wire
     \/ state[s][i] = "sendonly" /\ UNCHANGED wire
  /\ Ends(s, i, "closed")

\* close(): the peer is told unless it has closed its side before.
Close(s, i) ==
  /\ Called
  /\ i \in held[s]
  /\ \/ state[s][i] = "opened" /\ Send(s, Msg("close", i, 0))
     \/ state[s][i] = "sendonly" /\ UNCHANGED wire
  /\ Ends(s, i, "closed")

\* Mutant: the peer of a channel with a callback is told that it is closed.
FarewellClose(s, i) == "close"

Farewell(s, i) == IF items[s][i] THEN "close" ELSE "last"

\* __del__(); a callback stays registered.  Channels that carry unread channels
\* are not dropped here.
Drop(s, i) ==
  /\ Called
  /\ i \in held[s]
  /\ Carries(s, i, queue[s][i]) = {}
  /\ \A j \in Id : i \notin Carries(s, j, queue[s][j])
  /\ held' = [held EXCEPT ![s] = @ \ {i}]
  /\ IF state[s][i] = "opened" THEN Send(s, Msg(Farewell(s, i), i, 0)) ELSE UNCHANGED wire
  /\ state' = Set(state, s, i, "deleted")
  /\ UNCHANGED <<count, items, queue, callback, finished, sent, got, told, again>>

Quiet == UNCHANGED <<count, state, items, queue, callback, held, finished, sent, got,
                     told, again>>

Reconfigure(s, i) ==
  /\ Called
  /\ i \in held[s]
  /\ Early \/ state[Peer(s)][i] # "new"
  /\ Send(s, Msg("reconfigure", i, 0))
  /\ Quiet

Exit(s) ==
  /\ Called
  /\ s = "coordinator" /\ ~finished[s]
  /\ Send(s, Msg("terminate", 1, 0))
  /\ Quiet

-----------------------------------------------------------------------------
(* The handlers, in the receiver thread of s.                              *)

Arrives(s, c) == ~finished[s] /\ wire[s] # <<>> /\ Head(wire[s]).code = c

Consumed(s) == [wire EXCEPT ![s] = Tail(@)]

HandleExec(s) ==
  LET i == Head(wire[s]).id IN
  /\ Arrives(s, "exec")
  /\ wire' = Consumed(s)
  /\ Load(s, {i}, queue)
  /\ held' = [held EXCEPT ![s] = @ \cup {i}]
  /\ UNCHANGED <<count, calls, callback, finished, sent, got, told>>

DataToCallback(s) ==
  LET i == Head(wire[s]).id
      n == Head(wire[s]).n
      r == Carries(s, i, <<n>>)
  IN
  /\ Arrives(s, "data")
  /\ callback[s][i]
  /\ wire' = Consumed(s)
  /\ got' = Set(got, s, i, Append(got[s][i], n))
  /\ held' = [held EXCEPT ![s] = @ \cup r]
  /\ Load(s, r, queue)
  /\ UNCHANGED <<count, calls, callback, finished, sent, told>>

DataToQueue(s) ==
  LET i == Head(wire[s]).id
      n == Head(wire[s]).n
  IN
  /\ Arrives(s, "data")
  /\ ~callback[s][i] /\ state[s][i] = "opened" /\ items[s][i]
  /\ wire' = Consumed(s)
  /\ Load(s, Carries(s, i, <<n>>), Set(queue, s, i, Append(queue[s][i], n)))
  /\ UNCHANGED <<count, calls, callback, held, finished, sent, got, told>>

\* Mutant: a callback counts only as long as the channel object lives.
DataDroppedWithChannel(s) ==
  LET i == Head(wire[s]).id IN
  /\ Arrives(s, "data")
  /\ ~(state[s][i] = "opened" /\ items[s][i])
  /\ wire' = Consumed(s)
  /\ again' = IF state[s][i] = "new" THEN [again EXCEPT ![s] = @ \cup {i}] ELSE again
  /\ UNCHANGED <<count, calls, state, items, queue, callback, held, finished, sent, got, told>>

\* No channel and no callback: the item is dropped, unread.
DataDropped(s) ==
  LET i == Head(wire[s]).id IN
  /\ Arrives(s, "data")
  /\ ~callback[s][i] /\ ~(state[s][i] = "opened" /\ items[s][i])
  /\ wire' = Consumed(s)
  /\ again' = IF state[s][i] = "new" THEN [again EXCEPT ![s] = @ \cup {i}] ELSE again
  /\ UNCHANGED <<count, calls, state, items, queue, callback, held, finished, sent, got, told>>

\* _local_close(): a callback without a channel gets its endmarker, too.
HandleEnd(s, c, to) ==
  LET i == Head(wire[s]).id IN
  /\ Arrives(s, c)
  /\ wire' = Consumed(s)
  /\ UNCHANGED calls
  /\ IF state[s][i] = "opened" THEN Ends(s, i, to)
     ELSE /\ told' = Set(told, s, i, told[s][i] \/ callback[s][i])
          /\ callback' = Set(callback, s, i, FALSE)
          /\ UNCHANGED <<count, state, items, queue, held, finished, sent, got, again>>

\* _reconfigure(): an object made for an unknown number dies at once, and says so.
HandleReconfigure(s) ==
  LET i == Head(wire[s]).id IN
  /\ Arrives(s, "reconfigure")
  /\ Len(wire[Peer(s)]) < MaxWire
  /\ wire' = IF state[s][i] = "opened" \/ finished[Peer(s)] THEN Consumed(s)
             ELSE [wire EXCEPT ![s] = Tail(@), ![Peer(s)] = Append(@, Msg("close", i, 0))]
  /\ Quiet /\ UNCHANGED calls

\* Mutant: readers are not woken up.
FinishQuietly(s) ==
  /\ finished' = [finished EXCEPT ![s] = TRUE]
  /\ wire' = [wire EXCEPT ![s] = <<>>]
  /\ state' = [state EXCEPT ![s] =
                 [i \in Id |-> IF @[i] = "opened" THEN "sendonly" ELSE @[i]]]
  /\ UNCHANGED queue
  /\ told' = [told EXCEPT ![s] = [i \in Id |-> @[i] \/ callback[s][i]]]
  /\ callback' = [callback EXCEPT ![s] = [i \in Id |-> FALSE]]
  /\ UNCHANGED <<count, calls, items, held, sent, got, again>>

\* _finished_receiving().
Finish(s) ==
  /\ finished' = [finished EXCEPT ![s] = TRUE]
  /\ wire' = [wire EXCEPT ![s] = <<>>]
  /\ state' = [state EXCEPT ![s] =
                 [i \in Id |-> IF @[i] = "opened" THEN "sendonly" ELSE @[i]]]
  /\ queue' = [queue EXCEPT ![s] =
                 [i \in Id |-> IF state[s][i] = "opened" THEN WithEnd(s, i) ELSE @[i]]]
  /\ told' = [told EXCEPT ![s] = [i \in Id |-> @[i] \/ callback[s][i]]]
  /\ callback' = [callback EXCEPT ![s] = [i \in Id |-> FALSE]]
  /\ UNCHANGED <<count, calls, items, held, sent, got, again>>

HandleTerminate(s) == Arrives(s, "terminate") /\ Finish(s)

\* The end of file comes after everything that was sent.
HandleEOF(s) == ~finished[s] /\ finished[Peer(s)] /\ wire[s] = <<>> /\ Finish(s)

\* The process dies, and its channels with it.
Die(s) ==
  /\ ~finished[s]
  /\ finished' = [finished EXCEPT ![s] = TRUE]
  /\ held' = [held EXCEPT ![s] = {}]
  /\ wire' = [wire EXCEPT ![s] = <<>>]
  /\ UNCHANGED <<count, calls, state, items, queue, callback, sent, got, told, again>>

-----------------------------------------------------------------------------
Handle(s) ==
  \/ HandleExec(s) \/ DataToCallback(s) \/ DataToQueue(s) \/ DataDropped(s)
  \/ HandleEnd(s, "close", "closed") \/ HandleEnd(s, "last", "sendonly")
  \/ HandleReconfigure(s) \/ HandleTerminate(s) \/ HandleEOF(s)

Method(s) ==
  \/ NewChannel(s) \/ RemoteExec(s) \/ Exit(s)
  \/ \E i \in Id :
       \/ \E r \in Id \cup {Plain} : SendItem(s, i, r)
       \/ ReceiveItem(s, i) \/ SetCallback(s, i) \/ Close(s, i) \/ Drop(s, i)
       \/ Reconfigure(s, i)

Next == \E s \in Side : Handle(s) \/ Method(s) \/ Die(s)

Spec == Init /\ [][Next]_vars

-----------------------------------------------------------------------------
(* Safety.                                                                 *)

Again == again["coordinator"] \cup again["worker"]
Connected == \A s \in Side : ~finished[s]

Parts(m, i) == m.code \in {"close", "last"} /\ m.id = i

\* Where the items under way to s over channel i are: none comes after a message that ends it.
Coming(s, i) ==
  {k \in DOMAIN wire[s] :
     /\ wire[s][k].code = "data" /\ wire[s][k].id = i
     /\ \A j \in 1..k - 1 : ~Parts(wire[s][j], i)}

\* On a channel that both sides keep, or whose receiver left a callback behind, no item
\* is lost, doubled, or overtaken, neither by another item nor by the message that ends
\* the channel: what was received, is queued, and is still to come is what was sent.
NothingLost ==
  \A s \in Side : \A i \in Id \ Again :
    ~finished[s] /\ (state[s][i] = "opened" \/ callback[s][i]) =>
      LET here == got[s][i] \o queue[s][i] IN
      /\ \A k \in DOMAIN here : here[k] = k
      /\ {wire[s][k].n : k \in Coming(s, i)} = Len(here) + 1 .. Len(sent[Peer(s)][i])
      /\ \A j, k \in Coming(s, i) : j < k => wire[s][j].n < wire[s][k].n

\* A close message reaches an open channel only from a side that wants no more
\* items: who drops a channel but leaves a callback goes on listening.
CloseMeansDeaf ==
  [][\A s \in Side : \A i \in Id \ Again :
       state[s][i] = "opened" /\ HandleEnd(s, "close", "closed") /\ state'[s][i] = "closed"
         => ~callback[Peer(s)][i]]_vars

\* When no message is under way, the two sides agree: none has an open channel
\* that the other has closed or deleted.  (With Early this fails: reconfigure() of
\* a channel that is passed on later closes it on this side only.)
SidesAgree ==
  Connected /\ (\A s \in Side : wire[s] = <<>>) =>
    \A s \in Side : \A i \in Id \ Again :
      state[s][i] \in {"closed", "deleted"} => state[Peer(s)][i] # "opened"

\* At the end of the connection nobody is left waiting: no channel is open, no
\* callback registered, and each reader finds the end in its queue.
EndTellsAll ==
  \A s \in Side : finished[s] /\ held[s] # {} =>
    \A i \in held[s] :
      /\ state[s][i] # "opened" /\ ~callback[s][i]
      /\ items[s][i] => queue[s][i] # <<>>
=============================================================================
