------------------------ MODULE ChannelProtocol_proof ------------------------
(***************************************************************************)
(* Proofs about ChannelProtocol, for any number of channels, of messages,  *)
(* of items and of calls.                                                  *)
(*                                                                         *)
(* 1. IInv: types; after the end of a connection nobody waits for the end  *)
(*    of a channel (EndTellsAll, TypeOK).                                  *)
(* 2. AInv: while both gateways live and nothing is under way, no channel  *)
(*    is open on one side and closed on the other (SidesAgree).            *)
(* 3. CInv: no item is lost, doubled or overtaken (NothingLost), and a     *)
(*    closing message that ends an open channel comes from a side that     *)
(*    listens no more (CloseMeansDeaf).                                    *)
(***************************************************************************)
EXTENDS ChannelProtocol, TLAPS, WellFoundedInduction

\* The states of a channel that user code can hold.
Live == {"opened", "sendonly", "closed"}

\* What is in a queue.
Item == 0..MaxItems

Table(T) == [Side -> [Id -> T]]

Typing ==
  /\ count \in [Side -> Nat]
  /\ state \in Table(State)
  /\ items \in Table(BOOLEAN)
  /\ queue \in Table(Seq(Item))
  /\ callback \in Table(BOOLEAN)
  /\ held \in [Side -> SUBSET Id]
  /\ finished \in [Side -> BOOLEAN]
  /\ wire \in [Side -> Seq(Message)]
  /\ sent \in Table(Seq(Id \cup {Plain}))
  /\ again \in [Side -> SUBSET Id]

\* The messages under way to s, and the items in a queue.
On(s) == Range(wire[s])
In(s, i) == Range(queue[s][i])

\* An item that is under way or queued has been sent.
WireInv == \A s \in Side : \A m \in On(s) : m.code = "data" => m.n \in DOMAIN sent[Peer(s)][m.id]

QueueInv ==
  \A s \in Side : \A i \in Id : \A n \in In(s, i) :
    n # EndMarker => n \in DOMAIN sent[Peer(s)][i]

\* Who holds a channel, or has received an item that carries it, has an object for it.
HeldInv ==
  \A s \in Side : \A j \in Id :
    j \in held[s] \/ (\E i \in Id : \E n \in In(s, i) : Carried(s, i, n) = j)
      => state[s][j] \in Live

\* A reader finds the end of a channel that does not receive any more.
EndInv ==
  \A s \in Side : \A i \in Id :
    state[s][i] \in {"sendonly", "closed"} /\ items[s][i] => EndMarker \in In(s, i)

FinishInv ==
  \A s \in Side :
    finished[s] /\ held[s] # {} => \A i \in Id : state[s][i] # "opened" /\ ~callback[s][i]

IInv == Typing /\ WireInv /\ QueueInv /\ HeldInv /\ EndInv /\ FinishInv

-----------------------------------------------------------------------------
LEMMA PeerFacts ==
  ASSUME NEW s \in Side
  PROVE  /\ Peer(s) \in Side /\ Peer(s) # s /\ Peer(Peer(s)) = s
         /\ \A t \in Side : t = s \/ t = Peer(s)
  BY DEF Side, Peer

LEMMA SetFacts ==
  ASSUME NEW T, NEW f \in Table(T), NEW s \in Side, NEW i \in Id, NEW v \in T
  PROVE  /\ Set(f, s, i, v) \in Table(T)
         /\ \A t \in Side : \A j \in Id :
              Set(f, s, i, v)[t][j] = IF t = s /\ j = i THEN v ELSE f[t][j]
  BY DEF Table, Set

LEMMA AppendFacts ==
  ASSUME NEW T, NEW q \in Seq(T), NEW e \in T
  PROVE  /\ Append(q, e) \in Seq(T)
         /\ Len(q) \in Nat /\ Len(Append(q, e)) = Len(q) + 1
         /\ \A k \in DOMAIN q : k \in DOMAIN Append(q, e) /\ Append(q, e)[k] = q[k]
         /\ Append(q, e)[Len(q) + 1] = e
         /\ DOMAIN q = 1..Len(q) /\ DOMAIN Append(q, e) = 1..Len(q) + 1
         /\ Range(Append(q, e)) = Range(q) \cup {e}
<1>1. /\ Append(q, e) \in Seq(T)
      /\ Len(q) \in Nat /\ Len(Append(q, e)) = Len(q) + 1
      /\ DOMAIN q = 1..Len(q) /\ DOMAIN Append(q, e) = 1..Len(q) + 1
      /\ Append(q, e)[Len(q) + 1] = e
      /\ \A k \in 1..Len(q) : Append(q, e)[k] = q[k]
  OBVIOUS
<1>2. 1..Len(q) + 1 = 1..Len(q) \cup {Len(q) + 1}
  BY <1>1
<1>3. \A k \in DOMAIN q : k \in DOMAIN Append(q, e) /\ Append(q, e)[k] = q[k]
  BY <1>1, <1>2
<1>4. ASSUME NEW x \in Range(Append(q, e)) PROVE x \in Range(q) \cup {e}
  <2>1. PICK k \in DOMAIN Append(q, e) : x = Append(q, e)[k]
    BY <1>4 DEF Range
  <2>2. k \in DOMAIN q \/ k = Len(q) + 1
    BY <1>1, <1>2
  <2> QED BY <1>1, <1>3, <2>1, <2>2 DEF Range
<1>5. ASSUME NEW x \in Range(q) \cup {e} PROVE x \in Range(Append(q, e))
  <2>1. CASE x = e
    <3>1. Len(q) + 1 \in DOMAIN Append(q, e)
      BY <1>1
    <3> QED BY <1>1, <2>1, <3>1 DEF Range
  <2>2. CASE x # e
    <3>1. PICK k \in DOMAIN q : x = q[k]
      BY <1>5, <2>2 DEF Range
    <3> QED BY <1>3, <3>1 DEF Range
  <2> QED BY <2>1, <2>2
<1> QED BY <1>1, <1>3, <1>4, <1>5

LEMMA TailFacts ==
  ASSUME NEW T, NEW q \in Seq(T), q # <<>>
  PROVE  /\ Tail(q) \in Seq(T) /\ Len(q) \in Nat \ {0} /\ Len(Tail(q)) = Len(q) - 1
         /\ \A k \in DOMAIN Tail(q) : k + 1 \in DOMAIN q /\ Tail(q)[k] = q[k + 1]
         /\ DOMAIN q = 1..Len(q) /\ DOMAIN Tail(q) = 1..Len(q) - 1
         /\ Head(q) = q[1] /\ 1 \in DOMAIN q /\ Head(q) \in T
         /\ Range(q) = Range(Tail(q)) \cup {Head(q)}
<1>1. /\ Tail(q) \in Seq(T) /\ Len(q) \in Nat \ {0} /\ Len(Tail(q)) = Len(q) - 1
      /\ DOMAIN q = 1..Len(q) /\ DOMAIN Tail(q) = 1..Len(q) - 1
      /\ \A k \in 1..Len(q) - 1 : Tail(q)[k] = q[k + 1]
      /\ Head(q) = q[1] /\ 1 \in DOMAIN q /\ Head(q) \in T
  OBVIOUS
<1>2. ASSUME NEW x, NEW k \in DOMAIN q, x = q[k], x # Head(q)
      PROVE  \E j \in DOMAIN Tail(q) : x = Tail(q)[j]
  <2>1. k # 1 /\ k \in 1..Len(q)
    BY <1>1, <1>2
  <2>2. k - 1 \in 1..Len(q) - 1 /\ (k - 1) + 1 = k
    BY <1>1, <2>1
  <2>3. Tail(q)[k - 1] = q[k]
    BY <1>1, <2>2
  <2> QED BY <1>1, <1>2, <2>2, <2>3
<1>3. \A k \in DOMAIN Tail(q) : k + 1 \in DOMAIN q
  BY <1>1
<1>4. ASSUME NEW x \in Range(q) PROVE x \in Range(Tail(q)) \cup {Head(q)}
  BY <1>2, <1>4 DEF Range
<1>5. ASSUME NEW x \in Range(Tail(q)) \cup {Head(q)} PROVE x \in Range(q)
  BY <1>1, <1>3, <1>5 DEF Range
<1> QED BY <1>1, <1>3, <1>4, <1>5

-----------------------------------------------------------------------------
(* What the parts of the actions do.                                       *)

LEMMA MsgFacts ==
  /\ \A c \in Code : \A i \in Id : \A n \in Item :
       /\ Msg(c, i, n) \in Message
       /\ Msg(c, i, n).code = c /\ Msg(c, i, n).id = i /\ Msg(c, i, n).n = n
  /\ \A m \in Message : m.code \in Code /\ m.id \in Id /\ m.n \in Item
  BY DEF Msg, Message, Item

LEMMA SendFacts ==
  ASSUME Typing, NEW s \in Side, NEW m \in Message, Send(s, m)
  PROVE  /\ wire' \in [Side -> Seq(Message)]
         /\ \A t \in Side :
              \/ wire'[t] = wire[t] /\ On(t)' = On(t) /\ (t = Peer(s) => finished[t])
              \/ /\ t = Peer(s) /\ wire'[t] = Append(wire[t], m)
                 /\ On(t)' = On(t) \cup {m}
<1>1. Peer(s) \in Side
  BY PeerFacts
<1>2. CASE finished[Peer(s)]
  BY <1>1, <1>2 DEF Send, Typing, On
<1>3. CASE ~finished[Peer(s)]
  <2> DEFINE q == wire[Peer(s)]
  <2>1. q \in Seq(Message)
    BY <1>1 DEF Typing
  <2>2. wire' = [wire EXCEPT ![Peer(s)] = Append(q, m)]
    BY <1>3 DEF Send
  <2>3. Append(q, m) \in Seq(Message)
    BY <2>1, AppendFacts
  <2>4. wire' \in [Side -> Seq(Message)]
    BY <1>1, <2>2, <2>3 DEF Typing
  <2>5. \A t \in Side : wire'[t] = IF t = Peer(s) THEN Append(q, m) ELSE wire[t]
    BY <1>1, <2>2 DEF Typing
  <2>6. Range(Append(q, m)) = Range(q) \cup {m}
    BY <2>1, AppendFacts
  <2>7. On(Peer(s))' = On(Peer(s)) \cup {m}
    BY <1>1, <2>5, <2>6 DEF On
  <2> QED BY <2>4, <2>5, <2>7 DEF On, Send
<1> QED BY <1>2, <1>3

LEMMA ConsumedFacts ==
  ASSUME Typing, NEW s \in Side, wire[s] # <<>>, wire' = Consumed(s)
  PROVE  /\ wire' \in [Side -> Seq(Message)]
         /\ Head(wire[s]) \in Message /\ Head(wire[s]) \in On(s)
         /\ \A t \in Side : wire'[t] = (IF t = s THEN Tail(wire[s]) ELSE wire[t])
         /\ \A t \in Side : On(t)' \subseteq On(t)
<1> DEFINE q == wire[s]
<1>1. q \in Seq(Message)
  BY DEF Typing
<1>2. Tail(q) \in Seq(Message) /\ Head(q) = q[1] /\ 1 \in DOMAIN q /\ Head(q) \in Message
  BY <1>1, TailFacts
<1>3. Range(q) = Range(Tail(q)) \cup {Head(q)}
  BY <1>1, TailFacts
<1>4. wire' \in [Side -> Seq(Message)]
  BY <1>2 DEF Typing, Consumed
<1>5. \A t \in Side : wire'[t] = (IF t = s THEN Tail(q) ELSE wire[t])
  BY DEF Typing, Consumed
<1>6. On(s)' \subseteq On(s)
  BY <1>3, <1>5 DEF On
<1>7. Head(q) \in On(s)
  BY <1>3 DEF On
<1>8. \A t \in Side : On(t)' \subseteq On(t)
  <2> TAKE t \in Side
  <2>1. CASE t = s
    BY <1>6, <2>1
  <2>2. CASE t # s
    BY <1>5, <2>2 DEF On
  <2> QED BY <2>1, <2>2
<1> QED BY <1>2, <1>4, <1>5, <1>7, <1>8

\* What Load(s, R, q) does to each channel.
Loaded(s, R, q) ==
  \A t \in Side : \A i \in Id :
    \/ /\ t = s /\ i \in R /\ state[t][i] # "opened"
       /\ state'[t][i] = "opened" /\ items'[t][i] /\ queue'[t][i] = <<>>
       /\ state[t][i] # "new" => i \in again'[t]
    \/ /\ t = s /\ i \in R => state[t][i] = "opened"
       /\ state'[t][i] = state[t][i] /\ (items'[t][i] <=> items[t][i])
       /\ queue'[t][i] = q[t][i]

LEMMA LoadFacts ==
  ASSUME Typing, NEW s \in Side, NEW R \in SUBSET Id,
         NEW q \in Table(Seq(Item)), Load(s, R, q)
  PROVE  /\ state' \in Table(State) /\ items' \in Table(BOOLEAN)
         /\ queue' \in Table(Seq(Item)) /\ again' \in [Side -> SUBSET Id]
         /\ Loaded(s, R, q)
<1> DEFINE fresh == Fresh(s, R)
<1>1. /\ state' = [state EXCEPT ![s] =
                      [i \in Id |-> IF i \in fresh THEN "opened" ELSE state[s][i]]]
      /\ items' = [items EXCEPT ![s] = [i \in Id |-> i \in fresh \/ items[s][i]]]
      /\ queue' = [q EXCEPT ![s] = [i \in Id |-> IF i \in fresh THEN <<>> ELSE q[s][i]]]
  BY DEF Load, Typing, Table, Fresh
<1>2. state' \in Table(State)
  BY <1>1 DEF Typing, Table, State
<1>3. \A i \in Id : (i \in fresh \/ items[s][i]) \in BOOLEAN
  BY DEF Typing, Table
<1>4. items' \in Table(BOOLEAN)
  BY <1>1, <1>3 DEF Typing, Table
<1>5. <<>> \in Seq(Item)
  OBVIOUS
<1>6. queue' \in Table(Seq(Item))
  BY <1>1, <1>5 DEF Table
<1>7. \A t \in Side : \A i \in Id :
        /\ state'[t][i] = IF t = s /\ i \in fresh THEN "opened" ELSE state[t][i]
        /\ queue'[t][i] = IF t = s /\ i \in fresh THEN <<>> ELSE q[t][i]
  BY <1>1 DEF Typing, Table
<1>8. \A t \in Side : \A i \in Id : items'[t][i] <=> (t = s /\ i \in fresh) \/ items[t][i]
  BY <1>1 DEF Typing, Table
<1>9. ASSUME NEW i \in fresh, state[s][i] # "new" PROVE i \in again'[s]
  BY <1>9 DEF Load, Typing, Fresh
<1>10. again' \in [Side -> SUBSET Id]
  BY DEF Load, Typing, Fresh
<1>11. Loaded(s, R, q)
  BY <1>7, <1>8, <1>9 DEF Fresh, Loaded
<1> QED BY <1>2, <1>4, <1>6, <1>10, <1>11

LEMMA EndsFacts ==
  ASSUME Typing, NEW s \in Side, NEW i \in Id, NEW to \in State, Ends(s, i, to)
  PROVE  /\ state' \in Table(State) /\ queue' \in Table(Seq(Item))
         /\ callback' \in Table(BOOLEAN)
         /\ state'[s][i] = to /\ ~callback'[s][i]
         /\ In(s, i)' = In(s, i) \cup (IF items[s][i] THEN {EndMarker} ELSE {})
         /\ \A t \in Side : \A j \in Id :
              \/ t = s /\ j = i
              \/ /\ state'[t][j] = state[t][j]
                 /\ (callback'[t][j] <=> callback[t][j])
                 /\ In(t, j)' = In(t, j)
<1> DEFINE q == queue[s][i]
<1>1. q \in Seq(Item) /\ EndMarker \in Item
  BY ProtocolAssumption DEF Typing, Table, EndMarker, Item
<1>2. /\ Append(q, EndMarker) \in Seq(Item)
      /\ Range(Append(q, EndMarker)) = Range(q) \cup {EndMarker}
  BY <1>1, AppendFacts
<1>3. WithEnd(s, i) \in Seq(Item)
  BY <1>1, <1>2 DEF WithEnd
<1>4. /\ queue' \in Table(Seq(Item))
      /\ \A t \in Side : \A j \in Id :
           queue'[t][j] = IF t = s /\ j = i THEN WithEnd(s, i) ELSE queue[t][j]
  BY <1>3, SetFacts DEF Ends, Typing
<1>5. /\ state' \in Table(State)
      /\ \A t \in Side : \A j \in Id : state'[t][j] = IF t = s /\ j = i THEN to ELSE state[t][j]
  BY SetFacts DEF Ends, Typing
<1>6. /\ callback' \in Table(BOOLEAN)
      /\ \A t \in Side : \A j \in Id :
           callback'[t][j] <=> callback[t][j] /\ ~(t = s /\ j = i)
  BY DEF Ends, Set, Typing, Table
<1>7. In(s, i)' = In(s, i) \cup (IF items[s][i] THEN {EndMarker} ELSE {})
  <2>1. queue'[s][i] = WithEnd(s, i)
    BY <1>4
  <2>2. In(s, i)' = Range(queue'[s][i])
    BY DEF In
  <2>3. CASE items[s][i]
    <3>1. queue'[s][i] = Append(q, EndMarker)
      BY <2>1, <2>3 DEF WithEnd
    <3> QED BY <1>2, <2>2, <2>3, <3>1 DEF In
  <2>4. CASE ~items[s][i]
    BY <2>1, <2>2, <2>4 DEF WithEnd, In
  <2> QED BY <2>3, <2>4
<1> QED BY <1>4, <1>5, <1>6, <1>7 DEF In

LEMMA CarriedFacts ==
  ASSUME Typing, NEW s \in Side, NEW i \in Id
  PROVE  /\ \A n : Carries(s, i, <<n>>) = {Carried(s, i, n)} \ {Plain}
         /\ Carries(s, i, queue[s][i]) = {Carried(s, i, n) : n \in In(s, i)} \ {Plain}
         /\ \A n : n = EndMarker \/ n \in DOMAIN sent[Peer(s)][i]
                    => Carried(s, i, n) \in Id \cup {Plain}
         /\ Plain \notin Id
<1>1. \A n : DOMAIN <<n>> = {1} /\ <<n>>[1] = n
  OBVIOUS
<1>2. \A n : Carries(s, i, <<n>>) = {Carried(s, i, n)} \ {Plain}
  BY <1>1 DEF Carries
<1>3. Carries(s, i, queue[s][i]) = {Carried(s, i, n) : n \in In(s, i)} \ {Plain}
  BY DEF Carries, In, Range
<1>4. sent[Peer(s)][i] \in Seq(Id \cup {Plain})
  BY PeerFacts DEF Typing, Table
<1>5. \A n : n = EndMarker \/ n \in DOMAIN sent[Peer(s)][i] => Carried(s, i, n) \in Id \cup {Plain}
  BY <1>4 DEF Carried
<1>6. Plain \notin Id
  BY DEF Plain, Id
<1> QED BY <1>2, <1>3, <1>5, <1>6

LEMMA InitInv == Init => IInv
<1> SUFFICES ASSUME Init PROVE IInv
  OBVIOUS
<1>1. \A s \in Side : \A i \in Id :
        /\ state[s][i] = "new" /\ queue[s][i] = <<>> /\ sent[s][i] = <<>>
        /\ wire[s] = <<>> /\ held[s] = {} /\ ~finished[s] /\ ~callback[s][i]
  BY DEF Init, ForAll
<1>2. Typing
  <2>1. \A T : <<>> \in Seq(T)
    OBVIOUS
  <2> QED BY <2>1 DEF Init, ForAll, Typing, Table, State, StartCount
<1>3. \A s \in Side : On(s) = {} /\ \A i \in Id : In(s, i) = {}
  <2>1. Range(<<>>) = {}
    BY DEF Range
  <2> SUFFICES ASSUME NEW s \in Side PROVE On(s) = {} /\ \A i \in Id : In(s, i) = {}
    OBVIOUS
  <2>2. On(s) = {}
    <3>1. wire[s] = <<>>
      BY <1>1 DEF Id, Init
    <3> QED BY <2>1, <3>1 DEF On
  <2>3. ASSUME NEW i \in Id PROVE In(s, i) = {}
    <3>1. queue[s][i] = <<>>
      BY <1>1
    <3> QED BY <2>1, <3>1 DEF In
  <2> QED BY <2>2, <2>3
<1> QED BY <1>1, <1>2, <1>3 DEF IInv, WireInv, QueueInv, HeldInv, EndInv, FinishInv, Live

-----------------------------------------------------------------------------
(* The steps.                                                              *)

\* A step that sends at most a message without an item and changes nothing else of what
\* the invariant speaks of.
LEMMA WireStep ==
  ASSUME IInv, wire' \in [Side -> Seq(Message)],
         \A s \in Side : \A m \in On(s)' : m \in On(s) \/ m.code # "data",
         again' \in [Side -> SUBSET Id],
         UNCHANGED <<count, state, items, queue, callback, held, finished, sent>>
  PROVE  IInv'
<1>1. \A s \in Side : \A i \in Id : In(s, i)' = In(s, i)
          /\ \A n : Carried(s, i, n)' = Carried(s, i, n)
  BY DEF In, Carried
<1>2. Typing'
  BY DEF IInv, Typing
<1>3. WireInv'
  BY DEF IInv, WireInv
<1>4. QueueInv' /\ HeldInv' /\ EndInv' /\ FinishInv'
  BY <1>1 DEF IInv, QueueInv, HeldInv, EndInv, FinishInv
<1> QED BY <1>2, <1>3, <1>4 DEF IInv

LEMMA TakeNumberStep ==
  ASSUME IInv, NEW s \in Side, NewChannel(s) \/ RemoteExec(s)
  PROVE  IInv'
<1> DEFINE i == count[s]
<1>1. /\ i \in Id /\ TakeNumber(s) /\ ~finished[s]
      /\ UNCHANGED <<items, queue, callback, finished, sent, again>>
  BY DEF NewChannel, RemoteExec, TakeNumber
<1>2. /\ state' \in Table(State)
      /\ \A t \in Side : \A j \in Id :
           state'[t][j] = IF t = s /\ j = i THEN "opened" ELSE state[t][j]
  <2>1. "opened" \in State
    BY DEF State
  <2> QED BY <1>1, <2>1, SetFacts DEF TakeNumber, IInv, Typing
<1>3. /\ held' \in [Side -> SUBSET Id]
      /\ \A t \in Side : held'[t] \subseteq held[t] \cup (IF t = s THEN {i} ELSE {})
      /\ held'[Peer(s)] = held[Peer(s)]
  BY <1>1, PeerFacts DEF TakeNumber, IInv, Typing
<1>4. count' \in [Side -> Nat]
  BY <1>1 DEF TakeNumber, NextCount, IInv, Typing
<1>5. /\ wire' \in [Side -> Seq(Message)]
      /\ \A t \in Side : \A m \in On(t)' : m \in On(t) \/ m.code # "data"
  <2>1. CASE NewChannel(s)
    BY <2>1 DEF NewChannel, On, IInv, Typing
  <2>2. CASE RemoteExec(s)
    <3>1. Msg("exec", i, 0) \in Message /\ Msg("exec", i, 0).code = "exec"
      BY <1>1, MsgFacts, ProtocolAssumption DEF Code, Item
    <3> QED BY <2>2, <3>1, SendFacts DEF RemoteExec, IInv
  <2> QED BY <2>1, <2>2
<1> HIDE DEF i
<1>6. \A t \in Side : \A j \in Id : In(t, j)' = In(t, j)
          /\ \A n : Carried(t, j, n)' = Carried(t, j, n)
  BY <1>1 DEF In, Carried
<1>7. Typing'
  BY <1>1, <1>2, <1>3, <1>4, <1>5 DEF IInv, Typing
<1>8. WireInv' /\ QueueInv'
  BY <1>1, <1>5, <1>6 DEF IInv, WireInv, QueueInv
<1>9. HeldInv'
  BY <1>1, <1>2, <1>3, <1>6 DEF IInv, HeldInv, Live
<1>10. EndInv'
  BY <1>1, <1>2, <1>6 DEF IInv, EndInv
<1>11. FinishInv'
  BY <1>1, <1>2, <1>3, PeerFacts DEF IInv, FinishInv
<1> QED BY <1>7, <1>8, <1>9, <1>10, <1>11 DEF IInv

LEMMA SendItemStep ==
  ASSUME IInv, NEW s \in Side, NEW i \in Id, NEW r \in Id \cup {Plain}, SendItem(s, i, r)
  PROVE  IInv'
<1> DEFINE n == Len(sent[s][i]) + 1
           m == Msg("data", i, n)
           q == sent[s][i]
<1>1. /\ i \in held[s] /\ Len(q) < MaxItems /\ Send(s, m)
      /\ r # Plain => r \in held[s]
      /\ UNCHANGED <<count, state, items, queue, callback, held, finished>>
  BY DEF SendItem
<1>2. q \in Seq(Id \cup {Plain}) /\ Len(q) \in Nat
  BY DEF IInv, Typing, Table
<1>3. m \in Message /\ m.id = i /\ m.n = n /\ n \in Item
  <2>1. n \in Item
    BY <1>1, <1>2, ProtocolAssumption DEF Item
  <2> QED BY <2>1, MsgFacts DEF Code, Item
<1>4. /\ Append(q, r) \in Seq(Id \cup {Plain})
      /\ \A k \in DOMAIN q : k \in DOMAIN Append(q, r) /\ Append(q, r)[k] = q[k]
      /\ n \in DOMAIN Append(q, r)
  BY <1>2, AppendFacts
<1>5. /\ sent' \in Table(Seq(Id \cup {Plain}))
      /\ \A t \in Side : \A j \in Id :
           sent'[t][j] = IF t = s /\ j = i THEN Append(q, r) ELSE sent[t][j]
  <2>1. sent' = Set(sent, s, i, Append(q, r)) /\ sent \in Table(Seq(Id \cup {Plain}))
    BY DEF SendItem, IInv, Typing
  <2> DEFINE v == Append(q, r)
  <2>2. v \in Seq(Id \cup {Plain}) /\ sent' = Set(sent, s, i, v)
    BY <1>4, <2>1
  <2> HIDE DEF q, v
  <2>3. /\ sent' \in Table(Seq(Id \cup {Plain}))
        /\ \A t \in Side : \A j \in Id :
             sent'[t][j] = IF t = s /\ j = i THEN v ELSE sent[t][j]
    BY <2>1, <2>2, SetFacts
  <2> QED BY <2>3 DEF v
<1>6. again' \in [Side -> SUBSET Id]
  BY DEF SendItem, IInv, Typing, Plain
<1>7. /\ wire' \in [Side -> Seq(Message)]
      /\ \A t \in Side : On(t)' \subseteq On(t) \cup (IF t = Peer(s) THEN {m} ELSE {})
  BY <1>1, <1>3, SendFacts DEF IInv
<1> HIDE DEF q, m, n
<1>8. \A t \in Side : \A j \in Id : \A k \in DOMAIN sent[Peer(t)][j] :
        k \in DOMAIN sent'[Peer(t)][j] /\ sent'[Peer(t)][j][k] = sent[Peer(t)][j][k]
  BY <1>4, <1>5, PeerFacts DEF q
<1>9. \A t \in Side : \A j \in Id : In(t, j)' = In(t, j)
  BY <1>1 DEF In
<1>10. \A t \in Side : \A j \in Id : \A k \in In(t, j) : Carried(t, j, k)' = Carried(t, j, k)
  BY <1>8 DEF Carried, IInv, QueueInv
<1>11. Typing'
  BY <1>1, <1>5, <1>6, <1>7 DEF IInv, Typing
<1>12. WireInv'
  <2> SUFFICES ASSUME NEW t \in Side, NEW x \in On(t)', x.code = "data"
               PROVE  x.n \in DOMAIN sent'[Peer(t)][x.id]
    BY DEF WireInv
  <2>1. CASE x \in On(t)
    <3>1. x.id \in Id
      BY <2>1, MsgFacts DEF On, Range, IInv, Typing
    <3> QED BY <1>8, <2>1, <3>1 DEF IInv, WireInv
  <2>2. CASE t = Peer(s) /\ x = m
    BY <1>3, <1>4, <1>5, <2>2, PeerFacts
  <2> QED BY <1>7, <2>1, <2>2
<1>13. QueueInv'
  BY <1>8, <1>9 DEF IInv, QueueInv
<1>14. HeldInv' /\ EndInv' /\ FinishInv'
  BY <1>1, <1>9, <1>10 DEF IInv, HeldInv, EndInv, FinishInv
<1> QED BY <1>11, <1>12, <1>13, <1>14 DEF IInv

LEMMA ReceiveItemStep ==
  ASSUME IInv, NEW s \in Side, NEW i \in Id, ReceiveItem(s, i)
  PROVE  IInv'
<1> DEFINE q == queue[s][i]
           n == Head(q)
<1>1. /\ i \in held[s] /\ q # <<>>
      /\ UNCHANGED <<count, state, items, callback, finished, wire, sent, again>>
  BY DEF ReceiveItem
<1>2. CASE n = EndMarker
  <2>1. UNCHANGED <<queue, held>>
    BY <1>2 DEF ReceiveItem
  <2> QED BY <1>1, <2>1, WireStep DEF On, IInv, Typing
<1>3. CASE n # EndMarker
  <2>1. /\ queue' = Set(queue, s, i, Tail(q))
        /\ held' = [held EXCEPT ![s] = @ \cup Carries(s, i, <<n>>)]
    BY <1>3 DEF ReceiveItem
  <2>2. /\ q \in Seq(Item) /\ Tail(q) \in Seq(Item)
        /\ Range(q) = Range(Tail(q)) \cup {n}
    BY <1>1, TailFacts DEF IInv, Typing, Table
  <2>3. /\ queue' \in Table(Seq(Item))
        /\ \A t \in Side : \A j \in Id :
             queue'[t][j] = IF t = s /\ j = i THEN Tail(q) ELSE queue[t][j]
    <3>1. queue \in Table(Seq(Item))
      BY DEF IInv, Typing
    <3> HIDE DEF q
    <3> DEFINE v == Tail(q)
    <3>2. v \in Seq(Item) /\ queue' = Set(queue, s, i, v)
      BY <2>1, <2>2
    <3> HIDE DEF q, v
    <3>3. /\ queue' \in Table(Seq(Item))
          /\ \A t \in Side : \A j \in Id :
               queue'[t][j] = IF t = s /\ j = i THEN v ELSE queue[t][j]
      BY <3>1, <3>2, SetFacts
    <3> QED BY <3>3 DEF v
  <2>4. n \in In(s, i)
    BY <2>2 DEF In
  <2> HIDE DEF n
  <2>5. Carries(s, i, <<n>>) = {Carried(s, i, n)} \ {Plain} /\ Carries(s, i, <<n>>) \subseteq Id
    BY <1>3, <2>4, CarriedFacts DEF IInv, QueueInv
  <2>6. \A t \in Side : \A j \in Id :
          /\ In(t, j)' \subseteq In(t, j)
          /\ EndMarker \in In(t, j) => EndMarker \in In(t, j)'
    <3> TAKE t \in Side
    <3> TAKE j \in Id
    <3>1. CASE t = s /\ j = i
      BY <1>3, <2>2, <2>3, <3>1 DEF In
    <3>2. CASE ~(t = s /\ j = i)
      BY <2>3, <3>2 DEF In
    <3> QED BY <3>1, <3>2
  <2>7. \A t \in Side : On(t)' = On(t) /\ \A j \in Id : \A k : Carried(t, j, k)' = Carried(t, j, k)
    BY <1>1 DEF On, Carried
  <2>8. /\ held' \in [Side -> SUBSET Id]
        /\ \A t \in Side :
             held'[t] = held[t] \cup (IF t = s THEN {Carried(s, i, n)} \ {Plain} ELSE {})
    BY <2>1, <2>5 DEF IInv, Typing
  <2>9. Typing'
    BY <1>1, <2>3, <2>8 DEF IInv, Typing
  <2>10. WireInv' /\ QueueInv'
    BY <1>1, <2>6, <2>7 DEF IInv, WireInv, QueueInv
  <2>11. HeldInv'
    BY <1>1, <2>4, <2>6, <2>7, <2>8 DEF IInv, HeldInv
  <2>12. EndInv'
    BY <1>1, <2>6 DEF IInv, EndInv
  <2>13. FinishInv'
    BY <1>1, <2>8 DEF IInv, FinishInv
  <2> QED BY <2>9, <2>10, <2>11, <2>12, <2>13 DEF IInv
<1> QED BY <1>2, <1>3

LEMMA SetCallbackStep ==
  ASSUME IInv, NEW s \in Side, NEW i \in Id, SetCallback(s, i)
  PROVE  IInv'
<1>1. /\ i \in held[s]
      /\ UNCHANGED <<count, state, finished, wire, sent, again>>
      /\ items' = Set(items, s, i, FALSE)
      /\ held' = [held EXCEPT ![s] = @ \cup Carries(s, i, queue[s][i])]
      /\ queue' = Set(queue, s, i, <<>>)
      /\ callback' = Set(callback, s, i, callback[s][i] \/ state[s][i] = "opened")
  BY DEF SetCallback
<1>2. /\ items' \in Table(BOOLEAN) /\ ~items'[s][i]
      /\ \A t \in Side : \A j \in Id : (t = s /\ j = i) \/ (items'[t][j] <=> items[t][j])
  BY <1>1 DEF Set, IInv, Typing, Table
<1>3. /\ callback' \in Table(BOOLEAN)
      /\ callback'[s][i] <=> callback[s][i] \/ state[s][i] = "opened"
      /\ \A t \in Side : \A j \in Id : (t = s /\ j = i) \/ (callback'[t][j] <=> callback[t][j])
  BY <1>1 DEF Set, IInv, Typing, Table
<1>4. /\ queue' \in Table(Seq(Item))
      /\ \A t \in Side : \A j \in Id :
           queue'[t][j] = IF t = s /\ j = i THEN <<>> ELSE queue[t][j]
  <2>1. queue \in Table(Seq(Item))
    BY DEF IInv, Typing
  <2> DEFINE v == <<>>
  <2>2. v \in Seq(Item) /\ queue' = Set(queue, s, i, v)
    BY <1>1, <2>1
  <2> HIDE DEF v
  <2>3. /\ queue' \in Table(Seq(Item))
        /\ \A t \in Side : \A j \in Id :
             queue'[t][j] = IF t = s /\ j = i THEN v ELSE queue[t][j]
    BY <2>1, <2>2, SetFacts
  <2> QED BY <2>3 DEF v
<1>5. \A t \in Side : \A j \in Id :
        In(t, j)' \subseteq In(t, j) /\ ((t = s /\ j = i) \/ In(t, j)' = In(t, j))
  <2>1. Range(<<>>) = {}
    BY DEF Range
  <2> QED BY <1>4, <2>1 DEF In
<1>6. /\ held' \in [Side -> SUBSET Id]
      /\ \A t \in Side : \A j \in held'[t] :
           j \in held[t] \/ (t = s /\ \E n \in In(s, i) : Carried(s, i, n) = j)
  <2>1. Carries(s, i, queue[s][i]) = {Carried(s, i, n) : n \in In(s, i)} \ {Plain}
    BY CarriedFacts DEF IInv
  <2>2. \A n \in In(s, i) : Carried(s, i, n) \in Id \cup {Plain}
    BY CarriedFacts DEF IInv, QueueInv
  <2> QED BY <1>1, <2>1, <2>2 DEF IInv, Typing
<1>7. \A t \in Side : On(t)' = On(t) /\ \A j \in Id : \A k : Carried(t, j, k)' = Carried(t, j, k)
  BY <1>1 DEF On, Carried
<1>8. Typing'
  BY <1>1, <1>2, <1>3, <1>4, <1>6 DEF IInv, Typing
<1>9. WireInv' /\ QueueInv'
  BY <1>1, <1>5, <1>7 DEF IInv, WireInv, QueueInv
<1>10. HeldInv'
  BY <1>1, <1>5, <1>6, <1>7 DEF IInv, HeldInv
<1>11. EndInv'
  BY <1>1, <1>2, <1>5 DEF IInv, EndInv
<1>12. FinishInv'
  BY <1>1, <1>3, <1>6 DEF IInv, FinishInv
<1> QED BY <1>8, <1>9, <1>10, <1>11, <1>12 DEF IInv

\* close(), and the handlers of its messages.
LEMMA EndsStep ==
  ASSUME IInv, NEW s \in Side, NEW i \in Id, NEW to \in {"closed", "sendonly"}, Ends(s, i, to),
         wire' \in [Side -> Seq(Message)],
         \A t \in Side : \A m \in On(t)' : m \in On(t) \/ m.code # "data"
  PROVE  IInv'
<1>1. UNCHANGED <<count, items, held, finished, sent, again>>
  BY DEF Ends
<1>2. to \in State
  BY DEF State
<1>3. /\ state' \in Table(State) /\ queue' \in Table(Seq(Item))
      /\ callback' \in Table(BOOLEAN)
      /\ state'[s][i] = to /\ ~callback'[s][i]
      /\ In(s, i)' = In(s, i) \cup (IF items[s][i] THEN {EndMarker} ELSE {})
      /\ \A t \in Side : \A j \in Id :
           \/ t = s /\ j = i
           \/ /\ state'[t][j] = state[t][j]
              /\ (callback'[t][j] <=> callback[t][j])
              /\ In(t, j)' = In(t, j)
  BY <1>2, EndsFacts DEF IInv
<1>4. \A t \in Side : \A j \in Id : \A k : Carried(t, j, k)' = Carried(t, j, k)
  BY <1>1 DEF Carried
<1>5. \A t \in Side : \A j \in Id : In(t, j)' \subseteq In(t, j) \cup {EndMarker}
  BY <1>3
<1>6. \A t \in Side : \A j \in Id : Carried(t, j, EndMarker) = Plain /\ Plain \notin Id
  BY CarriedFacts DEF Carried, IInv
<1>7. Typing'
  BY <1>1, <1>3 DEF IInv, Typing
<1>8. WireInv' /\ QueueInv'
  BY <1>1, <1>5 DEF IInv, WireInv, QueueInv
<1>9. HeldInv'
  BY <1>1, <1>3, <1>4, <1>5, <1>6 DEF IInv, HeldInv, Live
<1>10. EndInv'
  BY <1>1, <1>3 DEF IInv, EndInv
<1>11. FinishInv'
  BY <1>1, <1>3 DEF IInv, FinishInv
<1> QED BY <1>7, <1>8, <1>9, <1>10, <1>11 DEF IInv

LEMMA CloseStep ==
  ASSUME IInv, NEW s \in Side, NEW i \in Id, Close(s, i)
  PROVE  IInv'
<1>1. /\ wire' \in [Side -> Seq(Message)]
      /\ \A t \in Side : \A m \in On(t)' : m \in On(t) \/ m.code # "data"
  <2>1. CASE UNCHANGED wire
    BY <2>1 DEF On, IInv, Typing
  <2>2. CASE Send(s, Msg("close", i, 0))
    <3>1. Msg("close", i, 0) \in Message /\ Msg("close", i, 0).code = "close"
      BY MsgFacts, ProtocolAssumption DEF Code, Item
    <3> QED BY <2>2, <3>1, SendFacts DEF IInv
  <2> QED BY <2>1, <2>2 DEF Close
<1> QED BY <1>1, EndsStep DEF Close

LEMMA DropStep ==
  ASSUME IInv, NEW s \in Side, NEW i \in Id, Drop(s, i)
  PROVE  IInv'
<1>1. UNCHANGED <<count, items, queue, callback, finished, sent, again>>
  BY DEF Drop
<1>2. /\ state' \in Table(State)
      /\ \A t \in Side : \A j \in Id :
           state'[t][j] = IF t = s /\ j = i THEN "deleted" ELSE state[t][j]
  <2>1. state' = Set(state, s, i, "deleted") /\ "deleted" \in State
    BY DEF Drop, State
  <2> QED BY <2>1, SetFacts DEF IInv, Typing
<1>3. /\ held' \in [Side -> SUBSET Id]
      /\ \A t \in Side : held'[t] = IF t = s THEN held[s] \ {i} ELSE held[t]
  BY DEF Drop, IInv, Typing
<1>4. /\ wire' \in [Side -> Seq(Message)]
      /\ \A t \in Side : \A m \in On(t)' : m \in On(t) \/ m.code # "data"
  <2>1. CASE UNCHANGED wire
    BY <2>1 DEF On, IInv, Typing
  <2>2. CASE Send(s, Msg(Farewell(s, i), i, 0))
    <3>1. Farewell(s, i) \in {"close", "last"}
      BY DEF Farewell
    <3>2. /\ Msg(Farewell(s, i), i, 0) \in Message
          /\ Msg(Farewell(s, i), i, 0).code # "data"
      BY <3>1, MsgFacts, ProtocolAssumption DEF Code, Item
    <3> QED BY <2>2, <3>2, SendFacts DEF IInv
  <2> QED BY <2>1, <2>2 DEF Drop
<1>5. \A t \in Side : \A j \in Id : In(t, j)' = In(t, j)
          /\ \A n : Carried(t, j, n)' = Carried(t, j, n)
  BY <1>1 DEF In, Carried
<1>6. \A j \in Id : \A n \in In(s, j) : Carried(s, j, n) # i
  <2> TAKE j \in Id
  <2>1. Carries(s, j, queue[s][j]) = {Carried(s, j, n) : n \in In(s, j)} \ {Plain}
            /\ Plain \notin Id
    BY CarriedFacts DEF IInv
  <2> QED BY <2>1 DEF Drop
<1>7. Typing'
  BY <1>1, <1>2, <1>3, <1>4 DEF IInv, Typing
<1>8. WireInv' /\ QueueInv'
  BY <1>1, <1>4, <1>5 DEF IInv, WireInv, QueueInv
<1>9. HeldInv'
  BY <1>2, <1>3, <1>5, <1>6 DEF IInv, HeldInv
<1>10. EndInv'
  BY <1>1, <1>2, <1>5 DEF IInv, EndInv
<1>11. FinishInv'
  BY <1>1, <1>2, <1>3 DEF IInv, FinishInv
<1> QED BY <1>7, <1>8, <1>9, <1>10, <1>11 DEF IInv

\* A message that loads channels: the queue q is the old one, perhaps with the new item in it.
LEMMA LoadStep ==
  ASSUME IInv, NEW s \in Side, NEW R \in SUBSET Id, NEW q \in Table(Seq(Item)), Load(s, R, q),
         wire' \in [Side -> Seq(Message)], \A t \in Side : On(t)' \subseteq On(t),
         held' \in [Side -> SUBSET Id],
         \A t \in Side : held'[t] \subseteq held[t] \cup (IF t = s THEN R ELSE {}),
         ~finished[s],
         UNCHANGED <<count, callback, finished, sent>>,
         \A t \in Side : \A j \in Id : In(t, j) \subseteq Range(q[t][j]),
         \A t \in Side : \A j \in Id : \A n \in Range(q[t][j]) :
           \/ n \in In(t, j)
           \/ n \in DOMAIN sent[Peer(t)][j] /\ t = s /\ Carried(t, j, n) \in R \cup {Plain}
  PROVE  IInv'
<1>1. /\ state' \in Table(State) /\ items' \in Table(BOOLEAN)
      /\ queue' \in Table(Seq(Item)) /\ again' \in [Side -> SUBSET Id]
      /\ Loaded(s, R, q)
  BY LoadFacts DEF IInv
<1>2. again' \in [Side -> SUBSET Id]
  BY <1>1
<1>3. \A t \in Side : \A i \in Id : state[t][i] \in Live \/ (t = s /\ i \in R)
          => state'[t][i] \in Live
  BY <1>1 DEF Live, Loaded
<1>4. \A t \in Side : \A i \in Id : In(t, i)' \subseteq Range(q[t][i])
  <2>1. Range(<<>>) = {}
    BY DEF Range
  <2> SUFFICES ASSUME NEW t \in Side, NEW i \in Id PROVE In(t, i)' \subseteq Range(q[t][i])
    OBVIOUS
  <2>2. CASE queue'[t][i] = <<>>
    BY <2>1, <2>2 DEF In
  <2>3. CASE queue'[t][i] = q[t][i]
    BY <2>3 DEF In
  <2> QED BY <1>1, <2>2, <2>3 DEF Loaded
<1>5. \A t \in Side : \A j \in Id : \A n : Carried(t, j, n)' = Carried(t, j, n)
  BY DEF Carried
<1>6. Typing'
  BY <1>1, <1>2 DEF IInv, Typing
<1>7. WireInv'
  BY DEF IInv, WireInv
<1>8. QueueInv'
  BY <1>4 DEF IInv, QueueInv
<1>9. HeldInv'
  <2> SUFFICES ASSUME NEW t \in Side, NEW j \in Id,
                      j \in held'[t] \/ (\E i \in Id : \E n \in In(t, i)' : Carried(t, i, n) = j)
               PROVE  state[t][j] \in Live \/ (t = s /\ j \in R)
    BY <1>3, <1>5 DEF HeldInv
  <2>1. CASE j \in held'[t]
    BY <2>1 DEF IInv, HeldInv
  <2>2. ASSUME NEW i \in Id, NEW n \in In(t, i)', Carried(t, i, n) = j
        PROVE  state[t][j] \in Live \/ (t = s /\ j \in R)
    <3>1. Plain \notin Id
      BY CarriedFacts DEF IInv
    <3> QED BY <1>4, <2>2, <3>1 DEF IInv, HeldInv
  <2> QED BY <2>1, <2>2
<1>10. EndInv'
  <2> SUFFICES ASSUME NEW t \in Side, NEW j \in Id,
                      state'[t][j] \in {"sendonly", "closed"}, items'[t][j]
               PROVE  EndMarker \in In(t, j)'
    BY DEF EndInv
  <2>1. state'[t][j] = state[t][j] /\ items[t][j] /\ queue'[t][j] = q[t][j]
    BY <1>1 DEF Loaded
  <2> QED BY <2>1 DEF IInv, EndInv, In
<1>11. FinishInv'
  <2> SUFFICES ASSUME NEW t \in Side, finished[t], held'[t] # {}
               PROVE  \A i \in Id : state'[t][i] # "opened" /\ ~callback[t][i]
    BY DEF FinishInv
  <2>1. t # s /\ held[t] # {}
    OBVIOUS
  <2>2. \A i \in Id : state'[t][i] = state[t][i]
    BY <1>1, <2>1 DEF Loaded
  <2> QED BY <2>1, <2>2 DEF IInv, FinishInv
<1> QED BY <1>6, <1>7, <1>8, <1>9, <1>10, <1>11 DEF IInv

LEMMA HandleExecStep ==
  ASSUME IInv, NEW s \in Side, HandleExec(s)
  PROVE  IInv'
<1> DEFINE i == Head(wire[s]).id
<1>1. /\ Arrives(s, "exec") /\ wire' = Consumed(s) /\ Load(s, {i}, queue)
      /\ held' = [held EXCEPT ![s] = @ \cup {i}]
      /\ UNCHANGED <<count, callback, finished, sent>>
  BY DEF HandleExec
<1>2. wire[s] # <<>> /\ ~finished[s]
  BY <1>1 DEF Arrives
<1>3. /\ wire' \in [Side -> Seq(Message)] /\ Head(wire[s]) \in Message
      /\ \A t \in Side : On(t)' \subseteq On(t)
  BY <1>1, <1>2, ConsumedFacts DEF IInv
<1>4. i \in Id
  BY <1>3, MsgFacts
<1> HIDE DEF i
<1>5. /\ held' \in [Side -> SUBSET Id]
      /\ \A t \in Side : held'[t] \subseteq held[t] \cup (IF t = s THEN {i} ELSE {})
  BY <1>1, <1>4 DEF IInv, Typing
<1>6. queue \in Table(Seq(Item)) /\ {i} \in SUBSET Id
  BY <1>4 DEF IInv, Typing
<1>7. \A t \in Side : \A j \in Id : In(t, j) = Range(queue[t][j])
  BY DEF In
<1> QED BY <1>1, <1>2, <1>3, <1>5, <1>6, <1>7, LoadStep

\* The item in a data message that arrives.
LEMMA ItemFacts ==
  ASSUME IInv, NEW s \in Side, Arrives(s, "data"), wire' = Consumed(s)
  PROVE  LET i == Head(wire[s]).id
             n == Head(wire[s]).n
         IN  /\ wire' \in [Side -> Seq(Message)]
             /\ \A t \in Side : On(t)' \subseteq On(t)
             /\ i \in Id /\ n \in Item /\ n \in DOMAIN sent[Peer(s)][i]
             /\ Carries(s, i, <<n>>) = {Carried(s, i, n)} \ {Plain}
             /\ Carries(s, i, <<n>>) \in SUBSET Id
<1> DEFINE m == Head(wire[s])
           i == m.id
           n == m.n
<1>1. wire[s] # <<>> /\ m.code = "data"
  BY DEF Arrives
<1>2. /\ wire' \in [Side -> Seq(Message)] /\ m \in Message /\ m \in On(s)
      /\ \A t \in Side : On(t)' \subseteq On(t)
  BY <1>1, ConsumedFacts DEF IInv
<1>3. i \in Id /\ n \in Item
  BY <1>2, MsgFacts
<1>4. n \in DOMAIN sent[Peer(s)][i]
  BY <1>1, <1>2 DEF IInv, WireInv
<1>5. /\ Carries(s, i, <<n>>) = {Carried(s, i, n)} \ {Plain}
      /\ Carried(s, i, n) \in Id \cup {Plain}
  BY <1>3, <1>4, CarriedFacts DEF IInv
<1> QED BY <1>2, <1>3, <1>4, <1>5

LEMMA DataToCallbackStep ==
  ASSUME IInv, NEW s \in Side, DataToCallback(s)
  PROVE  IInv'
<1> DEFINE i == Head(wire[s]).id
           n == Head(wire[s]).n
           R == Carries(s, i, <<n>>)
<1>1. /\ Arrives(s, "data") /\ wire' = Consumed(s) /\ Load(s, R, queue)
      /\ held' = [held EXCEPT ![s] = @ \cup R]
      /\ UNCHANGED <<count, callback, finished, sent>>
  BY DEF DataToCallback
<1>2. ~finished[s]
  BY <1>1 DEF Arrives
<1>3. /\ wire' \in [Side -> Seq(Message)] /\ \A t \in Side : On(t)' \subseteq On(t)
      /\ R \in SUBSET Id
  BY <1>1, ItemFacts
<1> HIDE DEF R
<1>4. /\ held' \in [Side -> SUBSET Id]
      /\ \A t \in Side : held'[t] \subseteq held[t] \cup (IF t = s THEN R ELSE {})
  BY <1>1, <1>3 DEF IInv, Typing
<1>5. queue \in Table(Seq(Item)) /\ \A t \in Side : \A j \in Id : In(t, j) = Range(queue[t][j])
  BY DEF IInv, Typing, In
<1> QED BY <1>1, <1>2, <1>3, <1>4, <1>5, LoadStep

LEMMA DataToQueueStep ==
  ASSUME IInv, NEW s \in Side, DataToQueue(s)
  PROVE  IInv'
<1> DEFINE i == Head(wire[s]).id
           n == Head(wire[s]).n
           R == Carries(s, i, <<n>>)
           v == Append(queue[s][i], n)
           q == Set(queue, s, i, v)
<1>1. /\ Arrives(s, "data") /\ wire' = Consumed(s) /\ Load(s, R, q)
      /\ UNCHANGED <<count, callback, held, finished, sent>>
  BY DEF DataToQueue
<1>2. ~finished[s]
  BY <1>1 DEF Arrives
<1>3. /\ wire' \in [Side -> Seq(Message)] /\ \A t \in Side : On(t)' \subseteq On(t)
      /\ i \in Id /\ n \in Item /\ n \in DOMAIN sent[Peer(s)][i]
      /\ R = {Carried(s, i, n)} \ {Plain} /\ R \in SUBSET Id
  BY <1>1, ItemFacts
<1> HIDE DEF i, n
<1>4. queue[s][i] \in Seq(Item)
  BY <1>3 DEF IInv, Typing, Table
<1>5. v \in Seq(Item) /\ Range(v) = Range(queue[s][i]) \cup {n}
  BY <1>3, <1>4, AppendFacts
<1> HIDE DEF v
<1>6. /\ q \in Table(Seq(Item))
      /\ \A t \in Side : \A j \in Id : q[t][j] = IF t = s /\ j = i THEN v ELSE queue[t][j]
  <2>1. queue \in Table(Seq(Item))
    BY DEF IInv, Typing
  <2> QED BY <1>3, <1>5, <2>1, SetFacts
<1> HIDE DEF q, R
<1>7. \A t \in Side : \A j \in Id :
        Range(q[t][j]) = In(t, j) \cup (IF t = s /\ j = i THEN {n} ELSE {})
  <2> SUFFICES ASSUME NEW t \in Side, NEW j \in Id
               PROVE  Range(q[t][j]) = In(t, j) \cup (IF t = s /\ j = i THEN {n} ELSE {})
    OBVIOUS
  <2>1. CASE t = s /\ j = i
    BY <1>5, <1>6, <2>1 DEF In
  <2>2. CASE ~(t = s /\ j = i)
    BY <1>6, <2>2 DEF In
  <2> QED BY <2>1, <2>2
<1>8. \A t \in Side : \A j \in Id :
        /\ In(t, j) \subseteq Range(q[t][j])
        /\ \A k \in Range(q[t][j]) :
             \/ k \in In(t, j)
             \/ k \in DOMAIN sent[Peer(t)][j] /\ t = s /\ Carried(t, j, k) \in R \cup {Plain}
  BY <1>3, <1>7
<1>9. held' \in [Side -> SUBSET Id] /\ \A t \in Side : held'[t] \subseteq held[t]
  BY <1>1 DEF IInv, Typing
<1> QED BY <1>1, <1>2, <1>3, <1>6, <1>8, <1>9, LoadStep

LEMMA HandleEndStep ==
  ASSUME IInv, NEW s \in Side, NEW c \in Code, NEW to \in {"closed", "sendonly"},
         HandleEnd(s, c, to)
  PROVE  IInv'
<1> DEFINE i == Head(wire[s]).id
<1>1. wire[s] # <<>> /\ wire' = Consumed(s)
  BY DEF HandleEnd, Arrives
<1>2. /\ wire' \in [Side -> Seq(Message)] /\ Head(wire[s]) \in Message
      /\ \A t \in Side : On(t)' \subseteq On(t)
  BY <1>1, ConsumedFacts DEF IInv
<1>3. i \in Id
  BY <1>2, MsgFacts
<1>4. \/ Ends(s, i, to)
      \/ /\ callback' = Set(callback, s, i, FALSE)
         /\ UNCHANGED <<count, state, items, queue, held, finished, sent, again>>
  BY DEF HandleEnd
<1> HIDE DEF i
<1>5. CASE Ends(s, i, to)
  BY <1>2, <1>3, <1>5, EndsStep
<1>6. CASE /\ callback' = Set(callback, s, i, FALSE)
           /\ UNCHANGED <<count, state, items, queue, held, finished, sent, again>>
  <2>1. /\ callback' \in Table(BOOLEAN)
        /\ \A t \in Side : \A j \in Id : callback'[t][j] => callback[t][j]
    BY <1>3, <1>6 DEF Set, IInv, Typing, Table
  <2>2. \A t \in Side : \A j \in Id : In(t, j)' = In(t, j)
            /\ \A n : Carried(t, j, n)' = Carried(t, j, n)
    BY <1>6 DEF In, Carried
  <2>3. Typing' /\ WireInv'
    BY <1>2, <1>6, <2>1 DEF IInv, Typing, WireInv
  <2>4. QueueInv' /\ HeldInv' /\ EndInv'
    BY <1>6, <2>2 DEF IInv, QueueInv, HeldInv, EndInv
  <2>5. FinishInv'
    BY <1>6, <2>1 DEF IInv, FinishInv
  <2> QED BY <2>3, <2>4, <2>5 DEF IInv
<1> QED BY <1>4, <1>5, <1>6

LEMMA HandleReconfigureStep ==
  ASSUME IInv, NEW s \in Side, HandleReconfigure(s)
  PROVE  IInv'
<1> DEFINE i == Head(wire[s]).id
           m == Msg("close", i, 0)
           p == Peer(s)
<1>1. wire[s] # <<>> /\ UNCHANGED <<count, state, items, queue, callback, held, finished,
          sent, again>>
  BY DEF HandleReconfigure, Arrives, Quiet
<1>2. again' \in [Side -> SUBSET Id]
  BY <1>1 DEF IInv, Typing
<1>3. CASE wire' = Consumed(s)
  BY <1>1, <1>2, <1>3, ConsumedFacts, WireStep DEF IInv
<1>4. CASE wire' = [wire EXCEPT ![s] = Tail(@), ![p] = Append(@, m)]
  <2>1. p \in Side /\ p # s /\ \A t \in Side : t = s \/ t = p
    BY PeerFacts
  <2>2. wire[s] \in Seq(Message) /\ wire[p] \in Seq(Message)
    BY <2>1 DEF IInv, Typing
  <2>3. /\ Tail(wire[s]) \in Seq(Message) /\ Range(Tail(wire[s])) \subseteq On(s)
        /\ Head(wire[s]) \in Message
    BY <1>1, <2>2, TailFacts DEF On
  <2>4. m \in Message /\ m.code = "close"
    BY <2>3, MsgFacts, ProtocolAssumption DEF Code, Item
  <2> HIDE DEF m, p
  <2>5. Append(wire[p], m) \in Seq(Message) /\ Range(Append(wire[p], m)) = On(p) \cup {m}
    BY <2>2, <2>4, AppendFacts DEF On
  <2>6. wire'[s] = Tail(wire[s]) /\ wire'[p] = Append(wire[p], m)
    BY <1>4, <2>1 DEF IInv, Typing
  <2>7. wire' \in [Side -> Seq(Message)]
    BY <1>4, <2>1, <2>3, <2>5 DEF IInv, Typing
  <2>8. On(s)' \subseteq On(s) /\ On(p)' = On(p) \cup {m}
    BY <2>3, <2>5, <2>6 DEF On
  <2>9. \A t \in Side : \A x \in On(t)' : x \in On(t) \/ x.code # "data"
    BY <2>1, <2>4, <2>8
  <2> QED BY <1>1, <1>2, <2>7, <2>9, WireStep
<1> QED BY <1>3, <1>4 DEF HandleReconfigure

LEMMA DataDroppedStep ==
  ASSUME IInv, NEW s \in Side, DataDropped(s)
  PROVE  IInv'
<1>1. /\ Arrives(s, "data") /\ wire' = Consumed(s)
      /\ UNCHANGED <<count, state, items, queue, callback, held, finished, sent>>
  BY DEF DataDropped
<1>2. /\ wire' \in [Side -> Seq(Message)] /\ Head(wire[s]).id \in Id
      /\ \A t \in Side : On(t)' \subseteq On(t)
  BY <1>1, ItemFacts
<1>3. again' \in [Side -> SUBSET Id]
  BY <1>2 DEF DataDropped, IInv, Typing
<1> QED BY <1>1, <1>2, <1>3, WireStep

LEMMA FinishStep ==
  ASSUME IInv, NEW s \in Side, Finish(s)
  PROVE  IInv'
<1>1. /\ UNCHANGED <<count, items, held, sent, again>>
      /\ finished' \in [Side -> BOOLEAN] /\ wire' \in [Side -> Seq(Message)]
      /\ \A t \in Side : t # s => finished'[t] = finished[t] /\ wire'[t] = wire[t]
      /\ wire'[s] = <<>>
  BY DEF Finish, IInv, Typing
<1>2. /\ state' \in Table(State)
      /\ \A i \in Id : state'[s][i] = IF state[s][i] = "opened" THEN "sendonly" ELSE state[s][i]
      /\ \A t \in Side : \A i \in Id : t # s => state'[t][i] = state[t][i]
  BY DEF Finish, IInv, Typing, Table, State
<1>3. \A i \in Id : WithEnd(s, i) \in Seq(Item)
          /\ Range(WithEnd(s, i)) = In(s, i) \cup (IF items[s][i] THEN {EndMarker} ELSE {})
  <2> SUFFICES ASSUME NEW i \in Id
               PROVE  /\ WithEnd(s, i) \in Seq(Item)
                      /\ Range(WithEnd(s, i))
                           = In(s, i) \cup (IF items[s][i] THEN {EndMarker} ELSE {})
    OBVIOUS
  <2>1. queue[s][i] \in Seq(Item) /\ EndMarker \in Item
    BY ProtocolAssumption DEF IInv, Typing, Table, EndMarker, Item
  <2>2. CASE items[s][i]
    BY <2>1, <2>2, AppendFacts DEF WithEnd, In
  <2>3. CASE ~items[s][i]
    BY <2>1, <2>3 DEF WithEnd, In
  <2> QED BY <2>2, <2>3
<1>4. /\ queue' \in Table(Seq(Item))
      /\ \A i \in Id : queue'[s][i] = IF state[s][i] = "opened" THEN WithEnd(s, i) ELSE queue[s][i]
      /\ \A t \in Side : \A i \in Id : t # s => queue'[t][i] = queue[t][i]
  BY <1>3 DEF Finish, IInv, Typing, Table
<1>5. /\ callback' \in Table(BOOLEAN)
      /\ \A i \in Id : ~callback'[s][i]
      /\ \A t \in Side : \A i \in Id : t # s => (callback'[t][i] <=> callback[t][i])
  BY DEF Finish, IInv, Typing, Table
<1>6. \A t \in Side : \A i \in Id :
        /\ In(t, i)' \subseteq In(t, i) \cup {EndMarker} /\ In(t, i) \subseteq In(t, i)'
        /\ t = s /\ state[s][i] = "opened" /\ items[s][i] => EndMarker \in In(t, i)'
  BY <1>3, <1>4 DEF In
<1>7. \A t \in Side : On(t)' \subseteq On(t)
  <2>1. Range(<<>>) = {}
    BY DEF Range
  <2>2. On(s)' = {}
    BY <1>1, <2>1 DEF On
  <2> QED BY <1>1, <2>2 DEF On
<1>8. \A t \in Side : \A j \in Id :
        /\ \A k : Carried(t, j, k)' = Carried(t, j, k)
        /\ Carried(t, j, EndMarker) = Plain /\ Plain \notin Id
  BY <1>1, CarriedFacts DEF Carried, IInv
<1>9. Typing'
  BY <1>1, <1>2, <1>4, <1>5 DEF IInv, Typing
<1>10. WireInv' /\ QueueInv'
  BY <1>1, <1>6, <1>7 DEF IInv, WireInv, QueueInv
<1>11. HeldInv'
  BY <1>1, <1>2, <1>6, <1>8 DEF IInv, HeldInv, Live
<1>12. EndInv'
  <2> SUFFICES ASSUME NEW t \in Side, NEW i \in Id, items[t][i],
                      state'[t][i] \in {"sendonly", "closed"}
               PROVE  EndMarker \in In(t, i)'
    BY <1>1 DEF EndInv
  <2>1. CASE state[t][i] \in {"sendonly", "closed"}
    BY <1>6, <2>1 DEF IInv, EndInv
  <2>2. CASE state[t][i] \notin {"sendonly", "closed"}
    BY <1>2, <1>6, <2>2
  <2> QED BY <2>1, <2>2
<1>13. FinishInv'
  BY <1>1, <1>2, <1>5 DEF IInv, FinishInv
<1> QED BY <1>9, <1>10, <1>11, <1>12, <1>13 DEF IInv

LEMMA DieStep ==
  ASSUME IInv, NEW s \in Side, Die(s)
  PROVE  IInv'
<1>1. /\ UNCHANGED <<count, state, items, queue, callback, sent, again>>
      /\ held' \in [Side -> SUBSET Id] /\ held'[s] = {}
      /\ finished' \in [Side -> BOOLEAN] /\ wire' \in [Side -> Seq(Message)] /\ wire'[s] = <<>>
      /\ \A t \in Side : t # s => /\ finished'[t] = finished[t] /\ wire'[t] = wire[t]
                                  /\ held'[t] = held[t]
  BY DEF Die, IInv, Typing
<1>2. \A t \in Side : On(t)' \subseteq On(t)
  <2>1. Range(<<>>) = {}
    BY DEF Range
  <2>2. On(s)' = {}
    BY <1>1, <2>1 DEF On
  <2> QED BY <1>1, <2>2 DEF On
<1>3. \A t \in Side : \A j \in Id : In(t, j)' = In(t, j)
          /\ \A n : Carried(t, j, n)' = Carried(t, j, n)
  BY <1>1 DEF In, Carried
<1>4. Typing' /\ WireInv'
  BY <1>1, <1>2 DEF IInv, Typing, WireInv
<1>5. QueueInv' /\ HeldInv' /\ EndInv'
  BY <1>1, <1>3 DEF IInv, QueueInv, HeldInv, EndInv
<1>6. FinishInv'
  BY <1>1 DEF IInv, FinishInv
<1> QED BY <1>4, <1>5, <1>6 DEF IInv

LEMMA Invariance == Spec => []IInv
<1>1. IInv /\ Next => IInv'
  <2> SUFFICES ASSUME IInv, NEW s \in Side, Handle(s) \/ Method(s) \/ Die(s) PROVE IInv'
    BY DEF Next
  <2>1. CASE Handle(s)
    <3>1. {"close", "last"} \subseteq Code
      BY DEF Code
    <3> QED BY <2>1, <3>1, HandleExecStep, DataToCallbackStep, DataToQueueStep, DataDroppedStep,
               HandleEndStep, HandleReconfigureStep, FinishStep
            DEF Handle, HandleTerminate, HandleEOF
  <2>2. CASE NewChannel(s) \/ RemoteExec(s)
    BY <2>2, TakeNumberStep
  <2>3. ASSUME NEW m \in Message, Send(s, m), m.code # "data", Quiet PROVE IInv'
    <3>1. /\ wire' \in [Side -> Seq(Message)]
          /\ \A t \in Side : \A x \in On(t)' : x \in On(t) \/ x.code # "data"
      BY <2>3, SendFacts DEF IInv
    <3> QED BY <2>3, <3>1, WireStep DEF Quiet, IInv, Typing
  <2>4. CASE Exit(s)
    <3>1. Msg("terminate", 1, 0) \in Message /\ Msg("terminate", 1, 0).code # "data"
      BY MsgFacts, ProtocolAssumption DEF Code, Item, Id
    <3> QED BY <2>3, <2>4, <3>1 DEF Exit
  <2>5. ASSUME NEW i \in Id, Reconfigure(s, i) PROVE IInv'
    <3>1. Msg("reconfigure", i, 0) \in Message /\ Msg("reconfigure", i, 0).code # "data"
      BY MsgFacts, ProtocolAssumption DEF Code, Item
    <3> QED BY <2>3, <2>5, <3>1 DEF Reconfigure
  <2>6. CASE Method(s)
    BY <2>2, <2>4, <2>5, <2>6, SendItemStep, ReceiveItemStep, SetCallbackStep, CloseStep, DropStep
       DEF Method
  <2> QED BY <2>1, <2>6, DieStep
<1>2. IInv /\ UNCHANGED vars => IInv'
  BY WireStep DEF vars, On, IInv, Typing
<1> QED BY InitInv, <1>1, <1>2, PTL DEF Spec

\* At the end of the connection nobody is left waiting, however many channels, items and
\* calls there were, and whatever channels were sent over others.
THEOREM EndReachesAll == Spec => []EndTellsAll
<1>1. IInv => EndTellsAll
  <2> SUFFICES ASSUME IInv, NEW s \in Side, finished[s], NEW i \in held[s]
               PROVE  /\ state[s][i] # "opened" /\ ~callback[s][i]
                      /\ items[s][i] => queue[s][i] # <<>>
    BY DEF EndTellsAll
  <2>1. i \in Id
    BY DEF IInv, Typing
  <2>2. state[s][i] # "opened" /\ ~callback[s][i]
    BY <2>1 DEF IInv, FinishInv
  <2>3. ASSUME items[s][i] PROVE queue[s][i] # <<>>
    <3>1. state[s][i] \in {"sendonly", "closed"}
      BY <2>1, <2>2 DEF IInv, HeldInv, Live
    <3>2. EndMarker \in In(s, i)
      BY <2>1, <2>3, <3>1 DEF IInv, EndInv
    <3>3. Range(<<>>) = {}
      BY DEF Range
    <3> QED BY <3>2, <3>3 DEF In
  <2> QED BY <2>2, <2>3
<1> QED BY Invariance, <1>1, PTL

-----------------------------------------------------------------------------
(***************************************************************************)
(* While both gateways live and nothing is under way, no channel is open   *)
(* on one side and closed on the other.                                    *)
(***************************************************************************)

Gone == {"sendonly", "closed", "deleted"}
Closed == {"closed", "deleted"}

\* The message m to s makes s open channel i, if it has none.
Loads(s, m, i) ==
  \/ m.code = "exec" /\ m.id = i
  \/ m.code = "data" /\ Carried(s, m.id, m.n) = i

\* Nobody speaks of a channel that it has no object for.
KnownInv ==
  \A s \in Side : \A m \in On(s) : \A i \in Id :
    Loads(s, m, i) \/ (m.id = i /\ m.code # "terminate") => state[Peer(s)][i] # "new"

\* reconfigure() is of a channel that the peer knows.
ReconfigureInv ==
  \A s \in Side : \A m \in On(s) : m.code = "reconfigure" => state[s][m.id] # "new"

\* The numbers of the two factories differ, and those to come are new to both.
Numbers(s) == {StartCount(s) + 2 * k : k \in Nat}

NumbersInv ==
  \A s \in Side :
    /\ count[s] \in Numbers(s)
    /\ \A i \in Id \cap Numbers(s) : i >= count[s] => \A t \in Side : state[t][i] = "new"

\* Who has sent the end of a channel, or has heard of it, is done with it.
PartInv ==
  \A s \in Side : \A i \in Id \ Again :
    (\E m \in On(s) : Parts(m, i)) \/ state[s][i] = "sendonly" => state[Peer(s)][i] \in Gone

\* s has the channel, or is about to.
Opens(s, i) ==
  \/ state[s][i] = "opened"
  \/ state[s][i] = "new" /\ \E m \in On(s) : Loads(s, m, i)

\* The end of the channel is under way to s, behind everything that opens it.
Promise(s, i) ==
  \E k \in DOMAIN wire[s] :
    /\ Parts(wire[s][k], i)
    /\ \A j \in DOMAIN wire[s] : Loads(s, wire[s][j], i) => j < k

TellInv ==
  \A s \in Side : \A i \in Id \ Again :
    state[Peer(s)][i] \in Closed /\ Opens(s, i) => Promise(s, i)

Agreement == KnownInv /\ ReconfigureInv /\ NumbersInv /\ PartInv /\ TellInv

AInv == IInv /\ (Connected => Agreement)

-----------------------------------------------------------------------------
(* What a step may do while both gateways live.                            *)

\* Loads(s, m, i) in the next state, for a message m of this one.
LoadsThen(s, m, i) ==
  \/ m.code = "exec" /\ m.id = i
  \/ m.code = "data" /\ (IF m.n = EndMarker THEN Plain ELSE sent'[Peer(s)][m.id][m.n]) = i

\* A message that s may get from its peer.
NewMessage(s, m) ==
  /\ m \in Message
  /\ m.code # "terminate" => state'[Peer(s)][m.id] # "new"
  /\ \A i \in Id :
       /\ LoadsThen(s, m, i) => state'[Peer(s)][i] # "new"
       /\ LoadsThen(s, m, i) => state[Peer(s)][i] \notin Closed \/ i \in Again'
       /\ Parts(m, i) => state'[Peer(s)][i] \in Gone \/ i \in Again'
  /\ m.code = "reconfigure" => state'[s][m.id] # "new"

WireMoves(s) ==
  \/ wire'[s] = wire[s]
  \/ \E m \in Message : wire'[s] = Append(wire[s], m) /\ NewMessage(s, m)
  \/ /\ wire[s] # <<>> /\ wire'[s] = Tail(wire[s])
     /\ \A i \in Id : Parts(Head(wire[s]), i) => state'[s][i] # "opened"

ChannelMoves(s, i) ==
  \/ state'[s][i] = state[s][i]
  \* made under a new number ...
  \/ state[s][i] = "new" /\ state'[s][i] = "opened" /\ i = count[s] /\ count'[s] = i + 2
  \* ... or for a message; not, for once, when it had an end before
  \/ /\ state[s][i] # "opened" /\ state'[s][i] = "opened"
     /\ \E m \in On(s) : Loads(s, m, i)
     /\ state[s][i] # "new" => i \in again'[s]
  \* closed or dropped, by the user ...
  \/ /\ state[s][i] = "opened" /\ state'[s][i] \in Closed
     /\ \E m \in Message : Parts(m, i) /\ wire'[Peer(s)] = Append(wire[Peer(s)], m)
  \/ state[s][i] \in Gone /\ state'[s][i] \in Closed
  \* ... or by the peer
  \/ /\ state[s][i] = "opened" /\ state'[s][i] \in Gone
     /\ \E m \in On(s) : Parts(m, i)

Orderly ==
  \A s \in Side :
    /\ WireMoves(s)
    /\ \A i \in Id : ChannelMoves(s, i)
    /\ again[s] \subseteq again'[s]
    /\ count'[s] = count[s] \/ (count'[s] = count[s] + 2 /\ count[s] \in Id)
    /\ \A i \in Id : \A n \in DOMAIN sent[s][i] :
         n \in DOMAIN sent'[s][i] /\ sent'[s][i][n] = sent[s][i][n]

-----------------------------------------------------------------------------
LEMMA NumbersFacts ==
  /\ \A s \in Side : StartCount(s) \in Numbers(s) /\ Numbers(s) \subseteq Nat
  /\ \A s \in Side : \A n \in Numbers(s) : n + 2 \in Numbers(s) /\ n \notin Numbers(Peer(s))
<1>1. \A s \in Side : StartCount(s) \in Nat
  BY DEF StartCount
<1>2. ASSUME NEW s \in Side PROVE StartCount(s) \in Numbers(s) /\ Numbers(s) \subseteq Nat
  <2>1. StartCount(s) = StartCount(s) + 2 * 0 /\ 0 \in Nat
    BY <1>1
  <2>2. StartCount(s) \in Numbers(s)
    BY <2>1 DEF Numbers
  <2> QED BY <1>1, <2>2 DEF Numbers
<1>3. ASSUME NEW s \in Side, NEW n \in Numbers(s) PROVE n + 2 \in Numbers(s)
  <2>1. PICK k \in Nat : n = StartCount(s) + 2 * k
    BY DEF Numbers
  <2>2. n + 2 = StartCount(s) + 2 * (k + 1) /\ k + 1 \in Nat
    BY <1>1, <2>1
  <2> QED BY <2>2 DEF Numbers
<1>4. ASSUME NEW s \in Side, NEW n \in Numbers(s) PROVE n \notin Numbers(Peer(s))
  <2> SUFFICES ASSUME n \in Numbers(Peer(s)) PROVE FALSE
    OBVIOUS
  <2>1. PICK k \in Nat : n = StartCount(s) + 2 * k
    BY DEF Numbers
  <2>2. PICK j \in Nat : n = StartCount(Peer(s)) + 2 * j
    BY DEF Numbers
  <2>3. \/ StartCount(s) = 1 /\ StartCount(Peer(s)) = 2
        \/ StartCount(s) = 2 /\ StartCount(Peer(s)) = 1
    BY DEF StartCount, Peer, Side
  <2> QED BY <2>1, <2>2, <2>3
<1> QED BY <1>2, <1>3, <1>4

LEMMA AgainGrows == Orderly => Again \subseteq Again' /\ \A s \in Side : again'[s] \subseteq Again'
  BY DEF Orderly, Again, Side

\* Messages under way load what they loaded when they were sent.
LEMMA LoadsKept ==
  ASSUME IInv, Orderly, NEW s \in Side, NEW m \in On(s), NEW i
  PROVE  LoadsThen(s, m, i) <=> Loads(s, m, i)
<1>1. m.id \in Id
  BY MsgFacts DEF On, Range, IInv, Typing
<1>2. m.code = "data" => m.n \in DOMAIN sent[Peer(s)][m.id]
  BY DEF IInv, WireInv
<1>3. m.code = "data" => Carried(s, m.id, m.n)' = Carried(s, m.id, m.n)
  BY <1>1, <1>2, PeerFacts DEF Carried, Orderly
<1> QED BY <1>3 DEF Loads, LoadsThen, Carried

\* For a channel that lives only once there is no way back.
LEMMA NoWayBack ==
  ASSUME AInv, Connected, Orderly, NEW s \in Side, NEW i \in Id
  PROVE  /\ state[s][i] # "new" => state'[s][i] # "new"
         /\ i \notin Again' /\ state[s][i] \in Gone => state'[s][i] \in Gone
         /\ i \notin Again' /\ state[s][i] \in Closed => state'[s][i] \in Closed
<1>1. ChannelMoves(s, i)
  BY DEF Orderly
<1>2. i \notin Again' => i \notin again'[s]
  BY AgainGrows
<1> QED BY <1>1, <1>2 DEF ChannelMoves, Gone, Closed

-----------------------------------------------------------------------------
(* The promise that the end of a channel is under way.                     *)

LEMMA PromiseThen ==
  ASSUME NEW s, NEW i, NEW k \in DOMAIN wire'[s], Parts(wire'[s][k], i),
         \A j \in DOMAIN wire'[s] : LoadsThen(s, wire'[s][j], i) => j < k
  PROVE  Promise(s, i)'
  BY DEF Promise, Parts, Loads, LoadsThen, Carried

LEMMA PromiseMade ==
  ASSUME IInv, Orderly, NEW s \in Side, NEW i \in Id, NEW m \in Message, Parts(m, i),
         wire'[s] = Append(wire[s], m), wire' \in [Side -> Seq(Message)]
  PROVE  Promise(s, i)'
<1> DEFINE q == wire[s]
<1>1. q \in Seq(Message)
  BY DEF IInv, Typing
<1>2. /\ Len(q) \in Nat /\ DOMAIN wire'[s] = 1..Len(q) + 1
      /\ wire'[s][Len(q) + 1] = m
  BY <1>1, AppendFacts
<1>3. ~LoadsThen(s, m, i)
  BY DEF Parts, LoadsThen
<1>4. \A j \in DOMAIN wire'[s] : LoadsThen(s, wire'[s][j], i) => j < Len(q) + 1
  BY <1>2, <1>3
<1>5. Len(q) + 1 \in DOMAIN wire'[s]
  BY <1>2
<1>6. Parts(wire'[s][Len(q) + 1], i)
  BY <1>2
<1> HIDE DEF q
<1> QED BY <1>4, <1>5, <1>6, PromiseThen

LEMMA PromiseKept ==
  ASSUME IInv, Orderly, wire' \in [Side -> Seq(Message)],
         NEW s \in Side, NEW i \in Id, Promise(s, i),
         \A m \in Message : wire'[s] = Append(wire[s], m) => ~LoadsThen(s, m, i)
  PROVE  \/ Promise(s, i)'
         \/ state'[s][i] # "opened" /\ \A m \in On(s)' : ~LoadsThen(s, m, i)
<1> DEFINE q == wire[s]
           r == wire'[s]
<1>1. q \in Seq(Message)
  BY DEF IInv, Typing
<1>2. PICK k \in DOMAIN q : /\ Parts(q[k], i)
                           /\ \A j \in DOMAIN q : Loads(s, q[j], i) => j < k
  BY DEF Promise
<1>3. \A j \in DOMAIN q : LoadsThen(s, q[j], i) => j < k
  <2> SUFFICES ASSUME NEW j \in DOMAIN q, LoadsThen(s, q[j], i) PROVE Loads(s, q[j], i)
    BY <1>2
  <2>1. q[j] \in On(s)
    BY DEF On, Range
  <2> HIDE DEF q
  <2> QED BY <2>1, LoadsKept
<1>4. CASE r = q
  BY <1>2, <1>3, <1>4, PromiseThen
<1>5. ASSUME NEW m \in Message, r = Append(q, m) PROVE Promise(s, i)'
  <2>1. ~LoadsThen(s, m, i)
    BY <1>5
  <2>2. /\ Len(q) \in Nat /\ DOMAIN q = 1..Len(q) /\ DOMAIN r = 1..Len(q) + 1
        /\ r[Len(q) + 1] = m
        /\ \A j \in DOMAIN q : j \in DOMAIN r /\ r[j] = q[j]
    BY <1>1, <1>5, AppendFacts
  <2>3. k \in DOMAIN r /\ Parts(r[k], i)
    BY <1>2, <2>2
  <2>4. ASSUME NEW j \in DOMAIN r, LoadsThen(s, r[j], i) PROVE j < k
    <3>1. j \in DOMAIN q
      BY <2>1, <2>2, <2>4
    <3> QED BY <1>3, <2>2, <2>4, <3>1
  <2> HIDE DEF q
  <2> QED BY <2>3, <2>4, PromiseThen
<1>6. CASE q # <<>> /\ r = Tail(q) /\ \A j \in Id : Parts(Head(q), j) => state'[s][j] # "opened"
  <2>1. /\ Len(q) \in Nat /\ DOMAIN q = 1..Len(q) /\ DOMAIN r = 1..Len(q) - 1
        /\ Head(q) = q[1]
        /\ \A j \in DOMAIN r : j + 1 \in DOMAIN q /\ r[j] = q[j + 1]
    BY <1>1, <1>6, TailFacts
  <2>2. ASSUME NEW j \in DOMAIN r, LoadsThen(s, r[j], i) PROVE j + 1 < k
    BY <1>3, <2>1, <2>2
  <2>3. CASE k = 1
    <3>1. state'[s][i] # "opened"
      BY <1>2, <1>6, <2>1, <2>3
    <3>2. \A j \in DOMAIN r : ~LoadsThen(s, r[j], i)
      BY <2>1, <2>2, <2>3
    <3>3. \A m \in On(s)' : ~LoadsThen(s, m, i)
      BY <3>2 DEF On, Range
    <3> QED BY <3>1, <3>3
  <2>4. CASE k # 1
    <3>1. k - 1 \in DOMAIN r /\ r[k - 1] = q[k]
      BY <2>1, <2>4
    <3>2. Parts(r[k - 1], i)
      BY <1>2, <3>1
    <3>3. \A j \in DOMAIN r : LoadsThen(s, r[j], i) => j < k - 1
      BY <2>1, <2>2
    <3> HIDE DEF q
    <3> QED BY <3>1, <3>2, <3>3, PromiseThen
  <2> QED BY <2>3, <2>4
<1>7. WireMoves(s)
  BY DEF Orderly
<1> QED BY <1>4, <1>5, <1>6, <1>7 DEF WireMoves

-----------------------------------------------------------------------------
(* An orderly step keeps the agreement.                                    *)

\* Where the messages of the next state come from.
LEMMA Origin ==
  ASSUME IInv, IInv', Orderly, NEW s \in Side, NEW m \in On(s)'
  PROVE  m \in Message /\ (m \in On(s) \/ NewMessage(s, m))
<1> DEFINE q == wire[s]
<1>1. q \in Seq(Message) /\ wire'[s] \in Seq(Message)
  BY DEF IInv, Typing
<1>2. m \in Message
  BY <1>1 DEF On, Range
<1>3. WireMoves(s)
  BY DEF Orderly
<1>4. CASE wire'[s] = q
  BY <1>2, <1>4 DEF On
<1>5. ASSUME NEW x \in Message, wire'[s] = Append(q, x), NewMessage(s, x)
      PROVE  m \in On(s) \/ NewMessage(s, m)
  <2>1. Range(Append(q, x)) = Range(q) \cup {x}
    BY <1>1, AppendFacts
  <2>2. m \in Range(q) \/ m = x
    BY <1>5, <2>1 DEF On
  <2>3. CASE m = x
    BY <1>5, <2>3
  <2> QED BY <2>2, <2>3 DEF On
<1>6. CASE q # <<>> /\ wire'[s] = Tail(q)
  <2>1. Range(q) = Range(Tail(q)) \cup {Head(q)}
    BY <1>1, <1>6, TailFacts
  <2> QED BY <1>2, <1>6, <2>1 DEF On
<1> QED BY <1>2, <1>3, <1>4, <1>5, <1>6 DEF WireMoves

LEMMA AgreementKept ==
  ASSUME AInv, IInv', Connected, Orderly
  PROVE  Agreement'
<1> USE DEF AInv
<1>1. Agreement
  OBVIOUS
<1>2. \A s \in Side : \A i \in Id :
        /\ state[s][i] # "new" => state'[s][i] # "new"
        /\ i \notin Again' /\ state[s][i] \in Gone => state'[s][i] \in Gone
        /\ i \notin Again' /\ state[s][i] \in Closed => state'[s][i] \in Closed
  BY NoWayBack
<1>3. \A s \in Side : \A m \in On(s)' : m \in Message /\ (m \in On(s) \/ NewMessage(s, m))
  BY Origin
<1>4. \A s \in Side : \A m \in On(s) : \A i : LoadsThen(s, m, i) <=> Loads(s, m, i)
  BY LoadsKept
<1>5. \A s \in Side : \A m : \A i : Loads(s, m, i)' <=> LoadsThen(s, m, i)
  BY DEF Loads, LoadsThen, Carried
<1>6. \A s \in Side : Peer(s) \in Side /\ Peer(s) # s /\ Peer(Peer(s)) = s
  BY PeerFacts
<1>7. Again \subseteq Again' /\ \A s \in Side : again'[s] \subseteq Again'
  BY AgainGrows
<1>8. KnownInv'
  <2> SUFFICES ASSUME NEW s \in Side, NEW m \in On(s)', NEW i \in Id,
                      LoadsThen(s, m, i) \/ (m.id = i /\ m.code # "terminate")
               PROVE  state'[Peer(s)][i] # "new"
    BY <1>5 DEF KnownInv
  <2>1. CASE m \in On(s)
    BY <1>1, <1>2, <1>4, <1>6, <2>1 DEF Agreement, KnownInv
  <2>2. CASE NewMessage(s, m)
    BY <2>2 DEF NewMessage
  <2> QED BY <1>3, <2>1, <2>2
<1>9. ReconfigureInv'
  <2> SUFFICES ASSUME NEW s \in Side, NEW m \in On(s)', m.code = "reconfigure"
               PROVE  state'[s][m.id] # "new"
    BY DEF ReconfigureInv
  <2>1. m.id \in Id
    BY <1>3, MsgFacts
  <2>2. CASE m \in On(s)
    BY <1>1, <1>2, <2>1, <2>2 DEF Agreement, ReconfigureInv
  <2>3. CASE NewMessage(s, m)
    BY <2>3 DEF NewMessage
  <2> QED BY <1>3, <2>2, <2>3
<1>10. NumbersInv'
  <2>1. ASSUME NEW s \in Side PROVE count'[s] \in Numbers(s)
    BY <1>1, NumbersFacts DEF Agreement, NumbersInv, Orderly
  <2>2. ASSUME NEW s \in Side, NEW i \in Id \cap Numbers(s), i >= count'[s], NEW t \in Side
        PROVE  state'[t][i] = "new"
    <3>1. count[s] \in Nat /\ i \in Nat /\ i >= count[s] /\ (i # count[s] \/ count'[s] = count[s])
      BY <2>2, <1>1, NumbersFacts DEF Agreement, NumbersInv, Orderly
    <3>2. \A u \in Side : state[u][i] = "new"
      BY <1>1, <3>1 DEF Agreement, NumbersInv
    <3>3. ChannelMoves(t, i)
      BY DEF Orderly
    <3>4. \A m \in On(t) : ~Loads(t, m, i)
      BY <1>1, <1>6, <3>2 DEF Agreement, KnownInv
    <3>5. ~(i = count[t] /\ count'[t] = i + 2)
      <4>1. CASE t = s
        BY <3>1, <4>1
      <4>2. CASE t # s
        <5>1. s = Peer(t) /\ count[t] \in Numbers(t)
          BY <1>1, <4>2, PeerFacts DEF Agreement, NumbersInv
        <5> QED BY <5>1, NumbersFacts
      <4> QED BY <4>1, <4>2
    <3> QED BY <3>2, <3>3, <3>4, <3>5 DEF ChannelMoves, Gone
  <2> QED BY <2>1, <2>2 DEF NumbersInv
<1>11. PartInv'
  <2> SUFFICES ASSUME NEW s \in Side, NEW i \in Id \ Again',
                      (\E m \in On(s)' : Parts(m, i)) \/ state'[s][i] = "sendonly"
               PROVE  state'[Peer(s)][i] \in Gone
    BY DEF PartInv, Parts
  <2>1. i \in Id \ Again
    BY <1>7
  <2>2. ASSUME NEW m \in On(s)', Parts(m, i) PROVE state'[Peer(s)][i] \in Gone
    <3>1. CASE m \in On(s)
      BY <1>1, <1>2, <1>6, <2>1, <2>2, <3>1 DEF Agreement, PartInv
    <3>2. CASE NewMessage(s, m)
      BY <2>2, <3>2 DEF NewMessage
    <3> QED BY <1>3, <3>1, <3>2
  <2>3. CASE state'[s][i] = "sendonly"
    <3>1. ChannelMoves(s, i)
      BY DEF Orderly
    <3>2. state[s][i] = "sendonly" \/ \E m \in On(s) : Parts(m, i)
      BY <2>3, <3>1 DEF ChannelMoves, Closed
    <3> QED BY <1>1, <1>2, <1>6, <2>1, <3>2 DEF Agreement, PartInv
  <2> QED BY <2>2, <2>3
<1>12. TellInv'
  <2> SUFFICES ASSUME NEW s \in Side, NEW i \in Id \ Again',
                      state'[Peer(s)][i] \in Closed, Opens(s, i)'
               PROVE  Promise(s, i)'
    BY DEF TellInv
  <2> DEFINE p == Peer(s)
  <2>1. i \in Id \ Again /\ p \in Side /\ Peer(p) = s
    BY <1>6, <1>7
  <2>2. wire' \in [Side -> Seq(Message)]
    BY DEF IInv, Typing
  <2>3. state'[s][i] \notin Gone
    BY DEF Opens, Gone
  <2>4. CASE state[p][i] \notin Closed
    <3>1. ChannelMoves(p, i)
      BY <2>1 DEF Orderly
    <3>2. CASE \E m \in Message : Parts(m, i) /\ wire'[s] = Append(wire[s], m)
      BY <2>2, <3>2, PromiseMade
    <3>3. CASE state[p][i] \in Gone \/ \E m \in On(p) : Parts(m, i)
      <4>1. state[p][i] = "sendonly" \/ \E m \in On(p) : Parts(m, i)
        BY <2>4, <3>3 DEF Gone, Closed
      <4>2. state[s][i] \in Gone
        BY <1>1, <2>1, <4>1 DEF Agreement, PartInv
      <4> QED BY <1>2, <2>1, <2>3, <4>2
    <3> QED BY <2>1, <2>4, <3>1, <3>2, <3>3 DEF ChannelMoves, Closed
  <2>5. CASE state[p][i] \in Closed
    <3>1. \A m \in Message : NewMessage(s, m) => ~LoadsThen(s, m, i)
      BY <2>5 DEF NewMessage
    <3>2. Opens(s, i)
      <4>1. ASSUME state[s][i] # "opened", state'[s][i] = "opened" PROVE Opens(s, i)
        <5>1. ChannelMoves(s, i)
          BY DEF Orderly
        <5>2. i \notin again'[s]
          BY <1>7
        <5>3. CASE state[s][i] = "new" /\ i = count[s]
          <6>1. i \in Numbers(s) /\ i >= count[s]
            BY <1>1, <5>3, NumbersFacts DEF Agreement, NumbersInv, Id
          <6>2. state[p][i] = "new"
            BY <1>1, <2>1, <6>1 DEF Agreement, NumbersInv
          <6> QED BY <2>5, <6>2 DEF Closed
        <5>4. CASE state[s][i] = "new" /\ \E m \in On(s) : Loads(s, m, i)
          BY <5>4 DEF Opens
        <5> QED BY <4>1, <5>1, <5>2, <5>3, <5>4 DEF ChannelMoves, Gone, Closed
      <4>2. CASE state'[s][i] = "new" /\ \E m \in On(s)' : LoadsThen(s, m, i)
        <5>1. state[s][i] = "new"
          BY <1>2, <4>2
        <5>2. PICK m \in On(s)' : LoadsThen(s, m, i)
          BY <4>2
        <5>3. m \in On(s)
          BY <1>3, <3>1, <5>2
        <5> QED BY <1>4, <5>1, <5>2, <5>3 DEF Opens
      <4>3. \/ state'[s][i] = "opened"
            \/ state'[s][i] = "new" /\ \E m \in On(s)' : LoadsThen(s, m, i)
        BY <1>5 DEF Opens
      <4> QED BY <4>1, <4>2, <4>3 DEF Opens
    <3>3. Promise(s, i)
      BY <1>1, <2>1, <2>5, <3>2 DEF Agreement, TellInv
    <3>4. \A m \in Message : wire'[s] = Append(wire[s], m) => ~LoadsThen(s, m, i)
      <4> SUFFICES ASSUME NEW m \in Message, wire'[s] = Append(wire[s], m)
                   PROVE  NewMessage(s, m)
        BY <3>1
      <4> DEFINE q == wire[s]
      <4>1. q \in Seq(Message)
        BY DEF IInv, Typing
      <4>2. Len(Append(q, m)) = Len(q) + 1 /\ Len(q) \in Nat /\ Append(q, m)[Len(q) + 1] = m
        BY <4>1, AppendFacts
      <4>3. q # <<>> => Len(Tail(q)) = Len(q) - 1
        BY <4>1, TailFacts
      <4>4. \A x \in Message : Append(q, x) = Append(q, m) => x = m
        <5> TAKE x \in Message
        <5>1. Append(q, x)[Len(q) + 1] = x
          BY <4>1, AppendFacts
        <5> QED BY <4>2, <5>1
      <4>5. WireMoves(s)
        BY DEF Orderly
      <4>6. wire'[s] # q /\ (q # <<>> => wire'[s] # Tail(q))
        BY <4>2, <4>3
      <4> QED BY <4>4, <4>5, <4>6 DEF WireMoves
    <3>5. CASE state'[s][i] # "opened" /\ \A m \in On(s)' : ~LoadsThen(s, m, i)
      BY <1>5, <3>5 DEF Opens
    <3> QED BY <2>2, <3>3, <3>4, <3>5, PromiseKept
  <2> QED BY <2>4, <2>5
<1> QED BY <1>8, <1>9, <1>10, <1>11, <1>12 DEF Agreement

-----------------------------------------------------------------------------
(* The steps are orderly.                                                  *)

LEMMA Posted ==
  ASSUME Typing, Connected, NEW s \in Side, NEW m \in Message, Send(s, m)
  PROVE  wire'[Peer(s)] = Append(wire[Peer(s)], m) /\ wire'[s] = wire[s]
<1>1. \A t \in Side :
        \/ wire'[t] = wire[t] /\ (t = Peer(s) => finished[t])
        \/ t = Peer(s) /\ wire'[t] = Append(wire[t], m)
  BY SendFacts
<1> QED BY <1>1, PeerFacts DEF Connected

LEMMA Taken ==
  ASSUME Typing, NEW s \in Side, wire[s] # <<>>, wire' = Consumed(s)
  PROVE  /\ wire'[s] = Tail(wire[s]) /\ wire'[Peer(s)] = wire[Peer(s)]
         /\ Head(wire[s]) \in On(s) /\ Head(wire[s]) \in Message
  BY ConsumedFacts, PeerFacts

LEMMA Unsent ==
  UNCHANGED sent =>
    \A s \in Side : \A i \in Id : \A n \in DOMAIN sent[s][i] :
      n \in DOMAIN sent'[s][i] /\ sent'[s][i][n] = sent[s][i][n]
  OBVIOUS

\* A step that only sends, or does not concern the peer at all.
LEMMA OrderlySend ==
  ASSUME IInv, Connected, NEW s \in Side, UNCHANGED <<state, count, sent, again>>,
         UNCHANGED wire \/ \E m \in Message : Send(s, m) /\ NewMessage(Peer(s), m)
  PROVE  Orderly
<1>1. WireMoves(s) /\ WireMoves(Peer(s))
  <2>1. CASE UNCHANGED wire
    BY <2>1 DEF WireMoves
  <2>2. ASSUME NEW m \in Message, Send(s, m), NewMessage(Peer(s), m)
        PROVE  WireMoves(s) /\ WireMoves(Peer(s))
    BY <2>2, Posted DEF WireMoves, IInv
  <2> QED BY <2>1, <2>2
<1> QED BY <1>1, PeerFacts, Unsent DEF Orderly, ChannelMoves

LEMMA ReconfigureOrderly ==
  ASSUME IInv, Connected, Early = FALSE, NEW s \in Side, NEW i \in Id, Reconfigure(s, i)
  PROVE  Orderly
<1> DEFINE m == Msg("reconfigure", i, 0)
<1>1. /\ i \in held[s] /\ state[Peer(s)][i] # "new" /\ Send(s, m)
      /\ UNCHANGED <<state, count, sent, again>>
  BY DEF Reconfigure, Quiet
<1>2. m \in Message /\ m.code = "reconfigure" /\ m.id = i
  BY MsgFacts, ProtocolAssumption DEF Code, Item
<1>3. state[s][i] # "new"
  BY <1>1 DEF IInv, HeldInv, Live
<1> HIDE DEF m
<1>4. NewMessage(Peer(s), m)
  BY <1>1, <1>2, <1>3, PeerFacts DEF NewMessage, LoadsThen, Parts
<1> QED BY <1>1, <1>2, <1>4, OrderlySend

LEMMA ExitOrderly ==
  ASSUME IInv, Connected, NEW s \in Side, Exit(s)
  PROVE  Orderly
<1> DEFINE m == Msg("terminate", 1, 0)
<1>1. Send(s, m) /\ UNCHANGED <<state, count, sent, again>>
  BY DEF Exit, Quiet
<1>2. m \in Message /\ m.code = "terminate"
  BY MsgFacts, ProtocolAssumption DEF Code, Item, Id
<1> HIDE DEF m
<1>3. NewMessage(Peer(s), m)
  BY <1>1, <1>2 DEF NewMessage, LoadsThen, Parts
<1> QED BY <1>1, <1>2, <1>3, OrderlySend

LEMMA SendItemOrderly ==
  ASSUME IInv, Connected, NEW s \in Side, NEW i \in Id, NEW r \in Id \cup {Plain}, SendItem(s, i, r)
  PROVE  Orderly
<1> DEFINE q == sent[s][i]
           n == Len(q) + 1
           m == Msg("data", i, n)
           p == Peer(s)
<1>1. /\ i \in held[s] /\ Len(q) < MaxItems /\ Send(s, m)
      /\ r # Plain => r \in held[s] /\ (state[s][r] # "opened" => r \in again'[s])
      /\ UNCHANGED <<count, state>>
      /\ \A t \in Side : again[t] \subseteq again'[t]
  BY DEF SendItem, IInv, Typing
<1>2. q \in Seq(Id \cup {Plain}) /\ Len(q) \in Nat
  BY DEF IInv, Typing, Table
<1>3. n \in Item /\ n # EndMarker
  BY <1>1, <1>2, ProtocolAssumption DEF Item, EndMarker
<1>4. m \in Message /\ m.code = "data" /\ m.id = i /\ m.n = n
  BY <1>3, MsgFacts DEF Code
<1>5. /\ \A k \in DOMAIN q : k \in DOMAIN Append(q, r) /\ Append(q, r)[k] = q[k]
      /\ Append(q, r)[n] = r
  BY <1>2, AppendFacts
<1>6. \A t \in Side : \A j \in Id :
        sent'[t][j] = IF t = s /\ j = i THEN Append(q, r) ELSE sent[t][j]
  BY DEF SendItem, Set, IInv, Typing, Table
<1> HIDE DEF m, n, q
<1>7. \A t \in Side : \A j \in Id : \A k \in DOMAIN sent[t][j] :
        k \in DOMAIN sent'[t][j] /\ sent'[t][j][k] = sent[t][j][k]
  BY <1>5, <1>6 DEF q
<1>8. p \in Side /\ Peer(p) = s /\ \A t \in Side : t = s \/ t = p
  BY PeerFacts
<1> HIDE DEF p
<1>9. \A j \in Id : LoadsThen(p, m, j) => j = r
  BY <1>3, <1>4, <1>5, <1>6, <1>8 DEF LoadsThen
<1>10. \A j \in Id : j \in held[s] => state[s][j] # "new"
  BY DEF IInv, HeldInv, Live
<1>11. Plain \notin Id
  BY DEF Plain, Id
<1>12. \A j \in Id : LoadsThen(p, m, j) =>
         state[s][j] # "new" /\ (state[s][j] \notin Closed \/ j \in Again')
  <2> SUFFICES ASSUME NEW j \in Id, LoadsThen(p, m, j)
               PROVE  state[s][j] # "new" /\ (state[s][j] \notin Closed \/ j \in Again')
    OBVIOUS
  <2>1. j = r /\ r # Plain
    BY <1>9, <1>11
  <2>2. again'[s] \subseteq Again'
    BY DEF Again, Side
  <2> QED BY <1>1, <1>10, <2>1, <2>2 DEF Closed
<1>13. NewMessage(p, m)
  BY <1>1, <1>4, <1>8, <1>10, <1>12 DEF NewMessage, Parts
<1>14. WireMoves(s) /\ WireMoves(p)
  BY <1>1, <1>4, <1>13, Posted DEF p, WireMoves, IInv
<1> QED BY <1>1, <1>7, <1>8, <1>14 DEF Orderly, ChannelMoves

LEMMA TakeNumberOrderly ==
  ASSUME AInv, Connected, NEW s \in Side, NewChannel(s) \/ RemoteExec(s)
  PROVE  Orderly
<1> DEFINE i == count[s]
           m == Msg("exec", i, 0)
           p == Peer(s)
<1>1. /\ i \in Id /\ UNCHANGED <<sent, again>>
      /\ count' = [count EXCEPT ![s] = i + 2]
      /\ state' = Set(state, s, i, "opened")
  BY DEF NewChannel, RemoteExec, TakeNumber, NextCount
<1>2. p \in Side /\ p # s /\ Peer(p) = s /\ \A t \in Side : t = s \/ t = p
  BY PeerFacts
<1>3. \A t \in Side : count'[t] = IF t = s THEN i + 2 ELSE count[t]
  BY <1>1 DEF AInv, IInv, Typing
<1>4. \A t \in Side : \A j \in Id : state'[t][j] = IF t = s /\ j = i THEN "opened" ELSE state[t][j]
  BY <1>1 DEF Set, AInv, IInv, Typing, Table
<1>5. \A t \in Side : state[t][i] = "new"
  BY <1>1, NumbersFacts DEF AInv, Agreement, NumbersInv, Id
<1>6. m \in Message /\ m.code = "exec" /\ m.id = i
  BY <1>1, MsgFacts, ProtocolAssumption DEF Code, Item
<1> HIDE DEF m, p, i
<1>7. NewMessage(p, m)
  BY <1>1, <1>2, <1>4, <1>5, <1>6 DEF NewMessage, LoadsThen, Parts, Closed
<1>8. UNCHANGED wire \/ Send(s, m)
  BY DEF NewChannel, RemoteExec, m, i
<1>9. WireMoves(s) /\ WireMoves(p)
  BY <1>6, <1>7, <1>8, Posted DEF WireMoves, p, AInv, IInv
<1>10. \A t \in Side : \A j \in Id : ChannelMoves(t, j)
  <2> SUFFICES ASSUME NEW t \in Side, NEW j \in Id PROVE ChannelMoves(t, j)
    OBVIOUS
  <2>1. CASE t = s /\ j = i
    BY <1>3, <1>4, <1>5, <2>1 DEF ChannelMoves, i
  <2>2. CASE ~(t = s /\ j = i)
    BY <1>4, <2>2 DEF ChannelMoves
  <2> QED BY <2>1, <2>2
<1>11. \A t \in Side : count'[t] = count[t] \/ (count'[t] = count[t] + 2 /\ count[t] \in Id)
  BY <1>1, <1>3 DEF i
<1>12. \A t \in Side : again[t] \subseteq again'[t]
  BY <1>1
<1> QED BY <1>1, <1>2, <1>9, <1>10, <1>11, <1>12, Unsent DEF Orderly

\* close() and the dropping of a channel: the peer hears of it unless it knows.
LEMMA GoOrderly ==
  ASSUME IInv, Connected, NEW s \in Side, NEW i \in Id, NEW to \in Closed,
         NEW c \in {"close", "last"},
         state' = Set(state, s, i, to),
         \/ state[s][i] = "opened" /\ Send(s, Msg(c, i, 0))
         \/ state[s][i] \in Gone /\ UNCHANGED wire,
         UNCHANGED <<count, sent, again>>
  PROVE  Orderly
<1> DEFINE m == Msg(c, i, 0)
           p == Peer(s)
<1>1. p \in Side /\ p # s /\ Peer(p) = s /\ \A t \in Side : t = s \/ t = p
  BY PeerFacts
<1>2. \A t \in Side : \A j \in Id : state'[t][j] = IF t = s /\ j = i THEN to ELSE state[t][j]
  BY DEF Set, IInv, Typing, Table
<1>3. m \in Message /\ m.code = c /\ m.id = i
  BY MsgFacts, ProtocolAssumption DEF Code, Item
<1> HIDE DEF m, p
<1>4. NewMessage(p, m)
  BY <1>1, <1>2, <1>3 DEF NewMessage, LoadsThen, Parts, Closed, Gone
<1>5. \/ state[s][i] = "opened" /\ wire'[p] = Append(wire[p], m) /\ wire'[s] = wire[s]
      \/ state[s][i] \in Gone /\ UNCHANGED wire
  BY <1>3, Posted DEF p, m, IInv
<1>6. WireMoves(s) /\ WireMoves(p)
  BY <1>3, <1>4, <1>5 DEF WireMoves
<1>7. \A t \in Side : \A j \in Id : ChannelMoves(t, j)
  <2> SUFFICES ASSUME NEW t \in Side, NEW j \in Id PROVE ChannelMoves(t, j)
    OBVIOUS
  <2>1. CASE t = s /\ j = i
    BY <1>2, <1>3, <1>5, <2>1 DEF ChannelMoves, Parts, p
  <2>2. CASE ~(t = s /\ j = i)
    BY <1>2, <2>2 DEF ChannelMoves
  <2> QED BY <2>1, <2>2
<1>8. \A t \in Side : again[t] \subseteq again'[t] /\ count'[t] = count[t]
  OBVIOUS
<1> QED BY <1>1, <1>6, <1>7, <1>8, Unsent DEF Orderly

LEMMA CloseOrderly ==
  ASSUME IInv, Connected, NEW s \in Side, NEW i \in Id, Close(s, i)
  PROVE  Orderly
<1>1. state' = Set(state, s, i, "closed") /\ UNCHANGED <<count, sent, again>>
  BY DEF Close, Ends
<1>2. \/ state[s][i] = "opened" /\ Send(s, Msg("close", i, 0))
      \/ state[s][i] \in Gone /\ UNCHANGED wire
  BY DEF Close, Gone
<1>3. "closed" \in Closed
  BY DEF Closed
<1> QED BY <1>1, <1>2, <1>3, GoOrderly

LEMMA DropOrderly ==
  ASSUME IInv, Connected, NEW s \in Side, NEW i \in Id, Drop(s, i)
  PROVE  Orderly
<1>1. state' = Set(state, s, i, "deleted") /\ UNCHANGED <<count, sent, again>>
  BY DEF Drop
<1>2. state[s][i] \in {"opened"} \cup Gone
  BY DEF Drop, IInv, HeldInv, Live, Gone
<1>3. \/ state[s][i] = "opened" /\ Send(s, Msg(Farewell(s, i), i, 0))
      \/ state[s][i] \in Gone /\ UNCHANGED wire
  BY <1>2 DEF Drop, Gone
<1>4. Farewell(s, i) \in {"close", "last"} /\ "deleted" \in Closed
  BY DEF Farewell, Closed
<1> QED BY <1>1, <1>3, <1>4, GoOrderly

\* A message that loads channels.
LEMMA LoadOrderly ==
  ASSUME IInv, NEW s \in Side, wire[s] # <<>>, wire' = Consumed(s),
         NEW R \in SUBSET Id, NEW q \in Table(Seq(Item)), Load(s, R, q),
         \A i \in R : Loads(s, Head(wire[s]), i),
         Head(wire[s]).code \in {"exec", "data"}, UNCHANGED <<count, sent>>
  PROVE  Orderly
<1>1. Loaded(s, R, q) /\ again' \in [Side -> SUBSET Id]
  BY LoadFacts DEF IInv
<1>2. /\ wire'[s] = Tail(wire[s]) /\ wire'[Peer(s)] = wire[Peer(s)]
      /\ Head(wire[s]) \in On(s)
  BY Taken DEF IInv
<1>3. WireMoves(s) /\ WireMoves(Peer(s))
  BY <1>2 DEF WireMoves, Parts
<1>4. \A t \in Side : \A i \in Id : ChannelMoves(t, i)
  BY <1>1, <1>2 DEF Loaded, ChannelMoves
<1>5. \A t \in Side : again[t] \subseteq again'[t]
  BY DEF Load, IInv, Typing
<1> QED BY <1>3, <1>4, <1>5, PeerFacts, Unsent DEF Orderly

LEMMA HandleExecOrderly ==
  ASSUME IInv, NEW s \in Side, HandleExec(s)
  PROVE  Orderly
<1> DEFINE i == Head(wire[s]).id
<1>1. /\ wire[s] # <<>> /\ wire' = Consumed(s) /\ Load(s, {i}, queue)
      /\ Head(wire[s]).code = "exec" /\ UNCHANGED <<count, sent>>
  BY DEF HandleExec, Arrives
<1>2. i \in Id
  BY <1>1, Taken, MsgFacts DEF IInv
<1>3. queue \in Table(Seq(Item)) /\ {i} \in SUBSET Id
  BY <1>2 DEF IInv, Typing
<1>4. \A j \in {i} : Loads(s, Head(wire[s]), j)
  BY <1>1 DEF Loads
<1> HIDE DEF i
<1> QED BY <1>1, <1>3, <1>4, LoadOrderly

LEMMA DataOrderly ==
  ASSUME IInv, NEW s \in Side, DataToCallback(s) \/ DataToQueue(s)
  PROVE  Orderly
<1> DEFINE i == Head(wire[s]).id
           n == Head(wire[s]).n
           R == Carries(s, i, <<n>>)
           v == Append(queue[s][i], n)
           q == Set(queue, s, i, v)
<1>1. /\ Arrives(s, "data") /\ wire' = Consumed(s) /\ (Load(s, R, queue) \/ Load(s, R, q))
      /\ UNCHANGED <<count, sent>>
  BY DEF DataToCallback, DataToQueue
<1>2. wire[s] # <<>> /\ Head(wire[s]).code = "data"
  BY <1>1 DEF Arrives
<1>3. i \in Id /\ n \in Item /\ R = {Carried(s, i, n)} \ {Plain} /\ R \in SUBSET Id
  BY <1>1, ItemFacts
<1>4. \A j \in R : Loads(s, Head(wire[s]), j)
  BY <1>2, <1>3 DEF Loads
<1> HIDE DEF i, n, R
<1>5. queue \in Table(Seq(Item)) /\ queue[s][i] \in Seq(Item)
  BY <1>3 DEF IInv, Typing, Table
<1>6. v \in Seq(Item)
  BY <1>3, <1>5, AppendFacts
<1> HIDE DEF v
<1>7. q \in Table(Seq(Item))
  BY <1>3, <1>5, <1>6, SetFacts
<1> HIDE DEF q
<1> QED BY <1>1, <1>2, <1>3, <1>4, <1>5, <1>7, LoadOrderly

LEMMA DataDroppedOrderly ==
  ASSUME IInv, NEW s \in Side, DataDropped(s)
  PROVE  Orderly
<1>1. /\ wire[s] # <<>> /\ wire' = Consumed(s) /\ Head(wire[s]).code = "data"
      /\ UNCHANGED <<state, count, sent>>
  BY DEF DataDropped, Arrives
<1>2. wire'[s] = Tail(wire[s]) /\ wire'[Peer(s)] = wire[Peer(s)]
  BY <1>1, Taken DEF IInv
<1>3. WireMoves(s) /\ WireMoves(Peer(s))
  BY <1>1, <1>2 DEF WireMoves, Parts
<1>4. \A t \in Side : again[t] \subseteq again'[t]
  BY DEF DataDropped, IInv, Typing
<1> QED BY <1>1, <1>3, <1>4, PeerFacts, Unsent DEF Orderly, ChannelMoves

LEMMA HandleEndOrderly ==
  ASSUME IInv, NEW s \in Side, NEW c \in {"close", "last"}, NEW to \in {"closed", "sendonly"},
         HandleEnd(s, c, to)
  PROVE  Orderly
<1> DEFINE m == Head(wire[s])
           i == m.id
<1>1. /\ wire[s] # <<>> /\ wire' = Consumed(s) /\ m.code = c /\ UNCHANGED <<count, sent, again>>
      /\ \/ state[s][i] = "opened" /\ state' = Set(state, s, i, to)
         \/ state[s][i] # "opened" /\ UNCHANGED state
  BY DEF HandleEnd, Arrives, Ends
<1>2. /\ wire'[s] = Tail(wire[s]) /\ wire'[Peer(s)] = wire[Peer(s)]
      /\ m \in On(s) /\ m \in Message
  BY <1>1, Taken DEF IInv
<1>3. i \in Id
  BY <1>2, MsgFacts
<1> HIDE DEF m, i
<1>4. \/ /\ state[s][i] = "opened"
         /\ \A t \in Side : \A j \in Id :
              state'[t][j] = IF t = s /\ j = i THEN to ELSE state[t][j]
      \/ state[s][i] # "opened" /\ UNCHANGED state
  BY <1>1 DEF Set, IInv, Typing, Table
<1>5. Parts(m, i) /\ \A j : Parts(m, j) => j = i
  BY <1>1 DEF Parts, i
<1>6. WireMoves(s) /\ WireMoves(Peer(s))
  BY <1>1, <1>2, <1>4, <1>5 DEF WireMoves, m
<1>7. \A t \in Side : \A j \in Id : ChannelMoves(t, j)
  BY <1>2, <1>4, <1>5 DEF ChannelMoves, Gone
<1>8. \A t \in Side : again[t] \subseteq again'[t] /\ count'[t] = count[t]
  BY <1>1
<1> QED BY <1>1, <1>6, <1>7, <1>8, PeerFacts, Unsent DEF Orderly

LEMMA HandleReconfigureOrderly ==
  ASSUME AInv, Connected, NEW s \in Side, HandleReconfigure(s)
  PROVE  Orderly
<1> DEFINE i == Head(wire[s]).id
           m == Msg("close", i, 0)
           p == Peer(s)
<1>1. /\ wire[s] # <<>> /\ Head(wire[s]).code = "reconfigure"
      /\ UNCHANGED <<state, count, sent, again>>
      /\ \/ wire' = Consumed(s)
         \/ /\ state[s][i] # "opened"
            /\ wire' = [wire EXCEPT ![s] = Tail(@), ![p] = Append(@, m)]
  BY DEF HandleReconfigure, Arrives, Quiet
<1>2. p \in Side /\ p # s /\ Peer(p) = s /\ \A t \in Side : t = s \/ t = p
  BY PeerFacts
<1>3. wire[s] \in Seq(Message) /\ state \in Table(State)
  BY DEF AInv, IInv, Typing
<1>4. Head(wire[s]) \in Message /\ Head(wire[s]) \in On(s)
  BY <1>1, <1>3, TailFacts DEF On
<1>5. i \in Id /\ state[s][i] # "new" /\ state[s][i] \in State
  BY <1>1, <1>3, <1>4, MsgFacts DEF AInv, Agreement, ReconfigureInv, Table
<1>6. m \in Message /\ m.code = "close" /\ m.id = i
  BY <1>5, MsgFacts, ProtocolAssumption DEF Code, Item
<1> HIDE DEF m, i, p
<1>7. state[s][i] # "opened" => NewMessage(p, m)
  BY <1>1, <1>2, <1>5, <1>6 DEF NewMessage, LoadsThen, Parts, State, Gone
<1>8. /\ wire'[s] = Tail(wire[s])
      /\ \/ wire'[p] = wire[p]
         \/ state[s][i] # "opened" /\ wire'[p] = Append(wire[p], m)
  BY <1>1, <1>2 DEF Consumed, AInv, IInv, Typing
<1>9. WireMoves(s) /\ WireMoves(p)
  BY <1>1, <1>6, <1>7, <1>8 DEF WireMoves, Parts
<1> QED BY <1>1, <1>2, <1>9, Unsent DEF Orderly, ChannelMoves

LEMMA Invariant == ASSUME Early = FALSE PROVE Spec => []AInv
<1>1. Init => AInv
  <2> SUFFICES ASSUME Init PROVE Agreement
    BY InitInv DEF AInv
  <2>1. \A s \in Side : /\ count[s] = StartCount(s) /\ wire[s] = <<>>
                        /\ \A i \in Id : state[s][i] = "new"
    BY DEF Init, ForAll
  <2>2. \A s \in Side : On(s) = {}
    <3>1. Range(<<>>) = {}
      BY DEF Range
    <3> QED BY <2>1, <3>1 DEF On
  <2>3. NumbersInv
    BY <2>1, NumbersFacts DEF NumbersInv
  <2> QED BY <2>1, <2>2, <2>3, PeerFacts
          DEF Agreement, KnownInv, ReconfigureInv, PartInv, TellInv, Closed
<1>2. AInv /\ [Next]_vars /\ IInv' => AInv'
  <2> SUFFICES ASSUME AInv, [Next]_vars, IInv', Connected' PROVE Agreement'
    BY DEF AInv
  <2> USE DEF AInv
  <2>1. ASSUME UNCHANGED vars PROVE Connected /\ Orderly
    BY <2>1, Unsent DEF vars, Connected, Orderly, WireMoves, ChannelMoves
  <2>2. ASSUME NEW s \in Side, Handle(s) \/ Method(s) \/ Die(s) PROVE Connected /\ Orderly
    <3>1. ~Finish(s) /\ ~Die(s)
      BY DEF Connected, Finish, Die, IInv, Typing
    <3>2. Connected
      <4>1. CASE UNCHANGED finished
        BY <4>1 DEF Connected
      <4>2. UNCHANGED finished
        BY <2>2, <3>1 DEF Handle, Method, HandleExec, DataToCallback, DataToQueue, DataDropped,
           HandleEnd, Ends, HandleReconfigure, HandleTerminate, HandleEOF, NewChannel, RemoteExec,
           TakeNumber, Exit, Quiet, SendItem, ReceiveItem, SetCallback, Close, Drop, Reconfigure
      <4> QED BY <4>1, <4>2
    <3>3. CASE Handle(s)
      BY <3>1, <3>2, <3>3, HandleExecOrderly, DataOrderly, DataDroppedOrderly, HandleEndOrderly,
         HandleReconfigureOrderly DEF Handle, HandleTerminate, HandleEOF
    <3>4. ASSUME NEW i \in Id, ReceiveItem(s, i) \/ SetCallback(s, i) PROVE Orderly
      BY <3>2, <3>4, OrderlySend DEF ReceiveItem, SetCallback
    <3>5. CASE Method(s)
      BY <3>2, <3>4, <3>5, TakeNumberOrderly, ExitOrderly, SendItemOrderly, CloseOrderly,
         DropOrderly, ReconfigureOrderly DEF Method
    <3> QED BY <2>2, <3>1, <3>2, <3>3, <3>5
  <2> QED BY <2>1, <2>2, AgreementKept DEF Next
<1> QED BY <1>1, <1>2, Invariance, PTL DEF Spec

\* The two sides never disagree for good, for any number of channels, items, messages and calls,
\* and with channels that are sent over others: as long as users call reconfigure() only on
\* channels that the peer knows.
THEOREM AgreementReached == ASSUME Early = FALSE PROVE Spec => []SidesAgree
<1>1. AInv => SidesAgree
  <2> SUFFICES ASSUME AInv, Connected, \A s \in Side : wire[s] = <<>>,
                      NEW s \in Side, NEW i \in Id \ Again, state[s][i] \in Closed,
                      state[Peer(s)][i] = "opened"
               PROVE  FALSE
    BY DEF SidesAgree, Closed
  <2>1. Peer(s) \in Side /\ Peer(Peer(s)) = s
    BY PeerFacts
  <2>2. Promise(Peer(s), i)
    BY <2>1 DEF AInv, Agreement, TellInv, Opens
  <2> QED BY <2>1, <2>2 DEF Promise
<1> QED BY Invariant, <1>1, PTL

-----------------------------------------------------------------------------
(***************************************************************************)
(* The types of what users have got, and of what the run counts.           *)
(***************************************************************************)

Kinds ==
  /\ calls \in Nat
  /\ got \in Table(Seq(1..MaxItems))
  /\ told \in Table(BOOLEAN)

LEMMA SmallestIsMin ==
  ASSUME NEW S \in SUBSET Nat, S # {}
  PROVE  Min(S) \in S /\ \A k \in S : Min(S) =< k
<1>1. PICK x \in S : \A y \in S : ~(<<y, x>> \in OpToRel(<, Nat))
  BY NatLessThanWellFounded, WFMin
<1>2. \A y \in S : x =< y
  <2> TAKE y \in S
  <2>1. <<y, x>> \in Nat \X Nat /\ <<y, x>>[1] = y /\ <<y, x>>[2] = x
    OBVIOUS
  <2>2. ~(y < x)
    BY <1>1, <2>1 DEF OpToRel
  <2> QED BY <2>2
<1> QED BY <1>2 DEF Min

\* What setcallback() takes out of a queue: items, and all of it when the end is not there.
LEMMA DataFacts ==
  ASSUME NEW q \in Seq(Item)
  PROVE  /\ Data(q) \in Seq(1..MaxItems)
         /\ EndMarker \notin Range(q) => Data(q) = q
<1> DEFINE ends == {k \in DOMAIN q : q[k] = EndMarker}
<1>1. /\ Len(q) \in Nat /\ DOMAIN q = 1..Len(q) /\ \A k \in DOMAIN q : q[k] \in 0..MaxItems
      /\ MaxItems \in Nat
  BY ProtocolAssumption DEF Item
<1>2. CASE ends = {}
  <2>1. Data(q) = q
    BY <1>2 DEF Data
  <2>2. \A k \in DOMAIN q : q[k] \in 1..MaxItems
    BY <1>1, <1>2 DEF EndMarker
  <2> QED BY <1>1, <2>1, <2>2
<1>3. CASE ends # {}
  <2> DEFINE m == Min(ends)
  <2>1. m \in ends /\ \A k \in ends : m =< k
    <3>1. ends \in SUBSET Nat
      BY <1>1
    <3> HIDE DEF ends
    <3> QED BY <1>3, <3>1, SmallestIsMin
  <2>2. Data(q) = SubSeq(q, 1, m - 1)
    BY <1>3 DEF Data
  <2>3. EndMarker \in Range(q)
    BY <1>3 DEF Range
  <2> HIDE DEF m
  <2>4. \A k \in 1..m - 1 : k \in DOMAIN q /\ k \notin ends
    BY <1>1, <2>1
  <2> HIDE DEF ends
  <2>5. m \in Nat \ {0}
    BY <1>1, <2>1 DEF ends
  <2>6. \A k \in 1..m - 1 : q[k] \in 1..MaxItems
    BY <1>1, <2>4 DEF ends, EndMarker
  <2>7. SubSeq(q, 1, m - 1) = [k \in 1..m - 1 |-> q[k]]
    BY <1>1, <2>4, <2>5
  <2>8. [k \in 1..m - 1 |-> q[k]] \in Seq(1..MaxItems)
    BY <2>5, <2>6
  <2> QED BY <2>2, <2>3, <2>7, <2>8
<1> QED BY <1>2, <1>3

LEMMA JoinFacts ==
  ASSUME NEW T, NEW a \in Seq(T), NEW b \in Seq(T)
  PROVE  /\ a \o b \in Seq(T) /\ Len(a \o b) = Len(a) + Len(b)
         /\ \A k \in 1..Len(a) : (a \o b)[k] = a[k]
         /\ \A k \in 1..Len(b) : (a \o b)[Len(a) + k] = b[k]
OBVIOUS

\* A step that adds at most an item to what users have got.
LEMMA KindsKept ==
  ASSUME IInv, Kinds, NEW s \in Side, NEW i \in Id,
         calls' = calls \/ calls' = calls + 1,
         got' = got \/ \E v \in Seq(1..MaxItems) : got' = Set(got, s, i, v),
         told' = told \/ \E b \in BOOLEAN : told' = Set(told, s, i, b)
  PROVE  Kinds'
<1>1. calls' \in Nat
  BY DEF Kinds
<1>2. got' \in Table(Seq(1..MaxItems))
  BY SetFacts DEF Kinds
<1>3. told' \in Table(BOOLEAN)
  BY SetFacts DEF Kinds
<1> QED BY <1>1, <1>2, <1>3 DEF Kinds

\* The handlers of closing messages, and close().
LEMMA EndsKinds ==
  ASSUME IInv, Kinds, NEW s \in Side, NEW i \in Id,
         calls' = calls \/ calls' = calls + 1, got' = got,
         told' = Set(told, s, i, told[s][i] \/ callback[s][i])
  PROVE  Kinds'
<1>1. (told[s][i] \/ callback[s][i]) \in BOOLEAN
  OBVIOUS
<1> QED BY <1>1, KindsKept

LEMMA ReceiveItemKinds ==
  ASSUME IInv, Kinds, NEW s \in Side, NEW i \in Id, ReceiveItem(s, i)
  PROVE  Kinds'
<1> DEFINE n == Head(queue[s][i])
<1>1. calls' = calls + 1 /\ queue[s][i] # <<>>
  BY DEF ReceiveItem, Called
<1>2. n \in Item
  BY <1>1, TailFacts DEF IInv, Typing, Table
<1>3. CASE n = EndMarker
  <2>1. got' = got /\ told' = Set(told, s, i, TRUE)
    BY <1>3 DEF ReceiveItem
  <2> QED BY <1>1, <2>1, KindsKept
<1>4. CASE n # EndMarker
  <2>1. got' = Set(got, s, i, Append(got[s][i], n)) /\ told' = told
    BY <1>4 DEF ReceiveItem
  <2>2. n \in 1..MaxItems /\ got[s][i] \in Seq(1..MaxItems)
    BY <1>2, <1>4, ProtocolAssumption DEF Item, EndMarker, Kinds, Table
  <2> HIDE DEF n
  <2>3. Append(got[s][i], n) \in Seq(1..MaxItems)
    BY <2>2, AppendFacts
  <2> QED BY <1>1, <2>1, <2>3, KindsKept
<1> QED BY <1>3, <1>4

LEMMA SetCallbackKinds ==
  ASSUME IInv, Kinds, NEW s \in Side, NEW i \in Id, SetCallback(s, i)
  PROVE  Kinds'
<1> DEFINE q == Data(queue[s][i])
<1>1. /\ calls' = calls + 1 /\ got' = Set(got, s, i, got[s][i] \o q)
      /\ told' = Set(told, s, i, told[s][i] \/ queue[s][i] # q)
  BY DEF SetCallback, Called
<1>2. q \in Seq(1..MaxItems) /\ got[s][i] \in Seq(1..MaxItems)
  BY DataFacts DEF IInv, Typing, Kinds, Table
<1> HIDE DEF q
<1>3. got[s][i] \o q \in Seq(1..MaxItems) /\ (told[s][i] \/ queue[s][i] # q) \in BOOLEAN
  BY <1>2, JoinFacts
<1> QED BY <1>1, <1>3, KindsKept

LEMMA DataToCallbackKinds ==
  ASSUME IInv, Kinds, NEW s \in Side, DataToCallback(s)
  PROVE  Kinds'
<1> DEFINE i == Head(wire[s]).id
           n == Head(wire[s]).n
<1>1. /\ Arrives(s, "data") /\ wire' = Consumed(s) /\ UNCHANGED <<calls, told>>
      /\ got' = Set(got, s, i, Append(got[s][i], n))
  BY DEF DataToCallback
<1>2. i \in Id /\ n \in Item /\ n \in DOMAIN sent[Peer(s)][i]
  BY <1>1, ItemFacts
<1> HIDE DEF i, n
<1>3. sent[Peer(s)][i] \in Seq(Id \cup {Plain})
  BY <1>2, PeerFacts DEF IInv, Typing, Table
<1>4. n \in 1..MaxItems /\ got[s][i] \in Seq(1..MaxItems)
  BY <1>2, <1>3, ProtocolAssumption DEF Item, Kinds, Table
<1>5. Append(got[s][i], n) \in Seq(1..MaxItems)
  BY <1>4, AppendFacts
<1> QED BY <1>1, <1>2, <1>5, KindsKept

LEMMA FinishKinds ==
  ASSUME Kinds, NEW s \in Side, Finish(s)
  PROVE  Kinds'
  BY DEF Finish, Kinds, Table

LEMMA KindsInvariance == Spec => []Kinds
<1>1. Init => Kinds
  BY DEF Init, ForAll, Kinds, Table
<1>2. IInv /\ Kinds /\ [Next]_vars => Kinds'
  <2> SUFFICES ASSUME IInv, Kinds, [Next]_vars PROVE Kinds'
    OBVIOUS
  <2>1. ASSUME calls' = calls \/ calls' = calls + 1, UNCHANGED <<got, told>> PROVE Kinds'
    BY <2>1 DEF Kinds
  <2>2. CASE UNCHANGED vars
    BY <2>1, <2>2 DEF vars
  <2>3. ASSUME NEW s \in Side, Handle(s) PROVE Kinds'
    <3>1. CASE HandleExec(s) \/ DataToQueue(s) \/ DataDropped(s) \/ HandleReconfigure(s)
      BY <2>1, <3>1 DEF HandleExec, DataToQueue, DataDropped, HandleReconfigure, Quiet
    <3>2. ASSUME NEW c, NEW to, HandleEnd(s, c, to) PROVE Kinds'
      <4>1. wire[s] # <<>> /\ Head(wire[s]).id \in Id
        <5>1. wire[s] # <<>>
          BY <3>2 DEF HandleEnd, Arrives
        <5>2. Head(wire[s]) \in Message
          BY <5>1, TailFacts DEF IInv, Typing
        <5> QED BY <5>1, <5>2, MsgFacts
      <4> DEFINE i == Head(wire[s]).id
      <4>2. /\ calls' = calls /\ got' = got
            /\ told' = Set(told, s, i, told[s][i] \/ callback[s][i])
        BY <3>2 DEF HandleEnd, Ends
      <4> QED BY <4>1, <4>2, EndsKinds
    <3>3. CASE HandleTerminate(s) \/ HandleEOF(s)
      BY <3>3, FinishKinds DEF HandleTerminate, HandleEOF
    <3> QED BY <2>3, <3>1, <3>2, <3>3, DataToCallbackKinds DEF Handle
  <2>4. ASSUME NEW s \in Side, Method(s) PROVE Kinds'
    <3>1. CASE NewChannel(s) \/ RemoteExec(s) \/ Exit(s)
      BY <2>1, <3>1 DEF NewChannel, RemoteExec, TakeNumber, Exit, Quiet, Called
    <3>2. ASSUME NEW i \in Id, Close(s, i) PROVE Kinds'
      BY <3>2, EndsKinds DEF Close, Ends, Called
    <3>3. ASSUME NEW i \in Id, Drop(s, i) \/ Reconfigure(s, i) PROVE Kinds'
      BY <2>1, <3>3 DEF Drop, Reconfigure, Quiet, Called
    <3>4. ASSUME NEW i \in Id, NEW r, SendItem(s, i, r) PROVE Kinds'
      BY <2>1, <3>4 DEF SendItem, Called
    <3> QED BY <2>4, <3>1, <3>2, <3>3, <3>4, ReceiveItemKinds, SetCallbackKinds DEF Method
  <2>5. ASSUME NEW s \in Side, Die(s) PROVE Kinds'
    BY <2>1, <2>5 DEF Die
  <2> QED BY <2>2, <2>3, <2>4, <2>5 DEF Next
<1> QED BY <1>1, <1>2, Invariance, PTL DEF Spec

\* The variables have their types, for any number of channels, items, messages and calls, and
\* user code never has hold of a channel that was dropped.
THEOREM TypeCorrect == Spec => []TypeOK
<1>1. IInv /\ Kinds => TypeOK
  BY DEF IInv, Typing, Table, Item, HeldInv, Live, Kinds, TypeOK
<1> QED BY Invariance, KindsInvariance, <1>1, PTL

-----------------------------------------------------------------------------
(***************************************************************************)
(* No item is lost, and a closing message reaches an open channel only     *)
(* from a side that listens no more.                                       *)
(***************************************************************************)

IsData(m, i) == m.code = "data" /\ m.id = i

\* What s has of channel i.  Nothing arrives before it has an object; without callback
\* there is a queue, with one there is none; while it is open its end is not in the queue.
OwnInv ==
  \A s \in Side : \A i \in Id :
    /\ state[s][i] = "new" => /\ got[s][i] = <<>> /\ queue[s][i] = <<>>
                              /\ ~callback[s][i] /\ items[s][i]
    /\ ~items[s][i] => queue[s][i] = <<>>
    /\ state[s][i] = "opened" => EndMarker \notin In(s, i)
    /\ i \notin Again =>
         /\ callback[s][i] => ~items[s][i]
         /\ state[s][i] = "opened" /\ ~items[s][i] => callback[s][i]

\* The numbers to come are new to both, also when the peer has ended.
UnusedInv ==
  \A s \in Side : ~finished[s] =>
    /\ count[s] \in Numbers(s)
    /\ \A i \in Id \cap Numbers(s) : i >= count[s] =>
         /\ state[s][i] = "new" /\ state[Peer(s)][i] = "new"
         /\ \A m \in On(s) : ~Loads(s, m, i) /\ (m.code # "terminate" => m.id # i)

\* What is never sent after the message m, which ends channel i: an item, the channel itself,
\* and, when the sender has dropped it, reconfigure().
Behind(s, m, x, i) ==
  \/ Loads(s, x, i) \/ IsData(x, i)
  \/ m.code = "last" /\ x.code = "reconfigure" /\ x.id = i

BehindInv ==
  \A s \in Side : ~finished[s] =>
    \A i \in Id \ Again : \A j, k \in DOMAIN wire[s] :
      j < k /\ Parts(wire[s][j], i) => ~Behind(s, wire[s][j], wire[s][k], i)

\* What was said last of a channel that the peer has dropped.
SendonlyInv ==
  \A s \in Side : ~finished[s] =>
    \A i \in Id \ Again : state[s][i] = "sendonly" =>
      \A m \in On(s) : ~(m.code = "reconfigure" /\ m.id = i)

\* Who has ended a channel sends nothing over it, also when its receiver thread has ended.
Dropped(s, i) == (\E m \in On(s) : m.code = "last" /\ m.id = i) \/ state[s][i] = "sendonly"

PartedInv ==
  \A s \in Side : ~finished[s] => \A i \in Id \ Again :
    /\ (\E m \in On(s) : Parts(m, i)) => state[Peer(s)][i] \in Closed
    /\ Dropped(s, i) => state[Peer(s)][i] = "deleted"

\* The items in w are those from a + 1 to b, in their order.
DataAt(w, i) == {k \in DOMAIN w : IsData(w[k], i)}

Stream(w, i, a, b) ==
  /\ {w[k].n : k \in DataAt(w, i)} = a + 1 .. b
  /\ \A j, k \in DataAt(w, i) : j < k => w[j].n < w[k].n

\* s has, or can still get, somebody who takes what comes over channel i.
Hears(s, i) == state[s][i] \in {"new", "opened"} \/ callback[s][i]

\* The items in g and then those in q are the first ones.
Numbered(g, q) ==
  /\ \A k \in 1..Len(g) : g[k] = k
  /\ \A k \in 1..Len(q) : q[k] = Len(g) + k

InOrder(s, i) ==
  /\ Numbered(got[s][i], queue[s][i])
  /\ Len(got[s][i]) + Len(queue[s][i]) =< Len(sent[Peer(s)][i])
  /\ Stream(wire[s], i, Len(got[s][i]) + Len(queue[s][i]), Len(sent[Peer(s)][i]))

LossInv == \A s \in Side : ~finished[s] => \A i \in Id \ Again : Hears(s, i) => InOrder(s, i)

\* The first message that ends a channel is "close" only when the sender listens no more, or
\* the channel is not open at its receiver and will not be.
Deaf(s, i) ==
  \A k \in DOMAIN wire[s] :
    /\ wire[s][k].code = "close" /\ wire[s][k].id = i /\ callback[Peer(s)][i]
    => (\E j \in 1..k - 1 : Parts(wire[s][j], i)) \/ ~Opens(s, i)

DeafInv == \A s \in Side : ~finished[s] => \A i \in Id \ Again : Deaf(s, i)

CInv ==
  /\ AInv /\ Kinds /\ OwnInv /\ UnusedInv /\ BehindInv /\ SendonlyInv /\ PartedInv
  /\ LossInv /\ DeafInv

-----------------------------------------------------------------------------
(* What a step of s does.  x is the message that it takes, if any.         *)

Nothing == [code |-> "nothing", id |-> 0, n |-> 0]

Stays(s, i) ==
  /\ state'[s][i] = state[s][i] /\ queue'[s][i] = queue[s][i] /\ got'[s][i] = got[s][i]
  /\ (items'[s][i] <=> items[s][i]) /\ (callback'[s][i] <=> callback[s][i])

\* An object is made: under a new number, or for a message.
Comes(s, i, x) ==
  /\ state[s][i] # "opened" /\ state'[s][i] = "opened" /\ items'[s][i] /\ queue'[s][i] = <<>>
  /\ callback'[s][i] <=> callback[s][i]
  /\ (i = count[s] /\ count'[s] = i + 2) \/ Loads(s, x, i)
  /\ \/ i \in again'[s]
     \/ state[s][i] = "new" /\ got'[s][i] = got[s][i] /\ ~IsData(x, i)

\* receive().
Reads(s, i) ==
  /\ state'[s][i] = state[s][i] /\ (items'[s][i] <=> items[s][i])
  /\ (callback'[s][i] <=> callback[s][i])
  /\ items[s][i] /\ queue[s][i] # <<>> /\ Head(queue[s][i]) # EndMarker
  /\ queue'[s][i] = Tail(queue[s][i]) /\ got'[s][i] = Append(got[s][i], Head(queue[s][i]))

\* setcallback().
Turns(s, i) ==
  /\ state'[s][i] = state[s][i] /\ state[s][i] # "new" /\ items[s][i] /\ ~items'[s][i]
  /\ queue'[s][i] = <<>> /\ got'[s][i] = got[s][i] \o Data(queue[s][i])
  /\ callback'[s][i] <=> callback[s][i] \/ state[s][i] = "opened"

\* close(), and the end that the peer or the connection puts to it.
Stops(s, i, x) ==
  /\ state[s][i] \in {"opened", "sendonly"} /\ ~callback'[s][i]
  /\ \/ state'[s][i] = "closed"
     \/ state'[s][i] = "sendonly" /\ (finished'[s] \/ (x.code = "last" /\ x.id = i))
  /\ (items'[s][i] <=> items[s][i]) /\ got'[s][i] = got[s][i] /\ queue'[s][i] = WithEnd(s, i)

\* __del__(), after which a callback may be left that is told the end later.
Goes(s, i) ==
  /\ state[s][i] \in Live /\ state'[s][i] = "deleted"
  /\ queue'[s][i] = queue[s][i] /\ got'[s][i] = got[s][i]
  /\ (items'[s][i] <=> items[s][i]) /\ (callback'[s][i] <=> callback[s][i])

Forgets(s, i) ==
  /\ state[s][i] # "opened" /\ state'[s][i] = state[s][i] /\ ~callback'[s][i]
  /\ queue'[s][i] = queue[s][i] /\ got'[s][i] = got[s][i] /\ (items'[s][i] <=> items[s][i])

Calls(s, i, x) ==
  /\ callback[s][i] /\ callback'[s][i] /\ state'[s][i] = state[s][i]
  /\ (items'[s][i] <=> items[s][i]) /\ queue'[s][i] = queue[s][i]
  /\ got'[s][i] = Append(got[s][i], x.n)

Queues(s, i, x) ==
  /\ state[s][i] = "opened" /\ state'[s][i] = "opened" /\ ~callback[s][i] /\ ~callback'[s][i]
  /\ items[s][i] /\ items'[s][i] /\ got'[s][i] = got[s][i]
  /\ x.n # EndMarker /\ queue'[s][i] = Append(queue[s][i], x.n)

Moves(s, i, x) ==
  /\ Parts(x, i) => state'[s][i] # "opened"
  /\ \/ Stays(s, i) /\ (IsData(x, i) => i \in Again \cup again'[s] \/ ~Hears(s, i))
     \/ Comes(s, i, x)
     \/ ~IsData(x, i) /\ (\/ Reads(s, i) \/ Turns(s, i) \/ Stops(s, i, x)
                           \/ Goes(s, i) \/ Forgets(s, i))
     \/ IsData(x, i) /\ (Calls(s, i, x) \/ Queues(s, i, x))

\* What s may say to its peer.
Says(s, m, i) ==
  /\ IF IsData(m, i)
     THEN /\ state[s][i] \in {"opened", "sendonly"}
          /\ m.n = Len(sent[s][i]) + 1 /\ Len(sent'[s][i]) = Len(sent[s][i]) + 1
     ELSE Len(sent'[s][i]) = Len(sent[s][i])
  /\ i \in Again' \/
       /\ LoadsThen(Peer(s), m, i) => state[s][i] \in {"new", "opened"}
       /\ m.code = "reconfigure" /\ m.id = i => state[s][i] \in Live
       /\ Parts(m, i) => state'[s][i] \in Closed
       /\ m.code = "last" /\ m.id = i => state'[s][i] = "deleted"
       /\ m.code = "close" /\ m.id = i => ~callback'[s][i] \/ state[s][i] \in Closed

\* What s may still say when its receiver thread has ended: nothing that ends a channel, and
\* nothing of one that it has no object for.
Late(s, m) ==
  /\ m.code \in {"data", "reconfigure"}
  /\ \A i \in Id : m.id = i \/ LoadsThen(Peer(s), m, i) => state[s][i] # "new"

Speaks(s) ==
  \/ finished[Peer(s)]
  \/ wire'[Peer(s)] = wire[Peer(s)] /\ sent'[s] = sent[s]
  \/ /\ finished'[s] <=> finished[s]
     /\ \E m \in Message : /\ wire'[Peer(s)] = Append(wire[Peer(s)], m)
                           /\ finished[s] => Late(s, m)
                           /\ \A i \in Id : Says(s, m, i)

Acts(s, x) ==
  /\ \A i \in Id : Moves(s, i, x)
  /\ \/ x = Nothing /\ (wire'[s] = wire[s] \/ finished'[s])
     \/ wire[s] # <<>> /\ x = Head(wire[s]) /\ wire'[s] = Tail(wire[s])
  /\ \A t \in Side : again[t] \subseteq again'[t]
  /\ count'[s] = count[s] \/ (count'[s] = count[s] + 2 /\ count[s] \in Id)
  /\ finished[s] => finished'[s]
  /\ finished[s] => \A i \in Id : callback'[s][i] => callback[s][i]
  /\ finished'[s] => \A i \in Id : state[s][i] = "new" => state'[s][i] = "new"
  /\ finished'[Peer(s)] = finished[Peer(s)] /\ sent'[Peer(s)] = sent[Peer(s)]
  /\ count'[Peer(s)] = count[Peer(s)]
  /\ \A i \in Id : \A n \in DOMAIN sent[s][i] :
       n \in DOMAIN sent'[s][i] /\ sent'[s][i][n] = sent[s][i][n]
  /\ \A i \in Id : Stays(Peer(s), i)
  /\ Speaks(s)

-----------------------------------------------------------------------------
(* Items under way.                                                        *)

\* A message without an item of the channel is sent ...
LEMMA StreamOther ==
  ASSUME NEW w \in Seq(Message), NEW m \in Message, NEW i, NEW a, NEW b,
         Stream(w, i, a, b), ~IsData(m, i)
  PROVE  Stream(Append(w, m), i, a, b)
<1> DEFINE v == Append(w, m)
<1>1. /\ Len(w) \in Nat /\ DOMAIN w = 1..Len(w) /\ DOMAIN v = 1..Len(w) + 1
      /\ \A k \in DOMAIN w : k \in DOMAIN v /\ v[k] = w[k]
      /\ v[Len(w) + 1] = m
  BY AppendFacts
<1> HIDE DEF v
<1>2. DataAt(v, i) = DataAt(w, i)
  BY <1>1 DEF DataAt
<1>3. \A k \in DataAt(w, i) : v[k] = w[k]
  BY <1>1 DEF DataAt
<1>4. {v[k].n : k \in DataAt(v, i)} = {w[k].n : k \in DataAt(w, i)}
  BY <1>2, <1>3
<1>5. \A j, k \in DataAt(v, i) : j < k => v[j].n < v[k].n
  BY <1>2, <1>3 DEF Stream
<1>6. Stream(v, i, a, b)
  BY <1>4, <1>5 DEF Stream
<1> QED BY <1>6 DEF v

\* ... or the next item.
LEMMA StreamMore ==
  ASSUME NEW w \in Seq(Message), NEW m \in Message, NEW i, NEW a \in Nat, NEW b \in Nat,
         Stream(w, i, a, b), IsData(m, i), m.n = b + 1, a =< b
  PROVE  Stream(Append(w, m), i, a, b + 1)
<1> DEFINE v == Append(w, m)
           l == Len(w) + 1
<1>1. /\ Len(w) \in Nat /\ DOMAIN w = 1..Len(w) /\ DOMAIN v = 1..Len(w) + 1
      /\ \A k \in DOMAIN w : k \in DOMAIN v /\ v[k] = w[k]
      /\ v[l] = m /\ l \in DOMAIN v
  BY AppendFacts
<1> HIDE DEF v
<1>2. DataAt(v, i) = DataAt(w, i) \cup {l}
  BY <1>1 DEF DataAt
<1>3. \A k \in DataAt(w, i) : v[k] = w[k] /\ k \in 1..Len(w) /\ k < l
  BY <1>1 DEF DataAt
<1> HIDE DEF l
<1>4. {v[k].n : k \in DataAt(v, i)} = {w[k].n : k \in DataAt(w, i)} \cup {b + 1}
  BY <1>1, <1>2, <1>3
<1>5. a + 1 .. b + 1 = (a + 1 .. b) \cup {b + 1}
  OBVIOUS
<1>6. \A k \in DataAt(w, i) : w[k].n \in a + 1 .. b
  BY DEF Stream
<1>7. ASSUME NEW j \in DataAt(v, i), NEW k \in DataAt(v, i), j < k PROVE v[j].n < v[k].n
  <2>1. j \in DataAt(w, i)
    BY <1>1, <1>2, <1>3, <1>7 DEF l
  <2>2. CASE k \in DataAt(w, i)
    BY <1>3, <1>7, <2>1, <2>2 DEF Stream
  <2>3. CASE k = l
    BY <1>1, <1>3, <1>6, <2>1, <2>3
  <2> QED BY <1>2, <2>2, <2>3
<1>8. Stream(v, i, a, b + 1)
  BY <1>4, <1>5, <1>7 DEF Stream
<1> QED BY <1>8 DEF v

\* A message without an item of the channel is taken ...
LEMMA StreamSkipped ==
  ASSUME NEW w \in Seq(Message), w # <<>>, NEW i, NEW a, NEW b,
         Stream(w, i, a, b), ~IsData(Head(w), i)
  PROVE  Stream(Tail(w), i, a, b)
<1> DEFINE v == Tail(w)
<1>1. /\ Len(w) \in Nat /\ DOMAIN w = 1..Len(w) /\ DOMAIN v = 1..Len(w) - 1 /\ Head(w) = w[1]
      /\ \A k \in DOMAIN v : k + 1 \in DOMAIN w /\ v[k] = w[k + 1]
  BY TailFacts
<1> HIDE DEF v
<1>2. \A k \in DataAt(v, i) : k \in Nat /\ k + 1 \in DataAt(w, i) /\ v[k] = w[k + 1]
  BY <1>1 DEF DataAt
<1>3. ASSUME NEW k \in DataAt(w, i) PROVE k - 1 \in DataAt(v, i) /\ v[k - 1] = w[k]
  <2>1. k \in 1..Len(w) /\ k # 1 /\ IsData(w[k], i)
    BY <1>1 DEF DataAt
  <2>2. k - 1 \in DOMAIN v /\ (k - 1) + 1 = k
    BY <1>1, <2>1
  <2> QED BY <1>1, <2>1, <2>2 DEF DataAt
<1>4. \A k \in DataAt(v, i) : \E l \in DataAt(w, i) : v[k].n = w[l].n
  BY <1>2
<1>5. \A k \in DataAt(w, i) : \E l \in DataAt(v, i) : w[k].n = v[l].n
  BY <1>3
<1>6. {v[k].n : k \in DataAt(v, i)} = {w[k].n : k \in DataAt(w, i)}
  BY <1>4, <1>5
<1>7. ASSUME NEW j \in DataAt(v, i), NEW k \in DataAt(v, i), j < k PROVE v[j].n < v[k].n
  <2>1. j + 1 < k + 1
    BY <1>2, <1>7
  <2> QED BY <1>2, <2>1 DEF Stream
<1>8. Stream(v, i, a, b)
  BY <1>6, <1>7 DEF Stream
<1> QED BY <1>8 DEF v

\* ... or an item, which is the next.
LEMMA StreamTaken ==
  ASSUME NEW w \in Seq(Message), w # <<>>, NEW i, NEW a \in Nat, NEW b \in Nat,
         Stream(w, i, a, b), IsData(Head(w), i)
  PROVE  Head(w).n = a + 1 /\ Stream(Tail(w), i, a + 1, b)
<1> DEFINE v == Tail(w)
<1>1. /\ Len(w) \in Nat /\ DOMAIN w = 1..Len(w) /\ DOMAIN v = 1..Len(w) - 1
      /\ Head(w) = w[1] /\ 1 \in DOMAIN w
      /\ \A k \in DOMAIN v : k + 1 \in DOMAIN w /\ v[k] = w[k + 1]
  BY TailFacts
<1> HIDE DEF v
<1>2. \A k \in DataAt(v, i) :
        k \in Nat \ {0} /\ k + 1 \in DataAt(w, i) /\ k + 1 # 1 /\ v[k] = w[k + 1]
  BY <1>1 DEF DataAt
<1>3. ASSUME NEW k \in DataAt(w, i), k # 1
      PROVE  k - 1 \in DataAt(v, i) /\ v[k - 1] = w[k] /\ 1 < k
  <2>1. k \in 1..Len(w) /\ IsData(w[k], i)
    BY <1>1 DEF DataAt
  <2>2. k - 1 \in DOMAIN v /\ (k - 1) + 1 = k
    BY <1>1, <1>3, <2>1
  <2> QED BY <1>1, <1>3, <2>1, <2>2 DEF DataAt
<1>4. 1 \in DataAt(w, i)
  BY <1>1 DEF DataAt
<1>5. \A k \in DataAt(w, i) : w[k].n \in a + 1 .. b
  BY DEF Stream
<1>6. \A k \in DataAt(w, i) : k # 1 => w[1].n < w[k].n
  BY <1>3, <1>4 DEF Stream
<1>7. w[1].n = a + 1
  <2>1. w[1].n \in a + 1 .. b
    BY <1>4, <1>5
  <2>2. a + 1 \in a + 1 .. b
    BY <2>1
  <2>3. PICK k \in DataAt(w, i) : w[k].n = a + 1
    BY <2>2 DEF Stream
  <2>4. k = 1
    BY <1>6, <2>1, <2>3
  <2> QED BY <2>3, <2>4
<1>8. \A k \in DataAt(v, i) : v[k].n \in a + 2 .. b
  <2> TAKE k \in DataAt(v, i)
  <2>1. k + 1 \in DataAt(w, i) /\ k + 1 # 1 /\ v[k] = w[k + 1]
    BY <1>2 DEF DataAt
  <2>2. v[k].n \in a + 1 .. b /\ a + 1 < v[k].n
    BY <1>5, <1>6, <1>7, <2>1
  <2> QED BY <2>2
<1>9. ASSUME NEW n \in a + 2 .. b PROVE \E k \in DataAt(v, i) : v[k].n = n
  <2>1. n \in a + 1 .. b /\ n # a + 1
    OBVIOUS
  <2>2. PICK k \in DataAt(w, i) : w[k].n = n
    BY <2>1 DEF Stream
  <2>3. k # 1
    BY <1>7, <2>1, <2>2
  <2> QED BY <1>3, <2>2, <2>3
<1>10. {v[k].n : k \in DataAt(v, i)} = (a + 1) + 1 .. b
  <2>1. a + 2 .. b = (a + 1) + 1 .. b
    OBVIOUS
  <2> QED BY <1>8, <1>9, <2>1
<1>11. ASSUME NEW j \in DataAt(v, i), NEW k \in DataAt(v, i), j < k PROVE v[j].n < v[k].n
  <2>1. j + 1 < k + 1
    BY <1>2, <1>11
  <2> QED BY <1>2, <2>1 DEF Stream
<1>12. Stream(v, i, a + 1, b)
  BY <1>10, <1>11 DEF Stream
<1> QED BY <1>1, <1>7, <1>12 DEF v

-----------------------------------------------------------------------------
(* The methods.                                                            *)

LEMMA Spoken ==
  ASSUME Typing, NEW s \in Side, UNCHANGED finished,
         \/ UNCHANGED wire /\ sent'[s] = sent[s]
         \/ \E m \in Message : /\ Send(s, m) /\ \A i \in Id : Says(s, m, i)
                               /\ finished[s] => Late(s, m)
  PROVE  wire'[s] = wire[s] /\ Speaks(s)
<1>1. Peer(s) \in Side /\ Peer(s) # s
  BY PeerFacts
<1>2. CASE UNCHANGED wire /\ sent'[s] = sent[s]
  BY <1>2 DEF Speaks
<1>3. ASSUME NEW m \in Message, Send(s, m), \A i \in Id : Says(s, m, i),
             finished[s] => Late(s, m)
      PROVE  wire'[s] = wire[s] /\ Speaks(s)
  <2>1. /\ wire'[s] = wire[s]
        /\ \/ finished[Peer(s)]
           \/ wire'[Peer(s)] = Append(wire[Peer(s)], m)
    BY <1>1, <1>3, SendFacts
  <2> QED BY <1>3, <2>1 DEF Speaks
<1> QED BY <1>2, <1>3

LEMMA NothingFacts == \A i : ~IsData(Nothing, i) /\ ~Parts(Nothing, i)
  BY DEF Nothing, IsData, Parts

\* What concerns at most the channels of s and the messages to its peer.
Within(s) ==
  /\ \A i \in Id : Stays(Peer(s), i)
  /\ \A t \in Side : again[t] \subseteq again'[t]
  /\ count'[s] = count[s] \/ (count'[s] = count[s] + 2 /\ count[s] \in Id)
  /\ count'[Peer(s)] = count[Peer(s)] /\ sent'[Peer(s)] = sent[Peer(s)]
  /\ finished'[Peer(s)] = finished[Peer(s)] /\ (finished[s] => finished'[s])
  /\ \A i \in Id : \A n \in DOMAIN sent[s][i] :
       n \in DOMAIN sent'[s][i] /\ sent'[s][i][n] = sent[s][i][n]

LEMMA MethodActs ==
  ASSUME IInv, NEW s \in Side, Within(s), UNCHANGED finished,
         \/ UNCHANGED wire /\ sent'[s] = sent[s]
         \/ \E m \in Message : /\ Send(s, m) /\ \A i \in Id : Says(s, m, i)
                               /\ finished[s] => Late(s, m),
         finished[s] => \A i \in Id : /\ callback'[s][i] => callback[s][i]
                                      /\ state[s][i] = "new" => state'[s][i] = "new",
         NEW j \in Id,
         Stays(s, j) \/ Comes(s, j, Nothing) \/ Reads(s, j) \/ Turns(s, j) \/ Stops(s, j, Nothing)
           \/ Goes(s, j),
         \A i \in Id \ {j} : Stays(s, i)
  PROVE  Acts(s, Nothing)
<1>1. wire'[s] = wire[s] /\ Speaks(s)
  BY Spoken DEF IInv
<1>2. \A i \in Id : Moves(s, i, Nothing)
  BY NothingFacts DEF Moves
<1> QED BY <1>1, <1>2 DEF Acts, Within

LEMMA TakeNumberActs ==
  ASSUME CInv, NEW s \in Side, NewChannel(s) \/ RemoteExec(s)
  PROVE  Acts(s, Nothing)
<1> DEFINE i == count[s]
           m == Msg("exec", i, 0)
<1>1. /\ i \in Id /\ ~finished[s]
      /\ UNCHANGED <<items, queue, callback, finished, sent, got, again>>
      /\ count' = [count EXCEPT ![s] = i + 2]
      /\ state' = Set(state, s, i, "opened")
  BY DEF NewChannel, RemoteExec, TakeNumber, NextCount
<1>2. Peer(s) \in Side /\ Peer(s) # s /\ Peer(Peer(s)) = s
  BY PeerFacts
<1>3. \A t \in Side : count'[t] = IF t = s THEN i + 2 ELSE count[t]
  BY <1>1 DEF CInv, AInv, IInv, Typing
<1>4. \A t \in Side : \A j \in Id : state'[t][j] = IF t = s /\ j = i THEN "opened" ELSE state[t][j]
  BY <1>1 DEF Set, CInv, AInv, IInv, Typing, Table
<1>5. state[s][i] = "new"
  <2>1. i \in Numbers(s) /\ i >= i
    BY <1>1 DEF CInv, UnusedInv, Id
  <2> QED BY <1>1, <2>1 DEF CInv, UnusedInv
<1>6. m \in Message /\ m.code = "exec" /\ m.id = i
  BY <1>1, MsgFacts, ProtocolAssumption DEF Code, Item
<1>7. UNCHANGED wire \/ Send(s, m)
  BY DEF NewChannel, RemoteExec
<1>8. items[s][i] /\ queue[s][i] = <<>>
  BY <1>1, <1>5 DEF CInv, OwnInv
<1> HIDE DEF m, i
<1>9. Comes(s, i, Nothing)
  BY <1>1, <1>3, <1>4, <1>5, <1>8, NothingFacts DEF Comes, i
<1>10. \A j \in Id \ {i} : Stays(s, j)
  BY <1>1, <1>4 DEF Stays
<1>11. \A j \in Id : Says(s, m, j)
  BY <1>1, <1>5, <1>6 DEF Says, IsData, LoadsThen, Parts
<1>12. Within(s)
  BY <1>1, <1>2, <1>3, <1>4 DEF Within, Stays, i
<1> QED BY <1>1, <1>6, <1>7, <1>9, <1>10, <1>11, <1>12, MethodActs DEF CInv, AInv

LEMMA SendItemActs ==
  ASSUME CInv, NEW s \in Side, NEW i \in Id, NEW r \in Id \cup {Plain}, SendItem(s, i, r)
  PROVE  Acts(s, Nothing)
<1> DEFINE n == Len(sent[s][i]) + 1
           m == Msg("data", i, n)
           p == Peer(s)
           q == sent[s][i]
<1>1. /\ Len(q) < MaxItems /\ Send(s, m)
      /\ state[s][i] \in {"opened", "sendonly"}
      /\ r # Plain /\ state[s][r] # "opened" => r \in again'[s]
      /\ UNCHANGED <<count, state, items, queue, callback, finished, got>>
      /\ \A t \in Side : again[t] \subseteq again'[t]
  BY DEF SendItem, CInv, AInv, IInv, Typing
<1>2. q \in Seq(Id \cup {Plain}) /\ Len(q) \in Nat
  BY DEF CInv, AInv, IInv, Typing, Table
<1>3. n \in Item /\ n # EndMarker
  BY <1>1, <1>2, ProtocolAssumption DEF Item, EndMarker
<1>4. m \in Message /\ m.code = "data" /\ m.id = i /\ m.n = n
  BY <1>3, MsgFacts DEF Code
<1>5. /\ \A k \in DOMAIN q : k \in DOMAIN Append(q, r) /\ Append(q, r)[k] = q[k]
      /\ Append(q, r)[n] = r /\ Len(Append(q, r)) = n
  BY <1>2, AppendFacts
<1>6. \A t \in Side : \A j \in Id :
        sent'[t][j] = IF t = s /\ j = i THEN Append(q, r) ELSE sent[t][j]
  BY DEF SendItem, Set, CInv, AInv, IInv, Typing, Table
<1>7. sent'[p] = sent[p]
  BY PeerFacts DEF SendItem, Set, CInv, AInv, IInv, Typing, Table
<1> HIDE DEF m, n, q
<1>8. \A j \in Id : \A k \in DOMAIN sent[s][j] :
        k \in DOMAIN sent'[s][j] /\ sent'[s][j][k] = sent[s][j][k]
  BY <1>5, <1>6 DEF q
<1>9. p \in Side /\ Peer(p) = s /\ p # s
  BY PeerFacts
<1> HIDE DEF p
<1>10. \A j \in Id : LoadsThen(p, m, j) => j = r /\ r # Plain
  <2>1. Plain \notin Id
    BY DEF Plain, Id
  <2>2. \A j \in Id : LoadsThen(p, m, j) => j = r
    BY <1>3, <1>4, <1>5, <1>6, <1>9 DEF LoadsThen
  <2> QED BY <2>1, <2>2
<1>11. again'[s] \subseteq Again'
  BY DEF Again, Side
<1>15. Late(s, m)
  <2>1. \A j \in Id : j \in held[s] => state[s][j] # "new"
    BY DEF CInv, AInv, IInv, HeldInv, Live
  <2>2. i \in held[s] /\ (r # Plain => r \in held[s])
    BY DEF SendItem
  <2> QED BY <1>4, <1>10, <2>1, <2>2 DEF Late, p
<1>12. \A j \in Id : Says(s, m, j)
  <2> SUFFICES ASSUME NEW j \in Id PROVE Says(s, m, j)
    OBVIOUS
  <2>1. IF IsData(m, j) THEN /\ state[s][j] \in {"opened", "sendonly"}
                             /\ m.n = Len(sent[s][j]) + 1 /\ Len(sent'[s][j]) = Len(sent[s][j]) + 1
                        ELSE Len(sent'[s][j]) = Len(sent[s][j])
    BY <1>1, <1>4, <1>5, <1>6 DEF IsData, n, q
  <2>2. LoadsThen(p, m, j) => state[s][j] = "opened" \/ j \in Again'
    BY <1>1, <1>10, <1>11
  <2> QED BY <1>4, <2>1, <2>2 DEF Says, Parts, p
<1>13. \A j \in Id : Stays(s, j)
  BY <1>1 DEF Stays
<1>14. Within(s)
  BY <1>1, <1>7, <1>8 DEF Within, Stays, p
<1> QED BY <1>1, <1>4, <1>12, <1>13, <1>14, <1>15, MethodActs DEF CInv, AInv

\* A step that sends at most one message and does nothing else.
LEMMA OnlySends ==
  ASSUME IInv, NEW s \in Side, Quiet,
         NEW m \in Message, Send(s, m), m.code \in {"reconfigure", "terminate"},
         m.code = "terminate" => ~finished[s],
         m.code = "reconfigure" => state[s][m.id] \in Live
  PROVE  Acts(s, Nothing)
<1>1. UNCHANGED <<count, state, items, queue, callback, finished, sent, got, again>>
  BY DEF Quiet
<1>2. Peer(s) \in Side
  BY PeerFacts
<1>3. \A j \in Id : Says(s, m, j)
  BY <1>1 DEF Says, IsData, LoadsThen, Parts
<1>4. \A j \in Id : Stays(s, j)
  BY <1>1 DEF Stays
<1>5. Within(s)
  BY <1>1, <1>2 DEF Within, Stays
<1>6. 1 \in Id
  BY ProtocolAssumption DEF Id
<1>7. finished[s] => Late(s, m)
  BY DEF Late, LoadsThen, Live
<1> QED BY <1>1, <1>3, <1>4, <1>5, <1>6, <1>7, MethodActs

LEMMA ReconfigureActs ==
  ASSUME CInv, NEW s \in Side, NEW i \in Id, Reconfigure(s, i)
  PROVE  Acts(s, Nothing)
<1> DEFINE m == Msg("reconfigure", i, 0)
<1>1. i \in held[s] /\ Send(s, m) /\ Quiet
  BY DEF Reconfigure
<1>2. m \in Message /\ m.code = "reconfigure" /\ m.id = i
  BY MsgFacts, ProtocolAssumption DEF Code, Item
<1>3. state[s][i] \in Live
  BY <1>1 DEF CInv, AInv, IInv, HeldInv
<1> HIDE DEF m
<1> QED BY <1>1, <1>2, <1>3, OnlySends DEF CInv, AInv

LEMMA ExitActs ==
  ASSUME CInv, NEW s \in Side, Exit(s)
  PROVE  Acts(s, Nothing)
<1> DEFINE m == Msg("terminate", 1, 0)
<1>1. Send(s, m) /\ Quiet /\ ~finished[s]
  BY DEF Exit
<1>2. m \in Message /\ m.code = "terminate"
  BY MsgFacts, ProtocolAssumption DEF Code, Item, Id
<1> HIDE DEF m
<1> QED BY <1>1, <1>2, OnlySends DEF CInv, AInv

LEMMA ReceiveItemActs ==
  ASSUME CInv, NEW s \in Side, NEW i \in Id, ReceiveItem(s, i)
  PROVE  Acts(s, Nothing)
<1> DEFINE q == queue[s][i]
           n == Head(q)
<1>1. /\ q # <<>> /\ items[s][i]
      /\ UNCHANGED <<count, state, items, callback, finished, wire, sent, again>>
  BY DEF ReceiveItem
<1>2. Peer(s) \in Side /\ Peer(s) # s
  BY PeerFacts
<1>3. CASE n = EndMarker
  <2>1. UNCHANGED <<queue, got>>
    BY <1>3 DEF ReceiveItem
  <2>2. \A j \in Id : Stays(s, j)
    BY <1>1, <2>1 DEF Stays
  <2>3. Within(s)
    BY <1>1, <1>2, <2>1 DEF Within, Stays
  <2> QED BY <1>1, <2>2, <2>3, MethodActs DEF CInv, AInv
<1>4. CASE n # EndMarker
  <2>1. /\ queue' = Set(queue, s, i, Tail(q))
        /\ got' = Set(got, s, i, Append(got[s][i], n))
    BY <1>4 DEF ReceiveItem
  <2>2. \A t \in Side : \A j \in Id :
          /\ queue'[t][j] = IF t = s /\ j = i THEN Tail(q) ELSE queue[t][j]
          /\ got'[t][j] = IF t = s /\ j = i THEN Append(got[s][i], n) ELSE got[t][j]
    BY <2>1 DEF Set, CInv, AInv, IInv, Typing, Kinds, Table
  <2>3. Reads(s, i)
    BY <1>1, <1>4, <2>2 DEF Reads
  <2> HIDE DEF n, q
  <2>4. \A j \in Id \ {i} : Stays(s, j)
    BY <1>1, <2>2 DEF Stays
  <2>5. Within(s)
    BY <1>1, <1>2, <2>2 DEF Within, Stays
  <2> QED BY <1>1, <2>3, <2>4, <2>5, MethodActs DEF CInv, AInv
<1> QED BY <1>3, <1>4

LEMMA SetCallbackActs ==
  ASSUME CInv, NEW s \in Side, NEW i \in Id, SetCallback(s, i)
  PROVE  Acts(s, Nothing)
<1> DEFINE q == Data(queue[s][i])
<1>1. /\ i \in held[s] /\ items[s][i]
      /\ UNCHANGED <<count, state, finished, wire, sent, again>>
      /\ items' = Set(items, s, i, FALSE)
      /\ got' = Set(got, s, i, got[s][i] \o q)
      /\ queue' = Set(queue, s, i, <<>>)
      /\ callback' = Set(callback, s, i, callback[s][i] \/ state[s][i] = "opened")
  BY DEF SetCallback
<1>2. Peer(s) \in Side /\ Peer(s) # s
  BY PeerFacts
<1> HIDE DEF q
<1>3. \A t \in Side : \A j \in Id :
        /\ queue'[t][j] = IF t = s /\ j = i THEN <<>> ELSE queue[t][j]
        /\ got'[t][j] = IF t = s /\ j = i THEN got[s][i] \o q ELSE got[t][j]
  BY <1>1 DEF Set, CInv, AInv, IInv, Typing, Kinds, Table
<1>4. /\ ~items'[s][i]
      /\ callback'[s][i] <=> callback[s][i] \/ state[s][i] = "opened"
  BY <1>1 DEF Set, CInv, AInv, IInv, Typing, Table
<1>5. \A t \in Side : \A j \in Id :
        (t = s /\ j = i) \/ ((items'[t][j] <=> items[t][j]) /\ (callback'[t][j] <=> callback[t][j]))
  BY <1>1 DEF Set, CInv, AInv, IInv, Typing, Table
<1>6. state[s][i] # "new"
  BY <1>1 DEF CInv, AInv, IInv, HeldInv, Live
<1>7. Turns(s, i)
  BY <1>1, <1>3, <1>4, <1>6 DEF Turns, q
<1>8. \A j \in Id \ {i} : Stays(s, j)
  BY <1>1, <1>3, <1>5 DEF Stays
<1>9. Within(s)
  <2>1. \A j \in Id : /\ queue'[Peer(s)][j] = queue[Peer(s)][j]
                      /\ got'[Peer(s)][j] = got[Peer(s)][j]
    BY <1>2, <1>3
  <2>2. \A j \in Id : /\ items'[Peer(s)][j] <=> items[Peer(s)][j]
                      /\ callback'[Peer(s)][j] <=> callback[Peer(s)][j]
    BY <1>2, <1>5
  <2>3. \A j \in Id : Stays(Peer(s), j)
    BY <1>1, <2>1, <2>2 DEF Stays
  <2> QED BY <1>1, <2>3 DEF Within
<1>10. finished[s] => \A j \in Id : /\ callback'[s][j] => callback[s][j]
                                    /\ state[s][j] = "new" => state'[s][j] = "new"
  BY <1>1, <1>4, <1>5 DEF CInv, AInv, IInv, FinishInv
<1> QED BY <1>1, <1>7, <1>8, <1>9, <1>10, MethodActs DEF CInv, AInv

\* What Ends() does to the channels.
LEMMA EndsStops ==
  ASSUME CInv, NEW s \in Side, NEW i \in Id, NEW to \in {"closed", "sendonly"}, Ends(s, i, to),
         state[s][i] \in {"opened", "sendonly"}, NEW x,
         to = "sendonly" => x.code = "last" /\ x.id = i
  PROVE  /\ Stops(s, i, x) /\ \A j \in Id \ {i} : Stays(s, j)
         /\ Within(s) /\ UNCHANGED <<finished, sent, again>>
         /\ state'[s][i] = to
         /\ \A j \in Id : /\ callback'[s][j] => callback[s][j]
                          /\ state[s][j] = "new" => state'[s][j] = "new"
<1>1. UNCHANGED <<count, items, finished, sent, got, again>>
  BY DEF Ends
<1>2. Peer(s) \in Side /\ Peer(s) # s
  BY PeerFacts
<1>3. \A t \in Side : \A j \in Id :
        /\ state'[t][j] = IF t = s /\ j = i THEN to ELSE state[t][j]
        /\ queue'[t][j] = IF t = s /\ j = i THEN WithEnd(s, i) ELSE queue[t][j]
        /\ callback'[t][j] <=> callback[t][j] /\ ~(t = s /\ j = i)
  BY DEF Ends, Set, CInv, AInv, IInv, Typing, Table
<1>4. Stops(s, i, x)
  BY <1>1, <1>3 DEF Stops
<1>5. \A j \in Id \ {i} : Stays(s, j)
  BY <1>1, <1>3 DEF Stays
<1>6. Within(s)
  BY <1>1, <1>2, <1>3 DEF Within, Stays
<1> QED BY <1>1, <1>3, <1>4, <1>5, <1>6

LEMMA CloseActs ==
  ASSUME CInv, NEW s \in Side, NEW i \in Id, Close(s, i)
  PROVE  Acts(s, Nothing)
<1> DEFINE m == Msg("close", i, 0)
<1>1. /\ Ends(s, i, "closed") /\ state[s][i] \in {"opened", "sendonly"}
      /\ UNCHANGED wire \/ Send(s, m)
  BY DEF Close
<1>2. m \in Message /\ m.code = "close" /\ m.id = i
  BY MsgFacts, ProtocolAssumption DEF Code, Item
<1> HIDE DEF m
<1>3. /\ Stops(s, i, Nothing) /\ \A j \in Id \ {i} : Stays(s, j)
      /\ Within(s) /\ UNCHANGED <<finished, sent, again>>
      /\ state'[s][i] = "closed"
      /\ \A j \in Id : /\ callback'[s][j] => callback[s][j]
                       /\ state[s][j] = "new" => state'[s][j] = "new"
  BY <1>1, EndsStops
<1>4. \A j \in Id : Says(s, m, j)
  BY <1>2, <1>3 DEF Says, IsData, LoadsThen, Parts, Closed, Stops
<1>5. UNCHANGED wire \/ (Send(s, m) /\ ~finished[s])
  BY DEF Close, CInv, AInv, IInv, FinishInv, m
<1> QED BY <1>1, <1>2, <1>3, <1>4, <1>5, MethodActs DEF CInv, AInv

LEMMA DropActs ==
  ASSUME CInv, NEW s \in Side, NEW i \in Id, Drop(s, i)
  PROVE  Acts(s, Nothing)
<1> DEFINE m == Msg(Farewell(s, i), i, 0)
<1>1. /\ i \in held[s] /\ state' = Set(state, s, i, "deleted")
      /\ UNCHANGED wire \/ Send(s, m)
      /\ UNCHANGED <<count, items, queue, callback, finished, sent, got, again>>
  BY DEF Drop
<1>2. Peer(s) \in Side /\ Peer(s) # s
  BY PeerFacts
<1>3. Farewell(s, i) \in {"close", "last"} /\ (Farewell(s, i) = "close" => items[s][i])
  BY DEF Farewell
<1>4. m \in Message /\ m.code = Farewell(s, i) /\ m.id = i
  BY <1>3, MsgFacts, ProtocolAssumption DEF Code, Item
<1>5. \A t \in Side : \A j \in Id :
        state'[t][j] = IF t = s /\ j = i THEN "deleted" ELSE state[t][j]
  BY <1>1 DEF Set, CInv, AInv, IInv, Typing, Table
<1>6. state[s][i] \in Live
  BY <1>1 DEF CInv, AInv, IInv, HeldInv
<1>7. m.code = "close" => ~callback[s][i] \/ i \in Again'
  BY <1>1, <1>3, <1>4 DEF CInv, OwnInv, Again
<1> HIDE DEF m
<1>8. Goes(s, i) /\ \A j \in Id \ {i} : Stays(s, j)
  BY <1>1, <1>5, <1>6 DEF Goes, Stays
<1>9. Within(s)
  BY <1>1, <1>2, <1>5 DEF Within, Stays
<1>10. \A j \in Id : Says(s, m, j)
  BY <1>1, <1>3, <1>4, <1>5, <1>7 DEF Says, IsData, LoadsThen, Parts, Closed
<1>11. UNCHANGED wire \/ (Send(s, m) /\ ~finished[s])
  BY DEF Drop, CInv, AInv, IInv, FinishInv, m
<1>12. \A j \in Id : state[s][j] = "new" => state'[s][j] = "new"
  BY <1>8 DEF Goes, Stays, Live
<1> QED BY <1>1, <1>4, <1>8, <1>9, <1>10, <1>11, <1>12, MethodActs DEF CInv, AInv

-----------------------------------------------------------------------------
(* The handlers, and the ends of a gateway.                                *)

LEMMA HandlerActs ==
  ASSUME IInv, NEW s \in Side, ~finished'[s], wire[s] # <<>>, wire' = Consumed(s),
         UNCHANGED sent, Within(s), \A i \in Id : Moves(s, i, Head(wire[s]))
  PROVE  Acts(s, Head(wire[s]))
<1>1. wire'[s] = Tail(wire[s]) /\ wire'[Peer(s)] = wire[Peer(s)]
  BY Taken DEF IInv
<1> QED BY <1>1 DEF Acts, Speaks, Within

\* The channels of s when a message loads those in R; j gets an item, if any does.
Takes(s, R, q, j) ==
  /\ \A i \in R : Loads(s, Head(wire[s]), i)
  /\ \A i \in Id : ~Parts(Head(wire[s]), i) /\ (IsData(Head(wire[s]), i) => i = j)
  /\ \A t \in Side : \A i \in Id :
       \/ t = s /\ i = j
       \/ q[t][i] = queue[t][i] /\ got'[t][i] = got[t][i]
  /\ j \in Id =>
       /\ IsData(Head(wire[s]), j) /\ state[s][j] # "new"
       /\ \/ Calls(s, j, Head(wire[s])) \/ Queues(s, j, Head(wire[s]))
          \/ state[s][j] # "opened" /\ j \in R

LEMMA LoadActs ==
  ASSUME IInv, NEW s \in Side, wire[s] # <<>>, wire' = Consumed(s), ~finished[s],
         NEW R \in SUBSET Id, NEW q \in Table(Seq(Item)), Load(s, R, q),
         UNCHANGED <<count, callback, finished, sent>>,
         NEW j, Takes(s, R, q, j)
  PROVE  Acts(s, Head(wire[s]))
<1> DEFINE x == Head(wire[s])
<1>1. Loaded(s, R, q) /\ again' \in [Side -> SUBSET Id]
  BY LoadFacts DEF IInv
<1>2. Peer(s) \in Side /\ Peer(s) # s
  BY PeerFacts
<1>3. \A t \in Side : again[t] \subseteq again'[t]
  BY DEF Load, IInv, Typing
<1>4. \A i \in Id : Stays(Peer(s), i)
  BY <1>1, <1>2 DEF Loaded, Stays, Takes
<1>5. Within(s)
  BY <1>3, <1>4 DEF Within
<1> HIDE DEF Takes, x
<1>6. ASSUME NEW i \in Id PROVE Moves(s, i, x)
  <2>1. CASE i \in R /\ state[s][i] # "opened"
    <3>1. /\ state'[s][i] = "opened" /\ items'[s][i] /\ queue'[s][i] = <<>>
          /\ state[s][i] # "new" => i \in again'[s]
      BY <1>1, <2>1 DEF Loaded
    <3>2. Loads(s, x, i)
      BY <2>1 DEF Takes, x
    <3>3. i # j => got'[s][i] = got[s][i] /\ ~IsData(x, i)
      BY DEF Takes, x
    <3>4. i = j => i \in again'[s]
      BY <3>1 DEF Takes
    <3>5. Comes(s, i, x)
      BY <2>1, <3>1, <3>2, <3>3, <3>4 DEF Comes
    <3> QED BY <3>5 DEF Moves, Takes, x
  <2>2. CASE ~(i \in R /\ state[s][i] # "opened")
    <3>1. CASE i = j
      BY <2>2, <3>1 DEF Moves, Takes, x
    <3>2. CASE i # j
      <4>1. Stays(s, i) /\ ~IsData(x, i)
        BY <1>1, <2>2, <3>2 DEF Loaded, Stays, Takes, x
      <4> QED BY <4>1 DEF Moves, Takes, x
    <3> QED BY <3>1, <3>2
  <2> QED BY <2>1, <2>2
<1> QED BY <1>5, <1>6, HandlerActs DEF x

LEMMA HandleExecActs ==
  ASSUME IInv, NEW s \in Side, HandleExec(s)
  PROVE  Acts(s, Head(wire[s]))
<1> DEFINE i == Head(wire[s]).id
<1>1. /\ wire[s] # <<>> /\ wire' = Consumed(s) /\ Load(s, {i}, queue) /\ ~finished[s]
      /\ Head(wire[s]).code = "exec" /\ UNCHANGED <<count, callback, finished, sent, got>>
  BY DEF HandleExec, Arrives
<1>2. i \in Id
  BY <1>1, Taken, MsgFacts DEF IInv
<1>3. queue \in Table(Seq(Item)) /\ {i} \in SUBSET Id
  BY <1>2 DEF IInv, Typing
<1>4. \A j \in {i} : Loads(s, Head(wire[s]), j)
  BY <1>1 DEF Loads
<1>5. \A j : ~Parts(Head(wire[s]), j) /\ ~IsData(Head(wire[s]), j)
  BY <1>1 DEF Parts, IsData
<1> HIDE DEF i
<1>6. Takes(s, {i}, queue, 0)
  BY <1>1, <1>4, <1>5 DEF Takes, Id
<1> QED BY <1>1, <1>3, <1>6, LoadActs

LEMMA DataToCallbackActs ==
  ASSUME CInv, NEW s \in Side, DataToCallback(s)
  PROVE  Acts(s, Head(wire[s]))
<1> DEFINE x == Head(wire[s])
           i == x.id
           n == x.n
           R == Carries(s, i, <<n>>)
<1>1. /\ Arrives(s, "data") /\ wire' = Consumed(s) /\ Load(s, R, queue) /\ callback[s][i]
      /\ got' = Set(got, s, i, Append(got[s][i], n))
      /\ UNCHANGED <<count, callback, finished, sent>>
  BY DEF DataToCallback
<1>2. wire[s] # <<>> /\ x.code = "data" /\ ~finished[s]
  BY <1>1 DEF Arrives
<1>3. i \in Id /\ n \in Item /\ R = {Carried(s, i, n)} \ {Plain} /\ R \in SUBSET Id
  BY <1>1, ItemFacts DEF CInv, AInv
<1>4. \A j \in R : Loads(s, x, j)
  BY <1>2, <1>3 DEF Loads
<1>5. \A t \in Side : \A j \in Id :
        got'[t][j] = IF t = s /\ j = i THEN Append(got[s][i], n) ELSE got[t][j]
  BY <1>1 DEF Set, CInv, Kinds, Table
<1>6. state[s][i] # "new"
  BY <1>1, <1>3 DEF CInv, OwnInv
<1>7. (\A j : ~Parts(x, j)) /\ (\A j : IsData(x, j) <=> j = i)
  BY <1>2 DEF Parts, IsData
<1>8. queue \in Table(Seq(Item)) /\ Loaded(s, R, queue)
  BY <1>1, <1>3, LoadFacts DEF CInv, AInv, IInv, Typing
<1> HIDE DEF R
<1> HIDE DEF x, i, n
<1>9. ASSUME ~(i \in R /\ state[s][i] # "opened") PROVE Calls(s, i, x)
  <2>1. /\ state'[s][i] = state[s][i] /\ (items'[s][i] <=> items[s][i])
        /\ queue'[s][i] = queue[s][i]
    BY <1>3, <1>8, <1>9 DEF Loaded
  <2>2. got'[s][i] = Append(got[s][i], x.n)
    BY <1>3, <1>5 DEF n
  <2> QED BY <1>1, <2>1, <2>2 DEF Calls
<1>10. Takes(s, R, queue, i)
  BY <1>4, <1>5, <1>6, <1>7, <1>9 DEF Takes, x
<1> QED BY <1>1, <1>2, <1>3, <1>8, <1>10, LoadActs DEF CInv, AInv

LEMMA DataToQueueActs ==
  ASSUME CInv, NEW s \in Side, DataToQueue(s)
  PROVE  Acts(s, Head(wire[s]))
<1> DEFINE x == Head(wire[s])
           i == x.id
           n == x.n
           R == Carries(s, i, <<n>>)
           v == Append(queue[s][i], n)
           q == Set(queue, s, i, v)
<1>1. /\ Arrives(s, "data") /\ wire' = Consumed(s) /\ Load(s, R, q)
      /\ ~callback[s][i] /\ state[s][i] = "opened" /\ items[s][i]
      /\ UNCHANGED <<count, callback, finished, sent, got>>
  BY DEF DataToQueue
<1>2. wire[s] # <<>> /\ x.code = "data" /\ ~finished[s]
  BY <1>1 DEF Arrives
<1>3. i \in Id /\ n \in Item /\ R = {Carried(s, i, n)} \ {Plain} /\ R \in SUBSET Id
      /\ n \in DOMAIN sent[Peer(s)][i]
  BY <1>1, ItemFacts DEF CInv, AInv
<1>4. \A j \in R : Loads(s, x, j)
  BY <1>2, <1>3 DEF Loads
<1>5. n # EndMarker
  <2>1. sent[Peer(s)][i] \in Seq(Id \cup {Plain})
    BY <1>3, PeerFacts DEF CInv, AInv, IInv, Typing, Table
  <2> QED BY <1>3, <2>1 DEF EndMarker
<1>6. queue[s][i] \in Seq(Item) /\ queue \in Table(Seq(Item))
  BY <1>3 DEF CInv, AInv, IInv, Typing, Table
<1>7. (\A j : ~Parts(x, j)) /\ (\A j : IsData(x, j) <=> j = i)
  BY <1>2 DEF Parts, IsData
<1> HIDE DEF x, i, n
<1>8. v \in Seq(Item)
  BY <1>3, <1>6, AppendFacts
<1> HIDE DEF v
<1>9. /\ q \in Table(Seq(Item))
      /\ \A t \in Side : \A j \in Id : q[t][j] = IF t = s /\ j = i THEN v ELSE queue[t][j]
  BY <1>3, <1>6, <1>8, SetFacts
<1> HIDE DEF q, R
<1>10. Loaded(s, R, q)
  BY <1>1, <1>3, <1>9, LoadFacts DEF CInv, AInv, IInv
<1>11. Queues(s, i, x)
  <2>1. state'[s][i] = "opened" /\ (items'[s][i] <=> items[s][i]) /\ queue'[s][i] = v
    BY <1>1, <1>3, <1>9, <1>10 DEF Loaded
  <2>2. got'[s][i] = got[s][i] /\ ~callback'[s][i]
    BY <1>1
  <2> QED BY <1>1, <1>5, <2>1, <2>2 DEF Queues, v, n
<1>12. Takes(s, R, q, i)
  BY <1>1, <1>4, <1>7, <1>9, <1>11 DEF Takes, x
<1> QED BY <1>1, <1>2, <1>3, <1>9, <1>12, LoadActs DEF CInv, AInv

LEMMA DataDroppedActs ==
  ASSUME CInv, NEW s \in Side, DataDropped(s)
  PROVE  Acts(s, Head(wire[s]))
<1> DEFINE x == Head(wire[s])
           i == x.id
<1>1. /\ wire[s] # <<>> /\ wire' = Consumed(s) /\ ~finished[s] /\ x.code = "data"
      /\ ~callback[s][i] /\ ~(state[s][i] = "opened" /\ items[s][i])
      /\ UNCHANGED <<count, state, items, queue, callback, finished, sent, got>>
      /\ again' = IF state[s][i] = "new" THEN [again EXCEPT ![s] = @ \cup {i}] ELSE again
  BY DEF DataDropped, Arrives
<1>2. i \in Id /\ Peer(s) \in Side
  BY <1>1, Taken, MsgFacts, PeerFacts DEF CInv, AInv, IInv
<1>3. /\ \A t \in Side : again[t] \subseteq again'[t]
      /\ state[s][i] = "new" => i \in again'[s]
  BY <1>1 DEF CInv, AInv, IInv, Typing
<1>4. Hears(s, i) => i \in again'[s] \/ i \in Again
  BY <1>1, <1>2, <1>3 DEF Hears, CInv, OwnInv
<1>5. \A j \in Id : Stays(s, j) /\ Stays(Peer(s), j)
  BY <1>1 DEF Stays
<1>6. Within(s)
  BY <1>1, <1>2, <1>3, <1>5 DEF Within
<1>7. \A j : ~Parts(x, j) /\ (IsData(x, j) => j = i)
  BY <1>1 DEF Parts, IsData
<1> HIDE DEF x, i
<1>8. \A j \in Id : Moves(s, j, x)
  BY <1>4, <1>5, <1>7 DEF Moves
<1> QED BY <1>1, <1>6, <1>8, HandlerActs DEF x, CInv, AInv

LEMMA HandleEndActs ==
  ASSUME CInv, NEW s \in Side, NEW c \in {"close", "last"}, NEW to \in {"closed", "sendonly"},
         HandleEnd(s, c, to), to = "sendonly" => c = "last"
  PROVE  Acts(s, Head(wire[s]))
<1> DEFINE x == Head(wire[s])
           i == x.id
<1>1. /\ wire[s] # <<>> /\ wire' = Consumed(s) /\ ~finished[s] /\ x.code = c
  BY DEF HandleEnd, Arrives
<1>2. i \in Id /\ Peer(s) \in Side /\ Peer(s) # s
  BY <1>1, Taken, MsgFacts, PeerFacts DEF CInv, AInv, IInv
<1>3. (\A j : Parts(x, j) <=> j = i) /\ (\A j : ~IsData(x, j))
  BY <1>1 DEF Parts, IsData
<1>4. CASE state[s][i] = "opened"
  <2>1. Ends(s, i, to)
    BY <1>4 DEF HandleEnd
  <2>2. to = "sendonly" => x.code = "last" /\ x.id = i
    BY <1>1
  <2>3. to \in {"closed", "sendonly"}
    OBVIOUS
  <2> HIDE DEF x, i
  <2>4. /\ Stops(s, i, x) /\ \A j \in Id \ {i} : Stays(s, j)
        /\ Within(s) /\ UNCHANGED <<finished, sent, again>> /\ state'[s][i] = to
    BY <1>2, <1>4, <2>1, <2>2, <2>3, EndsStops
  <2>5. \A j \in Id : Moves(s, j, x)
    BY <1>3, <2>3, <2>4 DEF Moves
  <2> QED BY <1>1, <2>4, <2>5, HandlerActs DEF x, CInv, AInv
<1>5. CASE state[s][i] # "opened"
  <2>1. /\ callback' = Set(callback, s, i, FALSE)
        /\ UNCHANGED <<count, state, items, queue, finished, sent, got, again>>
    BY <1>5 DEF HandleEnd
  <2>2. \A t \in Side : \A j \in Id : callback'[t][j] <=> callback[t][j] /\ ~(t = s /\ j = i)
    BY <2>1 DEF Set, CInv, AInv, IInv, Typing, Table
  <2> HIDE DEF x, i
  <2>3. \A j \in Id : Stays(Peer(s), j) /\ (j # i => Stays(s, j))
    BY <1>2, <2>1, <2>2 DEF Stays
  <2>4. Forgets(s, i)
    BY <1>2, <1>5, <2>1, <2>2 DEF Forgets
  <2>5. Within(s)
    BY <1>2, <2>1, <2>3 DEF Within
  <2>6. \A j \in Id : Moves(s, j, x)
    BY <1>3, <1>5, <2>1, <2>3, <2>4 DEF Moves
  <2> QED BY <1>1, <2>1, <2>5, <2>6, HandlerActs DEF x, CInv, AInv
<1> QED BY <1>4, <1>5

\* The channel that reconfigure() is for lives, or the close that answers it comes too late.
LEMMA HandleReconfigureActs ==
  ASSUME CInv, NEW s \in Side, HandleReconfigure(s)
  PROVE  Acts(s, Head(wire[s]))
<1> DEFINE x == Head(wire[s])
           i == x.id
           m == Msg("close", i, 0)
           p == Peer(s)
<1>1. /\ wire[s] # <<>> /\ x.code = "reconfigure" /\ ~finished[s]
      /\ UNCHANGED <<count, state, items, queue, callback, finished, sent, got, again>>
      /\ \/ wire' = Consumed(s)
         \/ /\ state[s][i] # "opened" /\ ~finished[p]
            /\ wire' = [wire EXCEPT ![s] = Tail(@), ![p] = Append(@, m)]
  BY DEF HandleReconfigure, Arrives, Quiet
<1>2. p \in Side /\ p # s /\ \A t \in Side : t = s \/ t = p
  BY PeerFacts
<1>3. wire[s] \in Seq(Message) /\ state \in Table(State)
  BY DEF CInv, AInv, IInv, Typing
<1>4. x \in Message /\ x \in On(s)
  BY <1>1, <1>3, TailFacts DEF On
<1>5. i \in Id
  BY <1>4, MsgFacts
<1>6. m \in Message /\ m.code = "close" /\ m.id = i
  BY <1>5, MsgFacts, ProtocolAssumption DEF Code, Item
<1>7. \A j : ~Parts(x, j) /\ ~IsData(x, j)
  BY <1>1 DEF Parts, IsData
<1> HIDE DEF m, x, i, p
<1>8. \A j \in Id : Stays(s, j) /\ Stays(Peer(s), j)
  BY <1>1 DEF Stays
<1>9. Within(s)
  BY <1>1, <1>2, <1>8 DEF Within, p
<1>10. \A j \in Id : Moves(s, j, x)
  BY <1>7, <1>8 DEF Moves
<1>11. CASE wire' = Consumed(s)
  BY <1>1, <1>9, <1>10, <1>11, HandlerActs DEF x, CInv, AInv
<1>12. CASE /\ state[s][i] # "opened" /\ ~finished[p]
            /\ wire' = [wire EXCEPT ![s] = Tail(@), ![p] = Append(@, m)]
  <2>1. wire'[s] = Tail(wire[s]) /\ wire'[p] = Append(wire[p], m)
    BY <1>2, <1>12 DEF CInv, AInv, IInv, Typing
  <2>2. Connected
    BY <1>1, <1>2, <1>12 DEF Connected
  <2>3. i \in Again \/ state[s][i] \in Closed
    <3>1. state[s][i] # "new"
      BY <1>1, <1>4, <2>2 DEF CInv, AInv, Agreement, ReconfigureInv, i
    <3>2. i \in Again \/ state[s][i] # "sendonly"
      BY <1>1, <1>4, <1>5 DEF CInv, SendonlyInv, i
    <3>3. state[s][i] \in State
      BY <1>3, <1>5 DEF Table
    <3> QED BY <1>12, <3>1, <3>2, <3>3 DEF State, Closed
  <2>4. \A j \in Id : Says(s, m, j)
    BY <1>1, <1>6, <2>3 DEF Says, IsData, LoadsThen, Parts, Again
  <2>5. Speaks(s)
    BY <1>1, <1>6, <2>1, <2>4 DEF Speaks, p
  <2> QED BY <1>1, <1>9, <1>10, <2>1, <2>5 DEF Acts, Within, x
<1> QED BY <1>1, <1>11, <1>12

LEMMA FinishActs ==
  ASSUME IInv, Kinds, NEW s \in Side, ~finished[s], Finish(s)
  PROVE  Acts(s, Nothing)
<1>1. /\ UNCHANGED <<count, items, sent, got, again>>
      /\ finished'[s]
      /\ \A t \in Side : t # s => finished'[t] = finished[t] /\ wire'[t] = wire[t]
  BY DEF Finish, IInv, Typing
<1>2. /\ \A i \in Id : state'[s][i] = IF state[s][i] = "opened" THEN "sendonly" ELSE state[s][i]
      /\ \A t \in Side : \A i \in Id : t # s => state'[t][i] = state[t][i]
  BY DEF Finish, IInv, Typing, Table
<1>3. /\ \A i \in Id : queue'[s][i] = IF state[s][i] = "opened" THEN WithEnd(s, i) ELSE queue[s][i]
      /\ \A t \in Side : \A i \in Id : t # s => queue'[t][i] = queue[t][i]
  BY DEF Finish, IInv, Typing, Table
<1>4. /\ \A i \in Id : ~callback'[s][i]
      /\ \A t \in Side : \A i \in Id : t # s => (callback'[t][i] <=> callback[t][i])
  BY DEF Finish, IInv, Typing, Table
<1>5. Peer(s) \in Side /\ Peer(s) # s
  BY PeerFacts
<1>6. \A i \in Id : Stays(Peer(s), i)
  BY <1>1, <1>2, <1>3, <1>4, <1>5 DEF Stays
<1>7. \A i \in Id : Stops(s, i, Nothing) \/ Forgets(s, i)
  BY <1>1, <1>2, <1>3, <1>4 DEF Stops, Forgets
<1>8. \A i \in Id : Moves(s, i, Nothing)
  BY <1>7, NothingFacts DEF Moves
<1>9. \A i \in Id : state[s][i] = "new" => state'[s][i] = "new"
  BY <1>2
<1> QED BY <1>1, <1>4, <1>5, <1>6, <1>8, <1>9 DEF Acts, Speaks

LEMMA DieActs ==
  ASSUME IInv, NEW s \in Side, Die(s)
  PROVE  Acts(s, Nothing)
<1>1. /\ UNCHANGED <<count, state, items, queue, callback, sent, got, again>>
      /\ finished'[s] /\ ~finished[s]
      /\ \A t \in Side : t # s => finished'[t] = finished[t] /\ wire'[t] = wire[t]
  BY DEF Die, IInv, Typing
<1>2. Peer(s) \in Side /\ Peer(s) # s
  BY PeerFacts
<1>3. \A i \in Id : Stays(s, i) /\ Stays(Peer(s), i)
  BY <1>1 DEF Stays
<1>4. \A i \in Id : Moves(s, i, Nothing)
  BY <1>3, NothingFacts DEF Moves
<1> QED BY <1>1, <1>2, <1>3, <1>4 DEF Acts, Speaks

\* Every step is one of s, which takes the message x or none.
LEMMA EveryActs ==
  ASSUME CInv, Next
  PROVE  \E s \in Side : \E x : Acts(s, x)
<1> SUFFICES ASSUME NEW s \in Side, Handle(s) \/ Method(s) \/ Die(s)
             PROVE  Acts(s, Nothing) \/ Acts(s, Head(wire[s]))
  BY DEF Next
<1>1. IInv /\ Kinds
  BY DEF CInv, AInv
<1>2. CASE HandleTerminate(s) \/ HandleEOF(s)
  BY <1>1, <1>2, FinishActs DEF HandleTerminate, HandleEOF, Arrives
<1>3. CASE HandleEnd(s, "close", "closed") \/ HandleEnd(s, "last", "sendonly")
  <2>1. CASE HandleEnd(s, "close", "closed")
    BY <2>1, HandleEndActs
  <2>2. CASE HandleEnd(s, "last", "sendonly")
    BY <2>2, HandleEndActs
  <2> QED BY <1>3, <2>1, <2>2
<1>4. CASE Handle(s)
  BY <1>1, <1>2, <1>3, <1>4, HandleExecActs, DataToCallbackActs, DataToQueueActs, DataDroppedActs,
     HandleReconfigureActs DEF Handle
<1>5. CASE Method(s)
  BY <1>5, TakeNumberActs, ExitActs, SendItemActs, ReceiveItemActs, SetCallbackActs, CloseActs,
     DropActs, ReconfigureActs DEF Method
<1> QED BY <1>1, <1>4, <1>5, DieActs

-----------------------------------------------------------------------------
(* Such a step keeps the invariant.                                        *)

\* What comes from a step in general.
LEMMA ActsFacts ==
  ASSUME CInv, NEW s \in Side, NEW x, Acts(s, x)
  PROVE  /\ Peer(s) \in Side /\ Peer(s) # s /\ Peer(Peer(s)) = s
         /\ \A t \in Side : t = s \/ t = Peer(s)
         /\ Again \subseteq Again' /\ \A t \in Side : again'[t] \subseteq Again'
         /\ \A t \in Side : finished[t] => finished'[t]
         /\ Connected' => Connected
<1>1. /\ Peer(s) \in Side /\ Peer(s) # s /\ Peer(Peer(s)) = s
      /\ \A t \in Side : t = s \/ t = Peer(s)
  BY PeerFacts
<1>2. Again \subseteq Again' /\ \A t \in Side : again'[t] \subseteq Again'
  BY DEF Acts, Again, Side
<1>3. \A t \in Side : finished[t] => finished'[t]
  BY <1>1 DEF Acts
<1>4. Connected' => Connected
  BY <1>3 DEF Connected
<1> QED BY <1>1, <1>2, <1>3, <1>4

\* Messages under way load what they loaded when they were sent.
LEMMA StillLoads ==
  ASSUME CInv, NEW s \in Side, NEW x, Acts(s, x), NEW t \in Side, NEW m \in On(t), NEW i
  PROVE  Loads(t, m, i)' <=> Loads(t, m, i)
<1>1. m.id \in Id
  BY MsgFacts DEF On, Range, CInv, AInv, IInv, Typing
<1>2. m.code = "data" => m.n \in DOMAIN sent[Peer(t)][m.id]
  BY DEF CInv, AInv, IInv, WireInv
<1>3. m.code = "data" => Carried(t, m.id, m.n)' = Carried(t, m.id, m.n)
  BY <1>1, <1>2, PeerFacts DEF Carried, Acts
<1> QED BY <1>3 DEF Loads

\* The messages to the side that acts, and to the other one.
LEMMA WireOwn ==
  ASSUME CInv, NEW s \in Side, NEW x, Acts(s, x), ~finished'[s]
  PROVE  /\ wire[s] \in Seq(Message) /\ On(s)' \subseteq On(s)
         /\ \/ x = Nothing /\ wire'[s] = wire[s]
            \/ wire[s] # <<>> /\ x = Head(wire[s]) /\ x \in On(s) /\ wire'[s] = Tail(wire[s])
<1>1. wire[s] \in Seq(Message)
  BY DEF CInv, AInv, IInv, Typing
<1>2. CASE x = Nothing /\ wire'[s] = wire[s]
  BY <1>1, <1>2 DEF On
<1>3. CASE wire[s] # <<>> /\ x = Head(wire[s]) /\ wire'[s] = Tail(wire[s])
  <2>1. Range(wire[s]) = Range(Tail(wire[s])) \cup {Head(wire[s])}
    BY <1>1, <1>3, TailFacts
  <2> QED BY <1>1, <1>3, <2>1 DEF On
<1> QED BY <1>2, <1>3 DEF Acts

LEMMA WireOther ==
  ASSUME CInv, NEW s \in Side, NEW x, Acts(s, x), ~finished'[Peer(s)]
  PROVE  LET p == Peer(s) IN
         /\ wire[p] \in Seq(Message) /\ ~finished[p]
         /\ \/ wire'[p] = wire[p] /\ sent'[s] = sent[s] /\ On(p)' = On(p)
            \/ /\ finished'[s] <=> finished[s]
               /\ \E m \in Message : /\ wire'[p] = Append(wire[p], m) /\ On(p)' = On(p) \cup {m}
                                     /\ finished[s] => Late(s, m)
                                     /\ \A i \in Id : Says(s, m, i)
<1> DEFINE p == Peer(s)
<1>1. p \in Side /\ ~finished[p]
  BY PeerFacts DEF Acts
<1>2. wire[p] \in Seq(Message)
  BY <1>1 DEF CInv, AInv, IInv, Typing
<1>3. CASE wire'[p] = wire[p] /\ sent'[s] = sent[s]
  BY <1>1, <1>2, <1>3 DEF On
<1>4. ASSUME NEW m \in Message, wire'[p] = Append(wire[p], m)
      PROVE  On(p)' = On(p) \cup {m}
  <2>1. Range(Append(wire[p], m)) = Range(wire[p]) \cup {m}
    BY <1>2, AppendFacts
  <2> QED BY <1>4, <2>1 DEF On
<1>5. \/ wire'[p] = wire[p] /\ sent'[s] = sent[s]
      \/ /\ finished'[s] <=> finished[s]
         /\ \E m \in Message : /\ wire'[p] = Append(wire[p], m) /\ \A i \in Id : Says(s, m, i)
                               /\ finished[s] => Late(s, m)
  BY <1>1 DEF Acts, Speaks
<1> QED BY <1>1, <1>2, <1>3, <1>4, <1>5

\* What is over is over, for a channel that lives only once.
LEMMA Over ==
  ASSUME CInv, NEW s \in Side, NEW x, Acts(s, x), NEW t \in Side, NEW i \in Id \ Again'
  PROVE  /\ state[t][i] \in Closed => state'[t][i] \in Closed
         /\ state[t][i] = "deleted" => state'[t][i] = "deleted"
         /\ callback'[t][i] /\ ~callback[t][i] => state[t][i] = "opened"
<1>1. t = s \/ t = Peer(s)
  BY ActsFacts
<1>2. CASE t = s
  <2>1. Moves(s, i, x) /\ i \notin again'[s]
    BY <1>2, ActsFacts DEF Acts
  <2> QED BY <1>2, <2>1 DEF Moves, Stays, Comes, Reads, Turns, Stops, Goes, Forgets, Calls, Queues,
          Closed, Live
<1>3. CASE t = Peer(s)
  BY <1>3 DEF Acts, Stays
<1> QED BY <1>1, <1>2, <1>3

LEMMA OwnKept ==
  ASSUME CInv, IInv', NEW s \in Side, NEW x, Acts(s, x)
  PROVE  OwnInv'
<1> DEFINE Own(t, i) ==
      /\ state[t][i] = "new" => /\ got[t][i] = <<>> /\ queue[t][i] = <<>>
                                /\ ~callback[t][i] /\ items[t][i]
      /\ ~items[t][i] => queue[t][i] = <<>>
      /\ state[t][i] = "opened" => EndMarker \notin In(t, i)
      /\ i \notin Again =>
           /\ callback[t][i] => ~items[t][i]
           /\ state[t][i] = "opened" /\ ~items[t][i] => callback[t][i]
<1> SUFFICES ASSUME NEW t \in Side, NEW i \in Id PROVE Own(t, i)'
  BY DEF OwnInv
<1>1. Own(t, i)
  BY DEF CInv, OwnInv
<1>2. Again \subseteq Again' /\ again'[s] \subseteq Again'
  BY ActsFacts
<1>3. ASSUME Stays(t, i) PROVE Own(t, i)'
  BY <1>1, <1>2, <1>3 DEF Stays, In
<1>4. CASE t = s
  <2>1. Moves(s, i, x)
    BY DEF Acts
  <2>2. Range(<<>>) = {}
    BY DEF Range
  <2>3. queue[s][i] \in Seq(Item)
    BY DEF CInv, AInv, IInv, Typing, Table
  <2>4. CASE Comes(s, i, x)
    <3>1. EndMarker \notin In(s, i)'
      BY <2>2, <2>4 DEF Comes, In
    <3> QED BY <1>1, <1>2, <1>4, <2>4, <3>1 DEF Comes
  <2>5. CASE Reads(s, i)
    <3>1. Range(queue[s][i]) = Range(Tail(queue[s][i])) \cup {Head(queue[s][i])}
      BY <2>3, <2>5, TailFacts DEF Reads
    <3>2. In(s, i)' \subseteq In(s, i)
      BY <2>5, <3>1 DEF Reads, In
    <3> QED BY <1>1, <1>2, <1>4, <2>5, <3>2 DEF Reads
  <2>6. CASE Turns(s, i)
    <3>1. EndMarker \notin In(s, i)'
      BY <2>2, <2>6 DEF Turns, In
    <3> QED BY <1>4, <2>6, <3>1 DEF Turns
  <2>7. CASE Stops(s, i, x)
    BY <1>1, <1>4, <2>7 DEF Stops, WithEnd
  <2>8. CASE Goes(s, i)
    BY <1>1, <1>2, <1>4, <2>8 DEF Goes
  <2>9. CASE Forgets(s, i)
    BY <1>1, <1>2, <1>4, <2>9 DEF Forgets
  <2>10. CASE Calls(s, i, x)
    <3>1. In(s, i)' = In(s, i)
      BY <2>10 DEF Calls, In
    <3> QED BY <1>1, <1>2, <1>4, <2>10, <3>1 DEF Calls
  <2>11. CASE Queues(s, i, x) /\ IsData(x, i)
    <3>1. x.n \in Item
      <4>1. wire[s] \in Seq(Message) /\ x # Nothing
        BY <2>11, NothingFacts DEF CInv, AInv, IInv, Typing
      <4>2. x \in Message
        BY <4>1, TailFacts DEF Acts
      <4> QED BY <4>2, MsgFacts
    <3>2. Range(Append(queue[s][i], x.n)) = Range(queue[s][i]) \cup {x.n}
      BY <2>3, <3>1, AppendFacts
    <3>3. EndMarker \notin In(s, i)'
      BY <1>1, <1>4, <2>11, <3>2 DEF Queues, In
    <3> QED BY <1>4, <2>11, <3>3 DEF Queues
  <2> QED BY <1>3, <1>4, <2>1, <2>4, <2>5, <2>6, <2>7, <2>8, <2>9, <2>10, <2>11 DEF Moves
<1>5. CASE t = Peer(s)
  BY <1>3, <1>5 DEF Acts
<1> QED BY <1>4, <1>5, ActsFacts

LEMMA UnusedKept ==
  ASSUME CInv, AInv', NEW s \in Side, NEW x, Acts(s, x)
  PROVE  UnusedInv'
<1> SUFFICES ASSUME NEW t \in Side, ~finished'[t]
             PROVE  /\ count'[t] \in Numbers(t)
                    /\ \A i \in Id \cap Numbers(t) : i >= count'[t] =>
                         /\ state'[t][i] = "new" /\ state'[Peer(t)][i] = "new"
                         /\ \A m \in On(t)' : ~Loads(t, m, i)' /\ (m.code # "terminate" => m.id # i)
  BY DEF UnusedInv
<1>1. CASE Connected'
  BY <1>1, PeerFacts DEF AInv, Agreement, KnownInv, NumbersInv
<1>2. CASE ~Connected'
  <2>1. finished'[Peer(t)] /\ ~finished[t]
    BY <1>2, ActsFacts, PeerFacts DEF Connected
  <2>2. /\ count[t] \in Numbers(t) /\ Numbers(t) \subseteq Nat
        /\ \A i \in Id \cap Numbers(t) : i >= count[t] =>
             /\ state[t][i] = "new" /\ state[Peer(t)][i] = "new"
             /\ \A m \in On(t) : ~Loads(t, m, i) /\ (m.code # "terminate" => m.id # i)
    BY <2>1, NumbersFacts DEF CInv, UnusedInv
  <2>3. count'[t] \in Numbers(t) /\ (count'[t] = count[t] \/ count'[t] = count[t] + 2)
    <3>1. count'[t] = count[t] \/ count'[t] = count[t] + 2
      BY ActsFacts DEF Acts
    <3>2. count[t] + 2 \in Numbers(t)
      BY <2>2, NumbersFacts
    <3> QED BY <2>2, <3>1, <3>2
  <2>4. \A m \in On(t) : \A i : Loads(t, m, i)' <=> Loads(t, m, i)
    BY StillLoads
  <2>5. \/ On(t)' \subseteq On(t)
        \/ t = Peer(s) /\ \E m \in Message : On(t)' = On(t) \cup {m} /\ Late(s, m)
    <3>1. CASE t = s
      BY <3>1, WireOwn
    <3>2. CASE t = Peer(s)
      BY <2>1, <3>2, WireOther, ActsFacts
    <3> QED BY <3>1, <3>2, ActsFacts
  <2>8. ASSUME NEW i \in Id \cap Numbers(t), i >= count[t], NEW m \in On(t)'
        PROVE  ~Loads(t, m, i)' /\ (m.code # "terminate" => m.id # i)
    <3>1. CASE m \in On(t)
      BY <2>2, <2>4, <2>8, <3>1
    <3>2. CASE t = Peer(s) /\ Late(s, m)
      <4>1. state[s][i] = "new"
        BY <2>2, <2>8, <3>2, ActsFacts
      <4>2. Loads(t, m, i)' => LoadsThen(t, m, i)
        BY DEF Loads, LoadsThen, Carried
      <4> QED BY <3>2, <4>1, <4>2 DEF Late
    <3> QED BY <2>5, <3>1, <3>2
  <2>9. ASSUME NEW i \in Id \cap Numbers(t), i >= count[t] PROVE state'[Peer(t)][i] = "new"
    <3>1. CASE t = s
      BY <2>2, <2>9, <3>1 DEF Acts, Stays
    <3>2. CASE t = Peer(s)
      BY <2>1, <2>2, <2>9, <3>2, ActsFacts DEF Acts
    <3> QED BY <3>1, <3>2, ActsFacts
  <2>6. ASSUME NEW i \in Id \cap Numbers(t), i >= count'[t] PROVE state'[t][i] = "new"
    <3>1. i >= count[t] /\ (i # count[t] \/ count'[t] = count[t])
      BY <2>2, <2>3, <2>6
    <3>2. state[t][i] = "new" /\ \A m \in On(t) : ~Loads(t, m, i)
      BY <2>2, <3>1
    <3>3. CASE t = s
      <4>1. ~Loads(s, x, i)
        <5>1. x = Nothing \/ x \in On(s)
          BY <3>3, WireOwn
        <5> QED BY <3>2, <3>3, <5>1 DEF Loads, Nothing
      <4>2. ~(i = count[s] /\ count'[s] = i + 2)
        BY <2>2, <3>1, <3>3
      <4>3. Moves(s, i, x)
        BY DEF Acts
      <4>4. callback[s][i] = FALSE /\ queue[s][i] = <<>>
        BY <3>2, <3>3 DEF CInv, OwnInv, AInv, IInv, Typing, Table
      <4> QED BY <3>2, <3>3, <4>1, <4>2, <4>3, <4>4 DEF Moves, Stays, Comes, Reads, Turns, Stops,
          Goes,
              Forgets, Calls, Queues, Live
    <3>4. CASE t = Peer(s)
      BY <3>2, <3>4 DEF Acts, Stays
    <3> QED BY <3>3, <3>4, ActsFacts
  <2>7. \A i \in Id \cap Numbers(t) : i >= count'[t] => i >= count[t]
    BY <2>2, <2>3
  <2> QED BY <2>3, <2>6, <2>7, <2>8, <2>9
<1> QED BY <1>1, <1>2

LEMMA PartedKept ==
  ASSUME CInv, NEW s \in Side, NEW x, Acts(s, x)
  PROVE  PartedInv'
<1> SUFFICES ASSUME NEW t \in Side, ~finished'[t], NEW i \in Id \ Again'
             PROVE  /\ (\E m \in On(t)' : Parts(m, i)) => state'[Peer(t)][i] \in Closed
                    /\ (\E m \in On(t)' : m.code = "last" /\ m.id = i) \/ state'[t][i] = "sendonly"
                         => state'[Peer(t)][i] = "deleted"
  BY DEF PartedInv, Dropped, Parts
<1>1. ~finished[t] /\ i \in Id \ Again
  BY ActsFacts
<1>2. ~finished'[t] /\ Peer(t) \in Side
  BY PeerFacts
<1>3. /\ (\E m \in On(t) : Parts(m, i)) => state[Peer(t)][i] \in Closed
      /\ (\E m \in On(t) : m.code = "last" /\ m.id = i) \/ state[t][i] = "sendonly"
           => state[Peer(t)][i] = "deleted"
  BY <1>1 DEF CInv, PartedInv, Dropped
<1>4. /\ state[Peer(t)][i] \in Closed => state'[Peer(t)][i] \in Closed
      /\ state[Peer(t)][i] = "deleted" => state'[Peer(t)][i] = "deleted"
  BY <1>2, Over
<1>5. CASE t = s
  <2>1. On(t)' \subseteq On(t) /\ (x = Nothing \/ x \in On(s))
    BY <1>2, <1>5, WireOwn
  <2>2. state'[s][i] = "sendonly" => state[s][i] = "sendonly" \/ (x.code = "last" /\ x.id = i)
    <3>1. Moves(s, i, x)
      BY DEF Acts
    <3> QED BY <1>2, <1>5, <3>1 DEF Moves, Stays, Comes, Reads, Turns, Stops, Goes, Forgets, Calls, Queues
  <2>3. Nothing.code # "last"
    BY DEF Nothing
  <2> QED BY <1>3, <1>4, <1>5, <2>1, <2>2, <2>3
<1>6. CASE t = Peer(s)
  <2>1. Peer(t) = s /\ state'[t][i] = state[t][i]
    BY <1>6, ActsFacts DEF Acts, Stays
  <2>2. CASE On(t)' = On(t)
    BY <1>3, <1>4, <2>1, <2>2
  <2>3. ASSUME NEW m \in Message, On(t)' = On(t) \cup {m}, Says(s, m, i)
        PROVE  /\ (\E y \in On(t)' : Parts(y, i)) => state'[Peer(t)][i] \in Closed
               /\ (\E y \in On(t)' : y.code = "last" /\ y.id = i) \/ state'[t][i] = "sendonly"
                    => state'[Peer(t)][i] = "deleted"
    <3>1. Parts(m, i) => state'[s][i] \in Closed
      BY <2>3 DEF Says
    <3>2. m.code = "last" /\ m.id = i => state'[s][i] = "deleted"
      BY <2>3 DEF Says
    <3> QED BY <1>3, <1>4, <2>1, <2>3, <3>1, <3>2
  <2> QED BY <1>2, <1>6, <2>2, <2>3, WireOther
<1> QED BY <1>5, <1>6, ActsFacts

LEMMA SendonlyKept ==
  ASSUME CInv, NEW s \in Side, NEW x, Acts(s, x)
  PROVE  SendonlyInv'
<1> SUFFICES ASSUME NEW t \in Side, ~finished'[t], NEW i \in Id \ Again', state'[t][i] = "sendonly",
                    NEW m \in On(t)', m.code = "reconfigure", m.id = i
             PROVE  FALSE
  BY DEF SendonlyInv
<1>1. ~finished[t] /\ i \in Id \ Again
  BY ActsFacts
<1>2. state[t][i] = "sendonly" => \A y \in On(t) : ~(y.code = "reconfigure" /\ y.id = i)
  BY <1>1 DEF CInv, SendonlyInv
<1>3. CASE t = s
  <2>1. /\ wire[s] \in Seq(Message) /\ On(s)' \subseteq On(s)
        /\ \/ x = Nothing /\ wire'[s] = wire[s]
           \/ wire[s] # <<>> /\ x = Head(wire[s]) /\ x \in On(s) /\ wire'[s] = Tail(wire[s])
    BY <1>3, WireOwn
  <2>2. state[s][i] = "sendonly" \/ (x.code = "last" /\ x.id = i)
    <3>1. Moves(s, i, x)
      BY DEF Acts
    <3> QED BY <1>3, <3>1 DEF Moves, Stays, Comes, Reads, Turns, Stops, Goes, Forgets, Calls, Queues
  <2>3. x.code = "last" /\ x.id = i
    BY <1>2, <1>3, <2>1, <2>2
  <2>4. wire[s] # <<>> /\ x = Head(wire[s]) /\ wire'[s] = Tail(wire[s])
    BY <2>1, <2>3 DEF Nothing
  <2>5. /\ Head(wire[s]) = wire[s][1] /\ 1 \in DOMAIN wire[s]
        /\ \A k \in DOMAIN Tail(wire[s]) : k \in Nat \ {0} /\ k + 1 \in DOMAIN wire[s]
                                           /\ Tail(wire[s])[k] = wire[s][k + 1]
    BY <2>1, <2>4, TailFacts
  <2>6. PICK k \in DOMAIN Tail(wire[s]) : m = Tail(wire[s])[k]
    BY <1>3, <2>4 DEF On, Range
  <2>7. 1 < k + 1 /\ k + 1 \in DOMAIN wire[s] /\ wire[s][k + 1] = m
    BY <2>5, <2>6
  <2>8. Parts(wire[s][1], i)
    BY <2>3, <2>4, <2>5 DEF Parts
  <2>9. ~Behind(s, wire[s][1], wire[s][k + 1], i)
    BY <1>1, <1>3, <2>5, <2>7, <2>8 DEF CInv, BehindInv
  <2> QED BY <2>3, <2>4, <2>5, <2>7, <2>9 DEF Behind
<1>4. CASE t = Peer(s)
  <2>1. state[t][i] = "sendonly" /\ Peer(t) = s
    BY <1>4, ActsFacts DEF Acts, Stays
  <2>2. CASE On(t)' = On(t)
    BY <1>2, <2>1, <2>2
  <2>3. ASSUME NEW y \in Message, On(t)' = On(t) \cup {y}, Says(s, y, i) PROVE FALSE
    <3>2. state[s][i] = "deleted"
      BY <1>1, <2>1 DEF CInv, PartedInv, Dropped
    <3>3. ~(y.code = "reconfigure" /\ y.id = i)
      BY <2>3, <3>2 DEF Says, Live
    <3> QED BY <1>2, <2>1, <2>3, <3>3
  <2> QED BY <1>4, <2>2, <2>3, WireOther
<1> QED BY <1>3, <1>4, ActsFacts

BehindThen(s, m, x, i) ==
  \/ LoadsThen(s, x, i) \/ IsData(x, i)
  \/ m.code = "last" /\ x.code = "reconfigure" /\ x.id = i

LEMMA BehindKept ==
  ASSUME CInv, IInv', NEW s \in Side, NEW x, Acts(s, x)
  PROVE  BehindInv'
<1> SUFFICES ASSUME NEW t \in Side, ~finished'[t], NEW i \in Id \ Again',
                    NEW j \in DOMAIN wire'[t], NEW k \in DOMAIN wire'[t],
                    j < k, Parts(wire'[t][j], i), BehindThen(t, wire'[t][j], wire'[t][k], i)
             PROVE  FALSE
  BY DEF BehindInv, Parts, Behind, BehindThen, Loads, LoadsThen, Carried, IsData
<1>1. ~finished[t] /\ i \in Id \ Again
  BY ActsFacts
<1>2. wire[t] \in Seq(Message)
  BY DEF CInv, AInv, IInv, Typing
<1>3. \A a, b \in DOMAIN wire[t] :
        a < b /\ Parts(wire[t][a], i) => ~Behind(t, wire[t][a], wire[t][b], i)
  BY <1>1 DEF CInv, BehindInv
<1>4. \A m : \A y \in On(t) : BehindThen(t, m, y, i) => Behind(t, m, y, i)
  <2>1. \A y \in On(t) : LoadsThen(t, y, i) => Loads(t, y, i)
    BY StillLoads DEF Loads, LoadsThen, Carried
  <2> QED BY <2>1 DEF Behind, BehindThen
<1>5. \A a \in DOMAIN wire[t] : wire[t][a] \in On(t)
  BY DEF On, Range
<1>6. CASE wire'[t] = wire[t]
  BY <1>3, <1>4, <1>5, <1>6
<1>7. CASE wire[t] # <<>> /\ wire'[t] = Tail(wire[t])
  <2>1. \A a \in DOMAIN Tail(wire[t]) : /\ a \in Nat /\ a + 1 \in DOMAIN wire[t]
                                        /\ Tail(wire[t])[a] = wire[t][a + 1]
    BY <1>2, <1>7, TailFacts
  <2>2. /\ j + 1 < k + 1 /\ j + 1 \in DOMAIN wire[t] /\ k + 1 \in DOMAIN wire[t]
        /\ wire'[t][j] = wire[t][j + 1] /\ wire'[t][k] = wire[t][k + 1]
    BY <1>7, <2>1
  <2> QED BY <1>3, <1>4, <1>5, <2>2
<1>8. ASSUME t = Peer(s), NEW m \in Message,
             wire'[t] = Append(wire[t], m), Says(s, m, i)
      PROVE  FALSE
  <2>1. /\ Len(wire[t]) \in Nat /\ DOMAIN wire[t] = 1..Len(wire[t])
        /\ DOMAIN wire'[t] = 1..Len(wire[t]) + 1 /\ wire'[t][Len(wire[t]) + 1] = m
        /\ \A a \in DOMAIN wire[t] : wire'[t][a] = wire[t][a]
    BY <1>2, <1>8, AppendFacts
  <2>2. j \in DOMAIN wire[t] /\ wire'[t][j] = wire[t][j]
    BY <2>1
  <2>3. CASE k \in DOMAIN wire[t]
    BY <1>3, <1>4, <1>5, <2>1, <2>2, <2>3
  <2>4. CASE k = Len(wire[t]) + 1
    <3>1. Peer(t) = s
      BY <1>8, ActsFacts
    <3>2. wire[t][j] \in On(t) /\ Parts(wire[t][j], i)
      BY <1>5, <2>2
    <3>3. state[s][i] \in Closed
      BY <1>1, <3>1, <3>2 DEF CInv, PartedInv
    <3>4. wire[t][j].code = "last" => state[s][i] = "deleted"
      BY <1>1, <3>1, <3>2 DEF CInv, PartedInv, Dropped, Parts
    <3>5. ~LoadsThen(t, m, i) /\ ~IsData(m, i)
      BY <1>8, <3>3 DEF Says, Closed
    <3>6. m.code = "reconfigure" /\ m.id = i => state[s][i] # "deleted"
      BY <1>8 DEF Says, Live
    <3>7. BehindThen(t, wire[t][j], m, i)
      BY <2>1, <2>2, <2>4
    <3> QED BY <3>4, <3>5, <3>6, <3>7 DEF BehindThen
  <2> QED BY <2>1, <2>3, <2>4
<1>9. CASE t = s
  BY <1>6, <1>7, <1>9, WireOwn
<1>10. CASE t = Peer(s)
  BY <1>6, <1>8, <1>10, WireOther
<1> QED BY <1>9, <1>10, ActsFacts

LEMMA Kind ==
  ASSUME IInv, Kinds, NEW s \in Side, NEW i \in Id
  PROVE  /\ got[s][i] \in Seq(1..MaxItems) /\ queue[s][i] \in Seq(Item)
         /\ wire[s] \in Seq(Message) /\ sent[Peer(s)][i] \in Seq(Id \cup {Plain})
         /\ Len(got[s][i]) + Len(queue[s][i]) \in Nat /\ Len(sent[Peer(s)][i]) \in Nat
<1>1. sent[Peer(s)][i] \in Seq(Id \cup {Plain})
  BY PeerFacts DEF IInv, Typing, Table
<1>2. /\ got[s][i] \in Seq(1..MaxItems) /\ queue[s][i] \in Seq(Item)
      /\ wire[s] \in Seq(Message)
  BY DEF IInv, Typing, Kinds, Table
<1>3. \A g \in Seq(1..MaxItems) : \A q \in Seq(Item) : Len(g) + Len(q) \in Nat
  OBVIOUS
<1>4. \A q \in Seq(Id \cup {Plain}) : Len(q) \in Nat
  OBVIOUS
<1> QED BY <1>1, <1>2, <1>3, <1>4, Zenon

\* receive() takes an item from the queue.
LEMMA NumberedRead ==
  ASSUME NEW g \in Seq(1..MaxItems), NEW q \in Seq(Item), q # <<>>, Head(q) # EndMarker,
         Numbered(g, q)
  PROVE  /\ Numbered(Append(g, Head(q)), Tail(q))
         /\ Len(Append(g, Head(q))) + Len(Tail(q)) = Len(g) + Len(q)
<1>1. /\ Len(Tail(q)) = Len(q) - 1 /\ Head(q) = q[1] /\ Head(q) \in Item
      /\ 1 \in 1..Len(q) /\ Len(q) \in Nat /\ Len(g) \in Nat
      /\ \A k \in 1..Len(q) - 1 : k + 1 \in 1..Len(q) /\ Tail(q)[k] = q[k + 1]
  BY TailFacts
<1>2. Head(q) \in 1..MaxItems /\ Head(q) = Len(g) + 1
  BY <1>1, ProtocolAssumption DEF Item, EndMarker, Numbered
<1>3. /\ Len(Append(g, Head(q))) = Len(g) + 1
      /\ Append(g, Head(q))[Len(g) + 1] = Head(q)
      /\ \A k \in 1..Len(g) : Append(g, Head(q))[k] = g[k]
  BY <1>2, AppendFacts
<1>4. \A k \in 1..Len(q) - 1 : Tail(q)[k] = (Len(g) + 1) + k
  BY <1>1 DEF Numbered
<1>5. \A k \in 1..Len(g) + 1 : k \in 1..Len(g) \/ k = Len(g) + 1
  BY <1>1
<1>6. \A k \in 1..Len(g) + 1 : Append(g, Head(q))[k] = k
  BY <1>2, <1>3, <1>5 DEF Numbered
<1>7. (Len(g) + 1) + (Len(q) - 1) = Len(g) + Len(q)
  BY <1>1
<1> QED BY <1>1, <1>3, <1>4, <1>6, <1>7 DEF Numbered

\* setcallback() takes all of them.
LEMMA NumberedTurned ==
  ASSUME NEW g \in Seq(1..MaxItems), NEW q \in Seq(Item), EndMarker \notin Range(q),
         Numbered(g, q)
  PROVE  /\ Numbered(g \o Data(q), <<>>)
         /\ Len(g \o Data(q)) + Len(<<>>) = Len(g) + Len(q)
<1>1. Data(q) = q /\ q \in Seq(1..MaxItems)
  <2>1. Data(q) \in Seq(1..MaxItems) /\ Data(q) = q
    BY DataFacts
  <2> QED BY <2>1
<1>2. /\ Len(g \o q) = Len(g) + Len(q) /\ Len(g) \in Nat /\ Len(q) \in Nat
      /\ \A k \in 1..Len(g) : (g \o q)[k] = g[k]
      /\ \A k \in 1..Len(q) : (g \o q)[Len(g) + k] = q[k]
  BY <1>1, JoinFacts
<1>3. ASSUME NEW k \in 1..Len(g) + Len(q) PROVE (g \o q)[k] = k
  <2>1. CASE k \in 1..Len(g)
    BY <1>2, <2>1 DEF Numbered
  <2>2. CASE k \notin 1..Len(g)
    <3>1. k - Len(g) \in 1..Len(q) /\ k = Len(g) + (k - Len(g))
      BY <1>2, <2>2
    <3> QED BY <1>2, <3>1 DEF Numbered
  <2> QED BY <2>1, <2>2
<1>4. Len(<<>>) = 0 /\ 1..0 = {} /\ (Len(g) + Len(q)) + 0 = Len(g) + Len(q)
  BY <1>2
<1> QED BY <1>1, <1>2, <1>3, <1>4 DEF Numbered

\* A callback gets the item that has come.
LEMMA NumberedCalled ==
  ASSUME NEW g \in Seq(1..MaxItems), NEW n \in 1..MaxItems, n = Len(g) + Len(<<>>) + 1,
         Numbered(g, <<>>)
  PROVE  /\ Numbered(Append(g, n), <<>>)
         /\ Len(Append(g, n)) + Len(<<>>) = Len(g) + Len(<<>>) + 1
<1>1. /\ Len(Append(g, n)) = Len(g) + 1 /\ Len(g) \in Nat
      /\ Append(g, n)[Len(g) + 1] = n
      /\ \A k \in 1..Len(g) : Append(g, n)[k] = g[k]
  BY AppendFacts
<1>2. Len(<<>>) = 0 /\ n = Len(g) + 1 /\ 1..0 = {}
  BY <1>1
<1>3. \A k \in 1..Len(g) + 1 : k \in 1..Len(g) \/ k = Len(g) + 1
  BY <1>1
<1> QED BY <1>1, <1>2, <1>3 DEF Numbered

\* It waits behind those that have come before.
LEMMA NumberedQueued ==
  ASSUME NEW g \in Seq(1..MaxItems), NEW q \in Seq(Item), NEW n \in Item,
         n = Len(g) + Len(q) + 1, Numbered(g, q)
  PROVE  /\ Numbered(g, Append(q, n))
         /\ Len(g) + Len(Append(q, n)) = Len(g) + Len(q) + 1
<1>1. /\ Len(Append(q, n)) = Len(q) + 1 /\ Len(q) \in Nat /\ Len(g) \in Nat
      /\ Append(q, n)[Len(q) + 1] = n
      /\ \A k \in 1..Len(q) : Append(q, n)[k] = q[k]
  BY AppendFacts
<1>2. \A k \in 1..Len(q) + 1 : k \in 1..Len(q) \/ k = Len(q) + 1
  BY <1>1
<1>3. n = Len(g) + (Len(q) + 1) /\ Len(g) + (Len(q) + 1) = Len(g) + Len(q) + 1
  BY <1>1
<1> QED BY <1>1, <1>2, <1>3 DEF Numbered

LEMMA LossOwn ==
  ASSUME CInv, NEW s \in Side, NEW x, Acts(s, x), ~finished'[s], NEW i \in Id \ Again', Hears(s, i)'
  PROVE  InOrder(s, i)'
<1> DEFINE g == got[s][i]
           q == queue[s][i]
           a == Len(g) + Len(q)
           b == Len(sent[Peer(s)][i])
<1>1. ~finished[s] /\ i \in Id \ Again /\ i \notin again'[s]
  BY ActsFacts
<1>2. Hears(s, i) => Numbered(g, q) /\ a =< b /\ Stream(wire[s], i, a, b)
  BY <1>1 DEF CInv, LossInv, InOrder
<1>3. /\ g \in Seq(1..MaxItems) /\ q \in Seq(Item) /\ wire[s] \in Seq(Message)
      /\ sent[Peer(s)][i] \in Seq(Id \cup {Plain}) /\ a \in Nat /\ b \in Nat
  BY Kind DEF CInv, AInv
<1>4. Moves(s, i, x) /\ sent'[Peer(s)] = sent[Peer(s)]
  BY DEF Acts
<1>5. \/ x = Nothing /\ wire'[s] = wire[s]
      \/ wire[s] # <<>> /\ x = Head(wire[s]) /\ x \in On(s) /\ wire'[s] = Tail(wire[s])
  BY WireOwn
<1>6. (state[s][i] = "new" => q = <<>> /\ ~callback[s][i]) /\ (~items[s][i] => q = <<>>)
      /\ (state[s][i] = "opened" => EndMarker \notin Range(q)) /\ (callback[s][i] => ~items[s][i])
  BY <1>1 DEF CInv, OwnInv, In
\* The channel has the items it had, and none has come.
<1>7. ASSUME ~IsData(x, i), Hears(s, i), Numbered(got'[s][i], queue'[s][i]),
             Len(got'[s][i]) + Len(queue'[s][i]) = a
      PROVE  InOrder(s, i)'
  <2>1. Stream(wire[s], i, a, b) /\ a =< b
    BY <1>2, <1>7
  <2>2. Stream(wire'[s], i, a, b)
    <3> HIDE DEF a, b
    <3> QED BY <1>3, <1>5, <1>7, <2>1, StreamSkipped
  <2> QED BY <1>4, <1>7, <2>1, <2>2 DEF InOrder
\* The next one has come.
<1>8. ASSUME IsData(x, i), Hears(s, i)
      PROVE  /\ x.n = a + 1 /\ x.n \in 1..MaxItems /\ x.n \in Item
             /\ Stream(wire'[s], i, a + 1, b) /\ a + 1 =< b
  <2>1. wire[s] # <<>> /\ x = Head(wire[s]) /\ x \in On(s) /\ wire'[s] = Tail(wire[s])
    BY <1>5, <1>8, NothingFacts
  <2>2. Stream(wire[s], i, a, b)
    BY <1>2, <1>8
  <2>3. x.n = a + 1 /\ Stream(wire'[s], i, a + 1, b)
    <3>1. IsData(Head(wire[s]), i)
      BY <1>8, <2>1
    <3> HIDE DEF a, b, g, q
    <3>2. Head(wire[s]).n = a + 1 /\ Stream(Tail(wire[s]), i, a + 1, b)
      BY <1>3, <2>1, <2>2, <3>1, StreamTaken
    <3> QED BY <2>1, <3>2
  <2>4. x.n \in DOMAIN sent[Peer(s)][i] /\ x.n \in Item
    <3>1. x \in Message
      BY <2>1 DEF On, Range, CInv, AInv, IInv, Typing
    <3> QED BY <1>8, <2>1, <3>1, MsgFacts DEF IsData, CInv, AInv, IInv, WireInv
  <2>5. x.n \in 1..b
    <3>1. \A r \in Seq(Id \cup {Plain}) : DOMAIN r = 1..Len(r)
      OBVIOUS
    <3> QED BY <1>3, <2>4, <3>1
  <2> HIDE DEF a, b
  <2>6. x.n \in 1..MaxItems /\ a + 1 =< b
    BY <1>3, <2>3, <2>4, <2>5, ProtocolAssumption DEF Item
  <2> QED BY <2>3, <2>4, <2>6
<1>9. ASSUME IsData(x, i), Hears(s, i), Numbered(got'[s][i], queue'[s][i]),
             Len(got'[s][i]) + Len(queue'[s][i]) = a + 1
      PROVE  InOrder(s, i)'
  BY <1>4, <1>8, <1>9 DEF InOrder
<1>10. CASE Stays(s, i) /\ (IsData(x, i) => i \in Again \cup again'[s] \/ ~Hears(s, i))
  <2>1. Hears(s, i) /\ ~IsData(x, i) /\ got'[s][i] = g /\ queue'[s][i] = q
    BY <1>1, <1>10 DEF Stays, Hears
  <2> QED BY <1>2, <1>7, <2>1
<1>11. CASE Comes(s, i, x)
  <2>1. /\ Hears(s, i) /\ ~IsData(x, i) /\ got'[s][i] = g /\ queue'[s][i] = q
    BY <1>1, <1>6, <1>11 DEF Comes, Hears
  <2> QED BY <1>2, <1>7, <2>1
<1>12. CASE Reads(s, i) /\ ~IsData(x, i)
  <2>1. /\ Hears(s, i) /\ q # <<>> /\ Head(q) # EndMarker
        /\ queue'[s][i] = Tail(q) /\ got'[s][i] = Append(g, Head(q))
    BY <1>12 DEF Reads, Hears
  <2>2. Numbered(Append(g, Head(q)), Tail(q)) /\ Len(Append(g, Head(q))) + Len(Tail(q)) = a
    <3> HIDE DEF g, q
    <3> QED BY <1>2, <1>3, <2>1, NumberedRead DEF a
  <2> QED BY <1>7, <1>12, <2>1, <2>2
<1>13. CASE Turns(s, i) /\ ~IsData(x, i)
  <2>1. /\ Hears(s, i) /\ EndMarker \notin Range(q)
        /\ queue'[s][i] = <<>> /\ got'[s][i] = g \o Data(q)
    BY <1>6, <1>13 DEF Turns, Hears
  <2>2. Numbered(g \o Data(q), <<>>) /\ Len(g \o Data(q)) + Len(<<>>) = a
    <3> HIDE DEF g, q
    <3> QED BY <1>2, <1>3, <2>1, NumberedTurned DEF a
  <2> QED BY <1>7, <1>13, <2>1, <2>2
<1>14. ~Stops(s, i, x)
  BY DEF Stops, Hears
<1>15. CASE (Goes(s, i) \/ Forgets(s, i)) /\ ~IsData(x, i)
  <2>1. Hears(s, i) /\ got'[s][i] = g /\ queue'[s][i] = q
    BY <1>15 DEF Goes, Forgets, Hears
  <2> QED BY <1>2, <1>7, <1>15, <2>1
<1>16. CASE Calls(s, i, x) /\ IsData(x, i)
  <2>1. Hears(s, i) /\ q = <<>> /\ queue'[s][i] = <<>> /\ got'[s][i] = Append(g, x.n)
    BY <1>6, <1>16 DEF Calls, Hears
  <2>2. x.n \in 1..MaxItems /\ x.n = Len(g) + Len(<<>>) + 1 /\ Numbered(g, <<>>)
    BY <1>2, <1>8, <1>16, <2>1
  <2>3. /\ Numbered(Append(g, x.n), <<>>)
        /\ Len(Append(g, x.n)) + Len(<<>>) = Len(g) + Len(<<>>) + 1
    <3> HIDE DEF g
    <3> QED BY <1>3, <2>2, NumberedCalled
  <2> QED BY <1>9, <1>16, <2>1, <2>3
<1>17. CASE Queues(s, i, x) /\ IsData(x, i)
  <2>1. Hears(s, i) /\ queue'[s][i] = Append(q, x.n) /\ got'[s][i] = g
    BY <1>17 DEF Queues, Hears
  <2>2. x.n \in Item /\ x.n = a + 1 /\ Numbered(g, q)
    BY <1>2, <1>8, <1>17, <2>1
  <2>3. /\ Numbered(g, Append(q, x.n)) /\ Len(g) + Len(Append(q, x.n)) = a + 1
    <3> HIDE DEF g, q
    <3> QED BY <1>3, <2>2, NumberedQueued DEF a
  <2> QED BY <1>9, <1>17, <2>1, <2>3
<1> QED BY <1>4, <1>10, <1>11, <1>12, <1>13, <1>14, <1>15, <1>16, <1>17 DEF Moves

LEMMA LossOther ==
  ASSUME CInv, NEW s \in Side, NEW x, Acts(s, x), NEW t \in Side, t = Peer(s),
         ~finished'[t], NEW i \in Id \ Again', Hears(t, i)'
  PROVE  InOrder(t, i)'
<1> DEFINE a == Len(got[t][i]) + Len(queue[t][i])
           b == Len(sent[Peer(t)][i])
<1>1. ~finished[t] /\ i \in Id \ Again
  BY ActsFacts
<1>2. Hears(t, i) => InOrder(t, i)
  BY <1>1 DEF CInv, LossInv
<1>3. wire[t] \in Seq(Message) /\ a \in Nat /\ b \in Nat
  BY Kind DEF CInv, AInv
<1>4. Stays(t, i) /\ Peer(t) = s
  BY ActsFacts DEF Acts
<1>5. InOrder(t, i)
  BY <1>2, <1>4 DEF Hears, Stays
<1>6. CASE wire'[t] = wire[t] /\ sent'[s] = sent[s]
  BY <1>4, <1>5, <1>6 DEF InOrder, Stays
<1>7. ASSUME NEW m \in Message, wire'[t] = Append(wire[t], m), Says(s, m, i)
      PROVE  InOrder(t, i)'
  <2>1. CASE IsData(m, i)
    <3>1. m.n = b + 1 /\ Len(sent'[s][i]) = b + 1
      BY <1>4, <1>7, <2>1 DEF Says
    <3>2. Stream(wire[t], i, a, b) /\ a =< b
      BY <1>5 DEF InOrder
    <3> HIDE DEF a, b
    <3>3. Stream(Append(wire[t], m), i, a, b + 1)
      BY <1>3, <2>1, <3>1, <3>2, StreamMore
    <3>4. a =< b + 1
      BY <1>3, <3>2
    <3>5. Stream(wire'[t], i, a, Len(sent'[s][i])) /\ a =< Len(sent'[s][i])
      BY <1>7, <3>1, <3>3, <3>4
    <3> QED BY <1>4, <1>5, <3>5 DEF InOrder, Stays, a
  <2>2. CASE ~IsData(m, i)
    <3>1. Len(sent'[s][i]) = b
      BY <1>4, <1>7, <2>2 DEF Says
    <3>2. Stream(wire[t], i, a, b) /\ a =< b
      BY <1>5 DEF InOrder
    <3> HIDE DEF a, b
    <3>3. Stream(Append(wire[t], m), i, a, b)
      BY <1>3, <2>2, <3>2, StreamOther
    <3>4. Stream(wire'[t], i, a, Len(sent'[s][i])) /\ a =< Len(sent'[s][i])
      BY <1>7, <3>1, <3>2, <3>3
    <3> QED BY <1>4, <1>5, <3>4 DEF InOrder, Stays, a
  <2> QED BY <2>1, <2>2
<1> QED BY <1>6, <1>7, WireOther

LEMMA LossKept ==
  ASSUME CInv, NEW s \in Side, NEW x, Acts(s, x)
  PROVE  LossInv'
  BY LossOwn, LossOther, ActsFacts DEF LossInv

LEMMA DeafKept ==
  ASSUME CInv, IInv', AInv', NEW s \in Side, NEW x, Acts(s, x)
  PROVE  DeafInv'
<1> SUFFICES ASSUME NEW t \in Side, ~finished'[t], NEW i \in Id \ Again', NEW k \in DOMAIN wire'[t],
                    wire'[t][k].code = "close", wire'[t][k].id = i, callback'[Peer(t)][i],
                    Opens(t, i)'
             PROVE  \E j \in 1..k - 1 : Parts(wire'[t][j], i)
  BY DEF DeafInv, Deaf, Parts
<1>1. ~finished[t] /\ i \in Id \ Again /\ Peer(t) \in Side
  BY ActsFacts, PeerFacts
<1>2. wire[t] \in Seq(Message)
  BY DEF CInv, AInv, IInv, Typing
<1>3. \A l \in DOMAIN wire[t] :
        /\ wire[t][l].code = "close" /\ wire[t][l].id = i /\ callback[Peer(t)][i] /\ Opens(t, i)
        => \E j \in 1..l - 1 : Parts(wire[t][j], i)
  BY <1>1 DEF CInv, DeafInv, Deaf
<1>4. \A l \in DOMAIN wire[t] : wire[t][l] \in On(t)
  BY DEF On, Range
<1>5. \A m \in On(t) : LoadsThen(t, m, i) => Loads(t, m, i)
  BY StillLoads DEF Loads, LoadsThen, Carried
<1>6. state'[t][i] = "opened" \/ (state'[t][i] = "new" /\ \E m \in On(t)' : LoadsThen(t, m, i))
  BY DEF Opens, Loads, LoadsThen, Carried
<1>7. CASE t = s
  <2>1. /\ On(s)' \subseteq On(s)
        /\ \/ x = Nothing /\ wire'[s] = wire[s]
           \/ wire[s] # <<>> /\ x = Head(wire[s]) /\ x \in On(s) /\ wire'[s] = Tail(wire[s])
    BY <1>7, WireOwn
  <2>2. callback[Peer(t)][i]
    BY <1>7 DEF Acts, Stays
  <2>3. Moves(s, i, x)
    BY DEF Acts
  <2>4. wire'[t][k] \in On(t)
    BY <1>7, <2>1 DEF On, Range
  <2>5. i \notin again'[s]
    BY ActsFacts
  <2>6. ~(state[s][i] = "new" /\ i = count[s])
    <3> SUFFICES ASSUME state[s][i] = "new", i = count[s] PROVE FALSE
      OBVIOUS
    <3>1. i \in Numbers(s) /\ i >= i
      BY <1>1, <1>7 DEF CInv, UnusedInv, Id
    <3> QED BY <1>1, <1>7, <2>4, <3>1 DEF CInv, UnusedInv
  <2>7. state'[s][i] = "new" => state[s][i] = "new"
    BY <2>3 DEF Moves, Stays, Comes, Reads, Turns, Stops, Goes, Forgets, Calls, Queues
  <2>8. state'[s][i] = "opened" => state[s][i] = "opened" \/ (state[s][i] = "new" /\ Loads(s, x, i))
    BY <2>3, <2>5, <2>6 DEF Moves, Stays, Comes, Reads, Turns, Stops, Goes, Forgets, Calls, Queues
  <2>9. Opens(t, i)
    <3>1. CASE state'[s][i] = "new" /\ \E m \in On(t)' : LoadsThen(t, m, i)
      BY <1>5, <1>7, <2>1, <2>7, <3>1 DEF Opens
    <3>2. CASE state'[s][i] = "opened"
      <4>1. ~Loads(s, Nothing, i)
        BY DEF Loads, Nothing
      <4> QED BY <1>7, <2>1, <2>8, <3>2, <4>1 DEF Opens
    <3> QED BY <1>6, <1>7, <3>1, <3>2
  <2>10. CASE wire'[s] = wire[s]
    BY <1>3, <1>7, <2>2, <2>9, <2>10
  <2>11. CASE wire[s] # <<>> /\ x = Head(wire[s]) /\ wire'[s] = Tail(wire[s])
    <3>1. /\ Len(wire[s]) \in Nat /\ DOMAIN wire[s] = 1..Len(wire[s])
          /\ DOMAIN wire'[s] = 1..Len(wire[s]) - 1 /\ x = wire[s][1] /\ 1 \in DOMAIN wire[s]
          /\ \A l \in DOMAIN wire'[s] : l + 1 \in DOMAIN wire[s] /\ wire'[s][l] = wire[s][l + 1]
      BY <1>2, <1>7, <2>11, TailFacts
    <3>2. PICK j \in 1..(k + 1) - 1 : Parts(wire[s][j], i)
      BY <1>3, <1>7, <2>2, <2>9, <3>1
    <3>3. CASE j = 1
      <4>1. Parts(x, i)
        BY <3>1, <3>2, <3>3
      <4>2. state'[s][i] # "opened"
        BY <2>3, <4>1 DEF Moves
      <4>3. PICK m \in On(t)' : LoadsThen(t, m, i)
        BY <1>6, <1>7, <4>2
      <4>4. PICK l \in DOMAIN wire'[s] : m = wire'[s][l]
        BY <1>7 DEF On, Range
      <4>5. 1 < l + 1 /\ l + 1 \in DOMAIN wire[s] /\ wire[s][l + 1] = m
        BY <3>1, <4>4
      <4>6. ~Behind(s, wire[s][1], wire[s][l + 1], i)
        BY <1>1, <1>7, <3>1, <4>1, <4>5 DEF CInv, BehindInv
      <4>7. Loads(s, m, i)
        BY <1>4, <1>5, <1>7, <4>3, <4>5
      <4> QED BY <4>5, <4>6, <4>7 DEF Behind
    <3>4. CASE j # 1
      <4>1. j - 1 \in 1..k - 1 /\ j - 1 \in DOMAIN wire'[s] /\ (j - 1) + 1 = j
        BY <1>7, <3>1, <3>4
      <4>2. wire'[s][j - 1] = wire[s][j]
        BY <3>1, <4>1
      <4> QED BY <1>7, <3>2, <4>1, <4>2
    <3> QED BY <3>3, <3>4
  <2> QED BY <2>1, <2>10, <2>11
<1>8. CASE t = Peer(s)
  <2>1. Peer(t) = s /\ state'[t][i] = state[t][i]
    BY <1>8, ActsFacts DEF Acts, Stays
  <2>2. \* A callback is new only on an open channel, that nothing has ended.
        (\E m \in On(t) : Parts(m, i)) => callback[s][i]
    <3> SUFFICES ASSUME NEW m \in On(t), Parts(m, i), ~callback[s][i] PROVE FALSE
      OBVIOUS
    <3>1. state[s][i] = "opened"
      BY <2>1, Over
    <3> QED BY <1>1, <2>1, <3>1 DEF CInv, PartedInv, Closed
  <2>3. CASE wire'[t] = wire[t] /\ On(t)' = On(t)
    <3>1. Opens(t, i)
      BY <1>5, <1>6, <2>1, <2>3 DEF Opens
    <3>2. callback[s][i]
      BY <1>4, <2>2, <2>3 DEF Parts
    <3> QED BY <1>3, <2>1, <2>3, <3>1, <3>2
  <2>4. ASSUME NEW m \in Message, wire'[t] = Append(wire[t], m), finished[s] => Late(s, m),
               On(t)' = On(t) \cup {m}, Says(s, m, i)
        PROVE  \E j \in 1..k - 1 : Parts(wire'[t][j], i)
    <3>1. /\ Len(wire[t]) \in Nat /\ DOMAIN wire[t] = 1..Len(wire[t])
          /\ DOMAIN wire'[t] = 1..Len(wire[t]) + 1 /\ wire'[t][Len(wire[t]) + 1] = m
          /\ \A l \in DOMAIN wire[t] : wire'[t][l] = wire[t][l]
      BY <1>2, <2>4, AppendFacts
    <3>3. CASE k \in DOMAIN wire[t]
      <4>1. /\ wire[t][k] \in On(t) /\ Parts(wire[t][k], i)
            /\ wire[t][k].code = "close" /\ wire[t][k].id = i
        BY <1>4, <3>1, <3>3 DEF Parts
      <4>2. state[s][i] \in Closed /\ callback[s][i]
        BY <1>1, <2>1, <2>2, <4>1 DEF CInv, PartedInv
      <4>3. ~LoadsThen(t, m, i)
        BY <1>8, <2>4, <4>2 DEF Says, Closed
      <4>4. Opens(t, i)
        BY <1>5, <1>6, <2>1, <2>4, <4>3 DEF Opens
      <4>5. PICK j \in 1..k - 1 : Parts(wire[t][j], i)
        BY <1>3, <2>1, <3>3, <4>1, <4>2, <4>4
      <4>6. j \in DOMAIN wire[t]
        BY <3>1, <3>3
      <4> QED BY <3>1, <4>5, <4>6
    <3>4. CASE k = Len(wire[t]) + 1
      <4>1. m.code = "close" /\ m.id = i
        BY <3>1, <3>4
      <4>2. state[s][i] \in Closed
        BY <2>1, <2>4, <4>1 DEF Says
      <4>3. Opens(t, i)
        <5>1. ~LoadsThen(t, m, i)
          BY <4>1 DEF LoadsThen
        <5> QED BY <1>5, <1>6, <2>1, <2>4, <5>1 DEF Opens
      <4>7. Connected
        BY <1>1, <1>8, <2>4, <4>1, ActsFacts DEF Connected, Late
      <4>4. Promise(t, i)
        BY <1>1, <2>1, <4>2, <4>3, <4>7 DEF CInv, AInv, Agreement, TellInv
      <4>5. PICK j \in DOMAIN wire[t] : Parts(wire[t][j], i)
        BY <4>4 DEF Promise
      <4>6. j \in 1..k - 1
        BY <3>1, <3>4
      <4> QED BY <3>1, <4>5, <4>6
    <3> QED BY <3>1, <3>3, <3>4
  <2> QED BY <1>8, <2>3, <2>4, WireOther
<1> QED BY <1>7, <1>8, ActsFacts

-----------------------------------------------------------------------------
(* The invariant, and what it says.                                        *)

LEMMA InitCInv == ASSUME AInv, Kinds, Init PROVE CInv
<1>1. \A s \in Side : \A i \in Id :
        /\ state[s][i] = "new" /\ items[s][i] = TRUE /\ queue[s][i] = <<>> /\ got[s][i] = <<>>
        /\ sent[s][i] = <<>> /\ callback[s][i] = FALSE
  BY DEF Init, ForAll
<1>2. \A s \in Side : wire[s] = <<>> /\ On(s) = {} /\ DOMAIN wire[s] = {}
  <2>1. DOMAIN <<>> = {}
    OBVIOUS
  <2> QED BY <2>1 DEF Init, On, Range
<1>3. OwnInv
  BY <1>1 DEF OwnInv
<1>4. UnusedInv
  <2>1. \A s \in Side : StartCount(s) \in Numbers(s)
    BY NumbersFacts
  <2> QED BY <1>1, <1>2, <2>1, PeerFacts DEF UnusedInv, Init
<1>5. BehindInv /\ SendonlyInv /\ PartedInv /\ DeafInv
  BY <1>1, <1>2 DEF BehindInv, SendonlyInv, PartedInv, Dropped, DeafInv, Deaf
<1>6. LossInv
  <2> SUFFICES ASSUME NEW s \in Side, NEW i \in Id PROVE InOrder(s, i)
    BY DEF LossInv
  <2>1. Len(<<>>) = 0 /\ 0 + 0 = 0 /\ 0 =< 0 /\ 0 + 1 .. 0 = {} /\ 1 .. 0 = {}
    OBVIOUS
  <2>2. DataAt(wire[s], i) = {}
    BY <1>2 DEF DataAt
  <2>3. /\ got[s][i] = <<>> /\ queue[s][i] = <<>> /\ sent[Peer(s)][i] = <<>>
        /\ Len(got[s][i]) + Len(queue[s][i]) = 0 /\ Len(sent[Peer(s)][i]) = 0
    BY <1>1, <2>1, PeerFacts
  <2>4. Numbered(<<>>, <<>>)
    BY <2>1 DEF Numbered
  <2>5. Stream(wire[s], i, 0, 0)
    BY <2>1, <2>2 DEF Stream
  <2> QED BY <2>1, <2>3, <2>4, <2>5 DEF InOrder
<1> QED BY <1>3, <1>4, <1>5, <1>6 DEF CInv

LEMMA StutterCInv == ASSUME CInv, AInv', Kinds', UNCHANGED vars PROVE CInv'
<1> USE DEF vars
<1>1. OwnInv'
  BY DEF CInv, OwnInv, In, Again
<1>2. UnusedInv'
  BY DEF CInv, UnusedInv, On, Loads, Carried
<1>3. BehindInv'
  BY DEF CInv, BehindInv, Behind, Loads, Carried, Again
<1>4. SendonlyInv'
  BY DEF CInv, SendonlyInv, On, Again
<1>5. PartedInv'
  BY DEF CInv, PartedInv, Dropped, On, Connected, Again
<1>6. LossInv'
  BY DEF CInv, LossInv, Hears, InOrder, Again
<1>7. DeafInv'
  BY DEF CInv, DeafInv, Deaf, Opens, On, Loads, Carried, Again
<1> QED BY <1>1, <1>2, <1>3, <1>4, <1>5, <1>6, <1>7 DEF CInv

LEMMA CInvariant == ASSUME Early = FALSE PROVE Spec => []CInv
<1>1. CInv /\ Next /\ AInv' /\ Kinds' => CInv'
  <2> SUFFICES ASSUME CInv, Next, AInv', Kinds' PROVE CInv'
    OBVIOUS
  <2>1. PICK s \in Side : \E x : Acts(s, x)
    BY EveryActs
  <2>2. PICK x : Acts(s, x)
    BY <2>1
  <2>3. IInv'
    BY DEF AInv
  <2> QED BY <2>2, <2>3, OwnKept, UnusedKept, BehindKept, SendonlyKept, PartedKept, LossKept,
          DeafKept DEF CInv
<1> QED BY <1>1, InitCInv, StutterCInv, Invariant, KindsInvariance, PTL DEF Spec

\* On a channel that both sides keep, or whose receiver left a callback behind, what was
\* received, is queued and is still to come is what was sent, in the same order: for any number
\* of channels, items, messages and calls, and with channels that are sent over others, as long
\* as users call reconfigure() only on channels that the peer knows.
THEOREM NothingLostHolds == ASSUME Early = FALSE PROVE Spec => []NothingLost
<1>1. CInv => NothingLost
  <2> SUFFICES ASSUME CInv, NEW s \in Side, NEW i \in Id \ Again, ~finished[s],
                      state[s][i] = "opened" \/ callback[s][i]
               PROVE  LET here == got[s][i] \o queue[s][i] IN
                      /\ \A k \in DOMAIN here : here[k] = k
                      /\ {wire[s][k].n : k \in Coming(s, i)}
                           = Len(here) + 1 .. Len(sent[Peer(s)][i])
                      /\ \A j, k \in Coming(s, i) : j < k => wire[s][j].n < wire[s][k].n
    BY DEF NothingLost
  <2> DEFINE g == got[s][i]
             q == queue[s][i]
  <2>1. Numbered(g, q) /\ Stream(wire[s], i, Len(g) + Len(q), Len(sent[Peer(s)][i]))
    BY DEF CInv, LossInv, Hears, InOrder
  <2>2. g \in Seq(Item) /\ q \in Seq(Item) /\ wire[s] \in Seq(Message)
    <3>1. \A r \in Seq(1..MaxItems) : r \in Seq(Item)
      BY ProtocolAssumption DEF Item
    <3> QED BY <3>1, Kind DEF CInv, AInv
  <2>3. Coming(s, i) = DataAt(wire[s], i)
    <3>1. DOMAIN wire[s] = 1..Len(wire[s]) /\ Len(wire[s]) \in Nat
      BY <2>2
    <3>2. ASSUME NEW k \in DOMAIN wire[s], IsData(wire[s][k], i), NEW j \in 1..k - 1
          PROVE  ~Parts(wire[s][j], i)
      <4>1. j \in DOMAIN wire[s] /\ j < k
        BY <3>1
      <4> QED BY <3>2, <4>1 DEF CInv, BehindInv, Behind
    <3> QED BY <3>2 DEF Coming, DataAt, IsData
  <2> HIDE DEF g, q
  <2>4. /\ Len(g) \in Nat /\ Len(q) \in Nat /\ Len(g \o q) = Len(g) + Len(q)
        /\ \A k \in 1..Len(g) : (g \o q)[k] = g[k]
        /\ \A k \in 1..Len(q) : (g \o q)[Len(g) + k] = q[k]
        /\ DOMAIN (g \o q) = 1..Len(g) + Len(q)
    BY <2>2
  <2>5. ASSUME NEW k \in DOMAIN (g \o q) PROVE (g \o q)[k] = k
    <3>1. CASE k \in 1..Len(g)
      BY <2>1, <2>4, <3>1 DEF Numbered
    <3>2. CASE k \notin 1..Len(g)
      <4>1. k - Len(g) \in 1..Len(q) /\ k = Len(g) + (k - Len(g))
        BY <2>4, <3>2
      <4> QED BY <2>1, <2>4, <4>1 DEF Numbered
    <3> QED BY <3>1, <3>2
  <2> QED BY <2>1, <2>3, <2>4, <2>5 DEF Stream, g, q
<1> QED BY <1>1, CInvariant, PTL

\* A close message that ends an open channel comes from a side that listens no more: also when
\* the sender has dropped the channel, or got it over another one.
THEOREM CloseMeansDeafHolds == ASSUME Early = FALSE PROVE Spec => CloseMeansDeaf
<1>1. ASSUME CInv, NEW s \in Side, NEW i \in Id \ Again, state[s][i] = "opened",
             HandleEnd(s, "close", "closed"), state'[s][i] = "closed"
      PROVE  ~callback[Peer(s)][i]
  <2>1. ~finished[s] /\ wire[s] # <<>> /\ Head(wire[s]).code = "close"
    BY <1>1 DEF HandleEnd, Arrives
  <2>2. 1 \in DOMAIN wire[s] /\ Head(wire[s]) = wire[s][1] /\ Head(wire[s]) \in Message
    BY <1>1, <2>1, TailFacts DEF CInv, AInv, IInv, Typing
  <2>3. Head(wire[s]).id = i
    <3>1. state \in Table(State)
      BY <1>1 DEF CInv, AInv, IInv, Typing
    <3>2. CASE state[s][Head(wire[s]).id] = "opened"
      BY <1>1, <3>1, <3>2 DEF HandleEnd, Ends, Set, Table
    <3>3. CASE state[s][Head(wire[s]).id] # "opened"
      BY <1>1, <3>3 DEF HandleEnd
    <3> QED BY <3>2, <3>3
  <2>4. Deaf(s, i) /\ Opens(s, i)
    BY <1>1, <2>1 DEF CInv, DeafInv, Opens
  <2>5. 1..1 - 1 = {}
    OBVIOUS
  <2> QED BY <2>1, <2>2, <2>3, <2>4, <2>5 DEF Deaf
<1>2. CInv => \A s \in Side : \A i \in Id \ Again :
                state[s][i] = "opened" /\ HandleEnd(s, "close", "closed") /\ state'[s][i] = "closed"
                  => ~callback[Peer(s)][i]
  BY <1>1
<1> QED BY <1>2, CInvariant, PTL DEF CloseMeansDeaf
=============================================================================
