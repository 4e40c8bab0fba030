----------------------------- MODULE Proxy_proof -----------------------------
(***************************************************************************)
(* Proofs about Proxy, for pipes of every size and any number of messages  *)
(* and replies: a regular end of a proxied connection comes behind all     *)
(* replies; and a wait() that returns has waited for the process.          *)
(***************************************************************************)
EXTENDS Proxy, TLAPS

TypeInv ==
  /\ mgot \in Int /\ replied \in Int
  /\ ioq \in Seq(Int) /\ fromSub \in Seq(Int)

Coming == Len(ioq) + Len(fromSub)

\* Nothing can get lost on the way to the master.
Linked == Alive /\ iochan # "error"

\* The replies under way are numbered to the last one, and the master has read the ones before;
\* the number -1 is in front of the byte that answers.
ChainInv ==
  Linked =>
    /\ \A i \in 1..Len(ioq) : ioq[i] = replied - Coming + i
    /\ \A i \in 1..Len(fromSub) : fromSub[i] = replied - Len(fromSub) + i
    /\ replied - Coming = IF cpc = "made" THEN mgot ELSE -1

\* Until there is a sub it has written nothing, and it answers first.
SubInv == spc \in {"absent", "starting"} => replied = -1

\* Both ends of the channel end together, regularly only when the sub has ended and all that it
\* wrote was forwarded; nothing comes after the end.
EndInv ==
  /\ fchan = "open" <=> iochan = "open"
  /\ fchan \in {"open", "closed"} /\ iochan \in {"open", "closed", "error"}
  /\ iochan = "closed" /\ Alive => fromSub = <<>> /\ spc \in {"closing", "dead"}
  /\ fmain = "spec" => spc = "absent"
  /\ cpc # "made" => rpc = "run" /\ mgot = 0
  /\ rpc = "ended" => ioq = <<>> /\ iochan # "open"

IInv == TypeInv /\ ChainInv /\ SubInv /\ EndInv

-----------------------------------------------------------------------------
LEMMA TailFacts ==
  ASSUME NEW s \in Seq(Int), s # <<>>
  PROVE  /\ Tail(s) \in Seq(Int) /\ Len(Tail(s)) = Len(s) - 1 /\ Len(s) \in Nat \ {0}
         /\ \A i \in 1..Len(s) - 1 : Tail(s)[i] = s[i + 1]
         /\ Head(s) = s[1] /\ Head(s) \in Int
  OBVIOUS

LEMMA AppendFacts ==
  ASSUME NEW s \in Seq(Int), NEW e \in Int
  PROVE  /\ Append(s, e) \in Seq(Int) /\ Len(Append(s, e)) = Len(s) + 1 /\ Len(s) \in Nat
         /\ \A i \in 1..Len(s) : Append(s, e)[i] = s[i]
         /\ Append(s, e)[Len(s) + 1] = e
  OBVIOUS

LEMMA InitInv == Init => IInv
<1> SUFFICES ASSUME Init PROVE IInv
  OBVIOUS
<1>1. TypeInv /\ SubInv
  BY DEF Init, TypeInv, SubInv
<1>2. ChainInv
  <2>1. Len(ioq) = 0 /\ Len(fromSub) = 0 /\ replied = -1 /\ cpc = "start"
    BY DEF Init
  <2> QED BY <2>1 DEF ChainInv, Coming
<1>3. EndInv
  BY DEF Init, EndInv
<1> QED BY <1>1, <1>2, <1>3 DEF IInv

LEMMA Complete == IInv => RepliesComplete
  BY DEF IInv, TypeInv, ChainInv, EndInv, RepliesComplete, Coming, Linked

\* What the invariant speaks of.
relevant == <<cpc, rpc, mgot, ioq, iochan, fmain, fchan, spc, replied, fromSub>>

LEMMA Irrelevant == IInv /\ UNCHANGED relevant => IInv'
  BY DEF relevant, IInv, TypeInv, ChainInv, SubInv, EndInv, Coming, Linked, Alive

LEMMA IrrelevantStep ==
  ASSUME NEW c \in Caller,
         Send \/ SendTerminate \/ StartJob \/ Joined \/ TimeOut \/ ControlSend(c)
           \/ ControlReceive(c) \/ ForwardToSub \/ ControlCloseWrite \/ ControlWait \/ Waited
  PROVE  UNCHANGED relevant
  BY DEF Send, SendTerminate, StartJob, Joined, TimeOut, ControlSend, ControlReceive, Go, Post,
         ForwardToSub, ControlCloseWrite, ControlWait, Waited, Reply, HandlesEvent, Handles,
         relevant, queues, forwarder, sub, pipes, master

-----------------------------------------------------------------------------
(* The steps of the replies: from the sub to the forwarder, to the master. *)

LEMMA ReadAnswerStep == IInv /\ ReadAnswer => IInv'
<1> SUFFICES ASSUME IInv, ReadAnswer PROVE IInv'
  OBVIOUS
<1> USE DEF IInv, TypeInv, ChainInv, SubInv, EndInv, Coming, Linked, Alive, forwarder, sub, pipes
<1>1. CASE ioq # <<>> /\ cpc' = "made" /\ ioq' = Tail(ioq)
  <2>1. /\ ioq' \in Seq(Int) /\ Len(ioq') = Len(ioq) - 1 /\ Len(ioq) > 0
        /\ \A i \in 1..Len(ioq') : ioq'[i] = ioq[i + 1]
    BY <1>1
  <2> QED BY <1>1, <2>1 DEF ReadAnswer
<1>2. CASE ioq = <<>> /\ cpc' = "raised" /\ UNCHANGED ioq
  BY <1>2 DEF ReadAnswer
<1> QED BY <1>1, <1>2 DEF ReadAnswer

LEMMA ReceiverReadStep == IInv /\ ReceiverRead => IInv'
<1> SUFFICES ASSUME IInv, ReceiverRead PROVE IInv'
  OBVIOUS
<1> USE DEF IInv, TypeInv, ChainInv, SubInv, EndInv, Coming, Linked, Alive, forwarder, sub, pipes
<1>1. CASE ioq # <<>> /\ ioq' = Tail(ioq) /\ mgot' = Head(ioq) /\ UNCHANGED rpc
  <2>1. /\ ioq' \in Seq(Int) /\ Len(ioq') = Len(ioq) - 1 /\ Len(ioq) > 0
        /\ \A i \in 1..Len(ioq') : ioq'[i] = ioq[i + 1]
        /\ Head(ioq) = ioq[1] /\ ioq[1] \in Int
    BY <1>1
  <2> QED BY <1>1, <2>1 DEF ReceiverRead
<1>2. CASE ioq = <<>> /\ iochan # "open" /\ rpc' = "ended" /\ UNCHANGED <<ioq, mgot>>
  BY <1>2 DEF ReceiverRead
<1> QED BY <1>1, <1>2 DEF ReceiverRead

LEMMA ForwardToMasterStep == IInv /\ ForwardToMaster => IInv'
<1> SUFFICES ASSUME IInv, ForwardToMaster PROVE IInv'
  OBVIOUS
<1> DEFINE x == Head(fromSub)
<1>1. /\ fromSub' \in Seq(Int) /\ Len(fromSub') = Len(fromSub) - 1 /\ Len(fromSub) \in Nat \ {0}
      /\ \A i \in 1..Len(fromSub') : fromSub'[i] = fromSub[i + 1]
      /\ x = fromSub[1] /\ x \in Int
  BY TailFacts DEF ForwardToMaster, IInv, TypeInv
<1>2. /\ UNCHANGED <<cpc, rpc, mgot, iochan, fchan, spc, replied>>
      /\ fmain = "loop" /\ fmain' \in {"loop", "ended"} /\ fromSub # <<>>
  BY DEF ForwardToMaster, master, sub
<1> USE DEF IInv, TypeInv, ChainInv, SubInv, EndInv, Coming, Linked, Alive
<1>3. CASE fchan = "open"
  <2>1. ioq' = Append(ioq, x)
    BY <1>3 DEF ForwardToMaster
  <2> HIDE DEF x
  <2>2. /\ ioq' \in Seq(Int) /\ Len(ioq') = Len(ioq) + 1 /\ Len(ioq) \in Nat
        /\ \A i \in 1..Len(ioq) : ioq'[i] = ioq[i]
        /\ ioq'[Len(ioq) + 1] = x
    BY <1>1, <2>1, AppendFacts
  <2>3. TypeInv' /\ SubInv' /\ EndInv'
    BY <1>1, <1>2, <1>3, <2>2
  <2>4. ChainInv'
    <3>1. SUFFICES ASSUME Linked
                   PROVE  /\ \A i \in 1..Len(ioq') : ioq'[i] = replied - Coming' + i
                          /\ \A i \in 1..Len(fromSub') :
                               fromSub'[i] = replied - Len(fromSub') + i
                          /\ replied - Coming' = IF cpc = "made" THEN mgot ELSE -1
      BY <1>2
    <3>2. Coming' = Coming
      BY <1>1, <2>2
    <3>3. x = replied - Len(fromSub) + 1
      BY <1>1, <3>1
    <3>4. ASSUME NEW i \in 1..Len(ioq') PROVE ioq'[i] = replied - Coming' + i
      <4>1. CASE i \in 1..Len(ioq)
        BY <2>2, <3>1, <3>2, <4>1
      <4>2. CASE i = Len(ioq) + 1
        BY <1>1, <2>2, <3>2, <3>3, <4>2
      <4> QED BY <2>2, <4>1, <4>2
    <3>5. \A i \in 1..Len(fromSub') : fromSub'[i] = replied - Len(fromSub') + i
      BY <1>1, <3>1
    <3>6. replied - Coming' = IF cpc = "made" THEN mgot ELSE -1
      BY <3>1, <3>2
    <3> HIDE DEF Coming
    <3> QED BY <3>4, <3>5, <3>6
  <2> QED BY <2>3, <2>4
<1>4. CASE fchan # "open"
  <2>1. ioq' = ioq /\ iochan = "error"
    BY <1>2, <1>4 DEF ForwardToMaster
  <2> QED BY <1>1, <1>2, <1>4, <2>1
<1> QED BY <1>3, <1>4

LEMMA SubWriteStep == IInv /\ (SubRead \/ SubReply) => IInv'
<1> SUFFICES ASSUME IInv, SubRead \/ SubReply PROVE IInv'
  OBVIOUS
<1>1. UNCHANGED <<cpc, rpc, mgot, ioq, iochan, fmain, fchan>>
  BY DEF SubRead, SubReply, master, queues, forwarder
<1>2. /\ spc \in {"starting", "up"}
      /\ \/ UNCHANGED <<replied, fromSub>> /\ spc = "up" /\ spc' \in {"up", "closing"}
         \/ /\ Alive /\ spc' = "up"
            /\ replied' = replied + 1 /\ fromSub' = Append(fromSub, replied')
         \/ ~Alive /\ UNCHANGED fromSub /\ replied' \in {0, replied} /\ spc' \in {"up", "closing"}
  BY DEF SubRead, SubReply, IInv, SubInv
<1> USE DEF IInv, TypeInv, ChainInv, SubInv, EndInv, Coming, Linked, Alive
<1>3. CASE UNCHANGED <<replied, fromSub>> /\ spc = "up" /\ spc' \in {"up", "closing"}
  BY <1>1, <1>3
<1>4. CASE Alive /\ spc' = "up" /\ replied' = replied + 1 /\ fromSub' = Append(fromSub, replied')
  <2>1. /\ fromSub' \in Seq(Int) /\ Len(fromSub') = Len(fromSub) + 1 /\ Len(fromSub) \in Nat
        /\ \A i \in 1..Len(fromSub) : fromSub'[i] = fromSub[i]
        /\ fromSub'[Len(fromSub) + 1] = replied'
    BY <1>4, AppendFacts
  <2>2. TypeInv' /\ SubInv' /\ EndInv'
    BY <1>1, <1>2, <1>4, <2>1
  <2>3. ChainInv'
    <3>1. SUFFICES ASSUME Linked
                   PROVE  /\ \A i \in 1..Len(ioq) : ioq[i] = replied' - Coming' + i
                          /\ \A i \in 1..Len(fromSub') :
                               fromSub'[i] = replied' - Len(fromSub') + i
                          /\ replied' - Coming' = IF cpc = "made" THEN mgot ELSE -1
      BY <1>1
    <3>2. replied' - Coming' = replied - Coming
      BY <1>1, <1>4, <2>1
    <3>3. replied' - Len(fromSub') = replied - Len(fromSub)
      BY <1>4, <2>1
    <3>4. \A i \in 1..Len(fromSub') : fromSub'[i] = replied' - Len(fromSub') + i
      BY <1>4, <2>1, <3>1, <3>3
    <3>5. \A i \in 1..Len(ioq) : ioq[i] = replied' - Coming' + i
      BY <3>1, <3>2
    <3>6. replied' - Coming' = IF cpc = "made" THEN mgot ELSE -1
      BY <3>1, <3>2
    <3> HIDE DEF Coming
    <3> QED BY <3>4, <3>5, <3>6
  <2> QED BY <2>2, <2>3
<1>5. CASE ~Alive /\ UNCHANGED fromSub /\ replied' \in {0, replied} /\ spc' \in {"up", "closing"}
  BY <1>1, <1>2, <1>5
<1> QED BY <1>2, <1>3, <1>4, <1>5

-----------------------------------------------------------------------------
(* The others: they end something.                                         *)

LEMMA EndStep ==
  ASSUME IInv,
         StartProxy \/ WriteToSub \/ ControlKill \/ CreateSub \/ EndOfSub \/ ForwarderDies
           \/ SubStuck \/ SubEof \/ SubDies
  PROVE  IInv'
<1> USE DEF IInv, TypeInv, ChainInv, SubInv, EndInv, Coming, Linked, Alive, master, queues,
            forwarder, sub, pipes, EndProxy
<1>1. CASE StartProxy
  BY <1>1 DEF StartProxy, Post
<1>2. CASE WriteToSub
  BY <1>2 DEF WriteToSub
<1>3. CASE ControlKill
  BY <1>3 DEF ControlKill, HandlesEvent, Handles, Reply
<1>4. CASE CreateSub
  BY <1>4 DEF CreateSub
<1>5. CASE EndOfSub
  BY <1>5 DEF EndOfSub
<1>6. CASE ForwarderDies
  BY <1>6 DEF ForwarderDies
<1>7. CASE SubStuck
  BY <1>7 DEF SubStuck
<1>8. CASE SubEof
  BY <1>8 DEF SubEof
<1>9. CASE SubDies
  BY <1>9 DEF SubDies
<1> QED BY <1>1, <1>2, <1>3, <1>4, <1>5, <1>6, <1>7, <1>8, <1>9

LEMMA Invariance == Spec => []IInv
<1>1. IInv /\ Next => IInv'
  BY Irrelevant, IrrelevantStep, ReadAnswerStep, ReceiverReadStep, ForwardToMasterStep,
     SubWriteStep, EndStep DEF Next, Caller
<1>2. IInv /\ UNCHANGED vars => IInv'
  BY Irrelevant DEF vars, master, queues, forwarder, sub, pipes, relevant
<1> QED BY InitInv, <1>1, <1>2, PTL DEF Spec

\* The end of a connection that goes through another process comes behind all that the sub has
\* written, whatever is read, blocked, killed or dies on the way, unless it is an error.
THEOREM EndComesLast == Spec => []RepliesComplete
  BY Invariance, Complete, PTL

-----------------------------------------------------------------------------
(* The control calls, when terminate() starts after exit() is over.        *)

Events == {"CLOSE_WRITE", "WAIT", "KILL"}
Posted == {"io", "control"} \X (Int \cup Events)

Answers == {"None", "ret"}

\* The i-th message under way is a control call of kind e.
Calls(e, i) == i \in 1..Len(wire) /\ wire[i] = <<"control", e>>
Under(e) == \E i \in Nat : Calls(e, i)

OneClose == \A i, j \in Nat : Calls("CLOSE_WRITE", i) /\ Calls("CLOSE_WRITE", j) => i = j

Over == upc["exit"] \in {"returned", "raised"}

WaitTypes ==
  /\ wire \in Seq(Posted) /\ ctlq \in Seq(Answers) /\ sent \in Nat
  /\ upc \in [Caller -> {"idle", "join", "send", "receive", "returned", "raised"}]

\* terminate() starts after exit(), and its kill() after its wait().
TurnInv ==
  /\ upc["job"] # "idle" => Over
  /\ upc["job"] = "idle" =>
       upc["kill"] = "idle" /\ ~Under("WAIT") /\ ~Under("KILL") /\ fpc # "wait"

\* exit() has left no answer behind: a call of close_write() is either under way or answered.
ExitInv ==
  /\ Under("CLOSE_WRITE") => upc["exit"] = "receive" /\ ctlq = <<>> /\ ctlchan = "open"
  /\ OneClose
  /\ upc["exit"] = "receive" => Len(ctlq) <= 1
  /\ upc["exit"] \in {"idle", "send"} => ctlq = <<>>

\* So each answer to terminate() says that the process has ended.
AnsweredInv ==
  /\ Over /\ ctlq # <<>> => spc = "dead"
  /\ upc["job"] = "returned" => spc = "dead"

WInv == WaitTypes /\ (Alive => TurnInv /\ ExitInv /\ AnsweredInv)

\* What posting and taking a message does to the calls under way.
LEMMA PostFacts ==
  ASSUME WaitTypes, NEW m \in Posted, wire' = Append(wire, m)
  PROVE  /\ wire' \in Seq(Posted)
         /\ \A e \in Events : Under(e)' <=> Under(e) \/ m = <<"control", e>>
         /\ OneClose /\ (m # <<"control", "CLOSE_WRITE">> \/ ~Under("CLOSE_WRITE")) => OneClose'
<1>1. /\ wire' \in Seq(Posted) /\ Len(wire') = Len(wire) + 1 /\ Len(wire) \in Nat
      /\ \A i \in 1..Len(wire) : wire'[i] = wire[i]
      /\ wire'[Len(wire) + 1] = m
  BY DEF WaitTypes
<1>2. \A e \in Events : \A i \in Nat :
        Calls(e, i)' <=> Calls(e, i) \/ (i = Len(wire) + 1 /\ m = <<"control", e>>)
  <2> TAKE e \in Events
  <2> TAKE i \in Nat
  <2>1. CASE i \in 1..Len(wire)
    <3>1. wire'[i] = wire[i] /\ i \in 1..Len(wire') /\ i # Len(wire) + 1
      BY <1>1, <2>1
    <3> QED BY <2>1, <3>1 DEF Calls
  <2>2. CASE i = Len(wire) + 1
    <3>1. i \in 1..Len(wire') /\ i \notin 1..Len(wire) /\ wire'[i] = m
      BY <1>1, <2>2
    <3> QED BY <2>2, <3>1 DEF Calls
  <2>3. CASE i \notin 1..Len(wire) /\ i # Len(wire) + 1
    <3>1. i \notin 1..Len(wire')
      BY <1>1, <2>3
    <3> QED BY <2>3, <3>1 DEF Calls
  <2> QED BY <2>1, <2>2, <2>3
<1>3. Len(wire) + 1 \in Nat
  BY <1>1
<1>4. \A e \in Events : Under(e)' <=> Under(e) \/ m = <<"control", e>>
  BY <1>2, <1>3 DEF Under
<1>5. OneClose /\ (m # <<"control", "CLOSE_WRITE">> \/ ~Under("CLOSE_WRITE")) => OneClose'
  BY <1>2 DEF OneClose, Under, Events
<1> QED BY <1>1, <1>4, <1>5

LEMMA TakeFacts ==
  ASSUME WaitTypes, wire # <<>>, wire' = Tail(wire)
  PROVE  /\ wire' \in Seq(Posted) /\ Head(wire) \in Posted
         /\ \A e \in Events : Under(e)' => Under(e)
         /\ \A e \in Events : Head(wire) = <<"control", e>> => Under(e)
         /\ OneClose => OneClose'
         /\ OneClose /\ Head(wire) = <<"control", "CLOSE_WRITE">> => ~Under("CLOSE_WRITE")'
<1>1. /\ wire' \in Seq(Posted) /\ Len(wire') = Len(wire) - 1 /\ Len(wire) \in Nat \ {0}
      /\ \A i \in 1..Len(wire') : wire'[i] = wire[i + 1]
      /\ Head(wire) = wire[1] /\ Head(wire) \in Posted
  BY DEF WaitTypes
<1>2. \A e \in Events : \A i \in Nat : Calls(e, i)' => i # 0 /\ i + 1 \in Nat /\ Calls(e, i + 1)
  BY <1>1 DEF Calls
<1>3. \A e \in Events : Head(wire) = <<"control", e>> => Calls(e, 1)
  BY <1>1 DEF Calls
<1>4. \A e \in Events : Under(e)' => Under(e)
  BY <1>2 DEF Under
<1>5. \A e \in Events : Head(wire) = <<"control", e>> => Under(e)
  BY <1>3 DEF Under
<1>6. OneClose => OneClose'
  <2> SUFFICES ASSUME OneClose, NEW i \in Nat, NEW j \in Nat,
                      Calls("CLOSE_WRITE", i)', Calls("CLOSE_WRITE", j)'
               PROVE  i = j
    BY DEF OneClose
  <2>1. i + 1 = j + 1
    BY <1>2 DEF OneClose, Events
  <2> QED BY <2>1
<1>7. OneClose /\ Head(wire) = <<"control", "CLOSE_WRITE">> => ~Under("CLOSE_WRITE")'
  <2> SUFFICES ASSUME OneClose, Head(wire) = <<"control", "CLOSE_WRITE">>, NEW i \in Nat,
                      Calls("CLOSE_WRITE", i)'
               PROVE  FALSE
    BY DEF Under
  <2>1. i + 1 = 1
    BY <1>2, <1>3 DEF OneClose, Events
  <2>2. i # 0
    BY <1>2 DEF Events
  <2> QED BY <2>1, <2>2
<1> QED BY <1>1, <1>4, <1>5, <1>6, <1>7

LEMMA InitWait == Init => WInv
<1> SUFFICES ASSUME Init PROVE WInv
  OBVIOUS
<1>1. WaitTypes /\ wire = <<>>
  BY DEF Init, WaitTypes, Caller
<1>2. \A e \in Events : ~Under(e)
  BY <1>1 DEF Under, Calls
<1>3. OneClose
  BY <1>1 DEF OneClose, Calls
<1> QED BY <1>1, <1>2, <1>3 DEF Init, WInv, TurnInv, ExitInv, AnsweredInv, Over, Events, Caller

\* The steps that neither post, nor take, nor answer anything.
LEMMA WireSame ==
  ASSUME UNCHANGED wire
  PROVE  (\A e \in Events : Under(e)' <=> Under(e)) /\ (OneClose' <=> OneClose)
BY DEF Under, OneClose, Calls

LEMMA QuietWait ==
  ASSUME IInv, WInv,
         \/ ReadAnswer \/ ReceiverRead \/ WriteToSub \/ CreateSub \/ ForwardToMaster \/ EndOfSub
         \/ SubRead \/ SubReply \/ SubStuck \/ SubEof \/ SubDies \/ UNCHANGED vars
  PROVE  WInv'
<1>1. UNCHANGED <<wire, ctlq, ctlchan, upc, sent>>
  BY DEF ReadAnswer, ReceiverRead, WriteToSub, CreateSub, ForwardToMaster, EndOfSub,
         SubRead, SubReply, SubStuck, SubEof, SubDies, vars, master, queues, forwarder, sub, pipes
<1>2. /\ Alive' => Alive
      /\ fpc' = "wait" => fpc = "wait"
      /\ spc = "dead" => spc' = "dead"
  <2> USE DEF Alive, master, queues, forwarder, sub, pipes
  <2>1. CASE ReadAnswer \/ ReceiverRead \/ UNCHANGED vars
    BY <2>1 DEF ReadAnswer, ReceiverRead, vars
  <2>2. CASE WriteToSub \/ ForwardToMaster \/ EndOfSub
    BY <2>2 DEF WriteToSub, ForwardToMaster, EndOfSub
  <2>3. CASE CreateSub
    BY <2>3 DEF CreateSub, IInv, EndInv
  <2>4. CASE SubRead \/ SubReply \/ SubStuck \/ SubEof \/ SubDies
    BY <2>4 DEF SubRead, SubReply, SubStuck, SubEof, SubDies
  <2> QED BY <2>1, <2>2, <2>3, <2>4
<1> QED BY <1>1, <1>2, WireSame DEF WInv, WaitTypes, TurnInv, ExitInv, AnsweredInv, Over, Events

LEMMA MasterWait ==
  ASSUME WInv, Concurrent = FALSE,
         StartProxy \/ Send \/ SendTerminate \/ StartJob \/ Joined \/ TimeOut
  PROVE  WInv'
<1> USE DEF WInv, WaitTypes, TurnInv, ExitInv, AnsweredInv, Over, Events, Go, Caller, Alive
<1>1. CASE StartJob \/ Joined \/ TimeOut
  BY <1>1, WireSame DEF StartJob, Joined, TimeOut, queues, forwarder, sub
<1>2. CASE StartProxy \/ Send \/ SendTerminate
  <2>1. /\ UNCHANGED <<ctlq, ctlchan, fpc, spc, fmain>> /\ sent' \in Nat
        /\ \/ upc' = upc
           \/ /\ upc["exit"] = "idle"
              /\ \E to \in {"send", "raised"} : upc' = [upc EXCEPT !["exit"] = to]
    BY <1>2 DEF StartProxy, Send, SendTerminate, queues, forwarder, sub
  <2>2. /\ wire' \in Seq(Posted)
        /\ \A e \in Events : Under(e)' <=> Under(e)
        /\ OneClose => OneClose'
    <3>1. UNCHANGED wire \/ \E n \in Int : wire' = Append(wire, <<"io", n>>)
      BY <1>2, <2>1 DEF StartProxy, Send, SendTerminate, Post, Terminate
    <3>2. ASSUME NEW n \in Int, wire' = Append(wire, <<"io", n>>)
          PROVE  /\ wire' \in Seq(Posted)
                 /\ \A e \in Events : Under(e)' <=> Under(e)
                 /\ OneClose => OneClose'
      <4>1. <<"io", n>> \in Posted /\ \A e \in Events : <<"io", n>> # <<"control", e>>
        BY DEF Posted
      <4> QED BY <3>2, <4>1, PostFacts
    <3> QED BY <3>1, <3>2, WireSame
  <2> HIDE DEF Events
  <2>3. "CLOSE_WRITE" \in Events /\ "WAIT" \in Events /\ "KILL" \in Events
    BY DEF Events
  <2> QED BY <2>1, <2>2, <2>3
<1> QED BY <1>1, <1>2

LEMMA ControlWaits ==
  ASSUME WInv, NEW c \in Caller, ControlSend(c) \/ ControlReceive(c)
  PROVE  WInv'
<1> USE DEF WInv, WaitTypes, TurnInv, ExitInv, AnsweredInv, Over, Go, Caller, Alive
<1>1. "CLOSE_WRITE" \in Events /\ "WAIT" \in Events /\ "KILL" \in Events
  BY DEF Events
<1>2. CASE ControlSend(c) /\ ctlchan # "open"
  BY <1>1, <1>2, WireSame DEF ControlSend, queues, forwarder, sub
<1>3. CASE ControlSend(c) /\ ctlchan = "open"
  <2>1. /\ upc[c] = "send" /\ upc' = [upc EXCEPT ![c] = "receive"]
        /\ wire' = Append(wire, <<"control", Event(c)>>)
        /\ UNCHANGED <<ctlq, ctlchan, fpc, spc, fmain, sent>>
    BY <1>3 DEF ControlSend, Post, queues, forwarder, sub
  <2>2. <<"control", Event(c)>> \in Posted /\ Event(c) \in Events
        /\ \A e \in Events : <<"control", Event(c)>> = <<"control", e>> <=> Event(c) = e
    BY DEF Posted, Events, Event
  <2>3. /\ wire' \in Seq(Posted)
        /\ \A e \in Events : Under(e)' <=> Under(e) \/ Event(c) = e
        /\ OneClose /\ (Event(c) # "CLOSE_WRITE" \/ ~Under("CLOSE_WRITE")) => OneClose'
    BY <1>1, <2>1, <2>2, PostFacts
  <2>4. CASE c = "exit"
    BY <1>1, <1>3, <2>1, <2>3, <2>4 DEF Event
  <2>5. CASE c = "job"
    BY <1>1, <1>3, <2>1, <2>3, <2>5 DEF Event
  <2>6. CASE c = "kill"
    BY <1>1, <1>3, <2>1, <2>3, <2>6 DEF Event
  <2> QED BY <2>4, <2>5, <2>6
<1>4. CASE ControlReceive(c)
  <2>1. /\ upc[c] = "receive"
        /\ \/ ctlq # <<>> /\ upc' = [upc EXCEPT ![c] = "returned"] /\ ctlq' = Tail(ctlq)
           \/ /\ ctlq = <<>> /\ ctlchan # "open"
              /\ upc' = [upc EXCEPT ![c] = "raised"] /\ ctlq' = ctlq
        /\ UNCHANGED <<wire, ctlchan, fpc, spc, fmain, sent>>
    BY <1>4 DEF ControlReceive, forwarder, sub
  <2>2. /\ ctlq' \in Seq(Answers)
        /\ ctlq = <<>> => ctlq' = <<>>
        /\ Len(ctlq) <= 1 => ctlq' = <<>>
    <3>1. CASE ctlq # <<>> /\ ctlq' = Tail(ctlq)
      <4>1. ctlq' \in Seq(Answers) /\ Len(ctlq') = Len(ctlq) - 1 /\ Len(ctlq) \in Nat \ {0}
        BY <3>1
      <4>2. Len(ctlq) <= 1 => Len(ctlq') = 0
        BY <4>1
      <4> QED BY <3>1, <4>1, <4>2
    <3>2. CASE ctlq = <<>> /\ ctlq' = ctlq
      BY <3>2
    <3> QED BY <2>1, <3>1, <3>2
  <2>3. CASE c = "exit"
    BY <1>1, <2>1, <2>2, <2>3, WireSame
  <2>4. CASE c # "exit"
    BY <1>1, <2>1, <2>2, <2>4, WireSame
  <2> QED BY <2>3, <2>4
<1> QED BY <1>2, <1>3, <1>4

LEMMA ReplyFacts ==
  ASSUME WaitTypes, NEW a \in Answers, Reply(a)
  PROVE  /\ ctlq' \in Seq(Answers) /\ ctlchan' = ctlchan
         /\ ctlq = <<>> => Len(ctlq') <= 1
         /\ ctlchan # "open" => ctlq' = ctlq
<1>1. CASE ctlq' = ctlq
  BY <1>1 DEF WaitTypes, Reply
<1>2. CASE ctlq' = Append(ctlq, a) /\ ctlchan = "open"
  <2>1. ctlq' \in Seq(Answers) /\ Len(ctlq') = Len(ctlq) + 1
    BY <1>2 DEF WaitTypes
  <2> QED BY <1>2, <2>1 DEF Reply
<1> QED BY <1>1, <1>2 DEF Reply

LEMMA ForwarderWaits ==
  ASSUME WInv,
         ForwardToSub \/ ControlCloseWrite \/ ControlKill \/ ControlWait \/ Waited
           \/ ForwarderDies
  PROVE  WInv'
<1> USE DEF WInv, WaitTypes, TurnInv, ExitInv, AnsweredInv, Over, Caller, Alive
<1>1. "CLOSE_WRITE" \in Events /\ "WAIT" \in Events /\ "KILL" \in Events
  BY DEF Events
<1>2. CASE ForwardToSub
  BY <1>1, <1>2, TakeFacts DEF ForwardToSub, Handles, master, queues, sub
<1>3. ASSUME NEW e \in Events, HandlesEvent(e)
      PROVE  Head(wire) = <<"control", e>> /\ wire # <<>> /\ wire' = Tail(wire) /\ Under(e)
  BY <1>3, TakeFacts DEF HandlesEvent, Handles, Posted
<1>4. CASE ControlCloseWrite
  <2>1. /\ Under("CLOSE_WRITE") /\ wire # <<>> /\ wire' = Tail(wire)
        /\ Head(wire) = <<"control", "CLOSE_WRITE">>
        /\ UNCHANGED <<upc, fpc, fmain, spc, sent>>
    BY <1>1, <1>3, <1>4 DEF ControlCloseWrite, master, forwarder, sub
  <2>2. ctlq' \in Seq(Answers) /\ (ctlq = <<>> => Len(ctlq') <= 1)
    <3>1. CASE stdin = "broken"
      BY <1>4, <3>1 DEF ControlCloseWrite
    <3>2. CASE stdin # "broken"
      BY <1>4, <3>2, ReplyFacts DEF ControlCloseWrite, Answers
    <3> QED BY <3>1, <3>2
  <2> QED BY <1>1, <2>1, <2>2, TakeFacts
<1>5. CASE ControlKill
  <2>1. /\ Under("KILL") /\ wire # <<>> /\ wire' = Tail(wire)
        /\ Head(wire) = <<"control", "KILL">>
        /\ UNCHANGED <<upc, fpc, fmain, sent>>
        /\ spc' = (IF ctlchan = "open" THEN "dead" ELSE spc)
    BY <1>1, <1>3, <1>5 DEF ControlKill, master, forwarder
  <2>2. /\ ctlq' \in Seq(Answers) /\ ctlchan' = ctlchan
        /\ ctlq = <<>> => Len(ctlq') <= 1
        /\ ctlchan # "open" => ctlq' = ctlq
    BY <1>5, ReplyFacts DEF ControlKill, Answers
  <2> QED BY <1>1, <2>1, <2>2, TakeFacts
<1>6. CASE ControlWait
  BY <1>1, <1>3, <1>6, TakeFacts DEF ControlWait, master, queues, sub
<1>7. CASE Waited
  <2>1. /\ fpc = "wait" /\ fpc' = "idle" /\ spc = "dead"
        /\ UNCHANGED <<upc, wire, fmain, spc, sent>>
    BY <1>7 DEF Waited, master, sub
  <2>2. ctlq' \in Seq(Answers) /\ ctlchan' = ctlchan
    BY <1>7, ReplyFacts DEF Waited, Answers
  <2> QED BY <1>1, <2>1, <2>2, WireSame
<1>8. CASE ForwarderDies
  BY <1>8 DEF ForwarderDies, master
<1> QED BY <1>2, <1>4, <1>5, <1>6, <1>7, <1>8

\* A wait() that returns has waited, for any number of messages and pipes of every size,
\* as long as terminate() starts when exit() is over.
THEOREM WaitsForTheSub == ASSUME Concurrent = FALSE PROVE Spec => []WaitMeansEnded
<1>1. WInv => WaitMeansEnded
  BY DEF WInv, AnsweredInv, WaitMeansEnded
<1>2. IInv /\ WInv /\ [Next]_vars => WInv'
  BY QuietWait, MasterWait, ControlWaits, ForwarderWaits DEF Next
<1> QED BY <1>1, <1>2, InitWait, Invariance, PTL DEF Spec
=============================================================================
