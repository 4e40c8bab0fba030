-------------------------------- MODULE Proxy --------------------------------
(***************************************************************************)
(* A gateway "via" another one, gateway_io.py: the master's ProxyIO writes *)
(* to a channel, serve_proxy_io() at the forwarder passes the items on to  *)
(* the pipe of a sub process and its messages back, and a second channel   *)
(* carries the control calls.                                              *)
(*                                                                         *)
(* The forwarder has two threads: its receiver, which runs the callbacks   *)
(* forward_to_sub() and control(), and the one that executes               *)
(* serve_proxy_io().  The master has the receiver of the proxied gateway   *)
(* and three callers: exit(), and the two functions that terminate() gives *)
(* to safe_terminate(), here "job" and "kill".                             *)
(*                                                                         *)
(* Items are numbered.  To the sub: 0 is the source, -1 is                 *)
(* GATEWAY_TERMINATE; to the master: 0 is the byte that answers.           *)
(***************************************************************************)
EXTENDS Integers, Sequences

CONSTANTS Cap,       \* what a pipe of the sub holds
          MaxSend, MaxReply,
          Concurrent \* may terminate() start while exit() of another thread is under way?

ASSUME ProxyAssumption ==
  Cap \in Nat \ {0} /\ MaxSend \in Nat /\ MaxReply \in Nat /\ Concurrent \in BOOLEAN

VARIABLES
  cpc, sent,             \* makegateway() at the master, messages its users sent
  upc,                   \* [Caller -> where it stands]
  rpc, mgot,             \* the receiver of the proxied gateway, replies it has read
  ioq, iochan,           \* items for the master, and how that channel ended there
  ctlq, ctlchan,         \* answers of control(), and how the control channel ended
  wire,                  \* messages from the master that the forwarder has not handled
  fpc, fdata,            \* the receiver of the forwarder, the item it writes to the sub
  fmain, fchan,          \* serve_proxy_io(), and its proxy channel
  spc, subgot, replied,  \* the sub, items it has read, replies it has written
  toSub, fromSub, stdin  \* its pipes; its input: "open", "broken" or "closed"

master == <<cpc, sent, upc, rpc, mgot>>
queues == <<ioq, iochan, ctlq, ctlchan>>
forwarder == <<fpc, fdata, fmain, fchan>>
sub == <<spc, subgot, replied>>
pipes == <<toSub, fromSub, stdin>>
vars == <<master, queues, wire, forwarder, sub, pipes>>

Caller == {"exit", "job", "kill"}
Terminate == -1

Init ==
  /\ cpc = "start" /\ sent = 0 /\ upc = [c \in Caller |-> "idle"] /\ rpc = "run" /\ mgot = 0
  /\ ioq = <<>> /\ iochan = "open" /\ ctlq = <<>> /\ ctlchan = "open" /\ wire = <<>>
  /\ fpc = "idle" /\ fdata = 0 /\ fmain = "spec" /\ fchan = "open"
  /\ spc = "absent" /\ subgot = 0 /\ replied = -1
  /\ toSub = <<>> /\ fromSub = <<>> /\ stdin = "open"

Alive == fmain # "dead"

-----------------------------------------------------------------------------
(* The master *)

Post(chan, data) == wire' = Append(wire, <<chan, data>>)

\* remote_exec(gateway_io), the specification, the control channel, the source.
StartProxy ==
  /\ cpc = "start"
  /\ IF Alive THEN cpc' = "answer" /\ Post("io", 0) ELSE cpc' = "raised" /\ UNCHANGED wire
  /\ UNCHANGED <<sent, upc, rpc, mgot, queues, forwarder, sub, pipes>>

\* ProxyIO.read() of a channel that has ended gives nothing, which is not b"1"; one that ended
\* with an error raises it.
ReadAnswer ==
  /\ cpc = "answer"
  /\ \/ ioq # <<>> /\ cpc' = "made" /\ ioq' = Tail(ioq)
     \/ ioq = <<>> /\ iochan # "open" /\ cpc' = "raised" /\ UNCHANGED ioq
  /\ UNCHANGED <<sent, upc, rpc, mgot, iochan, ctlq, ctlchan, wire, forwarder, sub, pipes>>

Send ==
  /\ cpc = "made" /\ upc["exit"] = "idle" /\ sent < MaxSend /\ iochan = "open"
  /\ sent' = sent + 1 /\ Post("io", sent')
  /\ UNCHANGED <<cpc, upc, rpc, mgot, queues, forwarder, sub, pipes>>

Go(c, from, to) == upc[c] = from /\ upc' = [upc EXCEPT ![c] = to]

\* exit(): a channel that has ended makes it give up.
SendTerminate ==
  /\ cpc = "made"
  /\ IF iochan = "open" THEN Go("exit", "idle", "send") /\ Post("io", Terminate)
     ELSE Go("exit", "idle", "raised") /\ UNCHANGED wire
  /\ UNCHANGED <<cpc, sent, rpc, mgot, queues, forwarder, sub, pipes>>

StartJob ==
  /\ upc["exit"] \in {"returned", "raised"} \cup IF Concurrent THEN {"send", "receive"} ELSE {}
  /\ Go("job", "idle", "join")
  /\ UNCHANGED <<cpc, sent, rpc, mgot, queues, wire, forwarder, sub, pipes>>

\* gw.join(), then gw._io.wait().
Joined ==
  /\ rpc = "ended" /\ Go("job", "join", "send")
  /\ UNCHANGED <<cpc, sent, rpc, mgot, queues, wire, forwarder, sub, pipes>>

\* The timeout of safe_terminate().
TimeOut ==
  /\ upc["job"] \in {"join", "send", "receive"} /\ Go("kill", "idle", "send")
  /\ UNCHANGED <<cpc, sent, rpc, mgot, queues, wire, forwarder, sub, pipes>>

Event(c) == CASE c = "exit" -> "CLOSE_WRITE" [] c = "job" -> "WAIT" [] OTHER -> "KILL"

\* _controll()
ControlSend(c) ==
  /\ IF ctlchan = "open" THEN Go(c, "send", "receive") /\ Post("control", Event(c))
     ELSE Go(c, "send", "raised") /\ UNCHANGED wire
  /\ UNCHANGED <<cpc, sent, rpc, mgot, queues, forwarder, sub, pipes>>

\* Whoever comes first takes an answer: they bear no mark.  The end of the channel is EOFError,
\* or once RemoteError, which exit() does not catch.
ControlReceive(c) ==
  /\ \/ ctlq # <<>> /\ Go(c, "receive", "returned") /\ ctlq' = Tail(ctlq)
     \/ ctlq = <<>> /\ ctlchan # "open" /\ Go(c, "receive", "raised") /\ UNCHANGED ctlq
  /\ UNCHANGED <<cpc, sent, rpc, mgot, ioq, iochan, ctlchan, wire, forwarder, sub, pipes>>

\* The receiver ends at the end of the channel; close_read() raises NotImplementedError, so
\* that it does not come to close_write().
ReceiverRead ==
  /\ cpc = "made" /\ rpc = "run"
  /\ \/ ioq # <<>> /\ ioq' = Tail(ioq) /\ mgot' = Head(ioq) /\ UNCHANGED rpc
     \/ ioq = <<>> /\ iochan # "open" /\ rpc' = "ended" /\ UNCHANGED <<ioq, mgot>>
  /\ UNCHANGED <<cpc, sent, upc, iochan, ctlq, ctlchan, wire, forwarder, sub, pipes>>

-----------------------------------------------------------------------------
(* The forwarder's receiver thread *)

Handles(chan) ==
  /\ Alive /\ fpc = "idle" /\ fmain # "spec" /\ wire # <<>> /\ Head(wire)[1] = chan
  /\ wire' = Tail(wire)

\* Items for a channel that is closed are dropped.
ForwardToSub ==
  /\ Handles("io")
  /\ IF fchan = "open" THEN fpc' = "write" /\ fdata' = Head(wire)[2] ELSE UNCHANGED <<fpc, fdata>>
  /\ UNCHANGED <<fmain, fchan, master, queues, sub, pipes>>

EndProxy(how) == fchan' = "closed" /\ iochan' = IF iochan = "open" THEN how ELSE iochan

\* A full pipe blocks the thread.  A broken one raises in the callback, which closes the
\* channel with an error; what could not be written stays in the buffer of the file.
WriteToSub ==
  /\ fpc = "write" /\ fpc' = "idle"
  /\ \/ /\ stdin = "open" /\ spc # "dead" /\ Len(toSub) < Cap
        /\ toSub' = Append(toSub, fdata) /\ UNCHANGED <<fchan, iochan, stdin>>
     \/ /\ stdin # "open" \/ spc = "dead"
        /\ EndProxy("error") /\ stdin' = IF stdin = "open" THEN "broken" ELSE stdin
        /\ UNCHANGED toSub
  /\ UNCHANGED <<fdata, fmain, master, ioq, ctlq, ctlchan, wire, sub, fromSub>>

\* The control channel of the forwarder has no callback any more when one of its calls raised.
Reply(a) == ctlq' = (IF ctlchan = "open" THEN Append(ctlq, a) ELSE ctlq) /\ UNCHANGED ctlchan
HandlesEvent(e) == Handles("control") /\ Head(wire)[2] = e

\* close() flushes the buffer and raises again if that fails.
ControlCloseWrite ==
  /\ HandlesEvent("CLOSE_WRITE") /\ stdin' = "closed"
  /\ IF stdin = "broken" THEN ctlchan' = "error" /\ UNCHANGED ctlq ELSE Reply("None")
  /\ UNCHANGED <<master, ioq, iochan, forwarder, sub, toSub, fromSub>>

\* Mutant: kill() only closes the input of the sub.
ControlKillCloses ==
  /\ HandlesEvent("KILL")
  /\ stdin' = "closed" /\ Reply("None")
  /\ UNCHANGED <<master, ioq, iochan, forwarder, sub, toSub, fromSub>>

ControlKill ==
  /\ HandlesEvent("KILL")
  /\ spc' = (IF ctlchan = "open" THEN "dead" ELSE spc) /\ Reply("None")
  /\ UNCHANGED <<master, ioq, iochan, forwarder, subgot, replied, pipes>>

\* Mutant: wait() polls.
ControlWaitPolls ==
  /\ HandlesEvent("WAIT") /\ Reply("ret")
  /\ UNCHANGED <<master, ioq, iochan, forwarder, sub, pipes>>

\* Popen.wait() in the receiver thread: nothing else is handled until the sub has ended.
ControlWait ==
  /\ HandlesEvent("WAIT") /\ fpc' = IF ctlchan = "open" THEN "wait" ELSE fpc
  /\ UNCHANGED <<master, queues, fdata, fmain, fchan, sub, pipes>>

Waited ==
  /\ fpc = "wait" /\ spc = "dead" /\ fpc' = "idle" /\ Reply("ret")
  /\ UNCHANGED <<master, ioq, iochan, wire, fdata, fmain, fchan, sub, pipes>>

-----------------------------------------------------------------------------
(* serve_proxy_io() *)

\* No such interpreter is an error of the remote execution.
CreateSub ==
  /\ fmain = "spec" /\ cpc # "start"
  /\ \/ spc' = "starting" /\ fmain' = "loop" /\ UNCHANGED <<fchan, iochan>>
     \/ fmain' = "ended" /\ EndProxy("error") /\ UNCHANGED spc
  /\ UNCHANGED <<master, ioq, ctlq, ctlchan, wire, fpc, fdata, subgot, replied, pipes>>

\* The byte that answers, or a message; the channel is closed when a write to the sub failed.
ForwardToMaster ==
  /\ fmain = "loop" /\ fromSub # <<>> /\ fromSub' = Tail(fromSub)
  /\ IF fchan = "open" THEN ioq' = Append(ioq, Head(fromSub)) /\ UNCHANGED fmain
     ELSE fmain' = "ended" /\ UNCHANGED ioq
  /\ UNCHANGED <<master, iochan, ctlq, ctlchan, wire, fpc, fdata, fchan, sub, toSub, stdin>>

\* Mutant: leaves the loop when the process has ended.
EndOfSubAtOnce ==
  /\ fmain = "loop" /\ spc \in {"closing", "dead"}
  /\ fmain' = "ended" /\ EndProxy("closed")
  /\ UNCHANGED <<master, ioq, ctlq, ctlchan, wire, fpc, fdata, sub, pipes>>

\* Mutant: an EOFError in place of the answer goes unnoticed.
EndOfSubUnnoticed ==
  /\ fmain = "loop" /\ fromSub = <<>> /\ spc \in {"closing", "dead"}
  /\ fmain' = "ended"
  /\ IF replied >= 0 THEN EndProxy("closed") ELSE UNCHANGED <<fchan, iochan>>
  /\ UNCHANGED <<master, ioq, ctlq, ctlchan, wire, fpc, fdata, sub, pipes>>

\* EOFError, also in place of the answer: executetask() closes the channel without an error.
EndOfSub ==
  /\ fmain = "loop" /\ fromSub = <<>> /\ spc \in {"closing", "dead"}
  /\ fmain' = "ended" /\ EndProxy("closed")
  /\ UNCHANGED <<master, ioq, ctlq, ctlchan, wire, fpc, fdata, sub, pipes>>

\* The forwarder's process dies.
ForwarderDies ==
  /\ Alive /\ fmain' = "dead" /\ fpc' = "idle" /\ EndProxy("closed")
  /\ ctlchan' = (IF ctlchan = "open" THEN "closed" ELSE ctlchan)
  /\ wire' = <<>> /\ stdin' = "closed" /\ fromSub' = <<>>
  /\ UNCHANGED <<master, ioq, ctlq, fdata, sub, toSub>>

-----------------------------------------------------------------------------
(* The sub process *)

\* It runs the source and answers, reads messages, ends at GATEWAY_TERMINATE.
SubRead ==
  /\ toSub # <<>> /\ toSub' = Tail(toSub)
  /\ \/ /\ spc = "starting" /\ spc' = "up" /\ replied' = 0
        /\ fromSub' = IF Alive THEN Append(fromSub, 0) ELSE fromSub
        /\ UNCHANGED subgot
     \/ /\ spc = "up" /\ UNCHANGED <<replied, fromSub>>
        /\ IF Head(toSub) = Terminate THEN spc' = "closing" /\ UNCHANGED subgot
           ELSE subgot' = Head(toSub) /\ UNCHANGED spc
  /\ UNCHANGED <<master, queues, wire, forwarder, stdin>>

SubReply ==
  /\ spc = "up" /\ replied < MaxReply /\ Alive /\ Len(fromSub) < Cap
  /\ replied' = replied + 1 /\ fromSub' = Append(fromSub, replied')
  /\ UNCHANGED <<master, queues, wire, forwarder, spc, subgot, toSub, stdin>>

\* It reads no more and does not end.
SubStuck ==
  /\ spc = "up" /\ spc' = "stuck"
  /\ UNCHANGED <<master, queues, wire, forwarder, subgot, replied, pipes>>

\* The end of its input.
SubEof ==
  /\ spc \in {"starting", "up"} /\ toSub = <<>> /\ stdin = "closed" /\ spc' = "closing"
  /\ UNCHANGED <<master, queues, wire, forwarder, subgot, replied, pipes>>

\* It dies; one that has closed its output may also stay.
SubDies ==
  /\ spc \in {"starting", "up", "stuck", "closing"} /\ spc' = "dead"
  /\ UNCHANGED <<master, queues, wire, forwarder, subgot, replied, pipes>>

Next ==
  \/ StartProxy \/ ReadAnswer \/ Send \/ SendTerminate \/ StartJob \/ Joined \/ TimeOut
  \/ \E c \in Caller : ControlSend(c) \/ ControlReceive(c)
  \/ ReceiverRead
  \/ ForwardToSub \/ WriteToSub \/ ControlCloseWrite \/ ControlKill \/ ControlWait \/ Waited
  \/ CreateSub \/ ForwardToMaster \/ EndOfSub \/ ForwarderDies
  \/ SubRead \/ SubReply \/ SubStuck \/ SubEof \/ SubDies

\* Threads go on where they can.  Nobody has to call exit(), no timeout has to pass, and the
\* sub need not end.
Fairness ==
  /\ WF_vars(StartProxy) /\ WF_vars(ReadAnswer) /\ WF_vars(ReceiverRead) /\ WF_vars(Joined)
  /\ \A c \in Caller : WF_vars(ControlSend(c)) /\ WF_vars(ControlReceive(c))
  /\ WF_vars(ForwardToSub) /\ WF_vars(WriteToSub) /\ WF_vars(ControlCloseWrite)
  /\ WF_vars(ControlKill) /\ WF_vars(ControlWait) /\ WF_vars(Waited)
  /\ WF_vars(CreateSub) /\ WF_vars(ForwardToMaster) /\ WF_vars(EndOfSub)
  /\ WF_vars(SubRead) /\ WF_vars(SubEof)

Spec == Init /\ [][Next]_vars
FairSpec == Spec /\ Fairness

-----------------------------------------------------------------------------
(* Properties *)

\* When the proxied gateway has seen a regular end of its connection, it has read every reply
\* that the sub had written, also those written just before the sub ended.
RepliesComplete == rpc = "ended" /\ iochan = "closed" /\ Alive => mgot = replied

\* A wait() that has returned means that the process has ended, although the answers of the
\* control channel are not told apart; so terminate() waits for proxied processes, too.
WaitMeansEnded == upc["job"] = "returned" => spc = "dead" \/ ~Alive

\* The receiver of the forwarder is in the write to a sub that does not read, or waits for one
\* that does not end: control() is called no more.
Blocked == fpc \in {"write", "wait"} /\ spc \in {"stuck", "closing"}

\* Calls of the master return, however the sub and the forwarder end: makegateway() with
\* "via"; and exit(), wait() and kill(), where a kill() reaches a sub that is stuck, unless the
\* receiver of the forwarder is blocked.
CallsReturn ==
  /\ cpc = "answer" ~> cpc \in {"made", "raised"}
  /\ \/ /\ \A c \in Caller : upc[c] = "receive" ~> upc[c] \in {"returned", "raised"}
        /\ upc["kill"] = "receive" ~> spc = "dead" \/ ~Alive
     \/ <>[]Blocked
=============================================================================
