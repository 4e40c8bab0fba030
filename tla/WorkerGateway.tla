---------------------------- MODULE WorkerGateway ----------------------------
(***************************************************************************)
(* The process at the far end of a gateway: WorkerGateway of               *)
(* gateway_base.py.  Its receiver thread hands each CHANNEL_EXEC to the    *)
(* execution pool (WorkerPool), of which the main thread is the primary    *)
(* thread; executetask() runs the user's code; and when the connection     *)
(* ends the receiver thread brings the process down, by waiting, by an     *)
(* interrupt, and at last by os._exit().                                   *)
(*                                                                         *)
(* The main_thread_only backend has one more event, called the gate here:  *)
(* _executetask_complete.  The receiver thread passes it before it calls   *)
(* spawn(), and refuses the request when it stays closed for a second.     *)
(***************************************************************************)
EXTENDS Naturals, FiniteSets

CONSTANTS
  MaxRequests, \* bound: the requests of the peer, for each backend considered
  Receiver,    \* the receiver thread
  None         \* Python's None

\* The backends with a primary thread.
Kinds == DOMAIN MaxRequests

\* The requests, and the tasks made of them, in the order of their arrival.
Task == UNION {1..MaxRequests[k] : k \in Kinds}

ASSUME GatewayAssumption ==
  /\ Kinds \subseteq {"thread", "main_thread_only"}
  /\ MaxRequests \in [Kinds -> Nat]
  /\ None \notin Task /\ None # Receiver

VARIABLES
  running, shuttingdown, waitall_events, ready, primary_task, lock, phase,
  threads, ppc, reply, cpc, want, waits, before, kind,  \* of the pool
  gate,    \* _executetask_complete.is_set()
  rpc,     \* where the receiver thread stands
  request, \* the request it handles, or has handled last
  stage,   \* how far executetask() has come
  answer,  \* the message that closed the channel of each request
  broken,  \* is the peer gone?
  sigint,  \* has the process an interrupt to deliver?
  exit,    \* how the process ended
  failed   \* history: the tasks whose executetask() did not reach its end

pool == <<running, shuttingdown, waitall_events, ready, primary_task, lock, phase,
          threads, ppc, reply, cpc, want, waits, before, kind>>
task == <<gate, stage, answer, failed>>
process == <<broken, sigint, exit>>
vars == <<pool, rpc, request, task, process>>

Pool == INSTANCE WorkerPool WITH Caller <- {Receiver}, Timeouts <- TRUE, MaxWaits <- 2

\* Its codes for the parts of executetask(): the user's code, channel.close() with
\* and without an error, and the setting of the event.
Stage == {"none", "user", "closing", "failing", "interrupted", "setting", "ended"}

TypeOK ==
  /\ Pool!TypeOK
  /\ gate \in BOOLEAN
  /\ rpc \in {"loop", "gate", "refuse", "spawn", "finish", "shutdown", "wait5",
              "signal", "wait10", "kill", "close", "done"}
  /\ request \in 0..MaxRequests[kind]
  /\ stage \in [Task -> Stage]
  /\ \A t \in Task : stage[t] \notin {"none", "ended"} => phase[t] = "executing"
  /\ answer \in [Task -> {"none", "ok", "error", "interrupted", "refused"}]
  /\ broken \in BOOLEAN
  /\ sigint \in BOOLEAN
  /\ exit \in {"no", "normal", "interrupted", "killed"}
  /\ failed \in SUBSET Task

\* serve() sets the event and starts the receiver thread.
Init ==
  /\ Pool!Init
  /\ gate = TRUE
  /\ rpc = "loop"
  /\ request = 0
  /\ stage = [t \in Task |-> "none"]
  /\ answer = [t \in Task |-> "none"]
  /\ broken = FALSE
  /\ sigint = FALSE
  /\ exit = "no"
  /\ failed = {}

-----------------------------------------------------------------------------
(* The receiver thread: requests.                                          *)

\* The factory is finished: all channels are closed for receiving.
Finished == rpc \in {"shutdown", "wait5", "signal", "wait10", "kill", "close", "done"}

At(here) == rpc = here /\ cpc[Receiver] = "idle"
Goto(there) == rpc' = there

ReceiveExec ==
  /\ At("loop")
  /\ request < MaxRequests[kind]
  /\ request' = request + 1
  /\ Goto(IF kind = "main_thread_only" THEN "gate" ELSE "spawn")
  /\ UNCHANGED <<pool, task, process>>

\* Mutant: the event stays set.
PassGateOpen ==
  /\ At("gate")
  /\ gate
  /\ Goto("spawn")
  /\ UNCHANGED <<pool, request, task, process>>

\* The event is set: clear it and spawn.
PassGate ==
  /\ At("gate")
  /\ gate
  /\ gate' = FALSE
  /\ Goto("spawn")
  /\ UNCHANGED <<pool, request, stage, answer, failed, process>>

\* Mutant: the result of wait(timeout=1) is ignored.
GateTimeoutSpawns ==
  /\ At("gate")
  /\ ~gate
  /\ Goto("spawn")
  /\ UNCHANGED <<pool, request, task, process>>

\* A second has passed.
GateTimeout ==
  /\ At("gate")
  /\ ~gate
  /\ Goto("refuse")
  /\ UNCHANGED <<pool, request, task, process>>

\* Mutant: the request is dropped.
RefuseSilently ==
  /\ At("refuse")
  /\ Goto("loop")
  /\ UNCHANGED <<pool, request, task, process>>

\* channel.close(MAIN_THREAD_ONLY_DEADLOCK_TEXT) ...
Refuse ==
  /\ At("refuse")
  /\ answer' = [answer EXCEPT ![request] = "refused"]
  /\ Goto("loop")
  /\ UNCHANGED <<pool, request, gate, stage, failed, process>>

\* ... raises OSError when the peer is gone, which ends the receiver loop.
RefuseFails ==
  /\ At("refuse")
  /\ broken
  /\ Goto("finish")
  /\ UNCHANGED <<pool, request, task, process>>

SpawnTask ==
  /\ At("spawn")
  /\ Pool!Spawn(Receiver, request)
  /\ Goto("loop")
  /\ UNCHANGED <<request, task, process>>

\* spawn() waits for the task before; At("loop") is not true meanwhile.
HandOver ==
  /\ Pool!HandOver(Receiver)
  /\ UNCHANGED <<rpc, request, task, process>>

-----------------------------------------------------------------------------
(* The receiver thread: the end.                                           *)

PeerDies ==
  /\ ~broken
  /\ broken' = TRUE
  /\ UNCHANGED <<pool, rpc, request, task, sigint, exit>>

\* GATEWAY_TERMINATE or the end of file.
ReceiveEnd(eof) ==
  /\ At("loop")
  /\ eof => broken
  /\ Goto("finish")
  /\ UNCHANGED <<pool, request, task, process>>

Proceed(from, to) ==
  /\ At(from)
  /\ Goto(to)
  /\ UNCHANGED <<pool, request, task, process>>

FinishedReceiving == Proceed("finish", "shutdown")

\* _terminate_execution(): trigger_shutdown(), and waitall(5.0).
TriggerShutdown ==
  /\ At("shutdown")
  /\ Pool!TriggerShutdown(Receiver)
  /\ Goto("wait5")
  /\ UNCHANGED <<request, task, process>>

Waiting == rpc \in {"wait5", "wait10"}

WaitAllAtOnce ==
  /\ Waiting /\ At(rpc)
  /\ lock = None
  /\ running = {}
  /\ Goto("close")
  /\ UNCHANGED <<pool, request, task, process>>

WaitAll ==
  /\ Waiting
  /\ Pool!WaitAll(Receiver)
  /\ UNCHANGED <<rpc, request, task, process>>

WaitAllTrue ==
  /\ Pool!WaitAllTrue(Receiver)
  /\ Goto("close")
  /\ UNCHANGED <<request, task, process>>

\* Mutant: the result of waitall(5.0) is ignored.
WaitAllFalseIgnored ==
  /\ Pool!WaitAllFalse(Receiver)
  /\ Goto("close")
  /\ UNCHANGED <<request, task, process>>

\* After five seconds an interrupt, after ten more os._exit().
WaitAllFalse ==
  /\ Pool!WaitAllFalse(Receiver)
  /\ Goto(IF rpc = "wait5" THEN "signal" ELSE "kill")
  /\ UNCHANGED <<request, task, process>>

SendSigint ==
  /\ At("signal")
  /\ sigint' = TRUE
  /\ Goto("wait10")
  /\ UNCHANGED <<pool, request, task, broken, exit>>

\* Mutant: no os._exit() at the end.
KillNot == Proceed("kill", "close")

Kill ==
  /\ At("kill")
  /\ exit' = "killed"
  /\ UNCHANGED <<pool, rpc, request, task, broken, sigint>>

\* The io is closed, and the pseudo pool of the receiver thread lets join() go.
CloseIO == Proceed("close", "done")

-----------------------------------------------------------------------------
(* The main thread.                                                        *)

PrimaryStep ==
  /\ Pool!PrimaryStep
  /\ UNCHANGED <<rpc, request, task, process>>

MainExecutes(t) == ppc = "perform" /\ reply = t /\ phase[t] = "executing"

\* KeyboardInterrupt in the user's code, which may swallow it.
InterruptUser(t) ==
  /\ sigint
  /\ MainExecutes(t)
  /\ stage[t] = "user"
  /\ sigint' = FALSE
  /\ stage' \in {stage, [stage EXCEPT ![t] = "interrupted"]}
  /\ UNCHANGED <<pool, rpc, request, gate, answer, failed, broken, exit>>

\* KeyboardInterrupt in the rest of executetask(): Reply.run() catches it.
InterruptTask(t) ==
  /\ sigint
  /\ MainExecutes(t)
  /\ stage[t] \notin {"none", "user", "ended"}
  /\ sigint' = FALSE
  /\ stage' = [stage EXCEPT ![t] = "ended"]
  /\ failed' = failed \cup {t}
  /\ UNCHANGED <<pool, rpc, request, gate, answer, broken, exit>>

\* KeyboardInterrupt anywhere else: serve() swallows it, and the process ends.
InterruptServe ==
  /\ sigint
  /\ ~\E t \in Task : MainExecutes(t) /\ stage[t] \notin {"none", "ended"}
  /\ exit' = "interrupted"
  /\ UNCHANGED <<pool, rpc, request, task, broken, sigint>>

\* join() returns, and serve() with it.
Join ==
  /\ ppc = "left"
  /\ rpc = "done"
  /\ exit' = "normal"
  /\ UNCHANGED <<pool, rpc, request, task, broken, sigint>>

-----------------------------------------------------------------------------
(* executetask(), in a thread of the task's own or in the main thread.     *)

Stays == UNCHANGED <<rpc, request, process>>

BeginTask(t) ==
  /\ Pool!Run(t)
  /\ stage' = [stage EXCEPT ![t] = "user"]
  /\ UNCHANGED <<gate, answer, failed>> /\ Stays

AtStage(t, from, to) ==
  /\ phase[t] = "executing"
  /\ stage[t] = from
  /\ stage' = [stage EXCEPT ![t] = to]

\* The user's code ends, with or without an exception.  After the end of receiving
\* every exception but KeyboardInterrupt is taken for a consequence of it.
EndUser(t) ==
  /\ \/ AtStage(t, "user", "closing")
     \/ AtStage(t, "user", IF Finished THEN "closing" ELSE "failing")
     \/ AtStage(t, "user", "interrupted")
  /\ UNCHANGED <<pool, gate, answer, failed>> /\ Stays

\* channel.close(): no message when the channel is closed for receiving.
CloseWith(t, text) ==
  answer' = IF Finished THEN answer ELSE [answer EXCEPT ![t] = text]

\* Mutant: executetask() returns after channel.close().
CloseOkReturns(t) ==
  /\ AtStage(t, "closing", "ended")
  /\ CloseWith(t, "ok")
  /\ UNCHANGED <<pool, gate, failed>> /\ Stays

CloseOk(t) ==
  /\ AtStage(t, "closing", "setting")
  /\ CloseWith(t, "ok")
  /\ UNCHANGED <<pool, gate, failed>> /\ Stays

\* The error paths leave executetask() before the event is set.
CloseError(t) ==
  /\ \/ AtStage(t, "failing", "ended") /\ CloseWith(t, "error")
     \/ AtStage(t, "interrupted", "ended") /\ CloseWith(t, "interrupted")
  /\ failed' = failed \cup {t}
  /\ UNCHANGED <<pool, gate>> /\ Stays

\* The peer is gone: OSError.
CloseFails(t) ==
  /\ broken /\ ~Finished
  /\ \E from \in {"closing", "failing", "interrupted"} : AtStage(t, from, "ended")
  /\ failed' = failed \cup {t}
  /\ UNCHANGED <<pool, gate, answer>> /\ Stays

OpenGate(t) ==
  /\ AtStage(t, "setting", "ended")
  /\ gate' = TRUE
  /\ UNCHANGED <<pool, answer, failed>> /\ Stays

\* Mutant: the result is there before executetask() has returned.
EndTaskEarly(t) ==
  /\ Pool!SetResult(t) \/ Pool!Stop(t) \/ Pool!Release(t)
  /\ UNCHANGED task /\ Stays

\* executetask() has returned: the rest of Reply.run() and _perform_spawn().
EndTask(t) ==
  /\ stage[t] = "ended"
  /\ Pool!SetResult(t) \/ Pool!Stop(t) \/ Pool!Release(t)
  /\ UNCHANGED task /\ Stays

-----------------------------------------------------------------------------
Alive == exit = "no"

ReceiverStep ==
  \/ PassGate \/ GateTimeout \/ Refuse \/ RefuseFails \/ SpawnTask \/ HandOver
  \/ FinishedReceiving \/ TriggerShutdown \/ WaitAllAtOnce \/ WaitAll
  \/ WaitAllTrue \/ WaitAllFalse \/ SendSigint \/ Kill \/ CloseIO

MainStep == PrimaryStep \/ InterruptServe \/ Join

TaskStep(t) ==
  \/ BeginTask(t) \/ CloseOk(t) \/ CloseError(t) \/ CloseFails(t) \/ OpenGate(t)
  \/ EndTask(t) \/ InterruptUser(t) \/ InterruptTask(t)

Environment ==
  \/ PeerDies \/ ReceiveExec \/ ReceiveEnd(FALSE)
  \/ \E t \in Task : EndUser(t)

Next ==
  Alive /\ (ReceiverStep \/ MainStep \/ ReceiveEnd(TRUE) \/ Environment
            \/ \E t \in Task : TaskStep(t))

\* Threads are scheduled, timeouts pass, the end of file is noticed.  The user's code
\* need not end.
Fairness ==
  /\ WF_vars(Alive /\ ReceiverStep)
  /\ WF_vars(Alive /\ ReceiveEnd(TRUE))
  /\ WF_vars(Alive /\ MainStep)
  /\ \A t \in Task : WF_vars(Alive /\ TaskStep(t))

Spec == Init /\ [][Next]_vars

FairSpec == Spec /\ Fairness

-----------------------------------------------------------------------------
(* Safety.                                                                 *)

\* The gate keeps the receiver thread away from the deadlock of spawn(); and when it waits in
\* spawn(), it waits for a task that has opened the gate, never for the user's code.
NeverOvertaken ==
  /\ ~Pool!Overtaken
  /\ cpc[Receiver] = "handover" => stage[primary_task] = "ended"

\* A process that ends without force has executed all it was given.
NormalExitMeansIdle ==
  exit = "normal" => \A t \in Task : phase[t] \in {"new", "released"}

\* "If the timeout expires then it should be practically impossible to report a
\* false-positive": a request is refused only while another one executes ...
NoFalseRefusal == [][GateTimeout => running # {}]_vars

\* ... or after a task has left executetask() before its end.
NoFalseRefusalUnlessFailed == [][GateTimeout => running # {} \/ failed # {}]_vars

-----------------------------------------------------------------------------
(* Liveness.                                                               *)

\* Without its peer, the process ends, whatever the user's code does.
ProcessEnds == broken ~> exit # "no"

Requested(t) == request = t /\ rpc \in {"gate", "spawn"}

\* The peer gets an answer to each request, as long as it listens and the user's code
\* ends: its channel is closed with the result, the error, or the refusal.
RequestsAnswered ==
  \A t \in Task :
    Requested(t) ~> (answer[t] # "none" \/ broken \/ Finished \/ [](stage[t] = "user"))
=============================================================================
