------------------------ MODULE WorkerGateway_proof ------------------------
(***************************************************************************)
(* Proofs about WorkerGateway, for any number of requests and both kinds   *)
(* of pools: its types, the gate that keeps the receiver thread out of the *)
(* deadlock of spawn(), and the ends of the process that are not forced.   *)
(***************************************************************************)
EXTENDS WorkerGateway, TLAPS

\* The proofs about the pool, for the pool of a worker.
PoolProof == INSTANCE WorkerPool_proof WITH
  Caller <- {Receiver}, Timeouts <- TRUE, MaxWaits <- 2

PoolInv == PoolProof!IInv

\* The types of the gateway's own variables.
OwnTypes ==
  /\ gate \in BOOLEAN
  /\ rpc \in {"loop", "gate", "refuse", "spawn", "finish", "shutdown", "wait5",
              "signal", "wait10", "kill", "close", "done"}
  /\ request \in 0..MaxRequests[kind]
  /\ stage \in [Task -> Stage]
  /\ answer \in [Task -> {"none", "ok", "error", "interrupted", "refused"}]
  /\ broken \in BOOLEAN
  /\ sigint \in BOOLEAN
  /\ exit \in {"no", "normal", "interrupted", "killed"}
  /\ failed \in SUBSET Task

\* executetask() runs while the pool executes the task.
StageInv ==
  \A t \in Task :
    /\ phase[t] \in {"new", "pending"} => stage[t] = "none"
    /\ phase[t] = "executing" => stage[t] # "none"
    /\ phase[t] \in {"resultready", "stopped", "released"} => stage[t] = "ended"

\* A request becomes a task at most once.
RequestInv ==
  /\ \A t \in Task : t > request => phase[t] = "new"
  /\ rpc \in {"gate", "refuse", "spawn"} => request \in Task /\ phase[request] = "new"
  /\ rpc \in {"gate", "refuse"} => kind = "main_thread_only"

Active(t) == phase[t] # "new" /\ stage[t] # "ended"

\* The gate is closed by the one task between spawn() and the end of executetask(); it stays
\* closed behind a task that failed.
GateInv ==
  kind = "main_thread_only" =>
    /\ \A t, u \in Task : Active(t) /\ Active(u) => t = u
    /\ rpc = "spawn" => ~gate
    /\ gate \/ rpc = "spawn" => \A t \in Task : ~Active(t)
    /\ gate \/ rpc = "spawn" \/ failed # {} \/ \E t \in Task : Active(t)

\* Who waits in spawn() waits for a task that has left executetask().
HandOverInv == cpc[Receiver] = "handover" => stage[primary_task] = "ended"

\* The receiver thread waits for all tasks there are, and closes the io when there is none.
EndInv ==
  /\ cpc[Receiver] = "waiting" => Waiting /\ running \subseteq before[Receiver]
  /\ rpc \in {"close", "done"} => running = {}
  /\ exit = "normal" => rpc = "done"

Own == OwnTypes /\ StageInv /\ RequestInv /\ GateInv /\ HandOverInv /\ EndInv

IInv == PoolInv /\ Own

-----------------------------------------------------------------------------
(* What is used of the pool.                                               *)

LEMMA PoolAssumed == PoolProof!PoolAssumption
BY GatewayAssumption DEF PoolProof!PoolAssumption

LEMMA InitPool == Init => PoolInv
<1>1. Init => PoolProof!Init
  BY DEF Init, Pool!Init, PoolProof!Init, Pool!HasPrimary, PoolProof!HasPrimary
<1> QED BY <1>1, PoolProof!InitIInv, PoolAssumed DEF PoolInv

\* A step of the pool, as part of a step of the gateway.
PoolStep ==
  \/ \E t \in Task : Pool!Spawn(Receiver, t) \/ Pool!TaskStep(t)
  \/ Pool!HandOver(Receiver) \/ Pool!TriggerShutdown(Receiver) \/ Pool!WaitAll(Receiver)
  \/ Pool!WaitAllTrue(Receiver) \/ Pool!WaitAllFalse(Receiver)
  \/ Pool!PrimaryStep

LEMMA PoolKeepsInv == PoolInv /\ (PoolStep \/ UNCHANGED pool) => PoolInv'
<1>1. UNCHANGED pool => UNCHANGED PoolProof!vars
  BY DEF pool, PoolProof!vars
<1>2. PoolStep => PoolProof!Next
  BY DEF PoolStep, PoolProof!Next, Pool!PrimaryStep, PoolProof!PrimaryStep, Pool!TaskStep,
         PoolProof!TaskStep, PoolProof!CallerStep, Pool!Spawn, PoolProof!Spawn,
         Pool!SpawnOnPrimary, PoolProof!SpawnOnPrimary, Pool!SpawnBehindPrimary,
         PoolProof!SpawnBehindPrimary, Pool!SpawnThread, PoolProof!SpawnThread, Pool!Accept,
         PoolProof!Accept, Pool!MustQueueForPrimary, PoolProof!MustQueueForPrimary,
         Pool!HasPrimary, PoolProof!HasPrimary, Pool!MainThreadOnly, PoolProof!MainThreadOnly,
         Pool!HandOver, PoolProof!HandOver, Pool!ResultReady, PoolProof!ResultReady,
         Pool!TriggerShutdown, PoolProof!TriggerShutdown, Pool!WaitAll, PoolProof!WaitAll,
         Pool!WaitAllTrue, PoolProof!WaitAllTrue, Pool!WaitAllFalse, PoolProof!WaitAllFalse,
         Pool!Signalled, PoolProof!Signalled, Pool!LeaveWait, PoolProof!LeaveWait, Pool!Run,
         PoolProof!Run, Pool!SetResult, PoolProof!SetResult, Pool!Stop, PoolProof!Stop,
         Pool!RunStep, PoolProof!RunStep, Pool!Advance, PoolProof!Advance, Pool!Release,
         PoolProof!Release, Pool!Performs, PoolProof!Performs, Pool!PrimaryWake,
         PoolProof!PrimaryWake, Pool!PrimaryRead, PoolProof!PrimaryRead, Pool!PrimaryRecheck,
         PoolProof!PrimaryRecheck
<1> QED BY <1>1, <1>2, PoolProof!StepIInv, PoolAssumed DEF PoolInv

\* The invariant of the pool, for a pool with one caller.
LEMMA PoolFacts ==
  ASSUME PoolInv
  PROVE  /\ Pool!TypeOK
         /\ running =
              {t \in Task : phase[t] \in {"pending", "executing", "resultready", "stopped"}}
         /\ primary_task # None => phase[primary_task] # "new"
         /\ kind \in Kinds
         /\ phase \in [Task -> Pool!Phase]
         /\ primary_task \in Task \cup {None}
         /\ cpc \in [{Receiver} -> {"idle", "handover", "waiting"}]
         /\ before \in [{Receiver} -> SUBSET Task]
         /\ cpc[Receiver] = "waiting" /\ Pool!Signalled(Receiver)
              => \A t \in before[Receiver] : phase[t] = "released"
         /\ cpc[Receiver] = "handover" => primary_task \in Task
         /\ Pool!Overtaken => /\ cpc[Receiver] = "handover"
                              /\ phase[primary_task] = "pending"
<1> USE DEF PoolInv, PoolProof!IInv
<1>1. Pool!TypeOK
  BY DEF PoolProof!TypeOK, Pool!TypeOK, Pool!Phase, PoolProof!Phase, Pool!Unfinished,
         PoolProof!Unfinished
<1>2. running = {t \in Task : phase[t] \in {"pending", "executing", "resultready", "stopped"}}
  BY DEF PoolProof!RunningInv, PoolProof!Unfinished
<1>3. primary_task # None => phase[primary_task] # "new"
  BY DEF PoolProof!TaskInv
<1>4. cpc[Receiver] = "waiting" /\ Pool!Signalled(Receiver)
              => \A t \in before[Receiver] : phase[t] = "released"
  BY DEF PoolProof!WaitallSound, Pool!Signalled, PoolProof!Signalled
<1>5. cpc[Receiver] = "handover" => /\ primary_task \in Task /\ ready
                                    /\ ppc # "left"
  BY <1>1 DEF PoolProof!LockInv, PoolProof!PrimaryInv, Pool!TypeOK
<1>6. Pool!Overtaken => cpc[Receiver] = "handover" /\ phase[primary_task] = "pending"
  <2> SUFFICES ASSUME Pool!Overtaken
               PROVE  cpc[Receiver] = "handover" /\ phase[primary_task] = "pending"
    OBVIOUS
  <2>1. lock = Receiver
    BY <1>1 DEF Pool!Overtaken, Pool!TypeOK
  <2>2. cpc[Receiver] = "handover"
    BY <2>1 DEF PoolProof!LockInv
  <2> QED BY <1>5, <2>2, GatewayAssumption DEF PoolProof!TaskInv, Pool!Overtaken
<1> QED BY <1>1, <1>2, <1>3, <1>4, <1>5, <1>6 DEF Pool!TypeOK

-----------------------------------------------------------------------------
(* The invariant holds at the start, and every step keeps it.             *)

LEMMA InitOwn == Init => Own
<1> SUFFICES ASSUME Init PROVE Own
  OBVIOUS
<1>1. kind \in Kinds /\ MaxRequests[kind] \in Nat
  BY GatewayAssumption DEF Init, Pool!Init, Kinds
<1>2. gate \in BOOLEAN /\ broken \in BOOLEAN /\ sigint \in BOOLEAN
  BY Zenon DEF Init
<1>3. OwnTypes /\ StageInv
  BY <1>1, <1>2 DEF Init, Pool!Init, OwnTypes, StageInv, Stage
<1>4. RequestInv /\ GateInv /\ HandOverInv /\ EndInv
  BY GatewayAssumption DEF Init, Pool!Init, RequestInv, GateInv, Active, HandOverInv, EndInv
<1> QED BY <1>3, <1>4 DEF Own

\* A step of the gateway is a step of its pool, or none.
LEMMA PoolMoves == RequestInv /\ [Next]_vars => PoolStep \/ UNCHANGED pool
<1> SUFFICES ASSUME RequestInv, [Next]_vars PROVE PoolStep \/ UNCHANGED pool
  OBVIOUS
<1>1. CASE UNCHANGED vars
  BY <1>1 DEF vars
<1>2. CASE ReceiverStep
  BY <1>2 DEF ReceiverStep, PassGate, GateTimeout, Refuse, RefuseFails, SpawnTask, HandOver,
     FinishedReceiving, TriggerShutdown, WaitAllAtOnce, WaitAll, WaitAllTrue, WaitAllFalse,
     SendSigint, Kill, CloseIO, Proceed, PoolStep, At, RequestInv
<1>3. CASE MainStep \/ ReceiveEnd(TRUE) \/ Environment
  BY <1>3 DEF MainStep, PrimaryStep, InterruptServe, Join, ReceiveEnd, Environment, PeerDies,
     ReceiveExec, EndUser, PoolStep
<1>4. ASSUME NEW t \in Task, TaskStep(t) PROVE PoolStep \/ UNCHANGED pool
  BY <1>4 DEF TaskStep, BeginTask, CloseOk, CloseError, CloseFails, OpenGate, EndTask,
     InterruptUser, InterruptTask, PoolStep, Pool!TaskStep
<1>5. CASE Next
  BY <1>2, <1>3, <1>4, <1>5, Zenon DEF Next
<1> QED BY <1>1, <1>5

LEMMA PoolInvKept == IInv /\ [Next]_vars => PoolInv'
BY PoolMoves, PoolKeepsInv DEF IInv, Own

\* The actions, in the order of the proof.
LEMMA StepCases ==
  ASSUME [Next]_vars
  PROVE  \/ ReceiveExec
         \/ PassGate
         \/ GateTimeout
         \/ Refuse \/ RefuseFails \/ ReceiveEnd(TRUE) \/ ReceiveEnd(FALSE)
         \/ FinishedReceiving \/ WaitAllAtOnce \/ CloseIO
         \/ SendSigint
         \/ PeerDies
         \/ Kill \/ InterruptServe \/ Join
         \/ SpawnTask
         \/ HandOver
         \/ TriggerShutdown
         \/ WaitAll
         \/ WaitAllTrue \/ WaitAllFalse
         \/ PrimaryStep
         \/ \E t \in Task :
              \/ BeginTask(t)
              \/ EndUser(t)
              \/ CloseOk(t)
              \/ CloseError(t)
              \/ CloseFails(t)
              \/ OpenGate(t)
              \/ EndTask(t)
              \/ InterruptUser(t)
              \/ InterruptTask(t)
         \/ UNCHANGED vars
BY Zenon DEF Next, ReceiverStep, MainStep, TaskStep, Environment

LEMMA OwnKept == IInv /\ [Next]_vars => Own'
<1> SUFFICES ASSUME IInv, [Next]_vars PROVE Own'
  OBVIOUS
<1>a. kind \in Kinds /\ MaxRequests[kind] \in Nat
  BY PoolFacts, GatewayAssumption DEF IInv, Kinds
<1>b. \A r \in Nat : r < MaxRequests[kind] => r + 1 \in Task
  <2> SUFFICES ASSUME NEW r \in Nat, r < MaxRequests[kind] PROVE r + 1 \in Task
    OBVIOUS
  <2>1. r + 1 \in 1..MaxRequests[kind]
    BY <1>a
  <2> QED BY <1>a, <2>1 DEF Task
<1>c. \A t \in Task : t \in Nat
  BY GatewayAssumption DEF Task, Kinds
<1> USE <1>a, <1>b, <1>c, PoolFacts
    DEF IInv, Own, OwnTypes, StageInv, RequestInv, GateInv, HandOverInv, EndInv, Active, Stage,
        pool, task, process, At, Goto, Waiting
<1>1. CASE ReceiveExec
  BY <1>1 DEF ReceiveExec
<1>2. CASE PassGate
  BY <1>2 DEF PassGate
<1>3. CASE GateTimeout
  BY <1>3 DEF GateTimeout
<1>4. CASE Refuse \/ RefuseFails \/ ReceiveEnd(TRUE) \/ ReceiveEnd(FALSE)
  BY <1>4 DEF Refuse, RefuseFails, ReceiveEnd
<1>5. CASE FinishedReceiving \/ WaitAllAtOnce \/ CloseIO
  BY <1>5 DEF FinishedReceiving, WaitAllAtOnce, CloseIO, Proceed
<1>6. CASE SendSigint
  BY <1>6 DEF SendSigint
<1>7. CASE PeerDies
  BY <1>7 DEF PeerDies
<1>8. CASE Kill \/ InterruptServe \/ Join
  BY <1>8 DEF Kill, InterruptServe, Join
<1>9. CASE SpawnTask
  BY <1>9 DEF SpawnTask, Pool!Spawn, Pool!SpawnOnPrimary, Pool!SpawnBehindPrimary,
     Pool!SpawnThread, Pool!Accept, Pool!MustQueueForPrimary, Pool!MainThreadOnly
<1>10. CASE HandOver
  BY <1>10 DEF HandOver, Pool!HandOver
<1>11. CASE TriggerShutdown
  BY <1>11 DEF TriggerShutdown, Pool!TriggerShutdown
<1>12. CASE WaitAll
  BY <1>12 DEF WaitAll, Pool!WaitAll
<1>13. CASE WaitAllTrue \/ WaitAllFalse
  BY <1>13 DEF WaitAllTrue, WaitAllFalse, Pool!WaitAllTrue, Pool!WaitAllFalse,
     Pool!LeaveWait
<1>14. CASE PrimaryStep
  BY <1>14 DEF PrimaryStep, Pool!PrimaryStep, Pool!PrimaryWake, Pool!PrimaryRead,
     Pool!PrimaryRecheck
<1>15. ASSUME NEW t \in Task, BeginTask(t) PROVE Own'
  BY <1>15 DEF BeginTask, Stays, Pool!Run, Pool!RunStep, Pool!Advance
<1>16. ASSUME NEW t \in Task, EndUser(t) PROVE Own'
  BY <1>16 DEF EndUser, AtStage, Stays
<1>17. ASSUME NEW t \in Task, CloseOk(t) PROVE Own'
  BY <1>17 DEF CloseOk, CloseWith, AtStage, Stays
<1>18. ASSUME NEW t \in Task, CloseError(t) PROVE Own'
  BY <1>18 DEF CloseError, CloseWith, AtStage, Stays
<1>19. ASSUME NEW t \in Task, CloseFails(t) PROVE Own'
  BY <1>19 DEF CloseFails, AtStage, Stays
<1>20. ASSUME NEW t \in Task, OpenGate(t) PROVE Own'
  BY <1>20 DEF OpenGate, AtStage, Stays
<1>21. ASSUME NEW t \in Task, EndTask(t) PROVE Own'
  BY <1>21 DEF EndTask, Stays, Pool!SetResult, Pool!Stop, Pool!Release, Pool!RunStep,
     Pool!Advance
<1>22. ASSUME NEW t \in Task, InterruptUser(t) PROVE Own'
  <2>1. CASE stage' = stage
    BY <1>22, <2>1 DEF InterruptUser, MainExecutes
  <2>2. CASE stage' = [stage EXCEPT ![t] = "interrupted"]
    <3>1. OwnTypes' /\ StageInv'
      BY <1>22, <2>2 DEF InterruptUser, MainExecutes
    <3>2. RequestInv' /\ GateInv'
      BY <1>22, <2>2 DEF InterruptUser, MainExecutes
    <3>3. HandOverInv' /\ EndInv'
      BY <1>22, <2>2 DEF InterruptUser, MainExecutes
    <3> QED BY <3>1, <3>2, <3>3
  <2> QED BY <1>22, <2>1, <2>2 DEF InterruptUser
<1>23. ASSUME NEW t \in Task, InterruptTask(t) PROVE Own'
  BY <1>23 DEF InterruptTask, MainExecutes
<1>24. CASE UNCHANGED vars
  BY <1>24 DEF vars, pool, task, process
<1> QED BY <1>1, <1>2, <1>3, <1>4, <1>5, <1>6, <1>7, <1>8, <1>9, <1>10, <1>11, <1>12, <1>13,
      <1>14, <1>15, <1>16, <1>17, <1>18, <1>19, <1>20, <1>21, <1>22, <1>23, <1>24, StepCases

-----------------------------------------------------------------------------
(* The theorems.                                                           *)

LEMMA Invariance == Spec => []IInv
<1>1. Init => IInv
  BY InitPool, InitOwn DEF IInv
<1>2. IInv /\ [Next]_vars => IInv'
  BY PoolInvKept, OwnKept DEF IInv
<1> QED BY <1>1, <1>2, PTL DEF Spec

\* All variables keep their types, those of the pool too.
THEOREM GatewayTypes == Spec => []TypeOK
<1>1. IInv => TypeOK
  BY PoolFacts DEF IInv, Own, OwnTypes, StageInv, TypeOK, Pool!Phase, Pool!Unfinished
<1> QED BY <1>1, Invariance, PTL

\* The event _executetask_complete keeps the receiver thread out of the deadlock of spawn(), and
\* from waiting for user code, for any number of requests.
THEOREM GateKeepsAway == Spec => []NeverOvertaken
<1>1. IInv => NeverOvertaken
  <2> SUFFICES ASSUME IInv, Pool!Overtaken PROVE FALSE
    BY DEF IInv, Own, HandOverInv, NeverOvertaken
  <2>1. /\ cpc[Receiver] = "handover" /\ phase[primary_task] = "pending"
        /\ primary_task \in Task
    BY PoolFacts DEF IInv
  <2> QED BY <2>1 DEF IInv, Own, HandOverInv, StageInv
<1> QED BY <1>1, Invariance, PTL

\* A process that ends normally has executed all requests that it accepted: waitall() missed
\* none of them.
THEOREM NothingIsCutOff == Spec => []NormalExitMeansIdle
<1>1. IInv => NormalExitMeansIdle
  BY PoolFacts DEF IInv, Own, EndInv, NormalExitMeansIdle, Pool!Phase, Pool!Unfinished
<1> QED BY <1>1, Invariance, PTL

\* A request is refused only while another one is executed, or after one has failed.
THEOREM RefusedForAReason == Spec => NoFalseRefusalUnlessFailed
<1>1. IInv /\ GateTimeout => running # {} \/ failed # {}
  <2> SUFFICES ASSUME IInv, GateTimeout, failed = {} PROVE running # {}
    OBVIOUS
  <2>1. PICK t \in Task : Active(t)
    BY DEF GateTimeout, At, IInv, Own, GateInv, RequestInv
  <2>2. phase[t] \in {"pending", "executing"}
    BY <2>1, PoolFacts DEF IInv, Own, StageInv, Active, Pool!Phase, Pool!Unfinished
  <2> QED BY <2>2, PoolFacts DEF IInv
<1> QED BY <1>1, Invariance, PTL DEF NoFalseRefusalUnlessFailed
=============================================================================
