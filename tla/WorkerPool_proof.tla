-------------------------- MODULE WorkerPool_proof --------------------------
(***************************************************************************)
(* Proofs about WorkerPool, for any number of tasks and callers, with and  *)
(* without a primary thread, for both thread backends.                     *)
(***************************************************************************)
EXTENDS WorkerPool, TLAPS

\* The primary thread's loop, its event and its task agree.
PrimaryInv ==
  /\ ~HasPrimary => ppc = "left"
  /\ HasPrimary /\ ppc = "left" => shuttingdown
  /\ ppc \in {"read", "perform", "recheck"} => ready
  /\ ppc = "perform" => phase[reply] \in Unfinished
  /\ ppc = "recheck" => phase[reply] = "released"
  /\ HasPrimary /\ ready /\ ~shuttingdown => primary_task # None

\* The primary thread's task has been accepted, and nobody has begun it before
\* the primary thread reads it.
TaskInv ==
  /\ primary_task # None => phase[primary_task] # "new"
  /\ /\ primary_task # None /\ ready /\ ppc # "left"
     /\ ~(ppc \in {"perform", "recheck"} /\ reply = primary_task)
     => phase[primary_task] = "pending"

\* A task with a thread of its own never meets the primary thread.
ThreadInv ==
  \A t \in threads :
    /\ phase[t] # "new"
    /\ t # primary_task
    /\ ppc = "perform" => reply # t
    /\ \A c \in Caller : cpc[c] = "handover" => want[c] # t

\* Who keeps the lock, and what is known about the task it hands over.
LockInv ==
  \A c \in Caller :
    /\ lock = c <=> cpc[c] = "handover"
    /\ cpc[c] = "handover" =>
         /\ HasPrimary /\ ready /\ ~shuttingdown
         /\ want[c] \in Task
         /\ want[c] # primary_task
         /\ ppc = "perform" => reply # want[c]
         /\ phase[want[c]] = "pending"

\* _running holds the tasks between spawn() and _perform_spawn()'s end; the
\* tasks that a waitall() saw are no new ones.
RunningInv ==
  /\ running = {t \in Task : phase[t] \in Unfinished}
  /\ \A c \in Caller : cpc[c] = "waiting" => \A t \in before[c] : phase[t] # "new"

\* NoLostHandOver without set comprehension.
ExecutorInv ==
  ~shuttingdown => \A t \in Task : phase[t] = "pending" =>
                     Performs(t) \/ HandedOver(t) \/ Delivered(t)

IInv == /\ TypeOK /\ PrimaryInv /\ TaskInv /\ ThreadInv /\ LockInv /\ RunningInv
        /\ ExecutorInv /\ PrimaryOnly /\ WaitallSound

-----------------------------------------------------------------------------
(* The invariant holds in a new pool and implies the properties.           *)

LEMMA InitIInv == Init => IInv
<1> SUFFICES ASSUME Init PROVE IInv
  OBVIOUS
<1> USE PoolAssumption DEF Init, HasPrimary
<1>1. TypeOK
  BY DEF TypeOK, Phase
<1>2. PrimaryInv /\ TaskInv /\ ThreadInv /\ LockInv /\ PrimaryOnly
  BY DEF PrimaryInv, TaskInv, ThreadInv, LockInv, PrimaryOnly
<1>3. RunningInv
  BY DEF RunningInv, Unfinished
<1>4. ExecutorInv /\ WaitallSound
  BY DEF ExecutorInv, WaitallSound
<1> QED
  BY <1>1, <1>2, <1>3, <1>4 DEF IInv

LEMMA IInvImplies == IInv => TypeOK /\ NoLostHandOver /\ PrimaryOnly /\ WaitallSound
BY DEF IInv, NoLostHandOver, ExecutorInv, Orphans

-----------------------------------------------------------------------------
(* Every step preserves it: one lemma for each part.                       *)

LEMMA TypePreserved == IInv /\ [Next]_vars => TypeOK'
<1> SUFFICES ASSUME IInv, [Next]_vars PROVE TypeOK'
  OBVIOUS
<1> USE PoolAssumption DEF IInv, TypeOK, HasPrimary, MainThreadOnly
<1>1. ASSUME NEW c \in Caller, NEW t \in Task, SpawnOnPrimary(c, t) PROVE TypeOK'
  BY <1>1 DEF SpawnOnPrimary, Accept, Phase, Unfinished
<1>2. ASSUME NEW c \in Caller, NEW t \in Task, SpawnBehindPrimary(c, t) PROVE TypeOK'
  BY <1>2 DEF SpawnBehindPrimary, Accept, Phase, Unfinished
<1>3. ASSUME NEW c \in Caller, NEW t \in Task, SpawnThread(c, t) PROVE TypeOK'
  BY <1>3 DEF SpawnThread, Accept, Phase, Unfinished
<1>4. ASSUME NEW c \in Caller, HandOver(c) PROVE TypeOK'
  BY <1>4 DEF HandOver
<1>5. ASSUME NEW c \in Caller, TriggerShutdown(c) PROVE TypeOK'
  BY <1>5 DEF TriggerShutdown
<1>6. ASSUME NEW c \in Caller, WaitAll(c) PROVE TypeOK'
  BY <1>6 DEF WaitAll
<1>7. ASSUME NEW c \in Caller, LeaveWait(c) PROVE TypeOK'
  BY <1>7 DEF LeaveWait
<1>8. ASSUME NEW t \in Task, Run(t) \/ SetResult(t) \/ Stop(t) PROVE TypeOK'
  BY <1>8 DEF Run, SetResult, Stop, RunStep, Advance, Phase, Unfinished
<1>9. ASSUME NEW t \in Task, Release(t) PROVE TypeOK'
  BY <1>9 DEF Release, Advance, Performs, Phase, Unfinished
<1>10. ASSUME PrimaryWake \/ PrimaryRecheck PROVE TypeOK'
  BY <1>10 DEF PrimaryWake, PrimaryRecheck
<1>11. ASSUME PrimaryRead PROVE TypeOK'
  BY <1>11 DEF PrimaryRead
<1>12. CASE UNCHANGED vars
  BY <1>12 DEF vars
<1> QED
  BY <1>1, <1>2, <1>3, <1>4, <1>5, <1>6, <1>7, <1>8, <1>9, <1>10, <1>11, <1>12
  DEF Next, PrimaryStep, TaskStep, CallerStep, Spawn, WaitAllTrue, WaitAllFalse

LEMMA PrimaryPreserved == IInv /\ [Next]_vars => PrimaryInv'
<1> SUFFICES ASSUME IInv, [Next]_vars PROVE PrimaryInv'
  OBVIOUS
<1> USE PoolAssumption
  DEF IInv, TypeOK, PrimaryInv, TaskInv, ThreadInv, LockInv, Performs, Unfinished,
      HasPrimary, MainThreadOnly
<1>1. ASSUME NEW c \in Caller, NEW t \in Task, SpawnOnPrimary(c, t) PROVE PrimaryInv'
  BY <1>1 DEF SpawnOnPrimary, Accept
<1>2. ASSUME NEW c \in Caller, NEW t \in Task, SpawnBehindPrimary(c, t)
      PROVE  PrimaryInv'
  BY <1>2 DEF SpawnBehindPrimary, Accept, MustQueueForPrimary
<1>3. ASSUME NEW c \in Caller, NEW t \in Task, SpawnThread(c, t) PROVE PrimaryInv'
  BY <1>3 DEF SpawnThread, Accept, MustQueueForPrimary
<1>4. ASSUME NEW c \in Caller, HandOver(c) PROVE PrimaryInv'
  BY <1>4 DEF HandOver, ResultReady
<1>5. ASSUME NEW c \in Caller, TriggerShutdown(c) PROVE PrimaryInv'
  BY <1>5 DEF TriggerShutdown
<1>6. ASSUME NEW c \in Caller, WaitAll(c) PROVE PrimaryInv'
  BY <1>6 DEF WaitAll
<1>7. ASSUME NEW c \in Caller, LeaveWait(c) PROVE PrimaryInv'
  BY <1>7 DEF LeaveWait
<1>8. ASSUME NEW t \in Task, Run(t) \/ SetResult(t) \/ Stop(t) PROVE PrimaryInv'
  BY <1>8 DEF Run, SetResult, Stop, RunStep, Advance
<1>9. ASSUME NEW t \in Task, Release(t) PROVE PrimaryInv'
  BY <1>9 DEF Release, Advance, Performs
<1>10. ASSUME PrimaryWake \/ PrimaryRead PROVE PrimaryInv'
  BY <1>10 DEF PrimaryWake, PrimaryRead
<1>11. ASSUME PrimaryRecheck PROVE PrimaryInv'
  BY <1>11 DEF PrimaryRecheck
<1>12. CASE UNCHANGED vars
  BY <1>12 DEF vars
<1> QED
  BY <1>1, <1>2, <1>3, <1>4, <1>5, <1>6, <1>7, <1>8, <1>9, <1>10, <1>11, <1>12
  DEF Next, PrimaryStep, TaskStep, CallerStep, Spawn, WaitAllTrue, WaitAllFalse

LEMMA TaskPreserved == IInv /\ [Next]_vars => TaskInv'
<1> SUFFICES ASSUME IInv, [Next]_vars PROVE TaskInv'
  OBVIOUS
<1> USE PoolAssumption
  DEF IInv, TypeOK, TaskInv, PrimaryInv, ThreadInv, LockInv, Performs, Phase,
      Unfinished, HasPrimary, MainThreadOnly
<1>1. ASSUME NEW c \in Caller, NEW t \in Task, SpawnOnPrimary(c, t) PROVE TaskInv'
  BY <1>1 DEF SpawnOnPrimary, Accept
<1>2. ASSUME NEW c \in Caller, NEW t \in Task, SpawnBehindPrimary(c, t) PROVE TaskInv'
  BY <1>2 DEF SpawnBehindPrimary, Accept, MustQueueForPrimary
<1>3. ASSUME NEW c \in Caller, NEW t \in Task, SpawnThread(c, t) PROVE TaskInv'
  BY <1>3 DEF SpawnThread, Accept, MustQueueForPrimary
<1>4. ASSUME NEW c \in Caller, HandOver(c) PROVE TaskInv'
  BY <1>4 DEF HandOver, ResultReady
<1>5. ASSUME NEW c \in Caller, TriggerShutdown(c) PROVE TaskInv'
  BY <1>5 DEF TriggerShutdown
<1>6. ASSUME NEW c \in Caller, WaitAll(c) PROVE TaskInv'
  BY <1>6 DEF WaitAll
<1>7. ASSUME NEW c \in Caller, LeaveWait(c) PROVE TaskInv'
  BY <1>7 DEF LeaveWait
<1>8. ASSUME NEW t \in Task, Run(t) \/ SetResult(t) \/ Stop(t) PROVE TaskInv'
  BY <1>8 DEF Run, SetResult, Stop, RunStep, Advance
<1>9. ASSUME NEW t \in Task, Release(t) PROVE TaskInv'
  BY <1>9 DEF Release, Advance, Performs
<1>10. ASSUME PrimaryWake \/ PrimaryRead PROVE TaskInv'
  BY <1>10 DEF PrimaryWake, PrimaryRead
<1>11. ASSUME PrimaryRecheck PROVE TaskInv'
  BY <1>11 DEF PrimaryRecheck
<1>12. CASE UNCHANGED vars
  BY <1>12 DEF vars
<1> QED
  BY <1>1, <1>2, <1>3, <1>4, <1>5, <1>6, <1>7, <1>8, <1>9, <1>10, <1>11, <1>12
  DEF Next, PrimaryStep, TaskStep, CallerStep, Spawn, WaitAllTrue, WaitAllFalse

LEMMA ThreadPreserved == IInv /\ [Next]_vars => ThreadInv'
<1> SUFFICES ASSUME IInv, [Next]_vars PROVE ThreadInv'
  OBVIOUS
<1> USE PoolAssumption
  DEF IInv, TypeOK, ThreadInv, TaskInv, PrimaryInv, LockInv, Phase, Unfinished,
      HasPrimary, MainThreadOnly
<1>1. ASSUME NEW c \in Caller, NEW t \in Task, SpawnOnPrimary(c, t) PROVE ThreadInv'
  BY <1>1 DEF SpawnOnPrimary, Accept
<1>2. ASSUME NEW c \in Caller, NEW t \in Task, SpawnBehindPrimary(c, t) PROVE ThreadInv'
  BY <1>2 DEF SpawnBehindPrimary, Accept, MustQueueForPrimary
<1>3. ASSUME NEW c \in Caller, NEW t \in Task, SpawnThread(c, t) PROVE ThreadInv'
  BY <1>3 DEF SpawnThread, Accept, MustQueueForPrimary
<1>4. ASSUME NEW c \in Caller, HandOver(c) PROVE ThreadInv'
  BY <1>4 DEF HandOver, ResultReady
<1>5. ASSUME NEW c \in Caller, TriggerShutdown(c) PROVE ThreadInv'
  BY <1>5 DEF TriggerShutdown
<1>6. ASSUME NEW c \in Caller, WaitAll(c) PROVE ThreadInv'
  BY <1>6 DEF WaitAll
<1>7. ASSUME NEW c \in Caller, LeaveWait(c) PROVE ThreadInv'
  BY <1>7 DEF LeaveWait
<1>8. ASSUME NEW t \in Task, Run(t) \/ SetResult(t) \/ Stop(t) PROVE ThreadInv'
  BY <1>8 DEF Run, SetResult, Stop, RunStep, Advance
<1>9. ASSUME NEW t \in Task, Release(t) PROVE ThreadInv'
  BY <1>9 DEF Release, Advance, Performs
<1>10. ASSUME PrimaryWake \/ PrimaryRead PROVE ThreadInv'
  BY <1>10 DEF PrimaryWake, PrimaryRead
<1>11. ASSUME PrimaryRecheck PROVE ThreadInv'
  BY <1>11 DEF PrimaryRecheck
<1>12. CASE UNCHANGED vars
  BY <1>12 DEF vars
<1> QED
  BY <1>1, <1>2, <1>3, <1>4, <1>5, <1>6, <1>7, <1>8, <1>9, <1>10, <1>11, <1>12
  DEF Next, PrimaryStep, TaskStep, CallerStep, Spawn, WaitAllTrue, WaitAllFalse

LEMMA LockPreserved == IInv /\ [Next]_vars => LockInv'
<1> SUFFICES ASSUME IInv, [Next]_vars PROVE LockInv'
  OBVIOUS
<1> USE PoolAssumption
  DEF IInv, TypeOK, LockInv, PrimaryInv, TaskInv, ThreadInv, Performs, Unfinished,
      HasPrimary, MainThreadOnly
<1>1. ASSUME NEW c \in Caller, NEW t \in Task, SpawnOnPrimary(c, t) PROVE LockInv'
  BY <1>1 DEF SpawnOnPrimary, Accept
<1>2. ASSUME NEW c \in Caller, NEW t \in Task, SpawnBehindPrimary(c, t) PROVE LockInv'
  BY <1>2 DEF SpawnBehindPrimary, Accept, MustQueueForPrimary
<1>3. ASSUME NEW c \in Caller, NEW t \in Task, SpawnThread(c, t) PROVE LockInv'
  BY <1>3 DEF SpawnThread, Accept, MustQueueForPrimary
<1>4. ASSUME NEW c \in Caller, HandOver(c) PROVE LockInv'
  BY <1>4 DEF HandOver, ResultReady
<1>5. ASSUME NEW c \in Caller, TriggerShutdown(c) PROVE LockInv'
  BY <1>5 DEF TriggerShutdown
<1>6. ASSUME NEW c \in Caller, WaitAll(c) PROVE LockInv'
  BY <1>6 DEF WaitAll
<1>7. ASSUME NEW c \in Caller, LeaveWait(c) PROVE LockInv'
  BY <1>7 DEF LeaveWait
<1>8. ASSUME NEW t \in Task, Run(t) \/ SetResult(t) \/ Stop(t) PROVE LockInv'
  BY <1>8 DEF Run, SetResult, Stop, RunStep, Advance
<1>9. ASSUME NEW t \in Task, Release(t) PROVE LockInv'
  BY <1>9 DEF Release, Advance, Performs
<1>10. ASSUME PrimaryWake \/ PrimaryRead PROVE LockInv'
  BY <1>10 DEF PrimaryWake, PrimaryRead
<1>11. ASSUME PrimaryRecheck PROVE LockInv'
  BY <1>11 DEF PrimaryRecheck
<1>12. CASE UNCHANGED vars
  BY <1>12 DEF vars
<1> QED
  BY <1>1, <1>2, <1>3, <1>4, <1>5, <1>6, <1>7, <1>8, <1>9, <1>10, <1>11, <1>12
  DEF Next, PrimaryStep, TaskStep, CallerStep, Spawn, WaitAllTrue, WaitAllFalse

LEMMA RunningPreserved == IInv /\ [Next]_vars => RunningInv'
<1> SUFFICES ASSUME IInv, [Next]_vars PROVE RunningInv'
  OBVIOUS
<1> USE PoolAssumption
  DEF IInv, TypeOK, RunningInv, Unfinished, HasPrimary, MainThreadOnly
<1>1. ASSUME NEW c \in Caller, NEW t \in Task, SpawnOnPrimary(c, t) PROVE RunningInv'
  BY <1>1 DEF SpawnOnPrimary, Accept
<1>2. ASSUME NEW c \in Caller, NEW t \in Task, SpawnBehindPrimary(c, t)
      PROVE  RunningInv'
  BY <1>2 DEF SpawnBehindPrimary, Accept, MustQueueForPrimary
<1>3. ASSUME NEW c \in Caller, NEW t \in Task, SpawnThread(c, t) PROVE RunningInv'
  BY <1>3 DEF SpawnThread, Accept, MustQueueForPrimary
<1>4. ASSUME NEW c \in Caller, HandOver(c) PROVE RunningInv'
  BY <1>4 DEF HandOver, ResultReady
<1>5. ASSUME NEW c \in Caller, TriggerShutdown(c) PROVE RunningInv'
  BY <1>5 DEF TriggerShutdown
<1>6. ASSUME NEW c \in Caller, WaitAll(c) PROVE RunningInv'
  BY <1>6 DEF WaitAll
<1>7. ASSUME NEW c \in Caller, LeaveWait(c) PROVE RunningInv'
  BY <1>7 DEF LeaveWait
<1>8. ASSUME NEW t \in Task, Run(t) \/ SetResult(t) \/ Stop(t) PROVE RunningInv'
  BY <1>8 DEF Run, SetResult, Stop, RunStep, Advance
<1>9. ASSUME NEW t \in Task, Release(t) PROVE RunningInv'
  BY <1>9 DEF Release, Advance, Performs
<1>10. ASSUME PrimaryWake \/ PrimaryRead PROVE RunningInv'
  BY <1>10 DEF PrimaryWake, PrimaryRead
<1>11. ASSUME PrimaryRecheck PROVE RunningInv'
  BY <1>11 DEF PrimaryRecheck
<1>12. CASE UNCHANGED vars
  BY <1>12 DEF vars
<1> QED
  BY <1>1, <1>2, <1>3, <1>4, <1>5, <1>6, <1>7, <1>8, <1>9, <1>10, <1>11, <1>12
  DEF Next, PrimaryStep, TaskStep, CallerStep, Spawn, WaitAllTrue, WaitAllFalse

LEMMA ExecutorPreserved == IInv /\ [Next]_vars => ExecutorInv'
<1> SUFFICES ASSUME IInv, [Next]_vars PROVE ExecutorInv'
  OBVIOUS
<1> USE PoolAssumption
  DEF IInv, TypeOK, ExecutorInv, PrimaryInv, LockInv, Performs, HandedOver,
      Delivered, Unfinished, HasPrimary, MainThreadOnly
<1>1. ASSUME NEW c \in Caller, NEW t \in Task, SpawnOnPrimary(c, t) PROVE ExecutorInv'
  BY <1>1 DEF SpawnOnPrimary, Accept
<1>2. ASSUME NEW c \in Caller, NEW t \in Task, SpawnBehindPrimary(c, t)
      PROVE  ExecutorInv'
  BY <1>2 DEF SpawnBehindPrimary, Accept, MustQueueForPrimary
<1>3. ASSUME NEW c \in Caller, NEW t \in Task, SpawnThread(c, t) PROVE ExecutorInv'
  BY <1>3 DEF SpawnThread, Accept, MustQueueForPrimary
<1>4. ASSUME NEW c \in Caller, HandOver(c) PROVE ExecutorInv'
  BY <1>4 DEF HandOver, ResultReady
<1>5. ASSUME NEW c \in Caller, TriggerShutdown(c) PROVE ExecutorInv'
  BY <1>5 DEF TriggerShutdown
<1>6. ASSUME NEW c \in Caller, WaitAll(c) PROVE ExecutorInv'
  BY <1>6 DEF WaitAll
<1>7. ASSUME NEW c \in Caller, LeaveWait(c) PROVE ExecutorInv'
  BY <1>7 DEF LeaveWait
<1>8. ASSUME NEW t \in Task, Run(t) \/ SetResult(t) \/ Stop(t) PROVE ExecutorInv'
  BY <1>8 DEF Run, SetResult, Stop, RunStep, Advance
<1>9. ASSUME NEW t \in Task, Release(t) PROVE ExecutorInv'
  BY <1>9 DEF Release, Advance, Performs
<1>10. ASSUME PrimaryWake \/ PrimaryRead PROVE ExecutorInv'
  BY <1>10 DEF PrimaryWake, PrimaryRead
<1>11. ASSUME PrimaryRecheck PROVE ExecutorInv'
  <2> SUFFICES ASSUME ~shuttingdown', NEW t \in Task, phase'[t] = "pending"
               PROVE  Performs(t)' \/ HandedOver(t)' \/ Delivered(t)'
    BY DEF ExecutorInv
  <2>1. phase[t] = "pending" /\ ~shuttingdown /\ reply # t
    BY <1>11 DEF PrimaryRecheck
  <2>2. CASE Performs(t)
    BY <1>11, <2>1, <2>2 DEF PrimaryRecheck
  <2>3. CASE HandedOver(t)
    BY <1>11, <2>1, <2>3 DEF PrimaryRecheck
  <2>4. CASE Delivered(t)
    BY <1>11, <2>1, <2>4 DEF PrimaryRecheck
  <2> QED
    BY <2>1, <2>2, <2>3, <2>4
<1>12. CASE UNCHANGED vars
  BY <1>12 DEF vars
<1> QED
  BY <1>1, <1>2, <1>3, <1>4, <1>5, <1>6, <1>7, <1>8, <1>9, <1>10, <1>11, <1>12
  DEF Next, PrimaryStep, TaskStep, CallerStep, Spawn, WaitAllTrue, WaitAllFalse

LEMMA PrimaryOnlyPreserved == IInv /\ [Next]_vars => PrimaryOnly'
<1> SUFFICES ASSUME IInv, [Next]_vars PROVE PrimaryOnly'
  OBVIOUS
<1> USE PoolAssumption
  DEF IInv, TypeOK, PrimaryOnly, PrimaryInv, HasPrimary, MainThreadOnly
<1>1. ASSUME NEW c \in Caller, NEW t \in Task, SpawnOnPrimary(c, t) PROVE PrimaryOnly'
  BY <1>1 DEF SpawnOnPrimary, Accept
<1>2. ASSUME NEW c \in Caller, NEW t \in Task, SpawnBehindPrimary(c, t)
      PROVE  PrimaryOnly'
  BY <1>2 DEF SpawnBehindPrimary, Accept, MustQueueForPrimary
<1>3. ASSUME NEW c \in Caller, NEW t \in Task, SpawnThread(c, t) PROVE PrimaryOnly'
  BY <1>3 DEF SpawnThread, Accept, MustQueueForPrimary
<1>4. ASSUME NEW c \in Caller, HandOver(c) PROVE PrimaryOnly'
  BY <1>4 DEF HandOver, ResultReady
<1>5. ASSUME NEW c \in Caller, TriggerShutdown(c) PROVE PrimaryOnly'
  BY <1>5 DEF TriggerShutdown
<1>6. ASSUME NEW c \in Caller, WaitAll(c) PROVE PrimaryOnly'
  BY <1>6 DEF WaitAll
<1>7. ASSUME NEW c \in Caller, LeaveWait(c) PROVE PrimaryOnly'
  BY <1>7 DEF LeaveWait
<1>8. ASSUME NEW t \in Task, Run(t) \/ SetResult(t) \/ Stop(t) PROVE PrimaryOnly'
  BY <1>8 DEF Run, SetResult, Stop, RunStep, Advance
<1>9. ASSUME NEW t \in Task, Release(t) PROVE PrimaryOnly'
  BY <1>9 DEF Release, Advance, Performs
<1>10. ASSUME PrimaryWake \/ PrimaryRead PROVE PrimaryOnly'
  BY <1>10 DEF PrimaryWake, PrimaryRead
<1>11. ASSUME PrimaryRecheck PROVE PrimaryOnly'
  BY <1>11 DEF PrimaryRecheck
<1>12. CASE UNCHANGED vars
  BY <1>12 DEF vars
<1> QED
  BY <1>1, <1>2, <1>3, <1>4, <1>5, <1>6, <1>7, <1>8, <1>9, <1>10, <1>11, <1>12
  DEF Next, PrimaryStep, TaskStep, CallerStep, Spawn, WaitAllTrue, WaitAllFalse

LEMMA WaitallPreserved == IInv /\ [Next]_vars => WaitallSound'
<1> SUFFICES ASSUME IInv, [Next]_vars PROVE WaitallSound'
  OBVIOUS
<1> USE PoolAssumption
  DEF IInv, TypeOK, WaitallSound, RunningInv, Signalled, Phase, Unfinished,
      HasPrimary, MainThreadOnly
<1>1. ASSUME NEW c \in Caller, NEW t \in Task, SpawnOnPrimary(c, t) PROVE WaitallSound'
  BY <1>1 DEF SpawnOnPrimary, Accept
<1>2. ASSUME NEW c \in Caller, NEW t \in Task, SpawnBehindPrimary(c, t)
      PROVE  WaitallSound'
  BY <1>2 DEF SpawnBehindPrimary, Accept, MustQueueForPrimary
<1>3. ASSUME NEW c \in Caller, NEW t \in Task, SpawnThread(c, t) PROVE WaitallSound'
  BY <1>3 DEF SpawnThread, Accept, MustQueueForPrimary
<1>4. ASSUME NEW c \in Caller, HandOver(c) PROVE WaitallSound'
  BY <1>4 DEF HandOver, ResultReady
<1>5. ASSUME NEW c \in Caller, TriggerShutdown(c) PROVE WaitallSound'
  BY <1>5 DEF TriggerShutdown
<1>6. ASSUME NEW c \in Caller, WaitAll(c) PROVE WaitallSound'
  BY <1>6 DEF WaitAll
<1>7. ASSUME NEW c \in Caller, LeaveWait(c) PROVE WaitallSound'
  BY <1>7 DEF LeaveWait
<1>8. ASSUME NEW t \in Task, Run(t) \/ SetResult(t) \/ Stop(t) PROVE WaitallSound'
  BY <1>8 DEF Run, SetResult, Stop, RunStep, Advance
<1>9. ASSUME NEW t \in Task, Release(t) PROVE WaitallSound'
  BY <1>9 DEF Release, Advance, Performs
<1>10. ASSUME PrimaryWake \/ PrimaryRead PROVE WaitallSound'
  BY <1>10 DEF PrimaryWake, PrimaryRead
<1>11. ASSUME PrimaryRecheck PROVE WaitallSound'
  BY <1>11 DEF PrimaryRecheck
<1>12. CASE UNCHANGED vars
  BY <1>12 DEF vars
<1> QED
  BY <1>1, <1>2, <1>3, <1>4, <1>5, <1>6, <1>7, <1>8, <1>9, <1>10, <1>11, <1>12
  DEF Next, PrimaryStep, TaskStep, CallerStep, Spawn, WaitAllTrue, WaitAllFalse

-----------------------------------------------------------------------------
(* The theorems.                                                           *)

LEMMA StepIInv == IInv /\ [Next]_vars => IInv'
BY TypePreserved, PrimaryPreserved, TaskPreserved, ThreadPreserved,
   LockPreserved, RunningPreserved, ExecutorPreserved,
   PrimaryOnlyPreserved, WaitallPreserved DEF IInv

LEMMA SpecIInv == Spec => []IInv
BY InitIInv, StepIInv, PTL DEF Spec

\* The variables of the pool keep their types; in particular the primary thread
\* never takes the None of trigger_shutdown() for a task.
THEOREM TypeCorrect == Spec => []TypeOK
BY SpecIInv, IInvImplies, PTL

\* No task handed to the primary thread is lost before the pool shuts down.
THEOREM NoHandOverIsLost == Spec => []NoLostHandOver
BY SpecIInv, IInvImplies, PTL

\* With main_thread_only no task is ever given a thread of its own.
THEOREM MainThreadOnlyIsKept == Spec => []PrimaryOnly
BY SpecIInv, IInvImplies, PTL

\* waitall() returns True only when every task it saw has left the pool.
THEOREM WaitallIsSound == Spec => []WaitallSound
BY SpecIInv, IInvImplies, PTL
-----------------------------------------------------------------------------
(* WorkerPool implements TaskPool: each step is a step of TaskPool or none. *)

LEMMA InitMaps == Init => Abstract!Init
BY DEF Init, Abstract!Init, Status, Waiter

LEMMA StatusStutters ==
  ASSUME phase' = phase
  PROVE  [t \in Task |-> Status(t)]' = [t \in Task |-> Status(t)]
BY DEF Status

LEMMA WaiterStutters ==
  ASSUME cpc' = cpc, waits' = waits, waitall_events' = waitall_events
  PROVE  [c \in Caller |-> Waiter(c)]' = [c \in Caller |-> Waiter(c)]
BY DEF Waiter, Signalled

LEMMA StepMaps == IInv /\ [Next]_vars => [Abstract!Next]_(Abstract!vars)
<1> SUFFICES ASSUME IInv, [Next]_vars PROVE [Abstract!Next]_(Abstract!vars)
  OBVIOUS
<1> USE PoolAssumption DEF IInv, TypeOK, HasPrimary, MainThreadOnly
<1>1. ASSUME NEW c \in Caller, NEW t \in Task,
             SpawnOnPrimary(c, t) \/ SpawnBehindPrimary(c, t) \/ SpawnThread(c, t)
      PROVE  Abstract!Accept(t)
  <2>1. ~shuttingdown /\ shuttingdown' = shuttingdown /\ Status(t) = "new"
    BY <1>1 DEF SpawnOnPrimary, SpawnBehindPrimary, SpawnThread, Accept, Status
  <2>2. [u \in Task |-> Status(u)]' = [[u \in Task |-> Status(u)] EXCEPT ![t] = "running"]
    BY <1>1 DEF SpawnOnPrimary, SpawnBehindPrimary, SpawnThread, Accept, Status
  <2>3. [d \in Caller |-> Waiter(d)]' = [d \in Caller |-> Waiter(d)]
    BY <1>1
  DEF SpawnOnPrimary, SpawnBehindPrimary, SpawnThread, Accept, Waiter, Signalled
  <2> QED
    BY <2>1, <2>2, <2>3 DEF Abstract!Accept
<1>2. ASSUME NEW c \in Caller, HandOver(c) PROVE UNCHANGED Abstract!vars
  <2>1. [d \in Caller |-> Waiter(d)]' = [d \in Caller |-> Waiter(d)]
    BY <1>2 DEF HandOver, Waiter, Signalled
  <2> QED
    BY <1>2, <2>1, StatusStutters DEF HandOver, Abstract!vars
<1>3. ASSUME NEW c \in Caller, TriggerShutdown(c) PROVE Abstract!Shutdown
  BY <1>3, StatusStutters, WaiterStutters DEF TriggerShutdown, Abstract!Shutdown
<1>4. ASSUME NEW c \in Caller, WaitAll(c) PROVE Abstract!WaitBegin(c)
  <2>1. Waiter(c) = "idle"
    BY <1>4 DEF WaitAll, Waiter
  <2>2. PICK t \in running : phase[t] \in Unfinished
    BY <1>4 DEF WaitAll, RunningInv
  <2>3. Abstract!Running # {}
    BY <2>2 DEF Abstract!Running, Status, Unfinished
  <2>4. [d \in Caller |-> Waiter(d)]' = [[d \in Caller |-> Waiter(d)] EXCEPT ![c] = "waiting"]
    BY <1>4 DEF WaitAll, Waiter, Signalled
  <2> QED
    BY <1>4, <2>1, <2>3, <2>4, StatusStutters DEF WaitAll, Abstract!WaitBegin
<1>5. ASSUME NEW c \in Caller, LeaveWait(c) PROVE Abstract!WaitEnd(c)
  <2>1. Waiter(c) # "idle"
    BY <1>5 DEF LeaveWait, Waiter
  <2>2. [d \in Caller |-> Waiter(d)]' = [[d \in Caller |-> Waiter(d)] EXCEPT ![c] = "idle"]
    BY <1>5 DEF LeaveWait, Waiter, Signalled
  <2> QED
    BY <1>5, <2>1, <2>2, StatusStutters DEF LeaveWait, Abstract!WaitEnd
<1>6. ASSUME NEW t \in Task, Run(t) \/ SetResult(t) \/ Stop(t)
      PROVE  UNCHANGED Abstract!vars
  <2>1. [u \in Task |-> Status(u)]' = [u \in Task |-> Status(u)]
    BY <1>6 DEF Run, SetResult, Stop, RunStep, Advance, Status
  <2> QED
    BY <1>6, <2>1, WaiterStutters DEF Run, SetResult, Stop, RunStep, Abstract!vars
<1>7. ASSUME NEW t \in Task, Release(t) PROVE Abstract!Finish(t)
  <2>1. Status(t) = "running" /\ shuttingdown' = shuttingdown
    BY <1>7 DEF Release, Advance, Status
  <2>2. [u \in Task |-> Status(u)]' = [[u \in Task |-> Status(u)] EXCEPT ![t] = "done"]
    BY <1>7 DEF Release, Advance, Status
  <2>3. Abstract!Running = running
    BY DEF Abstract!Running, RunningInv, Status, Unfinished, Phase
  <2>4. CASE running = {t}
    <3>1. waitall_events' = {}
      BY <1>7, <2>4 DEF Release
    <3>2. [d \in Caller |-> Waiter(d)]' =
            [d \in Caller |-> IF Waiter(d) = "waiting" THEN "released" ELSE Waiter(d)]
      BY <1>7, <3>1 DEF Release, Waiter, Signalled
    <3> QED
      BY <2>1, <2>2, <2>3, <2>4, <3>2 DEF Abstract!Finish
  <2>5. CASE running # {t}
    <3>1. [d \in Caller |-> Waiter(d)]' = [d \in Caller |-> Waiter(d)]
      BY <1>7, <2>5, WaiterStutters DEF Release
    <3> QED
      BY <2>1, <2>2, <2>3, <2>5, <3>1 DEF Abstract!Finish
  <2> QED
    BY <2>4, <2>5
<1>8. ASSUME PrimaryStep PROVE UNCHANGED Abstract!vars
  BY <1>8, StatusStutters, WaiterStutters
  DEF PrimaryStep, PrimaryWake, PrimaryRead, PrimaryRecheck, Abstract!vars
<1>9. CASE UNCHANGED vars
  BY <1>9, StatusStutters, WaiterStutters DEF vars, Abstract!vars
<1> QED
  BY <1>1, <1>2, <1>3, <1>4, <1>5, <1>6, <1>7, <1>8, <1>9
  DEF Next, TaskStep, CallerStep, Spawn, WaitAllTrue, WaitAllFalse, Abstract!Next

\* Every behaviour of the pool is one of TaskPool: the threads, the lock, the
\* events and the primary thread's loop are invisible to those who use the pool.
THEOREM PoolImplementsTaskPool == Spec => ImplementsTaskPool
BY SpecIInv, InitMaps, StepMaps, PTL DEF Spec, ImplementsTaskPool, Abstract!Spec
=============================================================================
