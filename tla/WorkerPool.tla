----------------------------- MODULE WorkerPool -----------------------------
(***************************************************************************)
(* WorkerPool and Reply of gateway_base.py: functions are dispatched to    *)
(* threads, the primary thread takes part through                          *)
(* integrate_as_primary_thread(), and waitall() waits for all of them.     *)
(*                                                                         *)
(* A step is what a thread does between two points where another thread    *)
(* can see or change the pool.  Everything under _running_lock is one step *)
(* guarded by a free lock; the only code that blocks while it holds the    *)
(* lock is the hand-over of the main_thread_only backend, and there the    *)
(* lock is held across steps.  The primary thread reads its event and      *)
(* _primary_thread_task without the lock, so these are steps of their own. *)
(***************************************************************************)
EXTENDS Naturals, FiniteSets

CONSTANTS
  Task,            \* the Reply objects, one for each call of spawn()
  Caller,          \* the threads that call spawn(), trigger_shutdown(), waitall()
  Kinds,           \* the kinds of pools under consideration, see below
  Timeouts,        \* may the callers pass a timeout to waitall()?
  MaxWaits,        \* bound: how many blocking waitall() calls a caller makes
  None             \* Python's None

ASSUME PoolAssumption ==
  /\ Kinds \subseteq {"plain", "thread", "main_thread_only"}
  /\ Timeouts \in BOOLEAN
  /\ MaxWaits \in Nat
  /\ None \notin Task
  /\ None \notin Caller

VARIABLES
  running,         \* _running
  shuttingdown,    \* _shuttingdown
  waitall_events,  \* _waitall_events: the unset events, named by caller and call
  ready,           \* _primary_thread_task_ready.is_set()
  primary_task,    \* _primary_thread_task
  lock,            \* the caller that keeps _running_lock, or None
  phase,           \* how far the execution of each Reply has come
  threads,         \* the tasks that execmodel.start() gave a thread of their own
  ppc,             \* where integrate_as_primary_thread() stands
  reply,           \* its local variable "reply"
  cpc,             \* where each caller stands
  want,            \* the Reply a caller in spawn() hands to the primary thread
  waits,           \* how many blocking waitall() calls each caller has made
  before,          \* history: the tasks that ran when a caller's waitall() began
  kind             \* execmodel.backend, or "plain" for a pool without hasprimary

vars == <<running, shuttingdown, waitall_events, ready, primary_task, lock,
          phase, threads, ppc, reply, cpc, want, waits, before, kind>>

HasPrimary == kind \in {"thread", "main_thread_only"}
MainThreadOnly == kind = "main_thread_only"

Unfinished == {"pending", "executing", "resultready", "stopped"}
Phase == {"new", "released"} \cup Unfinished

TypeOK ==
  /\ running \in SUBSET Task
  /\ shuttingdown \in BOOLEAN
  /\ waitall_events \in SUBSET (Caller \X Nat)
  /\ ready \in BOOLEAN
  /\ primary_task \in Task \cup {None}
  /\ lock \in Caller \cup {None}
  /\ phase \in [Task -> Phase]
  /\ threads \in SUBSET Task
  /\ ppc \in {"wait", "read", "perform", "recheck", "left"}
  /\ reply \in Task \cup {None}
  /\ ppc \in {"perform", "recheck"} => reply \in Task
  /\ cpc \in [Caller -> {"idle", "handover", "waiting"}]
  /\ want \in [Caller -> Task \cup {None}]
  /\ waits \in [Caller -> Nat]
  /\ before \in [Caller -> SUBSET Task]
  /\ kind \in Kinds

\* A new pool; with hasprimary the primary thread enters its loop.
Init ==
  /\ kind \in Kinds
  /\ running = {}
  /\ shuttingdown = FALSE
  /\ waitall_events = {}
  /\ ready = FALSE
  /\ primary_task = None
  /\ lock = None
  /\ phase = [t \in Task |-> "new"]
  /\ threads = {}
  /\ ppc = IF HasPrimary THEN "wait" ELSE "left"
  /\ reply = None
  /\ cpc = [c \in Caller |-> "idle"]
  /\ want = [c \in Caller |-> None]
  /\ waits = [c \in Caller |-> 0]
  /\ before = [c \in Caller |-> {}]

-----------------------------------------------------------------------------
(* spawn(): the lock is taken, a pool that shuts down raises ValueError    *)
(* (nothing changes), the Reply joins _running, and                        *)
(* _try_send_to_primary_thread() decides where it executes.                *)

Accept(c, t) ==
  /\ cpc[c] = "idle"
  /\ lock = None
  /\ phase[t] = "new"
  /\ ~shuttingdown
  /\ running' = running \cup {t}
  /\ phase' = [phase EXCEPT ![t] = "pending"]

\* Mutant: the event of the primary thread is not looked at.
SpawnOnPrimaryUnchecked(c, t) ==
  /\ Accept(c, t)
  /\ HasPrimary
  /\ primary_task' = t
  /\ ready' = TRUE
  /\ UNCHANGED <<shuttingdown, waitall_events, lock, threads, ppc, reply, cpc,
                 want, waits, before, kind>>

\* The primary thread is idle: its event is not set.
SpawnOnPrimary(c, t) ==
  /\ Accept(c, t)
  /\ HasPrimary /\ ~ready
  /\ primary_task' = t
  /\ ready' = TRUE
  /\ UNCHANGED <<shuttingdown, waitall_events, lock, threads, ppc, reply, cpc,
                 want, waits, before, kind>>

MustQueueForPrimary == HasPrimary /\ ready /\ MainThreadOnly /\ primary_task # None

\* main_thread_only: wait for the previous task, still holding the lock.
SpawnBehindPrimary(c, t) ==
  /\ Accept(c, t)
  /\ MustQueueForPrimary
  /\ lock' = c
  /\ cpc' = [cpc EXCEPT ![c] = "handover"]
  /\ want' = [want EXCEPT ![c] = t]
  /\ UNCHANGED <<shuttingdown, waitall_events, ready, primary_task, threads, ppc,
                 reply, waits, before, kind>>

ResultReady(t) == phase[t] \in {"resultready", "stopped", "released"}

\* waitfinish() of the previous task returned: hand over and drop the lock.
HandOver(c) ==
  /\ cpc[c] = "handover"
  /\ ResultReady(primary_task)
  /\ primary_task' = want[c]
  /\ ready' = TRUE
  /\ lock' = None
  /\ cpc' = [cpc EXCEPT ![c] = "idle"]
  /\ UNCHANGED <<running, shuttingdown, waitall_events, phase, threads, ppc,
                 reply, want, waits, before, kind>>

\* Every other case starts a thread for the task.
SpawnThread(c, t) ==
  /\ Accept(c, t)
  /\ HasPrimary => ready
  /\ ~MustQueueForPrimary
  /\ threads' = threads \cup {t}
  /\ UNCHANGED <<shuttingdown, waitall_events, ready, primary_task, lock, ppc,
                 reply, cpc, want, waits, before, kind>>

-----------------------------------------------------------------------------
(* trigger_shutdown() and waitall().                                       *)

TriggerShutdown(c) ==
  /\ cpc[c] = "idle"
  /\ lock = None
  /\ shuttingdown' = TRUE
  /\ primary_task' = IF HasPrimary THEN None ELSE primary_task
  /\ ready' = (ready \/ HasPrimary)
  /\ UNCHANGED <<running, waitall_events, lock, phase, threads, ppc, reply, cpc,
                 want, waits, before, kind>>

\* A call that finds _running empty returns True at once and changes nothing.
WaitAll(c) ==
  /\ cpc[c] = "idle"
  /\ lock = None
  /\ running # {}
  /\ waits[c] < MaxWaits
  /\ waits' = [waits EXCEPT ![c] = @ + 1]
  /\ waitall_events' = waitall_events \cup {<<c, waits[c] + 1>>}
  /\ before' = [before EXCEPT ![c] = running]
  /\ cpc' = [cpc EXCEPT ![c] = "waiting"]
  /\ UNCHANGED <<running, shuttingdown, ready, primary_task, lock, phase,
                 threads, ppc, reply, want, kind>>

Signalled(c) == <<c, waits[c]>> \notin waitall_events

LeaveWait(c) ==
  /\ cpc[c] = "waiting"
  /\ cpc' = [cpc EXCEPT ![c] = "idle"]
  /\ UNCHANGED <<running, shuttingdown, waitall_events, ready, primary_task,
                 lock, phase, threads, ppc, reply, want, waits, before, kind>>

\* my_waitall_event.wait() returned True ...
WaitAllTrue(c) == Signalled(c) /\ LeaveWait(c)

\* ... or the timeout passed: False, and the event stays in _waitall_events.
WaitAllFalse(c) == Timeouts /\ ~Signalled(c) /\ LeaveWait(c)

-----------------------------------------------------------------------------
(* Reply.run() and _perform_spawn(), in a thread of the task's own or in   *)
(* the primary thread.                                                     *)

Performs(t) == t \in threads \/ (ppc = "perform" /\ reply = t)

Advance(t, from, to) ==
  /\ Performs(t)
  /\ phase[t] = from
  /\ phase' = [phase EXCEPT ![t] = to]

RunStep(t, from, to) ==
  /\ Advance(t, from, to)
  /\ UNCHANGED <<running, shuttingdown, waitall_events, ready, primary_task,
                 lock, threads, ppc, reply, cpc, want, waits, before, kind>>

Run(t) == RunStep(t, "pending", "executing")

\* func() returned or raised, the result event is set ...
SetResult(t) == RunStep(t, "executing", "resultready")

\* ... and only then is "running" of the Reply cleared.
Stop(t) == RunStep(t, "resultready", "stopped")

\* Mutant: every task that ends sets the waitall events.
ReleaseSignalsAlways(t) ==
  /\ Advance(t, "stopped", "released")
  /\ lock = None
  /\ running' = running \ {t}
  /\ waitall_events' = {}
  /\ ppc' = IF t \in threads THEN ppc ELSE "recheck"
  /\ UNCHANGED <<shuttingdown, ready, primary_task, lock, threads, reply, cpc,
                 want, waits, before, kind>>

\* Mutant: only one of the waitall events is popped and set.
ReleaseSignalsOne(t) ==
  /\ Advance(t, "stopped", "released")
  /\ lock = None
  /\ running' = running \ {t}
  /\ waitall_events' = IF running = {t} /\ waitall_events # {}
                       THEN waitall_events \ {CHOOSE e \in waitall_events : TRUE}
                       ELSE waitall_events
  /\ ppc' = IF t \in threads THEN ppc ELSE "recheck"
  /\ UNCHANGED <<shuttingdown, ready, primary_task, lock, threads, reply, cpc,
                 want, waits, before, kind>>

\* Under the lock: leave _running; the last one sets every waitall event.
Release(t) ==
  /\ Advance(t, "stopped", "released")
  /\ lock = None
  /\ running' = running \ {t}
  /\ waitall_events' = IF running = {t} THEN {} ELSE waitall_events
  /\ ppc' = IF t \in threads THEN ppc ELSE "recheck"
  /\ UNCHANGED <<shuttingdown, ready, primary_task, lock, threads, reply, cpc,
                 want, waits, before, kind>>

-----------------------------------------------------------------------------
(* integrate_as_primary_thread().                                          *)

PrimaryWake ==
  /\ ppc = "wait"
  /\ ready
  /\ ppc' = "read"
  /\ UNCHANGED <<running, shuttingdown, waitall_events, ready, primary_task,
                 lock, phase, threads, reply, cpc, want, waits, before, kind>>

\* Mutant: the None of trigger_shutdown() is taken for a task.
PrimaryReadUnchecked ==
  /\ ppc = "read"
  /\ reply' = primary_task
  /\ ppc' = "perform"
  /\ UNCHANGED <<running, shuttingdown, waitall_events, ready, primary_task,
                 lock, phase, threads, cpc, want, waits, before, kind>>

\* The task is read without the lock; None means trigger_shutdown() woke us.
PrimaryRead ==
  /\ ppc = "read"
  /\ reply' = primary_task
  /\ ppc' = IF primary_task = None THEN "left" ELSE "perform"
  /\ UNCHANGED <<running, shuttingdown, waitall_events, ready, primary_task,
                 lock, phase, threads, cpc, want, waits, before, kind>>

\* Mutant: the event is cleared although the next task was handed over.
PrimaryRecheckClears ==
  /\ ppc = "recheck"
  /\ lock = None
  /\ ppc' = IF shuttingdown THEN "left" ELSE "wait"
  /\ ready' = (ready /\ shuttingdown)
  /\ UNCHANGED <<running, shuttingdown, waitall_events, primary_task, lock,
                 phase, threads, reply, cpc, want, waits, before, kind>>

\* Under the lock: stop, or clear the event unless the next task is there.
PrimaryRecheck ==
  /\ ppc = "recheck"
  /\ lock = None
  /\ ppc' = IF shuttingdown THEN "left" ELSE "wait"
  /\ ready' = (ready /\ (shuttingdown \/ reply # primary_task))
  /\ UNCHANGED <<running, shuttingdown, waitall_events, primary_task, lock,
                 phase, threads, reply, cpc, want, waits, before, kind>>

-----------------------------------------------------------------------------
PrimaryStep == PrimaryWake \/ PrimaryRead \/ PrimaryRecheck

TaskStep(t) == Run(t) \/ SetResult(t) \/ Stop(t) \/ Release(t)

Spawn(c, t) == SpawnOnPrimary(c, t) \/ SpawnBehindPrimary(c, t) \/ SpawnThread(c, t)

CallerStep(c) ==
  \/ \E t \in Task : Spawn(c, t)
  \/ HandOver(c)
  \/ TriggerShutdown(c)
  \/ WaitAll(c)
  \/ WaitAllTrue(c)
  \/ WaitAllFalse(c)

Next ==
  \/ PrimaryStep
  \/ \E t \in Task : TaskStep(t)
  \/ \E c \in Caller : CallerStep(c)

\* Threads are scheduled; the functions given to spawn() are assumed to
\* return.  No caller is obliged to call anything.
Fairness ==
  /\ WF_vars(PrimaryStep)
  /\ \A t \in Task : WF_vars(TaskStep(t))
  /\ \A c \in Caller : WF_vars(HandOver(c)) /\ WF_vars(WaitAllTrue(c))

Spec == Init /\ [][Next]_vars

FairSpec == Spec /\ Fairness

-----------------------------------------------------------------------------
(* Safety.                                                                 *)

HandedOver(t) == \E c \in Caller : cpc[c] = "handover" /\ want[c] = t

\* The primary thread will find t: its event is set and stays set.
Delivered(t) ==
  /\ primary_task = t
  /\ ready
  /\ ppc \in {"wait", "read"} \/ (ppc \in {"perform", "recheck"} /\ reply # t)

Orphans == {t \in Task : /\ phase[t] = "pending"
                        /\ ~Performs(t) /\ ~HandedOver(t) /\ ~Delivered(t)}

\* No hand-over is lost: until the pool shuts down, a task that spawn()
\* accepted has a thread that executes it or will (REF1: the event set by
\* _try_send_to_primary_thread is not cleared by a primary thread that has not
\* seen the task yet).
NoLostHandOver == ~shuttingdown => Orphans = {}

\* main_thread_only: spawn() never starts a thread, wherever the primary
\* thread stands when it is called.
PrimaryOnly == HasPrimary /\ MainThreadOnly => threads = {}

\* When waitall() returns True, every task that ran when it was called has left
\* the pool; a later task and an event left over from an earlier call that
\* timed out make no difference.
WaitallSound ==
  \A c \in Caller :
    cpc[c] = "waiting" /\ Signalled(c) => \A t \in before[c] : phase[t] = "released"

-----------------------------------------------------------------------------
(* Liveness.                                                               *)

\* The one way to get stuck: the lock is kept by a spawn() that waits for a task
\* which the primary thread has not read, and which it will not read before it
\* has had the lock to let go of the task it executed before.
Overtaken == lock # None /\ ppc \in {"perform", "recheck"} /\ reply # primary_task

\* A task that was accepted is executed unless the pool is shut down.
AcceptedExecutes ==
  \A t \in Task :
    phase[t] = "pending" ~> (phase[t] = "executing" \/ shuttingdown \/ Overtaken)

\* waitall() returns: "Wait until all active spawns have finished executing."  But
\* trigger_shutdown() may overwrite a task the primary thread has not read.
WaitallReturnsWhileOpen ==
  \A c \in Caller :
    cpc[c] = "waiting" ~> (cpc[c] = "idle" \/ (shuttingdown /\ HasPrimary) \/ Overtaken)
-----------------------------------------------------------------------------
(* The pool implements TaskPool.                                           *)

Status(t) == CASE phase[t] = "new" -> "new"
               [] phase[t] = "released" -> "done"
               [] OTHER -> "running"

Waiter(c) == IF cpc[c] # "waiting" THEN "idle"
             ELSE IF Signalled(c) THEN "released" ELSE "waiting"

Abstract == INSTANCE TaskPool WITH
  status <- [t \in Task |-> Status(t)],
  shut <- shuttingdown,
  waiter <- [c \in Caller |-> Waiter(c)]

\* Seen from outside, threads, lock, events and the primary thread's loop do
\* what TaskPool says: a task is accepted, ends once, and only the end of the
\* last one releases the callers of waitall(), all of them at once.
ImplementsTaskPool == Abstract!Spec
=============================================================================
