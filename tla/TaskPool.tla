------------------------------ MODULE TaskPool ------------------------------
(***************************************************************************)
(* What WorkerPool promises to the gateway that uses it: tasks are         *)
(* accepted until the pool is shut down, each ends at most once, and the   *)
(* callers of waitall() are all let go when the last task ends.  Threads,  *)
(* locks and events do not appear.                                         *)
(***************************************************************************)
CONSTANTS Task, Caller

VARIABLES
  status,  \* of each task: "new", "running" or "done"
  shut,    \* has the pool been told to shut down?
  waiter   \* of each caller: "idle", in waitall() "waiting", or "released"

vars == <<status, shut, waiter>>

Running == {t \in Task : status[t] = "running"}

Init ==
  /\ status = [t \in Task |-> "new"]
  /\ shut = FALSE
  /\ waiter = [c \in Caller |-> "idle"]

Accept(t) ==
  /\ ~shut
  /\ status[t] = "new"
  /\ status' = [status EXCEPT ![t] = "running"]
  /\ UNCHANGED <<shut, waiter>>

Finish(t) ==
  /\ status[t] = "running"
  /\ status' = [status EXCEPT ![t] = "done"]
  /\ waiter' = IF Running = {t}
               THEN [c \in Caller |-> IF waiter[c] = "waiting" THEN "released"
                                                               ELSE waiter[c]]
               ELSE waiter
  /\ UNCHANGED shut

Shutdown ==
  /\ shut' = TRUE
  /\ UNCHANGED <<status, waiter>>

WaitBegin(c) ==
  /\ waiter[c] = "idle"
  /\ Running # {}
  /\ waiter' = [waiter EXCEPT ![c] = "waiting"]
  /\ UNCHANGED <<status, shut>>

\* A caller that is not released leaves because its timeout passed.
WaitEnd(c) ==
  /\ waiter[c] # "idle"
  /\ waiter' = [waiter EXCEPT ![c] = "idle"]
  /\ UNCHANGED <<status, shut>>

Next ==
  \/ \E t \in Task : Accept(t) \/ Finish(t)
  \/ Shutdown
  \/ \E c \in Caller : WaitBegin(c) \/ WaitEnd(c)

Spec == Init /\ [][Next]_vars
=============================================================================
