-------------------------------- MODULE Group --------------------------------
(***************************************************************************)
(* Groups of gateways, multi.py and Gateway.exit() of gateway.py: threads  *)
(* make gateways, exit() them and terminate() the group at the same time.  *)
(* The lists of a group have no lock, so a step is one access to a list:   *)
(* exit() looks for its gateway in the list one index after the other,     *)
(* removes it, appends it to the list of those to join, and sends the      *)
(* termination message.                                                    *)
(*                                                                         *)
(* safe_terminate() runs a job for each gateway to join.  A job joins the  *)
(* gateway and waits for its process; when the timeout passes it kills it. *)
(* A process may ignore its termination, a kill may hang, and a gateway    *)
(* that is proxied by another one is waited for and killed through it.     *)
(***************************************************************************)
EXTENDS Naturals, FiniteSets, SequencesExt

CONSTANTS
  Gateway,     \* the gateway objects that can be made
  Thread,      \* the threads that use the group
  Terminator,  \* those of them that call terminate()
  Names,       \* the explicit ids in use; gwN is the number N
  MaxCalls,    \* bound: the calls threads make
  None         \* no gateway, no id

ASSUME GroupAssumption ==
  /\ Terminator \subseteq Thread
  /\ Names \subseteq Nat
  /\ MaxCalls \in Nat
  /\ None \notin Gateway /\ None \notin Nat /\ None \notin Thread

VARIABLES
  gateways,  \* _gateways
  to_join,   \* _gateways_to_join
  counter,   \* _autoidcounter
  id,        \* the id of each gateway
  master,    \* the gateway that proxies it: spec.via
  owned,     \* the gateways with a _group: makegateway() has returned them
  proc,      \* the process of each gateway
  told,      \* the gateways that were sent GATEWAY_TERMINATE
  pc,        \* where each thread stands
  calls,     \* how many calls they have begun
  gw,        \* the gateway it makes or exits
  index,     \* the place in the list where it looks for gw
  ending,    \* is it in terminate()?
  timed,     \* ... with a timeout?
  vias,      \* ... the ids of those that proxy others
  todo,      \* ... the gateways it still has to exit, or to wait for
  job,       \* ... the job of each gateway in safe_terminate()
  members,   \* history: the members when its terminate() began
  leaver     \* history: the thread that took a gateway off the list

lists == <<gateways, to_join>>
made == <<counter, id, master, owned>>
process == <<proc, told>>
terminating == <<ending, timed, vias, todo, job, members>>
vars == <<lists, made, process, pc, calls, gw, index, terminating, leaver>>

TypeOK ==
  /\ gateways \in Seq(Gateway)
  /\ to_join \in Seq(Gateway)
  /\ counter \in Nat
  /\ id \in [Gateway -> Nat \cup {None}]
  /\ master \in [Gateway -> Gateway \cup {None}]
  /\ owned \in SUBSET Gateway
  /\ proc \in [Gateway -> {"none", "running", "ended"}]
  /\ told \in SUBSET owned
  /\ pc \in [Thread -> {"idle", "start", "register", "append", "scan", "remove",
                        "push", "send", "closing", "while", "copy", "exits", "wait"}]
  /\ calls \in Nat
  /\ gw \in [Thread -> Gateway \cup {None}]
  /\ index \in [Thread -> Nat \ {0}]
  /\ ending \in [Thread -> BOOLEAN]
  /\ timed \in [Thread -> BOOLEAN]
  /\ vias \in [Thread -> SUBSET Nat]
  /\ todo \in [Thread -> Seq(Gateway)]
  /\ job \in [Thread -> [Gateway -> {"none", "join", "kill", "done", "raised"}]]
  /\ members \in [Thread -> SUBSET Gateway]
  /\ leaver \in [Gateway -> Thread \cup {None}]

Each(v) == [t \in Thread |-> v]

Init ==
  /\ gateways = <<>> /\ to_join = <<>>
  /\ counter = 0
  /\ id = [g \in Gateway |-> None]
  /\ master = [g \in Gateway |-> None]
  /\ owned = {}
  /\ proc = [g \in Gateway |-> "none"]
  /\ told = {}
  /\ pc = Each("idle") /\ calls = 0 /\ gw = Each(None) /\ index = Each(1)
  /\ ending = Each(FALSE) /\ timed = Each(FALSE)
  /\ vias = Each({}) /\ todo = Each(<<>>)
  /\ job = Each([g \in Gateway |-> "none"])
  /\ members = Each({})
  /\ leaver = [g \in Gateway |-> None]

-----------------------------------------------------------------------------
Listed == {gateways[i] : i \in DOMAIN gateways}
Ids == {id[g] : g \in Listed}

Call(t, to) ==
  /\ pc[t] = "idle"
  /\ calls < MaxCalls
  /\ calls' = calls + 1
  /\ pc' = [pc EXCEPT ![t] = to]

At(t, here) == pc[t] = here /\ UNCHANGED calls
Goto(t, there) == pc' = [pc EXCEPT ![t] = there]

\* A call ends with an exception.
Raise(t) ==
  /\ Goto(t, "idle")
  /\ ending' = [ending EXCEPT ![t] = FALSE]

-----------------------------------------------------------------------------
(* makegateway().                                                          *)

\* The spec of a gateway that is not used yet; who proxies is not proxied itself.
Specify(t, g, n, m) ==
  /\ id[g] = None
  /\ m # None => m \in owned /\ master[m] = None
  /\ id' = [id EXCEPT ![g] = n]
  /\ master' = [master EXCEPT ![g] = m]
  /\ gw' = [gw EXCEPT ![t] = g]

\* allocate_id(), under its lock; ValueError when the id is taken.
AllocateId(t, g, m) ==
  /\ Call(t, IF counter \in Ids THEN "idle" ELSE "start")
  /\ counter' = counter + 1
  /\ IF counter \in Ids THEN UNCHANGED <<id, master, gw>>
                        ELSE Specify(t, g, counter, m)
  /\ UNCHANGED <<lists, owned, process, index, terminating, leaver>>

NameId(t, g, n, m) ==
  /\ Call(t, "start")
  /\ Specify(t, g, n, m)
  /\ UNCHANGED <<lists, counter, owned, process, index, terminating, leaver>>

Holders(n) == {g \in Listed : id[g] = n}

\* The process is started, by the member whose id is spec.via if there is one ...
Start(t) ==
  /\ At(t, "start")
  /\ Goto(t, "register")
  /\ LET g == gw[t]
     IN  /\ \/ master[g] = None /\ UNCHANGED master
            \/ /\ master[g] # None
               /\ \E m \in Holders(id[master[g]]) :
                    proc[m] = "running" /\ master' = [master EXCEPT ![g] = m]
         /\ proc' = [proc EXCEPT ![g] = "running"]
  /\ UNCHANGED <<lists, counter, id, owned, told, gw, index, terminating,
                 leaver>>

\* ... KeyError when there is no such member, OSError when its process is gone.
StartFails(t) ==
  /\ At(t, "start")
  /\ master[gw[t]] # None
  /\ \A m \in Holders(id[master[gw[t]]]) : proc[m] = "ended"
  /\ Goto(t, "idle")
  /\ UNCHANGED <<lists, made, process, gw, index, terminating, leaver>>

\* _register(): an AssertionError leaves the process behind.
Register(t) ==
  /\ At(t, "register")
  /\ Goto(t, IF id[gw[t]] \in Ids THEN "idle" ELSE "append")
  /\ UNCHANGED <<lists, made, process, gw, index, terminating, leaver>>

\* Mutant: the gateway does not learn its group.
AppendUnowned(t) ==
  /\ At(t, "append")
  /\ Goto(t, "idle")
  /\ gateways' = Append(gateways, gw[t])
  /\ UNCHANGED <<to_join, made, process, gw, index, terminating, leaver>>

AppendGateway(t) ==
  /\ At(t, "append")
  /\ Goto(t, "idle")
  /\ gateways' = Append(gateways, gw[t])
  /\ owned' = owned \cup {gw[t]}
  /\ UNCHANGED <<to_join, counter, id, master, process, gw, index,
                 terminating, leaver>>

-----------------------------------------------------------------------------
(* exit(), called by a user or by terminate().                             *)

\* The proxy is gone, and with it the connection.
Lost(g) == master[g] # None /\ proc[master[g]] = "ended"

Exit(t, g) ==
  /\ Call(t, "scan")
  /\ g \in owned
  /\ gw' = [gw EXCEPT ![t] = g]
  /\ UNCHANGED <<lists, made, process, index, terminating, leaver>>

ExitReturns(t) == Goto(t, IF ending[t] THEN "exits" ELSE "idle")

\* "self not in self._group": the list may change under the iteration.
Scan(t) ==
  /\ At(t, "scan")
  /\ IF index[t] > Len(gateways) THEN ExitReturns(t)
     ELSE IF gateways[index[t]] = gw[t] THEN Goto(t, "remove")
     ELSE UNCHANGED pc
  /\ index' = [index EXCEPT ![t] = IF pc'[t] = "scan" THEN @ + 1 ELSE 1]
  /\ UNCHANGED <<lists, made, process, gw, terminating, leaver>>

\* _unregister(): list.remove() takes out the first that is equal ...
RemoveMember(t) ==
  /\ At(t, "remove")
  /\ \E i \in DOMAIN gateways :
       /\ gateways[i] = gw[t] /\ \A j \in 1..i - 1 : gateways[j] # gw[t]
       /\ gateways' = RemoveAt(gateways, i)
  /\ Goto(t, "push")
  /\ leaver' = [leaver EXCEPT ![gw[t]] = t]
  /\ UNCHANGED <<to_join, made, process, gw, index, terminating>>

\* ... raises ValueError when another thread was faster.
RemoveFails(t) ==
  /\ At(t, "remove")
  /\ gw[t] \notin Listed
  /\ Raise(t)
  /\ UNCHANGED <<lists, made, process, gw, index, timed, vias, todo, job, members,
                 leaver>>

Push(t) ==
  /\ At(t, "push")
  /\ Goto(t, "send")
  /\ to_join' = Append(to_join, gw[t])
  /\ UNCHANGED <<gateways, made, process, gw, index, terminating, leaver>>

\* GATEWAY_TERMINATE, then close_write(); OSError and EOFError are ignored.  The pipe to a
\* process of one's own is just closed, and to close that of a proxied gateway is a call.
SendTerminate(t) ==
  /\ At(t, "send")
  /\ told' = told \cup {gw[t]}
  /\ IF master[gw[t]] = None THEN ExitReturns(t) ELSE Goto(t, "closing")
  /\ UNCHANGED <<lists, made, proc, gw, index, terminating, leaver>>

\* ProxyIO.close_write(): a request on the control channel, and a receive() without a
\* timeout.  The proxy answers, or EOFError tells that it is gone.
CloseReturns(t) ==
  /\ At(t, "closing")
  /\ ExitReturns(t)
  /\ UNCHANGED <<lists, made, process, gw, index, terminating, leaver>>

\* The proxy could not write to the process any more, and so fails to close the pipe: the
\* answer is a RemoteError, which exit() does not catch.
CloseRaises(t) ==
  /\ At(t, "closing")
  /\ proc[gw[t]] = "ended"
  /\ Raise(t)
  /\ UNCHANGED <<lists, made, process, gw, index, timed, vias, todo, job, members,
                 leaver>>

-----------------------------------------------------------------------------
(* terminate().                                                            *)

Terminate(t, timeout) ==
  /\ Call(t, "while")
  /\ t \in Terminator
  /\ ending' = [ending EXCEPT ![t] = TRUE]
  /\ timed' = [timed EXCEPT ![t] = timeout]
  /\ members' = [members EXCEPT ![t] = Listed]
  /\ job' = [job EXCEPT ![t] = [g \in Gateway |-> "none"]]
  /\ UNCHANGED <<lists, made, process, gw, index, vias, todo, leaver>>

TerminateReturns(t) ==
  /\ At(t, "while")
  /\ gateways = <<>>
  /\ Goto(t, "idle")
  /\ ending' = [ending EXCEPT ![t] = FALSE]
  /\ UNCHANGED <<lists, made, process, gw, index, timed, vias, todo, job, members,
                 leaver>>

ViaIds == {id[master[g]] : g \in {h \in Listed : master[h] # None}}

\* Mutant: gateways that proxy others are not looked for.
RoundWithoutVias(t) ==
  /\ At(t, "while")
  /\ gateways # <<>>
  /\ Goto(t, "copy")
  /\ UNCHANGED <<lists, made, process, gw, index, terminating, leaver>>

\* Who proxies another member has to wait for the next round.
Round(t) ==
  /\ At(t, "while")
  /\ gateways # <<>>
  /\ Goto(t, "copy")
  /\ vias' = [vias EXCEPT ![t] = ViaIds]
  /\ UNCHANGED <<lists, made, process, gw, index, ending, timed, todo, job, members,
                 leaver>>

Copy(t) ==
  /\ At(t, "copy")
  /\ Goto(t, "exits")
  /\ todo' = [todo EXCEPT ![t] = gateways]
  /\ UNCHANGED <<lists, made, process, gw, index, ending, timed, vias, job, members,
                 leaver>>

ExitNext(t) ==
  /\ At(t, "exits")
  /\ todo[t] # <<>>
  /\ todo' = [todo EXCEPT ![t] = Tail(@)]
  /\ LET g == Head(todo[t])
     IN  IF id[g] \in vias[t]
         THEN UNCHANGED <<pc, gw>>
         ELSE Goto(t, "scan") /\ gw' = [gw EXCEPT ![t] = g]
  /\ UNCHANGED <<lists, made, process, index, ending, timed, vias, job, members, leaver>>

\* safe_terminate(): a job for each gateway to join.
Collect(t) ==
  /\ At(t, "exits")
  /\ todo[t] = <<>>
  /\ Goto(t, "wait")
  /\ todo' = [todo EXCEPT ![t] = to_join]
  /\ job' = [job EXCEPT ![t] = [g \in Gateway |->
       IF \E i \in DOMAIN to_join : to_join[i] = g THEN "join" ELSE @[g]]]
  /\ UNCHANGED <<lists, made, process, gw, index, ending, timed, vias, members, leaver>>

\* Mutant: waits for jobs without a bound.
WaitUnbounded(t) ==
  /\ At(t, "wait")
  /\ todo[t] # <<>>
  /\ job[t][Head(todo[t])] = "done"
  /\ todo' = [todo EXCEPT ![t] = Tail(@)]
  /\ UNCHANGED <<lists, made, process, pc, gw, index, ending, timed, vias, job, members,
                 leaver>>

\* Waits for the next job, twice the timeout at most: a job that has not ended then
\* has begun to kill.  (Threads are assumed to start within the timeout.)
Wait(t) ==
  /\ At(t, "wait")
  /\ todo[t] # <<>>
  /\ job[t][Head(todo[t])] \in {"done", "kill"}
  /\ todo' = [todo EXCEPT ![t] = Tail(@)]
  /\ UNCHANGED <<lists, made, process, pc, gw, index, ending, timed, vias, job, members,
                 leaver>>

\* reply.get() raises what the job has raised.
WaitRaises(t) ==
  /\ At(t, "wait")
  /\ todo[t] # <<>>
  /\ job[t][Head(todo[t])] = "raised"
  /\ Raise(t)
  /\ UNCHANGED <<lists, made, process, gw, index, timed, vias, todo, job, members,
                 leaver>>

Clear(t) ==
  /\ At(t, "wait")
  /\ todo[t] = <<>>
  /\ to_join' = <<>>
  /\ Goto(t, "while")
  /\ UNCHANGED <<gateways, made, process, gw, index, terminating, leaver>>

-----------------------------------------------------------------------------
(* The jobs of safe_terminate(), in threads of their own.                  *)

JobStep(t, g, from, to) ==
  /\ job[t][g] = from
  /\ job' = [job EXCEPT ![t][g] = to]
  /\ UNCHANGED <<lists, made, told, pc, calls, gw, index, ending, timed, vias, todo,
                 members, leaver>>

\* Mutant: the receiver thread is joined, but the process not waited for.
JoinedWithoutWait(t, g) ==
  /\ g \in told /\ ~Lost(g)
  /\ JobStep(t, g, "join", "done")
  /\ UNCHANGED proc

\* gw.join() and gw._io.wait() return.
Joined(t, g) ==
  /\ proc[g] = "ended" /\ ~Lost(g)
  /\ JobStep(t, g, "join", "done")
  /\ UNCHANGED proc

JobTimeout(t, g) ==
  /\ timed[t]
  /\ JobStep(t, g, "join", "kill")
  /\ UNCHANGED proc

Kill(t, g) ==
  /\ ~Lost(g)
  /\ JobStep(t, g, "kill", "done")
  /\ proc' = [proc EXCEPT ![g] = "ended"]

\* wait() and kill() of a proxied gateway raise when its proxy is gone.
JobRaises(t, g) ==
  /\ Lost(g)
  /\ \E from \in {"join", "kill"} : JobStep(t, g, from, "raised")
  /\ UNCHANGED proc

\* The process ends, told or not; it need not.
ProcessEnds(g) ==
  /\ proc[g] = "running"
  /\ proc' = [proc EXCEPT ![g] = "ended"]
  /\ UNCHANGED <<lists, made, told, pc, calls, gw, index, terminating, leaver>>

-----------------------------------------------------------------------------
Begin(t) ==
  \/ \E g \in Gateway, m \in Gateway \cup {None} :
       AllocateId(t, g, m) \/ \E n \in Names : NameId(t, g, n, m)
  \/ \E g \in Gateway : Exit(t, g)
  \/ \E timeout \in BOOLEAN : Terminate(t, timeout)

Continue(t) ==
  \/ Start(t) \/ StartFails(t) \/ Register(t) \/ AppendGateway(t)
  \/ Scan(t) \/ RemoveMember(t) \/ RemoveFails(t) \/ Push(t) \/ SendTerminate(t)
  \/ TerminateReturns(t) \/ Round(t) \/ Copy(t) \/ ExitNext(t) \/ Collect(t)
  \/ Wait(t) \/ WaitRaises(t) \/ Clear(t)

CloseEnds(t) == CloseReturns(t) \/ CloseRaises(t)

Job(t, g) == Joined(t, g) \/ JobTimeout(t, g) \/ JobRaises(t, g)

Next ==
  \/ \E t \in Thread : Begin(t) \/ Continue(t) \/ CloseEnds(t)
  \/ \E t \in Thread, g \in Gateway : Job(t, g) \/ Kill(t, g)
  \/ \E g \in Gateway : ProcessEnds(g)

\* Threads go on and timeouts pass; a kill may hang, a process go on for ever, and a proxy
\* that is not gone never answer.
Fairness ==
  \A t \in Thread :
    /\ WF_vars(Continue(t))
    /\ WF_vars(CloseEnds(t) /\ Lost(gw[t]))
    /\ \A g \in Gateway : WF_vars(Job(t, g))

Spec == Init /\ [][Next]_vars

FairSpec == Spec /\ Fairness

-----------------------------------------------------------------------------
(* Safety.                                                                 *)

\* Another thread has called exit().
LeftOtherwise(t, g) == leaver[g] \notin {None, t}

\* Waited for, or, when the timeout had passed, killed as far as that was possible.
CareTaken(t, g) == proc[g] = "ended" \/ (timed[t] /\ job[t][g] \notin {"none", "join"})

\* When terminate() returns, every gateway that was a member when it was called has
\* been told to end, and its end was waited for, in however many rounds, while other
\* threads make and exit gateways.
TerminateIsThorough ==
  \A t \in Terminator :
    pc[t] = "while" /\ gateways = <<>> =>
      \A g \in members[t] : LeftOtherwise(t, g) \/ (g \in told /\ CareTaken(t, g))

\* terminate() tells a gateway to end only after it is through with those members
\* that it proxies.
ProxiedFirst ==
  [][\A t \in Terminator :
       ending[t] /\ SendTerminate(t) =>
         \A g \in members[t] :
           master[g] = gw[t] => LeftOtherwise(t, g) \/ CareTaken(t, g)]_vars

-----------------------------------------------------------------------------
(* Liveness.                                                               *)

\* The one way to loop: all members have ids that other members name as their proxy.
\* (A gateway may take the id of its own proxy when that has left the group.)
Circular == gateways # <<>> /\ Ids \subseteq ViaIds

\* It is in exit(), waiting for the answer of a proxy.
Closing(t) == pc[t] = "closing" /\ ~Lost(gw[t])

\* terminate() with a timeout ends, be the processes stuck and the kills too: "never
\* block indefinitely".  That does not go for exit(), which waits for a proxy that never
\* answers.  Without a timeout it ends unless a process goes on for ever.
TerminateEnds ==
  \A t \in Terminator :
    ending[t] ~> \/ ~ending[t]
                 \/ Circular
                 \/ [](Closing(t))
                 \/ ~timed[t] /\ \E g \in Gateway : [](proc[g] = "running")
=============================================================================
