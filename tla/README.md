# execnet in TLA+

A verification project for execnet: TLA+ modules of its concurrent core, TLC
configurations that check them on small instances, and proofs for TLAPS. Paths
are those of the repository; `gateway_base.py` stands for
`src/execnet/gateway_base.py`.

## 1. The system

execnet connects Python interpreters. A *gateway* is one end of a connection to
another interpreter. `Gateway.remote_exec()` sends source code to the other end
and returns a *channel*; both ends exchange serialized objects over it. Every
gateway object owns one *receiver thread* that reads messages and changes the
state of the channels while user threads call their methods, mostly without a
lock. At the far end, `WorkerGateway` executes the code in a pool of threads.

### Components

| Component | State | Operations | Hard because |
|---|---|---|---|
| `WorkerPool`, `Reply` (`gateway_base.py:314-472`) | `_running`, `_running_lock`, `_shuttingdown`, `_waitall_events`, `_primary_thread_task` and its event; per Reply: result event, `running` | `spawn`, `integrate_as_primary_thread`, `trigger_shutdown`, `waitall`, `Reply.run` | a task is handed to the primary thread through a variable and an event, read without the lock |
| `Channel`, `ChannelFactory`, one end (`gateway_base.py:700-1061`) | `_items`, `_closed`, `_receiveclosed`, `_remoteerrors`; `_channels`, `_callbacks`, `finished` | `setcallback`, `receive`, `send`, `waitclose`, `close`, `__del__`; `_local_receive`, `_local_close`, `_finished_receiving` | user threads and the receiver thread touch the same variables; only some of it is under `_receivelock` |
| Channel protocol (`Message`, `gateway.py`) | channel numbers, the states opened, sendonly, closed, deleted at each end, messages under way | the message handlers, `newchannel`, `remote_exec`, `exit`, `reconfigure` | closing messages cross; garbage collection sends messages; channels travel over channels |
| `WorkerGateway` (`gateway_base.py:1210-1311`) | the pool, `_executetask_complete`, the process | `_local_schedulexec`, `executetask`, `serve`, `_terminate_execution` | timeouts, signals, user code that never ends, a receiver thread that may block in `spawn` |
| Serializer (`gateway_base.py:1314-1758`) | a stack and a stream | `dump`, `dumps`, `load`, `loads` | integer widths, string configurations, streams that are cut off, objects that fail half way |
| `ChannelFile` (`gateway_base.py:1064-1122`) | a buffer | `read`, `readline`, `write` | items and reads of different size, the end of the channel |
| Framing and io (`gateway_base.py:475-700`, `gateway_io.py`) | pipes, a write lock | `Message.to_io`, `from_io` | bounded pipes with a receiver thread that writes |
| `Group`, `MultiChannel`, `safe_terminate` (`multi.py`) | ids, the gateways and those to join, a job for each | `makegateway`, `terminate`, `_register`, `_unregister` | threads with timeouts, registration in two steps |
| `RSync` (`rsync.py`, `rsync_remote.py`) | links, per-target channel state | `send`, `serve_rsync` | one sender, several receivers, one of which fails |
| `XSpec` (`xspec.py`) | - | a parser | boundary cases |
| Proxied gateways (`gateway_io.py:124-255`) | two channels used as an io; at the forwarder the pipes and the process of the sub | `ProxyIO`, `serve_proxy_io`, the control calls | two connections that end in any order, a receiver thread that waits for a process, answers without a mark |
| Bootstrap (`gateway_bootstrap.py`, `gateway_socket.py`, `script/socketserver.py`) | what was written, read and buffered on both sides | `makegateway`, the start of the far end | source and messages through one pipe with two readers, a far end that dies or prints |
| Scripts, `ExecModel` | - | - | mostly input and output |

How they interact: the receiver thread calls the message handlers with
`_receivelock` held (`_thread_receiver`); the handlers call `ChannelFactory`,
which calls user callbacks; `CHANNEL_EXEC` makes it call `WorkerPool.spawn`.
User threads call `Channel`, which calls `_send` of the gateway. When the
receiver thread leaves its loop it calls `_finished_receiving`,
`_terminate_execution` and `trigger_shutdown` of its own pool, in this order.

What makes each component correct: no task is lost and no `spawn` or `waitall`
hangs (pool); every item reaches user code once and in order, and the end of a
channel reaches everybody who waits for it, once (channel); the two ends agree
about a channel once no message is under way (protocol); every request is
answered and the process ends when its connection does (worker); `terminate` leaves
no gateway untold and ends (group); a finished target equals the source, whatever
was left by earlier attempts (rsync); what is loaded is what was dumped, or nothing
(serializer); the first message does not end up with the source, and `makegateway`
comes back (bootstrap); replies come before the end, calls return and kill what they
say (proxies).

## 2. Modules

```
TaskPool  <--implements--  WorkerPool  <--instance--  WorkerGateway
                               ^                           ^
                        WorkerPool_proof  <--instance--  WorkerGateway_proof
ChannelEndpoint   (one end, all threads)  <-- ChannelEndpoint_proof
ChannelProtocol   (both ends, a handler is one step)
                    <-- ChannelProtocol_proof
Group             (gateways, the threads that make and end them, safe_terminate)
                    <-- Group_proof
RSync             (a sender and its targets)  <-- RSync_proof
Serializer        (dump, and the machine that loads)
Bootstrap         (the start of a gateway)  <-- Bootstrap_proof
Proxy             (a gateway via another)   <-- Proxy_proof
```

`MCChannelEndpoint`, `MCWorkerGateway`, `MCRSync` and `MCSerializer` add what the
configurations need (a symmetry set, a bound per backend, a small tree, a set of
objects). Definitions named
`Mutant: ...` in their comment are variants of the definition after them with a
plausible mistake; no specification uses them. Each of them makes TLC report the
property it is meant for, which shows that the property depends on the code; a
property with two parts has one for each.

### WorkerPool

The variables are the attributes of the pool, the phase of each `Reply`, the
program counters of the primary thread (`ppc`) and of the callers (`cpc`). A
step is what runs under `_running_lock`, or one access outside of it:
`primary_thread_task_ready.wait()`, the read of `_primary_thread_task`, the
setting of the result event, `running = False`. `spawn` has one action for each
way to a thread: `SpawnOnPrimary`, `SpawnThread`, and `SpawnBehindPrimary` with
`HandOver`, between which the lock is kept. `kind` chooses the pool: without a
primary thread, or with one for the `thread` or the `main_thread_only` backend.
Results and exceptions of tasks make no difference to the pool and are left out.

`TaskPool` is what a pool promises: a task is accepted, runs, and is done; the
end of the last running task releases the callers of `waitall` that wait, and
nothing else does. `ImplementsTaskPool` is the refinement.

### ChannelEndpoint

One channel object at one end, the entries of the factory, the receiver thread
and user threads. `rpc` and `upc` are program counters. `setcallback` and the
message handlers exclude each other through `_receivelock`; `close`, `receive`,
`waitclose` and `_finished_receiving` do not take it, so a read of `_items` and
the use of what was read are two steps. The peer is the environment: it sends
items, then at most one closing message, and may terminate or die. Callbacks may
raise, for an item and at their endmarker; `CallEndRaises` leaves out the rest of
`_local_close`, as the code does. `taken`, `seen`, `closedby`, `result` and `raised` are history.

Abstractions: one channel; a callback does not call methods of its own channel;
`send` (see ChannelProtocol), `KeyboardInterrupt` and data that cannot be loaded
are left out; the receiver thread sets `_closed` and `_receiveclosed` in one
step; `close` with a RemoteError, which also appends it to `_remoteerrors`
(`gateway_base.py:868-869`), is like `close` with a text: only a channel whose
`_receiveclosed` is set gets past `dumps_internal` with such an error, and then the
error is for a later `waitclose` of this side alone.

### ChannelProtocol

Two gateways and a FIFO of messages for each direction. A message handler is one
step, and so is a method. `state` uses the names of the comments in
`gateway_base.py` (opened, sendonly, closed, deleted), with "new" for a number
that this side has no object for. Users send items, also channels over channels,
receive, set callbacks, close, drop references (`__del__`), reconfigure and
exit; a process may die at any time. A worker whose receiver thread has finished goes
on sending what its tasks send (`Send`).

Abstractions: `CHANNEL_CLOSE_ERROR` is treated like `CHANNEL_CLOSE` and STATUS is
left out; every callback wants an endmarker; methods that would raise because the
gateway has ended do nothing; data for a channel that has not reached its
receiver yet is dropped, as in the code; a channel whose queue holds channels is
not dropped. Numbers that come to life a second time, or after the end, are
collected in `again` and excluded from the properties.

### WorkerGateway

The process at the far end. The receiver thread is the one caller of an instance
of WorkerPool, whose primary thread is the main thread. `gate` is the event
`_executetask_complete`; `rpc` is where the receiver thread stands, from the
handling of a request to the closing of the io; `stage` follows `executetask`
through user code, `channel.close()` and the setting of the event. The two
timeouts of `_terminate_execution` may pass whenever the pool is not idle, the
timeout of the gate whenever it is closed. An interrupt finds the main thread in
user code (which may swallow it), in the rest of `executetask` (`Reply.run`
catches it) or in `serve` (which ends). User code need not end. That the peer
closes the channel of a running request, and backends on greenlets, are left
out.

### Group

Threads make gateways (`AllocateId` or `NameId`, `Start`, `Register`, `AppendGateway`),
`exit` them (`Scan`, `RemoveMember`, `Push`, `SendTerminate`) and terminate the group
(`Round`, `Copy`, `ExitNext` with the steps of `exit`, `Collect`, `Wait`, `Clear`). The
lists of a group have no lock, so `exit` looks for its gateway one index at a time in a list
that others change. `terminate` works in rounds, because a gateway that proxies another
(`master`) has to wait until that has ended. `exit` tells a process of its own by closing a
pipe; for a proxied gateway it calls the proxy and waits for the answer without a timeout
(pc "closing": `CloseReturns`, `CloseRaises`, and no fairness as long as the proxy is not
gone). `job` is the state of each job of `safe_terminate`: it joins the gateway and waits
for its process, kills it when the timeout passes, and raises when the process is reached
through a proxy that is gone. A process may end at any time or never, and a kill may hang.

Abstractions: the pipe to a process has room for the termination message; the lookup of an
id is one step; `spec.via` finds any member with that id, not the first; a gateway is
appended and gets its `_group` in one step; `join_wait` is one step; the configuration of a
new process (chdir, nice, env) is left out; the pool of `safe_terminate` is taken to start
its jobs within the timeout (see WorkerPool for the pool itself), so the `waitall` at the
end changes nothing; what a `terminate` leaves behind in jobs goes on until the next one
begins.

### RSync

Both sides walk a tree. The sender describes the source to all targets
(`SendDirectoryStructure`, with a stack `walk`), then handles the requests of all targets
from one queue; a target walks the description (`stack`), asks for files (`ReceiveFile`),
writes them in order (`ReceiveData`, `Write`, `Utime`: opening truncates, so a crash can
leave a file half written), and makes the links. A message is one step, and a broadcast that
raises may have reached some of the targets (`SendAll`). The source changes, targets die and
reading a file fails at any time: `open` and `read` may give nothing for a file that is
there (`Read`; `unread` is the history of such files), `listdir` and `readlink` may raise
(`SendRaises`). A link has a text: a path below the source or below the target directory, a
relative one, or one that leads elsewhere. `PointOf` is what the sender makes of it, with
the current directory `Cwd` if that is in the source, and `Joined` what the target makes of
that. After a `send` that succeeded, targets can be added to the same object; after one that
failed the user starts with new gateways and a new object (`StartOver`).

Abstractions: contents are numbers, of which two have one size; a file that is
changed gets a new time (the assumption on which the comparison of times rests);
links point nowhere that can be opened; the target directory is an absolute path; a link
to the source directory itself is sent as it is; `lstat` (`rsync.py:237`) fails only for
what is gone; modes, `filter` (what it hides is like
absent) and the values given to progress callbacks are left out, but not the
failure of the lookup for them.

### Serializer

`save` is `_Serializer._save` as a function from an object to the bytes it writes
and the exception it ends with, if any: what was written before stays written. Loading
is a state machine, an opcode a step: `pos` is the position in the stream,
`stack` the stack of `Unserializer`, `result` what `load` returned or raised. `damage`
says what happened to the stream on its way: nothing, a part is missing, a byte was
changed, or `dump` failed. `conf` is the string configuration together with
whether the object goes over a channel (`internal`), where channels can be dumped.

Abstractions: a 4-byte integer is one item of the stream that knows its four bytes
(`Int4`), with their signed reading; the text of long integers, floats and complex
numbers is the number; characters are the few that the two decodings tell apart.
Equality of objects is that of `==`, sets and dictionaries as what they hold
(`Form`); what `loads` makes of strings under a configuration is `Expected`.

### Bootstrap

`cpc` follows `makegateway` at the coordinator, `spc` the far end: it starts, reads
the `line` with the source, runs it, answers, serves. The pieces of the stream are
counted (`sent`; `line`, which the buffered `readline` took; `got`, which messages
took), because a pipe keeps their order. `cap` is what fits into the pipe. The two ways to read the
source, `sys.stdin.readline()` of an interpreter and the file that
`exec_from_one_connection` makes of a socket, take as much as there is.

Abstractions: the source is one piece and its newline another; building command lines
and the text of the source are left out; a socket server that is busy is one that
has not started; vagrant is ssh.

### Proxy

The master, the forwarder with its two threads (`fpc`: the receiver with the
callbacks `forward_to_sub` and `control`; `fmain`: `serve_proxy_io`) and the sub.
`ioq` and `ctlq` are the queues of the two channels at the master, `wire` is what is under
way to the forwarder over both of them, in one order; `toSub` and `fromSub` are pipes
that hold `Cap` items. `upc` has the callers of the io: `exit`, and the pair of
functions that `terminate` gives to `safe_terminate`.

Abstractions: the connection between master and forwarder is that of
ChannelProtocol, here without bounds and with the forwarder's death as its only
failure; the source is one item, a message another; RIO_REMOTEADDRESS reads a
constant. A sub that prints before it answers is the subject of Bootstrap.

## 3. Runs

| Run | Checks | Shows |
|---|---|---|
| `pool_main` | `TypeOK NoLostHandOver ImplementsTaskPool AcceptedExecutes WaitallReturnsWhileOpen` | the hand-over to the primary thread, `waitall` with timeouts, and the refinement; tasks execute and calls return, with the exceptions named in section 6 |
| `end_safety` | `TypeOK EndmarkerOnce ItemsInOrder WaitCloseAfterEndmarker FailureIsReported AllClosedWhenDone PeerIsTold` | two users and the receiver thread at one end |
| `end_live` | `EndmarkerAfterPeer WaitersWakeUp` | who waits for the end of a channel is told, with callbacks that raise |
| `end_crash` (violation) | `ReceiverSurvives` | a callback that raises ends the receiver thread |
| `proto_main` | `TypeOK NothingLost SidesAgree EndTellsAll CloseMeansDeaf` | two ends, two channels |
| `gateway_main` | `TypeOK NeverOvertaken NormalExitMeansIdle NoFalseRefusalUnlessFailed ProcessEnds RequestsAnswered` | the worker, with both backends that have a primary thread |
| `gateway_refused` (violation) | `NoFalseRefusal` | one failed task makes the worker refuse all later ones |
| `group_main` | `TypeOK TerminateIsThorough ProxiedFirst TerminateEnds` | two threads make, exit and terminate gateways |
| `rsync_main` | `TypeOK NoMixUp FinishedMeansSynced SendEnds` | repeated sends of a tree that changes and cannot always be read, to targets that die |
| `serial_main` | `RoundTrip NoPartialLoad` | objects and streams of every kind, whole and damaged |
| `boot_main` | `NothingSwallowed BootstrapEnds` | gateways of every kind start |
| `proxy_main` | `RepliesComplete WaitMeansEnded CallsReturn` | a gateway via another is made, used, ended and killed |

A *violation* run is expected to fail: it states what a comment or a doc of the
repository says, and TLC shows how the code departs from it.

**Bounds.** Pool: three tasks, because a deadlock or a lost hand-over needs one task that
the primary thread has not let go of, behind it; two callers, so that a `waitall` or a
shutdown meets a `spawn`; one `waitall` of each (`MaxWaits`), so that the event of one that
timed out is still there when the other's returns (the proofs are for any number). Endpoint:
two users with any two calls each (`MaxCalls`), because every race here is between two users
and the receiver thread; two items show order and loss; with no two calls of one user in the
liveness run, one item is enough. Protocol: two channel numbers (`MaxId`), one for each
side, or one that travels over the other; two items per direction; three messages under way
(`MaxWire`: two items and a closing message); seven method calls in all (`MaxCalls`), enough
to open a channel, send, pass it on, drop or close it at both ends and reuse a number.
Worker: three requests of a `main_thread_only` worker (one that executes, one at the gate,
one behind), two of a `thread` worker. Group: two gateways, so that one can proxy the other,
and two threads; four calls (`MaxCalls`) are enough to make both, exit one and terminate the
group meanwhile. RSync: a directory with a file or a link in it and a file beside it, so
that contents can be mixed up and directories replaced; two targets or two sends
(`MaxSend`), a change of the source (`MaxChange`) and a death (`MaxDeath`); `MaxTrouble` and
`MaxWork` divide the changes, deaths, failing reads and entries of the tree among the
targets in use: one target with all of them, or two with half of them. Serializer: the
objects of `MCSerializer`, which has every type, both sides of every border, nested and
repeated elements, and every object with every damage and every configuration. Bootstrap: a
pipe that holds one piece or more (`MaxCap`), three messages behind source and newline
(`MaxSent`): two would do, since a `readline` that takes one of them shows everything.
Proxy: pipes that hold one item (`Cap`), so that every write may block; two messages and two
replies (`MaxSend`, `MaxReply`), one in a pipe and one behind it.

Symmetry is used in `end_safety` only (the users). Deadlock is not checked: users stop
calling when they reach their bound, and gateways end.

**Fairness.** A thread that can go on goes on (weak fairness of its steps), the end of file
is noticed, the timeouts of the worker pass. No user has to call anything, no peer has to
send anything, and in WorkerGateway no user code has to end. In Group the timeouts of the
jobs pass, but kills may hang, processes go on for ever, and a proxy that is not gone need
not answer; in RSync the sender and each target that lives go on. The pool run assumes that
tasks end; a timeout of `waitall` may pass and need not, so that a call that always returns
does so because it is signalled. In Bootstrap and Proxy a process that has closed its output
is gone at some time in the former and may stay in the latter, a far end need not start, and
the sub may stop reading.

## 4. Proofs

Each theorem holds for every value of the constants that the named assumption of its
module allows: any number of tasks, callers, threads, channels, gateways, items, messages
and calls, pipes of every size. All of them follow from an inductive invariant `IInv` (in
three modules extended by a second one), with a lemma for each action or for each part of the invariant.

| Module | Theorems |
|---|---|
| `WorkerPool_proof` | `TypeCorrect`, `NoHandOverIsLost`, `MainThreadOnlyIsKept`, `WaitallIsSound`, `PoolImplementsTaskPool` |
| `WorkerGateway_proof` | `GatewayTypes`, `GateKeepsAway`, `NothingIsCutOff`, `RefusedForAReason` |
| `ChannelEndpoint_proof` | `TypeCorrect`, `EndmarkerOnceHolds`, `ItemsInOrderHolds`, `WaitCloseAfterEndmarkerHolds`, `FailureIsReportedHolds`, `AllClosedWhenDoneHolds`, `PeerIsToldHolds` |
| `ChannelProtocol_proof` | `TypeCorrect`, `EndReachesAll`, `AgreementReached`, `NothingLostHolds`, `CloseMeansDeafHolds` |
| `Bootstrap_proof` | `NothingIsSwallowed`, `MadeIsAnswered` |
| `Proxy_proof` | `EndComesLast`, `WaitsForTheSub` |
| `Group_proof` | `TypeCorrect`, `TerminateIsThoroughHolds`, `ProxiedFirstHolds` |
| `RSync_proof` | `TypeCorrect`, `NoMixUpHolds`, `FinishedMeansSyncedHolds` |

**WorkerPool** (`PoolAssumption`: `None` is no task and no caller). `PrimaryOnly` (a
`main_thread_only` pool never starts a thread) and `WaitallSound` (a `waitall` that is
signalled has outlived the tasks that ran when it was called) are parts of the inductive
invariant; no run repeats them. `NoLostHandOver` is not inductive: that `clear()` wipes
out no hand-over depends on what the primary thread knows about its task. `IInv` adds
`PrimaryInv` (where the primary thread stands, its event and its task agree), `TaskInv`
(the task in `_primary_thread_task` was accepted and is untouched until the primary
thread reads it), `ThreadInv` (a task with a thread of its own never meets the primary
thread), `LockInv` (what holds while `spawn` waits with the lock held), `RunningInv`
(`_running` is the set of unfinished tasks) and `ExecutorInv` (every pending task has an
executor). The refinement follows from `IInv`: every step is a step of `TaskPool` or
leaves its variables unchanged, the release of the last task being the one that needs
`RunningInv`.

**WorkerGateway** (`GatewayAssumption`). Every step of the gateway is a step of its pool
or leaves it alone (`PoolMoves`), so that the invariant of the pool is taken over from
`WorkerPool_proof` by instance. To it come `StageInv` (the progress of `executetask` and
of the pool agree), `RequestInv` (each request is handed over once), `GateInv` (with
`main_thread_only` there is at most one task between `spawn` and the end of
`executetask`; none while the event is set; a closed gate has such a task, or one that
failed, behind it) and `HandOverInv` (`spawn` waits for a task that has ended). The
deadlock of `spawn` needs a task before it that the primary thread has not read; one
that has ended was read. `EndInv` follows the receiver thread through its two `waitall`
calls: no task can be added any more, so the tasks seen by the call that returns true
are all there are.

**ChannelEndpoint** (`EndpointAssumption`). All six safety properties of `end_safety` follow from
one invariant; none of them is inductive. `LockInv` and `ReceiverInv` say where the threads can
stand together, `ObjectInv` and `ClosedInv` what the entry in `_channels` says of the life of
the object and of who closed it. `TokenInv` is the reason for `EndmarkerOnce`: the right to
call the callback with the endmarker passes from the queue to `setcallback`, from there to
`_callbacks`, and to the one thread that takes the callback out; there is one such right, and
none is left when the endmarker was delivered. `LastInv` adds that who has it closed the
channel on this side, or nothing can follow. `ErrorInv` follows an error from the closing
message through `_remoteerrors` to the one who raises it, `WakeInv` the ENDMARKER to a
callback. `ItemInv` is about `ItemsInOrder`: an item is in the queue when all items before it
are in the queue in front of it or were handed out, and when one was lost nobody will be
there for those that follow.

**ChannelProtocol** (`ProtocolAssumption`). For `EndTellsAll`: whatever is under way or queued
was sent (`WireInv`, `QueueInv`), who holds a channel, or has an item that carries it, has
an object for it (`HeldInv`; otherwise a channel could be taken out of a queue after the
end and be open again), a channel that no longer receives has ENDMARKER in its queue
(`EndInv`), and `_finished_receiving` leaves nothing open (`FinishInv`). For `SidesAgree`
the invariant `Agreement` is about the time when both processes live. `TellInv` is its
heart: when one side has closed a channel that the other has open, or will open because
of a message under way, then a message that closes it is under way *behind* all that open it
(`Promise`). It needs `KnownInv` and `ReconfigureInv` (nobody speaks of a channel that it
has no object for, or that the peer has never seen), `NumbersInv` (the two sides number
their channels apart, and a new number is new to both) and `PartInv` (who sent the end
of a channel is done with it). Channels in `Again` are excluded, as in the property.

`NothingLost` and `CloseMeansDeaf` follow from `CInv`, which holds also when one process has
died. `LossInv`: for each channel that its receiver has open, will open, or has a callback for
(`Hears`), what user code got and what is queued are the first items sent (`Numbered`), and
what is on the wire are the others, in order (`Stream`). It is kept only because nothing comes
behind a message that ends a channel, neither an item nor the channel itself
(`BehindInv`), since who sends such a message has closed or dropped it (`PartedInv`) and
takes part no more; a side that is "sendonly" gets no RECONFIGURE (`SendonlyInv`),
which would make it an object anew; `OwnInv` says what of queue, callback and end go
together, and `UnusedInv` that the numbers to come are new, also when the peer is gone.
`DeafInv`: a CHANNEL_CLOSE under way from a side that has a callback comes behind another
message that ends the channel, or its receiver has the channel closed and will not open it.
A step is described once,
by what it does to each channel and what it sends (`Acts`): every action is shown to be such
a step, and every part of `CInv` to be kept by it, so that the proof has the
sum of the actions and the parts to go through and not their product.

`AgreementReached`, `NothingLostHolds` and `CloseMeansDeafHolds` assume `Early = FALSE`: with
`Early` all three are false, see section 6.

**Bootstrap** (`BootstrapAssumption`). `CountInv`, `SourceInv` (how much has been written where
`makegateway` stands) and `AnswerInv` (the answer comes after the source was read)
together say that while `readline` runs there is nothing but source in the pipe
(`SourceOnly`).

**Proxy** (`ProxyAssumption`). `ChainInv`: as long as neither the forwarder has died nor the channel
has ended with an error, the replies in the queue of the master and in the pipe of the
sub are numbered without a gap up to the last one written. `EndInv`: a channel that
ended regularly has an empty pipe behind it. `WaitsForTheSub` uses a second invariant,
`WInv`: `exit` takes the one answer to its call with it (`ExitInv`), so that every answer
found later was given after the end of the sub (`AnsweredInv`). It assumes
`Concurrent = FALSE`, without which it is false, see section 6.

**Group** (`GroupAssumption`). `MakeInv`: a gateway is made by one thread and is in the list of
members once. `LeaveInv`: it leaves through one thread (`leaver`), which puts it once among
those to join. `JobInv`: a job exists for what was collected, and one that is done has seen
the end of the process. `TypeCorrect` needs no more. `TermInv` adds where a member can be
that `terminate` itself has taken off the list (in its hands, among those to join, in the list
of jobs not begun, or in a job that is through) and `ViaInv` that a gateway which proxies
another member is passed over until that has left. The two theorems about
`terminate` assume `OneTerminator`: with two threads in `terminate` the one drops what the
other has just put among those to join, and TLC finds `TerminateIsThorough` violated. The
threads that make and `exit` gateways meanwhile are any number.

**RSync** (`RSyncAssumption`: the paths are sequences of names, and with a path its parents are
among them). Nothing on the wire says what it is for: contents have no name, descriptions
have no path, and a target takes each for the next thing it expects. The invariant says that
this is right; it has these parts.

* *Contents.* `MatchInv` gives each target that is still served an order-keeping pairing
  (`Pairing`): the contents on the wire to it, followed by its requests in the queue, are
  those for the files in `modified`, one for each and in their order, leaving out the first
  of them while it is written. Contents on the wire are such as the source had at the
  path of their file, and those it has now if that is still the file described and could
  always be read (`Wanted`); "nothing to write" then means that the target has them (`Fits`,
  `Wants`). The pairing is a pair of
  functions on positions, so that taking from the head, appending, and messages of other
  kinds in between each are a lemma about sequences alone (`DataReceived`, `FileDone`,
  `OtherSent`, `FileRequested`, `FileSent` and so on). `WorkInv` says when `modified` is empty,
  `WriteInv` that what is about to be written fits, `HadInv` that the history has what the
  source is now.
* *The two walks.* `PlanInv` lines up `walk` of the sender, the wire and `stack` of a target:
  there is a list of paths for each position on the wire (`Planned`), the first of which the
  target has to visit (`Lists`), the last of which the sender has; each message turns one
  into the next and describes the path in front (`Turns`, `Describes`).
* *Places.* `PlaceInv`: what a target has to visit and to write lies apart, has a directory,
  and is not in what leaving a directory will remove. `LeavesInv` and `FileInv`: what it has
  been told of directories and files still holds while the source is stable.
  `DestInv`, `SourceInv`: everything is in a directory. `TimeInv`: a file at a target with the time of
  the one in the source has its contents, on which "already fine" rests, unless that file
  could not be read (`unread`).
* *Progress.* `SyncInv`: outside of what is still to visit, a target is right, but for files
  to write, those that could not be read (`Spoilt`), leftovers of directories not yet left,
  and what gives way to a link. `TaskInv`
  ties where a target stands to where `send` stands: a target that is idle or through has
  an empty wire and an empty stack.
* *Links and the end.* `LinksInv`: the last entry in `links` for a link in the source is what
  `PointOf` makes of its text; `LinkSent` says what becomes of that at the target. `AnswerInv`:
  links are asked for once, the rest of the answer is at the end of the wire, and all links with
  no entry in it are made. `DoneInv`: a target that has said that it is done is synced, and says
  it once.

The theorem holds for a reading that may fail for every file and at any time, for links of every
text, and for every current directory. What it promises for a file that could not be read is
nothing (`Synced`), also in later sends as long as the source keeps this file; for a relative link
with the current directory in the source, only that there is a link.

A target that died, or was told an error, is excluded: `send` may go on to it, but it writes no
more. `FinishedMeansSyncedHolds` is the case `DoneInv` at the head of the queue, with what each
handler may remove from a tree (`FilesGo`) and `DestInv`. Each part needs the others: a path on the
wire is right only by the plan, the plan is exhausted only when the task says so, and what
an interrupted or an earlier send left behind is harmless only by `PlaceInv` and `TimeInv`. The
lemmas on trees and paths (`BelowIsAbsent`, `Replaced`, `Removed`, `GrownKept`, `ChildToward`) are
about `With` and `Without`, that is, `remove()`. `TypeCorrect` says that all messages and
requests are of the kinds that either side handles.

Only model-checked: all liveness (TLAPS does not reason about
`ENABLED` and fairness), and all of Serializer, since it works on recursive data.
Every other property of a passing run has a theorem.

## 5. What is not modelled, and why

* `ChannelFile` and `makefile` (`gateway_base.py:1064-1122`): a buffer between items and
  reads of other sizes, used by one thread over the `receive` of ChannelEndpoint.
* `MultiChannel`: loops over channels of several gateways, each of which is a
  ChannelEndpoint; `make_receive_queue` registers one callback for each.
* `XSpec`: a parser of strings without state.
* The framing of messages (`Message.from_io`, `to_io`): messages travel whole in all
  modules. A read that returns a part is repeated by `Popen2IO.read` and by `SocketIO.read`,
  and writes are under a lock.
* The loop of the socket server, its installation with `installvia`, its interactive
  shell, and the scripts that restart, quit and register it: input and output around
  the one connection that Bootstrap has.
* `ExecModel` wraps primitives of `threading`, `eventlet` and `gevent`; its locks and events
  appear in the models as the atomic operations they are. Greenlet backends have no
  primary thread; they are the "plain" pool of WorkerPool.
* `rinfo`, `_configure`, tracing, and the wording of errors.

## 6. Where the code departs from what is said of it

With a run:

1. `end_crash`: the error text of a callback that raised is a `str` where a
   `RemoteError` is expected.
2. `gateway_refused`: a task that raises leaves `_executetask_complete` cleared,
   so a `main_thread_only` worker refuses every later request.

Without a run of their own, met while modelling. Pool and worker:

* `trigger_shutdown` overwrites a task that the primary thread has not read
  (`gateway_base.py:406`); it stays in `_running`, and `waitall` never returns.
  `WaitallReturnsWhileOpen` excludes it. In a worker the process ends by the
  interrupt after five seconds instead of normally.
* `spawn` waits with the lock held (`gateway_base.py:435`) for a task the primary
  thread needs the lock to get to, when two hand-overs overtake it.
  `AcceptedExecutes` excludes it (`Overtaken`), and `NeverOvertaken` shows that a
  worker does not get there: its receiver thread waits for
  `_executetask_complete` first.

Channels:

* `setcallback` that meets `_finished_receiving` registers its callback after the last
  endmarkers were delivered, against its docstring (`gateway_base.py:739-740`). `close` of
  one user and `setcallback` of another have the same window (`gateway_base.py:872`).
* A channel with a callback that is dropped makes its peer "sendonly"; when the peer
  then closes its end, `close` sends nothing (`gateway_base.py:861`), and the
  callback gets no endmarker until the connection ends.
* With `Early = TRUE` in ChannelProtocol, `SidesAgree`, `NothingLost` and
  `CloseMeansDeaf` fail: RECONFIGURE for a
  number that the peer has no object for makes one that dies at once and sends
  CHANNEL_CLOSE; when the channel is passed on later, one side is closed.
* A callback that raises at its endmarker skips the rest of `_local_close`. The channel is no
  longer in `_channels` (`gateway_base.py:1005`), so that `_finished_receiving` passes over it,
  and a `waitclose` in another thread waits for ever, also after the connection is lost, against
  its docstring (`gateway_base.py:887-888`). `WaitersWakeUp` excludes it (`GivenUp`).
* The text of `end_crash`, when the channel object lives, is appended to
  `_remoteerrors`; `waitclose` and `receive` raise it, which is a `TypeError`.
* A `receive` that waits on a queue which `setcallback` has taken away is not
  woken up by the end of the channel; `WaitersWakeUp` excludes it. A `receive` that
  holds ENDMARKER while `setcallback` drains the queue deprives the callback of
  its endmarker; `EndmarkerAfterPeer` excludes it.

Groups and RSync:

* `terminate` joins and waits only inside `while self` (`multi.py:221`), so gateways that left
  the group through `exit` before are forgotten when no member is left, although `exit` says
  that the group cares for them (`gateway.py:53-54`).
* `terminate(timeout)` of a group raises OSError when a gateway is proxied by one
  whose process has died (`multi.py:354`, `multi.py:368`, `gateway_io.py:164`); the
  members that are left are neither told nor waited for.
* `exit` of a proxied gateway waits for the answer of its proxy without a timeout
  (`gateway_io.py:166`), before `safe_terminate` starts to count. With a proxy that is stuck, or
  blocked by the sub (see below), `terminate(timeout)` does not return, against its docstring
  (`multi.py:215-216`) and the comment "never block indefinitely" (`multi.py:360`).
  `TerminateEnds` excludes it (`Closing`), and fails without that.
* Two threads that `exit` one gateway: the slower one gets ValueError
  (`multi.py:204`), which may be `terminate`. One that removes another gateway can
  make the search skip this one: `exit` then returns without a word.
* A gateway that another thread exits while `terminate` waits is forgotten when
  `_gateways_to_join` is emptied (`multi.py:246`). Two gateways that are made at the
  same time, one with an explicit id, can get one id, because the id is checked before
  the gateway is appended; an id taken meanwhile makes
  `_register` fail with the new process left running (`multi.py:199`); and a gateway
  with the id of its own proxy makes `terminate` loop for ever (`Circular`).
* `RSync.send` with a progress callback raises KeyError for a target that lacks
  nothing (`rsync.py:79`; `Callback = TRUE` shows it), and for a target directory
  with a trailing slash (`rsync.py:152`, `rsync_remote.py:90`).
* `os.path.relpath` takes a relative link to start in the current directory
  (`rsync.py:221`). When that is in the source, the link arrives as an absolute one, against
  `testing/test_rsync.py:238`, and a link in a subdirectory leads to another place. `Synced`
  excludes it (`SameLink`), and fails without that for `Cwd <- Inside` in `RSync_main.cfg`.
* A file that cannot be read (`rsync.py:93`: no permission, too many open files) is sent as
  "nothing to write": a target that lacks it goes without, and one that has old contents of
  the same size gives them the new time (`rsync_remote.py:99`), so that every later `send`
  finds them "already fine". `send` reports the target as finished. `Synced` excludes these
  files (`unread`).
* `_links` is never emptied: a second `send` makes the links of the first one again,
  over what the source has there by now. `FinishedMeansSynced` excludes it
  (`LinksCurrent`).

Serializer:

* Integers below -2^31 end in `struct.error` (`gateway_base.py:1694`), although `dumps` takes
  all objects of builtin types (`gateway_base.py:1570-1572`); those above 2^31-1 are
  dumped as text.
* `loads` promises `DataFormatError` for data that is no valid serialization
  (`gateway_base.py:1594-1596`). Streams that are cut off or changed also end in EOFError,
  `struct.error`, ValueError, TypeError, IndexError or AssertionError, and the length of a
  collection that is too large takes the whole stack without a word.
* With `py3str_as_py2str` the keys `"a"` and `b"a"` of a dictionary become one.
* A `dump` that fails leaves what it has written so far in the stream.

Bootstrap and proxies:

* `makegateway` ignores the EOFError in place of the answer unless the process returned
  255, so that an interpreter that dies at once with another code gives a dead gateway.
  An `ssh` that ends before the source is written raises BrokenPipeError instead of
  the HostNotFound that `testing/test_gateway.py:402-406` expects.
* `close_write` of a proxied gateway whose sub has died raises in `control`
  (`gateway_io.py:228`, when a write of `forward_to_sub` at 212 has failed before): the control
  channel closes with an error, `exit` raises RemoteError, which `gateway.py:66` does not
  catch, and the next control call OSError.
* A `kill` behind a `wait`, or behind a write to a sub that does not read, is never
  handled (`Blocked`), so that `terminate(timeout)` cannot end such a sub.
* Replies that are in the pipe of the sub are lost when a write to the sub has failed.
* With `Concurrent = TRUE`, `WaitMeansEnded` fails: `wait` of one thread can take the
  answer to the `close_write` of another.

## 7. Plan

1. An abstract specification for Group (a gateway is made, told, ended) and for
   RSync (a target becomes what the source is), implemented by the modules here.
2. `ChannelFile` as a buffer over a sequence of items; `MultiChannel.make_receive_queue`
   as a composition of endpoints; `XSpec` as a function.
3. With `Early = TRUE`, what is left of the properties of ChannelProtocol: which
   channels `reconfigure` can cost their life, and a proof for all others.
