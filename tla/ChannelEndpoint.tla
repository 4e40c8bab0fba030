--------------------------- MODULE ChannelEndpoint ---------------------------
(***************************************************************************)
(* One end of a channel: the Channel object, its entries in the            *)
(* ChannelFactory, the receiver thread of the gateway that handles the     *)
(* peer's messages, and user threads that call the methods of the channel, *)
(* in gateway_base.py.                                                     *)
(*                                                                         *)
(* The receiver thread holds _receivelock while it handles a message and   *)
(* setcallback() holds it throughout; close(), receive(), waitclose() and  *)
(* the end of the receiver thread, _finished_receiving(), do not take it.  *)
(* A step is what a thread does between two points where another thread    *)
(* can see a difference: a read of _items and the use of the queue that    *)
(* was read are two steps, and so are the queue's get() and put() of       *)
(* ENDMARKER in receive().                                                 *)
(*                                                                         *)
(* The peer is the environment: it sends items, then at most one message   *)
(* that closes the channel, and may die or terminate at any time.          *)
(***************************************************************************)
EXTENDS Naturals, Sequences, FiniteSets

CONSTANTS
  User,       \* the threads that use the channel
  Setter,     \* those of them that call setcallback(),
  Getter,     \* ... receive(),
  Waiter,     \* ... waitclose(),
  Closer,     \* ... close()
  MaxItems,   \* bound: the items the peer sends
  MaxCalls,   \* bound: the calls each user makes
  MayRaise,   \* may the user's callback raise an exception?
  EndMarker   \* ENDMARKER in the queue and the callback's endmarker

ASSUME EndpointAssumption ==
  /\ Setter \subseteq User /\ Getter \subseteq User
  /\ Waiter \subseteq User /\ Closer \subseteq User
  /\ MaxItems \in Nat /\ MaxCalls \in Nat
  /\ MayRaise \in BOOLEAN
  /\ EndMarker \notin Nat

VARIABLES
  object,      \* is the Channel "unborn", "alive" or "deleted"?
  items,       \* is _items the queue (TRUE) or None (FALSE)?
  queue,       \* the content of the queue that _items is or was
  closed,      \* _closed
  rclosed,     \* _receiveclosed.is_set()
  errors,      \* _remoteerrors: RemoteErrors and, by _local_receive, texts
  listed,      \* is the channel in _channels?
  callback,    \* what was passed to setcallback(): with an endmarker or without
  registered,  \* is the callback in _callbacks?
  finished,    \* finished, of the factory
  eoferror,    \* has the gateway an _error?
  rpc,         \* where the receiver thread stands
  rmsg,        \* the message it handles, "eof" in _finished_receiving()
  rchan,       \* its local variable "channel" is not None
  rqueue,      \* its local variable "queue" is not None
  upc,         \* where each user thread stands
  calls,       \* how many calls each user has begun
  nsent,       \* how many items the peer has sent
  peerclosed,  \* has the peer sent its closing message?
  broken,      \* is the peer gone?
  out,         \* the codes of the messages sent to the peer
  taken,       \* history: the items that user code got, in this order
  seen,        \* history: what the callback was called with
  closedby,    \* history: who closed the receiving end first
  result,      \* history: how each user's last waitclose() or receive() ended
  raised       \* history: how many RemoteErrors were raised to the users

chan == <<object, items, queue, closed, rclosed, errors>>
factory == <<listed, registered, finished>>
receiver == <<rpc, rmsg, rchan, rqueue>>
users == <<upc, calls>>
peer == <<nsent, peerclosed, broken>>
history == <<taken, seen, closedby, result, raised>>

vars == <<chan, factory, callback, eoferror, receiver, users, peer, out, history>>

ClosingMessage == {"close", "error", "last"}

\* "terminate" and "crash" end the receiver thread without an EOFError; "text" is
\* the closing of a channel whose callback raised an exception.
Cause == {"none", "data", "text", "eof", "terminate", "crash"} \cup ClosingMessage

TypeOK ==
  /\ object \in {"unborn", "alive", "deleted"}
  /\ items \in BOOLEAN
  /\ queue \in Seq(1..MaxItems \cup {EndMarker})
  /\ closed \in BOOLEAN
  /\ rclosed \in BOOLEAN
  /\ errors \in Seq({"error", "text"})
  /\ listed \in BOOLEAN
  /\ callback \in {"none", "plain", "endmarker"}
  /\ registered \in BOOLEAN
  /\ finished \in BOOLEAN
  /\ eoferror \in BOOLEAN
  /\ rpc \in {"idle", "put", "call", "senderror", "close", "putend", "pop",
              "endcall", "set", "finish", "rest", "lastcall", "done", "dead"}
  /\ rmsg \in Cause
  /\ rchan \in BOOLEAN
  /\ rqueue \in BOOLEAN
  /\ upc \in [User -> {"idle", "drain", "check", "register", "get", "putback",
                       "waitclose", "sendclose", "mark", "readqueue", "putend",
                       "pop", "endcall"}]
  /\ calls \in [User -> Nat]
  /\ nsent \in 0..MaxItems
  /\ peerclosed \in BOOLEAN
  /\ broken \in BOOLEAN
  /\ out \in SUBSET {"close", "closeerror", "last"}
  /\ taken \in Seq(1..MaxItems)
  /\ seen \in Seq(1..MaxItems \cup {EndMarker})
  /\ closedby \in {"none", "local"} \cup Cause
  /\ result \in [User -> {"none", "ok", "EOFError", "RemoteError", "TypeError"}]
  /\ raised \in Nat

Init ==
  /\ object = "unborn"
  /\ items = TRUE
  /\ queue = <<>>
  /\ closed = FALSE
  /\ rclosed = FALSE
  /\ errors = <<>>
  /\ listed = FALSE
  /\ callback = "none"
  /\ registered = FALSE
  /\ finished = FALSE
  /\ eoferror = FALSE
  /\ rpc = "idle"
  /\ rmsg = "none"
  /\ rchan = FALSE
  /\ rqueue = FALSE
  /\ upc = [u \in User |-> "idle"]
  /\ calls = [u \in User |-> 0]
  /\ nsent = 0
  /\ peerclosed = FALSE
  /\ broken = FALSE
  /\ out = {}
  /\ taken = <<>>
  /\ seen = <<>>
  /\ closedby = "none"
  /\ result = [u \in User |-> "none"]
  /\ raised = 0

-----------------------------------------------------------------------------
(* _receivelock.                                                           *)

ReceiverHoldsLock == rpc \notin {"idle", "finish", "done", "dead"} /\ rmsg # "eof"

LockFree ==
  /\ ~ReceiverHoldsLock
  /\ \A u \in User : upc[u] \notin {"drain", "check", "register"}

-----------------------------------------------------------------------------
(* The life of the object: ChannelFactory.new() and Channel.__del__().     *)

New ==
  /\ object = "unborn"
  /\ ~finished
  /\ object' = "alive"
  /\ listed' = TRUE
  /\ UNCHANGED <<items, queue, closed, rclosed, errors, registered, finished,
                 callback, eoferror, receiver, users, peer, out, history>>

\* Mutant: a channel with a callback leaves without a word.
FarewellOfReaders == IF closed \/ rclosed \/ ~items THEN {} ELSE {"close"}

\* The message __del__() sends; nothing for a channel that is not open any more.
Farewell ==
  IF closed \/ rclosed THEN {} ELSE IF items THEN {"close"} ELSE {"last"}

\* The last reference goes: no user is in a method, and the receiver thread has
\* no reference.  The weak reference in _channels goes with it.
Drop ==
  /\ object = "alive"
  /\ ~rchan
  /\ \A u \in User : upc[u] = "idle"
  /\ object' = "deleted"
  /\ listed' = FALSE
  /\ out' = out \cup Farewell
  /\ UNCHANGED <<items, queue, closed, rclosed, errors, registered, finished,
                 callback, eoferror, receiver, users, peer, history>>

-----------------------------------------------------------------------------
(* The peer and the connection.                                            *)

PeerDies ==
  /\ ~broken
  /\ broken' = TRUE
  /\ UNCHANGED <<chan, factory, callback, eoferror, receiver, users, nsent,
                 peerclosed, out, history>>

chanButQueue == <<object, items, closed, rclosed, errors>>

-----------------------------------------------------------------------------
(* The receiver thread: one message at a time, under _receivelock.         *)

\* The message is read, the lock taken, the channel and its callback looked up.
Receive(m) ==
  /\ rpc = "idle" /\ LockFree
  /\ object # "unborn"
  /\ ~peerclosed
  /\ rmsg' = m
  /\ UNCHANGED <<chan, factory, callback, eoferror, rqueue, users, broken, out, history>>

ReceiveData ==
  /\ Receive("data")
  /\ nsent < MaxItems
  /\ nsent' = nsent + 1
  /\ rchan' = listed
  /\ rpc' = IF registered THEN "call" ELSE "put"
  /\ UNCHANGED peerclosed

ReceiveClosing(m) ==
  /\ Receive(m)
  /\ peerclosed' = TRUE
  /\ rpc' = "close"
  /\ UNCHANGED <<nsent, rchan>>

\* GATEWAY_TERMINATE is an exception for the receiver loop, as is the end of file; but only
\* a handler runs under _receivelock.
EndReceiving(cause, error) ==
  /\ rpc = "idle"
  /\ rpc' = "finish"
  /\ rmsg' = cause
  /\ eoferror' = error
  /\ UNCHANGED <<chan, factory, callback, rchan, rqueue, users, peer, out, history>>

ReceiveTerminate == LockFree /\ EndReceiving("terminate", FALSE)
ReceiveEOF == broken /\ EndReceiving("eof", TRUE)

\* _local_receive() without a callback; an item nobody can get is dropped.
PutItem ==
  /\ rpc = "put"
  /\ queue' = IF rchan /\ items THEN Append(queue, nsent) ELSE queue
  /\ rpc' = "idle"
  /\ rchan' = FALSE
  /\ UNCHANGED <<chanButQueue, factory, callback, eoferror, rmsg, rqueue, users, peer,
                 out, history>>

\* _local_receive() with a callback, which returns or raises.
CallCallback ==
  /\ rpc = "call"
  /\ seen' = Append(seen, nsent)
  /\ taken' = Append(taken, nsent)
  /\ rpc' \in {"idle"} \cup (IF MayRaise THEN {"senderror"} ELSE {})
  /\ rchan' = (rchan /\ rpc' # "idle")
  /\ UNCHANGED <<chan, factory, callback, eoferror, rmsg, rqueue, users, peer, out,
                 closedby, result, raised>>

\* The exception handler tells the peer and closes the channel ...
SendError ==
  /\ rpc = "senderror"
  /\ out' = out \cup {"closeerror"}
  /\ rpc' = "close"
  /\ rmsg' = "text"
  /\ UNCHANGED <<chan, factory, callback, eoferror, rchan, rqueue, users, peer, history>>

\* ... and an exception in it, or in any other handler, ends the receiver loop.
Crash ==
  /\ rpc' = "finish"
  /\ rmsg' = "crash"
  /\ rchan' = FALSE

SendErrorFails ==
  /\ rpc = "senderror"
  /\ broken
  /\ Crash
  /\ UNCHANGED <<chan, factory, callback, eoferror, rqueue, users, peer, out, history>>

-----------------------------------------------------------------------------
(* _local_close(), for a message and for each channel when receiving ends. *)

HandlerReturns(next) == rpc' = IF rmsg = "eof" THEN "rest" ELSE next

\* Mutant: the closing message is kept whether it is an error or not.
ErrorAlways == <<rmsg>>

Error == IF rmsg \in {"error", "text"} THEN <<rmsg>> ELSE <<>>

\* Mutant: the error is not kept.
LocalCloseForgetsError ==
  /\ rpc = "close"
  /\ listed
  /\ UNCHANGED errors
  /\ rchan' = TRUE
  /\ rqueue' = items
  /\ rpc' = "putend"
  /\ UNCHANGED <<object, items, queue, closed, rclosed, factory, callback, eoferror,
                 rmsg, users, peer, out, history>>

LocalClose ==
  /\ rpc = "close"
  /\ listed
  /\ errors' = errors \o Error
  /\ rchan' = TRUE
  /\ rqueue' = items
  /\ rpc' = "putend"
  /\ UNCHANGED <<object, items, queue, closed, rclosed, factory, callback, eoferror,
                 rmsg, users, peer, out, history>>

\* The channel is deleted: a RemoteError is reported on stderr.
LocalCloseDeleted ==
  /\ rpc = "close"
  /\ ~listed /\ rmsg # "text"
  /\ rchan' = FALSE
  /\ rpc' = "pop"
  /\ UNCHANGED <<chan, factory, callback, eoferror, rmsg, rqueue, users, peer, out, history>>

\* A text has no warn(): AttributeError.
LocalCloseOfText ==
  /\ rpc = "close"
  /\ ~listed /\ rmsg = "text"
  /\ Crash
  /\ UNCHANGED <<chan, factory, callback, eoferror, rqueue, users, peer, out, history>>

\* Mutant: _receiveclosed is set before the callback has had its endmarker.
PutEndCloses ==
  /\ rpc = "putend"
  /\ queue' = IF rqueue THEN Append(queue, EndMarker) ELSE queue
  /\ rpc' = "pop"
  /\ rclosed' = (rchan \/ rclosed)
  /\ closedby' = IF rchan /\ ~rclosed THEN rmsg ELSE closedby
  /\ UNCHANGED <<object, items, closed, errors, factory, callback, eoferror, rmsg, rchan,
                 rqueue, users, peer, out, taken, seen, result, raised>>

PutEnd ==
  /\ rpc = "putend"
  /\ queue' = IF rqueue THEN Append(queue, EndMarker) ELSE queue
  /\ rpc' = "pop"
  /\ UNCHANGED <<chanButQueue, factory, callback, eoferror, rmsg, rchan, rqueue, users,
                 peer, out, history>>

WantsEnd == registered /\ callback = "endmarker"

\* Mutant: the callback is looked up and not popped.
ForgetChannel == listed' = FALSE /\ UNCHANGED <<registered, finished>>

Forget == listed' = FALSE /\ registered' = FALSE /\ UNCHANGED finished

\* _no_longer_opened(), up to the call of the callback.
Pop ==
  /\ rpc = "pop"
  /\ Forget
  /\ IF WantsEnd THEN rpc' = "endcall"
     ELSE IF rchan THEN rpc' = "set" ELSE HandlerReturns("idle")
  /\ UNCHANGED <<chan, callback, eoferror, rmsg, rchan, rqueue, users, peer, out, history>>

CallEnd ==
  /\ rpc = "endcall"
  /\ seen' = Append(seen, EndMarker)
  /\ IF rchan THEN rpc' = "set" ELSE HandlerReturns("idle")
  /\ UNCHANGED <<chan, factory, callback, eoferror, rmsg, rchan, rqueue, users, peer,
                 out, taken, closedby, result, raised>>

\* The callback raises: the rest of _local_close() is skipped, and in
\* _finished_receiving() the rest of the receiver thread.
CallEndRaises ==
  /\ rpc = "endcall"
  /\ MayRaise
  /\ seen' = Append(seen, EndMarker)
  /\ IF rmsg = "eof" THEN rpc' = "dead" /\ rchan' = FALSE /\ UNCHANGED rmsg ELSE Crash
  /\ UNCHANGED <<chan, factory, callback, eoferror, rqueue, users, peer, out, taken,
                 closedby, result, raised>>

NowClosedBy(who) == closedby' = IF rclosed THEN closedby ELSE who

\* Mutant: a channel that stays open for sending is not marked.
SetClosedFully ==
  /\ rpc = "set"
  /\ closed' = (closed \/ rmsg \notin {"last", "eof"})
  /\ rclosed' = (rclosed \/ rmsg \notin {"last", "eof"})
  /\ NowClosedBy(rmsg)
  /\ rchan' = FALSE
  /\ HandlerReturns("idle")
  /\ UNCHANGED <<object, items, queue, errors, factory, callback, eoferror, rmsg,
                 rqueue, users, peer, out, taken, seen, result, raised>>

SetClosed ==
  /\ rpc = "set"
  /\ closed' = (closed \/ rmsg \notin {"last", "eof"})
  /\ rclosed' = TRUE
  /\ NowClosedBy(rmsg)
  /\ rchan' = FALSE
  /\ HandlerReturns("idle")
  /\ UNCHANGED <<object, items, queue, errors, factory, callback, eoferror, rmsg,
                 rqueue, users, peer, out, taken, seen, result, raised>>

-----------------------------------------------------------------------------
(* _finished_receiving(), without _receivelock.                            *)

\* Mutant: new channels can still be created.
FinishOpenly ==
  /\ rpc = "finish"
  /\ UNCHANGED finished
  /\ rmsg' = "eof"
  /\ rpc' = IF listed THEN "close" ELSE "rest"
  /\ UNCHANGED <<chan, listed, registered, callback, eoferror, rchan, rqueue, users,
                 peer, out, history>>

Finish ==
  /\ rpc = "finish"
  /\ finished' = TRUE
  /\ rmsg' = "eof"
  /\ rpc' = IF listed THEN "close" ELSE "rest"
  /\ UNCHANGED <<chan, listed, registered, callback, eoferror, rchan, rqueue, users,
                 peer, out, history>>

\* The callbacks of deleted channels are left.
FinishCallbacks ==
  /\ rpc = "rest"
  /\ Forget
  /\ rpc' = IF WantsEnd THEN "lastcall" ELSE "done"
  /\ UNCHANGED <<chan, callback, eoferror, rmsg, rchan, rqueue, users, peer, out, history>>

CallLast ==
  /\ rpc = "lastcall"
  /\ seen' = Append(seen, EndMarker)
  /\ rpc' \in {"done"} \cup (IF MayRaise THEN {"dead"} ELSE {})
  /\ UNCHANGED <<chan, factory, callback, eoferror, rmsg, rchan, rqueue, users, peer,
                 out, taken, closedby, result, raised>>

-----------------------------------------------------------------------------
(* The methods of the channel, in user threads.                            *)

Step(u, from, to) == upc[u] = from /\ upc' = [upc EXCEPT ![u] = to]

Call(u, who, to) ==
  /\ u \in who
  /\ object = "alive"
  /\ calls[u] < MaxCalls
  /\ calls' = [calls EXCEPT ![u] = @ + 1]
  /\ Step(u, "idle", to)

\* Mutant: _receivelock is not taken.
SetCallbackUnlocked(u, how) ==
  /\ Call(u, Setter, "drain")
  /\ items
  /\ items' = FALSE
  /\ callback' = how
  /\ UNCHANGED <<object, queue, closed, rclosed, errors, factory, eoferror, receiver,
                 peer, out, history>>

\* Mutant: the items that are queued already are not looked at.
SetCallbackSkipsQueue(u, how) ==
  /\ Call(u, Setter, "drain")
  /\ LockFree
  /\ items
  /\ items' = FALSE
  /\ callback' = how
  /\ queue' = <<>>
  /\ UNCHANGED <<object, closed, rclosed, errors, factory, eoferror, receiver,
                 peer, out, history>>

\* setcallback(): under _receivelock _items becomes None; a second call raises.
SetCallback(u, how) ==
  /\ Call(u, Setter, "drain")
  /\ LockFree
  /\ items
  /\ items' = FALSE
  /\ callback' = how
  /\ UNCHANGED <<object, queue, closed, rclosed, errors, factory, eoferror, receiver,
                 peer, out, history>>

\* A queued item goes to the callback, which may raise: then setcallback() ends,
\* and the callback is forgotten.
DrainItem(u) ==
  /\ queue # <<>> /\ Head(queue) # EndMarker
  /\ \/ Step(u, "drain", "drain") /\ UNCHANGED callback
     \/ MayRaise /\ Step(u, "drain", "idle") /\ callback' = "none"
  /\ queue' = Tail(queue)
  /\ seen' = Append(seen, Head(queue))
  /\ taken' = Append(taken, Head(queue))
  /\ UNCHANGED <<chanButQueue, factory, eoferror, receiver, calls, peer, out,
                 closedby, result, raised>>

\* Mutant: an endmarker that is queued already is not passed on.
DrainEndSilent(u) ==
  /\ queue # <<>> /\ Head(queue) = EndMarker
  /\ Step(u, "drain", "idle")
  /\ queue' = Append(Tail(queue), EndMarker)
  /\ UNCHANGED seen
  /\ UNCHANGED <<chanButQueue, factory, callback, eoferror, receiver, calls, peer, out,
                 taken, closedby, result, raised>>

\* Mutant: the loop goes on after the endmarker.
DrainEndGoesOn(u) ==
  /\ queue # <<>> /\ Head(queue) = EndMarker
  /\ Step(u, "drain", "drain")
  /\ queue' = Tail(queue)
  /\ seen' = IF callback = "endmarker" THEN Append(seen, EndMarker) ELSE seen
  /\ UNCHANGED <<chanButQueue, factory, callback, eoferror, receiver, calls, peer, out,
                 taken, closedby, result, raised>>

DrainEnd(u) ==
  /\ queue # <<>> /\ Head(queue) = EndMarker
  /\ Step(u, "drain", "idle")
  /\ queue' = Append(Tail(queue), EndMarker)
  /\ seen' = IF callback = "endmarker" THEN Append(seen, EndMarker) ELSE seen
  /\ UNCHANGED <<chanButQueue, factory, callback, eoferror, receiver, calls, peer, out,
                 taken, closedby, result, raised>>

QuietStep(u, from, to) ==
  /\ Step(u, from, to)
  /\ UNCHANGED <<chan, factory, callback, eoferror, receiver, calls, peer, out, history>>

\* The queue is empty: register the callback, unless the channel is closed.
DrainEmpty(u) == queue = <<>> /\ QuietStep(u, "drain", "check")

Check(u) == QuietStep(u, "check", IF closed \/ rclosed THEN "idle" ELSE "register")

Register(u) ==
  /\ Step(u, "register", "idle")
  /\ registered' = TRUE
  /\ UNCHANGED <<chan, listed, finished, callback, eoferror, receiver, calls, peer,
                 out, history>>

\* receive(): with a callback it raises OSError; then it blocks on the queue.
Get(u) ==
  /\ Call(u, Getter, "get")
  /\ items
  /\ UNCHANGED <<chan, factory, callback, eoferror, receiver, peer, out, history>>

GetItem(u) ==
  /\ queue # <<>> /\ Head(queue) # EndMarker
  /\ Step(u, "get", "idle")
  /\ queue' = Tail(queue)
  /\ taken' = Append(taken, Head(queue))
  /\ UNCHANGED <<chanButQueue, factory, callback, eoferror, receiver, calls, peer, out,
                 seen, closedby, result, raised>>

GetEnd(u) ==
  /\ queue # <<>> /\ Head(queue) = EndMarker
  /\ Step(u, "get", "putback")
  /\ queue' = Tail(queue)
  /\ UNCHANGED <<chanButQueue, factory, callback, eoferror, receiver, calls, peer, out,
                 history>>

\* _getremoteerror(): the first of _remoteerrors, else the gateway's _error.
\* Raising a text is a TypeError.
RaiseRemoteError(u, otherwise) ==
  /\ errors' = IF errors = <<>> THEN errors ELSE Tail(errors)
  /\ result' = [result EXCEPT ![u] =
       IF errors # <<>> THEN IF Head(errors) = "error" THEN "RemoteError" ELSE "TypeError"
       ELSE IF eoferror THEN "EOFError" ELSE otherwise]
  /\ raised' = IF errors # <<>> /\ Head(errors) = "error" THEN raised + 1 ELSE raised

\* Mutant: ENDMARKER is kept from other receivers.
PutBackNot(u) ==
  /\ Step(u, "putback", "idle")
  /\ UNCHANGED queue
  /\ RaiseRemoteError(u, "EOFError")
  /\ UNCHANGED <<object, items, closed, rclosed, factory, callback, eoferror, receiver,
                 calls, peer, out, taken, seen, closedby>>

\* ENDMARKER is put back for other receivers.
PutBack(u) ==
  /\ Step(u, "putback", "idle")
  /\ queue' = Append(queue, EndMarker)
  /\ RaiseRemoteError(u, "EOFError")
  /\ UNCHANGED <<object, items, closed, rclosed, factory, callback, eoferror, receiver,
                 calls, peer, out, taken, seen, closedby>>

WaitClose(u) ==
  /\ Call(u, Waiter, "waitclose")
  /\ UNCHANGED <<chan, factory, callback, eoferror, receiver, peer, out, history>>

WaitCloseReturns(u) ==
  /\ rclosed
  /\ Step(u, "waitclose", "idle")
  /\ RaiseRemoteError(u, "ok")
  /\ UNCHANGED <<object, items, queue, closed, rclosed, factory, callback, eoferror,
                 receiver, calls, peer, out, taken, seen, closedby>>

\* close(): no message when the peer has closed before.
Close(u) ==
  /\ ~closed
  /\ Call(u, Closer, IF rclosed THEN "mark" ELSE "sendclose")
  /\ UNCHANGED <<chan, factory, callback, eoferror, receiver, peer, out, history>>

SendClose(u) ==
  /\ Step(u, "sendclose", "mark")
  /\ out' = out \cup {"close"}
  /\ UNCHANGED <<chan, factory, callback, eoferror, receiver, calls, peer, history>>

\* OSError: the channel stays open.
SendCloseFails(u) == broken /\ QuietStep(u, "sendclose", "idle")

Mark(u) ==
  /\ Step(u, "mark", "readqueue")
  /\ closed' = TRUE
  /\ rclosed' = TRUE
  /\ NowClosedBy("local")
  /\ UNCHANGED <<object, items, queue, errors, factory, callback, eoferror, receiver,
                 calls, peer, out, taken, seen, result, raised>>

ReadQueue(u) == QuietStep(u, "readqueue", IF items THEN "putend" ELSE "pop")

ClosePutEnd(u) ==
  /\ Step(u, "putend", "pop")
  /\ queue' = Append(queue, EndMarker)
  /\ UNCHANGED <<chanButQueue, factory, callback, eoferror, receiver, calls, peer, out,
                 history>>

ClosePop(u) ==
  /\ Step(u, "pop", IF WantsEnd THEN "endcall" ELSE "idle")
  /\ Forget
  /\ UNCHANGED <<chan, callback, eoferror, receiver, calls, peer, out, history>>

CloseCallEnd(u) ==
  /\ Step(u, "endcall", "idle")
  /\ seen' = Append(seen, EndMarker)
  /\ UNCHANGED <<chan, factory, callback, eoferror, receiver, calls, peer, out, taken,
                 closedby, result, raised>>

-----------------------------------------------------------------------------
Handle ==
  \/ PutItem \/ CallCallback \/ SendError \/ SendErrorFails
  \/ LocalClose \/ LocalCloseDeleted \/ LocalCloseOfText
  \/ PutEnd \/ Pop \/ CallEnd \/ CallEndRaises \/ SetClosed
  \/ Finish \/ FinishCallbacks \/ CallLast

Begin(u) ==
  \/ \E how \in {"plain", "endmarker"} : SetCallback(u, how)
  \/ Get(u) \/ WaitClose(u) \/ Close(u)

Continue(u) ==
  \/ DrainItem(u) \/ DrainEnd(u) \/ DrainEmpty(u) \/ Check(u) \/ Register(u)
  \/ GetItem(u) \/ GetEnd(u) \/ PutBack(u) \/ WaitCloseReturns(u)
  \/ SendClose(u) \/ SendCloseFails(u) \/ Mark(u) \/ ReadQueue(u)
  \/ ClosePutEnd(u) \/ ClosePop(u) \/ CloseCallEnd(u)

Next ==
  \/ New \/ Drop \/ PeerDies
  \/ ReceiveData \/ (\E m \in ClosingMessage : ReceiveClosing(m))
  \/ ReceiveTerminate \/ ReceiveEOF
  \/ Handle
  \/ \E u \in User : Begin(u) \/ Continue(u)

\* Threads that are not blocked go on, and the end of file is noticed.  Nobody
\* has to call a method and the peer has to send nothing.
Fairness ==
  /\ WF_vars(Handle)
  /\ WF_vars(ReceiveEOF)
  /\ \A u \in User : WF_vars(Continue(u))

Spec == Init /\ [][Next]_vars

FairSpec == Spec /\ Fairness
-----------------------------------------------------------------------------
(* Safety.                                                                 *)

Ends == {i \in DOMAIN seen : seen[i] = EndMarker}

\* However close(), the peer's closing, the end of the connection and setcallback() meet, the
\* callback is called with the endmarker once at most.  That is the last thing it sees, unless
\* the channel was closed by close() on this side: then an item that the receiver thread has in
\* hand may come after it ("even if channel may be already closed").
EndmarkerOnce ==
  /\ Cardinality(Ends) <= 1
  /\ closedby # "local" => Ends \subseteq {Len(seen)}

\* A receive() has, or has had, ENDMARKER.
EndTaken == \E u \in Getter : upc[u] = "putback" \/ result[u] # "none"

Draining == \E u \in User : upc[u] \in {"drain", "check", "register"}
Listening == registered \/ (object = "alive" /\ (items \/ Draining))
InHand == IF rpc \in {"put", "call"} THEN 1 ELSE 0
Queued == {queue[i] : i \in DOMAIN queue} \ {EndMarker}

\* User code gets the items in the order in which they were sent, none twice and none after a
\* gap, through receive(), through the callback, or first through the one and then, from
\* setcallback() on, through the other.  While the channel is open and somebody listens, every
\* item that arrived was handed out, is queued, or is being handled: setcallback() drops none
\* when it takes over from the queue, and a deleted channel's callback goes on.
ItemsInOrder ==
  /\ \A i \in DOMAIN taken : taken[i] = i
  /\ ~closed /\ ~rclosed /\ Listening => Queued = Len(taken) + 1 .. nsent - InHand

\* A failure is reported, and an error only once: when a waitclose() or receive() ended
\* without the error that the peer sent, another one raised it; and waitclose() does not
\* take the loss of the connection for a regular close.
FailureIsReported ==
  /\ raised <= 1
  /\ closedby = "error" /\ (\E u \in User : result[u] \in {"ok", "EOFError"})
       => raised = 1
  /\ closedby = "eof" /\ eoferror => \A u \in User : result[u] # "ok"

\* When the receiver thread is through, every channel that is left is closed for
\* receiving, one that was created in the last moment too; a callback that raised
\* at its endmarker is the exception.
AllClosedWhenDone == rpc = "done" /\ object = "alive" /\ Ends = {} => rclosed

\* A channel does not close or disappear without a word to the peer.
PeerIsTold ==
  closed \/ object = "deleted" => out # {} \/ peerclosed \/ broken \/ finished

\* "automatically close a channel when a remote callback raises an exception": a
\* callback that raises for an item does not end the receiver thread.
ReceiverSurvives == rmsg = "crash" /\ Ends = {} => broken

\* When waitclose() returns after the peer closed the channel, the callback has
\* been called with the endmarker (the "waitclose/callback-with-endmarker race"),
\* unless a receive() got ENDMARKER or a close() is about to call the callback.
WaitCloseAfterEndmarker ==
  closedby \in ClosingMessage /\ callback = "endmarker" /\ ~Draining =>
    Ends # {} \/ EndTaken \/ \E u \in User : upc[u] = "endcall"

-----------------------------------------------------------------------------
(* Liveness.                                                               *)

\* "If an endmarker is specified the callback will eventually be called with the endmarker when
\* the channel closes": so it is for a channel that the peer closes while the connection lasts,
\* be the callback registered before or after the closing message, unless a receive() has taken
\* ENDMARKER out of the queue, or setcallback() has failed because the callback raised for a
\* queued item.  (At the end of the connection it need not be.)
EndmarkerAfterPeer ==
  (callback = "endmarker" /\ closedby \in ClosingMessage) ~>
    (Ends # {} \/ EndTaken \/ callback = "none" \/ finished)

\* The receiver thread is through, and _receiveclosed was never set: the callback that was
\* called with the endmarker has raised.
GivenUp == rpc \in {"done", "dead"} /\ Ends # {} /\ ~rclosed

\* A receive() that waits when the channel closes wakes up, and so do all others that wait:
\* ENDMARKER is handed from one to the next.  A setcallback() that takes the queue away from a
\* waiting receive() is another matter.  A waitclose() wakes up when the connection is lost,
\* unless a callback has raised at its endmarker: then nobody will wake it any more.
WaitersWakeUp ==
  \A u \in User :
    /\ upc[u] = "get" /\ rclosed ~> upc[u] # "get" \/ ~items
    /\ upc[u] = "waitclose" /\ broken ~> upc[u] # "waitclose" \/ GivenUp
=============================================================================
