------------------------------ MODULE Bootstrap ------------------------------
(***************************************************************************)
(* makegateway() up to the first messages: gateway_bootstrap.py, the io of *)
(* gateway_io.py and gateway_socket.py, and the far end, an interpreter    *)
(* that executes the first line of its input, or a socketserver.py that    *)
(* does so for one connection after the other.                             *)
(*                                                                         *)
(* What the coordinator writes is numbered: 1 is the source and 2 its      *)
(* newline, from 3 on come messages.  A pipe keeps their order and holds   *)
(* cap pieces: the source may fit into it or not.                          *)
(***************************************************************************)
EXTENDS Integers

CONSTANTS MaxCap, MaxSent

ASSUME BootstrapAssumption == MaxCap \in Nat /\ MaxSent \in Nat

VARIABLES kind,     \* what the specification asks for
          cap,      \* the size of the pipe
          cpc,      \* where makegateway() stands
          error,    \* what it raised
          answered, \* it has read b"1"
          open,     \* the coordinator has not closed its end
          sent,     \* pieces written
          back,     \* what the far end has written and the coordinator has not read
          spc,      \* where the far end stands
          line,     \* pieces its readline() has taken from the pipe
          got,      \* messages its gateway has read
          ret       \* the exit status of the process, -1 before

vars == <<kind, cap, cpc, error, answered, open, sent, back, spc, line, got, ret>>

parameters == <<kind, cap>>
coordinator == <<cpc, error, answered, open, sent>>
farEnd == <<spc, line, got, ret>>

\* popen imports execnet at the far end; python= and ssh= send its source, which is
\* bootstrap_exec(); only ssh has a remoteaddress.
Exec == {"python", "ssh"}
Kinds == {"popen", "socket"} \cup Exec

Init ==
  /\ kind \in Kinds /\ cap \in 1..MaxCap
  /\ cpc = "create" /\ error = "none" /\ answered = FALSE /\ open = TRUE
  /\ sent = 0 /\ back = "nothing" /\ spc = "absent" /\ line = 0 /\ got = 0 /\ ret = -1

Unread == sent - line - got

Raise(e) == cpc' = "raised" /\ error' = e

-----------------------------------------------------------------------------
(* The coordinator *)

\* A connection may have to wait until the server has done with another one.
CreateIo ==
  /\ cpc = "create"
  /\ \/ cpc' = "source" /\ spc' = "starting" /\ UNCHANGED error
     \/ \E e \in IF kind = "socket" THEN {"HostNotFound", "OSError"} ELSE {"OSError"} :
          Raise(e) /\ UNCHANGED spc
  /\ UNCHANGED <<parameters, answered, open, sent, back, line, got, ret>>

Write == spc # "dead" /\ Unread < cap /\ sent' = sent + 1

\* Mutant: goes on without an answer.
SendSourceHasty ==
  /\ cpc = "source" /\ Write
  /\ cpc' = IF sent' = 2 THEN "made" ELSE "source"
  /\ UNCHANGED <<parameters, error, answered, open, back, farEnd>>

\* sendexec()
SendSource ==
  /\ cpc = "source" /\ Write
  /\ cpc' = IF sent' = 2 THEN "answer" ELSE "source"
  /\ UNCHANGED <<parameters, error, answered, open, back, farEnd>>

\* Nobody reads any more: a broken pipe, which bootstrap_exec() does not catch.
SendSourceFails ==
  /\ cpc = "source" /\ spc = "dead" /\ Raise("OSError")
  /\ UNCHANGED <<parameters, answered, open, sent, back, farEnd>>

ReadAnswer ==
  /\ cpc = "answer" /\ back # "nothing" /\ back' = "nothing"
  /\ IF back = "1" THEN cpc' = "made" /\ answered' = TRUE /\ UNCHANGED error
     ELSE Raise("AssertionError") /\ UNCHANGED answered
  /\ UNCHANGED <<parameters, open, sent, farEnd>>

Silent == back = "nothing" /\ spc \in {"closing", "dead"}

NoAnswer ==
  /\ cpc = "answer" /\ Silent
  /\ IF kind \in Exec THEN cpc' = "wait" /\ UNCHANGED error
     ELSE \E e \in IF kind = "socket" THEN {"EOFError", "OSError"} ELSE {"EOFError"} : Raise(e)
  /\ UNCHANGED <<parameters, answered, open, sent, back, farEnd>>

\* A status other than that of an ssh that fails: bootstrap_exec() returns, and makegateway()
\* makes a gateway that is dead.
Waited ==
  /\ cpc = "wait" /\ spc = "dead"
  /\ IF kind = "ssh" /\ ret = 255 THEN Raise("HostNotFound") ELSE cpc' = "made" /\ UNCHANGED error
  /\ UNCHANGED <<parameters, answered, open, sent, back, farEnd>>

\* Message.to_io() of any user of the gateway.
Send ==
  /\ cpc = "made" /\ open /\ sent < MaxSent /\ Write
  /\ UNCHANGED <<parameters, cpc, error, answered, open, back, farEnd>>

\* exit(), or the io of a makegateway() that raised is dropped.
Close ==
  /\ cpc \in {"made", "raised"} /\ open /\ open' = FALSE
  /\ UNCHANGED <<parameters, cpc, error, answered, sent, back, farEnd>>

-----------------------------------------------------------------------------
(* The far end *)

Start ==
  /\ spc = "starting" /\ spc' = "line"
  /\ UNCHANGED <<parameters, coordinator, back, line, got, ret>>

\* A banner, or what a site module prints, in front of the answer.
Noise ==
  /\ kind # "socket" /\ spc \in {"starting", "line"} /\ back = "nothing" /\ back' = "noise"
  /\ UNCHANGED <<parameters, coordinator, farEnd>>

\* Mutant: read() in place of readline().
ReadlineToEof ==
  /\ spc = "line" /\ Unread > 0
  /\ line' = sent
  /\ spc' = IF open THEN "line" ELSE "run"
  /\ UNCHANGED <<parameters, coordinator, back, got, ret>>

\* The buffered readline() takes whatever the pipe holds; what follows the newline stays in
\* its buffer, which is dropped with the file: init_popen_io() makes a new one on the same
\* descriptor, and the server closes the file of its socket.
Readline ==
  /\ spc = "line"
  /\ \E k \in 1..Unread : line' = line + k
  /\ spc' = IF line' >= 2 THEN "run" ELSE "line"
  /\ UNCHANGED <<parameters, coordinator, back, got, ret>>

Answer ==
  /\ spc = "run" /\ spc' = "serve" /\ back' = IF back = "nothing" THEN "1" ELSE back
  /\ UNCHANGED <<parameters, coordinator, line, got, ret>>

Receive ==
  /\ spc = "serve" /\ Unread > 0 /\ got' = got + 1
  /\ UNCHANGED <<parameters, coordinator, back, spc, line, ret>>

\* It ends at any time, or at the end of its input; its output closes first.  An ssh that
\* cannot reach its host ends before it reads.
EndOfInput == spc \in {"line", "serve"} /\ Unread = 0 /\ ~open
Ends ==
  /\ spc \in {"starting", "line", "run", "serve"} /\ spc' = "closing"
  /\ UNCHANGED <<parameters, coordinator, back, line, got, ret>>
Gone ==
  /\ spc = "closing" /\ spc' = "dead"
  /\ ret' \in {1} \cup IF kind = "ssh" /\ line = 0 THEN {255} ELSE {}
  /\ UNCHANGED <<parameters, coordinator, back, line, got>>

Next ==
  \/ CreateIo \/ SendSource \/ SendSourceFails \/ ReadAnswer \/ NoAnswer \/ Waited
  \/ Send \/ Close
  \/ Start \/ Noise \/ Readline \/ Answer \/ Receive \/ Ends \/ Gone

\* makegateway() goes on; the far end does once it runs, and is gone when its output is closed.
Fairness ==
  /\ WF_vars(CreateIo) /\ WF_vars(SendSource \/ SendSourceFails)
  /\ WF_vars(ReadAnswer \/ NoAnswer) /\ WF_vars(Waited)
  /\ WF_vars(Readline) /\ WF_vars(Answer) /\ WF_vars(Receive) /\ WF_vars(Gone)
  /\ WF_vars(EndOfInput /\ Ends)

Spec == Init /\ [][Next]_vars
FairSpec == Spec /\ Fairness

-----------------------------------------------------------------------------
(* Properties *)

\* The gateway at the far end reads every message: none is lost in the buffer of the
\* readline() that read the source, because no message is sent before the answer.
NothingSwallowed == spc \in {"run", "serve"} => line = 2

\* makegateway() returns a gateway whose far end has answered, except that a process that was
\* sent its source and died without an answer gives a dead gateway.
MadeMeansAnswered ==
  cpc = "made" => answered \/ (kind \in Exec /\ spc = "dead" /\ ~(kind = "ssh" /\ ret = 255))

\* The exchange of source and answer cannot block: as soon as the far end runs, makegateway()
\* returns or raises, also when the source does not fit into the pipe.
BootstrapEnds == spc # "starting" /\ cpc \in {"source", "answer"} ~> cpc \in {"made", "raised"}
=============================================================================
