--------------------------- MODULE Bootstrap_proof ---------------------------
(***************************************************************************)
(* Proofs about Bootstrap, for pipes of every size and any number of       *)
(* messages: nothing is swallowed by the readline() that reads the source, *)
(* and a gateway that is returned has answered.                            *)
(***************************************************************************)
EXTENDS Bootstrap, TLAPS

\* What has been read was written.
CountInv ==
  /\ sent \in Nat /\ line \in Nat /\ got \in Nat
  /\ line + got <= sent

\* How much has been written where makegateway() stands: only a gateway that was made sends
\* more than the source.
SourceInv ==
  /\ kind \in Kinds /\ answered \in BOOLEAN
  /\ cpc = "create" => spc = "absent" /\ sent = 0
  /\ cpc = "source" => sent < 2
  /\ cpc # "made" => sent <= 2 /\ ~answered
  /\ cpc = "wait" => kind \in Exec

\* The far end writes its answer after it has read the source.
AnswerInv ==
  /\ spc \in {"absent", "starting", "line", "run", "serve", "closing", "dead"}
  /\ spc \in {"absent", "starting", "line"} => line < 2 /\ got = 0
  /\ back = "1" \/ answered => spc \in {"serve", "closing", "dead"}

IInv == CountInv /\ SourceInv /\ AnswerInv /\ MadeMeansAnswered /\ NothingSwallowed

-----------------------------------------------------------------------------
LEMMA InitInv == Init => IInv
<1> SUFFICES ASSUME Init PROVE IInv
  OBVIOUS
<1>1. CountInv /\ AnswerInv /\ MadeMeansAnswered /\ NothingSwallowed
  BY DEF Init, CountInv, AnswerInv, MadeMeansAnswered, NothingSwallowed
<1>2. answered \in BOOLEAN /\ ~answered
  BY Zenon DEF Init
<1>3. SourceInv
  BY <1>2 DEF Init, SourceInv
<1> QED BY <1>1, <1>3 DEF IInv

\* readline() cannot take more than the source: as long as the far end reads it, makegateway()
\* has no answer and has written nothing else.
LEMMA SourceOnly == ASSUME IInv, spc = "line" PROVE sent <= 2 /\ cpc # "made"
  BY DEF IInv, SourceInv, AnswerInv, MadeMeansAnswered

LEMMA CoordinatorStep ==
  ASSUME IInv,
         CreateIo \/ SendSource \/ SendSourceFails \/ ReadAnswer \/ NoAnswer \/ Waited
           \/ Send \/ Close
  PROVE  IInv'
<1> USE DEF IInv, CountInv, SourceInv, AnswerInv, MadeMeansAnswered, NothingSwallowed,
            parameters, coordinator, farEnd, Raise, Exec, Kinds
<1>1. CASE CreateIo
  BY <1>1 DEF CreateIo
<1>2. CASE SendSource
  BY <1>2 DEF SendSource, Write
<1>3. CASE SendSourceFails
  BY <1>3 DEF SendSourceFails
<1>4. CASE ReadAnswer
  BY <1>4 DEF ReadAnswer
<1>5. CASE NoAnswer
  BY <1>5 DEF NoAnswer, Silent
<1>6. CASE Waited
  BY <1>6 DEF Waited
<1>7. CASE Send
  BY <1>7 DEF Send, Write
<1>8. CASE Close
  BY <1>8 DEF Close
<1> QED BY <1>1, <1>2, <1>3, <1>4, <1>5, <1>6, <1>7, <1>8

LEMMA FarEndStep ==
  ASSUME IInv,
         Start \/ Noise \/ Readline \/ Answer \/ Receive \/ Ends \/ Gone
  PROVE  IInv'
<1> USE DEF IInv, CountInv, SourceInv, AnswerInv, MadeMeansAnswered, NothingSwallowed,
            parameters, coordinator, farEnd, Exec, Kinds
<1>1. CASE Start
  BY <1>1 DEF Start
<1>2. CASE Noise
  BY <1>2 DEF Noise
<1>3. CASE Readline
  <2>1. sent <= 2 /\ cpc # "made"
    BY <1>3, SourceOnly DEF Readline
  <2>2. PICK k \in 1..Unread : line' = line + k
    BY <1>3 DEF Readline
  <2>3. line' \in Nat /\ line' <= 2 /\ line' + got <= sent
    BY <1>3, <2>1, <2>2 DEF Readline, Unread
  <2> QED BY <1>3, <2>1, <2>3 DEF Readline
<1>4. CASE Answer
  BY <1>4 DEF Answer
<1>5. CASE Receive
  BY <1>5 DEF Receive, Unread
<1>6. CASE Ends
  BY <1>6 DEF Ends
<1>7. CASE Gone
  BY <1>7 DEF Gone
<1> QED BY <1>1, <1>2, <1>3, <1>4, <1>5, <1>6, <1>7

LEMMA Stutter == IInv /\ UNCHANGED vars => IInv'
  BY DEF vars, IInv, CountInv, SourceInv, AnswerInv, MadeMeansAnswered, NothingSwallowed, Exec,
         Kinds

LEMMA Invariance == Spec => []IInv
<1>1. IInv /\ [Next]_vars => IInv'
  BY CoordinatorStep, FarEndStep, Stutter DEF Next
<1> QED BY InitInv, <1>1, PTL DEF Spec

\* However large the pipe is and however many messages are sent, and whenever the far end reads
\* how much of them: the buffer that the source was read with holds nothing else.
THEOREM NothingIsSwallowed == Spec => []NothingSwallowed
  BY Invariance, PTL DEF IInv

\* makegateway() returns a gateway whose far end has answered, or one that was started with its
\* source and is dead.
THEOREM MadeIsAnswered == Spec => []MadeMeansAnswered
  BY Invariance, PTL DEF IInv
=============================================================================
