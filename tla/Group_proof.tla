------------------------------ MODULE Group_proof ------------------------------
(***************************************************************************)
(* Proofs about Group: what terminate() has done when it returns, and in   *)
(* which order, for any number of gateways, threads and calls, while other *)
(* threads make gateways and exit() them.                                  *)
(*                                                                         *)
(* IInv is inductive.  A gateway is made by one thread, is once in the     *)
(* list of members (MakeInv), is taken off it by one thread, its leaver,   *)
(* and is put once into the list of those to join (LeaveInv); a            *)
(* terminate() has a job for it only from then on (JobInv).  So a member   *)
(* that terminate() takes off the list is in its hands, then among those   *)
(* to join, then has a job, until care is taken of it (TermInv); a gateway *)
(* that proxies another member is passed over in the same round (ViaInv).  *)
(***************************************************************************)
EXTENDS Group, SequenceTheorems, TLAPS

Making == {"start", "register", "append"}
Exiting == {"scan", "remove", "push", "send", "closing"}
InRound == {"copy", "exits"} \cup Exiting

GroupTypes ==
  /\ gateways \in Seq(Gateway)
  /\ to_join \in Seq(Gateway)
  /\ counter \in Nat
  /\ id \in [Gateway -> Nat \cup {None}]
  /\ master \in [Gateway -> Gateway \cup {None}]
  /\ owned \in SUBSET Gateway
  /\ proc \in [Gateway -> {"none", "running", "ended"}]
  /\ told \in SUBSET owned
  /\ leaver \in [Gateway -> Thread \cup {None}]

ThreadTypes ==
  /\ pc \in [Thread -> {"idle", "start", "register", "append", "scan", "remove",
                        "push", "send", "closing", "while", "copy", "exits", "wait"}]
  /\ calls \in Nat
  /\ gw \in [Thread -> Gateway \cup {None}]
  /\ index \in [Thread -> Nat \ {0}]

EndingTypes ==
  /\ ending \in [Thread -> BOOLEAN]
  /\ timed \in [Thread -> BOOLEAN]
  /\ vias \in [Thread -> SUBSET Nat]
  /\ todo \in [Thread -> Seq(Gateway)]
  /\ job \in [Thread -> [Gateway -> {"none", "join", "kill", "done", "raised"}]]
  /\ members \in [Thread -> SUBSET Gateway]

\* Where the threads stand, and with which gateways.
PlaceInv ==
  /\ Range(to_join) \subseteq owned
  /\ \A t \in Thread :
       /\ pc[t] \in Exiting => gw[t] \in owned
       /\ ending[t] => pc[t] \in InRound \cup {"while", "wait"} /\ t \in Terminator
       /\ pc[t] \in {"while", "copy", "exits", "wait"} => ending[t]
       /\ Range(todo[t]) \subseteq owned

\* A gateway is made by one thread, and its process is started once.
MakeInv ==
  /\ \A g \in Gateway :
       /\ g \in owned \/ proc[g] # "none" => id[g] # None
       /\ master[g] \in owned \cup {None}
  /\ \A t \in Thread :
       /\ pc[t] \in Making => gw[t] \in Gateway \ owned /\ id[gw[t]] # None
       /\ pc[t] = "start" => proc[gw[t]] = "none"
  /\ \A t, u \in Thread :
       pc[t] \in Making /\ pc[u] \in Making /\ gw[t] = gw[u] => t = u

\* A thread has taken g off the list, and is about to put it into the other one.
Pending(g) == \E t \in Thread : pc[t] = "push" /\ gw[t] = g

\* A gateway is a member once, leaves once, and is put once among those to join.
LeaveInv ==
  /\ \A i, j \in DOMAIN gateways : gateways[i] = gateways[j] => i = j
  /\ \A g \in Gateway :
       /\ g \in owned <=> g \in Listed \/ leaver[g] # None
       /\ g \in Listed => leaver[g] = None
       /\ leaver[g] = None \/ Pending(g) => g \notin Range(to_join)
  /\ \A t \in Thread : pc[t] \in {"push", "send", "closing"} => leaver[gw[t]] = t

\* What the jobs have done; a terminate() has one for those it has collected.
JobInv ==
  \A t \in Thread, g \in Gateway :
    /\ job[t][g] # "none" => g \in owned
    /\ job[t][g] = "done" => proc[g] = "ended"
    /\ job[t][g] = "kill" => timed[t]
    /\ ending[t] =>
         (leaver[g] = None \/ Pending(g) \/ (g \in Range(to_join) /\ pc[t] # "wait") =>
           job[t][g] = "none")

\* A member that terminate() has taken off the list has been told, and is on its way.
TermInv ==
  \A t \in Thread : ending[t] =>
    \A g \in members[t] :
      /\ g \in owned
      /\ leaver[g] = t =>
           \/ g \in told /\ CareTaken(t, g)
           \/ /\ pc[t] \in {"exits"} \cup Exiting /\ g \in Range(to_join)
              /\ g \in told \/ (pc[t] = "send" /\ gw[t] = g)
           \/ pc[t] = "push" /\ gw[t] = g
           \/ pc[t] = "wait" /\ g \in told /\ g \in Range(todo[t])

\* In a round, those that proxy another member are left alone.
ViaInv ==
  \A t \in Thread : ending[t] =>
    /\ pc[t] \in Exiting => id[gw[t]] \notin vias[t]
    /\ pc[t] \in InRound =>
         \A g \in members[t] : master[g] # None =>
           id[master[g]] \in vias[t] \/ LeftOtherwise(t, g) \/ CareTaken(t, g)

IInv == TypeOK /\ PlaceInv /\ MakeInv /\ LeaveInv /\ JobInv

EndInv == IInv /\ TermInv /\ ViaInv

\* One terminate() clears the list of those to join, also of those that another one has
\* put there in the meantime: what follows needs that there is one at a time.
OneTerminator == \A t, u \in Terminator : t = u

-----------------------------------------------------------------------------
(* What an append to a list, or a removal, changes.                        *)

\* The members are the elements of the list.
LEMMA ListedKept == UNCHANGED gateways => UNCHANGED Listed
BY DEF Listed

\* An append adds an element ...
LEMMA Appended ==
  ASSUME NEW S, NEW s \in Seq(S), NEW x \in S
  PROVE  /\ Append(s, x) \in Seq(S)
         /\ Range(Append(s, x)) = Range(s) \cup {x}
<1> DEFINE r == Append(s, x)
<1>1. /\ DOMAIN s = 1..Len(s) /\ DOMAIN r = 1..Len(s) + 1 /\ Len(s) \in Nat
      /\ r[Len(s) + 1] = x /\ \A i \in 1..Len(s) : r[i] = s[i]
  OBVIOUS
<1>2. r \in Seq(S)
  OBVIOUS
<1> HIDE DEF r
<1>3. Range(r) \subseteq Range(s) \cup {x}
  BY <1>1 DEF Range
<1>4. Range(s) \subseteq Range(r)
  <2> SUFFICES ASSUME NEW i \in 1..Len(s) PROVE s[i] \in Range(r)
    BY <1>1 DEF Range
  <2>1. i \in DOMAIN r /\ r[i] = s[i]
    BY <1>1
  <2> QED
    BY <2>1 DEF Range
<1>5. x \in Range(r)
  <2>1. Len(s) + 1 \in DOMAIN r
    BY <1>1
  <2> QED
    BY <1>1, <2>1 DEF Range
<1> QED
  BY <1>2, <1>3, <1>4, <1>5 DEF r

\* ... and the rest of a sequence has all but the first.
LEMMA Passed ==
  ASSUME NEW S, NEW s \in Seq(S), s # <<>>
  PROVE  /\ Tail(s) \in Seq(S) /\ Head(s) \in Range(s)
         /\ Range(Tail(s)) \subseteq Range(s) /\ Range(s) = {Head(s)} \cup Range(Tail(s))
<1> DEFINE r == Tail(s)
<1>1. /\ DOMAIN s = 1..Len(s) /\ DOMAIN r = 1..Len(s) - 1 /\ Len(s) \in Nat \ {0}
      /\ s[1] = Head(s) /\ \A i \in 1..Len(s) - 1 : r[i] = s[i + 1]
  OBVIOUS
<1>2. r \in Seq(S)
  OBVIOUS
<1> HIDE DEF r
<1>3. Head(s) \in Range(s)
  <2>1. 1 \in DOMAIN s
    BY <1>1
  <2> QED
    BY <1>1, <2>1 DEF Range
<1>4. Range(r) \subseteq Range(s)
  <2> SUFFICES ASSUME NEW i \in 1..Len(s) - 1 PROVE r[i] \in Range(s)
    BY <1>1 DEF Range
  <2>1. i + 1 \in DOMAIN s /\ s[i + 1] = r[i]
    BY <1>1
  <2> QED
    BY <2>1 DEF Range
<1>5. Range(s) \subseteq {Head(s)} \cup Range(r)
  <2> SUFFICES ASSUME NEW i \in 1..Len(s), i # 1 PROVE s[i] \in Range(r)
    BY <1>1 DEF Range
  <2>1. i - 1 \in DOMAIN r /\ r[i - 1] = s[i]
    BY <1>1
  <2> QED
    BY <2>1 DEF Range
<1> QED
  BY <1>2, <1>3, <1>4, <1>5 DEF r

\* A removal from a sequence without duplicates takes out one element.
LEMMA Removed ==
  ASSUME NEW S, NEW s \in Seq(S), NEW i \in DOMAIN s,
         \A j, k \in DOMAIN s : s[j] = s[k] => j = k
  PROVE  /\ RemoveAt(s, i) \in Seq(S)
         /\ Range(RemoveAt(s, i)) = Range(s) \ {s[i]}
         /\ \A j, k \in DOMAIN RemoveAt(s, i) :
              RemoveAt(s, i)[j] = RemoveAt(s, i)[k] => j = k
<1> DEFINE r == RemoveAt(s, i)
<1>1. /\ DOMAIN s = 1..Len(s) /\ Len(s) \in Nat /\ i \in 1..Len(s)
  OBVIOUS
<1>2. /\ r \in Seq(S) /\ DOMAIN r = 1..Len(s) - 1
      /\ \A j \in 1..Len(s) - 1 : r[j] = IF j < i THEN s[j] ELSE s[j + 1]
  <2> DEFINE a == SubSeq(s, 1, i - 1)
             b == SubSeq(s, i + 1, Len(s))
  <2>1. \A j \in 1..Len(s) : s[j] \in S
    BY <1>1
  <2>2. /\ a \in Seq(S) /\ Len(a) = i - 1 /\ \A j \in 1..i - 1 : a[j] = s[j]
    BY <1>1, <2>1, SubSeqProperties
  <2>3. /\ b \in Seq(S) /\ Len(b) = Len(s) - i /\ \A j \in 1..Len(s) - i : b[j] = s[i + j]
    BY <1>1, <2>1, SubSeqProperties
  <2> HIDE DEF a, b
  <2>4. /\ a \o b \in Seq(S) /\ Len(a \o b) = Len(s) - 1
        /\ \A j \in 1..Len(s) - 1 :
             (a \o b)[j] = IF j <= i - 1 THEN a[j] ELSE b[j - (i - 1)]
    <3>1. /\ a \o b \in Seq(S) /\ Len(a \o b) = Len(a) + Len(b)
          /\ \A j \in 1..Len(a) + Len(b) :
               (a \o b)[j] = IF j <= Len(a) THEN a[j] ELSE b[j - Len(a)]
      <4>1. a \in Seq(S) /\ b \in Seq(S)
        BY <2>2, <2>3
      <4> QED
        BY <4>1, ConcatProperties
    <3> QED
      BY <1>1, <2>2, <2>3, <3>1
  <2>5. r = a \o b
    BY DEF RemoveAt, a, b
  <2> HIDE DEF r
  <2>6. ASSUME NEW j \in 1..Len(s) - 1 PROVE r[j] = IF j < i THEN s[j] ELSE s[j + 1]
    <3>1. CASE j < i
      BY <1>1, <2>2, <2>4, <2>5, <3>1
    <3>2. CASE ~(j < i)
      <4> DEFINE k == j - (i - 1)
      <4>1. k \in 1..Len(s) - i /\ i + k = j + 1 /\ ~(j <= i - 1)
        BY <1>1, <3>2
      <4>2. r[j] = b[k]
        BY <2>4, <2>5, <4>1
      <4>3. b[k] = s[i + k]
        BY <2>3, <4>1
      <4> QED
        BY <3>2, <4>1, <4>2, <4>3
    <3> QED
      BY <3>1, <3>2
  <2>7. r \in Seq(S) /\ Len(r) = Len(s) - 1
    BY <2>4, <2>5
  <2>8. DOMAIN r = 1..Len(s) - 1
    BY <2>7
  <2> QED
    BY <2>6, <2>7, <2>8
<1> HIDE DEF r
<1>3. ASSUME NEW j \in DOMAIN r PROVE r[j] \in Range(s) \ {s[i]}
  <2>1. CASE j < i
    BY <1>1, <1>2, <1>3, <2>1 DEF Range
  <2>2. CASE ~(j < i)
    <3>1. j + 1 \in DOMAIN s /\ j + 1 # i /\ r[j] = s[j + 1]
      BY <1>1, <1>2, <1>3, <2>2
    <3> QED
      BY <3>1 DEF Range
  <2> QED
    BY <2>1, <2>2
<1>4. ASSUME NEW j \in DOMAIN s, j # i PROVE s[j] \in Range(r)
  <2>1. CASE j < i
    <3>1. j \in DOMAIN r /\ r[j] = s[j]
      BY <1>1, <1>2, <1>4, <2>1
    <3> QED
      BY <3>1 DEF Range
  <2>2. CASE ~(j < i)
    <3>1. j - 1 \in DOMAIN r /\ r[j - 1] = s[j]
      BY <1>1, <1>2, <1>4, <2>2
    <3> QED
      BY <3>1 DEF Range
  <2> QED
    BY <2>1, <2>2
<1>5. Range(r) = Range(s) \ {s[i]}
  BY <1>3, <1>4 DEF Range
<1>6. ASSUME NEW j \in DOMAIN r, NEW k \in DOMAIN r, r[j] = r[k] PROVE j = k
  <2> DEFINE at(n) == IF n < i THEN n ELSE n + 1
  <2>1. at(j) \in DOMAIN s /\ at(k) \in DOMAIN s /\ r[j] = s[at(j)] /\ r[k] = s[at(k)]
    BY <1>1, <1>2
  <2>2. at(j) = at(k)
    BY <1>6, <2>1
  <2> QED
    BY <1>1, <1>2, <2>2
<1> QED
  BY <1>2, <1>5, <1>6 DEF r

\* The list of members, when one joins or leaves it.
LEMMA MemberJoins ==
  ASSUME IInv, NEW t \in Thread, AppendGateway(t)
  PROVE  /\ gateways' \in Seq(Gateway) /\ Listed' = Listed \cup {gw[t]}
         /\ \A i, j \in DOMAIN gateways' : gateways'[i] = gateways'[j] => i = j
<1>1. /\ gateways \in Seq(Gateway) /\ gw[t] \in Gateway
      /\ gateways' = Append(gateways, gw[t])
      /\ \A i, j \in DOMAIN gateways : gateways[i] = gateways[j] => i = j
      /\ \A i \in DOMAIN gateways : gateways[i] # gw[t]
  BY DEF IInv, TypeOK, MakeInv, LeaveInv, AppendGateway, At, Making, Listed
<1>2. gateways' \in Seq(Gateway) /\ Listed' = Listed \cup {gw[t]}
  BY <1>1, Appended DEF Listed, Range
<1>3. /\ DOMAIN gateways = 1..Len(gateways) /\ DOMAIN gateways' = 1..Len(gateways) + 1
      /\ Len(gateways) \in Nat /\ gateways'[Len(gateways) + 1] = gw[t]
      /\ \A i \in 1..Len(gateways) : gateways'[i] = gateways[i]
  BY <1>1
<1>4. \A i, j \in DOMAIN gateways' : gateways'[i] = gateways'[j] => i = j
  BY <1>1, <1>3
<1> QED
  BY <1>2, <1>4

\* ... or leaves it.
LEMMA MemberLeaves ==
  ASSUME IInv, NEW t \in Thread, RemoveMember(t)
  PROVE  /\ gateways' \in Seq(Gateway) /\ Listed' = Listed \ {gw[t]} /\ gw[t] \in Listed
         /\ \A i, j \in DOMAIN gateways' : gateways'[i] = gateways'[j] => i = j
<1>1. /\ gateways \in Seq(Gateway)
      /\ \A i, j \in DOMAIN gateways : gateways[i] = gateways[j] => i = j
  BY DEF IInv, TypeOK, LeaveInv
<1>2. PICK i \in DOMAIN gateways :
        gateways[i] = gw[t] /\ gateways' = RemoveAt(gateways, i)
  BY DEF RemoveMember
<1>3. Listed = Range(gateways) /\ Listed' = Range(gateways')
  BY DEF Listed, Range
<1> QED
  <2> DEFINE r == RemoveAt(gateways, i)
  <2>1. /\ r \in Seq(Gateway) /\ Range(r) = Range(gateways) \ {gateways[i]}
        /\ \A j, k \in DOMAIN r : r[j] = r[k] => j = k
    BY <1>1, Removed
  <2>2. gateways' = r /\ gw[t] \in Listed
    BY <1>2 DEF Listed
  <2> HIDE DEF r
  <2> QED
    BY <1>2, <1>3, <2>1, <2>2

\* TypeOK in three parts.
LEMMA TypeParts == TypeOK <=> GroupTypes /\ ThreadTypes /\ EndingTypes
BY DEF TypeOK, GroupTypes, ThreadTypes, EndingTypes

-----------------------------------------------------------------------------
(* Every step preserves the invariant: one lemma for each part.            *)

\* Every step keeps the types of the group's variables ...
LEMMA GroupTypesKept == IInv /\ [Next]_vars => GroupTypes'
<1> SUFFICES ASSUME IInv, [Next]_vars PROVE GroupTypes'
  OBVIOUS
<1>0. GroupTypes /\ ThreadTypes /\ EndingTypes /\ PlaceInv /\ MakeInv
  BY TypeParts DEF IInv
<1> USE GroupAssumption, <1>0 DEF GroupTypes, ThreadTypes, EndingTypes, vars, lists, made,
   process, terminating
<1>1. ASSUME NEW t \in Thread, NEW g \in Gateway, NEW m \in Gateway \cup {None},
             AllocateId(t, g, m)
      PROVE  GroupTypes'
  <2>1. CASE counter \in Ids
    BY <1>1, <2>1 DEF AllocateId, Call
  <2>2. CASE counter \notin Ids
    <3>1. /\ id' = [id EXCEPT ![g] = counter] /\ master' = [master EXCEPT ![g] = m]
          /\ gw' = [gw EXCEPT ![t] = g]
      BY <1>1, <2>2 DEF AllocateId, Specify
    <3>2. pc' = [pc EXCEPT ![t] = "start"] /\ calls' = calls + 1 /\ counter' = counter + 1
      BY <1>1, <2>2 DEF AllocateId, Call
    <3>3. id' \in [Gateway -> Nat \cup {None}] /\ counter' \in Nat /\ calls' \in Nat
      BY <3>1, <3>2
    <3> QED
      BY <1>1, <3>1, <3>2, <3>3 DEF AllocateId
  <2> QED
    BY <2>1, <2>2
<1>2. ASSUME NEW t \in Thread, NEW g \in Gateway, NEW n \in Names, NEW m \in Gateway \cup
             {None}, NameId(t, g, n, m)
      PROVE  GroupTypes'
  BY <1>2 DEF NameId, Call, Specify
<1>3. ASSUME NEW t \in Thread, NEW g \in Gateway, Exit(t, g) PROVE GroupTypes'
  BY <1>3 DEF Exit, Call
<1>4. ASSUME NEW t \in Thread, NEW timeout \in BOOLEAN, Terminate(t, timeout)
      PROVE  GroupTypes'
  BY <1>4 DEF Terminate, Call, Each
<1>5. ASSUME NEW t \in Thread, Start(t) PROVE GroupTypes'
  <2>1. \A m \in Holders(id[master[gw[t]]]) : m \in Gateway
    BY DEF Holders, Listed
  <2>2. gw[t] \in Gateway /\ proc' = [proc EXCEPT ![gw[t]] = "running"]
    BY <1>5 DEF Start, At, Making, MakeInv
  <2>3. master' = master \/ \E m \in Gateway : master' = [master EXCEPT ![gw[t]] = m]
    BY <1>5, <2>1 DEF Start
  <2>4. master' \in [Gateway -> Gateway \cup {None}]
    <3>1. CASE master' = master
      BY <3>1
    <3>2. ASSUME NEW m \in Gateway, master' = [master EXCEPT ![gw[t]] = m]
          PROVE  master' \in [Gateway -> Gateway \cup {None}]
      BY <3>2
    <3> QED
      BY <2>3, <3>1, <3>2
  <2> QED
    BY <1>5, <2>2, <2>4 DEF Start, At
<1>6. ASSUME NEW t \in Thread, StartFails(t) PROVE GroupTypes'
  BY <1>6 DEF StartFails, At, Goto
<1>7. ASSUME NEW t \in Thread, Register(t) PROVE GroupTypes'
  BY <1>7 DEF Register, At, Goto
<1>8. ASSUME NEW t \in Thread, AppendGateway(t) PROVE GroupTypes'
  BY <1>8, MemberJoins DEF AppendGateway, At, Goto, MakeInv, Making
<1>9. ASSUME NEW t \in Thread, Scan(t) PROVE GroupTypes'
  BY <1>9 DEF Scan, At, Goto, ExitReturns
<1>10. ASSUME NEW t \in Thread, RemoveMember(t) PROVE GroupTypes'
  BY <1>10, MemberLeaves DEF RemoveMember, At, Goto
<1>11. ASSUME NEW t \in Thread, RemoveFails(t) PROVE GroupTypes'
  BY <1>11 DEF RemoveFails, At, Goto, Raise
<1>12. ASSUME NEW t \in Thread, Push(t) PROVE GroupTypes'
  BY <1>12 DEF Push, At, Goto, PlaceInv, Exiting
<1>13. ASSUME NEW t \in Thread, SendTerminate(t) PROVE GroupTypes'
  BY <1>13 DEF SendTerminate, At, Goto, ExitReturns, PlaceInv, Exiting
<1>14. ASSUME NEW t \in Thread, TerminateReturns(t) PROVE GroupTypes'
  BY <1>14 DEF TerminateReturns, At, Goto
<1>15. ASSUME NEW t \in Thread, Round(t) PROVE GroupTypes'
  BY <1>15 DEF Round, At, Goto
<1>16. ASSUME NEW t \in Thread, Copy(t) PROVE GroupTypes'
  BY <1>16 DEF Copy, At, Goto
<1>17. ASSUME NEW t \in Thread, ExitNext(t) PROVE GroupTypes'
  BY <1>17 DEF ExitNext, At, Goto
<1>18. ASSUME NEW t \in Thread, Collect(t) PROVE GroupTypes'
  BY <1>18 DEF Collect, At, Goto
<1>19. ASSUME NEW t \in Thread, Wait(t) PROVE GroupTypes'
  BY <1>19 DEF Wait, At
<1>20. ASSUME NEW t \in Thread, WaitRaises(t) PROVE GroupTypes'
  BY <1>20 DEF WaitRaises, At, Goto, Raise
<1>21. ASSUME NEW t \in Thread, Clear(t) PROVE GroupTypes'
  BY <1>21 DEF Clear, At, Goto
<1>22. ASSUME NEW t \in Thread, NEW g \in Gateway, Joined(t, g) PROVE GroupTypes'
  BY <1>22 DEF Joined, JobStep
<1>23. ASSUME NEW t \in Thread, NEW g \in Gateway, JobTimeout(t, g) PROVE GroupTypes'
  BY <1>23 DEF JobTimeout, JobStep
<1>24. ASSUME NEW t \in Thread, NEW g \in Gateway, JobRaises(t, g) PROVE GroupTypes'
  BY <1>24 DEF JobRaises, JobStep
<1>25. ASSUME NEW t \in Thread, NEW g \in Gateway, Kill(t, g) PROVE GroupTypes'
  BY <1>25 DEF Kill, JobStep
<1>26. ASSUME NEW g \in Gateway, ProcessEnds(g) PROVE GroupTypes'
  BY <1>26 DEF ProcessEnds
<1>27. ASSUME NEW t \in Thread, CloseReturns(t) PROVE GroupTypes'
  BY <1>27 DEF CloseReturns, At, Goto, ExitReturns
<1>28. ASSUME NEW t \in Thread, CloseRaises(t) PROVE GroupTypes'
  BY <1>28 DEF CloseRaises, At, Goto, Raise
<1>29. CASE UNCHANGED vars
  BY <1>29 DEF vars
<1> HIDE DEF GroupTypes
<1> QED
  BY <1>1, <1>2, <1>3, <1>4, <1>5, <1>6, <1>7, <1>8, <1>9, <1>10, <1>11, <1>12, <1>13,
     <1>14, <1>15, <1>16, <1>17, <1>18, <1>19, <1>20, <1>21, <1>22, <1>23, <1>24, <1>25,
     <1>26, <1>27, <1>28, <1>29
  DEF Next, Begin, Continue, CloseEnds, Job

\* ... of those of the threads ...
LEMMA ThreadTypesKept == IInv /\ [Next]_vars => ThreadTypes'
<1> SUFFICES ASSUME IInv, [Next]_vars PROVE ThreadTypes'
  OBVIOUS
<1>0. GroupTypes /\ ThreadTypes /\ EndingTypes /\ PlaceInv /\ MakeInv
  BY TypeParts DEF IInv
<1> USE GroupAssumption, <1>0 DEF GroupTypes, ThreadTypes, EndingTypes, vars, lists, made,
   process, terminating
<1>1. ASSUME NEW t \in Thread, NEW g \in Gateway, NEW m \in Gateway \cup {None},
             AllocateId(t, g, m)
      PROVE  ThreadTypes'
  <2>1. CASE counter \in Ids
    BY <1>1, <2>1 DEF AllocateId, Call
  <2>2. CASE counter \notin Ids
    <3>1. /\ id' = [id EXCEPT ![g] = counter] /\ master' = [master EXCEPT ![g] = m]
          /\ gw' = [gw EXCEPT ![t] = g]
      BY <1>1, <2>2 DEF AllocateId, Specify
    <3>2. pc' = [pc EXCEPT ![t] = "start"] /\ calls' = calls + 1 /\ counter' = counter + 1
      BY <1>1, <2>2 DEF AllocateId, Call
    <3>3. id' \in [Gateway -> Nat \cup {None}] /\ counter' \in Nat /\ calls' \in Nat
      BY <3>1, <3>2
    <3> QED
      BY <1>1, <3>1, <3>2, <3>3 DEF AllocateId
  <2> QED
    BY <2>1, <2>2
<1>2. ASSUME NEW t \in Thread, NEW g \in Gateway, NEW n \in Names, NEW m \in Gateway \cup
             {None}, NameId(t, g, n, m)
      PROVE  ThreadTypes'
  BY <1>2 DEF NameId, Call, Specify
<1>3. ASSUME NEW t \in Thread, NEW g \in Gateway, Exit(t, g) PROVE ThreadTypes'
  BY <1>3 DEF Exit, Call
<1>4. ASSUME NEW t \in Thread, NEW timeout \in BOOLEAN, Terminate(t, timeout)
      PROVE  ThreadTypes'
  BY <1>4 DEF Terminate, Call, Each
<1>5. ASSUME NEW t \in Thread, Start(t) PROVE ThreadTypes'
  BY <1>5 DEF Start, At, Goto, Holders
<1>6. ASSUME NEW t \in Thread, StartFails(t) PROVE ThreadTypes'
  BY <1>6 DEF StartFails, At, Goto
<1>7. ASSUME NEW t \in Thread, Register(t) PROVE ThreadTypes'
  BY <1>7 DEF Register, At, Goto
<1>8. ASSUME NEW t \in Thread, AppendGateway(t) PROVE ThreadTypes'
  BY <1>8 DEF AppendGateway, At, Goto
<1>9. ASSUME NEW t \in Thread, Scan(t) PROVE ThreadTypes'
  <2>1. pc' = pc \/ \E p \in {"remove", "exits", "idle"} : pc' = [pc EXCEPT ![t] = p]
    BY <1>9 DEF Scan, ExitReturns, Goto
  <2>2. index' = index \/ index' = [index EXCEPT ![t] = index[t] + 1]
          \/ index' = [index EXCEPT ![t] = 1]
    BY <1>9 DEF Scan
  <2>3. index' \in [Thread -> Nat \ {0}]
    <3>1. index \in [Thread -> Nat \ {0}] /\ index[t] + 1 \in Nat \ {0} /\ 1 \in Nat \ {0}
      OBVIOUS
    <3> QED
      BY <2>2, <3>1
  <2>4. UNCHANGED <<calls, gw>>
    BY <1>9 DEF Scan, At
  <2> QED
    BY <2>1, <2>3, <2>4
<1>10. ASSUME NEW t \in Thread, RemoveMember(t) PROVE ThreadTypes'
  BY <1>10 DEF RemoveMember, At, Goto
<1>11. ASSUME NEW t \in Thread, RemoveFails(t) PROVE ThreadTypes'
  BY <1>11 DEF RemoveFails, At, Goto, Raise
<1>12. ASSUME NEW t \in Thread, Push(t) PROVE ThreadTypes'
  BY <1>12 DEF Push, At, Goto
<1>13. ASSUME NEW t \in Thread, SendTerminate(t) PROVE ThreadTypes'
  BY <1>13 DEF SendTerminate, At, Goto, ExitReturns
<1>14. ASSUME NEW t \in Thread, TerminateReturns(t) PROVE ThreadTypes'
  BY <1>14 DEF TerminateReturns, At, Goto
<1>15. ASSUME NEW t \in Thread, Round(t) PROVE ThreadTypes'
  BY <1>15 DEF Round, At, Goto
<1>16. ASSUME NEW t \in Thread, Copy(t) PROVE ThreadTypes'
  BY <1>16 DEF Copy, At, Goto
<1>17. ASSUME NEW t \in Thread, ExitNext(t) PROVE ThreadTypes'
  <2>1. Head(todo[t]) \in Gateway
    BY <1>17, Passed DEF ExitNext
  <2>2. /\ gw' = gw \/ gw' = [gw EXCEPT ![t] = Head(todo[t])]
        /\ pc' = pc \/ pc' = [pc EXCEPT ![t] = "scan"]
    BY <1>17 DEF ExitNext, Goto
  <2>3. gw' \in [Thread -> Gateway \cup {None}]
    <3>1. [gw EXCEPT ![t] = Head(todo[t])] \in [Thread -> Gateway \cup {None}]
      BY <2>1
    <3> QED
      BY <2>2, <3>1
  <2>4. UNCHANGED <<calls, index>>
    BY <1>17 DEF ExitNext, At
  <2> QED
    BY <2>2, <2>3, <2>4
<1>18. ASSUME NEW t \in Thread, Collect(t) PROVE ThreadTypes'
  BY <1>18 DEF Collect, At, Goto
<1>19. ASSUME NEW t \in Thread, Wait(t) PROVE ThreadTypes'
  BY <1>19 DEF Wait, At
<1>20. ASSUME NEW t \in Thread, WaitRaises(t) PROVE ThreadTypes'
  BY <1>20 DEF WaitRaises, At, Goto, Raise
<1>21. ASSUME NEW t \in Thread, Clear(t) PROVE ThreadTypes'
  BY <1>21 DEF Clear, At, Goto
<1>22. ASSUME NEW t \in Thread, NEW g \in Gateway, Joined(t, g) PROVE ThreadTypes'
  BY <1>22 DEF Joined, JobStep
<1>23. ASSUME NEW t \in Thread, NEW g \in Gateway, JobTimeout(t, g) PROVE ThreadTypes'
  BY <1>23 DEF JobTimeout, JobStep
<1>24. ASSUME NEW t \in Thread, NEW g \in Gateway, JobRaises(t, g) PROVE ThreadTypes'
  BY <1>24 DEF JobRaises, JobStep
<1>25. ASSUME NEW t \in Thread, NEW g \in Gateway, Kill(t, g) PROVE ThreadTypes'
  BY <1>25 DEF Kill, JobStep
<1>26. ASSUME NEW g \in Gateway, ProcessEnds(g) PROVE ThreadTypes'
  BY <1>26 DEF ProcessEnds
<1>27. ASSUME NEW t \in Thread, CloseReturns(t) PROVE ThreadTypes'
  BY <1>27 DEF CloseReturns, At, Goto, ExitReturns
<1>28. ASSUME NEW t \in Thread, CloseRaises(t) PROVE ThreadTypes'
  BY <1>28 DEF CloseRaises, At, Goto, Raise
<1>29. CASE UNCHANGED vars
  BY <1>29 DEF vars
<1> HIDE DEF ThreadTypes
<1> QED
  BY <1>1, <1>2, <1>3, <1>4, <1>5, <1>6, <1>7, <1>8, <1>9, <1>10, <1>11, <1>12, <1>13,
     <1>14, <1>15, <1>16, <1>17, <1>18, <1>19, <1>20, <1>21, <1>22, <1>23, <1>24, <1>25,
     <1>26, <1>27, <1>28, <1>29
  DEF Next, Begin, Continue, CloseEnds, Job

\* ... and of those of terminate().
LEMMA EndingTypesKept == IInv /\ [Next]_vars => EndingTypes'
<1> SUFFICES ASSUME IInv, [Next]_vars PROVE EndingTypes'
  OBVIOUS
<1>0. GroupTypes /\ ThreadTypes /\ EndingTypes /\ PlaceInv /\ MakeInv
  BY TypeParts DEF IInv
<1> USE GroupAssumption, <1>0 DEF GroupTypes, ThreadTypes, EndingTypes, vars, lists, made,
   process, terminating
<1>1. ASSUME NEW t \in Thread, NEW g \in Gateway, NEW m \in Gateway \cup {None},
             AllocateId(t, g, m)
      PROVE  EndingTypes'
  BY <1>1 DEF AllocateId, Call, Specify
<1>2. ASSUME NEW t \in Thread, NEW g \in Gateway, NEW n \in Names, NEW m \in Gateway \cup
             {None}, NameId(t, g, n, m)
      PROVE  EndingTypes'
  BY <1>2 DEF NameId, Call, Specify
<1>3. ASSUME NEW t \in Thread, NEW g \in Gateway, Exit(t, g) PROVE EndingTypes'
  BY <1>3 DEF Exit, Call
<1>4. ASSUME NEW t \in Thread, NEW timeout \in BOOLEAN, Terminate(t, timeout)
      PROVE  EndingTypes'
  BY <1>4 DEF Terminate, Call, Each, Listed
<1>5. ASSUME NEW t \in Thread, Start(t) PROVE EndingTypes'
  BY <1>5 DEF Start, At, Goto, Holders
<1>6. ASSUME NEW t \in Thread, StartFails(t) PROVE EndingTypes'
  BY <1>6 DEF StartFails, At, Goto
<1>7. ASSUME NEW t \in Thread, Register(t) PROVE EndingTypes'
  BY <1>7 DEF Register, At, Goto
<1>8. ASSUME NEW t \in Thread, AppendGateway(t) PROVE EndingTypes'
  BY <1>8 DEF AppendGateway, At, Goto
<1>9. ASSUME NEW t \in Thread, Scan(t) PROVE EndingTypes'
  BY <1>9 DEF Scan, At, Goto, ExitReturns
<1>10. ASSUME NEW t \in Thread, RemoveMember(t) PROVE EndingTypes'
  BY <1>10 DEF RemoveMember, At, Goto
<1>11. ASSUME NEW t \in Thread, RemoveFails(t) PROVE EndingTypes'
  BY <1>11 DEF RemoveFails, At, Goto, Raise
<1>12. ASSUME NEW t \in Thread, Push(t) PROVE EndingTypes'
  BY <1>12 DEF Push, At, Goto
<1>13. ASSUME NEW t \in Thread, SendTerminate(t) PROVE EndingTypes'
  BY <1>13 DEF SendTerminate, At, Goto, ExitReturns
<1>14. ASSUME NEW t \in Thread, TerminateReturns(t) PROVE EndingTypes'
  BY <1>14 DEF TerminateReturns, At, Goto
<1>15. ASSUME NEW t \in Thread, Round(t) PROVE EndingTypes'
  BY <1>15 DEF Round, At, Goto, ViaIds, Listed, MakeInv
<1>16. ASSUME NEW t \in Thread, Copy(t) PROVE EndingTypes'
  BY <1>16 DEF Copy, At, Goto
<1>17. ASSUME NEW t \in Thread, ExitNext(t) PROVE EndingTypes'
  <2>1. /\ todo[t] \in Seq(Gateway) /\ Tail(todo[t]) \in Seq(Gateway)
        /\ Head(todo[t]) \in Gateway
    BY <1>17, Passed DEF ExitNext
  <2> QED
    BY <1>17, <2>1 DEF ExitNext, At, Goto
<1>18. ASSUME NEW t \in Thread, Collect(t) PROVE EndingTypes'
  BY <1>18 DEF Collect, At, Goto
<1>19. ASSUME NEW t \in Thread, Wait(t) PROVE EndingTypes'
  <2>1. /\ todo[t] \in Seq(Gateway) /\ Tail(todo[t]) \in Seq(Gateway)
        /\ Head(todo[t]) \in Gateway
    BY <1>19, Passed DEF Wait
  <2> QED
    BY <1>19, <2>1 DEF Wait, At, Goto
<1>20. ASSUME NEW t \in Thread, WaitRaises(t) PROVE EndingTypes'
  BY <1>20 DEF WaitRaises, At, Goto, Raise
<1>21. ASSUME NEW t \in Thread, Clear(t) PROVE EndingTypes'
  BY <1>21 DEF Clear, At, Goto
<1>22. ASSUME NEW t \in Thread, NEW g \in Gateway, Joined(t, g) PROVE EndingTypes'
  BY <1>22 DEF Joined, JobStep
<1>23. ASSUME NEW t \in Thread, NEW g \in Gateway, JobTimeout(t, g) PROVE EndingTypes'
  BY <1>23 DEF JobTimeout, JobStep
<1>24. ASSUME NEW t \in Thread, NEW g \in Gateway, JobRaises(t, g) PROVE EndingTypes'
  BY <1>24 DEF JobRaises, JobStep
<1>25. ASSUME NEW t \in Thread, NEW g \in Gateway, Kill(t, g) PROVE EndingTypes'
  BY <1>25 DEF Kill, JobStep
<1>26. ASSUME NEW g \in Gateway, ProcessEnds(g) PROVE EndingTypes'
  BY <1>26 DEF ProcessEnds
<1>27. ASSUME NEW t \in Thread, CloseReturns(t) PROVE EndingTypes'
  BY <1>27 DEF CloseReturns, At, Goto, ExitReturns
<1>28. ASSUME NEW t \in Thread, CloseRaises(t) PROVE EndingTypes'
  BY <1>28 DEF CloseRaises, At, Goto, Raise
<1>29. CASE UNCHANGED vars
  BY <1>29 DEF vars
<1> HIDE DEF EndingTypes
<1> QED
  BY <1>1, <1>2, <1>3, <1>4, <1>5, <1>6, <1>7, <1>8, <1>9, <1>10, <1>11, <1>12, <1>13,
     <1>14, <1>15, <1>16, <1>17, <1>18, <1>19, <1>20, <1>21, <1>22, <1>23, <1>24, <1>25,
     <1>26, <1>27, <1>28, <1>29
  DEF Next, Begin, Continue, CloseEnds, Job

\* Every step keeps the threads with gateways that are made.
LEMMA PlaceKept == IInv /\ [Next]_vars => PlaceInv'
<1> SUFFICES ASSUME IInv, [Next]_vars PROVE PlaceInv'
  OBVIOUS
<1> USE GroupAssumption DEF IInv, TypeOK, PlaceInv, Exiting, Making, InRound, vars, lists,
   made, process, terminating
<1>1. ASSUME NEW t \in Thread, NEW g \in Gateway, NEW m \in Gateway \cup {None},
             AllocateId(t, g, m)
      PROVE  PlaceInv'
  BY <1>1 DEF AllocateId, Call, Specify
<1>2. ASSUME NEW t \in Thread, NEW g \in Gateway, NEW n \in Names, NEW m \in Gateway \cup
             {None}, NameId(t, g, n, m)
      PROVE  PlaceInv'
  BY <1>2 DEF NameId, Call, Specify
<1>3. ASSUME NEW t \in Thread, NEW g \in Gateway, Exit(t, g) PROVE PlaceInv'
  BY <1>3 DEF Exit, Call
<1>4. ASSUME NEW t \in Thread, NEW timeout \in BOOLEAN, Terminate(t, timeout)
      PROVE  PlaceInv'
  BY <1>4 DEF Terminate, Call, Each
<1>5. ASSUME NEW t \in Thread, Start(t) PROVE PlaceInv'
  BY <1>5 DEF Start, At, Goto, Holders
<1>6. ASSUME NEW t \in Thread, StartFails(t) PROVE PlaceInv'
  BY <1>6 DEF StartFails, At, Goto
<1>7. ASSUME NEW t \in Thread, Register(t) PROVE PlaceInv'
  BY <1>7 DEF Register, At, Goto
<1>8. ASSUME NEW t \in Thread, AppendGateway(t) PROVE PlaceInv'
  BY <1>8 DEF AppendGateway, At, Goto
<1>9. ASSUME NEW t \in Thread, Scan(t) PROVE PlaceInv'
  BY <1>9 DEF Scan, At, Goto, ExitReturns
<1>10. ASSUME NEW t \in Thread, RemoveMember(t) PROVE PlaceInv'
  BY <1>10 DEF RemoveMember, At, Goto, LeaveInv, Listed
<1>11. ASSUME NEW t \in Thread, RemoveFails(t) PROVE PlaceInv'
  BY <1>11 DEF RemoveFails, At, Goto, Raise
<1>12. ASSUME NEW t \in Thread, Push(t) PROVE PlaceInv'
  <2>1. gw[t] \in Gateway /\ to_join \in Seq(Gateway) /\ to_join' = Append(to_join, gw[t])
    BY <1>12 DEF Push, At
  <2>2. Range(to_join') = Range(to_join) \cup {gw[t]}
    BY <2>1, Appended
  <2> QED
    BY <1>12, <2>2 DEF Push, At, Goto
<1>13. ASSUME NEW t \in Thread, SendTerminate(t) PROVE PlaceInv'
  BY <1>13 DEF SendTerminate, At, Goto, ExitReturns
<1>14. ASSUME NEW t \in Thread, TerminateReturns(t) PROVE PlaceInv'
  BY <1>14 DEF TerminateReturns, At, Goto
<1>15. ASSUME NEW t \in Thread, Round(t) PROVE PlaceInv'
  BY <1>15 DEF Round, At, Goto
<1>16. ASSUME NEW t \in Thread, Copy(t) PROVE PlaceInv'
  <2>1. Range(gateways) \subseteq owned
    BY DEF Listed, Range, LeaveInv
  <2> QED
    BY <1>16, <2>1 DEF Copy, At, Goto
<1>17. ASSUME NEW t \in Thread, ExitNext(t) PROVE PlaceInv'
  <2>1. todo[t] \in Seq(Gateway) /\ todo[t] # <<>>
    BY <1>17 DEF ExitNext
  <2>2. Head(todo[t]) \in Range(todo[t]) /\ Range(Tail(todo[t])) \subseteq Range(todo[t])
    BY <2>1, Passed
  <2> QED
    BY <1>17, <2>2 DEF ExitNext, At, Goto
<1>18. ASSUME NEW t \in Thread, Collect(t) PROVE PlaceInv'
  BY <1>18 DEF Collect, At, Goto
<1>19. ASSUME NEW t \in Thread, Wait(t) PROVE PlaceInv'
  <2>1. todo[t] \in Seq(Gateway) /\ todo[t] # <<>>
    BY <1>19 DEF Wait
  <2>2. Head(todo[t]) \in Range(todo[t]) /\ Range(Tail(todo[t])) \subseteq Range(todo[t])
    BY <2>1, Passed
  <2> QED
    BY <1>19, <2>2 DEF Wait, At, Goto
<1>20. ASSUME NEW t \in Thread, WaitRaises(t) PROVE PlaceInv'
  BY <1>20 DEF WaitRaises, At, Goto, Raise
<1>21. ASSUME NEW t \in Thread, Clear(t) PROVE PlaceInv'
  BY <1>21 DEF Clear, At, Goto, Range
<1>22. ASSUME NEW t \in Thread, NEW g \in Gateway, Joined(t, g) PROVE PlaceInv'
  BY <1>22 DEF Joined, JobStep
<1>23. ASSUME NEW t \in Thread, NEW g \in Gateway, JobTimeout(t, g) PROVE PlaceInv'
  BY <1>23 DEF JobTimeout, JobStep
<1>24. ASSUME NEW t \in Thread, NEW g \in Gateway, JobRaises(t, g) PROVE PlaceInv'
  BY <1>24 DEF JobRaises, JobStep
<1>25. ASSUME NEW t \in Thread, NEW g \in Gateway, Kill(t, g) PROVE PlaceInv'
  BY <1>25 DEF Kill, JobStep
<1>26. ASSUME NEW g \in Gateway, ProcessEnds(g) PROVE PlaceInv'
  BY <1>26 DEF ProcessEnds
<1>27. ASSUME NEW t \in Thread, CloseReturns(t) PROVE PlaceInv'
  BY <1>27 DEF CloseReturns, At, Goto, ExitReturns
<1>28. ASSUME NEW t \in Thread, CloseRaises(t) PROVE PlaceInv'
  BY <1>28 DEF CloseRaises, At, Goto, Raise
<1>29. CASE UNCHANGED vars
  BY <1>29 DEF vars
<1> HIDE DEF IInv, PlaceInv
<1> QED
  BY <1>1, <1>2, <1>3, <1>4, <1>5, <1>6, <1>7, <1>8, <1>9, <1>10, <1>11, <1>12, <1>13,
     <1>14, <1>15, <1>16, <1>17, <1>18, <1>19, <1>20, <1>21, <1>22, <1>23, <1>24, <1>25,
     <1>26, <1>27, <1>28, <1>29
  DEF Next, Begin, Continue, CloseEnds, Job

\* No step makes a gateway twice.
LEMMA MakeKept == IInv /\ [Next]_vars => MakeInv'
<1> SUFFICES ASSUME IInv, [Next]_vars PROVE MakeInv'
  OBVIOUS
<1> USE GroupAssumption DEF IInv, TypeOK, PlaceInv, MakeInv, Exiting, Making, InRound, vars,
   lists, made, process, terminating
<1>1. ASSUME NEW t \in Thread, NEW g \in Gateway, NEW m \in Gateway \cup {None},
             AllocateId(t, g, m)
      PROVE  MakeInv'
  <2>1. CASE counter \in Ids
    BY <1>1, <2>1 DEF AllocateId, Call
  <2>2. CASE counter \notin Ids
    <3>1. /\ id[g] = None /\ id' = [id EXCEPT ![g] = counter]
          /\ m \in owned \cup {None} /\ master' = [master EXCEPT ![g] = m]
          /\ gw' = [gw EXCEPT ![t] = g] /\ UNCHANGED <<owned, proc>>
      BY <1>1, <2>2 DEF AllocateId, Specify
    <3>2. pc[t] = "idle" /\ pc' = [pc EXCEPT ![t] = "start"]
      BY <1>1, <2>2 DEF AllocateId, Call
    <3>3. counter # None /\ g \notin owned /\ proc[g] = "none"
      BY <3>1
    <3> QED
      BY <3>1, <3>2, <3>3
  <2> QED
    BY <2>1, <2>2
<1>2. ASSUME NEW t \in Thread, NEW g \in Gateway, NEW n \in Names, NEW m \in Gateway \cup
             {None}, NameId(t, g, n, m)
      PROVE  MakeInv'
  BY <1>2 DEF NameId, Call, Specify
<1>3. ASSUME NEW t \in Thread, NEW g \in Gateway, Exit(t, g) PROVE MakeInv'
  BY <1>3 DEF Exit, Call
<1>4. ASSUME NEW t \in Thread, NEW timeout \in BOOLEAN, Terminate(t, timeout) PROVE MakeInv'
  BY <1>4 DEF Terminate, Call, Each
<1>5. ASSUME NEW t \in Thread, Start(t) PROVE MakeInv'
  <2>1. gw[t] \in Gateway \ owned /\ proc' = [proc EXCEPT ![gw[t]] = "running"]
    BY <1>5 DEF Start, At
  <2>2. \A m \in Holders(id[master[gw[t]]]) : m \in owned /\ m \in Gateway
    BY DEF Holders, Listed, LeaveInv
  <2>3. master' = master \/ \E m \in owned : master' = [master EXCEPT ![gw[t]] = m]
    BY <1>5, <2>2 DEF Start
  <2>4. \A h \in Gateway : master'[h] \in owned \cup {None}
    <3>1. \A m \in owned, h \in Gateway :
            [master EXCEPT ![gw[t]] = m][h] \in owned \cup {None}
      BY <2>1
    <3> QED
      BY <2>3, <3>1
  <2> QED
    BY <1>5, <2>1, <2>4 DEF Start, At, Goto
<1>6. ASSUME NEW t \in Thread, StartFails(t) PROVE MakeInv'
  BY <1>6 DEF StartFails, At, Goto
<1>7. ASSUME NEW t \in Thread, Register(t) PROVE MakeInv'
  BY <1>7 DEF Register, At, Goto
<1>8. ASSUME NEW t \in Thread, AppendGateway(t) PROVE MakeInv'
  BY <1>8 DEF AppendGateway, At, Goto
<1>9. ASSUME NEW t \in Thread, Scan(t) PROVE MakeInv'
  <2>1. pc[t] = "scan" /\ UNCHANGED <<owned, id, proc, master, gw>>
    BY <1>9 DEF Scan, At
  <2>2. pc' = pc \/ \E p \in {"remove", "exits", "idle"} : pc' = [pc EXCEPT ![t] = p]
    BY <1>9 DEF Scan, ExitReturns, Goto
  <2>3. \A u \in Thread : pc'[u] \in Making => pc'[u] = pc[u]
    BY <2>1, <2>2
  <2> QED
    BY <2>1, <2>3
<1>10. ASSUME NEW t \in Thread, RemoveMember(t) PROVE MakeInv'
  BY <1>10 DEF RemoveMember, At, Goto
<1>11. ASSUME NEW t \in Thread, RemoveFails(t) PROVE MakeInv'
  BY <1>11 DEF RemoveFails, At, Goto, Raise
<1>12. ASSUME NEW t \in Thread, Push(t) PROVE MakeInv'
  BY <1>12 DEF Push, At, Goto
<1>13. ASSUME NEW t \in Thread, SendTerminate(t) PROVE MakeInv'
  <2>1. \E p \in {"exits", "idle", "closing"} : pc' = [pc EXCEPT ![t] = p]
    BY <1>13 DEF SendTerminate, Goto, ExitReturns
  <2>2. \A u \in Thread : pc'[u] \in Making => pc'[u] = pc[u]
    BY <2>1
  <2>3. UNCHANGED <<id, master, owned, proc, gw>>
    BY <1>13 DEF SendTerminate
  <2> QED
    BY <2>2, <2>3
<1>14. ASSUME NEW t \in Thread, TerminateReturns(t) PROVE MakeInv'
  BY <1>14 DEF TerminateReturns, At, Goto
<1>15. ASSUME NEW t \in Thread, Round(t) PROVE MakeInv'
  BY <1>15 DEF Round, At, Goto
<1>16. ASSUME NEW t \in Thread, Copy(t) PROVE MakeInv'
  BY <1>16 DEF Copy, At, Goto
<1>17. ASSUME NEW t \in Thread, ExitNext(t) PROVE MakeInv'
  <2>1. Head(todo[t]) \in owned
    BY <1>17, Passed DEF ExitNext
  <2>2. CASE id[Head(todo[t])] \in vias[t]
    BY <1>17, <2>2 DEF ExitNext, At
  <2>3. CASE id[Head(todo[t])] \notin vias[t]
    <3>1. pc' = [pc EXCEPT ![t] = "scan"] /\ gw' = [gw EXCEPT ![t] = Head(todo[t])]
      BY <1>17, <2>3 DEF ExitNext, Goto
    <3> QED
      BY <1>17, <2>1, <3>1 DEF ExitNext, At
  <2> QED
    BY <2>2, <2>3
<1>18. ASSUME NEW t \in Thread, Collect(t) PROVE MakeInv'
  BY <1>18 DEF Collect, At, Goto
<1>19. ASSUME NEW t \in Thread, Wait(t) PROVE MakeInv'
  BY <1>19 DEF Wait, At
<1>20. ASSUME NEW t \in Thread, WaitRaises(t) PROVE MakeInv'
  BY <1>20 DEF WaitRaises, At, Goto, Raise
<1>21. ASSUME NEW t \in Thread, Clear(t) PROVE MakeInv'
  BY <1>21 DEF Clear, At, Goto
<1>22. ASSUME NEW t \in Thread, NEW g \in Gateway, Joined(t, g) PROVE MakeInv'
  BY <1>22 DEF Joined, JobStep
<1>23. ASSUME NEW t \in Thread, NEW g \in Gateway, JobTimeout(t, g) PROVE MakeInv'
  BY <1>23 DEF JobTimeout, JobStep
<1>24. ASSUME NEW t \in Thread, NEW g \in Gateway, JobRaises(t, g) PROVE MakeInv'
  BY <1>24 DEF JobRaises, JobStep
<1>25. ASSUME NEW t \in Thread, NEW g \in Gateway, Kill(t, g) PROVE MakeInv'
  <2>1. proc[g] # "none" \/ g \in owned
    BY <1>25 DEF Kill, JobStep, JobInv
  <2> QED
    BY <1>25, <2>1 DEF Kill, JobStep
<1>26. ASSUME NEW g \in Gateway, ProcessEnds(g) PROVE MakeInv'
  BY <1>26 DEF ProcessEnds
<1>27. ASSUME NEW t \in Thread, CloseReturns(t) PROVE MakeInv'
  BY <1>27 DEF CloseReturns, At, Goto, ExitReturns
<1>28. ASSUME NEW t \in Thread, CloseRaises(t) PROVE MakeInv'
  BY <1>28 DEF CloseRaises, At, Goto, Raise
<1>29. CASE UNCHANGED vars
  BY <1>29 DEF vars
<1> HIDE DEF IInv, MakeInv
<1> QED
  BY <1>1, <1>2, <1>3, <1>4, <1>5, <1>6, <1>7, <1>8, <1>9, <1>10, <1>11, <1>12, <1>13,
     <1>14, <1>15, <1>16, <1>17, <1>18, <1>19, <1>20, <1>21, <1>22, <1>23, <1>24, <1>25,
     <1>26, <1>27, <1>28, <1>29
  DEF Next, Begin, Continue, CloseEnds, Job

\* No step takes a gateway off a list twice, or puts it there twice.
LEMMA LeaveKept == IInv /\ [Next]_vars => LeaveInv'
<1> SUFFICES ASSUME IInv, [Next]_vars PROVE LeaveInv'
  OBVIOUS
<1> USE GroupAssumption, ListedKept DEF IInv, TypeOK, PlaceInv, MakeInv, LeaveInv, Pending,
   Exiting, Making, InRound, vars, lists, made, process, terminating
<1>1. ASSUME NEW t \in Thread, NEW g \in Gateway, NEW m \in Gateway \cup {None},
             AllocateId(t, g, m)
      PROVE  LeaveInv'
  BY <1>1 DEF AllocateId, Call, Specify
<1>2. ASSUME NEW t \in Thread, NEW g \in Gateway, NEW n \in Names, NEW m \in Gateway \cup
             {None}, NameId(t, g, n, m)
      PROVE  LeaveInv'
  BY <1>2 DEF NameId, Call, Specify
<1>3. ASSUME NEW t \in Thread, NEW g \in Gateway, Exit(t, g) PROVE LeaveInv'
  BY <1>3 DEF Exit, Call
<1>4. ASSUME NEW t \in Thread, NEW timeout \in BOOLEAN, Terminate(t, timeout)
      PROVE  LeaveInv'
  BY <1>4 DEF Terminate, Call, Each
<1>5. ASSUME NEW t \in Thread, Start(t) PROVE LeaveInv'
  BY <1>5 DEF Start, At, Goto, Holders
<1>6. ASSUME NEW t \in Thread, StartFails(t) PROVE LeaveInv'
  BY <1>6 DEF StartFails, At, Goto
<1>7. ASSUME NEW t \in Thread, Register(t) PROVE LeaveInv'
  BY <1>7 DEF Register, At, Goto
<1>8. ASSUME NEW t \in Thread, AppendGateway(t) PROVE LeaveInv'
  <2>1. /\ Listed' = Listed \cup {gw[t]}
        /\ pc[t] = "append" /\ pc' = [pc EXCEPT ![t] = "idle"]
        /\ UNCHANGED <<leaver, to_join, gw>> /\ owned' = owned \cup {gw[t]}
    BY <1>8, MemberJoins DEF AppendGateway, At, Goto
  <2>2. gw[t] \in Gateway \ owned /\ leaver[gw[t]] = None /\ gw[t] \notin Range(to_join)
    BY <2>1
  <2>3. \A i, j \in DOMAIN gateways' : gateways'[i] = gateways'[j] => i = j
    BY <1>8, MemberJoins
  <2> QED
    BY <2>1, <2>2, <2>3
<1>9. ASSUME NEW t \in Thread, Scan(t) PROVE LeaveInv'
  BY <1>9 DEF Scan, At, Goto, ExitReturns
<1>10. ASSUME NEW t \in Thread, RemoveMember(t) PROVE LeaveInv'
  <2>1. /\ Listed' = Listed \ {gw[t]}
        /\ pc[t] = "remove" /\ pc' = [pc EXCEPT ![t] = "push"]
        /\ UNCHANGED <<owned, to_join, gw>> /\ leaver' = [leaver EXCEPT ![gw[t]] = t]
    BY <1>10, MemberLeaves DEF RemoveMember, At, Goto
  <2>2. /\ gw[t] \in owned /\ gw[t] \in Listed
        /\ leaver[gw[t]] = None /\ gw[t] \notin Range(to_join)
    BY <1>10, <2>1, MemberLeaves DEF Listed
  <2>3. \A i, j \in DOMAIN gateways' : gateways'[i] = gateways'[j] => i = j
    BY <1>10, MemberLeaves
  <2>4. ASSUME NEW g \in Gateway
        PROVE  /\ g \in owned' <=> g \in Listed' \/ leaver'[g] # None
               /\ g \in Listed' => leaver'[g] = None
    BY <2>1, <2>2
  <2>5. ASSUME NEW g \in Gateway, leaver'[g] = None \/ Pending(g)'
        PROVE  leaver[g] = None \/ Pending(g)
    BY <2>1, <2>2, <2>5
  <2>6. ASSUME NEW u \in Thread, pc'[u] \in {"push", "send", "closing"}
        PROVE  leaver'[gw'[u]] = u
    BY <2>1, <2>2, <2>6
  <2>7. UNCHANGED <<owned, to_join>>
    BY <2>1
  <2> HIDE DEF Pending
  <2> QED
    BY <2>3, <2>4, <2>5, <2>6, <2>7
<1>11. ASSUME NEW t \in Thread, RemoveFails(t) PROVE LeaveInv'
  BY <1>11 DEF RemoveFails, At, Goto, Raise
<1>12. ASSUME NEW t \in Thread, Push(t) PROVE LeaveInv'
  <2>1. gw[t] \in Gateway /\ to_join \in Seq(Gateway) /\ to_join' = Append(to_join, gw[t])
    BY <1>12 DEF Push, At
  <2>2. Range(to_join') = Range(to_join) \cup {gw[t]}
    BY <2>1, Appended
  <2>3. /\ pc[t] = "push" /\ pc' = [pc EXCEPT ![t] = "send"]
        /\ UNCHANGED <<owned, gateways, leaver, gw, Listed>>
    BY <1>12, ListedKept DEF Push, At, Goto
  <2>4. \A u \in Thread : pc[u] = "push" /\ gw[u] = gw[t] => u = t
    BY <2>3
  <2>5. ASSUME NEW g \in Gateway, leaver[g] = None \/ Pending(g)'
        PROVE  g \notin Range(to_join')
    <3>1. g # gw[t]
      BY <2>3, <2>4, <2>5
    <3>2. leaver[g] = None \/ Pending(g)
      BY <2>3, <2>5
    <3> QED
      BY <2>2, <3>1, <3>2
  <2>6. ASSUME NEW u \in Thread, pc'[u] \in {"push", "send", "closing"}
        PROVE  leaver'[gw'[u]] = u
    BY <2>3, <2>6
  <2> QED
    BY <2>3, <2>5, <2>6
<1>13. ASSUME NEW t \in Thread, SendTerminate(t) PROVE LeaveInv'
  BY <1>13 DEF SendTerminate, At, Goto, ExitReturns
<1>14. ASSUME NEW t \in Thread, TerminateReturns(t) PROVE LeaveInv'
  BY <1>14 DEF TerminateReturns, At, Goto
<1>15. ASSUME NEW t \in Thread, Round(t) PROVE LeaveInv'
  BY <1>15 DEF Round, At, Goto
<1>16. ASSUME NEW t \in Thread, Copy(t) PROVE LeaveInv'
  BY <1>16 DEF Copy, At, Goto
<1>17. ASSUME NEW t \in Thread, ExitNext(t) PROVE LeaveInv'
  <2>1. Head(todo[t]) \in owned
    BY <1>17, Passed DEF ExitNext
  <2>2. CASE id[Head(todo[t])] \in vias[t]
    BY <1>17, <2>2 DEF ExitNext, At
  <2>3. CASE id[Head(todo[t])] \notin vias[t]
    <3>1. pc' = [pc EXCEPT ![t] = "scan"] /\ gw' = [gw EXCEPT ![t] = Head(todo[t])]
      BY <1>17, <2>3 DEF ExitNext, Goto
    <3> QED
      BY <1>17, <2>1, <3>1 DEF ExitNext, At
  <2> QED
    BY <2>2, <2>3
<1>18. ASSUME NEW t \in Thread, Collect(t) PROVE LeaveInv'
  BY <1>18 DEF Collect, At, Goto
<1>19. ASSUME NEW t \in Thread, Wait(t) PROVE LeaveInv'
  BY <1>19 DEF Wait, At
<1>20. ASSUME NEW t \in Thread, WaitRaises(t) PROVE LeaveInv'
  BY <1>20 DEF WaitRaises, At, Goto, Raise
<1>21. ASSUME NEW t \in Thread, Clear(t) PROVE LeaveInv'
  BY <1>21 DEF Clear, At, Goto, Range
<1>22. ASSUME NEW t \in Thread, NEW g \in Gateway, Joined(t, g) PROVE LeaveInv'
  BY <1>22 DEF Joined, JobStep
<1>23. ASSUME NEW t \in Thread, NEW g \in Gateway, JobTimeout(t, g) PROVE LeaveInv'
  BY <1>23 DEF JobTimeout, JobStep
<1>24. ASSUME NEW t \in Thread, NEW g \in Gateway, JobRaises(t, g) PROVE LeaveInv'
  BY <1>24 DEF JobRaises, JobStep
<1>25. ASSUME NEW t \in Thread, NEW g \in Gateway, Kill(t, g) PROVE LeaveInv'
  BY <1>25 DEF Kill, JobStep
<1>26. ASSUME NEW g \in Gateway, ProcessEnds(g) PROVE LeaveInv'
  BY <1>26 DEF ProcessEnds
<1>27. ASSUME NEW t \in Thread, CloseReturns(t) PROVE LeaveInv'
  BY <1>27 DEF CloseReturns, At, Goto, ExitReturns
<1>28. ASSUME NEW t \in Thread, CloseRaises(t) PROVE LeaveInv'
  BY <1>28 DEF CloseRaises, At, Goto, Raise
<1>29. CASE UNCHANGED vars
  BY <1>29 DEF vars
<1> HIDE DEF IInv, LeaveInv
<1> QED
  BY <1>1, <1>2, <1>3, <1>4, <1>5, <1>6, <1>7, <1>8, <1>9, <1>10, <1>11, <1>12, <1>13,
     <1>14, <1>15, <1>16, <1>17, <1>18, <1>19, <1>20, <1>21, <1>22, <1>23, <1>24, <1>25,
     <1>26, <1>27, <1>28, <1>29
  DEF Next, Begin, Continue, CloseEnds, Job

\* Every step keeps what the jobs say of the processes.
LEMMA JobKept == IInv /\ [Next]_vars => JobInv'
<1> SUFFICES ASSUME IInv, [Next]_vars PROVE JobInv'
  OBVIOUS
<1> USE GroupAssumption, ListedKept DEF IInv, TypeOK, PlaceInv, MakeInv, LeaveInv, JobInv,
   Pending, Exiting, Making, InRound, vars, lists, made, process, terminating
<1>1. ASSUME NEW t \in Thread, NEW g \in Gateway, NEW m \in Gateway \cup {None},
             AllocateId(t, g, m)
      PROVE  JobInv'
  BY <1>1 DEF AllocateId, Call, Specify
<1>2. ASSUME NEW t \in Thread, NEW g \in Gateway, NEW n \in Names, NEW m \in Gateway \cup
             {None}, NameId(t, g, n, m)
      PROVE  JobInv'
  BY <1>2 DEF NameId, Call, Specify
<1>3. ASSUME NEW t \in Thread, NEW g \in Gateway, Exit(t, g) PROVE JobInv'
  BY <1>3 DEF Exit, Call
<1>4. ASSUME NEW t \in Thread, NEW timeout \in BOOLEAN, Terminate(t, timeout) PROVE JobInv'
  BY <1>4 DEF Terminate, Call, Each
<1>5. ASSUME NEW t \in Thread, Start(t) PROVE JobInv'
  BY <1>5 DEF Start, At, Goto, Holders
<1>6. ASSUME NEW t \in Thread, StartFails(t) PROVE JobInv'
  BY <1>6 DEF StartFails, At, Goto
<1>7. ASSUME NEW t \in Thread, Register(t) PROVE JobInv'
  BY <1>7 DEF Register, At, Goto
<1>8. ASSUME NEW t \in Thread, AppendGateway(t) PROVE JobInv'
  BY <1>8, MemberJoins DEF AppendGateway, At, Goto
<1>9. ASSUME NEW t \in Thread, Scan(t) PROVE JobInv'
  BY <1>9 DEF Scan, At, Goto, ExitReturns
<1>10. ASSUME NEW t \in Thread, RemoveMember(t) PROVE JobInv'
  <2>1. /\ pc[t] = "remove" /\ pc' = [pc EXCEPT ![t] = "push"]
        /\ UNCHANGED <<owned, proc, to_join, gw, ending, timed, job>>
        /\ leaver' = [leaver EXCEPT ![gw[t]] = t]
    BY <1>10 DEF RemoveMember, At, Goto
  <2>2. gw[t] \in Gateway /\ leaver[gw[t]] = None
    BY <1>10, MemberLeaves DEF Listed
  <2>3. ASSUME NEW g \in Gateway, leaver'[g] = None \/ Pending(g)'
        PROVE  leaver[g] = None \/ Pending(g)
    BY <2>1, <2>2, <2>3
  <2>4. \A u \in Thread : pc'[u] = "wait" <=> pc[u] = "wait"
    BY <2>1
  <2>5. ASSUME NEW u \in Thread, NEW g \in Gateway, ending[u],
               \/ leaver'[g] = None \/ Pending(g)'
               \/ g \in Range(to_join) /\ pc'[u] # "wait"
        PROVE  job[u][g] = "none"
    <3> HIDE DEF Pending
    <3>1. leaver[g] = None \/ Pending(g) \/ (g \in Range(to_join) /\ pc[u] # "wait")
      BY <2>3, <2>4, <2>5
    <3> QED
      BY <2>5, <3>1
  <2> QED
    BY <2>1, <2>5
<1>11. ASSUME NEW t \in Thread, RemoveFails(t) PROVE JobInv'
  BY <1>11 DEF RemoveFails, At, Goto, Raise
<1>12. ASSUME NEW t \in Thread, Push(t) PROVE JobInv'
  <2>1. gw[t] \in Gateway /\ to_join \in Seq(Gateway) /\ to_join' = Append(to_join, gw[t])
    BY <1>12 DEF Push, At
  <2>2. Range(to_join') = Range(to_join) \cup {gw[t]}
    BY <2>1, Appended
  <2> QED
    BY <1>12, <2>2 DEF Push, At, Goto
<1>13. ASSUME NEW t \in Thread, SendTerminate(t) PROVE JobInv'
  BY <1>13 DEF SendTerminate, At, Goto, ExitReturns
<1>14. ASSUME NEW t \in Thread, TerminateReturns(t) PROVE JobInv'
  BY <1>14 DEF TerminateReturns, At, Goto
<1>15. ASSUME NEW t \in Thread, Round(t) PROVE JobInv'
  BY <1>15 DEF Round, At, Goto
<1>16. ASSUME NEW t \in Thread, Copy(t) PROVE JobInv'
  BY <1>16 DEF Copy, At, Goto
<1>17. ASSUME NEW t \in Thread, ExitNext(t) PROVE JobInv'
  <2>1. Head(todo[t]) \in owned
    BY <1>17, Passed DEF ExitNext
  <2>2. CASE id[Head(todo[t])] \in vias[t]
    BY <1>17, <2>2 DEF ExitNext, At
  <2>3. CASE id[Head(todo[t])] \notin vias[t]
    <3>1. pc' = [pc EXCEPT ![t] = "scan"] /\ gw' = [gw EXCEPT ![t] = Head(todo[t])]
      BY <1>17, <2>3 DEF ExitNext, Goto
    <3> QED
      BY <1>17, <2>1, <3>1 DEF ExitNext, At
  <2> QED
    BY <2>2, <2>3
<1>18. ASSUME NEW t \in Thread, Collect(t) PROVE JobInv'
  BY <1>18 DEF Collect, At, Goto, Range
<1>19. ASSUME NEW t \in Thread, Wait(t) PROVE JobInv'
  BY <1>19 DEF Wait, At
<1>20. ASSUME NEW t \in Thread, WaitRaises(t) PROVE JobInv'
  BY <1>20 DEF WaitRaises, At, Goto, Raise
<1>21. ASSUME NEW t \in Thread, Clear(t) PROVE JobInv'
  BY <1>21 DEF Clear, At, Goto, Range
<1>22. ASSUME NEW t \in Thread, NEW g \in Gateway, Joined(t, g) PROVE JobInv'
  BY <1>22 DEF Joined, JobStep
<1>23. ASSUME NEW t \in Thread, NEW g \in Gateway, JobTimeout(t, g) PROVE JobInv'
  BY <1>23 DEF JobTimeout, JobStep
<1>24. ASSUME NEW t \in Thread, NEW g \in Gateway, JobRaises(t, g) PROVE JobInv'
  BY <1>24 DEF JobRaises, JobStep
<1>25. ASSUME NEW t \in Thread, NEW g \in Gateway, Kill(t, g) PROVE JobInv'
  BY <1>25 DEF Kill, JobStep
<1>26. ASSUME NEW g \in Gateway, ProcessEnds(g) PROVE JobInv'
  BY <1>26 DEF ProcessEnds
<1>27. ASSUME NEW t \in Thread, CloseReturns(t) PROVE JobInv'
  BY <1>27 DEF CloseReturns, At, Goto, ExitReturns
<1>28. ASSUME NEW t \in Thread, CloseRaises(t) PROVE JobInv'
  BY <1>28 DEF CloseRaises, At, Goto, Raise
<1>29. CASE UNCHANGED vars
  BY <1>29 DEF vars
<1> HIDE DEF IInv, JobInv
<1> QED
  BY <1>1, <1>2, <1>3, <1>4, <1>5, <1>6, <1>7, <1>8, <1>9, <1>10, <1>11, <1>12, <1>13,
     <1>14, <1>15, <1>16, <1>17, <1>18, <1>19, <1>20, <1>21, <1>22, <1>23, <1>24, <1>25,
     <1>26, <1>27, <1>28, <1>29
  DEF Next, Begin, Continue, CloseEnds, Job

\* No step of one terminate() loses a member that it has taken off the list.
LEMMA TermKept == OneTerminator /\ EndInv /\ [Next]_vars => TermInv'
<1> SUFFICES ASSUME OneTerminator, EndInv, [Next]_vars PROVE TermInv'
  OBVIOUS
<1> USE GroupAssumption, ListedKept DEF EndInv, IInv, TypeOK, PlaceInv, MakeInv, LeaveInv,
   JobInv, TermInv, OneTerminator, CareTaken, Pending, Exiting, Making, InRound, vars,
   lists, made, process, terminating
<1>1. ASSUME NEW t \in Thread, NEW g \in Gateway, NEW m \in Gateway \cup {None},
             AllocateId(t, g, m)
      PROVE  TermInv'
  BY <1>1 DEF AllocateId, Call, Specify
<1>2. ASSUME NEW t \in Thread, NEW g \in Gateway, NEW n \in Names, NEW m \in Gateway \cup
             {None}, NameId(t, g, n, m)
      PROVE  TermInv'
  BY <1>2 DEF NameId, Call, Specify
<1>3. ASSUME NEW t \in Thread, NEW g \in Gateway, Exit(t, g) PROVE TermInv'
  BY <1>3 DEF Exit, Call
<1>4. ASSUME NEW t \in Thread, NEW timeout \in BOOLEAN, Terminate(t, timeout) PROVE TermInv'
  BY <1>4 DEF Terminate, Call, Each, Listed
<1>5. ASSUME NEW t \in Thread, Start(t) PROVE TermInv'
  BY <1>5 DEF Start, At, Goto, Holders
<1>6. ASSUME NEW t \in Thread, StartFails(t) PROVE TermInv'
  BY <1>6 DEF StartFails, At, Goto
<1>7. ASSUME NEW t \in Thread, Register(t) PROVE TermInv'
  BY <1>7 DEF Register, At, Goto
<1>8. ASSUME NEW t \in Thread, AppendGateway(t) PROVE TermInv'
  BY <1>8, MemberJoins DEF AppendGateway, At, Goto
<1>9. ASSUME NEW t \in Thread, Scan(t) PROVE TermInv'
  BY <1>9 DEF Scan, At, Goto, ExitReturns
<1>10. ASSUME NEW t \in Thread, RemoveMember(t) PROVE TermInv'
  <2>1. /\ pc[t] = "remove" /\ pc' = [pc EXCEPT ![t] = "push"]
        /\ leaver' = [leaver EXCEPT ![gw[t]] = t]
        /\ leaver[gw[t]] = None /\ gw[t] \in Gateway
        /\ UNCHANGED <<owned, proc, told, gw, to_join, ending, timed, todo, job, members>>
    BY <1>10, MemberLeaves DEF RemoveMember, At, Goto, Listed
  <2>2. ASSUME NEW u \in Thread, NEW h \in Gateway, leaver'[h] = u, leaver[h] # u
        PROVE  u = t /\ gw[t] = h
    BY <2>1, <2>2
  <2> QED
    BY <2>1, <2>2
<1>11. ASSUME NEW t \in Thread, RemoveFails(t) PROVE TermInv'
  BY <1>11 DEF RemoveFails, At, Goto, Raise
<1>12. ASSUME NEW t \in Thread, Push(t) PROVE TermInv'
  <2>1. gw[t] \in Gateway /\ to_join \in Seq(Gateway) /\ to_join' = Append(to_join, gw[t])
    BY <1>12 DEF Push, At
  <2>2. Range(to_join') = Range(to_join) \cup {gw[t]}
    BY <2>1, Appended
  <2> QED
    BY <1>12, <2>2 DEF Push, At, Goto
<1>13. ASSUME NEW t \in Thread, SendTerminate(t) PROVE TermInv'
  BY <1>13 DEF SendTerminate, At, Goto, ExitReturns
<1>14. ASSUME NEW t \in Thread, TerminateReturns(t) PROVE TermInv'
  BY <1>14 DEF TerminateReturns, At, Goto
<1>15. ASSUME NEW t \in Thread, Round(t) PROVE TermInv'
  BY <1>15 DEF Round, At, Goto
<1>16. ASSUME NEW t \in Thread, Copy(t) PROVE TermInv'
  BY <1>16 DEF Copy, At, Goto
<1>17. ASSUME NEW t \in Thread, ExitNext(t) PROVE TermInv'
  BY <1>17 DEF ExitNext, At, Goto
<1>18. ASSUME NEW t \in Thread, Collect(t) PROVE TermInv'
  BY <1>18 DEF Collect, At, Goto, Range
<1>19. ASSUME NEW t \in Thread, Wait(t) PROVE TermInv'
  <2>1. /\ todo[t] \in Seq(Gateway) /\ todo[t] # <<>>
        /\ todo' = [todo EXCEPT ![t] = Tail(todo[t])]
        /\ UNCHANGED <<owned, proc, told, pc, gw, to_join, ending, timed, job, members>>
        /\ UNCHANGED leaver
        /\ job[t][Head(todo[t])] \in {"done", "kill"}
    BY <1>19 DEF Wait, At
  <2>2. Head(todo[t]) \in Gateway /\ Range(todo[t]) = {Head(todo[t])} \cup Range(todo'[t])
    BY <2>1, Passed
  <2>3. CareTaken(t, Head(todo[t]))
    BY <2>1, <2>2
  <2> QED
    BY <2>1, <2>2, <2>3
<1>20. ASSUME NEW t \in Thread, WaitRaises(t) PROVE TermInv'
  BY <1>20 DEF WaitRaises, At, Goto, Raise
<1>21. ASSUME NEW t \in Thread, Clear(t) PROVE TermInv'
  <2>1. /\ pc[t] = "wait" /\ pc' = [pc EXCEPT ![t] = "while"] /\ Range(todo[t]) = {}
        /\ UNCHANGED <<owned, proc, told, gw, todo, ending, timed, job, members, leaver>>
    BY <1>21 DEF Clear, At, Goto, Range
  <2>2. \A u \in Thread : ending[u] => u = t
    BY <2>1
  <2> QED
    BY <2>1, <2>2
<1>22. ASSUME NEW t \in Thread, NEW g \in Gateway, Joined(t, g) PROVE TermInv'
  BY <1>22 DEF Joined, JobStep
<1>23. ASSUME NEW t \in Thread, NEW g \in Gateway, JobTimeout(t, g) PROVE TermInv'
  BY <1>23 DEF JobTimeout, JobStep
<1>24. ASSUME NEW t \in Thread, NEW g \in Gateway, JobRaises(t, g) PROVE TermInv'
  BY <1>24 DEF JobRaises, JobStep
<1>25. ASSUME NEW t \in Thread, NEW g \in Gateway, Kill(t, g) PROVE TermInv'
  BY <1>25 DEF Kill, JobStep
<1>26. ASSUME NEW g \in Gateway, ProcessEnds(g) PROVE TermInv'
  BY <1>26 DEF ProcessEnds
<1>27. ASSUME NEW t \in Thread, CloseReturns(t) PROVE TermInv'
  BY <1>27 DEF CloseReturns, At, Goto, ExitReturns
<1>28. ASSUME NEW t \in Thread, CloseRaises(t) PROVE TermInv'
  BY <1>28 DEF CloseRaises, At, Goto, Raise
<1>29. CASE UNCHANGED vars
  BY <1>29 DEF vars
<1> HIDE DEF EndInv, IInv, TermInv
<1> QED
  BY <1>1, <1>2, <1>3, <1>4, <1>5, <1>6, <1>7, <1>8, <1>9, <1>10, <1>11, <1>12, <1>13,
     <1>14, <1>15, <1>16, <1>17, <1>18, <1>19, <1>20, <1>21, <1>22, <1>23, <1>24, <1>25,
     <1>26, <1>27, <1>28, <1>29
  DEF Next, Begin, Continue, CloseEnds, Job

\* No step of a round reaches a gateway that proxies another member.
LEMMA ViaKept == EndInv /\ [Next]_vars => ViaInv'
<1> SUFFICES ASSUME EndInv, [Next]_vars PROVE ViaInv'
  OBVIOUS
<1> USE GroupAssumption, ListedKept DEF EndInv, IInv, TypeOK, PlaceInv, MakeInv, LeaveInv,
   JobInv, TermInv, ViaInv, CareTaken, LeftOtherwise, Exiting, Making, InRound, vars, lists,
   made, process, terminating
<1>1. ASSUME NEW t \in Thread, NEW g \in Gateway, NEW m \in Gateway \cup {None},
             AllocateId(t, g, m)
      PROVE  ViaInv'
  <2>1. pc[t] = "idle" /\ \A u \in Thread : ending[u] => u # t
    BY <1>1 DEF AllocateId, Call
  <2>2. \A u \in Thread : ending[u] => pc'[u] = pc[u] /\ gw'[u] = gw[u]
    BY <1>1, <2>1 DEF AllocateId, Call, Specify
  <2>3. /\ UNCHANGED <<ending, members, vias, leaver, proc, timed, job, owned>>
        /\ \A h \in Gateway : id[h] # None => id'[h] = id[h] /\ master'[h] = master[h]
    BY <1>1 DEF AllocateId, Specify
  <2>4. \A h \in owned : id[h] # None /\ (master[h] # None => id[master[h]] # None)
    OBVIOUS
  <2>5. ASSUME NEW u \in Thread, ending[u], pc[u] \in Exiting
        PROVE  id'[gw'[u]] \notin vias[u]
    BY <2>2, <2>3, <2>4, <2>5
  <2>6. ASSUME NEW u \in Thread, ending[u], pc[u] \in InRound,
               NEW h \in members[u], master'[h] # None
        PROVE  id'[master'[h]] \in vias[u] \/ LeftOtherwise(u, h) \/ CareTaken(u, h)
    <3>1. h \in owned /\ h \in Gateway
      BY <2>6
    <3>2. master'[h] = master[h] /\ id'[master[h]] = id[master[h]]
      BY <2>3, <2>4, <2>6, <3>1
    <3> QED
      BY <2>6, <3>2
  <2> QED
    BY <2>2, <2>3, <2>5, <2>6
<1>2. ASSUME NEW t \in Thread, NEW g \in Gateway, NEW n \in Names, NEW m \in Gateway \cup
             {None}, NameId(t, g, n, m)
      PROVE  ViaInv'
  BY <1>2 DEF NameId, Call, Specify
<1>3. ASSUME NEW t \in Thread, NEW g \in Gateway, Exit(t, g) PROVE ViaInv'
  <2>1. pc[t] = "idle" /\ ~ending[t] /\ pc' = [pc EXCEPT ![t] = "scan"]
    BY <1>3 DEF Exit, Call
  <2>2. gw' = [gw EXCEPT ![t] = g]
    BY <1>3 DEF Exit
  <2>3. \A u \in Thread : ending[u] => pc'[u] = pc[u] /\ gw'[u] = gw[u]
    BY <2>1, <2>2
  <2> QED
    BY <1>3, <2>3 DEF Exit
<1>4. ASSUME NEW t \in Thread, NEW timeout \in BOOLEAN, Terminate(t, timeout) PROVE ViaInv'
  BY <1>4 DEF Terminate, Call, Each
<1>5. ASSUME NEW t \in Thread, Start(t) PROVE ViaInv'
  BY <1>5 DEF Start, At, Goto, Holders
<1>6. ASSUME NEW t \in Thread, StartFails(t) PROVE ViaInv'
  BY <1>6 DEF StartFails, At, Goto
<1>7. ASSUME NEW t \in Thread, Register(t) PROVE ViaInv'
  BY <1>7 DEF Register, At, Goto
<1>8. ASSUME NEW t \in Thread, AppendGateway(t) PROVE ViaInv'
  BY <1>8 DEF AppendGateway, At, Goto
<1>9. ASSUME NEW t \in Thread, Scan(t) PROVE ViaInv'
  BY <1>9 DEF Scan, At, Goto, ExitReturns
<1>10. ASSUME NEW t \in Thread, RemoveMember(t) PROVE ViaInv'
  <2>1. /\ pc[t] = "remove" /\ pc' = [pc EXCEPT ![t] = "push"]
        /\ leaver' = [leaver EXCEPT ![gw[t]] = t]
        /\ leaver[gw[t]] = None /\ gw[t] \in Gateway
        /\ UNCHANGED <<ending, members, vias, proc, timed, job, gw, id, master>>
    BY <1>10, MemberLeaves DEF RemoveMember, At, Goto, Listed
  <2>2. \A u \in Thread, h \in Gateway : LeftOtherwise(u, h) => LeftOtherwise(u, h)'
    BY <2>1
  <2>3. \A u \in Thread : /\ pc'[u] \in Exiting <=> pc[u] \in Exiting
                          /\ pc'[u] \in InRound <=> pc[u] \in InRound
    BY <2>1
  <2>4. \A u \in Thread, h \in Gateway : CareTaken(u, h) <=> CareTaken(u, h)'
    BY <2>1
  <2> QED
    BY <2>1, <2>2, <2>3, <2>4
<1>11. ASSUME NEW t \in Thread, RemoveFails(t) PROVE ViaInv'
  BY <1>11 DEF RemoveFails, At, Goto, Raise
<1>12. ASSUME NEW t \in Thread, Push(t) PROVE ViaInv'
  BY <1>12 DEF Push, At, Goto
<1>13. ASSUME NEW t \in Thread, SendTerminate(t) PROVE ViaInv'
  BY <1>13 DEF SendTerminate, At, Goto, ExitReturns
<1>14. ASSUME NEW t \in Thread, TerminateReturns(t) PROVE ViaInv'
  BY <1>14 DEF TerminateReturns, At, Goto
<1>15. ASSUME NEW t \in Thread, Round(t) PROVE ViaInv'
  BY <1>15 DEF Round, At, Goto, ViaIds
<1>16. ASSUME NEW t \in Thread, Copy(t) PROVE ViaInv'
  BY <1>16 DEF Copy, At, Goto
<1>17. ASSUME NEW t \in Thread, ExitNext(t) PROVE ViaInv'
  BY <1>17 DEF ExitNext, At, Goto
<1>18. ASSUME NEW t \in Thread, Collect(t) PROVE ViaInv'
  BY <1>18 DEF Collect, At, Goto
<1>19. ASSUME NEW t \in Thread, Wait(t) PROVE ViaInv'
  BY <1>19 DEF Wait, At
<1>20. ASSUME NEW t \in Thread, WaitRaises(t) PROVE ViaInv'
  BY <1>20 DEF WaitRaises, At, Goto, Raise
<1>21. ASSUME NEW t \in Thread, Clear(t) PROVE ViaInv'
  BY <1>21 DEF Clear, At, Goto
<1>22. ASSUME NEW t \in Thread, NEW g \in Gateway, Joined(t, g) PROVE ViaInv'
  BY <1>22 DEF Joined, JobStep
<1>23. ASSUME NEW t \in Thread, NEW g \in Gateway, JobTimeout(t, g) PROVE ViaInv'
  BY <1>23 DEF JobTimeout, JobStep
<1>24. ASSUME NEW t \in Thread, NEW g \in Gateway, JobRaises(t, g) PROVE ViaInv'
  BY <1>24 DEF JobRaises, JobStep
<1>25. ASSUME NEW t \in Thread, NEW g \in Gateway, Kill(t, g) PROVE ViaInv'
  BY <1>25 DEF Kill, JobStep
<1>26. ASSUME NEW g \in Gateway, ProcessEnds(g) PROVE ViaInv'
  BY <1>26 DEF ProcessEnds
<1>27. ASSUME NEW t \in Thread, CloseReturns(t) PROVE ViaInv'
  BY <1>27 DEF CloseReturns, At, Goto, ExitReturns
<1>28. ASSUME NEW t \in Thread, CloseRaises(t) PROVE ViaInv'
  BY <1>28 DEF CloseRaises, At, Goto, Raise
<1>29. CASE UNCHANGED vars
  BY <1>29 DEF vars
<1> HIDE DEF EndInv, IInv, ViaInv
<1> QED
  BY <1>1, <1>2, <1>3, <1>4, <1>5, <1>6, <1>7, <1>8, <1>9, <1>10, <1>11, <1>12, <1>13,
     <1>14, <1>15, <1>16, <1>17, <1>18, <1>19, <1>20, <1>21, <1>22, <1>23, <1>24, <1>25,
     <1>26, <1>27, <1>28, <1>29
  DEF Next, Begin, Continue, CloseEnds, Job

-----------------------------------------------------------------------------
(* The invariants.                                                         *)

\* They hold initially,
LEMMA InitEstablishes == Init => EndInv
<1> SUFFICES ASSUME Init PROVE EndInv
  OBVIOUS
<1> USE GroupAssumption DEF Init, Each
<1>1. GroupTypes
  BY DEF GroupTypes
<1>2. ThreadTypes
  BY DEF ThreadTypes
<1>3. EndingTypes
  BY DEF EndingTypes
<1>4. Range(to_join) = {} /\ Listed = {} /\ \A t \in Thread : Range(todo[t]) = {}
  BY DEF Range, Listed
<1>5. PlaceInv /\ MakeInv
  BY <1>4 DEF PlaceInv, MakeInv, Exiting, Making, InRound
<1>6. LeaveInv
  BY <1>4 DEF LeaveInv, Pending
<1>7. JobInv
  BY DEF JobInv
<1>8. TermInv /\ ViaInv
  BY DEF TermInv, ViaInv
<1> QED
  BY <1>1, <1>2, <1>3, <1>5, <1>6, <1>7, <1>8, TypeParts DEF IInv, EndInv

\* every step preserves the first one,
LEMMA StepPreserves == IInv /\ [Next]_vars => IInv'
<1>1. IInv /\ [Next]_vars => TypeOK'
  BY GroupTypesKept, ThreadTypesKept, EndingTypesKept
  DEF TypeOK, GroupTypes, ThreadTypes, EndingTypes
<1> QED
  BY <1>1, PlaceKept, MakeKept, LeaveKept, JobKept DEF IInv

\* which always holds,
LEMMA Invariance == Spec => []IInv
<1>1. Init => IInv
  BY InitEstablishes DEF EndInv
<1> QED
  BY <1>1, StepPreserves, PTL DEF Spec

\* and the second one does when there is one terminate() at a time.
LEMMA EndInvariance ==
  ASSUME OneTerminator
  PROVE  Spec => []EndInv
<1>1. EndInv /\ [Next]_vars => EndInv'
  BY StepPreserves, TermKept, ViaKept DEF EndInv
<1> QED
  BY <1>1, InitEstablishes, PTL DEF Spec

-----------------------------------------------------------------------------
(* What follows from them.                                                 *)

\* The variables have their types, for any number of gateways, threads and calls, and
\* however many threads terminate the group at the same time.
THEOREM TypeCorrect == Spec => []TypeOK
BY Invariance, PTL DEF IInv

\* When terminate() returns, all that were members when it was called have been told, and
\* waited for or killed.
THEOREM TerminateIsThoroughHolds ==
  ASSUME OneTerminator
  PROVE  Spec => []TerminateIsThorough
<1>1. EndInv => TerminateIsThorough
  <2> SUFFICES ASSUME EndInv, NEW t \in Terminator, pc[t] = "while", gateways = <<>>,
                      NEW g \in members[t]
               PROVE  LeftOtherwise(t, g) \/ (g \in told /\ CareTaken(t, g))
    BY DEF TerminateIsThorough
  <2>1. ending[t] /\ t \in Thread
    BY GroupAssumption DEF EndInv, IInv, PlaceInv
  <2>2. g \in owned /\ g \in Gateway
    BY <2>1 DEF EndInv, TermInv, IInv, TypeOK
  <2>3. Listed = {}
    BY DEF Listed
  <2>4. leaver[g] # None
    BY <2>2, <2>3 DEF EndInv, IInv, LeaveInv
  <2>5. CASE leaver[g] = t
    BY <2>1, <2>5 DEF EndInv, TermInv, Exiting
  <2>6. CASE leaver[g] # t
    BY <2>4, <2>6 DEF LeftOtherwise
  <2> QED
    BY <2>5, <2>6
<1> QED
  BY <1>1, EndInvariance, PTL

\* terminate() tells a gateway to end only when it is through with the members it proxies.
THEOREM ProxiedFirstHolds ==
  ASSUME OneTerminator
  PROVE  Spec => ProxiedFirst
<1> DEFINE Proxied(t) ==
      \A g \in members[t] : master[g] = gw[t] => LeftOtherwise(t, g) \/ CareTaken(t, g)
<1>1. ASSUME EndInv, NEW t \in Terminator, ending[t], SendTerminate(t) PROVE Proxied(t)
  <2> SUFFICES ASSUME NEW g \in members[t], master[g] = gw[t]
               PROVE  LeftOtherwise(t, g) \/ CareTaken(t, g)
    OBVIOUS
  <2>1. pc[t] = "send" /\ t \in Thread
    BY <1>1, GroupAssumption DEF SendTerminate, At
  <2>2. master[g] # None
    BY <1>1, <2>1, GroupAssumption DEF EndInv, IInv, TypeOK, PlaceInv, Exiting
  <2> QED
    BY <1>1, <2>1, <2>2 DEF EndInv, ViaInv, Exiting, InRound
<1>2. EndInv /\ [Next]_vars =>
        [\A t \in Terminator : ending[t] /\ SendTerminate(t) => Proxied(t)]_vars
  BY <1>1
<1> QED
  BY <1>2, EndInvariance, PTL DEF Spec, ProxiedFirst
=============================================================================
