------------------------------ MODULE RSync_proof ------------------------------
(***************************************************************************)
(* Proofs about RSync, for any tree, any number of targets, sends, changes *)
(* of the source and deaths: contents never go to the wrong file, and when *)
(* a target is finished with, it equals the source.                        *)
(*                                                                         *)
(* Contents are on their way without a name.  MatchInv says that the       *)
(* requests of a target in the queue and, before them, the contents on     *)
(* their way to it are those for its modified files, one for each, in      *)
(* their order.  That breaks when a target dies, and when send() goes on   *)
(* to a channel that is closed; then nobody writes what comes.             *)
(*                                                                         *)
(* The tree is on its way without names, too: PlanInv says that the target *)
(* will have what send() still has to visit to visit itself, when it has   *)
(* received what is on the wire, and that each message describes what it   *)
(* will be taken for.  SyncInv says what is already right at the target.   *)
(***************************************************************************)
EXTENDS RSync, TLAPS, FiniteSetTheorems, WellFoundedInduction

\* The source and what has been in it, what could not be read, and the tree at a target.
View(t) == [source |-> source, had |-> had, unread |-> unread, tree |-> dest[t]]

\* The file in the source is still the one that was described, and it could always be read.
Wanted(h, f) ==
  /\ h.source[f.path].type = "file" /\ h.source[f.path].mtime = f.mtime
  /\ <<f.path, f.mtime>> \notin h.unread

\* The contents d for the file f have been in it; they are those it has or, when there are none,
\* the target has them.
Fits(h, f, d) ==
  /\ d # None => \E e \in h.had[f.path] : e.type = "file" /\ e.data = d
  /\ Wanted(h, f) =>
       \/ d = h.source[f.path].data
       \/ /\ d = None /\ h.tree[f.path].type = "file"
          /\ h.tree[f.path].data = h.source[f.path].data

\* A wish for the file f, with the checksum of what the target has.
Wants(h, f, wish) ==
  /\ wish.path = f.path
  /\ wish.checksum # None => h.tree[f.path].type = "file" /\ h.tree[f.path].data = wish.checksum

IsData(msg) == msg.type = "data"
Asks(req, t) == req.target = t /\ req.wish.type = "send"

DataAt(w) == {i \in DOMAIN w : IsData(w[i])}
AskedAt(q, t) == {j \in DOMAIN q : Asks(q[j], t)}

\* The contents on the wire w, and behind them the requests of t in the queue q, are those for the
\* files from n + 1 on, in their order: f and g say for which.
Pairing(files, n, w, q, t, h, f, g) ==
  /\ \A i \in DataAt(w) : f[i] \in n + 1 .. Len(files) /\ Fits(h, files[f[i]], w[i].data)
  /\ \A j \in AskedAt(q, t) : g[j] \in n + 1 .. Len(files) /\ Wants(h, files[g[j]], q[j].wish)
  /\ \A i, k \in DataAt(w) : i < k => f[i] < f[k]
  /\ \A j, k \in AskedAt(q, t) : j < k => g[j] < g[k]
  /\ \A i \in DataAt(w), j \in AskedAt(q, t) : f[i] < g[j]
  /\ \A k \in n + 1 .. Len(files) :
       (\E i \in DataAt(w) : f[i] = k) \/ (\E j \in AskedAt(q, t) : g[j] = k)

Matched(files, n, w, q, t, h) ==
  \E f \in [DOMAIN w -> Nat], g \in [DOMAIN q -> Nat] : Pairing(files, n, w, q, t, h, f, g)

Lives(t) == task[t] \notin {"failed", "error"}
InWork(t) == IF task[t] \in {"write", "utime"} THEN 1 ELSE 0

\* What is done for a target that lives.
MatchInv ==
  \A t \in Target : Lives(t) => Matched(modified[t], InWork(t), wire[t], queue, t, View(t))

WorkInv ==
  \A t \in Target :
    /\ task[t] \in {"none", "links", "done", "closed"} => modified[t] = <<>>
    /\ task[t] \in {"write", "utime"} => modified[t] # <<>>

\* What is being written is for the file; what has been written, the source has.
WriteInv ==
  \A t \in Target :
    /\ task[t] = "write" =>
         LET f == modified[t][1]
         IN  /\ f.data # None /\ Fits(View(t), f, f.data)
             /\ dest[t][f.path] = File(Partial, Now)
    /\ task[t] = "utime" => Fits(View(t), modified[t][1], None)

HadInv == \A p \in Path : source[p] \in had[p]

-----------------------------------------------------------------------------
(* Trees.                                                                  *)

\* Everything is in a directory.
Grown(tree) == \A p \in Path \ {<<>>} : tree[p] # Absent => InDir(tree, p)

DestInv == \A t \in Target : Grown(dest[t])

SourceInv ==
  /\ Grown(source) /\ had[<<>>] = {source[<<>>]}
  /\ \A p \in Path : source[p].type = "file" => source[p].mtime \in 1..clock

\* A file at a target has the contents that the source has had at its time, unless it could not
\* be read.
TimeInv ==
  \A t \in Target, p \in Path :
    LET e == dest[t][p]
    IN  e.type = "file" =>
          /\ e.mtime \in 0..clock \cup {Now}
          /\ \E x \in had[p] : x.type = "file"
          /\ source[p].type = "file" /\ source[p].mtime = e.mtime =>
               source[p].data = e.data \/ <<p, e.mtime>> \in unread

\* What is to visit in the stack s, and which directories are to leave.
Visiting(s) == {i \in DOMAIN s : ~s[i].leave}
Pend(s) == {s[i].path : i \in Visiting(s)}
Left(s) == {s[i] : i \in DOMAIN s \ Visiting(s)}
Apart(s) == \A i, k \in Visiting(s) : i # k => ~IsPrefix(s[i].path, s[k].path)

PathsOf(files) == {files[i].path : i \in DOMAIN files}

\* p is in what is kept of the directory l.
Kept(p, l) == \E n \in l.names : IsPrefix(n, p)

\* What is removed when the directory l is left.
Gone(l) == Children(l.path) \ l.names

\* The paths P are to visit, the directories L are to leave, the files M are to write: there are
\* directories for them, and nothing on the way will be removed.
Placed(P, L, M, tree) ==
  /\ \A p \in P, m \in M : ~IsPrefix(p, m)
  /\ \A l \in L : /\ l.names \subseteq Children(l.path)
                  /\ \A p \in P : ~IsPrefix(p, l.path)
                  /\ \A x \in P \cup M : IsStrictPrefix(l.path, x) => Kept(x, l)
  /\ \A x \in P \cup M : x # <<>> => InDir(tree, x)
  /\ \A m \in M : tree[m].type \in {"file", "absent"}

PlaceInv ==
  \A t \in Target : Lives(t) =>
    /\ Apart(stack[t])
    /\ \A i, k \in DOMAIN modified[t] : i # k => modified[t][i].path # modified[t][k].path
    /\ Placed(Pend(stack[t]), Left(stack[t]), PathsOf(modified[t]), dest[t])

\* The files in the source that could not be read.
Spoilt == {q \in Path : source[q].type = "file" /\ <<q, source[q].mtime>> \in unread}

\* What is not below a path to visit is right, but for the files in M, for what is removed when
\* a directory is left, and for what will give way to a link.
InSync(P, L, M, tree, src, d) ==
  \A q \in Path : (\A p \in P : ~IsPrefix(p, q)) =>
    /\ src[q] = Dir => tree[q] = Dir
    /\ src[q].type = "file" => tree[q] = src[q] \/ q \in M
    /\ src[q] = Absent /\ d =>
         \/ tree[q] = Absent
         \/ \E l \in L : IsStrictPrefix(l.path, q) /\ ~Kept(q, l)
         \/ \E r \in Path : IsStrictPrefix(r, q) /\ src[r].type = "link"
    /\ src[q] # Other

SyncInv ==
  \A t \in channels : Lives(t) /\ stable /\ LinksCurrent =>
    InSync(Pend(stack[t]), Left(stack[t]), PathsOf(modified[t]) \cup Spoilt, dest[t], source,
           delete[t])

Present(src, p) == {q \in Children(p) : src[q] # Absent}

LeavesInv ==
  \A t \in Target : Lives(t) /\ stable =>
    \A l \in Left(stack[t]) : source[l.path] = Dir /\ l.names = Present(source, l.path)

FileInv ==
  \A t \in Target : Lives(t) =>
    \A i \in DOMAIN modified[t] :
      LET f == modified[t][i]
      IN  /\ f.mtime <= clock
          /\ stable => \/ source[f.path].type = "file" /\ source[f.path].mtime = f.mtime
                       \/ f.path = <<>> /\ source[f.path] = Absent

-----------------------------------------------------------------------------
(* What is sent about the tree.                                            *)

\* What messages are judged by.
World == [source |-> source, had |-> had, clock |-> clock, stable |-> stable]

\* Before the message v is left to visit, after it w.
Turns(v, msg, w) ==
  /\ msg.type = "dir" => v # <<>> /\ w = msg.names \o Tail(v)
  /\ msg.type \in {"file", "link"} => v # <<>> /\ w = Tail(v)
  /\ msg.type \notin {"dir", "file", "link"} => w = v

\* The message is about the path p.
Describes(h, p, msg) ==
  /\ msg.type = "dir" =>
       /\ ToSet(msg.names) \subseteq Children(p) /\ IsInjective(msg.names)
       /\ h.stable => h.source[p] = Dir /\ ToSet(msg.names) = Present(h.source, p)
  /\ msg.type = "link" => (h.stable => h.source[p].type = "link")
  /\ msg.type = "file" =>
       /\ \E e \in h.had[p] : e.type \in {"file", "absent"}
       /\ msg.mtime <= h.clock
       /\ h.stable => \/ h.source[p].type = "file" /\ h.source[p].mtime = msg.mtime
                      \/ p = <<>> /\ h.source[p] = Absent

\* With v left to visit now, something of R will be left when w has been received.
Planned(v, w, h, R) ==
  \E V \in [0..Len(w) -> Seq(Path)] :
    /\ V[0] = v /\ V[Len(w)] \in R
    /\ \A i \in 1..Len(w) : Turns(V[i - 1], w[i], V[i]) /\ Describes(h, Head(V[i - 1]), w[i])

\* v lists what is to visit in the stack s.
Lists(v, s) ==
  \E f \in [DOMAIN v -> DOMAIN s] :
    /\ \A k \in DOMAIN v : ~s[f[k]].leave /\ v[k] = s[f[k]].path
    /\ \A k, l \in DOMAIN v : k < l => f[k] < f[l]
    /\ \A i \in DOMAIN s : ~s[i].leave => \E k \in DOMAIN v : f[k] = i

\* What may be left when all has been received.
Rests == IF pc = "failed" THEN Seq(Path) ELSE IF pc = "idle" THEN {<<<<>>>>} ELSE {walk}

PlanInv ==
  \A t \in channels : Lives(t) =>
    \E v \in Seq(Path) : Lists(v, stack[t]) /\ Planned(v, wire[t], World, Rests)

WalkInv ==
  /\ pc \in {"loop", "closing"} => walk = <<>>
  /\ stable /\ pc = "walk" => \A k \in DOMAIN walk : walk[k] = <<>> \/ source[walk[k]] # Absent

\* Where the targets stand.
TaskInv ==
  \A t \in Target : Lives(t) =>
    /\ task[t] # "tree" => stack[t] = <<>>
    /\ task[t] = "none" => t \notin channels
    /\ t \notin channels => task[t] \in {"none", "done", "closed"} /\ wire[t] = <<>>
    /\ t \in channels /\ pc = "idle" =>
         /\ task[t] = "tree" /\ stack[t] = <<Visit(<<>>)>>
         /\ wire[t] = <<>> /\ modified[t] = <<>>
    /\ task[t] \in {"done", "closed"} =>
         wire[t] = <<>> /\ (t \in channels => pc \in {"loop", "closing", "failed"})

-----------------------------------------------------------------------------
(* Links, and the end.                                                     *)

LinksHad == \A i \in DOMAIN links : \E e \in had[links[i].path] : e.type = "link"

\* The last entry for a link in the source says where it points.
LinksInv ==
  stable /\ pc # "idle" =>
    \A q \in Path : source[q].type = "link" /\ (\A k \in DOMAIN walk : ~IsPrefix(walk[k], q)) =>
      \E i \in DOMAIN links : /\ links[i].path = q /\ links[i].to = PointOf(source[q].to)
                              /\ \A j \in DOMAIN links : j > i => links[j].path # q

IsLinkPart(msg) == msg.type \in {"to", "end"}
Answered(w) == \E i \in DOMAIN w : IsLinkPart(w[i])
Answer == LinkMessages \o <<[type |-> "end"]>>

\* What is left of the answer is at the end of the wire, but for the first k messages.
Remains(w, k) ==
  LET n == Len(links) + 1 - k
  IN  /\ Len(w) >= n
      /\ \A i \in 1..Len(w) - n : ~IsLinkPart(w[i])
      /\ \A i \in 1..n : w[Len(w) - n + i] = Answer[k + i]

\* The links that have no entry behind the first k are made.
Made(t, k) ==
  stable /\ LinksCurrent =>
    \A q \in Path : source[q].type = "link" =>
      \/ dest[t][q] = LinkTo(Joined(PointOf(source[q].to)))
      \/ \E j \in DOMAIN links : j > k /\ links[j].path = q

AsksLinks(req, t) == req.target = t /\ req.wish.type = "links"

\* Links are asked for once, and answered once.
AskedOnce(t) ==
  /\ \A i \in DOMAIN queue : AsksLinks(queue[i], t) => task[t] = "links" /\ ~Answered(wire[t])
  /\ \A i, j \in DOMAIN queue : AsksLinks(queue[i], t) /\ AsksLinks(queue[j], t) => i = j

AnswerLeft(t) ==
  Answered(wire[t]) =>
    /\ task[t] = "links" /\ pc \in {"loop", "closing", "failed"} /\ walk = <<>>
    /\ \E k \in 0..Len(links) : Remains(wire[t], k) /\ Made(t, k)

AnswerInv == \A t \in Target : Lives(t) => AskedOnce(t) /\ AnswerLeft(t)

IsDone(req, t) == req.target = t /\ req.wish.type = "done"

\* A target that says that it is done has all, and says it once.
DoneOnce(t) ==
  /\ \A i \in DOMAIN queue : IsDone(queue[i], t) =>
       /\ t \in channels /\ pc \in {"loop", "closing", "failed"}
       /\ task[t] \in {"done", "closed", "failed", "error"}
       /\ stable /\ LinksCurrent => Synced(t)
  /\ \A i, j \in DOMAIN queue : IsDone(queue[i], t) /\ IsDone(queue[j], t) => i = j

DoneInv == \A t \in Target : DoneOnce(t)

IInv ==
  /\ TypeOK /\ HadInv /\ MatchInv /\ WorkInv /\ WriteInv /\ NoMixUp
  /\ DestInv /\ SourceInv /\ TimeInv
  /\ PlaceInv /\ SyncInv /\ LeavesInv /\ FileInv
  /\ PlanInv /\ WalkInv /\ TaskInv
  /\ LinksHad /\ LinksInv /\ AnswerInv /\ DoneInv

-----------------------------------------------------------------------------
(* What is matched stays matched.                                          *)

\* What Tail and Append do.
LEMMA TailIs ==
  ASSUME NEW S, NEW s \in Seq(S), s # <<>>
  PROVE  /\ Tail(s) \in Seq(S) /\ Head(s) = s[1] /\ Head(s) \in S
         /\ Len(s) \in Nat \ {0} /\ DOMAIN s = 1..Len(s) /\ 1 \in DOMAIN s
         /\ DOMAIN Tail(s) = 1..Len(s) - 1 /\ Len(Tail(s)) = Len(s) - 1
         /\ \A i \in DOMAIN Tail(s) : Tail(s)[i] = s[i + 1] /\ i + 1 \in DOMAIN s
         /\ \A i \in DOMAIN s : i = 1 \/ i - 1 \in DOMAIN Tail(s)
OBVIOUS

LEMMA AppendIs ==
  ASSUME NEW S, NEW s \in Seq(S), NEW x \in S
  PROVE  /\ Append(s, x) \in Seq(S) /\ Len(Append(s, x)) = Len(s) + 1
         /\ DOMAIN s = 1..Len(s) /\ Len(s) \in Nat
         /\ DOMAIN Append(s, x) = 1..Len(s) + 1
         /\ Append(s, x)[Len(s) + 1] = x
         /\ \A i \in DOMAIN s : Append(s, x)[i] = s[i] /\ i \in DOMAIN Append(s, x)
         /\ \A i \in DOMAIN Append(s, x) : i = Len(s) + 1 \/ i \in DOMAIN s
OBVIOUS

LEMMA ConcatIs ==
  ASSUME NEW S, NEW s \in Seq(S), NEW r \in Seq(S)
  PROVE  /\ s \o r \in Seq(S)
         /\ DOMAIN s = 1..Len(s) /\ Len(s) \in Nat
         /\ \A i \in DOMAIN s : (s \o r)[i] = s[i] /\ i \in DOMAIN (s \o r)
         /\ \A i \in DOMAIN (s \o r) :
              \/ i \in DOMAIN s
              \/ i \notin DOMAIN s /\ i - Len(s) \in DOMAIN r /\ (s \o r)[i] = r[i - Len(s)]
OBVIOUS

\* The first message is not one with contents.
LEMMA OtherReceived ==
  ASSUME NEW M, NEW w \in Seq(M), NEW R, NEW q \in Seq(R), NEW F, NEW files \in Seq(F),
         NEW n \in Nat, NEW t, NEW h,
         w # <<>>, ~IsData(Head(w)), Matched(files, n, w, q, t, h)
  PROVE  Matched(files, n, Tail(w), q, t, h)
<1>1. PICK f \in [DOMAIN w -> Nat], g \in [DOMAIN q -> Nat] : Pairing(files, n, w, q, t, h, f, g)
  BY DEF Matched
<1> DEFINE v == Tail(w)
           f1 == [i \in DOMAIN v |-> f[i + 1]]
<1>2. /\ 1 \in DOMAIN w /\ ~IsData(w[1]) /\ DOMAIN w \subseteq Nat /\ DOMAIN v \subseteq Nat
      /\ \A i \in DOMAIN v : v[i] = w[i + 1] /\ i + 1 \in DOMAIN w
      /\ \A i \in DOMAIN w : i = 1 \/ i - 1 \in DOMAIN v
  BY TailIs
<1> HIDE DEF v
<1>3. f1 \in [DOMAIN v -> Nat] /\ \A i \in DOMAIN v : f1[i] = f[i + 1]
  BY <1>2
<1> HIDE DEF f1
<1>4. Pairing(files, n, v, q, t, h, f1, g)
  <2>1. \A i \in DataAt(v) : i + 1 \in DataAt(w) /\ f1[i] = f[i + 1] /\ v[i] = w[i + 1]
    BY <1>2, <1>3 DEF DataAt
  <2>2. \A i \in DataAt(w) : i - 1 \in DataAt(v) /\ f1[i - 1] = f[i]
    BY <1>2, <1>3 DEF DataAt
  <2>3. DataAt(v) \subseteq Nat /\ DataAt(w) \subseteq Nat
    BY <1>2 DEF DataAt
  <2>4. \A i \in DataAt(v) : f1[i] \in n + 1 .. Len(files) /\ Fits(h, files[f1[i]], v[i].data)
    BY <1>1, <2>1 DEF Pairing
  <2>5. \A i, k \in DataAt(v) : i < k => f1[i] < f1[k]
    BY <1>1, <2>1, <2>3 DEF Pairing
  <2>6. \A i \in DataAt(v), j \in AskedAt(q, t) : f1[i] < g[j]
    BY <1>1, <2>1 DEF Pairing
  <2>7. \A k \in n + 1 .. Len(files) :
          (\E i \in DataAt(v) : f1[i] = k) \/ (\E j \in AskedAt(q, t) : g[j] = k)
    BY <1>1, <2>2 DEF Pairing
  <2> QED
    BY <1>1, <2>4, <2>5, <2>6, <2>7 DEF Pairing
<1> QED
  BY <1>3, <1>4 DEF Matched, v

\* The first message has contents: those of the first file.
LEMMA DataReceived ==
  ASSUME NEW M, NEW w \in Seq(M), NEW R, NEW q \in Seq(R), NEW F, NEW files \in Seq(F),
         NEW t, NEW h,
         w # <<>>, IsData(Head(w)), Matched(files, 0, w, q, t, h)
  PROVE  /\ files # <<>> /\ Fits(h, files[1], Head(w).data)
         /\ Matched(files, 1, Tail(w), q, t, h)
<1>1. PICK f \in [DOMAIN w -> Nat], g \in [DOMAIN q -> Nat] : Pairing(files, 0, w, q, t, h, f, g)
  BY DEF Matched
<1> DEFINE v == Tail(w)
           f1 == [i \in DOMAIN v |-> f[i + 1]]
<1>2. /\ 1 \in DOMAIN w /\ IsData(w[1]) /\ Head(w) = w[1]
      /\ DOMAIN w \subseteq Nat \ {0} /\ DOMAIN v \subseteq Nat
      /\ \A i \in DOMAIN v : v[i] = w[i + 1] /\ i + 1 \in DOMAIN w /\ i # 0
      /\ \A i \in DOMAIN w : i = 1 \/ i - 1 \in DOMAIN v
  BY TailIs
<1> HIDE DEF v
<1>3. f1 \in [DOMAIN v -> Nat] /\ \A i \in DOMAIN v : f1[i] = f[i + 1]
  BY <1>2
<1> HIDE DEF f1
<1>4. 1 \in DataAt(w) /\ DataAt(w) \subseteq Nat \ {0} /\ Len(files) \in Nat
  BY <1>2 DEF DataAt
<1>5. f[1] = 1 /\ Len(files) >= 1
  <2>1. f[1] \in 1..Len(files)
    BY <1>1, <1>4 DEF Pairing
  <2>2. (\E i \in DataAt(w) : f[i] = 1) \/ (\E j \in AskedAt(q, t) : g[j] = 1)
    <3>1. 1 \in 0 + 1 .. Len(files)
      BY <1>4, <2>1
    <3> QED
      BY <1>1, <3>1 DEF Pairing
  <2>3. \A i \in DataAt(w) : i = 1 \/ f[1] < f[i]
    BY <1>1, <1>4 DEF Pairing
  <2>4. \A j \in AskedAt(q, t) : f[1] < g[j]
    BY <1>1, <1>4 DEF Pairing
  <2>6. CASE \E i \in DataAt(w) : f[i] = 1
    <3>1. PICK i \in DataAt(w) : f[i] = 1
      BY <2>6
    <3>2. i = 1
      BY <2>1, <2>3, <3>1
    <3> QED
      BY <2>1, <3>1, <3>2
  <2>7. CASE \E j \in AskedAt(q, t) : g[j] = 1
    <3>1. PICK j \in AskedAt(q, t) : g[j] = 1
      BY <2>7
    <3> QED
      BY <2>1, <2>4, <3>1
  <2> QED
    BY <1>4, <2>1, <2>2, <2>6, <2>7
<1>6. files # <<>> /\ Fits(h, files[1], Head(w).data)
  BY <1>1, <1>2, <1>4, <1>5 DEF Pairing
<1>7. Pairing(files, 1, v, q, t, h, f1, g)
  <2>1. \A i \in DataAt(v) : i + 1 \in DataAt(w) /\ f1[i] = f[i + 1] /\ v[i] = w[i + 1] /\ i # 0
    BY <1>2, <1>3 DEF DataAt
  <2>2. \A i \in DataAt(w) : i = 1 \/ (i - 1 \in DataAt(v) /\ f1[i - 1] = f[i])
    <3> SUFFICES ASSUME NEW i \in DataAt(w), i # 1
                 PROVE  i - 1 \in DataAt(v) /\ f1[i - 1] = f[i]
      OBVIOUS
    <3>1. i \in DOMAIN w /\ IsData(w[i]) /\ i \in Nat
      BY <1>4 DEF DataAt
    <3>2. i - 1 \in DOMAIN v /\ (i - 1) + 1 = i
      BY <1>2, <3>1
    <3>3. v[i - 1] = w[i] /\ f1[i - 1] = f[i]
      BY <1>2, <1>3, <3>2
    <3> QED
      BY <3>1, <3>2, <3>3 DEF DataAt
  <2>3. DataAt(v) \subseteq Nat /\ \A j \in AskedAt(q, t) : g[j] \in Nat /\ 1 < g[j]
    BY <1>1, <1>2, <1>4, <1>5 DEF Pairing, DataAt, AskedAt
  <2>4. \A i \in DataAt(v) : f1[i] \in 1 + 1 .. Len(files)
    <3>1. \A i \in DataAt(w) : f[i] \in 0 + 1 .. Len(files)
      BY <1>1 DEF Pairing
    <3>2. \A i, k \in DataAt(w) : i < k => f[i] < f[k]
      BY <1>1 DEF Pairing
    <3>3. \A i \in DataAt(v) : i + 1 \in DataAt(w) /\ 1 < i + 1 /\ f1[i] = f[i + 1]
      BY <1>4, <2>1, <2>3
    <3> QED
      BY <1>4, <1>5, <3>1, <3>2, <3>3
  <2>5. \A i \in DataAt(v) : Fits(h, files[f1[i]], v[i].data)
    BY <1>1, <2>1 DEF Pairing
  <2>6. \A i, k \in DataAt(v) : i < k => f1[i] < f1[k]
    BY <1>1, <2>1, <2>3 DEF Pairing
  <2>7. \A i \in DataAt(v), j \in AskedAt(q, t) : f1[i] < g[j]
    BY <1>1, <2>1 DEF Pairing
  <2>8. \A k \in 1 + 1 .. Len(files) :
          (\E i \in DataAt(v) : f1[i] = k) \/ (\E j \in AskedAt(q, t) : g[j] = k)
    <3> SUFFICES ASSUME NEW k \in 1 + 1 .. Len(files)
                 PROVE  (\E i \in DataAt(v) : f1[i] = k) \/ (\E j \in AskedAt(q, t) : g[j] = k)
      OBVIOUS
    <3>1. k \in 0 + 1 .. Len(files) /\ k # 1
      BY <1>4
    <3>2. (\E i \in DataAt(w) : f[i] = k) \/ (\E j \in AskedAt(q, t) : g[j] = k)
      BY <1>1, <3>1 DEF Pairing
    <3> QED
      BY <1>5, <2>2, <3>1, <3>2
  <2>9. \A j \in AskedAt(q, t) : g[j] \in 1 + 1 .. Len(files)
    BY <1>1, <1>4, <2>3 DEF Pairing
  <2> QED
    BY <1>1, <2>4, <2>5, <2>6, <2>7, <2>8, <2>9 DEF Pairing
<1> QED
  BY <1>3, <1>6, <1>7 DEF Matched, v

\* The first file is done with.
LEMMA FileDone ==
  ASSUME NEW M, NEW w \in Seq(M), NEW R, NEW q \in Seq(R), NEW F, NEW files \in Seq(F),
         NEW t, NEW h,
         files # <<>>, Matched(files, 1, w, q, t, h)
  PROVE  Matched(Tail(files), 0, w, q, t, h)
<1>1. PICK f \in [DOMAIN w -> Nat], g \in [DOMAIN q -> Nat] : Pairing(files, 1, w, q, t, h, f, g)
  BY DEF Matched
<1> DEFINE rest == Tail(files)
           f1 == [i \in DOMAIN w |-> IF f[i] = 0 THEN 0 ELSE f[i] - 1]
           g1 == [j \in DOMAIN q |-> IF g[j] = 0 THEN 0 ELSE g[j] - 1]
<1>2. /\ Len(files) \in Nat /\ Len(rest) = Len(files) - 1
      /\ \A i \in 1..Len(files) - 1 : rest[i] = files[i + 1]
  BY TailIs
<1> HIDE DEF rest
<1>3. /\ f1 \in [DOMAIN w -> Nat] /\ \A i \in DOMAIN w : f[i] # 0 => f1[i] = f[i] - 1
      /\ g1 \in [DOMAIN q -> Nat] /\ \A j \in DOMAIN q : g[j] # 0 => g1[j] = g[j] - 1
  OBVIOUS
<1> HIDE DEF f1, g1
<1>4. Pairing(rest, 0, w, q, t, h, f1, g1)
  <2>1. \A i \in DataAt(w) : /\ f[i] \in 2..Len(files) /\ f1[i] = f[i] - 1
                             /\ rest[f1[i]] = files[f[i]]
    BY <1>1, <1>2, <1>3 DEF Pairing, DataAt
  <2>2. \A j \in AskedAt(q, t) : /\ g[j] \in 2..Len(files) /\ g1[j] = g[j] - 1
                                 /\ rest[g1[j]] = files[g[j]]
    BY <1>1, <1>2, <1>3 DEF Pairing, AskedAt
  <2>3. \A k \in 1..Len(rest) :
          (\E i \in DataAt(w) : f1[i] = k) \/ (\E j \in AskedAt(q, t) : g1[j] = k)
    <3> SUFFICES ASSUME NEW k \in 1..Len(rest)
                 PROVE  (\E i \in DataAt(w) : f1[i] = k) \/ (\E j \in AskedAt(q, t) : g1[j] = k)
      OBVIOUS
    <3>1. k + 1 \in 1 + 1 .. Len(files)
      BY <1>2
    <3>2. (\E i \in DataAt(w) : f[i] = k + 1) \/ (\E j \in AskedAt(q, t) : g[j] = k + 1)
      BY <1>1, <3>1 DEF Pairing
    <3>3. CASE \E i \in DataAt(w) : f[i] = k + 1
      <4>1. PICK i \in DataAt(w) : f[i] = k + 1
        BY <3>3
      <4>2. f1[i] = k
        BY <2>1, <4>1
      <4> QED
        BY <4>2
    <3>4. CASE \E j \in AskedAt(q, t) : g[j] = k + 1
      <4>1. PICK j \in AskedAt(q, t) : g[j] = k + 1
        BY <3>4
      <4>2. g1[j] = k
        BY <2>2, <4>1
      <4> QED
        BY <4>2
    <3> QED
      BY <3>2, <3>3, <3>4
  <2>4. \A i \in DataAt(w) : f1[i] \in 0 + 1 .. Len(rest) /\ Fits(h, rest[f1[i]], w[i].data)
    <3>1. \A i \in DataAt(w) : Fits(h, files[f[i]], w[i].data)
      BY <1>1 DEF Pairing
    <3>2. \A i \in DataAt(w) : f1[i] \in 0 + 1 .. Len(rest)
      BY <1>2, <2>1
    <3> QED
      BY <2>1, <3>1, <3>2
  <2>5. \A j \in AskedAt(q, t) : g1[j] \in 0 + 1 .. Len(rest) /\ Wants(h, rest[g1[j]], q[j].wish)
    <3>1. \A j \in AskedAt(q, t) : Wants(h, files[g[j]], q[j].wish)
      BY <1>1 DEF Pairing
    <3>2. \A j \in AskedAt(q, t) : g1[j] \in 0 + 1 .. Len(rest)
      BY <1>2, <2>2
    <3> QED
      BY <2>2, <3>1, <3>2
  <2>6. \A i, k \in DataAt(w) : i < k => f1[i] < f1[k]
    <3> SUFFICES ASSUME NEW i \in DataAt(w), NEW k \in DataAt(w), i < k PROVE f1[i] < f1[k]
      OBVIOUS
    <3>1. f[i] < f[k]
      BY <1>1 DEF Pairing
    <3> QED
      BY <1>2, <2>1, <3>1
  <2>7. \A j, k \in AskedAt(q, t) : j < k => g1[j] < g1[k]
    <3> SUFFICES ASSUME NEW j \in AskedAt(q, t), NEW k \in AskedAt(q, t), j < k
                 PROVE  g1[j] < g1[k]
      OBVIOUS
    <3>1. g[j] < g[k]
      BY <1>1 DEF Pairing
    <3> QED
      BY <1>2, <2>2, <3>1
  <2>8. \A i \in DataAt(w), j \in AskedAt(q, t) : f1[i] < g1[j]
    <3> SUFFICES ASSUME NEW i \in DataAt(w), NEW j \in AskedAt(q, t) PROVE f1[i] < g1[j]
      OBVIOUS
    <3>1. f[i] < g[j]
      BY <1>1 DEF Pairing
    <3>2. f[i] \in 2..Len(files) /\ f1[i] = f[i] - 1 /\ g[j] \in 2..Len(files) /\ g1[j] = g[j] - 1
      BY <2>1, <2>2
    <3> QED
      BY <1>2, <3>1, <3>2
  <2>9. \A k \in 0 + 1 .. Len(rest) :
          (\E i \in DataAt(w) : f1[i] = k) \/ (\E j \in AskedAt(q, t) : g1[j] = k)
    <3>1. 0 + 1 .. Len(rest) = 1..Len(rest)
      OBVIOUS
    <3> QED
      BY <2>3, <3>1
  <2> QED
    BY <2>4, <2>5, <2>6, <2>7, <2>8, <2>9 DEF Pairing
<1> QED
  BY <1>3, <1>4 DEF Matched, rest

\* Messages without contents are sent.
LEMMA OtherSent ==
  ASSUME NEW M, NEW w \in Seq(M), NEW R, NEW q \in Seq(R), NEW F, NEW files \in Seq(F),
         NEW n \in Nat, NEW t, NEW h,
         NEW x \in Seq(M), \A i \in DOMAIN x : ~IsData(x[i]), Matched(files, n, w, q, t, h)
  PROVE  Matched(files, n, w \o x, q, t, h)
<1>1. PICK f \in [DOMAIN w -> Nat], g \in [DOMAIN q -> Nat] : Pairing(files, n, w, q, t, h, f, g)
  BY DEF Matched
<1> DEFINE v == w \o x
           f1 == [i \in DOMAIN v |-> IF i \in DOMAIN w THEN f[i] ELSE 0]
<1>2. /\ \A i \in DOMAIN w : v[i] = w[i] /\ i \in DOMAIN v
      /\ \A i \in DOMAIN v : i \in DOMAIN w \/ ~IsData(v[i])
  BY ConcatIs
<1> HIDE DEF v
<1>3. f1 \in [DOMAIN v -> Nat] /\ \A i \in DOMAIN w : f1[i] = f[i]
  BY <1>2
<1> HIDE DEF f1
<1>4. DataAt(v) = DataAt(w) /\ \A i \in DataAt(w) : f1[i] = f[i] /\ v[i] = w[i]
  BY <1>2, <1>3 DEF DataAt
<1>5. Pairing(files, n, v, q, t, h, f1, g)
  BY <1>1, <1>4 DEF Pairing
<1> QED
  BY <1>3, <1>5 DEF Matched, v

\* Something else is requested, or by another target.
LEMMA OtherRequested ==
  ASSUME NEW M, NEW w \in Seq(M), NEW R, NEW q \in Seq(R), NEW F, NEW files \in Seq(F),
         NEW n \in Nat, NEW t, NEW h,
         NEW x \in R, ~Asks(x, t), Matched(files, n, w, q, t, h)
  PROVE  Matched(files, n, w, Append(q, x), t, h)
<1>1. PICK f \in [DOMAIN w -> Nat], g \in [DOMAIN q -> Nat] : Pairing(files, n, w, q, t, h, f, g)
  BY DEF Matched
<1> DEFINE p == Append(q, x)
           g1 == [j \in DOMAIN p |-> IF j \in DOMAIN q THEN g[j] ELSE 0]
<1>2. /\ \A j \in DOMAIN q : p[j] = q[j] /\ j \in DOMAIN p
      /\ \A j \in DOMAIN p : j \in DOMAIN q \/ ~Asks(p[j], t)
  BY AppendIs
<1> HIDE DEF p
<1>3. g1 \in [DOMAIN p -> Nat] /\ \A j \in DOMAIN q : g1[j] = g[j]
  BY <1>2
<1> HIDE DEF g1
<1>4. AskedAt(p, t) = AskedAt(q, t) /\ \A j \in AskedAt(q, t) : g1[j] = g[j] /\ p[j] = q[j]
  BY <1>2, <1>3 DEF AskedAt
<1>5. Pairing(files, n, w, p, t, h, f, g1)
  BY <1>1, <1>4 DEF Pairing
<1> QED
  BY <1>3, <1>5 DEF Matched, p

\* One more file is asked for.
LEMMA FileRequested ==
  ASSUME NEW M, NEW w \in Seq(M), NEW R, NEW q \in Seq(R), NEW F, NEW files \in Seq(F),
         NEW n \in Nat, NEW t, NEW h,
         NEW x \in R, NEW y \in F, Asks(x, t), Wants(h, y, x.wish), n <= Len(files),
         Matched(files, n, w, q, t, h)
  PROVE  Matched(Append(files, y), n, w, Append(q, x), t, h)
<1>1. PICK f \in [DOMAIN w -> Nat], g \in [DOMAIN q -> Nat] : Pairing(files, n, w, q, t, h, f, g)
  BY DEF Matched
<1> DEFINE p == Append(q, x)
           more == Append(files, y)
           l == Len(q) + 1
           k1 == Len(files) + 1
           g1 == [j \in DOMAIN p |-> IF j \in DOMAIN q THEN g[j] ELSE k1]
<1>2. /\ \A j \in DOMAIN q : p[j] = q[j] /\ j \in DOMAIN p /\ j < l /\ j \in Nat
      /\ \A j \in DOMAIN p : j \in DOMAIN q \/ j = l
      /\ l \in DOMAIN p /\ l \notin DOMAIN q /\ p[l] = x /\ l \in Nat
  BY AppendIs
<1>3. /\ Len(files) \in Nat /\ Len(more) = k1 /\ more[k1] = y
      /\ \A i \in 1..Len(files) : more[i] = files[i]
  BY AppendIs
<1> HIDE DEF p, more, l
<1>4. g1 \in [DOMAIN p -> Nat] /\ g1[l] = k1 /\ \A j \in DOMAIN q : g1[j] = g[j]
  BY <1>2, <1>3
<1> HIDE DEF g1
<1>5. /\ AskedAt(p, t) = AskedAt(q, t) \cup {l} /\ l \notin AskedAt(q, t)
      /\ \A j \in AskedAt(q, t) : g1[j] = g[j] /\ p[j] = q[j] /\ j < l /\ j \in Nat
  BY <1>2, <1>4 DEF AskedAt
<1>6. Pairing(more, n, w, p, t, h, f, g1)
  <2>1. \A i \in DataAt(w) : /\ f[i] \in n + 1 .. Len(more) /\ f[i] < k1 /\ more[f[i]] = files[f[i]]
                             /\ Fits(h, more[f[i]], w[i].data)
    BY <1>1, <1>3 DEF Pairing
  <2>2. \A j \in AskedAt(q, t) : /\ g1[j] \in n + 1 .. Len(more) /\ g1[j] < k1
                                 /\ Wants(h, more[g1[j]], p[j].wish)
    <3>1. \A j \in AskedAt(q, t) :
            g[j] \in n + 1 .. Len(files) /\ Wants(h, files[g[j]], q[j].wish)
      BY <1>1 DEF Pairing
    <3>2. \A j \in AskedAt(q, t) : g1[j] = g[j] /\ p[j] = q[j]
      BY <1>5
    <3>3. \A k \in n + 1 .. Len(files) :
            k \in n + 1 .. Len(more) /\ k < k1 /\ more[k] = files[k]
      BY <1>3
    <3> QED
      BY <3>1, <3>2, <3>3
  <2>3. g1[l] \in n + 1 .. Len(more) /\ Wants(h, more[g1[l]], p[l].wish)
    BY <1>2, <1>3, <1>4
  <2>4. \A j, k \in AskedAt(p, t) : j < k => g1[j] < g1[k]
    <3> SUFFICES ASSUME NEW j \in AskedAt(p, t), NEW k \in AskedAt(p, t), j < k
                 PROVE  g1[j] < g1[k]
      OBVIOUS
    <3>1. j \in AskedAt(q, t)
      BY <1>2, <1>5
    <3>2. CASE k \in AskedAt(q, t)
      BY <1>1, <1>5, <3>1, <3>2 DEF Pairing
    <3>3. CASE k = l
      BY <1>4, <2>2, <3>1, <3>3
    <3> QED
      BY <1>5, <3>2, <3>3
  <2>5. \A i \in DataAt(w), j \in AskedAt(p, t) : f[i] < g1[j]
    BY <1>1, <1>4, <1>5, <2>1 DEF Pairing
  <2>6. \A k \in n + 1 .. Len(more) :
          (\E i \in DataAt(w) : f[i] = k) \/ (\E j \in AskedAt(p, t) : g1[j] = k)
    <3> SUFFICES ASSUME NEW k \in n + 1 .. Len(more)
                 PROVE  (\E i \in DataAt(w) : f[i] = k) \/ (\E j \in AskedAt(p, t) : g1[j] = k)
      OBVIOUS
    <3>1. CASE k = k1
      BY <1>4, <1>5, <3>1
    <3>2. CASE k \in n + 1 .. Len(files)
      BY <1>1, <1>5, <3>2 DEF Pairing
    <3> QED
      BY <1>3, <3>1, <3>2
  <2> QED
    BY <1>5, <2>1, <2>2, <2>3, <2>4, <2>5, <2>6, <1>1 DEF Pairing
<1> QED
  BY <1>4, <1>6 DEF Matched, p, more

\* The first request is none for a file, or one of another target.
LEMMA OtherTaken ==
  ASSUME NEW M, NEW w \in Seq(M), NEW R, NEW q \in Seq(R), NEW F, NEW files \in Seq(F),
         NEW n \in Nat, NEW t, NEW h,
         q # <<>>, ~Asks(Head(q), t), Matched(files, n, w, q, t, h)
  PROVE  Matched(files, n, w, Tail(q), t, h)
<1>1. PICK f \in [DOMAIN w -> Nat], g \in [DOMAIN q -> Nat] : Pairing(files, n, w, q, t, h, f, g)
  BY DEF Matched
<1> DEFINE p == Tail(q)
           g1 == [j \in DOMAIN p |-> g[j + 1]]
<1>2. /\ 1 \in DOMAIN q /\ ~Asks(q[1], t) /\ DOMAIN q \subseteq Nat /\ DOMAIN p \subseteq Nat
      /\ \A j \in DOMAIN p : p[j] = q[j + 1] /\ j + 1 \in DOMAIN q
      /\ \A j \in DOMAIN q : j = 1 \/ j - 1 \in DOMAIN p
  BY TailIs
<1> HIDE DEF p
<1>3. g1 \in [DOMAIN p -> Nat] /\ \A j \in DOMAIN p : g1[j] = g[j + 1]
  BY <1>2
<1> HIDE DEF g1
<1>4. Pairing(files, n, w, p, t, h, f, g1)
  <2>1. \A j \in AskedAt(p, t) : j + 1 \in AskedAt(q, t) /\ g1[j] = g[j + 1] /\ p[j] = q[j + 1]
    BY <1>2, <1>3 DEF AskedAt
  <2>2. \A j \in AskedAt(q, t) : j - 1 \in AskedAt(p, t) /\ g1[j - 1] = g[j]
    BY <1>2, <1>3 DEF AskedAt
  <2>3. AskedAt(p, t) \subseteq Nat /\ AskedAt(q, t) \subseteq Nat
    BY <1>2 DEF AskedAt
  <2>4. \A j \in AskedAt(p, t) : g1[j] \in n + 1 .. Len(files) /\ Wants(h, files[g1[j]], p[j].wish)
    BY <1>1, <2>1 DEF Pairing
  <2>5. \A j, k \in AskedAt(p, t) : j < k => g1[j] < g1[k]
    BY <1>1, <2>1, <2>3 DEF Pairing
  <2>6. \A i \in DataAt(w), j \in AskedAt(p, t) : f[i] < g1[j]
    BY <1>1, <2>1 DEF Pairing
  <2>7. \A k \in n + 1 .. Len(files) :
          (\E i \in DataAt(w) : f[i] = k) \/ (\E j \in AskedAt(p, t) : g1[j] = k)
    BY <1>1, <2>2 DEF Pairing
  <2> QED
    BY <1>1, <2>4, <2>5, <2>6, <2>7 DEF Pairing
<1> QED
  BY <1>3, <1>4 DEF Matched, p

\* The first request is for a file, and its contents are sent.
LEMMA FileSent ==
  ASSUME NEW M, NEW w \in Seq(M), NEW R, NEW q \in Seq(R), NEW F, NEW files \in Seq(F),
         NEW n \in Nat, NEW t, NEW h,
         q # <<>>, Asks(Head(q), t), NEW x \in M, IsData(x),
         \A y \in F : Wants(h, y, Head(q).wish) => Fits(h, y, x.data), Matched(files, n, w, q, t, h)
  PROVE  Matched(files, n, Append(w, x), Tail(q), t, h)
<1>1. PICK f \in [DOMAIN w -> Nat], g \in [DOMAIN q -> Nat] : Pairing(files, n, w, q, t, h, f, g)
  BY DEF Matched
<1> DEFINE p == Tail(q)
           v == Append(w, x)
           l == Len(w) + 1
           f1 == [i \in DOMAIN v |-> IF i \in DOMAIN w THEN f[i] ELSE g[1]]
           g1 == [j \in DOMAIN p |-> g[j + 1]]
<1>2. /\ 1 \in DOMAIN q /\ Asks(q[1], t) /\ Head(q) = q[1]
      /\ DOMAIN q \subseteq Nat \ {0} /\ DOMAIN p \subseteq Nat \ {0}
      /\ \A j \in DOMAIN p : p[j] = q[j + 1] /\ j + 1 \in DOMAIN q
      /\ \A j \in DOMAIN q : j = 1 \/ j - 1 \in DOMAIN p
  BY TailIs
<1>3. /\ \A i \in DOMAIN w : v[i] = w[i] /\ i \in DOMAIN v /\ i < l /\ i \in Nat
      /\ \A i \in DOMAIN v : i \in DOMAIN w \/ i = l
      /\ l \in DOMAIN v /\ l \notin DOMAIN w /\ v[l] = x /\ l \in Nat
  BY AppendIs
<1> HIDE DEF p, v, l
<1>4. g1 \in [DOMAIN p -> Nat] /\ \A j \in DOMAIN p : g1[j] = g[j + 1]
  BY <1>2
<1>5. f1 \in [DOMAIN v -> Nat] /\ f1[l] = g[1] /\ \A i \in DOMAIN w : f1[i] = f[i]
  BY <1>2, <1>3
<1> HIDE DEF f1, g1
<1>6. 1 \in AskedAt(q, t)
  BY <1>2 DEF AskedAt
<1>7. /\ \A j \in AskedAt(p, t) : /\ j + 1 \in AskedAt(q, t) /\ g1[j] = g[j + 1] /\ p[j] = q[j + 1]
                                  /\ 1 < j + 1
      /\ \A j \in AskedAt(q, t) : j = 1 \/ (j - 1 \in AskedAt(p, t) /\ g1[j - 1] = g[j])
      /\ AskedAt(p, t) \subseteq Nat
  BY <1>2, <1>4 DEF AskedAt
<1>8. /\ DataAt(v) = DataAt(w) \cup {l} /\ l \notin DataAt(w)
      /\ \A i \in DataAt(w) : f1[i] = f[i] /\ v[i] = w[i] /\ i < l /\ i \in Nat
  BY <1>3, <1>5 DEF DataAt
<1>9. Pairing(files, n, v, p, t, h, f1, g1)
  <2>1. f1[l] \in n + 1 .. Len(files) /\ Fits(h, files[f1[l]], v[l].data)
    BY <1>1, <1>2, <1>3, <1>5, <1>6 DEF Pairing
  <2>2. \A i \in DataAt(v) : f1[i] \in n + 1 .. Len(files) /\ Fits(h, files[f1[i]], v[i].data)
    BY <1>1, <1>8, <2>1 DEF Pairing
  <2>3. \A i, k \in DataAt(v) : i < k => f1[i] < f1[k]
    <3> SUFFICES ASSUME NEW i \in DataAt(v), NEW k \in DataAt(v), i < k
                 PROVE  f1[i] < f1[k]
      OBVIOUS
    <3>1. i \in DataAt(w)
      BY <1>3, <1>8
    <3>2. CASE k \in DataAt(w)
      BY <1>1, <1>8, <3>1, <3>2 DEF Pairing
    <3>3. CASE k = l
      BY <1>1, <1>5, <1>6, <1>8, <3>1, <3>3 DEF Pairing
    <3> QED
      BY <1>8, <3>2, <3>3
  <2>4. \A i \in DataAt(v), j \in AskedAt(p, t) : f1[i] < g1[j]
    <3> SUFFICES ASSUME NEW i \in DataAt(v), NEW j \in AskedAt(p, t)
                 PROVE  f1[i] < g1[j]
      OBVIOUS
    <3>1. g[1] < g[j + 1]
      BY <1>1, <1>6, <1>7 DEF Pairing
    <3> QED
      BY <1>1, <1>5, <1>7, <1>8, <3>1 DEF Pairing
  <2>5. \A j, k \in AskedAt(p, t) : j < k => g1[j] < g1[k]
    BY <1>1, <1>7 DEF Pairing
  <2>6. \A k \in n + 1 .. Len(files) :
          (\E i \in DataAt(v) : f1[i] = k) \/ (\E j \in AskedAt(p, t) : g1[j] = k)
    <3> SUFFICES ASSUME NEW k \in n + 1 .. Len(files)
                 PROVE  (\E i \in DataAt(v) : f1[i] = k) \/ (\E j \in AskedAt(p, t) : g1[j] = k)
      OBVIOUS
    <3>1. CASE \E i \in DataAt(w) : f[i] = k
      BY <1>8, <3>1
    <3>2. CASE \E j \in AskedAt(q, t) : g[j] = k
      <4>1. PICK j \in AskedAt(q, t) : g[j] = k
        BY <3>2
      <4>2. CASE j = 1
        <5>1. l \in DataAt(v)
          BY <1>8
        <5> QED
          BY <1>5, <4>1, <4>2, <5>1
      <4>3. CASE j # 1
        <5>1. j - 1 \in AskedAt(p, t) /\ g1[j - 1] = k
          BY <1>7, <4>1, <4>3
        <5> QED
          BY <5>1
      <4> QED
        BY <4>2, <4>3
    <3> QED
      BY <1>1, <3>1, <3>2 DEF Pairing
  <2>7. \A j \in AskedAt(p, t) : g1[j] \in n + 1 .. Len(files) /\ Wants(h, files[g1[j]], p[j].wish)
    <3>1. \A j \in AskedAt(q, t) :
            g[j] \in n + 1 .. Len(files) /\ Wants(h, files[g[j]], q[j].wish)
      BY <1>1 DEF Pairing
    <3> SUFFICES ASSUME NEW j \in AskedAt(p, t)
                 PROVE  g1[j] \in n + 1 .. Len(files) /\ Wants(h, files[g1[j]], p[j].wish)
      OBVIOUS
    <3>2. j + 1 \in AskedAt(q, t) /\ g1[j] = g[j + 1] /\ p[j] = q[j + 1]
      BY <1>7
    <3>3. g[j + 1] \in n + 1 .. Len(files) /\ Wants(h, files[g[j + 1]], q[j + 1].wish)
      BY <3>1, <3>2
    <3> QED
      BY <3>2, <3>3
  <2> QED
    BY <2>2, <2>3, <2>4, <2>5, <2>6, <2>7 DEF Pairing
<1> QED
  BY <1>4, <1>5, <1>9 DEF Matched, v, p

\* What fits and what is wanted may be judged by another view, for other files in their places.
LEMMA MatchedKept ==
  ASSUME NEW w, NEW q, NEW files, NEW n \in Nat, NEW t, NEW h, NEW m, NEW k,
         Len(m) = Len(files), Len(files) \in Nat,
         \A i \in n + 1 .. Len(files) :
           /\ \A d : Fits(h, files[i], d) => Fits(k, m[i], d)
           /\ \A wish : Wants(h, files[i], wish) => Wants(k, m[i], wish),
         Matched(files, n, w, q, t, h)
  PROVE  Matched(m, n, w, q, t, k)
<1>1. PICK f \in [DOMAIN w -> Nat], g \in [DOMAIN q -> Nat] : Pairing(files, n, w, q, t, h, f, g)
  BY DEF Matched
<1>2. \A i \in DataAt(w) : f[i] \in n + 1 .. Len(files) /\ Fits(k, m[f[i]], w[i].data)
  BY <1>1 DEF Pairing
<1>3. \A j \in AskedAt(q, t) : g[j] \in n + 1 .. Len(files) /\ Wants(k, m[g[j]], q[j].wish)
  BY <1>1 DEF Pairing
<1>4. Pairing(m, n, w, q, t, k, f, g)
  BY <1>1, <1>2, <1>3 DEF Pairing
<1> QED
  BY <1>4 DEF Matched

\* When there is nothing left to do, nothing is under way.
LEMMA NothingMatched ==
  ASSUME NEW w, NEW q, NEW t, NEW h, Matched(<<>>, 0, w, q, t, h)
  PROVE  DataAt(w) = {} /\ AskedAt(q, t) = {}
BY DEF Matched, Pairing

\* And the other way round.
LEMMA MatchedEmpty ==
  ASSUME NEW w, NEW q, NEW t, NEW h, DataAt(w) = {}, AskedAt(q, t) = {}
  PROVE  Matched(<<>>, 0, w, q, t, h)
<1> DEFINE f == [i \in DOMAIN w |-> 0]
           g == [j \in DOMAIN q |-> 0]
<1>1. f \in [DOMAIN w -> Nat] /\ g \in [DOMAIN q -> Nat]
  OBVIOUS
<1>2. Pairing(<<>>, 0, w, q, t, h, f, g)
  BY DEF Pairing
<1> QED
  BY <1>1, <1>2 DEF Matched
-----------------------------------------------------------------------------
(* Types.                                                                  *)

\* A finite set of paths can be listed.
LEMMA Listing ==
  ASSUME NEW S \in SUBSET Path
  PROVE  /\ SetToSeq(S) \in Seq(Path)
         /\ IsInjective(SetToSeq(S)) /\ ToSet(SetToSeq(S)) = S
<1> DEFINE n == Cardinality(S)
           s == SetToSeq(S)
<1>1. IsFiniteSet(S)
  BY RSyncAssumption, FS_Subset
<1>2. PICK f : n \in Nat /\ f \in Bijection(1..n, S)
  BY <1>1, FS_CardinalityType DEF ExistsBijection
<1>3. f \in [1..n -> S] /\ IsInjective(f)
  BY <1>2 DEF Bijection, Injection, IsInjective
<1>4. s \in [1..n -> S] /\ IsInjective(s)
  BY <1>3 DEF SetToSeq
<1>5. IsFiniteSet(1..n) /\ Cardinality(1..n) = n
  <2>1. Cardinality(1..n) = IF 1 > n THEN 0 ELSE n - 1 + 1
    BY <1>2, FS_Interval
  <2> QED
    BY <1>2, <2>1, FS_Interval
<1>6. s \in Surjection(1..n, S)
  <2>1. s \in Injection(1..n, S)
    BY <1>4 DEF Injection
  <2> HIDE DEF s
  <2>2. Cardinality(1..n) = Cardinality(S) <=> s \in Surjection(1..n, S)
    BY <1>1, <2>1, FS_Injection
  <2> QED
    BY <1>5, <2>2
<1>7. ToSet(s) = S
  <2> HIDE DEF s
  <2> QED
    BY <1>4, <1>6 DEF ToSet, Surjection
<1> QED
  BY <1>2, <1>4, <1>7

\* remove() leaves a tree.
LEMMA TreeKept ==
  ASSUME NEW tree \in [Path -> Entry], NEW P, NEW p \in Path, NEW e \in Entry
  PROVE  /\ Without(tree, P) \in [Path -> Entry]
         /\ With(tree, p, e) \in [Path -> Entry]
         /\ \A q \in Path : Without(tree, P)[q] \in {Absent, tree[q]}
         /\ \A q \in Path : With(tree, p, e)[q] \in {Absent, e, tree[q]}
         /\ With(tree, p, e)[p] = e
<1>1. Absent \in Entry
  BY DEF Entry
<1>2. \A Q : Without(tree, Q) \in [Path -> Entry]
  BY <1>1 DEF Without
<1>3. \A Q : \A q \in Path : Without(tree, Q)[q] \in {Absent, tree[q]}
  BY DEF Without
<1> QED
  BY <1>2, <1>3 DEF With

\* What send() puts on the wires.
LEMMA Sent ==
  ASSUME TypeOK, NEW T \in SUBSET Target, NEW msgs \in Seq(Message), NEW next,
         SendAll(T, msgs, next)
  PROVE  /\ wire' \in [Target -> Seq(Message)]
         /\ pc' \in {next, "failed"}
         /\ \A t \in Target : wire'[t] = wire[t] \/ (t \in T /\ wire'[t] = wire[t] \o msgs)
         /\ (\A t \in T : ~Closed(t)) => \A t \in T : wire'[t] = wire[t] \o msgs
<1>1. \A t \in Target : wire[t] \in Seq(Message) /\ wire[t] \o msgs \in Seq(Message)
  BY DEF TypeOK
<1> QED
  BY <1>1 DEF SendAll, TypeOK

\* One message.
LEMMA SentOne ==
  ASSUME TypeOK, NEW T \in SUBSET Target, NEW msg \in Message, NEW next,
         SendAll(T, <<msg>>, next)
  PROVE  wire' \in [Target -> Seq(Message)] /\ pc' \in {next, "failed"}
<1>1. <<msg>> \in Seq(Message)
  OBVIOUS
<1> QED
  BY <1>1, Sent

\* What a target asks for.
LEMMA Asked ==
  ASSUME TypeOK, NEW t \in Target, NEW wish \in Wish, Request(t, wish)
  PROVE  queue' \in Seq(Requests)
<1>1. [target |-> t, serial |-> serial[t], wish |-> wish] \in Requests
  BY DEF TypeOK, Requests
<1>2. queue \in Seq(Requests)
  BY DEF TypeOK
<1> QED
  BY <1>1, <1>2 DEF Request

\* What the sender gets from the queue.
LEMMA Got ==
  ASSUME TypeOK, queue # <<>>
  PROVE  /\ Tail(queue) \in Seq(Requests)
         /\ Head(queue) \in Requests
         /\ From \in Target /\ Head(queue).wish \in Wish
<1>1. queue \in Seq(Requests)
  BY DEF TypeOK
<1>2. /\ Tail(queue) \in Seq(Requests)
      /\ Head(queue) \in Requests
  BY <1>1, TailIs
<1> QED
  BY <1>2 DEF From, Requests

\* The files of a target.
LEMMA ModifiedAre ==
  ASSUME TypeOK, NEW t \in Target
  PROVE  /\ modified[t] \in Seq(Files) /\ Len(modified[t]) \in Nat
         /\ \A i \in 1..Len(modified[t]) : modified[t][i] \in Files /\ modified[t][i].path \in Path
         /\ modified[t] # <<>> => modified[t][1] \in Files /\ modified[t][1].path \in Path
<1>1. modified[t] \in Seq(Files)
  BY DEF TypeOK
<1>2. /\ Len(modified[t]) \in Nat /\ modified[t] # <<>> => 1 \in 1..Len(modified[t])
      /\ \A i \in 1..Len(modified[t]) : modified[t][i] \in Files
  BY <1>1
<1> QED
  BY <1>1, <1>2 DEF Files

\* What a target receives.
LEMMA Received ==
  ASSUME TypeOK, NEW t \in Target, NEW type, Receive(t, type)
  PROVE  /\ wire' \in [Target -> Seq(Message)] /\ wire[t] # <<>>
         /\ Head(wire[t]) \in Message /\ Head(wire[t]).type = type
         /\ wire' = [wire EXCEPT ![t] = Tail(@)]
<1>1. wire[t] \in Seq(Message) /\ wire[t] # <<>>
  BY DEF TypeOK, Receive
<1>2. Head(wire[t]) \in Message /\ Tail(wire[t]) \in Seq(Message)
  BY <1>1
<1> QED
  BY <1>1, <1>2 DEF TypeOK, Receive

\* The messages that have more than a type.
LEMMA Messages ==
  ASSUME NEW m \in Message
  PROVE  /\ m.type = "dir" => m.names \in Seq(Path)
         /\ m.type = "file" => m.size \in 0..2 /\ m.mtime \in 0..Now
         /\ m.type = "data" => m.data \in Data \cup {Partial, None}
         /\ m.type = "to" => m.path \in Path /\ m.to \in Point
BY DEF Message

LEMMA Wishes ==
  ASSUME NEW w \in Wish, w.type = "send"
  PROVE  w.path \in Path /\ w.checksum \in Data \cup {Partial, None}
BY DEF Wish

LEMMA Entries ==
  ASSUME NEW e \in Entry
  PROVE  /\ e.type = "file" => e.data \in Data \cup {Partial} /\ e.mtime \in 0..Now
         /\ e.type = "link" => e.to \in Text
         /\ e.type = "absent" => e = Absent
BY DEF Entry, Absent, Dir, Other

\* What ReceiveFile(t) asks for and remembers.
LEMMA FileAsked ==
  ASSUME TypeOK, NEW t \in Target, stack[t] # <<>>, Receive(t, "file")
  PROVE  LET p == Top(t).path
             e == dest[t][p]
             msg == Head(wire[t])
         IN  /\ [type |-> "send", path |-> p,
                 checksum |-> IF SameSize(e, msg) THEN e.data ELSE None] \in Wish
             /\ [path |-> p, mtime |-> msg.mtime, data |-> None] \in Files
<1> DEFINE p == Top(t).path
           e == dest[t][p]
           msg == Head(wire[t])
<1>1. p \in Path
  <2>1. stack[t] \in Seq(Visits)
    BY DEF TypeOK
  <2>2. stack[t][1] \in Visits
    BY <2>1
  <2> QED
    BY <2>2 DEF Top, Visits
<1>2. e \in Entry
  BY <1>1 DEF TypeOK
<1>3. msg.mtime \in 0..Now
  BY Received, Messages
<1> HIDE DEF p, e, msg
<1>4. SameSize(e, msg) => e.data \in Data \cup {Partial}
  BY <1>2, Entries DEF SameSize
<1>5. [type |-> "send", path |-> p,
       checksum |-> IF SameSize(e, msg) THEN e.data ELSE None] \in Wish
  BY <1>1, <1>4 DEF Wish
<1>6. [path |-> p, mtime |-> msg.mtime, data |-> None] \in Files
  BY <1>1, <1>3 DEF Files
<1> QED
  BY <1>5, <1>6 DEF p, e, msg

\* What becomes of links on their way.
LEMMA Points ==
  /\ \A l \in Link : l \in Text /\ l.base # "target"
  /\ \A l \in Text : PointOf(l) \in Point
  /\ \A x \in Point : Joined(x) \in Text /\ LinkTo(Joined(x)) \in Entry
<1>1. \A l \in Link : l \in Text /\ l.base # "target"
  BY RSyncAssumption
<1>2. ASSUME NEW l \in Text PROVE PointOf(l) \in Point
  <2>1. l.at \in Seq(Name) /\ \A c \in Cwd : c \in Seq(Name)
    BY RSyncAssumption DEF Text
  <2>2. Relpath(l) \subseteq Seq(Name)
    <3>1. <<>> \o l.at \in Seq(Name) /\ \A c \in Cwd : c \o l.at \in Seq(Name)
      BY <2>1
    <3> QED BY <3>1 DEF Relpath
  <2>3. CASE Relpath(l) = {}
    BY <2>3 DEF PointOf, Point
  <2>4. CASE Relpath(l) # {}
    <3> DEFINE q == CHOOSE q \in Relpath(l) : TRUE
    <3>1. q \in Seq(Name)
      BY <2>2, <2>4
    <3> HIDE DEF q
    <3>2. [base |-> "relative", at |-> q] \in Text
      BY <3>1 DEF Text
    <3> QED BY <2>4, <3>2 DEF PointOf, Point, q
  <2> QED BY <2>3, <2>4
<1>3. ASSUME NEW x \in Point PROVE Joined(x) \in Text
  BY DEF Point, Joined, Text
<1>4. \A l \in Text : LinkTo(l) \in Entry
  BY DEF LinkTo, Entry
<1> QED BY <1>1, <1>2, <1>3, <1>4

LEMMA InitTypes == Init => TypeOK
<1> SUFFICES ASSUME Init PROVE TypeOK
  OBVIOUS
<1>1. MaxChange \in Nat /\ Targets \in Nat \ {0} /\ Data \subseteq 0..2 /\ <<>> \in Path
  BY RSyncAssumption
<1>2. \A p \in Path : Things(p, 1) \subseteq Entry
  BY <1>1, Points DEF Things, Entry, Absent, Dir, Other, File, LinkTo, Now
<1>3. source \in [Path -> Entry]
  BY <1>2 DEF Init, Trees
<1>4. had \in [Path -> SUBSET Entry]
  BY <1>3 DEF Init
<1>5. dest \in [Target -> [Path -> Entry]]
  BY DEF Init, Entry, Absent, Dir
<1>6. current \in Target /\ clock \in 1..MaxChange + 1
  BY <1>1 DEF Init, Target
<1> QED
  BY <1>1, <1>3, <1>4, <1>5, <1>6 DEF Init, TypeOK

\* The user.
LEMMA UserTypes ==
  ASSUME TypeOK,
         \/ \E t \in Target, d \in BOOLEAN : AddTarget(t, d)
         \/ SendBegins \/ StartOver
         \/ \E p \in Path : \E e \in Things(p, clock + 1) : Change(p, e)
  PROVE  TypeOK'
<1>0. <<>> \in Path /\ MaxChange \in Nat /\ Data \subseteq 0..2
  BY RSyncAssumption
<1>1. ASSUME NEW t \in Target, NEW d \in BOOLEAN, AddTarget(t, d) PROVE TypeOK'
  <2>1. <<Visit(<<>>)>> \in Seq(Visits)
    BY <1>0 DEF Visit, Visits
  <2>2. stack' \in [Target -> Seq(Visits)]
    BY <1>1, <2>1 DEF TypeOK, AddTarget
  <2>3. task' \in [Target -> {"none", "tree", "files", "write", "utime", "links", "done",
                              "failed", "closed", "error"}]
    BY <1>1 DEF TypeOK, AddTarget
  <2>4. serial' \in [Target -> Nat]
    BY <1>1 DEF TypeOK, AddTarget
  <2>5. delete' \in [Target -> BOOLEAN] /\ channels' \in SUBSET Target
    BY <1>1 DEF TypeOK, AddTarget
  <2> QED
    BY <1>1, <2>2, <2>3, <2>4, <2>5 DEF TypeOK, AddTarget, sourcevars
<1>2. CASE SendBegins
  <2>1. walk' \in Seq(Path)
    BY <1>0, <1>2 DEF SendBegins
  <2> QED
    BY <1>2, <2>1 DEF TypeOK, SendBegins, sourcevars, fixed, remote
<1>3. CASE StartOver
  BY <1>3 DEF TypeOK, StartOver, sourcevars, fixed
<1>4. ASSUME NEW p \in Path, NEW e \in Things(p, clock + 1), Change(p, e) PROVE TypeOK'
  <2>1. clock' = clock + 1 /\ clock' \in 1..MaxChange + 1
    BY <1>0, <1>4 DEF TypeOK, Change, Bounded
  <2>2. e \in Entry
    BY <1>0, <2>1, Points DEF Things, Entry, Absent, Dir, Other, File, LinkTo, Now
  <2>3. source' \in [Path -> Entry]
    BY <1>4, <2>2, TreeKept DEF TypeOK, Change
  <2>4. had' \in [Path -> SUBSET Entry]
    BY <1>4, <2>3 DEF TypeOK, Change
  <2> QED
    BY <1>4, <2>1, <2>3, <2>4 DEF TypeOK, Change, fixed, remote
<1> QED
  BY <1>1, <1>2, <1>3, <1>4

\* The description of a file.
LEMMA FileMessage ==
  ASSUME NEW e \in Entry, e.type \in {"file", "absent"}
  PROVE  (IF e = Absent
          THEN [type |-> "file", size |-> 0, mtime |-> 0]
          ELSE [type |-> "file", size |-> Size(e.data), mtime |-> e.mtime]) \in Message
<1>1. Data \subseteq 0..2 /\ 0 \in 0..Now
  BY RSyncAssumption DEF Now
<1>2. e # Absent => e.data \in 0..3 /\ e.mtime \in 0..Now
  <2>1. e # Absent => e.data \in Data \cup {3} /\ e.mtime \in 0..Now
    BY Entries DEF Partial
  <2>2. Data \cup {3} \subseteq 0..3
    BY <1>1
  <2> QED
    BY <2>1, <2>2
<1>3. e # Absent => Size(e.data) \in 0..2
  BY <1>2 DEF Size
<1> QED
  BY <1>1, <1>2, <1>3 DEF Message

\* Links are sent without contents.
LEMMA LinkMessagesType ==
  ASSUME TypeOK
  PROVE  LinkMessages \in Seq(Message) /\ \A i \in DOMAIN LinkMessages : ~IsData(LinkMessages[i])
<1>1. links \in Seq([path : Path, to : Point])
  BY DEF TypeOK
<1>2. \A i \in DOMAIN links :
        LET m == [type |-> "to", path |-> links[i].path, to |-> links[i].to]
        IN  m \in Message /\ ~IsData(m)
  <2> SUFFICES ASSUME NEW i \in DOMAIN links
               PROVE  LET m == [type |-> "to", path |-> links[i].path, to |-> links[i].to]
                      IN  m \in Message /\ ~IsData(m)
    OBVIOUS
  <2>1. links[i] \in [path : Path, to : Point]
    <3> DEFINE L == [path : Path, to : Point]
    <3>1. links \in Seq(L)
      BY <1>1
    <3> HIDE DEF L
    <3>2. links[i] \in L
      BY <3>1
    <3> QED
      BY <3>2 DEF L
  <2> QED
    BY <2>1 DEF Message, IsData
<1> QED
  BY <1>1, <1>2 DEF LinkMessages

\* send().
LEMMA SenderTypes ==
  ASSUME TypeOK, Sender
  PROVE  TypeOK'
<1>1. CASE SendDirectoryStructure
  <2> DEFINE p == Head(walk)
  <2>1. p \in Path /\ Tail(walk) \in Seq(Path) /\ source[p] \in Entry
    <3>1. walk \in Seq(Path) /\ walk # <<>>
      BY <1>1 DEF TypeOK, SendDirectoryStructure
    <3> QED
      BY <3>1, TailIs DEF TypeOK
  <2> HIDE DEF p
  <2>2. /\ wire' \in [Target -> Seq(Message)] /\ pc' \in {"walk", "failed"}
        /\ walk' \in Seq(Path) /\ links' \in Seq([path : Path, to : Point])
    <3>0. channels \in SUBSET Target
      BY DEF TypeOK
    <3>1. CASE SendDirectory(p)
      <4> DEFINE names == SetToSeq({q \in Children(p) : source[q] # Absent})
                 msg == [type |-> "dir", names |-> names]
      <4>1. names \in Seq(Path)
        BY Listing DEF Children, Below
      <4>2. SendAll(channels, <<msg>>, "walk") /\ walk' = names \o Tail(walk) /\ UNCHANGED links
        BY <3>1 DEF SendDirectory
      <4> HIDE DEF names
      <4>3. msg \in Message
        BY <4>1 DEF Message
      <4> HIDE DEF msg
      <4>4. wire' \in [Target -> Seq(Message)] /\ pc' \in {"walk", "failed"}
        BY <3>0, <4>2, <4>3, SentOne
      <4>5. walk' \in Seq(Path)
        BY <2>1, <4>1, <4>2
      <4> QED
        BY <4>2, <4>4, <4>5 DEF TypeOK
    <3>2. CASE SendLinkStructure(p)
      <4>1. [type |-> "link"] \in Message
        BY DEF Message
      <4>2. PointOf(source[p].to) \in Point
        BY <2>1, <3>2, Entries, Points DEF SendLinkStructure
      <4>3. links' \in Seq([path : Path, to : Point])
        BY <2>1, <3>2, <4>2 DEF SendLinkStructure, TypeOK
      <4>4. SendAll(channels, <<[type |-> "link"]>>, "walk") /\ walk' = Tail(walk)
        BY <3>2 DEF SendLinkStructure
      <4> QED
        BY <2>1, <3>0, <4>1, <4>3, <4>4, SentOne
    <3>3. CASE SendFile(p)
      <4> DEFINE msg == IF source[p] = Absent
                        THEN [type |-> "file", size |-> 0, mtime |-> 0]
                        ELSE [type |-> "file", size |-> Size(source[p].data),
                              mtime |-> source[p].mtime]
      <4>1. SendAll(channels, <<msg>>, "walk") /\ walk' = Tail(walk) /\ UNCHANGED links
        BY <3>3 DEF SendFile, p
      <4>3. msg \in Message
        BY <2>1, <3>3, FileMessage DEF SendFile
      <4> HIDE DEF msg
      <4> QED
        BY <2>1, <3>0, <4>1, <4>3, SentOne DEF TypeOK
    <3>4. CASE SendRaises(p)
      BY <3>4 DEF SendRaises, TypeOK
    <3> QED
      BY <1>1, <3>1, <3>2, <3>3, <3>4 DEF SendDirectoryStructure, p
  <2> QED
    BY <1>1, <2>2 DEF TypeOK, SendDirectoryStructure, sourcevars, fixed, remote
<1>2. CASE WalkEnds
  BY <1>2 DEF TypeOK, WalkEnds, sourcevars, fixed, remote
<1>3. CASE LoopEnds
  BY <1>3 DEF TypeOK, LoopEnds, sourcevars, fixed, remote
<1>4. CASE WaitClose
  BY <1>4 DEF TypeOK, WaitClose, sourcevars, fixed, remote
<1>5. ASSUME NEW type, Get(type),
             /\ wire' \in [Target -> Seq(Message)]
             /\ pc' \in {"idle", "walk", "loop", "closing", "failed"}
             /\ channels' \in SUBSET Target /\ current' \in Target /\ to_send' \in SUBSET Target
             /\ unread' \subseteq Path \X (0..Now)
      PROVE  TypeOK'
  <2>1. queue' \in Seq(Requests)
    BY <1>5, Got DEF Get
  <2> QED
    BY <1>5, <2>1 DEF TypeOK, Get, sourcevars, fixed, remote
<1>6. CASE EndOfChannel
  BY <1>5, <1>6 DEF TypeOK, EndOfChannel
<1>7. CASE Ack
  BY <1>5, <1>7 DEF TypeOK, Ack
<1>8. CASE ListDone
  BY <1>5, <1>8 DEF TypeOK, ListDone
<1>9. CASE Done
  <2>1. From \in Target
    BY <1>9, Got DEF Done, Get
  <2> QED
    BY <1>5, <1>9, <2>1 DEF TypeOK, Done
<1>10. CASE ProcessLink
  <2>1. From \in Target
    BY <1>10, Got DEF ProcessLink, Get
  <2>2. LinkMessages \o <<[type |-> "end"]>> \in Seq(Message)
    <3>1. LinkMessages \in Seq(Message)
      BY LinkMessagesType
    <3>2. [type |-> "end"] \in Message
      BY DEF Message
    <3> QED
      BY <3>1, <3>2
  <2> DEFINE msgs == LinkMessages \o <<[type |-> "end"]>>
  <2>3. SendAll({From}, msgs, "loop")
    BY <1>10 DEF ProcessLink
  <2> HIDE DEF msgs
  <2>4. wire' \in [Target -> Seq(Message)] /\ pc' \in {"loop", "failed"}
    BY <2>1, <2>2, <2>3, Sent DEF msgs
  <2> QED
    BY <1>5, <1>10, <2>4 DEF TypeOK, ProcessLink
<1>11. CASE SendItem
  <2> DEFINE path == Head(queue).wish.path
  <2>1. From \in Target /\ path \in Path
    BY <1>11, Got, Wishes DEF SendItem, Get
  <2>6. PICK data \in Read(path) :
          /\ unread' = unread \cup Missed(path, data)
          /\ SendAll({From}, <<[type |-> "data",
                 data |-> IF data = Head(queue).wish.checksum THEN None ELSE data]>>, "loop")
    BY <1>11 DEF SendItem
  <2> DEFINE msg == [type |-> "data",
                     data |-> IF data = Head(queue).wish.checksum THEN None ELSE data]
  <2>2. data \in Data \cup {Partial, None}
    BY <2>1, <2>6, Entries DEF Read, TypeOK
  <2>3. SendAll({From}, <<msg>>, "loop")
    BY <2>6
  <2>7. unread' \subseteq Path \X (0..Now)
    <3>1. source[path].type = "file" => source[path].mtime \in 0..Now
      BY <2>1, Entries DEF TypeOK
    <3> HIDE DEF path
    <3>2. Missed(path, data) \subseteq Path \X (0..Now)
      BY <2>1, <3>1 DEF Missed
    <3> QED BY <2>6, <3>2 DEF TypeOK
  <2>4. msg \in Message
    BY <2>2 DEF Message
  <2> HIDE DEF msg
  <2>5. wire' \in [Target -> Seq(Message)] /\ pc' \in {"loop", "failed"}
    <3>1. {From} \in SUBSET Target
      BY <2>1
    <3> QED
      BY <2>3, <2>4, <3>1, SentOne
  <2> QED
    BY <1>5, <1>11, <2>1, <2>5, <2>7 DEF TypeOK, SendItem
<1> QED
  BY <1>1, <1>2, <1>3, <1>4, <1>6, <1>7, <1>8, <1>9, <1>10, <1>11 DEF Sender

\* serve_rsync() at a target.
LEMMA ServeTypes ==
  ASSUME TypeOK, WorkInv, WriteInv, NEW t \in Target, Serve(t) \/ Die(t)
  PROVE  TypeOK'
<1> DEFINE Tasks == {"none", "tree", "files", "write", "utime", "links", "done",
                     "failed", "closed", "error"}
<1>0. /\ task[t] \in Tasks /\ stack[t] \in Seq(Visits) /\ modified[t] \in Seq(Files)
      /\ dest[t] \in [Path -> Entry] /\ wire[t] \in Seq(Message)
  BY DEF TypeOK
<1>1. ASSUME Local \/ (UNCHANGED <<sourcevars, stable, fixed, channels, links, walk, to_send,
                                   pc, current>> /\ deaths' \in Nat),
             queue' \in Seq(Requests), wire' \in [Target -> Seq(Message)],
             task' \in [Target -> Tasks], stack' \in [Target -> Seq(Visits)],
             modified' \in [Target -> Seq(Files)], dest' \in [Target -> [Path -> Entry]]
      PROVE  TypeOK'
  BY <1>1 DEF TypeOK, Local, sourcevars, fixed
<1>2. ASSUME stack[t] # <<>>
      PROVE  /\ Top(t) \in Visits /\ Top(t).path \in Path /\ Top(t).names \in SUBSET Path
             /\ Tail(stack[t]) \in Seq(Visits)
  <2>1. Head(stack[t]) \in Visits /\ Tail(stack[t]) \in Seq(Visits)
    <3>1. stack[t] \in Seq(Visits)
      BY <1>0
    <3> QED
      BY <1>2, <3>1
  <2>2. Top(t) = Head(stack[t])
    BY <1>0, <1>2 DEF Top
  <2> QED
    BY <2>1, <2>2 DEF Visits
<1>3. ASSUME modified[t] # <<>>
      PROVE  /\ modified[t][1] \in Files /\ modified[t][1].path \in Path
             /\ Tail(modified[t]) \in Seq(Files)
  <2>1. Head(modified[t]) \in Files /\ Tail(modified[t]) \in Seq(Files)
    <3>1. modified[t] \in Seq(Files)
      BY <1>0
    <3> QED
      BY <1>3, <3>1
  <2>2. modified[t][1] = Head(modified[t])
    BY <1>0, <1>3
  <2> QED
    BY <2>1, <2>2 DEF Files
<1>4. CASE ReceiveDirectory(t)
  <2> DEFINE p == Top(t).path
             names == Head(wire[t]).names
             visits == [i \in DOMAIN names |-> Visit(names[i])]
  <2>1. stack[t] # <<>> /\ Receive(t, "dir")
    BY <1>4 DEF ReceiveDirectory, Descend
  <2>2. p \in Path /\ Tail(stack[t]) \in Seq(Visits)
    BY <1>2, <2>1
  <2>3. names \in Seq(Path) /\ wire' \in [Target -> Seq(Message)]
    BY <2>1, Received, Messages
  <2>4. visits \o <<Leave(p, ToSet(names))>> \o Tail(stack[t]) \in Seq(Visits)
    <3> HIDE DEF names
    <3>1. visits \in Seq(Visits)
      <4>1. \A i \in DOMAIN names : Visit(names[i]) \in Visits
        BY <2>3 DEF Visit, Visits
      <4>2. DOMAIN names = 1..Len(names) /\ Len(names) \in Nat
        BY <2>3
      <4> QED
        BY <4>1, <4>2
    <3>2. Leave(p, ToSet(names)) \in Visits
      BY <2>2, <2>3 DEF Leave, ToSet, Visits
    <3> HIDE DEF visits
    <3> QED
      BY <2>2, <3>1, <3>2
  <2>5. stack' \in [Target -> Seq(Visits)]
    BY <1>4, <2>4 DEF ReceiveDirectory, TypeOK
  <2>6. dest' \in [Target -> [Path -> Entry]]
    <3>1. With(dest[t], p, Dir) \in [Path -> Entry]
      BY <1>0, <2>2, TreeKept DEF Entry
    <3> QED
      BY <1>4, <3>1 DEF ReceiveDirectory, TypeOK
  <2> QED
    BY <1>1, <1>4, <2>1, <2>3, <2>5, <2>6 DEF ReceiveDirectory, Receive, TypeOK
<1>5. CASE LeaveDirectory(t)
  <2>1. dest' \in [Target -> [Path -> Entry]]
    <3>1. \A P : Without(dest[t], P) \in [Path -> Entry]
      BY <1>0 DEF Without, Entry
    <3> QED
      BY <1>5, <3>1 DEF LeaveDirectory, TypeOK
  <2>2. stack' \in [Target -> Seq(Visits)]
    BY <1>2, <1>5 DEF LeaveDirectory, TypeOK
  <2> QED
    BY <1>1, <1>5, <2>1, <2>2 DEF LeaveDirectory, TypeOK
<1>6. CASE ReceiveFile(t)
  <2> DEFINE p == Top(t).path
             e == dest[t][p]
             msg == Head(wire[t])
             wish == [type |-> "send", path |-> p,
                      checksum |-> IF SameSize(e, msg) THEN e.data ELSE None]
             f == [path |-> p, mtime |-> msg.mtime, data |-> None]
  <2>1. stack[t] # <<>> /\ Receive(t, "file")
    BY <1>6 DEF ReceiveFile, Descend
  <2>2. p \in Path /\ Tail(stack[t]) \in Seq(Visits) /\ e \in Entry
    BY <1>0, <1>2, <2>1
  <2>3. msg \in Message /\ msg.mtime \in 0..Now /\ wire' \in [Target -> Seq(Message)]
    BY <2>1, Received, Messages
  <2>4. stack' \in [Target -> Seq(Visits)]
    BY <1>6, <2>2 DEF ReceiveFile, TypeOK
  <2>5. \/ UNCHANGED <<queue, dest, modified>>
        \/ /\ dest' = dest \/ dest' = [dest EXCEPT ![t] = Without(@, {p})]
           /\ Request(t, wish)
           /\ modified' = [modified EXCEPT ![t] = Append(@, f)]
    BY <1>6 DEF ReceiveFile, Remember
  <2>6. wish \in Wish /\ f \in Files
    BY <2>1, FileAsked
  <2> HIDE DEF wish, f
  <2>7. dest' \in [Target -> [Path -> Entry]]
    <3>1. Without(dest[t], {p}) \in [Path -> Entry]
      BY <1>0 DEF Without, Entry
    <3> QED
      BY <2>5, <3>1 DEF TypeOK
  <2>8. queue' \in Seq(Requests)
    BY <2>5, <2>6, Asked DEF TypeOK
  <2>9. modified' \in [Target -> Seq(Files)]
    <3>1. Append(modified[t], f) \in Seq(Files)
      BY <1>0, <2>6
    <3> QED
      BY <2>5, <3>1 DEF TypeOK
  <2> QED
    BY <1>1, <1>6, <2>1, <2>3, <2>4, <2>7, <2>8, <2>9 DEF ReceiveFile, Receive, TypeOK
<1>7. CASE ReceiveLink(t)
  <2>1. stack[t] # <<>> /\ Receive(t, "link")
    BY <1>7 DEF ReceiveLink, Descend
  <2>2. stack' \in [Target -> Seq(Visits)]
    BY <1>2, <1>7, <2>1 DEF ReceiveLink, TypeOK
  <2> QED
    BY <1>1, <1>7, <2>1, <2>2, Received DEF ReceiveLink, Receive, TypeOK
<1>8. \A type \in {"list_done", "ack", "links", "done", "end"} :
        Request(t, [type |-> type]) => queue' \in Seq(Requests)
  <2>1. \A type \in {"list_done", "ack", "links", "done", "end"} : [type |-> type] \in Wish
    BY DEF Wish
  <2> QED
    BY <2>1, Asked
<1>9. CASE TreeEnds(t)
  <2>1. task' \in [Target -> Tasks]
    BY <1>9 DEF TreeEnds, TypeOK
  <2> QED
    BY <1>1, <1>8, <1>9, <2>1 DEF TreeEnds, TypeOK
<1>10. CASE ReceiveData(t)
  <2> DEFINE data == Head(wire[t]).data
             p == modified[t][1].path
  <2>1. Receive(t, "data") /\ modified[t] # <<>> /\ queue' \in Seq(Requests)
    BY <1>8, <1>10 DEF ReceiveData
  <2>2. data \in Data \cup {Partial, None} /\ wire' \in [Target -> Seq(Message)]
    BY <2>1, Received, Messages
  <2>3. p \in Path /\ modified[t][1] \in Files
    BY <1>3, <2>1
  <2>4. task' \in [Target -> Tasks]
    BY <1>10 DEF ReceiveData, TypeOK
  <2>5. /\ modified' = modified \/ modified' = [modified EXCEPT ![t][1].data = data]
        /\ dest' = dest \/ dest' = [dest EXCEPT ![t][p] = File(Partial, Now)]
    BY <1>10 DEF ReceiveData
  <2> HIDE DEF data, p
  <2>6. modified' \in [Target -> Seq(Files)]
    <3>1. [modified[t][1] EXCEPT !.data = data] \in Files
      BY <2>2, <2>3 DEF Files
    <3>2. [modified[t] EXCEPT ![1] = [@ EXCEPT !.data = data]] \in Seq(Files)
      BY <1>0, <2>1, <3>1
    <3> QED
      BY <2>5, <3>2 DEF TypeOK
  <2>7. dest' \in [Target -> [Path -> Entry]]
    <3>1. File(Partial, Now) \in Entry
      BY RSyncAssumption DEF File, Entry, Now
    <3>2. [dest[t] EXCEPT ![p] = File(Partial, Now)] \in [Path -> Entry]
      BY <1>0, <3>1
    <3> QED
      BY <2>5, <3>2 DEF TypeOK
  <2> QED
    BY <1>1, <1>10, <2>1, <2>2, <2>4, <2>6, <2>7 DEF ReceiveData, Receive, TypeOK
<1>11. CASE Write(t)
  <2>1. task' \in [Target -> Tasks]
    BY <1>11 DEF Write, TypeOK
  <2> DEFINE f == modified[t][1]
             e == dest[t][f.path]
  <2>2. modified[t] # <<>>
    BY <1>11 DEF Write, WorkInv
  <2>3. f \in Files /\ f.path \in Path
    BY <1>3, <2>2
  <2>4. e \in Entry /\ e.type = "file" /\ f.data # None
    BY <1>0, <1>11, <2>3 DEF Write, WriteInv, File
  <2>5. dest' = [dest EXCEPT ![t][f.path] = [e EXCEPT !.data = f.data]]
    BY <1>11 DEF Write
  <2> HIDE DEF e, f
  <2>6. [e EXCEPT !.data = f.data] \in Entry
    BY <2>3, <2>4 DEF Files, Entry, Absent, Dir, Other
  <2>7. dest' \in [Target -> [Path -> Entry]]
    BY <2>3, <2>5, <2>6 DEF TypeOK
  <2> QED
    BY <1>1, <1>11, <2>1, <2>7 DEF Write, TypeOK
<1>12. CASE Utime(t)
  <2>1. task' \in [Target -> Tasks]
    BY <1>12 DEF Utime, TypeOK
  <2> DEFINE f == modified[t][1]
             e == dest[t][f.path]
  <2>2. modified[t] # <<>>
    BY <1>12 DEF Utime, WorkInv
  <2>3. f \in Files /\ f.path \in Path /\ e \in Entry
    BY <1>0, <1>3, <2>2
  <2>4. /\ modified' \in [Target -> Seq(Files)]
        /\ \/ dest' = dest
           \/ e.type = "file" /\ dest' = [dest EXCEPT ![t][f.path] = [e EXCEPT !.mtime = f.mtime]]
    BY <1>3, <1>12, <2>2 DEF Utime, TypeOK
  <2> HIDE DEF e, f
  <2>5. e.type = "file" => [e EXCEPT !.mtime = f.mtime] \in Entry
    BY <2>3 DEF Files, Entry, Absent, Dir, Other
  <2>6. dest' \in [Target -> [Path -> Entry]]
    <3>1. e.type = "file" => [dest[t] EXCEPT ![f.path] = [e EXCEPT !.mtime = f.mtime]]
                               \in [Path -> Entry]
      BY <1>0, <2>5
    <3> QED
      BY <2>4, <3>1 DEF TypeOK
  <2> QED
    BY <1>1, <1>12, <2>1, <2>4, <2>6 DEF Utime, TypeOK
<1>13. CASE FilesEnd(t)
  <2>1. task' \in [Target -> Tasks]
    BY <1>13 DEF FilesEnd, TypeOK
  <2> QED
    BY <1>1, <1>8, <1>13, <2>1 DEF FilesEnd, TypeOK
<1>14. CASE MakeLink(t)
  <2> DEFINE link == Head(wire[t])
  <2>1. Receive(t, "to")
    BY <1>14 DEF MakeLink
  <2>2. link.path \in Path /\ link.to \in Point /\ wire' \in [Target -> Seq(Message)]
    BY <2>1, Received, Messages
  <2>3. dest' = dest \/ dest' = [dest EXCEPT ![t] = With(@, link.path, LinkTo(Joined(link.to)))]
    BY <1>14 DEF MakeLink
  <2> HIDE DEF link
  <2>4. With(dest[t], link.path, LinkTo(Joined(link.to))) \in [Path -> Entry]
    <3>1. LinkTo(Joined(link.to)) \in Entry
      BY <2>2, Points
    <3> QED
      BY <1>0, <2>2, <3>1, TreeKept
  <2>5. dest' \in [Target -> [Path -> Entry]]
    BY <2>3, <2>4 DEF TypeOK
  <2>6. task' \in [Target -> Tasks]
    BY <1>14 DEF MakeLink, TypeOK
  <2> QED
    BY <1>1, <1>14, <2>1, <2>2, <2>5, <2>6 DEF MakeLink, Receive, TypeOK
<1>15. CASE LinksEnd(t)
  <2>1. Receive(t, "end") /\ task' \in [Target -> Tasks]
    BY <1>15 DEF LinksEnd, TypeOK
  <2> QED
    BY <1>1, <1>8, <1>15, <2>1, Received DEF LinksEnd, Receive, TypeOK
<1>16. CASE ChannelCloses(t)
  <2>1. task' \in [Target -> Tasks]
    BY <1>16 DEF ChannelCloses, TypeOK
  <2> QED
    BY <1>1, <1>8, <1>16, <2>1 DEF ChannelCloses, TypeOK
<1>17. CASE Die(t)
  <2>1. task' \in [Target -> Tasks] /\ deaths' \in Nat
    BY <1>17 DEF Die, TypeOK
  <2> QED
    BY <1>1, <1>17, <2>1 DEF Die, TypeOK
<1> QED
  BY <1>4, <1>5, <1>6, <1>7, <1>9, <1>10, <1>11, <1>12, <1>13, <1>14, <1>15, <1>16, <1>17 DEF Serve

-----------------------------------------------------------------------------
(* Paths.                                                                  *)

LEMMA PathsAre ==
  \E S : Path \subseteq Seq(S)
BY RSyncAssumption

\* A prefix agrees with the path as far as it goes.
LEMMA PrefixIs ==
  ASSUME NEW S, NEW p \in Seq(S), NEW q \in Seq(S)
  PROVE  IsPrefix(p, q) <=> Len(p) <= Len(q) /\ \A i \in 1..Len(p) : p[i] = q[i]
<1>1. Len(p) \in Nat /\ Len(q) \in Nat
  OBVIOUS
<1>2. CASE Len(p) <= Len(q)
  <2>1. /\ SubSeq(p, 1, Len(p)) = [i \in 1..Len(p) |-> p[i]]
        /\ SubSeq(q, 1, Len(p)) = [i \in 1..Len(p) |-> q[i]]
    BY <1>1, <1>2
  <2>2. SubSeq(p, 1, Len(p)) = SubSeq(q, 1, Len(p)) <=> \A i \in 1..Len(p) : p[i] = q[i]
    BY <2>1
  <2> QED
    BY <1>2, <2>2 DEF IsPrefix
<1> QED
  BY <1>1, <1>2 DEF IsPrefix

\* The order of paths.
LEMMA PrefixOrder ==
  ASSUME NEW p \in Path, NEW q \in Path
  PROVE  /\ IsPrefix(p, p) /\ IsPrefix(<<>>, p)
         /\ IsPrefix(p, <<>>) => p = <<>>
         /\ IsPrefix(p, q) /\ IsPrefix(q, p) => p = q
         /\ \A r \in Path : IsPrefix(p, q) /\ IsPrefix(q, r) => IsPrefix(p, r)
         /\ \A r \in Path : IsPrefix(p, r) /\ IsPrefix(q, r) => IsPrefix(p, q) \/ IsPrefix(q, p)
         /\ \A r \in Path : IsPrefix(p, r) /\ IsPrefix(q, r) /\ Len(p) = Len(q) => p = q
<1>1. PICK S : Path \subseteq Seq(S)
  BY PathsAre
<1>2. <<>> \in Path
  BY RSyncAssumption
<1>3. \A x, y \in Path :
        IsPrefix(x, y) <=> Len(x) <= Len(y) /\ \A i \in 1..Len(x) : x[i] = y[i]
  BY <1>1, PrefixIs
<1>4. \A x \in Path : Len(x) \in Nat /\ (Len(x) = 0 => x = <<>>) /\ Len(<<>>) = 0
  BY <1>1
<1>5. \A x, y \in Path : Len(x) = Len(y) /\ (\A i \in 1..Len(x) : x[i] = y[i]) => x = y
  BY <1>1
<1>6. IsPrefix(p, p) /\ IsPrefix(<<>>, p)
  BY <1>2, <1>3, <1>4
<1>7. IsPrefix(p, <<>>) => p = <<>>
  BY <1>2, <1>3, <1>4
<1>8. IsPrefix(p, q) /\ IsPrefix(q, p) => p = q
  BY <1>3, <1>4, <1>5
<1>9. ASSUME NEW r \in Path, IsPrefix(p, q), IsPrefix(q, r) PROVE IsPrefix(p, r)
  BY <1>3, <1>4, <1>9
<1>10. ASSUME NEW r \in Path, IsPrefix(p, r), IsPrefix(q, r)
       PROVE  IsPrefix(p, q) \/ IsPrefix(q, p)
  <2>1. CASE Len(p) <= Len(q)
    BY <1>3, <1>4, <1>10, <2>1
  <2>2. CASE Len(q) <= Len(p)
    BY <1>3, <1>4, <1>10, <2>2
  <2> QED
    BY <1>4, <2>1, <2>2
<1>11. ASSUME NEW r \in Path, IsPrefix(p, r), IsPrefix(q, r), Len(p) = Len(q) PROVE p = q
  BY <1>3, <1>4, <1>5, <1>11
<1> QED
  BY <1>6, <1>7, <1>8, <1>9, <1>10, <1>11

\* The directory of a path.
LEMMA FrontIs ==
  ASSUME NEW q \in Path, q # <<>>
  PROVE  /\ Front(q) \in Path /\ IsStrictPrefix(Front(q), q) /\ Len(Front(q)) + 1 = Len(q)
         /\ Len(q) \in Nat
         /\ \A p \in Path : IsStrictPrefix(p, q) => IsPrefix(p, Front(q))
<1>1. PICK S : Path \subseteq Seq(S)
  BY PathsAre
<1>2. Front(q) \in Path /\ Front(q) \in Seq(S) /\ q \in Seq(S)
  BY <1>1, RSyncAssumption
<1>3. Len(q) \in Nat \ {0}
  BY <1>2
<1>4. Front(q) = [i \in 1..Len(q) - 1 |-> q[i]]
  BY <1>2, <1>3 DEF Front
<1>5. Len(Front(q)) = Len(q) - 1 /\ \A i \in 1..Len(q) - 1 : Front(q)[i] = q[i]
  BY <1>2, <1>3, <1>4
<1>6. IsPrefix(Front(q), q) /\ Front(q) # q
  BY <1>2, <1>3, <1>5, PrefixIs
<1>7. ASSUME NEW p \in Path, IsPrefix(p, q), p # q PROVE IsPrefix(p, Front(q))
  <2>1. p \in Seq(S) /\ Len(p) \in Nat /\ Len(p) <= Len(q) /\ \A i \in 1..Len(p) : p[i] = q[i]
    BY <1>1, <1>2, <1>7, PrefixIs
  <2>2. Len(p) # Len(q)
    BY <1>2, <1>7, <2>1
  <2>3. Len(p) <= Len(Front(q)) /\ \A i \in 1..Len(p) : p[i] = Front(q)[i]
    BY <1>3, <1>5, <2>1, <2>2
  <2> QED
    BY <1>2, <2>1, <2>3, PrefixIs
<1> QED
  BY <1>2, <1>3, <1>5, <1>6, <1>7 DEF IsStrictPrefix

\* What is in a directory.
LEMMA ChildrenAre ==
  ASSUME NEW p \in Path, NEW c \in Path
  PROVE  /\ c \in Children(p) <=> c # <<>> /\ Front(c) = p
         /\ c \in Children(p) => IsStrictPrefix(p, c) /\ Len(c) = Len(p) + 1
<1>1. PICK S : Path \subseteq Seq(S)
  BY PathsAre
<1>2. Len(p) \in Nat /\ Len(c) \in Nat /\ (c = <<>> => Len(c) = 0)
  BY <1>1
<1>3. ASSUME c \in Children(p) PROVE c # <<>> /\ Front(c) = p
  <2>1. IsStrictPrefix(p, c) /\ Len(c) = Len(p) + 1 /\ c # <<>>
    BY <1>2, <1>3 DEF Children, Below
  <2>2. IsPrefix(p, c) /\ IsPrefix(Front(c), c) /\ Len(Front(c)) = Len(p) /\ Front(c) \in Path
    BY <1>2, <2>1, FrontIs DEF IsStrictPrefix
  <2> QED
    BY <2>1, <2>2, PrefixOrder
<1>4. ASSUME c # <<>>, Front(c) = p PROVE c \in Children(p)
  BY <1>2, <1>4, FrontIs DEF Children, Below
<1> QED
  BY <1>3, <1>4 DEF Children, Below

LEMMA Smallest ==
  ASSUME NEW S \in SUBSET Nat, S # {}
  PROVE  \E m \in S : \A k \in S : m <= k
<1>1. PICK m \in S : \A k \in S : ~(<<k, m>> \in OpToRel(<, Nat))
  BY NatLessThanWellFounded, WFMin
<1>2. \A k \in S : m <= k
  <2> TAKE k \in S
  <2>1. <<k, m>> \in Nat \X Nat /\ <<k, m>>[1] = k /\ <<k, m>>[2] = m
    OBVIOUS
  <2>2. ~(k < m)
    BY <1>1, <2>1 DEF OpToRel
  <2> QED
    BY <2>2
<1> QED
  BY <1>2

\* The way from a path to one below it begins with a child.
LEMMA ChildToward ==
  ASSUME NEW p \in Path, NEW q \in Path, IsStrictPrefix(p, q)
  PROVE  \E c \in Children(p) : IsPrefix(c, q)
<1> DEFINE Lost == {x \in Path : IsStrictPrefix(p, x) /\ \A c \in Children(p) : ~IsPrefix(c, x)}
           S == {Len(x) : x \in Lost}
<1>1. SUFFICES ASSUME Lost # {} PROVE FALSE
  OBVIOUS
<1>2. \A x \in Path : Len(x) \in Nat
  BY PathsAre
<1>3. PICK x \in Lost : \A y \in Lost : Len(x) <= Len(y)
  <2>1. S \in SUBSET Nat /\ S # {}
    BY <1>1, <1>2
  <2>2. PICK m \in S : \A k \in S : m <= k
    <3> HIDE DEF S
    <3> QED
      BY <2>1, Smallest
  <2> QED
    BY <2>2
<1>4. x \in Path /\ IsStrictPrefix(p, x) /\ \A c \in Children(p) : ~IsPrefix(c, x)
  OBVIOUS
<1>5. x # <<>>
  BY <1>4, PrefixOrder DEF IsStrictPrefix
<1>6. /\ Front(x) \in Path /\ IsPrefix(Front(x), x) /\ IsPrefix(p, Front(x))
      /\ Len(Front(x)) + 1 = Len(x)
  BY <1>4, <1>5, FrontIs DEF IsStrictPrefix
<1>7. p # Front(x)
  <2>1. IsPrefix(x, x)
    BY PrefixOrder
  <2>2. x \notin Children(p)
    BY <1>4, <2>1
  <2> QED
    BY <1>5, <2>2, ChildrenAre
<1>8. Front(x) \notin Lost
  BY <1>2, <1>3, <1>6
<1>9. PICK c \in Children(p) : IsPrefix(c, Front(x))
  BY <1>6, <1>7, <1>8 DEF IsStrictPrefix
<1>10. c \in Path
  BY DEF Children, Below
<1> QED
  BY <1>4, <1>6, <1>9, <1>10, PrefixOrder

\* What is above something is a directory.
LEMMA AboveIsDir ==
  ASSUME NEW tree, Grown(tree), NEW p \in Path, NEW q \in Path, IsStrictPrefix(p, q),
         tree[q] # Absent
  PROVE  tree[p] = Dir
<1> DEFINE Lost == {x \in Path : IsStrictPrefix(p, x) /\ tree[x] # Absent}
           S == {Len(x) : x \in Lost}
<1>1. SUFFICES ASSUME tree[p] # Dir PROVE FALSE
  OBVIOUS
<1>2. \A x \in Path : Len(x) \in Nat
  BY PathsAre
<1>3. PICK x \in Lost : \A y \in Lost : Len(x) <= Len(y)
  <2>1. S \in SUBSET Nat /\ S # {}
    BY <1>2
  <2>2. PICK m \in S : \A k \in S : m <= k
    <3> HIDE DEF S
    <3> QED
      BY <2>1, Smallest
  <2> QED
    BY <2>2
<1>5. x \in Path /\ IsStrictPrefix(p, x) /\ tree[x] # Absent /\ x # <<>>
  BY PrefixOrder DEF IsStrictPrefix
<1>6. /\ Front(x) \in Path /\ IsPrefix(p, Front(x)) /\ Len(Front(x)) + 1 = Len(x)
      /\ tree[Front(x)] = Dir
  BY <1>5, FrontIs DEF IsStrictPrefix, Grown, InDir
<1>7. p # Front(x)
  BY <1>1, <1>6
<1>8. Front(x) \notin Lost
  BY <1>2, <1>3, <1>6
<1> QED
  BY <1>6, <1>7, <1>8 DEF IsStrictPrefix, Absent, Dir

\* What is below something that is not a directory is absent.
LEMMA BelowIsAbsent ==
  ASSUME NEW tree, Grown(tree), NEW p \in Path, NEW q \in Path, IsStrictPrefix(p, q),
         tree[p] # Dir
  PROVE  tree[q] = Absent
BY AboveIsDir

\* What remove() does, and With().
LEMMA Removed ==
  ASSUME NEW tree, NEW P, NEW q \in Path
  PROVE  /\ (\A x \in P : ~IsPrefix(x, q)) => Without(tree, P)[q] = tree[q]
         /\ (\E x \in P : IsPrefix(x, q)) => Without(tree, P)[q] = Absent
BY DEF Without

LEMMA Replaced ==
  ASSUME NEW tree, NEW p \in Path, NEW e, NEW q \in Path
  PROVE  /\ ~IsPrefix(p, q) => With(tree, p, e)[q] = tree[q]
         /\ IsStrictPrefix(p, q) => With(tree, p, e)[q] = Absent
         /\ With(tree, p, e)[p] = e
<1>1. /\ Without(tree, {p})[q] = IF IsPrefix(p, q) THEN Absent ELSE tree[q]
      /\ DOMAIN Without(tree, {p}) = Path
  BY DEF Without
<1>2. \A x \in Path : With(tree, p, e)[x] = IF x = p THEN e ELSE Without(tree, {p})[x]
  BY <1>1 DEF With
<1>3. IsPrefix(p, p)
  BY PrefixOrder
<1> QED
  BY <1>1, <1>2, <1>3 DEF IsStrictPrefix

\* remove(), with what comes then, keeps everything in directories.
LEMMA GrownKept ==
  ASSUME NEW tree, Grown(tree), NEW P \in SUBSET Path, NEW p \in Path, NEW e
  PROVE  /\ Grown(Without(tree, P))
         /\ p = <<>> \/ InDir(tree, p) => Grown(With(tree, p, e))
<1>1. Grown(Without(tree, P))
  <2> DEFINE d == Without(tree, P)
  <2> SUFFICES ASSUME NEW q \in Path \ {<<>>}, d[q] # Absent PROVE d[Front(q)] = Dir
    BY DEF Grown, InDir
  <2>1. \A x \in P : ~IsPrefix(x, q)
    BY Removed
  <2>2. d[q] = tree[q] /\ tree[Front(q)] = Dir
    BY <2>1, Removed DEF Grown, InDir
  <2>3. Front(q) \in Path /\ IsPrefix(Front(q), q)
    BY FrontIs DEF IsStrictPrefix
  <2>4. \A x \in P : ~IsPrefix(x, Front(q))
    BY <2>1, <2>3, PrefixOrder
  <2> QED
    BY <2>2, <2>3, <2>4, Removed
<1>2. ASSUME p = <<>> \/ InDir(tree, p) PROVE Grown(With(tree, p, e))
  <2> DEFINE d == With(tree, p, e)
  <2> SUFFICES ASSUME NEW q \in Path \ {<<>>}, d[q] # Absent PROVE d[Front(q)] = Dir
    BY DEF Grown, InDir
  <2>3. Front(q) \in Path /\ IsPrefix(Front(q), q) /\ Front(q) # q
    BY FrontIs DEF IsStrictPrefix
  <2>4. CASE q = p
    <3>1. tree[Front(q)] = Dir
      BY <1>2, <2>4 DEF InDir
    <3>2. ~IsPrefix(p, Front(q))
      BY <2>3, <2>4, PrefixOrder
    <3> QED
      BY <2>3, <3>1, <3>2, Replaced
  <2>5. CASE q # p
    <3>1. ~IsPrefix(p, q)
      <4>1. IsPrefix(p, q) => IsStrictPrefix(p, q)
        BY <2>5 DEF IsStrictPrefix
      <4>2. IsStrictPrefix(p, q) => d[q] = Absent
        BY Replaced
      <4> QED
        BY <4>1, <4>2
    <3>2. d[q] = tree[q] /\ tree[Front(q)] = Dir
      BY <3>1, Replaced DEF Grown, InDir
    <3>3. ~IsPrefix(p, Front(q))
      BY <2>3, <3>1, PrefixOrder
    <3> QED
      BY <2>3, <3>2, <3>3, Replaced
  <2> QED
    BY <2>4, <2>5
<1> QED
  BY <1>1, <1>2

\* A file is put where there is nothing or a file.
LEMMA GrownWithFile ==
  ASSUME NEW tree \in [Path -> Entry], Grown(tree), NEW p \in Path, NEW e,
         tree[p] # Dir, p = <<>> \/ InDir(tree, p)
  PROVE  Grown([tree EXCEPT ![p] = e])
<1> DEFINE d == [tree EXCEPT ![p] = e]
<1> SUFFICES ASSUME NEW q \in Path \ {<<>>}, d[q] # Absent PROVE d[Front(q)] = Dir
  BY DEF Grown, InDir
<1>1. \A x \in Path : x # p => d[x] = tree[x]
  OBVIOUS
<1>2. Front(q) \in Path /\ Front(q) # q
  BY FrontIs DEF IsStrictPrefix
<1> HIDE DEF d
<1>3. tree[Front(q)] = Dir
  BY <1>1 DEF Grown, InDir
<1> QED
  BY <1>1, <1>2, <1>3
-----------------------------------------------------------------------------
(* What is still to visit.                                                 *)

\* The first of the stack is visited.
LEMMA VisitPopped ==
  ASSUME NEW s \in Seq(Visits), s # <<>>, ~s[1].leave, Apart(s)
  PROVE  /\ s[1].path \in Path
         /\ Pend(s) = {s[1].path} \cup Pend(Tail(s))
         /\ Left(Tail(s)) = Left(s)
         /\ Apart(Tail(s))
         /\ \A x \in Pend(Tail(s)) : ~IsPrefix(s[1].path, x) /\ ~IsPrefix(x, s[1].path)
<1>1. /\ 1 \in DOMAIN s /\ DOMAIN Tail(s) \subseteq Nat \ {0}
      /\ \A i \in DOMAIN Tail(s) : Tail(s)[i] = s[i + 1] /\ i + 1 \in DOMAIN s
      /\ \A i \in DOMAIN s : i = 1 \/ (i - 1 \in DOMAIN Tail(s) /\ (i - 1) + 1 = i)
      /\ \A i \in DOMAIN s : s[i] \in Visits
  BY TailIs
<1> DEFINE r == Tail(s)
<1> HIDE DEF r
<1>2. /\ \A i \in Visiting(r) : i + 1 \in Visiting(s) /\ r[i] = s[i + 1] /\ i + 1 # 1 /\ i \in Nat
      /\ \A i \in Visiting(s) : i = 1 \/ (i - 1 \in Visiting(r) /\ r[i - 1] = s[i])
      /\ 1 \in Visiting(s)
  BY <1>1 DEF Visiting, r
<1>3. /\ \A i \in DOMAIN r \ Visiting(r) : i + 1 \in DOMAIN s \ Visiting(s) /\ r[i] = s[i + 1]
      /\ \A i \in DOMAIN s \ Visiting(s) : i - 1 \in DOMAIN r \ Visiting(r) /\ r[i - 1] = s[i]
  BY <1>1 DEF Visiting, r
<1>4. Pend(s) = {s[1].path} \cup Pend(r)
  BY <1>2 DEF Pend
<1>5. Left(r) = Left(s)
  BY <1>3 DEF Left
<1>6. Apart(r)
  <2> SUFFICES ASSUME NEW i \in Visiting(r), NEW k \in Visiting(r), i # k
               PROVE  ~IsPrefix(r[i].path, r[k].path)
    BY DEF Apart
  <2>1. i + 1 # k + 1 /\ i + 1 \in Visiting(s) /\ k + 1 \in Visiting(s)
    BY <1>2
  <2> QED
    BY <1>2, <2>1 DEF Apart
<1>7. \A i \in Visiting(r) : ~IsPrefix(s[1].path, r[i].path) /\ ~IsPrefix(r[i].path, s[1].path)
  BY <1>2 DEF Apart
<1>8. s[1].path \in Path
  BY <1>1 DEF Visits
<1> QED
  BY <1>4, <1>5, <1>6, <1>7, <1>8 DEF Pend, r

\* The first of the stack is a directory to leave.
LEMMA LeavePopped ==
  ASSUME NEW s \in Seq(Visits), s # <<>>, s[1].leave, Apart(s)
  PROVE  /\ s[1] \in Visits
         /\ Left(s) = {s[1]} \cup Left(Tail(s))
         /\ Pend(Tail(s)) = Pend(s)
         /\ Apart(Tail(s))
<1>1. /\ 1 \in DOMAIN s /\ DOMAIN Tail(s) \subseteq Nat \ {0}
      /\ \A i \in DOMAIN Tail(s) : Tail(s)[i] = s[i + 1] /\ i + 1 \in DOMAIN s
      /\ \A i \in DOMAIN s : i = 1 \/ (i - 1 \in DOMAIN Tail(s) /\ (i - 1) + 1 = i)
      /\ \A i \in DOMAIN s : s[i] \in Visits
  BY TailIs
<1> DEFINE r == Tail(s)
<1> HIDE DEF r
<1>2. /\ \A i \in Visiting(r) : i + 1 \in Visiting(s) /\ r[i] = s[i + 1] /\ i \in Nat
      /\ \A i \in Visiting(s) : i - 1 \in Visiting(r) /\ r[i - 1] = s[i]
  BY <1>1 DEF Visiting, r
<1>3. /\ \A i \in DOMAIN r \ Visiting(r) : i + 1 \in DOMAIN s \ Visiting(s) /\ r[i] = s[i + 1]
      /\ \A i \in DOMAIN s \ Visiting(s) :
           i = 1 \/ (i - 1 \in DOMAIN r \ Visiting(r) /\ r[i - 1] = s[i])
      /\ 1 \in DOMAIN s \ Visiting(s)
  BY <1>1 DEF Visiting, r
<1>4. Pend(r) = Pend(s)
  BY <1>2 DEF Pend
<1>5. Left(s) = {s[1]} \cup Left(r)
  BY <1>3 DEF Left
<1>6. Apart(r)
  <2> SUFFICES ASSUME NEW i \in Visiting(r), NEW k \in Visiting(r), i # k
               PROVE  ~IsPrefix(r[i].path, r[k].path)
    BY DEF Apart
  <2>1. i + 1 # k + 1 /\ i + 1 \in Visiting(s) /\ k + 1 \in Visiting(s)
    BY <1>2
  <2> QED
    BY <1>2, <2>1 DEF Apart
<1> QED
  BY <1>1, <1>4, <1>5, <1>6 DEF r

\* Sequences one after the other.
LEMMA JoinedIs ==
  ASSUME NEW S, NEW a \in Seq(S), NEW b \in Seq(S)
  PROVE  /\ a \o b \in Seq(S) /\ Len(a) \in Nat /\ Len(b) \in Nat
         /\ DOMAIN a = 1..Len(a) /\ DOMAIN b = 1..Len(b)
         /\ Len(a \o b) = Len(a) + Len(b) /\ DOMAIN (a \o b) = 1..Len(a) + Len(b)
         /\ \A i \in DOMAIN a : i \in DOMAIN (a \o b) /\ (a \o b)[i] = a[i]
         /\ \A i \in DOMAIN b : Len(a) + i \in DOMAIN (a \o b) /\ (a \o b)[Len(a) + i] = b[i]
         /\ \A i \in DOMAIN (a \o b) :
              \/ i \in DOMAIN a
              \/ i \notin DOMAIN a /\ i - Len(a) \in DOMAIN b /\ (a \o b)[i] = b[i - Len(a)]
OBVIOUS

LEMMA StacksJoined ==
  ASSUME NEW a \in Seq(Visits), NEW b \in Seq(Visits)
  PROVE  /\ a \o b \in Seq(Visits)
         /\ Pend(a \o b) = Pend(a) \cup Pend(b)
         /\ Left(a \o b) = Left(a) \cup Left(b)
         /\ /\ Apart(a) /\ Apart(b)
            /\ \A x \in Pend(a), y \in Pend(b) : ~IsPrefix(x, y) /\ ~IsPrefix(y, x)
            => Apart(a \o b)
<1> DEFINE s == a \o b
           n == Len(a)
<1>1. /\ s \in Seq(Visits) /\ n \in Nat
      /\ \A i \in DOMAIN a : i \in DOMAIN s /\ s[i] = a[i]
      /\ \A i \in DOMAIN b : n + i \in DOMAIN s /\ s[n + i] = b[i]
      /\ \A i \in DOMAIN s :
           i \in DOMAIN a \/ (i \notin DOMAIN a /\ i - n \in DOMAIN b /\ s[i] = b[i - n])
      /\ \A i \in DOMAIN s : i \in Nat
  <2>1. \A i \in DOMAIN s : i \in Nat
    BY JoinedIs
  <2> QED
    BY <2>1, JoinedIs
<1> HIDE DEF s, n
<1>2. /\ \A i \in Visiting(a) : i \in Visiting(s) /\ s[i] = a[i]
      /\ \A i \in Visiting(b) : n + i \in Visiting(s) /\ s[n + i] = b[i]
      /\ \A i \in Visiting(s) :
           \/ i \in Visiting(a) /\ s[i] = a[i]
           \/ i \notin DOMAIN a /\ i - n \in Visiting(b) /\ s[i] = b[i - n] /\ i \in Nat
      /\ \A i \in DOMAIN a \ Visiting(a) : i \in DOMAIN s \ Visiting(s) /\ s[i] = a[i]
      /\ \A i \in DOMAIN b \ Visiting(b) : n + i \in DOMAIN s \ Visiting(s) /\ s[n + i] = b[i]
      /\ \A i \in DOMAIN s \ Visiting(s) :
           \/ i \in DOMAIN a \ Visiting(a) /\ s[i] = a[i]
           \/ i - n \in DOMAIN b \ Visiting(b) /\ s[i] = b[i - n]
  BY <1>1 DEF Visiting
<1>3. Pend(s) = Pend(a) \cup Pend(b)
  <2>1. Pend(s) \subseteq Pend(a) \cup Pend(b)
    BY <1>2 DEF Pend
  <2>2. Pend(a) \subseteq Pend(s) /\ Pend(b) \subseteq Pend(s)
    BY <1>2 DEF Pend
  <2> QED
    BY <2>1, <2>2
<1>4. Left(s) = Left(a) \cup Left(b)
  <2>1. Left(s) \subseteq Left(a) \cup Left(b)
    BY <1>2 DEF Left
  <2>2. Left(a) \subseteq Left(s) /\ Left(b) \subseteq Left(s)
    BY <1>2 DEF Left
  <2> QED
    BY <2>1, <2>2
<1>5. ASSUME Apart(a), Apart(b),
             \A x \in Pend(a), y \in Pend(b) : ~IsPrefix(x, y) /\ ~IsPrefix(y, x)
      PROVE  Apart(s)
  <2> SUFFICES ASSUME NEW i \in Visiting(s), NEW k \in Visiting(s), i # k
               PROVE  ~IsPrefix(s[i].path, s[k].path)
    BY DEF Apart
  <2>1. \A j \in Visiting(s) :
          \/ j \in Visiting(a) /\ s[j] = a[j] /\ s[j].path \in Pend(a)
          \/ j - n \in Visiting(b) /\ s[j] = b[j - n] /\ s[j].path \in Pend(b) /\ j \in Nat
    BY <1>2 DEF Pend
  <2>2. CASE i - n \in Visiting(b) /\ s[i] = b[i - n] /\ k - n \in Visiting(b) /\ s[k] = b[k - n]
             /\ i \in Nat /\ k \in Nat
    <3>1. i - n # k - n
      BY <1>1, <2>2
    <3> QED
      BY <1>5, <2>2, <3>1 DEF Apart
  <2>3. CASE i \in Visiting(a) /\ s[i] = a[i] /\ k \in Visiting(a) /\ s[k] = a[k]
    BY <1>5, <2>3 DEF Apart
  <2> QED
    BY <1>5, <2>1, <2>2, <2>3
<1> QED
  BY <1>1, <1>3, <1>4, <1>5 DEF s

\* What a directory has comes before it is left, and before the rest.
LEMMA DirectoryPushed ==
  ASSUME NEW r \in Seq(Visits), NEW p \in Path, NEW names \in Seq(Path),
         Apart(r),
         \A i, k \in DOMAIN names : i # k => ~IsPrefix(names[i], names[k]),
         \A x \in ToSet(names), y \in Pend(r) : ~IsPrefix(x, y) /\ ~IsPrefix(y, x)
  PROVE  LET s == [i \in DOMAIN names |-> Visit(names[i])] \o <<Leave(p, ToSet(names))>> \o r
         IN  /\ Pend(s) = ToSet(names) \cup Pend(r)
             /\ Left(s) = {Leave(p, ToSet(names))} \cup Left(r)
             /\ Apart(s)
<1> DEFINE visits == [i \in DOMAIN names |-> Visit(names[i])]
           l == Leave(p, ToSet(names))
<1>1. DOMAIN visits = DOMAIN names /\ \A i \in DOMAIN names : visits[i] = Visit(names[i])
  OBVIOUS
<1>2. visits \in Seq(Visits)
  <2>1. \A i \in DOMAIN names : Visit(names[i]) \in Visits
    BY DEF Visit, Visits
  <2>2. DOMAIN names = 1..Len(names) /\ Len(names) \in Nat
    OBVIOUS
  <2> QED
    BY <2>1, <2>2
<1>3. l \in Visits /\ l.leave
  <2>1. ToSet(names) \subseteq Path
    BY DEF ToSet
  <2> QED
    BY <2>1 DEF Leave, Visits
<1> HIDE DEF visits, l
<1>4. Visiting(visits) = DOMAIN names /\ \A i \in DOMAIN names : visits[i].path = names[i]
  <2>1. \A i \in DOMAIN names : Visit(names[i]).path = names[i] /\ ~Visit(names[i]).leave
    BY DEF Visit
  <2> QED
    BY <1>1, <2>1 DEF Visiting
<1>5. Pend(visits) = ToSet(names) /\ Left(visits) = {} /\ Apart(visits)
  BY <1>1, <1>4 DEF Pend, Left, Apart, ToSet
<1>6. <<l>> \in Seq(Visits) /\ Visiting(<<l>>) = {} /\ DOMAIN <<l>> = {1} /\ <<l>>[1] = l
  BY <1>3 DEF Visiting
<1>7. Pend(<<l>>) = {} /\ Left(<<l>>) = {l} /\ Apart(<<l>>)
  BY <1>6 DEF Pend, Left, Apart
<1> DEFINE one == <<l>>
           first == visits \o one
<1>8. first \in Seq(Visits) /\ Pend(first) = ToSet(names) /\ Left(first) = {l} /\ Apart(first)
  <2>1. one \in Seq(Visits) /\ Pend(one) = {} /\ Left(one) = {l} /\ Apart(one)
    BY <1>6, <1>7
  <2> HIDE DEF one
  <2>2. /\ first \in Seq(Visits) /\ Pend(first) = Pend(visits) \cup Pend(one)
        /\ Left(first) = Left(visits) \cup Left(one)
    BY <1>2, <2>1, StacksJoined
  <2>3. Apart(first)
    BY <1>2, <1>5, <2>1, StacksJoined
  <2> QED
    BY <1>5, <2>1, <2>2, <2>3
<1> HIDE DEF first
<1>9. LET s == first \o r
      IN  Pend(s) = ToSet(names) \cup Pend(r) /\ Left(s) = {l} \cup Left(r) /\ Apart(s)
  BY <1>8, StacksJoined
<1> QED
  BY <1>9 DEF first, visits, l

\* What a directory has is apart from what is apart from the directory.
LEMMA ChildrenApart ==
  ASSUME NEW p \in Path, NEW N \in SUBSET Children(p), NEW P \in SUBSET Path,
         \A x \in P : ~IsPrefix(p, x) /\ ~IsPrefix(x, p)
  PROVE  /\ \A n \in N, x \in P : ~IsPrefix(n, x) /\ ~IsPrefix(x, n)
         /\ \A n, k \in N : n # k => ~IsPrefix(n, k)
<1>1. \A n \in N : n \in Path /\ IsPrefix(p, n) /\ Len(n) = Len(p) + 1
  BY ChildrenAre DEF Children, Below, IsStrictPrefix
<1>2. \A n \in N, x \in P : ~IsPrefix(n, x) /\ ~IsPrefix(x, n)
  <2> SUFFICES ASSUME NEW n \in N, NEW x \in P PROVE ~IsPrefix(n, x) /\ ~IsPrefix(x, n)
    OBVIOUS
  <2>1. IsPrefix(p, n) /\ IsPrefix(n, x) => IsPrefix(p, x)
    BY <1>1, PrefixOrder
  <2>2. IsPrefix(p, n) /\ IsPrefix(x, n) => IsPrefix(p, x) \/ IsPrefix(x, p)
    BY <1>1, PrefixOrder
  <2> QED
    BY <1>1, <2>1, <2>2
<1>3. ASSUME NEW n \in N, NEW k \in N, n # k PROVE ~IsPrefix(n, k)
  <2>1. n \in Path /\ k \in Path /\ Len(n) = Len(k) /\ IsPrefix(k, k)
    BY <1>1, PrefixOrder
  <2> QED
    BY <1>3, <2>1, PrefixOrder
<1> QED
  BY <1>2, <1>3

-----------------------------------------------------------------------------
(* What is on the way to a target has its place.                           *)

\* A directory is made.
LEMMA PlacedDirectory ==
  ASSUME NEW tree, NEW tree2, NEW p \in Path, NEW N \in SUBSET Children(p),
         NEW Q, p \in Q, NEW P \in SUBSET Path, P \subseteq Q,
         NEW M \in SUBSET Path, NEW L \in SUBSET Visits, Placed(Q, L, M, tree),
         \A x \in P : ~IsPrefix(p, x) /\ ~IsPrefix(x, p),
         tree2[p] = Dir, \A q \in Path : ~IsPrefix(p, q) => tree2[q] = tree[q],
         NEW P2, P2 = P \cup N, NEW L2, L2 = {Leave(p, N)} \cup L
  PROVE  Placed(P2, L2, M, tree2)
<1>1. /\ \A m \in M : ~IsPrefix(p, m)
      /\ \A x \in P, m \in M : ~IsPrefix(x, m)
      /\ \A l \in L : /\ l.names \subseteq Children(l.path) /\ l.path \in Path
                      /\ ~IsPrefix(p, l.path) /\ \A x \in P : ~IsPrefix(x, l.path)
                      /\ IsStrictPrefix(l.path, p) => Kept(p, l)
                      /\ \A x \in P \cup M : IsStrictPrefix(l.path, x) => Kept(x, l)
      /\ \A x \in P \cup M : x # <<>> => InDir(tree, x)
      /\ \A m \in M : tree[m].type \in {"file", "absent"}
  BY DEF Placed, Visits
<1>2. \A n \in N : /\ n \in Path /\ n # <<>> /\ Front(n) = p /\ IsPrefix(p, n) /\ ~IsPrefix(n, p)
                   /\ IsPrefix(n, n)
                   /\ \A x \in Path : IsPrefix(n, x) => IsPrefix(p, x)
                   /\ \A x \in Path : IsStrictPrefix(x, n) => IsPrefix(x, p)
  <2> SUFFICES ASSUME NEW n \in N
               PROVE  /\ n \in Path /\ n # <<>> /\ Front(n) = p /\ IsPrefix(p, n) /\ ~IsPrefix(n, p)
                      /\ IsPrefix(n, n)
                      /\ \A x \in Path : IsPrefix(n, x) => IsPrefix(p, x)
                      /\ \A x \in Path : IsStrictPrefix(x, n) => IsPrefix(x, p)
    OBVIOUS
  <2>1. n \in Path
    BY DEF Children, Below
  <2>2. n # <<>> /\ Front(n) = p /\ IsStrictPrefix(p, n)
    BY <2>1, ChildrenAre
  <2>3. \A x \in Path : IsStrictPrefix(x, n) => IsPrefix(x, p)
    BY <2>1, <2>2, FrontIs
  <2> QED
    BY <2>1, <2>2, <2>3, PrefixOrder DEF IsStrictPrefix
<1>3. \A n \in N, m \in M : ~IsPrefix(n, m)
  BY <1>1, <1>2
<1>4. ASSUME NEW l \in L
      PROVE  /\ \A n \in N : ~IsPrefix(n, l.path)
             /\ \A n \in N : IsStrictPrefix(l.path, n) => Kept(n, l)
  <2>1. l.path \in Path /\ ~IsPrefix(p, l.path) /\ IsPrefix(p, p)
    BY <1>1, PrefixOrder
  <2>2. \A n \in N : ~IsPrefix(n, l.path)
    BY <1>2, <2>1
  <2>3. ASSUME NEW n \in N, IsStrictPrefix(l.path, n) PROVE Kept(n, l)
    <3>1. IsStrictPrefix(l.path, p)
      BY <1>2, <2>1, <2>3 DEF IsStrictPrefix
    <3>2. PICK k \in l.names : IsPrefix(k, p)
      BY <1>1, <3>1 DEF Kept
    <3>3. k \in Path
      BY <1>1 DEF Children, Below
    <3>4. IsPrefix(k, n)
      BY <1>2, <3>2, <3>3, PrefixOrder
    <3> QED
      BY <3>4 DEF Kept
  <2> QED
    BY <2>2, <2>3
<1> DEFINE new == Leave(p, N)
<1>5. /\ new.path = p /\ new.names = N
      /\ \A x \in P \cup N : ~IsPrefix(x, p)
      /\ \A x \in P \cup M \cup N : IsStrictPrefix(p, x) => Kept(x, new)
  <2>1. new.path = p /\ new.names = N
    BY DEF Leave
  <2>2. \A x \in P \cup N : ~IsPrefix(x, p)
    BY <1>2
  <2> HIDE DEF new
  <2>3. \A x \in P \cup M \cup N : IsStrictPrefix(p, x) => Kept(x, new)
    BY <1>1, <1>2, <2>1 DEF IsStrictPrefix, Kept
  <2> QED
    BY <2>1, <2>2, <2>3
<1>6. ASSUME NEW x \in P \cup M \cup N, x # <<>> PROVE InDir(tree2, x)
  <2>1. CASE x \in N
    BY <1>2, <2>1 DEF InDir
  <2>2. CASE x \notin N
    <3>1. x \in Path /\ ~IsPrefix(p, x) /\ InDir(tree, x)
      BY <1>1, <1>6, <2>2
    <3>2. Front(x) \in Path /\ IsPrefix(Front(x), x)
      BY <1>6, <3>1, FrontIs DEF IsStrictPrefix
    <3>3. ~IsPrefix(p, Front(x))
      BY <3>1, <3>2, PrefixOrder
    <3> QED
      BY <3>1, <3>2, <3>3 DEF InDir
  <2> QED
    BY <2>1, <2>2
<1>7. \A m \in M : tree2[m] = tree[m]
  BY <1>1
<1> HIDE DEF new
<1>8. Placed(P \cup N, {new} \cup L, M, tree2)
  BY <1>1, <1>2, <1>3, <1>4, <1>5, <1>6, <1>7 DEF Placed
<1> QED
  BY <1>8 DEF new

\* A file is asked for.
LEMMA PlacedFile ==
  ASSUME NEW tree, NEW tree2, NEW p \in Path,
         NEW Q, p \in Q, NEW P \in SUBSET Path, P \subseteq Q,
         NEW M \in SUBSET Path, NEW L, Placed(Q, L, M, tree),
         \A x \in P : ~IsPrefix(p, x) /\ ~IsPrefix(x, p),
         tree2[p].type \in {"file", "absent"},
         \A q \in Path : ~IsPrefix(p, q) => tree2[q] = tree[q],
         NEW M2, M2 = M \cup {p}
  PROVE  Placed(P, L, M2, tree2)
<1>1. ASSUME NEW x \in P \cup M \cup {p}, x # <<>> PROVE InDir(tree2, x)
  <2>1. x \in Path /\ InDir(tree, x) /\ (x = p \/ ~IsPrefix(p, x))
    BY <1>1 DEF Placed
  <2>2. Front(x) \in Path /\ IsStrictPrefix(Front(x), x)
    BY <1>1, <2>1, FrontIs
  <2>3. ~IsPrefix(p, Front(x))
    BY <2>1, <2>2, PrefixOrder DEF IsStrictPrefix
  <2> QED
    BY <2>1, <2>2, <2>3 DEF InDir
<1>2. \A m \in M : ~IsPrefix(p, m) /\ tree2[m] = tree[m]
  BY DEF Placed
<1> QED
  BY <1>1, <1>2 DEF Placed

\* There is less to do.
LEMMA PlacedLess ==
  ASSUME NEW tree, NEW P, NEW L, NEW M, Placed(P, L, M, tree),
         NEW P1 \in SUBSET P, NEW L1 \in SUBSET L, NEW M1 \in SUBSET M
  PROVE  Placed(P1, L1, M1, tree)
BY DEF Placed

\* What is on the way to something that is kept is not removed when a directory is left.
LEMMA LeftAlone ==
  ASSUME NEW tree, NEW l \in Visits, l.names \subseteq Children(l.path),
         NEW x \in Path, IsStrictPrefix(l.path, x) => Kept(x, l),
         NEW y \in Path, IsPrefix(y, x)
  PROVE  Without(tree, Gone(l))[y] = tree[y]
<1> DEFINE gone == Gone(l)
<1>0. l.path \in Path /\ gone = Children(l.path) \ l.names
  BY DEF Visits, Gone
<1>1. ASSUME NEW c \in gone PROVE ~IsPrefix(c, y)
  <2> SUFFICES ASSUME IsPrefix(c, y) PROVE FALSE
    OBVIOUS
  <2>1. c \in Path /\ IsStrictPrefix(l.path, c) /\ Len(c) = Len(l.path) + 1
    BY <1>0, ChildrenAre DEF Children, Below
  <2>2. IsPrefix(c, x)
    BY <2>1, PrefixOrder
  <2>3. IsStrictPrefix(l.path, x)
    BY <1>0, <2>1, <2>2, PrefixOrder DEF IsStrictPrefix
  <2>4. PICK n \in l.names : IsPrefix(n, x)
    BY <2>3 DEF Kept
  <2>5. n \in Path /\ Len(n) = Len(l.path) + 1
    BY <1>0, <2>4, ChildrenAre DEF Children, Below
  <2>6. n = c
    BY <2>1, <2>2, <2>4, <2>5, PrefixOrder
  <2> QED
    BY <1>0, <2>4, <2>6
<1> QED
  BY <1>1, Removed

\* A directory is left.
LEMMA PlacedLeft ==
  ASSUME NEW tree, NEW P \in SUBSET Path, NEW M \in SUBSET Path, NEW L, NEW l \in L,
         Placed(P, L, M, tree), l \in Visits
  PROVE  Placed(P, L, M, Without(tree, Gone(l)))
<1> DEFINE tree2 == Without(tree, Gone(l))
<1>1. /\ l.names \subseteq Children(l.path)
      /\ \A x \in P \cup M : x \in Path /\ (IsStrictPrefix(l.path, x) => Kept(x, l))
  BY DEF Placed
<1>2. ASSUME NEW x \in P \cup M, NEW y \in Path, IsPrefix(y, x) PROVE tree2[y] = tree[y]
  BY <1>1, <1>2, LeftAlone
<1> HIDE DEF tree2
<1>3. ASSUME NEW x \in P \cup M, x # <<>> PROVE InDir(tree2, x)
  <2>1. Front(x) \in Path /\ IsPrefix(Front(x), x)
    BY <1>3, FrontIs DEF IsStrictPrefix
  <2>2. InDir(tree, x)
    BY <1>3 DEF Placed
  <2> QED
    BY <1>2, <2>1, <2>2 DEF InDir
<1>4. \A m \in M : tree2[m] = tree[m]
  BY <1>2, PrefixOrder
<1>5. Placed(P, L, M, tree2)
  BY <1>3, <1>4 DEF Placed
<1> QED
  BY <1>5 DEF tree2

\* A file is written.
LEMMA PlacedWritten ==
  ASSUME NEW tree, NEW tree2, NEW P \in SUBSET Path, NEW M \in SUBSET Path, NEW L,
         Placed(P, L, M, tree), NEW m \in M, tree2[m].type \in {"file", "absent"},
         \A q \in Path : q # m => tree2[q] = tree[q]
  PROVE  Placed(P, L, M, tree2)
<1>1. ASSUME NEW x \in P \cup M, x # <<>> PROVE InDir(tree2, x)
  <2>1. Front(x) \in Path /\ InDir(tree, x)
    BY <1>1, FrontIs DEF Placed
  <2>2. tree[m] # Dir
    BY DEF Placed, Dir
  <2> QED
    BY <2>1, <2>2 DEF InDir
<1>2. \A y \in M : tree2[y].type \in {"file", "absent"}
  BY DEF Placed
<1> QED
  BY <1>1, <1>2 DEF Placed

-----------------------------------------------------------------------------
(* What has been received is right.                                        *)

\* A directory is made; what it does not have will be removed when it is left.
LEMMA SyncDirectory ==
  ASSUME NEW src, NEW tree, NEW tree2, NEW p \in Path, NEW Q, NEW L, NEW M, NEW d,
         Grown(src), src[p] = Dir,
         tree2[p] = Dir, \A q \in Path : ~IsPrefix(p, q) => tree2[q] = tree[q],
         InSync(Q, L, M, tree, src, d),
         NEW P, \A x \in Q : x = p \/ x \in P, Present(src, p) \subseteq P,
         NEW K, L \subseteq K, Leave(p, Present(src, p)) \in K
  PROVE  InSync(P, K, M, tree2, src, d)
<1> DEFINE N == Present(src, p)
           new == Leave(p, N)
<1>1. new.path = p /\ new.names = N
  BY DEF Leave
<1>a. new \in K /\ N \subseteq P
  OBVIOUS
<1> HIDE DEF new
<1>2. ASSUME NEW q \in Path, \A x \in P : ~IsPrefix(x, q)
      PROVE  /\ src[q] = Dir => tree2[q] = Dir
             /\ src[q].type = "file" => tree2[q] = src[q] \/ q \in M
             /\ src[q] = Absent /\ d =>
                  \/ tree2[q] = Absent
                  \/ \E l \in K : IsStrictPrefix(l.path, q) /\ ~Kept(q, l)
                  \/ \E r \in Path : IsStrictPrefix(r, q) /\ src[r].type = "link"
             /\ src[q] # Other
  <2>1. CASE ~IsPrefix(p, q)
    <3>1. tree2[q] = tree[q] /\ \A x \in Q : ~IsPrefix(x, q)
      BY <1>2, <2>1
    <3> QED
      BY <3>1 DEF InSync
  <2>2. CASE p = q
    BY <2>2 DEF Dir, Absent, Other
  <2>3. CASE IsStrictPrefix(p, q)
    <3>1. PICK c \in Children(p) : IsPrefix(c, q)
      BY <2>3, ChildToward
    <3>2. c \in Path /\ src[c] = Absent
      BY <1>2, <3>1 DEF Present, Children, Below
    <3>3. src[q] = Absent
      <4>1. CASE c = q
        BY <3>2, <4>1
      <4>2. CASE c # q
        <5>1. IsStrictPrefix(c, q)
          BY <3>1, <4>2 DEF IsStrictPrefix
        <5> QED
          BY <3>2, <5>1, BelowIsAbsent DEF Dir, Absent
      <4> QED
        BY <4>1, <4>2
    <3>4. IsStrictPrefix(new.path, q) /\ ~Kept(q, new)
      BY <1>1, <1>a, <1>2, <2>3 DEF Kept
    <3> QED
      BY <1>a, <3>3, <3>4 DEF Absent, Dir, Other
  <2> QED
    BY <2>1, <2>2, <2>3 DEF IsStrictPrefix
<1> QED
  BY <1>2 DEF InSync

\* Something else than a directory is received.
LEMMA SyncLeaf ==
  ASSUME NEW src, NEW tree, NEW tree2, NEW p \in Path, NEW P, NEW Q, Q \subseteq {p} \cup P,
         NEW L, NEW M, NEW M2, NEW d,
         Grown(src), Grown(tree2), src[p] # Dir, src[p] # Other,
         tree2[p] # Dir \/ src[p].type = "link",
         src[p].type = "file" => tree2[p] = src[p] \/ p \in M2,
         src[p] = Absent => tree2[p] = Absent,
         \A q \in Path : ~IsPrefix(p, q) => tree2[q] = tree[q],
         M \subseteq M2,
         InSync(Q, L, M, tree, src, d)
  PROVE  InSync(P, L, M2, tree2, src, d)
<1>1. ASSUME NEW q \in Path, \A x \in P : ~IsPrefix(x, q)
      PROVE  /\ src[q] = Dir => tree2[q] = Dir
             /\ src[q].type = "file" => tree2[q] = src[q] \/ q \in M2
             /\ src[q] = Absent /\ d =>
                  \/ tree2[q] = Absent
                  \/ \E l \in L : IsStrictPrefix(l.path, q) /\ ~Kept(q, l)
                  \/ \E r \in Path : IsStrictPrefix(r, q) /\ src[r].type = "link"
             /\ src[q] # Other
  <2>1. CASE ~IsPrefix(p, q)
    <3>1. tree2[q] = tree[q] /\ \A x \in Q : ~IsPrefix(x, q)
      BY <1>1, <2>1
    <3> QED
      BY <3>1 DEF InSync
  <2>2. CASE p = q
    BY <2>2
  <2>3. CASE IsStrictPrefix(p, q)
    <3>1. src[q] = Absent
      BY <2>3, BelowIsAbsent
    <3>2. CASE src[p].type = "link"
      BY <2>3, <3>1, <3>2 DEF Absent, Dir, Other
    <3>3. CASE tree2[p] # Dir
      <4>1. tree2[q] = Absent
        BY <2>3, <3>3, BelowIsAbsent
      <4> QED
        BY <3>1, <4>1 DEF Absent, Dir, Other
    <3> QED
      BY <3>2, <3>3
  <2> QED
    BY <2>1, <2>2, <2>3 DEF IsStrictPrefix
<1> QED
  BY <1>1 DEF InSync

\* A directory is left.
LEMMA SyncLeft ==
  ASSUME NEW src, NEW tree, NEW P, NEW L, NEW K, NEW M, NEW d, NEW l, K \subseteq {l} \cup L,
         Grown(src), l \in Visits, l.names = Present(src, l.path),
         InSync(P, K, M, tree, src, d),
         NEW tree2, tree2 = IF d THEN Without(tree, Gone(l)) ELSE tree
  PROVE  InSync(P, L, M, tree2, src, d)
<1> DEFINE gone == Gone(l)
<1>0. l.path \in Path /\ gone = Children(l.path) \ l.names
  BY DEF Visits, Gone
<1>1. ASSUME NEW q \in Path, src[q] # Absent
      PROVE  tree2[q] = tree[q]
  <2>1. ASSUME NEW c \in gone, IsPrefix(c, q) PROVE FALSE
    <3>1. c \in Path /\ src[c] = Absent
      BY <1>0 DEF Present, Children, Below
    <3>2. IsStrictPrefix(c, q)
      BY <1>1, <2>1, <3>1 DEF IsStrictPrefix
    <3> QED
      BY <1>1, <3>1, <3>2, BelowIsAbsent DEF Dir, Absent
  <2>2. Without(tree, gone)[q] = tree[q]
    BY <1>0, <2>1, Removed
  <2> QED
    BY <2>2
<1>2. ASSUME NEW q \in Path, d, IsStrictPrefix(l.path, q), ~Kept(q, l)
      PROVE  tree2[q] = Absent
  <2>1. PICK c \in Children(l.path) : IsPrefix(c, q)
    BY <1>0, <1>2, ChildToward
  <2>2. c \in gone
    BY <1>0, <1>2, <2>1 DEF Kept
  <2>3. Without(tree, gone)[q] = Absent
    BY <2>1, <2>2, Removed
  <2> QED
    BY <1>2, <2>3
<1>3. \A q \in Path : tree2[q] \in {tree[q], Absent}
  <2>1. \A q \in Path : Without(tree, gone)[q] \in {tree[q], Absent}
    BY Removed
  <2> QED
    BY <2>1
<1> HIDE DEF gone
<1>4. ASSUME NEW q \in Path, \A x \in P : ~IsPrefix(x, q)
      PROVE  /\ src[q] = Dir => tree2[q] = Dir
             /\ src[q].type = "file" => tree2[q] = src[q] \/ q \in M
             /\ src[q] = Absent /\ d =>
                  \/ tree2[q] = Absent
                  \/ \E k \in L : IsStrictPrefix(k.path, q) /\ ~Kept(q, k)
                  \/ \E r \in Path : IsStrictPrefix(r, q) /\ src[r].type = "link"
             /\ src[q] # Other
  <2>1. /\ src[q] = Dir => tree[q] = Dir
        /\ src[q].type = "file" => tree[q] = src[q] \/ q \in M
        /\ src[q] = Absent /\ d =>
             \/ tree[q] = Absent
             \/ \E k \in K : IsStrictPrefix(k.path, q) /\ ~Kept(q, k)
             \/ \E r \in Path : IsStrictPrefix(r, q) /\ src[r].type = "link"
        /\ src[q] # Other
    BY <1>4 DEF InSync
  <2>2. src[q] = Dir \/ src[q].type = "file" => tree2[q] = tree[q]
    BY <1>1 DEF Dir, Absent
  <2>3. tree[q] = Absent => tree2[q] = Absent
    BY <1>3
  <2>4. d /\ IsStrictPrefix(l.path, q) /\ ~Kept(q, l) => tree2[q] = Absent
    BY <1>2
  <2> QED
    BY <2>1, <2>2, <2>3, <2>4
<1> QED
  BY <1>4 DEF InSync

\* A file is written.
LEMMA SyncWritten ==
  ASSUME NEW src, NEW tree, NEW tree2, NEW P, NEW L, NEW M, NEW M2, NEW d, NEW m,
         InSync(P, L, M, tree, src, d),
         src[m].type = "file", \A q \in Path : q # m => tree2[q] = tree[q],
         M \subseteq M2 \cup {m}, m \in M2 \/ tree2[m] = src[m]
  PROVE  InSync(P, L, M2, tree2, src, d)
<1>1. src[m] # Absent /\ src[m] # Dir /\ src[m] # Other
  BY DEF Absent, Dir, Other
<1> QED
  BY <1>1 DEF InSync

\* There is nothing to write.
LEMMA SyncDropped ==
  ASSUME NEW src, NEW tree, NEW P, NEW L, NEW M, NEW M2, NEW d, NEW m,
         InSync(P, L, M, tree, src, d), src[m].type # "file", M \subseteq M2 \cup {m}
  PROVE  InSync(P, L, M2, tree, src, d)
BY DEF InSync

\* A link is made.
LEMMA SyncLink ==
  ASSUME NEW src, NEW tree, NEW p \in Path, NEW e, NEW P, NEW L, NEW M, NEW d,
         Grown(src), src[p].type = "link",
         InSync(P, L, M, tree, src, d)
  PROVE  InSync(P, L, M, With(tree, p, e), src, d)
<1> DEFINE tree2 == With(tree, p, e)
<1>1. \A q \in Path : ~IsPrefix(p, q) => tree2[q] = tree[q]
  BY Replaced
<1>2. src[p] # Dir /\ src[p] # Absent
  BY DEF Dir, Absent
<1>3. ASSUME NEW q \in Path, IsPrefix(p, q), q # p PROVE IsStrictPrefix(p, q) /\ src[q] = Absent
  BY <1>2, <1>3, BelowIsAbsent DEF IsStrictPrefix
<1> HIDE DEF tree2
<1>4. ASSUME NEW q \in Path, \A x \in P : ~IsPrefix(x, q)
      PROVE  /\ src[q] = Dir => tree2[q] = Dir
             /\ src[q].type = "file" => tree2[q] = src[q] \/ q \in M
             /\ src[q] = Absent /\ d =>
                  \/ tree2[q] = Absent
                  \/ \E k \in L : IsStrictPrefix(k.path, q) /\ ~Kept(q, k)
                  \/ \E r \in Path : IsStrictPrefix(r, q) /\ src[r].type = "link"
             /\ src[q] # Other
  <2>1. CASE ~IsPrefix(p, q)
    BY <1>1, <1>4, <2>1 DEF InSync
  <2>2. CASE q = p
    BY <1>2, <1>4, <2>2 DEF InSync
  <2>3. CASE IsPrefix(p, q) /\ q # p
    <3>1. IsStrictPrefix(p, q) /\ src[q] = Absent
      BY <1>3, <2>3
    <3> QED
      BY <3>1 DEF Absent, Dir, Other
  <2> QED
    BY <2>1, <2>2, <2>3
<1>5. InSync(P, L, M, tree2, src, d)
  BY <1>4 DEF InSync
<1> QED
  BY <1>5 DEF tree2

\* Nothing is left to be done, but for the files in M.
LEMMA SyncEnds ==
  ASSUME NEW src, NEW tree, Grown(tree), NEW M, NEW d, InSync({}, {}, M, tree, src, d),
         \A q \in Path : src[q].type = "link" => tree[q].type = "link", NEW q \in Path
  PROVE  /\ src[q] # Other
         /\ src[q] = Dir => tree[q] = Dir
         /\ src[q].type = "file" => tree[q] = src[q] \/ q \in M
         /\ src[q] = Absent /\ d => tree[q] = Absent
<1>1. /\ src[q] = Dir => tree[q] = Dir
      /\ src[q].type = "file" => tree[q] = src[q] \/ q \in M
      /\ src[q] = Absent /\ d =>
           tree[q] = Absent \/ \E r \in Path : IsStrictPrefix(r, q) /\ src[r].type = "link"
      /\ src[q] # Other
  BY DEF InSync
<1>2. ASSUME NEW r \in Path, IsStrictPrefix(r, q), src[r].type = "link" PROVE tree[q] = Absent
  <2>1. tree[r] # Dir
    BY <1>2 DEF Dir
  <2> QED
    BY <1>2, <2>1, BelowIsAbsent
<1> QED
  BY <1>1, <1>2

-----------------------------------------------------------------------------
(* What is on the wire about the tree.                                     *)

IsTreePart(msg) == msg.type \in {"dir", "file", "link"}

\* Other messages leave what is to visit alone.
LEMMA OtherTurns ==
  ASSUME NEW v, NEW msg, ~IsTreePart(msg), NEW h, NEW p
  PROVE  Describes(h, p, msg) /\ \A w : Turns(v, msg, w) <=> w = v
BY DEF IsTreePart, Describes, Turns

LEMMA PlanReceived ==
  ASSUME NEW M, NEW w \in Seq(M), w # <<>>, NEW h, NEW R, NEW v, Planned(v, w, h, R)
  PROVE  \E u \in Seq(Path) : /\ Turns(v, Head(w), u) /\ Describes(h, Head(v), Head(w))
                              /\ Planned(u, Tail(w), h, R)
<1> DEFINE n == Len(w)
           x == Tail(w)
<1>1. /\ n \in Nat \ {0} /\ Len(x) = n - 1 /\ Head(w) = w[1]
      /\ \A i \in 1..n - 1 : x[i] = w[i + 1]
  BY TailIs
<1>2. PICK V \in [0..n -> Seq(Path)] :
        /\ V[0] = v /\ V[n] \in R
        /\ \A i \in 1..n : Turns(V[i - 1], w[i], V[i]) /\ Describes(h, Head(V[i - 1]), w[i])
  BY DEF Planned
<1> HIDE DEF n, x
<1> DEFINE U == [i \in 0..n - 1 |-> V[i + 1]]
<1>3. U \in [0..Len(x) -> Seq(Path)]
  BY <1>1
<1>4. U[0] = V[1] /\ U[Len(x)] = V[n] /\ \A i \in 1..n - 1 : U[i - 1] = V[i] /\ U[i] = V[i + 1]
  BY <1>1
<1> HIDE DEF U
<1>5. ASSUME NEW i \in 1..Len(x)
      PROVE  Turns(U[i - 1], x[i], U[i]) /\ Describes(h, Head(U[i - 1]), x[i])
  <2> DEFINE j == i + 1
  <2>1. j \in 1..n /\ j - 1 = i /\ i \in 1..n - 1
    BY <1>1
  <2>2. Turns(V[j - 1], w[j], V[j]) /\ Describes(h, Head(V[j - 1]), w[j])
    BY <1>2, <2>1
  <2>3. U[i - 1] = V[j - 1] /\ U[i] = V[j] /\ x[i] = w[j]
    BY <1>1, <1>4, <2>1
  <2> HIDE DEF j
  <2> QED
    BY <2>2, <2>3
<1>6. Planned(V[1], x, h, R)
  BY <1>1, <1>2, <1>3, <1>4, <1>5 DEF Planned
<1>7. V[1] \in Seq(Path) /\ Turns(v, Head(w), V[1]) /\ Describes(h, Head(v), Head(w))
  <2>1. 1 \in 1..n /\ 1 - 1 = 0 /\ 1 \in 0..n
    BY <1>1
  <2> QED
    BY <1>1, <1>2, <2>1
<1> QED
  BY <1>6, <1>7 DEF x

LEMMA PlanSent ==
  ASSUME NEW M, NEW w \in Seq(M), NEW msg \in M, NEW h, NEW R, NEW S, NEW v, Planned(v, w, h, R),
         \A r \in R \cap Seq(Path) :
           \E s \in S \cap Seq(Path) : Turns(r, msg, s) /\ Describes(h, Head(r), msg)
  PROVE  Planned(v, Append(w, msg), h, S)
<1> DEFINE n == Len(w)
           x == Append(w, msg)
<1>1. /\ n \in Nat /\ Len(x) = n + 1 /\ x[n + 1] = msg
      /\ \A i \in 1..n : x[i] = w[i]
  BY AppendIs
<1>2. PICK V \in [0..n -> Seq(Path)] :
        /\ V[0] = v /\ V[n] \in R
        /\ \A i \in 1..n : Turns(V[i - 1], w[i], V[i]) /\ Describes(h, Head(V[i - 1]), w[i])
  BY DEF Planned
<1> HIDE DEF n, x
<1>3. PICK s \in S \cap Seq(Path) : Turns(V[n], msg, s) /\ Describes(h, Head(V[n]), msg)
  BY <1>1, <1>2, SMTT(20)
<1> DEFINE U == [i \in 0..n + 1 |-> IF i = n + 1 THEN s ELSE V[i]]
<1>4. /\ U \in [0..Len(x) -> Seq(Path)] /\ U[0] = V[0] /\ U[n + 1] = s
      /\ \A i \in 0..n : U[i] = V[i]
  BY <1>1, <1>3
<1> HIDE DEF U
<1>5. ASSUME NEW i \in 1..n + 1
      PROVE  Turns(U[i - 1], x[i], U[i]) /\ Describes(h, Head(U[i - 1]), x[i])
  <2>1. CASE i \in 1..n
    <3>1. U[i - 1] = V[i - 1] /\ U[i] = V[i] /\ x[i] = w[i]
      BY <1>1, <1>4, <2>1
    <3> QED
      BY <1>2, <2>1, <3>1
  <2>2. CASE i = n + 1
    <3>1. U[i - 1] = V[n] /\ U[i] = s /\ x[i] = msg
      BY <1>1, <1>4, <2>2
    <3> QED
      BY <1>3, <3>1
  <2> QED
    BY <1>1, <2>1, <2>2
<1>6. Planned(v, x, h, S)
  BY <1>1, <1>2, <1>3, <1>4, <1>5 DEF Planned
<1> QED
  BY <1>6 DEF x

\* Other messages are sent.
LEMMA OtherPlanned ==
  ASSUME NEW M, NEW w \in Seq(M), NEW x \in Seq(M), \A i \in DOMAIN x : ~IsTreePart(x[i]),
         NEW h, NEW R, NEW v, Planned(v, w, h, R)
  PROVE  Planned(v, w \o x, h, R)
<1> DEFINE n == Len(w)
           k == Len(x)
           y == w \o x
<1>1. /\ n \in Nat /\ k \in Nat /\ Len(y) = n + k
      /\ \A i \in 1..n : y[i] = w[i]
      /\ \A i \in 1..n + k : i \in 1..n \/ ~IsTreePart(y[i])
  BY JoinedIs
<1>2. PICK V \in [0..n -> Seq(Path)] :
        /\ V[0] = v /\ V[n] \in R
        /\ \A i \in 1..n : Turns(V[i - 1], w[i], V[i]) /\ Describes(h, Head(V[i - 1]), w[i])
  BY DEF Planned
<1> HIDE DEF n, k, y
<1> DEFINE U == [i \in 0..n + k |-> IF i > n THEN V[n] ELSE V[i]]
<1>3. /\ U \in [0..Len(y) -> Seq(Path)] /\ U[0] = V[0] /\ U[n + k] = V[n]
      /\ \A i \in 0..n : U[i] = V[i]
      /\ \A i \in n..n + k : U[i] = V[n]
  BY <1>1
<1> HIDE DEF U
<1>4. ASSUME NEW i \in 1..n + k
      PROVE  Turns(U[i - 1], y[i], U[i]) /\ Describes(h, Head(U[i - 1]), y[i])
  <2>1. CASE i \in 1..n
    <3>1. U[i - 1] = V[i - 1] /\ U[i] = V[i] /\ y[i] = w[i]
      BY <1>1, <1>3, <2>1
    <3> QED
      BY <1>2, <2>1, <3>1
  <2>2. CASE i \notin 1..n
    <3>1. U[i - 1] = V[n] /\ U[i] = V[n] /\ ~IsTreePart(y[i])
      BY <1>1, <1>3, <2>2
    <3> QED
      BY <3>1, OtherTurns
  <2> QED
    BY <2>1, <2>2
<1>5. Planned(v, y, h, R)
  BY <1>1, <1>2, <1>3, <1>4 DEF Planned
<1> QED
  BY <1>5 DEF y

\* What the messages are judged by changes, and they are still right.
LEMMA PlanKept ==
  ASSUME NEW M, NEW w \in Seq(M), NEW h, NEW k, NEW R, NEW S, R \cap Seq(Path) \subseteq S,
         NEW v, Planned(v, w, h, R),
         \A p \in Path, msg \in M : Describes(h, p, msg) => Describes(k, p, msg)
  PROVE  Planned(v, w, k, S)
<1>1. PICK V \in [0..Len(w) -> Seq(Path)] :
        /\ V[0] = v /\ V[Len(w)] \in R
        /\ \A i \in 1..Len(w) :
             Turns(V[i - 1], w[i], V[i]) /\ Describes(h, Head(V[i - 1]), w[i])
  BY DEF Planned
<1>2. ASSUME NEW i \in 1..Len(w) PROVE Describes(k, Head(V[i - 1]), w[i])
  <2>1. CASE IsTreePart(w[i])
    <3>1. V[i - 1] \in Seq(Path) /\ w[i] \in M
      OBVIOUS
    <3>2. V[i - 1] # <<>>
      BY <1>1, <2>1 DEF Turns, IsTreePart
    <3>3. Head(V[i - 1]) \in Path
      BY <3>1, <3>2
    <3> QED
      BY <1>1, <3>1, <3>3
  <2> QED
    BY <2>1, OtherTurns
<1>3. V[Len(w)] \in S
  <2>1. Len(w) \in 0..Len(w)
    OBVIOUS
  <2> QED
    BY <1>1, <2>1
<1> QED
  BY <1>1, <1>2, <1>3 DEF Planned

LEMMA PlanEmpty ==
  ASSUME NEW v \in Seq(Path), NEW h, NEW R
  PROVE  Planned(v, <<>>, h, R) <=> v \in R
<1>1. Len(<<>>) = 0 /\ 0..0 = {0} /\ 1..0 = {}
  OBVIOUS
<1>2. ASSUME v \in R PROVE Planned(v, <<>>, h, R)
  <2> DEFINE V == [i \in {0} |-> v]
  <2>1. V \in [0..Len(<<>>) -> Seq(Path)] /\ V[0] = v
    BY <1>1
  <2> HIDE DEF V
  <2> QED
    BY <1>1, <1>2, <2>1 DEF Planned
<1>3. ASSUME Planned(v, <<>>, h, R) PROVE v \in R
  BY <1>1, <1>3 DEF Planned
<1> QED
  BY <1>2, <1>3

-----------------------------------------------------------------------------
(* What the target has to visit.                                           *)

\* A directory is left.
LEMMA ListsLeft ==
  ASSUME NEW v \in Seq(Path), NEW s \in Seq(Visits), s # <<>>, s[1].leave, Lists(v, s)
  PROVE  Lists(v, Tail(s))
<1> DEFINE r == Tail(s)
<1>1. /\ DOMAIN s \subseteq Nat /\ DOMAIN r \subseteq Nat
      /\ \A i \in DOMAIN r : r[i] = s[i + 1] /\ i + 1 \in DOMAIN s
      /\ \A i \in DOMAIN s : i = 1 \/ i - 1 \in DOMAIN r
  BY TailIs
<1>2. PICK f \in [DOMAIN v -> DOMAIN s] :
        /\ \A k \in DOMAIN v : ~s[f[k]].leave /\ v[k] = s[f[k]].path
        /\ \A k, l \in DOMAIN v : k < l => f[k] < f[l]
        /\ \A i \in DOMAIN s : ~s[i].leave => \E k \in DOMAIN v : f[k] = i
  BY DEF Lists
<1> HIDE DEF r
<1>3. \A k \in DOMAIN v : f[k] \in Nat /\ f[k] # 1 /\ f[k] - 1 \in DOMAIN r /\ (f[k] - 1) + 1 = f[k]
  BY <1>1, <1>2
<1> DEFINE g == [k \in DOMAIN v |-> f[k] - 1]
<1>4. g \in [DOMAIN v -> DOMAIN r] /\ \A k \in DOMAIN v : g[k] = f[k] - 1
  BY <1>3
<1> HIDE DEF g
<1>5. \A k \in DOMAIN v : ~r[g[k]].leave /\ v[k] = r[g[k]].path
  <2> SUFFICES ASSUME NEW k \in DOMAIN v PROVE ~r[g[k]].leave /\ v[k] = r[g[k]].path
    OBVIOUS
  <2>1. r[g[k]] = s[f[k]]
    BY <1>1, <1>3, <1>4
  <2> QED
    BY <1>2, <2>1
<1>6. ASSUME NEW k \in DOMAIN v, NEW l \in DOMAIN v, k < l PROVE g[k] < g[l]
  BY <1>2, <1>3, <1>4, <1>6
<1>7. ASSUME NEW i \in DOMAIN r, ~r[i].leave PROVE \E k \in DOMAIN v : g[k] = i
  <2>1. PICK k \in DOMAIN v : f[k] = i + 1
    BY <1>1, <1>2, <1>7
  <2> QED
    BY <1>1, <1>4, <2>1
<1>8. Lists(v, r)
  BY <1>4, <1>5, <1>6, <1>7 DEF Lists
<1> QED
  BY <1>8 DEF r

\* A path is visited.
LEMMA ListsVisited ==
  ASSUME NEW v \in Seq(Path), NEW s \in Seq(Visits), s # <<>>, ~s[1].leave, Lists(v, s)
  PROVE  v # <<>> /\ Head(v) = s[1].path /\ Lists(Tail(v), Tail(s))
<1> DEFINE r == Tail(s)
           u == Tail(v)
<1>1. /\ DOMAIN s \subseteq Nat \ {0} /\ DOMAIN r \subseteq Nat \ {0} /\ 1 \in DOMAIN s
      /\ \A i \in DOMAIN r : r[i] = s[i + 1] /\ i + 1 \in DOMAIN s
      /\ \A i \in DOMAIN s : i = 1 \/ i - 1 \in DOMAIN r
  BY TailIs
<1>2. PICK f \in [DOMAIN v -> DOMAIN s] :
        /\ \A k \in DOMAIN v : ~s[f[k]].leave /\ v[k] = s[f[k]].path
        /\ \A k, l \in DOMAIN v : k < l => f[k] < f[l]
        /\ \A i \in DOMAIN s : ~s[i].leave => \E k \in DOMAIN v : f[k] = i
  BY DEF Lists
<1>3. PICK k1 \in DOMAIN v : f[k1] = 1
  BY <1>1, <1>2
<1>4. v # <<>>
  BY <1>3
<1>5. /\ DOMAIN v \subseteq Nat \ {0} /\ DOMAIN u \subseteq Nat \ {0} /\ 1 \in DOMAIN v
      /\ \A i \in DOMAIN u : u[i] = v[i + 1] /\ i + 1 \in DOMAIN v
      /\ \A i \in DOMAIN v : i = 1 \/ i - 1 \in DOMAIN u
      /\ Head(v) = v[1]
  BY <1>4, TailIs
<1> HIDE DEF r, u
<1>6. k1 = 1
  <2> SUFFICES ASSUME 1 < k1 PROVE FALSE
    BY <1>3, <1>5, SMTT(20)
  <2>1. f[1] < f[k1] /\ f[1] \in Nat \ {0}
    BY <1>1, <1>2, <1>5
  <2> QED
    BY <1>3, <2>1
<1>7. \A k \in DOMAIN u : /\ f[k + 1] \in Nat /\ 1 < f[k + 1] /\ f[k + 1] - 1 \in DOMAIN r
                          /\ (f[k + 1] - 1) + 1 = f[k + 1]
  <2> SUFFICES ASSUME NEW k \in DOMAIN u
               PROVE  /\ f[k + 1] \in Nat /\ 1 < f[k + 1] /\ f[k + 1] - 1 \in DOMAIN r
                      /\ (f[k + 1] - 1) + 1 = f[k + 1]
    OBVIOUS
  <2>1. 1 < k + 1 /\ k + 1 \in DOMAIN v
    BY <1>5
  <2>2. f[1] < f[k + 1] /\ f[k + 1] \in DOMAIN s
    BY <1>2, <1>5, <2>1
  <2> QED
    BY <1>1, <1>3, <1>6, <2>2
<1> DEFINE g == [k \in DOMAIN u |-> f[k + 1] - 1]
<1>8. g \in [DOMAIN u -> DOMAIN r] /\ \A k \in DOMAIN u : g[k] = f[k + 1] - 1
  BY <1>7
<1> HIDE DEF g
<1>9. \A k \in DOMAIN u : ~r[g[k]].leave /\ u[k] = r[g[k]].path
  <2> SUFFICES ASSUME NEW k \in DOMAIN u PROVE ~r[g[k]].leave /\ u[k] = r[g[k]].path
    OBVIOUS
  <2>1. r[g[k]] = s[f[k + 1]] /\ u[k] = v[k + 1] /\ k + 1 \in DOMAIN v
    BY <1>1, <1>5, <1>7, <1>8
  <2> QED
    BY <1>2, <2>1
<1>10. ASSUME NEW k \in DOMAIN u, NEW l \in DOMAIN u, k < l PROVE g[k] < g[l]
  <2>1. k + 1 < l + 1 /\ k + 1 \in DOMAIN v /\ l + 1 \in DOMAIN v
    BY <1>5, <1>10
  <2>2. f[k + 1] < f[l + 1]
    BY <1>2, <2>1
  <2> QED
    BY <1>7, <1>8, <2>2
<1>11. ASSUME NEW i \in DOMAIN r, ~r[i].leave PROVE \E k \in DOMAIN u : g[k] = i
  <2>1. i + 1 \in DOMAIN s /\ ~s[i + 1].leave /\ i + 1 # 1 /\ (i + 1) - 1 = i
    BY <1>1, <1>11
  <2>2. PICK k \in DOMAIN v : f[k] = i + 1
    BY <1>2, <2>1
  <2>3. k - 1 \in DOMAIN u /\ (k - 1) + 1 = k
    BY <1>3, <1>5, <1>6, <2>1, <2>2
  <2> QED
    BY <1>8, <2>1, <2>2, <2>3
<1>12. Lists(u, r)
  BY <1>8, <1>9, <1>10, <1>11 DEF Lists
<1>13. Head(v) = s[1].path
  BY <1>2, <1>3, <1>5, <1>6
<1> QED
  BY <1>4, <1>12, <1>13 DEF u, r

\* What is visited after something else.
LEMMA ListsJoined ==
  ASSUME NEW u \in Seq(Path), NEW v \in Seq(Path), NEW s \in Seq(Visits), NEW r \in Seq(Visits),
         Lists(u, s), Lists(v, r)
  PROVE  Lists(u \o v, s \o r)
<1> DEFINE x == u \o v
           y == s \o r
           n == Len(u)
           m == Len(s)
<1>1. /\ n \in Nat /\ DOMAIN u \subseteq Nat /\ DOMAIN v \subseteq Nat /\ DOMAIN x \subseteq Nat
      /\ \A i \in DOMAIN u : i \in DOMAIN x /\ x[i] = u[i] /\ i <= n
      /\ \A i \in DOMAIN v : n + i \in DOMAIN x /\ x[n + i] = v[i] /\ n + i \notin DOMAIN u
      /\ \A i \in DOMAIN x :
           \/ i \in DOMAIN u /\ x[i] = u[i]
           \/ i \notin DOMAIN u /\ i > n /\ i - n \in DOMAIN v /\ x[i] = v[i - n]
  BY JoinedIs
<1>2. /\ m \in Nat /\ DOMAIN s \subseteq Nat /\ DOMAIN r \subseteq Nat \ {0}
      /\ \A i \in DOMAIN s : i \in DOMAIN y /\ y[i] = s[i] /\ i <= m
      /\ \A i \in DOMAIN r : m + i \in DOMAIN y /\ y[m + i] = r[i]
      /\ \A i \in DOMAIN y :
           \/ i \in DOMAIN s /\ y[i] = s[i]
           \/ i \notin DOMAIN s /\ i - m \in DOMAIN r /\ y[i] = r[i - m] /\ i = m + (i - m)
  BY JoinedIs
<1>3. PICK f \in [DOMAIN u -> DOMAIN s] :
        /\ \A k \in DOMAIN u : ~s[f[k]].leave /\ u[k] = s[f[k]].path
        /\ \A k, l \in DOMAIN u : k < l => f[k] < f[l]
        /\ \A i \in DOMAIN s : ~s[i].leave => \E k \in DOMAIN u : f[k] = i
  BY DEF Lists
<1>4. PICK g \in [DOMAIN v -> DOMAIN r] :
        /\ \A k \in DOMAIN v : ~r[g[k]].leave /\ v[k] = r[g[k]].path
        /\ \A k, l \in DOMAIN v : k < l => g[k] < g[l]
        /\ \A i \in DOMAIN r : ~r[i].leave => \E k \in DOMAIN v : g[k] = i
  BY DEF Lists
<1> HIDE DEF x, y, n, m
<1> DEFINE e == [k \in DOMAIN x |-> IF k \in DOMAIN u THEN f[k] ELSE m + g[k - n]]
<1>5. /\ \A k \in DOMAIN u : k \in DOMAIN x /\ e[k] = f[k] /\ f[k] \in DOMAIN s
      /\ \A k \in DOMAIN x : k \in DOMAIN u \/
           /\ k \notin DOMAIN u /\ k - n \in DOMAIN v /\ e[k] = m + g[k - n]
           /\ g[k - n] \in DOMAIN r
  BY <1>1
<1>6. \A k \in DOMAIN v : n + k \in DOMAIN x /\ e[n + k] = m + g[k]
  <2> SUFFICES ASSUME NEW k \in DOMAIN v PROVE n + k \in DOMAIN x /\ e[n + k] = m + g[k]
    OBVIOUS
  <2>1. n + k \in DOMAIN x /\ n + k \notin DOMAIN u /\ (n + k) - n = k
    BY <1>1
  <2> QED
    BY <2>1
<1>7. e \in [DOMAIN x -> DOMAIN y]
  BY <1>2, <1>5
<1> HIDE DEF e
<1>8. ASSUME NEW k \in DOMAIN x PROVE ~y[e[k]].leave /\ x[k] = y[e[k]].path
  <2>1. CASE k \in DOMAIN u
    <3>1. e[k] = f[k] /\ y[e[k]] = s[f[k]] /\ x[k] = u[k]
      BY <1>1, <1>2, <1>5, <2>1
    <3> QED
      BY <1>3, <2>1, <3>1
  <2>2. CASE k \notin DOMAIN u
    <3>1. k - n \in DOMAIN v /\ e[k] = m + g[k - n] /\ g[k - n] \in DOMAIN r
      BY <1>5, <2>2
    <3>2. y[e[k]] = r[g[k - n]] /\ x[k] = v[k - n]
      BY <1>1, <1>2, <2>2, <3>1
    <3> QED
      BY <1>4, <3>1, <3>2
  <2> QED
    BY <2>1, <2>2
<1>9. ASSUME NEW k \in DOMAIN x, NEW l \in DOMAIN x, k < l PROVE e[k] < e[l]
  <2>1. CASE k \in DOMAIN u /\ l \in DOMAIN u
    BY <1>3, <1>5, <1>9, <2>1
  <2>2. CASE k \in DOMAIN u /\ l \notin DOMAIN u
    <3>1. e[k] = f[k] /\ f[k] \in Nat /\ f[k] <= m
      BY <1>2, <1>5, <2>2
    <3>2. e[l] = m + g[l - n] /\ g[l - n] \in Nat \ {0}
      BY <1>2, <1>5, <2>2
    <3> QED
      BY <1>2, <3>1, <3>2
  <2>3. CASE k \notin DOMAIN u /\ l \notin DOMAIN u
    <3>1. k - n \in DOMAIN v /\ l - n \in DOMAIN v /\ k - n < l - n
      BY <1>1, <1>5, <1>9, <2>3
    <3>2. g[k - n] < g[l - n] /\ g[k - n] \in Nat /\ g[l - n] \in Nat
      BY <1>2, <1>4, <3>1
    <3> QED
      BY <1>2, <1>5, <2>3, <3>2
  <2>4. k \notin DOMAIN u => l \notin DOMAIN u
    <3> SUFFICES ASSUME k \notin DOMAIN u, l \in DOMAIN u PROVE FALSE
      OBVIOUS
    <3>1. k > n /\ l <= n
      BY <1>1
    <3> QED
      BY <1>1, <1>9, <3>1
  <2> QED
    BY <2>1, <2>2, <2>3, <2>4
<1>10. ASSUME NEW i \in DOMAIN y, ~y[i].leave PROVE \E k \in DOMAIN x : e[k] = i
  <2>1. CASE i \in DOMAIN s
    <3>1. PICK k \in DOMAIN u : f[k] = i
      BY <1>2, <1>3, <1>10, <2>1
    <3> QED
      BY <1>5, <3>1
  <2>2. CASE i \notin DOMAIN s
    <3>1. i - m \in DOMAIN r /\ ~r[i - m].leave /\ i = m + (i - m)
      BY <1>2, <1>10, <2>2
    <3>2. PICK k \in DOMAIN v : g[k] = i - m
      BY <1>4, <3>1
    <3> QED
      BY <1>6, <3>1, <3>2
  <2> QED
    BY <2>1, <2>2
<1>11. Lists(x, y)
  BY <1>7, <1>8, <1>9, <1>10 DEF Lists
<1> QED
  BY <1>11 DEF x, y

\* A directory is received.
LEMMA ListsPushed ==
  ASSUME NEW v \in Seq(Path), NEW r \in Seq(Visits), NEW p \in Path, NEW names \in Seq(Path),
         Lists(v, r)
  PROVE  LET s == [i \in DOMAIN names |-> Visit(names[i])] \o <<Leave(p, ToSet(names))>> \o r
         IN  s \in Seq(Visits) /\ Lists(names \o v, s)
<1> DEFINE visits == [i \in DOMAIN names |-> Visit(names[i])]
           l == Leave(p, ToSet(names))
           one == <<l>>
           rest == one \o r
<1>1. \A i \in DOMAIN names : visits[i].path = names[i] /\ ~visits[i].leave /\ visits[i] \in Visits
  BY DEF Visit, Visits
<1>2. DOMAIN names = 1..Len(names) /\ Len(names) \in Nat /\ DOMAIN visits = DOMAIN names
  OBVIOUS
<1>3. visits \in Seq(Visits)
  <2> HIDE DEF visits
  <2>1. visits = [i \in 1..Len(names) |-> visits[i]]
    BY <1>2 DEF visits
  <2> QED
    BY <1>1, <1>2, <2>1
<1>4. l \in Visits /\ l.leave
  <2>1. ToSet(names) \subseteq Path
    BY DEF ToSet
  <2> QED
    BY <2>1 DEF Leave, Visits
<1> HIDE DEF visits, l
<1>5. Lists(names, visits)
  <2> DEFINE f == [i \in DOMAIN names |-> i]
  <2>1. f \in [DOMAIN names -> DOMAIN visits] /\ \A i \in DOMAIN names : f[i] = i
    BY <1>2
  <2> HIDE DEF f
  <2>2. \A k \in DOMAIN names : ~visits[f[k]].leave /\ names[k] = visits[f[k]].path
    BY <1>1, <2>1
  <2>3. \A j, k \in DOMAIN names : j < k => f[j] < f[k]
    BY <2>1
  <2>4. \A i \in DOMAIN visits : \E k \in DOMAIN names : f[k] = i
    BY <1>2, <2>1
  <2> QED
    BY <2>1, <2>2, <2>3, <2>4, SMTT(20) DEF Lists
<1>6. one \in Seq(Visits) /\ DOMAIN one = {1} /\ one[1] = l
  BY <1>4
<1>7. Lists(<<>>, one)
  <2> DEFINE f == [i \in {} |-> i]
  <2>1. f \in [DOMAIN <<>> -> DOMAIN one] /\ DOMAIN <<>> = {}
    OBVIOUS
  <2> HIDE DEF f, one
  <2> QED
    BY <1>4, <1>6, <2>1 DEF Lists
<1> HIDE DEF one
<1>8. rest \in Seq(Visits) /\ Lists(<<>> \o v, rest)
  <2>1. <<>> \in Seq(Path)
    OBVIOUS
  <2>2. Lists(<<>> \o v, rest)
    BY <1>6, <1>7, <2>1, ListsJoined
  <2>3. rest \in Seq(Visits)
    BY <1>6
  <2> QED
    BY <2>2, <2>3
<1>9. <<>> \o v = v
  OBVIOUS
<1> HIDE DEF rest
<1>10. visits \o rest \in Seq(Visits) /\ Lists(names \o v, visits \o rest)
  BY <1>3, <1>5, <1>8, <1>9, ListsJoined, JoinedIs
<1>11. (visits \o one) \o r = visits \o rest
  BY <1>3, <1>6 DEF rest
<1> QED
  BY <1>10, <1>11 DEF visits, l, one

\* At the beginning, the directory itself is to visit.
LEMMA ListsRoot == Lists(<<<<>>>>, <<Visit(<<>>)>>)
<1> DEFINE f == [i \in {1} |-> 1]
           v == <<<<>>>>
           s == <<Visit(<<>>)>>
<1>1. DOMAIN v = {1} /\ DOMAIN s = {1} /\ v[1] = <<>> /\ s[1] = Visit(<<>>)
  OBVIOUS
<1>2. ~Visit(<<>>).leave /\ Visit(<<>>).path = <<>>
  BY DEF Visit
<1> HIDE DEF v, s
<1>3. f \in [DOMAIN v -> DOMAIN s] /\ f[1] = 1
  BY <1>1
<1> HIDE DEF f
<1>4. Lists(v, s)
  BY <1>1, <1>2, <1>3 DEF Lists
<1> QED
  BY <1>4 DEF v, s

-----------------------------------------------------------------------------
(* What a target does.                                                     *)

\* The others do nothing.
Only(t) ==
  /\ Local
  /\ \A u \in Target \ {t} : /\ task'[u] = task[u] /\ wire'[u] = wire[u] /\ stack'[u] = stack[u]
                             /\ modified'[u] = modified[u] /\ dest'[u] = dest[u]
  /\ queue' = queue \/ \E wish \in Wish : Request(t, wish)

LEMMA Alone ==
  ASSUME TypeOK, NEW t \in Target, Serve(t)
  PROVE  Only(t)
<1>1. \A type \in {"list_done", "ack", "links", "done", "end"} : [type |-> type] \in Wish
  BY DEF Wish
<1>2. CASE ReceiveDirectory(t) \/ ReceiveLink(t) \/ LeaveDirectory(t)
  BY <1>2 DEF ReceiveDirectory, ReceiveLink, LeaveDirectory, Descend, Receive, Only, TypeOK
<1>3. CASE ReceiveFile(t)
  <2>1. /\ UNCHANGED task /\ Receive(t, "file") /\ stack[t] # <<>>
        /\ dest' = dest \/ \E d : dest' = [dest EXCEPT ![t] = d]
        /\ modified' = modified \/ \E m : modified' = [modified EXCEPT ![t] = m]
        /\ stack' = [stack EXCEPT ![t] = Tail(@)]
    BY <1>3 DEF ReceiveFile, Descend
  <2>2. queue' = queue \/ \E wish \in Wish : Request(t, wish)
    <3> DEFINE e == dest[t][Top(t).path]
               msg == Head(wire[t])
               wish == [type |-> "send", path |-> Top(t).path,
                        checksum |-> IF SameSize(e, msg) THEN e.data ELSE None]
    <3>1. queue' = queue \/ Request(t, wish)
      BY <1>3 DEF ReceiveFile
    <3>2. wish \in Wish
      BY <2>1, FileAsked
    <3> QED
      BY <3>1, <3>2
  <2> QED
    BY <2>1, <2>2 DEF Receive, Only, TypeOK
<1>4. CASE TreeEnds(t) \/ FilesEnd(t) \/ ChannelCloses(t)
  <2>1. /\ \E type \in {"list_done", "links", "end"} : Request(t, [type |-> type])
        /\ \E x : task' = [task EXCEPT ![t] = x]
        /\ Local /\ UNCHANGED <<wire, stack, modified, dest>>
    BY <1>4 DEF TreeEnds, FilesEnd, ChannelCloses
  <2> QED
    BY <1>1, <2>1 DEF Only, TypeOK
<1>5. CASE LinksEnd(t)
  <2>1. /\ Request(t, [type |-> "done"]) /\ \E x : task' = [task EXCEPT ![t] = x]
        /\ Receive(t, "end") /\ UNCHANGED <<stack, modified, dest>>
    BY <1>5 DEF LinksEnd
  <2> QED
    BY <1>1, <2>1 DEF Only, TypeOK, Receive
<1>6. CASE ReceiveData(t)
  <2>1. /\ Request(t, [type |-> "ack"]) /\ \E x : task' = [task EXCEPT ![t] = x]
        /\ Receive(t, "data") /\ UNCHANGED stack
        /\ dest' = dest \/ \E d : dest' = [dest EXCEPT ![t] = d]
        /\ modified' = modified \/ \E m : modified' = [modified EXCEPT ![t] = m]
    BY <1>6 DEF ReceiveData
  <2> QED
    BY <1>1, <2>1 DEF Only, TypeOK, Receive
<1>7. CASE Write(t) \/ Utime(t)
  <2>1. /\ \E x : task' = [task EXCEPT ![t] = x]
        /\ Local /\ UNCHANGED <<queue, wire, stack>>
        /\ dest' = dest \/ \E d : dest' = [dest EXCEPT ![t] = d]
        /\ modified' = modified \/ \E m : modified' = [modified EXCEPT ![t] = m]
    BY <1>7 DEF Write, Utime
  <2> QED
    BY <2>1 DEF Only, TypeOK
<1>8. CASE MakeLink(t)
  BY <1>8 DEF MakeLink, Receive, Only, TypeOK
<1> QED
  BY <1>2, <1>3, <1>4, <1>5, <1>6, <1>7, <1>8 DEF Serve

\* A target that is at work is one of those of this send().
LEMMA InUse ==
  ASSUME TaskInv, NEW t \in Target, Lives(t), task[t] \notin {"none", "done", "closed"}
  PROVE  t \in channels
BY DEF TaskInv

\* The message is about the path for which it will be taken.
LEMMA HeadDescribed ==
  ASSUME TypeOK, PlanInv, TaskInv, NEW t \in Target, task[t] = "tree", stack[t] # <<>>,
         ~Top(t).leave, wire[t] # <<>>, IsTreePart(Head(wire[t]))
  PROVE  LET msg == Head(wire[t])
         IN  /\ Describes(World, Top(t).path, msg)
             /\ \E v \in Seq(Path) :
                  /\ Lists(v, Tail(stack[t]))
                  /\ Planned(IF msg.type = "dir" THEN msg.names \o v ELSE v,
                             Tail(wire[t]), World, Rests)
<1>1. t \in channels /\ Lives(t)
  BY InUse DEF Lives
<1>2. PICK v \in Seq(Path) : Lists(v, stack[t]) /\ Planned(v, wire[t], World, Rests)
  BY <1>1 DEF PlanInv
<1>3. stack[t] \in Seq(Visits) /\ wire[t] \in Seq(Message)
  BY DEF TypeOK
<1>4. v # <<>> /\ Head(v) = Top(t).path /\ Lists(Tail(v), Tail(stack[t]))
  BY <1>2, <1>3, ListsVisited DEF Top
<1>5. PICK u \in Seq(Path) :
        /\ Turns(v, Head(wire[t]), u) /\ Describes(World, Head(v), Head(wire[t]))
        /\ Planned(u, Tail(wire[t]), World, Rests)
  BY <1>2, <1>3, PlanReceived
<1>6. u = IF Head(wire[t]).type = "dir" THEN Head(wire[t]).names \o Tail(v) ELSE Tail(v)
  BY <1>5 DEF Turns, IsTreePart
<1>7. Tail(v) \in Seq(Path)
  BY <1>4
<1> QED
  BY <1>4, <1>5, <1>6, <1>7

\* The paths to visit and the directories to leave.
LEMMA StackIs ==
  ASSUME NEW s \in Seq(Visits)
  PROVE  Pend(s) \in SUBSET Path /\ Left(s) \in SUBSET Visits
<1>1. \A i \in DOMAIN s : s[i] \in Visits
  OBVIOUS
<1>2. \A x \in Visits : x.path \in Path
  BY DEF Visits
<1> QED
  BY <1>1, <1>2 DEF Pend, Left, Visiting

\* The first of the stack.
LEMMA TopIs ==
  ASSUME TypeOK, NEW t \in Target, stack[t] # <<>>
  PROVE  /\ stack[t] \in Seq(Visits) /\ Tail(stack[t]) \in Seq(Visits)
         /\ Top(t) = stack[t][1] /\ Top(t) \in Visits
         /\ Top(t).path \in Path /\ Top(t).names \in SUBSET Path
         /\ Pend(Tail(stack[t])) \in SUBSET Path /\ Left(Tail(stack[t])) \in SUBSET Visits
<1>1. stack[t] \in Seq(Visits)
  BY DEF TypeOK
<1>2. Tail(stack[t]) \in Seq(Visits) /\ stack[t][1] \in Visits
  BY <1>1
<1> QED
  BY <1>1, <1>2, StackIs DEF Top, Visits

\* What there is where the first of the stack is visited.
LEMMA TopPlaced ==
  ASSUME TypeOK, PlaceInv, NEW t \in Target, Lives(t), stack[t] # <<>>, ~Top(t).leave
  PROVE  LET p == Top(t).path
             P == Pend(Tail(stack[t]))
             L == Left(Tail(stack[t]))
         IN  /\ Placed({p} \cup P, L, PathsOf(modified[t]), dest[t])
             /\ Pend(stack[t]) = {p} \cup P /\ Left(stack[t]) = L
             /\ Apart(Tail(stack[t]))
             /\ \A x \in P : ~IsPrefix(p, x) /\ ~IsPrefix(x, p)
             /\ p # <<>> => InDir(dest[t], p)
             /\ \A m \in PathsOf(modified[t]) : ~IsPrefix(p, m)
<1>1. /\ stack[t] \in Seq(Visits) /\ Top(t) = stack[t][1]
      /\ Apart(stack[t]) /\ Placed(Pend(stack[t]), Left(stack[t]), PathsOf(modified[t]), dest[t])
  BY TopIs DEF PlaceInv
<1>2. /\ Pend(stack[t]) = {Top(t).path} \cup Pend(Tail(stack[t]))
      /\ Left(Tail(stack[t])) = Left(stack[t]) /\ Apart(Tail(stack[t]))
      /\ \A x \in Pend(Tail(stack[t])) : ~IsPrefix(Top(t).path, x) /\ ~IsPrefix(x, Top(t).path)
  BY <1>1, VisitPopped
<1> QED
  BY <1>1, <1>2 DEF Placed

\* A directory is received: there is one then.
LEMMA DirectoryMade ==
  ASSUME TypeOK, NEW t \in Target, ReceiveDirectory(t)
  PROVE  LET p == Top(t).path
         IN  /\ task[t] = "tree" /\ Lives(t) /\ stack[t] # <<>> /\ ~Top(t).leave
             /\ wire[t] # <<>> /\ Head(wire[t]).type = "dir" /\ Head(wire[t]).names \in Seq(Path)
             /\ dest'[t] = IF dest[t][p] = Dir THEN dest[t] ELSE With(dest[t], p, Dir)
             /\ dest'[t][p] = Dir /\ \A q \in Path : ~IsPrefix(p, q) => dest'[t][q] = dest[t][q]
             /\ \A q \in Path : dest'[t][q] \in {dest[t][q], Absent, Dir}
             /\ UNCHANGED <<queue, task, modified>> /\ wire'[t] = Tail(wire[t])
             /\ stack'[t] = [i \in DOMAIN Head(wire[t]).names |-> Visit(Head(wire[t]).names[i])]
                            \o <<Leave(p, ToSet(Head(wire[t]).names))>> \o Tail(stack[t])
<1> DEFINE p == Top(t).path
<1>1. /\ task[t] = "tree" /\ stack[t] # <<>> /\ ~Top(t).leave
      /\ Receive(t, "dir") /\ UNCHANGED <<queue, task, modified>>
      /\ dest' = IF dest[t][p] = Dir THEN dest ELSE [dest EXCEPT ![t] = With(@, p, Dir)]
      /\ LET names == Head(wire[t]).names
         IN  stack' = [stack EXCEPT ![t] =
               [i \in DOMAIN names |-> Visit(names[i])] \o <<Leave(p, ToSet(names))>> \o Tail(@)]
  BY DEF ReceiveDirectory, Descend
<1>2. dest'[t] = IF dest[t][p] = Dir THEN dest[t] ELSE With(dest[t], p, Dir)
  BY <1>1 DEF TypeOK
<1>3. p \in Path /\ dest[t] \in [Path -> Entry]
  BY <1>1, TopIs DEF TypeOK
<1>4. /\ dest'[t][p] = Dir /\ \A q \in Path : ~IsPrefix(p, q) => dest'[t][q] = dest[t][q]
      /\ \A q \in Path : dest'[t][q] \in {dest[t][q], Absent, Dir}
  <2>1. CASE dest[t][p] = Dir
    BY <1>2, <2>1
  <2>2. CASE dest[t][p] # Dir
    <3>1. dest'[t] = With(dest[t], p, Dir)
      BY <1>2, <2>2
    <3>2. \A q \in Path : q = p \/ IsStrictPrefix(p, q) \/ ~IsPrefix(p, q)
      BY DEF IsStrictPrefix
    <3> QED
      BY <1>3, <3>1, <3>2, Replaced
  <2> QED
    BY <2>1, <2>2
<1>5. wire'[t] = Tail(wire[t]) /\ wire[t] # <<>> /\ Head(wire[t]).type = "dir"
  BY <1>1 DEF Receive, TypeOK
<1>6. Head(wire[t]).names \in Seq(Path)
  BY <1>1, Received, Messages
<1>7. Lives(t)
  BY <1>1 DEF Lives
<1>8. LET names == Head(wire[t]).names
      IN  stack'[t] = [i \in DOMAIN names |-> Visit(names[i])]
                      \o <<Leave(p, ToSet(names))>> \o Tail(stack[t])
  BY <1>1 DEF TypeOK
<1> QED
  BY <1>1, <1>2, <1>4, <1>5, <1>6, <1>7, <1>8

\* A directory is left.
LEMMA DirectoryLeft ==
  ASSUME TypeOK, NEW t \in Target, LeaveDirectory(t)
  PROVE  /\ task[t] = "tree" /\ Lives(t) /\ stack[t] # <<>> /\ Top(t).leave
         /\ dest'[t] = IF delete[t] THEN Without(dest[t], Gone(Top(t))) ELSE dest[t]
         /\ \A q \in Path : dest'[t][q] \in {dest[t][q], Absent}
         /\ UNCHANGED <<queue, wire, task, modified>> /\ stack'[t] = Tail(stack[t])
<1>1. dest'[t] = IF delete[t] THEN Without(dest[t], Gone(Top(t))) ELSE dest[t]
  BY DEF LeaveDirectory, TypeOK, Gone
<1>2. \A q \in Path : dest'[t][q] \in {dest[t][q], Absent}
  BY <1>1 DEF Without
<1> QED
  BY <1>1, <1>2 DEF LeaveDirectory, TypeOK, Lives

\* A file is received: unless there is one like it, it is asked for, and what is no file goes.
LEMMA FileReceived ==
  ASSUME TypeOK, NEW t \in Target, ReceiveFile(t)
  PROVE  LET p == Top(t).path
             e == dest[t][p]
             msg == Head(wire[t])
             wish == [type |-> "send", path |-> p,
                      checksum |-> IF SameSize(e, msg) THEN e.data ELSE None]
             f == [path |-> p, mtime |-> msg.mtime, data |-> None]
         IN  /\ task[t] = "tree" /\ Lives(t) /\ stack[t] # <<>> /\ ~Top(t).leave
             /\ wire[t] # <<>> /\ msg \in Message /\ msg.type = "file"
             /\ \A q \in Path : ~IsPrefix(p, q) => dest'[t][q] = dest[t][q]
             /\ \A q \in Path : dest'[t][q] \in {dest[t][q], Absent}
             /\ dest'[t] = dest[t] \/ dest'[t] = Without(dest[t], {p})
             /\ e.type = "file" => dest'[t] = dest[t]
             /\ UNCHANGED task /\ wire'[t] = Tail(wire[t]) /\ stack'[t] = Tail(stack[t])
             /\ wish \in Wish /\ f \in Files
             /\ \/ /\ Fine(e, msg) /\ dest'[t] = dest[t]
                   /\ queue' = queue /\ modified' = modified
                \/ /\ dest'[t][p].type \in {"file", "absent"} /\ Request(t, wish)
                   /\ modified'[t] = Append(modified[t], f)
                   /\ e.type # "file" => dest'[t][p] = Absent
<1> DEFINE p == Top(t).path
           e == dest[t][p]
           msg == Head(wire[t])
           wish == [type |-> "send", path |-> p,
                    checksum |-> IF SameSize(e, msg) THEN e.data ELSE None]
           f == [path |-> p, mtime |-> msg.mtime, data |-> None]
<1>1. /\ task[t] = "tree" /\ stack[t] # <<>> /\ ~Top(t).leave
      /\ Receive(t, "file") /\ UNCHANGED task
      /\ IF Fine(e, msg)
         THEN UNCHANGED <<queue, dest, modified>>
         ELSE /\ dest' = IF e.type = "file" THEN dest ELSE [dest EXCEPT ![t] = Without(@, {p})]
              /\ Request(t, wish)
              /\ modified' = [modified EXCEPT ![t] = Append(@, f)]
      /\ stack' = [stack EXCEPT ![t] = Tail(@)]
  BY DEF ReceiveFile, Descend, Remember
<1>2. wire'[t] = Tail(wire[t]) /\ wire[t] # <<>> /\ msg.type = "file" /\ msg \in Message
  BY <1>1, Received DEF Receive, TypeOK
<1>3. wish \in Wish /\ f \in Files
  BY <1>1, FileAsked
<1>4. p \in Path /\ IsPrefix(p, p)
  BY <1>1, TopIs, PrefixOrder
<1>5. Lives(t)
  BY <1>1 DEF Lives
<1>6. stack'[t] = Tail(stack[t])
  BY <1>1 DEF TypeOK
<1>7. Fine(e, msg) => e.type = "file"
  BY DEF Fine, SameSize
<1> HIDE DEF wish, f, msg
<1>8. CASE Fine(e, msg)
  BY <1>1, <1>2, <1>3, <1>5, <1>6, <1>7, <1>8 DEF wish, f, msg
<1>9. CASE ~Fine(e, msg) /\ e.type = "file"
  <2>1. dest' = dest /\ Request(t, wish) /\ modified'[t] = Append(modified[t], f)
    BY <1>1, <1>9 DEF TypeOK
  <2> QED
    BY <1>1, <1>2, <1>3, <1>5, <1>6, <1>9, <2>1 DEF wish, f, msg
<1>10. CASE ~Fine(e, msg) /\ e.type # "file"
  <2>1. /\ dest'[t] = Without(dest[t], {p}) /\ Request(t, wish)
        /\ modified'[t] = Append(modified[t], f)
    BY <1>1, <1>10 DEF TypeOK
  <2>2. dest'[t][p] = Absent
    <3>1. \E x \in {p} : IsPrefix(x, p)
      BY <1>4
    <3> HIDE DEF p
    <3> QED
      BY <1>4, <2>1, <3>1 DEF Without
  <2>3. /\ \A q \in Path : ~IsPrefix(p, q) => dest'[t][q] = dest[t][q]
        /\ \A q \in Path : dest'[t][q] \in {dest[t][q], Absent}
    BY <2>1 DEF Without
  <2>4. dest'[t][p].type \in {"file", "absent"}
    BY <2>2 DEF Absent
  <2> QED
    BY <1>1, <1>2, <1>3, <1>5, <1>6, <1>10, <2>1, <2>2, <2>3, <2>4 DEF wish, f, msg
<1> QED
  BY <1>8, <1>9, <1>10

\* The first of the modified files.
LEMMA FirstFile ==
  ASSUME TypeOK, PlaceInv, NEW t \in Target, Lives(t), modified[t] # <<>>
  PROVE  LET f == modified[t][1]
         IN  /\ f \in Files /\ f.path \in Path /\ f.path \in PathsOf(modified[t])
             /\ dest[t] \in [Path -> Entry] /\ dest[t][f.path] \in Entry
             /\ dest[t][f.path].type \in {"file", "absent"}
             /\ f.path # <<>> => InDir(dest[t], f.path)
             /\ 1 \in DOMAIN modified[t] /\ Len(modified[t]) \in Nat
             /\ DOMAIN modified[t] = 1..Len(modified[t])
             /\ \A i \in DOMAIN modified[t] : i # 1 => modified[t][i].path # f.path
<1> DEFINE m == modified[t]
<1>1. m \in Seq(Files) /\ m[1] \in Files /\ m[1].path \in Path /\ dest[t] \in [Path -> Entry]
  BY ModifiedAre DEF TypeOK
<1>2. 1 \in DOMAIN m /\ Len(m) \in Nat /\ DOMAIN m = 1..Len(m)
  BY <1>1
<1>3. m[1].path \in PathsOf(m)
  BY <1>2 DEF PathsOf
<1>4. /\ \A i, k \in DOMAIN m : i # k => m[i].path # m[k].path
      /\ Placed(Pend(stack[t]), Left(stack[t]), PathsOf(m), dest[t])
  BY DEF PlaceInv
<1>5. /\ dest[t][m[1].path].type \in {"file", "absent"}
      /\ m[1].path # <<>> => InDir(dest[t], m[1].path)
  BY <1>3, <1>4 DEF Placed
<1> QED
  BY <1>1, <1>2, <1>3, <1>4, <1>5

\* Contents are received, and the file is opened when there are any.
LEMMA FileOpened ==
  ASSUME TypeOK, PlaceInv, NEW t \in Target, ReceiveData(t)
  PROVE  LET f == modified[t][1]
             data == Head(wire[t]).data
         IN  /\ task[t] = "files" /\ Lives(t) /\ modified[t] # <<>>
             /\ wire[t] # <<>> /\ IsData(Head(wire[t])) /\ Head(wire[t]) \in Message
             /\ wire'[t] = Tail(wire[t]) /\ stack'[t] = stack[t] /\ Request(t, [type |-> "ack"])
             /\ \/ /\ data = None /\ task'[t] = "utime"
                   /\ dest'[t] = dest[t] /\ modified'[t] = modified[t]
                \/ /\ data # None /\ task'[t] = "write"
                   /\ dest'[t] = [dest[t] EXCEPT ![f.path] = File(Partial, Now)]
                   /\ dest'[t][f.path] = File(Partial, Now)
                   /\ modified'[t] = [modified[t] EXCEPT ![1] = [f EXCEPT !.data = data]]
                   /\ modified'[t][1].data = data
             /\ \A q \in Path : q # f.path => dest'[t][q] = dest[t][q]
             /\ modified'[t] # <<>> /\ Len(modified'[t]) = Len(modified[t])
             /\ DOMAIN modified'[t] = DOMAIN modified[t]
             /\ \A i \in DOMAIN modified[t] : /\ modified'[t][i].path = modified[t][i].path
                                              /\ modified'[t][i].mtime = modified[t][i].mtime
             /\ PathsOf(modified'[t]) = PathsOf(modified[t])
<1> DEFINE m == modified[t]
           f == m[1]
           data == Head(wire[t]).data
           g == [f EXCEPT !.data = data]
<1>1. /\ task[t] = "files" /\ m # <<>> /\ Receive(t, "data") /\ Request(t, [type |-> "ack"])
      /\ \/ /\ data = None /\ task'[t] = "utime" /\ dest'[t] = dest[t] /\ modified'[t] = m
         \/ /\ data # None /\ task'[t] = "write"
            /\ dest'[t] = [dest[t] EXCEPT ![f.path] = File(Partial, Now)]
            /\ modified'[t] = [m EXCEPT ![1] = g]
      /\ stack'[t] = stack[t]
  BY DEF ReceiveData, TypeOK
<1>2. Lives(t)
  BY <1>1 DEF Lives
<1>3. /\ wire'[t] = Tail(wire[t]) /\ wire[t] # <<>> /\ Head(wire[t]) \in Message
      /\ IsData(Head(wire[t]))
  BY <1>1, Received DEF Receive, TypeOK, IsData
<1>4. /\ f \in Files /\ f.path \in Path /\ dest[t] \in [Path -> Entry]
      /\ 1 \in DOMAIN m /\ DOMAIN m = 1..Len(m) /\ Len(m) \in Nat
  BY <1>1, <1>2, FirstFile
<1>5. m \in Seq(Files)
  BY DEF TypeOK
<1>6. g.path = f.path /\ g.mtime = f.mtime /\ g.data = data
  <2> HIDE DEF data, f
  <2> QED
    BY <1>4 DEF Files
<1> HIDE DEF f, g, data, m
<1>7. CASE task'[t] = "utime"
  <2>1. data = None /\ dest'[t] = dest[t] /\ modified'[t] = m
    BY <1>1, <1>7
  <2> QED
    BY <1>1, <1>2, <1>3, <1>7, <2>1 DEF f, m, data
<1>8. CASE task'[t] = "write"
  <2>1. /\ data # None /\ dest'[t] = [dest[t] EXCEPT ![f.path] = File(Partial, Now)]
        /\ modified'[t] = [m EXCEPT ![1] = g]
    BY <1>1, <1>8
  <2>2. /\ dest'[t][f.path] = File(Partial, Now)
        /\ \A q \in Path : q # f.path => dest'[t][q] = dest[t][q]
    BY <1>4, <2>1
  <2>3. /\ DOMAIN modified'[t] = DOMAIN m /\ modified'[t][1] = g
        /\ \A i \in DOMAIN m : i # 1 => modified'[t][i] = m[i]
    BY <1>4, <2>1
  <2>4. Len(modified'[t]) = Len(m) /\ modified'[t] # <<>>
    BY <1>4, <1>5, <2>1, <2>3
  <2>5. \A i \in DOMAIN m : modified'[t][i].path = m[i].path /\ modified'[t][i].mtime = m[i].mtime
    BY <1>6, <2>3 DEF f
  <2>6. PathsOf(modified'[t]) = PathsOf(m)
    BY <2>3, <2>5 DEF PathsOf
  <2> QED
    BY <1>1, <1>2, <1>3, <1>6, <1>8, <2>1, <2>2, <2>3, <2>4, <2>5, <2>6 DEF f, g, m, data
<1> QED
  BY <1>1, <1>7, <1>8

\* They are written.
LEMMA FileWritten ==
  ASSUME TypeOK, WorkInv, WriteInv, NEW t \in Target, Write(t)
  PROVE  LET f == modified[t][1]
         IN  /\ task[t] = "write" /\ task'[t] = "utime" /\ Lives(t) /\ modified[t] # <<>>
             /\ f.path \in Path /\ f.data \in Data \cup {Partial}
             /\ dest[t][f.path] = File(Partial, Now) /\ dest'[t][f.path] = File(f.data, Now)
             /\ \A q \in Path : q # f.path => dest'[t][q] = dest[t][q]
             /\ dest'[t] = [dest[t] EXCEPT ![f.path] = File(f.data, Now)]
             /\ UNCHANGED <<queue, wire, modified, stack>>
<1> DEFINE f == modified[t][1]
           d == dest[t]
<1>1. /\ task[t] = "write" /\ task'[t] = "utime" /\ UNCHANGED <<queue, wire, modified, stack>>
      /\ dest' = [dest EXCEPT ![t][f.path].data = f.data]
  BY DEF Write, TypeOK
<1>2. Lives(t) /\ modified[t] # <<>>
  BY <1>1 DEF Lives, WorkInv
<1>3. f \in Files /\ f.path \in Path /\ d \in [Path -> Entry]
  BY <1>2, ModifiedAre DEF TypeOK
<1>4. f.data # None /\ d[f.path] = File(Partial, Now)
  BY <1>1 DEF WriteInv
<1>5. dest'[t] = [d EXCEPT ![f.path].data = f.data]
  BY <1>1 DEF TypeOK
<1>6. f.data \in Data \cup {Partial}
  <2> HIDE DEF f
  <2> QED
    BY <1>3, <1>4 DEF Files
<1> HIDE DEF f, d
<1>7. [d[f.path] EXCEPT !.data = f.data] = File(f.data, Now)
  BY <1>4 DEF File
<1>8. dest'[t] = [d EXCEPT ![f.path] = File(f.data, Now)]
  BY <1>5, <1>7
<1>9. dest'[t][f.path] = File(f.data, Now) /\ \A q \in Path : q # f.path => dest'[t][q] = d[q]
  BY <1>3, <1>8
<1> QED
  BY <1>1, <1>2, <1>3, <1>4, <1>6, <1>8, <1>9 DEF f, d

\* The file is done.
LEMMA FileTimed ==
  ASSUME TypeOK, WorkInv, PlaceInv, NEW t \in Target, Utime(t)
  PROVE  LET f == modified[t][1]
             e == dest[t][f.path]
         IN  /\ task[t] = "utime" /\ task'[t] = "files" /\ Lives(t) /\ modified[t] # <<>>
             /\ IF e.type = "file"
                THEN /\ dest'[t] = [dest[t] EXCEPT ![f.path] = File(e.data, f.mtime)]
                     /\ dest'[t][f.path] = File(e.data, f.mtime)
                ELSE dest'[t] = dest[t]
             /\ \A q \in Path : q # f.path => dest'[t][q] = dest[t][q]
             /\ modified'[t] = Tail(modified[t]) /\ UNCHANGED <<queue, wire, stack>>
<1> DEFINE f == modified[t][1]
           d == dest[t]
           e == d[f.path]
<1>1. /\ task[t] = "utime" /\ task'[t] = "files" /\ UNCHANGED <<queue, wire, stack>>
      /\ modified'[t] = Tail(modified[t])
      /\ dest' = IF e.type = "file" THEN [dest EXCEPT ![t][f.path].mtime = f.mtime] ELSE dest
  BY DEF Utime, TypeOK
<1>2. Lives(t) /\ modified[t] # <<>>
  BY <1>1 DEF Lives, WorkInv
<1>3. f.path \in Path /\ d \in [Path -> Entry] /\ e \in Entry
  BY <1>2, FirstFile
<1>4. CASE e.type = "file"
  <2>1. dest'[t] = [d EXCEPT ![f.path].mtime = f.mtime]
    BY <1>1, <1>4 DEF TypeOK
  <2>2. [e EXCEPT !.mtime = f.mtime] = File(e.data, f.mtime)
    <3> HIDE DEF e, f
    <3> QED
      BY <1>3, <1>4 DEF Entry, File, Absent, Dir, Other
  <2>3. dest'[t] = [d EXCEPT ![f.path] = File(e.data, f.mtime)]
    <3> HIDE DEF f, d
    <3> QED
      BY <2>1, <2>2
  <2>4. /\ dest'[t][f.path] = File(e.data, f.mtime)
        /\ \A q \in Path : q # f.path => dest'[t][q] = d[q]
    <3> HIDE DEF f, d, e
    <3> QED
      BY <1>3, <2>3
  <2> QED
    BY <1>1, <1>2, <1>4, <2>3, <2>4
<1>5. CASE e.type # "file"
  BY <1>1, <1>2, <1>5
<1> QED
  BY <1>4, <1>5

\* A link is made.
LEMMA LinkMade ==
  ASSUME TypeOK, WorkInv, TaskInv, NEW t \in Target, MakeLink(t)
  PROVE  LET link == Head(wire[t])
         IN  /\ task[t] = "links" /\ Lives(t) /\ modified[t] = <<>> /\ stack[t] = <<>>
             /\ t \in channels
             /\ wire[t] # <<>> /\ link.type = "to" /\ link.path \in Path /\ link.to \in Point
             /\ LinkTo(Joined(link.to)) \in Entry
             /\ wire'[t] = Tail(wire[t]) /\ UNCHANGED <<queue, stack, modified>>
             /\ \/ /\ task'[t] = "links" /\ InDir(dest[t], link.path)
                   /\ dest'[t] = With(dest[t], link.path, LinkTo(Joined(link.to)))
                \/ task'[t] = "failed" /\ dest'[t] = dest[t]
<1>1. /\ task[t] = "links" /\ Receive(t, "to") /\ UNCHANGED <<queue, stack, modified>>
      /\ \/ /\ task'[t] = "links" /\ InDir(dest[t], Head(wire[t]).path)
            /\ dest'[t] = With(dest[t], Head(wire[t]).path, LinkTo(Joined(Head(wire[t]).to)))
         \/ task'[t] = "failed" /\ dest'[t] = dest[t]
  BY DEF MakeLink, TypeOK
<1>2. /\ wire'[t] = Tail(wire[t]) /\ wire[t] # <<>> /\ Head(wire[t]) \in Message
      /\ Head(wire[t]).type = "to"
  BY <1>1, Received DEF Receive, TypeOK
<1>3. Lives(t) /\ modified[t] = <<>> /\ stack[t] = <<>> /\ t \in channels
  BY <1>1, InUse DEF Lives, WorkInv, TaskInv
<1>4. Head(wire[t]).path \in Path /\ Head(wire[t]).to \in Point
  BY <1>2, Messages
<1>5. \A x \in Point : LinkTo(Joined(x)) \in Entry
  BY Points
<1> QED
  BY <1>1, <1>2, <1>3, <1>4, <1>5
-----------------------------------------------------------------------------
(* Contents.                                                               *)

\* What has been at a path stays in had.
LEMMA HadKept ==
  ASSUME TypeOK, HadInv, SourceInv, [Next]_vars
  PROVE  /\ HadInv'
         /\ (\A p \in Path : had[p] \subseteq had'[p]) /\ unread \subseteq unread'
         /\ \/ UNCHANGED <<source, clock, had>>
            \/ \E p \in Path : \E e \in Things(p, clock + 1) : Change(p, e)
         /\ \A q \in Path : source'[q].type = "file" /\ source'[q].mtime <= clock =>
              source'[q] = source[q]
<1>1. ASSUME NEW p \in Path, NEW e \in Things(p, clock + 1), Change(p, e)
      PROVE  /\ HadInv' /\ \A q \in Path : had[q] \subseteq had'[q]
             /\ \A q \in Path : source'[q].type = "file" /\ source'[q].mtime <= clock =>
                  source'[q] = source[q]
  <2>1. HadInv' /\ \A q \in Path : had[q] \subseteq had'[q]
    BY <1>1 DEF Change, HadInv, TypeOK
  <2>2. source' = With(source, p, e) /\ clock \in Nat
    BY <1>1 DEF Change, TypeOK
  <2>3. e.type = "file" => e.mtime = clock + 1
    BY DEF Things, Absent, Dir, Other, File, LinkTo
  <2>4. \A q \in Path : source'[q] \in {Absent, source[q]} \/ q = p
    BY <2>2, Replaced DEF IsStrictPrefix
  <2>5. source'[p] = e
    BY <2>2, Replaced
  <2>6. \A q \in Path : source'[q].type = "file" /\ source'[q].mtime <= clock =>
          source'[q] = source[q]
    BY <2>2, <2>3, <2>4, <2>5 DEF Absent
  <2> QED
    BY <2>1, <2>6
<1>2. UNCHANGED <<source, clock, had>> => HadInv'
  BY DEF HadInv
<1>3. /\ unread \subseteq unread'
      /\ \/ UNCHANGED <<source, clock, had>>
         \/ \E p \in Path : \E e \in Things(p, clock + 1) : Change(p, e)
  <2>1. CASE Next
    <3>1. CASE Sender
      <4>1. CASE SendItem
        BY <4>1 DEF SendItem, Get
      <4> QED
        BY <3>1, <4>1 DEF Sender, SendDirectoryStructure, WalkEnds, LoopEnds, EndOfChannel,
           ProcessLink, Done, WaitClose, ListDone, Ack, Get, sourcevars
    <3>2. ASSUME NEW t \in Target, Serve(t) PROVE UNCHANGED sourcevars
      BY <3>2 DEF Serve, ReceiveDirectory, LeaveDirectory, ReceiveFile, ReceiveLink, Descend,
         TreeEnds, ReceiveData, Write, Utime, FilesEnd, MakeLink, LinksEnd,
          ChannelCloses, Receive, Local
    <3> QED
      BY <2>1, <3>1, <3>2 DEF Next, AddTarget, SendBegins, StartOver, Change, Die, sourcevars
  <2> QED
    BY <2>1 DEF vars, sourcevars
<1> QED
  BY <1>1, <1>2, <1>3

\* What fits still fits, when the file is no more wanted than before and has not changed.
LEMMA FitsKept ==
  ASSUME NEW h, NEW k, NEW f, h.had[f.path] \subseteq k.had[f.path], h.unread \subseteq k.unread,
         Wanted(k, f) => k.source[f.path] = h.source[f.path],
         k.tree[f.path] = h.tree[f.path] \/ h.tree[f.path].type # "file"
  PROVE  /\ \A d : Fits(h, f, d) => Fits(k, f, d)
         /\ \A wish : Wants(h, f, wish) => Wants(k, f, wish)
BY DEF Fits, Wants, Wanted

\* Only the path and the time of a file matter.
LEMMA FitsSame ==
  ASSUME NEW h, NEW f, NEW g, g.path = f.path, g.mtime = f.mtime
  PROVE  /\ \A d : Fits(h, f, d) => Fits(h, g, d)
         /\ \A wish : Wants(h, f, wish) => Wants(h, g, wish)
BY DEF Fits, Wants, Wanted

LEMMA ViewIs ==
  ASSUME NEW t \in Target
  PROVE  /\ View(t).source = source /\ View(t).had = had /\ View(t).unread = unread
         /\ View(t).tree = dest[t]
         /\ View(t)' = [source |-> source', had |-> had', unread |-> unread', tree |-> dest'[t]]
         /\ View(t)'.source = source' /\ View(t)'.had = had' /\ View(t)'.unread = unread'
         /\ View(t)'.tree = dest'[t]
BY DEF View

\* Steps that leave what is done for the targets alone but for the source.
LEMMA ServiceKept ==
  ASSUME TypeOK, MatchInv, WorkInv, WriteInv, NoMixUp, FileInv,
         \A p \in Path : had[p] \subseteq had'[p], unread \subseteq unread',
         \A q \in Path : source'[q].type = "file" /\ source'[q].mtime <= clock =>
           source'[q] = source[q],
         UNCHANGED <<modified, wire, queue, dest>>,
         \A t \in Target : task'[t] = task[t] \/ task'[t] = "failed"
           \/ (task[t] \in {"none", "closed"} /\ task'[t] = "tree")
  PROVE  MatchInv' /\ WorkInv' /\ WriteInv' /\ NoMixUp'
<1>0. ASSUME NEW t \in Target, Lives(t), NEW i \in 1..Len(modified[t])
      PROVE  LET f == modified[t][i]
             IN  /\ \A d : Fits(View(t), f, d) => Fits(View(t)', f, d)
                 /\ \A wish : Wants(View(t), f, wish) => Wants(View(t)', f, wish)
  <2> DEFINE f == modified[t][i]
  <2>1. i \in DOMAIN modified[t] /\ f.path \in Path
    BY ModifiedAre
  <2>2. f.mtime <= clock
    BY <1>0, <2>1 DEF FileInv
  <2> HIDE DEF f
  <2>3. Wanted(View(t)', f) => source'[f.path] = source[f.path]
    BY <2>1, <2>2, ViewIs DEF Wanted
  <2>4. /\ View(t).had[f.path] \subseteq View(t)'.had[f.path]
        /\ View(t).unread \subseteq View(t)'.unread
    BY <2>1, ViewIs
  <2>5. View(t)'.tree[f.path] = View(t).tree[f.path]
    BY ViewIs
  <2>6. Wanted(View(t)', f) => View(t)'.source[f.path] = View(t).source[f.path]
    BY <2>3, ViewIs
  <2>7. /\ \A d : Fits(View(t), f, d) => Fits(View(t)', f, d)
        /\ \A wish : Wants(View(t), f, wish) => Wants(View(t)', f, wish)
    BY <2>4, <2>5, <2>6, FitsKept
  <2> QED
    BY <2>7 DEF f
<1>1. ASSUME NEW t \in Target, Lives(t)'
      PROVE  Matched(modified[t], InWork(t), wire[t], queue, t, View(t))'
  <2>1. Lives(t) /\ InWork(t)' = InWork(t) /\ InWork(t) \in Nat
    BY <1>1 DEF Lives, InWork
  <2>2. Len(modified[t]) \in Nat
    BY ModifiedAre
  <2>3. Matched(modified[t], InWork(t), wire[t], queue, t, View(t))
    BY <2>1 DEF MatchInv
  <2> DEFINE n == InWork(t)
             h == View(t)
             k == View(t)'
             m == modified[t]
  <2>4. \A i \in n + 1 .. Len(m) :
          /\ \A d : Fits(h, m[i], d) => Fits(k, m[i], d)
          /\ \A wish : Wants(h, m[i], wish) => Wants(k, m[i], wish)
    <3>1. \A i \in n + 1 .. Len(m) : i \in 1..Len(m)
      BY <2>1, <2>2
    <3> HIDE DEF n, h, k, m
    <3> QED
      BY <1>0, <2>1, <3>1 DEF h, k, m
  <2>5. Matched(m, n, wire[t], queue, t, k)
    <3> HIDE DEF n, h, k, m
    <3> QED
      BY <2>1, <2>2, <2>3, <2>4, MatchedKept DEF h, n, m
  <2> QED
    BY <2>1, <2>5
<1>2. WorkInv'
  BY DEF WorkInv
<1>3. WriteInv'
  <2> SUFFICES ASSUME NEW t \in Target
               PROVE  /\ task'[t] = "write" =>
                           LET f == modified'[t][1]
                           IN  /\ f.data # None /\ Fits(View(t)', f, f.data)
                               /\ dest'[t][f.path] = File(Partial, Now)
                      /\ task'[t] = "utime" => Fits(View(t)', modified'[t][1], None)
    BY DEF WriteInv
  <2> DEFINE f == modified[t][1]
  <2>1. CASE task'[t] \in {"write", "utime"}
    <3>1. task[t] = task'[t] /\ Lives(t) /\ modified[t] # <<>>
      BY <2>1 DEF Lives, WorkInv
    <3>2. 1 \in 1..Len(modified[t])
      BY <3>1, ModifiedAre
    <3>3. \A d : Fits(View(t), f, d) => Fits(View(t)', f, d)
      BY <1>0, <3>1, <3>2
    <3>4. /\ task[t] = "write" => /\ f.data # None /\ Fits(View(t), f, f.data)
                                  /\ dest[t][f.path] = File(Partial, Now)
          /\ task[t] = "utime" => Fits(View(t), f, None)
      BY DEF WriteInv
    <3>5. modified'[t][1] = f /\ dest'[t] = dest[t]
      OBVIOUS
    <3> HIDE DEF f
    <3> QED
      BY <3>1, <3>3, <3>4, <3>5
  <2> QED
    BY <2>1
<1>4. NoMixUp'
  BY DEF NoMixUp
<1> QED
  BY <1>1, <1>2, <1>3, <1>4 DEF MatchInv

\* What the sender does for them, but to send contents.
LEMMA SenderKeeps ==
  ASSUME TypeOK, MatchInv, WorkInv, WriteInv, NoMixUp,
         UNCHANGED <<source, had, unread, task, modified, dest>>,
         \A t \in Target :
           \/ wire'[t] = wire[t]
           \/ \E x \in Seq(Message) : /\ \A i \in DOMAIN x : ~IsData(x[i])
                                      /\ wire'[t] = wire[t] \o x,
         \/ queue' = queue
         \/ queue # <<>> /\ Head(queue).wish.type # "send" /\ queue' = Tail(queue)
  PROVE  MatchInv' /\ WorkInv' /\ WriteInv' /\ NoMixUp'
<1>1. ASSUME NEW t \in Target, Lives(t)
      PROVE  Matched(modified[t], InWork(t), wire'[t], queue', t, View(t))
  <2>1. InWork(t) \in Nat
    BY DEF InWork
  <2>2. Matched(modified[t], InWork(t), wire[t], queue, t, View(t))
    BY <1>1 DEF MatchInv
  <2>3. modified[t] \in Seq(Files) /\ wire[t] \in Seq(Message) /\ queue \in Seq(Requests)
    BY DEF TypeOK
  <2>4. Matched(modified[t], InWork(t), wire'[t], queue, t, View(t))
    BY <2>1, <2>2, <2>3, OtherSent
  <2>5. wire'[t] \in Seq(Message)
    <3> SUFFICES ASSUME NEW x \in Seq(Message), wire'[t] = wire[t] \o x
                 PROVE  wire'[t] \in Seq(Message)
      BY <2>3
    <3> QED
      BY <2>3, ConcatIs
  <2>6. CASE queue # <<>> /\ Head(queue).wish.type # "send" /\ queue' = Tail(queue)
    <3>1. ~Asks(Head(queue), t)
      BY <2>6 DEF Asks
    <3> QED
      BY <2>1, <2>3, <2>4, <2>5, <2>6, <3>1, OtherTaken
  <2> QED
    BY <2>4, <2>6
<1>2. MatchInv'
  BY <1>1 DEF MatchInv, Lives, InWork, View
<1> QED
  BY <1>2 DEF WorkInv, WriteInv, NoMixUp, View

\* The contents that send() reads are those of the file it is asked for.
LEMMA ItemSent ==
  ASSUME TypeOK, HadInv, MatchInv, WorkInv, WriteInv, NoMixUp, SendItem
  PROVE  MatchInv' /\ WorkInv' /\ WriteInv' /\ NoMixUp'
<1> DEFINE p == Head(queue).wish.path
           c == Head(queue).wish.checksum
           Msg(d) == [type |-> "data", data |-> IF d = c THEN None ELSE d]
<1>1. /\ queue # <<>> /\ Head(queue).wish.type = "send" /\ queue' = Tail(queue)
      /\ UNCHANGED <<source, had, task, modified, dest>>
  BY DEF SendItem, Get, remote
<1>0. PICK data \in Read(p) : /\ unread' = unread \cup Missed(p, data)
                             /\ SendAll({From}, <<Msg(data)>>, "loop")
  BY DEF SendItem
<1> DEFINE msg == Msg(data)
<1>2. From \in Target /\ p \in Path /\ queue \in Seq(Requests)
  BY <1>1, Got, Wishes DEF TypeOK
<1>3. /\ \A t \in Target : modified[t] \in Seq(Files) /\ wire[t] \in Seq(Message)
      /\ \A t \in Target : InWork(t) \in Nat
  BY DEF TypeOK, InWork
<1>4. /\ source[p] \in Entry /\ source[p] \in had[p]
      /\ data # None => source[p].type = "file" /\ data = source[p].data
      /\ source[p].type = "file" /\ data = None => <<p, source[p].mtime>> \in unread'
      /\ data \in Data \cup {Partial, None}
  <2>1. source[p] \in Entry /\ source[p] \in had[p]
    BY <1>2 DEF TypeOK, HadInv
  <2>2. source[p].type = "file" => source[p].data \in Data \cup {Partial}
    BY <2>1, Entries
  <2> QED
    BY <1>0, <2>1, <2>2 DEF Read, Missed
<1>5. /\ msg \in Message /\ IsData(msg) /\ msg.data = IF data = c THEN None ELSE data
  <2> HIDE DEF p
  <2> QED
    BY <1>4 DEF Message, IsData
<1>6. ASSUME NEW t \in Target, NEW y \in Files, Wants(View(t)', y, Head(queue).wish)
      PROVE  Fits(View(t)', y, msg.data)
  <2>1. y.path = p /\ (c # None => dest[t][p].type = "file" /\ dest[t][p].data = c)
    BY <1>1, <1>6, ViewIs DEF Wants
  <2> HIDE DEF p, c, msg
  <2>2. Wanted(View(t)', y) => source[p].type = "file" /\ data # None
    <3>1. View(t)'.source = source /\ View(t)'.unread = unread'
      BY <1>1, ViewIs
    <3> QED
      BY <1>4, <2>1, <3>1 DEF Wanted
  <2>3. msg.data # None => msg.data = data /\ source[p].type = "file" /\ data = source[p].data
    BY <1>4, <1>5
  <2>4. data # None =>
          \/ msg.data = source[p].data
          \/ /\ msg.data = None /\ dest[t][p].type = "file" /\ dest[t][p].data = source[p].data
    BY <1>4, <1>5, <2>1
  <2> QED
    BY <1>1, <1>4, <2>1, <2>2, <2>3, <2>4, ViewIs DEF Fits
<1>9. ASSUME NEW t \in Target, NEW y
      PROVE  /\ \A d : Fits(View(t), y, d) => Fits(View(t)', y, d)
             /\ \A wish : Wants(View(t), y, wish) => Wants(View(t)', y, wish)
  <2>1. /\ View(t).had[y.path] \subseteq View(t)'.had[y.path]
        /\ View(t).unread \subseteq View(t)'.unread
    BY <1>0, <1>1, ViewIs
  <2>2. View(t)'.source = View(t).source /\ View(t)'.tree = View(t).tree
    BY <1>1, ViewIs
  <2> QED
    BY <2>1, <2>2, FitsKept
<1>10. ASSUME NEW t \in Target, Lives(t)
       PROVE  Matched(modified[t], InWork(t), wire[t], queue, t, View(t)')
  <2>1. Matched(modified[t], InWork(t), wire[t], queue, t, View(t))
    BY <1>10 DEF MatchInv
  <2> DEFINE m == modified[t]
             n == InWork(t)
             h == View(t)
             k == View(t)'
  <2>2. \A i \in n + 1 .. Len(m) : /\ \A d : Fits(h, m[i], d) => Fits(k, m[i], d)
                                  /\ \A wish : Wants(h, m[i], wish) => Wants(k, m[i], wish)
    BY <1>9
  <2>3. n \in Nat /\ Len(m) \in Nat
    BY <1>3
  <2> HIDE DEF m, n, h, k
  <2>4. Matched(m, n, wire[t], queue, t, k)
    BY <2>1, <2>2, <2>3, MatchedKept DEF m, n, h
  <2> QED
    BY <2>4 DEF m, n, k
<1> HIDE DEF c
<1> HIDE DEF msg
<1>7. ASSUME NEW t \in Target, Lives(t)
      PROVE  Matched(modified[t], InWork(t), wire'[t], queue', t, View(t)')
  <2>1. Matched(modified[t], InWork(t), wire[t], queue, t, View(t)')
    BY <1>7, <1>10
  <2>2. CASE t # From
    <3>1. wire'[t] = wire[t]
      BY <1>0, <2>2 DEF SendAll
    <3>2. ~Asks(Head(queue), t)
      BY <2>2 DEF Asks, From
    <3> QED
      BY <1>1, <1>2, <1>3, <2>1, <3>1, <3>2, OtherTaken
  <2>3. CASE t = From
    <3>1. Asks(Head(queue), t)
      BY <1>1, <2>3 DEF Asks, From
    <3>2. ~Closed(t)
      <4> SUFFICES ASSUME task[t] = "closed" PROVE FALSE
        BY <1>7 DEF Closed, Lives
      <4>1. modified[t] = <<>> /\ InWork(t) = 0
        BY DEF WorkInv, InWork
      <4>2. AskedAt(queue, t) = {}
        BY <2>1, <4>1, NothingMatched
      <4>3. 1 \in DOMAIN queue /\ Head(queue) = queue[1]
        BY <1>1, <1>2, TailIs
      <4> QED
        BY <3>1, <4>2, <4>3 DEF AskedAt
    <3>3. wire'[t] = wire[t] \o <<msg>>
      BY <1>0, <2>3, <3>2 DEF SendAll, msg
    <3>4. wire'[t] = Append(wire[t], msg)
      <4>1. wire[t] \in Seq(Message)
        BY <1>3
      <4> QED
        BY <1>5, <3>3, <4>1
    <3>5. \A y \in Files : Wants(View(t)', y, Head(queue).wish) => Fits(View(t)', y, msg.data)
      BY <1>6
    <3> QED
      BY <1>1, <1>2, <1>3, <1>5, <2>1, <3>1, <3>4, <3>5, FileSent
  <2> QED
    BY <2>2, <2>3
<1>8. MatchInv'
  BY <1>1, <1>7 DEF MatchInv, Lives, InWork
<1>11. WriteInv'
  <2> SUFFICES ASSUME NEW t \in Target
               PROVE  /\ task[t] = "write" =>
                           LET f == modified[t][1]
                           IN  /\ f.data # None /\ Fits(View(t)', f, f.data)
                               /\ dest[t][f.path] = File(Partial, Now)
                      /\ task[t] = "utime" => Fits(View(t)', modified[t][1], None)
    BY <1>1 DEF WriteInv
  <2> QED
    BY <1>9 DEF WriteInv
<1> QED
  BY <1>1, <1>8, <1>11 DEF WorkInv, NoMixUp

LEMMA SenderMatches ==
  ASSUME TypeOK, HadInv, MatchInv, WorkInv, WriteInv, NoMixUp, Sender
  PROVE  MatchInv' /\ WorkInv' /\ WriteInv' /\ NoMixUp'
<1>1. CASE SendDirectoryStructure
  <2> DEFINE p == Head(walk)
  <2>1. UNCHANGED <<source, had, unread, task, modified, dest, queue>> /\ channels \in SUBSET Target
    BY <1>1 DEF SendDirectoryStructure, sourcevars, remote, TypeOK
  <2>2. p \in Path /\ source[p] \in Entry
    <3>1. walk \in Seq(Path) /\ walk # <<>>
      BY <1>1 DEF TypeOK, SendDirectoryStructure
    <3> QED
      BY <3>1, TailIs DEF TypeOK
  <2>3. UNCHANGED wire \/ \E msg \in Message : ~IsData(msg) /\ SendAll(channels, <<msg>>, "walk")
    <3>1. CASE SendDirectory(p)
      <4>1. SetToSeq({q \in Children(p) : source[q] # Absent}) \in Seq(Path)
        BY Listing DEF Children, Below
      <4> QED
        BY <3>1, <4>1 DEF SendDirectory, Message, IsData
    <3>2. CASE SendLinkStructure(p)
      BY <3>2 DEF SendLinkStructure, Message, IsData
    <3>3. CASE SendFile(p)
      <4> DEFINE msg == IF source[p] = Absent
                        THEN [type |-> "file", size |-> 0, mtime |-> 0]
                        ELSE [type |-> "file", size |-> Size(source[p].data),
                              mtime |-> source[p].mtime]
      <4>1. SendAll(channels, <<msg>>, "walk")
        BY <3>3 DEF SendFile
      <4>2. msg \in Message /\ ~IsData(msg)
        BY <2>2, <3>3, FileMessage DEF IsData, SendFile
      <4> QED
        BY <4>1, <4>2
    <3>4. CASE SendRaises(p)
      BY <3>4 DEF SendRaises
    <3> QED
      BY <1>1, <3>1, <3>2, <3>3, <3>4 DEF SendDirectoryStructure
  <2>4. CASE UNCHANGED wire
    BY <2>1, <2>4, SenderKeeps
  <2>5. ASSUME NEW msg \in Message, ~IsData(msg), SendAll(channels, <<msg>>, "walk")
        PROVE  MatchInv' /\ WorkInv' /\ WriteInv' /\ NoMixUp'
    <3>1. <<msg>> \in Seq(Message) /\ \A i \in DOMAIN <<msg>> : ~IsData(<<msg>>[i])
      BY <2>5
    <3>2. \A t \in Target : wire'[t] = wire[t] \/ wire'[t] = wire[t] \o <<msg>>
      BY <2>1, <2>5, <3>1, Sent
    <3> QED
      BY <2>1, <3>1, <3>2, SenderKeeps
  <2> QED
    BY <2>3, <2>4, <2>5
<1>2. CASE WalkEnds \/ LoopEnds \/ WaitClose
  <2>1. UNCHANGED <<source, had, unread, task, modified, dest, queue, wire>>
    BY <1>2 DEF WalkEnds, LoopEnds, WaitClose, sourcevars, remote
  <2> QED
    BY <2>1, SenderKeeps
<1>3. CASE EndOfChannel \/ Done \/ ListDone \/ Ack
  <2>1. /\ UNCHANGED <<source, had, unread, task, modified, dest, wire>>
        /\ queue # <<>> /\ Head(queue).wish.type # "send" /\ queue' = Tail(queue)
    BY <1>3 DEF EndOfChannel, Done, ListDone, Ack, Get, sourcevars, remote
  <2> QED
    BY <2>1, SenderKeeps
<1>4. CASE ProcessLink
  <2>1. /\ UNCHANGED <<source, had, unread, task, modified, dest>>
        /\ queue # <<>> /\ Head(queue).wish.type # "send" /\ queue' = Tail(queue)
        /\ SendAll({From}, LinkMessages \o <<[type |-> "end"]>>, "loop")
    BY <1>4 DEF ProcessLink, Get, sourcevars, remote
  <2> DEFINE last == <<[type |-> "end"]>>
             x == LinkMessages \o last
  <2>2. last \in Seq(Message) /\ \A i \in DOMAIN last : ~IsData(last[i])
    BY DEF Message, IsData
  <2>3. SendAll({From}, x, "loop")
    BY <2>1
  <2> HIDE DEF last
  <2>4. x \in Seq(Message) /\ \A i \in DOMAIN x : ~IsData(x[i])
    BY <2>2, LinkMessagesType, ConcatIs
  <2> HIDE DEF x
  <2>5. {From} \in SUBSET Target
    BY <2>1, Got
  <2>6. \A t \in Target : wire'[t] = wire[t] \/ wire'[t] = wire[t] \o x
    BY <2>3, <2>4, <2>5, Sent
  <2> QED
    BY <2>1, <2>4, <2>6, SenderKeeps
<1> QED
  BY <1>1, <1>2, <1>3, <1>4, ItemSent DEF Sender

\* A target does not touch the files it has asked for.
LEMMA FilesKept ==
  ASSUME TypeOK, PlaceInv, WorkInv, WriteInv, TaskInv, NEW t \in Target, Lives(t), Serve(t),
         NEW i \in DOMAIN modified'[t], i > InWork(t)'
  PROVE  LET p == modified'[t][i].path
         IN  /\ p \in Path
             /\ dest'[t][p] = dest[t][p] \/ dest[t][p].type # "file"
<1> DEFINE p == modified'[t][i].path
           M == PathsOf(modified[t])
<1>1. /\ modified[t] \in Seq(Files) /\ \A k \in DOMAIN modified[t] : modified[t][k].path \in Path
      /\ \A k \in DOMAIN modified[t] : modified[t][k].path \in M
      /\ M \subseteq Path /\ DOMAIN modified[t] \subseteq Nat \ {0}
  <2>1. modified[t] \in Seq(Files) /\ \A k \in DOMAIN modified[t] : modified[t][k] \in Files
    BY ModifiedAre
  <2> QED
    BY <2>1 DEF PathsOf, Files
<1>2. CASE UNCHANGED <<modified, dest>>
  BY <1>1, <1>2
<1>3. CASE ReceiveDirectory(t)
  <2>1. \A m \in M : ~IsPrefix(Top(t).path, m)
    BY <1>3, DirectoryMade, TopPlaced
  <2>2. modified' = modified
    BY <1>3, DirectoryMade
  <2>3. p \in M /\ p \in Path
    BY <1>1, <2>2
  <2> HIDE DEF p, M
  <2>4. dest'[t][p] = dest[t][p]
    BY <1>3, <2>1, <2>3, DirectoryMade
  <2> QED
    BY <2>3, <2>4 DEF p
<1>4. CASE LeaveDirectory(t)
  <2> DEFINE l == Top(t)
             P == Pend(stack[t])
             L == Left(stack[t])
             tree2 == Without(dest[t], Gone(l))
  <2>1. /\ stack[t] # <<>> /\ l.leave /\ modified' = modified
        /\ dest'[t] = tree2 \/ dest'[t] = dest[t]
    BY <1>4, DirectoryLeft
  <2>2. p \in M /\ p \in Path
    BY <1>1, <2>1
  <2>3. Apart(stack[t]) /\ Placed(P, L, M, dest[t])
    BY DEF PlaceInv
  <2>4. l \in L /\ l \in Visits
    BY <2>1, <2>3, TopIs, LeavePopped
  <2>5. P \in SUBSET Path /\ M \in SUBSET Path
    BY <1>1, StackIs DEF TypeOK
  <2>6. l.names \subseteq Children(l.path) /\ (IsStrictPrefix(l.path, p) => Kept(p, l))
    BY <2>2, <2>3, <2>4 DEF Placed
  <2>7. IsPrefix(p, p)
    BY <2>2, PrefixOrder
  <2> HIDE DEF l, p
  <2>8. tree2[p] = dest[t][p]
    BY <2>2, <2>4, <2>6, <2>7, LeftAlone
  <2> QED
    BY <2>1, <2>2, <2>8 DEF p
<1>5. CASE ReceiveFile(t)
  <2> DEFINE x == Top(t).path
             f == [path |-> x, mtime |-> Head(wire[t]).mtime, data |-> None]
  <2>1. /\ stack[t] # <<>> /\ ~Top(t).leave
        /\ \A q \in Path : ~IsPrefix(x, q) => dest'[t][q] = dest[t][q]
        /\ dest[t][x].type = "file" => dest'[t] = dest[t]
    BY <1>5, FileReceived
  <2>9. modified' = modified \/ modified'[t] = Append(modified[t], f)
    BY <1>5, FileReceived
  <2>2. x \in Path /\ f.path = x
    BY <2>1, TopIs
  <2>3. \A m \in M : ~IsPrefix(x, m)
    BY <2>1, TopPlaced
  <2> HIDE DEF f
  <2>4. \A k \in DOMAIN Append(modified[t], f) :
          Append(modified[t], f)[k] = f
            \/ (k \in DOMAIN modified[t] /\ Append(modified[t], f)[k] = modified[t][k])
    BY <1>1
  <2>5. modified'[t][i] = f \/ (i \in DOMAIN modified[t] /\ modified'[t][i] = modified[t][i])
    BY <2>9, <2>4
  <2>6. p = x \/ p \in M
    BY <1>1, <2>2, <2>5
  <2> HIDE DEF p, M, x
  <2>7. p \in Path /\ (dest'[t][p] = dest[t][p] \/ dest[t][p].type # "file")
    BY <1>1, <2>1, <2>2, <2>3, <2>6
  <2> QED
    BY <2>7 DEF p
<1>6. CASE ReceiveData(t)
  <2>1. /\ modified[t] # <<>> /\ task'[t] \in {"write", "utime"}
        /\ \A q \in Path : q # modified[t][1].path => dest'[t][q] = dest[t][q]
        /\ DOMAIN modified'[t] = DOMAIN modified[t]
        /\ p = modified[t][i].path
    <3>1. /\ modified[t] # <<>> /\ task'[t] \in {"write", "utime"}
          /\ \A q \in Path : q # modified[t][1].path => dest'[t][q] = dest[t][q]
          /\ DOMAIN modified'[t] = DOMAIN modified[t]
          /\ \A k \in DOMAIN modified[t] : modified'[t][k].path = modified[t][k].path
      BY <1>6, FileOpened, ZenonT(30)
    <3> QED
      BY <3>1
  <2>2. i # 1 /\ i \in DOMAIN modified[t]
    BY <2>1 DEF InWork
  <2>3. modified[t][i].path # modified[t][1].path
    BY <2>1, <2>2, FirstFile
  <2> QED
    BY <1>1, <2>1, <2>2, <2>3
<1>7. CASE Write(t)
  <2>1. /\ modified[t] # <<>> /\ task'[t] \in {"write", "utime"}
        /\ \A q \in Path : q # modified[t][1].path => dest'[t][q] = dest[t][q]
        /\ modified' = modified
    BY <1>7, FileWritten
  <2>2. i # 1 /\ i \in DOMAIN modified[t]
    BY <2>1 DEF InWork
  <2>3. modified[t][i].path # modified[t][1].path
    BY <2>1, <2>2, FirstFile
  <2> QED
    BY <1>1, <2>1, <2>2, <2>3
<1>8. CASE Utime(t)
  <2>1. /\ modified[t] # <<>> /\ modified'[t] = Tail(modified[t])
        /\ \A q \in Path : q # modified[t][1].path => dest'[t][q] = dest[t][q]
    BY <1>8, FileTimed
  <2>2. i + 1 \in DOMAIN modified[t] /\ i + 1 # 1 /\ modified'[t][i] = modified[t][i + 1]
    <3>1. i \in DOMAIN Tail(modified[t]) /\ i \in Nat
      BY <1>1, <2>1, TailIs
    <3>2. i + 1 \in DOMAIN modified[t] /\ Tail(modified[t])[i] = modified[t][i + 1]
      BY <1>1, <2>1, <3>1, TailIs
    <3>3. i + 1 # 1
      BY <1>1, <2>1, <3>1, TailIs
    <3> QED
      BY <2>1, <3>2, <3>3
  <2>3. modified[t][i + 1].path # modified[t][1].path
    BY <2>1, <2>2, FirstFile
  <2> QED
    BY <1>1, <2>1, <2>2, <2>3
<1>9. CASE MakeLink(t)
  <2>1. modified'[t] = <<>>
    BY <1>9, LinkMade
  <2> QED
    BY <2>1
<1>10. CASE ReceiveLink(t) \/ TreeEnds(t) \/ FilesEnd(t) \/ LinksEnd(t) \/ ChannelCloses(t)
  <2>1. UNCHANGED <<modified, dest>>
    BY <1>10 DEF ReceiveLink, TreeEnds, FilesEnd, LinksEnd, ChannelCloses
  <2> QED
    BY <1>2, <2>1
<1> QED
  BY <1>3, <1>4, <1>5, <1>6, <1>7, <1>8, <1>9, <1>10 DEF Serve

\* What has been said of the files that a target has asked for stays true.
LEMMA LateKept ==
  ASSUME TypeOK, PlaceInv, WorkInv, WriteInv, TaskInv, NEW t \in Target, Lives(t), Serve(t),
         source' = source, had' = had, unread' = unread,
         NEW i \in DOMAIN modified'[t], i > InWork(t)'
  PROVE  LET f == modified'[t][i]
         IN  /\ \A d : Fits(View(t), f, d) => Fits(View(t)', f, d)
             /\ \A wish : Wants(View(t), f, wish) => Wants(View(t)', f, wish)
<1> DEFINE f == modified'[t][i]
<1>1. f.path \in Path /\ (dest'[t][f.path] = dest[t][f.path] \/ dest[t][f.path].type # "file")
  BY FilesKept
<1> HIDE DEF f
<1>2. /\ View(t).had[f.path] \subseteq View(t)'.had[f.path]
      /\ View(t).unread \subseteq View(t)'.unread
      /\ View(t)'.source[f.path] = View(t).source[f.path]
      /\ View(t)'.tree[f.path] = View(t).tree[f.path] \/ View(t).tree[f.path].type # "file"
  BY <1>1, ViewIs
<1>3. /\ \A d : Fits(View(t), f, d) => Fits(View(t)', f, d)
      /\ \A wish : Wants(View(t), f, wish) => Wants(View(t)', f, wish)
  BY <1>2, FitsKept
<1> QED
  BY <1>3 DEF f

LEMMA OthersServed ==
  ASSUME TypeOK, MatchInv, NEW t \in Target, Only(t), NEW u \in Target, u # t, Lives(u)'
  PROVE  Matched(modified'[u], InWork(u)', wire'[u], queue', u, View(u)')
<1>0. /\ task'[u] = task[u] /\ wire'[u] = wire[u] /\ modified'[u] = modified[u]
      /\ dest'[u] = dest[u] /\ UNCHANGED <<source, had, unread>>
      /\ queue' = queue \/ \E wish \in Wish : Request(t, wish)
  BY DEF Only, Local, sourcevars
<1>1. Matched(modified[u], InWork(u), wire[u], queue, u, View(u))
  BY <1>0 DEF MatchInv, Lives
<1>2. InWork(u)' = InWork(u) /\ InWork(u) \in Nat /\ View(u)' = View(u)
  BY <1>0 DEF InWork, View
<1>3. CASE queue' = queue
  BY <1>0, <1>1, <1>2, <1>3
<1>4. ASSUME NEW wish \in Wish, Request(t, wish)
      PROVE  Matched(modified[u], InWork(u), wire[u], queue', u, View(u))
  <2> DEFINE r == [target |-> t, serial |-> serial[t], wish |-> wish]
  <2>1. r \in Requests /\ ~Asks(r, u) /\ queue' = Append(queue, r)
    BY <1>4 DEF TypeOK, Requests, Asks, Request
  <2> HIDE DEF r
  <2>2. queue \in Seq(Requests) /\ wire[u] \in Seq(Message) /\ modified[u] \in Seq(Files)
    BY DEF TypeOK
  <2> QED
    BY <1>1, <1>2, <2>1, <2>2, OtherRequested
<1> QED
  BY <1>0, <1>2, <1>3, <1>4

\* A target asks for something that is not a file: a step of t itself.
LEMMA OwnRequest ==
  ASSUME TypeOK, NEW t \in Target, NEW type \in {"list_done", "ack", "links", "done", "end"},
         Request(t, [type |-> type]), NEW w \in Seq(Message), NEW files \in Seq(Files),
         NEW n \in Nat, NEW h, Matched(files, n, w, queue, t, h)
  PROVE  Matched(files, n, w, queue', t, h)
<1> DEFINE r == [target |-> t, serial |-> serial[t], wish |-> [type |-> type]]
<1>1. r \in Requests /\ ~Asks(r, t) /\ queue' = Append(queue, r)
  BY DEF TypeOK, Requests, Wish, Asks, Request
<1> HIDE DEF r
<1>2. queue \in Seq(Requests)
  BY DEF TypeOK
<1> QED
  BY <1>1, <1>2, OtherRequested

\* A target that serves has lived.
LEMMA ServesAlive ==
  ASSUME TypeOK, NEW t \in Target, Serve(t)
  PROVE  Lives(t) \/ (ChannelCloses(t) /\ ~Lives(t) /\ ~Lives(t)')
BY DEF Serve, ReceiveDirectory, LeaveDirectory, ReceiveFile, ReceiveLink, Descend, TreeEnds,
  ReceiveData, Write, Utime, FilesEnd, MakeLink, LinksEnd, ChannelCloses, Lives, TypeOK

\* Every target gets the contents of the files it has asked for, in their order.
LEMMA ServeMatches ==
  ASSUME TypeOK, MatchInv, WorkInv, WriteInv, PlaceInv, TaskInv, PlanInv,
         NEW t \in Target, Serve(t)
  PROVE  MatchInv' /\ WorkInv'
<1> DEFINE Here == Lives(t)' =>
                     Matched(modified'[t], InWork(t)', wire'[t], queue', t, View(t))
           Work == /\ task'[t] \in {"none", "links", "done", "closed"} => modified'[t] = <<>>
                   /\ task'[t] \in {"write", "utime"} => modified'[t] # <<>>
<1>0. /\ queue \in Seq(Requests) /\ wire[t] \in Seq(Message) /\ modified[t] \in Seq(Files)
      /\ Lives(t) => Matched(modified[t], InWork(t), wire[t], queue, t, View(t))
      /\ InWork(t) \in Nat /\ InWork(t)' \in Nat /\ Len(modified[t]) \in Nat
  BY ModifiedAre DEF TypeOK, MatchInv, InWork
<1>a. Only(t) /\ UNCHANGED <<source, had, unread>> /\ modified'[t] \in Seq(Files)
  <2>1. Only(t)
    BY Alone
  <2>2. TypeOK'
    BY ServeTypes
  <2> QED
    BY <2>1, <2>2 DEF Only, Local, sourcevars, TypeOK
<1>b. Lives(t)' => Lives(t)
  BY ServesAlive
<1>1. ASSUME Here, Work
      PROVE  MatchInv' /\ WorkInv'
  <2>1. ASSUME Lives(t)'
        PROVE  Matched(modified'[t], InWork(t)', wire'[t], queue', t, View(t)')
    <3> DEFINE m == modified'[t]
               n == InWork(t)'
    <3>1. Matched(m, n, wire'[t], queue', t, View(t))
      BY <1>1, <2>1
    <3>2. Len(m) \in Nat /\ n \in Nat /\ DOMAIN m = 1..Len(m)
      BY <1>0, <1>a
    <3>3. ASSUME NEW i \in n + 1 .. Len(m)
          PROVE  /\ \A d : Fits(View(t), m[i], d) => Fits(View(t)', m[i], d)
                 /\ \A wish : Wants(View(t), m[i], wish) => Wants(View(t)', m[i], wish)
      <4>1. i \in DOMAIN m /\ i > n
        BY <3>2
      <4> QED
        BY <1>a, <1>b, <2>1, <4>1, LateKept
    <3> HIDE DEF m, n
    <3>4. Matched(m, n, wire'[t], queue', t, View(t)')
      BY <3>1, <3>2, <3>3, MatchedKept
    <3> QED
      BY <3>4 DEF m, n
  <2>2. ASSUME NEW u \in Target, Lives(u)'
        PROVE  Matched(modified'[u], InWork(u)', wire'[u], queue', u, View(u)')
    BY <1>a, <2>1, <2>2, OthersServed
  <2>3. WorkInv'
    BY <1>1, <1>a DEF WorkInv, Only
  <2> QED
    BY <2>2, <2>3 DEF MatchInv
<1>3. ASSUME Lives(t), wire[t] # <<>>, ~IsData(Head(wire[t])), wire'[t] = Tail(wire[t]),
             UNCHANGED <<task, modified, queue>>
      PROVE  Matched(modified'[t], InWork(t)', wire'[t], queue', t, View(t))
  <2>1. InWork(t)' = InWork(t)
    BY <1>3 DEF InWork
  <2> QED
    BY <1>0, <1>3, <2>1, OtherReceived
<1>4. CASE ReceiveDirectory(t) \/ ReceiveLink(t)
  <2>1. /\ task[t] = "tree" /\ UNCHANGED <<task, modified, queue>>
        /\ wire[t] # <<>> /\ ~IsData(Head(wire[t])) /\ wire'[t] = Tail(wire[t])
    BY <1>4 DEF ReceiveDirectory, ReceiveLink, Descend, Receive, IsData, TypeOK
  <2>2. Here
    BY <1>3, <2>1 DEF Lives
  <2>3. Work
    BY <2>1
  <2> HIDE DEF Here, Work
  <2> QED
    BY <1>1, <2>2, <2>3
<1>5. CASE LeaveDirectory(t)
  <2>1. UNCHANGED <<task, modified, queue, wire>>
    BY <1>5, DirectoryLeft
  <2>2. InWork(t)' = InWork(t) /\ Lives(t)' = Lives(t)
    BY <2>1 DEF InWork, Lives
  <2>3. Here
    BY <1>0, <2>1, <2>2
  <2>4. Work
    BY <2>1 DEF WorkInv
  <2> HIDE DEF Here, Work
  <2> QED
    BY <1>1, <2>3, <2>4
<1>6. CASE ReceiveFile(t)
  <2> DEFINE p == Top(t).path
             e == dest[t][p]
             msg == Head(wire[t])
             wish == [type |-> "send", path |-> p,
                      checksum |-> IF SameSize(e, msg) THEN e.data ELSE None]
             f == [path |-> p, mtime |-> msg.mtime, data |-> None]
  <2>1. /\ task[t] = "tree" /\ UNCHANGED task
        /\ wire[t] # <<>> /\ ~IsData(Head(wire[t])) /\ wire'[t] = Tail(wire[t])
        /\ wish \in Wish /\ f \in Files
        /\ \/ UNCHANGED <<queue, modified>>
           \/ Request(t, wish) /\ modified'[t] = Append(modified[t], f)
    BY <1>6, FileReceived DEF IsData
  <2>3. Work
    BY <2>1
  <2>4. CASE UNCHANGED <<queue, modified>>
    <3>1. Here
      BY <1>3, <2>1, <2>4 DEF Lives
    <3> HIDE DEF Here, Work
    <3> QED
      BY <1>1, <2>3, <3>1
  <2>5. CASE Request(t, wish) /\ modified'[t] = Append(modified[t], f)
    <3> DEFINE r == [target |-> t, serial |-> serial[t], wish |-> wish]
    <3>1. wish.path = p /\ wish.type = "send" /\ f.path = p
          /\ (wish.checksum # None => e.type = "file" /\ wish.checksum = e.data)
      BY DEF SameSize
    <3> HIDE DEF wish, f
    <3>2. r \in Requests /\ queue' = Append(queue, r) /\ Asks(r, t) /\ r.wish = wish
      BY <2>1, <2>5, <3>1 DEF Request, Asks, Requests, TypeOK
    <3>3. Wants(View(t), f, wish)
      BY <3>1, ViewIs DEF Wants
    <3>5. InWork(t) = 0 /\ InWork(t)' = 0 /\ Lives(t)
      BY <2>1 DEF InWork, Lives
    <3> HIDE DEF r
    <3>6. Matched(modified[t], 0, wire'[t], queue, t, View(t))
      BY <1>0, <2>1, <3>5, OtherReceived
    <3>7. wire'[t] \in Seq(Message) /\ 0 <= Len(modified[t])
      BY <1>0, <2>1
    <3>8. Matched(Append(modified[t], f), 0, wire'[t], queue', t, View(t))
      BY <1>0, <2>1, <3>2, <3>3, <3>6, <3>7, FileRequested
    <3>9. Here
      BY <2>5, <3>5, <3>8
    <3> HIDE DEF Here, Work
    <3> QED
      BY <1>1, <2>3, <3>9
  <2> QED
    BY <2>1, <2>4, <2>5
<1>7. ASSUME NEW type \in {"list_done", "links", "end"}, Request(t, [type |-> type]),
             UNCHANGED <<wire, modified>>, task[t] \notin {"write", "utime"},
             task'[t] \notin {"write", "utime"}, Lives(t)' => Lives(t),
             task'[t] \in {"none", "links", "done", "closed"} => modified[t] = <<>>
      PROVE  MatchInv' /\ WorkInv'
  <2>1. InWork(t) = 0 /\ InWork(t)' = 0
    BY <1>7 DEF InWork
  <2>2. Here
    BY <1>0, <1>7, <2>1, OwnRequest
  <2>3. Work
    BY <1>7
  <2> HIDE DEF Here, Work
  <2> QED
    BY <1>1, <2>2, <2>3
<1>8. CASE TreeEnds(t)
  <2>1. /\ task[t] = "tree" /\ task'[t] = "files" /\ UNCHANGED <<wire, modified>>
        /\ Request(t, [type |-> "list_done"])
    BY <1>8 DEF TreeEnds, TypeOK
  <2> QED
    BY <1>7, <2>1 DEF Lives
<1>9. CASE ReceiveData(t)
  <2> DEFINE m == modified[t]
             k == modified'[t]
  <2>1. /\ task[t] = "files" /\ task'[t] \in {"write", "utime"}
        /\ wire[t] # <<>> /\ IsData(Head(wire[t])) /\ wire'[t] = Tail(wire[t])
        /\ Request(t, [type |-> "ack"]) /\ k # <<>>
        /\ Len(k) = Len(m)
        /\ \A i \in DOMAIN m : k[i].path = m[i].path /\ k[i].mtime = m[i].mtime
    BY <1>9, FileOpened
  <2>3. InWork(t) = 0 /\ InWork(t)' = 1 /\ Lives(t)
    BY <2>1 DEF InWork, Lives
  <2>4. Matched(m, 1, wire'[t], queue, t, View(t))
    BY <1>0, <2>1, <2>3, DataReceived
  <2>5. wire'[t] \in Seq(Message)
    BY <1>0, <2>1
  <2>6. Matched(m, 1, wire'[t], queue', t, View(t))
    BY <1>0, <2>1, <2>4, <2>5, OwnRequest
  <2>7. DOMAIN m = 1..Len(m) /\ Len(m) \in Nat
    BY <1>0
  <2> HIDE DEF m, k
  <2>8. ASSUME NEW i \in 1 + 1 .. Len(m)
        PROVE  /\ \A d : Fits(View(t), m[i], d) => Fits(View(t), k[i], d)
               /\ \A wish : Wants(View(t), m[i], wish) => Wants(View(t), k[i], wish)
    <3>1. i \in DOMAIN m
      BY <2>7
    <3> QED
      BY <2>1, <3>1, FitsSame
  <2>9. Matched(k, 1, wire'[t], queue', t, View(t))
    BY <2>1, <2>6, <2>7, <2>8, MatchedKept
  <2>10. Here /\ Work
    BY <2>1, <2>3, <2>9 DEF k
  <2> HIDE DEF Here, Work
  <2> QED
    BY <1>1, <2>10
<1>10. CASE Write(t)
  <2>1. /\ task[t] = "write" /\ task'[t] = "utime" /\ UNCHANGED <<queue, wire, modified>>
    BY <1>10, FileWritten
  <2>2. Here
    BY <1>0, <2>1 DEF InWork, Lives
  <2>3. Work
    BY <2>1 DEF WorkInv
  <2> HIDE DEF Here, Work
  <2> QED
    BY <1>1, <2>2, <2>3
<1>11. CASE Utime(t)
  <2>1. /\ task[t] = "utime" /\ task'[t] = "files" /\ modified'[t] = Tail(modified[t])
        /\ UNCHANGED <<queue, wire>> /\ Lives(t) /\ modified[t] # <<>>
    BY <1>11, FileTimed
  <2>2. InWork(t) = 1 /\ InWork(t)' = 0
    BY <2>1 DEF InWork
  <2>3. Matched(Tail(modified[t]), 0, wire[t], queue, t, View(t))
    BY <1>0, <2>1, <2>2, FileDone
  <2>4. Here /\ Work
    BY <2>1, <2>2, <2>3
  <2> HIDE DEF Here, Work
  <2> QED
    BY <1>1, <2>4
<1>12. CASE FilesEnd(t)
  <2>1. /\ task[t] = "files" /\ task'[t] = "links" /\ UNCHANGED <<wire, modified>>
        /\ Request(t, [type |-> "links"]) /\ modified[t] = <<>>
    BY <1>12 DEF FilesEnd, TypeOK
  <2> QED
    BY <1>7, <2>1 DEF Lives
<1>13. CASE MakeLink(t)
  <2>1. /\ task[t] = "links" /\ wire[t] # <<>> /\ ~IsData(Head(wire[t]))
        /\ wire'[t] = Tail(wire[t]) /\ UNCHANGED <<queue, modified>> /\ Lives(t)
        /\ modified[t] = <<>> /\ task'[t] \in {"links", "failed"}
    BY <1>13, LinkMade DEF IsData
  <2>2. InWork(t) = 0 /\ InWork(t)' = 0
    BY <2>1 DEF InWork
  <2>3. Here
    BY <1>0, <2>1, <2>2, OtherReceived
  <2>4. Work
    BY <2>1
  <2> HIDE DEF Here, Work
  <2> QED
    BY <1>1, <2>3, <2>4
<1>14. CASE LinksEnd(t)
  <2>1. /\ task[t] = "links" /\ wire[t] # <<>> /\ ~IsData(Head(wire[t]))
        /\ wire'[t] = Tail(wire[t]) /\ UNCHANGED modified /\ task'[t] = "done"
        /\ Request(t, [type |-> "done"])
    BY <1>14 DEF LinksEnd, Receive, IsData, TypeOK
  <2>2. InWork(t) = 0 /\ InWork(t)' = 0 /\ Lives(t) /\ modified[t] = <<>>
    BY <2>1 DEF InWork, Lives, WorkInv
  <2>3. wire'[t] \in Seq(Message)
    BY <1>0, <2>1
  <2>4. Matched(modified[t], 0, wire'[t], queue, t, View(t))
    BY <1>0, <2>1, <2>2, OtherReceived
  <2>5. Matched(modified[t], 0, wire'[t], queue', t, View(t))
    BY <1>0, <2>1, <2>3, <2>4, OwnRequest
  <2>6. Here /\ Work
    BY <2>1, <2>2, <2>5
  <2> HIDE DEF Here, Work
  <2> QED
    BY <1>1, <2>6
<1>15. CASE ChannelCloses(t)
  <2>1. /\ task[t] \in {"done", "failed"}
        /\ task'[t] = IF task[t] = "done" THEN "closed" ELSE "error"
        /\ UNCHANGED <<wire, modified>> /\ Request(t, [type |-> "end"])
    BY <1>15 DEF ChannelCloses, TypeOK
  <2> QED
    BY <1>7, <2>1 DEF Lives, WorkInv
<1> QED
  BY <1>4, <1>5, <1>6, <1>8, <1>9, <1>10, <1>11, <1>12, <1>13, <1>14, <1>15 DEF Serve

\* A target writes the contents into the file they are for, and nothing else puts a file there.
LEMMA ServeWrites ==
  ASSUME TypeOK, MatchInv, WorkInv, WriteInv, NoMixUp, PlaceInv, TaskInv,
         NEW t \in Target, Serve(t)
  PROVE  WriteInv' /\ NoMixUp'
<1> DEFINE Right(e, p) == e.type = "file" /\ e.data # Partial =>
                            \E x \in had[p] : x.type = "file" /\ x.data = e.data
           Put == task'[t] = "write" =>
                    LET f == modified'[t][1]
                    IN  /\ f.data # None /\ Fits(View(t)', f, f.data)
                        /\ dest'[t][f.path] = File(Partial, Now)
           Timed == task'[t] = "utime" => Fits(View(t)', modified'[t][1], None)
<1>0. /\ Only(t) /\ source' = source /\ had' = had /\ unread' = unread
      /\ \A u \in Target : View(u) = [source |-> source, had |-> had, unread |-> unread,
                                      tree |-> dest[u]]
      /\ \A p \in Path : Right(dest[t][p], p)
      /\ \A p \in Path : Right(Absent, p) /\ Right(Dir, p) /\ \A l : Right(LinkTo(l), p)
      /\ \A p \in Path : \A m : Right(File(Partial, m), p)
  <2>1. Only(t)
    BY Alone
  <2>2. \A p \in Path : Right(dest[t][p], p)
    BY DEF NoMixUp
  <2>3. \A p \in Path : Right(Absent, p) /\ Right(Dir, p) /\ \A l : Right(LinkTo(l), p)
    BY DEF Absent, Dir, LinkTo
  <2>4. \A p \in Path : \A m : Right(File(Partial, m), p)
    BY DEF File
  <2> QED
    BY <2>1, <2>2, <2>3, <2>4 DEF Only, Local, sourcevars, View
<1>1. ASSUME Put, Timed, \A p \in Path : Right(dest'[t][p], p)
      PROVE  WriteInv' /\ NoMixUp'
  <2>1. \A u \in Target \ {t} : /\ task'[u] = task[u] /\ modified'[u] = modified[u]
                                /\ dest'[u] = dest[u] /\ View(u)' = View(u)
    BY <1>0 DEF Only, View
  <2>2. WriteInv'
    BY <1>1, <2>1 DEF WriteInv
  <2>3. NoMixUp'
    BY <1>0, <1>1, <2>1 DEF NoMixUp
  <2> QED
    BY <2>2, <2>3
<1> HIDE DEF Right, Put, Timed
<1>2. ASSUME task'[t] \notin {"write", "utime"}, \A p \in Path : Right(dest'[t][p], p)
      PROVE  WriteInv' /\ NoMixUp'
  <2>1. Put /\ Timed
    BY <1>2 DEF Put, Timed
  <2> QED
    BY <1>1, <1>2, <2>1
<1>3. CASE ReceiveDirectory(t)
  <2>1. /\ task'[t] = "tree"
        /\ \A q \in Path : dest'[t][q] \in {dest[t][q], Absent, Dir}
    BY <1>3, DirectoryMade
  <2> QED
    BY <1>0, <1>2, <2>1
<1>4. CASE LeaveDirectory(t)
  <2>1. task'[t] = "tree" /\ \A q \in Path : dest'[t][q] \in {dest[t][q], Absent}
    BY <1>4, DirectoryLeft
  <2> QED
    BY <1>0, <1>2, <2>1
<1>5. CASE ReceiveFile(t)
  <2>1. task'[t] = "tree" /\ \A q \in Path : dest'[t][q] \in {dest[t][q], Absent}
    BY <1>5, FileReceived
  <2> QED
    BY <1>0, <1>2, <2>1
<1>6. CASE ReceiveLink(t) \/ TreeEnds(t) \/ FilesEnd(t) \/ LinksEnd(t) \/ ChannelCloses(t)
  <2>1. dest' = dest /\ task'[t] \notin {"write", "utime"}
    BY <1>6 DEF ReceiveLink, TreeEnds, FilesEnd, LinksEnd, ChannelCloses, Descend, TypeOK
  <2> QED
    BY <1>0, <1>2, <2>1
<1>7. CASE ReceiveData(t)
  <2> DEFINE f == modified[t][1]
             g == modified'[t][1]
             data == Head(wire[t]).data
  <2>1. /\ task[t] = "files" /\ Lives(t) /\ modified[t] # <<>> /\ 1 \in DOMAIN modified[t]
        /\ wire[t] # <<>> /\ IsData(Head(wire[t])) /\ f.path \in Path
        /\ g.path = f.path /\ g.mtime = f.mtime
        /\ \/ data = None /\ task'[t] = "utime" /\ dest'[t] = dest[t]
           \/ /\ data # None /\ task'[t] = "write"
              /\ dest'[t][f.path] = File(Partial, Now) /\ g.data = data
        /\ \A q \in Path : q # f.path => dest'[t][q] = dest[t][q]
    <3>1. Lives(t) /\ modified[t] # <<>>
      BY <1>7, FileOpened
    <3>2. 1 \in DOMAIN modified[t] /\ f.path \in Path
      BY <3>1, FirstFile
    <3> QED
      BY <1>7, <3>1, <3>2, FileOpened
  <2>2. Fits(View(t), f, data)
    <3>1. Matched(modified[t], 0, wire[t], queue, t, View(t))
      BY <2>1 DEF MatchInv, InWork
    <3>2. /\ queue \in Seq(Requests) /\ wire[t] \in Seq(Message)
          /\ modified[t] \in Seq(Files)
      BY DEF TypeOK
    <3> QED
      BY <2>1, <3>1, <3>2, DataReceived
  <2>3. \A q \in Path : Right(dest'[t][q], q)
    BY <1>0, <2>1
  <2> HIDE DEF f, g, data
  <2>4. View(t)' = [source |-> source, had |-> had, unread |-> unread, tree |-> dest'[t]]
    BY <1>0, ViewIs
  <2>5. task'[t] = "utime" => Fits(View(t)', g, None)
    <3>1. CASE task'[t] = "utime"
      <4>1. data = None /\ View(t)' = View(t)
        BY <1>0, <2>1, <2>4, <3>1
      <4> QED
        BY <2>1, <2>2, <4>1, FitsSame
    <3> QED
      BY <3>1
  <2>6. task'[t] = "write" => Fits(View(t)', g, data)
    <3>1. CASE task'[t] = "write"
      <4>1. data # None
        BY <2>1, <3>1
      <4>2. /\ View(t)'.source = View(t).source /\ View(t)'.had = View(t).had
              /\ View(t)'.unread = View(t).unread
        BY <1>0, ViewIs
      <4> QED
        BY <2>1, <2>2, <4>1, <4>2 DEF Fits, Wanted
    <3> QED
      BY <3>1
  <2>7. Put /\ Timed
    BY <2>1, <2>5, <2>6 DEF Put, Timed, g
  <2> QED
    BY <1>1, <2>3, <2>7
<1>8. CASE Write(t)
  <2> DEFINE f == modified[t][1]
  <2>1. /\ task[t] = "write" /\ task'[t] = "utime" /\ f.path \in Path
        /\ dest'[t][f.path] = File(f.data, Now)
        /\ \A q \in Path : q # f.path => dest'[t][q] = dest[t][q]
        /\ modified'[t][1] = f
    BY <1>8, FileWritten
  <2>2. f.data # None /\ Fits(View(t), f, f.data)
    BY <2>1 DEF WriteInv
  <2> HIDE DEF f
  <2>3. Right(dest'[t][f.path], f.path)
    BY <2>1, <2>2, ViewIs DEF Right, Fits, File
  <2>4. Fits(View(t)', f, None)
    <3>1. File(f.data, Now).type = "file" /\ File(f.data, Now).data = f.data
      BY DEF File
    <3>2. /\ View(t)'.source = View(t).source /\ View(t)'.had = View(t).had
              /\ View(t)'.unread = View(t).unread
          /\ View(t)'.tree = dest'[t]
      BY <1>0, ViewIs
    <3> QED
      BY <2>1, <2>2, <3>1, <3>2 DEF Fits, Wanted
  <2>5. Put /\ Timed
    BY <2>1, <2>4 DEF Put, Timed
  <2> QED
    BY <1>0, <1>1, <2>1, <2>3, <2>5
<1>9. CASE Utime(t)
  <2> DEFINE f == modified[t][1]
             e == dest[t][f.path]
  <2>1. /\ task'[t] = "files" /\ Lives(t) /\ modified[t] # <<>>
        /\ dest'[t] = dest[t] \/ (e.type = "file" /\ dest'[t][f.path] = File(e.data, f.mtime))
        /\ \A q \in Path : q # f.path => dest'[t][q] = dest[t][q]
    BY <1>9, FileTimed
  <2>2. f.path \in Path
    BY <2>1, FirstFile
  <2> HIDE DEF f
  <2>3. Right(e, f.path)
    BY <1>0, <2>2
  <2> HIDE DEF e
  <2>4. e.type = "file" => \A m : Right(File(e.data, m), f.path)
    BY <2>3 DEF Right, File
  <2>5. \A q \in Path : Right(dest'[t][q], q)
    BY <1>0, <2>1, <2>4
  <2> QED
    BY <1>2, <2>1, <2>5
<1>10. CASE MakeLink(t)
  <2> DEFINE link == Head(wire[t])
  <2>1. /\ task'[t] \in {"links", "failed"}
        /\ link.path \in Path /\ LinkTo(Joined(link.to)) \in Entry
        /\ dest'[t] \in {With(dest[t], link.path, LinkTo(Joined(link.to))), dest[t]}
    BY <1>10, LinkMade
  <2> HIDE DEF link
  <2>2. \A q \in Path : dest'[t][q] \in {Absent, LinkTo(Joined(link.to)), dest[t][q]}
    BY <2>1, TreeKept DEF TypeOK
  <2>3. \A q \in Path : Right(dest'[t][q], q)
    BY <1>0, <2>2
  <2> QED
    BY <1>2, <2>1, <2>3
<1> QED
  BY <1>3, <1>4, <1>5, <1>6, <1>7, <1>8, <1>9, <1>10 DEF Serve

-----------------------------------------------------------------------------
(* The trees, at the source and at the targets.                            *)

\* The source changes; its files have new times.
LEMMA TreesChanged ==
  ASSUME TypeOK, TypeOK', SourceInv, DestInv, TimeInv,
         NEW p \in Path, NEW e \in Things(p, clock + 1), Change(p, e)
  PROVE  SourceInv' /\ DestInv' /\ TimeInv'
<1>1. /\ p # <<>> /\ InDir(source, p) /\ source' = With(source, p, e) /\ clock' = clock + 1
      /\ had' = [q \in Path |-> had[q] \cup {source'[q]}] /\ dest' = dest /\ unread' = unread
      /\ clock \in Nat /\ clock' <= MaxChange + 1 /\ clock >= 1
      /\ e.type = "file" => e.mtime = clock + 1
  <2>1. e.type = "file" => e.mtime = clock + 1
    BY DEF Things, Absent, Dir, Other, File, LinkTo
  <2>2. clock \in Nat /\ clock' <= MaxChange + 1 /\ clock >= 1
    BY RSyncAssumption DEF TypeOK
  <2> QED
    BY <2>1, <2>2 DEF Change, remote
<1>2. \A q \in Path : source'[q] \in {Absent, source[q]} \/ (q = p /\ source'[q] = e)
  BY <1>1, Replaced DEF IsStrictPrefix
<1>3. SourceInv'
  <2>1. Grown(source')
    BY <1>1, GrownKept DEF SourceInv
  <2>2. source'[<<>>] = source[<<>>]
    <3>1. <<>> \in Path
      BY RSyncAssumption
    <3>2. ~IsPrefix(p, <<>>)
      BY <1>1, PrefixOrder
    <3> QED
      BY <1>1, <3>1, <3>2, Replaced
  <2>3. had'[<<>>] = {source'[<<>>]}
    <3>1. <<>> \in Path
      BY RSyncAssumption
    <3> QED
      BY <1>1, <2>2, <3>1 DEF SourceInv
  <2>4. \A q \in Path : source'[q].type = "file" => source'[q].mtime \in 1..clock'
    <3>1. Absent.type # "file"
      BY DEF Absent
    <3>2. \A q \in Path : source[q].type = "file" => source[q].mtime \in 1..clock
      BY DEF SourceInv
    <3> QED
      BY <1>1, <1>2, <3>1, <3>2
  <2> QED
    BY <2>1, <2>3, <2>4 DEF SourceInv
<1>4. TimeInv'
  <2> SUFFICES ASSUME NEW t \in Target, NEW q \in Path, dest[t][q].type = "file"
               PROVE  /\ dest[t][q].mtime \in 0..clock' \cup {Now}
                      /\ \E x \in had'[q] : x.type = "file"
                      /\ source'[q].type = "file" /\ source'[q].mtime = dest[t][q].mtime =>
                           source'[q].data = dest[t][q].data \/ <<q, dest[t][q].mtime>> \in unread
    BY <1>1 DEF TimeInv
  <2>1. /\ dest[t][q].mtime \in 0..clock \cup {Now}
        /\ \E x \in had[q] : x.type = "file"
        /\ source[q].type = "file" /\ source[q].mtime = dest[t][q].mtime =>
             source[q].data = dest[t][q].data \/ <<q, dest[t][q].mtime>> \in unread
    BY DEF TimeInv
  <2>2. \E x \in had'[q] : x.type = "file"
    BY <1>1, <2>1
  <2>3. dest[t][q].mtime # clock + 1
    BY <1>1, <2>1, RSyncAssumption DEF Now
  <2>4. Absent.type # "file"
    BY DEF Absent
  <2>5. dest[t][q].mtime \in 0..clock' \cup {Now}
    BY <1>1, <2>1
  <2> QED
    BY <1>1, <1>2, <2>1, <2>2, <2>3, <2>4, <2>5
<1> QED
  BY <1>1, <1>3, <1>4 DEF DestInv

\* Trees at the targets stay trees; no file gets the time of another one.
LEMMA TreesServed ==
  ASSUME TypeOK, MatchInv, WorkInv, WriteInv, SourceInv, DestInv, TimeInv, PlaceInv, TaskInv,
         FileInv, WriteInv', NEW t \in Target, Serve(t)
  PROVE  DestInv' /\ TimeInv'
<1> DEFINE Timely(e, p) ==
             e.type = "file" =>
               /\ e.mtime \in 0..clock \cup {Now}
               /\ \E x \in had[p] : x.type = "file"
               /\ source[p].type = "file" /\ source[p].mtime = e.mtime =>
                    source[p].data = e.data \/ <<p, e.mtime>> \in unread
<1>0. /\ Only(t) /\ UNCHANGED <<source, had, clock, unread>>
      /\ Grown(dest[t]) /\ dest[t] \in [Path -> Entry]
      /\ \A p \in Path : Timely(dest[t][p], p)
      /\ \A p \in Path : Timely(Absent, p) /\ Timely(Dir, p) /\ \A l : Timely(LinkTo(l), p)
  <2>1. Only(t)
    BY Alone
  <2>2. \A p \in Path : Timely(dest[t][p], p)
    BY DEF TimeInv
  <2>3. \A p \in Path : Timely(Absent, p) /\ Timely(Dir, p) /\ \A l : Timely(LinkTo(l), p)
    BY DEF Absent, Dir, LinkTo
  <2> QED
    BY <2>1, <2>2, <2>3 DEF Only, Local, sourcevars, DestInv, TypeOK
<1>1. ASSUME Grown(dest'[t]), \A p \in Path : Timely(dest'[t][p], p)
      PROVE  DestInv' /\ TimeInv'
  <2>1. \A u \in Target \ {t} : dest'[u] = dest[u]
    BY <1>0 DEF Only
  <2>2. DestInv'
    BY <1>1, <2>1 DEF DestInv
  <2>3. TimeInv'
    BY <1>0, <1>1, <2>1 DEF TimeInv
  <2> QED
    BY <2>2, <2>3
<1>2. \A p \in Path : \A d : (\E x \in had[p] : x.type = "file") => Timely(File(d, Now), p)
  <2> SUFFICES ASSUME NEW p \in Path, NEW d, \E x \in had[p] : x.type = "file"
               PROVE  Timely(File(d, Now), p)
    OBVIOUS
  <2>1. source[p].type = "file" => source[p].mtime \in 1..clock /\ clock \in 1..MaxChange + 1
    BY DEF SourceInv, TypeOK
  <2>2. source[p].type = "file" => source[p].mtime # Now
    BY <2>1, RSyncAssumption DEF Now
  <2> QED
    BY <2>2 DEF File
<1> HIDE DEF Timely
<1>3. CASE ReceiveDirectory(t)
  <2> DEFINE p == Top(t).path
  <2>1. /\ dest'[t] \in {dest[t], With(dest[t], p, Dir)}
        /\ \A q \in Path : dest'[t][q] \in {dest[t][q], Absent, Dir}
        /\ p \in Path /\ (p # <<>> => InDir(dest[t], p))
    BY <1>3, DirectoryMade, TopPlaced, TopIs
  <2> HIDE DEF p
  <2>2. Grown(dest'[t])
    BY <1>0, <2>1, GrownKept
  <2>3. \A q \in Path : Timely(dest'[t][q], q)
    BY <1>0, <2>1
  <2> QED
    BY <1>1, <2>2, <2>3
<1>4. CASE LeaveDirectory(t)
  <2>1. /\ dest'[t] \in {dest[t], Without(dest[t], Gone(Top(t)))}
        /\ \A q \in Path : dest'[t][q] \in {dest[t][q], Absent}
    BY <1>4, DirectoryLeft
  <2>2. Gone(Top(t)) \in SUBSET Path
    BY DEF Gone, Children, Below
  <2>3. Grown(dest'[t])
    <3>1. <<>> \in Path /\ Grown(dest[t])
      BY <1>0, RSyncAssumption
    <3>2. Grown(Without(dest[t], Gone(Top(t))))
      BY <2>2, <3>1, GrownKept
    <3> QED
      BY <2>1, <3>1, <3>2
  <2> QED
    BY <1>0, <1>1, <2>1, <2>3
<1>5. CASE ReceiveFile(t)
  <2>1. /\ dest'[t] = dest[t] \/ dest'[t] = Without(dest[t], {Top(t).path})
        /\ \A q \in Path : dest'[t][q] \in {dest[t][q], Absent}
        /\ {Top(t).path} \in SUBSET Path
    <3>1. /\ dest'[t] = dest[t] \/ dest'[t] = Without(dest[t], {Top(t).path})
          /\ \A q \in Path : dest'[t][q] \in {dest[t][q], Absent}
          /\ stack[t] # <<>>
      BY <1>5, FileReceived, ZenonT(30)
    <3>2. Top(t).path \in Path
      BY <3>1, TopIs
    <3> QED
      BY <3>1, <3>2
  <2>2. Grown(dest'[t])
    <3> DEFINE P == {Top(t).path}
    <3>1. P \in SUBSET Path /\ (dest'[t] = dest[t] \/ dest'[t] = Without(dest[t], P))
      BY <2>1
    <3> HIDE DEF P
    <3>2. <<>> \in Path /\ Grown(dest[t])
      BY <1>0, RSyncAssumption
    <3>3. Grown(Without(dest[t], P))
      BY <3>1, <3>2, GrownKept
    <3> QED
      BY <3>1, <3>2, <3>3
  <2> QED
    BY <1>0, <1>1, <2>1, <2>2
<1>6. CASE ReceiveLink(t) \/ TreeEnds(t) \/ FilesEnd(t) \/ LinksEnd(t) \/ ChannelCloses(t)
  <2>1. dest' = dest
    BY <1>6 DEF ReceiveLink, TreeEnds, FilesEnd, LinksEnd, ChannelCloses
  <2> QED
    BY <1>0, <1>1, <2>1
<1>7. ASSUME Lives(t), modified[t] # <<>>,
             LET f == modified[t][1]
             IN  \/ dest'[t] = dest[t]
                 \/ \E e : /\ dest'[t] = [dest[t] EXCEPT ![f.path] = e]
                           /\ Timely(e, f.path)
      PROVE  DestInv' /\ TimeInv'
  <2> DEFINE f == modified[t][1]
  <2>1. /\ f.path \in Path /\ dest[t][f.path].type \in {"file", "absent"}
        /\ f.path # <<>> => InDir(dest[t], f.path)
    BY <1>7, FirstFile
  <2>2. dest[t][f.path] # Dir
    BY <2>1 DEF Dir
  <2>3. ASSUME NEW e, dest'[t] = [dest[t] EXCEPT ![f.path] = e], Timely(e, f.path)
        PROVE  DestInv' /\ TimeInv'
    <3> DEFINE p == f.path
               tree == dest[t]
    <3> HIDE DEF f
    <3>1. Grown(dest'[t])
      <4>1. /\ tree \in [Path -> Entry] /\ Grown(tree) /\ p \in Path /\ tree[p] # Dir
            /\ p = <<>> \/ InDir(tree, p)
        BY <1>0, <2>1, <2>2
      <4>2. dest'[t] = [tree EXCEPT ![p] = e]
        BY <2>3
      <4> HIDE DEF tree, p
      <4>3. Grown([tree EXCEPT ![p] = e])
        BY <4>1, GrownWithFile
      <4> QED
        BY <4>2, <4>3
    <3>2. \A q \in Path : Timely(dest'[t][q], q)
      BY <1>0, <2>1, <2>3
    <3> QED
      BY <1>1, <3>1, <3>2
  <2> QED
    BY <1>0, <1>1, <1>7, <2>3
<1>8. CASE ReceiveData(t)
  <2> DEFINE f == modified[t][1]
  <2>1. /\ Lives(t) /\ modified[t] # <<>>
        /\ \/ dest'[t] = dest[t]
           \/ /\ dest'[t] = [dest[t] EXCEPT ![f.path] = File(Partial, Now)]
              /\ task'[t] = "write" /\ modified'[t][1].path = f.path
    <3>1. Lives(t) /\ modified[t] # <<>>
      BY <1>8, FileOpened
    <3>2. 1 \in DOMAIN modified[t]
      BY <3>1, FirstFile
    <3> QED
      BY <1>8, <3>1, <3>2, FileOpened
  <2>2. f.path \in Path
    BY <2>1, FirstFile
  <2>3. task'[t] = "write" =>
          /\ modified'[t][1].data # None
          /\ Fits(View(t)', modified'[t][1], modified'[t][1].data)
    BY DEF WriteInv
  <2>4. task'[t] = "write" /\ modified'[t][1].path = f.path =>
          \E x \in had[f.path] : x.type = "file"
    <3> HIDE DEF f
    <3> QED
      BY <1>0, <2>3, ViewIs DEF Fits
  <2> HIDE DEF f
  <2>5. task'[t] = "write" /\ modified'[t][1].path = f.path => Timely(File(Partial, Now), f.path)
    BY <1>2, <2>2, <2>4
  <2> QED
    BY <1>7, <2>1, <2>5 DEF f
<1>9. CASE Write(t)
  <2> DEFINE f == modified[t][1]
  <2>1. /\ Lives(t) /\ modified[t] # <<>> /\ f.path \in Path
        /\ dest[t][f.path] = File(Partial, Now)
        /\ dest'[t] = [dest[t] EXCEPT ![f.path] = File(f.data, Now)]
    BY <1>9, FileWritten
  <2> HIDE DEF f
  <2>2. \E x \in had[f.path] : x.type = "file"
    <3>1. Timely(dest[t][f.path], f.path) /\ dest[t][f.path].type = "file"
      BY <1>0, <2>1 DEF File
    <3> QED
      BY <3>1 DEF Timely
  <2>3. Timely(File(f.data, Now), f.path)
    BY <1>2, <2>1, <2>2
  <2> QED
    BY <1>7, <2>1, <2>3 DEF f
<1>10. CASE Utime(t)
  <2> DEFINE f == modified[t][1]
             e == dest[t][f.path]
  <2>1. /\ task[t] = "utime" /\ Lives(t) /\ modified[t] # <<>>
        /\ \/ dest'[t] = dest[t]
           \/ /\ e.type = "file"
              /\ dest'[t] = [dest[t] EXCEPT ![f.path] = File(e.data, f.mtime)]
    BY <1>10, FileTimed
  <2>2. f \in Files /\ f.path \in Path /\ 1 \in DOMAIN modified[t]
    BY <2>1, FirstFile
  <2>3. f.mtime \in 0..clock
    <3>1. f.mtime <= clock
      BY <2>1, <2>2 DEF FileInv
    <3>2. f.mtime \in 0..Now /\ clock \in Nat
      <4> HIDE DEF f
      <4> QED
        BY <2>2 DEF Files, TypeOK
    <3> QED
      BY <3>1, <3>2, RSyncAssumption DEF Now
  <2>4. Fits(View(t), f, None)
    BY <2>1 DEF WriteInv
  <2> HIDE DEF f
  <2>5. Timely(e, f.path)
    BY <1>0, <2>2
  <2>6. e.type = "file" /\ source[f.path].type = "file" /\ source[f.path].mtime = f.mtime =>
          source[f.path].data = e.data \/ <<f.path, f.mtime>> \in unread
    <3>1. source[f.path].type = "file" => source[f.path].data # None
      <4>1. source[f.path] \in Entry
        BY <2>2 DEF TypeOK
      <4>2. None \notin Data \cup {Partial}
        BY RSyncAssumption DEF None, Partial
      <4> QED
        BY <4>1, <4>2, Entries
    <3> QED
      BY <2>4, <3>1, ViewIs DEF Fits, Wanted
  <2> HIDE DEF e
  <2>7. e.type = "file" => Timely(File(e.data, f.mtime), f.path)
    BY <2>3, <2>5, <2>6 DEF Timely, File
  <2> QED
    BY <1>7, <2>1, <2>7 DEF f, e
<1>11. CASE MakeLink(t)
  <2> DEFINE link == Head(wire[t])
  <2>1. /\ link.path \in Path /\ LinkTo(Joined(link.to)) \in Entry
        /\ \/ /\ dest'[t] = With(dest[t], link.path, LinkTo(Joined(link.to)))
              /\ InDir(dest[t], link.path)
           \/ dest'[t] = dest[t]
    BY <1>11, LinkMade
  <2> HIDE DEF link
  <2>2. \A q \in Path : dest'[t][q] \in {Absent, LinkTo(Joined(link.to)), dest[t][q]}
    BY <1>0, <2>1, TreeKept
  <2>3. Grown(dest'[t])
    BY <1>0, <2>1, GrownKept
  <2> QED
    BY <1>0, <1>1, <2>2, <2>3
<1> QED
  BY <1>3, <1>4, <1>5, <1>6, <1>8, <1>9, <1>10, <1>11 DEF Serve

-----------------------------------------------------------------------------
(* What is on the way has its place, and what is there is right.           *)

\* What the places, the trees and the files of the target t are to be.
Settled(t, s, m, tree) ==
  /\ Apart(s)
  /\ \A i, k \in DOMAIN m : i # k => m[i].path # m[k].path
  /\ Placed(Pend(s), Left(s), PathsOf(m), tree)
  /\ t \in channels /\ stable /\ LinksCurrent =>
       InSync(Pend(s), Left(s), PathsOf(m) \cup Spoilt, tree, source, delete[t])
  /\ stable => \A l \in Left(s) : source[l.path] = Dir /\ l.names = Present(source, l.path)
  /\ \A i \in DOMAIN m :
       /\ m[i].mtime <= clock
       /\ stable => \/ source[m[i].path].type = "file" /\ source[m[i].path].mtime = m[i].mtime
                    \/ m[i].path = <<>> /\ source[m[i].path] = Absent

LEMMA SettledIs ==
  ASSUME PlaceInv, SyncInv, LeavesInv, FileInv, NEW t \in Target, Lives(t)
  PROVE  Settled(t, stack[t], modified[t], dest[t])
BY DEF PlaceInv, SyncInv, LeavesInv, FileInv, Settled

\* Files that could not be read stay so.
LEMMA SpoiltKept ==
  ASSUME source' = source, unread \subseteq unread'
  PROVE  Spoilt \subseteq Spoilt'
BY DEF Spoilt

\* More files may be out of date.
LEMMA SyncMore ==
  ASSUME NEW P, NEW L, NEW M, NEW N, NEW tree, NEW src, NEW d, M \subseteq N,
         InSync(P, L, M, tree, src, d)
  PROVE  InSync(P, L, N, tree, src, d)
BY DEF InSync

\* What is settled for the targets after a step that leaves the source alone.
LEMMA SettledThen ==
  ASSUME UNCHANGED <<source, clock, stable, delete>>, channels' \subseteq channels,
         unread \subseteq unread', channels \subseteq Target, LinksCurrent' => LinksCurrent,
         \A t \in Target : Lives(t)' => Settled(t, stack'[t], modified'[t], dest'[t])
  PROVE  PlaceInv' /\ SyncInv' /\ LeavesInv' /\ FileInv'
<1>1. PlaceInv'
  BY DEF PlaceInv, Settled
<1>2. SyncInv'
  <2> SUFFICES ASSUME NEW t \in channels', Lives(t)', stable, LinksCurrent'
               PROVE  InSync(Pend(stack'[t]), Left(stack'[t]), PathsOf(modified'[t]) \cup Spoilt',
                             dest'[t], source, delete[t])
    BY DEF SyncInv
  <2>1. InSync(Pend(stack'[t]), Left(stack'[t]), PathsOf(modified'[t]) \cup Spoilt, dest'[t],
               source, delete[t])
    BY DEF Settled
  <2>2. PathsOf(modified'[t]) \cup Spoilt \subseteq PathsOf(modified'[t]) \cup Spoilt'
    BY SpoiltKept
  <2> QED
    BY <2>1, <2>2, SyncMore
<1>3. LeavesInv'
  BY DEF LeavesInv, Settled
<1>4. FileInv'
  BY DEF FileInv, Settled
<1> QED
  BY <1>1, <1>2, <1>3, <1>4

\* The paths of what there is to write.
LEMMA PathsAppended ==
  ASSUME NEW m \in Seq(Files), NEW f \in Files
  PROVE  PathsOf(Append(m, f)) = PathsOf(m) \cup {f.path}
<1>1. /\ DOMAIN m = 1..Len(m) /\ Len(m) \in Nat /\ DOMAIN Append(m, f) = 1..Len(m) + 1
      /\ Append(m, f)[Len(m) + 1] = f
      /\ \A i \in DOMAIN m : Append(m, f)[i] = m[i] /\ i \in DOMAIN Append(m, f)
      /\ \A i \in DOMAIN Append(m, f) : i = Len(m) + 1 \/ i \in DOMAIN m
  BY AppendIs
<1> DEFINE a == Append(m, f)
<1> HIDE DEF a
<1>2. Len(m) + 1 \in DOMAIN a
  BY <1>1 DEF a
<1>3. PathsOf(a) \subseteq PathsOf(m) \cup {f.path}
  BY <1>1 DEF PathsOf, a
<1>4. PathsOf(m) \subseteq PathsOf(a)
  BY <1>1 DEF PathsOf, a
<1>5. f.path \in PathsOf(a)
  BY <1>1, <1>2 DEF PathsOf, a
<1> QED
  BY <1>3, <1>4, <1>5 DEF a

LEMMA PathsTail ==
  ASSUME NEW m \in Seq(Files), m # <<>>
  PROVE  /\ PathsOf(Tail(m)) \subseteq PathsOf(m)
         /\ PathsOf(m) \subseteq PathsOf(Tail(m)) \cup {m[1].path}
<1>1. /\ DOMAIN m = 1..Len(m)
      /\ \A i \in DOMAIN Tail(m) : Tail(m)[i] = m[i + 1] /\ i + 1 \in DOMAIN m
      /\ \A i \in DOMAIN m : i \in Nat /\ (i = 1 \/ i - 1 \in DOMAIN Tail(m))
  <2>1. Len(m) \in Nat
    OBVIOUS
  <2> QED
    BY <2>1, TailIs
<1>2. PathsOf(Tail(m)) \subseteq PathsOf(m)
  BY <1>1 DEF PathsOf
<1>3. \A i \in DOMAIN m : i # 1 => m[i] = Tail(m)[i - 1]
  BY <1>1
<1>4. PathsOf(m) \subseteq PathsOf(Tail(m)) \cup {m[1].path}
  BY <1>1, <1>3 DEF PathsOf
<1> QED
  BY <1>2, <1>4

LEMMA PathsEmpty == PathsOf(<<>>) = {} /\ Pend(<<>>) = {} /\ Left(<<>>) = {} /\ Apart(<<>>)
BY DEF PathsOf, Pend, Left, Apart, Visiting

\* Files are what they have.
LEMMA SameFile ==
  ASSUME NEW e \in Entry, e.type = "file"
  PROVE  e = File(e.data, e.mtime)
BY DEF Entry, File, Absent, Dir, Other

\* The root of the source does not change.
LEMMA NoRootFile ==
  ASSUME SourceInv, TimeInv, NEW t \in Target, NEW p \in Path, p = <<>>, source[p] = Absent
  PROVE  (\A x \in had[p] : x.type # "file") /\ dest[t][p].type # "file"
<1>1. \A x \in had[p] : x.type # "file"
  BY DEF SourceInv, Absent
<1>2. dest[t][p].type = "file" => \E x \in had[p] : x.type = "file"
  BY DEF TimeInv
<1> QED
  BY <1>1, <1>2

-----------------------------------------------------------------------------
\* A directory is received.
LEMMA DirectoryPlaced ==
  ASSUME TypeOK, DestInv, SourceInv, PlaceInv, SyncInv, LeavesInv, FileInv, PlanInv, TaskInv,
         NEW t \in Target, ReceiveDirectory(t)
  PROVE  Settled(t, stack'[t], modified'[t], dest'[t])
<1> DEFINE p == Top(t).path
           names == Head(wire[t]).names
           N == ToSet(names)
           r == Tail(stack[t])
           s == stack'[t]
           M == PathsOf(modified[t])
           P == Pend(r)
           L == Left(r)
           Q == Pend(stack[t])
           tree == dest'[t]
<1>1. /\ Lives(t) /\ stack[t] # <<>> /\ ~Top(t).leave /\ names \in Seq(Path)
      /\ task[t] = "tree" /\ wire[t] # <<>> /\ Head(wire[t]).type = "dir"
      /\ tree[p] = Dir /\ \A q \in Path : ~IsPrefix(p, q) => tree[q] = dest[t][q]
      /\ modified'[t] = modified[t]
      /\ s = [i \in DOMAIN names |-> Visit(names[i])] \o <<Leave(p, N)>> \o r
  BY DirectoryMade
<1>2. /\ Settled(t, stack[t], modified[t], dest[t])
      /\ N \subseteq Children(p) /\ IsInjective(names)
      /\ stable => source[p] = Dir /\ N = Present(source, p)
  <2>1. Describes(World, p, Head(wire[t]))
    BY <1>1, HeadDescribed DEF IsTreePart
  <2> QED
    BY <1>1, <2>1, SettledIs DEF Describes, World
<1>3. /\ Placed(Q, L, M, dest[t]) /\ Q = {p} \cup P /\ Left(stack[t]) = L /\ Apart(r)
      /\ \A x \in P : ~IsPrefix(p, x) /\ ~IsPrefix(x, p)
  BY <1>1, TopPlaced
<1>4. /\ p \in Path /\ r \in Seq(Visits) /\ P \in SUBSET Path /\ L \in SUBSET Visits
      /\ M \in SUBSET Path
  <2>1. M \in SUBSET Path
    BY ModifiedAre DEF PathsOf
  <2> QED
    BY <1>1, <2>1, TopIs
<1>5. N \in SUBSET Children(p) /\ names \in Seq(Path)
  BY <1>1, <1>2
<1> HIDE DEF names, N, r, s, M, P, L, Q, tree, p
<1>6. /\ \A n \in N, x \in P : ~IsPrefix(n, x) /\ ~IsPrefix(x, n)
      /\ \A n, k \in N : n # k => ~IsPrefix(n, k)
  BY <1>3, <1>4, <1>5, ChildrenApart
<1>7. \A i, k \in DOMAIN names : i # k => ~IsPrefix(names[i], names[k])
  <2>1. \A i \in DOMAIN names : names[i] \in N
    BY DEF N, ToSet
  <2>2. \A i, k \in DOMAIN names : i # k => names[i] # names[k]
    BY <1>2 DEF IsInjective
  <2> QED
    BY <1>6, <2>1, <2>2
<1>8. Pend(s) = N \cup P /\ Left(s) = {Leave(p, N)} \cup L /\ Apart(s)
  <2>1. \A x \in ToSet(names), y \in Pend(r) : ~IsPrefix(x, y) /\ ~IsPrefix(y, x)
    BY <1>6 DEF N, P
  <2>2. Apart(r)
    BY <1>3
  <2>3. /\ Pend(s) = ToSet(names) \cup Pend(r)
        /\ Left(s) = {Leave(p, ToSet(names))} \cup Left(r)
        /\ Apart(s)
    BY <1>1, <1>4, <1>5, <1>7, <2>1, <2>2, DirectoryPushed DEF N
  <2> QED
    BY <2>3 DEF N, P, L
<1>9. Placed(Pend(s), Left(s), M, tree)
  <2>1. Pend(s) = P \cup N /\ Left(s) = {Leave(p, N)} \cup L /\ P \subseteq Q /\ p \in Q
    BY <1>3, <1>8
  <2>2. /\ tree[p] = Dir /\ \A q \in Path : ~IsPrefix(p, q) => tree[q] = dest[t][q]
        /\ Placed(Q, L, M, dest[t]) /\ \A x \in P : ~IsPrefix(p, x) /\ ~IsPrefix(x, p)
    BY <1>1, <1>3
  <2>3. p \in Path /\ N \in SUBSET Children(p) /\ P \in SUBSET Path /\ M \in SUBSET Path
        /\ L \in SUBSET Visits
    BY <1>4, <1>5
  <2> QED
    BY <2>1, <2>2, <2>3, PlacedDirectory, ZenonT(30)
<1>10. ASSUME t \in channels, stable, LinksCurrent
       PROVE  InSync(Pend(s), Left(s), M \cup Spoilt, tree, source, delete[t])
  <2>1. InSync(Q, L, M \cup Spoilt, dest[t], source, delete[t])
    BY <1>2, <1>3, <1>10 DEF Settled, Q, M
  <2>2. Grown(source) /\ source[p] = Dir /\ N = Present(source, p)
    BY <1>2, <1>10 DEF SourceInv
  <2>3. /\ \A x \in Q : x = p \/ x \in Pend(s)
        /\ Present(source, p) \subseteq Pend(s)
        /\ Leave(p, Present(source, p)) \in Left(s) /\ L \subseteq Left(s)
    BY <1>3, <1>8, <2>2
  <2> QED
    BY <1>1, <1>4, <2>1, <2>2, <2>3, SyncDirectory
<1>11. ASSUME stable, NEW l \in Left(s)
       PROVE  source[l.path] = Dir /\ l.names = Present(source, l.path)
  <2>1. CASE l = Leave(p, N)
    <3>1. l.path = p /\ l.names = N
      BY <2>1 DEF Leave
    <3> QED
      BY <1>2, <1>11, <3>1
  <2>2. CASE l \in L
    BY <1>2, <1>3, <1>11, <2>2 DEF Settled
  <2> QED
    BY <1>8, <2>1, <2>2
<1>12. Settled(t, s, modified[t], tree)
  BY <1>2, <1>8, <1>9, <1>10, <1>11 DEF Settled, M
<1> QED
  BY <1>1, <1>12 DEF s, tree

\* A directory is left.
LEMMA DirectoryCleaned ==
  ASSUME TypeOK, SourceInv, PlaceInv, SyncInv, LeavesInv, FileInv,
         NEW t \in Target, LeaveDirectory(t)
  PROVE  Settled(t, stack'[t], modified'[t], dest'[t])
<1> DEFINE l == Top(t)
           M == PathsOf(modified[t])
           P == Pend(stack[t])
           K == Left(stack[t])
           L == Left(Tail(stack[t]))
           tree == dest'[t]
           d == delete[t]
<1>1. /\ Lives(t) /\ stack[t] # <<>> /\ l.leave /\ modified'[t] = modified[t]
      /\ tree = IF d THEN Without(dest[t], Gone(l)) ELSE dest[t]
      /\ stack'[t] = Tail(stack[t])
  BY DirectoryLeft
<1>2. Settled(t, stack[t], modified[t], dest[t])
  BY <1>1, SettledIs
<1>3. /\ l \in Visits /\ K = {l} \cup L /\ Pend(Tail(stack[t])) = P /\ Apart(Tail(stack[t]))
  BY <1>1, <1>2, TopIs, LeavePopped DEF Settled
<1>4. P \in SUBSET Path /\ M \in SUBSET Path
  <2>1. M \in SUBSET Path
    BY ModifiedAre DEF PathsOf
  <2> QED
    BY <2>1, StackIs DEF TypeOK
<1>5. Placed(P, K, M, dest[t])
  BY <1>2 DEF Settled
<1>6. stable => l.names = Present(source, l.path)
  BY <1>2, <1>3 DEF Settled
<1> HIDE DEF l, M, P, K, L, tree, d
<1>7. Placed(P, K, M, tree)
  BY <1>1, <1>3, <1>4, <1>5, PlacedLeft
<1>8. Placed(P, L, M, tree)
  <2>1. L \in SUBSET K /\ P \in SUBSET P /\ M \in SUBSET M
    BY <1>3
  <2> QED
    BY <1>7, <2>1, PlacedLess
<1>9. ASSUME t \in channels, stable, LinksCurrent
      PROVE  InSync(P, L, M \cup Spoilt, tree, source, d)
  <2>1. InSync(P, K, M \cup Spoilt, dest[t], source, d)
    BY <1>2, <1>9 DEF Settled, P, K, M, d
  <2>2. Grown(source) /\ K \subseteq {l} \cup L
    BY <1>3 DEF SourceInv
  <2> QED
    BY <1>1, <1>3, <1>6, <1>9, <2>1, <2>2, SyncLeft
<1>10. L \subseteq K
  BY <1>3
<1>11. Settled(t, Tail(stack[t]), modified[t], tree)
  BY <1>2, <1>3, <1>8, <1>9, <1>10 DEF Settled, M, P, K, L, d
<1> QED
  BY <1>1, <1>11 DEF tree

\* A file is received.
LEMMA FilePlaced ==
  ASSUME TypeOK, SourceInv, TimeInv, PlaceInv, SyncInv, LeavesInv, FileInv, PlanInv, TaskInv,
         DestInv', NEW t \in Target, ReceiveFile(t)
  PROVE  Settled(t, stack'[t], modified'[t], dest'[t])
<1> DEFINE p == Top(t).path
           e == dest[t][p]
           msg == Head(wire[t])
           f == [path |-> p, mtime |-> msg.mtime, data |-> None]
           r == Tail(stack[t])
           M == PathsOf(modified[t])
           P == Pend(r)
           L == Left(r)
           Q == Pend(stack[t])
           tree == dest'[t]
           d == delete[t]
<1>1. /\ task[t] = "tree" /\ Lives(t) /\ stack[t] # <<>> /\ ~Top(t).leave
      /\ wire[t] # <<>> /\ msg.type = "file" /\ msg \in Message /\ f \in Files
      /\ \A q \in Path : ~IsPrefix(p, q) => tree[q] = dest[t][q]
      /\ stack'[t] = r
      /\ \/ Fine(e, msg) /\ tree = dest[t] /\ modified'[t] = modified[t]
         \/ /\ tree[p].type \in {"file", "absent"} /\ modified'[t] = Append(modified[t], f)
            /\ e.type # "file" => tree[p] = Absent
  <2>1. modified' = modified => modified'[t] = modified[t]
    OBVIOUS
  <2> QED
    BY <2>1, FileReceived
<1>2. /\ Settled(t, stack[t], modified[t], dest[t])
      /\ msg.mtime <= clock
      /\ stable => \/ source[p].type = "file" /\ source[p].mtime = msg.mtime
                   \/ p = <<>> /\ source[p] = Absent
  <2>1. Describes(World, p, msg)
    BY <1>1, HeadDescribed DEF IsTreePart
  <2> QED
    BY <1>1, <2>1, SettledIs DEF Describes, World
<1>3. /\ Placed(Q, L, M, dest[t]) /\ Q = {p} \cup P /\ Left(stack[t]) = L /\ Apart(r)
      /\ \A x \in P : ~IsPrefix(p, x) /\ ~IsPrefix(x, p)
      /\ \A m \in M : ~IsPrefix(p, m)
  BY <1>1, TopPlaced
<1>4. /\ p \in Path /\ r \in Seq(Visits) /\ P \in SUBSET Path /\ L \in SUBSET Visits
      /\ M \in SUBSET Path /\ e \in Entry /\ source[p] \in Entry /\ modified[t] \in Seq(Files)
  <2>1. M \in SUBSET Path
    BY ModifiedAre DEF PathsOf
  <2>2. p \in Path
    BY <1>1, TopIs
  <2> QED
    BY <1>1, <2>1, <2>2, TopIs DEF TypeOK
<1>5. f.path = p /\ f.mtime = msg.mtime
  OBVIOUS
<1>6. IsPrefix(p, p)
  BY <1>4, PrefixOrder
<1>7. stable => /\ source[p] # Dir /\ source[p] # Other /\ source[p].type # "link"
                /\ source[p] = Absent => e.type # "file"
  <2>1. p = <<>> /\ source[p] = Absent => e.type # "file"
    BY <1>4, NoRootFile
  <2> QED
    BY <1>2, <2>1 DEF Dir, Other, Absent
<1>13. stable /\ Fine(e, msg) => e.type = "file" /\ source[p].type = "file"
  BY <1>2, <1>7 DEF Fine, SameSize
<1>8. stable /\ Fine(e, msg) => source[p] = e \/ (source[p].type = "file" /\ p \in Spoilt)
  <2> SUFFICES ASSUME stable, Fine(e, msg), p \notin Spoilt
               PROVE  source[p] = e
    BY <1>13
  <2>1. e.type = "file" /\ e.mtime = msg.mtime
    BY DEF Fine, SameSize
  <2> HIDE DEF e, p, msg
  <2>2. source[p].type = "file" /\ source[p].mtime = e.mtime
    BY <1>2, <1>7, <2>1
  <2>3. source[p].data = e.data
    BY <1>4, <2>1, <2>2 DEF TimeInv, Spoilt, e
  <2> QED
    BY <1>4, <2>1, <2>2, <2>3, SameFile
<1>9. Grown(tree) /\ Grown(source)
  BY DEF DestInv, SourceInv
<1>10. \A q \in channels : q \in Target
  BY DEF TypeOK
<1> HIDE DEF f, r, M, P, L, Q, tree, p, e, msg, d
<1>11. CASE Fine(e, msg) /\ tree = dest[t] /\ modified'[t] = modified[t]
  <2>1. Placed(P, L, M, tree)
    <3>1. P \in SUBSET Q /\ L \in SUBSET L /\ M \in SUBSET M
      BY <1>3
    <3> QED
      BY <1>3, <1>11, <3>1, PlacedLess
  <2>2. ASSUME t \in channels, stable, LinksCurrent
        PROVE  InSync(P, L, M \cup Spoilt, tree, source, d)
    <3>1. InSync(Q, L, M \cup Spoilt, tree, source, d)
      BY <1>2, <1>3, <1>11, <2>2 DEF Settled, Q, M, d
    <3>2. /\ Q \subseteq {p} \cup P /\ source[p] # Dir /\ source[p] # Other
          /\ tree[p] = source[p] \/ (source[p].type = "file" /\ p \in Spoilt)
          /\ M \cup Spoilt \subseteq M \cup Spoilt
      BY <1>3, <1>7, <1>8, <1>11, <2>2 DEF e
    <3>3. tree[p] # Dir
      BY <1>11 DEF e, Fine, SameSize, Dir
    <3>4. /\ source[p].type = "file" => tree[p] = source[p] \/ p \in M \cup Spoilt
          /\ source[p] = Absent => tree[p] = Absent
          /\ tree[p] # Dir \/ source[p].type = "link"
      BY <3>2, <3>3 DEF Absent
    <3> QED
      BY <1>4, <1>9, <3>1, <3>2, <3>3, <3>4, SyncLeaf
  <2>3. Settled(t, r, modified[t], tree)
    BY <1>2, <1>3, <2>1, <2>2 DEF Settled, M, P, L, d
  <2> QED
    BY <1>1, <1>11, <2>3 DEF tree
<1>12. CASE /\ tree[p].type \in {"file", "absent"} /\ modified'[t] = Append(modified[t], f)
            /\ e.type # "file" => tree[p] = Absent
  <2> DEFINE m == modified'[t]
             M2 == PathsOf(m)
  <2>0. M2 = M \cup {p}
    BY <1>1, <1>4, <1>5, <1>12, PathsAppended DEF M
  <2> HIDE DEF M2
  <2>1. Placed(P, L, M2, tree)
    <3>1. p \in Q /\ P \subseteq Q
      BY <1>3
    <3> QED
      BY <1>1, <1>3, <1>4, <1>12, <2>0, <3>1, PlacedFile
  <2>2. ASSUME t \in channels, stable, LinksCurrent
        PROVE  InSync(P, L, M2 \cup Spoilt, tree, source, d)
    <3>1. InSync(Q, L, M \cup Spoilt, dest[t], source, d)
      BY <1>2, <1>3, <2>2 DEF Settled, Q, M, d
    <3>2. /\ Q \subseteq {p} \cup P /\ source[p] # Dir /\ source[p] # Other
          /\ M \cup Spoilt \subseteq M2 \cup Spoilt /\ p \in M2 \cup Spoilt /\ tree[p] # Dir
      BY <1>3, <1>7, <1>12, <2>0, <2>2 DEF Dir
    <3>3. source[p] = Absent => tree[p] = Absent
      BY <1>7, <1>12, <2>2
    <3>4. /\ tree[p] # Dir \/ source[p].type = "link"
          /\ source[p].type = "file" => tree[p] = source[p] \/ p \in M2 \cup Spoilt
      BY <3>2
    <3>5. p \in Path /\ Grown(source) /\ Grown(tree)
          /\ \A q \in Path : ~IsPrefix(p, q) => tree[q] = dest[t][q]
      BY <1>1, <1>4, <1>9
    <3> QED
      BY <3>1, <3>2, <3>3, <3>4, <3>5, SyncLeaf
  <2>3. /\ DOMAIN m = 1..Len(modified[t]) + 1 /\ m[Len(modified[t]) + 1] = f
        /\ \A i \in DOMAIN m : i = Len(modified[t]) + 1
             \/ (i \in DOMAIN modified[t] /\ m[i] = modified[t][i])
    BY <1>1, <1>4, <1>12, AppendIs
  <2>4. \A i \in DOMAIN modified[t] : modified[t][i].path \in M /\ modified[t][i].path # p
    BY <1>3, <1>6 DEF M, PathsOf
  <2> HIDE DEF m
  <2>5. \A i, k \in DOMAIN m : i # k => m[i].path # m[k].path
    <3>1. \A i, k \in DOMAIN modified[t] : i # k => modified[t][i].path # modified[t][k].path
      BY <1>2 DEF Settled
    <3> QED
      BY <1>5, <2>3, <2>4, <3>1
  <2>6. \A i \in DOMAIN m :
          /\ m[i].mtime <= clock
          /\ stable => \/ source[m[i].path].type = "file" /\ source[m[i].path].mtime = m[i].mtime
                       \/ m[i].path = <<>> /\ source[m[i].path] = Absent
    <3> SUFFICES ASSUME NEW i \in DOMAIN m
                 PROVE  /\ m[i].mtime <= clock
                        /\ stable => \/ /\ source[m[i].path].type = "file"
                                        /\ source[m[i].path].mtime = m[i].mtime
                                     \/ m[i].path = <<>> /\ source[m[i].path] = Absent
      OBVIOUS
    <3>1. CASE m[i] = f
      BY <1>2, <1>5, <3>1
    <3>2. CASE i \in DOMAIN modified[t] /\ m[i] = modified[t][i]
      BY <1>2, <3>2 DEF Settled
    <3> QED
      BY <2>3, <3>1, <3>2
  <2>7. Settled(t, r, m, tree)
    BY <1>2, <1>3, <2>1, <2>2, <2>5, <2>6 DEF Settled, P, L, d, M2
  <2> QED
    BY <1>1, <2>7 DEF tree, m
<1> QED
  BY <1>1, <1>11, <1>12

\* Something else is received, which changes nothing there yet.
LEMMA LinkPlaced ==
  ASSUME TypeOK, SourceInv, DestInv, PlaceInv, SyncInv, LeavesInv, FileInv, PlanInv, TaskInv,
         NEW t \in Target, ReceiveLink(t)
  PROVE  Settled(t, stack'[t], modified'[t], dest'[t])
<1> DEFINE p == Top(t).path
           r == Tail(stack[t])
           M == PathsOf(modified[t])
           P == Pend(r)
           L == Left(r)
           Q == Pend(stack[t])
           tree == dest[t]
           d == delete[t]
<1>1. /\ task[t] = "tree" /\ Lives(t) /\ stack[t] # <<>> /\ ~Top(t).leave
      /\ wire[t] # <<>> /\ Head(wire[t]).type = "link"
      /\ stack'[t] = r /\ modified' = modified /\ dest' = dest
  BY DEF ReceiveLink, Descend, Receive, Lives, TypeOK
<1>2. /\ Settled(t, stack[t], modified[t], tree)
      /\ stable => source[p].type = "link"
  <2>1. Describes(World, p, Head(wire[t]))
    BY <1>1, HeadDescribed DEF IsTreePart
  <2> QED
    BY <1>1, <2>1, SettledIs DEF Describes, World
<1>3. /\ Placed(Q, L, M, tree) /\ Q = {p} \cup P /\ Left(stack[t]) = L /\ Apart(r)
  BY <1>1, TopPlaced
<1>4. p \in Path
  BY <1>1, TopIs
<1>5. Grown(tree) /\ Grown(source)
  BY DEF DestInv, SourceInv
<1> HIDE DEF r, M, P, L, Q, tree, p, d
<1>6. Placed(P, L, M, tree)
  <2>1. P \in SUBSET Q /\ L \in SUBSET L /\ M \in SUBSET M
    BY <1>3
  <2> QED
    BY <1>3, <2>1, PlacedLess
<1>7. ASSUME t \in channels, stable, LinksCurrent
      PROVE  InSync(P, L, M \cup Spoilt, tree, source, d)
  <2>1. InSync(Q, L, M \cup Spoilt, tree, source, d)
    BY <1>2, <1>3, <1>7 DEF Settled, Q, M, d
  <2>2. /\ Q \subseteq {p} \cup P /\ source[p] # Dir /\ source[p] # Other /\ source[p] # Absent
        /\ source[p].type = "link" /\ M \cup Spoilt \subseteq M \cup Spoilt
    BY <1>2, <1>3, <1>7 DEF Dir, Other, Absent
  <2> QED
    BY <1>4, <1>5, <2>1, <2>2, SyncLeaf
<1>8. Settled(t, r, modified[t], tree)
  BY <1>2, <1>3, <1>6, <1>7 DEF Settled, M, P, L, d
<1> QED
  BY <1>1, <1>8 DEF tree

\* A file is opened, or written: it has been one in the source.
LEMMA WorkPlaced ==
  ASSUME TypeOK, SourceInv, PlaceInv, SyncInv, LeavesInv, FileInv,
         NEW t \in Target, Lives(t), modified[t] # <<>>, stack'[t] = stack[t],
         DOMAIN modified'[t] = DOMAIN modified[t],
         \A i \in DOMAIN modified[t] : /\ modified'[t][i].path = modified[t][i].path
                                       /\ modified'[t][i].mtime = modified[t][i].mtime,
         LET p == modified[t][1].path
         IN  /\ \A q \in Path : q # p => dest'[t][q] = dest[t][q]
             /\ \/ dest'[t] = dest[t]
                \/ dest'[t][p].type = "file" /\ \E x \in had[p] : x.type = "file"
  PROVE  Settled(t, stack'[t], modified'[t], dest'[t])
<1> DEFINE p == modified[t][1].path
           m == modified'[t]
           M == PathsOf(modified[t])
           P == Pend(stack[t])
           L == Left(stack[t])
           tree == dest'[t]
           d == delete[t]
<1>1. Settled(t, stack[t], modified[t], dest[t])
  BY SettledIs
<1>2. p \in M /\ p \in Path /\ 1 \in DOMAIN modified[t]
  BY FirstFile
<1>3. PathsOf(m) = M
  BY DEF PathsOf
<1>4. P \in SUBSET Path /\ M \in SUBSET Path
  <2>1. M \in SUBSET Path
    BY ModifiedAre DEF PathsOf
  <2> QED
    BY <2>1, StackIs DEF TypeOK
<1>5. stable /\ (\E x \in had[p] : x.type = "file") => source[p].type = "file"
  BY <1>1, <1>2 DEF Settled, SourceInv, Absent
<1>6. /\ \A q \in Path : q # p => tree[q] = dest[t][q]
      /\ \/ tree = dest[t]
         \/ tree[p].type = "file" /\ \E x \in had[p] : x.type = "file"
  OBVIOUS
<1> HIDE DEF p, M, P, L, tree, d
<1>7. Placed(P, L, M, tree)
  <2>1. Placed(P, L, M, dest[t])
    BY <1>1 DEF Settled, P, L, M
  <2>2. CASE tree = dest[t]
    BY <2>1, <2>2
  <2>3. CASE tree[p].type = "file"
    BY <1>2, <1>4, <1>6, <2>1, <2>3, PlacedWritten
  <2> QED
    BY <1>6, <2>2, <2>3
<1>8. ASSUME t \in channels, stable, LinksCurrent
      PROVE  InSync(P, L, M \cup Spoilt, tree, source, d)
  <2>1. InSync(P, L, M \cup Spoilt, dest[t], source, d)
    BY <1>1, <1>8 DEF Settled, P, L, M, d
  <2>2. CASE tree = dest[t]
    BY <2>1, <2>2
  <2>3. CASE \E x \in had[p] : x.type = "file"
    <3>1. source[p].type = "file" /\ M \cup Spoilt \subseteq (M \cup Spoilt) \cup {p}
      BY <1>5, <1>8, <2>3
    <3>2. p \in M \cup Spoilt
      BY <1>2
    <3> QED
      BY <1>6, <2>1, <3>1, <3>2, SyncWritten
  <2> QED
    BY <1>6, <2>2, <2>3
<1>9. \A i, k \in DOMAIN m : i # k => m[i].path # m[k].path
  BY <1>1 DEF Settled
<1>10. \A i \in DOMAIN m :
         /\ m[i].mtime <= clock
         /\ stable => \/ source[m[i].path].type = "file" /\ source[m[i].path].mtime = m[i].mtime
                      \/ m[i].path = <<>> /\ source[m[i].path] = Absent
  <2> SUFFICES ASSUME NEW i \in DOMAIN modified[t]
               PROVE  /\ m[i].mtime <= clock
                      /\ stable => \/ /\ source[m[i].path].type = "file"
                                      /\ source[m[i].path].mtime = m[i].mtime
                                   \/ m[i].path = <<>> /\ source[m[i].path] = Absent
    OBVIOUS
  <2>1. m[i].path = modified[t][i].path /\ m[i].mtime = modified[t][i].mtime
    OBVIOUS
  <2> HIDE DEF m
  <2> QED
    BY <1>1, <2>1 DEF Settled
<1> HIDE DEF m
<1>11. Settled(t, stack[t], m, tree)
  BY <1>1, <1>3, <1>7, <1>8, <1>9, <1>10 DEF Settled, P, L, d
<1> QED
  BY <1>11 DEF m, tree

\* A file is done with: it is the one in the source, or there is none.
LEMMA TimePlaced ==
  ASSUME TypeOK, SourceInv, TimeInv, TimeInv', WorkInv, WriteInv, PlaceInv, SyncInv, LeavesInv,
         FileInv, NEW t \in Target, Utime(t)
  PROVE  Settled(t, stack'[t], modified'[t], dest'[t])
<1> DEFINE f == modified[t][1]
           p == f.path
           e == dest[t][p]
           m == Tail(modified[t])
           M == PathsOf(modified[t])
           M2 == PathsOf(m)
           P == Pend(stack[t])
           L == Left(stack[t])
           tree == dest'[t]
           d == delete[t]
<1>1. /\ task[t] = "utime" /\ Lives(t) /\ modified[t] # <<>>
      /\ IF e.type = "file" THEN tree[p] = File(e.data, f.mtime) ELSE tree = dest[t]
      /\ \A q \in Path : q # p => tree[q] = dest[t][q]
      /\ modified'[t] = m /\ stack'[t] = stack[t]
  BY FileTimed
<1>2. Settled(t, stack[t], modified[t], dest[t])
  BY <1>1, SettledIs
<1>3. /\ p \in M /\ p \in Path /\ 1 \in DOMAIN modified[t] /\ modified[t] \in Seq(Files)
      /\ source[p] \in Entry
  <2>1. p \in Path
    BY <1>1, FirstFile
  <2> QED
    BY <1>1, <2>1, FirstFile DEF TypeOK
<1>4. P \in SUBSET Path /\ M \in SUBSET Path
  <2>1. M \in SUBSET Path
    BY ModifiedAre DEF PathsOf
  <2> QED
    BY <2>1, StackIs DEF TypeOK
<1>5. M2 \subseteq M /\ M \subseteq M2 \cup {p}
  BY <1>1, <1>3, PathsTail
<1>6. Fits(View(t), f, None)
  BY <1>1 DEF WriteInv
<1>7. /\ stable => \/ source[p].type = "file" /\ source[p].mtime = f.mtime
                   \/ p = <<>> /\ source[p] = Absent
  BY <1>2, <1>3 DEF Settled
<1>8. /\ \E x \in had[p] : x.type = "file"
      \/ e.type # "file"
  BY <1>3 DEF TimeInv
<1>9. source' = source /\ unread' = unread
  BY DEF Utime, Local, sourcevars
<1> HIDE DEF f, m, M, M2, P, L, tree, d
<1>10. e.type = "file" /\ stable =>
         source[p].type = "file" /\ (tree[p] = source[p] \/ p \in Spoilt)
  <2> SUFFICES ASSUME e.type = "file", stable
               PROVE  source[p].type = "file" /\ (tree[p] = source[p] \/ p \in Spoilt)
    OBVIOUS
  <2>1. source[p].type = "file" /\ source[p].mtime = f.mtime
    BY <1>3, <1>7, NoRootFile
  <2>2. /\ tree[p] = File(e.data, f.mtime) /\ tree[p].type = "file"
        /\ tree[p].mtime = f.mtime /\ tree[p].data = e.data
    BY <1>1 DEF File
  <2>3. source[p].data = e.data \/ p \in Spoilt
    <3>1. source[p].data = tree[p].data \/ <<p, source[p].mtime>> \in unread
      BY <1>3, <1>9, <2>1, <2>2 DEF TimeInv, tree
    <3> QED
      BY <1>3, <2>1, <2>2, <3>1 DEF Spoilt
  <2> QED
    BY <1>3, <2>1, <2>2, <2>3, SameFile
<1>11. e.type # "file" /\ stable => source[p].type # "file" \/ p \in Spoilt
  <2> SUFFICES ASSUME e.type # "file", stable, source[p].type = "file", p \notin Spoilt
               PROVE  FALSE
    OBVIOUS
  <2>1. Wanted(View(t), f)
    <3>1. source[p].mtime = f.mtime
      BY <1>7 DEF Absent
    <3>2. <<p, source[p].mtime>> \notin unread
      BY <1>3 DEF Spoilt
    <3> QED
      BY <3>1, <3>2, ViewIs DEF Wanted, p
  <2>2. source[p].data # None
    <3>1. None \notin Data \cup {Partial}
      BY RSyncAssumption DEF None, Partial
    <3> QED
      BY <1>3, <3>1, Entries
  <2> QED
    BY <1>6, <2>1, <2>2, ViewIs DEF Fits
<1> HIDE DEF p
<1>12. Placed(P, L, M2, tree)
  <2>1. Placed(P, L, M, dest[t])
    BY <1>2 DEF Settled, P, L, M
  <2>2. Placed(P, L, M, tree)
    <3>1. CASE e.type = "file"
      <4>1. tree[p].type = "file"
        BY <1>1, <3>1 DEF File
      <4> QED
        BY <1>1, <1>3, <1>4, <2>1, <4>1, PlacedWritten
    <3>2. CASE e.type # "file"
      BY <1>1, <2>1, <3>2
    <3> QED
      BY <3>1, <3>2
  <2>3. P \in SUBSET P /\ L \in SUBSET L /\ M2 \in SUBSET M
    BY <1>5
  <2> QED
    BY <2>2, <2>3, PlacedLess
<1>13. ASSUME t \in channels, stable, LinksCurrent
       PROVE  InSync(P, L, M2 \cup Spoilt, tree, source, d)
  <2>1. InSync(P, L, M \cup Spoilt, dest[t], source, d)
    BY <1>2, <1>13 DEF Settled, P, L, M, d
  <2>2. CASE e.type = "file"
    <3>1. /\ source[p].type = "file" /\ (p \in M2 \cup Spoilt \/ tree[p] = source[p])
          /\ M \cup Spoilt \subseteq (M2 \cup Spoilt) \cup {p}
          /\ \A q \in Path : q # p => tree[q] = dest[t][q]
      BY <1>1, <1>5, <1>10, <1>13, <2>2
    <3> HIDE DEF e
    <3> QED
      BY <2>1, <3>1, SyncWritten
  <2>3. CASE e.type # "file"
    <3>1. /\ tree = dest[t] /\ (source[p].type # "file" \/ p \in Spoilt)
          /\ M \cup Spoilt \subseteq (M2 \cup Spoilt) \cup {p}
      BY <1>1, <1>5, <1>11, <1>13, <2>3
    <3>2. p \in Spoilt => M \cup Spoilt \subseteq M2 \cup Spoilt
      BY <3>1
    <3> QED
      BY <2>1, <3>1, <3>2, SyncDropped, SyncMore
  <2> QED
    BY <2>2, <2>3
<1>14. \A i \in DOMAIN m : /\ m[i] = modified[t][i + 1] /\ i + 1 \in DOMAIN modified[t]
                           /\ i \in Nat
  <2>1. Len(modified[t]) \in Nat
    BY <1>3
  <2> QED
    BY <1>1, <1>3, <2>1, TailIs DEF m
<1>15. \A i, k \in DOMAIN m : i # k => m[i].path # m[k].path
  <2>1. \A i, k \in DOMAIN m : i # k => i + 1 # k + 1
    BY <1>14
  <2> QED
    BY <1>2, <1>14, <2>1 DEF Settled
<1>16. \A i \in DOMAIN m :
         /\ m[i].mtime <= clock
         /\ stable => \/ source[m[i].path].type = "file" /\ source[m[i].path].mtime = m[i].mtime
                      \/ m[i].path = <<>> /\ source[m[i].path] = Absent
  BY <1>2, <1>14 DEF Settled
<1>17. Settled(t, stack[t], m, tree)
  BY <1>2, <1>12, <1>13, <1>15, <1>16 DEF Settled, P, L, d, M2
<1> QED
  BY <1>1, <1>17 DEF tree

\* What is first on the wire of the answer.
LEMMA AnswerHead ==
  ASSUME TypeOK, AnswerInv, NEW t \in Target, Lives(t), wire[t] # <<>>, IsLinkPart(Head(wire[t]))
  PROVE  \E k \in 0..Len(links) :
           /\ Len(wire[t]) = Len(links) + 1 - k /\ Head(wire[t]) = Answer[k + 1]
           /\ Remains(wire[t], k) /\ Made(t, k)
<1> DEFINE w == wire[t]
<1>1. /\ Head(w) = w[1] /\ 1 \in DOMAIN w /\ DOMAIN w = 1..Len(w) /\ Len(w) \in Nat \ {0}
  <2>1. w \in Seq(Message)
    BY DEF TypeOK
  <2> QED
    BY <2>1, TailIs
<1>2. Answered(w)
  BY <1>1 DEF Answered
<1>3. PICK k \in 0..Len(links) : Remains(w, k) /\ Made(t, k)
  BY <1>2 DEF AnswerInv, AnswerLeft
<1>4. Len(links) \in Nat
  BY DEF TypeOK
<1> DEFINE n == Len(links) + 1 - k
<1>5. n \in Nat \ {0}
  BY <1>3, <1>4
<1>6. /\ Len(w) >= n /\ \A i \in 1..Len(w) - n : ~IsLinkPart(w[i])
      /\ \A i \in 1..n : w[Len(w) - n + i] = Answer[k + i]
  BY <1>3 DEF Remains
<1> HIDE DEF n, w
<1>7. Len(w) = n
  BY <1>1, <1>5, <1>6 DEF w
<1>8. w[1] = Answer[k + 1]
  <2>1. 1 \in 1..n /\ Len(w) - n + 1 = 1
    BY <1>5, <1>7
  <2> QED
    BY <1>6, <2>1
<1> QED
  BY <1>1, <1>3, <1>7, <1>8 DEF n, w

\* The answer: the links, and its end.
LEMMA AnswerIs ==
  ASSUME TypeOK
  PROVE  /\ Answer \in Seq(Message) /\ Len(Answer) = Len(links) + 1 /\ Len(links) \in Nat
         /\ \A i \in DOMAIN links : /\ Answer[i].type = "to" /\ Answer[i].path = links[i].path
                                    /\ Answer[i].to = links[i].to
         /\ Answer[Len(links) + 1].type = "end"
         /\ DOMAIN links = 1..Len(links)
<1> DEFINE last == <<[type |-> "end"]>>
<1>1. LinkMessages \in Seq(Message)
  BY LinkMessagesType
<1>2. last \in Seq(Message) /\ Len(last) = 1 /\ last[1].type = "end" /\ DOMAIN last = 1..1
  BY DEF Message
<1>3. DOMAIN links = 1..Len(links) /\ Len(links) \in Nat
  BY DEF TypeOK
<1>4. DOMAIN LinkMessages = 1..Len(links) /\ Len(LinkMessages) = Len(links)
  BY <1>1, <1>3 DEF LinkMessages
<1>5. \A i \in DOMAIN links : /\ LinkMessages[i].type = "to"
                              /\ LinkMessages[i].path = links[i].path
                              /\ LinkMessages[i].to = links[i].to
  BY DEF LinkMessages
<1> DEFINE a == LinkMessages
<1> HIDE DEF last, a
<1>6. /\ a \o last \in Seq(Message) /\ Len(a \o last) = Len(links) + 1
      /\ \A i \in DOMAIN links : (a \o last)[i] = a[i]
      /\ (a \o last)[Len(links) + 1] = last[1]
  <2>1. a \in Seq(Message) /\ Len(a) = Len(links) /\ DOMAIN a = DOMAIN links
    BY <1>1, <1>3, <1>4 DEF a
  <2>2. 1 \in DOMAIN last
    BY <1>2
  <2> QED
    BY <1>2, <1>3, <2>1, <2>2, JoinedIs
<1>7. Answer = a \o last
  BY DEF Answer, a, last
<1>8. \A i \in DOMAIN links : /\ a[i].type = "to" /\ a[i].path = links[i].path
                              /\ a[i].to = links[i].to
  BY <1>5 DEF a
<1> HIDE DEF Answer
<1> QED
  BY <1>2, <1>3, <1>6, <1>7, <1>8

\* A link that arrives is one of those.
LEMMA LinkHead ==
  ASSUME TypeOK, AnswerInv, NEW t \in Target, Lives(t), wire[t] # <<>>,
         Head(wire[t]).type \in {"to", "end"}
  PROVE  \E k \in 0..Len(links) :
           /\ Len(wire[t]) = Len(links) + 1 - k /\ Remains(wire[t], k) /\ Made(t, k)
           /\ Head(wire[t]).type = "to" =>
                /\ k + 1 \in DOMAIN links
                /\ Head(wire[t]).path = links[k + 1].path /\ Head(wire[t]).to = links[k + 1].to
           /\ Head(wire[t]).type = "end" => k = Len(links)
<1>1. IsLinkPart(Head(wire[t]))
  BY DEF IsLinkPart
<1>2. PICK k \in 0..Len(links) :
        /\ Len(wire[t]) = Len(links) + 1 - k /\ Head(wire[t]) = Answer[k + 1]
        /\ Remains(wire[t], k) /\ Made(t, k)
  BY <1>1, AnswerHead
<1>3. Len(links) \in Nat /\ DOMAIN links = 1..Len(links)
  BY AnswerIs
<1>4. CASE k = Len(links)
  <2>1. Head(wire[t]).type = "end"
    BY <1>2, <1>4, AnswerIs
  <2> QED
    BY <1>2, <1>4, <2>1
<1>5. CASE k # Len(links)
  <2>1. k + 1 \in DOMAIN links
    <3> DEFINE n == Len(links)
    <3>1. n \in Nat /\ k \in 0..n /\ k # n /\ DOMAIN links = 1..n
      BY <1>3, <1>5
    <3> HIDE DEF n
    <3>2. k + 1 \in 1..n
      BY <3>1
    <3> QED
      BY <3>1, <3>2
  <2>2. /\ Head(wire[t]).type = "to"
        /\ Head(wire[t]).path = links[k + 1].path /\ Head(wire[t]).to = links[k + 1].to
    BY <1>2, <2>1, AnswerIs
  <2> QED
    BY <1>2, <2>1, <2>2
<1> QED
  BY <1>4, <1>5

\* A link is made.
LEMMA MadePlaced ==
  ASSUME TypeOK, SourceInv, WorkInv, PlaceInv, SyncInv, LeavesInv, FileInv, TaskInv, AnswerInv,
         NEW t \in Target, MakeLink(t)
  PROVE  Lives(t)' => Settled(t, stack'[t], modified'[t], dest'[t])
<1> DEFINE link == Head(wire[t])
           tree == dest'[t]
           d == delete[t]
<1> SUFFICES ASSUME Lives(t)'
             PROVE  Settled(t, stack'[t], modified'[t], tree)
  OBVIOUS
<1>1. /\ Lives(t) /\ modified[t] = <<>> /\ stack[t] = <<>>
      /\ wire[t] # <<>> /\ link.type = "to" /\ link.path \in Path
      /\ UNCHANGED <<queue, stack, modified>>
      /\ tree = With(dest[t], link.path, LinkTo(Joined(link.to)))
  BY LinkMade DEF Lives
<1>2. Settled(t, <<>>, <<>>, dest[t])
  BY <1>1, SettledIs
<1>3. LinksCurrent => source[link.path].type = "link"
  <2>1. \E k \in 0..Len(links) : k + 1 \in DOMAIN links /\ link.path = links[k + 1].path
    BY <1>1, LinkHead
  <2> QED
    BY <2>1 DEF LinksCurrent
<1> HIDE DEF link, tree, d
<1>4. Placed({}, {}, {}, tree)
  BY DEF Placed
<1>5. ASSUME t \in channels, stable, LinksCurrent
      PROVE  InSync({}, {}, Spoilt, tree, source, d)
  <2>1. InSync({}, {}, Spoilt, dest[t], source, d)
    BY <1>2, <1>5, PathsEmpty DEF Settled, d
  <2>2. Grown(source) /\ source[link.path].type = "link"
    BY <1>3, <1>5 DEF SourceInv
  <2> QED
    BY <1>1, <2>1, <2>2, SyncLink
<1>6. Settled(t, <<>>, <<>>, tree)
  BY <1>2, <1>4, <1>5, PathsEmpty DEF Settled, d
<1> QED
  BY <1>1, <1>6

-----------------------------------------------------------------------------
\* What a target does keeps its places, and what it has received is right.
LEMMA ServePlaces ==
  ASSUME TypeOK, MatchInv, WorkInv, WriteInv, DestInv, SourceInv, TimeInv, PlaceInv, SyncInv,
         LeavesInv, FileInv, PlanInv, TaskInv, AnswerInv, WriteInv', DestInv', TimeInv',
         NEW t \in Target, Serve(t)
  PROVE  PlaceInv' /\ SyncInv' /\ LeavesInv' /\ FileInv'
<1> DEFINE Here == Lives(t)' => Settled(t, stack'[t], modified'[t], dest'[t])
<1>1. /\ Only(t) /\ UNCHANGED <<source, had, clock, unread, stable, delete, channels, links>>
      /\ channels \subseteq Target /\ (Lives(t)' => Lives(t))
  <2>1. Only(t)
    BY Alone
  <2>2. Lives(t)' => Lives(t)
    BY ServesAlive
  <2> QED
    BY <2>1, <2>2 DEF Only, Local, sourcevars, fixed, TypeOK
<1>2. ASSUME Here
      PROVE  PlaceInv' /\ SyncInv' /\ LeavesInv' /\ FileInv'
  <2>1. ASSUME NEW u \in Target, u # t, Lives(u)'
        PROVE  Settled(u, stack'[u], modified'[u], dest'[u])
    <3>1. /\ Lives(u) /\ stack'[u] = stack[u] /\ modified'[u] = modified[u]
          /\ dest'[u] = dest[u]
      BY <1>1, <2>1 DEF Only, Lives
    <3> QED
      BY <3>1, SettledIs
  <2>2. \A u \in Target : Lives(u)' => Settled(u, stack'[u], modified'[u], dest'[u])
    BY <1>2, <2>1
  <2>3. LinksCurrent' => LinksCurrent
    BY <1>1 DEF LinksCurrent
  <2> QED
    BY <1>1, <2>2, <2>3, SettledThen
<1>3. CASE ReceiveDirectory(t)
  BY <1>2, <1>3, DirectoryPlaced
<1>4. CASE LeaveDirectory(t)
  BY <1>2, <1>4, DirectoryCleaned
<1>5. CASE ReceiveFile(t)
  BY <1>2, <1>5, FilePlaced
<1>6. CASE ReceiveLink(t)
  BY <1>2, <1>6, LinkPlaced
<1>7. CASE TreeEnds(t) \/ FilesEnd(t) \/ LinksEnd(t) \/ ChannelCloses(t)
  <2>1. UNCHANGED <<stack, modified, dest>>
    BY <1>7 DEF TreeEnds, FilesEnd, LinksEnd, ChannelCloses
  <2>2. Here
    BY <1>1, <2>1, SettledIs
  <2> QED
    BY <1>2, <2>2
<1>8. CASE ReceiveData(t)
  <2> DEFINE p == modified[t][1].path
             g == modified'[t][1]
  <2>1. /\ Lives(t) /\ modified[t] # <<>> /\ stack'[t] = stack[t]
        /\ DOMAIN modified'[t] = DOMAIN modified[t]
        /\ \A i \in DOMAIN modified[t] : /\ modified'[t][i].path = modified[t][i].path
                                         /\ modified'[t][i].mtime = modified[t][i].mtime
        /\ \A q \in Path : q # p => dest'[t][q] = dest[t][q]
        /\ dest'[t] = dest[t] \/ (task'[t] = "write" /\ dest'[t][p] = File(Partial, Now))
    BY <1>8, FileOpened
  <2>2. g.path = p /\ p \in Path
    BY <2>1, FirstFile
  <2>3. task'[t] = "write" => \E x \in had[p] : x.type = "file"
    <3>1. task'[t] = "write" => g.data # None /\ Fits(View(t)', g, g.data)
      BY DEF WriteInv
    <3> HIDE DEF g, p
    <3> QED
      BY <1>1, <2>2, <3>1, ViewIs DEF Fits
  <2>4. File(Partial, Now).type = "file"
    BY DEF File
  <2>5. dest'[t] = dest[t] \/ (dest'[t][p].type = "file" /\ \E x \in had[p] : x.type = "file")
    BY <2>1, <2>3, <2>4
  <2>6. Here
    BY <2>1, <2>5, WorkPlaced
  <2> QED
    BY <1>2, <2>6
<1>9. CASE Write(t)
  <2> DEFINE p == modified[t][1].path
  <2>1. /\ Lives(t) /\ modified[t] # <<>> /\ stack'[t] = stack[t] /\ modified'[t] = modified[t]
        /\ \A q \in Path : q # p => dest'[t][q] = dest[t][q]
        /\ p \in Path /\ dest[t][p] = File(Partial, Now)
        /\ dest'[t][p] = File(modified[t][1].data, Now)
    BY <1>9, FileWritten
  <2>2. dest'[t][p].type = "file" /\ \E x \in had[p] : x.type = "file"
    <3>1. dest'[t][p].type = "file" /\ dest[t][p].type = "file" /\ p \in Path
      BY <2>1 DEF File
    <3> HIDE DEF p
    <3> QED
      BY <3>1 DEF TimeInv
  <2>3. Here
    BY <2>1, <2>2, WorkPlaced
  <2> QED
    BY <1>2, <2>3
<1>10. CASE Utime(t)
  BY <1>2, <1>10, TimePlaced
<1>11. CASE MakeLink(t)
  BY <1>2, <1>11, MadePlaced
<1> QED
  BY <1>3, <1>4, <1>5, <1>6, <1>7, <1>8, <1>9, <1>10, <1>11 DEF Serve

\* The sender, and the deaths of targets, change nothing of it.
LEMMA PlacesKept ==
  ASSUME TypeOK, PlaceInv, SyncInv, LeavesInv, FileInv,
         UNCHANGED <<source, clock, stable, delete, stack, modified, dest>>,
         unread \subseteq unread', channels' \subseteq channels, LinksCurrent' => LinksCurrent,
         \A t \in Target : Lives(t)' => Lives(t)
  PROVE  PlaceInv' /\ SyncInv' /\ LeavesInv' /\ FileInv'
<1>1. \A t \in Target : Lives(t)' => Settled(t, stack'[t], modified'[t], dest'[t])
  BY SettledIs
<1>2. channels \subseteq Target
  BY DEF TypeOK
<1> QED
  BY <1>1, <1>2, SettledThen

\* Nothing is known of a source that changes.
LEMMA PlacesChanged ==
  ASSUME TypeOK, PlaceInv, FileInv, NEW p \in Path, NEW e \in Things(p, clock + 1), Change(p, e)
  PROVE  PlaceInv' /\ SyncInv' /\ LeavesInv' /\ FileInv'
<1>1. /\ UNCHANGED <<task, stack, modified, dest>> /\ stable' = FALSE /\ clock' = clock + 1
      /\ clock \in Nat
  BY DEF Change, remote, TypeOK
<1>2. PlaceInv' /\ SyncInv' /\ LeavesInv'
  BY <1>1 DEF PlaceInv, SyncInv, LeavesInv, Lives
<1>3. FileInv'
  <2>1. ASSUME NEW t \in Target, NEW i \in DOMAIN modified[t], modified[t][i].mtime <= clock
        PROVE  modified[t][i].mtime <= clock'
    <3>1. modified[t][i].mtime \in Nat
      <4>1. modified[t] \in Seq(Files)
        BY DEF TypeOK
      <4>2. modified[t][i] \in Files
        BY <4>1
      <4>3. \A f \in Files : f.mtime \in Nat
        BY RSyncAssumption DEF Files, Now
      <4> QED
        BY <4>2, <4>3
    <3> QED
      BY <1>1, <2>1, <3>1
  <2>2. stable' = FALSE /\ modified' = modified /\ task' = task
    BY <1>1
  <2> QED
    BY <2>1, <2>2 DEF FileInv, Lives
<1> QED
  BY <1>2, <1>3

\* A fresh target has everything to visit, one that is not in use has nothing to do.
LEMMA FreshIs ==
  ASSUME NEW s, s = <<Visit(<<>>)>>
  PROVE  /\ Pend(s) = {<<>>} /\ Left(s) = {} /\ Apart(s)
         /\ \A M, tree, src, d : InSync(Pend(s), Left(s), M, tree, src, d)
<1>1. DOMAIN s = {1} /\ s[1] = Visit(<<>>) /\ ~Visit(<<>>).leave /\ Visit(<<>>).path = <<>>
  BY DEF Visit
<1>2. Visiting(s) = {1}
  BY <1>1 DEF Visiting
<1>3. Pend(s) = {<<>>}
  BY <1>1, <1>2 DEF Pend
<1>4. Left(s) = {}
  BY <1>1, <1>2 DEF Left
<1>5. Apart(s)
  BY <1>2 DEF Apart
<1>6. \A q \in Path : IsPrefix(<<>>, q)
  BY PrefixOrder
<1> QED
  BY <1>3, <1>4, <1>5, <1>6 DEF InSync

\* Targets that are fresh or not in use have their places.
LEMMA FreshPlaces ==
  ASSUME PlaceInv, SyncInv, LeavesInv, FileInv, channels' \subseteq Target,
         \A t \in Target : Lives(t)' =>
           \/ /\ modified'[t] = <<>>
              /\ stack'[t] = <<Visit(<<>>)>> \/ (stack'[t] = <<>> /\ t \notin channels')
           \/ /\ UNCHANGED <<source, clock, unread, stable, links, dest>> /\ Lives(t)
              /\ stack'[t] = stack[t] /\ modified'[t] = modified[t]
              /\ delete'[t] = delete[t] /\ (t \in channels' => t \in channels)
  PROVE  PlaceInv' /\ SyncInv' /\ LeavesInv' /\ FileInv'
<1> DEFINE Fresh(t) == /\ modified'[t] = <<>>
                       /\ stack'[t] = <<Visit(<<>>)>> \/ (stack'[t] = <<>> /\ t \notin channels')
           Same(t) == /\ UNCHANGED <<source, clock, unread, stable, links, dest>> /\ Lives(t)
                      /\ stack'[t] = stack[t] /\ modified'[t] = modified[t]
                      /\ delete'[t] = delete[t] /\ (t \in channels' => t \in channels)
<1>1. \A t \in Target : Lives(t)' => Fresh(t) \/ Same(t)
  OBVIOUS
<1>2. ASSUME NEW t \in Target, Fresh(t)
      PROVE  /\ Pend(stack'[t]) \in {{<<>>}, {}} /\ Left(stack'[t]) = {} /\ Apart(stack'[t])
             /\ PathsOf(modified'[t]) = {} /\ DOMAIN modified'[t] = {}
             /\ t \in channels' => \A M, tree, src, d :
                  InSync(Pend(stack'[t]), Left(stack'[t]), M, tree, src, d)
  <2>1. PathsOf(modified'[t]) = {} /\ DOMAIN modified'[t] = {}
    BY <1>2, PathsEmpty
  <2>2. CASE stack'[t] = <<Visit(<<>>)>>
    <3> DEFINE s == stack'[t]
    <3>1. s = <<Visit(<<>>)>>
      BY <2>2
    <3> HIDE DEF s
    <3>2. /\ Pend(s) = {<<>>} /\ Left(s) = {} /\ Apart(s)
          /\ \A M, tree, src, d : InSync(Pend(s), Left(s), M, tree, src, d)
      BY <3>1, FreshIs
    <3> QED
      BY <2>1, <3>2 DEF s
  <2>3. CASE stack'[t] = <<>> /\ t \notin channels'
    BY <2>1, <2>3, PathsEmpty
  <2> QED
    BY <1>2, <2>2, <2>3
<1>3. PlaceInv'
  <2> SUFFICES ASSUME NEW t \in Target, Lives(t)'
               PROVE  /\ Apart(stack'[t])
                      /\ \A i, k \in DOMAIN modified'[t] :
                           i # k => modified'[t][i].path # modified'[t][k].path
                      /\ Placed(Pend(stack'[t]), Left(stack'[t]), PathsOf(modified'[t]), dest'[t])
    BY DEF PlaceInv
  <2>1. CASE Fresh(t)
    <3> DEFINE P == Pend(stack'[t])
               L == Left(stack'[t])
               M == PathsOf(modified'[t])
               tree == dest'[t]
    <3>0. L = {} /\ M = {} /\ P \in {{<<>>}, {}} /\ Apart(stack'[t])
      BY <1>2, <2>1
    <3> HIDE DEF P, L, M, tree
    <3>1. L = {} /\ M = {} /\ \A x \in P : x = <<>>
      BY <3>0
    <3>2. Placed(P, L, M, tree)
      BY <3>1 DEF Placed
    <3> QED
      BY <1>2, <2>1, <3>2 DEF P, L, M, tree
  <2>2. CASE Same(t)
    BY <2>2 DEF PlaceInv
  <2> HIDE DEF Fresh, Same
  <2> QED
    BY <1>1, <2>1, <2>2
<1>4. SyncInv'
  <2> SUFFICES ASSUME NEW t \in channels', Lives(t)', stable', LinksCurrent'
               PROVE  InSync(Pend(stack'[t]), Left(stack'[t]), PathsOf(modified'[t]) \cup Spoilt',
                             dest'[t], source', delete'[t])
    BY DEF SyncInv
  <2>1. CASE Fresh(t)
    BY <1>2, <2>1
  <2>2. CASE Same(t)
    <3>1. LinksCurrent
      BY <2>2 DEF LinksCurrent
    <3>2. Spoilt' = Spoilt
      BY <2>2 DEF Spoilt
    <3> QED
      BY <2>2, <3>1, <3>2 DEF SyncInv
  <2> HIDE DEF Fresh, Same
  <2> QED
    BY <1>1, <2>1, <2>2
<1>5. LeavesInv'
  <2> SUFFICES ASSUME NEW t \in Target, Lives(t)', stable', NEW l \in Left(stack'[t])
               PROVE  source'[l.path] = Dir /\ l.names = Present(source', l.path)
    BY DEF LeavesInv
  <2>1. CASE Fresh(t)
    BY <1>2, <2>1
  <2>2. CASE Same(t)
    BY <2>2 DEF LeavesInv
  <2> HIDE DEF Fresh, Same
  <2> QED
    BY <1>1, <2>1, <2>2
<1>6. FileInv'
  <2> SUFFICES ASSUME NEW t \in Target, Lives(t)', NEW i \in DOMAIN modified'[t]
               PROVE  LET f == modified'[t][i]
                      IN  /\ f.mtime <= clock'
                          /\ stable' =>
                               \/ source'[f.path].type = "file" /\ source'[f.path].mtime = f.mtime
                               \/ f.path = <<>> /\ source'[f.path] = Absent
    BY DEF FileInv
  <2>1. CASE Fresh(t)
    BY <1>2, <2>1
  <2>2. CASE Same(t)
    BY <2>2 DEF FileInv
  <2> HIDE DEF Fresh, Same
  <2> QED
    BY <1>1, <2>1, <2>2
<1> QED
  BY <1>3, <1>4, <1>5, <1>6

-----------------------------------------------------------------------------
(* What the sender does.                                                   *)

\* A message to all targets.
LEMMA SentPart ==
  ASSUME TypeOK, NEW msg \in Message, SendAll(channels, <<msg>>, "walk")
  PROVE  /\ pc' \in {"walk", "failed"}
         /\ \A t \in Target : \/ wire'[t] = wire[t] /\ (t \in channels => pc' = "failed")
                              \/ wire'[t] = Append(wire[t], msg) /\ t \in channels
<1>1. \A t \in Target : wire[t] \in Seq(Message) /\ wire[t] \o <<msg>> = Append(wire[t], msg)
  BY DEF TypeOK
<1>2. PICK S \in SUBSET channels :
        /\ IF \E t \in channels : Closed(t)
           THEN pc' = "failed" /\ \A t \in S : ~Closed(t)
           ELSE pc' = "walk" /\ S = channels
        /\ wire' = [t \in Target |-> IF t \in S THEN wire[t] \o <<msg>> ELSE wire[t]]
  BY DEF SendAll
<1>3. pc' \in {"walk", "failed"} /\ (pc' # "failed" => S = channels)
  BY <1>2
<1>4. \A t \in Target : /\ t \in S => wire'[t] = Append(wire[t], msg)
                        /\ t \notin S => wire'[t] = wire[t]
  BY <1>1, <1>2
<1>5. S \subseteq channels
  BY <1>2
<1> QED
  BY <1>3, <1>4, <1>5

\* What is at the first path is described, and with a directory its paths come first.
LEMMA PathSent ==
  ASSUME TypeOK, HadInv, SourceInv, WalkInv, SendDirectoryStructure
  PROVE  LET p == Head(walk)
         IN  /\ pc = "walk" /\ walk # <<>> /\ p \in Path /\ walk \in Seq(Path)
             /\ UNCHANGED <<source, had, clock, stable, delete, channels, queue, task, stack,
                            modified, dest>>
             /\ pc' \in {"walk", "failed"}
             /\ \/ pc' = "failed" /\ wire' = wire
                \/ \E msg \in Message :
                     /\ IsTreePart(msg) /\ Describes(World, p, msg)
                     /\ Turns(walk, msg, walk')
                     /\ \A t \in Target :
                          \/ wire'[t] = wire[t] /\ (t \in channels => pc' = "failed")
                          \/ wire'[t] = Append(wire[t], msg) /\ t \in channels
<1> DEFINE p == Head(walk)
<1>1. /\ pc = "walk" /\ walk # <<>> /\ walk \in Seq(Path)
      /\ UNCHANGED <<source, had, clock, stable, delete, channels, queue, task, stack, modified,
                     dest>>
      /\ SendDirectory(p) \/ SendLinkStructure(p) \/ SendFile(p) \/ SendRaises(p)
  BY DEF SendDirectoryStructure, sourcevars, fixed, remote, TypeOK
<1>2. p \in Path /\ source[p] \in Entry /\ source[p] \in had[p] /\ p = walk[1] /\ 1 \in DOMAIN walk
  BY <1>1, TailIs DEF TypeOK, HadInv
<1>3. World = [source |-> source, had |-> had, clock |-> clock, stable |-> stable]
  BY DEF World
<1> HIDE DEF p
<1>4. ASSUME NEW msg \in Message, IsTreePart(msg), Describes(World, p, msg),
             Turns(walk, msg, walk'), SendAll(channels, <<msg>>, "walk")
      PROVE  /\ pc' \in {"walk", "failed"}
             /\ \E m \in Message :
                  /\ IsTreePart(m) /\ Describes(World, p, m) /\ Turns(walk, m, walk')
                  /\ \A t \in Target :
                       \/ wire'[t] = wire[t] /\ (t \in channels => pc' = "failed")
                       \/ wire'[t] = Append(wire[t], m) /\ t \in channels
  BY <1>4, SentPart
<1>5. CASE SendDirectory(p)
  <2> DEFINE names == SetToSeq(Present(source, p))
             msg == [type |-> "dir", names |-> names]
  <2>1. /\ source[p] = Dir /\ SendAll(channels, <<msg>>, "walk")
        /\ walk' = names \o Tail(walk)
    BY <1>5 DEF SendDirectory, Present
  <2>2. Present(source, p) \in SUBSET Path /\ Present(source, p) \subseteq Children(p)
    BY DEF Present, Children, Below
  <2>3. /\ names \in Seq(Path) /\ IsInjective(names) /\ ToSet(names) = Present(source, p)
    BY <2>2, Listing
  <2> HIDE DEF names
  <2>4. msg \in Message /\ IsTreePart(msg)
    BY <2>3 DEF Message, IsTreePart
  <2>5. Turns(walk, msg, walk')
    BY <1>1, <2>1 DEF Turns
  <2>6. Describes(World, p, msg)
    BY <1>3, <2>1, <2>2, <2>3 DEF Describes
  <2> QED
    BY <1>1, <1>2, <1>4, <2>1, <2>4, <2>5, <2>6 DEF p
<1>6. CASE SendLinkStructure(p)
  <2> DEFINE msg == [type |-> "link"]
  <2>1. source[p].type = "link" /\ SendAll(channels, <<msg>>, "walk") /\ walk' = Tail(walk)
    BY <1>6 DEF SendLinkStructure
  <2>2. msg \in Message /\ IsTreePart(msg) /\ Turns(walk, msg, walk') /\ Describes(World, p, msg)
    BY <1>1, <1>3, <2>1 DEF Message, IsTreePart, Turns, Describes
  <2> QED
    BY <1>1, <1>2, <1>4, <2>1, <2>2 DEF p
<1>7. CASE SendFile(p)
  <2> DEFINE e == source[p]
             msg == IF e = Absent
                    THEN [type |-> "file", size |-> 0, mtime |-> 0]
                    ELSE [type |-> "file", size |-> Size(e.data), mtime |-> e.mtime]
  <2>1. e.type \in {"file", "absent"} /\ SendAll(channels, <<msg>>, "walk") /\ walk' = Tail(walk)
    BY <1>7 DEF SendFile
  <2>2. msg \in Message /\ msg.type = "file"
    BY <1>2, <2>1, FileMessage
  <2>3. IsTreePart(msg) /\ Turns(walk, msg, walk')
    BY <1>1, <2>1, <2>2 DEF IsTreePart, Turns
  <2>4. clock \in Nat /\ (e.type = "file" => e.mtime <= clock)
    BY <1>2 DEF SourceInv, TypeOK
  <2>5. e = Absent \/ e.type = "file"
    BY <1>2, <2>1, Entries
  <2>6. /\ msg.mtime <= clock
        /\ e.type = "file" => msg.mtime = e.mtime
    BY <2>4, <2>5 DEF Absent
  <2>7. stable /\ e = Absent => p = <<>>
    BY <1>1, <1>2 DEF WalkInv
  <2> HIDE DEF msg
  <2>8. Describes(World, p, msg)
    BY <1>2, <1>3, <2>1, <2>2, <2>5, <2>6, <2>7 DEF Describes
  <2> QED
    BY <1>1, <1>2, <1>4, <2>1, <2>2, <2>3, <2>8 DEF p
<1>8. CASE SendRaises(p)
  BY <1>1, <1>2, <1>8 DEF SendRaises, p
<1> QED
  BY <1>1, <1>5, <1>6, <1>7, <1>8

\* What it does when the tree is described.
LEMMA SenderIs ==
  ASSUME TypeOK, Sender
  PROVE  /\ UNCHANGED <<source, had, clock, stable, delete, task, stack, modified, dest>>
         /\ channels' \subseteq channels
         /\ \/ SendDirectoryStructure
            \/ /\ UNCHANGED <<walk, links>>
               /\ channels' = channels \/ Done
               /\ pc \in {"walk", "loop", "closing"} /\ (pc = "walk" => walk = <<>>)
               /\ pc' \in {"loop", "closing", "failed"} \/ (pc' = "idle" /\ channels = {})
               /\ queue' = queue \/ (pc = "loop" /\ queue # <<>> /\ queue' = Tail(queue))
               /\ wire' = wire \/ SendItem \/ ProcessLink
<1>1. CASE SendDirectoryStructure
  BY <1>1 DEF SendDirectoryStructure, sourcevars, fixed, remote
<1>2. CASE WalkEnds \/ LoopEnds \/ WaitClose
  BY <1>2 DEF WalkEnds, LoopEnds, WaitClose, sourcevars, fixed, remote
<1>3. ASSUME NEW type, Get(type), pc' \in {"loop", "closing", "failed"},
             channels' = channels \/ (Done /\ channels' \subseteq channels),
             wire' = wire \/ SendItem \/ ProcessLink
      PROVE  /\ UNCHANGED <<source, had, clock, stable, delete, task, stack, modified, dest>>
             /\ channels' \subseteq channels
             /\ UNCHANGED <<walk, links>>
             /\ channels' = channels \/ Done
             /\ pc \in {"walk", "loop", "closing"} /\ (pc = "walk" => walk = <<>>)
             /\ pc' \in {"loop", "closing", "failed"} \/ (pc' = "idle" /\ channels = {})
             /\ queue' = queue \/ (pc = "loop" /\ queue # <<>> /\ queue' = Tail(queue))
             /\ wire' = wire \/ SendItem \/ ProcessLink
  BY <1>3 DEF Get, sourcevars, fixed, remote
<1>4. CASE EndOfChannel
  <2>1. /\ Get("end") /\ pc' \in {"loop", "closing", "failed"} /\ channels' = channels
        /\ wire' = wire
    BY <1>4 DEF EndOfChannel
  <2> QED
    BY <1>3, <2>1
<1>5. CASE ListDone
  <2>1. /\ Get("list_done") /\ pc' \in {"loop", "closing", "failed"} /\ channels' = channels
        /\ wire' = wire
    BY <1>5 DEF ListDone
  <2> QED
    BY <1>3, <2>1
<1>6. CASE Ack
  <2>1. /\ Get("ack") /\ pc' \in {"loop", "closing", "failed"} /\ channels' = channels
        /\ wire' = wire
    BY <1>6 DEF Ack, Get
  <2> QED
    BY <1>3, <2>1
<1>7. CASE Done
  <2>1. /\ Get("done") /\ pc' \in {"loop", "closing", "failed"} /\ channels' \subseteq channels
        /\ wire' = wire
    BY <1>7 DEF Done
  <2> QED
    BY <1>3, <1>7, <2>1
<1>8. CASE ProcessLink
  <2>1. /\ Get("links") /\ pc' \in {"loop", "closing", "failed"} /\ channels' = channels
    BY <1>8 DEF ProcessLink, SendAll
  <2> QED
    BY <1>3, <1>8, <2>1
<1>9. CASE SendItem
  <2>1. /\ Get("send") /\ pc' \in {"loop", "closing", "failed"} /\ channels' = channels
    BY <1>9 DEF SendItem, SendAll
  <2> QED
    BY <1>3, <1>9, <2>1
<1> QED
  BY <1>1, <1>2, <1>4, <1>5, <1>6, <1>7, <1>8, <1>9 DEF Sender

\* Contents are sent to the one who has asked for them.
LEMMA ItemIs ==
  ASSUME TypeOK, SendItem
  PROVE  /\ pc = "loop" /\ queue # <<>> /\ Head(queue).wish.type = "send" /\ From \in Target
         /\ queue' = Tail(queue) /\ channels' = channels
         /\ \E msg \in Message :
              /\ IsData(msg)
              /\ \A t \in Target :
                   wire'[t] = wire[t] \/ (t = From /\ wire'[t] = Append(wire[t], msg))
<1>0. PICK data \in Read(Head(queue).wish.path) :
        SendAll({From}, <<[type |-> "data",
                           data |-> IF data = Head(queue).wish.checksum THEN None ELSE data]>>,
                "loop")
  BY DEF SendItem
<1> DEFINE msg == [type |-> "data",
                   data |-> IF data = Head(queue).wish.checksum THEN None ELSE data]
<1>1. /\ Get("send") /\ channels' = channels /\ SendAll({From}, <<msg>>, "loop")
  BY <1>0 DEF SendItem
<1>2. /\ pc = "loop" /\ queue # <<>> /\ Head(queue).wish.type = "send" /\ queue' = Tail(queue)
  BY <1>1 DEF Get
<1>3. From \in Target /\ Head(queue).wish \in Wish
  BY <1>2, Got
<1>4. msg \in Message /\ IsData(msg)
  <2>1. Head(queue).wish.path \in Path
    BY <1>2, <1>3, Wishes
  <2>2. source[Head(queue).wish.path] \in Entry
    BY <2>1 DEF TypeOK
  <2>3. data \in Data \cup {Partial, None}
    BY <1>0, <2>2, Entries DEF Read
  <2> QED
    BY <2>3 DEF Message, IsData
<1> HIDE DEF msg
<1>5. \A t \in Target : wire'[t] = wire[t] \/ (t = From /\ wire'[t] = Append(wire[t], msg))
  <2>1. \A t \in Target : wire[t] \in Seq(Message) /\ wire[t] \o <<msg>> = Append(wire[t], msg)
    BY <1>4 DEF TypeOK
  <2>2. {From} \in SUBSET Target /\ <<msg>> \in Seq(Message)
    BY <1>3, <1>4
  <2> QED
    BY <1>1, <2>1, <2>2, Sent
<1> QED
  BY <1>1, <1>2, <1>3, <1>4, <1>5

\* So are the links, and their end.
LEMMA LinksSent ==
  ASSUME TypeOK, ProcessLink
  PROVE  /\ pc = "loop" /\ queue # <<>> /\ Head(queue).wish.type = "links" /\ From \in Target
         /\ queue' = Tail(queue) /\ channels' = channels /\ Answer \in Seq(Message)
         /\ \A t \in Target :
              wire'[t] = wire[t] \/ (t = From /\ wire'[t] = wire[t] \o Answer)
<1>1. /\ Get("links") /\ channels' = channels /\ SendAll({From}, Answer, "loop")
  BY DEF ProcessLink, Answer
<1>2. /\ pc = "loop" /\ queue # <<>> /\ Head(queue).wish.type = "links" /\ queue' = Tail(queue)
  BY <1>1 DEF Get
<1>3. From \in Target /\ {From} \in SUBSET Target
  BY <1>2, Got
<1>4. Answer \in Seq(Message)
  BY AnswerIs
<1>5. \A t \in Target : wire'[t] = wire[t] \/ (t = From /\ wire'[t] = wire[t] \o Answer)
  BY <1>1, <1>3, <1>4, Sent
<1> QED
  BY <1>1, <1>2, <1>3, <1>4, <1>5

\* Who has asked for a file has files to write.
LEMMA AskerWaits ==
  ASSUME TypeOK, MatchInv, WorkInv, TaskInv, queue # <<>>, Head(queue).wish.type = "send",
         Lives(From)
  PROVE  /\ task[From] \in {"tree", "files", "write", "utime"} /\ From \in channels
<1>1. From \in Target /\ queue \in Seq(Requests) /\ Head(queue) = queue[1] /\ 1 \in DOMAIN queue
  <2>1. queue \in Seq(Requests)
    BY DEF TypeOK
  <2> QED
    BY <2>1, Got, TailIs
<1>2. 1 \in AskedAt(queue, From)
  BY <1>1 DEF AskedAt, Asks, From
<1>3. Matched(modified[From], InWork(From), wire[From], queue, From, View(From))
  BY <1>1 DEF MatchInv
<1>4. \E g : g \in InWork(From) + 1 .. Len(modified[From])
  BY <1>2, <1>3 DEF Matched, Pairing
<1>5. modified[From] # <<>>
  <2>1. InWork(From) \in Nat
    BY DEF InWork
  <2> QED
    BY <1>4, <2>1
<1>6. task[From] \in {"tree", "files", "write", "utime"}
  BY <1>1, <1>5 DEF WorkInv, Lives, TypeOK
<1> QED
  BY <1>1, <1>6, InUse

-----------------------------------------------------------------------------
(* What is sent is what will be received.                                  *)

\* A target of which nothing changes but what messages are judged by.
LEMMA PlanStays ==
  ASSUME TypeOK, PlanInv, NEW t \in channels, Lives(t), stack'[t] = stack[t], wire'[t] = wire[t],
         Rests \cap Seq(Path) \subseteq Rests',
         \A p \in Path, msg \in Message : Describes(World, p, msg) => Describes(World', p, msg)
  PROVE  \E v \in Seq(Path) : Lists(v, stack'[t]) /\ Planned(v, wire'[t], World', Rests')
<1>1. PICK v \in Seq(Path) : Lists(v, stack[t]) /\ Planned(v, wire[t], World, Rests)
  BY DEF PlanInv
<1>2. wire[t] \in Seq(Message)
  BY DEF TypeOK
<1>3. Planned(v, wire[t], World', Rests')
  <2> DEFINE h == World
             k == World'
             R == Rests
             S == Rests'
             w == wire[t]
  <2>1. /\ w \in Seq(Message) /\ R \cap Seq(Path) \subseteq S /\ Planned(v, w, h, R)
        /\ \A p \in Path, msg \in Message : Describes(h, p, msg) => Describes(k, p, msg)
    BY <1>1, <1>2
  <2> HIDE DEF h, k, R, S, w
  <2>2. Planned(v, w, k, S)
    BY <2>1, PlanKept
  <2> QED
    BY <2>2 DEF k, S, w
<1> QED
  BY <1>1, <1>3

LEMMA WorldSame ==
  ASSUME UNCHANGED <<source, had, clock, stable>>
  PROVE  World' = World
BY DEF World

\* A target goes on along the plan.
LEMMA PlanServed ==
  ASSUME TypeOK, WorkInv, PlaceInv, PlanInv, TaskInv, NEW t \in Target, Serve(t)
  PROVE  PlanInv'
<1>1. /\ Only(t) /\ UNCHANGED <<source, had, clock, stable, channels, pc, walk>>
      /\ (Lives(t)' => Lives(t))
  <2>1. Only(t)
    BY Alone
  <2>2. Lives(t)' => Lives(t)
    BY ServesAlive
  <2> QED
    BY <2>1, <2>2 DEF Only, Local, sourcevars
<1>2. World' = World /\ Rests' = Rests
  BY <1>1, WorldSame DEF Rests
<1> DEFINE Here == t \in channels =>
             \E v \in Seq(Path) : Lists(v, stack'[t]) /\ Planned(v, wire'[t], World, Rests)
<1>3. ASSUME Lives(t) => Here
      PROVE  PlanInv'
  <2> SUFFICES ASSUME NEW u \in channels, Lives(u)'
               PROVE  \E v \in Seq(Path) :
                        Lists(v, stack'[u]) /\ Planned(v, wire'[u], World, Rests)
    BY <1>1, <1>2 DEF PlanInv
  <2>1. CASE u = t
    BY <1>1, <1>3, <2>1
  <2>2. CASE u # t
    <3>1. Lives(u) /\ stack'[u] = stack[u] /\ wire'[u] = wire[u]
      BY <1>1, <2>2 DEF Only, Lives, TypeOK
    <3> QED
      BY <3>1 DEF PlanInv
  <2> QED
    BY <2>1, <2>2
<1>4. stack[t] \in Seq(Visits) /\ wire[t] \in Seq(Message)
  BY DEF TypeOK
<1>5. ASSUME stack'[t] = stack[t], wire'[t] = wire[t]
      PROVE  PlanInv'
  <2>1. Lives(t) => Here
    BY <1>5 DEF PlanInv
  <2> QED
    BY <1>3, <2>1
<1>6. ASSUME stack'[t] = stack[t], wire[t] # <<>>, wire'[t] = Tail(wire[t]),
             ~IsTreePart(Head(wire[t]))
      PROVE  PlanInv'
  <2>1. ASSUME t \in channels, Lives(t) PROVE Here
    <3>1. PICK v \in Seq(Path) : Lists(v, stack[t]) /\ Planned(v, wire[t], World, Rests)
      BY <2>1 DEF PlanInv
    <3>2. PICK u \in Seq(Path) : /\ Turns(v, Head(wire[t]), u)
                                 /\ Planned(u, Tail(wire[t]), World, Rests)
      BY <1>4, <1>6, <3>1, PlanReceived
    <3>3. u = v
      BY <1>6, <3>2, OtherTurns
    <3> QED
      BY <1>6, <3>1, <3>2, <3>3
  <2> QED
    BY <1>3, <2>1
<1>7. CASE ReceiveDirectory(t)
  <2> DEFINE names == Head(wire[t]).names
             p == Top(t).path
             r == Tail(stack[t])
             w == Tail(wire[t])
  <2>1. /\ task[t] = "tree" /\ stack[t] # <<>> /\ ~Top(t).leave
        /\ wire[t] # <<>> /\ Head(wire[t]).type = "dir" /\ names \in Seq(Path)
        /\ wire'[t] = w
        /\ stack'[t] = [i \in DOMAIN names |-> Visit(names[i])] \o <<Leave(p, ToSet(names))>> \o r
    BY <1>7, DirectoryMade
  <2>2. PICK v \in Seq(Path) : Lists(v, r) /\ Planned(names \o v, w, World, Rests)
    BY <2>1, HeadDescribed DEF IsTreePart
  <2>3. p \in Path /\ r \in Seq(Visits)
    BY <2>1, TopIs
  <2> HIDE DEF names, p, r, w
  <2>4. Lists(names \o v, stack'[t]) /\ names \o v \in Seq(Path)
    BY <2>1, <2>2, <2>3, ListsPushed
  <2> QED
    BY <1>3, <2>1, <2>2, <2>4
<1>8. CASE LeaveDirectory(t)
  <2>1. stack[t] # <<>> /\ Top(t).leave /\ wire'[t] = wire[t] /\ stack'[t] = Tail(stack[t])
    BY <1>8, DirectoryLeft
  <2>2. ASSUME t \in channels, Lives(t) PROVE Here
    <3>1. PICK v \in Seq(Path) : Lists(v, stack[t]) /\ Planned(v, wire[t], World, Rests)
      BY <2>2 DEF PlanInv
    <3>2. Lists(v, Tail(stack[t]))
      BY <1>4, <2>1, <3>1, ListsLeft DEF Top
    <3> QED
      BY <2>1, <3>1, <3>2
  <2> QED
    BY <1>3, <2>2
<1>9. CASE ReceiveFile(t) \/ ReceiveLink(t)
  <2>1. /\ task[t] = "tree" /\ stack[t] # <<>> /\ ~Top(t).leave
        /\ wire[t] # <<>> /\ Head(wire[t]).type \in {"file", "link"}
        /\ wire'[t] = Tail(wire[t]) /\ stack'[t] = Tail(stack[t])
    BY <1>9 DEF ReceiveFile, ReceiveLink, Descend, Receive, TypeOK
  <2>2. \E v \in Seq(Path) :
          Lists(v, Tail(stack[t])) /\ Planned(v, Tail(wire[t]), World, Rests)
    BY <2>1, HeadDescribed DEF IsTreePart
  <2> QED
    BY <1>3, <2>1, <2>2
<1>10. CASE TreeEnds(t) \/ FilesEnd(t) \/ ChannelCloses(t) \/ Write(t) \/ Utime(t)
  BY <1>5, <1>10 DEF TreeEnds, FilesEnd, ChannelCloses, Write, Utime
<1>11. CASE ReceiveData(t) \/ MakeLink(t) \/ LinksEnd(t)
  <2>1. /\ stack'[t] = stack[t] /\ wire[t] # <<>> /\ wire'[t] = Tail(wire[t])
        /\ Head(wire[t]).type \in {"data", "to", "end"}
    BY <1>11 DEF ReceiveData, MakeLink, LinksEnd, Receive, TypeOK
  <2> QED
    BY <1>6, <2>1 DEF IsTreePart
<1> QED
  BY <1>7, <1>8, <1>9, <1>10, <1>11 DEF Serve

\* The sender goes on along it.
LEMMA PlanSentOn ==
  ASSUME TypeOK, TypeOK', HadInv, SourceInv, WalkInv, PlanInv, Sender
  PROVE  PlanInv'
<1>1. /\ UNCHANGED <<source, had, clock, stable, task, stack>> /\ channels' \subseteq channels
      /\ channels \subseteq Target
  BY SenderIs DEF TypeOK
<1>2. World' = World
  BY <1>1, WorldSame
<1>3. \A t \in channels : Lives(t)' => Lives(t)
  BY <1>1 DEF Lives
<1>4. \A t \in channels : wire[t] \in Seq(Message)
  BY <1>1 DEF TypeOK
<1>5. ASSUME Rests \cap Seq(Path) \subseteq Rests', wire' = wire
      PROVE  PlanInv'
  <2>1. \A t \in channels' : Lives(t)' =>
          \E v \in Seq(Path) : Lists(v, stack'[t]) /\ Planned(v, wire'[t], World', Rests')
    BY <1>1, <1>2, <1>3, <1>5, PlanStays
  <2> QED
    BY <2>1 DEF PlanInv
<1>6. CASE SendDirectoryStructure
  <2> DEFINE p == Head(walk)
  <2>1. /\ pc = "walk" /\ walk # <<>> /\ walk \in Seq(Path) /\ channels' = channels
        /\ pc' \in {"walk", "failed"}
        /\ \/ pc' = "failed" /\ wire' = wire
           \/ \E msg \in Message :
                /\ IsTreePart(msg) /\ Describes(World, p, msg) /\ Turns(walk, msg, walk')
                /\ \A t \in Target : \/ wire'[t] = wire[t] /\ (t \in channels => pc' = "failed")
                                     \/ wire'[t] = Append(wire[t], msg) /\ t \in channels
    BY <1>6, PathSent
  <2>2. CASE pc' = "failed" /\ wire' = wire
    BY <1>5, <2>2 DEF Rests
  <2>3. ASSUME NEW msg \in Message, Describes(World, p, msg), Turns(walk, msg, walk'),
               \A t \in Target : \/ wire'[t] = wire[t] /\ (t \in channels => pc' = "failed")
                                 \/ wire'[t] = Append(wire[t], msg) /\ t \in channels
        PROVE  PlanInv'
    <3> SUFFICES ASSUME NEW t \in channels, Lives(t)
                 PROVE  \E v \in Seq(Path) :
                          Lists(v, stack[t]) /\ Planned(v, wire'[t], World, Rests')
      BY <1>1, <1>2, <1>3, <2>1 DEF PlanInv
    <3>1. PICK v \in Seq(Path) : Lists(v, stack[t]) /\ Planned(v, wire[t], World, Rests)
      BY DEF PlanInv
    <3>2. /\ Rests = {walk} /\ walk' \in Seq(Path) /\ walk' \in Rests'
          /\ pc' = "failed" => Seq(Path) \subseteq Rests'
      BY <2>1 DEF Rests, TypeOK
    <3> DEFINE h == World
               R == Rests
               S == Rests'
    <3> HIDE DEF h, R, S
    <3>3. \A r \in R \cap Seq(Path) :
            \E s \in S \cap Seq(Path) : Turns(r, msg, s) /\ Describes(h, Head(r), msg)
      BY <2>3, <3>2 DEF h, R, S
    <3>4. Planned(v, wire[t], h, R)
      BY <3>1 DEF h, R
    <3>5. Planned(v, Append(wire[t], msg), h, S)
      BY <1>4, <2>3, <3>3, <3>4, PlanSent
    <3>6. CASE wire'[t] = wire[t] /\ pc' = "failed"
      <4>1. R \cap Seq(Path) \subseteq S
        BY <3>2, <3>6 DEF S
      <4>2. Planned(v, wire[t], h, S)
        BY <1>4, <3>4, <4>1, PlanKept
      <4> QED
        BY <3>1, <3>6, <4>2 DEF h, S
    <3>7. CASE wire'[t] = Append(wire[t], msg)
      BY <3>1, <3>5, <3>7 DEF h, S
    <3> QED
      BY <1>1, <2>3, <3>6, <3>7
  <2> QED
    BY <2>1, <2>2, <2>3
<1>7. CASE ~SendDirectoryStructure
  <2>1. /\ walk' = walk /\ pc \in {"walk", "loop", "closing"}
        /\ pc' \in {"loop", "closing", "failed"} \/ (pc' = "idle" /\ channels = {})
        /\ wire' = wire \/ SendItem \/ ProcessLink
    BY <1>7, SenderIs
  <2>2. CASE pc' = "idle" /\ channels = {}
    BY <1>1, <2>2 DEF PlanInv
  <2>3. CASE pc' \in {"loop", "closing", "failed"}
    <3>1. Rests \cap Seq(Path) \subseteq Rests'
      BY <2>1, <2>3 DEF Rests
    <3>2. ASSUME NEW x \in Seq(Message), \A i \in DOMAIN x : ~IsTreePart(x[i]),
                 NEW t \in Target, wire'[t] = wire[t] \o x, t \in channels', Lives(t)'
          PROVE  \E v \in Seq(Path) :
                   Lists(v, stack'[t]) /\ Planned(v, wire'[t], World', Rests')
      <4>1. PICK v \in Seq(Path) : Lists(v, stack[t]) /\ Planned(v, wire[t], World, Rests)
        BY <1>1, <1>3, <3>2 DEF PlanInv
      <4> DEFINE h == World
                 R == Rests
                 S == Rests'
                 w == wire[t]
      <4>2. w \in Seq(Message) /\ R \cap Seq(Path) \subseteq S /\ Planned(v, w, h, R)
        BY <1>1, <1>4, <3>1, <3>2, <4>1
      <4> HIDE DEF h, R, S, w
      <4>3. Planned(v, w, h, S)
        BY <4>2, PlanKept
      <4>4. Planned(v, w \o x, h, S)
        BY <3>2, <4>2, <4>3, OtherPlanned
      <4> QED
        BY <1>1, <1>2, <3>2, <4>1, <4>4 DEF h, S, w
    <3>3. ASSUME NEW x \in Seq(Message), \A i \in DOMAIN x : ~IsTreePart(x[i]),
                 \A t \in Target : wire'[t] = wire[t] \/ wire'[t] = wire[t] \o x
          PROVE  PlanInv'
      <4>1. \A t \in channels' : Lives(t)' /\ wire'[t] = wire[t] =>
              \E v \in Seq(Path) : Lists(v, stack'[t]) /\ Planned(v, wire'[t], World', Rests')
        BY <1>1, <1>2, <1>3, <3>1, PlanStays
      <4>2. \A t \in channels' : Lives(t)' =>
              \E v \in Seq(Path) : Lists(v, stack'[t]) /\ Planned(v, wire'[t], World', Rests')
        BY <1>1, <3>2, <3>3, <4>1
      <4> QED
        BY <4>2 DEF PlanInv
    <3>4. CASE wire' = wire
      BY <1>5, <3>1, <3>4
    <3>5. CASE SendItem
      <4>1. PICK msg \in Message :
              /\ IsData(msg)
              /\ \A t \in Target : wire'[t] = wire[t] \/ wire'[t] = Append(wire[t], msg)
        BY <3>5, ItemIs
      <4>2. \A t \in Target : wire[t] \in Seq(Message) /\ wire[t] \o <<msg>> = Append(wire[t], msg)
        BY DEF TypeOK
      <4>3. <<msg>> \in Seq(Message) /\ \A i \in DOMAIN <<msg>> : ~IsTreePart(<<msg>>[i])
        BY <4>1 DEF IsData, IsTreePart
      <4> QED
        BY <3>3, <4>1, <4>2, <4>3
    <3>6. CASE ProcessLink
      <4>1. /\ Answer \in Seq(Message)
            /\ \A t \in Target : wire'[t] = wire[t] \/ wire'[t] = wire[t] \o Answer
        BY <3>6, LinksSent
      <4>2. \A i \in DOMAIN Answer : ~IsTreePart(Answer[i])
        <5>1. /\ Len(Answer) = Len(links) + 1 /\ Len(links) \in Nat /\ DOMAIN links = 1..Len(links)
              /\ \A i \in DOMAIN links : Answer[i].type = "to"
              /\ Answer[Len(links) + 1].type = "end"
          BY AnswerIs
        <5>2. DOMAIN Answer = 1..Len(links) + 1
          BY <4>1, <5>1
        <5>3. \A i \in DOMAIN Answer : i \in DOMAIN links \/ i = Len(links) + 1
          BY <5>1, <5>2
        <5> HIDE DEF Answer
        <5>4. \A i \in DOMAIN Answer : Answer[i].type \in {"to", "end"}
          BY <5>1, <5>3
        <5> QED
          BY <5>4 DEF IsTreePart
      <4> HIDE DEF Answer
      <4> QED
        BY <3>3, <4>1, <4>2
    <3> QED
      BY <2>1, <3>4, <3>5, <3>6
  <2> QED
    BY <2>1, <2>2, <2>3
<1> QED
  BY <1>6, <1>7

\* Nothing is judged by a source that changes.
LEMMA PlanChanged ==
  ASSUME TypeOK, PlanInv, NEW p \in Path, NEW e \in Things(p, clock + 1), Change(p, e)
  PROVE  PlanInv'
<1>1. /\ UNCHANGED <<task, stack, wire, channels, pc, walk>> /\ stable' = FALSE
      /\ clock' = clock + 1 /\ clock \in Nat /\ channels \subseteq Target
      /\ \A q \in Path : had[q] \subseteq had'[q]
  BY DEF Change, remote, TypeOK
<1>2. World = [source |-> source, had |-> had, clock |-> clock, stable |-> stable]
  BY DEF World
<1>3. World' = [source |-> source', had |-> had', clock |-> clock', stable |-> FALSE]
  BY <1>1 DEF World
<1>4. ASSUME NEW q \in Path, NEW msg \in Message, Describes(World, q, msg)
      PROVE  Describes(World', q, msg)
  <2>1. msg.type = "file" => msg.mtime \in Nat
    <3>1. Now \in Nat
      BY RSyncAssumption DEF Now
    <3> QED
      BY <3>1, Messages
  <2>2. msg.type = "file" => msg.mtime <= clock' /\ \E x \in had'[q] : x.type \in {"file", "absent"}
    BY <1>1, <1>2, <1>4, <2>1 DEF Describes
  <2> QED
    BY <1>2, <1>3, <1>4, <2>2 DEF Describes
<1>5. Rests' = Rests
  BY <1>1 DEF Rests
<1>6. \A t \in channels' : Lives(t)' =>
        \E v \in Seq(Path) : Lists(v, stack'[t]) /\ Planned(v, wire'[t], World', Rests')
  <2>1. \A t \in channels : Lives(t)' => Lives(t)
    BY <1>1 DEF Lives
  <2>2. channels' = channels /\ stack' = stack /\ wire' = wire
    BY <1>1
  <2> QED
    BY <1>4, <1>5, <2>1, <2>2, PlanStays
<1> QED
  BY <1>6 DEF PlanInv

\* A fresh target will visit the directory itself.
LEMMA PlanFresh ==
  ASSUME NEW s, s = <<Visit(<<>>)>>, NEW w, w = <<>>, NEW h, NEW R, R = {<<<<>>>>}
  PROVE  \E v \in Seq(Path) : Lists(v, s) /\ Planned(v, w, h, R)
<1>1. <<<<>>>> \in Seq(Path)
  BY RSyncAssumption
<1>2. Planned(<<<<>>>>, w, h, R)
  BY <1>1, PlanEmpty
<1> QED
  BY <1>1, <1>2, ListsRoot

\* Targets are added.
LEMMA PlanAdded ==
  ASSUME TypeOK, PlanInv, TaskInv, NEW t \in Target, NEW d \in BOOLEAN, AddTarget(t, d)
  PROVE  PlanInv'
<1>1. /\ UNCHANGED <<source, had, clock, stable, wire, pc, walk>> /\ pc = "idle"
      /\ channels' = channels \cup {t} /\ t \notin channels /\ channels \subseteq Target
      /\ task[t] \in {"none", "closed"} /\ stack'[t] = <<Visit(<<>>)>>
      /\ \A u \in Target : u # t => stack'[u] = stack[u] /\ task'[u] = task[u]
  BY DEF AddTarget, sourcevars, TypeOK
<1>2. World' = World /\ Rests' = Rests /\ Rests = {<<<<>>>>}
  BY <1>1, WorldSame DEF Rests
<1>3. wire'[t] = <<>>
  BY <1>1 DEF TaskInv, Lives
<1>4. \E v \in Seq(Path) : Lists(v, stack'[t]) /\ Planned(v, wire'[t], World', Rests')
  BY <1>1, <1>2, <1>3, PlanFresh
<1>5. ASSUME NEW u \in channels, Lives(u)'
      PROVE  \E v \in Seq(Path) : Lists(v, stack'[u]) /\ Planned(v, wire'[u], World', Rests')
  <2>1. Lives(u) /\ stack'[u] = stack[u] /\ wire'[u] = wire[u]
    BY <1>1, <1>5 DEF Lives
  <2> QED
    BY <1>2, <2>1 DEF PlanInv
<1> QED
  BY <1>1, <1>4, <1>5 DEF PlanInv

\* A send() begins.
LEMMA PlanBegins ==
  ASSUME TypeOK, TaskInv, SendBegins
  PROVE  PlanInv'
<1>1. /\ UNCHANGED <<channels, task, stack, wire>> /\ pc = "idle" /\ pc' = "walk"
      /\ walk' = <<<<>>>> /\ channels \subseteq Target
  BY DEF SendBegins, remote, TypeOK
<1>2. Rests' = {<<<<>>>>}
  BY <1>1 DEF Rests
<1>3. ASSUME NEW t \in channels, Lives(t)'
      PROVE  \E v \in Seq(Path) : Lists(v, stack'[t]) /\ Planned(v, wire'[t], World', Rests')
  <2>1. stack'[t] = <<Visit(<<>>)>> /\ wire'[t] = <<>>
    BY <1>1, <1>3 DEF TaskInv, Lives
  <2> QED
    BY <1>2, <2>1, PlanFresh
<1> QED
  BY <1>1, <1>3 DEF PlanInv

\* What send() has to visit is there, while the source does not change.
LEMMA WalkKept ==
  ASSUME TypeOK, TypeOK', WalkInv, Next
  PROVE  WalkInv'
<1>1. CASE SendDirectoryStructure
  <2> DEFINE p == Head(walk)
  <2>1. /\ pc = "walk" /\ walk # <<>> /\ walk \in Seq(Path) /\ pc' \in {"walk", "failed"}
        /\ UNCHANGED <<source, stable>>
    BY <1>1 DEF SendDirectoryStructure, SendDirectory, SendLinkStructure, SendFile, SendRaises,
                SendAll, sourcevars, TypeOK
  <2>2. \A k \in DOMAIN Tail(walk) : \E i \in DOMAIN walk : Tail(walk)[k] = walk[i]
    BY <2>1, TailIs
  <2>3. \/ walk' = walk \/ walk' = Tail(walk)
        \/ walk' = SetToSeq(Present(source, p)) \o Tail(walk)
    BY <1>1 DEF SendDirectoryStructure, SendDirectory, SendLinkStructure, SendFile, SendRaises,
                Present
  <2>4. stable' /\ pc' = "walk" => \A k \in DOMAIN walk : walk[k] = <<>> \/ source[walk[k]] # Absent
    BY <2>1 DEF WalkInv
  <2>5. stable' /\ pc' = "walk" =>
          \A k \in DOMAIN walk' : walk'[k] = <<>> \/ source[walk'[k]] # Absent
    <3>1. CASE walk' = walk
      BY <2>4, <3>1
    <3>2. CASE walk' = Tail(walk)
      BY <2>2, <2>4, <3>2
    <3>3. CASE walk' = SetToSeq(Present(source, p)) \o Tail(walk)
      <4> DEFINE names == SetToSeq(Present(source, p))
                 r == Tail(walk)
      <4>1. Present(source, p) \in SUBSET Path
        BY DEF Present, Children, Below
      <4>2. names \in Seq(Path) /\ ToSet(names) = Present(source, p)
        BY <4>1, Listing
      <4>3. r \in Seq(Path)
        BY <2>1, TailIs
      <4> HIDE DEF names, r
      <4>4. \A k \in DOMAIN names : source[names[k]] # Absent
        BY <4>2 DEF ToSet, Present
      <4>5. \A k \in DOMAIN (names \o r) :
              \/ k \in DOMAIN names /\ (names \o r)[k] = names[k]
              \/ k - Len(names) \in DOMAIN r /\ (names \o r)[k] = r[k - Len(names)]
        BY <4>2, <4>3, JoinedIs
      <4>6. walk' = names \o r
        BY <3>3 DEF names, r
      <4>7. stable' /\ pc' = "walk" => \A k \in DOMAIN r : r[k] = <<>> \/ source[r[k]] # Absent
        BY <2>2, <2>4 DEF r
      <4> QED
        BY <4>4, <4>5, <4>6, <4>7
    <3> QED
      BY <2>3, <3>1, <3>2, <3>3
  <2> QED
    BY <2>1, <2>5 DEF WalkInv
<1>2. CASE Sender /\ ~SendDirectoryStructure
  <2>1. /\ UNCHANGED walk /\ pc \in {"walk", "loop", "closing"} /\ (pc = "walk" => walk = <<>>)
        /\ pc' # "walk"
    BY <1>2, SenderIs
  <2> QED
    BY <2>1 DEF WalkInv
<1>3. ASSUME NEW t \in Target, Serve(t)
      PROVE  WalkInv'
  <2>1. UNCHANGED <<walk, pc, stable, source>>
    BY <1>3, Alone DEF Only, Local, sourcevars
  <2> QED
    BY <2>1 DEF WalkInv
<1>4. ASSUME NEW t \in Target, Die(t)
      PROVE  WalkInv'
  BY <1>4 DEF Die, WalkInv, sourcevars
<1>5. ASSUME NEW t \in Target, NEW d \in BOOLEAN, AddTarget(t, d)
      PROVE  WalkInv'
  BY <1>5 DEF AddTarget, WalkInv, sourcevars
<1>6. CASE SendBegins
  BY <1>6 DEF SendBegins, WalkInv
<1>7. CASE StartOver
  BY <1>7 DEF StartOver, WalkInv
<1>8. ASSUME NEW p \in Path, NEW e \in Things(p, clock + 1), Change(p, e)
      PROVE  WalkInv'
  BY <1>8 DEF Change, WalkInv
<1> QED
  BY <1>1, <1>2, <1>3, <1>4, <1>5, <1>6, <1>7, <1>8 DEF Next

-----------------------------------------------------------------------------
(* Where the targets stand.                                                *)

\* What is left of the answer, when its end arrives, is its end.
LEMMA EndHead ==
  ASSUME TypeOK, AnswerInv, TaskInv, NEW t \in Target, LinksEnd(t)
  PROVE  /\ task[t] = "links" /\ Lives(t) /\ t \in channels /\ stack[t] = <<>>
         /\ task'[t] = "done" /\ wire'[t] = <<>> /\ UNCHANGED <<stack, modified, dest>>
         /\ Request(t, [type |-> "done"])
         /\ Answered(wire[t]) /\ pc \in {"loop", "closing", "failed"} /\ walk = <<>>
         /\ Made(t, Len(links))
<1>1. /\ task[t] = "links" /\ task'[t] = "done" /\ Receive(t, "end")
      /\ UNCHANGED <<stack, modified, dest>> /\ Request(t, [type |-> "done"])
  BY DEF LinksEnd, TypeOK
<1>2. Lives(t)
  BY <1>1 DEF Lives
<1>3. /\ wire[t] # <<>> /\ wire'[t] = Tail(wire[t]) /\ Head(wire[t]).type = "end"
      /\ wire[t] \in Seq(Message)
  BY <1>1 DEF Receive, TypeOK
<1>4. PICK k \in 0..Len(links) :
        /\ Len(wire[t]) = Len(links) + 1 - k /\ Made(t, k)
        /\ Head(wire[t]).type = "end" => k = Len(links)
  BY <1>2, <1>3, LinkHead
<1>5. Len(links) \in Nat
  BY DEF TypeOK
<1>6. k = Len(links) /\ Len(wire[t]) = 1
  BY <1>3, <1>4, <1>5
<1>7. wire'[t] = <<>>
  <2> DEFINE w == Tail(wire[t])
  <2>1. w \in Seq(Message) /\ Len(w) = 0
    BY <1>3, <1>6, TailIs
  <2> HIDE DEF w
  <2>2. w = <<>>
    BY <2>1
  <2> QED
    BY <1>3, <2>2 DEF w
<1>8. Answered(wire[t])
  <2>1. Head(wire[t]) = wire[t][1] /\ 1 \in DOMAIN wire[t]
    BY <1>3, TailIs
  <2> QED
    BY <1>3, <2>1 DEF Answered, IsLinkPart
<1>9. pc \in {"loop", "closing", "failed"} /\ walk = <<>>
  BY <1>2, <1>8 DEF AnswerInv, AnswerLeft
<1>10. t \in channels /\ stack[t] = <<>>
  BY <1>1, <1>2, InUse DEF TaskInv
<1> QED
  BY <1>1, <1>2, <1>4, <1>6, <1>7, <1>8, <1>9, <1>10

\* The steps of a target are in their order.
LEMMA TaskServed ==
  ASSUME TypeOK, WorkInv, WriteInv, PlaceInv, TaskInv, AnswerInv, NEW t \in Target, Serve(t)
  PROVE  TaskInv'
<1> DEFINE Here == /\ task'[t] # "tree" => stack'[t] = <<>>
                   /\ task'[t] = "none" => t \notin channels
                   /\ t \notin channels =>
                        task'[t] \in {"none", "done", "closed"} /\ wire'[t] = <<>>
                   /\ t \in channels /\ pc = "idle" =>
                        /\ task'[t] = "tree" /\ stack'[t] = <<Visit(<<>>)>>
                        /\ wire'[t] = <<>> /\ modified'[t] = <<>>
                   /\ task'[t] \in {"done", "closed"} =>
                        /\ wire'[t] = <<>>
                        /\ t \in channels => pc \in {"loop", "closing", "failed"}
<1>1. Only(t) /\ UNCHANGED <<channels, pc>> /\ (Lives(t)' => Lives(t))
  <2>1. Only(t)
    BY Alone
  <2>2. Lives(t)' => Lives(t)
    BY ServesAlive
  <2> QED
    BY <2>1, <2>2 DEF Only, Local
<1>2. ASSUME Lives(t)' => Here
      PROVE  TaskInv'
  <2>1. \A u \in Target \ {t} :
          /\ task'[u] = task[u] /\ wire'[u] = wire[u] /\ stack'[u] = stack[u]
          /\ modified'[u] = modified[u] /\ (Lives(u)' => Lives(u))
    BY <1>1 DEF Only, Lives
  <2> SUFFICES ASSUME NEW u \in Target, Lives(u)'
               PROVE  /\ task'[u] # "tree" => stack'[u] = <<>>
                      /\ task'[u] = "none" => u \notin channels'
                      /\ u \notin channels' =>
                           task'[u] \in {"none", "done", "closed"} /\ wire'[u] = <<>>
                      /\ u \in channels' /\ pc' = "idle" =>
                           /\ task'[u] = "tree" /\ stack'[u] = <<Visit(<<>>)>>
                           /\ wire'[u] = <<>> /\ modified'[u] = <<>>
                      /\ task'[u] \in {"done", "closed"} =>
                           /\ wire'[u] = <<>>
                           /\ u \in channels' => pc' \in {"loop", "closing", "failed"}
    BY DEF TaskInv
  <2>2. CASE u = t
    BY <1>1, <1>2, <2>2
  <2>3. CASE u # t
    BY <1>1, <2>1, <2>3 DEF TaskInv
  <2> QED
    BY <2>2, <2>3
<1>3. ASSUME task[t] = "tree", Lives(t), stack[t] # <<>>, Top(t).leave \/ wire[t] # <<>>
      PROVE  t \in channels /\ pc # "idle"
  <2>1. t \in channels
    BY <1>3, InUse
  <2>2. ASSUME pc = "idle" PROVE FALSE
    <3>1. stack[t] = <<Visit(<<>>)>> /\ wire[t] = <<>>
      BY <1>3, <2>1, <2>2 DEF TaskInv
    <3>2. ~Top(t).leave
      BY <3>1 DEF Top, Visit
    <3> QED
      BY <1>3, <3>1, <3>2
  <2> QED
    BY <2>1, <2>2
<1>4. CASE ReceiveDirectory(t)
  <2>1. /\ task[t] = "tree" /\ task'[t] = "tree" /\ Lives(t) /\ stack[t] # <<>> /\ wire[t] # <<>>
    BY <1>4, DirectoryMade
  <2> QED
    BY <1>2, <1>3, <2>1
<1>5. CASE LeaveDirectory(t)
  <2>1. /\ task[t] = "tree" /\ task'[t] = "tree" /\ Lives(t) /\ stack[t] # <<>> /\ Top(t).leave
    BY <1>5, DirectoryLeft
  <2> QED
    BY <1>2, <1>3, <2>1
<1>6. CASE ReceiveFile(t) \/ ReceiveLink(t)
  <2>1. /\ task[t] = "tree" /\ task'[t] = "tree" /\ stack[t] # <<>> /\ wire[t] # <<>>
    BY <1>6 DEF ReceiveFile, ReceiveLink, Descend, Receive
  <2>2. Lives(t)
    BY <2>1 DEF Lives
  <2> QED
    BY <1>2, <1>3, <2>1, <2>2
<1>7. ASSUME task[t] \in {"tree", "files", "write", "utime", "links"}, stack[t] = <<>>,
             task'[t] \in {"files", "write", "utime", "links"}, stack'[t] = stack[t]
      PROVE  TaskInv'
  <2>1. Lives(t) /\ t \in channels
    BY <1>7, InUse DEF Lives
  <2>2. pc # "idle"
    BY <1>7, <2>1 DEF TaskInv
  <2> QED
    BY <1>2, <1>7, <2>1, <2>2
<1>8. CASE TreeEnds(t)
  <2>1. task[t] = "tree" /\ stack[t] = <<>> /\ task'[t] = "files" /\ stack'[t] = stack[t]
    BY <1>8 DEF TreeEnds, TypeOK
  <2> QED
    BY <1>7, <2>1
<1>9. ASSUME task[t] \in {"files", "write", "utime", "links"}, stack'[t] = stack[t],
             task'[t] \in {"files", "write", "utime", "links", "failed"}
      PROVE  TaskInv'
  <2>1. Lives(t)
    BY <1>9 DEF Lives
  <2>2. stack[t] = <<>>
    BY <1>9, <2>1 DEF TaskInv
  <2>3. CASE task'[t] = "failed"
    BY <1>2, <2>3 DEF Lives
  <2> QED
    BY <1>7, <1>9, <2>2, <2>3
<1>10. CASE ReceiveData(t)
  <2>1. task[t] = "files" /\ task'[t] \in {"write", "utime"} /\ stack'[t] = stack[t]
    BY <1>10, FileOpened
  <2> QED
    BY <1>9, <2>1
<1>11. CASE Write(t) \/ Utime(t) \/ FilesEnd(t) \/ MakeLink(t)
  <2>1. /\ task[t] \in {"files", "write", "utime", "links"} /\ stack'[t] = stack[t]
        /\ task'[t] \in {"files", "write", "utime", "links", "failed"}
    BY <1>11 DEF Write, Utime, FilesEnd, MakeLink, TypeOK
  <2> QED
    BY <1>9, <2>1
<1>12. CASE LinksEnd(t)
  <2>1. /\ t \in channels /\ stack[t] = <<>> /\ stack' = stack
        /\ task'[t] = "done" /\ wire'[t] = <<>> /\ pc \in {"loop", "closing", "failed"}
    BY <1>12, EndHead
  <2> QED
    BY <1>2, <2>1
<1>13. CASE ChannelCloses(t)
  <2>1. /\ UNCHANGED <<wire, stack, modified>>
        /\ \/ task[t] = "done" /\ task'[t] = "closed"
           \/ task[t] = "failed" /\ task'[t] = "error"
    BY <1>13 DEF ChannelCloses, TypeOK
  <2>2. CASE task[t] = "failed"
    BY <1>2, <2>1, <2>2 DEF Lives
  <2>3. CASE task[t] = "done"
    <3>1. Lives(t)
      BY <2>3 DEF Lives
    <3>2. /\ stack[t] = <<>> /\ wire[t] = <<>>
          /\ t \in channels => pc \in {"loop", "closing", "failed"}
      BY <2>3, <3>1 DEF TaskInv
    <3> QED
      BY <1>2, <2>1, <2>3, <3>2
  <2> QED
    BY <2>1, <2>2, <2>3
<1> QED
  BY <1>4, <1>5, <1>6, <1>8, <1>10, <1>11, <1>12, <1>13 DEF Serve

\* Nothing is sent to a target that is not in use, or that has done all.
LEMMA TaskSent ==
  ASSUME TypeOK, HadInv, SourceInv, WalkInv, MatchInv, WorkInv, TaskInv, AnswerInv, DoneInv, Sender
  PROVE  TaskInv'
<1>1. /\ UNCHANGED <<task, stack, modified>> /\ channels' \subseteq channels
      /\ channels \subseteq Target
      /\ \A t \in Target : Lives(t)' = Lives(t)
  BY SenderIs DEF Lives, TypeOK
<1>2. CASE SendDirectoryStructure
  <2>1. /\ pc = "walk" /\ pc' \in {"walk", "failed"} /\ channels' = channels
        /\ \A t \in Target : t \notin channels => wire'[t] = wire[t]
    BY <1>2, PathSent
  <2>2. \A t \in Target : Lives(t) =>
          /\ task[t] \in {"done", "closed"} => t \notin channels
    BY <2>1 DEF TaskInv
  <2> QED
    BY <1>1, <2>1, <2>2 DEF TaskInv
<1>3. CASE ~SendDirectoryStructure
  <2>1. /\ channels' = channels \/ Done
        /\ pc \in {"walk", "loop", "closing"}
        /\ pc' \in {"loop", "closing", "failed"} \/ (pc' = "idle" /\ channels = {})
        /\ wire' = wire \/ SendItem \/ ProcessLink
    BY <1>3, SenderIs
  <2>2. queue # <<>> => From \in Target
    BY Got
  <2>3. ASSUME NEW t \in Target, Lives(t)
        PROVE  wire'[t] = wire[t] \/ (t \in channels /\ task[t] \notin {"none", "done", "closed"})
    <3>1. CASE wire' = wire
      BY <3>1
    <3>2. CASE SendItem
      <4>1. /\ queue # <<>> /\ Head(queue).wish.type = "send" /\ From \in Target
            /\ wire'[t] = wire[t] \/ t = From
        BY <3>2, ItemIs
      <4> QED
        BY <2>3, <4>1, AskerWaits
    <3>3. CASE ProcessLink
      <4>1. /\ queue # <<>> /\ Head(queue).wish.type = "links" /\ From \in Target
            /\ wire'[t] = wire[t] \/ t = From
        BY <3>3, LinksSent
      <4>2. queue \in Seq(Requests)
        BY DEF TypeOK
      <4>3. t = From => AsksLinks(queue[1], t) /\ 1 \in DOMAIN queue
        BY <4>1, <4>2, TailIs DEF AsksLinks, From
      <4>4. t = From => task[t] = "links"
        BY <2>3, <4>3 DEF AnswerInv, AskedOnce
      <4>5. t = From => t \in channels
        BY <2>3, <4>4, InUse
      <4> QED
        BY <4>1, <4>4, <4>5
    <3> QED
      BY <2>1, <3>1, <3>2, <3>3
  <2>4. ASSUME NEW t \in Target, Lives(t), t \notin channels'
        PROVE  task[t] \in {"none", "done", "closed"} /\ wire'[t] = <<>>
    <3>1. CASE t \notin channels
      <4>1. task[t] \in {"none", "done", "closed"} /\ wire[t] = <<>>
        BY <2>4, <3>1 DEF TaskInv
      <4> QED
        BY <2>3, <2>4, <3>1, <4>1
    <3>2. CASE t \in channels
      <4>1. Done
        BY <2>1, <2>4, <3>2
      <4>2. /\ queue # <<>> /\ Head(queue).wish.type = "done" /\ channels' = channels \ {From}
            /\ wire' = wire
        BY <4>1 DEF Done, Get
      <4>3. t = From
        BY <2>4, <3>2, <4>2
      <4>4. queue \in Seq(Requests)
        BY DEF TypeOK
      <4>5. IsDone(queue[1], t) /\ 1 \in DOMAIN queue
        BY <4>2, <4>3, <4>4, TailIs DEF IsDone, From
      <4>6. task[t] \in {"done", "closed"}
        BY <2>4, <4>5 DEF DoneInv, DoneOnce, Lives
      <4> QED
        BY <2>4, <4>2, <4>6 DEF TaskInv
    <3> QED
      BY <3>1, <3>2
  <2>5. ASSUME NEW t \in Target, Lives(t), task[t] \in {"done", "closed"}
        PROVE  wire'[t] = <<>> /\ (t \in channels' => pc' \in {"loop", "closing", "failed"})
    <3>1. wire[t] = <<>> /\ wire'[t] = wire[t]
      BY <2>3, <2>5 DEF TaskInv
    <3> QED
      BY <1>1, <2>1, <3>1
  <2>6. ASSUME NEW t \in Target, Lives(t)
        PROVE  /\ task[t] # "tree" => stack[t] = <<>>
               /\ task[t] = "none" => t \notin channels'
               /\ ~(t \in channels' /\ pc' = "idle")
    BY <1>1, <2>1, <2>6 DEF TaskInv
  <2> QED
    BY <1>1, <2>4, <2>5, <2>6 DEF TaskInv
<1> QED
  BY <1>2, <1>3

\* Targets are added, send() begins, the user starts anew, the source changes, targets die.
LEMMA TaskUsed ==
  ASSUME TypeOK, WorkInv, TaskInv,
         \/ \E t \in Target, d \in BOOLEAN : AddTarget(t, d)
         \/ SendBegins \/ StartOver
         \/ \E p \in Path : \E e \in Things(p, clock + 1) : Change(p, e)
         \/ \E t \in Target : Die(t)
  PROVE  TaskInv'
<1>1. ASSUME NEW t \in Target, NEW d \in BOOLEAN, AddTarget(t, d)
      PROVE  TaskInv'
  <2>1. /\ UNCHANGED <<wire, modified, pc>> /\ pc = "idle" /\ t \notin channels
        /\ channels' = channels \cup {t} /\ task[t] \in {"none", "closed"}
        /\ task'[t] = "tree" /\ stack'[t] = <<Visit(<<>>)>>
        /\ \A u \in Target : u # t => task'[u] = task[u] /\ stack'[u] = stack[u]
    BY <1>1 DEF AddTarget, TypeOK
  <2>2. wire[t] = <<>> /\ modified[t] = <<>>
    BY <2>1 DEF TaskInv, WorkInv, Lives
  <2> QED
    BY <2>1, <2>2 DEF TaskInv, Lives
<1>2. CASE SendBegins
  <2>1. UNCHANGED <<task, stack, wire, modified, channels>> /\ pc = "idle" /\ pc' = "walk"
    BY <1>2 DEF SendBegins, remote
  <2> QED
    BY <2>1 DEF TaskInv, Lives
<1>3. CASE StartOver
  <2>1. \A t \in Target : /\ task'[t] = "none" /\ wire'[t] = <<>> /\ stack'[t] = <<>>
                          /\ t \notin channels'
    BY <1>3 DEF StartOver
  <2> QED
    BY <2>1 DEF TaskInv
<1>4. ASSUME NEW p \in Path, NEW e \in Things(p, clock + 1), Change(p, e)
      PROVE  TaskInv'
  <2>1. UNCHANGED <<task, stack, wire, modified, channels, pc>>
    BY <1>4 DEF Change, remote
  <2> QED
    BY <2>1 DEF TaskInv, Lives
<1>5. ASSUME NEW t \in Target, Die(t)
      PROVE  TaskInv'
  <2>1. /\ UNCHANGED <<stack, wire, modified, channels, pc>> /\ task'[t] = "failed"
        /\ \A u \in Target : u # t => task'[u] = task[u]
    BY <1>5 DEF Die, TypeOK
  <2> QED
    BY <2>1 DEF TaskInv, Lives
<1> QED
  BY <1>1, <1>2, <1>3, <1>4, <1>5

-----------------------------------------------------------------------------
(* Links.                                                                  *)

\* Every link has been one in the source.
LEMMA LinksHadKept ==
  ASSUME TypeOK, HadInv, SourceInv, LinksHad, Next
  PROVE  LinksHad'
<1>1. \A p \in Path : had[p] \subseteq had'[p]
  BY HadKept
<1>2. links \in Seq([path : Path, to : Point])
  BY DEF TypeOK
<1>3. \A i \in DOMAIN links : links[i].path \in Path
  <2>1. \A i \in DOMAIN links : links[i] \in [path : Path, to : Point]
    <3> DEFINE S == [path : Path, to : Point]
    <3> HIDE DEF S
    <3>1. links \in Seq(S)
      BY <1>2 DEF S
    <3>2. \A i \in DOMAIN links : links[i] \in S
      BY <3>1
    <3> QED
      BY <3>2 DEF S
  <2> QED
    BY <2>1
<1>4. CASE links' = links
  BY <1>1, <1>3, <1>4 DEF LinksHad
<1>5. CASE StartOver
  BY <1>5 DEF StartOver, LinksHad
<1>6. CASE SendDirectoryStructure /\ links' # links
  <2> DEFINE p == Head(walk)
             l == [path |-> p, to |-> PointOf(source[p].to)]
  <2>1. SendLinkStructure(p) /\ walk # <<>>
    BY <1>6 DEF SendDirectoryStructure, SendDirectory, SendFile, SendRaises
  <2>2. p \in Path /\ source[p] \in had[p] /\ source[p] \in Entry
    <3>1. walk \in Seq(Path)
      BY DEF TypeOK
    <3>2. p \in Path
      BY <2>1, <3>1, TailIs
    <3> QED
      BY <3>2 DEF HadInv, TypeOK
  <2>3. source[p].type = "link" /\ links' = Append(links, l)
    BY <2>1 DEF SendLinkStructure
  <2>4. l \in [path : Path, to : Point]
    BY <2>2, <2>3, Entries, Points
  <2>5. l.path = p
    OBVIOUS
  <2> HIDE DEF l, p
  <2>6. /\ Append(links, l)[Len(links) + 1] = l
        /\ \A i \in DOMAIN links : Append(links, l)[i] = links[i]
        /\ \A i \in DOMAIN Append(links, l) : i = Len(links) + 1 \/ i \in DOMAIN links
    BY <1>2, <2>4, AppendIs
  <2>7. ASSUME NEW i \in DOMAIN links'
        PROVE  \E e \in had'[links'[i].path] : e.type = "link"
    <3>1. CASE i \in DOMAIN links
      BY <1>1, <1>3, <2>3, <2>6, <3>1 DEF LinksHad
    <3>2. CASE i = Len(links) + 1
      BY <1>1, <2>2, <2>3, <2>5, <2>6, <3>2
    <3> QED
      BY <2>3, <2>6, <2>7, <3>1, <3>2
  <2> QED
    BY <2>7 DEF LinksHad
<1>7. links' = links \/ StartOver \/ SendDirectoryStructure
  <2>1. CASE Sender
    <3>1. SendDirectoryStructure \/ UNCHANGED <<walk, links>>
      BY <2>1, SenderIs
    <3> QED
      BY <3>1
  <2>2. ASSUME NEW t \in Target, Serve(t) \/ Die(t)
        PROVE  links' = links
    <3>1. CASE Serve(t)
      BY <3>1, Alone DEF Only, Local
    <3> QED
      BY <2>2, <3>1 DEF Die
  <2> QED
    BY <2>1, <2>2 DEF Next, AddTarget, SendBegins, Change
<1> QED
  BY <1>4, <1>5, <1>6, <1>7

\* What is not visited any more and is a link has its entry.
LEMMA LinksDescribed ==
  ASSUME TypeOK, TypeOK', SourceInv, LinksInv, SendDirectoryStructure
  PROVE  LinksInv'
<1> DEFINE p == Head(walk)
           Entered(q) == \E i \in DOMAIN links :
                           /\ links[i].path = q /\ links[i].to = PointOf(source[q].to)
                           /\ \A j \in DOMAIN links : j > i => links[j].path # q
<1>1. /\ pc = "walk" /\ walk # <<>> /\ walk \in Seq(Path) /\ UNCHANGED <<source, stable>>
      /\ SendDirectory(p) \/ SendLinkStructure(p) \/ SendFile(p) \/ SendRaises(p)
  BY DEF SendDirectoryStructure, sourcevars, TypeOK
<1>2. /\ p \in Path /\ p = walk[1] /\ Tail(walk) \in Seq(Path)
      /\ \A k \in DOMAIN walk : k = 1 \/ k - 1 \in DOMAIN Tail(walk)
      /\ \A k \in DOMAIN Tail(walk) : Tail(walk)[k] = walk[k + 1]
      /\ \A k \in DOMAIN walk : k \in Nat
  <2>1. \A k \in DOMAIN walk : k \in Nat
    BY <1>1
  <2> QED
    BY <1>1, <2>1, TailIs
<1>3. ASSUME stable, NEW q \in Path, source[q].type = "link",
             \A k \in DOMAIN walk : ~IsPrefix(walk[k], q)
      PROVE  Entered(q)
  BY <1>1, <1>3 DEF LinksInv
<1>4. ASSUME NEW q \in Path, ~IsPrefix(p, q),
             \A k \in DOMAIN Tail(walk) : ~IsPrefix(Tail(walk)[k], q)
      PROVE  \A k \in DOMAIN walk : ~IsPrefix(walk[k], q)
  <2> SUFFICES ASSUME NEW k \in DOMAIN walk
               PROVE  ~IsPrefix(walk[k], q)
    OBVIOUS
  <2>1. CASE k = 1
    BY <1>2, <1>4, <2>1
  <2>2. CASE k # 1
    <3>1. k - 1 \in DOMAIN Tail(walk) /\ (k - 1) + 1 = k
      BY <1>2, <2>2
    <3> QED
      BY <1>2, <1>4, <3>1
  <2> QED
    BY <2>1, <2>2
<1>5. Grown(source)
  BY DEF SourceInv
<1> HIDE DEF p, Entered
<1>6. ASSUME source[p] # Dir, NEW q \in Path, source[q].type = "link"
      PROVE  ~IsStrictPrefix(p, q)
  <2>1. source[q] # Absent
    BY <1>6 DEF Absent
  <2> QED
    BY <1>2, <1>5, <1>6, <2>1, BelowIsAbsent
<1>7. CASE SendDirectory(p)
  <2> DEFINE names == SetToSeq(Present(source, p))
             r == Tail(walk)
  <2>1. source[p] = Dir /\ walk' = names \o r /\ links' = links
    BY <1>7 DEF SendDirectory, Present
  <2>2. Present(source, p) \in SUBSET Path
    BY DEF Present, Children, Below
  <2>3. names \in Seq(Path) /\ ToSet(names) = Present(source, p) /\ r \in Seq(Path)
    BY <1>2, <2>2, Listing
  <2> HIDE DEF names
  <2>4. /\ \A i \in DOMAIN names : i \in DOMAIN walk' /\ walk'[i] = names[i]
        /\ \A i \in DOMAIN r : Len(names) + i \in DOMAIN walk' /\ walk'[Len(names) + i] = r[i]
    BY <2>1, <2>3, JoinedIs
  <2>5. ASSUME stable, NEW q \in Path, source[q].type = "link",
               \A k \in DOMAIN walk' : ~IsPrefix(walk'[k], q)
        PROVE  Entered(q)
    <3>1. \A k \in DOMAIN r : ~IsPrefix(r[k], q)
      BY <2>4, <2>5
    <3>2. \A c \in Present(source, p) : ~IsPrefix(c, q)
      <4>1. \A i \in DOMAIN names : ~IsPrefix(names[i], q)
        BY <2>4, <2>5
      <4>2. \A c \in ToSet(names) : \E i \in DOMAIN names : c = names[i]
        BY DEF ToSet
      <4> QED
        BY <2>3, <4>1, <4>2
    <3>3. ~IsPrefix(p, q)
      <4>1. SUFFICES ASSUME IsPrefix(p, q) PROVE FALSE
        OBVIOUS
      <4>2. p # q
        BY <2>1, <2>5 DEF Dir
      <4>3. IsStrictPrefix(p, q)
        BY <4>1, <4>2 DEF IsStrictPrefix
      <4>4. PICK c \in Children(p) : IsPrefix(c, q)
        BY <1>2, <4>3, ChildToward
      <4>5. c \in Path
        BY DEF Children, Below
      <4>6. source[c] = Absent
        BY <3>2, <4>4 DEF Present
      <4>7. source[q] # Absent /\ c # q
        BY <2>5, <4>6 DEF Absent
      <4>8. IsStrictPrefix(c, q)
        BY <4>4, <4>7 DEF IsStrictPrefix
      <4>9. source[c] = Dir
        BY <1>5, <4>5, <4>7, <4>8, AboveIsDir
      <4> QED
        BY <4>6, <4>9 DEF Absent, Dir
    <3>4. \A k \in DOMAIN walk : ~IsPrefix(walk[k], q)
      BY <1>4, <3>1, <3>3
    <3> QED
      BY <1>3, <2>5, <3>4
  <2> QED
    BY <1>1, <2>1, <2>5 DEF LinksInv, Entered
<1>8. CASE SendLinkStructure(p)
  <2> DEFINE l == [path |-> p, to |-> PointOf(source[p].to)]
             n == Len(links)
  <2>1. source[p].type = "link" /\ walk' = Tail(walk) /\ links' = Append(links, l)
    BY <1>8 DEF SendLinkStructure
  <2>2. links \in Seq([path : Path, to : Point]) /\ l \in [path : Path, to : Point]
    <3>1. source[p] \in Entry
      BY <1>2 DEF TypeOK
    <3> QED
      BY <1>2, <2>1, <3>1, Entries, Points DEF TypeOK
  <2>3. l.path = p /\ l.to = PointOf(source[p].to)
    OBVIOUS
  <2> HIDE DEF l
  <2>4. /\ DOMAIN links = 1..n /\ n \in Nat /\ DOMAIN links' = 1..n + 1 /\ links'[n + 1] = l
        /\ \A i \in DOMAIN links : links'[i] = links[i] /\ i \in DOMAIN links'
        /\ \A i \in DOMAIN links' : i = n + 1 \/ i \in DOMAIN links
    BY <2>1, <2>2, AppendIs
  <2> HIDE DEF n
  <2>5. ASSUME stable, NEW q \in Path, source[q].type = "link",
               \A k \in DOMAIN walk' : ~IsPrefix(walk'[k], q)
        PROVE  \E i \in DOMAIN links' :
                 /\ links'[i].path = q /\ links'[i].to = PointOf(source[q].to)
                 /\ \A j \in DOMAIN links' : j > i => links'[j].path # q
    <3>1. CASE q = p
      <4>1. n + 1 \in DOMAIN links' /\ \A j \in DOMAIN links' : ~(j > n + 1)
        BY <2>4
      <4> QED
        BY <2>3, <2>4, <3>1, <4>1
    <3>2. CASE q # p
      <4>1. source[p] # Dir
        BY <2>1 DEF Dir
      <4>2. ~IsPrefix(p, q)
        BY <1>6, <2>5, <3>2, <4>1 DEF IsStrictPrefix
      <4>3. \A k \in DOMAIN walk : ~IsPrefix(walk[k], q)
        BY <1>4, <2>1, <2>5, <4>2
      <4>4. Entered(q)
        BY <1>3, <2>5, <4>3
      <4>5. PICK i \in DOMAIN links : /\ links[i].path = q /\ links[i].to = PointOf(source[q].to)
                                      /\ \A j \in DOMAIN links : j > i => links[j].path # q
        BY <4>4 DEF Entered
      <4>6. ASSUME NEW j \in DOMAIN links', j > i
            PROVE  links'[j].path # q
        BY <2>3, <2>4, <3>2, <4>5, <4>6
      <4> QED
        BY <2>4, <4>5, <4>6
    <3> QED
      BY <3>1, <3>2
  <2> QED
    BY <1>1, <2>5 DEF LinksInv
<1>9. CASE SendFile(p)
  <2>1. source[p].type \in {"file", "absent"} /\ walk' = Tail(walk) /\ links' = links
    BY <1>9 DEF SendFile
  <2>2. ASSUME stable, NEW q \in Path, source[q].type = "link",
               \A k \in DOMAIN walk' : ~IsPrefix(walk'[k], q)
        PROVE  Entered(q)
    <3>1. source[p] # Dir /\ p # q
      BY <2>1, <2>2 DEF Dir
    <3>2. ~IsPrefix(p, q)
      BY <1>6, <2>2, <3>1 DEF IsStrictPrefix
    <3>3. \A k \in DOMAIN walk : ~IsPrefix(walk[k], q)
      BY <1>4, <2>1, <2>2, <3>2
    <3> QED
      BY <1>3, <2>2, <3>3
  <2> QED
    BY <1>1, <2>1, <2>2 DEF LinksInv, Entered
<1>10. CASE SendRaises(p)
  <2>1. UNCHANGED <<walk, links>>
    BY <1>10 DEF SendRaises
  <2> QED
    BY <1>1, <2>1 DEF LinksInv
<1> QED
  BY <1>1, <1>7, <1>8, <1>9, <1>10 DEF p

LEMMA LinksKept ==
  ASSUME TypeOK, TypeOK', SourceInv, LinksInv, Next
  PROVE  LinksInv'
<1>1. CASE SendDirectoryStructure
  BY <1>1, LinksDescribed
<1>2. ASSUME UNCHANGED <<source, stable, walk, links>>, pc' # "idle" => pc # "idle"
      PROVE  LinksInv'
  BY <1>2 DEF LinksInv
<1>3. CASE Sender /\ ~SendDirectoryStructure
  <2>1. UNCHANGED <<source, stable>> /\ UNCHANGED <<walk, links>> /\ pc # "idle"
    <3>1. pc \in {"walk", "loop", "closing"} /\ UNCHANGED <<walk, links>>
      BY <1>3, SenderIs
    <3>2. UNCHANGED <<source, stable>>
      BY <1>3, SenderIs
    <3> QED
      BY <3>1, <3>2
  <2> QED
    BY <1>2, <2>1
<1>4. ASSUME NEW t \in Target, Serve(t) \/ Die(t)
      PROVE  LinksInv'
  <2>1. UNCHANGED <<source, stable, walk, links, pc>>
    <3>1. CASE Serve(t)
      BY <3>1, Alone DEF Only, Local, sourcevars
    <3> QED
      BY <1>4, <3>1 DEF Die, sourcevars
  <2> QED
    BY <1>2, <2>1
<1>5. ASSUME NEW t \in Target, NEW d \in BOOLEAN, AddTarget(t, d)
      PROVE  LinksInv'
  BY <1>5 DEF AddTarget, LinksInv
<1>6. CASE SendBegins
  <2>1. walk' = <<<<>>>> /\ 1 \in DOMAIN walk' /\ walk'[1] = <<>>
    BY <1>6 DEF SendBegins
  <2>2. \A q \in Path : IsPrefix(<<>>, q)
    BY PrefixOrder
  <2> QED
    BY <2>1, <2>2 DEF LinksInv
<1>7. CASE StartOver
  BY <1>7 DEF StartOver, LinksInv
<1>8. ASSUME NEW p \in Path, NEW e \in Things(p, clock + 1), Change(p, e)
      PROVE  LinksInv'
  BY <1>8 DEF Change, LinksInv
<1> QED
  BY <1>1, <1>3, <1>4, <1>5, <1>6, <1>7, <1>8 DEF Next

-----------------------------------------------------------------------------
(* The answer.                                                             *)

\* One request of a kind stays one, when others come and when the first is taken.
LEMMA OnceKept ==
  ASSUME NEW M, NEW q \in Seq(M), NEW R, \A i, j \in DOMAIN q : q[i] \in R /\ q[j] \in R => i = j,
         NEW p, p = q \/ (\E x \in M \ R : p = Append(q, x)) \/ (q # <<>> /\ p = Tail(q))
  PROVE  /\ \A i, j \in DOMAIN p : p[i] \in R /\ p[j] \in R => i = j
         /\ \A i \in DOMAIN p : p[i] \in R => \E j \in DOMAIN q : q[j] = p[i]
<1>1. CASE p = q
  BY <1>1
<1>2. ASSUME NEW x \in M \ R, p = Append(q, x)
      PROVE  /\ \A i, j \in DOMAIN p : p[i] \in R /\ p[j] \in R => i = j
             /\ \A i \in DOMAIN p : p[i] \in R => \E j \in DOMAIN q : q[j] = p[i]
  <2>1. /\ p[Len(q) + 1] = x
        /\ \A i \in DOMAIN q : p[i] = q[i]
        /\ \A i \in DOMAIN p : i = Len(q) + 1 \/ i \in DOMAIN q
    BY <1>2, AppendIs
  <2>2. \A i \in DOMAIN p : p[i] \in R => i \in DOMAIN q /\ q[i] = p[i]
    BY <1>2, <2>1
  <2> QED
    BY <2>2
<1>3. CASE q # <<>> /\ p = Tail(q)
  <2>1. /\ \A i \in DOMAIN p : p[i] = q[i + 1] /\ i + 1 \in DOMAIN q
        /\ \A i \in DOMAIN p : i \in Nat
    <3>1. Len(q) \in Nat
      OBVIOUS
    <3> QED
      BY <1>3, <3>1, TailIs
  <2>2. \A i, j \in DOMAIN p : i + 1 = j + 1 => i = j
    BY <2>1
  <2> QED
    BY <2>1, <2>2
<1> QED
  BY <1>1, <1>2, <1>3

\* Requests come, and the first is taken.
LEMMA RequestsKept ==
  ASSUME TypeOK, NEW t \in Target,
         \A i, j \in DOMAIN queue : AsksLinks(queue[i], t) /\ AsksLinks(queue[j], t) => i = j,
         \/ queue' = queue
         \/ \E r \in Requests : ~AsksLinks(r, t) /\ queue' = Append(queue, r)
         \/ queue # <<>> /\ queue' = Tail(queue)
  PROVE  /\ \A i, j \in DOMAIN queue' : AsksLinks(queue'[i], t) /\ AsksLinks(queue'[j], t) => i = j
         /\ \A i \in DOMAIN queue' : AsksLinks(queue'[i], t) =>
              \E j \in DOMAIN queue : AsksLinks(queue[j], t)
<1> DEFINE R == {r \in Requests : AsksLinks(r, t)}
<1>1. queue \in Seq(Requests)
  BY DEF TypeOK
<1>2. queue' \in Seq(Requests)
  BY <1>1
<1>3. /\ \A i \in DOMAIN queue : queue[i] \in R <=> AsksLinks(queue[i], t)
      /\ \A i \in DOMAIN queue' : queue'[i] \in R <=> AsksLinks(queue'[i], t)
      /\ \A r \in Requests : ~AsksLinks(r, t) => r \in Requests \ R
  BY <1>1, <1>2
<1> HIDE DEF R
<1>4. /\ \A i, j \in DOMAIN queue' : queue'[i] \in R /\ queue'[j] \in R => i = j
      /\ \A i \in DOMAIN queue' : queue'[i] \in R => \E j \in DOMAIN queue : queue[j] = queue'[i]
  BY <1>1, <1>3, OnceKept
<1> QED
  BY <1>3, <1>4

LEMMA DonesKept ==
  ASSUME TypeOK, NEW t \in Target,
         \A i, j \in DOMAIN queue : IsDone(queue[i], t) /\ IsDone(queue[j], t) => i = j,
         \/ queue' = queue
         \/ \E r \in Requests : ~IsDone(r, t) /\ queue' = Append(queue, r)
         \/ queue # <<>> /\ queue' = Tail(queue)
  PROVE  /\ \A i, j \in DOMAIN queue' : IsDone(queue'[i], t) /\ IsDone(queue'[j], t) => i = j
         /\ \A i \in DOMAIN queue' : IsDone(queue'[i], t) =>
              \E j \in DOMAIN queue : IsDone(queue[j], t)
<1> DEFINE R == {r \in Requests : IsDone(r, t)}
<1>1. queue \in Seq(Requests)
  BY DEF TypeOK
<1>2. queue' \in Seq(Requests)
  BY <1>1
<1>3. /\ \A i \in DOMAIN queue : queue[i] \in R <=> IsDone(queue[i], t)
      /\ \A i \in DOMAIN queue' : queue'[i] \in R <=> IsDone(queue'[i], t)
      /\ \A r \in Requests : ~IsDone(r, t) => r \in Requests \ R
  BY <1>1, <1>2
<1> HIDE DEF R
<1>4. /\ \A i, j \in DOMAIN queue' : queue'[i] \in R /\ queue'[j] \in R => i = j
      /\ \A i \in DOMAIN queue' : queue'[i] \in R => \E j \in DOMAIN queue : queue[j] = queue'[i]
  BY <1>1, <1>3, OnceKept
<1> QED
  BY <1>3, <1>4

\* What t puts in the queue.
LEMMA OwnQueue ==
  ASSUME TypeOK, NEW t \in Target, NEW wish \in Wish, Request(t, wish)
  PROVE  \E r \in Requests : r.target = t /\ r.wish = wish /\ queue' = Append(queue, r)
<1> DEFINE r == [target |-> t, serial |-> serial[t], wish |-> wish]
<1>1. r \in Requests /\ r.target = t /\ r.wish = wish
  BY DEF Requests, TypeOK
<1> QED
  BY <1>1 DEF Request

\* Nothing that belongs to the answer of t changes.
LEMMA AnswerStays ==
  ASSUME NEW t \in Target, AnswerLeft(t), wire'[t] = wire[t], task'[t] = task[t], links' = links,
         walk' = walk, dest'[t] = dest[t], stable' => stable /\ source' = source,
         pc \in {"loop", "closing", "failed"} => pc' \in {"loop", "closing", "failed"}
  PROVE  AnswerLeft(t)'
<1> SUFFICES ASSUME Answered(wire[t])
             PROVE  /\ task'[t] = "links" /\ pc' \in {"loop", "closing", "failed"} /\ walk' = <<>>
                    /\ \E k \in 0..Len(links') : Remains(wire[t], k)' /\ Made(t, k)'
  BY DEF AnswerLeft, Answered
<1>1. PICK k \in 0..Len(links) : Remains(wire[t], k) /\ Made(t, k)
  BY DEF AnswerLeft
<1>2. Remains(wire[t], k)'
  <2>1. Answer' = Answer
    BY DEF Answer, LinkMessages
  <2> QED
    BY <1>1, <2>1 DEF Remains
<1>3. Made(t, k)'
  <2> SUFFICES ASSUME stable', LinksCurrent'
               PROVE  \A q \in Path : source'[q].type = "link" =>
                        \/ dest'[t][q] = LinkTo(Joined(PointOf(source'[q].to)))
                        \/ \E j \in DOMAIN links' : j > k /\ links'[j].path = q
    BY DEF Made
  <2>1. LinksCurrent
    BY DEF LinksCurrent
  <2> QED
    BY <1>1, <2>1 DEF Made
<1>4. task[t] = "links" /\ pc \in {"loop", "closing", "failed"} /\ walk = <<>>
  BY DEF AnswerLeft
<1> QED
  BY <1>1, <1>2, <1>3, <1>4

\* Messages that are no answer make none.
LEMMA Unanswered ==
  ASSUME NEW w \in Seq(Message), ~Answered(w)
  PROVE  /\ ~Answered(Tail(w)) \/ w = <<>>
         /\ \A msg \in Message : ~IsLinkPart(msg) => ~Answered(Append(w, msg))
<1>1. ASSUME w # <<>> PROVE ~Answered(Tail(w))
  <2>1. \A i \in DOMAIN Tail(w) : Tail(w)[i] = w[i + 1] /\ i + 1 \in DOMAIN w
    BY <1>1, TailIs
  <2> QED
    BY <2>1 DEF Answered
<1>2. ASSUME NEW msg \in Message, ~IsLinkPart(msg) PROVE ~Answered(Append(w, msg))
  <2>1. /\ Append(w, msg)[Len(w) + 1] = msg
        /\ \A i \in DOMAIN w : Append(w, msg)[i] = w[i]
        /\ \A i \in DOMAIN Append(w, msg) : i = Len(w) + 1 \/ i \in DOMAIN w
    BY AppendIs
  <2> DEFINE x == Append(w, msg)
  <2> HIDE DEF x
  <2>2. \A i \in DOMAIN x : ~IsLinkPart(x[i])
    BY <1>2, <2>1 DEF Answered, x
  <2> QED
    BY <2>2 DEF Answered, x
<1> QED
  BY <1>1, <1>2

\* A link is made, and is one of those that have no entry behind it.
LEMMA AnswerTaken ==
  ASSUME TypeOK, SourceInv, DestInv, WorkInv, TaskInv, LinksInv, AnswerInv,
         NEW t \in Target, MakeLink(t), Lives(t)',
         UNCHANGED <<source, stable, links, walk, pc>>
  PROVE  AnswerLeft(t)'
<1> DEFINE link == Head(wire[t])
           p == link.path
           tree == dest[t]
           w == wire[t]
           n == Len(links)
<1>1. /\ Lives(t) /\ w # <<>> /\ link.type = "to" /\ p \in Path
      /\ wire'[t] = Tail(w) /\ task'[t] = "links" /\ task[t] = "links"
      /\ dest'[t] = With(tree, p, LinkTo(Joined(link.to)))
  BY LinkMade DEF Lives
<1>2. PICK k \in 0..n :
        /\ Len(w) = n + 1 - k /\ Remains(w, k) /\ Made(t, k)
        /\ k + 1 \in DOMAIN links /\ p = links[k + 1].path /\ link.to = links[k + 1].to
  BY <1>1, LinkHead
<1>3. pc \in {"loop", "closing", "failed"} /\ walk = <<>>
  <2>1. Head(w) = w[1] /\ 1 \in DOMAIN w
    <3>1. w \in Seq(Message)
      BY DEF TypeOK
    <3> QED
      BY <1>1, <3>1, TailIs
  <2>2. Answered(w)
    BY <1>1, <2>1 DEF Answered, IsLinkPart
  <2> QED
    BY <1>1, <2>2 DEF AnswerInv, AnswerLeft
<1>4. n \in Nat /\ DOMAIN links = 1..n /\ k + 1 \in 0..n /\ k \in Nat
  BY <1>2, SMTT(20) DEF TypeOK
<1>5. Remains(wire[t], k + 1)'
  <2> DEFINE a == Answer
             x == Tail(w)
             m == n + 1 - (k + 1)
  <2>1. \A i \in 1..n + 1 - k : w[Len(w) - (n + 1 - k) + i] = a[k + i]
    BY <1>2 DEF Remains
  <2>2. /\ w \in Seq(Message) /\ Len(x) = Len(w) - 1 /\ DOMAIN x = 1..Len(w) - 1
        /\ \A i \in DOMAIN x : x[i] = w[i + 1]
    <3>1. w \in Seq(Message)
      BY DEF TypeOK
    <3> QED
      BY <1>1, <3>1, TailIs
  <2>3. Answer' = a /\ links' = links /\ wire'[t] = x
    BY <1>1 DEF Answer, LinkMessages
  <2> HIDE DEF a, x, w, n
  <2>4. m \in Nat /\ Len(x) = m
    BY <1>2, <1>4, <2>2
  <2>5. ASSUME NEW i \in 1..m PROVE x[Len(x) - m + i] = a[(k + 1) + i]
    <3>1. i + 1 \in 1..n + 1 - k /\ i \in DOMAIN x /\ Len(x) - m + i = i
      BY <1>2, <1>4, <2>2, <2>4
    <3>2. Len(w) - (n + 1 - k) + (i + 1) = i + 1 /\ k + (i + 1) = (k + 1) + i
      BY <1>2, <1>4
    <3>3. w[i + 1] = a[(k + 1) + i]
      BY <2>1, <3>1, <3>2
    <3> QED
      BY <2>2, <3>1, <3>3
  <2>6. \A i \in 1..Len(x) - m : ~IsLinkPart(x[i])
    <3>1. Len(x) - m = 0
      BY <2>4
    <3> QED
      BY <3>1
  <2>7. Len(x) >= m
    BY <2>4
  <2> QED
    BY <2>3, <2>5, <2>6, <2>7 DEF Remains, n
<1>6. Made(t, k + 1)'
  <2> SUFFICES ASSUME stable, LinksCurrent, NEW q \in Path, source[q].type = "link"
               PROVE  \/ dest'[t][q] = LinkTo(Joined(PointOf(source[q].to)))
                      \/ \E j \in DOMAIN links : j > k + 1 /\ links[j].path = q
    <3>1. LinksCurrent' => LinksCurrent
      BY DEF LinksCurrent
    <3> QED
      BY <3>1 DEF Made
  <2>1. \/ dest[t][q] = LinkTo(Joined(PointOf(source[q].to)))
        \/ \E j \in DOMAIN links : j > k /\ links[j].path = q
    BY <1>2 DEF Made
  <2>2. CASE q = p
    <3>1. PICK i \in DOMAIN links :
            /\ links[i].path = q /\ links[i].to = PointOf(source[q].to)
            /\ \A j \in DOMAIN links : j > i => links[j].path # q
      <4>1. \A j \in DOMAIN walk : ~IsPrefix(walk[j], q)
        BY <1>3
      <4>2. pc # "idle"
        BY <1>3
      <4> QED
        BY <4>1, <4>2 DEF LinksInv
    <3>2. ~(k + 1 > i)
      BY <1>2, <2>2, <3>1
    <3>3. i = k + 1 \/ i > k + 1
      <4>1. i \in Nat
        BY <1>4
      <4> HIDE DEF n
      <4> QED
        BY <1>4, <3>2, <4>1
    <3>4. CASE i = k + 1
      <4>1. dest'[t][p] = LinkTo(Joined(link.to))
        BY <1>1 DEF With, Without
      <4> QED
        BY <1>2, <2>2, <3>1, <3>4, <4>1
    <3> QED
      BY <3>1, <3>3, <3>4
  <2>3. CASE q # p
    <3>1. source[p].type = "link"
      BY <1>2 DEF LinksCurrent
    <3>2. ~IsPrefix(p, q)
      <4>1. source[p] # Dir /\ source[q] # Absent /\ Grown(source)
        BY <3>1 DEF Dir, Absent, SourceInv
      <4>2. ~IsStrictPrefix(p, q)
        BY <1>1, <4>1, BelowIsAbsent
      <4> QED
        BY <2>3, <4>2 DEF IsStrictPrefix
    <3>3. dest'[t][q] = dest[t][q]
      BY <1>1, <3>2, Replaced
    <3>4. ASSUME NEW j \in DOMAIN links, j > k, links[j].path = q
          PROVE  j > k + 1
      <4>1. j # k + 1
        BY <1>2, <2>3, <3>4
      <4>2. j \in Nat
        BY <1>4
      <4> HIDE DEF n
      <4> QED
        BY <1>4, <3>4, <4>1, <4>2
    <3> QED
      BY <2>1, <3>3, <3>4
  <2> QED
    BY <2>2, <2>3
<1>7. k + 1 \in 0..Len(links')
  BY <1>4
<1> HIDE DEF link, p, tree, w, n
<1> QED
  BY <1>1, <1>3, <1>5, <1>6, <1>7 DEF AnswerLeft

\* A target asks for the links when it has its files, and gets them.
LEMMA AnswerServed ==
  ASSUME TypeOK, SourceInv, DestInv, WorkInv, WriteInv, PlaceInv, TaskInv, LinksInv, AnswerInv,
         NEW t \in Target, Serve(t)
  PROVE  AnswerInv'
<1>1. /\ Only(t) /\ UNCHANGED <<source, stable, links, walk, pc, channels>>
      /\ (Lives(t)' => Lives(t))
  <2>1. Only(t)
    BY Alone
  <2>2. Lives(t)' => Lives(t)
    BY ServesAlive
  <2> QED
    BY <2>1, <2>2 DEF Only, Local, sourcevars
<1>2. wire[t] \in Seq(Message) /\ queue \in Seq(Requests)
  BY DEF TypeOK
<1>3. ASSUME Lives(t) /\ Lives(t)' => AskedOnce(t)' /\ AnswerLeft(t)'
      PROVE  AnswerInv'
  <2> SUFFICES ASSUME NEW u \in Target, u # t, Lives(u)'
               PROVE  AskedOnce(u)' /\ AnswerLeft(u)'
    BY <1>1, <1>3 DEF AnswerInv
  <2>1. /\ task'[u] = task[u] /\ wire'[u] = wire[u] /\ dest'[u] = dest[u] /\ Lives(u)
        /\ AskedOnce(u) /\ AnswerLeft(u)
    BY <1>1 DEF Only, Lives, AnswerInv
  <2>2. AnswerLeft(u)'
    BY <1>1, <2>1, AnswerStays
  <2>3. queue' = queue \/ \E r \in Requests : ~AsksLinks(r, u) /\ queue' = Append(queue, r)
    <3>1. queue' = queue \/ \E r \in Requests : r.target = t /\ queue' = Append(queue, r)
      BY <1>1, OwnQueue DEF Only
    <3> QED
      BY <3>1 DEF AsksLinks
  <2>4. /\ \A i, j \in DOMAIN queue' : AsksLinks(queue'[i], u) /\ AsksLinks(queue'[j], u) => i = j
        /\ \A i \in DOMAIN queue' : AsksLinks(queue'[i], u) =>
             \E j \in DOMAIN queue : AsksLinks(queue[j], u)
    BY <2>1, <2>3, RequestsKept DEF AskedOnce
  <2>5. AskedOnce(u)'
    BY <2>1, <2>4 DEF AskedOnce
  <2> QED
    BY <2>2, <2>5
<1>4. ASSUME Lives(t), \A i \in DOMAIN queue : ~AsksLinks(queue[i], t),
             \/ queue' = queue
             \/ \E r \in Requests : ~AsksLinks(r, t) /\ queue' = Append(queue, r)
      PROVE  AskedOnce(t)'
  <2>1. \A i \in DOMAIN queue' : AsksLinks(queue'[i], t) =>
          \E j \in DOMAIN queue : AsksLinks(queue[j], t)
    BY <1>4, RequestsKept
  <2> QED
    BY <1>4, <2>1 DEF AskedOnce
<1>5. ASSUME Lives(t), task[t] # "links"
      PROVE  ~Answered(wire[t]) /\ \A i \in DOMAIN queue : ~AsksLinks(queue[i], t)
  BY <1>5 DEF AnswerInv, AskedOnce, AnswerLeft
<1>6. ASSUME Lives(t), task[t] # "links",
             wire'[t] = wire[t] \/ (wire[t] # <<>> /\ wire'[t] = Tail(wire[t])),
             \/ queue' = queue
             \/ \E wish \in Wish : wish.type # "links" /\ Request(t, wish)
      PROVE  AnswerInv'
  <2>1. ~Answered(wire'[t])
    BY <1>2, <1>5, <1>6, Unanswered
  <2>2. AnswerLeft(t)'
    BY <2>1 DEF AnswerLeft, Answered
  <2>3. \/ queue' = queue
        \/ \E r \in Requests : ~AsksLinks(r, t) /\ queue' = Append(queue, r)
    <3>1. CASE queue' = queue
      BY <3>1
    <3>2. ASSUME NEW wish \in Wish, wish.type # "links", Request(t, wish)
          PROVE  \E r \in Requests : ~AsksLinks(r, t) /\ queue' = Append(queue, r)
      BY <3>2, OwnQueue DEF AsksLinks
    <3> QED
      BY <1>6, <3>1, <3>2
  <2>4. AskedOnce(t)'
    BY <1>4, <1>5, <1>6, <2>3
  <2> QED
    BY <1>3, <2>2, <2>4
<1>7. \A type \in {"list_done", "ack", "links", "done", "end"} :
        [type |-> type] \in Wish /\ [type |-> type].type = type
  BY DEF Wish
<1>8. CASE ReceiveDirectory(t)
  <2>1. /\ task[t] = "tree" /\ Lives(t) /\ queue' = queue
        /\ wire[t] # <<>> /\ wire'[t] = Tail(wire[t])
    BY <1>8, DirectoryMade
  <2> QED
    BY <1>6, <2>1
<1>9. CASE LeaveDirectory(t)
  <2>1. task[t] = "tree" /\ Lives(t) /\ queue' = queue /\ wire' = wire
    BY <1>9, DirectoryLeft
  <2> QED
    BY <1>6, <2>1
<1>10. CASE ReceiveFile(t)
  <2> DEFINE wish == [type |-> "send", path |-> Top(t).path,
                      checksum |-> IF SameSize(dest[t][Top(t).path], Head(wire[t]))
                                   THEN dest[t][Top(t).path].data ELSE None]
  <2>1. /\ task[t] = "tree" /\ Lives(t) /\ wire[t] # <<>> /\ wire'[t] = Tail(wire[t])
        /\ wish \in Wish /\ (queue' = queue \/ Request(t, wish))
    BY <1>10, FileReceived
  <2>2. wish.type # "links"
    OBVIOUS
  <2> HIDE DEF wish
  <2> QED
    BY <1>6, <2>1, <2>2
<1>11. CASE ReceiveLink(t)
  <2>1. /\ task[t] = "tree" /\ queue' = queue /\ wire[t] # <<>> /\ wire'[t] = Tail(wire[t])
    BY <1>11 DEF ReceiveLink, Descend, Receive, TypeOK
  <2> QED
    BY <1>6, <2>1 DEF Lives
<1>12. CASE TreeEnds(t)
  <2>1. task[t] = "tree" /\ wire' = wire /\ Request(t, [type |-> "list_done"])
    BY <1>12 DEF TreeEnds
  <2> QED
    BY <1>6, <1>7, <2>1 DEF Lives
<1>13. CASE ReceiveData(t)
  <2>1. /\ task[t] = "files" /\ Lives(t) /\ wire[t] # <<>> /\ wire'[t] = Tail(wire[t])
        /\ Request(t, [type |-> "ack"])
    BY <1>13, FileOpened
  <2> QED
    BY <1>6, <1>7, <2>1
<1>14. CASE Write(t) \/ Utime(t)
  <2>1. task[t] \in {"write", "utime"} /\ UNCHANGED <<queue, wire>>
    BY <1>14 DEF Write, Utime
  <2> QED
    BY <1>6, <2>1 DEF Lives
<1>15. CASE FilesEnd(t)
  <2>1. /\ task[t] = "files" /\ task'[t] = "links" /\ wire'[t] = wire[t]
        /\ Request(t, [type |-> "links"])
    BY <1>15 DEF FilesEnd, TypeOK
  <2>2. Lives(t)
    BY <2>1 DEF Lives
  <2>3. ~Answered(wire'[t]) /\ \A i \in DOMAIN queue : ~AsksLinks(queue[i], t)
    BY <1>5, <2>1, <2>2
  <2>4. AnswerLeft(t)'
    BY <2>3 DEF AnswerLeft, Answered
  <2>5. PICK r \in Requests : queue' = Append(queue, r)
    BY <1>7, <2>1, OwnQueue
  <2>6. \A i \in DOMAIN queue' : AsksLinks(queue'[i], t) => i = Len(queue) + 1
    BY <1>2, <2>3, <2>5, AppendIs
  <2>7. AskedOnce(t)'
    BY <2>1, <2>3, <2>6 DEF AskedOnce, Answered
  <2> QED
    BY <1>3, <2>4, <2>7
<1>16. ASSUME Lives(t), wire[t] # <<>>, IsLinkPart(Head(wire[t]))
       PROVE  \A i \in DOMAIN queue : ~AsksLinks(queue[i], t)
  <2>1. Head(wire[t]) = wire[t][1] /\ 1 \in DOMAIN wire[t]
    BY <1>2, <1>16, TailIs
  <2>2. Answered(wire[t])
    BY <1>16, <2>1 DEF Answered
  <2> QED
    BY <1>16, <2>2 DEF AnswerInv, AskedOnce
<1>17. CASE MakeLink(t)
  <2>1. /\ Lives(t) /\ wire[t] # <<>> /\ IsLinkPart(Head(wire[t])) /\ queue' = queue
    BY <1>17, LinkMade DEF IsLinkPart
  <2>2. AskedOnce(t)'
    BY <1>4, <1>16, <2>1
  <2>3. Lives(t)' => AnswerLeft(t)'
    BY <1>1, <1>17, AnswerTaken
  <2> QED
    BY <1>3, <2>2, <2>3
<1>18. CASE LinksEnd(t)
  <2>1. /\ Lives(t) /\ wire'[t] = <<>> /\ Request(t, [type |-> "done"]) /\ Answered(wire[t])
    BY <1>18, EndHead
  <2>2. \A i \in DOMAIN queue : ~AsksLinks(queue[i], t)
    BY <2>1 DEF AnswerInv, AskedOnce
  <2>3. \E r \in Requests : ~AsksLinks(r, t) /\ queue' = Append(queue, r)
    BY <1>7, <2>1, OwnQueue DEF AsksLinks
  <2>4. AskedOnce(t)'
    BY <1>4, <2>1, <2>2, <2>3
  <2>5. AnswerLeft(t)'
    BY <2>1 DEF AnswerLeft, Answered
  <2> QED
    BY <1>3, <2>4, <2>5
<1>19. CASE ChannelCloses(t)
  <2>1. /\ task[t] \in {"done", "failed"} /\ wire' = wire /\ Request(t, [type |-> "end"])
    BY <1>19 DEF ChannelCloses
  <2>2. CASE Lives(t)
    BY <1>6, <1>7, <2>1, <2>2
  <2>3. CASE ~Lives(t)
    BY <1>3, <2>3
  <2> QED
    BY <2>2, <2>3
<1> QED
  BY <1>8, <1>9, <1>10, <1>11, <1>12, <1>13, <1>14, <1>15, <1>17, <1>18, <1>19 DEF Serve

\* All links are sent, when the target asks for them.
LEMMA AnswerSent ==
  ASSUME TypeOK, HadInv, SourceInv, WalkInv, MatchInv, WorkInv, TaskInv, LinksInv, AnswerInv, Sender
  PROVE  AnswerInv'
<1>1. /\ UNCHANGED <<source, stable, task, dest>> /\ \A t \in Target : Lives(t)' = Lives(t)
      /\ queue \in Seq(Requests) /\ \A t \in Target : wire[t] \in Seq(Message)
  BY SenderIs DEF Lives, TypeOK
<1>2. ASSUME NEW t \in Target, Lives(t) PROVE AskedOnce(t) /\ AnswerLeft(t)
  BY <1>2 DEF AnswerInv
<1>3. ASSUME NEW t \in Target, Lives(t), ~Answered(wire[t]), NEW msg \in Message, ~IsLinkPart(msg),
             wire'[t] = wire[t] \/ wire'[t] = Append(wire[t], msg)
      PROVE  ~Answered(wire'[t]) /\ AnswerLeft(t)'
  <2>1. ~Answered(wire'[t])
    BY <1>1, <1>3, Unanswered
  <2> QED
    BY <2>1 DEF AnswerLeft, Answered
<1>4. ASSUME NEW t \in Target, Lives(t),
             queue' = queue \/ (queue # <<>> /\ queue' = Tail(queue)),
             ~Answered(wire[t]) => ~Answered(wire'[t])
      PROVE  AskedOnce(t)'
  <2>1. /\ \A i, j \in DOMAIN queue' : AsksLinks(queue'[i], t) /\ AsksLinks(queue'[j], t) => i = j
        /\ \A i \in DOMAIN queue' : AsksLinks(queue'[i], t) =>
             \E j \in DOMAIN queue : AsksLinks(queue[j], t)
    BY <1>2, <1>4, RequestsKept DEF AskedOnce
  <2>2. (\E j \in DOMAIN queue : AsksLinks(queue[j], t)) =>
          task[t] = "links" /\ ~Answered(wire[t])
    BY <1>2, <1>4 DEF AskedOnce
  <2>3. \A i \in DOMAIN queue' : AsksLinks(queue'[i], t) =>
          task'[t] = "links" /\ ~Answered(wire'[t])
    BY <1>1, <1>4, <2>1, <2>2
  <2> QED
    BY <2>1, <2>3 DEF AskedOnce, Answered
<1>5. CASE SendDirectoryStructure
  <2>1. pc = "walk" /\ queue' = queue
    BY <1>5, PathSent
  <2>2. wire' = wire \/ \E msg \in Message : /\ IsTreePart(msg)
          /\ \A t \in Target : wire'[t] = wire[t] \/ wire'[t] = Append(wire[t], msg)
    BY <1>5, PathSent
  <2>3. ASSUME NEW t \in Target, Lives(t) PROVE AskedOnce(t)' /\ AnswerLeft(t)'
    <3>1. ~Answered(wire[t])
      BY <1>2, <2>1, <2>3 DEF AnswerLeft
    <3>2. ~Answered(wire'[t]) /\ AnswerLeft(t)'
      <4>1. CASE wire' = wire
        BY <3>1, <4>1 DEF AnswerLeft, Answered
      <4>2. ASSUME NEW msg \in Message, IsTreePart(msg),
                   \A u \in Target : wire'[u] = wire[u] \/ wire'[u] = Append(wire[u], msg)
            PROVE  ~Answered(wire'[t]) /\ AnswerLeft(t)'
        <5>1. ~IsLinkPart(msg)
          BY <4>2 DEF IsTreePart, IsLinkPart
        <5> QED
          BY <1>3, <2>3, <3>1, <4>2, <5>1
      <4> QED
        BY <2>2, <4>1, <4>2
    <3> QED
      BY <1>4, <2>1, <2>3, <3>2
  <2> QED
    BY <1>1, <2>3 DEF AnswerInv
<1>6. CASE ~SendDirectoryStructure
  <2>1. /\ UNCHANGED <<walk, links>>
        /\ pc \in {"walk", "loop", "closing"}
        /\ pc' \in {"loop", "closing", "failed"} \/ (pc' = "idle" /\ channels = {})
        /\ queue' = queue \/ (queue # <<>> /\ queue' = Tail(queue))
        /\ wire' = wire \/ SendItem \/ ProcessLink
    BY <1>6, SenderIs
  <2>2. ASSUME NEW t \in Target, Lives(t), wire'[t] = wire[t]
        PROVE  AskedOnce(t)' /\ AnswerLeft(t)'
    <3>1. AskedOnce(t)'
      BY <1>4, <2>1, <2>2
    <3>2. CASE Answered(wire[t])
      <4>1. task[t] = "links"
        BY <1>2, <2>2, <3>2 DEF AnswerLeft
      <4>2. t \in channels
        BY <2>2, <4>1, InUse
      <4>3. pc' \in {"loop", "closing", "failed"}
        BY <2>1, <4>2
      <4> QED
        BY <1>1, <1>2, <2>1, <2>2, <3>1, <4>3, AnswerStays
    <3>3. CASE ~Answered(wire[t])
      BY <2>2, <3>1, <3>3 DEF AnswerLeft, Answered
    <3> QED
      BY <3>2, <3>3
  <2>3. CASE wire' = wire
    BY <1>1, <2>2, <2>3 DEF AnswerInv
  <2>4. CASE SendItem
    <3>1. PICK msg \in Message :
            /\ IsData(msg)
            /\ \A t \in Target : wire'[t] = wire[t] \/ (t = From /\ wire'[t] = Append(wire[t], msg))
      BY <2>4, ItemIs
    <3>2. queue # <<>> /\ Head(queue).wish.type = "send"
      BY <2>4, ItemIs
    <3>3. ASSUME NEW t \in Target, Lives(t), t = From, wire'[t] = Append(wire[t], msg)
          PROVE  AskedOnce(t)' /\ AnswerLeft(t)'
      <4>1. task[t] # "links"
        BY <3>2, <3>3, AskerWaits
      <4>2. ~Answered(wire[t])
        BY <1>2, <3>3, <4>1 DEF AnswerLeft
      <4>3. ~Answered(wire'[t]) /\ AnswerLeft(t)'
        BY <1>3, <3>1, <3>3, <4>2 DEF IsData, IsLinkPart
      <4> QED
        BY <1>4, <2>1, <3>3, <4>3
    <3>4. \A t \in Target : Lives(t) => AskedOnce(t)' /\ AnswerLeft(t)'
      BY <2>2, <3>1, <3>3
    <3> QED
      BY <1>1, <3>4 DEF AnswerInv
  <2>5. CASE ProcessLink
    <3>1. /\ pc = "loop" /\ queue # <<>> /\ Head(queue).wish.type = "links"
          /\ queue' = Tail(queue) /\ Answer \in Seq(Message)
          /\ \A t \in Target : wire'[t] = wire[t] \/ (t = From /\ wire'[t] = wire[t] \o Answer)
      BY <2>5, LinksSent
    <3>2. pc' \in {"loop", "closing", "failed"} /\ walk = <<>>
      <4>1. pc' \in {"loop", "failed"}
        BY <2>5 DEF ProcessLink, SendAll
      <4> QED
        BY <3>1, <4>1 DEF WalkInv
    <3>3. ASSUME NEW t \in Target, Lives(t), t = From, wire'[t] = wire[t] \o Answer
          PROVE  AskedOnce(t)' /\ AnswerLeft(t)'
      <4>1. 1 \in DOMAIN queue /\ AsksLinks(queue[1], t)
        BY <1>1, <3>1, <3>3, TailIs DEF AsksLinks, From
      <4>2. task[t] = "links" /\ ~Answered(wire[t])
        BY <1>2, <3>3, <4>1 DEF AskedOnce
      <4>3. \A i \in DOMAIN Tail(queue) : ~AsksLinks(Tail(queue)[i], t)
        <5> SUFFICES ASSUME NEW i \in DOMAIN Tail(queue), AsksLinks(Tail(queue)[i], t)
                     PROVE  FALSE
          OBVIOUS
        <5>1. Tail(queue)[i] = queue[i + 1] /\ i + 1 \in DOMAIN queue /\ i \in Nat \ {0}
          BY <1>1, <3>1, TailIs
        <5>2. i + 1 = 1
          BY <1>2, <3>3, <4>1, <5>1 DEF AskedOnce
        <5> QED
          BY <5>1, <5>2
      <4>4. AskedOnce(t)'
        BY <3>1, <4>3 DEF AskedOnce
      <4>5. Remains(wire[t], 0)'
        <5> DEFINE a == Answer
                   w == wire[t]
                   x == w \o a
                   n == Len(links) + 1
        <5>1. Answer' = a /\ wire'[t] = x /\ links' = links
          BY <2>1, <3>3 DEF Answer, LinkMessages
        <5>2. a \in Seq(Message) /\ Len(a) = n /\ Len(links) \in Nat /\ w \in Seq(Message)
          BY <1>1, <3>1, AnswerIs
        <5> HIDE DEF a, w
        <5>3. /\ Len(x) = Len(w) + n /\ Len(w) \in Nat /\ n \in Nat
              /\ \A i \in 1..Len(w) : x[i] = w[i]
              /\ \A i \in 1..n : x[Len(w) + i] = a[i]
          <6>1. /\ DOMAIN a = 1..Len(a) /\ DOMAIN w = 1..Len(w) /\ Len(w) \in Nat
                /\ Len(x) = Len(w) + Len(a)
                /\ \A i \in DOMAIN w : x[i] = w[i]
                /\ \A i \in DOMAIN a : x[Len(w) + i] = a[i]
            <7>1. a \in Seq(Message) /\ w \in Seq(Message)
              BY <5>2
            <7> QED
              BY <7>1, JoinedIs
          <6>2. n \in Nat
            BY <5>2
          <6> HIDE DEF x, n
          <6> QED
            BY <5>2, <6>1, <6>2
        <5>4. \A i \in 1..Len(w) : ~IsLinkPart(w[i])
          BY <4>2, <5>2 DEF Answered, w
        <5> HIDE DEF x, n
        <5>5. Len(x) >= n - 0 /\ Len(x) - (n - 0) = Len(w)
          BY <5>3
        <5>6. \A i \in 1..Len(x) - (n - 0) : ~IsLinkPart(x[i])
          BY <5>3, <5>4, <5>5
        <5>7. \A i \in 1..n - 0 : x[Len(x) - (n - 0) + i] = a[0 + i]
          <6>1. \A i \in 1..n - 0 : i \in 1..n /\ 0 + i = i
            BY <5>3
          <6> QED
            BY <5>3, <5>5, <6>1
        <5> QED
          BY <5>1, <5>5, <5>6, <5>7 DEF Remains, n
      <4>6. Made(t, 0)'
        <5> SUFFICES ASSUME stable, NEW q \in Path, source[q].type = "link"
                     PROVE  \E j \in DOMAIN links : j > 0 /\ links[j].path = q
          BY <1>1, <2>1 DEF Made
        <5>1. \E i \in DOMAIN links : links[i].path = q
          BY <3>1, <3>2 DEF LinksInv
        <5>2. \A i \in DOMAIN links : i > 0
          BY DEF TypeOK
        <5> QED
          BY <5>1, <5>2
      <4>7. 0 \in 0..Len(links')
        BY <2>1 DEF TypeOK
      <4>8. AnswerLeft(t)'
        BY <1>1, <2>1, <3>2, <4>2, <4>5, <4>6, <4>7 DEF AnswerLeft
      <4> QED
        BY <4>4, <4>8
    <3>4. \A t \in Target : Lives(t) => AskedOnce(t)' /\ AnswerLeft(t)'
      BY <2>2, <3>1, <3>3
    <3> QED
      BY <1>1, <3>4 DEF AnswerInv
  <2> QED
    BY <2>1, <2>3, <2>4, <2>5
<1> QED
  BY <1>5, <1>6

\* No target that is added, no send() that begins, no change and no death touches the answers.
LEMMA AnswerUsed ==
  ASSUME TypeOK, TaskInv, AnswerInv,
         \/ \E t \in Target, d \in BOOLEAN : AddTarget(t, d)
         \/ SendBegins \/ StartOver
         \/ \E p \in Path : \E e \in Things(p, clock + 1) : Change(p, e)
         \/ \E t \in Target : Die(t)
  PROVE  AnswerInv'
<1>1. ASSUME NEW t \in Target, NEW d \in BOOLEAN, AddTarget(t, d)
      PROVE  AnswerInv'
  <2>1. /\ UNCHANGED <<source, stable, links, walk, pc, wire, queue, dest>>
        /\ t \notin channels /\ task[t] \in {"none", "closed"}
        /\ \A u \in Target : u # t => task'[u] = task[u]
    BY <1>1 DEF AddTarget, sourcevars, TypeOK
  <2>2. ASSUME NEW u \in Target, u # t, Lives(u)'
        PROVE  AskedOnce(u)' /\ AnswerLeft(u)'
    <3>1. Lives(u) /\ AskedOnce(u) /\ AnswerLeft(u)
      BY <2>1, <2>2 DEF Lives, AnswerInv
    <3>2. AnswerLeft(u)'
      BY <2>1, <2>2, <3>1, AnswerStays
    <3> QED
      BY <2>1, <2>2, <3>1, <3>2 DEF AskedOnce, Answered
  <2>3. AskedOnce(t)' /\ AnswerLeft(t)'
    <3>1. Lives(t) /\ AskedOnce(t) /\ AnswerLeft(t)
      BY <2>1 DEF Lives, AnswerInv
    <3>2. ~Answered(wire[t]) /\ \A i \in DOMAIN queue : ~AsksLinks(queue[i], t)
      BY <2>1, <3>1 DEF AskedOnce, AnswerLeft
    <3> QED
      BY <2>1, <3>2 DEF AskedOnce, AnswerLeft, Answered
  <2> QED
    BY <2>2, <2>3 DEF AnswerInv
<1>2. CASE SendBegins
  <2>1. UNCHANGED <<task, wire, queue>> /\ pc = "idle"
    BY <1>2 DEF SendBegins, remote
  <2> QED
    BY <2>1 DEF AnswerInv, AskedOnce, AnswerLeft, Answered, Lives
<1>3. CASE StartOver
  <2>1. queue' = <<>> /\ \A t \in Target : wire'[t] = <<>>
    BY <1>3 DEF StartOver
  <2> QED
    BY <2>1 DEF AnswerInv, AskedOnce, AnswerLeft, Answered
<1>4. ASSUME NEW p \in Path, NEW e \in Things(p, clock + 1), Change(p, e)
      PROVE  AnswerInv'
  <2>1. UNCHANGED <<task, wire, queue, links, walk, pc, dest>> /\ stable' = FALSE
    BY <1>4 DEF Change, remote
  <2>2. ASSUME NEW u \in Target, Lives(u)'
        PROVE  AskedOnce(u)' /\ AnswerLeft(u)'
    <3>1. Lives(u) /\ AskedOnce(u) /\ AnswerLeft(u)
      BY <2>1, <2>2 DEF Lives, AnswerInv
    <3>2. AnswerLeft(u)'
      BY <2>1, <3>1, AnswerStays
    <3> QED
      BY <2>1, <3>1, <3>2 DEF AskedOnce, Answered
  <2> QED
    BY <2>2 DEF AnswerInv
<1>5. ASSUME NEW t \in Target, Die(t)
      PROVE  AnswerInv'
  <2>1. /\ UNCHANGED <<source, stable, links, walk, pc, wire, queue, dest>> /\ task'[t] = "failed"
        /\ \A u \in Target : u # t => task'[u] = task[u]
    BY <1>5 DEF Die, sourcevars, TypeOK
  <2>2. ASSUME NEW u \in Target, Lives(u)'
        PROVE  AskedOnce(u)' /\ AnswerLeft(u)'
    <3>1. u # t /\ Lives(u)
      BY <2>1, <2>2 DEF Lives
    <3>2. AskedOnce(u) /\ AnswerLeft(u) /\ task'[u] = task[u]
      BY <2>1, <3>1 DEF AnswerInv
    <3>3. AnswerLeft(u)'
      BY <2>1, <3>2, AnswerStays
    <3> QED
      BY <2>1, <3>2, <3>3 DEF AskedOnce, Answered
  <2> QED
    BY <2>2 DEF AnswerInv
<1> QED
  BY <1>1, <1>2, <1>3, <1>4, <1>5

-----------------------------------------------------------------------------
(* The end.                                                                *)

\* A link of the source, as the target makes it.
LEMMA LinkSent ==
  ASSUME NEW l \in Text
  PROVE  SameLink(l, LinkTo(Joined(PointOf(l))))
<1> DEFINE pt == PointOf(l)
<1>1. LinkTo(Joined(pt)).type = "link" /\ LinkTo(Joined(pt)).to = Joined(pt)
  BY DEF LinkTo
<1>2. l = [base |-> l.base, at |-> l.at]
      /\ l.base \in {"source", "target", "relative", "elsewhere"} /\ l.at \in Seq(Name)
  BY DEF Text
<1>3. CASE l.base = "source" /\ l.at # <<>>
  <2>1. Relpath(l) = {l.at}
    BY <1>2, <1>3 DEF Relpath
  <2>2. pt = [type |-> "linkbase", text |-> [base |-> "relative", at |-> l.at]]
    BY <2>1 DEF PointOf
  <2>3. Joined(pt) = [base |-> "target", at |-> l.at]
    BY <2>2 DEF Joined
  <2> QED
    BY <1>1, <1>2, <1>3, <2>3 DEF SameLink
<1>4. CASE \/ l.base = "source" /\ l.at = <<>>
           \/ l.base \in {"target", "elsewhere"}
           \/ l.base = "relative" /\ Cwd = {}
  <2>1. Relpath(l) = {}
    BY <1>2, <1>4 DEF Relpath
  <2>2. pt = [type |-> "link", text |-> l]
    BY <2>1 DEF PointOf
  <2>3. Joined(pt) = l
    BY <2>2 DEF Joined
  <2> QED
    BY <1>1, <1>4, <2>3 DEF SameLink
<1>5. CASE l.base = "relative" /\ Cwd # {}
  BY <1>1, <1>5 DEF SameLink
<1> QED
  BY <1>2, <1>3, <1>4, <1>5

\* More files that could not be read change nothing.
LEMMA SyncedKept ==
  ASSUME NEW t \in Target, Synced(t), source' = source, dest'[t] = dest[t],
         delete'[t] = delete[t], unread \subseteq unread'
  PROVE  Synced(t)'
<1> SUFFICES ASSUME NEW p \in Path
             PROVE  /\ source[p] # Other
                    /\ source[p] = Dir => dest[t][p] = Dir
                    /\ source[p].type = "file" =>
                         dest[t][p] = source[p] \/ <<p, source[p].mtime>> \in unread'
                    /\ source[p].type = "link" => SameLink(source[p].to, dest[t][p])
                    /\ source[p] = Absent /\ delete[t] => dest[t][p] = Absent
  BY DEF Synced, SameLink
<1> QED
  BY DEF Synced

\* Nothing that matters changes for a target that is done.
LEMMA DoneKept ==
  ASSUME TypeOK, NEW t \in Target, DoneOnce(t), t \in channels => t \in channels',
         unread \subseteq unread',
         pc \in {"loop", "closing", "failed"} => pc' \in {"loop", "closing", "failed"},
         task'[t] = task[t] \/ task'[t] \in {"closed", "failed", "error"},
         \/ stable' = FALSE
         \/ /\ UNCHANGED <<stable, source, links>> /\ delete'[t] = delete[t]
            /\ dest'[t] = dest[t]
         \/ \A i \in DOMAIN queue : ~IsDone(queue[i], t),
         \/ queue' = queue
         \/ \E r \in Requests : ~IsDone(r, t) /\ queue' = Append(queue, r)
         \/ queue # <<>> /\ queue' = Tail(queue)
  PROVE  DoneOnce(t)'
<1>1. /\ \A i, j \in DOMAIN queue' : IsDone(queue'[i], t) /\ IsDone(queue'[j], t) => i = j
      /\ \A i \in DOMAIN queue' : IsDone(queue'[i], t) =>
           \E j \in DOMAIN queue : IsDone(queue[j], t)
  BY DonesKept DEF DoneOnce
<1>2. ASSUME NEW i \in DOMAIN queue', IsDone(queue'[i], t)
      PROVE  /\ t \in channels' /\ pc' \in {"loop", "closing", "failed"}
             /\ task'[t] \in {"done", "closed", "failed", "error"}
             /\ stable' /\ LinksCurrent' => Synced(t)'
  <2>1. PICK j \in DOMAIN queue : IsDone(queue[j], t)
    BY <1>1, <1>2
  <2>2. /\ t \in channels /\ pc \in {"loop", "closing", "failed"}
        /\ task[t] \in {"done", "closed", "failed", "error"}
        /\ stable /\ LinksCurrent => Synced(t)
    BY <2>1 DEF DoneOnce
  <2>3. \/ stable' = FALSE
        \/ /\ UNCHANGED <<stable, source, links>> /\ delete'[t] = delete[t]
           /\ dest'[t] = dest[t]
    BY <2>1
  <2>4. stable' /\ LinksCurrent' => Synced(t)'
    BY <2>2, <2>3, SyncedKept DEF LinksCurrent
  <2> QED
    BY <2>2, <2>4
<1> QED
  BY <1>1, <1>2 DEF DoneOnce

\* A target that has received the end of the links has all.
LEMMA DoneSynced ==
  ASSUME TypeOK, DestInv, WorkInv, SyncInv, TaskInv, AnswerInv, NEW t \in Target, LinksEnd(t),
         stable, LinksCurrent
  PROVE  Synced(t)
<1>1. /\ task[t] = "links" /\ Lives(t) /\ t \in channels /\ stack[t] = <<>>
      /\ Made(t, Len(links))
  BY EndHead
<1>2. modified[t] = <<>>
  BY <1>1 DEF WorkInv
<1>3. InSync({}, {}, Spoilt, dest[t], source, delete[t])
  <2>1. InSync(Pend(stack[t]), Left(stack[t]), PathsOf(modified[t]) \cup Spoilt, dest[t], source,
               delete[t])
    BY <1>1 DEF SyncInv
  <2>2. PathsOf(modified[t]) \cup Spoilt = Spoilt
    BY <1>2, PathsEmpty
  <2> QED
    BY <1>1, <2>1, <2>2, PathsEmpty
<1>4. \A q \in Path : source[q].type = "link" =>
        dest[t][q] = LinkTo(Joined(PointOf(source[q].to)))
  <2>1. \A j \in DOMAIN links : ~(j > Len(links))
    BY DEF TypeOK
  <2> QED
    BY <1>1, <2>1 DEF Made
<1>5. Grown(dest[t]) /\ \A q \in Path : source[q].type = "link" => dest[t][q].type = "link"
  <2>1. Grown(dest[t])
    BY DEF DestInv
  <2>2. \A x : LinkTo(x).type = "link"
    BY DEF LinkTo
  <2> QED
    BY <1>4, <2>1, <2>2
<1>6. \A q \in Path : source[q].type = "link" => SameLink(source[q].to, dest[t][q])
  <2>1. ASSUME NEW q \in Path, source[q].type = "link" PROVE source[q].to \in Text
    <3>1. source[q] \in Entry
      BY DEF TypeOK
    <3> QED
      BY <2>1, <3>1 DEF Entry, Absent, Dir, Other
  <2> QED
    BY <1>4, <2>1, LinkSent
<1> DEFINE d == delete[t]
           tree == dest[t]
<1> HIDE DEF d, tree
<1>7. \A q \in Path : /\ source[q] # Other
                      /\ source[q] = Dir => tree[q] = Dir
                      /\ source[q].type = "file" => tree[q] = source[q] \/ q \in Spoilt
                      /\ source[q] = Absent /\ d => tree[q] = Absent
  BY <1>3, <1>5, SyncEnds DEF d, tree
<1> QED
  BY <1>6, <1>7 DEF Synced, Spoilt, d, tree

LEMMA DoneServed ==
  ASSUME TypeOK, WorkInv, WriteInv, PlaceInv, DestInv, SyncInv, TaskInv, AnswerInv, DoneInv,
         NEW t \in Target, Serve(t)
  PROVE  DoneInv'
<1>1. Only(t) /\ UNCHANGED <<source, unread, stable, links, pc, channels, delete>>
  <2>1. Only(t)
    BY Alone
  <2> QED
    BY <2>1 DEF Only, Local, sourcevars, fixed
<1>2. ASSUME DoneOnce(t)'
      PROVE  DoneInv'
  <2> SUFFICES ASSUME NEW u \in Target, u # t
               PROVE  DoneOnce(u)'
    BY <1>2 DEF DoneInv
  <2>1. task'[u] = task[u] /\ dest'[u] = dest[u] /\ DoneOnce(u)
    BY <1>1 DEF Only, DoneInv
  <2>2. queue' = queue \/ \E r \in Requests : ~IsDone(r, u) /\ queue' = Append(queue, r)
    <3>1. queue' = queue \/ \E r \in Requests : r.target = t /\ queue' = Append(queue, r)
      BY <1>1, OwnQueue DEF Only
    <3> QED
      BY <3>1 DEF IsDone
  <2> QED
    BY <1>1, <2>1, <2>2, DoneKept
<1>3. DoneOnce(t) /\ queue \in Seq(Requests)
  BY DEF DoneInv, TypeOK
<1>4. task[t] \notin {"done", "closed", "failed", "error"} =>
        \A i \in DOMAIN queue : ~IsDone(queue[i], t)
  BY <1>3 DEF DoneOnce
<1>5. ASSUME \A i \in DOMAIN queue : ~IsDone(queue[i], t),
             \/ queue' = queue
             \/ \E wish \in Wish : wish.type # "done" /\ Request(t, wish)
      PROVE  DoneInv'
  <2>1. queue' = queue \/ \E r \in Requests : ~IsDone(r, t) /\ queue' = Append(queue, r)
    <3>1. CASE queue' = queue
      BY <3>1
    <3>2. ASSUME NEW wish \in Wish, wish.type # "done", Request(t, wish)
          PROVE  \E r \in Requests : ~IsDone(r, t) /\ queue' = Append(queue, r)
      BY <3>2, OwnQueue DEF IsDone
    <3> QED
      BY <1>5, <3>1, <3>2
  <2>2. \A i \in DOMAIN queue' : IsDone(queue'[i], t) => FALSE
    BY <1>3, <1>5, <2>1, DonesKept DEF DoneOnce
  <2> QED
    BY <1>2, <2>2 DEF DoneOnce
<1>6. \A type \in {"list_done", "ack", "links", "done", "end"} :
        [type |-> type] \in Wish /\ [type |-> type].type = type
  BY DEF Wish
<1>7. CASE ReceiveDirectory(t) \/ LeaveDirectory(t) \/ ReceiveLink(t) \/ Write(t) \/ Utime(t)
             \/ MakeLink(t)
  <2>1. task[t] \notin {"done", "closed", "failed", "error"} /\ queue' = queue
    BY <1>7 DEF ReceiveDirectory, LeaveDirectory, ReceiveLink, Descend, Write, Utime, MakeLink
  <2> QED
    BY <1>4, <1>5, <2>1
<1>8. CASE ReceiveFile(t)
  <2> DEFINE wish == [type |-> "send", path |-> Top(t).path,
                      checksum |-> IF SameSize(dest[t][Top(t).path], Head(wire[t]))
                                   THEN dest[t][Top(t).path].data ELSE None]
  <2>1. task[t] = "tree" /\ wish \in Wish /\ (queue' = queue \/ Request(t, wish))
    BY <1>8, FileReceived
  <2>2. wish.type # "done"
    OBVIOUS
  <2> HIDE DEF wish
  <2> QED
    BY <1>4, <1>5, <2>1, <2>2
<1>9. CASE TreeEnds(t)
  <2>1. task[t] = "tree" /\ Request(t, [type |-> "list_done"])
    BY <1>9 DEF TreeEnds
  <2> QED
    BY <1>4, <1>5, <1>6, <2>1
<1>10. CASE ReceiveData(t)
  <2>1. task[t] = "files" /\ Request(t, [type |-> "ack"])
    BY <1>10 DEF ReceiveData
  <2> QED
    BY <1>4, <1>5, <1>6, <2>1
<1>11. CASE FilesEnd(t)
  <2>1. task[t] = "files" /\ Request(t, [type |-> "links"])
    BY <1>11 DEF FilesEnd
  <2> QED
    BY <1>4, <1>5, <1>6, <2>1
<1>12. CASE ChannelCloses(t)
  <2>1. /\ task'[t] \in {"closed", "error"} /\ dest'[t] = dest[t]
        /\ Request(t, [type |-> "end"])
    BY <1>12 DEF ChannelCloses, TypeOK
  <2>2. \E r \in Requests : ~IsDone(r, t) /\ queue' = Append(queue, r)
    BY <1>6, <2>1, OwnQueue DEF IsDone
  <2>3. DoneOnce(t)'
    BY <1>1, <1>3, <2>1, <2>2, DoneKept
  <2> QED
    BY <1>2, <2>3
<1>13. CASE LinksEnd(t)
  <2>1. /\ task[t] = "links" /\ t \in channels /\ pc \in {"loop", "closing", "failed"}
        /\ task'[t] = "done" /\ dest' = dest /\ Request(t, [type |-> "done"])
    BY <1>13, EndHead
  <2>2. stable /\ LinksCurrent => Synced(t)
    BY <1>13, DoneSynced
  <2>3. \A i \in DOMAIN queue : ~IsDone(queue[i], t)
    BY <1>4, <2>1
  <2>4. PICK r \in Requests : queue' = Append(queue, r)
    BY <1>6, <2>1, OwnQueue
  <2>5. \A i \in DOMAIN queue' : IsDone(queue'[i], t) => i = Len(queue) + 1
    BY <1>3, <2>3, <2>4, AppendIs
  <2>6. stable' /\ LinksCurrent' => Synced(t)'
    BY <1>1, <2>1, <2>2, SyncedKept DEF LinksCurrent
  <2>7. t \in channels' /\ pc' \in {"loop", "closing", "failed"}
    BY <1>1, <2>1
  <2>8. DoneOnce(t)'
    BY <2>1, <2>5, <2>6, <2>7 DEF DoneOnce
  <2> QED
    BY <1>2, <2>8
<1> QED
  BY <1>7, <1>8, <1>9, <1>10, <1>11, <1>12, <1>13 DEF Serve

LEMMA DoneSent ==
  ASSUME TypeOK, HadInv, SourceInv, WalkInv, DoneInv, Sender
  PROVE  DoneInv'
<1>1. /\ UNCHANGED <<source, stable, delete, task, dest>> /\ queue \in Seq(Requests)
      /\ channels' \subseteq channels
  BY SenderIs DEF TypeOK
<1> unread \subseteq unread'
  BY HadKept DEF Next
<1>2. CASE SendDirectoryStructure
  <2>1. pc = "walk" /\ queue' = queue
    BY <1>2, PathSent
  <2> QED
    BY <2>1 DEF DoneInv, DoneOnce
<1>3. CASE ~SendDirectoryStructure
  <2>1. /\ links' = links
        /\ channels' = channels \/ Done
        /\ pc' \in {"loop", "closing", "failed"} \/ (pc' = "idle" /\ channels = {})
        /\ queue' = queue \/ (queue # <<>> /\ queue' = Tail(queue))
    <3>1. UNCHANGED <<walk, links>>
      BY <1>3, SenderIs
    <3> QED
      BY <1>3, <3>1, SenderIs
  <2>2. CASE channels = {}
    <3>1. \A t \in Target, i \in DOMAIN queue : ~IsDone(queue[i], t)
      BY <2>2 DEF DoneInv, DoneOnce
    <3>2. \A t \in Target, i \in DOMAIN queue' : ~IsDone(queue'[i], t)
      <4>1. queue # <<>> => \A i \in DOMAIN Tail(queue) :
                               Tail(queue)[i] = queue[i + 1] /\ i + 1 \in DOMAIN queue
        BY <1>1, TailIs
      <4> QED
        BY <2>1, <3>1, <4>1
    <3> QED
      BY <3>2 DEF DoneInv, DoneOnce
  <2>3. ASSUME channels # {}, NEW t \in Target, t \in channels => t \in channels'
        PROVE  DoneOnce(t)'
    <3>1. DoneOnce(t)
      BY DEF DoneInv
    <3>2. pc' \in {"loop", "closing", "failed"}
      BY <2>1, <2>3
    <3> QED
      BY <1>1, <2>1, <2>3, <3>1, <3>2, DoneKept
  <2>4. ASSUME channels # {}, NEW t \in Target, t \in channels, t \notin channels'
        PROVE  DoneOnce(t)'
    <3>1. Done
      BY <2>1, <2>4
    <3>2. /\ queue # <<>> /\ Head(queue).wish.type = "done" /\ channels' = channels \ {From}
          /\ queue' = Tail(queue)
      BY <3>1 DEF Done, Get
    <3>3. 1 \in DOMAIN queue /\ IsDone(queue[1], t)
      BY <1>1, <2>4, <3>2, TailIs DEF IsDone, From
    <3>4. \A i \in DOMAIN queue' : ~IsDone(queue'[i], t)
      <4> SUFFICES ASSUME NEW i \in DOMAIN Tail(queue), IsDone(Tail(queue)[i], t)
                   PROVE  FALSE
        BY <3>2
      <4>1. Tail(queue)[i] = queue[i + 1] /\ i + 1 \in DOMAIN queue /\ i \in Nat \ {0}
        BY <1>1, <3>2, TailIs
      <4>2. i + 1 = 1
        BY <3>3, <4>1 DEF DoneInv, DoneOnce
      <4> QED
        BY <4>1, <4>2
    <3> QED
      BY <3>4 DEF DoneOnce
  <2> QED
    BY <2>2, <2>3, <2>4 DEF DoneInv
<1> QED
  BY <1>2, <1>3

LEMMA DoneUsed ==
  ASSUME TypeOK, DoneInv,
         \/ \E t \in Target, d \in BOOLEAN : AddTarget(t, d)
         \/ SendBegins \/ StartOver
         \/ \E p \in Path : \E e \in Things(p, clock + 1) : Change(p, e)
         \/ \E t \in Target : Die(t)
  PROVE  DoneInv'
<1>1. ASSUME UNCHANGED queue, pc = "idle"
      PROVE  DoneInv'
  BY <1>1 DEF DoneInv, DoneOnce
<1>2. CASE SendBegins \/ \E t \in Target, d \in BOOLEAN : AddTarget(t, d)
  BY <1>1, <1>2 DEF SendBegins, AddTarget
<1>3. CASE StartOver
  <2>1. queue' = <<>>
    BY <1>3 DEF StartOver
  <2> QED
    BY <2>1 DEF DoneInv, DoneOnce
<1>4. ASSUME NEW p \in Path, NEW e \in Things(p, clock + 1), Change(p, e)
      PROVE  DoneInv'
  <2>1. UNCHANGED <<task, queue, channels, pc, unread>> /\ stable' = FALSE
    BY <1>4 DEF Change, remote
  <2> QED
    BY <2>1, DoneKept DEF DoneInv
<1>5. ASSUME NEW t \in Target, Die(t)
      PROVE  DoneInv'
  <2>1. /\ UNCHANGED <<queue, channels, pc, stable, source, unread, links, delete, dest>>
        /\ \A u \in Target : task'[u] = task[u] \/ task'[u] = "failed"
    BY <1>5 DEF Die, sourcevars, fixed, TypeOK
  <2> QED
    BY <2>1, DoneKept DEF DoneInv
<1> QED
  BY <1>2, <1>3, <1>4, <1>5
-----------------------------------------------------------------------------
(* The invariant.                                                          *)

\* At the beginning there are trees, and nobody does anything.
LEMMA InitTrees == Init => DestInv /\ SourceInv /\ TimeInv
<1> SUFFICES ASSUME Init PROVE DestInv /\ SourceInv /\ TimeInv
  OBVIOUS
<1>1. /\ source \in Trees(1) /\ clock = 1 /\ had = [p \in Path |-> {source[p]}]
      /\ dest = [t \in Target |-> [p \in Path |-> IF p = <<>> THEN Dir ELSE Absent]]
  BY DEF Init
<1>2. <<>> \in Path /\ \A p \in Path \ {<<>>} : Front(p) \in Path
  BY RSyncAssumption
<1>3. \A p \in Path : source[p] \in Things(p, 1)
  BY <1>1 DEF Trees
<1>4. \A p \in Path : source[p].type = "file" => source[p].mtime = 1
  <2> SUFFICES ASSUME NEW p \in Path, source[p].type = "file" PROVE source[p].mtime = 1
    OBVIOUS
  <2>1. source[p] \in {Absent, Dir, Other} \cup {File(d, 1) : d \in Data}
                        \cup {LinkTo(l) : l \in Link}
    BY <1>3 DEF Things
  <2> QED
    BY <2>1 DEF Absent, Dir, Other, File, LinkTo
<1>5. Grown(source)
  BY <1>1 DEF Trees, Grown
<1>6. SourceInv
  BY <1>1, <1>2, <1>4, <1>5 DEF SourceInv
<1>7. ASSUME NEW t \in Target, NEW p \in Path
      PROVE  /\ dest[t][p].type # "file"
             /\ p # <<>> => dest[t][p] = Absent
  BY <1>1 DEF Absent, Dir
<1> QED
  BY <1>6, <1>7 DEF DestInv, Grown, TimeInv

\* It holds at the beginning ...
LEMMA InitEstablishes == Init => IInv
<1> SUFFICES ASSUME Init PROVE IInv
  OBVIOUS
<1>1. TypeOK
  BY InitTypes
<1>2. HadInv /\ WorkInv /\ WriteInv /\ NoMixUp
  BY DEF Init, HadInv, WorkInv, WriteInv, NoMixUp, Absent, Dir
<1>3. /\ channels = {} /\ queue = <<>> /\ links = <<>> /\ walk = <<>> /\ pc = "idle"
      /\ \A t \in Target : /\ modified[t] = <<>> /\ InWork(t) = 0 /\ wire[t] = <<>>
                           /\ stack[t] = <<>> /\ task[t] = "none"
  BY DEF Init, InWork
<1>4. MatchInv
  <2> SUFFICES ASSUME NEW t \in Target
               PROVE  Matched(modified[t], InWork(t), wire[t], queue, t, View(t))
    BY DEF MatchInv
  <2>1. DataAt(<<>>) = {} /\ AskedAt(<<>>, t) = {}
    BY DEF DataAt, AskedAt
  <2> QED
    BY <1>3, <2>1, MatchedEmpty
<1>5. PlaceInv
  BY <1>3, PathsEmpty DEF PlaceInv, Placed, PathsOf
<1>6. SyncInv /\ LeavesInv /\ FileInv
  BY <1>3, PathsEmpty DEF SyncInv, LeavesInv, FileInv
<1>7. PlanInv /\ WalkInv /\ TaskInv
  BY <1>3 DEF PlanInv, WalkInv, TaskInv
<1>8. LinksHad /\ LinksInv
  BY <1>3 DEF LinksHad, LinksInv
<1>9. AnswerInv /\ DoneInv
  BY <1>3 DEF AnswerInv, AskedOnce, AnswerLeft, Answered, DoneInv, DoneOnce
<1> QED
  BY <1>1, <1>2, <1>4, <1>5, <1>6, <1>7, <1>8, <1>9, InitTrees DEF IInv

\* Trees that do not change keep what they have.
LEMMA TreesKept ==
  ASSUME DestInv, SourceInv, TimeInv, UNCHANGED <<source, had, clock, dest>>,
         unread \subseteq unread'
  PROVE  DestInv' /\ SourceInv' /\ TimeInv'
BY DEF DestInv, SourceInv, TimeInv

\* The sender keeps it,
LEMMA SenderKeepsAll == ASSUME IInv, Sender PROVE IInv'
<1>1. /\ TypeOK /\ HadInv /\ MatchInv /\ WorkInv /\ WriteInv /\ NoMixUp
      /\ DestInv /\ SourceInv /\ TimeInv /\ PlaceInv /\ SyncInv /\ LeavesInv /\ FileInv
      /\ PlanInv /\ WalkInv /\ TaskInv /\ LinksHad /\ LinksInv /\ AnswerInv /\ DoneInv
  BY DEF IInv
<1>2. /\ UNCHANGED <<source, had, clock, stable, delete, task, stack, modified, dest>>
      /\ channels' \subseteq channels
  BY <1>1, SenderIs
<1> unread \subseteq unread'
  BY <1>1, HadKept DEF Next
<1>3. TypeOK'
  BY <1>1, SenderTypes
<1>4. Next
  BY DEF Next
<1>5. HadInv'
  BY <1>1, <1>4, HadKept
<1>6. MatchInv' /\ WorkInv' /\ WriteInv' /\ NoMixUp'
  BY <1>1, SenderMatches
<1>7. DestInv' /\ SourceInv' /\ TimeInv'
  BY <1>1, <1>2, TreesKept
<1>8. LinksCurrent' => LinksCurrent
  <2>1. \A i \in DOMAIN links : i \in DOMAIN links' /\ links'[i] = links[i]
    <3>1. CASE links' = links
      BY <3>1
    <3>2. CASE \E l : links' = Append(links, l)
      <4>1. PICK l : links' = Append(links, l)
        BY <3>2
      <4>2. links \in Seq([path : Path, to : Point])
        BY <1>1 DEF TypeOK
      <4> QED
        BY <4>1, <4>2
    <3> QED
      BY <1>1, <3>1, <3>2, SenderIs DEF SendDirectoryStructure, SendDirectory, SendLinkStructure,
         SendFile, SendRaises
  <2> QED
    BY <1>2, <2>1 DEF LinksCurrent
<1>9. PlaceInv' /\ SyncInv' /\ LeavesInv' /\ FileInv'
  <2>1. \A t \in Target : Lives(t)' => Lives(t)
    BY <1>2 DEF Lives
  <2> QED
    BY <1>1, <1>2, <1>8, <2>1, PlacesKept
<1>10. PlanInv'
  BY <1>1, <1>3, PlanSentOn
<1>11. WalkInv' /\ LinksHad' /\ LinksInv'
  BY <1>1, <1>3, <1>4, WalkKept, LinksHadKept, LinksKept
<1>12. TaskInv' /\ AnswerInv' /\ DoneInv'
  BY <1>1, TaskSent, AnswerSent, DoneSent
<1> QED
  BY <1>3, <1>5, <1>6, <1>7, <1>9, <1>10, <1>11, <1>12 DEF IInv

\* a target keeps it,
LEMMA ServeKeepsAll == ASSUME IInv, NEW t \in Target, Serve(t) PROVE IInv'
<1>1. /\ TypeOK /\ HadInv /\ MatchInv /\ WorkInv /\ WriteInv /\ NoMixUp
      /\ DestInv /\ SourceInv /\ TimeInv /\ PlaceInv /\ SyncInv /\ LeavesInv /\ FileInv
      /\ PlanInv /\ WalkInv /\ TaskInv /\ LinksHad /\ LinksInv /\ AnswerInv /\ DoneInv
  BY DEF IInv
<1>2. UNCHANGED <<source, had, clock>>
  BY <1>1, Alone DEF Only, Local, sourcevars
<1>3. TypeOK'
  BY <1>1, ServeTypes
<1>4. Next
  BY DEF Next
<1>5. HadInv'
  BY <1>1, <1>4, HadKept
<1>6. MatchInv' /\ WorkInv' /\ WriteInv' /\ NoMixUp'
  BY <1>1, ServeMatches, ServeWrites
<1>7. DestInv' /\ TimeInv'
  BY <1>1, <1>6, TreesServed
<1>8. SourceInv'
  BY <1>1, <1>2 DEF SourceInv
<1>9. PlaceInv' /\ SyncInv' /\ LeavesInv' /\ FileInv'
  BY <1>1, <1>6, <1>7, ServePlaces
<1>10. PlanInv'
  BY <1>1, PlanServed
<1>11. WalkInv' /\ LinksHad' /\ LinksInv'
  BY <1>1, <1>3, <1>4, WalkKept, LinksHadKept, LinksKept
<1>12. TaskInv' /\ AnswerInv' /\ DoneInv'
  BY <1>1, TaskServed, AnswerServed, DoneServed
<1> QED
  BY <1>3, <1>5, <1>6, <1>7, <1>8, <1>9, <1>10, <1>11, <1>12 DEF IInv

\* What every other step keeps: only the places and the plan are left to show.
LEMMA UserKeeps ==
  ASSUME IInv,
         \/ \E t \in Target, d \in BOOLEAN : AddTarget(t, d)
         \/ SendBegins \/ StartOver
         \/ \E p \in Path : \E e \in Things(p, clock + 1) : Change(p, e)
         \/ \E t \in Target : Die(t)
  PROVE  /\ TypeOK' /\ HadInv' /\ DestInv' /\ SourceInv' /\ TimeInv' /\ WalkInv' /\ TaskInv'
         /\ MatchInv' /\ WorkInv' /\ WriteInv' /\ NoMixUp'
         /\ LinksHad' /\ LinksInv' /\ AnswerInv' /\ DoneInv'
<1>1. /\ TypeOK /\ HadInv /\ MatchInv /\ WorkInv /\ WriteInv /\ NoMixUp
      /\ DestInv /\ SourceInv /\ TimeInv /\ FileInv
      /\ WalkInv /\ TaskInv /\ LinksHad /\ LinksInv /\ AnswerInv /\ DoneInv
  BY DEF IInv
<1>2. TypeOK'
  <2>1. ASSUME NEW t \in Target, Die(t) PROVE TypeOK'
    BY <1>1, <2>1, ServeTypes
  <2> QED
    BY <1>1, <2>1, UserTypes
<1>3. Next
  BY DEF Next
<1>4. /\ HadInv' /\ \A p \in Path : had[p] \subseteq had'[p]
      /\ \A q \in Path : source'[q].type = "file" /\ source'[q].mtime <= clock =>
           source'[q] = source[q]
      /\ unread \subseteq unread'
  BY <1>1, <1>3, HadKept
<1>5. DestInv' /\ SourceInv' /\ TimeInv'
  <2>1. ASSUME NEW p \in Path, NEW e \in Things(p, clock + 1), Change(p, e)
        PROVE  DestInv' /\ SourceInv' /\ TimeInv'
    BY <1>1, <1>2, <2>1, TreesChanged
  <2>2. CASE \/ \E t \in Target, d \in BOOLEAN : AddTarget(t, d)
             \/ SendBegins \/ StartOver \/ \E t \in Target : Die(t)
    <3>1. UNCHANGED <<source, had, clock, dest>>
      BY <2>2 DEF AddTarget, SendBegins, StartOver, Die, sourcevars, remote
    <3> QED
      BY <1>1, <1>4, <3>1, TreesKept
  <2> QED
    BY <2>1, <2>2
<1>6. WalkInv' /\ LinksHad' /\ LinksInv'
  BY <1>1, <1>2, <1>3, WalkKept, LinksHadKept, LinksKept
<1>7. TaskInv' /\ AnswerInv' /\ DoneInv'
  BY <1>1, TaskUsed, AnswerUsed, DoneUsed
<1>8. MatchInv' /\ WorkInv' /\ WriteInv' /\ NoMixUp'
  <2>1. CASE StartOver
    <3>1. /\ UNCHANGED <<dest, had>> /\ queue' = <<>>
          /\ \A t \in Target : task'[t] = "none" /\ wire'[t] = <<>> /\ modified'[t] = <<>>
      BY <2>1 DEF StartOver, sourcevars
    <3>2. WorkInv' /\ WriteInv' /\ NoMixUp'
      BY <1>1, <3>1 DEF WorkInv, WriteInv, NoMixUp
    <3>3. MatchInv'
      <4> SUFFICES ASSUME NEW t \in Target
                   PROVE  Matched(modified'[t], InWork(t)', wire'[t], queue', t, View(t)')
        BY DEF MatchInv
      <4>1. modified'[t] = <<>> /\ InWork(t)' = 0 /\ wire'[t] = <<>> /\ queue' = <<>>
        BY <3>1 DEF InWork
      <4>2. DataAt(<<>>) = {} /\ AskedAt(<<>>, t) = {}
        BY DEF DataAt, AskedAt
      <4> QED
        BY <4>1, <4>2, MatchedEmpty
    <3> QED
      BY <3>2, <3>3
  <2>2. CASE ~StartOver
    <3>1. UNCHANGED <<modified, wire, queue, dest>>
      BY <2>2 DEF AddTarget, SendBegins, Change, Die, remote
    <3>2. \A t \in Target : task'[t] = task[t] \/ task'[t] = "failed"
            \/ (task[t] \in {"none", "closed"} /\ task'[t] = "tree")
      BY <1>1, <2>2 DEF AddTarget, SendBegins, Change, Die, remote, TypeOK
    <3> QED
      BY <1>1, <1>4, <3>1, <3>2, ServiceKept
  <2> QED
    BY <2>1, <2>2
<1> QED
  BY <1>2, <1>4, <1>5, <1>6, <1>7, <1>8

\* New targets will visit everything, with nothing to write.
LEMMA FreshKept ==
  ASSUME IInv, (\E t \in Target, d \in BOOLEAN : AddTarget(t, d)) \/ SendBegins \/ StartOver
  PROVE  PlaceInv' /\ SyncInv' /\ LeavesInv' /\ FileInv' /\ PlanInv'
<1>1. TypeOK /\ PlaceInv /\ SyncInv /\ LeavesInv /\ FileInv /\ PlanInv /\ TaskInv /\ WorkInv
  BY DEF IInv
<1> DEFINE Fresh(t) == /\ modified'[t] = <<>>
                       /\ stack'[t] = <<Visit(<<>>)>> \/ (stack'[t] = <<>> /\ t \notin channels')
           Same(t) == /\ UNCHANGED <<source, clock, unread, stable, links, dest>> /\ Lives(t)
                      /\ stack'[t] = stack[t] /\ modified'[t] = modified[t]
                      /\ delete'[t] = delete[t] /\ (t \in channels' => t \in channels)
<1>2. ASSUME channels' \subseteq Target, \A t \in Target : Lives(t)' => Fresh(t) \/ Same(t)
      PROVE  PlaceInv' /\ SyncInv' /\ LeavesInv' /\ FileInv'
  BY <1>1, <1>2, FreshPlaces
<1>3. ASSUME NEW t \in Target, NEW d \in BOOLEAN, AddTarget(t, d)
      PROVE  PlaceInv' /\ SyncInv' /\ LeavesInv' /\ FileInv' /\ PlanInv'
  <2>1. /\ UNCHANGED <<source, clock, unread, stable, links, dest, modified>>
        /\ channels' = channels \cup {t} /\ channels \subseteq Target
        /\ task[t] \in {"none", "closed"} /\ stack'[t] = <<Visit(<<>>)>>
        /\ \A u \in Target : u # t => /\ stack'[u] = stack[u] /\ task'[u] = task[u]
                                      /\ delete'[u] = delete[u]
    BY <1>1, <1>3 DEF AddTarget, sourcevars, TypeOK
  <2>2. Fresh(t)
    BY <1>1, <2>1 DEF WorkInv
  <2>3. ASSUME NEW u \in Target, u # t, Lives(u)' PROVE Same(u)
    BY <2>1, <2>3 DEF Lives
  <2>4. PlanInv'
    BY <1>1, <1>3, PlanAdded
  <2> HIDE DEF Fresh, Same
  <2>5. channels' \subseteq Target /\ \A u \in Target : Lives(u)' => Fresh(u) \/ Same(u)
    BY <2>1, <2>2, <2>3
  <2> QED
    BY <1>2, <2>4, <2>5
<1>4. ASSUME SendBegins
      PROVE  PlaceInv' /\ SyncInv' /\ LeavesInv' /\ FileInv' /\ PlanInv'
  <2>1. /\ pc = "idle" /\ channels' = channels /\ channels \subseteq Target
        /\ UNCHANGED <<task, stack, modified>>
    BY <1>1, <1>4 DEF SendBegins, remote, TypeOK
  <2>2. ASSUME NEW t \in Target, Lives(t)' PROVE Fresh(t)
    <3>1. Lives(t)
      BY <2>1, <2>2 DEF Lives
    <3>2. CASE t \in channels
      BY <1>1, <2>1, <3>1, <3>2 DEF TaskInv
    <3>3. CASE t \notin channels
      BY <1>1, <2>1, <3>1, <3>3 DEF TaskInv, WorkInv
    <3> QED
      BY <3>2, <3>3
  <2>3. PlanInv'
    BY <1>1, <1>4, PlanBegins
  <2> QED
    BY <1>2, <2>1, <2>2, <2>3
<1>5. ASSUME StartOver
      PROVE  PlaceInv' /\ SyncInv' /\ LeavesInv' /\ FileInv' /\ PlanInv'
  <2>1. /\ channels' = {}
        /\ \A t \in Target : stack'[t] = <<>> /\ modified'[t] = <<>>
    BY <1>5 DEF StartOver
  <2>2. PlanInv'
    BY <2>1 DEF PlanInv
  <2> QED
    BY <1>2, <2>1, <2>2
<1> QED
  BY <1>3, <1>4, <1>5

\* When a target dies, nothing changes for the others.
LEMMA DeathKept ==
  ASSUME IInv, NEW t \in Target, Die(t)
  PROVE  PlaceInv' /\ SyncInv' /\ LeavesInv' /\ FileInv' /\ PlanInv'
<1>1. TypeOK /\ PlaceInv /\ SyncInv /\ LeavesInv /\ FileInv /\ PlanInv
  BY DEF IInv
<1>2. /\ UNCHANGED <<source, had, clock, unread, stable, delete, stack, modified, dest>>
      /\ UNCHANGED <<channels, links, wire, pc, walk>>
      /\ \A u \in Target : task'[u] = task[u] \/ task'[u] = "failed"
  BY <1>1 DEF Die, sourcevars, fixed, TypeOK
<1>3. \A u \in Target : Lives(u)' => Lives(u)
  BY <1>2 DEF Lives
<1>4. PlaceInv' /\ SyncInv' /\ LeavesInv' /\ FileInv'
  <2>1. LinksCurrent' => LinksCurrent
    BY <1>2 DEF LinksCurrent
  <2> QED
    BY <1>1, <1>2, <1>3, <2>1, PlacesKept
<1>5. PlanInv'
  <2>1. World' = World /\ Rests' = Rests /\ channels \subseteq Target
    BY <1>1, <1>2, WorldSame DEF Rests, TypeOK
  <2> SUFFICES ASSUME NEW u \in channels, Lives(u)'
               PROVE  \E v \in Seq(Path) : Lists(v, stack[u]) /\ Planned(v, wire[u], World, Rests)
    BY <1>2, <2>1 DEF PlanInv
  <2> QED
    BY <1>1, <1>3, <2>1 DEF PlanInv
<1> QED
  BY <1>4, <1>5

\* ... and every step keeps it.
LEMMA StepPreserves == IInv /\ [Next]_vars => IInv'
<1> SUFFICES ASSUME IInv, [Next]_vars PROVE IInv'
  OBVIOUS
<1>1. ASSUME (\E t \in Target, d \in BOOLEAN : AddTarget(t, d)) \/ SendBegins \/ StartOver
      PROVE  IInv'
  BY <1>1, UserKeeps, FreshKept DEF IInv
<1>2. ASSUME NEW p \in Path, NEW e \in Things(p, clock + 1), Change(p, e) PROVE IInv'
  <2>1. PlaceInv' /\ SyncInv' /\ LeavesInv' /\ FileInv' /\ PlanInv'
    BY <1>2, PlacesChanged, PlanChanged DEF IInv
  <2> QED
    BY <1>2, <2>1, UserKeeps DEF IInv
<1>3. ASSUME NEW t \in Target, Die(t) PROVE IInv'
  BY <1>3, UserKeeps, DeathKept DEF IInv
<1>4. CASE Sender
  BY <1>4, SenderKeepsAll
<1>5. ASSUME NEW t \in Target, Serve(t) PROVE IInv'
  BY <1>5, ServeKeepsAll
<1>6. CASE UNCHANGED vars
  <2>1. /\ UNCHANGED <<source, clock, had, unread, stable, delete, serial, channels, queue, links>>
        /\ UNCHANGED <<walk, to_send, pc, current, task, stack, modified, dest, wire, deaths>>
    BY <1>6 DEF vars, sourcevars, fixed, remote
  <2>2. TypeOK' /\ HadInv' /\ WorkInv' /\ NoMixUp' /\ DestInv' /\ SourceInv' /\ TimeInv'
    BY <2>1 DEF IInv, TypeOK, HadInv, WorkInv, NoMixUp, DestInv, SourceInv, TimeInv
  <2>3. MatchInv' /\ WriteInv'
    BY <2>1 DEF IInv, MatchInv, WriteInv, Lives, InWork, View
  <2>4. PlaceInv' /\ SyncInv' /\ LeavesInv' /\ FileInv'
    BY <2>1 DEF IInv, PlaceInv, SyncInv, LeavesInv, FileInv, Lives, LinksCurrent, Spoilt
  <2>5. PlanInv' /\ WalkInv' /\ TaskInv'
    BY <2>1 DEF IInv, PlanInv, WalkInv, TaskInv, Lives, World, Rests
  <2>6. LinksHad' /\ LinksInv'
    BY <2>1 DEF IInv, LinksHad, LinksInv
  <2>7. AnswerInv'
    <3>1. AnswerInv
      BY DEF IInv
    <3>2. ASSUME NEW t \in Target
          PROVE  (AskedOnce(t)' <=> AskedOnce(t)) /\ (Lives(t)' <=> Lives(t))
      BY <2>1 DEF AskedOnce, Lives
    <3>3. \A w, k : Remains(w, k)' <=> Remains(w, k)
      BY <2>1 DEF Remains, Answer, LinkMessages
    <3>4. \A t \in Target : \A k : Made(t, k)' <=> Made(t, k)
      BY <2>1 DEF Made, LinksCurrent
    <3>5. ASSUME NEW t \in Target PROVE AnswerLeft(t) => AnswerLeft(t)'
      BY <2>1, <3>3, <3>4 DEF AnswerLeft
    <3> QED
      BY <3>1, <3>2, <3>5 DEF AnswerInv
  <2>8. DoneInv'
    BY <2>1 DEF IInv, DoneInv, DoneOnce, Synced, LinksCurrent
  <2> QED
    BY <2>2, <2>3, <2>4, <2>5, <2>6, <2>7, <2>8 DEF IInv
<1> QED
  BY <1>1, <1>2, <1>3, <1>4, <1>5, <1>6 DEF Next

\* The invariant that the theorems rest on.
LEMMA Invariance == Spec => []IInv
BY InitEstablishes, StepPreserves, PTL DEF Spec

-----------------------------------------------------------------------------
(* What follows from it.                                                   *)

\* The variables have their types, for any tree, any number of targets and sends.
THEOREM TypeCorrect == Spec => []TypeOK
BY Invariance, PTL DEF IInv

\* No file ever gets the contents of another one, whatever changes, dies or is sent again.
THEOREM NoMixUpHolds == Spec => []NoMixUp
BY Invariance, PTL DEF IInv

\* Only _done() ends with a target, and what it has then, is what the source has.
LEMMA FinishedIsSynced ==
  ASSUME IInv, Next, NEW t \in Target, pc' = "closing", t \in channels \ channels',
         stable, LinksCurrent
  PROVE  Synced(t)
<1>1. TypeOK /\ HadInv /\ SourceInv /\ WalkInv /\ DoneInv
  BY DEF IInv
<1>2. CASE Sender
  <2>1. Done
    <3>1. channels' # channels
      OBVIOUS
    <3>2. CASE SendDirectoryStructure
      BY <1>1, <3>1, <3>2, PathSent
    <3> QED
      BY <1>1, <1>2, <3>1, <3>2, SenderIs
  <2>2. queue # <<>> /\ Head(queue).wish.type = "done" /\ t = From
    BY <2>1 DEF Done, Get
  <2>3. 1 \in DOMAIN queue /\ Head(queue) = queue[1]
    BY <1>1, <2>2, TailIs DEF TypeOK
  <2>4. IsDone(queue[1], t)
    BY <2>2, <2>3 DEF IsDone, From
  <2> QED
    BY <1>1, <2>3, <2>4 DEF DoneInv, DoneOnce
<1>3. CASE ~Sender
  <2>1. ASSUME NEW u \in Target, Serve(u) PROVE channels' = channels
    BY <1>1, <2>1, Alone DEF Only, Local
  <2>2. ~(\E u \in Target : Serve(u))
    BY <2>1
  <2> QED
    BY <1>3, <2>2 DEF Next, AddTarget, SendBegins, StartOver, Change, Die
<1> QED
  BY <1>2, <1>3

\* What may happen to a file at p that goes when d holds.
Excused(d, p) == d \/ \E q \in Path : IsStrictPrefix(q, p) /\ had[q] # {Dir}

\* A file goes in the tree of the target t.
Goes(t, p) == dest[t][p].type = "file" /\ dest'[t][p] = Absent

\* Where something else is put at q, what was below it goes.
LEMMA GoesWith ==
  ASSUME NEW t \in Target, NEW q \in Path, NEW e, dest'[t] = With(dest[t], q, e), e # Absent,
         had[q] # {Dir}, NEW p \in Path, Goes(t, p)
  PROVE  Excused(delete[t], p)
<1>1. IsStrictPrefix(q, p)
  <2>1. p # q
    BY Replaced DEF Goes
  <2>2. IsPrefix(q, p)
    BY Replaced DEF Goes, Absent
  <2> QED
    BY <2>1, <2>2 DEF IsStrictPrefix
<1> QED
  BY <1>1 DEF Excused

\* Without "delete" a file goes only with its directory.
LEMMA FilesGo ==
  ASSUME IInv, NEW t \in Target, Serve(t), NEW p \in Path, Goes(t, p)
  PROVE  Excused(delete[t], p)
<1>1. /\ TypeOK /\ DestInv /\ SourceInv /\ WorkInv /\ WriteInv /\ PlaceInv
      /\ PlanInv /\ TaskInv /\ LinksHad /\ AnswerInv
  BY DEF IInv
<1>2. Grown(dest[t]) /\ dest[t][p].type = "file" /\ dest[t][p] # Absent /\ dest'[t][p] = Absent
  BY <1>1 DEF DestInv, Goes, Absent
<1>3. dest'[t] # dest[t]
  BY <1>2
<1>4. CASE ReceiveDirectory(t)
  <2> DEFINE q == Top(t).path
  <2>1. /\ dest'[t] = With(dest[t], q, Dir) /\ dest[t][q] # Dir /\ stack[t] # <<>>
        /\ dest'[t][q] = Dir /\ \A r \in Path : ~IsPrefix(q, r) => dest'[t][r] = dest[t][r]
    BY <1>1, <1>3, <1>4, DirectoryMade
  <2>2. q \in Path
    BY <1>1, <2>1, TopIs
  <2> HIDE DEF q
  <2>3. IsStrictPrefix(q, p)
    BY <1>2, <2>1 DEF IsStrictPrefix, Dir, Absent
  <2> QED
    BY <1>2, <2>1, <2>2, <2>3, BelowIsAbsent
<1>5. CASE LeaveDirectory(t)
  BY <1>1, <1>3, <1>5, DirectoryLeft DEF Excused
<1>6. CASE ReceiveFile(t)
  <2> DEFINE q == Top(t).path
             msg == Head(wire[t])
  <2>1. /\ task[t] = "tree" /\ stack[t] # <<>> /\ ~Top(t).leave /\ wire[t] # <<>>
        /\ msg.type = "file"
        /\ \A r \in Path : ~IsPrefix(q, r) => dest'[t][r] = dest[t][r]
        /\ dest[t][q].type # "file"
    BY <1>1, <1>3, <1>6, FileReceived
  <2>2. q \in Path
    BY <1>1, <2>1, TopIs
  <2>3. Describes(World, q, msg)
    BY <1>1, <2>1, HeadDescribed DEF IsTreePart
  <2> HIDE DEF q, msg
  <2>4. \E e \in had[q] : e.type \in {"file", "absent"}
    BY <2>1, <2>3 DEF Describes, World
  <2>5. had[q] # {Dir}
    BY <2>4 DEF Dir
  <2>6. IsStrictPrefix(q, p)
    BY <1>2, <2>1 DEF IsStrictPrefix
  <2> QED
    BY <2>2, <2>5, <2>6 DEF Excused
<1>7. CASE MakeLink(t)
  <2> DEFINE link == Head(wire[t])
  <2>1. /\ wire[t] # <<>> /\ link.type = "to" /\ link.path \in Path /\ Lives(t)
        /\ dest'[t] = With(dest[t], link.path, LinkTo(Joined(link.to)))
    BY <1>1, <1>3, <1>7, LinkMade
  <2>2. \E k \in Nat : k \in DOMAIN links /\ link.path = links[k].path
    <3>1. PICK k \in 0..Len(links) : k + 1 \in DOMAIN links /\ link.path = links[k + 1].path
      BY <1>1, <2>1, LinkHead
    <3> QED
      BY <3>1
  <2> HIDE DEF link
  <2>3. had[link.path] # {Dir}
    BY <1>1, <2>2 DEF LinksHad, Dir
  <2> QED
    BY <2>1, <2>3, GoesWith DEF LinkTo, Absent
<1>8. CASE ReceiveData(t)
  <2> DEFINE f == modified[t][1]
  <2>1. \A q \in Path : q # f.path => dest'[t][q] = dest[t][q]
    BY <1>1, <1>8, FileOpened
  <2>2. dest'[t][f.path] = File(Partial, Now)
    BY <1>1, <1>3, <1>8, FileOpened
  <2> HIDE DEF f
  <2>3. dest'[t][p] = File(Partial, Now)
    BY <1>2, <2>1, <2>2
  <2> QED
    BY <1>2, <2>3 DEF File, Absent
<1>9. CASE Write(t)
  <2> DEFINE f == modified[t][1]
  <2>1. /\ dest'[t][f.path] = File(f.data, Now)
        /\ \A q \in Path : q # f.path => dest'[t][q] = dest[t][q]
    BY <1>1, <1>9, FileWritten
  <2> HIDE DEF f
  <2>2. dest'[t][p] = File(f.data, Now)
    BY <1>2, <2>1
  <2> QED
    BY <1>2, <2>2 DEF File, Absent
<1>10. CASE Utime(t)
  <2> DEFINE f == modified[t][1]
  <2>1. /\ dest'[t][f.path] = File(dest[t][f.path].data, f.mtime)
        /\ \A q \in Path : q # f.path => dest'[t][q] = dest[t][q]
    BY <1>1, <1>3, <1>10, FileTimed
  <2> HIDE DEF f
  <2>2. dest'[t][p] = File(dest[t][f.path].data, f.mtime)
    BY <1>2, <2>1
  <2> QED
    BY <1>2, <2>2 DEF File, Absent
<1>11. CASE \/ ReceiveLink(t) \/ TreeEnds(t) \/ FilesEnd(t) \/ LinksEnd(t) \/ ChannelCloses(t)
  BY <1>3, <1>11 DEF ReceiveLink, TreeEnds, FilesEnd, LinksEnd, ChannelCloses
<1> QED
  BY <1>4, <1>5, <1>6, <1>7, <1>8, <1>9, <1>10, <1>11 DEF Serve

\* Nobody else touches the tree of a target.
LEMMA OthersLeave ==
  ASSUME IInv, [Next]_vars, NEW t \in Target, ~Serve(t)
  PROVE  dest'[t] = dest[t]
<1>1. TypeOK
  BY DEF IInv
<1>2. ASSUME NEW u \in Target, Serve(u) PROVE dest'[t] = dest[t]
  BY <1>1, <1>2, Alone DEF Only
<1>3. CASE Sender
  BY <1>1, <1>3, SenderIs
<1>4. CASE ~Sender /\ ~(\E u \in Target : Serve(u))
  BY <1>4 DEF Next, AddTarget, SendBegins, StartOver, Change, Die, vars, remote
<1> QED
  BY <1>2, <1>3, <1>4

\* When the callback for a finished target is called, the target equals the source, if that has
\* not changed meanwhile; without "delete" a file goes only with its directory; and everything
\* at a target is in a directory: whatever was synchronized before, changes, dies or ends half way.
THEOREM FinishedMeansSyncedHolds == Spec => FinishedMeansSynced
<1> DEFINE Step ==
      \A t \in Target :
        /\ pc' = "closing" /\ t \in channels \ channels' /\ stable /\ LinksCurrent => Synced(t)
        /\ \A p \in Path :
             dest[t][p].type = "file" /\ dest'[t][p] = Absent =>
               delete[t] \/ \E q \in Path : IsStrictPrefix(q, p) /\ had[q] # {Dir}
        /\ \A p \in Path \ {<<>>} : dest'[t][p] # Absent => InDir(dest'[t], p)
<1>1. IInv /\ [Next]_vars => [Step]_vars
  <2> SUFFICES ASSUME IInv, Next, NEW t \in Target
               PROVE  /\ pc' = "closing" /\ t \in channels \ channels' /\ stable /\ LinksCurrent
                           => Synced(t)
                      /\ \A p \in Path : Goes(t, p) => Excused(delete[t], p)
                      /\ \A p \in Path \ {<<>>} : dest'[t][p] # Absent => InDir(dest'[t], p)
    BY DEF Goes, Excused
  <2>1. pc' = "closing" /\ t \in channels \ channels' /\ stable /\ LinksCurrent => Synced(t)
    BY FinishedIsSynced
  <2>2. ASSUME NEW p \in Path, Goes(t, p) PROVE Excused(delete[t], p)
    <3>1. Serve(t)
      BY <2>2, OthersLeave DEF Goes, Absent
    <3> QED
      BY <2>2, <3>1, FilesGo
  <2>3. IInv'
    BY StepPreserves
  <2>4. \A p \in Path \ {<<>>} : dest'[t][p] # Absent => InDir(dest'[t], p)
    BY <2>3 DEF IInv, DestInv, Grown, InDir
  <2> QED
    BY <2>1, <2>2, <2>4
<1>2. FinishedMeansSynced <=> [][Step]_vars
  BY DEF FinishedMeansSynced
<1> QED
  BY <1>1, <1>2, Invariance, PTL DEF Spec
=============================================================================
