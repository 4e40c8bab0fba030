-------------------------------- MODULE RSync --------------------------------
(***************************************************************************)
(* RSync.send() of rsync.py with serve_rsync() of rsync_remote.py at each  *)
(* target.  The sender describes the source tree to all targets at once;   *)
(* every target asks for the files it lacks, in the order of the tree,     *)
(* and gets their contents in that order; then it asks for the links.  The *)
(* requests of all targets come in one queue.                              *)
(*                                                                         *)
(* Both sides walk the tree; a stack of paths says what is left of it.     *)
(* The source changes at any time, a target dies at any time, also with a  *)
(* file half written, and the next send() finds what is left.  After a     *)
(* send() that failed the user ends the gateways and starts anew.          *)
(*                                                                         *)
(* Contents are numbers, 0 is the empty file, 1 and 2 have the same size.  *)
(* Modes are left out, and so is filter(): what it hides is like absent.   *)
(***************************************************************************)
EXTENDS Naturals, Sequences, FiniteSets, SequencesExt

CONSTANTS
  Targets,    \* how many targets there are: a gateway with a directory
  Path,       \* the paths, as sequences of names; <<>> is the directory itself
  Kinds,      \* what each path may be in the source
  Data,       \* the contents of files
  Link,       \* where links may point to
  Cwd,        \* the current directory, if it is in the source
  Callback,   \* is there a progress callback?
  MaxChange,  \* bound: changes of the source
  MaxSend,    \* bound: targets added, over all calls of send()
  MaxWork,    \* bound: what is in the source, times the targets in use
  MaxTrouble, \* bound: changes, deaths and failing reads, times the targets in use
  MaxDeath    \* bound: targets that die

Name == UNION {Range(p) : p \in Path}

\* Where a link points to: below the source or the target directory, or elsewhere, by an
\* absolute path, or wherever a relative one leads.
Text == [base : {"source", "target", "relative", "elsewhere"}, at : Seq(Name)]

ASSUME RSyncAssumption ==
  /\ Targets \in Nat \ {0} /\ IsFiniteSet(Path) /\ <<>> \in Path
  /\ Path \subseteq Seq(Name)
  /\ \A p \in Path \ {<<>>} : Front(p) \in Path
  /\ Kinds \in [Path -> SUBSET {"absent", "dir", "file", "link", "other"}]
  /\ Data \subseteq 0..2 /\ Callback \in BOOLEAN /\ Link \subseteq Text /\ Cwd \subseteq Path
  /\ \A l \in Link : l.base # "target"
  /\ MaxChange \in Nat /\ MaxSend \in Nat /\ MaxTrouble \in Nat
  /\ MaxWork \in Nat /\ MaxDeath \in Nat

VARIABLES
  source,    \* what is at each path of the source
  clock,     \* the time of its last change
  had,       \* history: what has been at each path of the source
  unread,    \* history: the files, with their times, that could not be read
  stable,    \* history: the source has not changed since send() began
  channels,  \* _channels: the targets
  queue,     \* _receivequeue
  links,     \* _links
  walk,      \* the paths that _send_directory_structure() still has to visit
  to_send,   \* _to_send: the targets that have asked for a file
  pc,        \* where send() stands
  current,   \* the target that _done() waits for
  serial,    \* which channel of a target is in use: it may be added again
  task,      \* where serve_rsync() of each target stands
  wire,      \* what is on the way to it
  stack,     \* what receive_directory_structure() still has to visit
  modified,  \* modifiedfiles
  delete,    \* the option
  dest,      \* what is at each path of the target
  deaths     \* how many targets have died

sourcevars == <<source, clock, had, unread>>
remote == <<task, stack, modified, dest>>
fixed == <<delete, serial>>
vars == <<sourcevars, stable, fixed, channels, queue, links, walk, to_send, pc,
          current, remote, wire, deaths>>

-----------------------------------------------------------------------------
(* Trees.                                                                  *)

Target == 1..Targets

Partial == 3            \* a file that is being written
None == 4               \* no data, no checksum
Now == MaxChange + 2    \* the time of a file that is being written

Size(d) == (d + 1) \div 2

Absent == [type |-> "absent"]
Dir == [type |-> "dir"]
Other == [type |-> "other"]
File(d, m) == [type |-> "file", data |-> d, mtime |-> m]
LinkTo(l) == [type |-> "link", to |-> l]

Below(p) == {q \in Path : IsStrictPrefix(p, q)}
Children(p) == {q \in Below(p) : Len(q) = Len(p) + 1}
InDir(tree, p) == tree[Front(p)] = Dir
Without(tree, P) == [q \in Path |-> IF \E p \in P : IsPrefix(p, q) THEN Absent ELSE tree[q]]

\* Mutant: what was in a directory outlives it.
WithShallow(tree, p, e) == [tree EXCEPT ![p] = e]

\* remove(), and then there is something else at p.
With(tree, p, e) == [Without(tree, {p}) EXCEPT ![p] = e]

\* What can be at p in the source, when it was changed at time m.
Things(p, m) ==
  {e \in {Absent, Dir, Other} \cup {File(d, m) : d \in Data} \cup {LinkTo(l) : l \in Link} :
     e.type \in Kinds[p]}

Trees(m) ==
  {tree \in [Path -> UNION {Things(p, m) : p \in Path}] :
     \A p \in Path : /\ tree[p] \in Things(p, m)
                     /\ p # <<>> /\ tree[p] # Absent => InDir(tree, p)}

Entry == {Absent, Dir, Other} \cup [type : {"file"}, data : Data \cup {Partial}, mtime : 0..Now]
         \cup [type : {"link"}, to : Text]

\* A link on its way.
Point == [type : {"link", "linkbase"}, text : Text]

\* What the sender sends to a target, and what a target asks for.
Message ==
  [type : {"dir"}, names : Seq(Path)] \cup [type : {"link", "end"}]
    \cup [type : {"file"}, size : 0..2, mtime : 0..Now]
    \cup [type : {"data"}, data : Data \cup {Partial, None}]
    \cup [type : {"to"}, path : Path, to : Point]

Wish ==
  [type : {"send"}, path : Path, checksum : Data \cup {Partial, None}]
    \cup [type : {"list_done", "ack", "links", "done", "end"}]

Requests == [target : Target, serial : Nat, wish : Wish]

\* What a target has to visit, and what it has to write.
Visits == [path : Path, leave : BOOLEAN, names : SUBSET Path]
Files == [path : Path, mtime : 0..Now, data : Data \cup {Partial, None}]

TypeOK ==
  /\ source \in [Path -> Entry]
  /\ clock \in 1..MaxChange + 1
  /\ had \in [Path -> SUBSET Entry]
  /\ unread \subseteq Path \X (0..Now)
  /\ stable \in BOOLEAN
  /\ channels \in SUBSET Target
  /\ queue \in Seq(Requests)
  /\ links \in Seq([path : Path, to : Point])
  /\ walk \in Seq(Path)
  /\ to_send \in SUBSET Target
  /\ pc \in {"idle", "walk", "loop", "closing", "failed"}
  /\ current \in Target
  /\ serial \in [Target -> Nat]
  /\ task \in [Target -> {"none", "tree", "files", "write", "utime", "links", "done",
                          "failed", "closed", "error"}]
  /\ wire \in [Target -> Seq(Message)]
  /\ stack \in [Target -> Seq(Visits)]
  /\ modified \in [Target -> Seq(Files)]
  /\ delete \in [Target -> BOOLEAN]
  /\ dest \in [Target -> [Path -> Entry]]
  /\ deaths \in Nat

Init ==
  /\ source \in Trees(1)
  /\ clock = 1
  /\ had = [p \in Path |-> {source[p]}]
  /\ unread = {}
  /\ stable = TRUE
  /\ channels = {} /\ queue = <<>> /\ links = <<>> /\ walk = <<>> /\ to_send = {}
  /\ pc = "idle" /\ current = 1
  /\ serial = [t \in Target |-> 0]
  /\ task = [t \in Target |-> "none"]
  /\ wire = [t \in Target |-> <<>>]
  /\ stack = [t \in Target |-> <<>>]
  /\ modified = [t \in Target |-> <<>>]
  /\ delete = [t \in Target |-> FALSE]
  /\ dest = [t \in Target |-> [p \in Path |-> IF p = <<>> THEN Dir ELSE Absent]]
  /\ deaths = 0

-----------------------------------------------------------------------------
(* The user.                                                               *)

Visit(p) == [path |-> p, leave |-> FALSE, names |-> {}]
Leave(p, names) == [path |-> p, leave |-> TRUE, names |-> names]

Sum(f) == FoldFunction(+, 0, f)

\* The bounds, after a step.
Bounded ==
  /\ Sum(serial') <= MaxSend /\ clock' <= MaxChange + 1 /\ deaths' <= MaxDeath
  /\ LET inuse == Cardinality({t \in Target : serial'[t] > 0})
     IN  /\ inuse * (clock' - 1 + deaths' + Cardinality(unread')) <= MaxTrouble
         /\ inuse * Cardinality({p \in Path : source'[p] # Absent}) <= MaxWork

\* Targets come into use in their order, which makes no difference.
AddTarget(t, d) ==
  /\ t > 1 => serial[t - 1] > 0
  /\ pc = "idle" /\ t \notin channels /\ task[t] \in {"none", "closed"}
  /\ channels' = channels \cup {t}
  /\ serial' = [serial EXCEPT ![t] = @ + 1]
  /\ delete' = [delete EXCEPT ![t] = d]
  /\ task' = [task EXCEPT ![t] = "tree"]
  /\ stack' = [stack EXCEPT ![t] = <<Visit(<<>>)>>]
  /\ UNCHANGED <<sourcevars, stable, queue, links, walk, to_send, pc, current,
                 wire, modified, dest, deaths>>
  /\ Bounded

SendBegins ==
  /\ pc = "idle" /\ channels # {}
  /\ pc' = "walk"
  /\ walk' = <<<<>>>>
  /\ stable' = TRUE
  /\ UNCHANGED <<sourcevars, fixed, channels, queue, links, to_send, current, remote,
                 wire, deaths>>

\* The source changes: what is put in the place of something else has a new time.
Change(p, e) ==
  /\ p # <<>> /\ e # source[p] /\ InDir(source, p)
  /\ e \in Things(p, clock + 1)
  /\ source' = With(source, p, e)
  /\ had' = [q \in Path |-> had[q] \cup {source'[q]}]
  /\ clock' = clock + 1
  /\ stable' = FALSE
  /\ UNCHANGED <<unread, fixed, channels, queue, links, walk, to_send, pc, current, remote,
                 wire, deaths>>
  /\ Bounded

\* After a failure: new gateways and a new RSync object.
StartOver ==
  /\ pc = "failed"
  /\ pc' = "idle"
  /\ channels' = {} /\ queue' = <<>> /\ links' = <<>> /\ walk' = <<>> /\ to_send' = {}
  /\ task' = [t \in Target |-> "none"]
  /\ wire' = [t \in Target |-> <<>>]
  /\ stack' = wire' /\ modified' = wire'
  /\ UNCHANGED <<sourcevars, stable, fixed, current, dest, deaths>>

-----------------------------------------------------------------------------
(* send().                                                                 *)

Closed(t) == task[t] \in {"closed", "error"}

\* Channel.send() to each of T.  It raises OSError when one of the channels is closed; some
\* of the others have got the messages by then.
SendAll(T, msgs, next) ==
  \E S \in SUBSET T :
    /\ IF \E t \in T : Closed(t)
       THEN pc' = "failed" /\ \A t \in S : ~Closed(t)
       ELSE pc' = next /\ S = T
    /\ wire' = [t \in Target |-> IF t \in S THEN wire[t] \o msgs ELSE wire[t]]

SendDirectory(p) ==
  /\ source[p] = Dir
  /\ LET names == SetToSeq({q \in Children(p) : source[q] # Absent})
     IN  /\ SendAll(channels, <<[type |-> "dir", names |-> names]>>, "walk")
         /\ walk' = names \o Tail(walk)
  /\ UNCHANGED links

\* os.path.relpath(): the path below the source that a link leads to, if there is one.  A
\* relative link is taken to start in the current directory.
Relpath(l) ==
  LET starts == IF l.base = "source" THEN {<<>>} ELSE IF l.base = "relative" THEN Cwd ELSE {}
  IN  {c \o l.at : c \in starts} \ {<<>>}

\* A link into the source is sent as that path, any other one as it is.
PointOf(l) ==
  IF Relpath(l) = {} THEN [type |-> "link", text |-> l]
  ELSE [type |-> "linkbase",
        text |-> [base |-> "relative", at |-> CHOOSE q \in Relpath(l) : TRUE]]

SendLinkStructure(p) ==
  /\ source[p].type = "link"
  /\ links' = Append(links, [path |-> p, to |-> PointOf(source[p].to)])
  /\ SendAll(channels, <<[type |-> "link"]>>, "walk")
  /\ walk' = Tail(walk)

\* A file that has vanished is described by zeros.
SendFile(p) ==
  /\ source[p].type \in {"file", "absent"}
  /\ SendAll(channels,
       <<IF source[p] = Absent
         THEN [type |-> "file", size |-> 0, mtime |-> 0]
         ELSE [type |-> "file", size |-> Size(source[p].data), mtime |-> source[p].mtime]>>,
       "walk")
  /\ walk' = Tail(walk)
  /\ UNCHANGED links

\* ValueError, or OSError when listdir() or readlink() fails.
SendRaises(p) ==
  /\ source[p].type \in {"other", "dir", "link"}
  /\ pc' = "failed"
  /\ UNCHANGED <<walk, links, wire>>

SendDirectoryStructure ==
  /\ pc = "walk" /\ walk # <<>>
  /\ LET p == Head(walk)
     IN  SendDirectory(p) \/ SendLinkStructure(p) \/ SendFile(p) \/ SendRaises(p)
  /\ UNCHANGED <<sourcevars, stable, fixed, channels, queue, to_send, current, remote,
                 deaths>>

WalkEnds ==
  /\ pc = "walk" /\ walk = <<>>
  /\ pc' = "loop"
  /\ to_send' = {}
  /\ UNCHANGED <<sourcevars, stable, fixed, channels, queue, links, walk, current, remote,
                 wire, deaths>>

LoopEnds ==
  /\ pc = "loop" /\ channels = {}
  /\ pc' = "idle"
  /\ UNCHANGED <<sourcevars, stable, fixed, channels, queue, links, walk, to_send, current,
                 remote, wire, deaths>>

\* The next request, if it is of this type.
Get(type) ==
  /\ pc = "loop" /\ channels # {} /\ queue # <<>>
  /\ Head(queue).wish.type = type
  /\ queue' = Tail(queue)
  /\ UNCHANGED <<source, clock, had, stable, fixed, links, walk, remote, deaths>>

From == Head(queue).target

\* The end of a channel: too early, or of one that is done with.
EndOfChannel ==
  /\ Get("end")
  /\ pc' = IF From \in channels /\ Head(queue).serial = serial[From] THEN "failed" ELSE "loop"
  /\ UNCHANGED <<unread, channels, to_send, current, wire>>

LinkMessages ==
  [i \in DOMAIN links |-> [type |-> "to", path |-> links[i].path, to |-> links[i].to]]

\* Mutant: links are sent without the marker of their end.
ProcessLinkUnmarked ==
  /\ Get("links")
  /\ SendAll({From}, LinkMessages, "loop")
  /\ UNCHANGED <<unread, channels, to_send, current>>

ProcessLink ==
  /\ Get("links")
  /\ SendAll({From}, LinkMessages \o <<[type |-> "end"]>>, "loop")
  /\ UNCHANGED <<unread, channels, to_send, current>>

\* _done() calls the callback for a finished target and waits for its channel.
Done ==
  /\ Get("done")
  /\ channels' = channels \ {From}
  /\ current' = From
  /\ pc' = "closing"
  /\ UNCHANGED <<unread, to_send, wire>>

WaitClose ==
  /\ pc = "closing" /\ Closed(current)
  /\ pc' = IF task[current] = "error" THEN "failed" ELSE "loop"
  /\ UNCHANGED <<sourcevars, stable, fixed, channels, queue, links, walk, to_send, current,
                 remote, wire, deaths>>

\* KeyError when the target has asked for nothing.
ListDone ==
  /\ Get("list_done")
  /\ pc' = IF Callback /\ From \notin to_send THEN "failed" ELSE "loop"
  /\ UNCHANGED <<unread, channels, to_send, current, wire>>

Ack ==
  /\ Get("ack")
  /\ UNCHANGED <<unread, pc, channels, to_send, current, wire>>

\* What open() and read() may give: OSError makes it None, also when there is a file.
Read(p) == IF source[p].type = "file" THEN {source[p].data, None} ELSE {None}

Missed(p, data) ==
  IF source[p].type = "file" /\ data = None THEN {<<p, source[p].mtime>>} ELSE {}

SendItem ==
  /\ Get("send")
  /\ to_send' = to_send \cup {From}
  /\ LET wish == Head(queue).wish
     IN  \E data \in Read(wish.path) :
           /\ unread' = unread \cup Missed(wish.path, data)
           /\ SendAll({From}, <<[type |-> "data",
                                 data |-> IF data = wish.checksum THEN None ELSE data]>>, "loop")
  /\ UNCHANGED <<channels, current>>
  /\ Bounded

-----------------------------------------------------------------------------
(* serve_rsync().                                                          *)

Request(t, wish) ==
  queue' = Append(queue, [target |-> t, serial |-> serial[t], wish |-> wish])

Local == UNCHANGED <<sourcevars, stable, fixed, channels, links, walk, to_send, pc, current,
                     deaths>>

\* Channel.receive()
Receive(t, type) ==
  /\ wire[t] # <<>> /\ Head(wire[t]).type = type
  /\ wire' = [wire EXCEPT ![t] = Tail(@)]
  /\ Local

Top(t) == stack[t][1]

Descend(t, type) ==
  /\ task[t] = "tree" /\ stack[t] # <<>> /\ ~Top(t).leave
  /\ Receive(t, type)

ReceiveDirectory(t) ==
  /\ Descend(t, "dir")
  /\ LET p == Top(t).path
         names == Head(wire[t]).names
     IN  /\ dest' = IF dest[t][p] = Dir THEN dest ELSE [dest EXCEPT ![t] = With(@, p, Dir)]
         /\ stack' = [stack EXCEPT ![t] =
              [i \in DOMAIN names |-> Visit(names[i])] \o <<Leave(p, ToSet(names))>> \o Tail(@)]
  /\ UNCHANGED <<queue, task, modified>>

\* Mutant: does not heed the option.
LeaveDirectoryClean(t) ==
  /\ task[t] = "tree" /\ stack[t] # <<>> /\ Top(t).leave
  /\ dest' = [dest EXCEPT ![t] = Without(@, Children(Top(t).path) \ Top(t).names)]
  /\ stack' = [stack EXCEPT ![t] = Tail(@)]
  /\ Local
  /\ UNCHANGED <<queue, wire, task, modified>>

LeaveDirectory(t) ==
  /\ task[t] = "tree" /\ stack[t] # <<>> /\ Top(t).leave
  /\ dest' = IF delete[t]
             THEN [dest EXCEPT ![t] = Without(@, Children(Top(t).path) \ Top(t).names)]
             ELSE dest
  /\ stack' = [stack EXCEPT ![t] = Tail(@)]
  /\ Local
  /\ UNCHANGED <<queue, wire, task, modified>>

SameSize(e, msg) == e.type = "file" /\ Size(e.data) = msg.size

\* Mutant: files of the same size are taken for the same.
FineBySize(e, msg) == SameSize(e, msg) /\ e.data # Partial

\* "already fine"
Fine(e, msg) == SameSize(e, msg) /\ e.mtime = msg.mtime

\* Mutant: the last file first.
RememberFirst(files, f) == <<f>> \o files

\* modifiedfiles.append()
Remember(files, f) == Append(files, f)

ReceiveFile(t) ==
  /\ Descend(t, "file")
  /\ LET p == Top(t).path
         e == dest[t][p]
         msg == Head(wire[t])
     IN  IF Fine(e, msg)
         THEN UNCHANGED <<queue, dest, modified>>
         ELSE /\ dest' = IF e.type = "file" THEN dest
                         ELSE [dest EXCEPT ![t] = Without(@, {p})]
              /\ Request(t, [type |-> "send", path |-> p,
                             checksum |-> IF SameSize(e, msg) THEN e.data ELSE None])
              /\ modified' = [modified EXCEPT ![t] =
                   Remember(@, [path |-> p, mtime |-> msg.mtime, data |-> None])]
  /\ stack' = [stack EXCEPT ![t] = Tail(@)]
  /\ UNCHANGED task

\* Links are made at the end.
ReceiveLink(t) ==
  /\ Descend(t, "link")
  /\ stack' = [stack EXCEPT ![t] = Tail(@)]
  /\ UNCHANGED <<queue, task, modified, dest>>

TreeEnds(t) ==
  /\ task[t] = "tree" /\ stack[t] = <<>>
  /\ task' = [task EXCEPT ![t] = "files"]
  /\ Request(t, [type |-> "list_done"])
  /\ Local
  /\ UNCHANGED <<wire, stack, modified, dest>>

\* Mutant: what there is not is written.
ReceiveAnything(t) ==
  /\ task[t] = "files" /\ modified[t] # <<>>
  /\ Receive(t, "data")
  /\ Request(t, [type |-> "ack"])
  /\ LET data == Head(wire[t]).data
     IN  /\ task' = [task EXCEPT ![t] = "write"]
         /\ modified' = [modified EXCEPT ![t][1].data = data]
         /\ dest' = [dest EXCEPT ![t][modified[t][1].path] = File(Partial, Now)]
  /\ UNCHANGED stack

\* The file is opened for writing, unless there is nothing to write.
ReceiveData(t) ==
  /\ task[t] = "files" /\ modified[t] # <<>>
  /\ Receive(t, "data")
  /\ Request(t, [type |-> "ack"])
  /\ LET data == Head(wire[t]).data
     IN  IF data = None
         THEN task' = [task EXCEPT ![t] = "utime"] /\ UNCHANGED <<modified, dest>>
         ELSE /\ task' = [task EXCEPT ![t] = "write"]
              /\ modified' = [modified EXCEPT ![t][1].data = data]
              /\ dest' = [dest EXCEPT ![t][modified[t][1].path] = File(Partial, Now)]
  /\ UNCHANGED stack

Write(t) ==
  /\ task[t] = "write"
  /\ task' = [task EXCEPT ![t] = "utime"]
  /\ dest' = [dest EXCEPT ![t][modified[t][1].path].data = modified[t][1].data]
  /\ Local
  /\ UNCHANGED <<queue, wire, stack, modified>>

\* Errors are ignored: the file need not exist.
Utime(t) ==
  /\ task[t] = "utime"
  /\ task' = [task EXCEPT ![t] = "files"]
  /\ LET f == modified[t][1]
     IN  dest' = IF dest[t][f.path].type = "file"
                 THEN [dest EXCEPT ![t][f.path].mtime = f.mtime]
                 ELSE dest
  /\ modified' = [modified EXCEPT ![t] = Tail(@)]
  /\ Local
  /\ UNCHANGED <<queue, wire, stack>>

FilesEnd(t) ==
  /\ task[t] = "files" /\ modified[t] = <<>>
  /\ task' = [task EXCEPT ![t] = "links"]
  /\ Request(t, [type |-> "links"])
  /\ Local
  /\ UNCHANGED <<wire, stack, modified, dest>>

\* What is below the source becomes absolute again, below the target directory.
Joined(to) == IF to.type = "linkbase" THEN [to.text EXCEPT !.base = "target"] ELSE to.text

\* os.symlink() raises when there is no directory for the link.
MakeLink(t) ==
  /\ task[t] = "links"
  /\ Receive(t, "to")
  /\ LET link == Head(wire[t])
     IN  IF InDir(dest[t], link.path)
         THEN /\ dest' = [dest EXCEPT ![t] = With(@, link.path, LinkTo(Joined(link.to)))]
              /\ UNCHANGED task
         ELSE task' = [task EXCEPT ![t] = "failed"] /\ UNCHANGED dest
  /\ UNCHANGED <<queue, stack, modified>>

LinksEnd(t) ==
  /\ task[t] = "links"
  /\ Receive(t, "end")
  /\ task' = [task EXCEPT ![t] = "done"]
  /\ Request(t, [type |-> "done"])
  /\ UNCHANGED <<stack, modified, dest>>

\* The task has ended: its channel is closed, with an error or without.
ChannelCloses(t) ==
  /\ task[t] \in {"done", "failed"}
  /\ task' = [task EXCEPT ![t] = IF @ = "done" THEN "closed" ELSE "error"]
  /\ Request(t, [type |-> "end"])
  /\ Local
  /\ UNCHANGED <<wire, stack, modified, dest>>

\* An exception, or the end of the process or of the connection.
Die(t) ==
  /\ task[t] \notin {"none", "failed", "closed", "error"}
  /\ task' = [task EXCEPT ![t] = "failed"]
  /\ deaths' = deaths + 1
  /\ UNCHANGED <<sourcevars, stable, fixed, channels, queue, links, walk, to_send, pc,
                 current, wire, stack, modified, dest>>
  /\ Bounded

-----------------------------------------------------------------------------
Sender ==
  \/ SendDirectoryStructure \/ WalkEnds \/ LoopEnds
  \/ EndOfChannel \/ ProcessLink \/ Done \/ WaitClose \/ ListDone \/ Ack \/ SendItem

Serve(t) ==
  \/ ReceiveDirectory(t) \/ LeaveDirectory(t) \/ ReceiveFile(t) \/ ReceiveLink(t)
  \/ TreeEnds(t) \/ ReceiveData(t) \/ Write(t) \/ Utime(t) \/ FilesEnd(t)
  \/ MakeLink(t) \/ LinksEnd(t) \/ ChannelCloses(t)

Next ==
  \/ \E t \in Target, d \in BOOLEAN : AddTarget(t, d)
  \/ SendBegins \/ StartOver \/ Sender
  \/ \E p \in Path : \E e \in Things(p, clock + 1) : Change(p, e)
  \/ \E t \in Target : Serve(t) \/ Die(t)

\* Both sides go on; nobody has to call send().
Fairness == WF_vars(Sender) /\ \A t \in Target : WF_vars(Serve(t))

Spec == Init /\ [][Next]_vars

FairSpec == Spec /\ Fairness

-----------------------------------------------------------------------------
(* Properties.                                                             *)

\* All links that will be made are still in the source.  (_links is never emptied, so
\* a second send() makes the links of the first one again.)
LinksCurrent == \A i \in DOMAIN links : source[links[i].path].type = "link"

\* A link into the source becomes one into the target, any other one stays as it is.  (A relative
\* one does so only when the current directory is not in the source.)
SameLink(l, e) ==
  /\ e.type = "link"
  /\ \/ e.to = IF l.base = "source" /\ l.at # <<>> THEN [l EXCEPT !.base = "target"] ELSE l
     \/ l.base = "relative" /\ Cwd # {}

\* What the source has, the target has, and with "delete" nothing else.  (A file that could not be
\* read is given up, and may be taken for fine ever after.)
Synced(t) ==
  \A p \in Path :
    LET s == source[p]
        e == dest[t][p]
    IN  /\ s # Other
        /\ s = Dir => e = Dir
        /\ s.type = "file" => e = s \/ <<p, s.mtime>> \in unread
        /\ s.type = "link" => SameLink(s.to, e)
        /\ s = Absent /\ delete[t] => e = Absent

\* When the callback for a finished target is called, the target equals the source, if
\* that has not changed meanwhile: however often it was synchronized before, from
\* which sources, and whichever of these attempts ended half way.  And without "delete" a file
\* goes only with its directory, when the source had something else there or no longer had it.
\* Nothing is written at a target where there is no directory, also when the target has something
\* else at a path than the source.
FinishedMeansSynced ==
  [][\A t \in Target :
       /\ pc' = "closing" /\ t \in channels \ channels' /\ stable /\ LinksCurrent => Synced(t)
       /\ \A p \in Path :
            dest[t][p].type = "file" /\ dest'[t][p] = Absent =>
              delete[t] \/ \E q \in Path : IsStrictPrefix(q, p) /\ had[q] # {Dir}
       /\ \A p \in Path \ {<<>>} : dest'[t][p] # Absent => InDir(dest'[t], p)]_vars

\* Contents and files are matched by their order alone: no file ever gets the contents
\* of another one.
NoMixUp ==
  \A t \in Target, p \in Path :
    dest[t][p].type = "file" /\ dest[t][p].data # Partial =>
      \E e \in had[p] : e.type = "file" /\ e.data = dest[t][p].data

\* send() returns or raises, whichever targets die.
SendEnds == pc \in {"walk", "loop", "closing"} ~> pc \in {"idle", "failed"}
=============================================================================
