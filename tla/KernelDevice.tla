----------------------------- MODULE KernelDevice -----------------------------
(***************************************************************************)
(* The kernel driver: driver/linuxkernel/device.go, event.go, and of       *)
(* feature.go what opens, closes and reads a feature.                      *)
(*                                                                         *)
(* Each feature of the Wiimote is an input device of its own.  The driver  *)
(* keeps the nodes it knows (availIfs), the features it has opened         *)
(* (openIfs), an epoll set with their descriptors and the udev monitor,    *)
(* and a queue of announcements.  The kernel and udev change the nodes at  *)
(* any time.  The maps have no lock, so the calls come one after another.  *)
(***************************************************************************)
EXTENDS Integers, Sequences, FiniteSets

CONSTANTS
  Kinds,      \* the features, numbered in the order that readNodes meets them
  Rumbles,    \* those with a motor, whose open also uploads an effect
  Nodes,      \* names of event nodes; the kernel uses them again
  Fds,        \* the file descriptors the process can have
  None, Closed,
  QueueCap,   \* capacity of moreEvents (1024 in the code)
  Work        \* the calls that are made

Polls == {"Poll", "Wait"}

ASSUME KindAssumption == Kinds \subseteq Nat /\ Rumbles \subseteq Kinds
ASSUME NameAssumption == None \notin Nodes \cup Kinds \cup Fds /\ Closed \notin Fds /\ None # Closed
ASSUME DescriptorAssumption == Fds \subseteq Nat
ASSUME WorkAssumption == Work \subseteq Polls \cup {"OpenFeatures", "Close"}
\* The announcements of one hotplug fit in the queue: 10 features, each of them
\* open and closed in turn, against 1024.
ASSUME QueueAssumption ==
  /\ QueueCap \in Nat /\ IsFiniteSet(Kinds)
  /\ Cardinality(Kinds) * (Cardinality(Kinds) + 1) <= QueueCap

VARIABLES
  \* the kernel and udev
  present,     \* the node of each feature that is there
  umsgs,       \* what the monitor has not told yet
  health,      \* of each descriptor: "quiet", "input" to read, or "dead"
  files,       \* the feature behind each open descriptor
  \* the device object
  listening,   \* the monitor is enabled
  availIfs,    \* the node known for each feature
  openIfs,     \* the object of each feature: its descriptor, or Closed
  moreEvents,  \* how many announcements (EventFeature) wait to be returned
  \* the call in progress
  pc, op, todo,
  left,        \* the nodes that readNodes has still to note
  result,      \* what the call returns when the nodes are read
  \* history
  held,        \* descriptors of objects replaced in openIfs, known to the caller
  unheard      \* features changed since the last reading, unheard by the monitor

envVars == <<present, umsgs, unheard>>
fdVars == <<health, files>>
nodeVars == <<availIfs, moreEvents, left>>
openVars == <<openIfs, held>>
callVars == <<op, todo, result>>
vars == <<envVars, fdVars, nodeVars, openVars, callVars, listening, pc>>

\* The first of S, as a set, which is empty if S is.
First(S) == {x \in S : \A y \in S : x <= y}

\* Features whose object in openIfs is open, and the free descriptor that the
\* kernel gives out next, if there is one.
Opened == {k \in Kinds : openIfs[k] \in Fds}
Lowest == First({f \in Fds : files[f] = None})
Nothing == [k \in Kinds |-> None]

-----------------------------------------------------------------------------
Init ==
  /\ present \in {s \in [Kinds -> Nodes \cup {None}] :
                    \A j, k \in Kinds : s[j] = s[k] => j = k \/ s[j] = None}
  /\ umsgs = {} /\ unheard = {}
  /\ health = [f \in Fds |-> "quiet"] /\ files = [f \in Fds |-> None]
  /\ listening = FALSE
  /\ availIfs = Nothing /\ openIfs = Nothing /\ moreEvents = 0
  /\ pc = "new" /\ op = "NewDevice" /\ todo = {}
  /\ left = Nothing /\ result = "none"
  /\ held = {}

-----------------------------------------------------------------------------
(* The kernel and udev (external) *)

\* The monitor is told of a change of the features S, if it is enabled.
Notify(m, S) ==
  /\ umsgs' = IF listening THEN umsgs \cup {m} ELSE umsgs
  /\ unheard' = IF listening THEN unheard ELSE unheard \cup S

\* What is opened on the features S can no longer be read, and readNodes skips
\* their nodes when it comes to them: the device of a name that is gone is empty.
Kill(S) ==
  /\ health' = [f \in Fds |-> IF files[f] \in S THEN "dead" ELSE health[f]]
  /\ left' = [k \in Kinds |-> IF k \in S THEN None ELSE left[k]]

\* The input device of a feature appears, and is told of, before its event node.
PlugInput(k) ==
  /\ present[k] = None
  /\ Notify("hotplug", {})
  /\ UNCHANGED <<present, fdVars, nodeVars, openVars, callVars, listening, pc>>

\* Its event node appears, and the Wiimote tells of its change.
Plug(k) ==
  /\ present[k] = None
  /\ \E n \in Nodes :
       /\ \A j \in Kinds : present[j] # n
       /\ present' = [present EXCEPT ![k] = n]
  /\ Notify("hotplug", {k})
  /\ UNCHANGED <<fdVars, nodeVars, openVars, callVars, listening, pc>>

Unplug(k) ==
  /\ present[k] # None
  /\ present' = [present EXCEPT ![k] = None]
  /\ Kill({k})
  /\ Notify("hotplug", {k})
  /\ UNCHANGED <<files, availIfs, moreEvents, openVars, callVars, listening, pc>>

\* The whole Wiimote is removed.
Remove ==
  /\ present' = Nothing
  /\ Kill(Kinds)
  /\ Notify("remove", Kinds)
  /\ UNCHANGED <<files, availIfs, moreEvents, openVars, callVars, listening, pc>>

Input(k) ==
  /\ present[k] # None
  /\ \E f \in Fds : files[f] = k /\ health[f] = "quiet"
  /\ health' = [f \in Fds |-> IF files[f] = k /\ health[f] = "quiet" THEN "input" ELSE health[f]]
  /\ UNCHANGED <<envVars, files, nodeVars, openVars, callVars, listening, pc>>

-----------------------------------------------------------------------------
(* readNodes *)

\* Mutant of Announce: a node that is already known is not noted again.
AnnounceNew ==
  /\ pc = "scan"
  /\ \E k \in First({j \in Kinds : left[j] # None}) :
       /\ moreEvents < QueueCap
       /\ availIfs' = IF availIfs[k] = None THEN [availIfs EXCEPT ![k] = left[k]] ELSE availIfs
       /\ moreEvents' = moreEvents + 1
       /\ left' = [left EXCEPT ![k] = None]
  /\ UNCHANGED <<envVars, fdVars, openVars, callVars, listening, pc>>

\* Mutant of Announce: the queue is a slice that grows.
AnnounceGrowing ==
  /\ pc = "scan"
  /\ \E k \in First({j \in Kinds : left[j] # None}) :
       /\ availIfs' = [availIfs EXCEPT ![k] = left[k]]
       /\ moreEvents' = moreEvents + 1
       /\ left' = [left EXCEPT ![k] = None]
  /\ UNCHANGED <<envVars, fdVars, openVars, callVars, listening, pc>>

\* The next node is noted and announced.  The send blocks at a full queue.
Announce ==
  /\ pc = "scan"
  /\ \E k \in First({j \in Kinds : left[j] # None}) :
       /\ moreEvents < QueueCap
       /\ availIfs' = [availIfs EXCEPT ![k] = left[k]]
       /\ moreEvents' = moreEvents + 1
       /\ left' = [left EXCEPT ![k] = None]
  /\ UNCHANGED <<envVars, fdVars, openVars, callVars, listening, pc>>

\* The descriptor leaves the epoll set and is closed.
CloseFile(f) ==
  /\ files' = [files EXCEPT ![f] = None]
  /\ health' = [health EXCEPT ![f] = "quiet"]

\* readNodes begins with the nodes that are there now; r is what the call
\* returns in the end.
StartScan(r) ==
  /\ pc' = "scan" /\ result' = r
  /\ left' = present /\ unheard' = {}

\* Then it closes every feature whose Kind() is not available.  No feature has
\* a kind (open does not set it), so that is every open one; and Close calls
\* readNodes again.
CloseUnavailable ==
  /\ pc = "scan" /\ left = Nothing
  /\ \E k \in Opened :
       /\ CloseFile(openIfs[k])
       /\ openIfs' = [openIfs EXCEPT ![k] = Closed]
  /\ StartScan(result)
  /\ UNCHANGED <<present, umsgs, availIfs, moreEvents, held, op, todo, listening>>

\* The call returns.
Return == pc' = "idle" /\ op' = "none" /\ result' = "none" /\ todo' = todo

\* Mutant of NodesRead: the messages are taken when the nodes have been read.
NodesReadLate ==
  /\ pc = "scan" /\ left = Nothing /\ Opened = {}
  /\ umsgs' = {}
  /\ IF op = "NewDevice" THEN pc' = "enable" /\ UNCHANGED callVars ELSE Return
  /\ UNCHANGED <<present, unheard, fdVars, nodeVars, openVars, listening>>

NodesRead ==
  /\ pc = "scan" /\ left = Nothing /\ Opened = {}
  /\ IF op = "NewDevice" THEN pc' = "enable" /\ UNCHANGED callVars ELSE Return
  /\ UNCHANGED <<envVars, fdVars, nodeVars, openVars, listening>>

-----------------------------------------------------------------------------
(* NewDevice *)

ReadFirst ==
  /\ pc = "new"
  /\ StartScan("done")
  /\ UNCHANGED <<present, umsgs, fdVars, availIfs, moreEvents, openVars, op, todo, listening>>

EnableReceiving ==
  /\ pc = "enable"
  /\ listening' = TRUE
  /\ Return
  /\ UNCHANGED <<envVars, fdVars, nodeVars, openVars>>

-----------------------------------------------------------------------------
(* OpenFeatures and Close *)

Begin(call) ==
  /\ pc = "idle" /\ call \in Work
  /\ op' = call

OpenFeatures(ifaces) ==
  /\ Begin("OpenFeatures")
  /\ todo' = ifaces /\ pc' = "open"
  /\ UNCHANGED <<envVars, fdVars, nodeVars, openIfs, held, result, listening>>

\* The feature whose node is known for k, which is another one if the node was
\* given away since.
Behind(k) == {j \in Kinds : present[j] # None /\ present[j] = availIfs[k]}

\* The effect is not uploaded: the descriptor stays open, the object is dropped.
OpenHalf(k, j, f) ==
  /\ k \in Rumbles
  /\ files' = [files EXCEPT ![f] = j]
  /\ UNCHANGED <<health, openIfs, held>>

\* A new object takes the place of the old one, open or not.
OpenWhole(k, j, f) ==
  /\ k \in Rumbles => j \in Rumbles
  /\ files' = [files EXCEPT ![f] = j]
  /\ openIfs' = [openIfs EXCEPT ![k] = f]
  /\ held' = IF k \in Opened THEN held \cup {openIfs[k]} ELSE held
  /\ health' = health

\* The next of the requested features: it is not available, the kernel refuses
\* to open its node, or it is opened.
OpenNext ==
  /\ pc = "open"
  /\ \E k \in First(todo) :
       /\ todo' = todo \ {k}
       /\ \/ UNCHANGED <<fdVars, openIfs, held>>
          \/ /\ availIfs[k] # None
             /\ \E j \in Behind(k), f \in Lowest : OpenHalf(k, j, f) \/ OpenWhole(k, j, f)
  /\ UNCHANGED <<envVars, nodeVars, op, result, listening, pc>>

OpenDone ==
  /\ pc = "open" /\ todo = {}
  /\ Return
  /\ UNCHANGED <<envVars, fdVars, nodeVars, openVars, listening>>

\* Mutant of CloseFeature: the object is not marked as closed.
CloseUnmarked(f) ==
  /\ f \in held \/ \E k \in Opened : openIfs[k] = f
  /\ Begin("Close")
  /\ CloseFile(f)
  /\ held' = held \ {f}
  /\ StartScan("done")
  /\ UNCHANGED <<present, umsgs, availIfs, moreEvents, openIfs, todo, listening>>

\* Close of an open object, in openIfs or replaced there.  It deletes the entry
\* of its kind, which is none: the object stays in openIfs.
CloseFeature(f) ==
  /\ f \in held \/ \E k \in Opened : openIfs[k] = f
  /\ Begin("Close")
  /\ CloseFile(f)
  /\ openIfs' = [k \in Kinds |-> IF openIfs[k] = f THEN Closed ELSE openIfs[k]]
  /\ held' = held \ {f}
  /\ StartScan("done")
  /\ UNCHANGED <<present, umsgs, availIfs, moreEvents, todo, listening>>

-----------------------------------------------------------------------------
(* Poll and Wait *)

StartPoll(call) ==
  /\ Begin(call)
  /\ pc' = "poll"
  /\ UNCHANGED <<envVars, fdVars, nodeVars, openIfs, held, todo, result, listening>>

\* A queued announcement comes first.
Take ==
  /\ pc = "poll" /\ moreEvents > 0
  /\ moreEvents' = moreEvents - 1
  /\ Return
  /\ UNCHANGED <<envVars, fdVars, availIfs, left, openVars, listening>>

\* Mutant of AtEpoll: the queue is not looked at first.
AtEpollAlways == pc = "poll"

\* Poll goes on to the epoll set.
AtEpoll == pc = "poll" /\ moreEvents = 0

\* Mutant of Readable: the monitor is not in the epoll set.
ReadableFiles == \E f \in Fds : files[f] # None /\ health[f] # "quiet"

\* What epoll reports.
Readable == umsgs # {} \/ \E f \in Fds : files[f] # None /\ health[f] # "quiet"

\* readUmon takes all messages, ...
ReadUmon ==
  /\ AtEpoll /\ umsgs # {}
  /\ umsgs' = {} /\ pc' = "drained"
  /\ result' = IF "remove" \in umsgs THEN "gone" ELSE "watch"
  /\ UNCHANGED <<present, unheard, fdVars, nodeVars, openVars, op, todo, listening>>

\* ... and then reads the nodes: what changes in between is told again.
ReadNodes ==
  /\ pc = "drained"
  /\ StartScan(result)
  /\ UNCHANGED <<present, umsgs, fdVars, availIfs, moreEvents, openVars, op, todo, listening>>

\* An event of an open feature that means something; more may follow.
ReadInput(k) ==
  /\ AtEpoll /\ k \in Opened /\ health[openIfs[k]] = "input"
  /\ health' \in {health, [health EXCEPT ![openIfs[k]] = "quiet"]}
  /\ Return
  /\ UNCHANGED <<envVars, files, nodeVars, openVars, listening>>

\* A feature cannot be read: it is closed, and Poll returns EventWatch.
ReadFails(k) ==
  /\ AtEpoll /\ k \in Opened /\ health[openIfs[k]] = "dead"
  /\ CloseFile(openIfs[k])
  /\ openIfs' = [openIfs EXCEPT ![k] = Closed]
  /\ StartScan("watch")
  /\ UNCHANGED <<present, umsgs, availIfs, moreEvents, held, op, todo, listening>>

\* ErrWouldBlock: Poll returns it, Wait waits for the epoll set.
WouldBlock ==
  /\ IF op = "Poll" THEN Return ELSE pc' = "await" /\ UNCHANGED callVars
  /\ UNCHANGED <<envVars, files, nodeVars, openVars, listening>>

\* The events read mean nothing: the rest of what epoll reported is left.
Ignore(k) ==
  /\ AtEpoll /\ k \in Opened /\ health[openIfs[k]] = "input"
  /\ health' = [health EXCEPT ![openIfs[k]] = "quiet"]
  /\ WouldBlock

\* Nothing that epoll reports belongs to the monitor or to a feature in openIfs.
NothingRead ==
  /\ AtEpoll /\ umsgs = {}
  /\ \A k \in Opened : health[openIfs[k]] = "quiet"
  /\ WouldBlock /\ health' = health

Await ==
  /\ pc = "await" /\ Readable
  /\ pc' = "poll"
  /\ UNCHANGED <<envVars, fdVars, nodeVars, openVars, callVars, listening>>

-----------------------------------------------------------------------------
Kernel == Remove \/ \E k \in Kinds : PlugInput(k) \/ Plug(k) \/ Unplug(k) \/ Input(k)

Call ==
  \/ \E call \in Polls : StartPoll(call)
  \/ \E ifaces \in SUBSET Kinds : OpenFeatures(ifaces)
  \/ \E f \in Fds : CloseFeature(f)

PollStep ==
  \/ Take \/ ReadUmon \/ ReadNodes \/ NothingRead \/ Await
  \/ \E k \in Kinds : ReadInput(k) \/ ReadFails(k) \/ Ignore(k)

Step == \/ ReadFirst \/ Announce \/ CloseUnavailable \/ NodesRead \/ EnableReceiving
        \/ OpenNext \/ OpenDone \/ PollStep

Next == Kernel \/ Call \/ Step

Spec == Init /\ [][Next]_vars

\* The goroutine runs when it can.  epoll reports in turn what is ready, so the
\* monitor and a dead descriptor are not passed over for ever.
Fairness == /\ WF_vars(Step) /\ SF_vars(ReadUmon)
            /\ \A k \in Kinds : SF_vars(ReadFails(k))

LiveSpec == Spec /\ Fairness
=============================================================================
