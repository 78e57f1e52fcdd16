----------------------------- MODULE KernelCorrect ----------------------------
(* What the kernel driver is to guarantee. *)
EXTENDS KernelDevice

Labels == {"new", "scan", "enable", "idle", "open", "poll", "drained", "await"}
Results == {"none", "done", "watch", "gone"}
NodeMap == [Kinds -> Nodes \cup {None}]

\* The values of every variable; no two features have one node.
TypeOK ==
  /\ present \in NodeMap
  /\ \A j, k \in Kinds : present[j] = present[k] => j = k \/ present[j] = None
  /\ umsgs \in SUBSET {"hotplug", "remove"}
  /\ health \in [Fds -> {"quiet", "input", "dead"}]
  /\ files \in [Fds -> Kinds \cup {None}]
  /\ listening \in BOOLEAN
  /\ availIfs \in NodeMap /\ left \in NodeMap
  /\ openIfs \in [Kinds -> Fds \cup {None, Closed}]
  /\ moreEvents \in 0..QueueCap
  /\ pc \in Labels /\ op \in Polls \cup {"NewDevice", "OpenFeatures", "Close", "none"}
  /\ todo \in SUBSET Kinds
  /\ result \in Results
  /\ held \in SUBSET Fds /\ unheard \in SUBSET Kinds

-----------------------------------------------------------------------------
\* Between calls, and with nothing left in the monitor, the driver knows the
\* node of every feature that is there: no hotplug is lost between the messages
\* and the reading of the nodes, except one between the first reading and the
\* enabling of the monitor.
NodesKnown ==
  pc = "idle" /\ umsgs = {} =>
    \A k \in Kinds \ unheard : present[k] # None => availIfs[k] = present[k]

\* Why: while the nodes are read, what is not known yet is still to be noted; and
\* they are read after the messages were taken.
KnownInv ==
  /\ pc # "scan" => left = Nothing
  /\ \A k \in Kinds : left[k] \in {None, present[k]}
  /\ pc \notin {"new", "drained"} /\ umsgs = {} =>
       \A k \in Kinds \ unheard :
         present[k] # None => present[k] \in {availIfs[k], left[k]}

\* Every open object has an open descriptor of its own, in openIfs or replaced
\* there: closing and opening again never makes two of them share one.
DescriptorsOwned ==
  /\ \A k \in Opened : files[openIfs[k]] # None /\ openIfs[k] \notin held
  /\ \A j, k \in Opened : openIfs[j] = openIfs[k] => j = k
  /\ \A f \in held : files[f] # None

\* Poll reads the nodes only with an empty queue, which takes the announcements
\* of all the readings that follow: it never blocks on its own queue.
PollNeverFull ==
  pc = "scan" /\ left # Nothing /\ op \in Polls => moreEvents < QueueCap

\* A Wait returns when the monitor has a message, or an open feature is dead,
\* whatever else is ready.
WaitReturns ==
  op = "Wait" /\ pc # "idle" /\ (umsgs # {} \/ \E k \in Opened : health[openIfs[k]] = "dead")
    ~> pc = "idle"

\* device.go: "features may be closed automatically during runtime if the kernel
\* removes the feature or on error conditions.  You always get an EventWatch":
\* a feature that could still be read, and that the caller did not ask to close,
\* is closed only in a call that returns EventWatch or EventGone.
ClosedTold ==
  [][\A k \in Opened :
       pc = "scan" /\ openIfs'[k] = Closed /\ health[openIfs[k]] # "dead"
         => result \in {"watch", "gone"}]_vars

\* device.go: the available features "are guaranteed to be present on the
\* hardware at this time": between calls, a feature is available only if it is
\* there, unless the driver could not hear of the change.
AvailablePresent ==
  pc = "idle" /\ umsgs = {} =>
    \A k \in Kinds \ unheard : availIfs[k] # None => present[k] # None
=============================================================================
