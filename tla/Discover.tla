-------------------------------- MODULE Discover --------------------------------
(***************************************************************************)
(* Device discovery, pkg/discover: NewWiimoteMonitor scans the devices     *)
(* that are there and hands them over in a goroutine of its own, enables   *)
(* the monitor of udev, and then provides devices from both through the    *)
(* poller.                                                                 *)
(*                                                                         *)
(* A device appears in sysfs; its driver is bound later; and udevd tells   *)
(* of each when it gets to it, to the monitors enabled by then.            *)
(***************************************************************************)
EXTENDS Integers, Sequences, FiniteSets, SequencesExt

CONSTANTS
  Devices,   \* the HID devices of the driver "wiimote"
  Staying,   \* BOUND: those that are there, with their driver, all the time
  NoDevice,
  MaxPlugs   \* BOUND: how often a device appears

ASSUME PlugAssumption == MaxPlugs \in Nat
ASSUME DeviceAssumption ==
  NoDevice \notin Devices /\ IsFiniteSet(Devices) /\ Staying \subseteq Devices

VARIABLES
  \* the kernel and udevd
  present,   \* devices in sysfs
  bound,     \* those with their driver
  news,      \* what udevd has still to tell of each device
  msgs,      \* what the monitor has not received yet
  plugs,     \* how often a device has appeared
  \* the WiimoteMonitor
  pc,        \* of the goroutine that uses it
  listening, \* the monitor is enabled
  scan,      \* entries of the enumeration left to the other goroutine
  offer,     \* the device it is sending to enum, or NoDevice
  closed,    \* enum is closed
  wait,      \* poller.wait
  use,       \* the caller's loop: "Wait" or "Handle"
  \* history
  count,     \* how often a device was provided since it appeared
  known,     \* devices in the enumeration that have been there since
  missed,    \* told by udevd when the monitor was not enabled, and not in it
  early,     \* looked at before the driver was bound
  again      \* more than one appearance is told of, or one both enumerated and told

kernelVars == <<present, bound, news, plugs>>
scanVars == <<scan, offer, closed>>
histVars == <<count, known, missed, early, again>>
discoverVars == <<kernelVars, msgs, pc, listening, scanVars, wait, use, histVars>>

DiscoverInit ==
  /\ present \in SUBSET Devices /\ bound \in SUBSET present /\ Staying \subseteq bound
  /\ news = [d \in Devices |-> <<>>] /\ msgs = <<>> /\ plugs = 0
  /\ pc = "new" /\ listening = FALSE
  /\ scan = <<>> /\ offer = NoDevice /\ closed = FALSE
  /\ wait = FALSE /\ use \in {"Wait", "Handle"}
  /\ count = [d \in Devices |-> 0]
  /\ known = {} /\ missed = {} /\ early = {} /\ again = {}

-----------------------------------------------------------------------------
(* The kernel and udevd (external) *)

Tell(d, action) == news' = [news EXCEPT ![d] = Append(@, action)]
Kernel == UNCHANGED <<msgs, pc, listening, scanVars, wait, use>>

\* An earlier appearance of d has still to be dealt with.
Awaited(d) ==
  \/ offer = d \/ d \in Range(scan)
  \/ <<d, "add">> \in Range(msgs) \/ "add" \in Range(news[d])

Appear(d) ==
  /\ d \notin present /\ plugs < MaxPlugs
  /\ present' = present \cup {d} /\ bound' = bound /\ plugs' = plugs + 1
  /\ Tell(d, "add")
  /\ count' = [count EXCEPT ![d] = 0]
  /\ known' = known \ {d} /\ missed' = missed \ {d} /\ early' = early \ {d}
  /\ again' = IF Awaited(d) THEN again \cup {d} ELSE again \ {d}
  /\ Kernel

Bind(d) ==
  /\ d \in present \ bound
  /\ bound' = bound \cup {d}
  /\ Tell(d, "bind")
  /\ UNCHANGED <<present, plugs, histVars>> /\ Kernel

Vanish(d) ==
  /\ d \in present \ Staying
  /\ present' = present \ {d} /\ bound' = bound \ {d}
  /\ Tell(d, "remove")
  /\ UNCHANGED <<plugs, histVars>> /\ Kernel

Broadcast(d) ==
  /\ news[d] # <<>>
  /\ news' = [news EXCEPT ![d] = Tail(@)]
  /\ msgs' = IF listening THEN Append(msgs, <<d, Head(news[d])>>) ELSE msgs
  /\ LET add == Head(news[d]) = "add" IN
     /\ missed' = IF add /\ ~listening /\ d \notin known THEN missed \cup {d} ELSE missed
     /\ again' = IF add /\ listening /\ d \in known THEN again \cup {d} ELSE again
  /\ UNCHANGED <<present, bound, plugs, pc, listening, scanVars, wait, use, count, known, early>>

-----------------------------------------------------------------------------
(* NewWiimoteMonitor *)

\* The enumeration, in any order.  With no device, it has one entry, nil.
Orders(S) ==
  IF S = {} THEN {<<NoDevice>>}
  ELSE {o \in [1 .. Cardinality(S) -> S] : \A i, j \in DOMAIN o : o[i] = o[j] => i = j}

IterDevices ==
  /\ pc = "new"
  /\ scan' \in Orders(present)
  /\ known' = present /\ missed' = {}
  /\ pc' = "enable"
  /\ UNCHANGED <<kernelVars, msgs, listening, offer, closed, wait, use, count, early, again>>

EnableReceiving ==
  /\ pc = "enable"
  /\ listening' = TRUE /\ pc' = "idle"
  /\ UNCHANGED <<kernelVars, msgs, scanVars, wait, use, histVars>>

\* The goroutine looks at the next entry: a device whose driver is not bound,
\* or which is gone, is passed over.
ScanNext ==
  /\ pc # "new" /\ offer = NoDevice /\ scan # <<>>
  /\ LET d == Head(scan) IN
     /\ offer' = IF d \in bound THEN d ELSE NoDevice
     /\ early' = IF d \in present \ bound THEN early \cup {d} ELSE early
  /\ scan' = Tail(scan)
  /\ UNCHANGED <<kernelVars, msgs, pc, listening, closed, wait, use, count, known, missed, again>>

\* Mutant of ScanDone: enum is left open when a device was passed over.
ScanForgets ==
  /\ pc # "new" /\ offer = NoDevice /\ scan = <<>> /\ ~closed /\ \A d \in known : count[d] > 0
  /\ closed' = TRUE
  /\ UNCHANGED <<kernelVars, msgs, pc, listening, scan, offer, wait, use, histVars>>

ScanDone ==
  /\ pc # "new" /\ offer = NoDevice /\ scan = <<>> /\ ~closed
  /\ closed' = TRUE
  /\ UNCHANGED <<kernelVars, msgs, pc, listening, scan, offer, wait, use, histVars>>

-----------------------------------------------------------------------------
(* The poller *)

\* A call of Wait, or a round of Handle.
Call ==
  /\ pc = "idle"
  /\ pc' = IF use = "Wait" /\ wait THEN "await" ELSE "poll"
  /\ UNCHANGED <<kernelVars, msgs, listening, scanVars, wait, use, histVars>>

\* Poll returns; more is its second result.  Handle goes on until there is no
\* more, and then waits for the descriptor.
PollReturns(more) ==
  /\ wait' = IF use = "Wait" THEN ~more ELSE wait
  /\ pc' = IF use = "Wait" THEN "idle" ELSE IF more THEN "poll" ELSE "await"

WouldBlock ==
  /\ wait' = IF use = "Wait" THEN TRUE ELSE wait
  /\ pc' = "await"

Provide(d) == count' = [count EXCEPT ![d] = @ + 1]

\* Mutant of PollScan: the caller is sent to wait for the descriptor.
PollScanLast ==
  /\ pc = "poll" /\ offer # NoDevice
  /\ offer' = NoDevice
  /\ Provide(offer) /\ PollReturns(FALSE)
  /\ UNCHANGED <<kernelVars, msgs, listening, scan, closed, use, known, missed, early, again>>

\* The goroutine hands over a device; a driver that has left it since is not
\* noticed.
PollScan ==
  /\ pc = "poll" /\ offer # NoDevice
  /\ offer' = NoDevice
  /\ Provide(offer) /\ PollReturns(TRUE)
  /\ UNCHANGED <<kernelVars, msgs, listening, scan, closed, use, known, missed, early, again>>

\* Mutant of PollMonitor: the messages "bind" and "change" are taken too.
PollMonitorAny ==
  /\ pc = "poll" /\ closed /\ msgs # <<>>
  /\ msgs' = Tail(msgs)
  /\ LET d == Head(msgs)[1] IN
     /\ early' = IF d \in present \ bound THEN early \cup {d} ELSE early
     /\ IF d \in bound THEN Provide(d) /\ PollReturns(FALSE) ELSE WouldBlock /\ count' = count
  /\ UNCHANGED <<kernelVars, listening, scanVars, use, known, missed, again>>

PollMonitor ==
  /\ pc = "poll" /\ closed /\ msgs # <<>>
  /\ msgs' = Tail(msgs)
  /\ LET d == Head(msgs)[1]
         add == Head(msgs)[2] = "add" IN
     /\ early' = IF add /\ d \in present \ bound THEN early \cup {d} ELSE early
     /\ IF add /\ d \in bound THEN Provide(d) /\ PollReturns(FALSE) ELSE WouldBlock /\ count' = count
  /\ UNCHANGED <<kernelVars, listening, scanVars, use, known, missed, again>>

PollEmpty ==
  /\ pc = "poll" /\ closed /\ msgs = <<>>
  /\ WouldBlock
  /\ UNCHANGED <<kernelVars, msgs, listening, scanVars, use, histVars>>

\* WaitReadable returns when a message is there, or when the timeout has
\* passed: Wait polls again all the same, and waits again.
Readable ==
  /\ pc = "await" /\ msgs # <<>>
  /\ pc' = "poll"
  /\ UNCHANGED <<kernelVars, msgs, listening, scanVars, wait, use, histVars>>

TimeOut ==
  /\ pc = "await" /\ use = "Wait"
  /\ pc' = "poll"
  /\ UNCHANGED <<kernelVars, msgs, listening, scanVars, wait, use, histVars>>

-----------------------------------------------------------------------------
Udevd == \E d \in Devices : Broadcast(d)
Scanner == ScanNext \/ ScanDone
Client == \/ IterDevices \/ EnableReceiving \/ Call \/ PollScan \/ PollMonitor
          \/ PollEmpty \/ Readable

DiscoverNext ==
  \/ \E d \in Devices : Appear(d) \/ Bind(d) \/ Vanish(d)
  \/ Udevd \/ Scanner \/ Client \/ TimeOut

\* udevd and both goroutines run when they can; the caller calls again.
DiscoverFairness == WF_discoverVars(Udevd) /\ WF_discoverVars(Scanner) /\ WF_discoverVars(Client)

-----------------------------------------------------------------------------
\* A device that stays, with its driver, is provided, in the scan or by the
\* monitor, in whatever order things happen; but for one that udevd told of
\* between the enumeration and the enabling, and one that was looked at before
\* its driver was bound: these are never provided.
Provided ==
  \A d \in Devices :
    <>[](d \in present /\ d \in bound) => <>[](count[d] > 0 \/ d \in missed \cup early)

\* A device is provided once for each time it appears, but for one that udevd
\* tells of after it was enumerated, or whose last appearance is not told yet.
OnceEach == \A d \in Devices : count[d] > 1 => d \in again

\* Poll waits for the goroutine of the scan, never for a device to appear.
PollComesBack == pc = "poll" ~> pc # "poll"
================================================================================
