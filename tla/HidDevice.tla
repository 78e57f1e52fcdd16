------------------------------ MODULE HidDevice ------------------------------
(***************************************************************************)
(* The raw-HID driver, driver/commonhid/device.go, together with the part  *)
(* of internal/common/poller.go it runs through (Wait, WaitReadable).      *)
(*                                                                         *)
(* Goroutines share one device object.  Every call that needs the Wiimote  *)
(* (Poll, Wait, Rumble, SetLED, OpenFeatures, Feature.Close, Memory.ReadAt *)
(* and WriteAt) ends up in readEvent, which reads ONE report, whatever it  *)
(* is, and files what it carries: acknowledgements in the map ackErr,      *)
(* memory replies in the channel memory, events in the channel moreEvents. *)
(* A goroutine therefore consumes what another one is waiting for.         *)
(*                                                                         *)
(* A step of a goroutine is one access to what is shared: a lock section,  *)
(* a channel operation, a system call, or a racy field access.             *)
(***************************************************************************)
EXTENDS Integers, Sequences, FiniteSets

CONSTANTS
  Proc,       \* goroutines that use the device
  None,       \* "no goroutine": an absent entry of ackErr
  Work,       \* Work[p]: the calls goroutine p makes
  Keys,       \* the keys, numbered in the order emitButtons looks at them
  Kinds,      \* the features that are opened and closed
  Lights,     \* the values given to SetLED
  Reads,      \* the reads: sequences of chunk addresses (readMemory's loop)
  EventCap,   \* capacity of moreEvents (64 in the code)
  MemCap,     \* capacity of memory (16 in the code)
  RxCap,      \* BOUND: unread reports the kernel keeps
  Faults      \* what goes wrong: subset of FaultKinds

FaultKinds == {"eof", "err", "write", "drop"}
Calls == {"Poll", "Wait", "WaitFor", "SetLED", "Rumble", "OpenFeatures",
          "Close", "SetIRFull", "ReadAt", "WriteAt"}

ASSUME ProcAssumption == None \notin Proc
ASSUME WorkAssumption == Work \in [Proc -> SUBSET Calls]
ASSUME KeyAssumption == Keys \subseteq Nat
ASSUME KindAssumption == Kinds \subseteq {"core", "accel", "ir", "speaker", "extension"}
ASSUME LightAssumption == Lights \subseteq Nat
ASSUME ReadAssumption == Reads \subseteq Seq(Nat) /\ <<>> \notin Reads
ASSUME CapAssumption == {EventCap, MemCap, RxCap} \subseteq Nat \ {0}
\* One report never fills the queue: 11 keys, accelerometer and camera against 64.
ASSUME RoomAssumption ==
  IsFiniteSet(Keys) /\ Cardinality(Keys) + (IF Kinds = {} THEN 0 ELSE 2) <= EventCap
ASSUME FaultAssumption == Faults \subseteq FaultKinds

VARIABLES
  \* the Wiimote and the kernel, seen through the transport
  rx,           \* reports not yet read
  link,         \* "up", or how Read fails: "eof", "err"
  inbox,        \* requests the device has not answered yet
  held,         \* the keys held down
  devMode,      \* the report mode in effect
  phase,        \* next half of an interleaved (0x3e, 0x3f) pair
  motor,        \* is the rumble motor running
  lights,       \* the LEDs that are on
  \* the device object
  openIfs, irfull, rumble, led, btnPrev, interleaved,
  ackErr,       \* ackErr[rid]: whose request the stored answer is for, or None
  memory, moreEvents,
  wait,         \* poller.wait: the next Wait looks at the descriptor first
  \* the goroutines
  pc, op, todo, rep, stages, out,
  \* history
  seen          \* the key state told by the events returned so far

devVars == <<rx, link, inbox, held, devMode, phase, motor, lights>>
cfgVars == <<openIfs, irfull, rumble>>
repVars == <<led, btnPrev, interleaved>>
chanVars == <<ackErr, memory, moreEvents>>
callVars == <<op, todo>>
readVars == <<rep, stages, out>>
vars == <<devVars, cfgVars, repVars, chanVars, wait, pc, callVars, readVars, seen>>

-----------------------------------------------------------------------------
(* Requests and reports *)

\* Output reports that are sent with the acknowledge bit.
AckRids == {"0x10", "0x11", "0x13", "0x1a", "0x20"}
Rids == AckRids \cup {"0x16", "0x17"}

\* An output report: its id, the mode it sets, its other argument (LEDs,
\* address, enable bit) and the rumble bit, which output adds.
Request(rid, mode, val) == [rid |-> rid, mode |-> mode, val |-> val, rumble |-> FALSE]

\* The report ids of updateReportMode's table.
CoreSet == {"core", "accel", "ir", "speaker"}
Mode(ifs, full) ==
  LET extension == ifs \ CoreSet # {} IN
  CASE extension /\ {"accel", "ir"} \subseteq ifs -> "0x37"
    [] extension /\ "accel" \in ifs /\ "ir" \notin ifs -> "0x35"
    [] extension /\ "accel" \notin ifs /\ "ir" \in ifs -> "0x36"
    [] extension /\ ifs \cap {"accel", "ir"} = {} /\ "core" \in ifs -> "0x34"
    [] extension /\ ifs \cap {"core", "accel", "ir"} = {} -> "0x3d"
    [] ~extension /\ "ir" \in ifs -> IF full THEN "0x3e" ELSE "0x33"
    [] ~extension /\ "ir" \notin ifs /\ "accel" \in ifs -> "0x31"
    [] OTHER -> "0x30"

Modes == {"0x30", "0x31", "0x33", "0x34", "0x35", "0x36", "0x37", "0x3d", "0x3e"}

\* What updateReportMode sends: the mode and the two camera enables.
ModeRequests(ifs, full) ==
  LET camera == IF "ir" \in ifs THEN 1 ELSE 0 IN
  << Request("0x20", Mode(ifs, full), 0),
     Request("0x13", "none", camera),
     Request("0x1a", "none", camera) >>

\* A memory read is one request for each chunk.
ReadRequests(chunks) ==
  [i \in 1 .. Len(chunks) |-> Request("0x17", "none", chunks[i])]

\* Mutant of Stages: the first half of an interleaved pair is not kept.
StagesNoStore(id) ==
  CASE id = "0x20" -> <<"status", "buttons">>
    [] id = "0x22" -> <<"ack", "buttons">>
    [] id \in {"0x33", "0x37"} -> <<"buttons", "accel", "ir">>
    [] id = "0x3f" -> <<"buttons", "accel", "pair", "ir">>
    [] OTHER -> <<"buttons">>

\* What readEvent does with a report, by its id: the chain of ifs.
Stages(id) ==
  CASE id = "0x20" -> <<"status", "buttons">>
    [] id = "0x21" -> <<"memory", "buttons">>
    [] id = "0x22" -> <<"ack", "buttons">>
    [] id = "0x30" -> <<"buttons">>
    [] id \in {"0x31", "0x35"} -> <<"buttons", "accel">>
    [] id \in {"0x33", "0x37"} -> <<"buttons", "accel", "ir">>
    [] id = "0x36" -> <<"ir">>
    [] id = "0x3e" -> <<"buttons", "store">>
    [] id = "0x3f" -> <<"buttons", "accel", "pair", "ir">>
    [] OTHER -> <<>>

\* Every report has the same fields: val is its content (LEDs, address,
\* frame); re is the request an answer is for and good its verdict.  "of" is
\* history: the goroutine that sent that request.
Report(id, btn, val) ==
  [id |-> id, btn |-> btn, val |-> val, re |-> "none", good |-> TRUE, of |-> None]
Answer(q, btn, good) ==
  [id |-> IF q.rid = "0x17" THEN "0x21" ELSE "0x22",
   btn |-> btn, val |-> q.val, re |-> q.rid, good |-> good, of |-> q.of]
NoReport == Report("none", {}, 0)

Event(kind, key, val) == [kind |-> kind, key |-> key, val |-> val]
KeyEvent(k, pressed) == Event("key", k, IF pressed THEN 1 ELSE 0)

\* The keys whose bits differ: emitButtons' changed.
Changed(prev, btn) == (prev \ btn) \cup (btn \ prev)

-----------------------------------------------------------------------------
Init ==
  /\ rx = <<>> /\ link = "up" /\ inbox = <<>> /\ held = {}
  /\ devMode = "0x30" /\ phase = 0 /\ motor = FALSE /\ lights = 0
  /\ openIfs = {"core"} /\ irfull = FALSE /\ rumble = FALSE
  /\ led = 0 /\ btnPrev = {} /\ interleaved = 0
  /\ ackErr = [rid \in AckRids |-> None]
  /\ memory = <<>> /\ moreEvents = <<>>
  /\ wait = FALSE
  /\ pc = [p \in Proc |-> "idle"]
  /\ op = [p \in Proc |-> "none"]
  /\ todo = [p \in Proc |-> <<>>]
  /\ rep = [p \in Proc |-> NoReport]
  /\ stages = [p \in Proc |-> <<>>]
  /\ out = [p \in Proc |-> {}]
  /\ seen = {}

-----------------------------------------------------------------------------
(* The Wiimote, the radio link and the kernel's report buffer (external)   *)

\* A report reaches the kernel's buffer; a full buffer loses it ("drop").
Transmit(r) ==
  \/ Len(rx) < RxCap /\ rx' = Append(rx, r)
  \/ Len(rx) = RxCap /\ "drop" \in Faults /\ rx' = rx

\* The device answers the oldest request; a read may fail.
DeviceAnswer ==
  /\ link = "up" /\ inbox # <<>>
  /\ \E good \in BOOLEAN :
       /\ good \/ Head(inbox).rid = "0x17"
       /\ Transmit(Answer(Head(inbox), held, good))
  /\ inbox' = Tail(inbox)
  /\ UNCHANGED <<link, held, devMode, phase, motor, lights, cfgVars, repVars,
                 chanVars, wait, pc, callVars, readVars, seen>>

\* A data report in the current mode, after any change of the keys.
DeviceReport ==
  /\ link = "up"
  /\ \E btn \in SUBSET Keys :
       /\ held' = btn
       /\ IF devMode = "0x3e"
          THEN Transmit(Report(IF phase % 2 = 0 THEN "0x3e" ELSE "0x3f", btn,
                               phase \div 2))
          ELSE Transmit(Report(devMode, btn, 0))
  /\ phase' = IF devMode = "0x3e" THEN (phase + 1) % 4 ELSE phase
  /\ UNCHANGED <<link, inbox, devMode, motor, lights, cfgVars, repVars,
                 chanVars, wait, pc, callVars, readVars, seen>>

\* An unsolicited status report: an extension was plugged or unplugged.
DeviceStatus ==
  /\ link = "up" /\ "extension" \in Kinds
  /\ Transmit(Report("0x20", held, lights))
  /\ UNCHANGED <<link, inbox, held, devMode, phase, motor, lights, cfgVars,
                 repVars, chanVars, wait, pc, callVars, readVars, seen>>

LinkFails ==
  /\ link = "up"
  /\ link' \in Faults \cap {"eof", "err"}
  /\ UNCHANGED <<rx, inbox, held, devMode, phase, motor, lights, cfgVars,
                 repVars, chanVars, wait, pc, callVars, readVars, seen>>

-----------------------------------------------------------------------------
(* Calls *)

GoTo(p, l) == pc' = [pc EXCEPT ![p] = l]

\* The call is over.
Return(p) ==
  /\ GoTo(p, "idle")
  /\ op' = [op EXCEPT ![p] = "none"]
  /\ todo' = [todo EXCEPT ![p] = <<>>]

\* The head of todo is done: send the next request, or return.
NextRequest(p) ==
  IF Len(todo[p]) > 1
  THEN /\ todo' = [todo EXCEPT ![p] = Tail(@)]
       /\ GoTo(p, "compose")
       /\ op' = op
  ELSE Return(p)

Readable == rx # <<>> \/ link # "up"

\* Poll and Wait begin; WaitFor is Wait with a timeout of zero or more.
StartPoll(p, call) ==
  /\ pc[p] = "idle" /\ call \in Work[p] \cap {"Poll", "Wait", "WaitFor"}
  /\ op' = [op EXCEPT ![p] = call]
  /\ GoTo(p, IF call = "Poll" THEN "first" ELSE "await")
  /\ UNCHANGED <<devVars, cfgVars, repVars, chanVars, wait, todo, readVars, seen>>

\* A call that sends the requests rs starts.
Begin(p, call, rs) ==
  /\ pc[p] = "idle" /\ call \in Work[p]
  /\ op' = [op EXCEPT ![p] = call]
  /\ todo' = [todo EXCEPT ![p] = rs]
  /\ GoTo(p, "compose")
  /\ UNCHANGED <<devVars, repVars, chanVars, wait, readVars, seen>>

SetLED(p, leds) ==
  /\ Begin(p, "SetLED", <<Request("0x11", "none", leds)>>)
  /\ UNCHANGED cfgVars

Rumble(p, state) ==
  /\ Begin(p, "Rumble", <<Request("0x10", "none", 0)>>)
  /\ rumble' = state
  /\ UNCHANGED <<openIfs, irfull>>

\* Mutant of ChangeFeatures: the mode is worked out before openIfs is assigned.
ModeFirst(p, call, ifs) ==
  /\ pc[p] = "idle" /\ call \in Work[p] /\ openIfs # {}
  /\ openIfs' = ifs
  /\ op' = [op EXCEPT ![p] = call]
  /\ todo' = [todo EXCEPT ![p] = ModeRequests(openIfs, irfull)]
  /\ GoTo(p, "compose")
  /\ UNCHANGED <<devVars, irfull, rumble, repVars, chanVars, wait, readVars, seen>>

\* OpenFeatures and feature.Close assign openIfs; updateReportMode then reads
\* it for its table, a step later.  The read-modify-write of openIfs is one
\* step: at most one goroutine changes the features.
ChangeFeatures(p, call, ifs) ==
  /\ pc[p] = "idle" /\ call \in Work[p]
  /\ openIfs' = ifs
  /\ op' = [op EXCEPT ![p] = call]
  /\ GoTo(p, "mode")
  /\ UNCHANGED <<devVars, irfull, rumble, repVars, chanVars, wait, todo, readVars, seen>>

OpenFeatures(p, ifs) == ChangeFeatures(p, "OpenFeatures", openIfs \cup ifs)

\* Feature(FeatureCore) is the device itself, whose Close does nothing.
CloseFeature(p, ifs) ==
  ifs # {"core"} /\ ChangeFeatures(p, "Close", openIfs \ ifs)

UpdateReportMode(p) ==
  /\ pc[p] = "mode"
  /\ IF openIfs = {}
     THEN Return(p)
     ELSE /\ todo' = [todo EXCEPT ![p] = ModeRequests(openIfs, irfull)]
          /\ GoTo(p, "compose")
          /\ op' = op
  /\ UNCHANGED <<devVars, cfgVars, repVars, chanVars, wait, readVars, seen>>

SetIRFull(p) ==
  /\ pc[p] = "idle" /\ "SetIRFull" \in Work[p]
  /\ irfull' = ~irfull
  /\ UNCHANGED <<devVars, openIfs, rumble, repVars, chanVars, wait, pc, callVars, readVars, seen>>

ReadAt(p, chunks) ==
  /\ Begin(p, "ReadAt", ReadRequests(chunks))
  /\ UNCHANGED cfgVars

WriteAt(p) ==
  /\ Begin(p, "WriteAt", <<Request("0x16", "none", 0)>>)
  /\ UNCHANGED cfgVars

-----------------------------------------------------------------------------
(* output: send a request and, with the acknowledge bit, wait for its answer *)

\* Mutant of Compose: the report goes out without the rumble bit.
ComposeBare(p) ==
  /\ pc[p] = "compose"
  /\ GoTo(p, IF todo[p][1].rid \in AckRids THEN "forget" ELSE "send")
  /\ UNCHANGED <<devVars, cfgVars, repVars, chanVars, wait, callVars, readVars, seen>>

\* The rumble bit is read from the device object.
Compose(p) ==
  /\ pc[p] = "compose"
  /\ todo' = [todo EXCEPT ![p][1].rumble = rumble]
  /\ GoTo(p, IF todo[p][1].rid \in AckRids THEN "forget" ELSE "send")
  /\ UNCHANGED <<devVars, cfgVars, repVars, chanVars, wait, op, readVars, seen>>

\* An old answer to this kind of request is deleted (under ackMu).
Forget(p) ==
  /\ pc[p] = "forget"
  /\ ackErr' = [ackErr EXCEPT ![todo[p][1].rid] = None]
  /\ GoTo(p, "send")
  /\ UNCHANGED <<devVars, cfgVars, repVars, memory, moreEvents, wait, callVars, readVars, seen>>

\* The device takes the request: every report also sets the motor.  ASSUMED of
\* the Wiimote: 0x20, the id updateReportMode sends, sets the mode, and it is
\* acknowledged like the others.
Send(p) ==
  LET q == todo[p][1] IN
  /\ pc[p] = "send" /\ link = "up"
  /\ motor' = q.rumble
  /\ devMode' = IF q.rid = "0x20" THEN q.mode ELSE devMode
  /\ phase' = IF q.rid = "0x20" THEN 0 ELSE phase
  /\ lights' = IF q.rid = "0x11" THEN q.val ELSE lights
  /\ inbox' = IF q.rid = "0x16" THEN inbox
              ELSE Append(inbox, [rid |-> q.rid, val |-> q.val, of |-> p])
  /\ IF q.rid = "0x16"
     THEN NextRequest(p)
     ELSE /\ GoTo(p, IF q.rid = "0x17" THEN "poll" ELSE "check")
          /\ UNCHANGED callVars
  /\ UNCHANGED <<rx, link, held, cfgVars, repVars, chanVars, wait, readVars, seen>>

\* Write fails: updateReportMode ignores it, everyone else returns it.
SendFails(p) ==
  /\ pc[p] = "send"
  /\ link # "up" \/ "write" \in Faults
  /\ IF todo[p][1].rid \in {"0x20", "0x13", "0x1a"}
     THEN NextRequest(p)
     ELSE Return(p)
  /\ UNCHANGED <<devVars, cfgVars, repVars, chanVars, wait, readVars, seen>>

\* Look for the answer (under ackMu); without it, read a report and look again.
Check(p) ==
  LET rid == todo[p][1].rid IN
  /\ pc[p] = "check"
  /\ IF ackErr[rid] # None
     THEN /\ ackErr' = [ackErr EXCEPT ![rid] = None]
          /\ NextRequest(p)
     ELSE /\ GoTo(p, "poll")
          /\ UNCHANGED <<ackErr, callVars>>
  /\ UNCHANGED <<devVars, cfgVars, repVars, memory, moreEvents, wait, readVars, seen>>

\* Mutant of Reply: a bad reply is left in the channel.
ReplyKept(p) ==
  /\ pc[p] = "reply"
  /\ IF memory = <<>>
     THEN GoTo(p, "poll") /\ UNCHANGED <<memory, callVars>>
     ELSE IF Head(memory).good /\ Head(memory).val = todo[p][1].val
     THEN memory' = Tail(memory) /\ NextRequest(p)
     ELSE memory' = memory /\ Return(p)
  /\ UNCHANGED <<devVars, cfgVars, repVars, ackErr, moreEvents, wait, readVars, seen>>

\* readMemory after readEvent: take a reply if there is one and check it.
Reply(p) ==
  /\ pc[p] = "reply"
  /\ IF memory = <<>>
     THEN /\ GoTo(p, "poll")
          /\ UNCHANGED <<memory, callVars>>
     ELSE /\ memory' = Tail(memory)
          /\ IF Head(memory).good /\ Head(memory).val = todo[p][1].val
             THEN NextRequest(p)
             ELSE Return(p)
  /\ UNCHANGED <<devVars, cfgVars, repVars, ackErr, moreEvents, wait, readVars, seen>>

-----------------------------------------------------------------------------
(* readEvent *)

\* Where readEvent was called from.
Back(p) == CASE op[p] \in {"Poll", "Wait", "WaitFor"} -> "second"
             [] op[p] = "ReadAt" -> "reply"
             [] OTHER -> "check"

\* WaitReadable(-1): blocks until the descriptor is readable or in error.
WaitReadable(p) ==
  /\ pc[p] = "poll" /\ Readable
  /\ GoTo(p, "read")
  /\ UNCHANGED <<devVars, cfgVars, repVars, chanVars, wait, callVars, readVars, seen>>

\* Read takes one report.  Without one, readEvent returns: EAGAIN, as another
\* goroutine took it first, or nothing read at the end of the stream.  At the end,
\* as a transport may call it (io.EOF), or on an error, it pushes one event.
Read(p) ==
  /\ pc[p] = "read"
  /\ IF rx # <<>>
     THEN /\ rx' = Tail(rx)
          /\ rep' = [rep EXCEPT ![p] = Head(rx)]
          /\ stages' = [stages EXCEPT ![p] = Stages(Head(rx).id)]
          /\ GoTo(p, IF Stages(Head(rx).id) = <<>> THEN Back(p) ELSE "handle")
     ELSE /\ \/ link \in {"up", "eof"} /\ GoTo(p, Back(p))
             \/ link \in {"eof", "err"} /\ GoTo(p, "gone")
          /\ UNCHANGED <<rx, rep, stages>>
  /\ UNCHANGED <<link, inbox, held, devMode, phase, motor, lights, cfgVars,
                 repVars, chanVars, wait, callVars, out, seen>>

\* Mutant of Push: the queue is a slice that grows.
PushGrowing(e) == moreEvents' = Append(moreEvents, e)

\* A send on the channel moreEvents blocks while it is full.
Push(e) == Len(moreEvents) < EventCap /\ moreEvents' = Append(moreEvents, e)

Gone(p) ==
  /\ pc[p] = "gone"
  /\ Push(Event(IF link = "eof" THEN "gone" ELSE "watch", 0, 0))
  /\ GoTo(p, Back(p))
  /\ UNCHANGED <<devVars, cfgVars, repVars, ackErr, memory, wait, callVars, readVars, seen>>

\* The current stage of readEvent is s.
AtStage(p, s) == pc[p] = "handle" /\ Head(stages[p]) = s

\* The stage is done: go on to the next one, or return from readEvent.
StageDone(p) ==
  /\ stages' = [stages EXCEPT ![p] = Tail(@)]
  /\ IF Len(stages[p]) > 1
     THEN GoTo(p, "handle") /\ rep' = rep
     ELSE GoTo(p, Back(p)) /\ rep' = [rep EXCEPT ![p] = NoReport]

Status(p) ==
  /\ AtStage(p, "status")
  /\ led' = rep[p].val
  /\ StageDone(p)
  /\ UNCHANGED <<devVars, cfgVars, btnPrev, interleaved, chanVars, wait, callVars, out, seen>>

\* A send on the channel memory blocks while it is full.
MemoryReply(p) ==
  /\ AtStage(p, "memory") /\ Len(memory) < MemCap
  /\ memory' = Append(memory, rep[p])
  /\ StageDone(p)
  /\ UNCHANGED <<devVars, cfgVars, repVars, ackErr, moreEvents, wait, callVars, out, seen>>

\* Mutants of Ack: an answer is dropped unless its reader waits for one, ...
AckMine(p) ==
  /\ AtStage(p, "ack")
  /\ ackErr' = IF Back(p) = "check" THEN [ackErr EXCEPT ![rep[p].re] = rep[p].of] ELSE ackErr
  /\ StageDone(p)
  /\ UNCHANGED <<devVars, cfgVars, repVars, memory, moreEvents, wait, callVars, out, seen>>

\* ... or unless there is an entry for it, which output has just deleted.
AckExpected(p) ==
  /\ AtStage(p, "ack")
  /\ ackErr' = IF ackErr[rep[p].re] # None
               THEN [ackErr EXCEPT ![rep[p].re] = rep[p].of] ELSE ackErr
  /\ StageDone(p)
  /\ UNCHANGED <<devVars, cfgVars, repVars, memory, moreEvents, wait, callVars, out, seen>>

\* The answer is stored under its request id (under ackMu).
Ack(p) ==
  /\ AtStage(p, "ack")
  /\ ackErr' = [ackErr EXCEPT ![rep[p].re] = rep[p].of]
  /\ StageDone(p)
  /\ UNCHANGED <<devVars, cfgVars, repVars, memory, moreEvents, wait, callVars, out, seen>>

\* emitButtons reads btnPrev, ...
Buttons(p) ==
  /\ AtStage(p, "buttons")
  /\ IF rep[p].btn = btnPrev
     THEN StageDone(p) /\ out' = out
     ELSE /\ out' = [out EXCEPT ![p] = Changed(btnPrev, rep[p].btn)]
          /\ GoTo(p, "press")
          /\ UNCHANGED <<rep, stages>>
  /\ UNCHANGED <<devVars, cfgVars, repVars, chanVars, wait, callVars, seen>>

\* Mutant of Press: the last button state is not kept.
PressForgotten(p) ==
  /\ pc[p] = "press"
  /\ GoTo(p, "keys")
  /\ UNCHANGED <<devVars, cfgVars, repVars, chanVars, wait, callVars, readVars, seen>>

\* ... writes it, without a lock, ...
Press(p) ==
  /\ pc[p] = "press"
  /\ btnPrev' = rep[p].btn
  /\ GoTo(p, "keys")
  /\ UNCHANGED <<devVars, cfgVars, led, interleaved, chanVars, wait, callVars, readVars, seen>>

\* Mutant of KeyOut: a send that does not block loses the event.
KeyDropped(p) ==
  /\ pc[p] = "keys"
  /\ \E k \in out[p] :
       /\ \A j \in out[p] : k <= j
       /\ \/ Push(KeyEvent(k, k \in rep[p].btn))
          \/ Len(moreEvents) = EventCap /\ UNCHANGED moreEvents
       /\ out' = [out EXCEPT ![p] = @ \ {k}]
       /\ IF out[p] = {k} THEN StageDone(p) ELSE UNCHANGED <<pc, rep, stages>>
  /\ UNCHANGED <<devVars, cfgVars, repVars, ackErr, memory, wait, callVars, seen>>

\* ... and pushes an event for each changed key, in order.
KeyOut(p) ==
  /\ pc[p] = "keys"
  /\ \E k \in out[p] :
       /\ \A j \in out[p] : k <= j
       /\ Push(KeyEvent(k, k \in rep[p].btn))
       /\ out' = [out EXCEPT ![p] = @ \ {k}]
       /\ IF out[p] = {k} THEN StageDone(p) ELSE UNCHANGED <<pc, rep, stages>>
  /\ UNCHANGED <<devVars, cfgVars, repVars, ackErr, memory, wait, callVars, seen>>

AccelOut(p) ==
  /\ AtStage(p, "accel")
  /\ Push(Event("accel", 0, 0))
  /\ StageDone(p)
  /\ UNCHANGED <<devVars, cfgVars, repVars, ackErr, memory, wait, callVars, out, seen>>

\* The first half of an interleaved pair is kept, ...
Store(p) ==
  /\ AtStage(p, "store")
  /\ interleaved' = rep[p].val
  /\ StageDone(p)
  /\ UNCHANGED <<devVars, cfgVars, led, btnPrev, chanVars, wait, callVars, out, seen>>

\* ... and joined to the second: good tells whether the halves are of one frame.
\* (The code decodes the second half from report[0:], where the first was kept
\* from report[4:]; the offset within a half is not modelled.)
Pair(p) ==
  /\ AtStage(p, "pair")
  /\ rep' = [rep EXCEPT ![p].good = (interleaved = rep[p].val)]
  /\ stages' = [stages EXCEPT ![p] = Tail(@)]
  /\ pc' = pc
  /\ UNCHANGED <<devVars, cfgVars, repVars, chanVars, wait, callVars, out, seen>>

IROut(p) ==
  /\ AtStage(p, "ir")
  /\ Push(Event("ir", 0, IF rep[p].good THEN 1 ELSE 0))
  /\ StageDone(p)
  /\ UNCHANGED <<devVars, cfgVars, repVars, ackErr, memory, wait, callVars, out, seen>>

-----------------------------------------------------------------------------
(* Poll and Wait *)

\* What the user knows of the keys after event e.
Told(e) ==
  IF e.kind # "key" THEN seen
  ELSE IF e.val = 1 THEN seen \cup {e.key} ELSE seen \ {e.key}

\* Poll takes a queued event, before readEvent ("first") or after it
\* ("second"); Wait then sets its flag.
Take(p) ==
  /\ pc[p] \in {"first", "second"} /\ moreEvents # <<>>
  /\ moreEvents' = Tail(moreEvents)
  /\ seen' = Told(Head(moreEvents))
  /\ IF op[p] = "Poll"
     THEN Return(p)
     ELSE GoTo(p, "more") /\ UNCHANGED callVars
  /\ UNCHANGED <<devVars, cfgVars, repVars, ackErr, memory, wait, readVars>>

\* Poll's second result is read after the event was taken.
More(p) ==
  /\ pc[p] = "more"
  /\ wait' = (moreEvents = <<>>)
  /\ Return(p)
  /\ UNCHANGED <<devVars, cfgVars, repVars, chanVars, readVars, seen>>

\* Mutant of First: Poll reads a report although events are queued.
FirstAlways(p) ==
  /\ pc[p] = "first"
  /\ GoTo(p, "poll")
  /\ UNCHANGED <<devVars, cfgVars, repVars, chanVars, wait, callVars, readVars, seen>>

First(p) ==
  /\ pc[p] = "first" /\ moreEvents = <<>>
  /\ GoTo(p, "poll")
  /\ UNCHANGED <<devVars, cfgVars, repVars, chanVars, wait, callVars, readVars, seen>>

\* ErrWouldBlock: Poll returns it, Wait tries again after waiting.
WouldBlock(p) ==
  /\ pc[p] = "second" /\ moreEvents = <<>>
  /\ IF op[p] = "Poll"
     THEN Return(p) /\ wait' = wait
     ELSE GoTo(p, "await") /\ wait' = TRUE /\ UNCHANGED callVars
  /\ UNCHANGED <<devVars, cfgVars, repVars, chanVars, readVars, seen>>

\* Wait polls at once, or when its wait for the descriptor ends: readable, or
\* out of time, which is no different.
Await(p) ==
  /\ pc[p] = "await"
  /\ \/ ~wait
     \/ link # "err" /\ Readable
     \/ op[p] = "WaitFor" /\ link = "up"
  /\ GoTo(p, "first")
  /\ UNCHANGED <<devVars, cfgVars, repVars, chanVars, wait, callVars, readVars, seen>>

\* The descriptor is in error: Wait returns that.
AwaitFails(p) ==
  /\ pc[p] = "await" /\ wait /\ link # "up"
  /\ Return(p)
  /\ UNCHANGED <<devVars, cfgVars, repVars, chanVars, wait, readVars, seen>>

-----------------------------------------------------------------------------
Device == DeviceAnswer \/ DeviceReport \/ DeviceStatus \/ LinkFails

Call(p) ==
  \/ \E call \in {"Poll", "Wait", "WaitFor"} : StartPoll(p, call)
  \/ \E leds \in Lights : SetLED(p, leds)
  \/ \E state \in BOOLEAN : Rumble(p, state)
  \/ \E ifs \in (SUBSET Kinds) \ {{}} : OpenFeatures(p, ifs) \/ CloseFeature(p, ifs)
  \/ SetIRFull(p)
  \/ \E chunks \in Reads : ReadAt(p, chunks)
  \/ WriteAt(p)

Output(p) == \/ UpdateReportMode(p) \/ Compose(p) \/ Forget(p)
             \/ Send(p) \/ SendFails(p) \/ Check(p) \/ Reply(p)

ReadEvent(p) == \/ WaitReadable(p) \/ Read(p) \/ Gone(p) \/ Status(p)
                \/ MemoryReply(p) \/ Ack(p) \/ Buttons(p) \/ Press(p) \/ KeyOut(p)
                \/ AccelOut(p) \/ Store(p) \/ Pair(p) \/ IROut(p)

PollStep(p) == \/ Take(p) \/ More(p) \/ First(p) \/ WouldBlock(p)
               \/ Await(p) \/ AwaitFails(p)

\* A step inside a call.
Step(p) == Output(p) \/ ReadEvent(p) \/ PollStep(p)

Next == Device \/ \E p \in Proc : Call(p) \/ Step(p)

Spec == Init /\ [][Next]_vars

\* The Go scheduler runs every goroutine that can take a step, and the device
\* answers what it was asked.  Nobody has to make a call or press a key.
Fairness == /\ \A p \in Proc : WF_vars(Step(p))
            /\ SF_vars(DeviceAnswer)

LiveSpec == Spec /\ Fairness
=============================================================================
