# A verification of go-wiimote

go-wiimote reads and controls Wii remotes.  This directory holds TLA+ models of
its concurrent and stateful parts, the TLC configurations that check them, and
proofs that TLAPS checks.  Paths are relative to the repository; `device.go`
without a path is `driver/commonhid/device.go`.

## 1. The system

| Component | State | Operations |
|---|---|---|
| raw-HID device, `driver/commonhid/device.go` | open features, button state, LED, rumble bit, map `ackErr` (mutex), channels `memory` (16) and `moreEvents` (64), half a camera frame | `Poll`, `Wait`, `SetLED`, `Rumble`, `OpenFeatures`, `feature.Close`, `SetIRFull`, `Memory.ReadAt`, `WriteAt`; below them `output`, `readEvent`, `updateReportMode` |
| poller, `internal/common/poller.go` | flag `wait`, cached descriptor | `Wait`, `WaitReadable`, `Handle`, `Stream` |
| unbuffered file, `internal/common/unixfile.go` | a descriptor | read, write, seek, ioctl with a retry on EINTR |
| hidraw transport, `driver/linuxhidraw` | none | opens the device node |
| kernel device, `driver/linuxkernel/device.go`, `event.go` | available nodes, open features, epoll set, monitor, event queue (1024) | `NewDevice`, `readNodes`, `OpenFeatures`, `Poll`, `readUmon`, `dispatchEvent` |
| kernel features, `driver/linuxkernel/feature.go` | descriptor, opened flag, last values, calibration of MotionPlus | `open`, `Close`, `Rumble`, `acceptEvent` |
| kernel EEPROM, `driver/linuxkernel/eeprom.go` | a file position | `Read`, `ReadAt`, `ReadByte` |
| backend choice, `driver/linux.go` | none | `NewDevice` |
| udev binding, `driver/udev` | objects of libudev | enumerate, monitor |
| discovery, `pkg/discover` | scan channel, monitor | `IterDevices`, `NewWiimoteMonitor`, `Poll` |
| EEPROM blocks, `pkg/eeprom` | none | `readTwice`, checksums, decoding |
| IR pointer, `pkg/irpointer/pointer.go` | last frame: health, ends of the sensor bar | `Step`, `StepRoll` |
| pointer filters, `pkg/irpointer/filter.go` | last position, counters | `Apply`, `Reset` |
| interfaces and events, repository root | none | types |
| sequence helpers, `internal/sequences` | none | iterators |
| commands, `cmd/*` | wiipointer: three goroutines that share a frame and the scroll position | `watchDevice` |

How they interact.  An application opens a device through the backend choice
and calls it from its goroutines.  In the raw-HID backend every call that needs
the Wiimote ends up in `readEvent`, which takes one report, whatever it is, off
the descriptor and files what it carries: an acknowledgement in `ackErr`, a
memory reply in `memory`, events in `moreEvents`.  So any goroutine does the
reading for all others, and each waits for something that another may have
read.  The poller calls back into the device's `Poll` and remembers in `wait`
whether the queue was empty.  In the kernel backend the kernel does the
protocol; the driver keeps the set of nodes in step with udev and multiplexes
them by epoll.  A feature of the kernel backend turns the input events of its node,
which tell only what has changed, into events that carry all values.  Discovery
has one goroutine that hands over the devices of a scan and one that reads the
monitor of udev, through the same poller.  wiipointer passes camera and
accelerometer events to the IR pointer, its frames through two chains of filters, and
what comes out to a mouse, the LEDs and a goroutine that scrolls.

What is hard, and what makes each part correct:

- raw-HID: goroutines that share a descriptor, a map and two bounded channels;
  a send that blocks the goroutine that would have to receive; answers that come
  late, to another reader, or never.  An answer must reach the call that waits
  for it and no other; each key change is told once; the device's mode and motor
  follow the calls; calls return.
- poller: the flag must not hide a queued event; a wait must end.
- kernel device: hotplug between scan and monitor, features closed by
  error, reopened, removed.  The open features, the epoll set and the registered
  descriptors must agree.
- kernel features: a reader that is slow loses events; a node opened again tells
  nothing that has not changed.  The values of an event must be ones the device had at once.
- discovery: scan, monitor and driver binding race; every device is provided, once.
- EEPROM: a read that fails part way, or a damaged copy, is not taken for the
  block, and one good copy is enough.
- IR pointer: what lights mean depends on the frames before; guesses must not drift.
- filters: a position is held, or held back, only a bounded number of frames,
  whatever the filters before make of the frame.
- wiipointer: the mouse follows good frames only; the LEDs come to tell the health.

`PROJECT.json` lists every hazard at its line, with the properties that cover it
or why none does.

## 2. The plan

1. `HidDevice`, `HidCorrect`, `HidTypes`, `HidAnswers`, `HidEffects` with `MCHid`: the raw-HID
   driver with the part of the poller it runs through.  **Done.**
2. `KernelDevice`, `KernelCorrect`, `KernelProofs` with `MCKernel`: node cache,
   open features, epoll set, hotplug and event queue of the kernel backend.  **Done**,
   but for errors of udev.
3. `Answers`: what the raw-HID driver promises for a request, which `HidDevice`
   implements: model-checked, and proved in `HidAnswers`.  **Done.**
4. `Tracking`, `IRPointer`, `Filters`, `WiiPointer` with `MCPointer`: from the lights of the
   camera to mouse and LEDs.  **Done**; all their safety properties are proved in `PointerProofs`.
5. `Features`, `Discover`, `Eeprom`, `Layout` with `MCLibrary`: what surrounds the
   drivers.  **Done**; all their safety properties are proved, those of `Features` and
   `Discover` in `LibraryProofs`, those of `Eeprom` and `Layout` in `EepromProofs`.

## 3. The model of the raw-HID driver

| Module | Content |
|---|---|
| `HidDevice` | the system: state, one action per step, `Spec`, `Fairness`, `LiveSpec`; the mutants used to test the properties stand before the definitions they change |
| `HidCorrect` | the type invariant, the properties, the inductive invariants |
| `MCHid` | the instances for TLC |
| `HidTypes` | proofs: types and shapes |
| `HidAnswers` | proofs: requests and answers, and that `HidDevice` implements `Answers` |
| `HidEffects` | proofs: queue, keys, camera frames, motor, mode |

A goroutine is a label `pc[p]`, the call it is in (`op[p]`), the requests it still
has to send (`todo[p]`, the head is the current one), and for `readEvent` the
report in its hands (`rep[p]`), what is left to do with it (`stages[p]`) and the
keys whose events it still has to push (`out[p]`).  One step is one access to
shared state: a lock section, a channel operation, a system call, or an
unlocked field access that others race with.

| Code | Actions |
|---|---|
| `SetLED`, `Rumble`, `ReadAt`, `WriteAt`, `SetIRFull` | same names, which fill `todo` |
| `OpenFeatures`, `feature.Close`, `updateReportMode` | `OpenFeatures`, `CloseFeature` (through `ChangeFeatures`), `UpdateReportMode`; `Mode` is the table |
| `output` | `Compose` (rumble bit), `Forget` (delete the old answer), `Send`/`SendFails`, `Check` (look for the answer) |
| `readMemory` | `ReadAt`, then for each chunk `Compose`, `Send`, `readEvent`, `Reply` |
| `readEvent` | `WaitReadable`, `Read`, `Gone`; then `Status`, `MemoryReply`, `Ack`, `Buttons`/`Press`/`KeyOut`, `AccelOut`, `Store`, `Pair`, `IROut` in the order that `Stages` gives for the report id |
| `Poll`, poller `Wait` | `StartPoll`, `First`, `Take`, `WouldBlock`, `More`, `Await`, `AwaitFails` |
| the Wiimote, the link, the kernel's buffer (external) | `DeviceAnswer`, `DeviceReport`, `DeviceStatus`, `LinkFails`, `Transmit` |

What the data is reduced to.  A report is its id, its buttons and one number: the
LEDs of a status report, the address of a memory reply, the frame number of an
interleaved camera report.  `ackErr[rid]` holds whose request the stored answer is
for, a history variable in the sense that the code does not know it; the code's
value there, nil or an error, is returned by `output` unread.  An EventIR carries one
bit: whether its halves are of one frame.  `WriteAt` writes one chunk, to which the
device sends no answer the driver looks at.  The WaitReadable result is ignored
in `readEvent`, so a descriptor in error leads to `Read`, which pushes one event for an error or
`io.EOF` and returns without one when it gets nothing.

One thing is assumed of the Wiimote here, and one left out of its frames.  `updateReportMode` sends the mode with output report
0x20 and waits for its acknowledgement (device.go:503); the model's Wiimote takes this as setting the mode, and
acknowledges it.  (In the usual description of the protocol 0x12 sets the mode, and nothing in the repository says
otherwise.)  `ModeInEffect` and `OutputReturns` are about a Wiimote of this kind; one that does not acknowledge 0x20 leaves
OpenFeatures waiting for ever.  And the second half of an interleaved frame is decoded from `report[0:]`, where the first was
kept from `report[4:]` (device.go:302, 332-333): `FramesWhole` is about which frame the halves are of, not about the offset in them.

### The model of the kernel driver

`KernelDevice` is the system, `KernelCorrect` its properties, `MCKernel` the
instances, `KernelProofs` the proofs.  In this part `device.go`, `event.go` and
`feature.go` are those of `driver/linuxkernel`.  Its maps have no lock, so there is one call
at a time (`pc`, `op`); the kernel and udev move between any two of its steps.

| Code | Actions |
|---|---|
| `NewDevice` | `ReadFirst` (readNodes), then `EnableReceiving` |
| `readNodes` | `StartScan` (the enumeration, a snapshot), `Announce` for each node, `CloseUnavailable` for each feature that it closes, `NodesRead` |
| `OpenFeatures`, `open`, `uploadRumble` | `OpenFeatures`, `OpenNext` with `OpenWhole` (registered) or `OpenHalf` (the upload fails), `OpenDone` |
| `commonFeature.Close` | `CloseFeature`, which ends in readNodes |
| `Poll`, `readUmon`, `dispatchEvent` | `StartPoll`, `Take`, `ReadUmon` (takes the messages), `ReadNodes` (then enumerates), `ReadInput`, `ReadFails`, `Ignore`, `NothingRead` |
| poller `Wait` | `WouldBlock`, `Await` |
| kernel and udev (external) | `PlugInput` (the input device), `Plug` (its event node), `Unplug`, `Remove`, `Input` |

Two facts shape it.  `open` never sets `kind`, so `Kind()` of every open feature is 0,
which is never available: each `readNodes` closes every feature that is open, and
each of those closings reads the nodes again.  And `Close` deletes the entry of
kind 0: the closed object stays in `openIfs` (`Closed`).  A feature opened again
gets a new object; the old one, if open, is only in the caller's hands (`held`).

What is reduced: `moreEvents` is the number of announcements; a descriptor is quiet, has
input, or is dead; monitor messages are "hotplug" and "remove", merged as readUmon
merges them.  A hotplug may fall between the messages and the enumeration, and is then told of by a message of its own.
The kernel hands out the lowest free descriptor, and node names again.
`unheard` is history: features changed since the last enumeration while the monitor was off.

### The models of pointer, filters and wiipointer

| Module | Content |
|---|---|
| `Tracking` | abstract: the life of `Frame.Health`, and when a position is valid |
| `IRPointer` | `pointer.go`; implements `Tracking` |
| `Filters` | `filter.go`: operators from a filter and a frame to a filter and a frame |
| `WiiPointer` | `watchDevice` of `cmd/wiipointer`, over `Tracking` and `Filters` |
| `MCPointer` | the instance |
| `PointerProofs` | proofs about `IRPointer` and `WiiPointer` |

`IRPointer` keeps the geometry exact: lights are points of a grid with `Scale` points for
1.0, and every comparison of quotients, roots or rotated points becomes one of products
(`Steep`, `Narrow`, `Between`, `Gap`, `Edge`, `Off`).  The roll is a number of
quarter turns.  `findCanditates` is `Candidates` and `Best`, `guessSingle` is
`Guesses` with `Closest`, `Moved`, `OnScreen`, `Outmost` and `EdgeGuess`, `updateSensorbar` is
`Dark`, `SeeBar` and `GuessBar`.  Where the code takes the first of
several equal ones, in the order of the slots, the model takes any.  The room is external: a real bar
whose place in the view changes from frame to frame, lamps, and a camera
that may miss any light.  Position and distance, which are computed from the two ends, are left out.

`WiiPointer` has one action for each kind of event that the main goroutine waits for,
then `Step` or `NoStep`, `Filter` and `Show`; `ShowHealth` is a round of the goroutine of the
LEDs; `ScrollLook` and `ScrollUse` are the two reads of `scroll` in the third.
These goroutines race: `frame` changes between `Step` and `Filter`, and
`ScrollUse` ends the program when the key was released in between (main.go:110, 115).  A
position is a place on a line; how far the smoother goes is any part of the way.

### The models around the drivers

`Features` has the tables of all ten `acceptEvent` methods: which code of a node is which
key (`Keys`) or which value (`Axes`).  With these, all methods are the same
three actions, `AcceptKey`, `AcceptAxis`, `AcceptSync`, but for `AcceptMotionPlus`.  The
input device is external, and tells codes that are in no table too: `Report` tells what has changed, and `Put` is the
buffer of a reader, which drops everything for a mark when it is full.  The mark is an event of type
EV_SYN too, so the code takes it for the end of a report.  The tables are put together with `++`, which
is the `@@` of the module TLC with a definition that a proof can use.

`Discover` has the devices with their drivers and the messages of udevd, the goroutine of the scan
(`ScanNext`, `ScanDone`) and the caller's, which runs either `Wait` or `Handle` of the poller
(`use`) around `Poll` (`PollScan`, `PollMonitor`, `PollEmpty`).  `again`, `missed` and
`early` are history: devices for which the races of this code have had an effect.  The proofs about
`Features` and `Discover` are in `LibraryProofs`.

`Eeprom` reads a block of the memory chunk by chunk: `KernelRead`, `KernelSkip`, `KernelEnd` and
`KernelPanic` are the loop of `linuxkernel/eeprom.go`, `HidRead` is `readMemory`;
`CopyEmpty`, `CopyShort` and `CopyWhole` are what `readTwice` does with the result.  Both checksums
are computed.  The memory is fixed from the start: the two copies, each intact or with
one wrong byte, and the addresses that cannot be read.

`Layout` says which bit of a block each number is made of.  It has no steps: its initial states
are the bits (`LayoutSpec`), and the property decodes a block with and without each of them.  The name of
the creator is read from bytes 54 to 73, twenty of them, as that of the Mii: mii.go:216-217 slices ten (its comment says
0x36-0x3f), but `utf16name` takes the slice to its capacity.

The proofs about blocks and their layout are in `EepromProofs`.  They, and those about the chains of
filters, rest on `FoldProofs`, which knows nothing of this code: induction, folds, powers of two and quotients.

## 4. What the runs check

The `hid` runs use module `MCHid`.  In them deadlock is not checked: a goroutine at a full queue, or
waiting for a report from a link that is gone, really is stuck.

| Run | Instance | Properties | States |
|---|---|---|---|
| `hid_pair` | 2 goroutines: one in Wait and ReadAt, one in SetLED; queue of 1; read errors | `TypeOK`, `AnswerNotLost`, `AnswerFresh`, `AnswersOnce` | 1.0 M |
| `hid_modes` | 1 goroutine: Poll, Rumble, OpenFeatures, Close, SetIRFull on accelerometer, camera and extension; fair | `MotorFollows`, `FramesWhole`, `ModeInEffect`, `OutputReturns` | 0.2 M |
| `hid_calls` | 1 goroutine: every call that leaves the mode alone; all faults | `NeverTwice`, `PollNeverFull`, `KeysTold` | 0.5 M |
| `hid_twice` | Wait against SetLED, the shape of cmd/wiipointer | `NeverTwice`: violated | |
| `hid_poll` | 1 goroutine, fair | `PollReturns`: violated | |
| `hid_wait` | 1 goroutine, fair | `WaitDelivers`: violated | |
| `kernel_nodes` | 2 features, one with a motor, 2 nodes, 2 descriptors, queue of 6; every call | `TypeOK`, `NodesKnown`, `DescriptorsOwned`, `PollNeverFull` | 0.7 M |
| `kernel_wait` | the same, no motor, Wait and OpenFeatures, fair | `WaitReturns` | 0.4 M |
| `kernel_close` | as `kernel_nodes` | `ClosedTold`: violated | |
| `kernel_gone` | as `kernel_nodes` | `AvailablePresent`: violated | |
| `pointer` | the bar at 9 places, 2 lamps, 2 rolls; filters with limits 1 and 2; all goroutines of wiipointer | `OnTarget`, `Tracks`, `HeldBriefly`, `NoJump`, `MouseOnBar`, `LedsTell` | 1.9 M |
| `library` | all features with 2 codes each; 2 devices, 2 appearances; blocks of 3 and 5 bytes; all bits | `FramesTrue`, `KeysFollow`, `OnceEach`, `DevicesProvided`, `PollComesBack`, `Undamaged`, `OneCopyEnough`, `BitsOnce` | 0.6 M |

The last two runs hold several models that share nothing; a variable `part`
says which of them a behaviour is in, and the others stand still.  Deadlock is not
checked in them: a block is read once, and a device that never changes again leaves nothing to do.

- `AnswerNotLost`: while a goroutine waits for an answer, that answer is at the
  device, unread, in the hands of some goroutine, or filed.
- `AnswerFresh`: an answer that is anywhere is the one its goroutine waits for
  now.  Both are stated for goroutines of which no two send the same request,
  which the code assumes (the comment at device.go:558-560 for reads, the one map
  entry per report id for acknowledgements).
- `AnswersOnce`: the driver implements `Answers`, with the phase of a request read off its
  state (`Phase`): each request is answered once, by whichever goroutine reads the
  answer, and ends only by its own goroutine taking it.
- `ModeInEffect`: when OpenFeatures or Close returns, the device reports in the
  mode of the open features (unless none is open, where the code does nothing).
- `MotorFollows`: no later request undoes Rumble.
- `FramesWhole`: the halves joined in a camera event are of one frame.
- `OutputReturns`: a call that sends requests returns, or stands at the full queue.
- `NeverTwice`, `KeysTold`: the events of a key alternate and end in its state in
  the last report.
- `PollNeverFull`: one goroutine alone never blocks itself in Poll or Wait.

Of the kernel driver:

- `NodesKnown`: between calls, with the monitor empty, every feature that is there
  has its node in `availIfs`, except a change between the first reading and the
  enabling of the monitor.
- `DescriptorsOwned`: open objects, in `openIfs` or replaced there, have open descriptors,
  no two the same.
- `PollNeverFull`: the announcements of all the readings that one Poll causes fit in the
  queue, because Poll reads the nodes only when it is empty.
- `WaitReturns`: a Wait gets to a monitor message or a dead feature, past input that
  means nothing and descriptors that nobody owns (it spins on those).

Three disagreements with the words of the code: closing one object closes the others,
readable as they are, without an EventWatch (device.go:235-238); a removed feature stays
available (device.go:126, 268-269); and OpenFeatures does not leave features that are already open
"ignored and not touched" (driver.go:38-39, device.go:228-229), but opens them again and replaces their objects
(device.go:245-253).  The model does as the code does; no run states the third.

Of pointer, filters and wiipointer:

- `OnTarget`: as long as the pointer has what it needs (`Enough`: it sees both ends and no other light is
  near them, or it knew the bar and sees one end, moved by less than half the width),
  it has the ends of the real bar, however many guesses follow each other.
- `Tracks`: the refinement of `Tracking`.
- `NoJump`: the accepted position moves far only after `GlitchMaxCount` steps without a
  frame near it; `HeldBriefly`: no position is valid longer than `ErrorMaxCount` steps without light.
- `MouseOnBar`: the mouse moves only while both ends are in view and nothing scrolls.
- `LedsTell`: while the health stays good, the LEDs come to show it; while it stays lost, they
  come to be off.

Around the drivers:

- `FramesTrue`: an event of a feature carries, for each value told since the node was opened
  and not dropped since, what the device had at the end of that report.
  `KeysFollow`: the same for keys, when all is read.
- `DevicesProvided`: a device that stays, with its driver, is provided, unless udevd told of
  it between the scan and the enabling of the monitor, or the code looked at it
  before its driver was bound.  `OnceEach`: it is provided once for each appearance,
  unless scan and monitor both tell of it, or it comes back before the last time is dealt with.  `PollComesBack`: Poll waits for the scan only.
- `Undamaged`: a block that is returned without an error, from a copy that was read without a skip, is the
  one that was written.  `OneCopyEnough`: the reading ends without a block only if it cannot be had from the first copy,
  being damaged or unreadable, and not from the second either, unless the panic of the kernel driver ended it: that happens
  when the first chunk of a copy cannot be read (linuxkernel/eeprom.go:23), and a good second copy is then not tried.  A
  calibration block is one chunk long, so for it every unreadable first copy ends this way.
- `BitsOnce`: each bit of a block counts in one decoded value, and only there, but for
  those that the comments call unknown.

What the models show without a run of its own: the words of `NewWiimoteMonitor`, that it
provides all devices that are there, do not hold for `missed` and `early`; `Memory.Read` of the kernel backend panics when the
first chunk of a copy gives EIO (`KernelPanic`); `readTwice` returns success when
both copies give no byte (readblock.go:30-32); MotionPlus takes its zero point off a
speed again with every report in which that axis is not told (feature.go:357), although
feature.go:322-325 speaks of offsets subtracted from the data; and
wiipointer can dereference nil (main.go:110-115).

The three violations of the `hid` runs are disagreements with the repository's own words: a key press is told
twice when two goroutines are in the driver (event.go:15-16); Poll blocks (poller.go:23); a Wait
does not deliver an event that is queued (driver.go:104-105), since the poller's
flag does not know of events queued by other calls.

### Bounds

- `RxCap`, unread reports in the kernel: 1 or 2.  Two reports are needed for an
  answer behind a data report, and for two goroutines to hold one each.
- `EventCap`: 1 or 2 instead of 64, so that the queue does fill; the assumption
  `RoomAssumption` keeps the code's relation (what one report can push fits in an empty
  queue: 11 keys, accelerometer and camera against 64).
- `MemCap`: 1 instead of 16; one reader never has more than one reply.
- One key and no key: keys do not interact beyond the order of their events.
- Reads of one and of two chunks, one LED value: what matters is that an address or a request
  differs from the one before.
- Kernel: two features, because the hazards are between one that is closed and
  another that is open, or that takes its node; two descriptors, so that they run
  out; `QueueCap` 6 is what `QueueAssumption` asks for two features (10 and 1024 in the
  code), so that Poll needs all of it, and calls of Close do fill it.  Symmetry of
  the nodes is used where no liveness is checked.
- Pointer: 9 places of a bar of width 3 in a view of 8 by 6 points reach every case of the
  code: both ends, either end, none in view, and two lamps nearer or farther than an end,
  or which make a bar with it or with each other.  Filters: limits of 1 and 2 instead of 8 and 5, and three places, so that
  near and far and every order of dropouts and jumps occur.  One lost blink instead of five.
- Features: two codes of a node change (two axes, an axis and a key, or a code of the tables and one that
  is in none), for each pair of the tables; a buffer of 4 events instead of 64, so
  that a report and a half fit.  `MaxSpeed` and `MaxZero` bound MotionPlus.
- Discovery: one device that stays and one that comes twice, with its driver late or never.
- Memory: blocks of 2 bytes and their checksum, read 2 at a time, so that a block needs more than one
  chunk; bytes of 8 bits, so that the checksums are the real ones; one wrong byte in
  each copy; one address, or all up to one, that cannot be read.
- Layout: of the whole block, one bit of each byte (`Places`); of the rest, all bits.  The proof
  covers any places.
- Two goroutines: every hazard listed is between two.  The proofs cover any number.

### Fairness

`WF(Step(p))`: the Go scheduler runs a goroutine that can take a step.
`SF(DeviceAnswer)`: the Wiimote answers while data reports compete for the
buffer; strong, because the buffer is full again and again.  Nothing is assumed of
calls, keys, data reports or the link: nobody has to press a key.

Kernel: `WF(Step)` as above, and `SF(ReadUmon)`, `SF(ReadFails(k))`.  One epoll_wait
reports everything that is ready, in the order in which it became so, and a feature whose events
mean nothing ends that Poll with ErrWouldBlock.  It is drained by then and goes
behind the others unless new input arrives at once, so the strong fairness says
that input does not do so for ever in exactly that gap.

wiipointer: `WF(ShowHealth)`: that goroutine loops with a sleep.  Nothing is assumed of
the main one, which may wait for ever.

Discovery: `WF(Udevd)`, `WF(Scanner)`, `WF(Client)`: udevd and both goroutines run when
they can, and the caller calls `Wait` again, as every command does.  No timeout,
appearance or driver is assumed.

## 5. What is proved

| Theorem | Statement |
|---|---|
| `HidTypes!TypeInvariant`, `TypeCorrect` | `Spec => []TypeInv`, `Spec => []TypeOK` |
| `HidAnswers!AnswerInvariant` | `Spec => []AnswerInv` |
| `HidAnswers!FreshAnswers` | `Spec => []AnswerFresh` |
| `HidAnswers!AnswersNotLost` | `Spec => []AnswerNotLost` if the buffer drops nothing |
| `HidAnswers!ImplementsAnswers` | `Spec => AnswersOnce` if no two goroutines send the same request |
| `HidEffects!PollRoom` | `Spec => []PollNeverFull` |
| `HidEffects!KeysAlternate` | `Spec => []NeverTwice` for one goroutine |
| `HidEffects!KeysComplete` | `Spec => []KeysTold` for one goroutine |
| `HidEffects!FramesJoined` | `Spec => []FramesWhole` for one goroutine, if the buffer drops nothing |
| `HidEffects!MotorKept` | `Spec => []MotorFollows` for one goroutine, if no write fails |
| `HidEffects!ModeKept` | `Spec => []ModeInEffect` if one goroutine changes features and no write fails |
| `KernelProofs!TypeCorrect` | `Spec => []TypeOK` |
| `KernelProofs!OwnDescriptors` | `Spec => []DescriptorsOwned` |
| `KernelProofs!AllNodesKnown` | `Spec => []NodesKnown` |
| `KernelProofs!PollNeverBlocks` | `Spec => []PollNeverFull` |
| `PointerProofs!PointerTracks` | `PointerSpec => Tracks`: `IRPointer` implements `Tracking` |
| `PointerProofs!StaysOnTarget` | `PointerSpec => []OnTarget` |
| `PointerProofs!BriefBridges` | `MouseSpec => []HeldBriefly` |
| `PointerProofs!NoSuddenJump` | `MouseSpec => NoJump` |
| `PointerProofs!MovesOnBar` | `MouseSpec => MouseOnBar` |
| `EepromProofs!NoDamage` | `EepromSpec => []Undamaged` |
| `EepromProofs!OneCopy` | `EepromSpec => []OneCopyEnough` |
| `EepromProofs!BitsCountOnce` | `LayoutSpec => []BitsOnce` |
| `LibraryProofs!FramesAreTrue` | `FeaturesSpec => []FramesTrue` |
| `LibraryProofs!KeysAreHeld` | `FeaturesSpec => []KeysFollow` |
| `LibraryProofs!ProvidedOnce` | `DiscoverSpec => []OnceEach` |

Those of `HidDevice` hold for any set of goroutines, any calls, keys, features and
capacities, and any faults, from its assumptions: the constants have their types, `None` is no
goroutine, capacities are positive.  Where the table says more, the theorem assumes it, as the run of the
property does, and the property is false without it: with two goroutines in the driver, a key is told twice
(`hid_twice`), keys are queued out of order, the halves of two frames are joined, and Rumble is undone by a
request that was composed before it.  When the buffer drops a report, the half of a frame that
follows is joined to an old one; when a write fails, the device was not told of the motor or the mode.

*Types.*  `TypeOK` is not inductive: that the head of `todo[p]` has an acknowledged id when `output`
looks in `ackErr` follows from the label and the call.  `Shape(p)` says what a
goroutine holds at each label; `TypeInv` is both, and is preserved by each
action separately, one lemma per action.

*Answers.*  `AnswerFresh` is not inductive: it says nothing of the number of
answers, so consuming one could leave another.  `AnswerInv` says that every
goroutine has at most one answer, in one of five places (the device's inbox, the
kernel's buffer, the hands of a reader, `ackErr`, `memory`), that it is to the request the
goroutine waits on, and, when nothing is dropped, that a waiting goroutine has
one.  Most steps move no answer and change nobody's wish (lemmas `Still`,
`Quiet` and what follows from them).  The others move one answer one place on:
`Created` (Send), `Answered`, `Taken` (Read), `AckFiles`, `ReplyFiles`, `Consumed`
(Check, Reply).  Two facts about the code come out of the proof: the delete in
`output` before a request finds nothing to delete (`ForgetQuiet`), and an
acknowledgement never overwrites another one.

*Requests.*  `ImplementsAnswers` follows from `AnswerInv`, which says whose answer `ackErr` and
`memory` hold: `Standing` reads off where each request stands.  `Send` is `Ask` (`SendAsks`), `Ack` and
`MemoryReply` are `Answer` of the one who asked (`AckAnswers`, `ReplyAnswers`), `Check` and `Reply` that find
something are `Collect` (`CheckCollects`, `ReplyCollects`), and all other steps
leave `View` as it is (`QuietSame`, `ReadSame`, `DeviceSame`).

*Queue.*  A Poll that gets to `readEvent` found the queue empty.  `RoomInv` says how much it can hold at
each of the stages that are left of the report: one event for each key that changed,
then one for the accelerometer, then one for the camera.  `PollNeverFull` needs more: without features a report has nothing but keys (`PlainInv`),
since the assumption about capacity counts the others only where features are.

*Keys.*  `KeyInv` says that the events of a key, told or queued, alternate and end in the state that
`btnPrev` has, unless the goroutine still has that key to tell (`KeyOut`); then in the other one.  Neither property is
inductive alone: that they alternate depends on where they end.

*Frames.*  The halves in the buffer, in the hands of the goroutine and in the driver follow each other: a
second half is that of the first half before it (`Paired`), and only the stages of its report use it.

*Motor and mode.*  Between Rumble's change of the bit and its request, the motor is behind (`MotorInv`).
`ModeOf` looks at the requests that a call has still to send: at most one of them sets the mode, and until it is sent
it carries the mode of the open features.

*Kernel.*  `DescriptorsOwned` is inductive with the types: a new object gets a free
descriptor, a closed one gives its own back.  `NodesKnown` is not, since it says
nothing while the nodes are read; `KnownInv` adds that what is not known
is still to be noted (`left`), and that what is to be noted is still there.  For `PollNeverFull`,
`QueueRoom` weighs a reading of the nodes by Poll: what is queued, one announcement for each node that waits, and for each feature
that is open, which this reading closes, one more reading.  Closing a feature takes one from the product and puts
at most as many nodes in wait as there are features, so the sum does not grow, and it is at most
n + n * n for n features, which is what `QueueAssumption` asks for.  The
proofs hold for any features, nodes, descriptors and queue.

*Pointer.*  Both theorems hold for any scale, limits, lamps and places of the bar, provided
that the bar is as wide as the code expects of one (`BarAssumption`) and lights are points with whole
coordinates.  For `PointerTracks`, `PlaceOK` says that whatever `updateSensorbar` takes for the bar
is a pair of points.  `OnTarget` is not inductive: `guessSingle` needs to know that the pointer is not lost
(`TargetInv`).  With both ends in view the real bar is a candidate (`BarIsCandidate`: level, wide
enough, and no other light in its middle, by `MiddleIsNear`), and every other candidate is wider
(`BarIsBest`).  With one end in view that end and its old place are the closest pair
(`SeenEndGaps`: the other end is farther while the bar moves by less than half its width), the last bar moved
there is the real bar (`MovedToEnd`), and the branch for the edge of the view is not taken (`OneEndGuess`).

*Filters and wiipointer.*  The chain is a fold over its filters; `ChainFilters` takes it apart into one frame before
and one after each filter.  `MouseInv` relates the counters of the filters to the history: the error filter has counted
each step without a position that it bridged (`BridgesCounted`), and the glitch filter holds a frame back only while
the bar is away from the accepted place (`FarCounted`), also across a click, which replaces one chain
by a copy of the other.  `MovesOnBar` needs that health goes through the chain unchanged, and that a pointer in good health has a position (`HealthKept`).

*Blocks.*  `NoDamage` and `OneCopy` hold for blocks of any length, bytes of any width, any chunk and any addresses that
cannot be read.  The reading is the smaller part (`ReadInv`): what is read without a skip, or from a copy that is
intact and readable, is the beginning of that copy; a copy is given up, or ends in the panic, only if it is `Lost`.
The larger part is that one wrong byte never passes (`DamageShows`).  A sum that has gone apart stays apart (`SumDetects`).
For the register of the Mii block, two registers that differ still differ when both have taken in the same bits, since
the bit that drops out comes back as bit 0 (`ShiftApart`); and the first bit in which two bytes differ makes a
difference that moves up by one with each bit and cannot leave the register before the byte is in (`Differ`, `DifferMoves`).
A byte is known by its bits (`BitsApart`) and a register by its number (`ValueApart`).

*Layout.*  `BitsCountOnce` holds whichever places of the bytes of a whole block are looked at.
A field is a run of bits in the order of reading (`FieldIsRun`), so that whether a bit is in it is
a matter of two numbers.  Two numbers decoded from blocks that differ in one bit differ exactly if
the field has that bit (`NumberTells`); it remains to show that one field has it (`Counted`).  For a Mii,
no two of the runs, the names and the unknown bits share a bit (`SpansApart`), and together
they cover its 74 bytes (`SpansCover`).  A name ends at the first unit that is zero, but with all bits
set there is none, and with one bit cleared no unit becomes zero, so that ten units are left to compare (`NameTells`).
In the calibrations a number takes two bits from a shared byte (`IROwner`, `AccelOwner`).  In a whole
block a slot has its 74 bytes and its bit of the mask (`SlotTells`, `ParadeTells`).

*Folds.*  The theorems of the library on induction take an operator, which the provers cannot be given.  `FoldProofs`
states induction for sets (`NatSetInduction`, from `WFMin` and the finite sets), shows that the function which a fold chooses
exists (`FoldExists`), and that it takes its elements one after the other.  That 2^(n+1) is twice 2^n
comes from counting subsets.

*Features.*  The theorems hold for each of the ten kinds, any finite set of codes that change (the runs change
two), any values, any buffer of more than two events, and any factors.  Neither property is
inductive, since between the reports the values of the object are neither here nor there.  `Reaches(o, q, k, c, v)` says that
an object that reads the first k events of the buffer gets to the value v of code c: the last of them that tells of c
tells v, or, if none does, v is what it has.  The invariant `FeaturesInv` has it for the whole buffer and what the device has now
(`Arriving`), and for each mark of a report in the buffer and what the device had then.  MotionPlus needs more care, since a mark
changes the values that are not told: what comes after a mark counts only if it is told.  Reading takes the
first event from all of these (`ReachesRead`, `ReadArrives`); that a value or a key is not touched by another code is a
fact about the tables (`AxesApart`, `KeysApart`, `AxisOrKey`).  A report adds to them, event by event, in a fold
(`PutArrives`, `FoldArrives`), and when it does not fit, nothing that was in the buffer
is held against it (`DroppedArrives`).

*Discovery.*  `ProvidedOnce` holds for any finite set of devices.  `OnceEach` counts only what has
happened; `OnceInv(d)` says that at most one thing can still provide `d`, and only if `d` was not
provided since it appeared: an entry of the enumeration or the device the goroutine holds, if `d` was
enumerated, else the message "add", told already or not.  Two
appearances that are told at once and a device both enumerated and told (`again`) are outside, and
the code does provide these twice.

The inductive invariants were checked by TLC on the instances above before they
were proved.

## 6. What is only model-checked, and what is not modelled

Only checked: the liveness properties `OutputReturns`, `WaitReturns`, `DevicesProvided`, `PollComesBack` and
`LedsTell`, which the proof system cannot handle.  Every safety property of the passing runs is a
theorem.  The five properties that runs find violated are false.

Not modelled in the raw-HID driver: the values of accelerometer and camera, the
battery, a short reply, the acknowledgement's error
value, writes of several chunks and the sleep after each, two goroutines that change
features at once.  In the kernel driver: errors of udev and epoll, the sysfs
attributes, Rumble, the overflow of MotionPlus.  Poller: Stream.  Memory file:
`ReadByte`, a seek that fails.  Discovery: the errors that `NewWiimoteMonitor` returns (it leaves
the goroutine of the scan behind, blocked).  Pointer: position and distance; angles
that are no quarter turn.  Filters: `Reset`, Marcan, Translate.  Commands: wiimap and wiilog, the
keys that wiipointer passes on.  Whole components: the hidraw transport and the backend choice keep no
state; names, formatting and the declarations of events have no behaviour.
