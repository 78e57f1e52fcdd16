------------------------------ MODULE HidCorrect ------------------------------
(* What the raw-HID driver is to guarantee, and to whom. *)
EXTENDS HidDevice

Labels == {"idle", "mode", "compose", "forget", "send", "check", "reply",
           "poll", "read", "gone", "handle", "press", "keys",
           "first", "second", "await", "more"}
StageNames == {"status", "memory", "ack", "buttons", "accel", "store", "pair", "ir"}
ReportIds == Modes \cup {"0x20", "0x21", "0x22", "0x3f", "none"}
Polls == {"Poll", "Wait", "WaitFor"}

Requests ==
  {r \in [rid : Rids, mode : Modes \cup {"none"}, val : Nat, rumble : BOOLEAN] :
     r.rid = "0x20" => r.mode \in Modes}
Asked == [rid : AckRids \cup {"0x17"}, val : Nat, of : Proc]

\* Only the answers to requests have an owner and name their request.
Reports ==
  {r \in [id : ReportIds, btn : SUBSET Keys, val : Nat, re : Rids \cup {"none"},
          good : BOOLEAN, of : Proc \cup {None}] :
     /\ r.id = "0x22" => r.re \in AckRids /\ r.of # None
     /\ r.id = "0x21" => r.re = "0x17" /\ r.of # None
     /\ r.id \notin {"0x21", "0x22"} => r.re = "none" /\ r.of = None}
Events == [kind : {"key", "accel", "ir", "gone", "watch"}, key : Keys \cup {0}, val : {0, 1}]

DeviceTypeOK ==
  /\ rx \in Seq(Reports) /\ Len(rx) <= RxCap
  /\ link \in {"up", "eof", "err"}
  /\ inbox \in Seq(Asked)
  /\ held \in SUBSET Keys
  /\ devMode \in Modes /\ phase \in 0 .. 3
  /\ motor \in BOOLEAN /\ lights \in Nat

ObjectTypeOK ==
  /\ openIfs \in SUBSET (Kinds \cup {"core"}) /\ irfull \in BOOLEAN /\ rumble \in BOOLEAN
  /\ led \in Nat /\ btnPrev \in SUBSET Keys /\ interleaved \in Nat
  /\ ackErr \in [AckRids -> Proc \cup {None}]
  /\ memory \in Seq({r \in Reports : r.id = "0x21"}) /\ Len(memory) <= MemCap
  /\ moreEvents \in Seq(Events) /\ Len(moreEvents) <= EventCap
  /\ wait \in BOOLEAN
  /\ seen \in SUBSET (Keys \cup {0})

GoroutineTypeOK ==
  /\ pc \in [Proc -> Labels]
  /\ op \in [Proc -> Calls \cup {"none"}]
  /\ todo \in [Proc -> Seq(Requests)]
  /\ rep \in [Proc -> Reports]
  /\ stages \in [Proc -> Seq(StageNames)]
  /\ out \in [Proc -> SUBSET Keys]

\* The values of every variable; the three channels and buffers keep to their
\* capacities.
TypeOK == DeviceTypeOK /\ ObjectTypeOK /\ GoroutineTypeOK

-----------------------------------------------------------------------------
(* Requests and their answers *)

\* Goroutine p has sent its current request and has not come back with it.
Awaiting(p) ==
  todo[p] # <<>> /\ pc[p] \notin {"idle", "mode", "compose", "forget", "send"}

AwaitingRid(p, rid) == Awaiting(p) /\ todo[p][1].rid = rid

\* Where the answer to p's request rid is on its way: still to be given, unread,
\* in the hands of a goroutine inside readEvent, or filed.
ToBeGiven(p, rid) == \E i \in 1 .. Len(inbox) : inbox[i].of = p /\ inbox[i].rid = rid
Unread(p, rid) == \E i \in 1 .. Len(rx) : rx[i].of = p /\ rx[i].re = rid
Holds(q) ==
  pc[q] = "handle" /\ stages[q] # <<>> /\ Head(stages[q]) \in {"ack", "memory"}
InHand(p, rid) == \E q \in Proc : Holds(q) /\ rep[q].of = p /\ rep[q].re = rid
Filed(p, rid) == \/ rid \in AckRids /\ ackErr[rid] = p
                 \/ \E i \in 1 .. Len(memory) : memory[i].of = p /\ memory[i].re = rid

OnItsWay(p, rid) ==
  ToBeGiven(p, rid) \/ Unread(p, rid) \/ InHand(p, rid) \/ Filed(p, rid)

\* The requests that a call sends, and those that a goroutine can make.
OpRids(call) ==
  CASE call = "SetLED" -> {"0x11"}
    [] call = "Rumble" -> {"0x10"}
    [] call \in {"OpenFeatures", "Close"} -> {"0x20", "0x13", "0x1a"}
    [] call = "ReadAt" -> {"0x17"}
    [] call = "WriteAt" -> {"0x16"}
    [] OTHER -> {}

RidsOf(p) == UNION {OpRids(call) : call \in Work[p]}

\* The calls that send the same request are made by one goroutine at a time.
OneCaller == \A p, q \in Proc : p # q => RidsOf(p) \cap RidsOf(q) = {}

\* While a goroutine waits in output or readMemory, the answer to its request
\* is somewhere it can still come from: no other goroutine's readEvent, delete
\* or channel operation makes away with it.
AnswerNotLost ==
  OneCaller => \A p \in Proc :
    Awaiting(p) => OnItsWay(p, todo[p][1].rid)

\* Nothing is left over from an earlier request: what output finds in ackErr,
\* or readMemory in the channel, answers the request it has just sent.
AnswerFresh ==
  OneCaller => \A p \in Proc, rid \in Rids :
    OnItsWay(p, rid) => AwaitingRid(p, rid)

\* The abstract view of a request: a goroutine has none, waits for the answer,
\* or has it filed under its request by whoever read it.
Phase(p) == CASE ~Awaiting(p) -> "idle"
              [] Awaiting(p) /\ Filed(p, todo[p][1].rid) -> "answered"
              [] OTHER -> "asked"

Requesting == INSTANCE Answers WITH phase <- [p \in Proc |-> Phase(p)]

\* The driver keeps the promise of Answers: output and readMemory return with
\* the answer to their own request and not before it is filed, each answer is
\* taken once, and no goroutine's step changes where another one's stands,
\* except to file its answer.  (As for AnswerNotLost, each kind of request has one
\* caller: the instance satisfies OneCaller.)
AnswersOnce == Requesting!Spec

-----------------------------------------------------------------------------
(* What a goroutine holds at each of its labels *)

Reading == {"poll", "read", "gone", "handle", "press", "keys"}

Shape(p) ==
  /\ op[p] \in Work[p] \cup {"none"}
  /\ \A i \in 1 .. Len(todo[p]) : todo[p][i].rid \in OpRids(op[p])
  /\ pc[p] = "idle" <=> op[p] = "none"
  /\ pc[p] \in {"first", "second", "await", "more"} => op[p] \in Polls
  /\ pc[p] = "mode" => op[p] \in {"OpenFeatures", "Close"}
  /\ pc[p] \in {"compose", "forget", "send", "check", "reply"} => todo[p] # <<>>
  /\ pc[p] \in {"forget", "check"} => op[p] \notin {"ReadAt", "WriteAt"}
  /\ pc[p] = "reply" => op[p] = "ReadAt"
  /\ pc[p] \in Reading => op[p] # "WriteAt" /\ (op[p] \in Polls \/ todo[p] # <<>>)
  /\ pc[p] \in {"handle", "press", "keys"} => stages[p] # <<>>
  /\ pc[p] \in {"press", "keys"} => Head(stages[p]) = "buttons"
  /\ \A i \in 2 .. Len(stages[p]) : stages[p][i] \notin {"status", "memory", "ack"}
  /\ \A i \in 1 .. Len(stages[p]) : stages[p][i] = "pair" => i < Len(stages[p])
  /\ pc[p] = "handle" /\ Head(stages[p]) = "ack" => rep[p].id = "0x22"
  /\ pc[p] = "handle" /\ Head(stages[p]) = "memory" => rep[p].id = "0x21"

\* The inductive strengthening of TypeOK.
TypeInv == TypeOK /\ \A p \in Proc : Shape(p)

-----------------------------------------------------------------------------
(* Why answers are fresh and not lost: each goroutine has one answer at most, *)
(* in one place, and it is the one to the request that the goroutine waits on.*)

Wants(p) == IF Awaiting(p) THEN todo[p][1].rid ELSE "none"

AtDevice(p) == \E i \in 1 .. Len(inbox) : inbox[i].of = p
AtBuffer(p) == \E i \in 1 .. Len(rx) : rx[i].of = p
AtReader(p) == \E q \in Proc : Holds(q) /\ rep[q].of = p
AtAcks(p) == \E rid \in AckRids : ackErr[rid] = p
AtMemory(p) == \E i \in 1 .. Len(memory) : memory[i].of = p

AnswersMatch(p) ==
  /\ \A i \in 1 .. Len(inbox) : inbox[i].of = p => inbox[i].rid = Wants(p)
  /\ \A i \in 1 .. Len(rx) : rx[i].of = p => rx[i].re = Wants(p)
  /\ \A q \in Proc : Holds(q) /\ rep[q].of = p => rep[q].re = Wants(p)
  /\ \A rid \in AckRids : ackErr[rid] = p => rid = Wants(p)
  /\ \A i \in 1 .. Len(memory) : memory[i].of = p => memory[i].re = Wants(p)

AnswersApart ==
  /\ \A i, j \in 1 .. Len(inbox) : inbox[i].of = inbox[j].of => i = j
  /\ \A i, j \in 1 .. Len(rx) : rx[i].of = rx[j].of => i = j \/ rx[i].of = None
  /\ \A q, r \in Proc : Holds(q) /\ Holds(r) /\ rep[q].of = rep[r].of => q = r
  /\ \A i, j \in 1 .. Len(memory) : memory[i].of = memory[j].of => i = j

OnePlace(p) ==
  /\ AtDevice(p) => ~AtBuffer(p) /\ ~AtReader(p) /\ ~AtAcks(p) /\ ~AtMemory(p)
  /\ AtBuffer(p) => ~AtReader(p) /\ ~AtAcks(p) /\ ~AtMemory(p)
  /\ AtReader(p) => ~AtAcks(p) /\ ~AtMemory(p)
  /\ AtAcks(p) => ~AtMemory(p)

SomePlace(p) == AtDevice(p) \/ AtBuffer(p) \/ AtReader(p) \/ AtAcks(p) \/ AtMemory(p)

\* The inductive strengthening of AnswerFresh and AnswerNotLost.
AnswerInv ==
  OneCaller =>
    /\ AnswersApart
    /\ \A p \in Proc : AnswersMatch(p) /\ OnePlace(p)
    /\ "drop" \notin Faults => \A p \in Proc : Awaiting(p) => SomePlace(p)

-----------------------------------------------------------------------------
(* Device state that follows the calls *)

\* When OpenFeatures or Close returns success (it always does), the device
\* reports in the mode that the open features ask for.
ModeInEffect ==
  [][\A p \in Proc :
       op[p] \in {"OpenFeatures", "Close"} /\ pc'[p] = "idle"
         => \/ openIfs = {}
            \/ \E full \in BOOLEAN : devMode = Mode(openIfs, full)]_vars

\* No call undoes Rumble: every report sent since carries the motor bit, so
\* between calls the motor is as it was last set.
MotorFollows == (\A p \in Proc : pc[p] = "idle") => motor = rumble

-----------------------------------------------------------------------------
(* Events *)

KeyEvents(k) ==
  {i \in 1 .. Len(moreEvents) : moreEvents[i].kind = "key" /\ moreEvents[i].key = k}

Bit(k, btn) == IF k \in btn THEN 1 ELSE 0

\* What is told of key k by the queued event i, and before all of them (0).
KeyState(k, i) == IF i = 0 THEN Bit(k, seen) ELSE moreEvents[i].val
Tellings(k) == {0} \cup KeyEvents(k)

\* Nothing is told of k from position i to position j.
Silent(k, i, j) == \A m \in KeyEvents(k) : m < i \/ m > j

\* A physical key press or release is reported once: the events of a key, those
\* returned and those queued, alternate.
NeverTwice ==
  \A k \in Keys : \A i \in Tellings(k), j \in KeyEvents(k) :
    i < j /\ Silent(k, i + 1, j - 1) => KeyState(k, i) # KeyState(k, j)

\* The last event of key k tells the value v.
EndsWith(k, v) ==
  \A i \in Tellings(k) : Silent(k, i + 1, Len(moreEvents)) => KeyState(k, i) = v

\* The events lead to the keys of the last report: nothing is missing, whatever
\* calls read the reports.
KeysTold ==
  (\A p \in Proc : pc[p] \notin {"press", "keys"}) =>
    \A k \in Keys : EndsWith(k, Bit(k, btnPrev))

\* An IR event built from two interleaved reports joins halves of one frame.
FramesWhole == \A i \in 1 .. Len(moreEvents) : moreEvents[i].kind = "ir" => moreEvents[i].val = 1

-----------------------------------------------------------------------------
(* Liveness *)

\* Goroutine p cannot go on because moreEvents is full.
BlockedOnEvents(p) ==
  /\ Len(moreEvents) = EventCap
  /\ \/ pc[p] \in {"keys", "gone"}
     \/ pc[p] = "handle" /\ Head(stages[p]) \in {"accel", "ir"}

\* A goroutine on its own never blocks in Poll or Wait at a full queue: they
\* read a report only with the queue empty, and one report never fills it.
PollNeverFull ==
  \A p \in Proc : Proc = {p} /\ BlockedOnEvents(p) => op[p] \notin Polls

\* A call that sends requests returns once the device has answered, or it stops
\* at a full event queue that nobody empties.
OutputReturns ==
  \A p \in Proc :
    pc[p] # "idle" /\ op[p] \notin Polls ~> pc[p] = "idle" \/ BlockedOnEvents(p)

\* poller.go: "Poll attempts to retrieve an event or data without blocking."
PollReturns == \A p \in Proc : pc[p] # "idle" /\ op[p] = "Poll" ~> pc[p] = "idle"

\* driver.go: "Wait waits for an event ... and returns the first valid event":
\* with an event queued, a Wait returns.
WaitDelivers ==
  \A p \in Proc :
    pc[p] # "idle" /\ op[p] = "Wait" /\ moreEvents # <<>> ~> pc[p] = "idle"
=============================================================================
