------------------------------ MODULE HidEffects ------------------------------
(* Proofs about what the raw-HID driver makes of the reports, and of the      *)
(* calls: the event queue never stops the one goroutine that empties it, key  *)
(* events alternate and are complete, joined camera halves are of one frame,  *)
(* the motor is as it was set, and the device is in the mode it was put in.   *)
EXTENDS HidTypes, FiniteSetTheorems

\* What can be left of the chain of ifs in readEvent, for a report of this id.
StagesLeft(id) ==
  CASE id = "0x20" -> {<<"status", "buttons">>, <<"buttons">>}
    [] id = "0x21" -> {<<"memory", "buttons">>, <<"buttons">>}
    [] id = "0x22" -> {<<"ack", "buttons">>, <<"buttons">>}
    [] id = "0x30" -> {<<"buttons">>}
    [] id \in {"0x31", "0x35"} -> {<<"buttons", "accel">>, <<"accel">>}
    [] id \in {"0x33", "0x37"} -> {<<"buttons", "accel", "ir">>, <<"accel", "ir">>, <<"ir">>}
    [] id = "0x36" -> {<<"ir">>}
    [] id = "0x3e" -> {<<"buttons", "store">>, <<"store">>}
    [] id = "0x3f" -> {<<"buttons", "accel", "pair", "ir">>, <<"accel", "pair", "ir">>,
                       <<"pair", "ir">>, <<"ir">>}
    [] OTHER -> {}

\* The stages that can follow stage a.
After(a) ==
  CASE a \in {"status", "memory", "ack"} -> {"buttons"}
    [] a = "buttons" -> {"accel", "store"}
    [] a = "accel" -> {"pair", "ir"}
    [] a = "pair" -> {"ir"}
    [] OTHER -> {}

Handling == {"handle", "press", "keys"}

\* Goroutine p holds a report and is at one of the stages S.
HandlesAt(p, S) == pc[p] = "handle" /\ Head(stages[p]) \in S

StagesInv(p) ==
  /\ pc[p] \in Handling => stages[p] \in StagesLeft(rep[p].id)
  /\ pc[p] \in {"press", "keys"} => out[p] # {}

-----------------------------------------------------------------------------
(* The event queue *)

\* Without features the Wiimote reports keys only.
PlainInv ==
  Kinds = {} =>
    /\ devMode = "0x30"
    /\ \A i \in 1 .. Len(rx) : rx[i].id \in {"0x21", "0x22", "0x30"}
    /\ \A p \in Proc : op[p] \notin {"OpenFeatures", "Close"}
    /\ \A p \in Proc : pc[p] \in Handling => rep[p].id \in {"0x21", "0x22", "0x30"}

\* A Poll that reads found the queue empty, and what it has put there since
\* leaves room for the rest of the report.
RoomInv(p) ==
  op[p] \in Polls =>
    /\ pc[p] \in {"poll", "read", "gone", "press"} => moreEvents = <<>>
    /\ HandlesAt(p, {"status", "memory", "ack", "buttons"}) => moreEvents = <<>>
    /\ pc[p] = "keys" => Len(moreEvents) + Cardinality(out[p]) <= Cardinality(Keys)
    /\ HandlesAt(p, {"accel"}) => Len(moreEvents) <= Cardinality(Keys)
    /\ HandlesAt(p, {"pair", "ir"}) => Len(moreEvents) <= Cardinality(Keys) + 1

QueueInv == PlainInv /\ \A p \in Proc : StagesInv(p) /\ (Proc = {p} => RoomInv(p))

-----------------------------------------------------------------------------
(* The keys *)

\* A goroutine that is about to tell of key k knows its new state.
KeyInv(p) ==
  /\ NeverTwice
  /\ \A k \in Keys :
       EndsWith(k, IF pc[p] = "keys" /\ k \in out[p] THEN 1 - Bit(k, btnPrev) ELSE Bit(k, btnPrev))
  /\ pc[p] = "press" => out[p] = Changed(btnPrev, rep[p].btn)
  /\ pc[p] = "keys" => rep[p].btn = btnPrev

-----------------------------------------------------------------------------
(* The camera *)

Half(i) == rx[i].id \in {"0x3e", "0x3f"}

\* The half that the driver has, once it has done with the report in its hands.
Kept(p, v) ==
  IF pc[p] \in Handling /\ rep[p].id = "0x3e" THEN rep[p].val = v ELSE interleaved = v

\* The unread report at position i (0 stands for what has been read) is the
\* first half of frame v.
FirstHalf(p, i, v) == IF i = 0 THEN Kept(p, v) ELSE rx[i].id = "0x3e" /\ rx[i].val = v

\* The last half before position i is the first one of frame v.
Follows(p, i, v) ==
  \E j \in 0 .. i - 1 : FirstHalf(p, j, v) /\ \A m \in j + 1 .. i - 1 : ~Half(m)

\* The report at position i, unread or about to be sent, is the second half of
\* frame v.
SecondHalf(i, v) ==
  \/ i \in 1 .. Len(rx) /\ rx[i].id = "0x3f" /\ rx[i].val = v
  \/ i = Len(rx) + 1 /\ devMode = "0x3e" /\ phase % 2 = 1 /\ phase \div 2 = v

Paired(p) == \A i, v : SecondHalf(i, v) => Follows(p, i, v)

\* Only memory replies are bad, and the second half in the driver's hands is
\* of the frame that it has the first half of.
Sound(p) ==
  /\ \A i \in 1 .. Len(rx) : rx[i].id # "0x21" => rx[i].good
  /\ pc[p] \in Handling =>
       /\ rep[p].id = "0x3f" => interleaved = rep[p].val
       /\ rep[p].id # "0x21" => rep[p].good

FrameInv(p) == FramesWhole /\ Paired(p) /\ Sound(p)

-----------------------------------------------------------------------------
(* Motor and mode *)

NoFailures == {"eof", "err", "write"} \cap Faults = {}

\* The motor is as it was set, but while Rumble's own request is not sent; and a
\* report that is about to be sent says so.
MotorInv(p) ==
  /\ link = "up"
  /\ op[p] # "Rumble" \/ pc[p] \notin {"compose", "forget", "send"} => motor = rumble
  /\ pc[p] \in {"forget", "send"} => todo[p][1].rumble = rumble

Feature == {"OpenFeatures", "Close"}

InMode(m) == \E full \in BOOLEAN : m = Mode(openIfs, full)

\* While p changes the features, the mode that they ask for is in effect, or is
\* the next to be sent.
ModeOf(p) ==
  op[p] \in Feature /\ pc[p] # "mode" =>
    /\ openIfs # {}
    /\ \A i \in 2 .. Len(todo[p]) : todo[p][i].rid # "0x20"
    /\ IF todo[p][1].rid = "0x20" /\ pc[p] \in {"compose", "forget", "send"}
       THEN InMode(todo[p][1].mode) ELSE InMode(devMode)

-----------------------------------------------------------------------------
(* What each kind of step can do *)

\* A step of p moves no other goroutine.
Others(p) ==
  \A q \in Proc : q # p =>
    /\ pc'[q] = pc[q] /\ op'[q] = op[q] /\ todo'[q] = todo[q]
    /\ rep'[q] = rep[q] /\ stages'[q] = stages[q] /\ out'[q] = out[q]

\* The device touches neither a goroutine nor the driver, and the link only fails
\* in ways that Faults allows.
LEMMA DeviceMoves ==
  ASSUME Device
  PROVE  /\ UNCHANGED <<motor, lights, devMode, cfgVars, repVars, chanVars, wait, pc, callVars, readVars, seen>>
         /\ link' = link \/ link' \in Faults \cap {"eof", "err"}
  BY DEF Device, DeviceAnswer, DeviceReport, DeviceStatus, LinkFails

\* A call that starts.
LEMMA CallMoves ==
  ASSUME TypeInv, NEW p \in Proc, Call(p)
  PROVE  /\ Others(p) /\ pc[p] = "idle"
         /\ pc'[p] \in {"idle", "first", "await", "compose", "mode"}
         /\ UNCHANGED <<devVars, repVars, chanVars, wait, readVars, seen>>
<1> USE DEF TypeInv, TypeOK, GoroutineTypeOK, Others, callVars, cfgVars, readVars
<1>1. ASSUME NEW call \in Polls, StartPoll(p, call)
      PROVE  /\ Others(p) /\ pc[p] = "idle"
             /\ pc'[p] \in {"first", "await"}
             /\ UNCHANGED <<devVars, repVars, chanVars, wait, readVars, seen>>
  BY <1>1 DEF StartPoll, GoTo
<1>2. ASSUME NEW call, NEW rs, Begin(p, call, rs)
      PROVE  /\ Others(p) /\ pc[p] = "idle"
             /\ pc'[p] = "compose"
             /\ UNCHANGED <<devVars, repVars, chanVars, wait, readVars, seen>>
  BY <1>2 DEF Begin, GoTo
<1>3. ASSUME NEW call, NEW ifs, ChangeFeatures(p, call, ifs)
      PROVE  /\ Others(p) /\ pc[p] = "idle"
             /\ pc'[p] = "mode"
             /\ UNCHANGED <<devVars, repVars, chanVars, wait, readVars, seen>>
  BY <1>3 DEF ChangeFeatures, GoTo
<1>4. CASE SetIRFull(p)
  BY <1>4 DEF SetIRFull
<1> QED
  BY <1>1, <1>2, <1>3, <1>4 DEF Call, Polls, SetLED, Rumble, ReadAt, WriteAt, OpenFeatures, CloseFeature

\* A step of output or readMemory.
LEMMA OutputMoves ==
  ASSUME TypeInv, NEW p \in Proc, Output(p)
  PROVE  /\ Others(p) /\ op[p] \notin Polls \cup {"none"}
         /\ pc'[p] \in {"idle", "compose", "forget", "send", "check", "poll"}
         /\ op'[p] \in {op[p], "none"}
         /\ UNCHANGED <<rx, link, held, cfgVars, repVars, moreEvents, wait, readVars, seen>>
<1> USE DEF TypeInv, TypeOK
<1>1. op[p] \notin Polls \cup {"none"}
  <2>1. pc[p] \in {"mode", "compose", "forget", "send", "check", "reply"}
    BY DEF Output, UpdateReportMode, Compose, Forget, Send, SendFails, Check, Reply
  <2>2. pc[p] # "mode" => todo[p] # <<>> /\ todo[p] \in Seq(Requests)
    BY <2>1 DEF Shape, GoroutineTypeOK
  <2>3. pc[p] # "mode" => todo[p][1].rid \in OpRids(op[p])
    BY <2>2 DEF Shape
  <2>4. pc[p] = "mode" => op[p] \in {"OpenFeatures", "Close"}
    BY DEF Shape
  <2> QED
    BY <2>1, <2>3, <2>4 DEF OpRids, Polls
<1>2. ASSUME Return(p), UNCHANGED readVars
      PROVE  Others(p) /\ pc'[p] = "idle" /\ op'[p] = "none"
  BY <1>2, ReturnStep DEF Others, readVars
<1>3. ASSUME NextRequest(p), UNCHANGED readVars, todo[p] # <<>>
      PROVE  Others(p) /\ pc'[p] \in {"idle", "compose"} /\ op'[p] \in {op[p], "none"}
  BY <1>3, NextRequestStep DEF Others, readVars
<1>4. CASE UpdateReportMode(p)
  BY <1>1, <1>2, <1>4 DEF UpdateReportMode, GoTo, Others, GoroutineTypeOK, devVars, chanVars, readVars
<1>5. CASE Compose(p)
  BY <1>1, <1>5 DEF Compose, GoTo, Others, GoroutineTypeOK, devVars, chanVars, readVars
<1>6. CASE Forget(p)
  BY <1>1, <1>6 DEF Forget, GoTo, Others, GoroutineTypeOK, devVars, callVars, readVars
<1>7. CASE Send(p)
  <2>1. todo[p] # <<>>
    BY <1>7 DEF Send, Shape
  <2> QED
    BY <1>1, <1>3, <1>7, <2>1 DEF Send, GoTo, Others, GoroutineTypeOK, chanVars, callVars, readVars
<1>8. CASE SendFails(p)
  <2>1. todo[p] # <<>>
    BY <1>8 DEF SendFails, Shape
  <2> QED
    BY <1>1, <1>2, <1>3, <1>8, <2>1 DEF SendFails, devVars, chanVars
<1>9. CASE Check(p)
  <2>1. todo[p] # <<>>
    BY <1>9 DEF Check, Shape
  <2> QED
    BY <1>1, <1>3, <1>9, <2>1 DEF Check, GoTo, Others, GoroutineTypeOK, devVars, callVars, readVars
<1>10. CASE Reply(p)
  <2>1. todo[p] # <<>>
    BY <1>10 DEF Reply, Shape
  <2> QED
    BY <1>1, <1>2, <1>3, <1>10, <2>1 DEF Reply, GoTo, Others, GoroutineTypeOK, devVars, callVars, readVars
<1> QED
  BY <1>4, <1>5, <1>6, <1>7, <1>8, <1>9, <1>10 DEF Output

\* A step of Poll or Wait: only Take takes an event, only First goes on to read.
LEMMA PollMoves ==
  ASSUME TypeInv, NEW p \in Proc, PollStep(p)
  PROVE  /\ Others(p) /\ op[p] \in Polls
         /\ pc'[p] \in {"idle", "first", "await", "more", "poll"}
         /\ op'[p] \in {op[p], "none"}
         /\ UNCHANGED <<devVars, cfgVars, repVars, ackErr, memory, readVars>>
         /\ UNCHANGED <<moreEvents, seen>> \/ Take(p)
         /\ pc'[p] = "poll" => moreEvents' = <<>>
<1> USE DEF TypeInv, TypeOK
<1>1. op[p] \in Polls
  <2>1. pc[p] \in {"first", "second", "more", "await"}
    BY DEF PollStep, Take, More, First, WouldBlock, Await, AwaitFails
  <2> QED
    BY <2>1 DEF Shape
<1>2. ASSUME Return(p), UNCHANGED readVars
      PROVE  Others(p) /\ pc'[p] = "idle" /\ op'[p] = "none"
  BY <1>2, ReturnStep DEF Others, readVars
<1>3. CASE Take(p)
  BY <1>1, <1>2, <1>3 DEF Take, GoTo, Others, GoroutineTypeOK, callVars, readVars
<1>4. CASE More(p)
  BY <1>1, <1>2, <1>4 DEF More, chanVars
<1>5. CASE First(p)
  BY <1>1, <1>5 DEF First, GoTo, Others, GoroutineTypeOK, callVars, chanVars, readVars
<1>6. CASE WouldBlock(p)
  BY <1>1, <1>2, <1>6 DEF WouldBlock, GoTo, Others, GoroutineTypeOK, callVars, chanVars, readVars
<1>7. CASE Await(p)
  BY <1>1, <1>7 DEF Await, GoTo, Others, GoroutineTypeOK, callVars, chanVars, readVars
<1>8. CASE AwaitFails(p)
  BY <1>1, <1>2, <1>8 DEF AwaitFails, chanVars
<1> QED
  BY <1>3, <1>4, <1>5, <1>6, <1>7, <1>8 DEF PollStep

\* A step of readEvent.
LEMMA ReadMoves ==
  ASSUME TypeInv, NEW p \in Proc, ReadEvent(p)
  PROVE  /\ Others(p) /\ op' = op /\ todo' = todo
         /\ UNCHANGED <<link, inbox, held, devMode, phase, motor, lights, cfgVars, wait, seen>>
         /\ UNCHANGED rx \/ Read(p)
         /\ UNCHANGED moreEvents \/ Gone(p) \/ KeyOut(p) \/ AccelOut(p) \/ IROut(p)
         /\ UNCHANGED interleaved \/ Store(p)
         /\ UNCHANGED btnPrev \/ Press(p)
         /\ UNCHANGED out \/ Buttons(p) \/ KeyOut(p)
<1> USE DEF TypeInv, TypeOK, vars, devVars, repVars, chanVars, callVars, readVars
<1>1. ASSUME pc' \in {pc, [pc EXCEPT ![p] = pc'[p]]}, rep' \in {rep, [rep EXCEPT ![p] = rep'[p]]},
             stages' \in {stages, [stages EXCEPT ![p] = stages'[p]]},
             out' \in {out, [out EXCEPT ![p] = out'[p]]}, op' = op, todo' = todo
      PROVE  Others(p)
  BY <1>1 DEF Others, GoroutineTypeOK
<1>2. ASSUME StageDone(p), out' \in {out, [out EXCEPT ![p] = out'[p]]}, op' = op, todo' = todo
      PROVE  Others(p)
  BY <1>1, <1>2 DEF StageDone, GoTo, GoroutineTypeOK
<1>3. CASE WaitReadable(p)
  BY <1>1, <1>3 DEF WaitReadable, GoTo, GoroutineTypeOK
<1>4. CASE Read(p)
  BY <1>1, <1>4 DEF Read, GoTo, GoroutineTypeOK
<1>5. CASE Gone(p)
  BY <1>1, <1>5 DEF Gone, GoTo, GoroutineTypeOK
<1>6. CASE Status(p)
  BY <1>2, <1>6 DEF Status
<1>7. CASE MemoryReply(p)
  BY <1>2, <1>7 DEF MemoryReply
<1>8. CASE Ack(p)
  BY <1>2, <1>8 DEF Ack
<1>9. CASE Buttons(p)
  BY <1>1, <1>2, <1>9 DEF Buttons, GoTo, GoroutineTypeOK
<1>10. CASE Press(p)
  BY <1>1, <1>10 DEF Press, GoTo, GoroutineTypeOK
<1>11. CASE KeyOut(p)
  <2>1. PICK k \in out[p] :
          /\ out' = [out EXCEPT ![p] = out[p] \ {k}]
          /\ IF out[p] = {k} THEN StageDone(p) ELSE UNCHANGED <<pc, rep, stages>>
    BY <1>11 DEF KeyOut
  <2>2. op' = op /\ todo' = todo
    BY <1>11 DEF KeyOut
  <2>3. out' = [out EXCEPT ![p] = out'[p]]
    BY <2>1 DEF GoroutineTypeOK
  <2>4. Others(p)
    BY <1>1, <1>2, <2>1, <2>2, <2>3
  <2> QED
    BY <1>11, <2>4 DEF KeyOut
<1>12. CASE AccelOut(p)
  BY <1>2, <1>12 DEF AccelOut
<1>13. CASE Store(p)
  BY <1>2, <1>13 DEF Store
<1>14. CASE Pair(p)
  BY <1>1, <1>14 DEF Pair, GoroutineTypeOK
<1>15. CASE IROut(p)
  BY <1>2, <1>15 DEF IROut
<1> QED
  BY <1>3, <1>4, <1>5, <1>6, <1>7, <1>8, <1>9, <1>10, <1>11, <1>12, <1>13, <1>14, <1>15 DEF ReadEvent

-----------------------------------------------------------------------------
(* The stages of a report *)

\* Taking the stages of readEvent off one by one stays in the lists above.
LEMMA LeftStages ==
  ASSUME NEW id
  PROVE  /\ Stages(id) # <<>> => Stages(id) \in StagesLeft(id)
         /\ \A s \in StagesLeft(id) :
              Tail(s) # <<>> => Tail(s) \in StagesLeft(id) /\ Head(Tail(s)) \in After(Head(s))
<1>1. CASE id = "0x20"
  <2>1. /\ Stages(id) = <<"status", "buttons">>
        /\ StagesLeft(id) = {<<"status", "buttons">>, <<"buttons">>}
    BY <1>1 DEF Stages, StagesLeft
  <2>2. /\ Tail(<<"status", "buttons">>) = <<"buttons">>
        /\ Head(<<"status", "buttons">>) = "status" /\ Head(<<"buttons">>) = "buttons"
    OBVIOUS
  <2>3. Tail(<<"buttons">>) = <<>>
    OBVIOUS
  <2> QED
    BY <2>1, <2>2, <2>3 DEF After
<1>2. CASE id = "0x21"
  <2>1. /\ Stages(id) = <<"memory", "buttons">>
        /\ StagesLeft(id) = {<<"memory", "buttons">>, <<"buttons">>}
    BY <1>2 DEF Stages, StagesLeft
  <2>2. /\ Tail(<<"memory", "buttons">>) = <<"buttons">>
        /\ Head(<<"memory", "buttons">>) = "memory" /\ Head(<<"buttons">>) = "buttons"
    OBVIOUS
  <2>3. Tail(<<"buttons">>) = <<>>
    OBVIOUS
  <2> QED
    BY <2>1, <2>2, <2>3 DEF After
<1>3. CASE id = "0x22"
  <2>1. /\ Stages(id) = <<"ack", "buttons">>
        /\ StagesLeft(id) = {<<"ack", "buttons">>, <<"buttons">>}
    BY <1>3 DEF Stages, StagesLeft
  <2>2. /\ Tail(<<"ack", "buttons">>) = <<"buttons">>
        /\ Head(<<"ack", "buttons">>) = "ack" /\ Head(<<"buttons">>) = "buttons"
    OBVIOUS
  <2>3. Tail(<<"buttons">>) = <<>>
    OBVIOUS
  <2> QED
    BY <2>1, <2>2, <2>3 DEF After
<1>4. CASE id = "0x30"
  <2>1. /\ Stages(id) = <<"buttons">>
        /\ StagesLeft(id) = {<<"buttons">>}
    BY <1>4 DEF Stages, StagesLeft
  <2>2. Tail(<<"buttons">>) = <<>>
    OBVIOUS
  <2> QED
    BY <2>1, <2>2 DEF After
<1>5. CASE id \in {"0x31", "0x35"}
  <2>1. /\ Stages(id) = <<"buttons", "accel">>
        /\ StagesLeft(id) = {<<"buttons", "accel">>, <<"accel">>}
    BY <1>5 DEF Stages, StagesLeft
  <2>2. /\ Tail(<<"buttons", "accel">>) = <<"accel">>
        /\ Head(<<"buttons", "accel">>) = "buttons" /\ Head(<<"accel">>) = "accel"
    OBVIOUS
  <2>3. Tail(<<"accel">>) = <<>>
    OBVIOUS
  <2> QED
    BY <2>1, <2>2, <2>3 DEF After
<1>6. CASE id \in {"0x33", "0x37"}
  <2>1. /\ Stages(id) = <<"buttons", "accel", "ir">>
        /\ StagesLeft(id) = {<<"buttons", "accel", "ir">>,
                              <<"accel", "ir">>,
                              <<"ir">>}
    BY <1>6 DEF Stages, StagesLeft
  <2>2. /\ Tail(<<"buttons", "accel", "ir">>) = <<"accel", "ir">>
        /\ Head(<<"buttons", "accel", "ir">>) = "buttons" /\ Head(<<"accel", "ir">>) = "accel"
    OBVIOUS
  <2>3. /\ Tail(<<"accel", "ir">>) = <<"ir">>
        /\ Head(<<"accel", "ir">>) = "accel" /\ Head(<<"ir">>) = "ir"
    OBVIOUS
  <2>4. Tail(<<"ir">>) = <<>>
    OBVIOUS
  <2> QED
    BY <2>1, <2>2, <2>3, <2>4 DEF After
<1>7. CASE id = "0x36"
  <2>1. /\ Stages(id) = <<"ir">>
        /\ StagesLeft(id) = {<<"ir">>}
    BY <1>7 DEF Stages, StagesLeft
  <2>2. Tail(<<"ir">>) = <<>>
    OBVIOUS
  <2> QED
    BY <2>1, <2>2 DEF After
<1>8. CASE id = "0x3e"
  <2>1. /\ Stages(id) = <<"buttons", "store">>
        /\ StagesLeft(id) = {<<"buttons", "store">>, <<"store">>}
    BY <1>8 DEF Stages, StagesLeft
  <2>2. /\ Tail(<<"buttons", "store">>) = <<"store">>
        /\ Head(<<"buttons", "store">>) = "buttons" /\ Head(<<"store">>) = "store"
    OBVIOUS
  <2>3. Tail(<<"store">>) = <<>>
    OBVIOUS
  <2> QED
    BY <2>1, <2>2, <2>3 DEF After
<1>9. CASE id = "0x3f"
  <2>1. /\ Stages(id) = <<"buttons", "accel", "pair", "ir">>
        /\ StagesLeft(id) = {<<"buttons", "accel", "pair", "ir">>,
                              <<"accel", "pair", "ir">>,
                              <<"pair", "ir">>,
                              <<"ir">>}
    BY <1>9 DEF Stages, StagesLeft
  <2>2. /\ Tail(<<"buttons", "accel", "pair", "ir">>) = <<"accel", "pair", "ir">>
        /\ Head(<<"buttons", "accel", "pair", "ir">>) = "buttons" /\ Head(<<"accel", "pair", "ir">>) = "accel"
    OBVIOUS
  <2>3. /\ Tail(<<"accel", "pair", "ir">>) = <<"pair", "ir">>
        /\ Head(<<"accel", "pair", "ir">>) = "accel" /\ Head(<<"pair", "ir">>) = "pair"
    OBVIOUS
  <2>4. /\ Tail(<<"pair", "ir">>) = <<"ir">>
        /\ Head(<<"pair", "ir">>) = "pair" /\ Head(<<"ir">>) = "ir"
    OBVIOUS
  <2>5. Tail(<<"ir">>) = <<>>
    OBVIOUS
  <2> QED
    BY <2>1, <2>2, <2>3, <2>4, <2>5 DEF After
<1>10. CASE id \notin {"0x20", "0x21", "0x22", "0x30", "0x31", "0x35", "0x33", "0x37", "0x36", "0x3e", "0x3f"}
  BY <1>10 DEF Stages, StagesLeft
<1> QED
  BY <1>1, <1>2, <1>3, <1>4, <1>5, <1>6, <1>7, <1>8, <1>9, <1>10

\* The end of a stage: the rest of the report, or the way back without it.
LEMMA StageMoves ==
  ASSUME TypeInv, NEW p \in Proc, StagesInv(p), pc[p] \in {"handle", "keys"}, StageDone(p)
  PROVE  /\ stages'[p] = Tail(stages[p]) /\ stages[p] \in StagesLeft(rep[p].id)
         /\ \/ /\ pc'[p] = "handle" /\ rep' = rep
               /\ stages'[p] \in StagesLeft(rep[p].id)
               /\ Head(stages'[p]) \in After(Head(stages[p]))
            \/ pc'[p] = Back(p) /\ pc'[p] \notin Handling \cup {"poll", "read", "gone"}
<1>1. GoroutineTypeOK /\ stages[p] # <<>> /\ stages[p] \in StagesLeft(rep[p].id)
  BY DEF TypeInv, TypeOK, Shape, StagesInv, Handling
<1>2. /\ stages' = [stages EXCEPT ![p] = Tail(stages[p])]
      /\ \/ pc' = [pc EXCEPT ![p] = "handle"] /\ rep' = rep /\ Len(stages[p]) > 1
         \/ pc' = [pc EXCEPT ![p] = Back(p)]
  BY DEF StageDone, GoTo
<1>3. /\ stages'[p] = Tail(stages[p])
      /\ \/ pc'[p] = "handle" /\ rep' = rep /\ Len(stages[p]) > 1
         \/ pc'[p] = Back(p)
  BY <1>1, <1>2 DEF GoroutineTypeOK
<1>4. Len(stages[p]) > 1 => Tail(stages[p]) # <<>>
  BY <1>1, TailSeq DEF GoroutineTypeOK
<1>5. Back(p) \notin Handling \cup {"poll", "read", "gone"}
  BY DEF Back, Handling
<1> QED
  BY <1>1, <1>3, <1>4, <1>5, LeftStages

\* Where a jump leads.
LEMMA Jump ==
  ASSUME TypeInv, NEW p \in Proc, NEW l, GoTo(p, l)
  PROVE  pc'[p] = l
  BY DEF TypeInv, TypeOK, GoroutineTypeOK, GoTo

\* A goroutine that does not handle a report has nothing to keep.
LEMMA StagesAway ==
  ASSUME NEW p \in Proc, pc'[p] \notin Handling
  PROVE  StagesInv(p)'
  BY DEF StagesInv, Handling

\* A read: a report, or nothing.
LEMMA Received ==
  ASSUME TypeInv, NEW p \in Proc, Read(p)
  PROVE  \/ /\ rx = <<>> /\ UNCHANGED <<rx, rep, stages>>
            /\ pc'[p] \in {"gone", Back(p)}
         \/ /\ rx # <<>> /\ rx' = Tail(rx)
            /\ rep'[p] = Head(rx) /\ stages'[p] = Stages(Head(rx).id)
            /\ pc'[p] = IF Stages(Head(rx).id) = <<>> THEN Back(p) ELSE "handle"
<1>1. CASE rx = <<>>
  <2>1. GoTo(p, Back(p)) \/ GoTo(p, "gone")
    BY <1>1 DEF Read
  <2> QED
    BY <1>1, <2>1, Jump DEF Read
<1>2. CASE rx # <<>>
  <2>1. GoTo(p, IF Stages(Head(rx).id) = <<>> THEN Back(p) ELSE "handle")
    BY <1>2 DEF Read
  <2>2. /\ rep' = [rep EXCEPT ![p] = Head(rx)]
        /\ stages' = [stages EXCEPT ![p] = Stages(Head(rx).id)]
        /\ rx' = Tail(rx)
    BY <1>2 DEF Read
  <2>3. rep'[p] = Head(rx) /\ stages'[p] = Stages(Head(rx).id)
    BY <2>2 DEF TypeInv, TypeOK, GoroutineTypeOK
  <2> QED
    BY <1>2, <2>1, <2>2, <2>3, Jump
<1> QED
  BY <1>1, <1>2

\* Something is left to do after Pair.
LEMMA PairStages ==
  ASSUME TypeInv, NEW p \in Proc, Pair(p)
  PROVE  Tail(stages[p]) # <<>>
<1>1. stages[p] \in Seq(StageNames) /\ stages[p] # <<>> /\ Head(stages[p]) = "pair"
  BY DEF Pair, AtStage, TypeInv, TypeOK, GoroutineTypeOK, Shape
<1>2. \A i \in 1 .. Len(stages[p]) : stages[p][i] = "pair" => i < Len(stages[p])
  BY DEF TypeInv, Shape
<1> QED
  BY <1>1, <1>2, TailSeq

\* A report that is being handled stays the same, but for what Pair finds.
LEMMA HeldStep ==
  ASSUME TypeInv, NEW p \in Proc, ReadEvent(p), ~Read(p), pc'[p] \in Handling
  PROVE  /\ pc[p] \in Handling
         /\ \/ ~Pair(p) /\ rep' = rep
            \/ Pair(p) /\ rep' = [rep EXCEPT ![p].good = (interleaved = rep[p].val)]
         /\ rep'[p].id = rep[p].id /\ rep'[p].btn = rep[p].btn /\ rep'[p].val = rep[p].val
<1>1. ASSUME pc[p] \in {"handle", "keys"}, StageDone(p) PROVE rep' = rep
  <2>1. GoTo(p, Back(p)) => pc'[p] \notin Handling
    BY Jump DEF Back, Handling
  <2> QED
    BY <1>1, <2>1 DEF StageDone
<1>2. ~WaitReadable(p) /\ ~Gone(p)
  BY Jump DEF WaitReadable, Gone, Back, Handling
<1>3. CASE Pair(p)
  <2>1. /\ pc[p] = "handle"
        /\ rep' = [rep EXCEPT ![p].good = (interleaved = rep[p].val)]
    BY <1>3 DEF Pair, AtStage
  <2>2. rep \in [Proc -> Reports] /\ rep[p] \in Reports
    BY DEF TypeInv, TypeOK, GoroutineTypeOK
  <2>3. rep'[p].id = rep[p].id /\ rep'[p].btn = rep[p].btn /\ rep'[p].val = rep[p].val
    BY <2>1, <2>2 DEF Reports
  <2> QED
    BY <1>3, <2>1, <2>3 DEF Handling
<1>4. CASE ~Pair(p)
  <2>1. rep' = rep /\ pc[p] \in Handling
    BY <1>1, <1>2, <1>4 DEF ReadEvent, Status, MemoryReply, Ack, Buttons, Press, KeyOut, AccelOut,
                            Store, IROut, AtStage, readVars, Handling
  <2> QED
    BY <1>4, <2>1
<1> QED
  BY <1>3, <1>4

\* The stages are those of the report, whatever step is taken.
LEMMA StagesStep ==
  ASSUME TypeInv, \A p \in Proc : StagesInv(p), [Next]_vars
  PROVE  \A p \in Proc : StagesInv(p)'
<1> USE DEF TypeInv, TypeOK
<1>1. ASSUME NEW q \in Proc, pc'[q] = pc[q], rep'[q] = rep[q], stages'[q] = stages[q], out'[q] = out[q]
      PROVE  StagesInv(q)'
  BY <1>1 DEF StagesInv
<1>2. CASE UNCHANGED vars
  BY <1>1, <1>2 DEF vars, readVars
<1>3. CASE Device
  BY <1>1, <1>3, DeviceMoves DEF readVars
<1>4. ASSUME NEW p \in Proc, Call(p) \/ Output(p) \/ PollStep(p)
      PROVE  \A q \in Proc : StagesInv(q)'
  BY <1>1, <1>4, StagesAway, CallMoves, OutputMoves, PollMoves DEF Others, Handling
<1>5. ASSUME NEW p \in Proc, ReadEvent(p)
      PROVE  \A q \in Proc : StagesInv(q)'
  <2>1. ASSUME NEW q \in Proc, q # p PROVE StagesInv(q)'
    BY <1>1, <1>5, <2>1, ReadMoves DEF Others
  <2> SUFFICES StagesInv(p)'
    BY <2>1
  <2>2. CASE WaitReadable(p) \/ Gone(p)
    <3>1. pc'[p] \in {"read", Back(p)}
      BY <2>2, Jump DEF WaitReadable, Gone
    <3> QED
      BY <3>1, StagesAway DEF Back, Handling
  <2>3. CASE Read(p)
    <3>1. CASE pc'[p] = "handle"
      <4>1. rep'[p] = Head(rx) /\ stages'[p] = Stages(Head(rx).id) /\ Stages(Head(rx).id) # <<>>
        BY <2>3, <3>1, Received DEF Back
      <4>2. Stages(Head(rx).id) \in StagesLeft(Head(rx).id)
        BY <4>1, LeftStages
      <4> QED
        BY <3>1, <4>1, <4>2 DEF StagesInv
    <3>2. CASE pc'[p] # "handle"
      BY <2>3, <3>2, Received, StagesAway DEF Back, Handling
    <3> QED
      BY <3>1, <3>2
  <2>4. ASSUME pc[p] \in {"handle", "keys"}, StageDone(p) PROVE StagesInv(p)'
    BY <2>4, StageMoves, StagesAway DEF StagesInv
  <2>5. CASE Status(p) \/ MemoryReply(p) \/ Ack(p) \/ AccelOut(p) \/ Store(p) \/ IROut(p)
    <3>1. pc[p] = "handle" /\ StageDone(p)
      BY <2>5 DEF Status, MemoryReply, Ack, AccelOut, Store, IROut, AtStage
    <3> QED
      BY <2>4, <3>1
  <2>6. CASE Buttons(p)
    <3>0. pc[p] = "handle"
      BY <2>6 DEF Buttons, AtStage
    <3>1. CASE rep[p].btn # btnPrev
      <4>1. /\ out' = [out EXCEPT ![p] = Changed(btnPrev, rep[p].btn)]
            /\ rep' = rep /\ stages' = stages
        BY <2>6, <3>1 DEF Buttons
      <4>2. out'[p] = Changed(btnPrev, rep[p].btn)
        BY <4>1 DEF GoroutineTypeOK
      <4>3. Changed(btnPrev, rep[p].btn) # {}
        BY <3>1 DEF Changed
      <4> HIDE DEF TypeInv, TypeOK
      <4> QED
        BY <3>0, <4>1, <4>2, <4>3 DEF StagesInv, Handling
    <3>2. CASE rep[p].btn = btnPrev
      <4>1. StageDone(p)
        BY <2>6, <3>2 DEF Buttons
      <4> QED
        BY <2>4, <3>0, <4>1
    <3> QED
      BY <3>1, <3>2
  <2>7. CASE Press(p)
    <3>1. pc[p] = "press" /\ GoTo(p, "keys") /\ rep' = rep /\ stages' = stages /\ out' = out
      BY <2>7 DEF Press, readVars
    <3> HIDE DEF TypeInv, TypeOK
    <3> QED
      BY <3>1 DEF StagesInv, Handling
  <2>8. CASE KeyOut(p)
    <3>1. PICK k \in out[p] :
            /\ out' = [out EXCEPT ![p] = out[p] \ {k}]
            /\ IF out[p] = {k} THEN StageDone(p) ELSE UNCHANGED <<pc, rep, stages>>
      BY <2>8 DEF KeyOut
    <3>2. CASE out[p] = {k}
      <4>1. pc[p] = "keys" /\ StageDone(p)
        BY <2>8, <3>1, <3>2 DEF KeyOut
      <4> QED
        BY <2>4, <4>1
    <3>3. CASE out[p] # {k}
      <4>1. out'[p] # {}
        BY <3>1, <3>3 DEF GoroutineTypeOK
      <4> HIDE DEF TypeInv, TypeOK
      <4> QED
        BY <3>1, <3>3, <4>1 DEF StagesInv
    <3> QED
      BY <3>2, <3>3
  <2>9. CASE Pair(p)
    <3>1. /\ pc[p] = "handle" /\ pc' = pc /\ out' = out /\ Head(stages[p]) = "pair"
          /\ stages' = [stages EXCEPT ![p] = Tail(stages[p])]
          /\ rep' = [rep EXCEPT ![p].good = (interleaved = rep[p].val)]
      BY <2>9 DEF Pair, AtStage
    <3>2. rep'[p].id = rep[p].id /\ stages'[p] = Tail(stages[p])
      <4>1. rep[p] \in Reports
        BY DEF GoroutineTypeOK
      <4> QED
        BY <3>1, <4>1 DEF GoroutineTypeOK, Reports
    <3>3. Tail(stages[p]) # <<>>
      BY <2>9, PairStages
    <3> QED
      BY <3>1, <3>2, <3>3, LeftStages DEF StagesInv, Handling
  <2> QED
    BY <1>5, <2>2, <2>3, <2>5, <2>6, <2>7, <2>8, <2>9 DEF ReadEvent
<1> QED
  BY <1>2, <1>3, <1>4, <1>5 DEF Next, Step
-----------------------------------------------------------------------------
(* The event queue never stops a goroutine that polls on its own *)

\* What the Wiimote adds to the kernel's buffer.
LEMMA Arrivals ==
  ASSUME TypeInv, Device
  PROVE  \/ rx' = rx /\ (phase' = phase \/ "drop" \in Faults)
         \/ \E r \in Reports :
              /\ rx' = Append(rx, r)
              /\ \/ phase' = phase /\ r.id \in {"0x21", "0x22"} /\ (r.id # "0x21" => r.good)
                 \/ phase' = phase /\ r.id = "0x20" /\ "extension" \in Kinds /\ r.good
                 \/ phase' = phase /\ r.id = devMode /\ devMode # "0x3e" /\ r.good
                 \/ /\ phase' = (phase + 1) % 4 /\ devMode = "0x3e" /\ r.good
                    /\ r.id = IF phase % 2 = 0 THEN "0x3e" ELSE "0x3f"
                    /\ r.val = phase \div 2
<1> USE DEF TypeInv, TypeOK
<1>1. CASE DeviceAnswer
  <2>1. inbox \in Seq(Asked) /\ inbox # <<>>
    BY <1>1 DEF DeviceAnswer, DeviceTypeOK
  <2>2. Head(inbox) \in Asked
    BY <2>1, TailSeq
  <2>3. PICK good \in BOOLEAN : /\ good \/ Head(inbox).rid = "0x17"
                                /\ Transmit(Answer(Head(inbox), held, good))
    BY <1>1 DEF DeviceAnswer
  <2>4. Answer(Head(inbox), held, good) \in Reports
    BY <2>2, AnswerType DEF DeviceTypeOK
  <2>5. /\ Answer(Head(inbox), held, good).id \in {"0x21", "0x22"}
        /\ Answer(Head(inbox), held, good).id # "0x21" => Answer(Head(inbox), held, good).good
    BY <2>3 DEF Answer
  <2>6. phase' = phase
    BY <1>1 DEF DeviceAnswer
  <2> HIDE DEF TypeInv, TypeOK
  <2> QED
    BY <2>3, <2>4, <2>5, <2>6 DEF Transmit
<1>2. CASE DeviceReport
  <2>1. PICK btn \in SUBSET Keys :
          IF devMode = "0x3e"
          THEN Transmit(Report(IF phase % 2 = 0 THEN "0x3e" ELSE "0x3f", btn, phase \div 2))
          ELSE Transmit(Report(devMode, btn, 0))
    BY <1>2 DEF DeviceReport
  <2>2. devMode \in Modes /\ phase \in 0 .. 3
    BY DEF DeviceTypeOK
  <2>3. CASE devMode = "0x3e"
    <3> DEFINE r == Report(IF phase % 2 = 0 THEN "0x3e" ELSE "0x3f", btn, phase \div 2)
    <3>1. r \in Reports
      BY <2>2, ReportType DEF Modes
    <3>2. r.good /\ r.id = (IF phase % 2 = 0 THEN "0x3e" ELSE "0x3f") /\ r.val = phase \div 2
      BY DEF Report
    <3>3. Transmit(r) /\ phase' = (phase + 1) % 4
      BY <1>2, <2>1, <2>3 DEF DeviceReport
    <3> HIDE DEF r, TypeInv, TypeOK
    <3> QED
      BY <2>3, <3>1, <3>2, <3>3 DEF Transmit
  <2>4. CASE devMode # "0x3e"
    <3> DEFINE r == Report(devMode, btn, 0)
    <3>1. r \in Reports
      BY <2>2, ReportType DEF Modes
    <3>2. r.good /\ r.id = devMode
      BY DEF Report
    <3>3. Transmit(r) /\ phase' = phase
      BY <1>2, <2>1, <2>4 DEF DeviceReport
    <3> HIDE DEF r, TypeInv, TypeOK
    <3> QED
      BY <2>4, <3>1, <3>2, <3>3 DEF Transmit
  <2> QED
    BY <2>3, <2>4
<1>3. CASE DeviceStatus
  <2> DEFINE r == Report("0x20", held, lights)
  <2>1. r \in Reports
    BY ReportType DEF DeviceTypeOK
  <2>2. r.good /\ r.id = "0x20"
    BY DEF Report
  <2>3. Transmit(r) /\ phase' = phase /\ "extension" \in Kinds
    BY <1>3 DEF DeviceStatus
  <2> HIDE DEF r, TypeInv, TypeOK
  <2> QED
    BY <2>1, <2>2, <2>3 DEF Transmit
<1>4. CASE LinkFails
  BY <1>4 DEF LinkFails
<1> QED
  BY <1>1, <1>2, <1>3, <1>4 DEF Device

\* Without features there are no reports but answers and keys.
LEMMA PlainStep ==
  ASSUME TypeInv, PlainInv, [Next]_vars
  PROVE  PlainInv'
<1> SUFFICES ASSUME Kinds = {} PROVE PlainInv'
  BY DEF PlainInv
<1> DEFINE Ids == {"0x21", "0x22", "0x30"}
<1>0. /\ devMode = "0x30" /\ \A i \in 1 .. Len(rx) : rx[i].id \in Ids
      /\ \A p \in Proc : op[p] \notin {"OpenFeatures", "Close"}
      /\ \A p \in Proc : pc[p] \in Handling => rep[p].id \in Ids
  BY DEF PlainInv
<1>1. rx \in Seq(Reports)
  BY DEF TypeInv, TypeOK, DeviceTypeOK
<1>2. CASE UNCHANGED vars
  BY <1>0, <1>2 DEF PlainInv, vars, devVars, callVars, readVars
<1>3. CASE Device
  <2>1. devMode' = devMode /\ UNCHANGED <<pc, op, rep>>
    BY <1>3, DeviceMoves DEF callVars, readVars
  <2>2. rx' = rx \/ \E r \in Reports : rx' = Append(rx, r) /\ r.id \in Ids
    BY <1>0, <1>3, Arrivals
  <2>3. \A i \in 1 .. Len(rx') : rx'[i].id \in Ids
    <3>1. CASE rx' = rx
      BY <1>0, <3>1
    <3>2. ASSUME NEW r \in Reports, rx' = Append(rx, r), r.id \in Ids
          PROVE  \A i \in 1 .. Len(rx') : rx'[i].id \in Ids
      <4>1. /\ Len(rx') = Len(rx) + 1 /\ Len(rx) \in Nat /\ rx'[Len(rx) + 1] = r
            /\ \A i \in 1 .. Len(rx) : rx'[i] = rx[i]
        BY <1>1, <3>2, AppendSeq
      <4> QED
        BY <1>0, <3>2, <4>1
    <3> QED
      BY <2>2, <3>1, <3>2
  <2> QED
    BY <1>0, <2>1, <2>3 DEF PlainInv
<1>4. ASSUME NEW p \in Proc, Call(p) \/ Output(p) \/ PollStep(p)
      PROVE  PlainInv'
  <2>1. rx' = rx /\ Others(p) /\ pc'[p] \notin Handling
    BY <1>4, CallMoves, OutputMoves, PollMoves DEF devVars, Handling
  <2>2. devMode' = devMode /\ op'[p] \notin {"OpenFeatures", "Close"}
    <3>1. CASE PollStep(p)
      BY <1>0, <3>1, PollMoves DEF devVars
    <3>2. CASE Output(p)
      <4>1. op'[p] \notin {"OpenFeatures", "Close"}
        BY <1>0, <3>2, OutputMoves
      <4>2. ASSUME Send(p) PROVE todo[p][1].rid # "0x20"
        <5>1. todo[p] # <<>> /\ todo[p] \in Seq(Requests)
          BY <4>2 DEF Send, TypeInv, TypeOK, GoroutineTypeOK, Shape
        <5>2. todo[p][1].rid \in OpRids(op[p])
          BY <5>1 DEF TypeInv, Shape
        <5> QED
          BY <1>0, <5>2 DEF OpRids
      <4>3. devMode' = devMode
        BY <3>2, <4>2 DEF Output, UpdateReportMode, Compose, Forget, Send, SendFails, Check, Reply, devVars
      <4> QED
        BY <4>1, <4>3
    <3>3. CASE Call(p)
      <4>1. devMode' = devMode
        BY <3>3, CallMoves DEF devVars
      <4>2. op'[p] \notin {"OpenFeatures", "Close"}
        <5> USE DEF TypeInv, TypeOK, GoroutineTypeOK
        <5>1. ASSUME NEW c \in Polls, StartPoll(p, c) PROVE op'[p] = c
          BY <5>1 DEF StartPoll
        <5>2. ASSUME NEW c, NEW rs, Begin(p, c, rs) PROVE op'[p] = c
          BY <5>2 DEF Begin
        <5>3. SetIRFull(p) => op'[p] = op[p]
          BY DEF SetIRFull, callVars
        <5>4. (SUBSET Kinds) \ {{}} = {}
          OBVIOUS
        <5> HIDE DEF TypeInv, TypeOK, GoroutineTypeOK
        <5>5. CASE \E c \in Polls : StartPoll(p, c)
          BY <5>1, <5>5 DEF Polls
        <5>6. CASE \E leds \in Lights : SetLED(p, leds)
          BY <5>2, <5>6 DEF SetLED
        <5>7. CASE \E state \in BOOLEAN : Rumble(p, state)
          BY <5>2, <5>7 DEF Rumble
        <5>8. CASE \E chunks \in Reads : ReadAt(p, chunks)
          BY <5>2, <5>8 DEF ReadAt
        <5>9. CASE WriteAt(p)
          BY <5>2, <5>9 DEF WriteAt
        <5> QED
          BY <1>0, <3>3, <5>3, <5>4, <5>5, <5>6, <5>7, <5>8, <5>9 DEF Call, Polls
      <4> QED
        BY <4>1, <4>2
    <3> QED
      BY <1>4, <3>1, <3>2, <3>3
  <2> QED
    BY <1>0, <2>1, <2>2 DEF PlainInv, Others
<1>5. ASSUME NEW p \in Proc, ReadEvent(p)
      PROVE  PlainInv'
  <2>1. op' = op /\ devMode' = devMode /\ Others(p)
    BY <1>5, ReadMoves
  <2>2. rx' = rx \/ (rx # <<>> /\ rx' = Tail(rx))
    BY <1>5, ReadMoves, Received
  <2>3. \A i \in 1 .. Len(rx') : rx'[i].id \in Ids
    <3>1. CASE rx # <<>> /\ rx' = Tail(rx)
      <4>1. /\ Len(rx') = Len(rx) - 1 /\ Len(rx) \in Nat
            /\ \A i \in 1 .. Len(rx') : rx'[i] = rx[i + 1]
        BY <1>1, <3>1, TailSeq
      <4> QED
        BY <1>0, <4>1
    <3> QED
      BY <1>0, <2>2, <3>1
  <2>4. pc'[p] \in Handling => rep'[p].id \in Ids
    <3>1. CASE Read(p) /\ pc'[p] \in Handling
      <4>1. rx # <<>> /\ rep'[p] = Head(rx)
        BY <3>1, Received DEF Back, Handling
      <4>2. Head(rx) = rx[1] /\ 1 \in 1 .. Len(rx)
        BY <1>1, <4>1, TailSeq
      <4> QED
        BY <1>0, <4>1, <4>2
    <3>2. CASE ~Read(p) /\ pc'[p] \in Handling
      <4>1. pc[p] \in Handling /\ rep'[p].id = rep[p].id
        BY <1>5, <3>2, HeldStep
      <4> QED
        BY <1>0, <4>1
    <3> QED
      BY <3>1, <3>2
  <2> QED
    BY <1>0, <2>1, <2>3, <2>4 DEF PlainInv, Others
<1> QED
  BY <1>2, <1>3, <1>4, <1>5 DEF Next, Step
\* Appending to the event queue makes it longer by one.
LEMMA PushLen ==
  ASSUME TypeInv, NEW e, Push(e)
  PROVE  Len(moreEvents) \in Nat /\ Len(moreEvents') = Len(moreEvents) + 1
  BY DEF Push, TypeInv, TypeOK, ObjectTypeOK

\* The sets of keys are finite, and none is larger than all keys.
LEMMA KeySets ==
  ASSUME NEW S \in SUBSET Keys
  PROVE  /\ IsFiniteSet(S) /\ Cardinality(S) \in Nat /\ Cardinality(S) <= Cardinality(Keys)
         /\ Cardinality(Keys) \in Nat
         /\ \A k \in S : Cardinality(S \ {k}) = Cardinality(S) - 1
<1>1. IsFiniteSet(Keys)
  BY RoomAssumption
<1>2. IsFiniteSet(S) /\ Cardinality(S) <= Cardinality(Keys)
  BY <1>1, FS_Subset
<1>3. Cardinality(S) \in Nat /\ Cardinality(Keys) \in Nat
  BY <1>1, <1>2, FS_CardinalityType
<1>4. \A k \in S : Cardinality(S \ {k}) = Cardinality(S) - 1
  BY <1>2, FS_RemoveElement
<1> QED
  BY <1>2, <1>3, <1>4

\* What p is at, the queue, and what it puts there are all that matters.
LEMMA RoomFrame ==
  ASSUME NEW p \in Proc, RoomInv(p), moreEvents' = moreEvents,
         pc'[p] = pc[p], op'[p] = op[p], stages'[p] = stages[p], out'[p] = out[p]
  PROVE  RoomInv(p)'
  BY DEF RoomInv, HandlesAt

\* The rest of a report finds the room that it needs.
LEMMA RoomNext ==
  ASSUME TypeInv, NEW p \in Proc, StagesInv(p), pc[p] \in {"handle", "keys"}, StageDone(p),
         Head(stages[p]) \in {"status", "memory", "ack"} => moreEvents' = <<>>,
         Head(stages[p]) = "buttons" => Len(moreEvents') <= Cardinality(Keys),
         Head(stages[p]) \in {"accel", "pair"} => Len(moreEvents') <= Cardinality(Keys) + 1
  PROVE  RoomInv(p)'
<1>1. CASE pc'[p] = "handle"
  <2>1. Head(stages'[p]) \in After(Head(stages[p]))
    BY <1>1, StageMoves DEF Handling
  <2> QED
    BY <1>1, <2>1 DEF RoomInv, HandlesAt, After
<1>2. CASE pc'[p] # "handle"
  BY <1>2, StageMoves DEF RoomInv, HandlesAt, Handling
<1> QED
  BY <1>1, <1>2

\* A goroutine on its own finds and leaves the room, step by step.
LEMMA RoomStep ==
  ASSUME TypeInv, NEW p \in Proc, Proc = {p}, StagesInv(p), RoomInv(p), [Next]_vars
  PROVE  RoomInv(p)'
<1>1. CASE UNCHANGED vars
  BY <1>1, RoomFrame DEF vars, chanVars, callVars, readVars
<1>2. CASE Device
  BY <1>2, RoomFrame, DeviceMoves DEF chanVars, callVars, readVars
<1>3. CASE Call(p)
  BY <1>3, CallMoves DEF RoomInv, HandlesAt
<1>4. CASE Output(p)
  BY <1>4, OutputMoves DEF RoomInv, Polls
<1>5. CASE PollStep(p)
  BY <1>5, PollMoves DEF RoomInv, HandlesAt
<1>6. CASE ReadEvent(p)
  <2>0. op' = op
    BY <1>6, ReadMoves
  <2> SUFFICES ASSUME op[p] \in Polls PROVE RoomInv(p)'
    BY <2>0 DEF RoomInv
  <2>1. CASE WaitReadable(p) \/ Gone(p)
    <3>1. \/ pc[p] = "poll" /\ pc'[p] = "read" /\ moreEvents' = moreEvents
          \/ pc'[p] = Back(p)
      BY <2>1, Jump DEF WaitReadable, Gone, chanVars
    <3> QED
      BY <3>1 DEF RoomInv, HandlesAt, Back
  <2>2. CASE Read(p)
    <3>1. moreEvents = <<>> /\ moreEvents' = moreEvents /\ pc'[p] \in {"gone", "handle", Back(p)}
      BY <2>2, Received DEF Read, RoomInv, chanVars
    <3>2. Len(moreEvents') = 0 /\ Cardinality(Keys) \in Nat
      BY <3>1, KeySets
    <3> QED
      BY <3>1, <3>2 DEF RoomInv, HandlesAt, Back
  <2>3. CASE Status(p) \/ MemoryReply(p) \/ Ack(p)
    <3>1. HandlesAt(p, {"status", "memory", "ack"}) /\ StageDone(p) /\ moreEvents' = moreEvents
      BY <2>3 DEF Status, MemoryReply, Ack, AtStage, HandlesAt, chanVars
    <3> QED
      BY <3>1, RoomNext DEF RoomInv, HandlesAt
  <2>4. CASE Buttons(p)
    <3>1. HandlesAt(p, {"buttons"}) /\ moreEvents' = moreEvents /\ (StageDone(p) \/ GoTo(p, "press"))
      BY <2>4 DEF Buttons, AtStage, HandlesAt, chanVars
    <3>2. moreEvents' = <<>> /\ Len(moreEvents') = 0 /\ Cardinality(Keys) \in Nat
      BY <3>1, KeySets DEF RoomInv, HandlesAt
    <3>3. CASE StageDone(p)
      BY <3>1, <3>2, <3>3, RoomNext DEF HandlesAt
    <3>4. CASE GoTo(p, "press")
      BY <3>2, <3>4, Jump DEF RoomInv, HandlesAt
    <3> QED
      BY <3>1, <3>3, <3>4
  <2>5. CASE Press(p)
    <3>1. pc[p] = "press" /\ pc'[p] = "keys" /\ moreEvents' = moreEvents /\ out' = out
      BY <2>5, Jump DEF Press, chanVars, readVars
    <3>2. moreEvents' = <<>> /\ Len(moreEvents') = 0
      BY <3>1 DEF RoomInv
    <3>3. Cardinality(out[p]) \in Nat /\ Cardinality(out[p]) <= Cardinality(Keys)
      <4>1. out[p] \in SUBSET Keys
        BY DEF TypeInv, TypeOK, GoroutineTypeOK
      <4> QED
        BY <4>1, KeySets
    <3> QED
      BY <3>1, <3>2, <3>3 DEF RoomInv, HandlesAt
  <2>6. CASE KeyOut(p)
    <3>1. PICK k \in out[p] :
            /\ Push(KeyEvent(k, k \in rep[p].btn))
            /\ out' = [out EXCEPT ![p] = out[p] \ {k}]
            /\ IF out[p] = {k} THEN StageDone(p) ELSE UNCHANGED <<pc, rep, stages>>
      BY <2>6 DEF KeyOut
    <3>2. pc[p] = "keys" /\ Len(moreEvents) + Cardinality(out[p]) <= Cardinality(Keys)
      BY <2>6 DEF KeyOut, RoomInv
    <3>3. Len(moreEvents) \in Nat /\ Len(moreEvents') = Len(moreEvents) + 1
      BY <3>1, PushLen
    <3>4. /\ Cardinality(out[p]) \in Nat /\ Cardinality(Keys) \in Nat
          /\ Cardinality(out[p] \ {k}) = Cardinality(out[p]) - 1 /\ Cardinality(out[p] \ {k}) \in Nat
      <4>1. out[p] \in SUBSET Keys /\ out[p] \ {k} \in SUBSET Keys
        BY DEF TypeInv, TypeOK, GoroutineTypeOK
      <4> QED
        BY <4>1, KeySets
    <3>5. out'[p] = out[p] \ {k}
      BY <3>1 DEF TypeInv, TypeOK, GoroutineTypeOK
    <3>6. Len(moreEvents') + Cardinality(out'[p]) <= Cardinality(Keys)
      BY <3>2, <3>3, <3>4, <3>5
    <3>7. CASE out[p] = {k}
      <4>1. Head(stages[p]) = "buttons"
        BY <3>2 DEF TypeInv, Shape
      <4>2. Len(moreEvents') <= Cardinality(Keys)
        BY <3>3, <3>4, <3>5, <3>6
      <4> QED
        BY <3>1, <3>2, <3>7, <4>1, <4>2, RoomNext
    <3>8. CASE out[p] # {k}
      <4>1. pc'[p] = "keys"
        BY <3>1, <3>2, <3>8
      <4> QED
        BY <3>6, <4>1 DEF RoomInv, HandlesAt
    <3> QED
      BY <3>7, <3>8
  <2>7. CASE AccelOut(p) \/ IROut(p)
    <3>1. PICK e : Push(e)
      BY <2>7 DEF AccelOut, IROut
    <3>2. /\ HandlesAt(p, {"accel", "ir"}) /\ StageDone(p)
          /\ Head(stages[p]) = "accel" \/ Head(stages[p]) = "ir"
      BY <2>7 DEF AccelOut, IROut, AtStage, HandlesAt
    <3>3. Len(moreEvents) \in Nat /\ Len(moreEvents') = Len(moreEvents) + 1 /\ Cardinality(Keys) \in Nat
      BY <3>1, PushLen, KeySets
    <3>4. Head(stages[p]) = "accel" => Len(moreEvents') <= Cardinality(Keys) + 1
      BY <3>2, <3>3 DEF RoomInv, HandlesAt
    <3> QED
      BY <3>2, <3>4, RoomNext DEF HandlesAt
  <2>8. CASE Store(p)
    <3>1. HandlesAt(p, {"store"}) /\ StageDone(p)
      BY <2>8 DEF Store, AtStage, HandlesAt
    <3> QED
      BY <3>1, RoomNext DEF HandlesAt
  <2>9. CASE Pair(p)
    <3>1. /\ HandlesAt(p, {"pair"}) /\ moreEvents' = moreEvents /\ pc' = pc
          /\ stages' = [stages EXCEPT ![p] = Tail(stages[p])]
      BY <2>9 DEF Pair, AtStage, HandlesAt, chanVars
    <3>2. stages'[p] = Tail(stages[p]) /\ stages[p] \in StagesLeft(rep[p].id)
      BY <3>1 DEF TypeInv, TypeOK, GoroutineTypeOK, StagesInv, HandlesAt, Handling
    <3>3. Head(stages'[p]) = "ir"
      <4>1. Tail(stages[p]) # <<>>
        BY <2>9, PairStages
      <4>2. Head(Tail(stages[p])) \in After("pair")
        BY <3>1, <3>2, <4>1, LeftStages DEF HandlesAt
      <4> QED
        BY <3>2, <4>2 DEF After
    <3> QED
      BY <3>1, <3>3 DEF RoomInv, HandlesAt
  <2> QED
    BY <1>6, <2>1, <2>2, <2>3, <2>4, <2>5, <2>6, <2>7, <2>8, <2>9 DEF ReadEvent
<1> QED
  BY <1>1, <1>2, <1>3, <1>4, <1>5, <1>6 DEF Next, Step

\* A goroutine on its own is not blocked while it polls.
LEMMA RoomLeft ==
  ASSUME TypeInv, QueueInv
  PROVE  PollNeverFull
<1> SUFFICES ASSUME NEW p \in Proc, Proc = {p}, BlockedOnEvents(p), op[p] \in Polls
             PROVE  FALSE
  BY DEF PollNeverFull
<1>1. StagesInv(p) /\ RoomInv(p) /\ PlainInv
  BY DEF QueueInv
<1>2. /\ Len(moreEvents) = EventCap /\ EventCap \in Nat \ {0} /\ Cardinality(Keys) \in Nat
      /\ Cardinality(Keys) <= EventCap
      /\ Kinds # {} => Cardinality(Keys) + 2 <= EventCap
  BY CapAssumption, RoomAssumption, FS_CardinalityType DEF BlockedOnEvents
<1>3. CASE pc[p] = "gone"
  BY <1>1, <1>2, <1>3 DEF RoomInv
<1>4. CASE pc[p] = "keys"
  <2>1. out[p] # {} /\ out[p] \in SUBSET Keys
    BY <1>1, <1>4 DEF StagesInv, TypeInv, TypeOK, GoroutineTypeOK
  <2>2. Cardinality(out[p]) \in Nat /\ Cardinality(out[p]) # 0
    BY <2>1, KeySets, FS_EmptySet
  <2> QED
    BY <1>1, <1>2, <1>4, <2>2 DEF RoomInv
<1>5. CASE HandlesAt(p, {"accel", "ir"})
  <2>1. Len(moreEvents) <= Cardinality(Keys) + 1
    BY <1>1, <1>2, <1>5 DEF RoomInv, HandlesAt
  <2>2. Kinds # {}
    <3>1. stages[p] \in StagesLeft(rep[p].id)
      BY <1>1, <1>5 DEF StagesInv, HandlesAt, Handling
    <3>2. ASSUME Kinds = {} PROVE stages[p] \in {<<"memory", "buttons">>, <<"ack", "buttons">>, <<"buttons">>}
      <4>1. rep[p].id \in {"0x21", "0x22", "0x30"}
        BY <1>1, <1>5, <3>2 DEF PlainInv, HandlesAt, Handling
      <4> QED
        BY <3>1, <4>1 DEF StagesLeft
    <3> QED
      BY <1>5, <3>2 DEF HandlesAt
  <2> QED
    BY <1>2, <2>1, <2>2
<1> QED
  BY <1>3, <1>4, <1>5 DEF BlockedOnEvents, HandlesAt

\* A new device has nothing queued.
LEMMA QueueInit == Init => QueueInv
  BY DEF Init, QueueInv, PlainInv, StagesInv, RoomInv, HandlesAt, Handling, Polls

(* A goroutine that has the driver to itself never stops in Poll or Wait at a  *)
(* full queue: readEvent runs only with the queue empty, and whatever report it*)
(* reads, its keys, accelerometer and camera events together fit.              *)
THEOREM PollRoom == Spec => []PollNeverFull
<1>1. TypeInv /\ QueueInv /\ [Next]_vars => QueueInv'
  <2> SUFFICES ASSUME TypeInv, QueueInv, [Next]_vars PROVE QueueInv'
    OBVIOUS
  <2> QED
    BY PlainStep, StagesStep, RoomStep DEF QueueInv
<1>2. TypeInv /\ QueueInv => PollNeverFull
  BY RoomLeft
<1> QED
  BY <1>1, <1>2, QueueInit, TypeInvariant, PTL DEF Spec
-----------------------------------------------------------------------------
(* Key events alternate, and lead to the keys of the last report *)

\* Event e tells of key k.
About(e, k) == e.kind = "key" /\ e.key = k

Alternate(k) ==
  \A i \in Tellings(k), j \in KeyEvents(k) :
    i < j /\ Silent(k, i + 1, j - 1) => KeyState(k, i) # KeyState(k, j)

\* The queue after a send.
LEMMA PushQueue ==
  ASSUME TypeInv, NEW e, Push(e)
  PROVE  /\ Len(moreEvents) \in Nat /\ Len(moreEvents') = Len(moreEvents) + 1
         /\ \A i \in 1 .. Len(moreEvents) : moreEvents'[i] = moreEvents[i]
         /\ moreEvents'[Len(moreEvents) + 1] = e
  BY DEF Push, TypeInv, TypeOK, ObjectTypeOK

\* An event that is not about key k changes nothing for that key.
LEMMA PushAside ==
  ASSUME TypeInv, NEW e, Push(e), seen' = seen, NEW k, ~About(e, k), NEW v
  PROVE  /\ Alternate(k) => Alternate(k)'
         /\ EndsWith(k, v) => EndsWith(k, v)'
<1>0. PICK n : n = Len(moreEvents)
  OBVIOUS
<1>1. /\ n \in Nat /\ Len(moreEvents') = n + 1 /\ moreEvents'[n + 1] = e
      /\ \A i \in 1 .. n : moreEvents'[i] = moreEvents[i]
  BY <1>0, PushQueue
<1>2. KeyEvents(k)' = KeyEvents(k) /\ KeyEvents(k) \subseteq 1 .. n
  BY <1>0, <1>1 DEF KeyEvents, About
<1>3. \A i \in Tellings(k) : KeyState(k, i)' = KeyState(k, i)
  BY <1>1, <1>2 DEF Tellings, KeyState, Bit
<1>4. Tellings(k)' = Tellings(k) /\ Tellings(k) \subseteq Nat /\ KeyEvents(k) \subseteq Tellings(k)
  BY <1>2 DEF Tellings
<1>5. \A i, j : Silent(k, i, j)' = Silent(k, i, j)
  BY <1>2 DEF Silent
<1>6. \A i \in Nat : Silent(k, i + 1, n + 1) <=> Silent(k, i + 1, n)
  BY <1>1, <1>2 DEF Silent
<1>7. Alternate(k) => Alternate(k)'
  BY <1>2, <1>3, <1>4, <1>5 DEF Alternate
<1>8. EndsWith(k, v) => EndsWith(k, v)'
  BY <1>0, <1>1, <1>3, <1>4, <1>5, <1>6 DEF EndsWith
<1> QED
  BY <1>7, <1>8

\* An event that tells of the other state of key k keeps the alternation.
LEMMA PushKey ==
  ASSUME TypeInv, NEW e, Push(e), seen' = seen, NEW k, About(e, k), e.val \in {0, 1},
         Alternate(k), EndsWith(k, 1 - e.val)
  PROVE  Alternate(k)' /\ EndsWith(k, e.val)'
<1>0. PICK n : n = Len(moreEvents)
  OBVIOUS
<1>1. /\ n \in Nat /\ Len(moreEvents') = n + 1 /\ moreEvents'[n + 1] = e
      /\ \A i \in 1 .. n : moreEvents'[i] = moreEvents[i]
  BY <1>0, PushQueue
<1>2. KeyEvents(k)' = KeyEvents(k) \cup {n + 1} /\ KeyEvents(k) \subseteq 1 .. n
  BY <1>0, <1>1 DEF KeyEvents, About
<1>3. \A i \in Tellings(k) : KeyState(k, i)' = KeyState(k, i)
  BY <1>1, <1>2 DEF Tellings, KeyState, Bit
<1>4. KeyState(k, n + 1)' = e.val
  BY <1>1 DEF KeyState
<1>5. /\ Tellings(k)' = Tellings(k) \cup {n + 1} /\ Tellings(k) \subseteq 0 .. n
      /\ KeyEvents(k) \subseteq Tellings(k)
  BY <1>1, <1>2 DEF Tellings
<1>6. \A i, j : Silent(k, i, j)' => Silent(k, i, j)
  BY <1>2 DEF Silent
<1>7. Alternate(k)'
  <2> SUFFICES ASSUME NEW i \in Tellings(k)', NEW j \in KeyEvents(k)',
                      i < j, Silent(k, i + 1, j - 1)'
               PROVE  KeyState(k, i)' # KeyState(k, j)'
    BY DEF Alternate
  <2>1. CASE j \in KeyEvents(k)
    <3>1. i \in Tellings(k)
      BY <1>1, <1>2, <1>5, <2>1
    <3>2. KeyState(k, i) # KeyState(k, j)
      BY <1>6, <2>1, <3>1 DEF Alternate
    <3> QED
      BY <1>3, <1>5, <2>1, <3>1, <3>2
  <2>2. CASE j = n + 1
    <3>1. i \in Tellings(k)
      BY <1>1, <1>5, <2>2
    <3>2. Silent(k, i + 1, n)
      BY <1>1, <1>6, <2>2
    <3>3. KeyState(k, i) = 1 - e.val
      BY <1>0, <3>1, <3>2 DEF EndsWith
    <3> QED
      BY <1>3, <1>4, <2>2, <3>1, <3>3
  <2> QED
    BY <1>2, <2>1, <2>2
<1>8. EndsWith(k, e.val)'
  <2> SUFFICES ASSUME NEW i \in Tellings(k)', Silent(k, i + 1, n + 1)'
               PROVE  KeyState(k, i)' = e.val
    BY <1>1 DEF EndsWith
  <2>1. n + 1 < i + 1 \/ n + 1 > n + 1
    BY <1>2 DEF Silent
  <2>2. i = n + 1
    BY <1>1, <1>5, <2>1
  <2> QED
    BY <1>4, <2>2
<1> QED
  BY <1>7, <1>8

\* Taking an event moves what it tells from the queue to what has been told.
LEMMA TakeKey ==
  ASSUME TypeInv, NEW p \in Proc, Take(p), NEW k \in Keys, NEW v
  PROVE  /\ Alternate(k) => Alternate(k)'
         /\ EndsWith(k, v) => EndsWith(k, v)'
<1>0. PICK n, e : n = Len(moreEvents) /\ e = Head(moreEvents)
  OBVIOUS
<1> DEFINE q == moreEvents
<1>1. /\ q # <<>> /\ q \in Seq(Events) /\ q' = Tail(q) /\ seen' = Told(e)
  BY <1>0 DEF Take, TypeInv, TypeOK, ObjectTypeOK
<1>2. /\ n \in Nat /\ n >= 1 /\ Len(q') = n - 1 /\ e = q[1] /\ e \in Events
      /\ \A i \in 1 .. n - 1 : q'[i] = q[i + 1]
  BY <1>0, <1>1, TailSeq
<1> DEFINE f(i) == IF i = 0 THEN (IF About(e, k) THEN 1 ELSE 0) ELSE i + 1
<1>3. KeyEvents(k) \subseteq 1 .. n /\ KeyEvents(k)' \subseteq 1 .. n - 1
  BY <1>0, <1>2 DEF KeyEvents
<1>4. \A i \in 1 .. n - 1 : i \in KeyEvents(k)' <=> i + 1 \in KeyEvents(k)
  BY <1>0, <1>2 DEF KeyEvents
<1>5. 1 \in KeyEvents(k) <=> About(e, k)
  BY <1>0, <1>2 DEF KeyEvents, About
<1>6. Bit(k, seen') = IF About(e, k) THEN e.val ELSE Bit(k, seen)
  <2>1. e.val \in {0, 1}
    BY <1>2 DEF Events
  <2> QED
    BY <1>1, <2>1 DEF Told, About, Bit
<1>7. \A i \in Tellings(k)' : f(i) \in Tellings(k) /\ KeyState(k, i)' = KeyState(k, f(i))
  <2> TAKE i \in Tellings(k)'
  <2>1. CASE i = 0
    BY <1>2, <1>5, <1>6, <2>1 DEF Tellings, KeyState
  <2>2. CASE i # 0
    <3>1. i \in KeyEvents(k)' /\ i \in 1 .. n - 1
      BY <1>3, <2>2 DEF Tellings
    <3>2. i + 1 \in KeyEvents(k) /\ i + 1 # 0
      BY <1>2, <1>4, <3>1
    <3> QED
      BY <1>2, <2>2, <3>1, <3>2 DEF Tellings, KeyState
  <2> QED
    BY <2>1, <2>2
<1>8. Tellings(k)' \subseteq 0 .. n - 1 /\ KeyEvents(k)' \subseteq Tellings(k)'
  BY <1>2, <1>3 DEF Tellings
\* Between two told positions nothing new appears.
<1>9. ASSUME NEW i \in 0 .. n - 1, NEW j \in 0 .. n - 1, Silent(k, i + 1, j)'
      PROVE  Silent(k, f(i) + 1, j + 1)
  <2> SUFFICES ASSUME NEW m \in KeyEvents(k) PROVE m < f(i) + 1 \/ m > j + 1
    BY DEF Silent
  <2>1. CASE m = 1
    BY <1>2, <1>5, <2>1
  <2>2. CASE m # 1
    <3>1. m \in 1 .. n /\ m - 1 \in 1 .. n - 1 /\ (m - 1) + 1 = m
      BY <1>2, <1>3, <2>2
    <3>2. m - 1 \in KeyEvents(k)'
      BY <1>4, <3>1
    <3>3. m - 1 < i + 1 \/ m - 1 > j
      BY <1>9, <3>2 DEF Silent
    <3> QED
      BY <1>2, <3>1, <3>3
  <2> QED
    BY <2>1, <2>2
<1>10. ASSUME Alternate(k) PROVE Alternate(k)'
  <2> SUFFICES ASSUME NEW i \in Tellings(k)', NEW j \in KeyEvents(k)',
                      i < j, Silent(k, i + 1, j - 1)'
               PROVE  KeyState(k, i)' # KeyState(k, j)'
    BY DEF Alternate
  <2>1. i \in 0 .. n - 1 /\ j \in 1 .. n - 1 /\ j - 1 \in 0 .. n - 1
    BY <1>2, <1>3, <1>8
  <2>2. Silent(k, f(i) + 1, (j - 1) + 1)
    BY <1>9, <2>1
  <2>3. f(j) = j + 1 /\ f(j) \in KeyEvents(k) /\ f(i) < f(j) /\ (j - 1) + 1 = f(j) - 1
    BY <1>2, <1>4, <2>1
  <2>4. f(i) \in Tellings(k) /\ KeyState(k, i)' = KeyState(k, f(i)) /\ KeyState(k, j)' = KeyState(k, f(j))
    BY <1>7, <1>8
  <2> HIDE DEF f
  <2> QED
    BY <1>10, <2>2, <2>3, <2>4 DEF Alternate
<1>11. ASSUME EndsWith(k, v) PROVE EndsWith(k, v)'
  <2> SUFFICES ASSUME NEW i \in Tellings(k)', Silent(k, i + 1, n - 1)'
               PROVE  KeyState(k, i)' = v
    BY <1>2 DEF EndsWith
  <2>1. i \in 0 .. n - 1 /\ n - 1 \in 0 .. n - 1 /\ (n - 1) + 1 = n
    BY <1>2, <1>8
  <2>2. Silent(k, f(i) + 1, n)
    BY <1>9, <2>1
  <2>3. f(i) \in Tellings(k) /\ KeyState(k, i)' = KeyState(k, f(i))
    BY <1>7
  <2> HIDE DEF f
  <2> QED
    BY <1>0, <1>11, <2>2, <2>3 DEF EndsWith
<1> QED
  BY <1>10, <1>11
\* The state of key k that the last event is to tell.
Due(p, k) == IF pc[p] = "keys" /\ k \in out[p] THEN 1 - Bit(k, btnPrev) ELSE Bit(k, btnPrev)

\* KeyInv, key by key.
LEMMA KeyParts ==
  ASSUME NEW p
  PROVE  KeyInv(p) <=> /\ \A k \in Keys : Alternate(k) /\ EndsWith(k, Due(p, k))
                       /\ pc[p] = "press" => out[p] = Changed(btnPrev, rep[p].btn)
                       /\ pc[p] = "keys" => rep[p].btn = btnPrev
  BY DEF KeyInv, NeverTwice, Alternate, Due

\* A step that leaves the events and the keys alone.
LEMMA KeyFrame ==
  ASSUME NEW p \in Proc, KeyInv(p), UNCHANGED <<moreEvents, seen, btnPrev>>,
         \/ pc'[p] = pc[p] /\ out'[p] = out[p] /\ rep'[p] = rep[p]
         \/ /\ {pc[p], pc'[p]} \cap {"keys"} = {}
            /\ pc'[p] = "press" => out'[p] = Changed(btnPrev, rep'[p].btn)
  PROVE  KeyInv(p)'
<1>1. \A k \in Keys : Due(p, k)' = Due(p, k)
  BY DEF Due, Bit
<1>2. \A k \in Keys : Alternate(k)' = Alternate(k)
  BY DEF Alternate, Tellings, KeyEvents, KeyState, Silent, Bit
<1>3. \A k \in Keys : EndsWith(k, Due(p, k)) => EndsWith(k, Due(p, k))'
  BY <1>1 DEF EndsWith, Tellings, KeyEvents, KeyState, Silent, Bit
<1>4. /\ pc'[p] = "press" => out'[p] = Changed(btnPrev', rep'[p].btn)
      /\ pc'[p] = "keys" => rep'[p].btn = btnPrev'
  BY DEF KeyInv
<1>5. \A k \in Keys : Alternate(k)' /\ EndsWith(k, Due(p, k))'
  BY <1>2, <1>3, KeyParts
<1> QED
  BY <1>4, <1>5 DEF KeyInv, NeverTwice, Alternate, Due

\* The rest of a report, or the way back, has nothing to do with the keys.
LEMMA AwayFromKeys ==
  ASSUME TypeInv, NEW p \in Proc, StagesInv(p), pc[p] \in {"handle", "keys"}, StageDone(p)
  PROVE  pc'[p] \notin {"keys", "press"}
  BY StageMoves DEF Handling

\* The alternation is kept, step by step.
LEMMA KeyStep ==
  ASSUME TypeInv, NEW p \in Proc, Proc = {p}, StagesInv(p), KeyInv(p), [Next]_vars
  PROVE  KeyInv(p)'
<1>1. CASE UNCHANGED vars
  BY <1>1, KeyFrame DEF vars, repVars, chanVars, readVars
<1>2. CASE Device
  BY <1>2, KeyFrame, DeviceMoves DEF repVars, chanVars, readVars
<1>3. CASE Call(p)
  BY <1>3, KeyFrame, CallMoves DEF repVars, chanVars
<1>4. CASE Output(p)
  <2>1. pc[p] # "keys"
    BY <1>4 DEF Output, UpdateReportMode, Compose, Forget, Send, SendFails, Check, Reply
  <2> QED
    BY <1>4, <2>1, KeyFrame, OutputMoves DEF repVars
<1>5. CASE PollStep(p)
  <2>1. pc[p] # "keys" /\ pc'[p] \notin {"keys", "press"} /\ btnPrev' = btnPrev
    BY <1>5, PollMoves DEF PollStep, Take, More, First, WouldBlock, Await, AwaitFails, repVars
  <2>2. CASE Take(p)
    <3>1. \A k \in Keys : Due(p, k)' = Due(p, k)
      BY <2>1 DEF Due, Bit
    <3>2. \A k \in Keys : Alternate(k) /\ EndsWith(k, Due(p, k))
      BY KeyParts
    <3>3. ASSUME NEW k \in Keys PROVE Alternate(k)' /\ EndsWith(k, Due(p, k))'
      <4>1. PICK v : v = Due(p, k)
        OBVIOUS
      <4>2. Alternate(k)' /\ EndsWith(k, v)'
        BY <2>2, <3>2, <4>1, TakeKey
      <4> QED
        BY <3>1, <4>1, <4>2 DEF EndsWith
    <3> QED
      BY <2>1, <3>3 DEF KeyInv, NeverTwice, Alternate, Due
  <2>3. CASE ~Take(p)
    BY <1>5, <2>1, <2>3, KeyFrame, PollMoves
  <2> QED
    BY <2>2, <2>3
<1>6. CASE ReadEvent(p)
  <2>0. seen' = seen
    BY <1>6, ReadMoves
  <2>1. CASE WaitReadable(p)
    BY <2>0, <2>1, Jump, KeyFrame DEF WaitReadable, chanVars, repVars
  <2>2. CASE Read(p)
    <3>1. pc'[p] \notin {"keys", "press"}
      BY <2>2, Received DEF Back
    <3> QED
      BY <2>0, <2>2, <3>1, KeyFrame DEF Read, chanVars, repVars
  <2>3. CASE Status(p) \/ MemoryReply(p) \/ Ack(p) \/ Store(p)
    <3>1. pc[p] = "handle" /\ StageDone(p) /\ moreEvents' = moreEvents /\ btnPrev' = btnPrev
      BY <2>3 DEF Status, MemoryReply, Ack, Store, AtStage, chanVars, repVars
    <3> QED
      BY <2>0, <3>1, AwayFromKeys, KeyFrame
  <2>4. CASE Buttons(p)
    <3>1. pc[p] = "handle" /\ moreEvents' = moreEvents /\ btnPrev' = btnPrev
      BY <2>4 DEF Buttons, AtStage, chanVars, repVars
    <3>2. CASE StageDone(p)
      BY <2>0, <3>1, <3>2, AwayFromKeys, KeyFrame
    <3>3. CASE ~StageDone(p)
      <4>1. /\ GoTo(p, "press") /\ rep' = rep
            /\ out' = [out EXCEPT ![p] = Changed(btnPrev, rep[p].btn)]
        BY <2>4, <3>3 DEF Buttons
      <4>2. pc'[p] = "press" /\ out'[p] = Changed(btnPrev, rep'[p].btn)
        BY <4>1, Jump DEF TypeInv, TypeOK, GoroutineTypeOK
      <4> QED
        BY <2>0, <3>1, <4>2, KeyFrame
    <3> QED
      BY <3>2, <3>3
  <2>5. CASE Pair(p)
    <3>1. /\ pc[p] = "handle" /\ pc' = pc /\ moreEvents' = moreEvents /\ btnPrev' = btnPrev
      BY <2>5 DEF Pair, AtStage, chanVars, repVars
    <3> QED
      BY <2>0, <3>1, KeyFrame
  <2>6. CASE Press(p)
    <3>1. /\ pc[p] = "press" /\ pc'[p] = "keys" /\ moreEvents' = moreEvents /\ btnPrev' = rep[p].btn
          /\ rep' = rep /\ out' = out
      BY <2>6, Jump DEF Press, chanVars, readVars
    <3>2. \A k \in Keys : Due(p, k)' = Due(p, k)
      <4>1. out[p] = Changed(btnPrev, rep[p].btn)
        BY <3>1, KeyParts
      <4> QED
        BY <3>1, <4>1 DEF Due, Bit, Changed
    <3>3. \A k \in Keys : Alternate(k)' = Alternate(k)
      BY <2>0, <3>1 DEF Alternate, Tellings, KeyEvents, KeyState, Silent, Bit
    <3>4. \A k \in Keys : EndsWith(k, Due(p, k)) => EndsWith(k, Due(p, k))'
      BY <2>0, <3>1, <3>2 DEF EndsWith, Tellings, KeyEvents, KeyState, Silent, Bit
    <3>5. \A k \in Keys : Alternate(k)' /\ EndsWith(k, Due(p, k))'
      BY <3>3, <3>4, KeyParts
    <3> QED
      BY <3>1, <3>5 DEF KeyInv, NeverTwice, Alternate, Due
  <2>7. CASE Gone(p) \/ AccelOut(p) \/ IROut(p)
    <3>1. PICK e : Push(e) /\ e.kind # "key"
      BY <2>7 DEF Gone, AccelOut, IROut, Event
    <3>2. pc[p] # "keys" /\ pc'[p] \notin {"keys", "press"} /\ btnPrev' = btnPrev
      <4>1. CASE Gone(p)
        BY <4>1, Jump DEF Gone, Back, repVars
      <4>2. CASE AccelOut(p) \/ IROut(p)
        <5>1. pc[p] = "handle" /\ StageDone(p) /\ btnPrev' = btnPrev
          BY <4>2 DEF AccelOut, IROut, AtStage, repVars
        <5> QED
          BY <5>1, AwayFromKeys
      <4> QED
        BY <2>7, <4>1, <4>2
    <3>3. ASSUME NEW k \in Keys PROVE Alternate(k)' /\ EndsWith(k, Due(p, k))'
      <4>1. PICK v : v = Due(p, k)
        OBVIOUS
      <4>2. Due(p, k)' = v
        BY <3>2, <4>1 DEF Due, Bit
      <4>3. Alternate(k) /\ EndsWith(k, v)
        BY <4>1, KeyParts
      <4>4. ~About(e, k)
        BY <3>1 DEF About
      <4>5. Alternate(k)' /\ EndsWith(k, v)'
        BY <2>0, <3>1, <4>3, <4>4, PushAside
      <4> QED
        BY <4>2, <4>5 DEF EndsWith
    <3> QED
      BY <3>2, <3>3 DEF KeyInv, NeverTwice, Alternate, Due
  <2>8. CASE KeyOut(p)
    <3>1. PICK k \in out[p] :
            /\ Push(KeyEvent(k, k \in rep[p].btn))
            /\ out' = [out EXCEPT ![p] = out[p] \ {k}]
            /\ IF out[p] = {k} THEN StageDone(p) ELSE UNCHANGED <<pc, rep, stages>>
      BY <2>8 DEF KeyOut
    <3>2. pc[p] = "keys" /\ btnPrev' = btnPrev /\ rep[p].btn = btnPrev
      BY <2>8 DEF KeyOut, repVars, KeyInv
    <3>3. out'[p] = out[p] \ {k}
      BY <3>1 DEF TypeInv, TypeOK, GoroutineTypeOK
    <3>4. pc'[p] # "press" /\ (pc'[p] = "keys" => rep' = rep) /\ (pc'[p] # "keys" => out[p] = {k})
      <4>1. StageDone(p) => pc'[p] \notin {"keys", "press"}
        BY <3>2, AwayFromKeys
      <4> QED
        BY <3>1, <3>2, <4>1
    <3>5. PICK e : e = KeyEvent(k, k \in btnPrev)
      OBVIOUS
    <3>6. /\ e.kind = "key" /\ e.key = k /\ e.val \in {0, 1} /\ e.val = Bit(k, btnPrev)
          /\ Push(e)
      BY <3>1, <3>2, <3>5 DEF KeyEvent, Event, Bit
    <3>7. ASSUME NEW j \in Keys PROVE Alternate(j)' /\ EndsWith(j, Due(p, j))'
      <4>1. PICK v : v = Due(p, j)
        OBVIOUS
      <4>2. Alternate(j) /\ EndsWith(j, v)
        BY <4>1, KeyParts
      <4>3. CASE j = k
        <5>1. v = 1 - e.val /\ Due(p, j)' = e.val
          BY <3>1, <3>2, <3>3, <3>6, <4>1, <4>3 DEF Due, Bit
        <5>2. About(e, j)
          BY <3>6, <4>3 DEF About
        <5>3. Alternate(j)' /\ EndsWith(j, e.val)'
          BY <2>0, <3>6, <4>2, <5>1, <5>2, PushKey
        <5> QED
          BY <5>1, <5>3 DEF EndsWith
      <4>4. CASE j # k
        <5>1. Due(p, j)' = v
          BY <3>2, <3>3, <3>4, <4>1, <4>4 DEF Due, Bit
        <5>2. ~About(e, j)
          BY <3>6, <4>4 DEF About
        <5>3. Alternate(j)' /\ EndsWith(j, v)'
          BY <2>0, <3>6, <4>2, <5>2, PushAside
        <5> QED
          BY <5>1, <5>3 DEF EndsWith
      <4> QED
        BY <4>3, <4>4
    <3> QED
      BY <3>2, <3>4, <3>7 DEF KeyInv, NeverTwice, Alternate, Due
  <2> QED
    BY <1>6, <2>1, <2>2, <2>3, <2>4, <2>5, <2>6, <2>7, <2>8 DEF ReadEvent
<1> QED
  BY <1>1, <1>2, <1>3, <1>4, <1>5, <1>6 DEF Next, Step

\* One goroutine makes all the calls.
Alone == \E p : Proc = {p}

KeysInv == \A p \in Proc : StagesInv(p) /\ (Proc = {p} => KeyInv(p))

\* With nothing told and no key held there is nothing to tell.
LEMMA KeyInit == Init => KeysInv
<1> SUFFICES ASSUME Init, NEW p \in Proc PROVE StagesInv(p) /\ KeyInv(p)
  BY DEF KeysInv
<1>1. pc[p] = "idle" /\ btnPrev = {} /\ seen = {} /\ Len(moreEvents) = 0
  BY DEF Init
<1>2. \A k : KeyEvents(k) = {} /\ Tellings(k) = {0} /\ KeyState(k, 0) = 0 /\ Due(p, k) = 0
  BY <1>1 DEF KeyEvents, Tellings, KeyState, Due, Bit
<1>3. \A k \in Keys : Alternate(k) /\ EndsWith(k, Due(p, k))
  BY <1>2 DEF Alternate, EndsWith
<1> QED
  BY <1>1, <1>3, KeyParts DEF StagesInv, Handling

\* The key events that are told and still queued are in step with the reports.
LEMMA KeysInvariant == Spec => []KeysInv
<1>1. TypeInv /\ KeysInv /\ [Next]_vars => KeysInv'
  <2> SUFFICES ASSUME TypeInv, KeysInv, [Next]_vars PROVE KeysInv'
    OBVIOUS
  <2> QED
    BY StagesStep, KeyStep DEF KeysInv
<1> QED
  BY <1>1, KeyInit, TypeInvariant, PTL DEF Spec

(* A key press or release is told once when one goroutine makes all the calls: *)
(* emitButtons compares every report with the keys of the one before it, and    *)
(* stores those before it tells of them.                                        *)
THEOREM KeysAlternate == ASSUME Alone PROVE Spec => []NeverTwice
<1>1. KeysInv => NeverTwice
  BY DEF Alone, KeysInv, KeyInv
<1> QED
  BY <1>1, KeysInvariant, PTL

(* No key event is missing, whichever calls read the reports: between two       *)
(* reports the events told and queued lead to the keys of the last one.         *)
THEOREM KeysComplete == ASSUME Alone PROVE Spec => []KeysTold
<1>1. KeysInv => KeysTold
  <2> SUFFICES ASSUME KeysInv, NEW p, Proc = {p}, pc[p] \notin {"press", "keys"}, NEW k \in Keys
               PROVE  EndsWith(k, Bit(k, btnPrev))
    BY DEF Alone, KeysTold
  <2> QED
    BY DEF KeysInv, KeyInv
<1> QED
  BY <1>1, KeysInvariant, PTL
-----------------------------------------------------------------------------
(* Joined camera halves are of one frame *)

\* The stages at which a report is kept, paired and sent on as a camera event.
LEMMA CameraStages ==
  ASSUME TypeInv, NEW p \in Proc, StagesInv(p), pc[p] \in Handling
  PROVE  /\ Head(stages[p]) = "store" => rep[p].id = "0x3e"
         /\ Head(stages[p]) = "pair" => rep[p].id = "0x3f"
         /\ Head(stages[p]) = "ir" => rep[p].id \notin {"0x3e", "0x21"}
         /\ rep[p].id = "0x3e" /\ Head(stages[p]) # "store" => Len(stages[p]) > 1
<1>1. stages[p] \in StagesLeft(rep[p].id)
  BY DEF StagesInv
<1>2. ASSUME NEW id, NEW s \in StagesLeft(id)
      PROVE  /\ Head(s) = "store" => id = "0x3e"
             /\ Head(s) = "pair" => id = "0x3f"
             /\ Head(s) = "ir" => id \notin {"0x3e", "0x21"}
             /\ id = "0x3e" /\ Head(s) # "store" => Len(s) > 1
  BY <1>2 DEF StagesLeft
<1> QED
  BY <1>1, <1>2

\* The end of a stage other than "store" leaves the kept half as it was.
LEMMA KeptOn ==
  ASSUME TypeInv, NEW p \in Proc, StagesInv(p), pc[p] \in {"handle", "keys"}, StageDone(p),
         Head(stages[p]) # "store", interleaved' = interleaved, NEW v
  PROVE  Kept(p, v)' <=> Kept(p, v)
<1>1. pc[p] \in Handling
  BY DEF Handling
<1>2. CASE pc'[p] = "handle"
  <2>1. rep' = rep
    BY <1>2, StageMoves DEF Handling
  <2> QED
    BY <1>1, <1>2, <2>1 DEF Kept, Handling
<1>3. CASE pc'[p] # "handle"
  <2>1. pc'[p] \notin Handling
    BY <1>3, StageMoves
  <2>2. rep[p].id # "0x3e"
    <3>1. Len(stages[p]) > 1 => pc'[p] = "handle"
      BY Jump DEF StageDone
    <3> QED
      BY <1>1, <1>3, <3>1, CameraStages
  <2> QED
    BY <2>1, <2>2 DEF Kept
<1> QED
  BY <1>2, <1>3

\* While the buffer and the kept half stay, whatever followed still follows.
LEMMA PairedFrame ==
  ASSUME NEW p \in Proc, Paired(p), rx' = rx,
         \A v : Kept(p, v)' <=> Kept(p, v),
         UNCHANGED <<devMode, phase>> \/ phase' = 0
  PROVE  Paired(p)'
<1>1. \A j, v : FirstHalf(p, j, v)' <=> FirstHalf(p, j, v)
  BY DEF FirstHalf
<1>2. \A i, v : Follows(p, i, v)' <=> Follows(p, i, v)
  BY <1>1 DEF Follows, Half
<1>3. \A i, v : SecondHalf(i, v)' => SecondHalf(i, v)
  BY DEF SecondHalf
<1> QED
  BY <1>2, <1>3 DEF Paired

\* A report that the Wiimote sends follows what it has to follow.
LEMMA PairedArrival ==
  ASSUME TypeInv, NEW p \in Proc, Paired(p), Device, "drop" \notin Faults
  PROVE  Paired(p)'
<1>1. UNCHANGED <<devMode, pc, rep, interleaved>>
  BY DeviceMoves DEF repVars, readVars
<1>2. \A v : Kept(p, v)' <=> Kept(p, v)
  BY <1>1 DEF Kept
<1>3. CASE rx' = rx /\ phase' = phase
  BY <1>1, <1>2, <1>3, PairedFrame
<1>4. ASSUME NEW r \in Reports, rx' = Append(rx, r),
             \/ phase' = phase /\ r.id \in {"0x20", "0x21", "0x22"}
             \/ phase' = phase /\ r.id = devMode /\ devMode # "0x3e"
             \/ /\ phase' = (phase + 1) % 4 /\ devMode = "0x3e"
                /\ r.id = IF phase % 2 = 0 THEN "0x3e" ELSE "0x3f"
                /\ r.val = phase \div 2
      PROVE  Paired(p)'
  <2>0. PICK n : n = Len(rx)
    OBVIOUS
  <2>1. /\ n \in Nat /\ Len(rx') = n + 1 /\ rx'[n + 1] = r
        /\ \A i \in 1 .. n : rx'[i] = rx[i]
    BY <1>4, <2>0, AppendSeq DEF TypeInv, TypeOK, DeviceTypeOK
  <2>2. phase \in 0 .. 3 /\ devMode \in Modes
    BY DEF TypeInv, TypeOK, DeviceTypeOK
  <2>3. \A i \in 0 .. n : \A v : FirstHalf(p, i, v)' <=> FirstHalf(p, i, v)
    BY <1>2, <2>1 DEF FirstHalf
  <2>4. \A i \in 1 .. n : Half(i)' <=> Half(i)
    BY <2>1 DEF Half
  <2>5. ASSUME NEW i \in 1 .. n + 1, NEW v, Follows(p, i, v) PROVE Follows(p, i, v)'
    <3>1. PICK j \in 0 .. i - 1 : FirstHalf(p, j, v) /\ \A m \in j + 1 .. i - 1 : ~Half(m)
      BY <2>5 DEF Follows
    <3>2. FirstHalf(p, j, v)' /\ \A m \in j + 1 .. i - 1 : ~Half(m)'
      BY <2>1, <2>3, <2>4, <3>1
    <3> QED
      BY <3>2 DEF Follows
  <2> SUFFICES ASSUME NEW i, NEW v, SecondHalf(i, v)' PROVE Follows(p, i, v)'
    BY DEF Paired
  <2>6. i \in 1 .. n + 2
    BY <2>1 DEF SecondHalf
  <2>7. CASE i <= n + 1
    <3>1. SecondHalf(i, v)
      BY <1>1, <1>4, <2>0, <2>1, <2>2, <2>6, <2>7 DEF SecondHalf, Modes
    <3> QED
      BY <2>5, <2>6, <2>7, <3>1 DEF Paired
  <2>8. CASE i = n + 2
    <3>0. devMode = "0x3e" /\ phase' % 2 = 1 /\ phase' \div 2 = v
      BY <1>1, <2>1, <2>8 DEF SecondHalf
    <3>1. CASE phase' = phase
      <4>1. r.id \in {"0x20", "0x21", "0x22"}
        BY <1>4, <2>2, <3>0, <3>1
      <4>2. Follows(p, n + 1, v)
        BY <2>0, <3>0, <3>1 DEF SecondHalf, Paired
      <4>3. PICK j \in 0 .. n : FirstHalf(p, j, v) /\ \A m \in j + 1 .. n : ~Half(m)
        BY <2>1, <4>2 DEF Follows
      <4>4. ~Half(n + 1)'
        BY <2>1, <4>1 DEF Half
      <4>5. FirstHalf(p, j, v)' /\ \A m \in j + 1 .. n + 1 : ~Half(m)'
        BY <2>1, <2>3, <2>4, <4>3, <4>4
      <4> QED
        BY <2>1, <2>8, <4>5 DEF Follows
    <3>2. CASE phase' = (phase + 1) % 4 /\ phase' # phase
      <4>1. phase % 2 = 0 /\ phase \div 2 = v
        BY <2>2, <3>0, <3>2
      <4>2. r.id = "0x3e" /\ r.val = v
        BY <1>4, <3>0, <3>2, <4>1
      <4>3. FirstHalf(p, n + 1, v)'
        BY <2>1, <4>2 DEF FirstHalf
      <4> QED
        BY <2>1, <2>8, <4>3 DEF Follows
    <3> QED
      BY <1>4, <3>1, <3>2
  <2> QED
    BY <2>1, <2>6, <2>7, <2>8
<1> QED
  BY <1>1, <1>3, <1>4, Arrivals

\* The report that is read is the next one of those that follow one another.
LEMMA PairedRead ==
  ASSUME TypeInv, NEW p \in Proc, Paired(p), Read(p)
  PROVE  /\ Paired(p)'
         /\ pc'[p] \in Handling /\ rep'[p].id = "0x3f" => interleaved' = rep'[p].val
<1>1. pc[p] = "read" /\ UNCHANGED <<devMode, phase, interleaved>>
  BY DEF Read, repVars
<1>2. CASE rx = <<>>
  <2>1. rx' = rx /\ pc'[p] \notin Handling
    BY <1>2, Received DEF Back, Handling
  <2>2. \A v : Kept(p, v)' <=> Kept(p, v)
    BY <1>1, <2>1 DEF Kept, Handling
  <2> QED
    BY <1>1, <2>1, <2>2, PairedFrame
<1>3. CASE rx # <<>>
  <2>0. PICK n : n = Len(rx)
    OBVIOUS
  <2>1. /\ n \in Nat /\ n >= 1 /\ Len(rx') = n - 1 /\ rep'[p] = rx[1]
        /\ \A i \in 1 .. n - 1 : rx'[i] = rx[i + 1]
        /\ pc'[p] = IF Stages(rx[1].id) = <<>> THEN Back(p) ELSE "handle"
    <3>1. rx \in Seq(Reports) /\ rx' = Tail(rx)
      BY <1>3, Received DEF TypeInv, TypeOK, DeviceTypeOK
    <3>2. /\ Len(rx) \in Nat /\ Len(rx) >= 1 /\ Head(rx) = rx[1] /\ Len(Tail(rx)) = Len(rx) - 1
          /\ \A i \in 1 .. Len(Tail(rx)) : Tail(rx)[i] = rx[i + 1]
      BY <1>3, <3>1, TailSeq
    <3>3. /\ rep'[p] = Head(rx)
          /\ pc'[p] = IF Stages(Head(rx).id) = <<>> THEN Back(p) ELSE "handle"
      BY <1>3, Received
    <3>4. n \in Nat /\ n >= 1 /\ Len(rx') = n - 1 /\ \A i \in 1 .. n - 1 : rx'[i] = rx[i + 1]
      BY <2>0, <3>1, <3>2
    <3>5. rep'[p] = rx[1] /\ pc'[p] = IF Stages(rx[1].id) = <<>> THEN Back(p) ELSE "handle"
      BY <3>2, <3>3
    <3> QED
      BY <3>4, <3>5
  <2>2. rx[1].id = "0x3e" => pc'[p] \in Handling
    <3>1. \A id : id = "0x3e" => Stages(id) # <<>>
      BY DEF Stages
    <3> QED
      BY <2>1, <3>1 DEF Handling
  <2>3. \A v : Kept(p, v) <=> interleaved = v
    BY <1>1 DEF Kept, Handling
  <2>4. \A v : Kept(p, v)' <=> IF rx[1].id = "0x3e" THEN rx[1].val = v ELSE interleaved = v
    BY <1>1, <2>1, <2>2 DEF Kept
  <2>5. ASSUME NEW i \in 1 .. n, NEW v, Follows(p, i + 1, v) PROVE Follows(p, i, v)'
    <3>1. PICK j \in 0 .. i : FirstHalf(p, j, v) /\ \A m \in j + 1 .. i : ~Half(m)
      BY <2>1, <2>5 DEF Follows
    <3>2. ASSUME NEW m \in 1 .. i - 1, m + 1 \in j + 1 .. i PROVE ~Half(m)'
      BY <2>1, <3>1, <3>2 DEF Half
    <3>3. CASE j <= 1
      <4>1. Kept(p, v)'
        <5>1. CASE j = 0
          <6>1. interleaved = v /\ ~Half(1)
            BY <2>3, <3>1, <5>1 DEF FirstHalf
          <6> QED
            BY <2>4, <6>1 DEF Half
        <5>2. CASE j = 1
          BY <2>4, <3>1, <5>2 DEF FirstHalf
        <5> QED
          BY <3>3, <5>1, <5>2
      <4>2. FirstHalf(p, 0, v)' /\ \A m \in 0 + 1 .. i - 1 : ~Half(m)'
        <5>1. \A m \in 1 .. i - 1 : m + 1 \in j + 1 .. i
          BY <2>1, <3>3
        <5> QED
          BY <3>2, <4>1, <5>1 DEF FirstHalf
      <4> QED
        BY <2>1, <4>2 DEF Follows
    <3>4. CASE j > 1
      <4>1. j - 1 \in 1 .. n - 1 /\ rx'[j - 1] = rx[j]
        BY <2>1, <3>4
      <4>2. FirstHalf(p, j - 1, v)'
        BY <3>1, <3>4, <4>1 DEF FirstHalf
      <4>3. \A m \in (j - 1) + 1 .. i - 1 : ~Half(m)'
        <5>1. \A m \in (j - 1) + 1 .. i - 1 : m \in 1 .. i - 1 /\ m + 1 \in j + 1 .. i
          BY <2>1, <3>4
        <5> QED
          BY <3>2, <5>1
      <4>4. j - 1 \in 0 .. i - 1
        BY <2>1, <3>4
      <4> QED
        BY <4>2, <4>3, <4>4 DEF Follows
    <3> QED
      BY <3>3, <3>4
  <2>6. ASSUME NEW i, NEW v, SecondHalf(i, v)' PROVE Follows(p, i, v)'
    <3>1. i \in 1 .. n /\ SecondHalf(i + 1, v)
      BY <1>1, <2>0, <2>1, <2>6 DEF SecondHalf
    <3> QED
      BY <2>5, <3>1 DEF Paired
  <2>7. rep'[p].id = "0x3f" => interleaved' = rep'[p].val
    <3> SUFFICES ASSUME rx[1].id = "0x3f" PROVE interleaved = rx[1].val
      BY <1>1, <2>1
    <3>1. Follows(p, 1, rx[1].val)
      BY <2>0, <2>1 DEF Paired, SecondHalf
    <3> QED
      BY <2>3, <3>1 DEF Follows, FirstHalf
  <2> QED
    BY <2>6, <2>7 DEF Paired
<1> QED
  BY <1>2, <1>3
\* Without Read, what is in the driver's hands stays sound.
LEMMA SoundFrame ==
  ASSUME NEW p \in Proc, Sound(p), rx' = rx,
         \/ pc'[p] \notin Handling
         \/ pc[p] \in Handling /\ rep'[p] = rep[p] /\ interleaved' = interleaved
  PROVE  Sound(p)'
  BY DEF Sound

\* The buffer keeps good reports only, but for memory replies.
LEMMA SoundArrival ==
  ASSUME TypeInv, NEW p \in Proc, Sound(p), Device
  PROVE  Sound(p)'
<1>1. UNCHANGED <<pc, rep, interleaved>>
  BY DeviceMoves DEF repVars, readVars
<1>2. CASE rx' = rx
  BY <1>1, <1>2 DEF Sound
<1>3. ASSUME NEW r \in Reports, rx' = Append(rx, r), r.id # "0x21" => r.good
      PROVE  Sound(p)'
  <2>1. /\ Len(rx) \in Nat /\ Len(rx') = Len(rx) + 1 /\ rx'[Len(rx) + 1] = r
        /\ \A i \in 1 .. Len(rx) : rx'[i] = rx[i]
    BY <1>3, AppendSeq DEF TypeInv, TypeOK, DeviceTypeOK
  <2>2. ASSUME NEW i \in 1 .. Len(rx'), rx'[i].id # "0x21" PROVE rx'[i].good
    <3>1. i \in 1 .. Len(rx) \/ i = Len(rx) + 1
      BY <2>1
    <3> QED
      BY <1>3, <2>1, <2>2, <3>1 DEF Sound
  <2> QED
    BY <1>1, <2>2 DEF Sound
<1> QED
  BY <1>2, <1>3, Arrivals

\* The event queue after one is taken, and after one that is no bad camera event.
LEMMA WholeQueue ==
  ASSUME TypeInv, FramesWhole,
         \/ moreEvents' = moreEvents
         \/ moreEvents # <<>> /\ moreEvents' = Tail(moreEvents)
         \/ \E e : Push(e) /\ (e.kind = "ir" => e.val = 1)
  PROVE  FramesWhole'
<1>1. CASE moreEvents' = moreEvents
  BY <1>1 DEF FramesWhole
<1>2. CASE moreEvents # <<>> /\ moreEvents' = Tail(moreEvents)
  <2>1. /\ Len(moreEvents) \in Nat /\ Len(moreEvents') = Len(moreEvents) - 1
        /\ \A i \in 1 .. Len(moreEvents') : moreEvents'[i] = moreEvents[i + 1]
    BY <1>2, TailSeq DEF TypeInv, TypeOK, ObjectTypeOK
  <2> QED
    BY <2>1 DEF FramesWhole
<1>3. ASSUME NEW e, Push(e), e.kind = "ir" => e.val = 1
      PROVE  FramesWhole'
  <2>1. /\ Len(moreEvents) \in Nat /\ Len(moreEvents') = Len(moreEvents) + 1
        /\ \A i \in 1 .. Len(moreEvents) : moreEvents'[i] = moreEvents[i]
        /\ moreEvents'[Len(moreEvents) + 1] = e
    BY <1>3, PushQueue
  <2>2. ASSUME NEW i \in 1 .. Len(moreEvents'), moreEvents'[i].kind = "ir"
        PROVE  moreEvents'[i].val = 1
    <3>1. i \in 1 .. Len(moreEvents) \/ i = Len(moreEvents) + 1
      BY <2>1
    <3> QED
      BY <1>3, <2>1, <2>2, <3>1 DEF FramesWhole
  <2> QED
    BY <2>2 DEF FramesWhole
<1> QED
  BY <1>1, <1>2, <1>3

\* Halves that belong together stay together, step by step.
LEMMA FrameStep ==
  ASSUME TypeInv, NEW p \in Proc, Proc = {p}, "drop" \notin Faults,
         StagesInv(p), FrameInv(p), [Next]_vars
  PROVE  FrameInv(p)'
<1>0. FramesWhole /\ Paired(p) /\ Sound(p)
  BY DEF FrameInv
<1>1. CASE UNCHANGED vars
  <2>1. /\ UNCHANGED <<rx, devMode, phase, moreEvents, pc, rep, interleaved>>
    BY <1>1 DEF vars, devVars, repVars, chanVars, readVars
  <2>2. \A v : Kept(p, v)' <=> Kept(p, v)
    BY <2>1 DEF Kept
  <2>3. Sound(p)'
    BY <1>0, <2>1 DEF Sound
  <2> QED
    BY <1>0, <2>1, <2>2, <2>3, PairedFrame, WholeQueue DEF FrameInv
<1>2. CASE Device
  <2>1. moreEvents' = moreEvents
    BY <1>2, DeviceMoves DEF chanVars
  <2> QED
    BY <1>0, <1>2, <2>1, PairedArrival, SoundArrival, WholeQueue DEF FrameInv
<1>3. CASE Call(p) \/ Output(p) \/ PollStep(p)
  <2>1. {pc[p], pc'[p]} \cap Handling = {}
    <3>1. pc[p] \notin Handling
      BY <1>3, CallMoves DEF Output, UpdateReportMode, Compose, Forget, Send, SendFails, Check,
         Reply, PollStep, Take, More, First, WouldBlock, Await, AwaitFails, Handling
    <3>2. pc'[p] \notin Handling
      BY <1>3, CallMoves, OutputMoves, PollMoves DEF Handling
    <3> QED
      BY <3>1, <3>2
  <2>2. rx' = rx /\ interleaved' = interleaved
    BY <1>3, CallMoves, OutputMoves, PollMoves DEF devVars, repVars
  <2>3. UNCHANGED <<devMode, phase>> \/ phase' = 0
    <3>1. CASE Output(p)
      BY <3>1 DEF Output, UpdateReportMode, Compose, Forget, Send, SendFails, Check, Reply, devVars
    <3>2. CASE Call(p) \/ PollStep(p)
      BY <3>2, CallMoves, PollMoves DEF devVars
    <3> QED
      BY <1>3, <3>1, <3>2
  <2>4. \/ moreEvents' = moreEvents
        \/ moreEvents # <<>> /\ moreEvents' = Tail(moreEvents)
    BY <1>3, CallMoves, OutputMoves, PollMoves DEF Take, chanVars
  <2>5. \A v : Kept(p, v)' <=> Kept(p, v)
    BY <2>1, <2>2 DEF Kept
  <2> QED
    BY <1>0, <2>1, <2>2, <2>3, <2>4, <2>5, PairedFrame, SoundFrame, WholeQueue DEF FrameInv
<1>4. CASE ReadEvent(p)
  <2>0. UNCHANGED <<devMode, phase>>
    BY <1>4, ReadMoves
  <2>1. CASE Read(p)
    <3>1. moreEvents' = moreEvents
      BY <2>1 DEF Read, chanVars
    <3>2. Paired(p)' /\ (pc'[p] \in Handling /\ rep'[p].id = "0x3f" => interleaved' = rep'[p].val)
      BY <1>0, <2>1, PairedRead
    <3>3. Sound(p)'
      <4>1. CASE rx = <<>>
        <5>1. rx' = rx /\ pc'[p] \notin Handling
          BY <2>1, <4>1, Received DEF Back, Handling
        <5> QED
          BY <1>0, <5>1, SoundFrame
      <4>2. CASE rx # <<>>
        <5>1. /\ Len(rx) \in Nat /\ Len(rx) >= 1 /\ Head(rx) = rx[1] /\ Len(Tail(rx)) = Len(rx) - 1
              /\ \A i \in 1 .. Len(Tail(rx)) : Tail(rx)[i] = rx[i + 1]
          BY <4>2, TailSeq DEF TypeInv, TypeOK, DeviceTypeOK
        <5>2. rx' = Tail(rx) /\ rep'[p] = Head(rx)
          BY <2>1, <4>2, Received
        <5>3. \A i \in 1 .. Len(rx') : rx'[i].id # "0x21" => rx'[i].good
          BY <1>0, <5>1, <5>2 DEF Sound
        <5>4. rep'[p].id # "0x21" => rep'[p].good
          BY <1>0, <5>1, <5>2 DEF Sound
        <5> QED
          BY <3>2, <5>3, <5>4 DEF Sound
      <4> QED
        BY <4>1, <4>2
    <3> QED
      BY <1>0, <3>1, <3>2, <3>3, WholeQueue DEF FrameInv
  <2>2. CASE ~Read(p)
    <3>1. rx' = rx
      BY <1>4, <2>2, ReadMoves
    <3>2. FramesWhole'
      <4>1. CASE IROut(p)
        <5>1. Head(stages[p]) = "ir" /\ pc[p] \in Handling
          BY <4>1 DEF IROut, AtStage, Handling
        <5>2. rep[p].good
          BY <1>0, <5>1, CameraStages DEF Sound
        <5>3. Push(Event("ir", 0, 1)) /\ Event("ir", 0, 1).val = 1
          BY <4>1, <5>2 DEF IROut, Event
        <5> QED
          BY <1>0, <5>3, WholeQueue
      <4>2. CASE Gone(p) \/ AccelOut(p)
        <5>1. PICK e : Push(e) /\ e.kind # "ir"
          BY <4>2 DEF Gone, AccelOut, Event
        <5> QED
          BY <1>0, <5>1, WholeQueue
      <4>3. CASE KeyOut(p)
        <5>1. PICK e : Push(e) /\ e.kind # "ir"
          BY <4>3 DEF KeyOut, KeyEvent, Event
        <5> QED
          BY <1>0, <5>1, WholeQueue
      <4>4. CASE moreEvents' = moreEvents
        BY <1>0, <4>4, WholeQueue
      <4> QED
        BY <1>4, <4>1, <4>2, <4>3, <4>4, ReadMoves
    <3>3. \A v : Kept(p, v)' <=> Kept(p, v)
      <4>1. ASSUME pc[p] \in {"handle", "keys"}, StageDone(p), Head(stages[p]) # "store", interleaved' = interleaved
            PROVE  \A v : Kept(p, v)' <=> Kept(p, v)
        BY <4>1, KeptOn
      <4>2. CASE WaitReadable(p) \/ Gone(p)
        <5>1. {pc[p], pc'[p]} \cap Handling = {} /\ interleaved' = interleaved
          BY <4>2, Jump DEF WaitReadable, Gone, Back, Handling, repVars
        <5> QED
          BY <5>1 DEF Kept
      <4>3. CASE Status(p) \/ MemoryReply(p) \/ Ack(p) \/ AccelOut(p) \/ IROut(p)
        <5>1. /\ pc[p] = "handle" /\ StageDone(p) /\ Head(stages[p]) # "store"
              /\ interleaved' = interleaved
          BY <4>3 DEF Status, MemoryReply, Ack, AccelOut, IROut, AtStage, repVars
        <5> QED
          BY <4>1, <5>1
      <4>4. CASE Buttons(p)
        <5>1. pc[p] = "handle" /\ Head(stages[p]) # "store" /\ interleaved' = interleaved
          BY <4>4 DEF Buttons, AtStage, repVars
        <5>2. CASE StageDone(p)
          BY <4>1, <5>1, <5>2
        <5>3. CASE ~StageDone(p)
          <6>1. pc'[p] = "press" /\ rep' = rep
            BY <4>4, <5>3, Jump DEF Buttons
          <6> QED
            BY <5>1, <6>1 DEF Kept, Handling
        <5> QED
          BY <5>2, <5>3
      <4>5. CASE Press(p)
        <5>1. pc[p] = "press" /\ pc'[p] = "keys" /\ rep' = rep /\ interleaved' = interleaved
          BY <4>5, Jump DEF Press, readVars
        <5> QED
          BY <5>1 DEF Kept, Handling
      <4>6. CASE KeyOut(p)
        <5>1. pc[p] = "keys" /\ interleaved' = interleaved
          BY <4>6 DEF KeyOut, repVars
        <5>2. Head(stages[p]) # "store"
          BY <5>1 DEF TypeInv, Shape
        <5>3. StageDone(p) \/ UNCHANGED <<pc, rep>>
          BY <4>6 DEF KeyOut
        <5>4. CASE UNCHANGED <<pc, rep>>
          BY <5>1, <5>4 DEF Kept
        <5> QED
          BY <4>1, <5>1, <5>2, <5>3, <5>4
      <4>7. CASE Store(p)
        <5>1. pc[p] = "handle" /\ Head(stages[p]) = "store" /\ StageDone(p) /\ interleaved' = rep[p].val
          BY <4>7 DEF Store, AtStage
        <5>2. rep[p].id = "0x3e"
          BY <5>1, CameraStages DEF Handling
        <5>3. pc'[p] \notin Handling
          BY <5>1, StageMoves DEF After, Handling
        <5> QED
          BY <5>1, <5>2, <5>3 DEF Kept, Handling
      <4>8. CASE Pair(p)
        <5>1. pc[p] = "handle" /\ pc' = pc /\ interleaved' = interleaved
          BY <4>8 DEF Pair, AtStage, repVars
        <5>2. rep'[p].id = rep[p].id /\ rep'[p].val = rep[p].val
          BY <1>4, <2>2, <5>1, HeldStep DEF Handling
        <5> QED
          BY <5>1, <5>2 DEF Kept
      <4> QED
        BY <1>4, <2>2, <4>2, <4>3, <4>4, <4>5, <4>6, <4>7, <4>8 DEF ReadEvent
    <3>4. Sound(p)'
      <4>1. CASE pc'[p] \notin Handling
        BY <1>0, <3>1, <4>1, SoundFrame
      <4>2. CASE pc'[p] \in Handling /\ Pair(p)
        <5>1. pc[p] = "handle" /\ Head(stages[p]) = "pair" /\ interleaved' = interleaved
          BY <4>2 DEF Pair, AtStage, repVars
        <5>2. rep[p].id = "0x3f" /\ interleaved = rep[p].val
          BY <1>0, <5>1, CameraStages DEF Sound, Handling
        <5>3. /\ rep' = [rep EXCEPT ![p].good = (interleaved = rep[p].val)]
              /\ rep \in [Proc -> Reports] /\ rep[p] \in Reports
          BY <4>2 DEF Pair, TypeInv, TypeOK, GoroutineTypeOK
        <5>4. rep'[p].good /\ rep'[p].id = rep[p].id /\ rep'[p].val = rep[p].val
          BY <5>2, <5>3 DEF Reports
        <5> QED
          BY <1>0, <3>1, <5>1, <5>2, <5>4 DEF Sound
      <4>3. CASE pc'[p] \in Handling /\ ~Pair(p)
        <5>1. pc[p] \in Handling /\ rep' = rep
          BY <1>4, <2>2, <4>3, HeldStep
        <5>2. ~Store(p)
          <6>1. ASSUME Store(p) PROVE FALSE
            BY <4>3, <6>1, StageMoves DEF Store, AtStage, After, Handling
          <6> QED
            BY <6>1
        <5>3. interleaved' = interleaved
          BY <1>4, <5>2, ReadMoves
        <5> QED
          BY <1>0, <3>1, <5>1, <5>3, SoundFrame
      <4> QED
        BY <4>1, <4>2, <4>3
    <3> QED
      BY <1>0, <2>0, <3>1, <3>2, <3>3, <3>4, PairedFrame DEF FrameInv
  <2> QED
    BY <2>1, <2>2
<1> QED
  BY <1>1, <1>2, <1>3, <1>4 DEF Next, Step

CameraInv == \A p \in Proc : StagesInv(p) /\ (Proc = {p} => FrameInv(p))

\* A new device has no camera reports.
LEMMA CameraInit == Init => CameraInv
<1> SUFFICES ASSUME Init, NEW p \in Proc PROVE StagesInv(p) /\ FrameInv(p)
  BY DEF CameraInv
<1>1. pc[p] = "idle" /\ Len(rx) = 0 /\ Len(moreEvents) = 0 /\ devMode = "0x30"
  BY DEF Init
<1> QED
  BY <1>1 DEF StagesInv, FrameInv, FramesWhole, Paired, SecondHalf, Sound, Handling

(* Every full camera event joins the two halves of one frame: readEvent keeps  *)
(* the first half until the second one comes, with one goroutine that reads and *)
(* no report lost.                                                              *)
THEOREM FramesJoined == ASSUME Alone, "drop" \notin Faults PROVE Spec => []FramesWhole
<1>1. TypeInv /\ CameraInv /\ [Next]_vars => CameraInv'
  <2> SUFFICES ASSUME TypeInv, CameraInv, [Next]_vars PROVE CameraInv'
    OBVIOUS
  <2> QED
    BY StagesStep, FrameStep DEF CameraInv
<1>2. CameraInv => FramesWhole
  BY DEF Alone, CameraInv, FrameInv
<1> QED
  BY <1>1, <1>2, CameraInit, TypeInvariant, PTL DEF Spec
-----------------------------------------------------------------------------
(* The motor *)

\* readEvent comes from a label of its own, and goes to one or back.
LEMMA ReadLabels ==
  ASSUME TypeInv, NEW p \in Proc, ReadEvent(p)
  PROVE  /\ pc[p] \in {"poll", "read", "gone", "handle", "press", "keys"}
         /\ pc'[p] \in {"read", "gone", "handle", "press", "keys", "second", "reply", "check"}
<1>1. Back(p) \in {"second", "reply", "check"}
  BY DEF Back
<1>2. ASSUME StageDone(p) PROVE pc'[p] \in {"handle", Back(p)}
  BY <1>2, Jump DEF StageDone
<1>3. CASE WaitReadable(p) \/ Gone(p)
  BY <1>1, <1>3, Jump DEF WaitReadable, Gone
<1>4. CASE Read(p)
  BY <1>1, <1>4, Received DEF Read
<1>5. CASE Status(p) \/ MemoryReply(p) \/ Ack(p) \/ AccelOut(p) \/ Store(p) \/ IROut(p)
  BY <1>1, <1>2, <1>5 DEF Status, MemoryReply, Ack, AccelOut, Store, IROut, AtStage
<1>6. CASE Buttons(p) \/ Press(p)
  BY <1>1, <1>2, <1>6, Jump DEF Buttons, Press, AtStage
<1>7. CASE KeyOut(p)
  BY <1>1, <1>2, <1>7 DEF KeyOut
<1>8. CASE Pair(p)
  BY <1>8 DEF Pair, AtStage
<1> QED
  BY <1>3, <1>4, <1>5, <1>6, <1>7, <1>8 DEF ReadEvent

\* The report that is composed carries the rumble bit, and is the same otherwise.
LEMMA Composed ==
  ASSUME TypeInv, NEW p \in Proc, Compose(p)
  PROVE  /\ pc[p] = "compose" /\ pc'[p] \in {"forget", "send"}
         /\ Len(todo[p]) \in Nat /\ Len(todo[p]) >= 1 /\ Len(todo'[p]) = Len(todo[p])
         /\ todo'[p][1].rumble = rumble
         /\ \A i \in 1 .. Len(todo[p]) :
              todo'[p][i].rid = todo[p][i].rid /\ todo'[p][i].mode = todo[p][i].mode
<1>1. /\ todo[p] \in Seq(Requests) /\ todo[p] # <<>> /\ pc[p] = "compose"
      /\ todo' = [todo EXCEPT ![p][1].rumble = rumble]
      /\ todo \in [Proc -> Seq(Requests)]
  BY DEF Compose, TypeInv, TypeOK, GoroutineTypeOK, Shape
<1>2. Len(todo[p]) \in Nat /\ Len(todo[p]) >= 1
  BY <1>1
<1>3. todo'[p] = [todo[p] EXCEPT ![1].rumble = rumble]
  BY <1>1
<1>4. \A i \in 1 .. Len(todo[p]) : todo[p][i] \in Requests
  BY <1>1
<1>5. Len(todo'[p]) = Len(todo[p])
  BY <1>1, <1>3
<1>6. \A i \in 1 .. Len(todo[p]) :
        todo'[p][i] = IF i = 1 THEN [todo[p][1] EXCEPT !.rumble = rumble] ELSE todo[p][i]
  BY <1>1, <1>2, <1>3
<1>7. /\ todo'[p][1].rumble = rumble
      /\ \A i \in 1 .. Len(todo[p]) :
           todo'[p][i].rid = todo[p][i].rid /\ todo'[p][i].mode = todo[p][i].mode
  BY <1>2, <1>4, <1>6 DEF Requests
<1>8. pc'[p] \in {"forget", "send"}
  BY Jump DEF Compose
<1> QED
  BY <1>1, <1>2, <1>5, <1>7, <1>8

\* A request without failures gets sent.
LEMMA LinkKept ==
  ASSUME TypeInv, NoFailures, link = "up", [Next]_vars
  PROVE  link' = "up" /\ \A p \in Proc : ~SendFails(p)
<1>1. link' = "up"
  <2>1. CASE UNCHANGED vars
    BY <2>1 DEF vars, devVars
  <2>2. CASE Device
    BY <2>2, DeviceMoves DEF NoFailures
  <2>3. ASSUME NEW p \in Proc, Call(p) \/ Step(p) PROVE link' = "up"
    BY <2>3, CallMoves, OutputMoves, PollMoves, ReadMoves DEF Step, devVars
  <2> QED
    BY <2>1, <2>2, <2>3 DEF Next
<1>2. \A p \in Proc : ~SendFails(p)
  BY DEF SendFails, NoFailures
<1> QED
  BY <1>1, <1>2

\* The motor follows, step by step.
LEMMA MotorStep ==
  ASSUME TypeInv, NoFailures, NEW p \in Proc, Proc = {p}, MotorInv(p), [Next]_vars
  PROVE  MotorInv(p)'
<1>0. link' = "up" /\ ~SendFails(p)
  BY LinkKept DEF MotorInv
<1>1. CASE UNCHANGED vars
  BY <1>0, <1>1 DEF MotorInv, vars, devVars, cfgVars, callVars
<1>2. CASE Device
  BY <1>0, <1>2, DeviceMoves DEF MotorInv, cfgVars, callVars
<1>3. CASE Call(p)
  <2>1. motor = rumble /\ motor' = motor /\ pc'[p] \notin {"forget", "send"}
    BY <1>3, CallMoves DEF MotorInv, devVars
  <2>2. rumble' = rumble \/ (op'[p] = "Rumble" /\ pc'[p] = "compose")
    <3>1. ASSUME NEW state, Rumble(p, state) PROVE op'[p] = "Rumble" /\ pc'[p] = "compose"
      BY <3>1, Jump DEF Rumble, Begin, TypeInv, TypeOK, GoroutineTypeOK
    <3> QED
      BY <1>3, <3>1 DEF Call, StartPoll, SetLED, OpenFeatures, CloseFeature, ChangeFeatures,
                        SetIRFull, ReadAt, WriteAt, cfgVars
  <2> QED
    BY <1>0, <2>1, <2>2 DEF MotorInv
<1>4. CASE Output(p)
  <2>0. rumble' = rumble /\ op'[p] \in {op[p], "none"}
    BY <1>4, OutputMoves DEF cfgVars
  <2>1. CASE UpdateReportMode(p)
    <3>1. pc[p] = "mode" /\ motor' = motor
      BY <2>1 DEF UpdateReportMode, devVars
    <3>2. pc'[p] \notin {"forget", "send"}
      BY <2>1, Jump, ReturnStep DEF UpdateReportMode, TypeInv, TypeOK
    <3>3. op[p] # "Rumble"
      BY <3>1 DEF TypeInv, Shape
    <3> QED
      BY <1>0, <2>0, <3>1, <3>2, <3>3 DEF MotorInv
  <2>2. CASE Compose(p)
    <3>1. motor' = motor /\ op' = op
      BY <2>2 DEF Compose, devVars
    <3> QED
      BY <1>0, <2>0, <2>2, <3>1, Composed DEF MotorInv
  <2>3. CASE Forget(p)
    <3>1. pc[p] = "forget" /\ pc'[p] = "send" /\ motor' = motor /\ op' = op /\ todo' = todo
      BY <2>3, Jump DEF Forget, devVars, callVars
    <3> QED
      BY <1>0, <2>0, <3>1 DEF MotorInv
  <2>4. CASE Send(p)
    <3>1. motor' = rumble
      BY <2>4 DEF Send, MotorInv
    <3>2. pc'[p] \notin {"forget", "send"}
      <4>1. todo[p] # <<>>
        BY <2>4 DEF Send, TypeInv, Shape
      <4> QED
        BY <2>4, <4>1, Jump, NextRequestStep DEF Send, TypeInv, TypeOK
    <3> QED
      BY <1>0, <2>0, <3>1, <3>2 DEF MotorInv
  <2>5. CASE Check(p) \/ Reply(p)
    <3>1. pc[p] \in {"check", "reply"} /\ motor' = motor
      BY <2>5 DEF Check, Reply, devVars
    <3>2. pc'[p] \notin {"forget", "send"}
      <4>1. todo[p] # <<>>
        BY <3>1 DEF TypeInv, Shape
      <4> QED
        BY <2>5, <4>1, Jump, NextRequestStep, ReturnStep DEF Check, Reply, TypeInv, TypeOK
    <3> QED
      BY <1>0, <2>0, <3>1, <3>2 DEF MotorInv
  <2> QED
    BY <1>0, <1>4, <2>1, <2>2, <2>3, <2>4, <2>5 DEF Output
<1>5. CASE PollStep(p) \/ ReadEvent(p)
  <2>1. motor' = motor /\ rumble' = rumble /\ pc'[p] \notin {"forget", "send"}
    BY <1>5, PollMoves, ReadMoves, ReadLabels DEF devVars, cfgVars
  <2>2. motor = rumble
    <3>1. pc[p] \notin {"compose", "forget", "send"}
      BY <1>5, ReadLabels DEF PollStep, Take, More, First, WouldBlock, Await, AwaitFails
    <3> QED
      BY <3>1 DEF MotorInv
  <2> QED
    BY <1>0, <2>1, <2>2 DEF MotorInv
<1> QED
  BY <1>1, <1>2, <1>3, <1>4, <1>5 DEF Next, Step

MotorsInv == \A p \in Proc : Proc = {p} => MotorInv(p)

(* Whatever is called after Rumble, the motor stays as Rumble last set it: each *)
(* report that output composes carries the bit, with one goroutine and no       *)
(* failing write.                                                               *)
THEOREM MotorKept == ASSUME Alone, NoFailures PROVE Spec => []MotorFollows
<1>1. Init => MotorsInv
  BY DEF Init, MotorsInv, MotorInv
<1>2. TypeInv /\ MotorsInv /\ [Next]_vars => MotorsInv'
  BY MotorStep DEF MotorsInv
<1>3. MotorsInv => MotorFollows
  BY DEF Alone, MotorsInv, MotorInv, MotorFollows
<1> QED
  BY <1>1, <1>2, <1>3, TypeInvariant, PTL DEF Spec

-----------------------------------------------------------------------------
(* The report mode *)

\* Only one goroutine changes the features, and only its requests set the mode.
LEMMA FeatureCaller ==
  ASSUME TypeInv, OneCaller, NEW p \in Proc, op[p] \in Feature, NEW q \in Proc, q # p
  PROVE  /\ Work[q] \cap Feature = {}
         /\ Send(q) => todo[q][1].rid # "0x20"
<1>1. "0x20" \in RidsOf(p)
  <2>1. op[p] \in Work[p]
    BY DEF TypeInv, Shape, Feature
  <2>2. "0x20" \in OpRids(op[p])
    BY DEF OpRids, Feature
  <2> QED
    BY <2>1, <2>2 DEF RidsOf
<1>2. "0x20" \notin RidsOf(q)
  BY <1>1 DEF OneCaller
<1>3. Work[q] \cap Feature = {}
  <2>1. \A call \in Feature : "0x20" \in OpRids(call)
    BY DEF OpRids, Feature
  <2> QED
    BY <1>2, <2>1 DEF RidsOf
<1>4. ASSUME Send(q) PROVE todo[q][1].rid # "0x20"
  <2>1. todo[q] # <<>> /\ todo[q] \in Seq(Requests) /\ op[q] # "none"
    BY <1>4 DEF Send, TypeInv, TypeOK, GoroutineTypeOK, Shape
  <2>2. todo[q][1].rid \in OpRids(op[q]) /\ op[q] \in Work[q]
    BY <2>1 DEF TypeInv, Shape
  <2> QED
    BY <1>2, <2>2 DEF RidsOf
<1> QED
  BY <1>3, <1>4

\* A step of another goroutine leaves what p knows.
LEMMA ModeFrame ==
  ASSUME NEW p \in Proc, ModeOf(p), op'[p] = op[p], pc'[p] = pc[p], todo'[p] = todo[p],
         op[p] \in Feature => openIfs' = openIfs /\ devMode' = devMode
  PROVE  ModeOf(p)'
  BY DEF ModeOf, InMode

\* What a step of p itself does to the mode.
LEMMA ModeOwn ==
  ASSUME TypeInv, NEW p \in Proc, ModeOf(p), Call(p) \/ Step(p), ~SendFails(p)
  PROVE  ModeOf(p)'
<1>1. CASE Call(p)
  <2>1. ASSUME NEW c \in Polls, StartPoll(p, c) PROVE op'[p] \notin Feature
    BY <2>1 DEF StartPoll, Polls, Feature, TypeInv, TypeOK, GoroutineTypeOK
  <2>2. ASSUME NEW c \in {"SetLED", "Rumble", "ReadAt", "WriteAt"}, NEW rs, Begin(p, c, rs)
        PROVE  op'[p] \notin Feature
    BY <2>2 DEF Begin, Feature, TypeInv, TypeOK, GoroutineTypeOK
  <2>3. ASSUME NEW c, NEW ifs, ChangeFeatures(p, c, ifs) PROVE pc'[p] = "mode"
    BY <2>3, Jump DEF ChangeFeatures
  <2>4. ASSUME SetIRFull(p) PROVE op'[p] \notin Feature
    BY <2>4 DEF SetIRFull, callVars, Feature, TypeInv, Shape
  <2>5. op'[p] \notin Feature \/ pc'[p] = "mode"
    BY <1>1, <2>1, <2>2, <2>3, <2>4
    DEF Call, Polls, SetLED, Rumble, OpenFeatures, CloseFeature, ReadAt, WriteAt
  <2> QED
    BY <2>5 DEF ModeOf
<1>2. CASE Output(p) /\ op'[p] \in Feature
  <2>0. op[p] \in Feature /\ op'[p] = op[p] /\ openIfs' = openIfs
    BY <1>2, OutputMoves DEF cfgVars, Feature
  <2>1. CASE UpdateReportMode(p)
    <3>1. ~Return(p)
      BY <1>2, ReturnStep DEF Feature, TypeInv, TypeOK
    <3>2. /\ openIfs # {} /\ todo' = [todo EXCEPT ![p] = ModeRequests(openIfs, irfull)]
          /\ pc'[p] = "compose"
      BY <2>1, <3>1, Jump DEF UpdateReportMode
    <3>3. todo'[p] = ModeRequests(openIfs, irfull) /\ irfull \in BOOLEAN
      BY <3>2 DEF TypeInv, TypeOK, GoroutineTypeOK, ObjectTypeOK
    <3>4. /\ todo'[p][1].rid = "0x20" /\ todo'[p][1].mode = Mode(openIfs, irfull)
          /\ \A i \in 2 .. Len(todo'[p]) : todo'[p][i].rid # "0x20"
      BY <3>3 DEF ModeRequests, Request
    <3>5. InMode(todo'[p][1].mode)
      BY <3>3, <3>4 DEF InMode
    <3> QED
      BY <2>0, <3>2, <3>4, <3>5 DEF ModeOf, InMode
  <2>2. CASE Compose(p)
    <3>1. devMode' = devMode
      BY <2>2 DEF Compose, devVars
    <3> QED
      BY <2>0, <2>2, <3>1, Composed DEF ModeOf, InMode
  <2>3. CASE Forget(p)
    <3>1. pc[p] = "forget" /\ pc'[p] = "send" /\ todo' = todo /\ devMode' = devMode
      BY <2>3, Jump DEF Forget, devVars, callVars
    <3> QED
      BY <2>0, <3>1 DEF ModeOf, InMode
  <2>4. CASE Send(p)
    <3>1. pc[p] = "send" /\ devMode' = IF todo[p][1].rid = "0x20" THEN todo[p][1].mode ELSE devMode
      BY <2>4 DEF Send
    <3>2. InMode(devMode')
      BY <2>0, <3>1 DEF ModeOf
    <3>3. pc'[p] = "check" /\ todo' = todo
      <4>1. todo[p] # <<>> /\ todo[p] \in Seq(Requests)
        BY <2>4 DEF Send, TypeInv, TypeOK, GoroutineTypeOK, Shape
      <4>2. todo[p][1].rid \in OpRids(op[p])
        BY <4>1 DEF TypeInv, Shape
      <4>3. todo[p][1].rid \notin {"0x16", "0x17"}
        BY <2>0, <4>2 DEF OpRids, Feature
      <4> QED
        BY <2>4, <4>3, Jump DEF Send, callVars
    <3> QED
      BY <2>0, <3>1, <3>2, <3>3 DEF ModeOf, InMode
  <2>5. CASE Check(p) \/ Reply(p)
    <3>1. pc[p] \in {"check", "reply"} /\ devMode' = devMode /\ todo[p] # <<>>
      BY <2>5 DEF Check, Reply, devVars, TypeInv, Shape
    <3>2. InMode(devMode')
      BY <2>0, <3>1 DEF ModeOf
    <3>3. CASE pc'[p] = "poll" /\ todo' = todo
      BY <2>0, <3>1, <3>2, <3>3 DEF ModeOf, InMode
    <3>4. CASE NextRequest(p) \/ Return(p)
      <4>1. /\ pc'[p] = "compose" /\ todo'[p] # <<>>
            /\ \A i \in 1 .. Len(todo'[p]) : i + 1 \in 1 .. Len(todo[p]) /\ todo'[p][i] = todo[p][i + 1]
        BY <1>2, <3>1, <3>4, NextRequestStep, ReturnStep DEF Feature, TypeInv, TypeOK
      <4>2. todo'[p] \in Seq(Requests)
        BY NextType DEF TypeInv, TypeOK, GoroutineTypeOK, Next, Step
      <4>3. Len(todo'[p]) \in Nat /\ Len(todo'[p]) >= 1
        BY <4>1, <4>2
      <4>4. \A i \in 1 .. Len(todo'[p]) : todo'[p][i].rid # "0x20"
        <5>1. todo[p] \in Seq(Requests) /\ \A i \in 2 .. Len(todo[p]) : todo[p][i].rid # "0x20"
          BY <2>0, <3>1 DEF ModeOf, TypeInv, TypeOK, GoroutineTypeOK
        <5>2. \A i \in 1 .. Len(todo'[p]) : i + 1 \in 2 .. Len(todo[p])
          BY <4>1, <4>3, <5>1
        <5> QED
          BY <4>1, <5>1, <5>2
      <4> QED
        BY <2>0, <3>1, <3>2, <4>1, <4>3, <4>4 DEF ModeOf, InMode
    <3> QED
      BY <2>5, <3>3, <3>4, Jump DEF Check, Reply, callVars
  <2> QED
    BY <1>2, <2>1, <2>2, <2>3, <2>4, <2>5 DEF Output
<1>3. CASE PollStep(p)
  BY <1>3, PollMoves DEF ModeOf, Polls, Feature
<1>4. CASE ReadEvent(p)
  BY <1>4, ReadMoves, ReadLabels DEF ModeOf, InMode, cfgVars
<1>5. CASE op'[p] \notin Feature
  BY <1>5 DEF ModeOf
<1> QED
  BY <1>1, <1>2, <1>3, <1>4, <1>5 DEF Step

ModesInv == link = "up" /\ \A p \in Proc : ModeOf(p)

\* No step leaves the device in another mode than the one last put in.
LEMMA ModeStep ==
  ASSUME TypeInv, NoFailures, OneCaller, ModesInv, [Next]_vars
  PROVE  ModesInv'
<1>0. link' = "up" /\ \A p \in Proc : ~SendFails(p)
  BY LinkKept DEF ModesInv
<1> SUFFICES ASSUME NEW p \in Proc PROVE ModeOf(p)'
  BY <1>0 DEF ModesInv
<1>1. ModeOf(p)
  BY DEF ModesInv
<1>2. CASE UNCHANGED vars
  BY <1>1, <1>2, ModeFrame DEF vars, devVars, cfgVars, callVars
<1>3. CASE Device
  BY <1>1, <1>3, ModeFrame, DeviceMoves DEF cfgVars, callVars
<1>4. CASE Call(p) \/ Step(p)
  BY <1>0, <1>1, <1>4, ModeOwn
<1>5. ASSUME NEW q \in Proc, q # p, Call(q) \/ Step(q)
      PROVE  ModeOf(p)'
  <2>1. Others(q)
    BY <1>5, CallMoves, OutputMoves, PollMoves, ReadMoves DEF Step
  <2>2. ASSUME op[p] \in Feature PROVE openIfs' = openIfs /\ devMode' = devMode
    <3>1. Work[q] \cap Feature = {} /\ (Send(q) => todo[q][1].rid # "0x20")
      BY <1>5, <2>2, FeatureCaller
    <3>2. CASE Call(q)
      <4>1. devMode' = devMode
        BY <3>2, CallMoves DEF devVars
      <4>2. openIfs' = openIfs
        BY <3>1, <3>2 DEF Call, StartPoll, SetLED, Rumble, OpenFeatures, CloseFeature,
                          ChangeFeatures, SetIRFull, ReadAt, WriteAt, cfgVars, Feature
      <4> QED
        BY <4>1, <4>2
    <3>3. CASE Output(q)
      <4>1. openIfs' = openIfs
        BY <3>3, OutputMoves DEF cfgVars
      <4>2. devMode' = devMode
        BY <3>1, <3>3 DEF Output, UpdateReportMode, Compose, Forget, Send, SendFails, Check, Reply, devVars
      <4> QED
        BY <4>1, <4>2
    <3>4. CASE PollStep(q) \/ ReadEvent(q)
      BY <3>4, PollMoves, ReadMoves DEF devVars, cfgVars
    <3> QED
      BY <1>5, <3>2, <3>3, <3>4 DEF Step
  <2> QED
    BY <1>1, <1>5, <2>1, <2>2, ModeFrame DEF Others
<1> QED
  BY <1>2, <1>3, <1>4, <1>5 DEF Next

\* OpenFeatures and Close return with the mode in effect.
LEMMA ModeReturn ==
  ASSUME TypeInv, NoFailures, ModesInv, [Next]_vars,
         NEW p \in Proc, op[p] \in Feature, pc'[p] = "idle"
  PROVE  openIfs = {} \/ InMode(devMode)
<1>0. pc[p] # "idle" /\ ~SendFails(p) /\ ModeOf(p)
  BY LinkKept DEF TypeInv, Shape, Feature, ModesInv
<1>1. ~UNCHANGED vars /\ ~Device
  BY <1>0, DeviceMoves DEF vars
<1>2. ASSUME NEW q \in Proc, q # p PROVE ~Call(q) /\ ~Step(q)
  BY <1>0, <1>2, CallMoves, OutputMoves, PollMoves, ReadMoves DEF Step, Others
<1>3. ~Call(p) /\ ~PollStep(p) /\ ~ReadEvent(p)
  BY <1>0, CallMoves, PollMoves, ReadLabels DEF Polls, Feature
<1>4. Output(p)
  BY <1>1, <1>2, <1>3 DEF Next, Step
<1>5. ~Compose(p) /\ ~Forget(p)
  BY Composed, Jump DEF Forget
<1>6. CASE UpdateReportMode(p)
  BY <1>6, Jump DEF UpdateReportMode
<1>7. CASE Check(p) \/ Reply(p)
  <2>1. pc[p] \in {"check", "reply"}
    BY <1>7 DEF Check, Reply
  <2> QED
    BY <1>0, <2>1 DEF ModeOf
<1>8. CASE Send(p)
  <2>1. todo[p] # <<>> /\ todo[p] \in Seq(Requests)
    BY <1>8 DEF Send, TypeInv, TypeOK, GoroutineTypeOK, Shape
  <2>2. todo[p][1].rid \in OpRids(op[p])
    BY <2>1 DEF TypeInv, Shape
  <2>3. todo[p][1].rid # "0x16"
    BY <2>2 DEF OpRids, Feature
  <2> QED
    BY <1>8, <2>3, Jump DEF Send
<1> QED
  BY <1>0, <1>4, <1>5, <1>6, <1>7, <1>8 DEF Output

(* OpenFeatures and Close return only once the Wiimote reports in the mode of   *)
(* the open features, or no feature is open: for any number of goroutines, of   *)
(* which one changes the features, when no write fails.                         *)
THEOREM ModeKept == ASSUME NoFailures, OneCaller PROVE Spec => ModeInEffect
<1>1. Init => ModesInv
  BY DEF Init, ModesInv, ModeOf, Feature
<1>2. TypeInv /\ ModesInv /\ [Next]_vars => ModesInv'
  BY ModeStep
<1>3. TypeInv /\ ModesInv /\ [Next]_vars =>
        [\A p \in Proc :
           op[p] \in {"OpenFeatures", "Close"} /\ pc'[p] = "idle"
             => \/ openIfs = {}
                \/ \E full \in BOOLEAN : devMode = Mode(openIfs, full)]_vars
  BY ModeReturn DEF Feature, InMode
<1> QED
  BY <1>1, <1>2, <1>3, TypeInvariant, PTL DEF Spec, ModeInEffect

================================================================================
