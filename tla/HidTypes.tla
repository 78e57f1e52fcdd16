------------------------------- MODULE HidTypes -------------------------------
(* Proofs about the raw-HID driver, for any number of goroutines, any        *)
(* capacities and any work.                                                  *)
EXTENDS HidCorrect, TLAPS

(* Sequences *)

\* What Append does to a sequence.
LEMMA AppendSeq ==
  ASSUME NEW S, NEW s \in Seq(S), NEW x \in S
  PROVE  /\ Append(s, x) \in Seq(S)
         /\ Len(Append(s, x)) = Len(s) + 1
         /\ \A i \in 1 .. Len(s) : Append(s, x)[i] = s[i]
         /\ Append(s, x)[Len(s) + 1] = x
  OBVIOUS

\* What Head and Tail are of a sequence that is not empty.
LEMMA TailSeq ==
  ASSUME NEW S, NEW s \in Seq(S), s # <<>>
  PROVE  /\ Len(s) \in Nat /\ Len(s) >= 1
         /\ Head(s) \in S /\ Head(s) = s[1]
         /\ Tail(s) \in Seq(S)
         /\ Len(Tail(s)) = Len(s) - 1
         /\ \A i \in 1 .. Len(Tail(s)) : Tail(s)[i] = s[i + 1]
         /\ Len(s) > 1 <=> Tail(s) # <<>>
<1>1. Len(s) \in Nat /\ Len(s) >= 1
  OBVIOUS
<1>2. Head(s) \in S /\ Head(s) = s[1]
  BY <1>1
<1>3. Tail(s) \in Seq(S) /\ Len(Tail(s)) = Len(s) - 1
  BY <1>1
<1>4. \A i \in 1 .. Len(Tail(s)) : Tail(s)[i] = s[i + 1]
  BY <1>1, <1>3
<1>5. Len(s) > 1 <=> Tail(s) # <<>>
  BY <1>1, <1>3
<1> QED
  BY <1>1, <1>2, <1>3, <1>4, <1>5

\* The table of updateReportMode always yields one of its report ids.
LEMMA ModeType ==
  ASSUME NEW ifs, NEW full
  PROVE  Mode(ifs, full) \in Modes
  BY DEF Mode, Modes, CoreSet

\* The stages of a report, and where the ones that file answers can be.
LEMMA StagesType ==
  ASSUME NEW id
  PROVE  /\ Stages(id) \in Seq(StageNames)
         /\ \A i \in 2 .. Len(Stages(id)) : Stages(id)[i] \notin {"status", "memory", "ack"}
         /\ \A i \in 1 .. Len(Stages(id)) : Stages(id)[i] = "pair" => i < Len(Stages(id))
         /\ Stages(id) # <<>> /\ Head(Stages(id)) = "ack" => id = "0x22"
         /\ Stages(id) # <<>> /\ Head(Stages(id)) = "memory" => id = "0x21"
<1> DEFINE s == Stages(id)
<1>1. \/ s = <<>>
      \/ s = <<"status", "buttons">> /\ id = "0x20"
      \/ s = <<"memory", "buttons">> /\ id = "0x21"
      \/ s = <<"ack", "buttons">> /\ id = "0x22"
      \/ s = <<"buttons">>
      \/ s = <<"buttons", "accel">>
      \/ s = <<"buttons", "accel", "ir">>
      \/ s = <<"ir">>
      \/ s = <<"buttons", "store">>
      \/ s = <<"buttons", "accel", "pair", "ir">>
  BY DEF Stages
<1> HIDE DEF s
<1>2. s \in Seq(StageNames)
  <2>1. CASE s = <<>>
    BY <2>1 DEF StageNames
  <2>2. CASE s = <<"status", "buttons">>
    BY <2>2 DEF StageNames
  <2>3. CASE s = <<"memory", "buttons">>
    BY <2>3 DEF StageNames
  <2>4. CASE s = <<"ack", "buttons">>
    BY <2>4 DEF StageNames
  <2>5. CASE s = <<"buttons">>
    BY <2>5 DEF StageNames
  <2>6. CASE s = <<"buttons", "accel">>
    BY <2>6 DEF StageNames
  <2>7. CASE s = <<"buttons", "accel", "ir">>
    BY <2>7 DEF StageNames
  <2>8. CASE s = <<"ir">>
    BY <2>8 DEF StageNames
  <2>9. CASE s = <<"buttons", "store">>
    BY <2>9 DEF StageNames
  <2>10. CASE s = <<"buttons", "accel", "pair", "ir">>
    BY <2>10 DEF StageNames
  <2> QED
    BY <1>1, <2>1, <2>2, <2>3, <2>4, <2>5, <2>6, <2>7, <2>8, <2>9, <2>10
<1>3. \A i \in 2 .. Len(s) : s[i] \notin {"status", "memory", "ack"}
  BY <1>1
<1>6. \A i \in 1 .. Len(s) : s[i] = "pair" => i < Len(s)
  BY <1>1
<1>4. s # <<>> /\ Head(s) = "ack" => id = "0x22"
  BY <1>1
<1>5. s # <<>> /\ Head(s) = "memory" => id = "0x21"
  BY <1>1
<1> QED
  BY <1>2, <1>3, <1>4, <1>5, <1>6 DEF s

\* updateReportMode sends requests with the ids of its three outputs.
LEMMA ModeRequestsType ==
  ASSUME NEW ifs, NEW full
  PROVE  /\ ModeRequests(ifs, full) \in Seq(Requests)
         /\ ModeRequests(ifs, full) # <<>>
         /\ \A i \in 1 .. Len(ModeRequests(ifs, full)) :
              ModeRequests(ifs, full)[i].rid \in {"0x20", "0x13", "0x1a"}
  BY ModeType DEF ModeRequests, Requests, Request, Rids, AckRids

\* readMemory sends at least one request, all of them reads.
LEMMA ReadRequestsType ==
  ASSUME NEW chunks \in Reads
  PROVE  /\ ReadRequests(chunks) \in Seq(Requests)
         /\ ReadRequests(chunks) # <<>>
         /\ \A i \in 1 .. Len(ReadRequests(chunks)) : ReadRequests(chunks)[i].rid = "0x17"
<1> chunks \in Seq(Nat) /\ chunks # <<>>
  BY ReadAssumption
<1> QED
  BY DEF ReadRequests, Requests, Request, Rids, AckRids

\* The calls that send a single request.
LEMMA OneRequest ==
  ASSUME NEW rid \in Rids \ {"0x20"}, NEW val \in Nat
  PROVE  /\ <<Request(rid, "none", val)>> \in Seq(Requests)
         /\ <<Request(rid, "none", val)>> # <<>>
         /\ \A i \in 1 .. Len(<<Request(rid, "none", val)>>) :
              <<Request(rid, "none", val)>>[i].rid = rid
<1>1. Request(rid, "none", val) \in Requests
  BY DEF Request, Requests
<1>2. Request(rid, "none", val).rid = rid
  BY DEF Request
<1> HIDE DEF Request
<1> QED
  BY <1>1, <1>2

-----------------------------------------------------------------------------
(* The shared pieces of the actions *)

\* A goroutine that does not move keeps its shape.
LEMMA ShapeFrame ==
  ASSUME NEW q \in Proc, Shape(q),
         pc'[q] = pc[q], op'[q] = op[q], todo'[q] = todo[q],
         rep'[q] = rep[q], stages'[q] = stages[q]
  PROVE  Shape(q)'
  BY DEF Shape

\* A call that returns leaves a goroutine with no request.
LEMMA ReturnStep ==
  ASSUME GoroutineTypeOK, NEW p \in Proc, Return(p)
  PROVE  /\ pc' \in [Proc -> Labels]
         /\ op' \in [Proc -> Calls \cup {"none"}]
         /\ todo' \in [Proc -> Seq(Requests)]
         /\ pc'[p] = "idle" /\ op'[p] = "none" /\ todo'[p] = <<>>
         /\ \A q \in Proc : q # p => pc'[q] = pc[q] /\ op'[q] = op[q] /\ todo'[q] = todo[q]
<1>1. <<>> \in Seq(Requests)
  OBVIOUS
<1> QED
  BY <1>1 DEF Return, GoTo, GoroutineTypeOK, Labels

\* After a request: the next one of the same call, or the return.
LEMMA NextRequestStep ==
  ASSUME GoroutineTypeOK, NEW p \in Proc, todo[p] # <<>>, NextRequest(p)
  PROVE  /\ pc' \in [Proc -> Labels]
         /\ op' \in [Proc -> Calls \cup {"none"}]
         /\ todo' \in [Proc -> Seq(Requests)]
         /\ \/ pc'[p] = "idle" /\ op'[p] = "none" /\ todo'[p] = <<>>
            \/ /\ pc'[p] = "compose" /\ op'[p] = op[p] /\ todo'[p] # <<>>
               /\ \A i \in 1 .. Len(todo'[p]) : i + 1 \in 1 .. Len(todo[p]) /\ todo'[p][i] = todo[p][i + 1]
         /\ \A q \in Proc : q # p => pc'[q] = pc[q] /\ op'[q] = op[q] /\ todo'[q] = todo[q]
<1>1. todo[p] \in Seq(Requests)
  BY DEF GoroutineTypeOK
<1>2. CASE Len(todo[p]) > 1
  <2>1. /\ todo' = [todo EXCEPT ![p] = Tail(todo[p])]
        /\ pc' = [pc EXCEPT ![p] = "compose"] /\ op' = op
    BY <1>2 DEF NextRequest, GoTo
  <2>2. /\ Tail(todo[p]) \in Seq(Requests) /\ Tail(todo[p]) # <<>>
        /\ \A i \in 1 .. Len(Tail(todo[p])) :
             i + 1 \in 1 .. Len(todo[p]) /\ Tail(todo[p])[i] = todo[p][i + 1]
    BY <1>1, <1>2, TailSeq
  <2> QED
    BY <2>1, <2>2 DEF GoroutineTypeOK, Labels
<1>3. CASE ~(Len(todo[p]) > 1)
  BY <1>3, ReturnStep DEF NextRequest
<1> QED
  BY <1>2, <1>3

\* After a stage: the next one of the same report, or the way back.
LEMMA StageDoneStep ==
  ASSUME GoroutineTypeOK, NEW p \in Proc, stages[p] # <<>>, StageDone(p)
  PROVE  /\ pc' \in [Proc -> Labels]
         /\ rep' \in [Proc -> Reports]
         /\ stages' \in [Proc -> Seq(StageNames)]
         /\ stages'[p] = Tail(stages[p])
         /\ \/ pc'[p] = "handle" /\ stages'[p] # <<>>
            \/ pc'[p] = Back(p)
         /\ \A i \in 1 .. Len(stages'[p]) : i + 1 \in 2 .. Len(stages[p]) /\ stages'[p][i] = stages[p][i + 1]
         /\ \A q \in Proc : q # p => pc'[q] = pc[q] /\ rep'[q] = rep[q] /\ stages'[q] = stages[q]
<1>1. stages[p] \in Seq(StageNames)
  BY DEF GoroutineTypeOK
<1>2. /\ Tail(stages[p]) \in Seq(StageNames)
      /\ Len(stages[p]) > 1 => Tail(stages[p]) # <<>>
      /\ \A i \in 1 .. Len(Tail(stages[p])) :
           i + 1 \in 2 .. Len(stages[p]) /\ Tail(stages[p])[i] = stages[p][i + 1]
  BY <1>1, TailSeq
<1>3. Back(p) \in Labels /\ "handle" \in Labels
  BY DEF Back, Labels
<1>4. NoReport \in Reports
  BY DEF NoReport, Report, Reports, ReportIds
<1>5. /\ stages' = [stages EXCEPT ![p] = Tail(stages[p])]
      /\ \/ pc' = [pc EXCEPT ![p] = "handle"] /\ rep' = rep /\ Len(stages[p]) > 1
         \/ pc' = [pc EXCEPT ![p] = Back(p)] /\ rep' = [rep EXCEPT ![p] = NoReport]
  BY DEF StageDone, GoTo
<1>6. /\ pc \in [Proc -> Labels] /\ rep \in [Proc -> Reports]
      /\ stages \in [Proc -> Seq(StageNames)]
  BY DEF GoroutineTypeOK
<1>7. stages'[p] = Tail(stages[p]) /\ stages' \in [Proc -> Seq(StageNames)]
  BY <1>2, <1>5, <1>6
<1>8. /\ pc' \in [Proc -> Labels] /\ rep' \in [Proc -> Reports]
      /\ \/ pc'[p] = "handle" /\ Len(stages[p]) > 1
         \/ pc'[p] = Back(p)
      /\ \A q \in Proc : q # p => pc'[q] = pc[q] /\ rep'[q] = rep[q] /\ stages'[q] = stages[q]
  BY <1>3, <1>4, <1>5, <1>6
<1> QED
  BY <1>2, <1>7, <1>8

\* A send on moreEvents keeps the channel within its capacity.
LEMMA PushStep ==
  ASSUME moreEvents \in Seq(Events), Len(moreEvents) <= EventCap,
         NEW e \in Events, Push(e)
  PROVE  moreEvents' \in Seq(Events) /\ Len(moreEvents') <= EventCap
  BY AppendSeq, CapAssumption DEF Push

\* Return leaves every goroutine in shape.
LEMMA ReturnShape ==
  ASSUME TypeInv, NEW p \in Proc, Return(p), rep' = rep, stages' = stages
  PROVE  \A q \in Proc : Shape(q)'
<1> USE DEF TypeInv, TypeOK
<1>1. Shape(p)'
  BY ReturnStep DEF Shape, Reading
<1>2. \A q \in Proc : q # p => Shape(q)'
  BY ReturnStep, ShapeFrame
<1> QED
  BY <1>1, <1>2

\* NextRequest leaves every goroutine in shape.
LEMMA NextRequestShape ==
  ASSUME TypeInv, NEW p \in Proc, NextRequest(p), todo[p] # <<>>, pc[p] # "idle",
         rep' = rep, stages' = stages
  PROVE  \A q \in Proc : Shape(q)'
<1> USE DEF TypeInv, TypeOK
<1>1. Shape(p)'
  <2>1. CASE pc'[p] = "idle"
    BY <2>1, NextRequestStep DEF Shape, Reading
  <2>2. CASE pc'[p] = "compose"
    BY <2>2, NextRequestStep DEF Shape, Reading
  <2> QED
    BY <2>1, <2>2, NextRequestStep
<1>2. \A q \in Proc : q # p => Shape(q)'
  BY NextRequestStep, ShapeFrame
<1> QED
  BY <1>1, <1>2

\* StageDone leaves every goroutine in shape.
LEMMA StageDoneShape ==
  ASSUME TypeInv, NEW p \in Proc, StageDone(p), pc[p] \in {"handle", "keys"},
         op' = op, todo' = todo
  PROVE  \A q \in Proc : Shape(q)'
<1> USE DEF TypeInv, TypeOK
<1>1. stages[p] # <<>> /\ op[p] # "WriteAt" /\ op[p] # "none"
      /\ (op[p] \in Polls \/ todo[p] # <<>>)
  BY DEF Shape, Reading
<1>3. /\ stages[p] \in Seq(StageNames) /\ stages'[p] = Tail(stages[p])
      /\ Len(stages[p]) \in Nat /\ Len(stages'[p]) = Len(stages[p]) - 1
      /\ stages'[p] \in Seq(StageNames)
      /\ \A i \in 1 .. Len(stages'[p]) :
           stages'[p][i] = stages[p][i + 1] /\ i + 1 \in 2 .. Len(stages[p])
  <2>1. stages[p] \in Seq(StageNames) /\ stages'[p] = Tail(stages[p])
    BY <1>1, StageDoneStep DEF GoroutineTypeOK
  <2> HIDE DEF TypeInv, TypeOK
  <2> QED
    BY <1>1, <2>1, TailSeq
<1>4. \A i \in 1 .. Len(stages'[p]) : stages'[p][i] \notin {"status", "memory", "ack"}
  BY <1>3 DEF Shape
<1>5. \A i \in 1 .. Len(stages'[p]) : stages'[p][i] = "pair" => i < Len(stages'[p])
  <2>1. \A i \in 1 .. Len(stages[p]) : stages[p][i] = "pair" => i < Len(stages[p])
    BY DEF Shape
  <2> QED
    BY <1>3, <2>1
<1>2. Shape(p)'
  <2>1. CASE pc'[p] = "handle" /\ stages'[p] # <<>>
    <3>3. Head(stages'[p]) \notin {"status", "memory", "ack"}
      <4>1. Head(stages'[p]) = stages'[p][1] /\ 1 \in 1 .. Len(stages'[p])
        <5>1. stages'[p] \in Seq(StageNames) /\ stages'[p] # <<>>
          BY <1>3, <2>1
        <5> HIDE DEF TypeInv, TypeOK
        <5> QED
          BY <5>1
      <4> QED
        BY <1>4, <4>1
    <3> HIDE DEF TypeInv, TypeOK
    <3>5. Shape(p)
      BY DEF TypeInv
    <3> QED
      BY <1>1, <1>3, <1>4, <1>5, <2>1, <3>3, <3>5 DEF Shape, Reading
  <2>2. CASE pc'[p] = Back(p)
    <3>1. /\ \A i \in 2 .. Len(stages'[p]) : stages'[p][i] \notin {"status", "memory", "ack"}
          /\ \A i \in 1 .. Len(stages'[p]) : stages'[p][i] = "pair" => i < Len(stages'[p])
      BY <1>3, <1>4, <1>5
    <3> QED
      BY <1>1, <2>2, <3>1, StageDoneStep DEF Shape, Reading, Back, Polls
  <2> QED
    BY <1>1, <2>1, <2>2, StageDoneStep
<1>7. \A q \in Proc : q # p => Shape(q)'
  BY <1>1, StageDoneStep, ShapeFrame
<1> QED
  BY <1>2, <1>7

-----------------------------------------------------------------------------
(* One lemma for each action of a goroutine *)

\* StartPoll keeps every variable in its type and every goroutine in shape.
LEMMA StartPollType ==
  ASSUME TypeInv, NEW p \in Proc, NEW call \in Polls, StartPoll(p, call)
  PROVE  TypeInv'
<1> USE DEF TypeInv, TypeOK, vars, devVars, cfgVars, repVars, chanVars, callVars, readVars
<1>1. DeviceTypeOK'
  BY DEF StartPoll, GoTo, DeviceTypeOK
<1>2. ObjectTypeOK'
  BY DEF StartPoll, GoTo, ObjectTypeOK
<1>3. GoroutineTypeOK'
  BY DEF StartPoll, GoTo, GoroutineTypeOK, Labels, Calls, Polls
<1>4. Shape(p)'
  BY DEF StartPoll, GoTo, GoroutineTypeOK, Shape, Polls, OpRids, Reading
<1>5. \A q \in Proc : q # p => Shape(q)'
  BY ShapeFrame DEF StartPoll, GoTo, GoroutineTypeOK
<1> QED
  BY <1>1, <1>2, <1>3, <1>4, <1>5

\* SetLED keeps every variable in its type and every goroutine in shape.
LEMMA SetLEDType ==
  ASSUME TypeInv, NEW p \in Proc, NEW leds \in Lights, SetLED(p, leds)
  PROVE  TypeInv'
<1> USE DEF TypeInv, TypeOK, vars, devVars, cfgVars, repVars, chanVars, callVars, readVars
<1> DEFINE rs == <<Request("0x11", "none", leds)>>
<1>0. /\ rs \in Seq(Requests) /\ rs # <<>>
      /\ \A i \in 1 .. Len(rs) : rs[i].rid = "0x11"
  BY OneRequest, LightAssumption DEF Rids, AckRids
<1>1. /\ pc' = [pc EXCEPT ![p] = "compose"] /\ op' = [op EXCEPT ![p] = "SetLED"]
      /\ todo' = [todo EXCEPT ![p] = rs]
      /\ rep' = rep /\ stages' = stages /\ out' = out
      /\ "SetLED" \in Work[p]
  BY DEF SetLED, Begin, GoTo
<1>2. DeviceTypeOK'
  BY DEF SetLED, Begin, DeviceTypeOK
<1>3. ObjectTypeOK'
  BY DEF SetLED, Begin, ObjectTypeOK
<1> HIDE DEF rs
<1>4. GoroutineTypeOK'
  BY <1>0, <1>1 DEF GoroutineTypeOK, Labels, Calls
<1>5. Shape(p)'
  BY <1>0, <1>1 DEF GoroutineTypeOK, Shape, Polls, OpRids, Reading
<1>6. \A q \in Proc : q # p => Shape(q)'
  BY <1>1, ShapeFrame DEF GoroutineTypeOK
<1> QED
  BY <1>2, <1>3, <1>4, <1>5, <1>6

\* Rumble keeps every variable in its type and every goroutine in shape.
LEMMA RumbleType ==
  ASSUME TypeInv, NEW p \in Proc, NEW state \in BOOLEAN, Rumble(p, state)
  PROVE  TypeInv'
<1> USE DEF TypeInv, TypeOK, vars, devVars, cfgVars, repVars, chanVars, callVars, readVars
<1> DEFINE rs == <<Request("0x10", "none", 0)>>
<1>0. /\ rs \in Seq(Requests) /\ rs # <<>>
      /\ \A i \in 1 .. Len(rs) : rs[i].rid = "0x10"
  BY OneRequest, LightAssumption DEF Rids, AckRids
<1>1. /\ pc' = [pc EXCEPT ![p] = "compose"] /\ op' = [op EXCEPT ![p] = "Rumble"]
      /\ todo' = [todo EXCEPT ![p] = rs]
      /\ rep' = rep /\ stages' = stages /\ out' = out
      /\ "Rumble" \in Work[p]
  BY DEF Rumble, Begin, GoTo
<1>2. DeviceTypeOK'
  BY DEF Rumble, Begin, DeviceTypeOK
<1>3. ObjectTypeOK'
  BY DEF Rumble, Begin, ObjectTypeOK
<1> HIDE DEF rs
<1>4. GoroutineTypeOK'
  BY <1>0, <1>1 DEF GoroutineTypeOK, Labels, Calls
<1>5. Shape(p)'
  BY <1>0, <1>1 DEF GoroutineTypeOK, Shape, Polls, OpRids, Reading
<1>6. \A q \in Proc : q # p => Shape(q)'
  BY <1>1, ShapeFrame DEF GoroutineTypeOK
<1> QED
  BY <1>2, <1>3, <1>4, <1>5, <1>6

\* WriteAt keeps every variable in its type and every goroutine in shape.
LEMMA WriteAtType ==
  ASSUME TypeInv, NEW p \in Proc, WriteAt(p)
  PROVE  TypeInv'
<1> USE DEF TypeInv, TypeOK, vars, devVars, cfgVars, repVars, chanVars, callVars, readVars
<1> DEFINE rs == <<Request("0x16", "none", 0)>>
<1>0. /\ rs \in Seq(Requests) /\ rs # <<>>
      /\ \A i \in 1 .. Len(rs) : rs[i].rid = "0x16"
  BY OneRequest, LightAssumption DEF Rids, AckRids
<1>1. /\ pc' = [pc EXCEPT ![p] = "compose"] /\ op' = [op EXCEPT ![p] = "WriteAt"]
      /\ todo' = [todo EXCEPT ![p] = rs]
      /\ rep' = rep /\ stages' = stages /\ out' = out
      /\ "WriteAt" \in Work[p]
  BY DEF WriteAt, Begin, GoTo
<1>2. DeviceTypeOK'
  BY DEF WriteAt, Begin, DeviceTypeOK
<1>3. ObjectTypeOK'
  BY DEF WriteAt, Begin, ObjectTypeOK
<1> HIDE DEF rs
<1>4. GoroutineTypeOK'
  BY <1>0, <1>1 DEF GoroutineTypeOK, Labels, Calls
<1>5. Shape(p)'
  BY <1>0, <1>1 DEF GoroutineTypeOK, Shape, Polls, OpRids, Reading
<1>6. \A q \in Proc : q # p => Shape(q)'
  BY <1>1, ShapeFrame DEF GoroutineTypeOK
<1> QED
  BY <1>2, <1>3, <1>4, <1>5, <1>6

\* ReadAt keeps every variable in its type and every goroutine in shape.
LEMMA ReadAtType ==
  ASSUME TypeInv, NEW p \in Proc, NEW chunks \in Reads, ReadAt(p, chunks)
  PROVE  TypeInv'
<1> USE DEF TypeInv, TypeOK, vars, devVars, cfgVars, repVars, chanVars, callVars, readVars
<1>1. DeviceTypeOK'
  BY DEF ReadAt, Begin, GoTo, DeviceTypeOK
<1>2. ObjectTypeOK'
  BY DEF ReadAt, Begin, GoTo, ObjectTypeOK
<1>3. GoroutineTypeOK'
  BY ReadRequestsType DEF ReadAt, Begin, GoTo, GoroutineTypeOK, Labels, Calls
<1>4. Shape(p)'
  BY ReadRequestsType DEF ReadAt, Begin, GoTo, GoroutineTypeOK, Shape, Polls, OpRids, Reading
<1>5. \A q \in Proc : q # p => Shape(q)'
  BY ShapeFrame DEF ReadAt, Begin, GoTo, GoroutineTypeOK
<1> QED
  BY <1>1, <1>2, <1>3, <1>4, <1>5

\* OpenFeatures keeps every variable in its type and every goroutine in shape.
LEMMA OpenFeaturesType ==
  ASSUME TypeInv, NEW p \in Proc, NEW ifs \in SUBSET Kinds, OpenFeatures(p, ifs)
  PROVE  TypeInv'
<1> USE DEF TypeInv, TypeOK, vars, devVars, cfgVars, repVars, chanVars, callVars, readVars
<1>1. DeviceTypeOK'
  BY DEF OpenFeatures, ChangeFeatures, GoTo, DeviceTypeOK
<1>2. ObjectTypeOK'
  BY DEF OpenFeatures, ChangeFeatures, GoTo, ObjectTypeOK
<1>3. GoroutineTypeOK'
  BY DEF OpenFeatures, ChangeFeatures, GoTo, GoroutineTypeOK, Labels, Calls
<1>4. Shape(p)'
  BY DEF OpenFeatures, ChangeFeatures, GoTo, GoroutineTypeOK, Shape, Polls, OpRids, Reading
<1>5. \A q \in Proc : q # p => Shape(q)'
  BY ShapeFrame DEF OpenFeatures, ChangeFeatures, GoTo, GoroutineTypeOK
<1> QED
  BY <1>1, <1>2, <1>3, <1>4, <1>5

\* CloseFeature keeps every variable in its type and every goroutine in shape.
LEMMA CloseFeatureType ==
  ASSUME TypeInv, NEW p \in Proc, NEW ifs \in SUBSET Kinds, CloseFeature(p, ifs)
  PROVE  TypeInv'
<1> USE DEF TypeInv, TypeOK, vars, devVars, cfgVars, repVars, chanVars, callVars, readVars
<1>1. DeviceTypeOK'
  BY DEF CloseFeature, ChangeFeatures, GoTo, DeviceTypeOK
<1>2. ObjectTypeOK'
  BY DEF CloseFeature, ChangeFeatures, GoTo, ObjectTypeOK
<1>3. GoroutineTypeOK'
  BY DEF CloseFeature, ChangeFeatures, GoTo, GoroutineTypeOK, Labels, Calls
<1>4. Shape(p)'
  BY DEF CloseFeature, ChangeFeatures, GoTo, GoroutineTypeOK, Shape, Polls, OpRids, Reading
<1>5. \A q \in Proc : q # p => Shape(q)'
  BY ShapeFrame DEF CloseFeature, ChangeFeatures, GoTo, GoroutineTypeOK
<1> QED
  BY <1>1, <1>2, <1>3, <1>4, <1>5

\* UpdateReportMode keeps every variable in its type and every goroutine in shape.
LEMMA UpdateReportModeType ==
  ASSUME TypeInv, NEW p \in Proc, UpdateReportMode(p)
  PROVE  TypeInv'
<1> USE DEF TypeInv, TypeOK, vars, devVars, cfgVars, repVars, chanVars, callVars, readVars
<1>1. DeviceTypeOK'
  BY DEF UpdateReportMode, DeviceTypeOK
<1>2. ObjectTypeOK'
  BY DEF UpdateReportMode, ObjectTypeOK
<1>3. GoroutineTypeOK' /\ \A q \in Proc : Shape(q)'
  <2>1. CASE openIfs = {}
    BY <2>1, ReturnStep, ReturnShape DEF UpdateReportMode, GoroutineTypeOK
  <2>2. CASE openIfs # {}
    <3> DEFINE rs == ModeRequests(openIfs, irfull)
    <3>1. /\ rs \in Seq(Requests) /\ rs # <<>>
          /\ \A i \in 1 .. Len(rs) : rs[i].rid \in {"0x20", "0x13", "0x1a"}
      BY ModeRequestsType
    <3>2. /\ pc' = [pc EXCEPT ![p] = "compose"] /\ op' = op
          /\ todo' = [todo EXCEPT ![p] = rs]
          /\ rep' = rep /\ stages' = stages /\ out' = out
          /\ op[p] \in {"OpenFeatures", "Close"}
      BY <2>2 DEF UpdateReportMode, GoTo, Shape
    <3> HIDE DEF rs
    <3>3. GoroutineTypeOK'
      BY <3>1, <3>2 DEF GoroutineTypeOK, Labels
    <3>4. Shape(p)'
      BY <3>1, <3>2 DEF GoroutineTypeOK, Shape, Polls, OpRids, Reading
    <3>5. \A q \in Proc : q # p => Shape(q)'
      BY <3>2, ShapeFrame DEF GoroutineTypeOK
    <3> QED
      BY <3>3, <3>4, <3>5
  <2> QED
    BY <2>1, <2>2
<1> QED
  BY <1>1, <1>2, <1>3

\* SetIRFull keeps every variable in its type and every goroutine in shape.
LEMMA SetIRFullType ==
  ASSUME TypeInv, NEW p \in Proc, SetIRFull(p)
  PROVE  TypeInv'
<1> USE DEF TypeInv, TypeOK, vars, devVars, cfgVars, repVars, chanVars, callVars, readVars
<1>1. DeviceTypeOK'
  BY DEF SetIRFull, DeviceTypeOK
<1>2. ObjectTypeOK'
  BY DEF SetIRFull, ObjectTypeOK
<1>3. GoroutineTypeOK'
  BY DEF SetIRFull, GoroutineTypeOK
<1>4. Shape(p)'
  BY DEF SetIRFull, GoroutineTypeOK, Shape
<1>5. \A q \in Proc : q # p => Shape(q)'
  BY ShapeFrame DEF SetIRFull, GoroutineTypeOK
<1> QED
  BY <1>1, <1>2, <1>3, <1>4, <1>5

\* Compose keeps every variable in its type and every goroutine in shape.
LEMMA ComposeType ==
  ASSUME TypeInv, NEW p \in Proc, Compose(p)
  PROVE  TypeInv'
<1> USE DEF TypeInv, TypeOK, vars, devVars, cfgVars, repVars, chanVars, callVars, readVars
<1> DEFINE q == [todo[p][1] EXCEPT !.rumble = rumble]
            ts == [todo[p] EXCEPT ![1] = q]
<1>1. todo[p] \in Seq(Requests) /\ todo[p] # <<>> /\ rumble \in BOOLEAN
  BY DEF Compose, Shape, GoroutineTypeOK, ObjectTypeOK
<1>2. q \in Requests /\ q.rid = todo[p][1].rid
  <2>1. todo[p][1] \in Requests
    BY <1>1
  <2> QED
    BY <1>1, <2>1 DEF Requests
<1>3. /\ ts \in Seq(Requests) /\ Len(ts) = Len(todo[p]) /\ ts # <<>>
      /\ \A i \in 1 .. Len(ts) : ts[i].rid = todo[p][i].rid
  BY <1>1, <1>2
<1>4. /\ todo' = [todo EXCEPT ![p] = ts] /\ op' = op
      /\ rep' = rep /\ stages' = stages /\ out' = out
      /\ pc[p] = "compose"
      /\ \/ pc' = [pc EXCEPT ![p] = "forget"] /\ todo[p][1].rid \in AckRids
         \/ pc' = [pc EXCEPT ![p] = "send"]
  BY DEF Compose, GoTo
<1> HIDE DEF q, ts
<1>5. DeviceTypeOK'
  BY DEF Compose, DeviceTypeOK
<1>6. ObjectTypeOK'
  BY DEF Compose, ObjectTypeOK
<1>7. GoroutineTypeOK'
  BY <1>3, <1>4 DEF GoroutineTypeOK, Labels
<1>8. Shape(p)'
  <2>1. todo[p][1].rid \in OpRids(op[p])
    BY <1>1 DEF Shape
  <2>2. todo[p][1].rid \in AckRids => op[p] \notin {"ReadAt", "WriteAt"}
    BY <2>1 DEF OpRids, AckRids
  <2>3. /\ todo'[p] = ts /\ op'[p] = op[p] /\ rep'[p] = rep[p] /\ stages'[p] = stages[p]
        /\ \/ pc'[p] = "forget" /\ todo[p][1].rid \in AckRids
           \/ pc'[p] = "send"
    BY <1>1, <1>4 DEF GoroutineTypeOK
  <2>4. Shape(p)
    OBVIOUS
  <2> HIDE DEF TypeInv, TypeOK
  <2>5. \A i \in 1 .. Len(ts) : ts[i].rid \in OpRids(op[p])
    BY <1>3, <2>4 DEF Shape
  <2> QED
    BY <1>3, <1>4, <2>2, <2>3, <2>4, <2>5 DEF Shape, Reading
<1>9. \A r \in Proc : r # p => Shape(r)'
  BY <1>4, ShapeFrame DEF GoroutineTypeOK
<1> QED
  BY <1>5, <1>6, <1>7, <1>8, <1>9

\* Forget keeps every variable in its type and every goroutine in shape.
LEMMA ForgetType ==
  ASSUME TypeInv, NEW p \in Proc, Forget(p)
  PROVE  TypeInv'
<1> USE DEF TypeInv, TypeOK, vars, devVars, cfgVars, repVars, chanVars, callVars, readVars
<1>1. DeviceTypeOK'
  BY DEF Forget, GoTo, DeviceTypeOK
<1>2. ObjectTypeOK'
  BY DEF Forget, GoTo, ObjectTypeOK
<1>3. GoroutineTypeOK'
  BY DEF Forget, GoTo, GoroutineTypeOK, Labels
<1>4. Shape(p)'
  BY DEF Forget, GoTo, GoroutineTypeOK, Shape, Polls, OpRids, Reading
<1>5. \A q \in Proc : q # p => Shape(q)'
  BY ShapeFrame DEF Forget, GoTo, GoroutineTypeOK
<1> QED
  BY <1>1, <1>2, <1>3, <1>4, <1>5

\* Send keeps every variable in its type and every goroutine in shape.
LEMMA SendType ==
  ASSUME TypeInv, NEW p \in Proc, Send(p)
  PROVE  TypeInv'
<1> USE DEF TypeInv, TypeOK, vars, devVars, cfgVars, repVars, chanVars, callVars, readVars
<1> DEFINE q == todo[p][1]
            a == [rid |-> q.rid, val |-> q.val, of |-> p]
<1>1. /\ todo[p] \in Seq(Requests) /\ todo[p] # <<>> /\ pc[p] = "send"
      /\ q \in Requests /\ q.rid \in OpRids(op[p])
  <2>1. todo[p] \in Seq(Requests) /\ todo[p] # <<>> /\ pc[p] = "send"
    BY DEF Send, Shape, GoroutineTypeOK
  <2>2. 1 \in 1 .. Len(todo[p]) /\ q \in Requests
    BY <2>1
  <2>3. q.rid \in OpRids(op[p])
    BY <2>2 DEF Shape
  <2> QED
    BY <2>1, <2>2, <2>3
<1>2. /\ q.rid \in Rids /\ q.val \in Nat /\ q.rumble \in BOOLEAN
      /\ q.rid = "0x20" => q.mode \in Modes
      /\ q.rid # "0x16" => a \in Asked
  BY <1>1 DEF Requests, Asked, Rids
<1>3. DeviceTypeOK'
  <2>1. inbox' \in Seq(Asked)
    BY <1>2, AppendSeq DEF Send, DeviceTypeOK
  <2> QED
    BY <1>2, <2>1 DEF Send, DeviceTypeOK
<1>4. ObjectTypeOK'
  BY DEF Send, ObjectTypeOK
<1>5. rep' = rep /\ stages' = stages /\ out' = out
  BY DEF Send
<1>6. GoroutineTypeOK' /\ \A r \in Proc : Shape(r)'
  <2>1. CASE q.rid = "0x16"
    <3>1. NextRequest(p)
      BY <2>1 DEF Send
    <3> QED
      BY <1>1, <1>5, <3>1, NextRequestStep, NextRequestShape DEF GoroutineTypeOK
  <2>2. CASE q.rid # "0x16"
    <3>1. /\ pc' = [pc EXCEPT ![p] = IF q.rid = "0x17" THEN "poll" ELSE "check"]
          /\ op' = op /\ todo' = todo
      BY <2>2 DEF Send, GoTo
    <3>2. /\ q.rid = "0x17" => op[p] = "ReadAt"
          /\ q.rid # "0x17" => op[p] \notin {"ReadAt", "WriteAt"}
      BY <1>1, <2>2 DEF OpRids
    <3>3. Shape(p)'
      BY <1>1, <1>5, <3>1, <3>2 DEF GoroutineTypeOK, Shape, Reading
    <3>4. \A r \in Proc : r # p => Shape(r)'
      BY <1>5, <3>1, ShapeFrame DEF GoroutineTypeOK
    <3>5. GoroutineTypeOK'
      BY <1>5, <3>1 DEF GoroutineTypeOK, Labels
    <3> QED
      BY <3>3, <3>4, <3>5
  <2> QED
    BY <2>1, <2>2
<1> QED
  BY <1>3, <1>4, <1>6

\* SendFails keeps every variable in its type and every goroutine in shape.
LEMMA SendFailsType ==
  ASSUME TypeInv, NEW p \in Proc, SendFails(p)
  PROVE  TypeInv'
<1> USE DEF TypeInv, TypeOK, vars, devVars, cfgVars, repVars, chanVars, callVars, readVars
<1>1. DeviceTypeOK'
  BY DEF SendFails, DeviceTypeOK
<1>2. ObjectTypeOK'
  BY DEF SendFails, ObjectTypeOK
<1>3. /\ todo[p] # <<>> /\ pc[p] = "send" /\ rep' = rep /\ stages' = stages /\ out' = out
      /\ NextRequest(p) \/ Return(p)
  BY DEF SendFails, Shape
<1>4. GoroutineTypeOK' /\ \A q \in Proc : Shape(q)'
  BY <1>3, NextRequestStep, ReturnStep, NextRequestShape, ReturnShape DEF GoroutineTypeOK
<1> QED
  BY <1>1, <1>2, <1>4

\* Check keeps every variable in its type and every goroutine in shape.
LEMMA CheckType ==
  ASSUME TypeInv, NEW p \in Proc, Check(p)
  PROVE  TypeInv'
<1> USE DEF TypeInv, TypeOK, vars, devVars, cfgVars, repVars, chanVars, callVars, readVars
<1>1. DeviceTypeOK'
  BY DEF Check, DeviceTypeOK
<1>2. ObjectTypeOK'
  BY ProcAssumption DEF Check, ObjectTypeOK
<1>3. /\ todo[p] # <<>> /\ pc[p] = "check" /\ rep' = rep /\ stages' = stages /\ out' = out
      /\ \/ NextRequest(p) \/ Return(p)
         \/ pc' = [pc EXCEPT ![p] = "poll"] /\ op' = op /\ todo' = todo
  BY DEF Check, GoTo, Shape
<1>4. GoroutineTypeOK' /\ \A q \in Proc : Shape(q)'
  <2>1. CASE NextRequest(p) \/ Return(p)
    BY <1>3, <2>1, NextRequestStep, ReturnStep, NextRequestShape, ReturnShape DEF GoroutineTypeOK
  <2>2. CASE pc' = [pc EXCEPT ![p] = "poll"] /\ op' = op /\ todo' = todo
    <3>1. GoroutineTypeOK'
      BY <1>3, <2>2 DEF GoroutineTypeOK, Labels
    <3>2. Shape(p)'
      BY <1>3, <2>2 DEF GoroutineTypeOK, Shape, Reading
    <3>3. \A q \in Proc : q # p => Shape(q)'
      BY <1>3, <2>2, ShapeFrame DEF GoroutineTypeOK
    <3> QED
      BY <3>1, <3>2, <3>3
  <2> QED
    BY <1>3, <2>1, <2>2
<1> QED
  BY <1>1, <1>2, <1>4

\* Reply keeps every variable in its type and every goroutine in shape.
LEMMA ReplyType ==
  ASSUME TypeInv, NEW p \in Proc, Reply(p)
  PROVE  TypeInv'
<1> USE DEF TypeInv, TypeOK, vars, devVars, cfgVars, repVars, chanVars, callVars, readVars
<1>1. DeviceTypeOK'
  BY DEF Reply, DeviceTypeOK
<1>2. ObjectTypeOK'
  <2> DEFINE M == {r \in Reports : r.id = "0x21"}
  <2>0. /\ memory \in Seq(M) /\ Len(memory) <= MemCap /\ MemCap \in Nat
        /\ (memory' = memory \/ (memory # <<>> /\ memory' = Tail(memory)))
    BY CapAssumption DEF Reply, ObjectTypeOK
  <2>1. memory' \in Seq(M) /\ Len(memory') <= MemCap
    <3> HIDE DEF M, TypeInv, TypeOK
    <3>1. CASE memory' = memory
      BY <2>0, <3>1
    <3>2. CASE memory # <<>> /\ memory' = Tail(memory)
      <4>1. /\ Tail(memory) \in Seq(M) /\ Len(memory) \in Nat
            /\ Len(Tail(memory)) = Len(memory) - 1
        BY <2>0, <3>2, TailSeq
      <4>2. Len(memory) <= MemCap /\ MemCap \in Nat
        BY <2>0
      <4>3. Len(Tail(memory)) <= MemCap
        BY <4>1, <4>2
      <4> QED
        BY <3>2, <4>1, <4>3
    <3> QED
      BY <2>0, <3>1, <3>2
  <2> QED
    BY <2>1 DEF Reply, ObjectTypeOK
<1>3. /\ todo[p] # <<>> /\ pc[p] = "reply" /\ rep' = rep /\ stages' = stages /\ out' = out
      /\ \/ NextRequest(p) \/ Return(p)
         \/ pc' = [pc EXCEPT ![p] = "poll"] /\ op' = op /\ todo' = todo
  BY DEF Reply, GoTo, Shape
<1>4. GoroutineTypeOK' /\ \A q \in Proc : Shape(q)'
  <2>1. CASE NextRequest(p) \/ Return(p)
    BY <1>3, <2>1, NextRequestStep, ReturnStep, NextRequestShape, ReturnShape DEF GoroutineTypeOK
  <2>2. CASE pc' = [pc EXCEPT ![p] = "poll"] /\ op' = op /\ todo' = todo
    <3>1. GoroutineTypeOK'
      BY <1>3, <2>2 DEF GoroutineTypeOK, Labels
    <3>2. Shape(p)'
      BY <1>3, <2>2 DEF GoroutineTypeOK, Shape, Reading
    <3>3. \A q \in Proc : q # p => Shape(q)'
      BY <1>3, <2>2, ShapeFrame DEF GoroutineTypeOK
    <3> QED
      BY <3>1, <3>2, <3>3
  <2> QED
    BY <1>3, <2>1, <2>2
<1> QED
  BY <1>1, <1>2, <1>4

\* WaitReadable keeps every variable in its type and every goroutine in shape.
LEMMA WaitReadableType ==
  ASSUME TypeInv, NEW p \in Proc, WaitReadable(p)
  PROVE  TypeInv'
<1> USE DEF TypeInv, TypeOK, vars, devVars, cfgVars, repVars, chanVars, callVars, readVars
<1>1. DeviceTypeOK'
  BY DEF WaitReadable, GoTo, DeviceTypeOK
<1>2. ObjectTypeOK'
  BY DEF WaitReadable, GoTo, ObjectTypeOK
<1>3. GoroutineTypeOK'
  BY DEF WaitReadable, GoTo, GoroutineTypeOK, Labels
<1>4. Shape(p)'
  BY DEF WaitReadable, GoTo, GoroutineTypeOK, Shape, Polls, OpRids, Reading
<1>5. \A q \in Proc : q # p => Shape(q)'
  BY ShapeFrame DEF WaitReadable, GoTo, GoroutineTypeOK
<1> QED
  BY <1>1, <1>2, <1>3, <1>4, <1>5

\* Read keeps every variable in its type and every goroutine in shape.
LEMMA ReadType ==
  ASSUME TypeInv, NEW p \in Proc, Read(p)
  PROVE  TypeInv'
<1> USE DEF TypeInv, TypeOK, vars, devVars, cfgVars, repVars, chanVars, callVars, readVars
<1>1. DeviceTypeOK'
  <2>1. rx' \in Seq(Reports) /\ Len(rx') <= RxCap
    BY TailSeq, CapAssumption DEF Read, DeviceTypeOK
  <2> QED
    BY <2>1 DEF Read, DeviceTypeOK
<1>2. ObjectTypeOK'
  BY DEF Read, ObjectTypeOK
<1>3. pc[p] = "read" /\ op' = op /\ todo' = todo /\ out' = out /\ Back(p) \in Labels
  BY DEF Read, Back, Labels
<1>4. CASE rx # <<>>
  <2> DEFINE r == Head(rx)
             s == Stages(r.id)
  <2>1. r \in Reports
    BY <1>4, TailSeq DEF DeviceTypeOK
  <2>2. /\ rep' = [rep EXCEPT ![p] = r] /\ stages' = [stages EXCEPT ![p] = s]
        /\ pc' = [pc EXCEPT ![p] = IF s = <<>> THEN Back(p) ELSE "handle"]
    BY <1>4 DEF Read, GoTo
  <2>3. /\ s \in Seq(StageNames)
        /\ \A i \in 2 .. Len(s) : s[i] \notin {"status", "memory", "ack"}
        /\ \A i \in 1 .. Len(s) : s[i] = "pair" => i < Len(s)
        /\ s # <<>> /\ Head(s) = "ack" => r.id = "0x22"
        /\ s # <<>> /\ Head(s) = "memory" => r.id = "0x21"
    BY StagesType
  <2> HIDE DEF r, s
  <2>4. GoroutineTypeOK'
    BY <1>3, <2>1, <2>2, <2>3 DEF GoroutineTypeOK, Labels
  <2>5. Shape(p)'
    BY <1>3, <2>2, <2>3 DEF GoroutineTypeOK, Shape, Reading, Back, Polls
  <2>6. \A q \in Proc : q # p => Shape(q)'
    BY <1>3, <2>2, ShapeFrame DEF GoroutineTypeOK
  <2> QED
    BY <1>1, <1>2, <2>4, <2>5, <2>6
<1>5. CASE rx = <<>>
  <2>1. /\ rep' = rep /\ stages' = stages
    BY <1>5 DEF Read
  <2>2. PICK l \in {Back(p), "gone"} : pc' = [pc EXCEPT ![p] = l]
    BY <1>5 DEF Read, GoTo
  <2>3. GoroutineTypeOK'
    BY <1>3, <2>1, <2>2 DEF GoroutineTypeOK, Labels
  <2>4. Shape(p)'
    BY <1>3, <2>1, <2>2 DEF GoroutineTypeOK, Shape, Reading, Back, Polls
  <2>5. \A q \in Proc : q # p => Shape(q)'
    BY <1>3, <2>1, <2>2, ShapeFrame DEF GoroutineTypeOK
  <2> QED
    BY <1>1, <1>2, <2>3, <2>4, <2>5
<1> QED
  BY <1>4, <1>5

(* The stages of readEvent *)

\* The variables that the end of a stage does not touch keep their types.
LEMMA StageEnd ==
  ASSUME TypeInv, NEW p \in Proc, pc[p] \in {"handle", "keys"}, StageDone(p),
         op' = op, todo' = todo, out' \in [Proc -> SUBSET Keys]
  PROVE  GoroutineTypeOK' /\ \A q \in Proc : Shape(q)'
<1>1. GoroutineTypeOK /\ stages[p] # <<>>
  BY DEF TypeInv, TypeOK, Shape
<1>2. GoroutineTypeOK'
  BY <1>1, StageDoneStep DEF GoroutineTypeOK
<1> QED
  BY <1>2, StageDoneShape

\* Gone keeps every variable in its type and every goroutine in shape.
LEMMA GoneType ==
  ASSUME TypeInv, NEW p \in Proc, Gone(p)
  PROVE  TypeInv'
<1> USE DEF TypeInv, TypeOK, vars, devVars, cfgVars, repVars, chanVars, callVars, readVars
<1>1. DeviceTypeOK'
  BY DEF Gone, DeviceTypeOK
<1>2. ObjectTypeOK'
  <2>1. Event(IF link = "eof" THEN "gone" ELSE "watch", 0, 0) \in Events
    BY DEF Event, Events
  <2>2. moreEvents' \in Seq(Events) /\ Len(moreEvents') <= EventCap
    BY <2>1, PushStep DEF Gone, ObjectTypeOK
  <2> QED
    BY <2>2 DEF Gone, ObjectTypeOK
<1>3. /\ pc[p] = "gone" /\ pc' = [pc EXCEPT ![p] = Back(p)] /\ Back(p) \in Labels
      /\ op' = op /\ todo' = todo /\ rep' = rep /\ stages' = stages /\ out' = out
  BY DEF Gone, GoTo, Back, Labels
<1>4. GoroutineTypeOK'
  BY <1>3 DEF GoroutineTypeOK
<1>5. Shape(p)'
  BY <1>3 DEF GoroutineTypeOK, Shape, Reading, Back, Polls
<1>6. \A q \in Proc : q # p => Shape(q)'
  BY <1>3, ShapeFrame DEF GoroutineTypeOK
<1> QED
  BY <1>1, <1>2, <1>4, <1>5, <1>6

\* Status keeps every variable in its type and every goroutine in shape.
LEMMA StatusType ==
  ASSUME TypeInv, NEW p \in Proc, Status(p)
  PROVE  TypeInv'
<1> USE DEF TypeInv, TypeOK, vars, devVars, cfgVars, repVars, chanVars, callVars, readVars
<1>1. DeviceTypeOK'
  BY DEF Status, DeviceTypeOK
<1>2. ObjectTypeOK'
  <2>1. rep[p] \in Reports
    BY DEF GoroutineTypeOK
  <2>2. rep[p].val \in Nat
    BY <2>1 DEF Reports
  <2> QED
    BY <2>2 DEF Status, ObjectTypeOK
<1>3. /\ pc[p] = "handle" /\ StageDone(p) /\ op' = op /\ todo' = todo
      /\ out' \in [Proc -> SUBSET Keys]
  BY DEF Status, AtStage, GoroutineTypeOK
<1> QED
  BY <1>1, <1>2, <1>3, StageEnd

\* MemoryReply keeps every variable in its type and every goroutine in shape.
LEMMA MemoryReplyType ==
  ASSUME TypeInv, NEW p \in Proc, MemoryReply(p)
  PROVE  TypeInv'
<1> USE DEF TypeInv, TypeOK, vars, devVars, cfgVars, repVars, chanVars, callVars, readVars
<1>1. DeviceTypeOK'
  BY DEF MemoryReply, DeviceTypeOK
<1>2. ObjectTypeOK'
  <2> DEFINE M == {r \in Reports : r.id = "0x21"}
  <2>1. rep[p] \in M /\ memory \in Seq(M) /\ MemCap \in Nat
        /\ Len(memory) < MemCap /\ memory' = Append(memory, rep[p])
    BY CapAssumption DEF MemoryReply, AtStage, GoroutineTypeOK, ObjectTypeOK, Shape
  <2>2. memory' \in Seq(M) /\ Len(memory') <= MemCap
    <3> HIDE DEF M
    <3> QED
      BY <2>1, AppendSeq
  <2> QED
    BY <2>2 DEF MemoryReply, ObjectTypeOK
<1>3. /\ pc[p] = "handle" /\ StageDone(p) /\ op' = op /\ todo' = todo
      /\ out' \in [Proc -> SUBSET Keys]
  BY DEF MemoryReply, AtStage, GoroutineTypeOK
<1> QED
  BY <1>1, <1>2, <1>3, StageEnd

\* Ack keeps every variable in its type and every goroutine in shape.
LEMMA AckType ==
  ASSUME TypeInv, NEW p \in Proc, Ack(p)
  PROVE  TypeInv'
<1> USE DEF TypeInv, TypeOK, vars, devVars, cfgVars, repVars, chanVars, callVars, readVars
<1>1. DeviceTypeOK'
  BY DEF Ack, DeviceTypeOK
<1>2. ObjectTypeOK'
  <2>1. rep[p] \in Reports /\ rep[p].id = "0x22"
    BY DEF GoroutineTypeOK, Ack, AtStage, Shape
  <2>2. rep[p].re \in AckRids /\ rep[p].of \in Proc \cup {None}
    BY <2>1 DEF Reports
  <2> QED
    BY <2>2 DEF Ack, ObjectTypeOK
<1>3. /\ pc[p] = "handle" /\ StageDone(p) /\ op' = op /\ todo' = todo
      /\ out' \in [Proc -> SUBSET Keys]
  BY DEF Ack, AtStage, GoroutineTypeOK
<1> QED
  BY <1>1, <1>2, <1>3, StageEnd

\* Store keeps every variable in its type and every goroutine in shape.
LEMMA StoreType ==
  ASSUME TypeInv, NEW p \in Proc, Store(p)
  PROVE  TypeInv'
<1> USE DEF TypeInv, TypeOK, vars, devVars, cfgVars, repVars, chanVars, callVars, readVars
<1>1. DeviceTypeOK'
  BY DEF Store, DeviceTypeOK
<1>2. ObjectTypeOK'
  <2>1. rep[p] \in Reports
    BY DEF GoroutineTypeOK
  <2>2. rep[p].val \in Nat
    BY <2>1 DEF Reports
  <2> QED
    BY <2>2 DEF Store, ObjectTypeOK
<1>3. /\ pc[p] = "handle" /\ StageDone(p) /\ op' = op /\ todo' = todo
      /\ out' \in [Proc -> SUBSET Keys]
  BY DEF Store, AtStage, GoroutineTypeOK
<1> QED
  BY <1>1, <1>2, <1>3, StageEnd

\* AccelOut keeps every variable in its type and every goroutine in shape.
LEMMA AccelOutType ==
  ASSUME TypeInv, NEW p \in Proc, AccelOut(p)
  PROVE  TypeInv'
<1> USE DEF TypeInv, TypeOK, vars, devVars, cfgVars, repVars, chanVars, callVars, readVars
<1>1. DeviceTypeOK'
  BY DEF AccelOut, DeviceTypeOK
<1>2. ObjectTypeOK'
  <2>1. Event("accel", 0, 0) \in Events
    BY DEF Event, Events
  <2>2. moreEvents' \in Seq(Events) /\ Len(moreEvents') <= EventCap
    BY <2>1, PushStep DEF AccelOut, ObjectTypeOK
  <2> QED
    BY <2>2 DEF AccelOut, ObjectTypeOK
<1>3. /\ pc[p] = "handle" /\ StageDone(p) /\ op' = op /\ todo' = todo
      /\ out' \in [Proc -> SUBSET Keys]
  BY DEF AccelOut, AtStage, GoroutineTypeOK
<1> QED
  BY <1>1, <1>2, <1>3, StageEnd

\* IROut keeps every variable in its type and every goroutine in shape.
LEMMA IROutType ==
  ASSUME TypeInv, NEW p \in Proc, IROut(p)
  PROVE  TypeInv'
<1> USE DEF TypeInv, TypeOK, vars, devVars, cfgVars, repVars, chanVars, callVars, readVars
<1>1. DeviceTypeOK'
  BY DEF IROut, DeviceTypeOK
<1>2. ObjectTypeOK'
  <2>1. Event("ir", 0, IF rep[p].good THEN 1 ELSE 0) \in Events
    BY DEF Event, Events
  <2>2. moreEvents' \in Seq(Events) /\ Len(moreEvents') <= EventCap
    BY <2>1, PushStep DEF IROut, ObjectTypeOK
  <2> QED
    BY <2>2 DEF IROut, ObjectTypeOK
<1>3. /\ pc[p] = "handle" /\ StageDone(p) /\ op' = op /\ todo' = todo
      /\ out' \in [Proc -> SUBSET Keys]
  BY DEF IROut, AtStage, GoroutineTypeOK
<1> QED
  BY <1>1, <1>2, <1>3, StageEnd

\* Buttons keeps every variable in its type and every goroutine in shape.
LEMMA ButtonsType ==
  ASSUME TypeInv, NEW p \in Proc, Buttons(p)
  PROVE  TypeInv'
<1> USE DEF TypeInv, TypeOK, vars, devVars, cfgVars, repVars, chanVars, callVars, readVars
<1>1. DeviceTypeOK'
  BY DEF Buttons, DeviceTypeOK
<1>2. ObjectTypeOK'
  BY DEF Buttons, ObjectTypeOK
<1>3. pc[p] = "handle" /\ op' = op /\ todo' = todo
      /\ stages[p] # <<>> /\ Head(stages[p]) = "buttons"
  BY DEF Buttons, AtStage, Shape
<1>4. CASE StageDone(p) /\ out' = out
  <2>1. out' \in [Proc -> SUBSET Keys]
    BY <1>4 DEF GoroutineTypeOK
  <2> QED
    BY <1>1, <1>2, <1>3, <1>4, <2>1, StageEnd
<1>5. CASE /\ out' = [out EXCEPT ![p] = Changed(btnPrev, rep[p].btn)]
           /\ GoTo(p, "press") /\ UNCHANGED <<rep, stages>>
  <2>1. Changed(btnPrev, rep[p].btn) \in SUBSET Keys
    <3>1. rep[p] \in Reports /\ btnPrev \in SUBSET Keys
      BY DEF GoroutineTypeOK, ObjectTypeOK
    <3>2. rep[p].btn \in SUBSET Keys
      BY <3>1 DEF Reports
    <3> QED
      BY <3>1, <3>2 DEF Changed
  <2>2. GoroutineTypeOK'
    BY <1>3, <1>5, <2>1 DEF GoTo, GoroutineTypeOK, Labels
  <2>3. Shape(p)'
    BY <1>3, <1>5 DEF GoTo, GoroutineTypeOK, Shape, Reading
  <2>4. \A q \in Proc : q # p => Shape(q)'
    BY <1>3, <1>5, ShapeFrame DEF GoTo, GoroutineTypeOK
  <2> QED
    BY <1>1, <1>2, <2>2, <2>3, <2>4
<1> QED
  BY <1>4, <1>5 DEF Buttons

\* Press keeps every variable in its type and every goroutine in shape.
LEMMA PressType ==
  ASSUME TypeInv, NEW p \in Proc, Press(p)
  PROVE  TypeInv'
<1> USE DEF TypeInv, TypeOK, vars, devVars, cfgVars, repVars, chanVars, callVars, readVars
<1>1. DeviceTypeOK'
  BY DEF Press, DeviceTypeOK
<1>2. ObjectTypeOK'
  <2>1. rep[p] \in Reports
    BY DEF GoroutineTypeOK
  <2>2. rep[p].btn \in SUBSET Keys
    BY <2>1 DEF Reports
  <2> QED
    BY <2>2 DEF Press, ObjectTypeOK
<1>3. /\ pc[p] = "press" /\ pc' = [pc EXCEPT ![p] = "keys"]
      /\ op' = op /\ todo' = todo /\ rep' = rep /\ stages' = stages /\ out' = out
  BY DEF Press, GoTo
<1>4. GoroutineTypeOK'
  BY <1>3 DEF GoroutineTypeOK, Labels
<1>5. Shape(p)'
  BY <1>3 DEF GoroutineTypeOK, Shape, Reading
<1>6. \A q \in Proc : q # p => Shape(q)'
  BY <1>3, ShapeFrame DEF GoroutineTypeOK
<1> QED
  BY <1>1, <1>2, <1>4, <1>5, <1>6

\* KeyOut keeps every variable in its type and every goroutine in shape.
LEMMA KeyOutType ==
  ASSUME TypeInv, NEW p \in Proc, KeyOut(p)
  PROVE  TypeInv'
<1> USE DEF TypeInv, TypeOK, vars, devVars, cfgVars, repVars, chanVars, callVars, readVars
<1>1. DeviceTypeOK'
  BY DEF KeyOut, DeviceTypeOK
<1>2. PICK k \in out[p] :
        /\ Push(KeyEvent(k, k \in rep[p].btn))
        /\ out' = [out EXCEPT ![p] = out[p] \ {k}]
        /\ IF out[p] = {k} THEN StageDone(p) ELSE UNCHANGED <<pc, rep, stages>>
  BY DEF KeyOut
<1>3. ObjectTypeOK'
  <2>1. k \in Keys
    BY DEF GoroutineTypeOK
  <2>2. KeyEvent(k, k \in rep[p].btn) \in Events
    BY <2>1 DEF KeyEvent, Event, Events
  <2>3. moreEvents' \in Seq(Events) /\ Len(moreEvents') <= EventCap
    BY <1>2, <2>2, PushStep DEF ObjectTypeOK
  <2> QED
    BY <2>3 DEF KeyOut, ObjectTypeOK
<1>4. pc[p] = "keys" /\ op' = op /\ todo' = todo /\ out' \in [Proc -> SUBSET Keys]
  BY <1>2 DEF KeyOut, GoroutineTypeOK
<1>5. CASE StageDone(p)
  BY <1>1, <1>3, <1>4, <1>5, StageEnd
<1>6. CASE UNCHANGED <<pc, rep, stages>>
  <2>1. GoroutineTypeOK'
    BY <1>4, <1>6 DEF GoroutineTypeOK
  <2>2. \A q \in Proc : Shape(q)'
    BY <1>4, <1>6, ShapeFrame
  <2> QED
    BY <1>1, <1>3, <2>1, <2>2
<1> QED
  BY <1>2, <1>5, <1>6

\* Pair keeps every variable in its type and every goroutine in shape.
LEMMA PairType ==
  ASSUME TypeInv, NEW p \in Proc, Pair(p)
  PROVE  TypeInv'
<1> USE DEF TypeInv, TypeOK, vars, devVars, cfgVars, repVars, chanVars, callVars, readVars
<1>1. DeviceTypeOK'
  BY DEF Pair, DeviceTypeOK
<1>2. ObjectTypeOK'
  BY DEF Pair, ObjectTypeOK
<1> DEFINE r == [rep[p] EXCEPT !.good = (interleaved = rep[p].val)]
           s == Tail(stages[p])
<1>3. /\ pc[p] = "handle" /\ pc' = pc /\ op' = op /\ todo' = todo /\ out' = out
      /\ rep' = [rep EXCEPT ![p] = r] /\ stages' = [stages EXCEPT ![p] = s]
      /\ stages[p] # <<>> /\ Head(stages[p]) = "pair"
  BY DEF Pair, AtStage, Shape
<1>4. r \in Reports
  <2>1. rep[p] \in Reports
    BY DEF GoroutineTypeOK
  <2> QED
    BY <2>1 DEF Reports
<1>5. /\ s \in Seq(StageNames) /\ s # <<>>
      /\ \A i \in 1 .. Len(s) : s[i] \notin {"status", "memory", "ack"}
      /\ \A i \in 1 .. Len(s) : s[i] = "pair" => i < Len(s)
  <2>1. stages[p] \in Seq(StageNames)
    BY DEF GoroutineTypeOK
  <2>2. /\ s \in Seq(StageNames) /\ Len(stages[p]) \in Nat /\ Len(stages[p]) >= 1
        /\ Len(s) = Len(stages[p]) - 1 /\ Head(stages[p]) = stages[p][1]
        /\ (Len(stages[p]) > 1 <=> s # <<>>)
        /\ \A i \in 1 .. Len(s) : s[i] = stages[p][i + 1] /\ i + 1 \in 2 .. Len(stages[p])
    BY <1>3, <2>1, TailSeq
  <2>3. /\ \A i \in 1 .. Len(stages[p]) : stages[p][i] = "pair" => i < Len(stages[p])
        /\ \A i \in 2 .. Len(stages[p]) : stages[p][i] \notin {"status", "memory", "ack"}
    BY DEF Shape
  <2>4. s # <<>>
    BY <1>3, <2>2, <2>3
  <2> HIDE DEF s, TypeInv, TypeOK
  <2>5. ASSUME NEW i \in 1 .. Len(s)
        PROVE  s[i] \notin {"status", "memory", "ack"} /\ (s[i] = "pair" => i < Len(s))
    <3>1. s[i] = stages[p][i + 1] /\ i + 1 \in 2 .. Len(stages[p])
      BY <2>2
    <3> QED
      BY <2>2, <2>3, <3>1
  <2> QED
    BY <2>2, <2>4, <2>5
<1> HIDE DEF r, s
<1>7. GoroutineTypeOK'
  BY <1>3, <1>4, <1>5 DEF GoroutineTypeOK
<1>8. Shape(p)'
  <2>1. Head(s) \notin {"status", "memory", "ack"}
    BY <1>5
  <2>2. stages'[p] = s /\ pc'[p] = pc[p] /\ op'[p] = op[p] /\ todo'[p] = todo[p]
    BY <1>3 DEF GoroutineTypeOK
  <2> QED
    BY <1>3, <1>5, <2>1, <2>2 DEF Shape, Reading
<1>9. \A q \in Proc : q # p => Shape(q)'
  BY <1>3, ShapeFrame DEF GoroutineTypeOK
<1> QED
  BY <1>1, <1>2, <1>7, <1>8, <1>9

\* Take keeps every variable in its type and every goroutine in shape.
LEMMA TakeType ==
  ASSUME TypeInv, NEW p \in Proc, Take(p)
  PROVE  TypeInv'
<1> USE DEF TypeInv, TypeOK, vars, devVars, cfgVars, repVars, chanVars, callVars, readVars
<1>1. DeviceTypeOK'
  BY DEF Take, DeviceTypeOK
<1>2. ObjectTypeOK'
  <2>1. moreEvents \in Seq(Events) /\ moreEvents # <<>>
    BY DEF Take, ObjectTypeOK
  <2>2. /\ Head(moreEvents) \in Events /\ Tail(moreEvents) \in Seq(Events)
        /\ Len(moreEvents) \in Nat /\ Len(Tail(moreEvents)) = Len(moreEvents) - 1
    BY <2>1, TailSeq
  <2>3. seen' \in SUBSET (Keys \cup {0})
    BY <2>2 DEF Take, Told, Events, ObjectTypeOK
  <2>4. moreEvents' \in Seq(Events) /\ Len(moreEvents') <= EventCap
    <3>1. Len(moreEvents) <= EventCap /\ EventCap \in Nat /\ moreEvents' = Tail(moreEvents)
      BY CapAssumption DEF Take, ObjectTypeOK
    <3> HIDE DEF TypeInv, TypeOK
    <3> QED
      BY <2>2, <3>1
  <2> QED
    BY <2>3, <2>4 DEF Take, ObjectTypeOK
<1>3. CASE op[p] = "Poll"
  <2>1. Return(p) /\ rep' = rep /\ stages' = stages /\ out' = out
    BY <1>3 DEF Take
  <2>2. GoroutineTypeOK'
    BY <2>1, ReturnStep DEF GoroutineTypeOK
  <2>3. \A q \in Proc : Shape(q)'
    BY <2>1, ReturnShape
  <2> QED
    BY <1>1, <1>2, <2>2, <2>3
<1>4. CASE op[p] # "Poll"
  <2>1. /\ pc' = [pc EXCEPT ![p] = "more"] /\ op' = op /\ todo' = todo
        /\ rep' = rep /\ stages' = stages /\ out' = out
        /\ pc[p] \in {"first", "second"}
    BY <1>4 DEF Take, GoTo
  <2>2. GoroutineTypeOK'
    BY <2>1 DEF GoroutineTypeOK, Labels
  <2>3. Shape(p)'
    BY <2>1 DEF GoroutineTypeOK, Shape, Reading, Polls
  <2>4. \A q \in Proc : q # p => Shape(q)'
    BY <2>1, ShapeFrame DEF GoroutineTypeOK
  <2> QED
    BY <1>1, <1>2, <2>2, <2>3, <2>4
<1> QED
  BY <1>3, <1>4

\* More keeps every variable in its type and every goroutine in shape.
LEMMA MoreType ==
  ASSUME TypeInv, NEW p \in Proc, More(p)
  PROVE  TypeInv'
<1> USE DEF TypeInv, TypeOK, vars, devVars, cfgVars, repVars, chanVars, callVars, readVars
<1>1. DeviceTypeOK'
  BY DEF More, DeviceTypeOK
<1>2. ObjectTypeOK'
  BY DEF More, ObjectTypeOK
<1>3. Return(p) /\ rep' = rep /\ stages' = stages /\ out' = out
  BY DEF More
<1>4. GoroutineTypeOK'
  BY <1>3, ReturnStep DEF GoroutineTypeOK
<1>5. \A q \in Proc : Shape(q)'
  BY <1>3, ReturnShape
<1> QED
  BY <1>1, <1>2, <1>4, <1>5

\* First keeps every variable in its type and every goroutine in shape.
LEMMA FirstType ==
  ASSUME TypeInv, NEW p \in Proc, First(p)
  PROVE  TypeInv'
<1> USE DEF TypeInv, TypeOK, vars, devVars, cfgVars, repVars, chanVars, callVars, readVars
<1>1. DeviceTypeOK'
  BY DEF First, DeviceTypeOK
<1>2. ObjectTypeOK'
  BY DEF First, ObjectTypeOK
<1>3. GoroutineTypeOK'
  BY DEF First, GoTo, GoroutineTypeOK, Labels
<1>4. Shape(p)'
  BY DEF First, GoTo, GoroutineTypeOK, Shape, Polls, Reading
<1>5. \A q \in Proc : q # p => Shape(q)'
  BY ShapeFrame DEF First, GoTo, GoroutineTypeOK
<1> QED
  BY <1>1, <1>2, <1>3, <1>4, <1>5

\* WouldBlock keeps every variable in its type and every goroutine in shape.
LEMMA WouldBlockType ==
  ASSUME TypeInv, NEW p \in Proc, WouldBlock(p)
  PROVE  TypeInv'
<1> USE DEF TypeInv, TypeOK, vars, devVars, cfgVars, repVars, chanVars, callVars, readVars
<1>1. DeviceTypeOK'
  BY DEF WouldBlock, DeviceTypeOK
<1>2. ObjectTypeOK'
  BY DEF WouldBlock, ObjectTypeOK
<1>3. CASE op[p] = "Poll"
  <2>1. Return(p) /\ rep' = rep /\ stages' = stages /\ out' = out
    BY <1>3 DEF WouldBlock
  <2>2. GoroutineTypeOK'
    BY <2>1, ReturnStep DEF GoroutineTypeOK
  <2>3. \A q \in Proc : Shape(q)'
    BY <2>1, ReturnShape
  <2> QED
    BY <1>1, <1>2, <2>2, <2>3
<1>4. CASE op[p] # "Poll"
  <2>1. /\ pc' = [pc EXCEPT ![p] = "await"] /\ op' = op /\ todo' = todo
        /\ rep' = rep /\ stages' = stages /\ out' = out
        /\ pc[p] \in {"first", "second"}
    BY <1>4 DEF WouldBlock, GoTo
  <2>2. GoroutineTypeOK'
    BY <2>1 DEF GoroutineTypeOK, Labels
  <2>3. Shape(p)'
    BY <2>1 DEF GoroutineTypeOK, Shape, Reading, Polls
  <2>4. \A q \in Proc : q # p => Shape(q)'
    BY <2>1, ShapeFrame DEF GoroutineTypeOK
  <2> QED
    BY <1>1, <1>2, <2>2, <2>3, <2>4
<1> QED
  BY <1>3, <1>4

\* Await keeps every variable in its type and every goroutine in shape.
LEMMA AwaitType ==
  ASSUME TypeInv, NEW p \in Proc, Await(p)
  PROVE  TypeInv'
<1> USE DEF TypeInv, TypeOK, vars, devVars, cfgVars, repVars, chanVars, callVars, readVars
<1>1. DeviceTypeOK'
  BY DEF Await, DeviceTypeOK
<1>2. ObjectTypeOK'
  BY DEF Await, ObjectTypeOK
<1>3. GoroutineTypeOK'
  BY DEF Await, GoTo, GoroutineTypeOK, Labels
<1>4. Shape(p)'
  BY DEF Await, GoTo, GoroutineTypeOK, Shape, Polls, Reading
<1>5. \A q \in Proc : q # p => Shape(q)'
  BY ShapeFrame DEF Await, GoTo, GoroutineTypeOK
<1> QED
  BY <1>1, <1>2, <1>3, <1>4, <1>5

\* AwaitFails keeps every variable in its type and every goroutine in shape.
LEMMA AwaitFailsType ==
  ASSUME TypeInv, NEW p \in Proc, AwaitFails(p)
  PROVE  TypeInv'
<1> USE DEF TypeInv, TypeOK, vars, devVars, cfgVars, repVars, chanVars, callVars, readVars
<1>1. DeviceTypeOK'
  BY DEF AwaitFails, DeviceTypeOK
<1>2. ObjectTypeOK'
  BY DEF AwaitFails, ObjectTypeOK
<1>3. Return(p) /\ rep' = rep /\ stages' = stages /\ out' = out
  BY DEF AwaitFails
<1>4. GoroutineTypeOK'
  BY <1>3, ReturnStep DEF GoroutineTypeOK
<1>5. \A q \in Proc : Shape(q)'
  BY <1>3, ReturnShape
<1> QED
  BY <1>1, <1>2, <1>4, <1>5

-----------------------------------------------------------------------------
(* The Wiimote, the beginning, and the theorem *)

\* A data report has the type of a report.
LEMMA ReportType ==
  ASSUME NEW id \in Modes \cup {"0x20", "0x3f"}, NEW btn \in SUBSET Keys, NEW val \in Nat
  PROVE  Report(id, btn, val) \in Reports
  BY DEF Report, Reports, ReportIds, Modes

\* The answer to a request has the type of a report.
LEMMA AnswerType ==
  ASSUME NEW a \in Asked, NEW btn \in SUBSET Keys, NEW good \in BOOLEAN
  PROVE  Answer(a, btn, good) \in Reports
  BY ProcAssumption DEF Answer, Asked, Reports, ReportIds, Rids, AckRids

\* The buffer of the kernel keeps its type and its bound.
LEMMA TransmitType ==
  ASSUME rx \in Seq(Reports), Len(rx) <= RxCap, NEW r \in Reports, Transmit(r)
  PROVE  rx' \in Seq(Reports) /\ Len(rx') <= RxCap
<1>1. CASE Len(rx) < RxCap /\ rx' = Append(rx, r)
  BY <1>1, AppendSeq, CapAssumption
<1>2. CASE rx' = rx
  BY <1>2
<1> QED
  BY <1>1, <1>2 DEF Transmit

\* The Wiimote and the link keep the invariant.
LEMMA DeviceType ==
  ASSUME TypeInv, Device
  PROVE  TypeInv'
<1> USE DEF TypeInv, TypeOK, vars, devVars, cfgVars, repVars, chanVars, callVars, readVars
<1>1. ObjectTypeOK' /\ GoroutineTypeOK'
  BY DEF Device, DeviceAnswer, DeviceReport, DeviceStatus, LinkFails, ObjectTypeOK, GoroutineTypeOK
<1>2. \A q \in Proc : Shape(q)'
  BY ShapeFrame DEF Device, DeviceAnswer, DeviceReport, DeviceStatus, LinkFails
<1>3. DeviceTypeOK'
  <2>1. CASE DeviceAnswer
    <3>1. inbox \in Seq(Asked) /\ inbox # <<>>
      BY <2>1 DEF DeviceAnswer, DeviceTypeOK
    <3>2. Head(inbox) \in Asked /\ Tail(inbox) \in Seq(Asked)
      BY <3>1, TailSeq
    <3>3. rx' \in Seq(Reports) /\ Len(rx') <= RxCap
      BY <2>1, <3>2, AnswerType, TransmitType DEF DeviceAnswer, DeviceTypeOK
    <3> QED
      BY <2>1, <3>2, <3>3 DEF DeviceAnswer, DeviceTypeOK
  <2>2. CASE DeviceReport
    <3>1. PICK btn \in SUBSET Keys :
            /\ held' = btn
            /\ IF devMode = "0x3e"
               THEN Transmit(Report(IF phase % 2 = 0 THEN "0x3e" ELSE "0x3f", btn, phase \div 2))
               ELSE Transmit(Report(devMode, btn, 0))
      BY <2>2 DEF DeviceReport
    <3>2. /\ phase \div 2 \in Nat /\ phase' \in 0 .. 3 /\ devMode \in Modes
          /\ (IF phase % 2 = 0 THEN "0x3e" ELSE "0x3f") \in Modes \cup {"0x20", "0x3f"}
      BY <2>2 DEF DeviceReport, DeviceTypeOK, Modes
    <3>3. rx' \in Seq(Reports) /\ Len(rx') <= RxCap
      BY <3>1, <3>2, ReportType, TransmitType DEF DeviceTypeOK
    <3> QED
      BY <2>2, <3>1, <3>2, <3>3 DEF DeviceReport, DeviceTypeOK
  <2>3. CASE DeviceStatus
    <3>1. Report("0x20", held, lights) \in Reports
      BY ReportType DEF DeviceTypeOK
    <3>2. rx' \in Seq(Reports) /\ Len(rx') <= RxCap
      BY <2>3, <3>1, TransmitType DEF DeviceStatus, DeviceTypeOK
    <3> QED
      BY <2>3, <3>2 DEF DeviceStatus, DeviceTypeOK
  <2>4. CASE LinkFails
    BY <2>4, FaultAssumption DEF LinkFails, DeviceTypeOK
  <2> QED
    BY <2>1, <2>2, <2>3, <2>4 DEF Device
<1> QED
  BY <1>1, <1>2, <1>3

\* The invariant holds of a new device object.
LEMMA InitType == Init => TypeInv
<1> SUFFICES ASSUME Init PROVE TypeInv
  OBVIOUS
<1>0. /\ {EventCap, MemCap, RxCap} \subseteq Nat
      /\ \A S : <<>> \in Seq(S)
      /\ Len(<<>>) = 0
  BY CapAssumption
<1>1. DeviceTypeOK
  <2>1. rx \in Seq(Reports) /\ Len(rx) <= RxCap /\ inbox \in Seq(Asked)
    BY <1>0 DEF Init
  <2>2. link \in {"up", "eof", "err"} /\ held \in SUBSET Keys
    BY DEF Init
  <2>3. devMode \in Modes /\ phase \in 0 .. 3
    BY DEF Init, Modes
  <2>4. motor \in BOOLEAN /\ lights \in Nat
    BY DEF Init
  <2> QED
    BY <2>1, <2>2, <2>3, <2>4 DEF DeviceTypeOK
<1>2. ObjectTypeOK
  <2>1. /\ memory \in Seq({r \in Reports : r.id = "0x21"}) /\ Len(memory) <= MemCap
        /\ moreEvents \in Seq(Events) /\ Len(moreEvents) <= EventCap
    BY <1>0 DEF Init
  <2>2. ackErr \in [AckRids -> Proc \cup {None}]
    BY DEF Init
  <2>3. /\ openIfs \in SUBSET (Kinds \cup {"core"}) /\ irfull \in BOOLEAN
        /\ rumble \in BOOLEAN /\ led \in Nat /\ btnPrev \in SUBSET Keys
        /\ interleaved \in Nat /\ wait \in BOOLEAN /\ seen \in SUBSET (Keys \cup {0})
    BY DEF Init
  <2> QED
    BY <2>1, <2>2, <2>3 DEF ObjectTypeOK
<1>3. NoReport \in Reports
  BY DEF NoReport, Report, Reports, ReportIds
<1>4. GoroutineTypeOK
  BY <1>3 DEF Init, GoroutineTypeOK, Labels
<1>5. \A p \in Proc : Shape(p)
  BY DEF Init, Shape, Reading
<1> QED
  BY <1>1, <1>2, <1>4, <1>5 DEF TypeInv, TypeOK

\* The start of a call keeps the invariant.
LEMMA CallType ==
  ASSUME TypeInv, NEW p \in Proc, Call(p)
  PROVE  TypeInv'
<1>1. ASSUME NEW call \in Polls, StartPoll(p, call) PROVE TypeInv'
  BY <1>1, StartPollType
<1>2. ASSUME NEW ifs \in SUBSET Kinds, OpenFeatures(p, ifs) \/ CloseFeature(p, ifs)
      PROVE  TypeInv'
  BY <1>2, OpenFeaturesType, CloseFeatureType
<1> QED
  BY <1>1, <1>2, SetLEDType, RumbleType, SetIRFullType, ReadAtType, WriteAtType
  DEF Call, Polls

\* A step inside a call keeps the invariant.
LEMMA StepType ==
  ASSUME TypeInv, NEW p \in Proc, Step(p)
  PROVE  TypeInv'
<1>1. CASE Output(p)
  BY <1>1, UpdateReportModeType, ComposeType, ForgetType, SendType, SendFailsType,
     CheckType, ReplyType DEF Output
<1>2. CASE ReadEvent(p)
  BY <1>2, WaitReadableType, ReadType, GoneType, StatusType, MemoryReplyType, AckType,
     ButtonsType, PressType, KeyOutType, AccelOutType, StoreType, PairType, IROutType
  DEF ReadEvent
<1>3. CASE PollStep(p)
  BY <1>3, TakeType, MoreType, FirstType, WouldBlockType, AwaitType, AwaitFailsType
  DEF PollStep
<1> QED
  BY <1>1, <1>2, <1>3 DEF Step

\* The invariant is inductive.
LEMMA NextType == TypeInv /\ [Next]_vars => TypeInv'
<1> SUFFICES ASSUME TypeInv, [Next]_vars PROVE TypeInv'
  OBVIOUS
<1>1. CASE UNCHANGED vars
  BY <1>1 DEF vars, devVars, cfgVars, repVars, chanVars, callVars, readVars,
              TypeInv, TypeOK, DeviceTypeOK, ObjectTypeOK, GoroutineTypeOK, Shape
<1>2. CASE Next
  BY <1>2, DeviceType, CallType, StepType DEF Next
<1> QED
  BY <1>1, <1>2

(* Every variable keeps to its values, whatever the goroutines do and however *)
(* the Wiimote answers: no channel and no buffer holds more than its capacity,*)
(* every filed answer has an owner, every label finds the data it works on.   *)
THEOREM TypeInvariant == Spec => []TypeInv
  BY InitType, NextType, PTL DEF Spec

\* The values of every variable, at all times: channels and buffers keep to their
\* capacities whatever the goroutines of the driver do.
THEOREM TypeCorrect == Spec => []TypeOK
<1>1. TypeInv => TypeOK
  BY DEF TypeInv
<1> QED
  BY <1>1, TypeInvariant, PTL

=============================================================================
