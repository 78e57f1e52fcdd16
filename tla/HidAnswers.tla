------------------------------ MODULE HidAnswers ------------------------------
(* Proofs that no request gets a stale answer and that no answer is lost,     *)
(* however many goroutines read each other's reports, and that the driver so  *)
(* implements Answers.                                                        *)
EXTENDS HidTypes

\* The labels before a request is sent.
Unsent == {"idle", "mode", "compose", "forget", "send"}

(* Who waits for what *)

\* What a goroutine waits for is a request that its calls send.
LEMMA WantsType ==
  ASSUME TypeInv, NEW p \in Proc
  PROVE  /\ Wants(p) \in Rids \cup {"none"}
         /\ Awaiting(p) <=> Wants(p) # "none"
         /\ Wants(p) # "none" => Wants(p) \in RidsOf(p)
<1>1. CASE ~Awaiting(p)
  BY <1>1 DEF Wants
<1>2. CASE Awaiting(p)
  <2>1. todo[p] \in Seq(Requests) /\ todo[p] # <<>>
    BY <1>2 DEF Awaiting, TypeInv, TypeOK, GoroutineTypeOK
  <2>2. 1 \in 1 .. Len(todo[p]) /\ todo[p][1] \in Requests
    BY <2>1
  <2>3. todo[p][1].rid \in Rids
    BY <2>2 DEF Requests
  <2>4. todo[p][1].rid \in OpRids(op[p]) /\ op[p] \in Work[p] \cup {"none"}
    BY <2>2 DEF TypeInv, Shape
  <2>5. todo[p][1].rid \in RidsOf(p)
    <3>1. op[p] # "none"
      BY <2>4 DEF OpRids
    <3> QED
      BY <2>4, <3>1 DEF RidsOf
  <2>6. "none" \notin Rids
    BY DEF Rids, AckRids
  <2> QED
    BY <1>2, <2>3, <2>5, <2>6 DEF Wants
<1> QED
  BY <1>1, <1>2

\* No two goroutines wait for the same request.
LEMMA OneWaiter ==
  ASSUME TypeInv, OneCaller, NEW p \in Proc, NEW q \in Proc,
         Wants(p) = Wants(q), Wants(p) # "none"
  PROVE  p = q
  BY WantsType DEF OneCaller

\* Poll, Wait and no call at all have no request.
LEMMA IdleTodo ==
  ASSUME TypeInv, NEW p \in Proc, op[p] \in Polls \cup {"none"}
  PROVE  todo[p] = <<>>
<1>1. todo[p] \in Seq(Requests)
  BY DEF TypeInv, TypeOK, GoroutineTypeOK
<1>2. OpRids(op[p]) = {}
  BY DEF OpRids, Polls
<1>3. \A i \in 1 .. Len(todo[p]) : FALSE
  BY <1>2 DEF TypeInv, Shape
<1> QED
  BY <1>1, <1>3

\* A step of p that leaves what p wants as it is.
LEMMA WantsSame ==
  ASSUME NEW p \in Proc,
         \/ pc[p] \in Unsent /\ pc'[p] \in Unsent
         \/ pc[p] \notin Unsent /\ pc'[p] \notin Unsent /\ todo'[p] = todo[p]
         \/ todo[p] = <<>> /\ todo'[p] = <<>>
  PROVE  Wants(p)' = Wants(p)
  BY DEF Wants, Awaiting, Unsent

\* A goroutine that does not move wants and holds what it did.
LEMMA OthersSame ==
  ASSUME NEW q \in Proc, pc'[q] = pc[q], todo'[q] = todo[q],
         stages'[q] = stages[q], rep'[q] = rep[q]
  PROVE  Wants(q)' = Wants(q) /\ (Holds(q)' <=> Holds(q))
  BY DEF Wants, Awaiting, Holds

\* Every answer, wherever it is, belongs to a goroutine.
LEMMA TokenOwners ==
  ASSUME TypeInv
  PROVE  /\ \A i \in 1 .. Len(inbox) :
              inbox[i].of \in Proc /\ inbox[i].rid \in AckRids \cup {"0x17"}
         /\ \A i \in 1 .. Len(rx) :
              /\ rx[i].of \in Proc \cup {None}
              /\ rx[i].of # None => rx[i].re \in AckRids \cup {"0x17"} /\ rx[i].id \in {"0x21", "0x22"}
         /\ \A q \in Proc : Holds(q) =>
              rep[q].of \in Proc /\ rep[q].re \in AckRids \cup {"0x17"}
         /\ \A rid \in AckRids : ackErr[rid] \in Proc \cup {None}
         /\ \A i \in 1 .. Len(memory) : memory[i].of \in Proc /\ memory[i].re = "0x17"
<1> USE DEF TypeInv, TypeOK
<1>1. \A i \in 1 .. Len(inbox) :
        inbox[i].of \in Proc /\ inbox[i].rid \in AckRids \cup {"0x17"}
  <2>1. \A i \in 1 .. Len(inbox) : inbox[i] \in Asked
    BY DEF DeviceTypeOK
  <2> QED
    BY <2>1 DEF Asked
<1>2. \A i \in 1 .. Len(rx) :
        /\ rx[i].of \in Proc \cup {None}
        /\ rx[i].of # None => rx[i].re \in AckRids \cup {"0x17"} /\ rx[i].id \in {"0x21", "0x22"}
  <2>1. \A i \in 1 .. Len(rx) : rx[i] \in Reports
    BY DEF DeviceTypeOK
  <2> QED
    BY <2>1 DEF Reports
<1>3. \A q \in Proc : Holds(q) => rep[q].of \in Proc /\ rep[q].re \in AckRids \cup {"0x17"}
  <2> SUFFICES ASSUME NEW q \in Proc, Holds(q)
               PROVE  rep[q].of \in Proc /\ rep[q].re \in AckRids \cup {"0x17"}
    OBVIOUS
  <2>1. rep[q] \in Reports /\ rep[q].id \in {"0x21", "0x22"}
    BY DEF GoroutineTypeOK, Shape, Holds
  <2> QED
    BY <2>1 DEF Reports
<1>4. \A rid \in AckRids : ackErr[rid] \in Proc \cup {None}
  BY DEF ObjectTypeOK
<1>5. \A i \in 1 .. Len(memory) : memory[i].of \in Proc /\ memory[i].re = "0x17"
  <2>1. \A i \in 1 .. Len(memory) : memory[i] \in Reports /\ memory[i].id = "0x21"
    BY DEF ObjectTypeOK
  <2> QED
    BY <2>1 DEF Reports
<1> QED
  BY <1>1, <1>2, <1>3, <1>4, <1>5

\* WantsType after a step.
LEMMA WantsNext ==
  ASSUME TypeInv', NEW p \in Proc
  PROVE  Awaiting(p)' <=> Wants(p)' # "none"
<1>1. CASE ~Awaiting(p)'
  BY <1>1 DEF Wants
<1>2. CASE Awaiting(p)'
  <2>1. (todo[p])' \in Seq(Requests) /\ (todo[p])' # <<>>
    BY <1>2 DEF Awaiting, TypeInv, TypeOK, GoroutineTypeOK
  <2>2. (todo[p])'[1] \in Requests
    BY <2>1
  <2>3. (todo[p])'[1].rid \in Rids
    BY <2>2 DEF Requests
  <2>6. "none" \notin Rids
    BY DEF Rids, AckRids
  <2> QED
    BY <1>2, <2>3, <2>6 DEF Wants
<1> QED
  BY <1>1, <1>2

-----------------------------------------------------------------------------
(* Steps that move no answer *)

\* The step moves no answer and changes no wish.
Quietly ==
  /\ rx' = rx /\ inbox' = inbox /\ ackErr' = ackErr /\ memory' = memory
  /\ \A q \in Proc : Wants(q)' = Wants(q) /\ (Holds(q)' <=> Holds(q))
  /\ \A q \in Proc : Holds(q) => rep'[q] = rep[q]

\* Such a step keeps the invariant.
LEMMA Still ==
  ASSUME TypeInv, TypeInv', AnswerInv, Quietly
  PROVE  AnswerInv'
<1> USE DEF Quietly
<1> SUFFICES ASSUME OneCaller PROVE
      /\ AnswersApart'
      /\ \A p \in Proc : AnswersMatch(p)' /\ OnePlace(p)'
      /\ "drop" \notin Faults => \A p \in Proc : Awaiting(p)' => SomePlace(p)'
  BY DEF AnswerInv
<1>0. AnswersApart /\ \A p \in Proc : AnswersMatch(p) /\ OnePlace(p)
  BY DEF AnswerInv
<1>1. ASSUME NEW p \in Proc PROVE AnswersMatch(p)'
  <2>1. AnswersMatch(p)
    BY <1>0
  <2> QED
    BY <2>1 DEF AnswersMatch
<1>2. AnswersApart'
  BY <1>0 DEF AnswersApart
<1>3. ASSUME NEW p \in Proc
      PROVE  /\ AtDevice(p)' <=> AtDevice(p)
             /\ AtBuffer(p)' <=> AtBuffer(p)
             /\ AtReader(p)' <=> AtReader(p)
             /\ AtAcks(p)' <=> AtAcks(p)
             /\ AtMemory(p)' <=> AtMemory(p)
  <2>1. AtDevice(p)' <=> AtDevice(p)
    BY DEF AtDevice
  <2>2. AtBuffer(p)' <=> AtBuffer(p)
    BY DEF AtBuffer
  <2>3. AtReader(p)' <=> AtReader(p)
    BY DEF AtReader
  <2>4. AtAcks(p)' <=> AtAcks(p)
    BY DEF AtAcks
  <2>5. AtMemory(p)' <=> AtMemory(p)
    BY DEF AtMemory
  <2> QED
    BY <2>1, <2>2, <2>3, <2>4, <2>5
<1>4. ASSUME NEW p \in Proc PROVE OnePlace(p)'
  <2>1. OnePlace(p)
    BY <1>0
  <2> QED
    BY <1>3, <2>1 DEF OnePlace
<1>5. ASSUME "drop" \notin Faults, NEW p \in Proc, Awaiting(p)' PROVE SomePlace(p)'
  <2>1. Awaiting(p)
    BY <1>5, WantsType, WantsNext
  <2>2. SomePlace(p)
    BY <1>5, <2>1 DEF AnswerInv
  <2> QED
    BY <1>3, <2>2 DEF SomePlace
<1> QED
  BY <1>1, <1>2, <1>4, <1>5

\* The same for a step of p in which p holds no answer.
LEMMA Quiet ==
  ASSUME TypeInv, NEW p \in Proc,
         rx' = rx, inbox' = inbox, ackErr' = ackErr, memory' = memory,
         \A q \in Proc : q # p => /\ pc'[q] = pc[q] /\ todo'[q] = todo[q]
                                   /\ stages'[q] = stages[q] /\ rep'[q] = rep[q],
         Wants(p)' = Wants(p), ~Holds(p), ~Holds(p)'
  PROVE  Quietly
<1>1. \A q \in Proc : Wants(q)' = Wants(q) /\ (Holds(q)' <=> Holds(q))
  BY OthersSame
<1>2. \A q \in Proc : Holds(q) => rep'[q] = rep[q]
  OBVIOUS
<1> QED
  BY <1>1, <1>2 DEF Quietly

\* The start of a call moves no answer.
LEMMA CallQuiet ==
  ASSUME TypeInv, NEW p \in Proc, Call(p)
  PROVE  Quietly
<1> DEFINE Q == /\ rx' = rx /\ inbox' = inbox /\ ackErr' = ackErr /\ memory' = memory
                /\ stages' = stages /\ rep' = rep /\ pc[p] = "idle"
                /\ \A q \in Proc : q # p => pc'[q] = pc[q] /\ todo'[q] = todo[q]
                /\ \/ pc'[p] \in Unsent
                   \/ pc'[p] \in {"first", "await"} /\ todo'[p] = todo[p]
<1>1. ASSUME NEW call \in Polls, StartPoll(p, call) PROVE Q
  BY <1>1 DEF StartPoll, GoTo, Unsent, TypeInv, TypeOK, GoroutineTypeOK, devVars, cfgVars, repVars, chanVars, callVars, readVars
<1>2. ASSUME NEW leds \in Lights, SetLED(p, leds) PROVE Q
  BY <1>2 DEF SetLED, Begin, GoTo, Unsent, TypeInv, TypeOK, GoroutineTypeOK, devVars, cfgVars, repVars, chanVars, callVars, readVars
<1>3. ASSUME NEW state \in BOOLEAN, Rumble(p, state) PROVE Q
  BY <1>3 DEF Rumble, Begin, GoTo, Unsent, TypeInv, TypeOK, GoroutineTypeOK, devVars, cfgVars, repVars, chanVars, callVars, readVars
<1>4. ASSUME NEW ifs \in SUBSET Kinds, OpenFeatures(p, ifs) PROVE Q
  BY <1>4 DEF OpenFeatures, ChangeFeatures, GoTo, Unsent, TypeInv, TypeOK, GoroutineTypeOK, devVars, cfgVars, repVars, chanVars, callVars, readVars
<1>5. ASSUME NEW ifs \in SUBSET Kinds, CloseFeature(p, ifs) PROVE Q
  BY <1>5 DEF CloseFeature, ChangeFeatures, GoTo, Unsent, TypeInv, TypeOK, GoroutineTypeOK, devVars, cfgVars, repVars, chanVars, callVars, readVars
<1>6. ASSUME SetIRFull(p) PROVE Q
  BY <1>6 DEF SetIRFull, Unsent, TypeInv, TypeOK, GoroutineTypeOK, devVars, cfgVars, repVars, chanVars, callVars, readVars
<1>7. ASSUME NEW chunks \in Reads, ReadAt(p, chunks) PROVE Q
  BY <1>7 DEF ReadAt, Begin, GoTo, Unsent, TypeInv, TypeOK, GoroutineTypeOK, devVars, cfgVars, repVars, chanVars, callVars, readVars
<1>8. ASSUME WriteAt(p) PROVE Q
  BY <1>8 DEF WriteAt, Begin, GoTo, Unsent, TypeInv, TypeOK, GoroutineTypeOK, devVars, cfgVars, repVars, chanVars, callVars, readVars
<1>9. Q
  <2> HIDE DEF Q
  <2> QED
    BY <1>1, <1>2, <1>3, <1>4, <1>5, <1>6, <1>7, <1>8 DEF Call, Polls
<1>10. Wants(p)' = Wants(p)
  <2>1. CASE pc'[p] \in Unsent
    BY <1>9, <2>1, WantsSame DEF Unsent
  <2>2. CASE todo'[p] = todo[p]
    <3>1. op[p] = "none"
      BY <1>9 DEF TypeInv, Shape
    <3>2. todo[p] = <<>>
      BY <3>1, IdleTodo
    <3> QED
      BY <2>2, <3>2, WantsSame
  <2> QED
    BY <1>9, <2>1, <2>2
<1>11. ~Holds(p) /\ ~Holds(p)'
  BY <1>9 DEF Holds, Unsent
<1> QED
  BY <1>9, <1>10, <1>11, Quiet

\* A step of p before its request is sent.
LEMMA UnsentQuiet ==
  ASSUME TypeInv, NEW p \in Proc,
         rx' = rx, inbox' = inbox, ackErr' = ackErr, memory' = memory,
         stages' = stages, rep' = rep,
         \A q \in Proc : q # p => pc'[q] = pc[q] /\ todo'[q] = todo[q],
         pc[p] \in Unsent, pc'[p] \in Unsent
  PROVE  Quietly
<1>1. Wants(p)' = Wants(p)
  BY WantsSame
<1>2. ~Holds(p) /\ ~Holds(p)'
  BY DEF Holds, Unsent
<1> QED
  BY <1>1, <1>2, Quiet

\* Nor does output before its write, nor a write that fails.
LEMMA PreparationQuiet ==
  ASSUME TypeInv, NEW p \in Proc, UpdateReportMode(p) \/ Compose(p) \/ SendFails(p)
  PROVE  Quietly
<1>1. GoroutineTypeOK /\ (pc[p] = "send" => todo[p] # <<>>)
  BY DEF TypeInv, TypeOK, Shape
<1>2. rx' = rx /\ inbox' = inbox /\ ackErr' = ackErr /\ memory' = memory
      /\ stages' = stages /\ rep' = rep /\ pc[p] \in Unsent
  BY DEF UpdateReportMode, Compose, SendFails, Unsent, devVars, cfgVars, repVars, chanVars, callVars, readVars
<1>3. /\ \A q \in Proc : q # p => pc'[q] = pc[q] /\ todo'[q] = todo[q]
      /\ pc'[p] \in Unsent
  <2>1. CASE UpdateReportMode(p)
    BY <1>1, <2>1, ReturnStep DEF UpdateReportMode, GoTo, GoroutineTypeOK, Unsent
  <2>2. CASE Compose(p)
    BY <1>1, <2>2 DEF Compose, GoTo, GoroutineTypeOK, Unsent
  <2>3. CASE SendFails(p)
    BY <1>1, <2>3, ReturnStep, NextRequestStep DEF SendFails, Unsent
  <2> QED
    BY <2>1, <2>2, <2>3
<1> QED
  BY <1>2, <1>3, UnsentQuiet

\* The delete in output finds nothing to delete.
LEMMA ForgetQuiet ==
  ASSUME TypeInv, AnswerInv, OneCaller, NEW p \in Proc, Forget(p)
  PROVE  Quietly
<1>1. /\ GoroutineTypeOK /\ todo[p] \in Seq(Requests) /\ todo[p] # <<>> /\ pc[p] = "forget"
      /\ rx' = rx /\ inbox' = inbox /\ memory' = memory
      /\ stages' = stages /\ rep' = rep /\ pc' = [pc EXCEPT ![p] = "send"] /\ todo' = todo
      /\ ackErr' = [ackErr EXCEPT ![todo[p][1].rid] = None]
  BY DEF Forget, GoTo, TypeInv, TypeOK, GoroutineTypeOK, Shape, devVars, cfgVars, repVars, chanVars, callVars, readVars
<1>2. Quietly
  <2> DEFINE rid == todo[p][1].rid
  <2>1. 1 \in 1 .. Len(todo[p])
    BY <1>1
  <2>2. rid \in OpRids(op[p]) /\ op[p] \in Work[p]
    BY <1>1, <2>1 DEF TypeInv, Shape
  <2>3. rid \in RidsOf(p) /\ rid # "none"
    BY <2>2 DEF RidsOf, OpRids
  <2>4. Wants(p) = "none"
    BY <1>1 DEF Wants, Awaiting
  <2>5. ASSUME rid \in AckRids PROVE ackErr[rid] = None
    <3>1. ASSUME ackErr[rid] # None PROVE FALSE
      <4>1. ackErr[rid] \in Proc /\ Wants(ackErr[rid]) = rid
        BY <2>5, <3>1, TokenOwners DEF AnswerInv, AnswersMatch
      <4>2. rid \in RidsOf(ackErr[rid])
        BY <2>3, <4>1, WantsType
      <4>3. ackErr[rid] = p
        BY <2>3, <4>1, <4>2 DEF OneCaller
      <4> QED
        BY <2>3, <2>4, <4>1, <4>3
    <3> QED
      BY <3>1
  <2>6. ackErr' = ackErr
    <3>1. ackErr \in [AckRids -> Proc \cup {None}]
      BY DEF TypeInv, TypeOK, ObjectTypeOK
    <3> HIDE DEF rid
    <3> QED
      BY <1>1, <2>5, <3>1 DEF rid
  <2> QED
    BY <1>1, <2>6, UnsentQuiet DEF Unsent, GoroutineTypeOK
<1> QED
  BY <1>2

(* The steps of readEvent that handle no answer *)

\* Only the first stage of a report files an answer.
LEMMA LaterStages ==
  ASSUME TypeInv, NEW p \in Proc, stages[p] # <<>>, stages'[p] = Tail(stages[p]), stages'[p] # <<>>
  PROVE  Head(stages'[p]) \notin {"ack", "memory"}
<1>1. stages[p] \in Seq(StageNames)
  BY DEF TypeInv, TypeOK, GoroutineTypeOK
<1>2. \A i \in 2 .. Len(stages[p]) : stages[p][i] \notin {"status", "memory", "ack"}
  BY DEF TypeInv, Shape
<1>3. Len(stages[p]) >= 2 /\ Head(Tail(stages[p])) = stages[p][2] /\ Len(stages[p]) \in Nat
  BY <1>1
<1> QED
  BY <1>2, <1>3

\* readEvent returns to a goroutine that still waits.
LEMMA BackSent ==
  ASSUME NEW p \in Proc
  PROVE  Back(p) \notin Unsent /\ Back(p) # "handle"
  BY DEF Back, Unsent

\* The end of a stage concerns its goroutine alone, which then holds no answer.
LEMMA StageMoves ==
  ASSUME TypeInv, NEW p \in Proc, pc[p] \in {"handle", "keys"}, StageDone(p), todo' = todo
  PROVE  /\ \A q \in Proc : q # p => /\ pc'[q] = pc[q] /\ todo'[q] = todo[q]
                                     /\ stages'[q] = stages[q] /\ rep'[q] = rep[q]
         /\ Wants(p)' = Wants(p) /\ ~Holds(p)'
<1>1. GoroutineTypeOK /\ stages[p] # <<>>
  BY DEF TypeInv, TypeOK, Shape
<1>2. /\ \A q \in Proc : q # p => /\ pc'[q] = pc[q] /\ todo'[q] = todo[q]
                                  /\ stages'[q] = stages[q] /\ rep'[q] = rep[q]
      /\ stages'[p] = Tail(stages[p])
      /\ pc'[p] = "handle" \/ pc'[p] = Back(p)
  BY <1>1, StageDoneStep
<1>3. Wants(p)' = Wants(p)
  BY <1>2, BackSent, WantsSame DEF Unsent
<1>4. ~Holds(p)'
  BY <1>1, <1>2, BackSent, LaterStages DEF Holds
<1> QED
  BY <1>2, <1>3, <1>4

\* The end of a stage that files no answer.
LEMMA StageQuiet ==
  ASSUME TypeInv, NEW p \in Proc, StageDone(p), todo' = todo,
         rx' = rx, inbox' = inbox, ackErr' = ackErr, memory' = memory,
         \/ pc[p] = "keys"
         \/ pc[p] = "handle" /\ Head(stages[p]) \notin {"ack", "memory"}
  PROVE  Quietly
<1>1. ~Holds(p)
  BY DEF Holds
<1> QED
  BY <1>1, StageMoves, Quiet

\* A step of p inside readEvent that keeps its stages.
LEMMA SentQuiet ==
  ASSUME TypeInv, NEW p \in Proc,
         rx' = rx, inbox' = inbox, ackErr' = ackErr, memory' = memory, todo' = todo,
         stages' = stages, rep' = rep,
         \A q \in Proc : q # p => pc'[q] = pc[q],
         pc[p] \notin Unsent, pc'[p] \notin Unsent, ~Holds(p), pc'[p] # "handle"
  PROVE  Quietly
<1>1. Wants(p)' = Wants(p)
  BY WantsSame
<1>2. ~Holds(p)'
  BY DEF Holds
<1> QED
  BY <1>1, <1>2, Quiet

\* The steps of readEvent that only make events or store data.
LEMMA ReadEventQuiet ==
  ASSUME TypeInv, NEW p \in Proc, WaitReadable(p) \/ Gone(p) \/ Status(p) \/ Buttons(p) \/ Press(p)
           \/ KeyOut(p) \/ AccelOut(p) \/ Store(p) \/ Pair(p) \/ IROut(p)
  PROVE  Quietly
<1> USE DEF devVars, cfgVars, repVars, chanVars, callVars, readVars
<1>0. pc \in [Proc -> Labels] /\ stages \in [Proc -> Seq(StageNames)] /\ rep \in [Proc -> Reports]
  BY DEF TypeInv, TypeOK, GoroutineTypeOK
<1>1. CASE WaitReadable(p) \/ Gone(p) \/ Press(p)
  <2>1. /\ rx' = rx /\ inbox' = inbox /\ ackErr' = ackErr /\ memory' = memory /\ todo' = todo
        /\ stages' = stages /\ rep' = rep /\ pc[p] \in {"poll", "gone", "press"}
        /\ \A q \in Proc : q # p => pc'[q] = pc[q]
        /\ pc'[p] \in {"read", "keys", Back(p)}
    BY <1>0, <1>1 DEF WaitReadable, Gone, Press, GoTo
  <2>2. pc[p] \notin Unsent /\ ~Holds(p) /\ pc'[p] \notin Unsent /\ pc'[p] # "handle"
    BY <2>1, BackSent DEF Unsent, Holds
  <2> QED
    BY <2>1, <2>2, SentQuiet
<1>2. CASE Status(p) \/ AccelOut(p) \/ Store(p) \/ IROut(p)
  <2>1. /\ rx' = rx /\ inbox' = inbox /\ ackErr' = ackErr /\ memory' = memory /\ todo' = todo
        /\ StageDone(p) /\ pc[p] = "handle" /\ Head(stages[p]) \notin {"ack", "memory"}
    BY <1>2 DEF Status, AccelOut, Store, IROut, AtStage
  <2> QED
    BY <2>1, StageQuiet
<1>3. CASE Buttons(p)
  <2>1. /\ rx' = rx /\ inbox' = inbox /\ ackErr' = ackErr /\ memory' = memory /\ todo' = todo
        /\ pc[p] = "handle" /\ Head(stages[p]) \notin {"ack", "memory"}
        /\ \/ StageDone(p)
           \/ pc' = [pc EXCEPT ![p] = "press"] /\ rep' = rep /\ stages' = stages
    BY <1>3 DEF Buttons, AtStage, GoTo
  <2>2. CASE StageDone(p)
    BY <2>1, <2>2, StageQuiet
  <2>3. CASE pc' = [pc EXCEPT ![p] = "press"] /\ rep' = rep /\ stages' = stages
    <3>1. /\ \A q \in Proc : q # p => pc'[q] = pc[q]
          /\ pc[p] \notin Unsent /\ pc'[p] \notin Unsent /\ pc'[p] # "handle" /\ ~Holds(p)
      BY <1>0, <2>1, <2>3 DEF Unsent, Holds
    <3> QED
      BY <2>1, <2>3, <3>1, SentQuiet
  <2> QED
    BY <2>1, <2>2, <2>3
<1>4. CASE KeyOut(p)
  <2>1. /\ rx' = rx /\ inbox' = inbox /\ ackErr' = ackErr /\ memory' = memory /\ todo' = todo /\ pc[p] = "keys"
        /\ StageDone(p) \/ UNCHANGED <<pc, rep, stages>>
    BY <1>4 DEF KeyOut
  <2>2. CASE StageDone(p)
    BY <2>1, <2>2, StageQuiet
  <2>3. CASE UNCHANGED <<pc, rep, stages>>
    BY <2>1, <2>3, SentQuiet DEF Unsent, Holds
  <2> QED
    BY <2>1, <2>2, <2>3
<1>5. CASE Pair(p)
  <2>1. /\ rx' = rx /\ inbox' = inbox /\ ackErr' = ackErr /\ memory' = memory /\ todo' = todo
        /\ pc[p] = "handle" /\ pc' = pc /\ Head(stages[p]) = "pair"
        /\ stages'[p] = Tail(stages[p])
        /\ \A q \in Proc : q # p => stages'[q] = stages[q] /\ rep'[q] = rep[q]
    BY <1>0, <1>5 DEF Pair, AtStage
  <2>2. stages[p] # <<>>
    BY <2>1 DEF TypeInv, Shape
  <2>3. ~Holds(p) /\ ~Holds(p)'
    BY <2>1, <2>2, LaterStages DEF Holds
  <2>4. Wants(p)' = Wants(p)
    BY <2>1, WantsSame DEF Unsent
  <2> QED
    BY <2>1, <2>3, <2>4, Quiet
<1> QED
  BY <1>1, <1>2, <1>3, <1>4, <1>5

\* Poll and Wait move no answer outside readEvent.
LEMMA PollQuiet ==
  ASSUME TypeInv, NEW p \in Proc, PollStep(p)
  PROVE  Quietly
<1> USE DEF devVars, cfgVars, repVars, chanVars, callVars, readVars
<1>0. GoroutineTypeOK /\ op[p] \in Polls
  BY DEF TypeInv, TypeOK, Shape, PollStep, Take, More, First, WouldBlock, Await, AwaitFails
<1>1. todo[p] = <<>>
  BY <1>0, IdleTodo
<1>2. rx' = rx /\ inbox' = inbox /\ ackErr' = ackErr /\ memory' = memory
      /\ stages' = stages /\ rep' = rep /\ pc[p] # "handle"
  BY DEF PollStep, Take, More, First, WouldBlock, Await, AwaitFails
<1>3. \/ Return(p)
      \/ todo' = todo /\ \E l \in {"more", "poll", "await", "first"} : pc' = [pc EXCEPT ![p] = l]
  BY DEF PollStep, Take, More, First, WouldBlock, Await, AwaitFails, GoTo
<1>4. /\ \A q \in Proc : q # p => pc'[q] = pc[q] /\ todo'[q] = todo[q]
      /\ pc'[p] # "handle" /\ todo'[p] = <<>>
  <2>1. CASE Return(p)
    BY <1>0, <2>1, ReturnStep
  <2>2. CASE todo' = todo /\ \E l \in {"more", "poll", "await", "first"} : pc' = [pc EXCEPT ![p] = l]
    BY <1>0, <1>1, <2>2 DEF GoroutineTypeOK
  <2> QED
    BY <1>3, <2>1, <2>2
<1>5. Wants(p)' = Wants(p)
  BY <1>1, <1>4, WantsSame
<1>6. ~Holds(p) /\ ~Holds(p)'
  BY <1>2, <1>4 DEF Holds
<1> QED
  BY <1>2, <1>4, <1>5, <1>6, Quiet

-----------------------------------------------------------------------------
(* Steps that move an answer *)

\* The items of a tail are those of the sequence but the first.
LEMMA TailItems ==
  ASSUME NEW S, NEW s \in Seq(S), s # <<>>
  PROVE  /\ 1 \in 1 .. Len(s) /\ Head(s) = s[1] /\ Head(s) \in S
         /\ \A i \in 1 .. Len(Tail(s)) :
              /\ Tail(s)[i] = s[i + 1] /\ i + 1 \in 1 .. Len(s) /\ i + 1 # 1
         /\ \A i \in 1 .. Len(s) :
              i # 1 => i - 1 \in 1 .. Len(Tail(s)) /\ Tail(s)[i - 1] = s[i]
<1>1. Len(s) \in Nat /\ Len(s) >= 1 /\ Head(s) = s[1] /\ Head(s) \in S
  BY TailSeq
<1>2. Len(Tail(s)) = Len(s) - 1 /\ \A i \in 1 .. Len(Tail(s)) : Tail(s)[i] = s[i + 1]
  BY TailSeq
<1>3. \A i \in 1 .. Len(Tail(s)) : i + 1 \in 1 .. Len(s) /\ i + 1 # 1
  BY <1>1, <1>2
<1>4. \A i \in 1 .. Len(s) : i # 1 => i - 1 \in 1 .. Len(Tail(s)) /\ Tail(s)[i - 1] = s[i]
  <2> SUFFICES ASSUME NEW i \in 1 .. Len(s), i # 1
               PROVE  i - 1 \in 1 .. Len(Tail(s)) /\ Tail(s)[i - 1] = s[i]
    OBVIOUS
  <2>1. i - 1 \in 1 .. Len(Tail(s)) /\ (i - 1) + 1 = i
    BY <1>1, <1>2
  <2> QED
    BY <1>2, <2>1
<1> QED
  BY <1>1, <1>2, <1>3, <1>4

\* The items of Append are those of the sequence and the new one.
LEMMA AppendItems ==
  ASSUME NEW S, NEW s \in Seq(S), NEW x \in S
  PROVE  /\ \A i \in 1 .. Len(Append(s, x)) :
              \/ i \in 1 .. Len(s) /\ Append(s, x)[i] = s[i]
              \/ i = Len(s) + 1 /\ Append(s, x)[i] = x
         /\ \A i \in 1 .. Len(s) : i \in 1 .. Len(Append(s, x)) /\ Append(s, x)[i] = s[i]
         /\ Len(s) + 1 \in 1 .. Len(Append(s, x)) /\ Append(s, x)[Len(s) + 1] = x
         /\ Len(s) + 1 \notin 1 .. Len(s)
<1>1. Len(s) \in Nat /\ Len(Append(s, x)) = Len(s) + 1
  OBVIOUS
<1> QED
  BY <1>1, AppendSeq

\* Nothing is left over for a goroutine that waits for nothing.
LEMMA NoAnswer ==
  ASSUME TypeInv, AnswerInv, OneCaller, NEW p \in Proc, Wants(p) = "none"
  PROVE  ~AtDevice(p) /\ ~AtBuffer(p) /\ ~AtReader(p) /\ ~AtAcks(p) /\ ~AtMemory(p)
<1>1. AnswersMatch(p) /\ p # None
  BY ProcAssumption DEF AnswerInv
<1>2. "none" \notin AckRids \cup {"0x17"}
  BY DEF AckRids
<1>3. ~AtDevice(p)
  BY <1>1, <1>2, TokenOwners DEF AnswersMatch, AtDevice
<1>4. ~AtBuffer(p)
  BY <1>1, <1>2, TokenOwners DEF AnswersMatch, AtBuffer
<1>5. ~AtReader(p)
  BY <1>1, <1>2, TokenOwners DEF AnswersMatch, AtReader
<1>6. ~AtAcks(p)
  BY <1>1, <1>2, TokenOwners DEF AnswersMatch, AtAcks
<1>7. ~AtMemory(p)
  BY <1>1, <1>2, TokenOwners DEF AnswersMatch, AtMemory
<1> QED
  BY <1>3, <1>4, <1>5, <1>6, <1>7

\* A request creates its answer.
LEMMA Created ==
  ASSUME TypeInv, TypeInv', AnswerInv, OneCaller, NEW p \in Proc, NEW a \in Asked,
         rx' = rx, ackErr' = ackErr, memory' = memory, rep' = rep,
         inbox' = Append(inbox, a), a.of = p,
         \A q \in Proc : q # p => Wants(q)' = Wants(q),
         \A q \in Proc : Holds(q)' <=> Holds(q),
         Wants(p) = "none", Wants(p)' = a.rid
  PROVE  AnswerInv'
<1> SUFFICES ASSUME OneCaller PROVE
      /\ AnswersApart'
      /\ \A r \in Proc : AnswersMatch(r)' /\ OnePlace(r)'
      /\ "drop" \notin Faults => \A r \in Proc : Awaiting(r)' => SomePlace(r)'
  BY DEF AnswerInv
<1>0. /\ AnswersApart /\ \A r \in Proc : AnswersMatch(r) /\ OnePlace(r)
      /\ "drop" \notin Faults => \A r \in Proc : Awaiting(r) => SomePlace(r)
  BY DEF AnswerInv
<1>1. inbox \in Seq(Asked)
  BY DEF TypeInv, TypeOK, DeviceTypeOK
<1>2. ~AtDevice(p) /\ ~AtBuffer(p) /\ ~AtReader(p) /\ ~AtAcks(p) /\ ~AtMemory(p)
  BY NoAnswer
<1>3. /\ \A i \in 1 .. Len(inbox') :
           \/ i \in 1 .. Len(inbox) /\ inbox'[i] = inbox[i]
           \/ i = Len(inbox) + 1 /\ inbox'[i] = a
      /\ \A i \in 1 .. Len(inbox) : i \in 1 .. Len(inbox') /\ inbox'[i] = inbox[i]
      /\ Len(inbox) + 1 \in 1 .. Len(inbox') /\ inbox'[Len(inbox) + 1] = a
  BY <1>1, AppendItems
<1>4. ASSUME NEW r \in Proc
      PROVE  /\ AtDevice(r)' <=> AtDevice(r) \/ r = p
             /\ AtBuffer(r)' <=> AtBuffer(r)
             /\ AtReader(r)' <=> AtReader(r)
             /\ AtAcks(r)' <=> AtAcks(r)
             /\ AtMemory(r)' <=> AtMemory(r)
  <2>1. AtDevice(r)' <=> AtDevice(r) \/ r = p
    BY <1>3 DEF AtDevice
  <2>2. AtBuffer(r)' <=> AtBuffer(r)
    BY DEF AtBuffer
  <2>3. AtReader(r)' <=> AtReader(r)
    BY DEF AtReader
  <2>4. AtAcks(r)' <=> AtAcks(r)
    BY DEF AtAcks
  <2>5. AtMemory(r)' <=> AtMemory(r)
    BY DEF AtMemory
  <2> QED
    BY <2>1, <2>2, <2>3, <2>4, <2>5
<1>6. ASSUME NEW r \in Proc PROVE AnswersMatch(r)'
  <2>1. AnswersMatch(r)
    BY <1>0
  <2>2. CASE r = p
    BY <1>2, <1>3, <2>2
    DEF AnswersMatch, AtDevice, AtBuffer, AtReader, AtAcks, AtMemory
  <2>3. CASE r # p
    BY <1>3, <2>1, <2>3 DEF AnswersMatch
  <2> QED
    BY <2>2, <2>3
<1>7. AnswersApart'
  <2>1. \A i, j \in 1 .. Len(inbox') : inbox'[i].of = inbox'[j].of => i = j
    BY <1>0, <1>2, <1>3 DEF AnswersApart, AtDevice
  <2> QED
    BY <1>0, <2>1 DEF AnswersApart
<1>8. ASSUME NEW r \in Proc PROVE OnePlace(r)'
  <2>1. OnePlace(r)
    BY <1>0
  <2> QED
    BY <1>2, <1>4, <2>1 DEF OnePlace
<1>9. ASSUME "drop" \notin Faults, NEW r \in Proc, Awaiting(r)' PROVE SomePlace(r)'
  <2>1. CASE r = p
    BY <1>4, <2>1 DEF SomePlace
  <2>2. CASE r # p
    <3>1. Awaiting(r)
      BY <1>9, <2>2, WantsType, WantsNext
    <3> QED
      BY <1>0, <1>4, <1>9, <3>1 DEF SomePlace
  <2> QED
    BY <2>1, <2>2
<1> QED
  BY <1>6, <1>7, <1>8, <1>9

\* Send keeps the invariant: it creates the one answer its goroutine has.
LEMMA SendAnswers ==
  ASSUME TypeInv, TypeInv', AnswerInv, NEW p \in Proc, Send(p)
  PROVE  AnswerInv'
<1> DEFINE x == todo[p][1]
           a == [rid |-> x.rid, val |-> x.val, of |-> p]
<1>1. /\ GoroutineTypeOK /\ inbox \in Seq(Asked)
      /\ todo[p] \in Seq(Requests) /\ todo[p] # <<>> /\ pc[p] = "send"
      /\ rx' = rx /\ ackErr' = ackErr /\ memory' = memory /\ stages' = stages /\ rep' = rep
  BY DEF Send, TypeInv, TypeOK, DeviceTypeOK, GoroutineTypeOK, Shape, devVars, chanVars, readVars
<1>2. CASE x.rid = "0x16"
  <2>1. inbox' = inbox /\ NextRequest(p)
    BY <1>2 DEF Send
  <2> QED
    BY <1>1, <2>1, NextRequestStep, UnsentQuiet, Still DEF Unsent
<1>3. CASE x.rid # "0x16"
  <2>1. x \in Requests
    BY <1>1
  <2>2. a \in Asked
    BY <1>3, <2>1 DEF Asked, Requests, Rids
  <2>3. /\ inbox' = Append(inbox, a) /\ todo' = todo
        /\ pc' = [pc EXCEPT ![p] = IF x.rid = "0x17" THEN "poll" ELSE "check"]
    BY <1>3 DEF Send, GoTo, callVars
  <2>4. a.of = p /\ a.rid = x.rid
    OBVIOUS
  <2>5. /\ \A q \in Proc : q # p => Wants(q)' = Wants(q)
        /\ \A q \in Proc : Holds(q)' <=> Holds(q)
        /\ Wants(p) = "none" /\ Wants(p)' = x.rid /\ Wants(p)' # "none"
    <3>1. \A q \in Proc : q # p => pc'[q] = pc[q]
      BY <1>1, <2>3 DEF GoroutineTypeOK
    <3>2. \A q \in Proc : q # p => Wants(q)' = Wants(q) /\ (Holds(q)' <=> Holds(q))
      BY <1>1, <2>3, <3>1, OthersSame
    <3>3. pc'[p] \in {"poll", "check"}
      BY <1>1, <2>3 DEF GoroutineTypeOK
    <3>4. ~Holds(p) /\ ~Holds(p)'
      BY <1>1, <3>3 DEF Holds
    <3>5. Wants(p) = "none" /\ Wants(p)' = x.rid
      BY <1>1, <2>3, <3>3 DEF Wants, Awaiting
    <3>6. x.rid # "none"
      BY <2>1 DEF Requests, Rids, AckRids
    <3> QED
      BY <3>2, <3>4, <3>5, <3>6
  <2>6. CASE ~OneCaller
    BY <2>6 DEF AnswerInv, OneCaller, RidsOf
  <2>7. CASE OneCaller
    BY <1>1, <2>2, <2>3, <2>4, <2>5, <2>7, Created
  <2> QED
    BY <2>6, <2>7
<1> QED
  BY <1>2, <1>3

\* A report that answers nothing.
LEMMA News ==
  ASSUME TypeInv, TypeInv', AnswerInv, NEW x \in Reports, x.of = None,
         rx' = rx \/ rx' = Append(rx, x),
         inbox' = inbox, ackErr' = ackErr, memory' = memory, rep' = rep,
         \A q \in Proc : Wants(q)' = Wants(q) /\ (Holds(q)' <=> Holds(q))
  PROVE  AnswerInv'
<1> SUFFICES ASSUME OneCaller PROVE
      /\ AnswersApart'
      /\ \A r \in Proc : AnswersMatch(r)' /\ OnePlace(r)'
      /\ "drop" \notin Faults => \A r \in Proc : Awaiting(r)' => SomePlace(r)'
  BY DEF AnswerInv
<1>0. /\ AnswersApart /\ \A r \in Proc : AnswersMatch(r) /\ OnePlace(r)
      /\ "drop" \notin Faults => \A r \in Proc : Awaiting(r) => SomePlace(r)
  BY DEF AnswerInv
<1>1. rx \in Seq(Reports) /\ None \notin Proc
  BY ProcAssumption DEF TypeInv, TypeOK, DeviceTypeOK
<1>2. /\ \A i \in 1 .. Len(rx') : \/ i \in 1 .. Len(rx) /\ rx'[i] = rx[i]
                                 \/ rx'[i].of = None
      /\ \A i \in 1 .. Len(rx) : i \in 1 .. Len(rx') /\ rx'[i] = rx[i]
  BY <1>1, AppendItems
<1>4. ASSUME NEW r \in Proc
      PROVE  /\ AtDevice(r)' <=> AtDevice(r)
             /\ AtBuffer(r)' <=> AtBuffer(r)
             /\ AtReader(r)' <=> AtReader(r)
             /\ AtAcks(r)' <=> AtAcks(r)
             /\ AtMemory(r)' <=> AtMemory(r)
  <2>1. AtDevice(r)' <=> AtDevice(r)
    BY DEF AtDevice
  <2>2. AtBuffer(r)' <=> AtBuffer(r)
    BY <1>1, <1>2 DEF AtBuffer
  <2>3. AtReader(r)' <=> AtReader(r)
    BY DEF AtReader
  <2>4. AtAcks(r)' <=> AtAcks(r)
    BY DEF AtAcks
  <2>5. AtMemory(r)' <=> AtMemory(r)
    BY DEF AtMemory
  <2> QED
    BY <2>1, <2>2, <2>3, <2>4, <2>5
<1>6. ASSUME NEW r \in Proc PROVE AnswersMatch(r)'
  <2>1. AnswersMatch(r)
    BY <1>0
  <2> QED
    BY <1>1, <1>2, <2>1 DEF AnswersMatch
<1>7. AnswersApart'
  <2>1. \A i, j \in 1 .. Len(rx') : rx'[i].of = rx'[j].of => i = j \/ rx'[i].of = None
    BY <1>0, <1>2 DEF AnswersApart
  <2> QED
    BY <1>0, <2>1 DEF AnswersApart
<1>8. ASSUME NEW r \in Proc PROVE OnePlace(r)'
  <2>1. OnePlace(r)
    BY <1>0
  <2> QED
    BY <1>4, <2>1 DEF OnePlace
<1>9. ASSUME "drop" \notin Faults, NEW r \in Proc, Awaiting(r)' PROVE SomePlace(r)'
  <2>1. Awaiting(r)
    BY <1>9, WantsType, WantsNext
  <2>2. SomePlace(r)
    BY <1>0, <1>9, <2>1
  <2> QED
    BY <1>4, <2>2 DEF SomePlace
<1> QED
  BY <1>6, <1>7, <1>8, <1>9

\* The device answers: the answer moves to the buffer, or is dropped there.
LEMMA Answered ==
  ASSUME TypeInv, TypeInv', AnswerInv, DeviceAnswer
  PROVE  AnswerInv'
<1> SUFFICES ASSUME OneCaller PROVE
      /\ AnswersApart'
      /\ \A r \in Proc : AnswersMatch(r)' /\ OnePlace(r)'
      /\ "drop" \notin Faults => \A r \in Proc : Awaiting(r)' => SomePlace(r)'
  BY DEF AnswerInv
<1>0. /\ AnswersApart /\ \A r \in Proc : AnswersMatch(r) /\ OnePlace(r)
      /\ "drop" \notin Faults => \A r \in Proc : Awaiting(r) => SomePlace(r)
  BY DEF AnswerInv
<1> DEFINE a == Head(inbox)
           o == a.of
<1>1. /\ inbox \in Seq(Asked) /\ inbox # <<>> /\ rx \in Seq(Reports) /\ held \in SUBSET Keys
      /\ inbox' = Tail(inbox) /\ None \notin Proc
      /\ ackErr' = ackErr /\ memory' = memory /\ pc' = pc /\ todo' = todo
      /\ stages' = stages /\ rep' = rep
  BY ProcAssumption DEF DeviceAnswer, TypeInv, TypeOK, DeviceTypeOK, chanVars, callVars, readVars
<1>2. /\ 1 \in 1 .. Len(inbox) /\ a = inbox[1] /\ a \in Asked
      /\ \A i \in 1 .. Len(inbox') :
           inbox'[i] = inbox[i + 1] /\ i + 1 \in 1 .. Len(inbox) /\ i + 1 # 1
      /\ \A i \in 1 .. Len(inbox) :
           i # 1 => i - 1 \in 1 .. Len(inbox') /\ inbox'[i - 1] = inbox[i]
  BY <1>1, TailItems
<1>3. PICK x \in Reports : /\ x.of = o /\ x.re = a.rid
                           /\ \/ rx' = Append(rx, x)
                              \/ rx' = rx /\ "drop" \in Faults
  <2>1. PICK good \in BOOLEAN : Transmit(Answer(a, held, good))
    BY DEF DeviceAnswer
  <2>2. Answer(a, held, good) \in Reports
    BY <1>1, <1>2, AnswerType
  <2>3. Answer(a, held, good).of = o /\ Answer(a, held, good).re = a.rid
    BY DEF Answer
  <2> QED
    BY <2>1, <2>2, <2>3 DEF Transmit
<1>5. o \in Proc
  BY <1>2 DEF Asked
<1> HIDE DEF a, o
<1>11. \A q \in Proc : Wants(q)' = Wants(q) /\ (Holds(q)' <=> Holds(q))
  BY <1>1, OthersSame
<1>12. /\ AtDevice(o)
       /\ ~AtBuffer(o) /\ ~AtReader(o) /\ ~AtAcks(o) /\ ~AtMemory(o)
       /\ a.rid = Wants(o)
  <2>1. AtDevice(o)
    BY <1>2 DEF AtDevice, o
  <2> QED
    BY <1>0, <1>2, <1>5, <2>1 DEF OnePlace, AnswersMatch, o
<1>13. /\ \A i \in 1 .. Len(rx') :
            \/ i \in 1 .. Len(rx) /\ rx'[i] = rx[i]
            \/ i = Len(rx) + 1 /\ rx'[i] = x
       /\ \A i \in 1 .. Len(rx) : i \in 1 .. Len(rx') /\ rx'[i] = rx[i]
       /\ "drop" \notin Faults => \E i \in 1 .. Len(rx') : rx'[i] = x
  <2>1. CASE rx' = Append(rx, x)
    BY <1>1, <2>1, AppendItems
  <2>2. CASE rx' = rx /\ "drop" \in Faults
    BY <2>2
  <2> QED
    BY <1>3, <2>1, <2>2
<1>14. \A i \in 1 .. Len(inbox') : inbox'[i].of # o
  <2> SUFFICES ASSUME NEW i \in 1 .. Len(inbox'), inbox[i + 1].of = inbox[1].of
               PROVE  FALSE
    BY <1>2 DEF o
  <2>1. i + 1 \in 1 .. Len(inbox) /\ 1 \in 1 .. Len(inbox) /\ i + 1 # 1
    BY <1>2
  <2>2. \A j, k \in 1 .. Len(inbox) : inbox[j].of = inbox[k].of => j = k
    BY <1>0 DEF AnswersApart
  <2> QED
    BY <2>1, <2>2
<1>4. ASSUME NEW r \in Proc
      PROVE  /\ AtDevice(r)' <=> AtDevice(r) /\ r # o
             /\ AtBuffer(r) => AtBuffer(r)'
             /\ AtBuffer(r)' => AtBuffer(r) \/ r = o
             /\ "drop" \notin Faults /\ r = o => AtBuffer(r)'
             /\ AtReader(r)' <=> AtReader(r)
             /\ AtAcks(r)' <=> AtAcks(r)
             /\ AtMemory(r)' <=> AtMemory(r)
  <2>1. AtDevice(r)' <=> AtDevice(r) /\ r # o
    <3>1. ASSUME AtDevice(r)' PROVE AtDevice(r) /\ r # o
      BY <1>2, <1>14, <3>1 DEF AtDevice
    <3>2. ASSUME AtDevice(r), r # o PROVE AtDevice(r)'
      <4>1. PICK i \in 1 .. Len(inbox) : inbox[i].of = r
        BY <3>2 DEF AtDevice
      <4>2. i # 1
        BY <1>2, <3>2, <4>1 DEF o
      <4> QED
        BY <1>2, <4>1, <4>2 DEF AtDevice
    <3> QED
      BY <3>1, <3>2
  <2>2. /\ AtBuffer(r) => AtBuffer(r)'
        /\ AtBuffer(r)' => AtBuffer(r) \/ r = o
        /\ "drop" \notin Faults /\ r = o => AtBuffer(r)'
    BY <1>3, <1>13 DEF AtBuffer
  <2>3. AtReader(r)' <=> AtReader(r)
    BY <1>1, <1>11 DEF AtReader
  <2>4. AtAcks(r)' <=> AtAcks(r)
    BY <1>1 DEF AtAcks
  <2>5. AtMemory(r)' <=> AtMemory(r)
    BY <1>1 DEF AtMemory
  <2> QED
    BY <2>1, <2>2, <2>3, <2>4, <2>5
<1>6. ASSUME NEW r \in Proc PROVE AnswersMatch(r)'
  <2>1. AnswersMatch(r)
    BY <1>0
  <2>2. \A i \in 1 .. Len(inbox') : inbox'[i].of = r => inbox'[i].rid = Wants(r)
    BY <1>2, <2>1 DEF AnswersMatch
  <2>3. \A i \in 1 .. Len(rx') : rx'[i].of = r => rx'[i].re = Wants(r)
    BY <1>3, <1>12, <1>13, <2>1 DEF AnswersMatch
  <2> QED
    BY <1>1, <1>11, <2>1, <2>2, <2>3 DEF AnswersMatch
<1>7. AnswersApart'
  <2>1. \A i, j \in 1 .. Len(inbox') : inbox'[i].of = inbox'[j].of => i = j
    <3> SUFFICES ASSUME NEW i \in 1 .. Len(inbox'), NEW j \in 1 .. Len(inbox'),
                        inbox'[i].of = inbox'[j].of
                 PROVE  i = j
      OBVIOUS
    <3>1. /\ inbox[i + 1].of = inbox[j + 1].of
          /\ i + 1 \in 1 .. Len(inbox) /\ j + 1 \in 1 .. Len(inbox)
      BY <1>2
    <3>2. i + 1 = j + 1
      BY <1>0, <3>1 DEF AnswersApart
    <3> QED
      BY <3>2
  <2>2. \A i \in 1 .. Len(rx) : rx[i].of # o
    BY <1>12 DEF AtBuffer
  <2>3. \A i, j \in 1 .. Len(rx') : rx'[i].of = rx'[j].of => i = j \/ rx'[i].of = None
    BY <1>0, <1>3, <1>13, <2>2 DEF AnswersApart
  <2> QED
    BY <1>0, <1>1, <1>11, <2>1, <2>3 DEF AnswersApart
<1>8. ASSUME NEW r \in Proc PROVE OnePlace(r)'
  <2>1. OnePlace(r)
    BY <1>0
  <2> QED
    BY <1>4, <1>12, <2>1 DEF OnePlace
<1>9. ASSUME "drop" \notin Faults, NEW r \in Proc, Awaiting(r)' PROVE SomePlace(r)'
  <2>1. Awaiting(r)
    BY <1>9, <1>11, WantsType, WantsNext
  <2>2. SomePlace(r)
    BY <1>0, <1>9, <2>1
  <2> QED
    BY <1>4, <1>9, <2>2 DEF SomePlace
<1> QED
  BY <1>6, <1>7, <1>8, <1>9

\* The oldest report leaves the buffer for the hands of p.
LEMMA Taken ==
  ASSUME TypeInv, TypeInv', AnswerInv, NEW p \in Proc, NEW x \in Reports,
         rx # <<>>, x = Head(rx), rx' = Tail(rx),
         inbox' = inbox, ackErr' = ackErr, memory' = memory,
         ~Holds(p), Holds(p)' <=> x.of # None, rep'[p] = x,
         \A q \in Proc : q # p => rep'[q] = rep[q] /\ (Holds(q)' <=> Holds(q)),
         \A q \in Proc : Wants(q)' = Wants(q)
  PROVE  AnswerInv'
<1> SUFFICES ASSUME OneCaller PROVE
      /\ AnswersApart'
      /\ \A r \in Proc : AnswersMatch(r)' /\ OnePlace(r)'
      /\ "drop" \notin Faults => \A r \in Proc : Awaiting(r)' => SomePlace(r)'
  BY DEF AnswerInv
<1>0. /\ AnswersApart /\ \A r \in Proc : AnswersMatch(r) /\ OnePlace(r)
      /\ "drop" \notin Faults => \A r \in Proc : Awaiting(r) => SomePlace(r)
  BY DEF AnswerInv
<1> DEFINE o == x.of
<1>1. rx \in Seq(Reports) /\ None \notin Proc
  BY ProcAssumption DEF TypeInv, TypeOK, DeviceTypeOK
<1>2. /\ 1 \in 1 .. Len(rx) /\ x = rx[1]
      /\ \A i \in 1 .. Len(rx') : rx'[i] = rx[i + 1] /\ i + 1 \in 1 .. Len(rx) /\ i + 1 # 1
      /\ \A i \in 1 .. Len(rx) : i # 1 => i - 1 \in 1 .. Len(rx') /\ rx'[i - 1] = rx[i]
  BY <1>1, TailItems
<1>3. \A i \in 1 .. Len(rx') : rx'[i].of = o => o = None
  BY <1>0, <1>2 DEF AnswersApart
<1>5. \A r \in Proc : r = o =>
        /\ AtBuffer(r) /\ ~AtDevice(r) /\ ~AtReader(r) /\ ~AtAcks(r) /\ ~AtMemory(r)
        /\ x.re = Wants(r)
  <2> SUFFICES ASSUME NEW r \in Proc, r = o
      PROVE /\ AtBuffer(r) /\ ~AtDevice(r) /\ ~AtReader(r) /\ ~AtAcks(r) /\ ~AtMemory(r)
            /\ x.re = Wants(r)
    OBVIOUS
  <2>1. AtBuffer(r)
    BY <1>2 DEF AtBuffer
  <2>2. x.re = Wants(r)
    BY <1>0, <1>2 DEF AnswersMatch
  <2> QED
    BY <1>0, <2>1, <2>2 DEF OnePlace
<1> HIDE DEF o
<1>4. ASSUME NEW r \in Proc
      PROVE  /\ AtDevice(r)' <=> AtDevice(r)
             /\ AtBuffer(r)' <=> AtBuffer(r) /\ r # o
             /\ AtReader(r)' <=> AtReader(r) \/ r = o
             /\ AtAcks(r)' <=> AtAcks(r)
             /\ AtMemory(r)' <=> AtMemory(r)
  <2>1. AtDevice(r)' <=> AtDevice(r)
    BY DEF AtDevice
  <2>2. AtBuffer(r)' <=> AtBuffer(r) /\ r # o
    <3>1. ASSUME AtBuffer(r)' PROVE AtBuffer(r) /\ r # o
      BY <1>1, <1>2, <1>3, <3>1 DEF AtBuffer
    <3>2. ASSUME AtBuffer(r), r # o PROVE AtBuffer(r)'
      <4>1. PICK i \in 1 .. Len(rx) : rx[i].of = r
        BY <3>2 DEF AtBuffer
      <4>2. i # 1
        BY <1>2, <3>2, <4>1 DEF o
      <4> QED
        BY <1>2, <4>1, <4>2 DEF AtBuffer
    <3> QED
      BY <3>1, <3>2
  <2>3. AtReader(r)' <=> AtReader(r) \/ r = o
    <3>1. ASSUME AtReader(r)' PROVE AtReader(r) \/ r = o
      BY <3>1 DEF AtReader, o
    <3>2. ASSUME AtReader(r) PROVE AtReader(r)'
      BY <3>2 DEF AtReader
    <3>3. ASSUME r = o PROVE AtReader(r)'
      BY <1>1, <3>3 DEF AtReader, o
    <3> QED
      BY <3>1, <3>2, <3>3
  <2>4. AtAcks(r)' <=> AtAcks(r)
    BY DEF AtAcks
  <2>5. AtMemory(r)' <=> AtMemory(r)
    BY DEF AtMemory
  <2> QED
    BY <2>1, <2>2, <2>3, <2>4, <2>5
<1>6. ASSUME NEW r \in Proc PROVE AnswersMatch(r)'
  <2>1. AnswersMatch(r)
    BY <1>0
  <2>2. \A i \in 1 .. Len(rx') : rx'[i].of = r => rx'[i].re = Wants(r)
    BY <1>2, <2>1 DEF AnswersMatch
  <2>3. \A q \in Proc : Holds(q)' /\ rep'[q].of = r => rep'[q].re = Wants(r)
    BY <1>5, <2>1 DEF AnswersMatch, o
  <2> QED
    BY <2>1, <2>2, <2>3 DEF AnswersMatch
<1>7. AnswersApart'
  <2>1. \A i, j \in 1 .. Len(rx') : rx'[i].of = rx'[j].of => i = j \/ rx'[i].of = None
    <3> SUFFICES ASSUME NEW i \in 1 .. Len(rx'), NEW j \in 1 .. Len(rx'),
                        rx'[i].of = rx'[j].of, rx'[i].of # None
                 PROVE  i = j
      OBVIOUS
    <3>1. i + 1 = j + 1
      BY <1>0, <1>2 DEF AnswersApart
    <3> QED
      BY <3>1
  <2>2. \A q \in Proc : Holds(q) => rep[q].of \in Proc /\ rep[q].of # o
    BY <1>5, TokenOwners DEF AtReader
  <2>3. \A q, r \in Proc : Holds(q)' /\ Holds(r)' /\ rep'[q].of = rep'[r].of => q = r
    BY <1>0, <2>2 DEF AnswersApart, o
  <2> QED
    BY <1>0, <2>1, <2>3 DEF AnswersApart
<1>8. ASSUME NEW r \in Proc PROVE OnePlace(r)'
  <2>1. OnePlace(r)
    BY <1>0
  <2> QED
    BY <1>4, <1>5, <2>1 DEF OnePlace
<1>9. ASSUME "drop" \notin Faults, NEW r \in Proc, Awaiting(r)' PROVE SomePlace(r)'
  <2>1. Awaiting(r)
    BY <1>9, WantsType, WantsNext
  <2>2. SomePlace(r)
    BY <1>0, <1>9, <2>1
  <2> QED
    BY <1>4, <2>2 DEF SomePlace
<1> QED
  BY <1>6, <1>7, <1>8, <1>9

\* A goroutine reads a report, and holds the answer in it.
LEMMA ReadHolds ==
  ASSUME TypeInv, TypeInv', AnswerInv, NEW p \in Proc, Read(p)
  PROVE  AnswerInv'
<1> DEFINE x == Head(rx)
<1>1. /\ GoroutineTypeOK /\ rx \in Seq(Reports) /\ pc[p] = "read" /\ None \notin Proc
      /\ inbox' = inbox /\ ackErr' = ackErr /\ memory' = memory /\ todo' = todo
  BY ProcAssumption DEF Read, TypeInv, TypeOK, DeviceTypeOK, chanVars, callVars
<1>2. CASE rx = <<>>
  <2>1. /\ rx' = rx /\ rep' = rep /\ stages' = stages
        /\ \E l \in {Back(p), "gone"} : pc' = [pc EXCEPT ![p] = l]
    BY <1>2 DEF Read, GoTo
  <2>2. /\ \A q \in Proc : q # p => pc'[q] = pc[q]
        /\ pc'[p] \in {Back(p), "gone"}
    BY <1>1, <2>1 DEF GoroutineTypeOK
  <2>3. pc[p] \notin Unsent /\ pc'[p] \notin Unsent /\ ~Holds(p) /\ pc'[p] # "handle"
    BY <1>1, <2>2, BackSent DEF Unsent, Holds
  <2> QED
    BY <1>1, <2>1, <2>2, <2>3, SentQuiet, Still
<1>3. CASE rx # <<>>
  <2>1. /\ rx' = Tail(rx) /\ rep' = [rep EXCEPT ![p] = x]
        /\ stages' = [stages EXCEPT ![p] = Stages(x.id)]
        /\ pc' = [pc EXCEPT ![p] = IF Stages(x.id) = <<>> THEN Back(p) ELSE "handle"]
    BY <1>3 DEF Read, GoTo
  <2>2. x \in Reports
    BY <1>1, <1>3, TailSeq
  <2>3. /\ rep'[p] = x /\ stages'[p] = Stages(x.id)
        /\ pc'[p] = IF Stages(x.id) = <<>> THEN Back(p) ELSE "handle"
        /\ \A q \in Proc : q # p => /\ pc'[q] = pc[q] /\ todo'[q] = todo[q]
                                  /\ stages'[q] = stages[q] /\ rep'[q] = rep[q]
    BY <1>1, <2>1 DEF GoroutineTypeOK
  <2>4. Holds(p)' <=> x.of # None
    <3>1. x.of # None <=> x.id \in {"0x21", "0x22"}
      BY <2>2 DEF Reports
    <3>2. x.id = "0x21" => Stages(x.id) = <<"memory", "buttons">>
      BY DEF Stages
    <3>3. x.id = "0x22" => Stages(x.id) = <<"ack", "buttons">>
      BY DEF Stages
    <3>4. /\ Stages(x.id) # <<>> /\ Head(Stages(x.id)) = "ack" => x.id = "0x22"
          /\ Stages(x.id) # <<>> /\ Head(Stages(x.id)) = "memory" => x.id = "0x21"
      BY StagesType
    <3>5. Holds(p)' <=> x.id \in {"0x21", "0x22"}
      <4>1. CASE x.id = "0x21"
        BY <2>3, <3>2, <4>1 DEF Holds
      <4>2. CASE x.id = "0x22"
        BY <2>3, <3>3, <4>2 DEF Holds
      <4>3. CASE x.id \notin {"0x21", "0x22"}
        BY <2>3, <3>4, <4>3 DEF Holds
      <4> QED
        BY <4>1, <4>2, <4>3
    <3> QED
      BY <3>1, <3>5
  <2>5. Wants(p)' = Wants(p)
    BY <1>1, <2>3, BackSent, WantsSame DEF Unsent
  <2>6. \A q \in Proc : q # p => Wants(q)' = Wants(q) /\ (Holds(q)' <=> Holds(q))
    BY <2>3, OthersSame
  <2>7. ~Holds(p)
    BY <1>1 DEF Holds
  <2> HIDE DEF x
  <2> QED
    BY <1>1, <1>3, <2>1, <2>2, <2>3, <2>4, <2>5, <2>6, <2>7, Taken DEF x
<1> QED
  BY <1>2, <1>3

\* An acknowledgement is filed where nothing was: it overwrites no other one.
LEMMA AckFiles ==
  ASSUME TypeInv, TypeInv', AnswerInv, NEW p \in Proc, Ack(p)
  PROVE  AnswerInv'
<1> SUFFICES ASSUME OneCaller PROVE
      /\ AnswersApart'
      /\ \A r \in Proc : AnswersMatch(r)' /\ OnePlace(r)'
      /\ "drop" \notin Faults => \A r \in Proc : Awaiting(r)' => SomePlace(r)'
  BY DEF AnswerInv
<1>0. /\ AnswersApart /\ \A r \in Proc : AnswersMatch(r) /\ OnePlace(r)
      /\ "drop" \notin Faults => \A r \in Proc : Awaiting(r) => SomePlace(r)
  BY DEF AnswerInv
<1> DEFINE o == rep[p].of
           rid == rep[p].re
<1>1. /\ pc[p] = "handle" /\ Head(stages[p]) = "ack" /\ stages[p] # <<>>
      /\ StageDone(p) /\ todo' = todo /\ None \notin Proc
      /\ rx' = rx /\ inbox' = inbox /\ memory' = memory
      /\ ackErr' = [ackErr EXCEPT ![rid] = o]
      /\ rep[p] \in Reports /\ rep[p].id = "0x22"
      /\ ackErr \in [AckRids -> Proc \cup {None}]
  BY ProcAssumption DEF Ack, AtStage, TypeInv, TypeOK, ObjectTypeOK, GoroutineTypeOK, Shape, devVars, callVars
<1>2. Holds(p) /\ o \in Proc /\ rid \in AckRids /\ rid # "none"
  BY <1>1 DEF Holds, Reports, AckRids
<1>3. /\ \A q \in Proc : q # p => rep'[q] = rep[q] /\ (Holds(q)' <=> Holds(q))
      /\ \A q \in Proc : Wants(q)' = Wants(q)
      /\ ~Holds(p)'
  BY <1>1, StageMoves, OthersSame
<1> HIDE DEF o, rid
<1>5. /\ AtReader(o) /\ ~AtDevice(o) /\ ~AtBuffer(o) /\ ~AtAcks(o) /\ ~AtMemory(o)
      /\ Wants(o) = rid
  <2>1. AtReader(o)
    BY <1>2 DEF AtReader, o
  <2>2. Wants(o) = rid
    BY <1>0, <1>2 DEF AnswersMatch, o, rid
  <2> QED
    BY <1>0, <1>2, <2>1, <2>2 DEF OnePlace
<1>10. ackErr[rid] = None
  <2> SUFFICES ASSUME ackErr[rid] # None PROVE FALSE
    OBVIOUS
  <2>1. ackErr[rid] \in Proc
    BY <1>1, <1>2
  <2>2. Wants(ackErr[rid]) = rid
    BY <1>0, <1>2, <2>1 DEF AnswersMatch
  <2>3. ackErr[rid] = o
    BY <1>2, <1>5, <2>1, <2>2, OneWaiter
  <2> QED
    BY <1>2, <1>5, <2>3 DEF AtAcks
<1>11. /\ ackErr'[rid] = o
       /\ \A d \in AckRids : d # rid => ackErr'[d] = ackErr[d]
  BY <1>1, <1>2
<1>12. \A q \in Proc : Holds(q)' => q # p /\ Holds(q) /\ rep'[q] = rep[q] /\ rep[q].of # o
  <2>1. \A q \in Proc : Holds(q) /\ q # p => rep[q].of # o
    BY <1>0, <1>2 DEF AnswersApart, o
  <2> QED
    BY <1>3, <2>1
<1>4. ASSUME NEW r \in Proc
      PROVE  /\ AtDevice(r)' <=> AtDevice(r)
             /\ AtBuffer(r)' <=> AtBuffer(r)
             /\ AtReader(r)' <=> AtReader(r) /\ r # o
             /\ AtAcks(r)' <=> AtAcks(r) \/ r = o
             /\ AtMemory(r)' <=> AtMemory(r)
  <2>1. AtDevice(r)' <=> AtDevice(r)
    BY <1>1 DEF AtDevice
  <2>2. AtBuffer(r)' <=> AtBuffer(r)
    BY <1>1 DEF AtBuffer
  <2>3. AtReader(r)' <=> AtReader(r) /\ r # o
    <3>1. ASSUME AtReader(r)' PROVE AtReader(r) /\ r # o
      BY <1>12, <3>1 DEF AtReader
    <3>2. ASSUME AtReader(r), r # o PROVE AtReader(r)'
      BY <1>3, <3>2 DEF AtReader, o
    <3> QED
      BY <3>1, <3>2
  <2>4. AtAcks(r)' <=> AtAcks(r) \/ r = o
    BY <1>1, <1>2, <1>10, <1>11 DEF AtAcks
  <2>5. AtMemory(r)' <=> AtMemory(r)
    BY <1>1 DEF AtMemory
  <2> QED
    BY <2>1, <2>2, <2>3, <2>4, <2>5
<1>6. ASSUME NEW r \in Proc PROVE AnswersMatch(r)'
  <2>1. AnswersMatch(r)
    BY <1>0
  <2>2. \A d \in AckRids : ackErr'[d] = r => d = Wants(r)
    BY <1>5, <1>11, <2>1 DEF AnswersMatch
  <2>3. \A q \in Proc : Holds(q)' /\ rep'[q].of = r => rep'[q].re = Wants(r)
    BY <1>12, <2>1 DEF AnswersMatch
  <2> QED
    BY <1>1, <1>3, <2>1, <2>2, <2>3 DEF AnswersMatch
<1>7. AnswersApart'
  <2>1. \A q, r \in Proc : Holds(q)' /\ Holds(r)' /\ rep'[q].of = rep'[r].of => q = r
    BY <1>0, <1>12 DEF AnswersApart
  <2> QED
    BY <1>0, <1>1, <2>1 DEF AnswersApart
<1>8. ASSUME NEW r \in Proc PROVE OnePlace(r)'
  <2>1. OnePlace(r)
    BY <1>0
  <2> QED
    BY <1>2, <1>4, <1>5, <2>1 DEF OnePlace
<1>9. ASSUME "drop" \notin Faults, NEW r \in Proc, Awaiting(r)' PROVE SomePlace(r)'
  <2>1. Awaiting(r)
    BY <1>3, <1>9, WantsType, WantsNext
  <2>2. SomePlace(r)
    BY <1>0, <1>9, <2>1
  <2> QED
    BY <1>4, <2>2 DEF SomePlace
<1> QED
  BY <1>6, <1>7, <1>8, <1>9

\* A memory reply goes to the channel.
LEMMA ReplyFiles ==
  ASSUME TypeInv, TypeInv', AnswerInv, NEW p \in Proc, MemoryReply(p)
  PROVE  AnswerInv'
<1> SUFFICES ASSUME OneCaller PROVE
      /\ AnswersApart'
      /\ \A r \in Proc : AnswersMatch(r)' /\ OnePlace(r)'
      /\ "drop" \notin Faults => \A r \in Proc : Awaiting(r)' => SomePlace(r)'
  BY DEF AnswerInv
<1>0. /\ AnswersApart /\ \A r \in Proc : AnswersMatch(r) /\ OnePlace(r)
      /\ "drop" \notin Faults => \A r \in Proc : Awaiting(r) => SomePlace(r)
  BY DEF AnswerInv
<1> DEFINE o == rep[p].of
<1>1. /\ pc[p] = "handle" /\ Head(stages[p]) = "memory" /\ stages[p] # <<>>
      /\ StageDone(p) /\ todo' = todo /\ None \notin Proc
      /\ rx' = rx /\ inbox' = inbox /\ ackErr' = ackErr
      /\ memory' = Append(memory, rep[p])
      /\ rep[p] \in Reports /\ rep[p].id = "0x21"
  BY ProcAssumption DEF MemoryReply, AtStage, TypeInv, TypeOK, GoroutineTypeOK, Shape, devVars, callVars
<1>2. Holds(p) /\ o \in Proc
  BY <1>1 DEF Holds, Reports
<1>3. /\ \A q \in Proc : q # p => rep'[q] = rep[q] /\ (Holds(q)' <=> Holds(q))
      /\ \A q \in Proc : Wants(q)' = Wants(q)
      /\ ~Holds(p)'
  BY <1>1, StageMoves, OthersSame
<1>5. /\ AtReader(o) /\ ~AtDevice(o) /\ ~AtBuffer(o) /\ ~AtAcks(o) /\ ~AtMemory(o)
      /\ Wants(o) = rep[p].re
  <2>1. AtReader(o)
    BY <1>2 DEF AtReader
  <2>2. Wants(o) = rep[p].re
    BY <1>0, <1>2 DEF AnswersMatch
  <2> QED
    BY <1>0, <1>2, <2>1, <2>2 DEF OnePlace
<1>11. /\ \A i \in 1 .. Len(memory') :
            \/ i \in 1 .. Len(memory) /\ memory'[i] = memory[i]
            \/ i = Len(memory) + 1 /\ memory'[i] = rep[p]
       /\ \A i \in 1 .. Len(memory) : i \in 1 .. Len(memory') /\ memory'[i] = memory[i]
       /\ Len(memory) + 1 \in 1 .. Len(memory') /\ memory'[Len(memory) + 1] = rep[p]
  <2>1. memory \in Seq({r \in Reports : r.id = "0x21"})
    BY DEF TypeInv, TypeOK, ObjectTypeOK
  <2>2. rep[p] \in {r \in Reports : r.id = "0x21"}
    BY <1>1
  <2> QED
    BY <1>1, <2>1, <2>2, AppendItems
<1>12. \A q \in Proc : Holds(q)' => q # p /\ Holds(q) /\ rep'[q] = rep[q] /\ rep[q].of # o
  <2>1. \A q \in Proc : Holds(q) /\ q # p => rep[q].of # o
    BY <1>0, <1>2 DEF AnswersApart
  <2> QED
    BY <1>3, <2>1
<1>13. \A i \in 1 .. Len(memory) : memory[i].of # o
  BY <1>5 DEF AtMemory
<1>4. ASSUME NEW r \in Proc
      PROVE  /\ AtDevice(r)' <=> AtDevice(r)
             /\ AtBuffer(r)' <=> AtBuffer(r)
             /\ AtReader(r)' <=> AtReader(r) /\ r # o
             /\ AtAcks(r)' <=> AtAcks(r)
             /\ AtMemory(r)' <=> AtMemory(r) \/ r = o
  <2>1. AtDevice(r)' <=> AtDevice(r)
    BY <1>1 DEF AtDevice
  <2>2. AtBuffer(r)' <=> AtBuffer(r)
    BY <1>1 DEF AtBuffer
  <2>3. AtReader(r)' <=> AtReader(r) /\ r # o
    <3>1. ASSUME AtReader(r)' PROVE AtReader(r) /\ r # o
      BY <1>12, <3>1 DEF AtReader
    <3>2. ASSUME AtReader(r), r # o PROVE AtReader(r)'
      BY <1>3, <3>2 DEF AtReader
    <3> QED
      BY <3>1, <3>2
  <2>4. AtAcks(r)' <=> AtAcks(r)
    BY <1>1 DEF AtAcks
  <2>5. AtMemory(r)' <=> AtMemory(r) \/ r = o
    BY <1>11 DEF AtMemory
  <2> QED
    BY <2>1, <2>2, <2>3, <2>4, <2>5
<1>6. ASSUME NEW r \in Proc PROVE AnswersMatch(r)'
  <2>1. AnswersMatch(r)
    BY <1>0
  <2>2. \A i \in 1 .. Len(memory') : memory'[i].of = r => memory'[i].re = Wants(r)
    BY <1>5, <1>11, <2>1 DEF AnswersMatch
  <2>3. \A q \in Proc : Holds(q)' /\ rep'[q].of = r => rep'[q].re = Wants(r)
    BY <1>12, <2>1 DEF AnswersMatch
  <2> QED
    BY <1>1, <1>3, <2>1, <2>2, <2>3 DEF AnswersMatch
<1>7. AnswersApart'
  <2>1. \A q, r \in Proc : Holds(q)' /\ Holds(r)' /\ rep'[q].of = rep'[r].of => q = r
    BY <1>0, <1>12 DEF AnswersApart
  <2>2. \A i, j \in 1 .. Len(memory') : memory'[i].of = memory'[j].of => i = j
    BY <1>0, <1>11, <1>13 DEF AnswersApart
  <2> QED
    BY <1>0, <1>1, <2>1, <2>2 DEF AnswersApart
<1>8. ASSUME NEW r \in Proc PROVE OnePlace(r)'
  <2>1. OnePlace(r)
    BY <1>0
  <2> QED
    BY <1>2, <1>4, <1>5, <2>1 DEF OnePlace
<1>9. ASSUME "drop" \notin Faults, NEW r \in Proc, Awaiting(r)' PROVE SomePlace(r)'
  <2>1. Awaiting(r)
    BY <1>3, <1>9, WantsType, WantsNext
  <2>2. SomePlace(r)
    BY <1>0, <1>9, <2>1
  <2> QED
    BY <1>4, <2>2 DEF SomePlace
<1> QED
  BY <1>6, <1>7, <1>8, <1>9

\* p finds its answer: what remains belongs to others.
LEMMA Consumed ==
  ASSUME TypeInv, TypeInv', AnswerInv, OneCaller, NEW p \in Proc,
         rx' = rx, inbox' = inbox, rep' = rep,
         \A q \in Proc : q # p => Wants(q)' = Wants(q),
         \A q \in Proc : Holds(q)' <=> Holds(q),
         Wants(p)' = "none", AnswersApart',
         ~AtDevice(p), ~AtBuffer(p), ~AtReader(p), ~AtAcks(p)', ~AtMemory(p)',
         \A rid \in AckRids : ackErr'[rid] \in {ackErr[rid], None},
         \A i \in 1 .. Len(memory') : \E j \in 1 .. Len(memory) : memory'[i] = memory[j],
         \A r \in Proc : r # p => (AtAcks(r) => AtAcks(r)') /\ (AtMemory(r) => AtMemory(r)')
  PROVE  AnswerInv'
<1> SUFFICES ASSUME OneCaller PROVE
      /\ AnswersApart'
      /\ \A r \in Proc : AnswersMatch(r)' /\ OnePlace(r)'
      /\ "drop" \notin Faults => \A r \in Proc : Awaiting(r)' => SomePlace(r)'
  BY DEF AnswerInv
<1>0. /\ AnswersApart /\ \A r \in Proc : AnswersMatch(r) /\ OnePlace(r)
      /\ "drop" \notin Faults => \A r \in Proc : Awaiting(r) => SomePlace(r)
  BY DEF AnswerInv
<1>1. None \notin Proc
  BY ProcAssumption
<1>4. ASSUME NEW r \in Proc
      PROVE  /\ AtDevice(r)' <=> AtDevice(r)
             /\ AtBuffer(r)' <=> AtBuffer(r)
             /\ AtReader(r)' <=> AtReader(r)
             /\ AtAcks(r)' => AtAcks(r)
             /\ AtMemory(r)' => AtMemory(r)
  <2>1. AtDevice(r)' <=> AtDevice(r)
    BY DEF AtDevice
  <2>2. AtBuffer(r)' <=> AtBuffer(r)
    BY DEF AtBuffer
  <2>3. AtReader(r)' <=> AtReader(r)
    BY DEF AtReader
  <2>4. AtAcks(r)' => AtAcks(r)
    BY <1>1 DEF AtAcks
  <2>5. AtMemory(r)' => AtMemory(r)
    BY DEF AtMemory
  <2> QED
    BY <2>1, <2>2, <2>3, <2>4, <2>5
<1>6. ASSUME NEW r \in Proc PROVE AnswersMatch(r)'
  <2>1. AnswersMatch(r)
    BY <1>0
  <2>2. CASE r # p
    <3>1. \A rid \in AckRids : ackErr'[rid] = r => rid = Wants(r)
      BY <1>1, <2>1 DEF AnswersMatch
    <3>2. \A i \in 1 .. Len(memory') : memory'[i].of = r => memory'[i].re = Wants(r)
      BY <2>1 DEF AnswersMatch
    <3> QED
      BY <2>1, <2>2, <3>1, <3>2 DEF AnswersMatch
  <2>3. CASE r = p
    BY <2>3 DEF AnswersMatch, AtDevice, AtBuffer, AtReader, AtAcks, AtMemory
  <2> QED
    BY <2>2, <2>3
<1>8. ASSUME NEW r \in Proc PROVE OnePlace(r)'
  <2>1. OnePlace(r)
    BY <1>0
  <2> QED
    BY <1>4, <2>1 DEF OnePlace
<1>9. ASSUME "drop" \notin Faults, NEW r \in Proc, Awaiting(r)' PROVE SomePlace(r)'
  <2>1. r # p
    BY <1>9, WantsNext
  <2>2. Awaiting(r)
    BY <1>9, <2>1, WantsType, WantsNext
  <2>3. SomePlace(r)
    BY <1>0, <1>9, <2>2
  <2> QED
    BY <1>4, <2>1, <2>3 DEF SomePlace
<1> QED
  BY <1>6, <1>8, <1>9

\* output finds its acknowledgement, or goes on reading.
LEMMA CheckConsumes ==
  ASSUME TypeInv, TypeInv', AnswerInv, NEW p \in Proc, Check(p)
  PROVE  AnswerInv'
<1> DEFINE rid == todo[p][1].rid
<1>1. /\ GoroutineTypeOK /\ todo[p] \in Seq(Requests) /\ todo[p] # <<>> /\ pc[p] = "check"
      /\ rx' = rx /\ inbox' = inbox /\ memory' = memory /\ stages' = stages /\ rep' = rep
      /\ ackErr \in [AckRids -> Proc \cup {None}] /\ None \notin Proc
  BY ProcAssumption DEF Check, TypeInv, TypeOK, GoroutineTypeOK, ObjectTypeOK, Shape, devVars, readVars
<1>10. CASE ackErr[rid] = None
  <2>1. ackErr' = ackErr /\ todo' = todo /\ pc' = [pc EXCEPT ![p] = "poll"]
    BY <1>10 DEF Check, GoTo, callVars
  <2>2. /\ \A q \in Proc : q # p => pc'[q] = pc[q]
        /\ pc[p] \notin Unsent /\ pc'[p] \notin Unsent /\ ~Holds(p) /\ pc'[p] # "handle"
    BY <1>1, <2>1 DEF GoroutineTypeOK, Unsent, Holds
  <2> QED
    BY <1>1, <2>1, <2>2, SentQuiet, Still
<1>2. CASE ackErr[rid] # None /\ OneCaller
  <2>3. /\ \A q \in Proc : q # p => pc'[q] = pc[q] /\ todo'[q] = todo[q]
        /\ Wants(p)' = "none"
    <3>1. NextRequest(p) \/ Return(p)
      BY <1>2 DEF Check
    <3>2. CASE NextRequest(p)
      BY <1>1, <3>2, NextRequestStep DEF Wants, Awaiting
    <3>3. CASE Return(p)
      BY <1>1, <3>3, ReturnStep DEF Wants, Awaiting
    <3> QED
      BY <3>1, <3>2, <3>3
  <2>4. /\ \A q \in Proc : q # p => Wants(q)' = Wants(q)
        /\ \A q \in Proc : Holds(q)' <=> Holds(q)
    <3>1. \A q \in Proc : q # p => Wants(q)' = Wants(q) /\ (Holds(q)' <=> Holds(q))
      BY <1>1, <2>3, OthersSame
    <3>2. ~Holds(p) /\ ~Holds(p)'
      <4>1. NextRequest(p) \/ Return(p)
        BY <1>2 DEF Check
      <4>2. pc'[p] # "handle"
        BY <1>1, <4>1, NextRequestStep, ReturnStep
      <4> QED
        BY <1>1, <4>2 DEF Holds
    <3> QED
      BY <3>1, <3>2
  <2>5. rid \in AckRids /\ Wants(p) = rid /\ rid # "none"
    <3>1. 1 \in 1 .. Len(todo[p])
      BY <1>1
    <3>2. rid \in OpRids(op[p]) /\ op[p] \notin {"ReadAt", "WriteAt"}
      BY <1>1, <3>1 DEF TypeInv, Shape
    <3>3. rid \in AckRids /\ rid # "none"
      BY <3>2 DEF OpRids, AckRids
    <3> QED
      BY <1>1, <3>3 DEF Wants, Awaiting
  <2>6. ackErr[rid] = p
    <3>1. ackErr[rid] \in Proc
      BY <1>1, <1>2, <2>5
    <3>2. Wants(ackErr[rid]) = rid
      BY <1>2, <2>5, <3>1 DEF AnswerInv, AnswersMatch
    <3> QED
      BY <1>2, <2>5, <3>1, <3>2, OneWaiter
  <2>7. /\ AtAcks(p) /\ ~AtDevice(p) /\ ~AtBuffer(p) /\ ~AtReader(p) /\ ~AtMemory(p)
        /\ \A d \in AckRids : ackErr[d] = p => d = rid
    <3>1. AtAcks(p)
      BY <2>5, <2>6 DEF AtAcks
    <3>2. OnePlace(p) /\ AnswersMatch(p)
      BY <1>2 DEF AnswerInv
    <3> QED
      BY <2>5, <3>1, <3>2 DEF OnePlace, AnswersMatch
  <2>8. ackErr' = [ackErr EXCEPT ![rid] = None]
    BY <1>2 DEF Check
  <2> HIDE DEF rid
  <2>9. /\ \A d \in AckRids : ackErr'[d] = IF d = rid THEN None ELSE ackErr[d]
        /\ ~AtAcks(p)' /\ ~AtMemory(p)'
        /\ \A r \in Proc : r # p => (AtAcks(r) => AtAcks(r)') /\ (AtMemory(r) => AtMemory(r)')
    <3>1. \A d \in AckRids : ackErr'[d] = IF d = rid THEN None ELSE ackErr[d]
      BY <1>1, <2>8
    <3>2. ~AtAcks(p)'
      BY <1>1, <2>7, <3>1 DEF AtAcks
    <3>3. ~AtMemory(p)'
      BY <1>1, <2>7 DEF AtMemory
    <3>4. ASSUME NEW r \in Proc, r # p PROVE (AtAcks(r) => AtAcks(r)') /\ (AtMemory(r) => AtMemory(r)')
      BY <1>1, <2>6, <3>1, <3>4 DEF AtAcks, AtMemory
    <3> QED
      BY <3>1, <3>2, <3>3, <3>4
  <2>10. AnswersApart'
    <3>1. AnswersApart
      BY <1>2 DEF AnswerInv
    <3> QED
      BY <1>1, <2>4, <3>1 DEF AnswersApart
  <2> QED
    BY <1>1, <1>2, <2>3, <2>4, <2>7, <2>9, <2>10, Consumed
<1>20. CASE ~OneCaller
  BY <1>20 DEF AnswerInv, OneCaller, RidsOf
<1> QED
  BY <1>2, <1>10, <1>20

\* readMemory takes a reply, which is its own, or goes on reading.
LEMMA ReplyConsumes ==
  ASSUME TypeInv, TypeInv', AnswerInv, NEW p \in Proc, Reply(p)
  PROVE  AnswerInv'
<1>1. /\ GoroutineTypeOK /\ todo[p] \in Seq(Requests) /\ todo[p] # <<>> /\ pc[p] = "reply"
      /\ rx' = rx /\ inbox' = inbox /\ ackErr' = ackErr /\ stages' = stages /\ rep' = rep
      /\ memory \in Seq({r \in Reports : r.id = "0x21"}) /\ None \notin Proc
  BY ProcAssumption DEF Reply, TypeInv, TypeOK, GoroutineTypeOK, ObjectTypeOK, Shape, devVars, readVars
<1>10. CASE memory = <<>>
  <2>1. memory' = memory /\ todo' = todo /\ pc' = [pc EXCEPT ![p] = "poll"]
    BY <1>10 DEF Reply, GoTo, callVars
  <2>2. /\ \A q \in Proc : q # p => pc'[q] = pc[q]
        /\ pc[p] \notin Unsent /\ pc'[p] \notin Unsent /\ ~Holds(p) /\ pc'[p] # "handle"
    BY <1>1, <2>1 DEF GoroutineTypeOK, Unsent, Holds
  <2> QED
    BY <1>1, <2>1, <2>2, SentQuiet, Still
<1>2. CASE memory # <<>> /\ OneCaller
  <2>3. /\ \A q \in Proc : q # p => pc'[q] = pc[q] /\ todo'[q] = todo[q]
        /\ Wants(p)' = "none"
    <3>1. NextRequest(p) \/ Return(p)
      BY <1>2 DEF Reply
    <3>2. CASE NextRequest(p)
      BY <1>1, <3>2, NextRequestStep DEF Wants, Awaiting
    <3>3. CASE Return(p)
      BY <1>1, <3>3, ReturnStep DEF Wants, Awaiting
    <3> QED
      BY <3>1, <3>2, <3>3
  <2>4. /\ \A q \in Proc : q # p => Wants(q)' = Wants(q)
        /\ \A q \in Proc : Holds(q)' <=> Holds(q)
    <3>1. \A q \in Proc : q # p => Wants(q)' = Wants(q) /\ (Holds(q)' <=> Holds(q))
      BY <1>1, <2>3, OthersSame
    <3>2. ~Holds(p) /\ ~Holds(p)'
      <4>1. NextRequest(p) \/ Return(p)
        BY <1>2 DEF Reply
      <4>2. pc'[p] # "handle"
        BY <1>1, <4>1, NextRequestStep, ReturnStep
      <4> QED
        BY <1>1, <4>2 DEF Holds
    <3> QED
      BY <3>1, <3>2
  <2>5. Wants(p) = "0x17"
    <3>1. 1 \in 1 .. Len(todo[p])
      BY <1>1
    <3>2. todo[p][1].rid \in OpRids(op[p]) /\ op[p] = "ReadAt"
      BY <1>1, <3>1 DEF TypeInv, Shape
    <3>3. todo[p][1].rid = "0x17"
      BY <3>2 DEF OpRids
    <3> QED
      BY <1>1, <3>3 DEF Wants, Awaiting
  <2>6. /\ memory' = Tail(memory)
        /\ 1 \in 1 .. Len(memory) /\ Head(memory) = memory[1]
        /\ \A i \in 1 .. Len(memory') :
             memory'[i] = memory[i + 1] /\ i + 1 \in 1 .. Len(memory) /\ i + 1 # 1
        /\ \A i \in 1 .. Len(memory) :
             i # 1 => i - 1 \in 1 .. Len(memory') /\ memory'[i - 1] = memory[i]
    <3>1. memory' = Tail(memory)
      BY <1>2 DEF Reply
    <3> QED
      BY <1>1, <1>2, <3>1, TailItems
  <2>7. memory[1].of = p
    <3>1. memory[1].of \in Proc /\ memory[1].re = "0x17"
      BY <2>6, TokenOwners
    <3>2. Wants(memory[1].of) = "0x17"
      BY <1>2, <2>6, <3>1 DEF AnswerInv, AnswersMatch
    <3> QED
      BY <1>2, <2>5, <3>1, <3>2, OneWaiter
  <2>8. AnswersApart /\ OnePlace(p)
    BY <1>2 DEF AnswerInv
  <2>9. /\ AtMemory(p) /\ ~AtDevice(p) /\ ~AtBuffer(p) /\ ~AtReader(p) /\ ~AtAcks(p)
        /\ \A i \in 1 .. Len(memory) : memory[i].of = p => i = 1
    <3>1. AtMemory(p)
      BY <2>6, <2>7 DEF AtMemory
    <3> QED
      BY <2>6, <2>7, <2>8, <3>1 DEF OnePlace, AnswersApart
  <2>10. ~AtAcks(p)' /\ ~AtMemory(p)'
    <3>1. ~AtAcks(p)'
      BY <1>1, <2>9 DEF AtAcks
    <3>2. ~AtMemory(p)'
      BY <2>6, <2>9 DEF AtMemory
    <3> QED
      BY <3>1, <3>2
  <2>11. ASSUME NEW r \in Proc, r # p
         PROVE  (AtAcks(r) => AtAcks(r)') /\ (AtMemory(r) => AtMemory(r)')
    <3>1. AtAcks(r) => AtAcks(r)'
      BY <1>1 DEF AtAcks
    <3>2. ASSUME AtMemory(r) PROVE AtMemory(r)'
      <4>1. PICK i \in 1 .. Len(memory) : memory[i].of = r
        BY <3>2 DEF AtMemory
      <4>2. i # 1
        BY <2>7, <2>11, <4>1
      <4> QED
        BY <2>6, <4>1, <4>2 DEF AtMemory
    <3> QED
      BY <3>1, <3>2
  <2>12. AnswersApart'
    <3>1. \A i, j \in 1 .. Len(memory') : memory'[i].of = memory'[j].of => i = j
      <4> SUFFICES ASSUME NEW i \in 1 .. Len(memory'), NEW j \in 1 .. Len(memory'),
                          memory'[i].of = memory'[j].of
                   PROVE  i = j
        OBVIOUS
      <4>1. /\ memory[i + 1].of = memory[j + 1].of
            /\ i + 1 \in 1 .. Len(memory) /\ j + 1 \in 1 .. Len(memory)
        BY <2>6
      <4>2. i + 1 = j + 1
        BY <2>8, <4>1 DEF AnswersApart
      <4> QED
        BY <4>2
    <3> QED
      BY <1>1, <2>4, <2>8, <3>1 DEF AnswersApart
  <2>13. /\ \A i \in 1 .. Len(memory') : \E j \in 1 .. Len(memory) : memory'[i] = memory[j]
         /\ \A rid \in AckRids : ackErr'[rid] \in {ackErr[rid], None}
    BY <1>1, <2>6
  <2> QED
    BY <1>1, <1>2, <2>3, <2>4, <2>9, <2>10, <2>11, <2>12, <2>13, Consumed
<1>20. CASE ~OneCaller
  BY <1>20 DEF AnswerInv, OneCaller, RidsOf
<1> QED
  BY <1>2, <1>10, <1>20

-----------------------------------------------------------------------------
(* The invariant, and what follows from it *)

\* The Wiimote and the link keep the invariant on answers.
LEMMA DeviceAnswers ==
  ASSUME TypeInv, TypeInv', AnswerInv, Device
  PROVE  AnswerInv'
<1> USE DEF devVars, cfgVars, repVars, chanVars, callVars, readVars
<1>1. CASE DeviceAnswer
  BY <1>1, Answered
<1>2. CASE DeviceReport
  <2>1. /\ inbox' = inbox /\ ackErr' = ackErr /\ memory' = memory /\ rep' = rep
        /\ pc' = pc /\ todo' = todo /\ stages' = stages
    BY <1>2 DEF DeviceReport
  <2>2. \A q \in Proc : Wants(q)' = Wants(q) /\ (Holds(q)' <=> Holds(q))
    BY <2>1, OthersSame
  <2>3. PICK x : /\ Transmit(x) /\ x \in Reports /\ x.of = None
    <3>1. PICK btn \in SUBSET Keys :
            IF devMode = "0x3e"
            THEN Transmit(Report(IF phase % 2 = 0 THEN "0x3e" ELSE "0x3f", btn, phase \div 2))
            ELSE Transmit(Report(devMode, btn, 0))
      BY <1>2 DEF DeviceReport
    <3>2. phase \in 0 .. 3 /\ devMode \in Modes
      BY DEF TypeInv, TypeOK, DeviceTypeOK
    <3>3. phase \div 2 \in Nat
      BY <3>2
    <3>4. PICK id \in Modes \cup {"0x3f"}, val \in Nat : Transmit(Report(id, btn, val))
      BY <3>1, <3>2, <3>3 DEF Modes
    <3>5. Report(id, btn, val) \in Reports
      BY <3>4, ReportType
    <3>6. Report(id, btn, val).of = None
      BY DEF Report
    <3> QED
      BY <3>4, <3>5, <3>6
  <2> QED
    BY <2>1, <2>2, <2>3, News DEF Transmit
<1>3. CASE DeviceStatus
  <2>1. /\ inbox' = inbox /\ ackErr' = ackErr /\ memory' = memory /\ rep' = rep
        /\ pc' = pc /\ todo' = todo /\ stages' = stages
    BY <1>3 DEF DeviceStatus
  <2>2. \A q \in Proc : Wants(q)' = Wants(q) /\ (Holds(q)' <=> Holds(q))
    BY <2>1, OthersSame
  <2>3. PICK x : Transmit(x) /\ x \in Reports /\ x.of = None
    <3>1. Report("0x20", held, lights) \in Reports
      BY ReportType DEF TypeInv, TypeOK, DeviceTypeOK
    <3>2. Report("0x20", held, lights).of = None
      BY DEF Report
    <3> QED
      BY <1>3, <3>1, <3>2 DEF DeviceStatus
  <2> QED
    BY <2>1, <2>2, <2>3, News DEF Transmit
<1>4. CASE LinkFails
  <2>1. /\ rx' = rx /\ inbox' = inbox /\ ackErr' = ackErr /\ memory' = memory /\ rep' = rep
        /\ pc' = pc /\ todo' = todo /\ stages' = stages
    BY <1>4 DEF LinkFails
  <2>2. \A q \in Proc : Wants(q)' = Wants(q) /\ (Holds(q)' <=> Holds(q))
    BY <2>1, OthersSame
  <2> QED
    BY <2>1, <2>2, Still DEF Quietly
<1> QED
  BY <1>1, <1>2, <1>3, <1>4 DEF Device

\* A step inside a call keeps the invariant on answers.
LEMMA StepAnswers ==
  ASSUME TypeInv, TypeInv', AnswerInv, NEW p \in Proc, Step(p)
  PROVE  AnswerInv'
<1>1. CASE Output(p)
  <2>1. CASE ~OneCaller
    BY <2>1 DEF AnswerInv, OneCaller, RidsOf
  <2>2. CASE Forget(p) /\ OneCaller
    BY <2>2, ForgetQuiet, Still
  <2> QED
    BY <1>1, <2>1, <2>2, PreparationQuiet, SendAnswers, CheckConsumes, ReplyConsumes, Still DEF Output
<1>2. CASE ReadEvent(p)
  BY <1>2, ReadEventQuiet, ReadHolds, AckFiles, ReplyFiles, Still DEF ReadEvent
<1>3. CASE PollStep(p)
  BY <1>3, PollQuiet, Still
<1> QED
  BY <1>1, <1>2, <1>3 DEF Step

\* A new device object has no answers.
LEMMA InitAnswers == Init => AnswerInv
<1> SUFFICES ASSUME Init PROVE AnswerInv
  OBVIOUS
<1>1. inbox = <<>> /\ rx = <<>> /\ memory = <<>> /\ None \notin Proc
  BY ProcAssumption DEF Init
<1>2. \A p \in Proc : ~Holds(p) /\ ~Awaiting(p)
  BY DEF Init, Holds, Awaiting
<1>3. \A rid \in AckRids : ackErr[rid] = None
  BY DEF Init
<1>4. 1 .. Len(<<>>) = {}
  OBVIOUS
<1>5. AnswersApart
  BY <1>1, <1>2, <1>4 DEF AnswersApart
<1>6. ASSUME NEW p \in Proc PROVE AnswersMatch(p) /\ OnePlace(p)
  <2>1. ~AtDevice(p) /\ ~AtBuffer(p) /\ ~AtReader(p) /\ ~AtAcks(p) /\ ~AtMemory(p)
    BY <1>1, <1>2, <1>3, <1>4 DEF AtDevice, AtBuffer, AtReader, AtAcks, AtMemory
  <2> QED
    BY <2>1 DEF AnswersMatch, OnePlace, AtDevice, AtBuffer, AtReader, AtAcks, AtMemory
<1> QED
  BY <1>2, <1>5, <1>6 DEF AnswerInv

\* The invariant on answers is inductive, given the types.
LEMMA NextAnswers == TypeInv /\ TypeInv' /\ AnswerInv /\ [Next]_vars => AnswerInv'
<1> SUFFICES ASSUME TypeInv, TypeInv', AnswerInv, [Next]_vars PROVE AnswerInv'
  OBVIOUS
<1>1. CASE UNCHANGED vars
  <2>1. /\ rx' = rx /\ inbox' = inbox /\ ackErr' = ackErr /\ memory' = memory /\ rep' = rep
        /\ pc' = pc /\ todo' = todo /\ stages' = stages
    BY <1>1 DEF vars, devVars, chanVars, callVars, readVars
  <2>2. \A q \in Proc : Wants(q)' = Wants(q) /\ (Holds(q)' <=> Holds(q))
    BY <2>1, OthersSame
  <2> QED
    BY <2>1, <2>2, Still DEF Quietly
<1>2. CASE Next
  BY <1>2, DeviceAnswers, CallQuiet, StepAnswers, Still DEF Next
<1> QED
  BY <1>1, <1>2

\* Every goroutine has at most one answer, in one place, and it answers the
\* request that the goroutine is waiting on.
THEOREM AnswerInvariant == Spec => []AnswerInv
<1>1. Init /\ [][Next]_vars => []TypeInv
  BY TypeInvariant DEF Spec
<1> QED
  BY <1>1, InitAnswers, NextAnswers, PTL DEF Spec

\* What output and readMemory find is never left over from an earlier request,
\* for any number of goroutines, if no two send the same request.
THEOREM FreshAnswers == Spec => []AnswerFresh
<1>1. TypeInv /\ AnswerInv => AnswerFresh
  <2> SUFFICES ASSUME TypeInv, AnswerInv, OneCaller, NEW p \in Proc, NEW rid \in Rids,
                      OnItsWay(p, rid)
               PROVE  AwaitingRid(p, rid)
    BY DEF AnswerFresh
  <2>1. AnswersMatch(p)
    BY DEF AnswerInv
  <2>2. rid = Wants(p)
    BY <2>1 DEF OnItsWay, ToBeGiven, Unread, InHand, Filed, AnswersMatch
  <2>3. rid # "none"
    BY DEF Rids, AckRids
  <2> QED
    BY <2>2, <2>3 DEF Wants, AwaitingRid
<1> QED
  BY <1>1, TypeInvariant, AnswerInvariant, PTL

\* While a goroutine waits, its answer is on its way, if the buffer drops none.
THEOREM AnswersNotLost ==
  ASSUME "drop" \notin Faults
  PROVE  Spec => []AnswerNotLost
<1>1. TypeInv /\ AnswerInv => AnswerNotLost
  <2> SUFFICES ASSUME TypeInv, AnswerInv, OneCaller, NEW p \in Proc, Awaiting(p)
               PROVE  OnItsWay(p, todo[p][1].rid)
    BY DEF AnswerNotLost
  <2>1. SomePlace(p) /\ AnswersMatch(p)
    BY DEF AnswerInv
  <2>2. Wants(p) = todo[p][1].rid
    BY DEF Wants
  <2>3. CASE AtDevice(p)
    BY <2>1, <2>2, <2>3 DEF AtDevice, AnswersMatch, OnItsWay, ToBeGiven
  <2>4. CASE AtBuffer(p)
    BY <2>1, <2>2, <2>4 DEF AtBuffer, AnswersMatch, OnItsWay, Unread
  <2>5. CASE AtReader(p)
    BY <2>1, <2>2, <2>5 DEF AtReader, AnswersMatch, OnItsWay, InHand
  <2>6. CASE AtAcks(p)
    BY <2>1, <2>2, <2>6 DEF AtAcks, AnswersMatch, OnItsWay, Filed
  <2>7. CASE AtMemory(p)
    BY <2>1, <2>2, <2>7 DEF AtMemory, AnswersMatch, OnItsWay, Filed
  <2> QED
    BY <2>1, <2>3, <2>4, <2>5, <2>6, <2>7 DEF SomePlace
<1> QED
  BY <1>1, TypeInvariant, AnswerInvariant, PTL

-----------------------------------------------------------------------------
(* The driver implements Answers: each request is answered once, and no       *)
(* goroutine disturbs another one's.                                          *)


\* The abstract state: where each goroutine's request stands.
View == [p \in Proc |-> Phase(p)]

HasAnswer(p) == AtAcks(p) \/ AtMemory(p)

\* A filed answer of a goroutine is the one it waits for.
Standing ==
  \A p \in Proc :
    Phase(p) = IF Wants(p) = "none" THEN "idle"
               ELSE IF HasAnswer(p) THEN "answered" ELSE "asked"

\* The inductive invariant tells where each request stands.
LEMMA StandingHolds == TypeInv /\ AnswerInv /\ OneCaller => Standing
<1> SUFFICES ASSUME TypeInv, AnswerInv, OneCaller, NEW p \in Proc
             PROVE  Phase(p) = IF Wants(p) = "none" THEN "idle"
                               ELSE IF HasAnswer(p) THEN "answered" ELSE "asked"
  BY DEF Standing
<1>1. Awaiting(p) <=> Wants(p) # "none"
  BY WantsType
<1>2. AnswersMatch(p)
  BY DEF AnswerInv
<1>3. CASE ~Awaiting(p)
  BY <1>1, <1>3 DEF Phase
<1>4. CASE Awaiting(p)
  <2>1. Wants(p) = todo[p][1].rid
    BY <1>4 DEF Wants
  <2>2. Filed(p, Wants(p)) <=> HasAnswer(p)
    <3>1. ASSUME Filed(p, Wants(p)) PROVE HasAnswer(p)
      BY <3>1 DEF Filed, HasAnswer, AtAcks, AtMemory
    <3>2. ASSUME AtAcks(p) PROVE Filed(p, Wants(p))
      BY <1>2, <3>2 DEF AnswersMatch, AtAcks, Filed
    <3>3. ASSUME AtMemory(p) PROVE Filed(p, Wants(p))
      BY <1>2, <3>3 DEF AnswersMatch, AtMemory, Filed
    <3> QED
      BY <3>1, <3>2, <3>3 DEF HasAnswer
  <2> QED
    BY <1>1, <1>4, <2>1, <2>2 DEF Phase
<1> QED
  BY <1>3, <1>4

\* A step that leaves all wishes and all filed answers as they are.
LEMMA ViewSame ==
  ASSUME Standing, Standing', ackErr' = ackErr, memory' = memory,
         \A q \in Proc : Wants(q)' = Wants(q)
  PROVE  View' = View
<1>1. \A q \in Proc : HasAnswer(q)' <=> HasAnswer(q)
  BY DEF HasAnswer, AtAcks, AtMemory
<1>2. \A q \in Proc : Phase(q)' = Phase(q)
  BY <1>1 DEF Standing
<1> QED
  BY <1>2 DEF View

\* A step that changes where one request stands.
LEMMA ViewMoves ==
  ASSUME NEW p \in Proc, NEW from, NEW to, Phase(p) = from, Phase(p)' = to,
         \A q \in Proc : q # p => Phase(q)' = Phase(q)
  PROVE  View[p] = from /\ View' = [View EXCEPT ![p] = to]
BY DEF View

\* The three steps of Answers.
LEMMA AbstractMoves ==
  ASSUME NEW p \in Proc, NEW from, NEW to, View[p] = from, View' = [View EXCEPT ![p] = to],
         <<from, to>> \in {<<"idle", "asked">>, <<"asked", "answered">>, <<"answered", "idle">>}
  PROVE  Requesting!Next
BY DEF Requesting!Next, Requesting!Ask, Requesting!Answer, Requesting!Collect, Requesting!Move, View
-----------------------------------------------------------------------------
\* A request that is sent is an unanswered one.
LEMMA SendAsks ==
  ASSUME TypeInv, AnswerInv, OneCaller, Standing, Standing', NEW p \in Proc, Send(p)
  PROVE  Requesting!Next \/ View' = View
<1> DEFINE x == todo[p][1]
<1>1. /\ GoroutineTypeOK /\ todo[p] \in Seq(Requests) /\ todo[p] # <<>> /\ pc[p] = "send"
      /\ ackErr' = ackErr /\ memory' = memory
  BY DEF Send, TypeInv, TypeOK, GoroutineTypeOK, Shape, chanVars
<1>2. CASE x.rid = "0x16"
  <2>1. NextRequest(p)
    BY <1>2 DEF Send
  <2>2. \A q \in Proc : q # p => pc'[q] = pc[q] /\ todo'[q] = todo[q]
    BY <1>1, <2>1, NextRequestStep
  <2>3. Wants(p)' = "none" /\ Wants(p) = "none"
    BY <1>1, <2>1, NextRequestStep DEF Wants, Awaiting
  <2>4. \A q \in Proc : Wants(q)' = Wants(q)
    BY <2>2, <2>3 DEF Wants, Awaiting
  <2> QED
    BY <1>1, <2>4, ViewSame
<1>3. CASE x.rid # "0x16"
  <2>1. /\ todo' = todo
        /\ pc' = [pc EXCEPT ![p] = IF x.rid = "0x17" THEN "poll" ELSE "check"]
    BY <1>3 DEF Send, GoTo, callVars
  <2>2. /\ \A q \in Proc : q # p => pc'[q] = pc[q]
        /\ pc'[p] \in {"poll", "check"}
    BY <1>1, <2>1 DEF GoroutineTypeOK
  <2>3. x \in Requests
    BY <1>1
  <2>4. Wants(p) = "none" /\ Wants(p)' = x.rid /\ x.rid # "none"
    BY <1>1, <2>1, <2>2, <2>3 DEF Wants, Awaiting, Requests, Rids, AckRids
  <2>5. \A q \in Proc : q # p => Wants(q)' = Wants(q)
    BY <2>1, <2>2 DEF Wants, Awaiting
  <2>6. \A q \in Proc : HasAnswer(q)' <=> HasAnswer(q)
    BY <1>1 DEF HasAnswer, AtAcks, AtMemory
  <2>7. ~HasAnswer(p)
    BY <2>4, NoAnswer DEF HasAnswer
  <2>8. Phase(p) = "idle" /\ Phase(p)' = "asked" /\ \A q \in Proc : q # p => Phase(q)' = Phase(q)
    BY <2>4, <2>5, <2>6, <2>7 DEF Standing
  <2> QED
    BY <2>8, ViewMoves, AbstractMoves
<1> QED
  BY <1>2, <1>3

\* What a goroutine holds answers a request that has no filed answer yet.
LEMMA HeldIsAsked ==
  ASSUME TypeInv, AnswerInv, OneCaller, Standing, NEW p \in Proc, Holds(p)
  PROVE  /\ rep[p].of \in Proc /\ Wants(rep[p].of) = rep[p].re /\ rep[p].re # "none"
         /\ Phase(rep[p].of) = "asked"
<1> DEFINE o == rep[p].of
<1>1. o \in Proc /\ rep[p].re \in AckRids \cup {"0x17"}
  BY TokenOwners
<1>2. rep[p].re # "none"
  BY <1>1 DEF AckRids
<1>3. Wants(o) = rep[p].re
  BY <1>1 DEF AnswerInv, AnswersMatch
<1>4. AtReader(o)
  BY DEF AtReader
<1>5. ~HasAnswer(o)
  BY <1>1, <1>4 DEF AnswerInv, OnePlace, HasAnswer
<1> QED
  BY <1>1, <1>2, <1>3, <1>5 DEF Standing

\* Whoever reads an acknowledgement answers the request of the one who asked.
LEMMA AckAnswers ==
  ASSUME TypeInv, AnswerInv, OneCaller, Standing, Standing', NEW p \in Proc, Ack(p)
  PROVE  Requesting!Next
<1>1. /\ pc[p] = "handle" /\ Head(stages[p]) = "ack" /\ stages[p] # <<>>
      /\ StageDone(p) /\ todo' = todo /\ memory' = memory
      /\ ackErr' = [ackErr EXCEPT ![rep[p].re] = rep[p].of]
      /\ rep[p] \in Reports /\ rep[p].id = "0x22"
      /\ ackErr \in [AckRids -> Proc \cup {None}]
  BY DEF Ack, AtStage, TypeInv, TypeOK, ObjectTypeOK, GoroutineTypeOK, Shape, devVars, callVars
<1>2. Holds(p)
  BY <1>1 DEF Holds
<1>3. PICK o \in Proc, rid \in AckRids :
        /\ o = rep[p].of /\ rid = rep[p].re
        /\ Wants(o) = rid /\ rid # "none" /\ Phase(o) = "asked"
  BY <1>1, <1>2, HeldIsAsked DEF Reports
<1>4. \A q \in Proc : Wants(q)' = Wants(q)
  BY <1>1, StageMoves DEF Wants, Awaiting
<1>5. ackErr'[rid] = o /\ \A d \in AckRids : d # rid => ackErr'[d] = ackErr[d]
  BY <1>1, <1>3
<1>6. ASSUME NEW r \in Proc, r # o
      PROVE  HasAnswer(r)' <=> HasAnswer(r)
  <2>1. ackErr[rid] # r
    BY <1>3, <1>6, OneWaiter DEF AnswerInv, AnswersMatch
  <2>2. AtAcks(r)' <=> AtAcks(r)
    BY <1>5, <1>6, <2>1 DEF AtAcks
  <2> QED
    BY <1>1, <2>2 DEF HasAnswer, AtMemory
<1>7. HasAnswer(o)'
  BY <1>3, <1>5 DEF HasAnswer, AtAcks
<1>8. Phase(o)' = "answered" /\ \A q \in Proc : q # o => Phase(q)' = Phase(q)
  BY <1>3, <1>4, <1>6, <1>7 DEF Standing
<1> QED
  BY <1>3, <1>8, ViewMoves, AbstractMoves

\* The same for a memory reply.
LEMMA ReplyAnswers ==
  ASSUME TypeInv, AnswerInv, OneCaller, Standing, Standing', NEW p \in Proc, MemoryReply(p)
  PROVE  Requesting!Next
<1>1. /\ pc[p] = "handle" /\ Head(stages[p]) = "memory" /\ stages[p] # <<>>
      /\ StageDone(p) /\ todo' = todo /\ ackErr' = ackErr
      /\ memory' = Append(memory, rep[p])
      /\ rep[p] \in {r \in Reports : r.id = "0x21"}
      /\ memory \in Seq({r \in Reports : r.id = "0x21"})
  BY DEF MemoryReply, AtStage, TypeInv, TypeOK, ObjectTypeOK, GoroutineTypeOK, Shape, devVars, callVars
<1>2. Holds(p)
  BY <1>1 DEF Holds
<1>3. PICK o \in Proc : o = rep[p].of /\ Wants(o) # "none" /\ Phase(o) = "asked"
  BY <1>2, HeldIsAsked
<1>4. \A q \in Proc : Wants(q)' = Wants(q)
  BY <1>1, StageMoves DEF Wants, Awaiting
<1>5. /\ \A i \in 1 .. Len(memory') :
           \/ i \in 1 .. Len(memory) /\ memory'[i] = memory[i]
           \/ memory'[i] = rep[p]
      /\ \A i \in 1 .. Len(memory) : i \in 1 .. Len(memory') /\ memory'[i] = memory[i]
      /\ Len(memory) + 1 \in 1 .. Len(memory') /\ memory'[Len(memory) + 1] = rep[p]
  BY <1>1, AppendItems
<1>6. ASSUME NEW r \in Proc, r # o
      PROVE  HasAnswer(r)' <=> HasAnswer(r)
  <2>1. AtMemory(r)' <=> AtMemory(r)
    BY <1>3, <1>5, <1>6 DEF AtMemory
  <2> QED
    BY <1>1, <2>1 DEF HasAnswer, AtAcks
<1>7. HasAnswer(o)'
  BY <1>3, <1>5 DEF HasAnswer, AtMemory
<1>8. Phase(o)' = "answered" /\ \A q \in Proc : q # o => Phase(q)' = Phase(q)
  BY <1>3, <1>4, <1>6, <1>7 DEF Standing
<1> QED
  BY <1>3, <1>8, ViewMoves, AbstractMoves
-----------------------------------------------------------------------------
\* The end of the wait is that the goroutine takes its own answer.
LEMMA CheckCollects ==
  ASSUME TypeInv, AnswerInv, OneCaller, Standing, Standing', NEW p \in Proc, Check(p)
  PROVE  Requesting!Next \/ View' = View
<1>1. /\ GoroutineTypeOK /\ todo[p] \in Seq(Requests) /\ todo[p] # <<>> /\ pc[p] = "check"
      /\ memory' = memory /\ ackErr \in [AckRids -> Proc \cup {None}] /\ None \notin Proc
  BY ProcAssumption DEF Check, TypeInv, TypeOK, GoroutineTypeOK, ObjectTypeOK, Shape
<1>2. PICK rid \in AckRids : rid = todo[p][1].rid /\ Wants(p) = rid /\ rid # "none"
  <2>1. 1 \in 1 .. Len(todo[p])
    BY <1>1
  <2>2. todo[p][1].rid \in OpRids(op[p]) /\ op[p] \notin {"ReadAt", "WriteAt"}
    BY <1>1, <2>1 DEF TypeInv, Shape
  <2>3. todo[p][1].rid \in AckRids /\ todo[p][1].rid # "none"
    BY <2>2 DEF OpRids, AckRids
  <2>4. Wants(p) = todo[p][1].rid
    BY <1>1 DEF Wants, Awaiting
  <2> QED
    BY <2>3, <2>4
<1>3. CASE ackErr[rid] = None
  <2>1. ackErr' = ackErr /\ todo' = todo /\ pc' = [pc EXCEPT ![p] = "poll"]
    BY <1>2, <1>3 DEF Check, GoTo, callVars
  <2>2. \A q \in Proc : Wants(q)' = Wants(q)
    BY <1>1, <2>1 DEF Wants, Awaiting, GoroutineTypeOK
  <2> QED
    BY <1>1, <2>1, <2>2, ViewSame
<1>4. CASE ackErr[rid] # None
  <2>1. ackErr' = [ackErr EXCEPT ![rid] = None] /\ NextRequest(p)
    BY <1>2, <1>4 DEF Check
  <2>2. /\ \A q \in Proc : q # p => pc'[q] = pc[q] /\ todo'[q] = todo[q]
        /\ Wants(p)' = "none"
    BY <1>1, <2>1, NextRequestStep DEF Wants, Awaiting
  <2>3. \A q \in Proc : q # p => Wants(q)' = Wants(q)
    BY <2>2 DEF Wants, Awaiting
  <2>4. ackErr[rid] = p
    <3>1. ackErr[rid] \in Proc
      BY <1>1, <1>4
    <3>2. Wants(ackErr[rid]) = rid
      BY <3>1 DEF AnswerInv, AnswersMatch
    <3> QED
      BY <1>2, <3>1, <3>2, OneWaiter
  <2>5. \A d \in AckRids : ackErr'[d] = IF d = rid THEN None ELSE ackErr[d]
    BY <1>1, <2>1
  <2>6. ASSUME NEW r \in Proc, r # p
        PROVE  HasAnswer(r)' <=> HasAnswer(r)
    <3>1. AtAcks(r)' <=> AtAcks(r)
      BY <1>1, <2>4, <2>5, <2>6 DEF AtAcks
    <3> QED
      BY <1>1, <3>1 DEF HasAnswer, AtMemory
  <2>7. HasAnswer(p)
    BY <2>4 DEF HasAnswer, AtAcks
  <2>8. /\ Phase(p) = "answered" /\ Phase(p)' = "idle"
        /\ \A q \in Proc : q # p => Phase(q)' = Phase(q)
    BY <1>2, <2>2, <2>3, <2>6, <2>7 DEF Standing
  <2> QED
    BY <2>8, ViewMoves, AbstractMoves
<1> QED
  BY <1>3, <1>4

\* A reply that readMemory takes ends its request.
LEMMA ReplyCollects ==
  ASSUME TypeInv, AnswerInv, OneCaller, Standing, Standing', NEW p \in Proc, Reply(p)
  PROVE  Requesting!Next \/ View' = View
<1>1. /\ GoroutineTypeOK /\ todo[p] \in Seq(Requests) /\ todo[p] # <<>> /\ pc[p] = "reply"
      /\ ackErr' = ackErr /\ memory \in Seq({r \in Reports : r.id = "0x21"})
  BY DEF Reply, TypeInv, TypeOK, GoroutineTypeOK, ObjectTypeOK, Shape
<1>2. Wants(p) = "0x17"
  <2>1. 1 \in 1 .. Len(todo[p])
    BY <1>1
  <2>2. todo[p][1].rid \in OpRids(op[p]) /\ op[p] = "ReadAt"
    BY <1>1, <2>1 DEF TypeInv, Shape
  <2>3. todo[p][1].rid = "0x17"
    BY <2>2 DEF OpRids
  <2> QED
    BY <1>1, <2>3 DEF Wants, Awaiting
<1>3. CASE memory = <<>>
  <2>1. memory' = memory /\ todo' = todo /\ pc' = [pc EXCEPT ![p] = "poll"]
    BY <1>3 DEF Reply, GoTo, callVars
  <2>2. \A q \in Proc : Wants(q)' = Wants(q)
    BY <1>1, <2>1 DEF Wants, Awaiting, GoroutineTypeOK
  <2> QED
    BY <1>1, <2>1, <2>2, ViewSame
<1>4. CASE memory # <<>>
  <2>1. memory' = Tail(memory) /\ (NextRequest(p) \/ Return(p))
    BY <1>4 DEF Reply
  <2>2. /\ \A q \in Proc : q # p => pc'[q] = pc[q] /\ todo'[q] = todo[q]
        /\ Wants(p)' = "none"
    BY <1>1, <2>1, NextRequestStep, ReturnStep DEF Wants, Awaiting
  <2>3. \A q \in Proc : q # p => Wants(q)' = Wants(q)
    BY <2>2 DEF Wants, Awaiting
  <2>4. /\ 1 \in 1 .. Len(memory)
        /\ \A i \in 1 .. Len(memory') :
             memory'[i] = memory[i + 1] /\ i + 1 \in 1 .. Len(memory) /\ i + 1 # 1
        /\ \A i \in 1 .. Len(memory) :
             i # 1 => i - 1 \in 1 .. Len(memory') /\ memory'[i - 1] = memory[i]
    BY <1>1, <1>4, <2>1, TailItems
  <2>5. memory[1].of = p
    <3>1. memory[1].of \in Proc /\ memory[1].re = "0x17"
      BY <2>4, TokenOwners
    <3>2. Wants(memory[1].of) = "0x17"
      BY <2>4, <3>1 DEF AnswerInv, AnswersMatch
    <3> QED
      BY <1>2, <3>1, <3>2, OneWaiter
  <2>6. ASSUME NEW r \in Proc, r # p
        PROVE  HasAnswer(r)' <=> HasAnswer(r)
    <3>1. ASSUME AtMemory(r) PROVE AtMemory(r)'
      <4>1. PICK i \in 1 .. Len(memory) : memory[i].of = r
        BY <3>1 DEF AtMemory
      <4>2. i # 1
        BY <2>5, <2>6, <4>1
      <4> QED
        BY <2>4, <4>1, <4>2 DEF AtMemory
    <3>2. ASSUME AtMemory(r)' PROVE AtMemory(r)
      BY <2>4, <3>2 DEF AtMemory
    <3> QED
      BY <1>1, <3>1, <3>2 DEF HasAnswer, AtAcks
  <2>7. HasAnswer(p)
    BY <2>4, <2>5 DEF HasAnswer, AtMemory
  <2>8. /\ Phase(p) = "answered" /\ Phase(p)' = "idle"
        /\ \A q \in Proc : q # p => Phase(q)' = Phase(q)
    BY <1>2, <2>2, <2>3, <2>6, <2>7 DEF Standing
  <2> QED
    BY <2>8, ViewMoves, AbstractMoves
<1> QED
  BY <1>3, <1>4

\* A goroutine that reads a report goes on waiting for what it waited for.
LEMMA ReadSame ==
  ASSUME TypeInv, Standing, Standing', NEW p \in Proc, Read(p)
  PROVE  View' = View
<1>1. /\ GoroutineTypeOK /\ pc[p] = "read" /\ ackErr' = ackErr /\ memory' = memory /\ todo' = todo
  BY DEF Read, TypeInv, TypeOK, chanVars, callVars
<1>2. \E l \in {Back(p), "handle", "gone"} : pc' = [pc EXCEPT ![p] = l]
  BY DEF Read, GoTo
<1>3. /\ \A q \in Proc : q # p => pc'[q] = pc[q]
      /\ pc'[p] \notin Unsent
  BY <1>1, <1>2, BackSent DEF GoroutineTypeOK, Unsent
<1>4. \A q \in Proc : Wants(q)' = Wants(q)
  BY <1>1, <1>3 DEF Wants, Awaiting, Unsent
<1> QED
  BY <1>1, <1>4, ViewSame

\* What the Wiimote and the link do concerns no goroutine.
LEMMA DeviceSame ==
  ASSUME Standing, Standing', Device
  PROVE  View' = View
<1>1. ackErr' = ackErr /\ memory' = memory /\ pc' = pc /\ todo' = todo
  BY DEF Device, DeviceAnswer, DeviceReport, DeviceStatus, LinkFails, chanVars, callVars
<1> QED
  BY <1>1, ViewSame DEF Wants, Awaiting

\* A step that moves no answer and no request is a stutter of Answers.
LEMMA QuietSame ==
  ASSUME Standing, Standing', Quietly
  PROVE  View' = View
BY ViewSame DEF Quietly

\* Every step of the driver is a step of Answers, or none.
LEMMA StepAbstract ==
  ASSUME TypeInv, AnswerInv, OneCaller, Standing, Standing', [Next]_vars
  PROVE  Requesting!Next \/ View' = View
<1>1. CASE UNCHANGED vars
  BY <1>1, ViewSame DEF Wants, Awaiting, vars, chanVars, callVars
<1>2. CASE Device
  BY <1>2, DeviceSame
<1>3. ASSUME NEW p \in Proc, Call(p)
      PROVE  Requesting!Next \/ View' = View
  BY <1>3, CallQuiet, QuietSame
<1>4. ASSUME NEW p \in Proc, Output(p)
      PROVE  Requesting!Next \/ View' = View
  BY <1>4, PreparationQuiet, ForgetQuiet, QuietSame, SendAsks, CheckCollects, ReplyCollects DEF Output
<1>5. ASSUME NEW p \in Proc, ReadEvent(p)
      PROVE  Requesting!Next \/ View' = View
  BY <1>5, ReadEventQuiet, QuietSame, ReadSame, AckAnswers, ReplyAnswers DEF ReadEvent
<1>6. ASSUME NEW p \in Proc, PollStep(p)
      PROVE  Requesting!Next \/ View' = View
  BY <1>6, PollQuiet, QuietSame
<1> QED
  BY <1>1, <1>2, <1>3, <1>4, <1>5, <1>6 DEF Next, Step

\* output and readMemory of any number of goroutines implement Answers, whatever
\* reports, failures of the link and overflows there are: a request ends only by its
\* own goroutine taking its own answer, which was filed once, by whoever read it.
THEOREM ImplementsAnswers ==
  ASSUME OneCaller
  PROVE  Spec => AnswersOnce
<1>1. Init => Requesting!Init
  BY DEF Init, Requesting!Init, Phase, Awaiting
<1>2. TypeInv /\ AnswerInv => Standing
  BY StandingHolds
<1>3. TypeInv /\ AnswerInv /\ Standing /\ Standing' /\ [Next]_vars => [Requesting!Next]_View
  BY StepAbstract
<1> QED
  BY <1>1, <1>2, <1>3, TypeInvariant, AnswerInvariant, PTL DEF Spec, AnswersOnce, Requesting!Spec, View
===============================================================================
