-------------------------------- MODULE Features --------------------------------
(***************************************************************************)
(* What the features of the kernel driver make of the input events of      *)
(* their nodes: the acceptEvent methods of driver/linuxkernel/feature.go.  *)
(*                                                                         *)
(* A feature keeps a value for each axis of its node and changes it as the *)
(* node tells; at the end of a report it returns all of them as one event. *)
(* The node tells only what has changed, to whoever has it open, and it    *)
(* forgets what does not fit into the buffer of a reader.  (KernelDevice   *)
(* models when a node is opened, read and closed.)                         *)
(***************************************************************************)
EXTENDS Integers, Sequences, SequencesExt, FiniteSets

CONSTANTS
  AxisValues,  \* the values of an axis, 0 among them
  BufferSize,  \* of a reader's buffer (64 and more in the kernel)
  Offsets,     \* given to SetMPNormalization
  Factors,     \* the calibration factors
  Changing,    \* BOUND: sets of codes of a device that change (in the code, any of its codes)
  MaxSpeed,    \* BOUND: on the speeds that MotionPlus reports
  MaxZero      \* BOUND: on its zero point, in hundredths

ASSUME ValueAssumption == AxisValues \subseteq Int
ASSUME BufferAssumption == BufferSize \in Nat /\ BufferSize > 2
ASSUME ChangingAssumption == \A codes \in Changing : IsFiniteSet(codes)
ASSUME ZeroAssumption == Offsets \cup Factors \subseteq Int

VARIABLES
  name,     \* of the input device: it tells which feature this is
  device,   \* the value of each code that the device can tell
  queue,    \* the reader's buffer
  fields,   \* the values of the object
  zero, factor,  \* normalizer and normaizeFactor of MotionPlus
  event,    \* what acceptEvent returned last
  \* history
  told,     \* codes whose value now is in the buffer or was read
  fresh,    \* axes read since the last report ended
  down      \* keys that are held, by the events returned

featureVars == <<name, device, queue, fields, zero, factor, event, told, fresh, down>>

-----------------------------------------------------------------------------
(* The tables: what each code of a node is for the feature *)

\* The entries of two tables.
f ++ g == [c \in DOMAIN f \cup DOMAIN g |-> IF c \in DOMAIN f THEN f[c] ELSE g[c]]

Arrows == [KEY_LEFT |-> "Left", KEY_RIGHT |-> "Right", KEY_UP |-> "Up", KEY_DOWN |-> "Down"]
PlusMinus == [KEY_NEXT |-> "Plus", KEY_PREVIOUS |-> "Minus"]
StartSelect == [BTN_START |-> "Plus", BTN_SELECT |-> "Minus"]
Triggers == [BTN_TL |-> "TL", BTN_TR |-> "TR", BTN_TL2 |-> "ZL", BTN_TR2 |-> "ZR"]
Home == [BTN_MODE |-> "Home"]
NoCodes == <<>>

CoreKeys == Arrows ++ PlusMinus ++ Home ++
  [BTN_1 |-> "One", BTN_2 |-> "Two", BTN_A |-> "A", BTN_B |-> "B"]

AccelAxes == [ABS_RX |-> "accel.X", ABS_RY |-> "accel.Y", ABS_RZ |-> "accel.Z"]

\* Mutant of IRAxes: the second dot is read into the first.
IRAxesMixed ==
  [ABS_HAT0X |-> "slots[0].X", ABS_HAT0Y |-> "slots[0].Y",
   ABS_HAT1X |-> "slots[1].X", ABS_HAT1Y |-> "slots[0].Y",
   ABS_HAT2X |-> "slots[2].X", ABS_HAT2Y |-> "slots[2].Y",
   ABS_HAT3X |-> "slots[3].X", ABS_HAT3Y |-> "slots[3].Y"]

IRAxes ==
  [ABS_HAT0X |-> "slots[0].X", ABS_HAT0Y |-> "slots[0].Y",
   ABS_HAT1X |-> "slots[1].X", ABS_HAT1Y |-> "slots[1].Y",
   ABS_HAT2X |-> "slots[2].X", ABS_HAT2Y |-> "slots[2].Y",
   ABS_HAT3X |-> "slots[3].X", ABS_HAT3Y |-> "slots[3].Y"]

MotionPlusAxes == [ABS_RX |-> "speed.X", ABS_RY |-> "speed.Y", ABS_RZ |-> "speed.Z"]

NunchuckKeys == [BTN_C |-> "C", BTN_Z |-> "Z"]
NunchuckAxes == AccelAxes ++ [ABS_HAT0X |-> "stick.X", ABS_HAT0Y |-> "stick.Y"]

ClassicKeys == Arrows ++ PlusMinus ++ Home ++ Triggers ++
  [BTN_A |-> "A", BTN_B |-> "B", BTN_X |-> "X", BTN_Y |-> "Y"]
ClassicAxes ==
  [ABS_HAT1X |-> "stickLeft.X", ABS_HAT1Y |-> "stickLeft.Y",
   ABS_HAT2X |-> "stickRight.X", ABS_HAT2Y |-> "stickRight.Y",
   ABS_HAT3X |-> "shoulderLeft", ABS_HAT3Y |-> "shoulderRight"]

BoardAxes == [ABS_HAT0X |-> "weights[0]", ABS_HAT0Y |-> "weights[1]",
              ABS_HAT1X |-> "weights[2]", ABS_HAT1Y |-> "weights[3]"]

ProKeys == StartSelect ++ Home ++ Triggers ++
  [BTN_EAST |-> "A", BTN_SOUTH |-> "B", BTN_NORTH |-> "X", BTN_WEST |-> "Y",
   BTN_DPAD_LEFT |-> "Left", BTN_DPAD_RIGHT |-> "Right", BTN_DPAD_UP |-> "Up",
   BTN_DPAD_DOWN |-> "Down", BTN_THUMBL |-> "ThumbL", BTN_THUMBR |-> "ThumbR"]
ProAxes == [ABS_X |-> "sticks[0].X", ABS_Y |-> "sticks[0].Y",
            ABS_RX |-> "sticks[1].X", ABS_RY |-> "sticks[1].Y"]

DrumsAxes ==
  [ABS_X |-> "pad.X", ABS_Y |-> "pad.Y", ABS_CYMBAL_LEFT |-> "cymbalLeft",
   ABS_CYMBAL_RIGHT |-> "cymbalRight", ABS_TOM_LEFT |-> "tomLeft",
   ABS_TOM_RIGHT |-> "tomRight", ABS_TOM_FAR_RIGHT |-> "tomFarRight",
   ABS_BASS |-> "bass", ABS_HI_HAT |-> "hiHat"]

GuitarKeys == Home ++
  [BTN_FRET_FAR_UP |-> "FretFarUp", BTN_FRET_UP |-> "FretUp", BTN_FRET_MID |-> "FretMid",
   BTN_FRET_LOW |-> "FretLow", BTN_FRET_FAR_LOW |-> "FretFarLow",
   BTN_STRUM_BAR_UP |-> "StrumBarUp", BTN_STRUM_BAR_DOWN |-> "StrumBarDown",
   BTN_START |-> "Plus"]
GuitarAxes == [ABS_X |-> "stick.X", ABS_Y |-> "stick.Y",
               ABS_WHAMMY_BAR |-> "whammyBar", ABS_FRET_BOARD |-> "fretBar"]

Keys(kind) ==
  CASE kind = "Core" -> CoreKeys [] kind = "Nunchuck" -> NunchuckKeys
    [] kind = "ClassicController" -> ClassicKeys [] kind = "ProController" -> ProKeys
    [] kind = "Drums" -> StartSelect [] kind = "Guitar" -> GuitarKeys
    [] OTHER -> NoCodes

Axes(kind) ==
  CASE kind = "Accel" -> AccelAxes [] kind = "IR" -> IRAxes
    [] kind = "MotionPlus" -> MotionPlusAxes [] kind = "Nunchuck" -> NunchuckAxes
    [] kind = "ClassicController" -> ClassicAxes [] kind = "BalanceBoard" -> BoardAxes
    [] kind = "ProController" -> ProAxes [] kind = "Drums" -> DrumsAxes
    [] kind = "Guitar" -> GuitarAxes
    [] OTHER -> NoCodes

\* The names begin with "Nintendo Wii Remote"; this is what follows.
featureKindFromName ==
  ("" :> "Core") @@ ("Accelerometer" :> "Accel") @@ ("IR" :> "IR")
  @@ ("Motion Plus" :> "MotionPlus") @@ ("Nunchuk" :> "Nunchuck")
  @@ ("Classic Controller" :> "ClassicController") @@ ("Balance Board" :> "BalanceBoard")
  @@ ("Pro Controller" :> "ProController") @@ ("Drums" :> "Drums") @@ ("Guitar" :> "Guitar")

Kind == featureKindFromName[name]

\* A new object.  Dots that are not there are at 1023.
featureFromName(kind) ==
  [f \in Range(Axes(kind)) |-> IF kind = "IR" THEN 1023 ELSE 0]

-----------------------------------------------------------------------------
(* The input device (external) *)

\* Codes that the device can tell: the ones of the table, and a key and an axis
\* that are in none.
Known(kind) == DOMAIN Keys(kind) \cup DOMAIN Axes(kind)
OfAxes(codes) == codes \cap DOMAIN Axes(Kind)

Sync(c) == [type |-> "SYN", code |-> c, value |-> 0]

\* What tells the value of a code: not the repetition of a key.
About(e) == e.type = "ABS" \/ (e.type = "KEY" /\ e.value # 2)

\* The codes whose values these events tell.
Telling(events) == {events[i].code : i \in {j \in DOMAIN events : About(events[j])}}

\* The buffer, and the codes told, with one more event.  When the buffer is
\* full, what it holds is dropped for a mark and the new event.
Put(b, e) ==
  LET full == Len(b.queue) + 1 >= BufferSize IN
  [queue |-> IF full THEN <<Sync("DROPPED"), e>> ELSE Append(b.queue, e),
   told |-> (IF full THEN b.told \ Telling(b.queue) ELSE b.told) \cup Telling(<<e>>)]

Type(c) == IF c \in DOMAIN Axes(Kind) \cup {"ABS_OTHER"} THEN "ABS" ELSE "KEY"

Values(c) == IF Type(c) = "KEY" THEN {0, 1} ELSE AxisValues

\* The mark of a report's end carries, as history, what the device has and what
\* of it has been told.
Mark(new, codes) ==
  [type |-> "SYN", code |-> "REPORT", value |-> 0, was |-> new, told |-> codes]

\* A report of these events.
Send(new, events, before) ==
  LET b == FoldLeft(Put, [queue |-> queue, told |-> before], events)
      end == Put(b, Sync("REPORT"))
  IN /\ device' = new /\ told' = end.told
     /\ queue' = Front(end.queue) \o <<Mark(new, end.told)>>
     /\ event' = <<>>
     /\ UNCHANGED <<name, fields, zero, factor, fresh, down>>

Tells(c, v) == [type |-> Type(c), code |-> c, value |-> v]

\* A report tells what has changed.
Report ==
  \E changed \in SUBSET DOMAIN device \ {{}}, new \in [DOMAIN device -> AxisValues \cup {0, 1}] :
    /\ \A c \in DOMAIN device : IF c \in changed THEN new[c] \in Values(c) \ {device[c]}
                                ELSE new[c] = device[c]
    /\ Send(new, SetToSeq({Tells(c, new[c]) : c \in changed}), told \ changed)

\* A key that is held repeats; its value is 2.
KeyRepeat ==
  \E c \in DOMAIN device :
    /\ Type(c) = "KEY" /\ device[c] = 1 /\ queue = <<>>
    /\ Send(device, <<Tells(c, 2)>>, told)

-----------------------------------------------------------------------------
(* The feature *)

\* The node is opened, again perhaps: a new object, with a buffer of its own.
Open ==
  /\ fields' = featureFromName(Kind)
  /\ queue' = <<>> /\ told' = {} /\ fresh' = {} /\ event' = <<>>
  /\ zero' = [f \in DOMAIN fields |-> 0] /\ factor' = 0
  /\ UNCHANGED <<name, device, down>>

SetMPNormalization(offset, f) ==
  /\ Kind = "MotionPlus"
  /\ zero' = [a \in DOMAIN fields |-> 100 * offset] /\ factor' = f
  /\ event' = <<>>
  /\ UNCHANGED <<name, device, queue, fields, told, fresh, down>>

\* Integer division, towards zero.
Quotient(n, d) == IF n < 0 THEN -((-n) \div d) ELSE n \div d

\* MPNormalization
Offset(f) == Quotient(zero[f], 100)

\* acceptEvent reads the next event of the buffer, of type t.
Reads(t) == queue # <<>> /\ Head(queue).type = t /\ queue' = Tail(queue)

\* Mutant of AcceptKey: the bounds of the values that count are one too high.
AcceptKeyHigher ==
  /\ Reads("KEY")
  /\ LET e == Head(queue) IN
     IF e.value \in {1, 2} /\ e.code \in DOMAIN Keys(Kind)
     THEN LET key == Keys(Kind)[e.code] IN
          /\ event' = [type |-> "key", code |-> key, pressed |-> e.value # 0]
          /\ down' = IF e.value # 0 THEN down \cup {key} ELSE down \ {key}
     ELSE event' = <<>> /\ down' = down
  /\ UNCHANGED <<name, device, fields, zero, factor, told, fresh>>

AcceptKey ==
  /\ Reads("KEY")
  /\ LET e == Head(queue) IN
     IF e.value \in {0, 1} /\ e.code \in DOMAIN Keys(Kind)
     THEN LET key == Keys(Kind)[e.code] IN
          /\ event' = [type |-> "key", code |-> key, pressed |-> e.value = 1]
          /\ down' = IF e.value = 1 THEN down \cup {key} ELSE down \ {key}
     ELSE event' = <<>> /\ down' = down
  /\ UNCHANGED <<name, device, fields, zero, factor, told, fresh>>

AcceptAxis ==
  /\ Reads("ABS")
  /\ LET e == Head(queue) IN
     IF e.code \in DOMAIN Axes(Kind)
     THEN fields' = [fields EXCEPT ![Axes(Kind)[e.code]] = e.value] /\ fresh' = fresh \cup {e.code}
     ELSE UNCHANGED <<fields, fresh>>
  /\ event' = <<>>
  /\ UNCHANGED <<name, device, zero, factor, told, down>>

\* The event of a report, with what it was made from.
Move == [type |-> "move", fields |-> fields, sync |-> Head(queue), fresh |-> fresh, zero |-> zero]

\* The end of a report, or the mark of dropped events: all values are returned.
AcceptSync ==
  /\ Reads("SYN") /\ Kind # "MotionPlus"
  /\ event' = IF Kind = "Core" THEN <<>> ELSE Move
  /\ fresh' = {}
  /\ UNCHANGED <<name, device, fields, zero, factor, told, down>>

\* MotionPlus: the zero point is taken off the speeds, which are kept like
\* that; and the zero point follows them, if there is a factor.
AcceptMotionPlus ==
  /\ Reads("SYN") /\ Kind = "MotionPlus"
  /\ fields' = [f \in DOMAIN fields |-> fields[f] - Offset(f)]
  /\ zero' = [f \in DOMAIN fields |-> IF fields'[f] > 0 THEN zero[f] + factor ELSE zero[f] - factor]
  /\ \A f \in DOMAIN fields : fields'[f] \in -MaxSpeed .. MaxSpeed /\ zero'[f] \in -MaxZero .. MaxZero
  /\ event' = [Move EXCEPT !.fields = fields']
  /\ fresh' = {}
  /\ UNCHANGED <<name, device, factor, told, down>>

-----------------------------------------------------------------------------
FeaturesInit ==
  /\ name \in DOMAIN featureKindFromName
  /\ \E codes \in Changing :
       /\ codes \subseteq Known(Kind) \cup {"BTN_OTHER", "ABS_OTHER"}
       /\ device \in {d \in [codes -> AxisValues \cup {0, 1}] : \A c \in codes : d[c] \in Values(c)}
  /\ queue = <<>> /\ told = {} /\ fresh = {} /\ down = {}
  /\ fields = featureFromName(Kind)
  /\ zero = [f \in DOMAIN fields |-> 0] /\ factor = 0 /\ event = <<>>

FeaturesNext ==
  \/ Report \/ KeyRepeat \/ Open
  \/ \E offset \in Offsets, f \in Factors : SetMPNormalization(offset, f)
  \/ AcceptKey \/ AcceptAxis \/ AcceptSync \/ AcceptMotionPlus

FeaturesSpec == FeaturesInit /\ [][FeaturesNext]_featureVars

-----------------------------------------------------------------------------
\* An event with the axes of a feature is a state the device was in: each of
\* them has the value that the device had at the end of the report, once it has
\* been told since the node was opened, and unless it was told in a report that
\* did not fit into the buffer.  (MotionPlus takes off its zero point; what is
\* not in the report is not what the device has, when it has one.)
FramesTrue ==
  event # <<>> /\ event.type = "move" /\ event.sync.code = "REPORT" =>
    \A c \in OfAxes(event.sync.told) :
      LET f == Axes(Kind)[c] IN
      IF Kind = "MotionPlus"
      THEN c \in event.fresh => event.fields[f] = event.sync.was[c] - Quotient(event.zero[f], 100)
      ELSE event.fields[f] = event.sync.was[c]

\* When everything is read, the keys that are held by the events are those that
\* are held on the device, but for those never told or dropped.
KeysFollow ==
  queue = <<>> =>
    \A c \in told \cap DOMAIN Keys(Kind) : Keys(Kind)[c] \in down <=> device[c] = 1
================================================================================
