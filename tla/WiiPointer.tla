------------------------------ MODULE WiiPointer ------------------------------
(***************************************************************************)
(* The command cmd/wiipointer: watchDevice moves a mouse with a Wiimote.   *)
(* Its main goroutine waits for events and passes what the pointer makes   *)
(* of them through two chains of filters; one goroutine shows the health   *)
(* of the pointer on the LEDs; one scrolls while the key Down is held.     *)
(* They share the variables frame and scroll, without a lock.              *)
(*                                                                         *)
(* The pointer is the abstract one, Tracking, which IRPointer implements.  *)
(***************************************************************************)
EXTENDS Filters, FiniteSets

CONSTANTS
  MaxPlace,     \* BOUND: the positions are 0 .. MaxPlace
  LostBlinks,   \* lostcount's limit (5 in the code)
  Nil

ASSUME PlaceAssumption == MaxPlace \in Nat /\ LostBlinks \in Nat
ASSUME NilAssumption == Nil \notin Nat

VARIABLES
  ir,                       \* the frame of the pointer (Tracking)
  frame,                    \* the variable frame
  process, holdProcess,     \* the two chains
  lastIR, lastAccel,        \* has an event come since the last step?
  hold,                     \* "zero", or a key was pressed: just now ("new"), or
                            \* more than 500 ms ago ("old")
  scroll,                   \* where the scrolling began, or Nil
  mouse,                    \* where the mouse was last set, or Nil
  pc,                       \* of the main goroutine
  blink, lostcount, leds,   \* of the goroutine that sets the LEDs
  scroller,                 \* the one that scrolls: about to "look" or to "use"
  \* history
  dropped,                  \* steps without a position, in a row
  away                      \* steps since the bar was near the accepted position

chainVars == <<process, holdProcess, dropped, away>>
eventVars == <<lastIR, lastAccel, hold>>
ledVars == <<blink, lostcount, leds>>
mouseVars == <<frame, ir, chainVars, eventVars, scroll, mouse, pc>>
vars == <<mouseVars, ledVars, scroller>>

Places == 0 .. MaxPlace
Frames == [valid : BOOLEAN, health : {"dead", "lost", "single", "good"}, pos : Places]

Pointer == INSTANCE Tracking WITH health <- ir.health, valid <- ir.valid, place <- ir.pos

Running == scroller # "crashed"
Chain == <<NewFilter("error"), NewFilter("glitch"), NewFilter("oneEuro"), NewFilter("repeat")>>

MouseInit ==
  /\ ir = [valid |-> FALSE, health |-> "dead", pos |-> 0] /\ frame = ir
  /\ process = Chain /\ holdProcess = Chain
  /\ lastIR = FALSE /\ lastAccel = FALSE /\ hold = "zero"
  /\ scroll = Nil /\ mouse = Nil /\ pc = "wait"
  /\ blink = FALSE /\ lostcount = 0 /\ leds = {}
  /\ scroller = "look"
  /\ dropped = 0 /\ away = 0

-----------------------------------------------------------------------------
(* The main goroutine *)

At(l) == Running /\ pc = l

\* Wait returns an event of this kind, or none of interest.
Receive(l) == At("wait") /\ pc' = l /\ UNCHANGED <<ir, chainVars, frame, mouse, ledVars, scroller>>

EventIR == Receive("step") /\ lastIR' = TRUE /\ UNCHANGED <<lastAccel, hold, scroll>>
EventAccel == Receive("step") /\ lastAccel' = TRUE /\ UNCHANGED <<lastIR, hold, scroll>>

\* Any key but Down is also a mouse button or a key of the keyboard.
EventKey(pressed) ==
  /\ Receive("step")
  /\ hold' = IF pressed THEN "new" ELSE "zero"
  /\ UNCHANGED <<lastIR, lastAccel, scroll>>

\* Scrolling begins where the pointer is, or in the middle; it begins anew when a
\* press comes without a release before it.
EventDown(pressed) ==
  /\ Receive("step")
  /\ scroll' = IF ~pressed THEN Nil ELSE IF frame.valid THEN frame.pos ELSE 0
  /\ UNCHANGED eventVars

\* Another event, or an error, which is logged: the rest of the loop runs too.
EventOther == Receive("step") /\ UNCHANGED <<eventVars, scroll>>

Ready == lastIR /\ lastAccel /\ hold # "new"

\* pointer.Step: frame is the new frame, not filtered yet.
Step ==
  /\ At("step") /\ Ready
  /\ ir' \in Frames /\ Pointer!Next
  /\ frame' = ir'
  /\ pc' = "filter"
  /\ UNCHANGED <<chainVars, eventVars, scroll, mouse, ledVars, scroller>>

NoStep ==
  /\ At("step") /\ ~Ready
  /\ pc' = "show"
  /\ UNCHANGED <<frame, ir, chainVars, eventVars, scroll, mouse, ledVars, scroller>>

\* The position that the glitch filter has accepted.
Accepted(chain) == chain[2].pos

\* Both chains filter every frame; one of the results is used.
Filter ==
  /\ At("filter")
  /\ \E h \in ApplyChain(holdProcess, frame), r \in ApplyChain(process, frame) :
       /\ holdProcess' = h.chain /\ process' = r.chain
       /\ frame' = IF hold # "zero" THEN h.frame ELSE r.frame
  /\ lastIR' = FALSE /\ lastAccel' = FALSE
  /\ dropped' = IF frame.valid THEN 0
                ELSE IF dropped > ErrorMaxCount THEN dropped ELSE dropped + 1
  /\ away' = IF frame.valid /\ Distance(frame.pos, Accepted(process)) <= GlitchDistance THEN 0
             ELSE IF away > GlitchMaxCount THEN away ELSE away + 1
  /\ pc' = "show"
  /\ UNCHANGED <<ir, hold, scroll, mouse, ledVars, scroller>>

\* Mutant of Show: a guess is good enough.
ShowGuess ==
  /\ At("show")
  /\ mouse' = IF frame.valid /\ frame.health \in {"single", "good"} /\ scroll = Nil
              THEN frame.pos ELSE mouse
  /\ pc' = "wait"
  /\ UNCHANGED <<frame, ir, chainVars, eventVars, scroll, ledVars, scroller>>

\* The mouse is set to a good position, also to the one it was set to before.
Show ==
  /\ At("show")
  /\ mouse' = IF frame.valid /\ frame.health = "good" /\ scroll = Nil
              THEN frame.pos ELSE mouse
  /\ pc' = "wait"
  /\ UNCHANGED <<frame, ir, chainVars, eventVars, scroll, ledVars, scroller>>

\* 500 ms have passed since the key was pressed.
HoldPasses ==
  /\ Running /\ hold = "new"
  /\ hold' = "old"
  /\ UNCHANGED <<frame, ir, chainVars, lastIR, lastAccel, scroll, mouse, pc, ledVars, scroller>>

Main == \/ EventIR \/ EventAccel \/ EventOther
        \/ \E pressed \in BOOLEAN : EventKey(pressed) \/ EventDown(pressed)
        \/ Step \/ NoStep \/ Filter \/ Show

-----------------------------------------------------------------------------
(* The LEDs *)

\* The battery is nearly empty, low, or neither (or not known).
BatteryLeds(on) == {{3, 4}, {3}, IF on THEN {3} ELSE {}}

\* Mutant of ShowHealth: the blinks are not counted.
BlinkOn ==
  /\ Running
  /\ blink' = ~blink
  /\ \E battery \in BatteryLeds(blink') :
       leds' = battery \cup CASE frame.health = "lost" /\ blink' -> {1}
                              [] frame.health = "single" -> {1}
                              [] frame.health = "good" -> {1, 2}
                              [] OTHER -> {}
  /\ lostcount' = lostcount
  /\ UNCHANGED <<mouseVars, scroller>>

\* A round of the loop: one look at the health of the frame.  A lost pointer
\* blinks a few times.
ShowHealth ==
  LET blinks == frame.health = "lost" /\ blink' /\ lostcount <= LostBlinks IN
  /\ Running
  /\ blink' = ~blink
  /\ lostcount' = IF blinks THEN lostcount + 1
                  ELSE IF frame.health \in {"single", "good"} THEN 0 ELSE lostcount
  /\ \E battery \in BatteryLeds(blink') :
       leds' = battery \cup CASE blinks -> {1}
                              [] frame.health = "single" -> {1}
                              [] frame.health = "good" -> {1, 2}
                              [] OTHER -> {}
  /\ UNCHANGED <<mouseVars, scroller>>

-----------------------------------------------------------------------------
(* Scrolling *)

ScrollLook ==
  /\ scroller = "look" /\ scroll # Nil
  /\ scroller' = "use"
  /\ UNCHANGED <<mouseVars, ledVars>>

\* The pointer is read again: it may be nil by now, and the program ends.
ScrollUse ==
  /\ scroller = "use"
  /\ scroller' = IF scroll = Nil THEN "crashed" ELSE "look"
  /\ UNCHANGED <<mouseVars, ledVars>>

MouseNext == Main \/ HoldPasses \/ ShowHealth \/ ScrollLook \/ ScrollUse

MouseSpec == MouseInit /\ [][MouseNext]_vars

-----------------------------------------------------------------------------
\* A single wrong frame does not move the pointer: the glitch filter accepts a
\* position far from the last only after GlitchMaxCount steps without the bar
\* near it.  (Frames that the error filter bridges count like the others.)
NoJump ==
  [][Distance(Accepted(process), Accepted(process)') > GlitchDistance /\ process[2].alive
       => away >= GlitchMaxCount]_vars

\* A position outlives its light by ErrorMaxCount frames at most.
HeldBriefly == pc = "show" /\ dropped > ErrorMaxCount => ~frame.valid

\* The mouse does not follow guesses or bridged frames, nor moves while
\* scrolling: a bar is in view when it moves.
MouseOnBar == [][mouse' # mouse => ir.health = "good" /\ ir.valid /\ scroll = Nil]_vars

\* The LEDs come to tell the health of a pointer that stays good, and of one
\* that stays lost.
Shown(h) == <>[](Running /\ frame.health = h)
LedsSettle == /\ Shown("good") => <>[]({1, 2} \subseteq leds)
              /\ Shown("lost") => <>[](1 \notin leds)
=============================================================================
