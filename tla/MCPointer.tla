------------------------------- MODULE MCPointer -------------------------------
(***************************************************************************)
(* A small instance of the pointer and of wiipointer.  A behaviour is in   *)
(* one of three parts, chosen at the start: the geometry of the pointer;   *)
(* the main goroutine of wiipointer and its filters, with a pointer that   *)
(* can be anywhere; or all its goroutines, with a pointer in one place.    *)
(***************************************************************************)
EXTENDS IRPointer, WiiPointer

VARIABLE part

all == <<part, pointerVars, vars>>

\* BOUND: the bar is level, where the Wiimote turns and moves; two lamps.
SpotsHere == {Point(x, 0) : x \in -5 .. 3}
LampsHere == {Point(-3, 2), Point(2, 1)}

MCInit ==
  /\ part \in {"geometry", "filters", "goroutines"}
  /\ PointerInit /\ MouseInit
  /\ part # "geometry" => spot = Point(0, 0) /\ offScreen = 0

MCNext ==
  /\ part' = part
  /\ \/ part = "geometry" /\ PointerNext /\ UNCHANGED vars
     \/ part = "filters" /\ (Main \/ HoldPasses) /\ UNCHANGED pointerVars
     \/ part = "goroutines" /\ MouseNext /\ ir'.pos = 0 /\ UNCHANGED pointerVars

\* The goroutine of the LEDs loops for ever; the others may stop.
MCSpec ==
  /\ MCInit /\ [][MCNext]_all
  /\ WF_all(part = "goroutines" /\ ShowHealth /\ UNCHANGED <<part, pointerVars>>)

\* Where the goroutine of the LEDs runs, the LEDs come to tell the health.
LedsTell == part = "goroutines" => LedsSettle
================================================================================
