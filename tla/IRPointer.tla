------------------------------- MODULE IRPointer -------------------------------
(***************************************************************************)
(* The pointer, pkg/irpointer/pointer.go: which of the lights in view are  *)
(* the two ends of the sensor bar, and where it is when only one is seen.  *)
(*                                                                         *)
(* Lights are points of a grid.  Every comparison of the code is made      *)
(* exact: a quotient or a rotation to the angle of the bar becomes a       *)
(* comparison of products.  The roll is a number of quarter turns.         *)
(***************************************************************************)
EXTENDS Integers

CONSTANTS
  Scale,        \* BOUND: grid points for 1.0, half the width of the view
  MinSbWidth,   \* the narrowest sensor bar, in grid points
  NoGuess,      \* SbSingleNoGuessDistance, in grid points, squared
  OffScreens,   \* the values given to SbOffScreenX, in grid points
  Rolls,        \* the rolls of the Wiimote, in quarter turns
  Width,        \* of the real sensor bar
  Spots,        \* BOUND: where the left end of the real bar can be
  Lamps         \* other sources of light

ASSUME ScaleAssumption == Scale \in Nat \ {0} /\ Width \in Nat \ {0}
ASSUME FieldAssumption == MinSbWidth \in Nat /\ NoGuess \in Nat /\ OffScreens \subseteq Nat
ASSUME RollAssumption == Rolls \subseteq 0 .. 3
ASSUME BarAssumption == MinSbWidth <= Width

Points == [x : Int, y : Int]

ASSUME SpotAssumption == Spots \subseteq Points /\ Lamps \subseteq Points

VARIABLES
  health, valid,
  bar,          \* frame.accDots: the two ends of the bar, leftmost first
  offScreen,    \* the field SbOffScreenX (SbOffScreenY is 3/4 of it)
  spot,         \* the left end of the real bar
  steady        \* history: the pointer has had what it needs since it saw the bar

pointerVars == <<health, valid, bar, offScreen, spot, steady>>

Bars == [1 .. 2 -> Points]

Point(x, y) == [x |-> x, y |-> y]
Plus(a, b) == Point(a.x + b.x, a.y + b.y)
Minus(a, b) == Point(a.x - b.x, a.y - b.y)
Dot(a, b) == a.x * b.x + a.y * b.y
Cross(a, b) == a.x * b.y - a.y * b.x
Square(a) == Dot(a, a)
Abs(n) == IF n < 0 THEN -n ELSE n

\* rotateDots, for quarter turns.
Rotate(a, theta) ==
  CASE theta % 4 = 0 -> a
    [] theta % 4 = 1 -> Point(-a.y, a.x)
    [] theta % 4 = 2 -> Point(-a.x, -a.y)
    [] theta % 4 = 3 -> Point(a.y, -a.x)

\* The camera sees 1.0 to each side and Height, 3/4, up and down.
InView(a, roll) ==
  LET raw == Rotate(a, -roll) IN Abs(raw.x) <= Scale /\ 4 * Abs(raw.y) <= 3 * Scale

-----------------------------------------------------------------------------
(* findCanditates *)

\* The bar from l to r is steeper than 35 degrees (0.7).
Steep(l, r) == 10 * Abs(r.y - l.y) > 7 * Abs(r.x - l.x)

Narrow(l, r) == Square(Minus(r, l)) < MinSbWidth * MinSbWidth

\* The middle dot check: t lies between l and r, farther from each than the
\* width of an emitter (2.25 of 19.5 cm), and off their line by less than its
\* height (1 of 19.5 cm).
Between(t, l, r) ==
  LET u == Minus(r, l)
      along == Dot(Minus(t, l), u)
      across == Abs(Cross(Minus(t, l), u))
  IN /\ 26 * along > 3 * Square(u) /\ 26 * along < 23 * Square(u)
     /\ 39 * across < 2 * Square(u)

Candidates(dots) ==
  {b \in dots \X dots :
     /\ b[1].x < b[2].x
     /\ ~Steep(b[1], b[2]) /\ ~Narrow(b[1], b[2])
     /\ \A t \in dots \ {b[1], b[2]} : ~Between(t, b[1], b[2])}

\* The score is one by the width: the narrowest candidate has the best one.
\* (Of equal ones, the first in the order of the slots.)
Best(candidates) ==
  {b \in candidates : \A c \in candidates :
     Square(Minus(b[2], b[1])) <= Square(Minus(c[2], c[1]))}

-----------------------------------------------------------------------------
(* guessSingle *)

\* Mutant of Moved: the other end stays where it was.
HalfMoved(d, i) == [j \in 1 .. 2 |-> IF i = j THEN d ELSE bar[j]]

\* The last bar, moved so that its end i is at dot d.
Moved(d, i) == [j \in 1 .. 2 |-> Plus(bar[j], Minus(d, bar[i]))]

Gap(m) == Square(Minus(m[1], bar[m[2]]))

\* The dots closest to an end of the last bar, each with that end.
Closest(dots) ==
  {m \in dots \X (1 .. 2) : \A n \in dots \X (1 .. 2) : Gap(m) <= Gap(n)}

\* The other end would be in the middle of the view, and is not seen.
OnScreen(a, roll) ==
  LET raw == Rotate(a, -roll) IN
  Abs(raw.x) < offScreen /\ 4 * Abs(raw.y) < 3 * offScreen

\* How far a dot is from the edge of the view; four times.
Edge(a, roll) ==
  LET raw == Rotate(a, -roll)
      x == 4 * (Scale - Abs(raw.x))
      y == 3 * Scale - 4 * Abs(raw.y)
  IN IF x < y THEN x ELSE y

\* The dot closest to the edge, if it is closer to it than dot m[1] is to the
\* last bar: one distance is squared, the other is not.
Outmost(dots, m, roll) ==
  LET closer == {d \in dots : Scale * Edge(d, roll) < 4 * Gap(m)} IN
  IF closer = {} THEN {m[1]}
  ELSE {d \in closer : \A e \in closer : Edge(d, roll) <= Edge(e, roll)}

\* Three times how far a point is off the middle of the view.
Off(a, roll) ==
  LET raw == Rotate(a, -roll) IN
  IF 3 * Abs(raw.x) > 4 * Abs(raw.y) THEN 3 * Abs(raw.x) ELSE 4 * Abs(raw.y)

\* The dot is tried as both ends of the bar: the other one is farther off.
EdgeGuess(d, roll) ==
  IF Off(Moved(d, 1)[2], roll) > Off(Moved(d, 2)[1], roll) THEN Moved(d, 1) ELSE Moved(d, 2)

Guesses(dots, roll) ==
  UNION {LET m == Moved(c[1], c[2]) IN
         IF (health # "lost" \/ Gap(c) < NoGuess) /\ ~OnScreen(m[3 - c[2]], roll)
         THEN {m}
         ELSE {EdgeGuess(d, roll) : d \in Outmost(dots, c, roll)} : c \in Closest(dots)}
-----------------------------------------------------------------------------
(* updateSensorbar *)

Dark ==
  /\ health' = IF health = "dead" THEN "dead" ELSE "lost"
  /\ valid' = FALSE /\ bar' = bar

SeeBar(dots) ==
  /\ Candidates(dots) # {}
  /\ bar' \in Best(Candidates(dots))
  /\ health' = "good" /\ valid' = TRUE

\* Mutant of GuessBar: a guess is made although no bar was ever seen.
GuessAnyway(dots, roll) ==
  /\ dots # {} /\ Candidates(dots) = {}
  /\ bar' \in Guesses(dots, roll)
  /\ health' = "single" /\ valid' = TRUE

GuessBar(dots, roll) ==
  /\ dots # {} /\ Candidates(dots) = {}
  /\ IF health = "dead"
     THEN valid' = FALSE /\ UNCHANGED <<health, bar>>
     ELSE /\ bar' \in Guesses(dots, roll)
          /\ health' = "single" /\ valid' = TRUE

\* StepRoll: the frame after these lights, seen at this roll.
StepRoll(dots, roll) ==
  \/ dots = {} /\ Dark
  \/ SeeBar(dots)
  \/ GuessBar(dots, roll)

-----------------------------------------------------------------------------
(* The room (external): a sensor bar, other lights, a moving Wiimote *)

RealBar(s) == <<s, Plus(s, Point(Width, 0))>>

Ends(s) == {RealBar(s)[1], RealBar(s)[2]}

\* The camera misses nothing, or any of the lights in view.
InSight(s, roll) == {d \in Ends(s) \cup Lamps : InView(d, roll)}

\* Both ends of the bar at s are seen, and the others of these lights are
\* farther from them, and from each other, than the ends are.
BothEnds(s, dots) ==
  /\ Ends(s) \subseteq dots
  /\ \A o \in dots \ Ends(s) : \A d \in dots \ {o} : Square(Minus(o, d)) > Width * Width

\* The bar was at spot and has moved by less than half its width.  One end is
\* seen, as the other one is out of sight; other lights are farther from where the
\* ends were, and look like no bar.
OneEnd(s, dots, roll) ==
  /\ \E i \in 1 .. 2 :
       /\ RealBar(s)[i] \in dots /\ RealBar(s)[3 - i] \notin dots
       /\ ~OnScreen(RealBar(s)[3 - i], roll)
  /\ 4 * Square(Minus(s, spot)) < Width * Width
  /\ \A o \in dots \ Ends(s), i \in 1 .. 2 :
       Square(Minus(o, RealBar(spot)[i])) > Square(Minus(s, spot))
  /\ Candidates(dots) = {}

\* Has the pointer what it needs to know where the bar is?
Enough(s, dots, roll) == BothEnds(s, dots) \/ (steady /\ OneEnd(s, dots, roll))

Look(s, roll) ==
  \E dots \in SUBSET InSight(s, roll) :
    /\ StepRoll(dots, roll)
    /\ spot' = s /\ steady' = Enough(s, dots, roll)
    /\ UNCHANGED offScreen

PointerInit ==
  /\ health = "dead" /\ valid = FALSE
  /\ bar = <<Point(0, 0), Point(0, 0)>>
  /\ offScreen \in OffScreens
  /\ spot \in Spots /\ steady = FALSE

PointerNext == \E s \in Spots, roll \in Rolls : Look(s, roll)

PointerSpec == PointerInit /\ [][PointerNext]_pointerVars

-----------------------------------------------------------------------------
\* As long as it has what it needs, the pointer is on the sensor bar, frame
\* after frame: guesses do not drift, and other lights do not catch it.
OnTarget == steady => valid /\ bar = RealBar(spot)

\* The pointer of pointer.go is a tracking pointer: Health is what the frames
\* so far make it, and no position is valid before a sensor bar was seen.
Tracker == INSTANCE Tracking WITH place <- bar, Places <- Bars
Tracks == Tracker!Spec
=============================================================================
