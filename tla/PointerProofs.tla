----------------------------- MODULE PointerProofs -----------------------------
(* Proofs about the pointer, which is a tracking pointer and stays on target, *)
(* and about the command that moves a mouse with it.                          *)
EXTENDS IRPointer, WiiPointer, FoldProofs

PlaceOK == bar \in Bars /\ spot \in Spots

\* A bar is made of two points.
LEMMA PairIsBar ==
  ASSUME NEW a \in Points, NEW b \in Points
  PROVE  <<a, b>> \in Bars
BY DEF Bars

\* Points can be added and taken off.
LEMMA PointSums ==
  ASSUME NEW a \in Points, NEW b \in Points
  PROVE  /\ Plus(a, b) \in Points /\ Minus(a, b) \in Points
         /\ Square(a) \in Nat /\ Square(Minus(a, b)) \in Int
BY DEF Points, Point, Plus, Minus, Square, Dot

\* Whatever the camera sees are points.
LEMMA PointsInSight ==
  ASSUME NEW s \in Spots, NEW roll \in Rolls
  PROVE  InSight(s, roll) \subseteq Points
<1>1. s \in Points /\ Lamps \subseteq Points
  BY SpotAssumption
<1>2. Point(Width, 0) \in Points
  BY ScaleAssumption DEF Point, Points
<1>3. Plus(s, Point(Width, 0)) \in Points
  BY <1>1, <1>2, PointSums
<1> QED
  BY <1>1, <1>3 DEF InSight, Ends, RealBar

\* A guess is the last bar, moved to one of the lights.
LEMMA GuessIsMoved ==
  ASSUME NEW dots, NEW roll, NEW g \in Guesses(dots, roll)
  PROVE  \E d \in dots, i \in 1 .. 2 : g = Moved(d, i)
<1>1. PICK c \in Closest(dots) :
        \/ g = Moved(c[1], c[2])
        \/ \E d \in Outmost(dots, c, roll) : g = EdgeGuess(d, roll)
  BY DEF Guesses
<1>2. c[1] \in dots /\ c[2] \in 1 .. 2
  BY DEF Closest
<1>3. Outmost(dots, c, roll) \subseteq dots
  BY <1>2 DEF Outmost
<1>4. \A d : EdgeGuess(d, roll) \in {Moved(d, 1), Moved(d, 2)}
  BY DEF EdgeGuess
<1> QED
  BY <1>1, <1>2, <1>3, <1>4

\* What guessSingle returns is a pair of points.
LEMMA GuessIsBar ==
  ASSUME bar \in Bars, NEW dots \in SUBSET Points, NEW roll,
         NEW g \in Guesses(dots, roll)
  PROVE  g \in Bars
<1>1. PICK d \in dots, i \in 1 .. 2 : g = Moved(d, i)
  BY GuessIsMoved
<1>2. bar[1] \in Points /\ bar[2] \in Points
  BY DEF Bars
<1>3. Minus(d, bar[i]) \in Points
  BY <1>2, PointSums
<1>4. \A j \in 1 .. 2 : Plus(bar[j], Minus(d, bar[i])) \in Points
  BY <1>2, <1>3, PointSums
<1> QED
  BY <1>1, <1>4 DEF Moved, Bars

\* What findCanditates returns is one, too.
LEMMA SeenIsBar ==
  ASSUME NEW dots \in SUBSET Points, SeeBar(dots)
  PROVE  bar' \in Bars
<1>1. bar' \in dots \X dots
  BY DEF SeeBar, Best, Candidates
<1>2. PICK a \in dots, b \in dots : bar' = <<a, b>>
  BY <1>1
<1> QED
  BY <1>2, PairIsBar
-----------------------------------------------------------------------------
\* A frame leaves the pointer with a pair of points.
LEMMA PlaceStep ==
  ASSUME PlaceOK, [PointerNext]_pointerVars
  PROVE  PlaceOK'
<1>1. CASE UNCHANGED pointerVars
  BY <1>1 DEF PlaceOK, pointerVars
<1>2. ASSUME NEW s \in Spots, NEW roll \in Rolls, Look(s, roll)
      PROVE  PlaceOK'
  <2>1. PICK dots \in SUBSET InSight(s, roll) : StepRoll(dots, roll) /\ spot' = s
    BY <1>2 DEF Look
  <2>2. dots \in SUBSET Points
    BY PointsInSight
  <2>3. CASE Dark
    BY <2>1, <2>3 DEF Dark, PlaceOK
  <2>4. CASE SeeBar(dots)
    BY <2>1, <2>2, <2>4, SeenIsBar DEF PlaceOK
  <2>5. CASE GuessBar(dots, roll)
    BY <2>1, <2>2, <2>5, GuessIsBar DEF GuessBar, PlaceOK
  <2> QED
    BY <2>1, <2>3, <2>4, <2>5 DEF StepRoll
<1> QED
  BY <1>1, <1>2 DEF PointerNext

\* It begins with one.
LEMMA PlaceInit ==
  ASSUME PointerInit
  PROVE  PlaceOK
BY PairIsBar DEF PointerInit, PlaceOK, Point, Points

\* So it always has one.
LEMMA PlaceInvariant == PointerSpec => []PlaceOK
BY PlaceInit, PlaceStep, PTL DEF PointerSpec

\* Every frame of the pointer is a step of a tracking pointer.
LEMMA FrameTracks ==
  ASSUME PlaceOK, PlaceOK', [PointerNext]_pointerVars
  PROVE  [Tracker!Next]_(Tracker!trackVars)
<1>1. CASE UNCHANGED pointerVars
  BY <1>1 DEF pointerVars, Tracker!trackVars
<1>2. ASSUME NEW s \in Spots, NEW roll \in Rolls, Look(s, roll)
      PROVE  Tracker!Next
  <2>1. PICK dots \in SUBSET InSight(s, roll) : StepRoll(dots, roll)
    BY <1>2 DEF Look
  <2>2. CASE Dark
    BY <2>2 DEF Dark, Tracker!Dark, Tracker!Next
  <2>3. CASE SeeBar(dots)
    BY <2>3 DEF SeeBar, PlaceOK, Tracker!Bar, Tracker!Next
  <2>4. CASE GuessBar(dots, roll) /\ health = "dead"
    BY <2>4 DEF GuessBar, Tracker!Unseen, Tracker!Next
  <2>5. CASE GuessBar(dots, roll) /\ health # "dead"
    BY <2>5 DEF GuessBar, PlaceOK, Tracker!Guess, Tracker!Next
  <2> QED
    BY <2>1, <2>2, <2>3, <2>4, <2>5 DEF StepRoll
<1> QED
  BY <1>1, <1>2 DEF PointerNext

\* Whatever the room and the camera, the pointer of pointer.go implements
\* Tracking: health and validity of its frames are what the lights so far make
\* them, and a guess is made only when a sensor bar was seen before.
THEOREM PointerTracks == PointerSpec => Tracks
<1>1. PointerInit => Tracker!Init
  BY PlaceInit DEF PointerInit, PlaceOK, Tracker!Init
<1>2. PlaceOK /\ PlaceOK' /\ [PointerNext]_pointerVars => [Tracker!Next]_(Tracker!trackVars)
  BY FrameTracks
<1> QED
  BY <1>1, <1>2, PlaceInvariant, PTL DEF PointerSpec, Tracks, Tracker!Spec
-----------------------------------------------------------------------------
(* Arithmetic *)

\* A positive factor can be taken off both sides.
LEMMA Cancel ==
  ASSUME NEW a \in Int, NEW b \in Int, NEW w \in Nat \ {0}, a * w < b * w
  PROVE  a < b
<1>1. CASE a >= b
  <2>1. (a - b) * w >= 0
    BY <1>1
  <2>2. (a - b) * w = a * w - b * w
    OBVIOUS
  <2> QED
    BY <2>1, <2>2
<1> QED
  BY <1>1

\* Squares compare like distances.
LEMMA SquareLess ==
  ASSUME NEW a \in Int, NEW b \in Int, -b < a, a < b
  PROVE  a * a < b * b
<1>1. (b - a) * (b + a) > 0
  OBVIOUS
<1>2. (b - a) * (b + a) = b * b - a * a
  OBVIOUS
<1> QED
  BY <1>1, <1>2

\* A square is not negative.
LEMMA SquareNat ==
  ASSUME NEW a \in Int
  PROVE  a * a >= 0
OBVIOUS

\* A point in the middle of the bar, and close to its line, is closer to an end
\* than the bar is wide.
LEMMA MiddleIsNear ==
  ASSUME NEW w \in Nat \ {0}, NEW x \in Int, NEW y \in Int,
         26 * (x * w) > 3 * (w * w), 26 * (x * w) < 23 * (w * w),
         39 * Abs(y * w) < 2 * (w * w)
  PROVE  x * x + y * y < w * w
<1>1. 26 * x < 23 * w
  <2>1. (26 * x) * w < (23 * w) * w
    OBVIOUS
  <2> QED
    BY <2>1, Cancel
<1>2. 3 * w < 26 * x
  <2>1. (3 * w) * w < (26 * x) * w
    OBVIOUS
  <2> QED
    BY <2>1, Cancel
<1>3. 39 * y < 2 * w
  <2>1. (39 * y) * w < (2 * w) * w
    BY DEF Abs
  <2> QED
    BY <2>1, Cancel
<1>4. -(2 * w) < 39 * y
  <2>1. (-(39 * y)) * w < (2 * w) * w
    BY DEF Abs
  <2> QED
    BY <2>1, Cancel
<1>5. (26 * x) * (26 * x) < (23 * w) * (23 * w)
  BY <1>1, <1>2, SquareLess
<1>6. (39 * y) * (39 * y) < (2 * w) * (2 * w)
  BY <1>3, <1>4, SquareLess
<1> DEFINE X == x * x
           Y == y * y
           W == w * w
<1>7. X \in Int /\ Y \in Int /\ W \in Int
  OBVIOUS
<1>8. 676 * X < 529 * W /\ 1521 * Y < 4 * W
  BY <1>5, <1>6
<1>9. W > 0
  OBVIOUS
<1> HIDE DEF X, Y, W
<1>10. X + Y < W
  BY <1>7, <1>8, <1>9
<1> QED
  BY <1>10 DEF X, Y, W
-----------------------------------------------------------------------------
(* The bar, seen whole *)

\* The two ends of the real bar, level and Width apart.
LEMMA RealEnds ==
  ASSUME NEW s \in Points
  PROVE  /\ RealBar(s)[1] = s /\ RealBar(s)[2] = Point(s.x + Width, s.y)
         /\ RealBar(s)[1] \in Points /\ RealBar(s)[2] \in Points
         /\ Ends(s) = {s, Point(s.x + Width, s.y)}
         /\ RealBar(s) = <<s, Point(s.x + Width, s.y)>>
<1>1. Plus(s, Point(Width, 0)) = Point(s.x + Width, s.y)
  BY ScaleAssumption DEF Plus, Point, Points
<1>2. Point(s.x + Width, s.y) \in Points
  BY ScaleAssumption DEF Point, Points
<1> QED
  BY <1>1, <1>2 DEF RealBar, Ends

\* A light that is farther from the bar's left end than the right one is not
\* taken for a dot in its middle.
LEMMA FarNotBetween ==
  ASSUME NEW s \in Points, NEW t \in Points, Square(Minus(t, s)) > Width * Width
  PROVE  ~Between(t, s, Point(s.x + Width, s.y))
<1> DEFINE r == Point(s.x + Width, s.y)
           x == t.x - s.x
           y == t.y - s.y
<1> USE ScaleAssumption
<1>1. x \in Int /\ y \in Int
  BY DEF Points
<1>2. Minus(r, s) = Point(Width, 0) /\ Minus(t, s) = Point(x, y)
  BY DEF Minus, Point, Points
<1> HIDE DEF x, y, r
<1>3. /\ Dot(Minus(t, s), Minus(r, s)) = x * Width
      /\ Square(Minus(r, s)) = Width * Width
      /\ Cross(Minus(t, s), Minus(r, s)) = -(y * Width)
      /\ Square(Minus(t, s)) = x * x + y * y
  BY <1>1, <1>2 DEF Dot, Square, Cross, Point
<1>4. Abs(-(y * Width)) = Abs(y * Width)
  <2>1. \A n \in Int : Abs(-n) = Abs(n)
    BY DEF Abs
  <2> QED
    BY <1>1, <2>1
<1>5. ~(x * x + y * y < Width * Width)
  BY <1>1, <1>3
<1>6. ~(/\ 26 * (x * Width) > 3 * (Width * Width)
        /\ 26 * (x * Width) < 23 * (Width * Width)
        /\ 39 * Abs(y * Width) < 2 * (Width * Width))
  BY <1>1, <1>5, MiddleIsNear
<1>7. ~Between(t, s, r)
  BY <1>3, <1>4, <1>6 DEF Between
<1> QED
  BY <1>7 DEF r

\* With both ends in view and no light in the middle, the real bar is a candidate.
LEMMA BarIsCandidate ==
  ASSUME NEW s \in Points, NEW dots \in SUBSET Points, BothEnds(s, dots)
  PROVE  RealBar(s) \in Candidates(dots)
<1> DEFINE r == Point(s.x + Width, s.y)
<1> USE ScaleAssumption
<1>1. r.x = s.x + Width /\ r.y = s.y /\ s.x \in Int /\ s.y \in Int /\ r \in Points
  BY DEF Point, Points
<1>2. s \in dots /\ r \in dots
  BY RealEnds DEF BothEnds
<1>3. s.x < r.x
  BY <1>1
<1>4. ~Steep(s, r)
  BY <1>1 DEF Steep, Abs
<1>5. Square(Minus(r, s)) = Width * Width
  BY <1>1 DEF Square, Minus, Dot, Point
<1>6. ~Narrow(s, r)
  <2>1. MinSbWidth * MinSbWidth <= Width * Width
    BY BarAssumption, FieldAssumption
  <2> QED
    BY <1>5, <2>1, FieldAssumption DEF Narrow
<1>7. ASSUME NEW t \in dots \ {s, r}
      PROVE  ~Between(t, s, r)
  <2>1. Square(Minus(t, s)) > Width * Width
    BY <1>2, RealEnds DEF BothEnds
  <2> QED
    BY <2>1, FarNotBetween
<1>8. RealBar(s) = <<s, r>>
  BY RealEnds
<1> QED
  BY <1>2, <1>3, <1>4, <1>6, <1>7, <1>8 DEF Candidates

\* Whatever else the camera sees, the bar is the one candidate with the best score.
LEMMA BarIsBest ==
  ASSUME NEW s \in Points, NEW dots \in SUBSET Points, BothEnds(s, dots)
  PROVE  Best(Candidates(dots)) \subseteq {RealBar(s)}
<1> DEFINE r == Point(s.x + Width, s.y)
<1> USE ScaleAssumption
<1>1. r.x = s.x + Width /\ r.y = s.y /\ s.x \in Int /\ s.y \in Int /\ r \in Points
  BY DEF Point, Points
<1>2. RealBar(s) = <<s, r>> /\ Ends(s) = {s, r}
  BY RealEnds
<1>3. Square(Minus(r, s)) = Width * Width
  BY <1>1 DEF Square, Minus, Dot, Point
<1>4. ASSUME NEW b \in Best(Candidates(dots))
      PROVE  b = RealBar(s)
  <2>1. b \in dots \X dots /\ b[1].x < b[2].x
    BY DEF Best, Candidates
  <2>2. Square(Minus(b[2], b[1])) <= Width * Width
    BY <1>2, <1>3, BarIsCandidate DEF Best
  <2>3. b[1] \in Points /\ b[2] \in Points /\ b[1] # b[2]
    BY <2>1 DEF Points
  <2>4. Square(Minus(b[1], b[2])) = Square(Minus(b[2], b[1]))
    BY <2>3 DEF Square, Minus, Dot, Point, Points
  <2>5. \A o \in dots \ {s, r} : \A d \in dots \ {o} : Square(Minus(o, d)) > Width * Width
    BY <1>2 DEF BothEnds
  <2>6. Square(Minus(b[2], b[1])) \in Int
    BY <2>3, PointSums
  <2>7. b[1] \in {s, r} /\ b[2] \in {s, r}
    BY <2>1, <2>2, <2>3, <2>4, <2>5, <2>6
  <2>8. b[1] = s /\ b[2] = r
    BY <1>1, <2>1, <2>3, <2>7
  <2> QED
    BY <1>2, <2>1, <2>8
<1> QED
  BY <1>4
-----------------------------------------------------------------------------
(* One end of the bar *)

\* A pair, as a function.
LEMMA PairAsFunction ==
  ASSUME NEW a, NEW b
  PROVE  <<a, b>> = [j \in 1 .. 2 |-> IF j = 1 THEN a ELSE b]
OBVIOUS

\* The bar, moved so that one of its ends is where it is now, is where it is now.
LEMMA MovedToEnd ==
  ASSUME NEW s \in Points, spot \in Points, bar = RealBar(spot), NEW k \in 1 .. 2
  PROVE  Moved(RealBar(s)[k], k) = RealBar(s)
<1> DEFINE step == Point(s.x - spot.x, s.y - spot.y)
           f == [j \in 1 .. 2 |-> IF j = 1 THEN s ELSE Point(s.x + Width, s.y)]
<1> USE ScaleAssumption
<1>1. RealBar(s) = f
  BY RealEnds, PairAsFunction
<1>2. \A j \in 1 .. 2 : bar[j] = IF j = 1 THEN spot ELSE Point(spot.x + Width, spot.y)
  BY RealEnds
<1>3. Minus(f[k], bar[k]) = step
  BY <1>2 DEF Minus, Point, Points
<1>4. \A j \in 1 .. 2 : Plus(bar[j], step) = f[j]
  <2>1. Plus(bar[1], step) = s
    BY <1>2 DEF Plus, Point, Points
  <2>2. Plus(bar[2], step) = Point(s.x + Width, s.y)
    BY <1>2 DEF Plus, Point, Points
  <2> QED
    BY <2>1, <2>2
<1> HIDE DEF step
<1>5. Moved(f[k], k) = [j \in 1 .. 2 |-> f[j]]
  BY <1>3, <1>4 DEF Moved
<1> QED
  BY <1>1, <1>5

\* How far the seen end has moved from either end of the bar before.
LEMMA SeenEndGaps ==
  ASSUME NEW s \in Points, spot \in Points, bar = RealBar(spot), NEW k \in 1 .. 2,
         4 * Square(Minus(s, spot)) < Width * Width
  PROVE  /\ Gap(<<RealBar(s)[k], k>>) = Square(Minus(s, spot))
         /\ Gap(<<RealBar(s)[k], 3 - k>>) > Square(Minus(s, spot))
<1> DEFINE x == s.x - spot.x
           y == s.y - spot.y
           D == x * x + y * y
<1> USE ScaleAssumption
<1>1. x \in Int /\ y \in Int
  BY DEF Points
<1>2. Square(Minus(s, spot)) = D
  BY DEF Square, Minus, Dot, Point, Points
<1>3. /\ Minus(s, spot) = Point(x, y)
      /\ Minus(Point(s.x + Width, s.y), Point(spot.x + Width, spot.y)) = Point(x, y)
      /\ Minus(s, Point(spot.x + Width, spot.y)) = Point(x - Width, y)
      /\ Minus(Point(s.x + Width, s.y), spot) = Point(x + Width, y)
  BY DEF Minus, Point, Points
<1>4. /\ Minus(RealBar(s)[k], bar[k]) = Point(x, y)
      /\ \/ Minus(RealBar(s)[k], bar[3 - k]) = Point(x - Width, y)
         \/ Minus(RealBar(s)[k], bar[3 - k]) = Point(x + Width, y)
  <2>1. k = 1 \/ k = 2
    OBVIOUS
  <2> HIDE DEF x, y
  <2>2. CASE k = 1
    BY <1>3, <2>2, RealEnds
  <2>3. CASE k = 2
    BY <1>3, <2>3, RealEnds
  <2> QED
    BY <2>1, <2>2, <2>3
<1> HIDE DEF x, y
<1>5. 2 * x < Width /\ -(2 * x) < Width
  <2>1. (2 * x) * (2 * x) < Width * Width
    <3>1. 4 * (x * x) <= 4 * D
      BY <1>1, SquareNat
    <3>2. (2 * x) * (2 * x) = 4 * (x * x)
      BY <1>1
    <3>3. 4 * D < Width * Width /\ D \in Int
      BY <1>1, <1>2
    <3> HIDE DEF D
    <3> QED
      BY <1>1, <3>1, <3>2, <3>3
  <2>2. \A n \in Int : n >= Width => n * n >= Width * Width
    OBVIOUS
  <2>3. 2 * x < Width
    BY <1>1, <2>1, <2>2
  <2>4. (-(2 * x)) * (-(2 * x)) = (2 * x) * (2 * x)
    BY <1>1
  <2>5. -(2 * x) < Width
    BY <1>1, <2>1, <2>2, <2>4
  <2> QED
    BY <2>3, <2>5
<1>6. /\ (x - Width) * (x - Width) > x * x
      /\ (x + Width) * (x + Width) > x * x
  <2>1. (x - Width) * (x - Width) = x * x + Width * (Width - 2 * x)
    BY <1>1
  <2>2. (x + Width) * (x + Width) = x * x + Width * (Width + 2 * x)
    BY <1>1
  <2>3. Width * (Width - 2 * x) > 0 /\ Width * (Width + 2 * x) > 0
    BY <1>1, <1>5
  <2> QED
    BY <1>1, <2>1, <2>2, <2>3
<1>7. Gap(<<RealBar(s)[k], k>>) = D
  BY <1>4 DEF Gap, Square, Dot, Point
<1>8. \/ Gap(<<RealBar(s)[k], 3 - k>>) = (x - Width) * (x - Width) + y * y
      \/ Gap(<<RealBar(s)[k], 3 - k>>) = (x + Width) * (x + Width) + y * y
  BY <1>4 DEF Gap, Square, Dot, Point
<1> QED
  BY <1>1, <1>2, <1>6, <1>7, <1>8

\* From one end of the bar, the guess is the bar.
LEMMA OneEndGuess ==
  ASSUME NEW s \in Points, spot \in Points, bar = RealBar(spot), health # "lost",
         NEW dots \in SUBSET Points, NEW roll, OneEnd(s, dots, roll)
  PROVE  Guesses(dots, roll) \subseteq {RealBar(s)}
<1>1. PICK k \in 1 .. 2 :
        /\ RealBar(s)[k] \in dots /\ RealBar(s)[3 - k] \notin dots
        /\ ~OnScreen(RealBar(s)[3 - k], roll)
  BY DEF OneEnd
<1> DEFINE e == RealBar(s)[k]
           D == Square(Minus(s, spot))
<1>2. D \in Int
  BY PointSums
<1>3. Gap(<<e, k>>) = D /\ Gap(<<e, 3 - k>>) > D
  BY SeenEndGaps DEF OneEnd
<1>4. ASSUME NEW m \in dots \X (1 .. 2), m # <<e, k>>
      PROVE  Gap(m) > D
  <2>1. CASE m[1] = e
    <3>1. m = <<e, 3 - k>>
      BY <1>4, <2>1
    <3> QED
      BY <1>3, <3>1
  <2>2. CASE m[1] # e
    <3>1. m[1] \in dots \ Ends(s)
      BY <1>1, <2>2 DEF Ends
    <3>2. \A o \in dots \ Ends(s), i \in 1 .. 2 : Square(Minus(o, bar[i])) > D
      BY DEF OneEnd
    <3> QED
      BY <3>1, <3>2 DEF Gap
  <2> QED
    BY <2>1, <2>2
<1>5. \A m \in dots \X (1 .. 2) : Gap(m) \in Int
  <2>1. bar[1] \in Points /\ bar[2] \in Points
    BY RealEnds
  <2> QED
    BY <2>1, PointSums DEF Gap
<1>6. <<e, k>> \in dots \X (1 .. 2)
  BY <1>1
<1>7. ASSUME NEW c \in Closest(dots)
      PROVE  c = <<e, k>>
  <2>1. c \in dots \X (1 .. 2) /\ Gap(c) <= Gap(<<e, k>>)
    BY <1>6 DEF Closest
  <2> QED
    BY <1>2, <1>3, <1>4, <1>5, <2>1
<1>8. Moved(e, k) = RealBar(s)
  BY MovedToEnd
<1>9. (health # "lost" \/ Gap(<<e, k>>) < NoGuess) /\ ~OnScreen(Moved(e, k)[3 - k], roll)
  BY <1>1, <1>8
<1>10. ASSUME NEW g \in Guesses(dots, roll)
       PROVE  g = RealBar(s)
  <2>1. PICK c \in Closest(dots) :
          g \in LET m == Moved(c[1], c[2]) IN
                IF (health # "lost" \/ Gap(c) < NoGuess) /\ ~OnScreen(m[3 - c[2]], roll)
                THEN {m}
                ELSE {EdgeGuess(d, roll) : d \in Outmost(dots, c, roll)}
    BY <1>10 DEF Guesses
  <2>2. c = <<e, k>> /\ c[1] = e /\ c[2] = k
    BY <1>7
  <2> HIDE DEF e
  <2>3. g \in {Moved(e, k)}
    BY <1>9, <2>1, <2>2
  <2> QED
    BY <1>8, <2>3
<1> QED
  BY <1>10
-----------------------------------------------------------------------------
\* What is needed for the next guess: it was on target, and has not lost the bar.
TargetInv ==
  /\ PlaceOK
  /\ steady => valid /\ bar = RealBar(spot) /\ health \notin {"dead", "lost"}

\* A frame keeps the pointer on target, if it has what it needs.
LEMMA TargetStep ==
  ASSUME TargetInv, [PointerNext]_pointerVars
  PROVE  TargetInv'
<1> USE DEF TargetInv
<1>1. PlaceOK'
  BY PlaceStep
<1>2. CASE UNCHANGED pointerVars
  BY <1>1, <1>2 DEF pointerVars, RealBar
<1>3. ASSUME NEW s \in Spots, NEW roll \in Rolls, Look(s, roll)
      PROVE  TargetInv'
  <2>1. PICK dots \in SUBSET InSight(s, roll) :
          StepRoll(dots, roll) /\ spot' = s /\ steady' = Enough(s, dots, roll)
    BY <1>3 DEF Look
  <2>2. dots \in SUBSET Points /\ s \in Points /\ spot \in Points
    BY PointsInSight, SpotAssumption DEF PlaceOK
  <2>3. RealBar(spot)' = RealBar(s)
    BY <2>1 DEF RealBar
  <2>4. CASE BothEnds(s, dots)
    <3>1. Candidates(dots) # {} /\ dots # {}
      BY <2>2, <2>4, BarIsCandidate, RealEnds DEF BothEnds
    <3>2. SeeBar(dots)
      BY <2>1, <3>1 DEF StepRoll, GuessBar
    <3>3. bar' = RealBar(s)
      BY <2>2, <2>4, <3>2, BarIsBest DEF SeeBar
    <3> QED
      BY <1>1, <2>3, <3>2, <3>3 DEF SeeBar
  <2>5. CASE steady /\ OneEnd(s, dots, roll)
    <3>1. Candidates(dots) = {} /\ dots # {}
      BY <2>5 DEF OneEnd
    <3>2. GuessBar(dots, roll)
      BY <2>1, <3>1 DEF StepRoll, SeeBar
    <3>3. bar' = RealBar(s)
      BY <2>2, <2>5, <3>2, OneEndGuess DEF GuessBar
    <3> QED
      BY <1>1, <2>3, <2>5, <3>2, <3>3 DEF GuessBar
  <2>6. CASE ~Enough(s, dots, roll)
    BY <1>1, <2>1, <2>6
  <2> QED
    BY <2>4, <2>5, <2>6 DEF Enough
<1> QED
  BY <1>2, <1>3 DEF PointerNext

\* For any sensor bar, any lamps, any roll and any way the Wiimote moves: the
\* pointer is on the bar for as long as it has what it needs, however long
\* it sees one end only, and however many guesses of guessSingle follow each other.
THEOREM StaysOnTarget == PointerSpec => []OnTarget
<1>1. PointerInit => TargetInv
  BY PlaceInit DEF PointerInit, TargetInv
<1>2. TargetInv /\ [PointerNext]_pointerVars => TargetInv'
  BY TargetStep
<1>3. TargetInv => OnTarget
  BY DEF TargetInv, OnTarget
<1> QED
  BY <1>1, <1>2, <1>3, PTL DEF PointerSpec

-----------------------------------------------------------------------------
(* wiipointer: what its chains of filters do to a position, and when the mouse *)
(* moves.                                                                      *)

FilterStates == [kind : FilterKinds, alive : BOOLEAN, count : Nat, pos : Places]

-----------------------------------------------------------------------------
(* One filter *)

\* A smoother stays between its last output and the new position.
LEMMA TowardBetween ==
  ASSUME NEW a \in Places, NEW b \in Places
  PROVE  Toward(a, b) \subseteq Places
BY PlaceAssumption DEF Toward, Places

\* What the two ways to go on make of a filter and a frame.
LEMMA PassedIs ==
  ASSUME NEW f \in FilterStates, NEW fr \in Frames
  PROVE  Passed(f, fr) =
           [filter |-> [kind |-> f.kind, alive |-> TRUE, count |-> 0, pos |-> fr.pos],
            frame |-> fr]
<1>1. PICK r : r = [f EXCEPT !.alive = TRUE, !.pos = fr.pos, !.count = 0]
  OBVIOUS
<1>2. r \in FilterStates
  BY <1>1 DEF FilterStates, Frames
<1>3. r = [kind |-> r.kind, alive |-> r.alive, count |-> r.count, pos |-> r.pos]
  BY <1>2 DEF FilterStates
<1>4. r.kind = f.kind /\ r.alive = TRUE /\ r.count = 0 /\ r.pos = fr.pos
  BY <1>1 DEF FilterStates
<1> QED
  BY <1>1, <1>3, <1>4 DEF Passed, Result

\* A held frame, field by field.
LEMMA HeldIs ==
  ASSUME NEW f \in FilterStates, NEW fr \in Frames
  PROVE  Held(f, fr) =
           [filter |-> [kind |-> f.kind, alive |-> f.alive, count |-> f.count + 1, pos |-> f.pos],
            frame |-> [valid |-> TRUE, health |-> fr.health, pos |-> f.pos]]
<1>1. PICK r : r = [f EXCEPT !.count = @ + 1]
  OBVIOUS
<1>2. r \in FilterStates
  BY <1>1 DEF FilterStates
<1>3. r = [kind |-> r.kind, alive |-> r.alive, count |-> r.count, pos |-> r.pos]
  BY <1>2 DEF FilterStates
<1>4. r.kind = f.kind /\ r.alive = f.alive /\ r.count = f.count + 1 /\ r.pos = f.pos
  BY <1>1 DEF FilterStates
<1>5. PICK s : s = [fr EXCEPT !.pos = f.pos, !.valid = TRUE]
  OBVIOUS
<1>6. s \in Frames
  BY <1>5 DEF FilterStates, Frames
<1>7. s = [valid |-> s.valid, health |-> s.health, pos |-> s.pos]
  BY <1>6 DEF Frames
<1>8. s.valid = TRUE /\ s.health = fr.health /\ s.pos = f.pos
  BY <1>5 DEF Frames
<1> QED
  BY <1>1, <1>3, <1>4, <1>5, <1>7, <1>8 DEF Held, Result

\* A result of the right types, of this kind and of this health.
Typed(a, k, h) ==
  /\ a = [filter |-> a.filter, frame |-> a.frame]
  /\ a.filter \in FilterStates /\ a.frame \in Frames
  /\ a.filter.kind = k /\ a.frame.health = h

\* A filter that keeps its state, and passes the frame on.
LEMMA ResultTyped ==
  ASSUME NEW f \in FilterStates, NEW fr \in Frames
  PROVE  Typed([filter |-> f, frame |-> fr], f.kind, fr.health)
BY DEF Typed

\* A filter that accepts the frame.
LEMMA PassedTyped ==
  ASSUME NEW f \in FilterStates, NEW fr \in Frames
  PROVE  Typed(Passed(f, fr), f.kind, fr.health)
<1>1. PICK r : r = [kind |-> f.kind, alive |-> TRUE, count |-> 0, pos |-> fr.pos]
  OBVIOUS
<1>2. r \in FilterStates /\ r.kind = f.kind
  BY <1>1 DEF FilterStates, Frames
<1>3. Passed(f, fr) = [filter |-> r, frame |-> fr]
  BY <1>1, PassedIs
<1> QED
  BY <1>2, <1>3, ResultTyped

\* A filter that puts its own position in the frame.
LEMMA HeldTyped ==
  ASSUME NEW f \in FilterStates, NEW fr \in Frames
  PROVE  Typed(Held(f, fr), f.kind, fr.health)
<1>1. PICK r : r = [kind |-> f.kind, alive |-> f.alive, count |-> f.count + 1, pos |-> f.pos]
  OBVIOUS
<1>2. PICK s : s = [valid |-> TRUE, health |-> fr.health, pos |-> f.pos]
  OBVIOUS
<1>3. r \in FilterStates /\ r.kind = f.kind
  BY <1>1 DEF FilterStates
<1>4. s \in Frames /\ s.health = fr.health
  BY <1>2 DEF FilterStates, Frames
<1>5. Held(f, fr) = [filter |-> r, frame |-> s]
  BY <1>1, <1>2, HeldIs
<1> QED
  BY <1>3, <1>4, <1>5, ResultTyped

\* A filter stays of its kind and gives a frame of the same health.
LEMMA ApplyType ==
  ASSUME NEW f \in FilterStates, NEW fr \in Frames, NEW a \in Apply(f, fr)
  PROVE  Typed(a, f.kind, fr.health)
<1> USE ResultTyped, PassedTyped, HeldTyped DEF Result
<1>1. CASE f.kind = "error"
  BY <1>1 DEF Apply, Error
<1>2. CASE f.kind = "glitch"
  <2>1. [f EXCEPT !.count = 0] \in FilterStates /\ [f EXCEPT !.count = 0].kind = f.kind
    BY DEF FilterStates
  <2>2. a = Glitch(f, fr)
    BY <1>2 DEF Apply
  <2>3. Typed(Result([f EXCEPT !.count = 0], fr), f.kind, fr.health)
    BY <2>1
  <2> QED
    BY <2>2, <2>3 DEF Glitch
<1>3. CASE f.kind = "oneEuro"
  <2>1. a \in OneEuro(f, fr)
    BY <1>3 DEF Apply
  <2>2. ASSUME NEW x \in Toward(f.pos, fr.pos)
        PROVE  Typed(Passed(f, [fr EXCEPT !.pos = x]), f.kind, fr.health)
    <3>1. x \in Places
      BY TowardBetween DEF FilterStates, Frames
    <3>2. [fr EXCEPT !.pos = x] \in Frames /\ [fr EXCEPT !.pos = x].health = fr.health
      BY <3>1 DEF Frames
    <3> QED
      BY <3>2
  <2> QED
    BY <2>1, <2>2 DEF OneEuro
<1>4. CASE f.kind = "repeat"
  <2>1. [fr EXCEPT !.valid = FALSE] \in Frames /\ [fr EXCEPT !.valid = FALSE].health = fr.health
    BY DEF Frames
  <2>2. Typed(Result(f, [fr EXCEPT !.valid = FALSE]), f.kind, fr.health)
    BY <2>1
  <2>3. a = Repeat(f, fr)
    BY <1>4 DEF Apply
  <2> QED
    BY <2>2, <2>3 DEF Repeat
<1> QED
  BY <1>1, <1>2, <1>3, <1>4 DEF FilterStates, FilterKinds

-----------------------------------------------------------------------------
(* A chain *)

\* The results of the filters so far, each given to one more.
OneMore(results, f) ==
  UNION {{[chain |-> Append(r.chain, a.filter), frame |-> a.frame]
            : a \in Apply(f, r.frame)} : r \in results}

Start(frame0) == {[chain |-> <<>>, frame |-> frame0]}
ChainResults == [chain : Seq(FilterStates), frame : Frames]

\* One filter more on results of a chain gives results of a chain.
LEMMA OneMoreType ==
  ASSUME NEW results \in SUBSET ChainResults, NEW f \in FilterStates
  PROVE  OneMore(results, f) \in SUBSET ChainResults
<1> SUFFICES ASSUME NEW r \in results, NEW a \in Apply(f, r.frame)
             PROVE  [chain |-> Append(r.chain, a.filter), frame |-> a.frame] \in ChainResults
  BY DEF OneMore
<1>1. r.chain \in Seq(FilterStates) /\ r.frame \in Frames
  BY DEF ChainResults
<1>2. a.filter \in FilterStates /\ a.frame \in Frames
  BY <1>1, ApplyType DEF Typed
<1> QED
  BY <1>1, <1>2 DEF ChainResults

\* ApplyChain is the last of a sequence of results, each made from the one before
\* by the next filter.
LEMMA ChainSteps ==
  ASSUME NEW chain \in Seq(FilterStates), NEW fr \in Frames
  PROVE  \E h : /\ h[0] = Start(fr)
                /\ \A k \in 1 .. Len(chain) : h[k] = OneMore(h[k - 1], chain[k])
                /\ ApplyChain(chain, fr) = h[Len(chain)]
<1> DEFINE n == Len(chain)
           A == SUBSET ChainResults
           g == [x \in A \X (1 .. n) |-> OneMore(x[1], chain[x[2]])]
           Is(it) == it = [s \in SUBSET DOMAIN chain |->
                             IF s = {} THEN Start(fr)
                             ELSE OneMore(it[s \ {Max(s)}], chain[Max(s)])]
           fold == CHOOSE it : Is(it)
<1>0. n \in Nat /\ DOMAIN chain = 1 .. n
  OBVIOUS
<1>1. ApplyChain(chain, fr) = fold[DOMAIN chain]
  BY DEF ApplyChain, FoldLeft, MapThenFoldSet, Start, OneMore
<1>2. \E it : Is(it)
  <2>1. Start(fr) \in A
    BY DEF Start, ChainResults
  <2>2. ASSUME NEW S \in A, NEW k \in 1 .. n
        PROVE  g[S, k] = OneMore(S, chain[k]) /\ g[S, k] \in A
    <3>1. chain[k] \in FilterStates
      BY <1>0
    <3>2. OneMore(S, chain[k]) \in A
      BY <3>1, OneMoreType
    <3> QED
      BY <3>2
  <2>3. g \in [A \X (1 .. n) -> A]
    BY <2>2
  <2> HIDE DEF g, A, n
  <2>4. PICK it \in [SUBSET (1 .. n) -> A] :
          \A s \in SUBSET (1 .. n) : it[s] = IF s = {} THEN Start(fr) ELSE g[it[s \ {Max(s)}], Max(s)]
    <3>1. n \in Nat
      BY <1>0
    <3>2. PICK it : IsFold(it, A, Start(fr), n, g)
      BY <2>1, <2>3, <3>1, FoldExists
    <3> QED
      BY <3>2 DEF IsFold
  <2>5. ASSUME NEW s \in SUBSET (1 .. n), s # {}
        PROVE  it[s] = OneMore(it[s \ {Max(s)}], chain[Max(s)])
    <3>1. Max(s) \in 1 .. n
      BY <1>0, <2>5, MaxOfSome
    <3>2. it[s \ {Max(s)}] \in A
      BY <2>4
    <3> QED
      BY <2>2, <2>4, <2>5, <3>1, <3>2
  <2>6. it = [s \in SUBSET (1 .. n) |->
                IF s = {} THEN Start(fr) ELSE OneMore(it[s \ {Max(s)}], chain[Max(s)])]
    BY <2>4, <2>5
  <2> QED
    BY <1>0, <2>6
<1>3. Is(fold)
  <2> HIDE DEF Is
  <2> QED
    BY <1>2
<1> DEFINE h == [k \in 0 .. n |-> fold[1 .. k]]
<1>4. h[0] = Start(fr)
  <2>1. 1 .. 0 = {} /\ {} \in SUBSET DOMAIN chain
    OBVIOUS
  <2>2. fold[{}] = Start(fr)
    <3> HIDE DEF fold
    <3> QED
      BY <1>3, <2>1
  <2> HIDE DEF fold
  <2> QED
    BY <1>0, <2>1, <2>2
<1>5. ASSUME NEW k \in 1 .. n
      PROVE  h[k] = OneMore(h[k - 1], chain[k])
  <2>0. n \in Nat /\ k \in 1 .. n
    BY <1>0
  <2>1. /\ k - 1 \in Nat /\ k \in 0 .. n /\ k - 1 \in 0 .. n
        /\ 1 .. k \in SUBSET DOMAIN chain /\ 1 .. k # {}
    <3> HIDE DEF n, h, fold
    <3>1. k \in 1 .. k
      BY <2>0
    <3>2. 1 .. k \in SUBSET (1 .. n)
      BY <2>0
    <3>3. k - 1 \in Nat /\ k \in 0 .. n /\ k - 1 \in 0 .. n
      BY <2>0
    <3>4. 1 .. k \in SUBSET DOMAIN chain
      BY <1>0, <3>2
    <3> QED
      BY <3>1, <3>3, <3>4
  <2>2. Max(1 .. k) = k
    <3> DEFINE m == k - 1
    <3>1. m \in Nat /\ 1 .. k = 1 .. m + 1 /\ m + 1 \in 1 .. m + 1 /\ m + 1 = k
      BY <2>0
    <3> HIDE DEF m, n, h, fold
    <3>2. Max(1 .. m + 1) = m + 1
      BY <3>1, MaxOfFirst
    <3> QED
      BY <3>1, <3>2
  <2>3. (1 .. k) \ {k} = 1 .. k - 1
    BY <1>0
  <2> HIDE DEF fold, n
  <2>4. fold[1 .. k] = OneMore(fold[(1 .. k) \ {Max(1 .. k)}], chain[Max(1 .. k)])
    BY <1>3, <2>1
  <2> QED
    BY <2>1, <2>2, <2>3, <2>4
<1>6. ApplyChain(chain, fr) = h[n]
  <2> HIDE DEF fold
  <2> QED
    BY <1>0, <1>1
<1> HIDE DEF h
<1> QED
  BY <1>4, <1>5, <1>6

\* What a chain does: there is a frame before each filter and one after the last,
\* and each filter makes the next one of the one before it.
Filtered(chain, frames, new) ==
  /\ frames \in Seq(Frames) /\ Len(frames) = Len(chain) + 1
  /\ new \in Seq(FilterStates) /\ Len(new) = Len(chain)
  /\ \A k \in 1 .. Len(chain) :
       [filter |-> new[k], frame |-> frames[k + 1]] \in Apply(chain[k], frames[k])

\* A result of a chain comes about by the filters one after the other, each with
\* the frame of the one before.
LEMMA ChainFilters ==
  ASSUME NEW chain \in Seq(FilterStates), NEW fr \in Frames,
         NEW r \in ApplyChain(chain, fr)
  PROVE  \E frames : /\ Filtered(chain, frames, r.chain)
                     /\ frames[1] = fr /\ r.frame = frames[Len(frames)]
<1> DEFINE n == Len(chain)
           Part(k) == SubSeq(chain, 1, k)
           Good(k, x) == \E frames : /\ Filtered(Part(k), frames, x.chain)
                                     /\ frames[1] = fr /\ x.frame = frames[k + 1]
<1>1. PICK h : /\ h[0] = Start(fr)
               /\ \A k \in 1 .. n : h[k] = OneMore(h[k - 1], chain[k])
               /\ ApplyChain(chain, fr) = h[n]
  BY ChainSteps
<1> DEFINE S == {k \in Nat : k <= n => \A x \in h[k] : Good(k, x)}
<1>2. 0 \in S
  <2> SUFFICES ASSUME NEW x \in h[0]
               PROVE  Good(0, x)
    OBVIOUS
  <2>1. x = [chain |-> <<>>, frame |-> fr]
    BY <1>1 DEF Start
  <2>2. Part(0) = <<>>
    OBVIOUS
  <2>3. <<fr>> \in Seq(Frames) /\ Len(<<fr>>) = 0 + 1 /\ <<fr>>[1] = fr
    OBVIOUS
  <2>4. Filtered(<<>>, <<fr>>, <<>>)
    BY <2>3 DEF Filtered
  <2> HIDE DEF Part
  <2> QED
    BY <2>1, <2>2, <2>3, <2>4
<1>3. ASSUME NEW k \in Nat, k \in S, k + 1 <= n
      PROVE  k + 1 \in S
  <2>1. h[k + 1] = OneMore(h[k], chain[k + 1])
    <3>1. k + 1 \in 1 .. n /\ (k + 1) - 1 = k
      BY <1>3
    <3> QED
      BY <1>1, <3>1
  <2> SUFFICES ASSUME NEW x \in h[k + 1]
               PROVE  Good(k + 1, x)
    OBVIOUS
  <2>0. PICK y \in h[k] : \E a \in Apply(chain[k + 1], y.frame) :
          x = [chain |-> Append(y.chain, a.filter), frame |-> a.frame]
    BY <2>1 DEF OneMore
  <2>2. PICK a \in Apply(chain[k + 1], y.frame) :
          x = [chain |-> Append(y.chain, a.filter), frame |-> a.frame]
    BY <2>0
  <2>3. Good(k, y)
    BY <1>3
  <2>4. PICK frames : /\ Filtered(Part(k), frames, y.chain)
                      /\ frames[1] = fr /\ y.frame = frames[k + 1]
    BY <2>3
  <2> DEFINE more == Append(frames, a.frame)
  <2>5. k + 1 \in 1 .. n /\ chain[k + 1] \in FilterStates
    BY <1>3
  <2>6. Len(Part(k)) = k /\ Len(Part(k + 1)) = k + 1 /\ n \in Nat
    BY <1>3
  <2>7. \A j \in 1 .. k : Part(k)[j] = chain[j]
    BY <1>3
  <2>8. \A j \in 1 .. k + 1 : Part(k + 1)[j] = chain[j]
    BY <1>3
  <2> HIDE DEF Part
  <2>9. /\ frames \in Seq(Frames) /\ Len(frames) = k + 1
        /\ y.chain \in Seq(FilterStates) /\ Len(y.chain) = k
        /\ \A j \in 1 .. k :
             [filter |-> y.chain[j], frame |-> frames[j + 1]] \in Apply(chain[j], frames[j])
    BY <2>4, <2>6, <2>7 DEF Filtered
  <2>10. y.frame \in Frames
    BY <2>4, <2>9
  <2>11. a.filter \in FilterStates /\ a.frame \in Frames /\ a = [filter |-> a.filter, frame |-> a.frame]
    BY <2>5, <2>10, ApplyType DEF Typed
  <2>12. x.chain = Append(y.chain, a.filter) /\ x.frame = a.frame
    BY <2>2
  <2>13. /\ x.chain \in Seq(FilterStates) /\ Len(x.chain) = k + 1
         /\ \A j \in 1 .. k : x.chain[j] = y.chain[j]
         /\ x.chain[k + 1] = a.filter
    BY <2>9, <2>11, <2>12
  <2>14. /\ more \in Seq(Frames) /\ Len(more) = k + 2
         /\ \A j \in 1 .. k + 1 : more[j] = frames[j]
         /\ more[k + 2] = a.frame
    BY <2>9, <2>11
  <2> HIDE DEF more
  <2>15. ASSUME NEW j \in 1 .. k + 1
         PROVE  [filter |-> x.chain[j], frame |-> more[j + 1]] \in Apply(Part(k + 1)[j], more[j])
    <3>1. CASE j = k + 1
      <4>1. more[j] = y.frame /\ more[j + 1] = a.frame /\ x.chain[j] = a.filter
        BY <2>4, <2>13, <2>14, <3>1
      <4>2. Part(k + 1)[j] = chain[k + 1]
        BY <2>8, <3>1
      <4> QED
        BY <2>2, <2>11, <4>1, <4>2
    <3>2. CASE j \in 1 .. k
      <4>1. j + 1 \in 1 .. k + 1
        BY <3>2
      <4>2. more[j] = frames[j] /\ more[j + 1] = frames[j + 1] /\ x.chain[j] = y.chain[j]
        BY <2>13, <2>14, <3>2, <4>1
      <4>3. Part(k + 1)[j] = chain[j]
        BY <2>8
      <4> QED
        BY <2>9, <3>2, <4>2, <4>3
    <3> QED
      BY <3>1, <3>2
  <2>16. Filtered(Part(k + 1), more, x.chain)
    <3>1. Len(more) = Len(Part(k + 1)) + 1
      BY <2>6, <2>14
    <3> QED
      BY <2>6, <2>13, <2>14, <2>15, <3>1 DEF Filtered
  <2>17. more[1] = fr /\ x.frame = more[(k + 1) + 1]
    BY <2>4, <2>12, <2>14
  <2> QED
    BY <2>16, <2>17
<1>4. \A k \in Nat : k \in S => k + 1 \in S
  <2> HIDE DEF Good
  <2> SUFFICES ASSUME NEW k \in Nat, k \in S, ~(k + 1 <= n)
               PROVE  k + 1 \in S
    BY <1>3
  <2> QED
    OBVIOUS
<1>5. n \in Nat /\ n \in S
  <2>1. n \in Nat
    OBVIOUS
  <2> HIDE DEF S, n
  <2> QED
    BY <1>2, <1>4, <2>1, NatSetInduction
<1>6. Good(n, r)
  <2> HIDE DEF Good
  <2> QED
    BY <1>1, <1>5
<1>7. Part(n) = chain
  OBVIOUS
<1>8. PICK frames : /\ Filtered(Part(n), frames, r.chain)
                    /\ frames[1] = fr /\ r.frame = frames[n + 1]
  BY <1>6
<1>9. Len(frames) = n + 1
  BY <1>7, <1>8 DEF Filtered
<1> QED
  BY <1>7, <1>8, <1>9

-----------------------------------------------------------------------------
(* The chains of wiipointer *)

Chains ==
  {c \in Seq(FilterStates) :
     /\ Len(c) = 4
     /\ c[1].kind = "error" /\ c[2].kind = "glitch"
     /\ c[3].kind = "oneEuro" /\ c[4].kind = "repeat"}

\* The two filters that hold positions.
LEMMA FiltersOf ==
  ASSUME NEW c \in Chains
  PROVE  c[1] \in FilterStates /\ c[2] \in FilterStates
<1>1. c \in Seq(FilterStates) /\ Len(c) = 4
  BY DEF Chains
<1>2. 1 \in 1 .. Len(c) /\ 2 \in 1 .. Len(c)
  BY <1>1
<1> QED
  BY <1>1, <1>2, ElementOf

\* The last two filters never make a position of none.
LEMMA StaysInvalid ==
  ASSUME NEW f \in FilterStates, f.kind \in {"oneEuro", "repeat"},
         NEW fr \in Frames, ~fr.valid, NEW a \in Apply(f, fr)
  PROVE  ~a.frame.valid
BY DEF Apply, OneEuro, Repeat, Result, FilterStates

\* What the first two filters of a chain do decides what it becomes, and whether
\* there is a position.
LEMMA FourFilters ==
  ASSUME NEW chain \in Chains, NEW fr \in Frames, NEW r \in ApplyChain(chain, fr),
         NEW e, e = Error(chain[1], fr), NEW g, g = Glitch(chain[2], e.frame)
  PROVE  /\ r.chain \in Chains /\ r.frame \in Frames /\ r.frame.health = fr.health
         /\ r.chain[1] = e.filter /\ r.chain[2] = g.filter
         /\ e.frame \in Frames
         /\ ~g.frame.valid => ~r.frame.valid
<1>1. chain \in Seq(FilterStates) /\ Len(chain) = 4
  BY DEF Chains
<1>2. PICK frames : /\ Filtered(chain, frames, r.chain)
                    /\ frames[1] = fr /\ r.frame = frames[Len(frames)]
  BY <1>1, ChainFilters
<1>3. /\ frames \in Seq(Frames) /\ Len(frames) = 5
      /\ r.chain \in Seq(FilterStates) /\ Len(r.chain) = 4
  BY <1>1, <1>2 DEF Filtered
<1>4. ASSUME NEW k \in 1 .. 4
      PROVE  /\ [filter |-> r.chain[k], frame |-> frames[k + 1]] \in Apply(chain[k], frames[k])
             /\ chain[k] \in FilterStates /\ frames[k] \in Frames
             /\ r.chain[k].kind = chain[k].kind /\ frames[k + 1].health = frames[k].health
  <2>1. [filter |-> r.chain[k], frame |-> frames[k + 1]] \in Apply(chain[k], frames[k])
    BY <1>1, <1>2 DEF Filtered
  <2>2. k \in 1 .. Len(chain) /\ k \in 1 .. Len(frames)
    BY <1>1, <1>3
  <2>3. chain[k] \in FilterStates
    BY <1>1, <2>2, ElementOf
  <2>4. frames[k] \in Frames
    BY <1>3, <2>2, ElementOf
  <2> QED
    BY <2>1, <2>3, <2>4, ApplyType DEF Typed
<1>5. /\ chain[1].kind = "error" /\ chain[2].kind = "glitch"
      /\ chain[3].kind = "oneEuro" /\ chain[4].kind = "repeat"
  BY DEF Chains
<1>6. [filter |-> r.chain[1], frame |-> frames[2]] = e
  BY <1>2, <1>4, <1>5 DEF Apply
<1>7. r.chain[1] = e.filter /\ frames[2] = e.frame
  BY <1>6
<1>8. [filter |-> r.chain[2], frame |-> frames[3]] = g
  BY <1>4, <1>5, <1>7 DEF Apply
<1>9. r.chain[2] = g.filter /\ frames[3] = g.frame
  BY <1>8
<1>10. ~g.frame.valid => ~frames[5].valid
  <2>1. \A k \in {3, 4} : ~frames[k].valid => ~frames[k + 1].valid
    <3> SUFFICES ASSUME NEW k \in {3, 4}, ~frames[k].valid
                 PROVE  ~frames[k + 1].valid
      OBVIOUS
    <3>1. PICK a : a = [filter |-> r.chain[k], frame |-> frames[k + 1]]
      OBVIOUS
    <3>2. a \in Apply(chain[k], frames[k]) /\ chain[k] \in FilterStates /\ frames[k] \in Frames
      BY <1>4, <3>1
    <3>3. chain[k].kind \in {"oneEuro", "repeat"}
      BY <1>5
    <3>4. ~a.frame.valid
      BY <3>2, <3>3, StaysInvalid
    <3> QED
      BY <3>1, <3>4
  <2> QED
    BY <1>9, <2>1
<1>11. /\ frames[2].health = fr.health /\ frames[3].health = fr.health
       /\ frames[4].health = fr.health /\ frames[5].health = fr.health
  BY <1>2, <1>4
<1>12. r.frame = frames[5]
  BY <1>2, <1>3
<1>13. frames[2] \in Frames /\ frames[5] \in Frames
  <2>1. 2 \in 1 .. Len(frames) /\ 5 \in 1 .. Len(frames)
    BY <1>3
  <2> QED
    BY <1>3, <2>1, ElementOf
<1>14. r.chain \in Chains
  BY <1>3, <1>4, <1>5 DEF Chains
<1> QED
  BY <1>7, <1>9, <1>10, <1>11, <1>12, <1>13, <1>14

\* The chains that watchDevice begins with.
LEMMA ChainNew == Chain \in Chains
<1>1. \A k \in FilterKinds : NewFilter(k) \in FilterStates /\ NewFilter(k).kind = k
  BY PlaceAssumption DEF NewFilter, FilterStates, Places
<1>2. Chain \in Seq(FilterStates)
  BY <1>1 DEF Chain, FilterKinds
<1> QED
  BY <1>1, <1>2 DEF Chain, Chains, FilterKinds

-----------------------------------------------------------------------------
(* The invariant *)

MouseType ==
  /\ ir \in Frames /\ frame \in Frames
  /\ process \in Chains /\ holdProcess \in Chains
  /\ dropped \in 0 .. ErrorMaxCount + 1 /\ away \in 0 .. GlitchMaxCount + 1

\* The filters leave the health alone, and a good pointer has a position.
HealthKept ==
  /\ frame.health = ir.health
  /\ ir.health = "good" => ir.valid

\* The error filter of a chain has counted the steps without a position, as far
\* as it bridges them.
Bridged(chain) ==
  chain[1].alive => chain[1].count >= dropped \/ chain[1].count >= ErrorMaxCount

BridgesCounted ==
  /\ Bridged(process) /\ Bridged(holdProcess)
  /\ pc # "filter" /\ dropped > ErrorMaxCount => ~frame.valid

\* The glitch filter holds a frame back only when the bar is away from the place
\* it has accepted.
FarCounted == process[2].count <= away /\ process[2].count <= GlitchMaxCount

MouseInv == MouseType /\ HealthKept /\ BridgesCounted /\ FarCounted

\* The counters begin at the state of the filters.
LEMMA MouseStart == MouseInit => MouseInv
<1> SUFFICES ASSUME MouseInit
             PROVE  MouseInv
  OBVIOUS
<1>1. ir \in Frames /\ frame = ir /\ ir.health = "dead" /\ dropped = 0 /\ away = 0
  BY PlaceAssumption DEF MouseInit, Frames, Places
<1>2. process = Chain /\ holdProcess = Chain /\ Chain \in Chains
  BY ChainNew DEF MouseInit
<1>3. ~Chain[1].alive /\ Chain[2].count = 0
  BY DEF Chain, NewFilter
<1>4. MouseType
  BY <1>1, <1>2, CountAssumption DEF MouseType
<1> QED
  BY <1>1, <1>2, <1>3, <1>4, CountAssumption
  DEF MouseInv, HealthKept, BridgesCounted, Bridged, FarCounted

\* A step that leaves the pointer, the chains and the frame alone.
LEMMA MouseRests ==
  ASSUME MouseInv, UNCHANGED <<ir, frame, chainVars>>, pc' # "filter" => pc # "filter"
  PROVE  MouseInv'
<1> USE DEF chainVars
<1>1. MouseType' /\ HealthKept' /\ FarCounted'
  BY DEF MouseInv, MouseType, HealthKept, FarCounted
<1>2. BridgesCounted'
  BY DEF MouseInv, BridgesCounted, Bridged
<1> QED
  BY <1>1, <1>2 DEF MouseInv

\* Each chain counts one more bridged frame, or is past them.
LEMMA BridgedOneMore ==
  ASSUME MouseInv, Filter, NEW chain \in Chains, Bridged(chain),
         NEW r \in ApplyChain(chain, frame)
  PROVE  /\ r.chain[1].alive => r.chain[1].count >= dropped' \/ r.chain[1].count >= ErrorMaxCount
         /\ dropped' > ErrorMaxCount => ~r.frame.valid
<1>1. PICK e : e = Error(chain[1], frame)
  OBVIOUS
<1>2. PICK g : g = Glitch(chain[2], e.frame)
  OBVIOUS
<1>3. frame \in Frames /\ dropped \in 0 .. ErrorMaxCount + 1
  BY DEF MouseInv, MouseType
<1>4. r.chain[1] = e.filter /\ (~g.frame.valid => ~r.frame.valid)
  BY <1>1, <1>2, <1>3, FourFilters
<1>5. chain[1] \in FilterStates /\ chain[2] \in FilterStates
  BY FiltersOf
<1>6. dropped' = IF frame.valid THEN 0 ELSE IF dropped > ErrorMaxCount THEN dropped ELSE dropped + 1
  BY DEF Filter
<1>7. CASE frame.valid
  <2>1. dropped' = 0
    BY <1>6, <1>7
  <2>2. e.filter.count = 0
    BY <1>1, <1>3, <1>5, <1>7, PassedIs DEF Error
  <2> QED
    BY <1>4, <2>1, <2>2, CountAssumption
<1>8. CASE ~frame.valid /\ chain[1].alive /\ chain[1].count < ErrorMaxCount
  <2>1. e.filter.count = chain[1].count + 1
    BY <1>1, <1>3, <1>5, <1>8, HeldIs DEF Error
  <2>2. chain[1].count >= dropped /\ chain[1].count \in Nat
    BY <1>3, <1>5, <1>8, CountAssumption DEF Bridged, FilterStates
  <2>3. dropped' = dropped + 1
    BY <1>3, <1>6, <1>8, <2>2, CountAssumption
  <2>4. e.filter.count >= dropped' /\ ~(dropped' > ErrorMaxCount)
    BY <1>3, <1>8, <2>1, <2>2, <2>3, CountAssumption
  <2> QED
    BY <1>4, <2>4
<1>9. CASE ~frame.valid /\ ~(chain[1].alive /\ chain[1].count < ErrorMaxCount)
  <2>1. e.filter = chain[1] /\ e.frame = frame
    BY <1>1, <1>9 DEF Error, Result
  <2>2. ~g.frame.valid
    BY <1>2, <1>9, <2>1 DEF Glitch, Result
  <2>3. chain[1].alive => chain[1].count >= ErrorMaxCount
    BY <1>5, <1>9, CountAssumption DEF FilterStates
  <2> QED
    BY <1>4, <2>1, <2>2, <2>3
<1> QED
  BY <1>7, <1>8, <1>9

\* The glitch filter lets the place jump only after it has held GlitchMaxCount
\* frames back, all of them without the bar near the place it had accepted.
LEMMA HeldBack ==
  ASSUME MouseInv, Filter
  PROVE  /\ FarCounted'
         /\ Distance(Accepted(process), Accepted(process)') > GlitchDistance /\ process[2].alive
              => away >= GlitchMaxCount
<1>1. PICK r \in ApplyChain(process, frame) : process' = r.chain
  BY DEF Filter
<1>2. PICK e : e = Error(process[1], frame)
  OBVIOUS
<1>3. PICK g : g = Glitch(process[2], e.frame)
  OBVIOUS
<1>4. /\ frame \in Frames /\ process \in Chains /\ away \in 0 .. GlitchMaxCount + 1
      /\ process[2].count <= away /\ process[2].count <= GlitchMaxCount
  BY DEF MouseInv, MouseType, FarCounted
<1>5. process[2]' = g.filter /\ e.frame \in Frames
  BY <1>1, <1>2, <1>3, <1>4, FourFilters
<1> DEFINE f == process[2]
<1>6. process[1] \in FilterStates /\ f \in FilterStates
  BY <1>4, FiltersOf
<1>7. away' = IF frame.valid /\ Distance(frame.pos, f.pos) <= GlitchDistance THEN 0
              ELSE IF away > GlitchMaxCount THEN away ELSE away + 1
  BY DEF Filter, Accepted
<1>8. /\ f.count \in Nat /\ f.pos \in Int /\ e.frame.pos \in Int /\ frame.pos \in Int
      /\ away \in Nat
  BY <1>4, <1>5, <1>6, PlaceAssumption, CountAssumption DEF FilterStates, Frames, Places
<1>9. frame.valid => e.frame = frame
  BY <1>2, <1>4, <1>6, PassedIs DEF Error
<1>10. away' >= 0
  BY <1>7, <1>8
<1>11. CASE ~e.frame.valid
  <2>1. g = [filter |-> [f EXCEPT !.count = 0], frame |-> e.frame]
    BY <1>3, <1>11 DEF Glitch, Result
  <2>2. g.filter.count = 0 /\ g.filter.pos = f.pos
    BY <1>6, <2>1 DEF FilterStates
  <2> QED
    BY <1>5, <1>8, <1>10, <2>2, CountAssumption, DistanceAssumption DEF FarCounted, Accepted, Distance
<1>12. CASE /\ e.frame.valid /\ f.alive /\ f.count < GlitchMaxCount
            /\ Distance(f.pos, e.frame.pos) > GlitchDistance
  <2>1. g.filter.count = f.count + 1 /\ g.filter.pos = f.pos
    BY <1>3, <1>5, <1>6, <1>12, HeldIs DEF Glitch
  <2>2. ~(frame.valid /\ Distance(frame.pos, f.pos) <= GlitchDistance)
    BY <1>8, <1>9, <1>12, DistanceAssumption DEF Distance
  <2>3. away' = IF away > GlitchMaxCount THEN away ELSE away + 1
    BY <1>7, <2>2
  <2>4. g.filter.count <= away' /\ g.filter.count <= GlitchMaxCount
    BY <1>4, <1>8, <1>12, <2>1, <2>3, CountAssumption
  <2> QED
    BY <1>5, <1>8, <2>1, <2>4, DistanceAssumption DEF FarCounted, Accepted, Distance
<1>13. CASE /\ e.frame.valid
            /\ ~(/\ f.alive /\ f.count < GlitchMaxCount
                 /\ Distance(f.pos, e.frame.pos) > GlitchDistance)
  <2>1. g.filter.count = 0 /\ g.filter.pos = e.frame.pos
    BY <1>3, <1>5, <1>6, <1>13, PassedIs DEF Glitch
  <2>2. Distance(f.pos, e.frame.pos) > GlitchDistance /\ f.alive => away >= GlitchMaxCount
    BY <1>4, <1>8, <1>13, CountAssumption
  <2> QED
    BY <1>5, <1>10, <2>1, <2>2, CountAssumption DEF FarCounted, Accepted
<1> QED
  BY <1>11, <1>12, <1>13

\* A frame goes through both chains.
LEMMA FilterKeeps ==
  ASSUME MouseInv, Filter
  PROVE  MouseInv'
<1>1. PICK h \in ApplyChain(holdProcess, frame), r \in ApplyChain(process, frame) :
        /\ holdProcess' = h.chain /\ process' = r.chain
        /\ frame' \in {h.frame, r.frame}
  BY DEF Filter
<1>2. /\ frame \in Frames /\ process \in Chains /\ holdProcess \in Chains
      /\ dropped \in 0 .. ErrorMaxCount + 1 /\ away \in 0 .. GlitchMaxCount + 1
      /\ ir \in Frames
  BY DEF MouseInv, MouseType
<1>3. /\ process' \in Chains /\ holdProcess' \in Chains
      /\ frame' \in Frames /\ frame'.health = frame.health
  BY <1>1, <1>2, FourFilters
<1>4. dropped' \in 0 .. ErrorMaxCount + 1 /\ away' \in 0 .. GlitchMaxCount + 1 /\ ir' = ir
  BY <1>2, CountAssumption DEF Filter
<1>5. MouseType' /\ HealthKept'
  BY <1>2, <1>3, <1>4 DEF MouseType, MouseInv, HealthKept
<1>6. Bridged(process) /\ Bridged(holdProcess)
  BY DEF MouseInv, BridgesCounted
<1>7. /\ process'[1].alive => process'[1].count >= dropped' \/ process'[1].count >= ErrorMaxCount
      /\ holdProcess'[1].alive => holdProcess'[1].count >= dropped' \/ holdProcess'[1].count >= ErrorMaxCount
      /\ dropped' > ErrorMaxCount => ~frame'.valid
  BY <1>1, <1>2, <1>6, BridgedOneMore
<1>8. BridgesCounted'
  BY <1>7 DEF BridgesCounted, Bridged
<1> QED
  BY <1>5, <1>8, HeldBack DEF MouseInv

\* A new frame of the pointer.
LEMMA StepKeeps ==
  ASSUME MouseInv, Step
  PROVE  MouseInv'
<1>1. ir' \in Frames /\ frame' = ir' /\ pc' = "filter" /\ UNCHANGED chainVars
  BY DEF Step
<1>2. ir'.health = "good" => ir'.valid
  BY DEF Step, MouseInv, HealthKept, Pointer!Next, Pointer!Dark, Pointer!Guess, Pointer!Unseen, Pointer!Bar
<1>3. MouseType' /\ HealthKept' /\ FarCounted'
  BY <1>1, <1>2 DEF MouseInv, MouseType, HealthKept, FarCounted, chainVars
<1>4. BridgesCounted'
  BY <1>1 DEF MouseInv, BridgesCounted, Bridged, chainVars
<1> QED
  BY <1>3, <1>4 DEF MouseInv

\* Every step keeps the invariant; only two of them touch what it is about.
LEMMA MouseStep ==
  ASSUME MouseInv, [MouseNext]_vars
  PROVE  /\ MouseInv'
         /\ \/ Filter \/ Step \/ UNCHANGED <<ir, frame, chainVars>>
<1> USE MouseRests DEF vars, mouseVars, eventVars
<1>1. CASE Filter
  BY <1>1, FilterKeeps
<1>2. CASE Step
  BY <1>2, StepKeeps
<1>3. CASE EventIR
  BY <1>3 DEF EventIR, Receive, At
<1>4. CASE EventAccel
  BY <1>4 DEF EventAccel, Receive, At
<1>5. CASE EventOther
  BY <1>5 DEF EventOther, Receive, At
<1>6. ASSUME NEW pressed \in BOOLEAN, EventKey(pressed) \/ EventDown(pressed)
      PROVE  /\ MouseInv'
             /\ UNCHANGED <<ir, frame, chainVars>>
  BY <1>6 DEF EventKey, EventDown, Receive, At
<1>7. CASE NoStep
  BY <1>7 DEF NoStep, At
<1>8. CASE Show
  BY <1>8 DEF Show, At
<1>9. CASE HoldPasses
  BY <1>9 DEF HoldPasses
<1>10. CASE ShowHealth
  BY <1>10 DEF ShowHealth
<1>11. CASE ScrollLook \/ ScrollUse
  BY <1>11 DEF ScrollLook, ScrollUse
<1>12. CASE UNCHANGED vars
  BY <1>12
<1> QED
  BY <1>1, <1>2, <1>3, <1>4, <1>5, <1>6, <1>7, <1>8, <1>9, <1>10, <1>11, <1>12
  DEF MouseNext, Main

\* The counters stay behind the filters.
LEMMA MouseInvariant == MouseSpec => []MouseInv
<1>1. MouseInv /\ [MouseNext]_vars => MouseInv'
  BY MouseStep
<1> QED
  BY <1>1, MouseStart, PTL DEF MouseSpec

-----------------------------------------------------------------------------
\* A position outlives its light by ErrorMaxCount frames at most, in both chains
\* and whichever of them is in use.
THEOREM BriefBridges == MouseSpec => []HeldBriefly
<1>1. MouseInv => HeldBriefly
  BY DEF MouseInv, BridgesCounted, HeldBriefly
<1> QED
  BY <1>1, MouseInvariant, PTL

\* The accepted position jumps only after GlitchMaxCount steps without the bar
\* near it, however good, bridged and missing frames follow each other.
THEOREM NoSuddenJump == MouseSpec => NoJump
<1> DEFINE Jump == Distance(Accepted(process), Accepted(process)') > GlitchDistance /\ process[2].alive
                     => away >= GlitchMaxCount
<1>1. MouseInv /\ [MouseNext]_vars => Jump
  <2> SUFFICES ASSUME MouseInv, [MouseNext]_vars
               PROVE  Jump
    OBVIOUS
  <2>1. CASE Filter
    BY <2>1, HeldBack
  <2>2. CASE Step \/ UNCHANGED <<ir, frame, chainVars>>
    <3>1. process' = process
      BY <2>2 DEF Step, chainVars
    <3>2. Accepted(process) \in Int
      BY FiltersOf, PlaceAssumption DEF MouseInv, MouseType, FilterStates, Places, Accepted
    <3> QED
      BY <3>1, <3>2, DistanceAssumption DEF Distance, Accepted
  <2> QED
    BY <2>1, <2>2, MouseStep
<1>2. MouseInv /\ [MouseNext]_vars => [Jump]_vars
  BY <1>1
<1> QED
  BY <1>2, MouseInvariant, PTL DEF MouseSpec, NoJump

\* The mouse moves only with a whole bar in view and while nothing is scrolled:
\* never to a guess, nor to a frame that a filter has bridged.
THEOREM MovesOnBar == MouseSpec => MouseOnBar
<1> DEFINE Moves == mouse' # mouse => ir.health = "good" /\ ir.valid /\ scroll = Nil
<1>1. MouseInv /\ [MouseNext]_vars => Moves
  <2> SUFFICES ASSUME MouseInv, [MouseNext]_vars, mouse' # mouse
               PROVE  ir.health = "good" /\ ir.valid /\ scroll = Nil
    OBVIOUS
  <2>1. Show
    BY DEF MouseNext, Main, EventIR, EventAccel, EventOther, EventKey, EventDown, Receive, Step,
           NoStep, Filter, HoldPasses, ShowHealth, ScrollLook, ScrollUse, vars, mouseVars
  <2>2. frame.health = "good" /\ scroll = Nil
    BY <2>1 DEF Show
  <2> QED
    BY <2>2 DEF MouseInv, HealthKept
<1>2. MouseInv /\ [MouseNext]_vars => [Moves]_vars
  BY <1>1
<1> QED
  BY <1>2, MouseInvariant, PTL DEF MouseSpec, MouseOnBar
================================================================================
