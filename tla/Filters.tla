-------------------------------- MODULE Filters --------------------------------
(***************************************************************************)
(* The filters that a frame of the pointer goes through, pkg/irpointer/    *)
(* filter.go.  A filter is a record of its kind and its state; applied to  *)
(* a frame it gives another filter and another frame.  Positions are       *)
(* places on a line; how far a smoother goes is left open.                 *)
(***************************************************************************)
EXTENDS Integers, Sequences, SequencesExt

CONSTANTS
  ErrorMaxCount,    \* frames without a position that are bridged (8 in the code)
  GlitchMaxCount,   \* frames far from the last one that are held back (5)
  GlitchDistance,   \* how far is far
  Deadzone          \* how near is the same position

ASSUME CountAssumption == ErrorMaxCount \in Nat /\ GlitchMaxCount \in Nat
ASSUME DistanceAssumption == GlitchDistance \in Nat /\ Deadzone \in Nat

FilterKinds == {"error", "glitch", "oneEuro", "repeat"}

\* A new filter.  A smoother has no use for the count, nor has "repeat".
NewFilter(k) == [kind |-> k, alive |-> FALSE, count |-> 0, pos |-> 0]

Distance(a, b) == IF a < b THEN b - a ELSE a - b

Result(f, frame) == [filter |-> f, frame |-> frame]

\* The filter has seen this frame's position and lets it pass.
Passed(f, frame) ==
  Result([f EXCEPT !.alive = TRUE, !.pos = frame.pos, !.count = 0], frame)

\* The filter shows its own position instead, and counts that.
Held(f, frame) ==
  Result([f EXCEPT !.count = @ + 1], [frame EXCEPT !.pos = f.pos, !.valid = TRUE])

\* Mutant of Error: the frames that are bridged are not counted.
ErrorUncounted(f, frame) ==
  IF frame.valid THEN Passed(f, frame)
  ELSE IF f.alive THEN Result(f, Held(f, frame).frame)
  ELSE Result(f, frame)

Error(f, frame) ==
  IF frame.valid THEN Passed(f, frame)
  ELSE IF f.alive /\ f.count < ErrorMaxCount THEN Held(f, frame)
  ELSE Result(f, frame)

\* Mutant of Glitch: one far frame too few is held back.
GlitchShort(f, frame) ==
  IF ~frame.valid THEN Result([f EXCEPT !.count = 0], frame)
  ELSE IF /\ f.alive /\ f.count + 1 < GlitchMaxCount
          /\ Distance(f.pos, frame.pos) > GlitchDistance
  THEN Held(f, frame)
  ELSE Passed(f, frame)

Glitch(f, frame) ==
  IF ~frame.valid THEN Result([f EXCEPT !.count = 0], frame)
  ELSE IF /\ f.alive /\ f.count < GlitchMaxCount
          /\ Distance(f.pos, frame.pos) > GlitchDistance
  THEN Held(f, frame)
  ELSE Passed(f, frame)

\* The low pass of OneEuro ends up between its last output and the new
\* position.
Toward(a, b) == IF a < b THEN a .. b ELSE b .. a

\* OneEuro lets the first frame pass, and one at the same time as the last.
OneEuro(f, frame) ==
  IF ~frame.valid THEN {Result(f, frame)}
  ELSE IF ~f.alive THEN {Passed(f, frame)}
  ELSE {Result(f, frame)} \cup
       {Passed(f, [frame EXCEPT !.pos = x]) : x \in Toward(f.pos, frame.pos)}

\* A position that is where the last one was is taken out.
Repeat(f, frame) ==
  IF frame.valid /\ f.alive /\ Distance(f.pos, frame.pos) <= Deadzone
  THEN Result(f, [frame EXCEPT !.valid = FALSE])
  ELSE IF frame.valid THEN Passed(f, frame) ELSE Result(f, frame)

Apply(f, frame) ==
  CASE f.kind = "error" -> {Error(f, frame)}
    [] f.kind = "glitch" -> {Glitch(f, frame)}
    [] f.kind = "oneEuro" -> OneEuro(f, frame)
    [] f.kind = "repeat" -> {Repeat(f, frame)}

\* A chain is a sequence of filters, each applied to what the one before made
\* of the frame; the results are pairs of a new chain and a new frame.
ApplyChain(chain, frame) ==
  FoldLeft(LAMBDA results, f :
             UNION {{[chain |-> Append(r.chain, a.filter), frame |-> a.frame]
                       : a \in Apply(f, r.frame)} : r \in results},
           {[chain |-> <<>>, frame |-> frame]}, chain)
=============================================================================
