------------------------------- MODULE Answers -------------------------------
(***************************************************************************)
(* What a goroutine may rely on when it sends a request to the Wiimote:    *)
(* the request is answered once, whoever reads the answer; the answer is   *)
(* kept until the one who asked takes it; and the wait ends in no other    *)
(* way.  Two goroutines never disturb each other's request.                *)
(***************************************************************************)
CONSTANT Proc

VARIABLE phase  \* of each goroutine's request

Phases == {"idle", "asked", "answered"}

TypeOK == phase \in [Proc -> Phases]

Init == phase = [p \in Proc |-> "idle"]

Move(p, from, to) == phase[p] = from /\ phase' = [phase EXCEPT ![p] = to]

Ask(p) == Move(p, "idle", "asked")
Answer(p) == Move(p, "asked", "answered")
Collect(p) == Move(p, "answered", "idle")

Next == \E p \in Proc : Ask(p) \/ Answer(p) \/ Collect(p)

Spec == Init /\ [][Next]_phase
=============================================================================
