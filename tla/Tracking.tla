------------------------------- MODULE Tracking -------------------------------
(***************************************************************************)
(* What an IRPointer promises to those who read its frames, whatever the   *)
(* camera sees: the life of Frame.Health, and when Frame.Position may be   *)
(* used.                                                                   *)
(***************************************************************************)
CONSTANT Places   \* where the sensor bar can be

VARIABLES health, valid, place

trackVars == <<health, valid, place>>

Healths == {"dead", "lost", "single", "good"}

TypeOK == health \in Healths /\ valid \in BOOLEAN /\ place \in Places

Init == health = "dead" /\ valid = FALSE /\ place \in Places

\* Nothing in view: a pointer that was alive is lost; its place is kept.
Dark ==
  /\ health' = IF health = "dead" THEN "dead" ELSE "lost"
  /\ valid' = FALSE /\ place' = place

\* Lights that are no sensor bar: a guess, made from the bar seen before.
Guess ==
  /\ health # "dead"
  /\ health' = "single" /\ valid' = TRUE /\ place' \in Places

\* Without a bar before, there is nothing to guess from.
Unseen ==
  /\ health = "dead"
  /\ valid' = FALSE /\ UNCHANGED <<health, place>>

\* The whole sensor bar.
Bar == health' = "good" /\ valid' = TRUE /\ place' \in Places

Next == Dark \/ Guess \/ Unseen \/ Bar

Spec == Init /\ [][Next]_trackVars
=============================================================================
