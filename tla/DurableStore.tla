---------------------------- MODULE DurableStore ----------------------------
(***************************************************************************)
(* What the ranking store promises about crashes: beside the live contents *)
(* there is a stable copy, which is at any time a whole earlier contents,  *)
(* never a part or a mixture; a crash costs at most what is newer than it. *)
(***************************************************************************)
CONSTANT Contents   \* what the store may hold

VARIABLES
  up,       \* whether the program runs
  live,     \* the contents that requests read and change
  stable    \* the contents a restart brings back

vars == <<up, live, stable>>

Update ==
  /\ up
  /\ live' \in Contents
  /\ UNCHANGED <<up, stable>>

Commit ==
  /\ up
  /\ stable' = live
  /\ UNCHANGED <<up, live>>

\* Until the restart the live contents mean nothing.
Crash ==
  /\ up
  /\ up' = FALSE
  /\ live' = stable
  /\ UNCHANGED stable

Restart ==
  /\ ~up
  /\ up' = TRUE
  /\ UNCHANGED <<live, stable>>

Init == up = TRUE /\ live \in Contents /\ stable = live

Next == Update \/ Commit \/ Crash \/ Restart

Spec == Init /\ [][Next]_vars
=============================================================================
