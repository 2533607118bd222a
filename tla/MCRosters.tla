----------------------------- MODULE MCRosters -----------------------------
(* Instances of Rosters for TLC. *)
EXTENDS Rosters, TLC

CONSTANTS p1, p2, p3, a1, a2, a3

\* Each player has an address of its own.
MCMayUse == [a \in {a1, a2, a3} |-> CASE a = a1 -> {p1} [] a = a2 -> {p2} [] a = a3 -> {p3}]

\* The first gathering is made with replays, the second without any flag.
MCFlags ==
  \A g \in DOMAIN sessions : sessions[g].notify = IF g = 1 THEN "replay" ELSE "owner"

\* While there has been one gathering two announcements may be under way at once,
\* and one may overtake the other; after that, one, or none if that has happened.
MCAnnouncements ==
  \/ issued <= 1 /\ Cardinality(announcements) <= 2
  \/ overlapped = {} /\ Cardinality(announcements) <= 1
  \/ announcements = {}

\* Players may be exchanged together with their addresses.
MCSymmetry ==
  {f \in Permutations(Players \cup Addresses) :
     \A a \in Addresses : f[a] \in Addresses /\ MayUse[f[a]] = {f[p] : p \in MayUse[a]}}
=============================================================================
