----------------------------- MODULE MCStations -----------------------------
(* Instances of Stations for TLC. *)
EXTENDS Stations, FiniteSets, TLC

CONSTANTS p1, p2, a1, a2, home

\* Both may come back from the other address while an old connection lasts, and
\* take the other's address over.
MCMayUse == [a \in {a1, a2} |-> {p1, p2}]

Local == [public |-> FALSE, known |-> TRUE, address |-> home]
Mapped == [public |-> TRUE, known |-> FALSE, address |-> home]

\* What a console registers: its local station, or one that it takes to be public
\* without knowing its NAT, which is both its local and its public one.
MCClaims == {<<Local>>, <<Mapped>>}

MCReplacements == {Mapped}

\* At most two stations are registered at a time.
MCTwoStations ==
  Cardinality({s \in (DOMAIN connections) \X (1 .. MaxStations) :
                 s[2] \in DOMAIN connections[s[1]].urls}) <= 2

MCSymmetry == Permutations(Players) \cup Permutations(Addresses)
=============================================================================
