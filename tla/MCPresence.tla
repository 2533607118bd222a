----------------------------- MODULE MCPresence -----------------------------
(***************************************************************************)
(* Instances of Presence for TLC.                                          *)
(***************************************************************************)
EXTENDS Presence, TLC

CONSTANTS a1, a2, p1

\* One console that comes back from another port.
OwnAddresses == (a1 :> {p1}) @@ (a2 :> {p1})
=============================================================================
