---------------------------- MODULE LobbyRegistry ----------------------------
(***************************************************************************)
(* What the gathering store promises the players: a registry of lobbies,   *)
(* each with a leader among its members.  A lobby is opened by its leader, *)
(* ends when its leader leaves or says so, and otherwise changes only by   *)
(* members coming, going, and passing on the lead.  One step is the doing  *)
(* of one player: it seats no one else anywhere, and takes no one else out *)
(* of a lobby that goes on.                                                *)
(***************************************************************************)
EXTENDS Naturals

CONSTANT Players

VARIABLES
  lobbies,   \* the open lobbies by number: leader and members
  issued     \* how many lobby numbers have been given out

vars == <<lobbies, issued>>

Lobby == [leader: Players, members: SUBSET Players]

TypeOK ==
  /\ issued \in Nat
  /\ DOMAIN lobbies \subseteq 1 .. issued
  /\ \A g \in DOMAIN lobbies : lobbies[g] \in Lobby

\* The lobbies after p has left those in quits; the ones p led have ended.
After(p, quits) ==
  [g \in {h \in DOMAIN lobbies : h \in quits => lobbies[h].leader # p} |->
     IF g \in quits THEN [lobbies[g] EXCEPT !.members = @ \ {p}] ELSE lobbies[g]]

\* p leaves some lobbies and enters none.  A lobby it tried to open in doing
\* so may have cost a number.
Leave(p, quits) ==
  /\ lobbies' = After(p, quits)
  /\ issued' \in {issued, issued + 1}

\* p leaves some lobbies and enters one that goes on.
Enter(p, quits, g) ==
  /\ g \in DOMAIN After(p, quits)
  /\ lobbies' = [After(p, quits) EXCEPT ![g].members = @ \cup {p}]
  /\ issued' = issued

\* p leaves some lobbies and opens one, under a number never used before.
Open(p, quits) ==
  /\ issued' = issued + 1
  /\ lobbies' =
       [g \in DOMAIN After(p, quits) \cup {issued'} |->
          IF g = issued' THEN [leader |-> p, members |-> {p}] ELSE After(p, quits)[g]]

\* The lead passes to a member: given by the leader, or taken.
PassLead(g, q) ==
  /\ q \in lobbies[g].members
  /\ lobbies' = [lobbies EXCEPT ![g].leader = q]
  /\ issued' = issued

Init == lobbies = [g \in {} |-> {}] /\ issued = 0

Next ==
  \/ \E p \in Players : \E quits \in SUBSET {g \in DOMAIN lobbies : p \in lobbies[g].members} :
       \/ Leave(p, quits)
       \/ Open(p, quits)
       \/ \E g \in DOMAIN lobbies : Enter(p, quits, g)
  \/ \E g \in DOMAIN lobbies, q \in Players : PassLead(g, q)

Spec == Init /\ [][Next]_vars
=============================================================================
