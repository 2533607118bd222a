---------------------------- MODULE MCGatherings ----------------------------
(***************************************************************************)
(* Instances of Gatherings for TLC.                                        *)
(***************************************************************************)
EXTENDS Gatherings, TLC

CONSTANTS p1, p2, p3, race, battle

\* p1 and p2 are friends; p3 is no one's friend.
MCFriends == (p1 :> {p2}) @@ (p2 :> {p1}) @@ (p3 :> {})

\* For questions in which friendship plays no part.
Strangers == [p \in Players |-> {}]

\* The requests are listed, not built from every combination of fields: each
\* differs from an ordinary race for two in what one property needs.
Race2 ==
  [maximumParticipants |-> 2, openParticipation |-> TRUE, friendsOnly |-> FALSE,
   userPasswordEnabled |-> FALSE, changeOwnerByOtherHost |-> FALSE,
   description |-> race]

Migrating == [Race2 EXCEPT !.changeOwnerByOtherHost = TRUE, !.maximumParticipants = 0]
FriendsRace == [Race2 EXCEPT !.friendsOnly = TRUE]
LockedRace == [Race2 EXCEPT !.userPasswordEnabled = TRUE]

StoreRequests == {Race2, Migrating}
AdmissionRequests == {Race2, FriendsRace, LockedRace}

\* A search for battles, then for any lobby.
WideningSearch ==
  {<< [accepts |-> {battle}, vacantParticipants |-> 0],
      [accepts |-> {race, battle}, vacantParticipants |-> 0] >>}

\* A bound for questions in which the session URL plays no part: no console
\* supplies one.
NoSessionURLs == \A g \in DOMAIN sessions : sessions[g].sessionURL = NoURL

Symmetry123 == Permutations(Players)
Symmetry12 == Permutations({p1, p2})
=============================================================================
