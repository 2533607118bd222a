--------------------------- MODULE MCLeaderboards ---------------------------
(***************************************************************************)
(* Instances of RankingStore and Leaderboards for TLC.                     *)
(***************************************************************************)
EXTENDS Leaderboards, TLC

\* What globals.GetUserFriendPIDs answers: nobody has friends.
NoFriends == [p \in Players |-> {}]

PlayerSymmetry == Permutations(Players)
=============================================================================
