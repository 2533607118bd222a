---------------------------- MODULE Leaderboards ----------------------------
(***************************************************************************)
(* The leaderboard queries of ranking/store.go, over the boards that the   *)
(* ranking store comes to hold.                                            *)
(*                                                                         *)
(* Go iterates over a map in any order, so entries that rank equally come  *)
(* in any order: a query is the set of the answers it may give.  A board   *)
(* is a function from the players on it to their entries; an answer is a   *)
(* sequence of players with their ranks, the number of entries that goes   *)
(* with it being the size of the board.                                    *)
(***************************************************************************)
EXTENDS RankingStore

CONSTANTS
  Friends,   \* Friends[p]: what GetUserFriendPIDs answers for p
  Lengths    \* the RankingOrderParam lengths and offsets asked for

ASSUME LeaderboardsAssumption == Lengths \subseteq Nat

Board(c) == [p \in {q \in Players : <<c, q>> \in DOMAIN scores} |-> scores[<<c, p>>]]

-----------------------------------------------------------------------------
\* The ordering of the whole board is that of the entry the map yields first.
rankedEntries(board) ==
  {s \in [1 .. Cardinality(DOMAIN board) -> DOMAIN board] :
     /\ \A i, j \in DOMAIN s : s[i] = s[j] => i = j
     /\ DOMAIN board # {} => \E first \in DOMAIN board : \A i, j \in DOMAIN s : i < j =>
          LET a == board[s[i]]
              b == board[s[j]]
          IN  IF a.score # b.score
              THEN betterThan(a.score, b.score, board[first].orderBy)
              ELSE a.updateTime <= b.updateTime}

\* The ranks of an ordered list: 1, 2, 2, 4 if standard, else 1, 2, 3, 4.
ranks(board, ordered, standard) ==
  LET rank[i \in DOMAIN ordered] ==
        IF standard /\ i > 1 /\ board[ordered[i]].score = board[ordered[i - 1]].score
        THEN rank[i - 1]
        ELSE i
  IN  [p \in {ordered[i] : i \in DOMAIN ordered} |->
         rank[CHOOSE i \in DOMAIN ordered : ordered[i] = p]]

rankData(board, ordered, selected, standard) ==
  [i \in DOMAIN selected |->
     [player |-> selected[i], order |-> ranks(board, ordered, standard)[selected[i]]]]

\* Mutant of slice: the page ends at the length, not that far after the offset.
sliceToLength(entries, offset, length) ==
  SubSeq(entries, offset + 1,
         IF length > 0 /\ length < Len(entries) THEN length ELSE Len(entries))

slice(entries, offset, length) ==
  LET selected == SubSeq(entries, offset + 1, Len(entries))
  IN  IF length > 0 /\ length < Len(selected) THEN SubSeq(selected, 1, length) ELSE selected

filterEntries(entries, allowed) ==
  LET filtered[n \in 0 .. Len(entries)] ==
        IF n = 0 THEN << >>
        ELSE IF entries[n] \in allowed THEN Append(filtered[n - 1], entries[n])
        ELSE filtered[n - 1]
  IN  filtered[Len(entries)]

-----------------------------------------------------------------------------
(***************************************************************************)
(* The ranking modes.                                                      *)
(***************************************************************************)

GetRankings(board, offset, length, standard) ==
  {rankData(board, ordered, slice(ordered, offset, length), standard) :
     ordered \in rankedEntries(board)}

\* Mutant of Window: half the length is not rounded down.
WindowRoundedUp(ordered, p, length) ==
  LET position == (CHOOSE i \in DOMAIN ordered : ordered[i] = p) - 1
      size  == IF length <= 0 THEN 1 ELSE length
      start == position - (size + 1) \div 2
      first == IF start < 0 THEN 0 ELSE start
      end   == first + size
  IN  SubSeq(ordered, first + 1, IF end > Len(ordered) THEN Len(ordered) ELSE end)

\* The entries around that of p; the position is counted from 0.
Window(ordered, p, length) ==
  LET position == (CHOOSE i \in DOMAIN ordered : ordered[i] = p) - 1
      size  == IF length <= 0 THEN 1 ELSE length
      start == position - size \div 2
      first == IF start < 0 THEN 0 ELSE start
      end   == first + size
  IN  SubSeq(ordered, first + 1, IF end > Len(ordered) THEN Len(ordered) ELSE end)

\* A caller without an entry sees none.
GetNearbyRankings(board, p, length, standard) ==
  {rankData(board, ordered, IF p \in DOMAIN board THEN Window(ordered, p, length) ELSE << >>,
            standard) : ordered \in rankedEntries(board)}

\* A player is in its own friendSet.
friendSet(p) == {p} \cup Friends[p]

\* GetNearbyFriendsRankings, too: mode 3 is answered as mode 2.
GetFriendsRankings(board, p, offset, length, standard) ==
  {LET friends == filterEntries(ordered, friendSet(p))
   IN  rankData(board, friends, slice(friends, offset, length), standard) :
     ordered \in rankedEntries(board)}

\* GetOwnRanking is this for one player.
RankingsForPIDs(board, pids, standard) ==
  {rankData(board, ordered, filterEntries(ordered, pids), standard) :
     ordered \in rankedEntries(board)}

\* Mutant of ApproximateOrder: entries that equal the score count as well.
ApproximateOrderWithTies(board, score) ==
  1 + Cardinality({p \in DOMAIN board :
        \/ board[p].score = score
        \/ \E first \in DOMAIN board : betterThan(board[p].score, score, board[first].orderBy)})

\* The ordering is again that of some entry; the boards asked about have one.
ApproximateOrder(board, score) ==
  LET orderBy == IF DOMAIN board = {} THEN "ascending"
                 ELSE board[CHOOSE first \in DOMAIN board : TRUE].orderBy
  IN  1 + Cardinality({p \in DOMAIN board : betterThan(board[p].score, score, orderBy)})

-----------------------------------------------------------------------------
\* GetApproxOrder shows a projected position "before the player commits the
\* time": the upload that follows, when it is stored, gets exactly that rank
\* in standard ranking, from whatever order the board is read in.
ProjectionIsTheRank ==
  [][\A upload \in Upload :
       InsertRanking(upload, "normal") /\ ~ScoreStands(upload, "normal")
       => \A answer \in RankingsForPIDs(Board(upload.category)', {upload.player}, TRUE) :
            answer[1].order = ApproximateOrder(Board(upload.category), upload.score)]_scores

\* "a player at offset 50 correctly reports rank 51 rather than rank 1": a
\* page continues the ordinal ranking where the page before it ends, on the
\* whole board and on a board of friends.
PagesContinueTheRanking ==
  \A c \in Categories, offset \in Lengths, length \in Lengths :
    LET board == Board(c)
        Continues(answer, n) ==
          /\ \A i \in DOMAIN answer : answer[i].order = offset + i
          /\ Len(answer) = length \/ offset + Len(answer) >= n \/ length = 0
    IN  /\ \A answer \in GetRankings(board, offset, length, FALSE) :
             Continues(answer, Cardinality(DOMAIN board))
        /\ \A p \in Players : \A answer \in GetFriendsRankings(board, p, offset, length, FALSE) :
             Continues(answer, Cardinality(friendSet(p) \cap DOMAIN board))

\* The nearby board shows the caller, if it has an entry, and no more entries
\* than asked for (one, when asked for none), in consecutive places.
NearbyShowsTheCaller ==
  \A c \in Categories, length \in Lengths : \A p \in DOMAIN Board(c) :
    \A answer \in GetNearbyRankings(Board(c), p, length, FALSE) :
      /\ \E i \in DOMAIN answer : answer[i].player = p
      /\ Len(answer) <= IF length = 0 THEN 1 ELSE length
      /\ \A i \in DOMAIN answer : answer[i].order = answer[1].order + i - 1
=============================================================================
