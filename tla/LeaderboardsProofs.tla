------------------------- MODULE LeaderboardsProofs -------------------------
(***************************************************************************)
(* Theorems about the leaderboard queries, for boards of any size, any     *)
(* scores, friends, offsets and lengths.                                   *)
(*                                                                         *)
(* The queries are loops over lists, which Leaderboards writes as          *)
(* recursive functions.  What such a function computes is proved by        *)
(* induction, in the form of SetInduction: a set that contains 0 and, with *)
(* every number, the next one, contains all natural numbers.               *)
(***************************************************************************)
EXTENDS Leaderboards, RankingProofs, FiniteSetTheorems, SequenceTheorems, WellFoundedInduction

-----------------------------------------------------------------------------
(***************************************************************************)
(* Induction.                                                              *)
(***************************************************************************)

\* Every nonempty set of natural numbers has a least element.
LEMMA LeastNatural ==
  ASSUME NEW S \in SUBSET Nat, S # {}
  PROVE  \E n \in S : \A m \in S : n <= m
<1>1. \E R : IsWellFoundedOn(R, Nat) /\ \A m, n \in Nat : m < n => <<m, n>> \in R
  <2>1. \A m, n \in Nat : m < n => <<m, n>> \in OpToRel(<, Nat)
    BY DEF OpToRel
  <2>2. QED
    BY <2>1, NatLessThanWellFounded, Zenon
<1>2. PICK R : IsWellFoundedOn(R, Nat) /\ \A m, n \in Nat : m < n => <<m, n>> \in R
  BY <1>1
<1>3. S \subseteq Nat /\ IsWellFoundedOn(R, Nat)
  BY <1>2
<1>4. \E n \in S : \A m \in S : ~(<<m, n>> \in R)
  BY <1>3, WFMin
<1>5. PICK n \in S : \A m \in S : ~(<<m, n>> \in R)
  BY <1>4
<1>6. ASSUME NEW m \in S PROVE n <= m
  <2>1. m \in Nat /\ n \in Nat /\ ~(m < n)
    BY <1>2, <1>5
  <2>2. QED
    BY <2>1
<1>7. QED
  BY <1>6

\* Induction over the natural numbers, for what is the membership of a set.
LEMMA SetInduction ==
  ASSUME NEW S, 0 \in S, \A n \in Nat : n \in S => n + 1 \in S
  PROVE  \A n \in Nat : n \in S
<1>1. SUFFICES ASSUME Nat \ S # {} PROVE FALSE
  OBVIOUS
<1>2. PICK n \in Nat \ S : \A m \in Nat \ S : n <= m
  BY <1>1, LeastNatural
<1>3. n - 1 \in Nat /\ n - 1 \in S
  BY <1>2
<1>4. QED
  BY <1>2, <1>3

-----------------------------------------------------------------------------
(***************************************************************************)
(* Filtering.                                                              *)
(***************************************************************************)

Filtering(entries, allowed, f, m) ==
  f = [n \in 0 .. m |->
         IF n = 0 THEN << >>
         ELSE IF entries[n] \in allowed THEN Append(f[n - 1], entries[n])
         ELSE f[n - 1]]

\* The loop over the first m entries computes something.
LEMMA FilteringExists ==
  ASSUME NEW entries, NEW allowed
  PROVE  \A m \in Nat : \E f : Filtering(entries, allowed, f, m)
<1> DEFINE S == {m \in Nat : \E f : Filtering(entries, allowed, f, m)}
<1>1. 0 \in S
  <2>1. Filtering(entries, allowed, [n \in 0 .. 0 |-> << >>], 0)
    BY DEF Filtering
  <2>2. QED
    BY <2>1
<1>2. ASSUME NEW m \in Nat, m \in S PROVE m + 1 \in S
  <2>1. PICK f : Filtering(entries, allowed, f, m)
    BY <1>2
  <2> DEFINE last == IF entries[m + 1] \in allowed THEN Append(f[m], entries[m + 1]) ELSE f[m]
             g == [n \in 0 .. (m + 1) |-> IF n = m + 1 THEN last ELSE f[n]]
             h == [n \in 0 .. (m + 1) |->
                     IF n = 0 THEN << >>
                     ELSE IF entries[n] \in allowed THEN Append(g[n - 1], entries[n])
                     ELSE g[n - 1]]
  <2>2. ASSUME NEW n \in 0 .. (m + 1) PROVE g[n] = h[n]
    <3>1. CASE n = m + 1
      <4>1. g[n] = last /\ n # 0 /\ n - 1 \in 0 .. (m + 1) /\ n - 1 # m + 1 /\ n - 1 = m
        BY <3>1
      <4>2. g[n - 1] = f[m]
        BY <4>1
      <4>3. QED
        BY <3>1, <4>1, <4>2
    <3>2. CASE n # m + 1
      <4>1. n \in 0 .. m /\ g[n] = f[n]
        BY <3>2
      <4>2. n # 0 => n - 1 \in 0 .. (m + 1) /\ n - 1 # m + 1 /\ g[n - 1] = f[n - 1]
        BY <4>1
      <4>3. f[n] = IF n = 0 THEN << >>
                   ELSE IF entries[n] \in allowed THEN Append(f[n - 1], entries[n])
                   ELSE f[n - 1]
        BY <2>1, <4>1 DEF Filtering
      <4>4. QED
        BY <4>1, <4>2, <4>3
    <3>3. QED
      BY <3>1, <3>2
  <2>3. g = h
    BY <2>2
  <2>4. Filtering(entries, allowed, g, m + 1)
    BY <2>3 DEF Filtering
  <2>5. QED
    <3> HIDE DEF g
    <3>1. QED
      BY <2>4
<1>3. \A m \in Nat : m \in S
  BY <1>1, <1>2, SetInduction
<1>4. QED
  BY <1>3

\* The equations that filterEntries satisfies.
LEMMA FilterEquations ==
  ASSUME NEW entries, NEW allowed, Len(entries) \in Nat
  PROVE  \E f : /\ filterEntries(entries, allowed) = f[Len(entries)]
                /\ f[0] = << >>
                /\ \A n \in Nat : n + 1 <= Len(entries) =>
                     f[n + 1] = IF entries[n + 1] \in allowed
                                THEN Append(f[n], entries[n + 1]) ELSE f[n]
<1> DEFINE N == Len(entries)
<1>1. \E f : Filtering(entries, allowed, f, N)
  BY FilteringExists
<1>2. PICK f : Filtering(entries, allowed, f, N) /\ filterEntries(entries, allowed) = f[N]
  BY <1>1 DEF filterEntries, Filtering
<1> HIDE DEF N
<1>3. N \in Nat
  BY DEF N
<1>4. \A n \in 0 .. N : f[n] = IF n = 0 THEN << >>
                             ELSE IF entries[n] \in allowed THEN Append(f[n - 1], entries[n])
                             ELSE f[n - 1]
  BY <1>2 DEF Filtering
<1>5. 0 \in 0 .. N /\ f[0] = << >>
  BY <1>3, <1>4
<1>6. ASSUME NEW n \in Nat, n + 1 <= N
      PROVE  f[n + 1] = IF entries[n + 1] \in allowed
                        THEN Append(f[n], entries[n + 1]) ELSE f[n]
  <2>1. n + 1 \in 0 .. N /\ n + 1 # 0 /\ (n + 1) - 1 = n
    BY <1>3, <1>6
  <2>2. QED
    BY <1>4, <2>1
<1>7. QED
  BY <1>2, <1>5, <1>6 DEF N

\* What the loop has kept of the first n entries: those allowed, once each.
Filtered(S, entries, allowed, n, kept) ==
  /\ kept \in Seq(S)
  /\ IsInjective(kept)
  /\ \A x : (\E i \in DOMAIN kept : kept[i] = x)
              <=> x \in allowed /\ \E i \in 1 .. n : entries[i] = x

\* One more entry is looked at.
LEMMA KeepOne ==
  ASSUME NEW S, NEW entries \in Seq(S), IsInjective(entries), NEW allowed,
         NEW n \in Nat, n + 1 <= Len(entries), NEW kept, Filtered(S, entries, allowed, n, kept)
  PROVE  Filtered(S, entries, allowed, n + 1,
              IF entries[n + 1] \in allowed THEN Append(kept, entries[n + 1]) ELSE kept)
<1>1. Len(entries) \in Nat /\ DOMAIN entries = 1 .. Len(entries)
  BY LenProperties
<1>2. n + 1 \in DOMAIN entries /\ entries[n + 1] \in S
  BY <1>1, ElementOfSeq
<1>3. \A i : i \in 1 .. (n + 1) <=> i \in 1 .. n \/ i = n + 1
  OBVIOUS
<1>4. CASE entries[n + 1] \notin allowed
  BY <1>3, <1>4 DEF Filtered
<1>5. CASE entries[n + 1] \in allowed
  <2> DEFINE e == entries[n + 1]
             m == Len(kept)
             more == Append(kept, e)
  <2>1. ASSUME NEW i \in 1 .. n PROVE entries[i] # e
    <3>1. i \in DOMAIN entries /\ i # n + 1
      BY <1>1
    <3>2. QED
      BY <1>2, <3>1 DEF IsInjective
  <2>2. \A i \in DOMAIN kept : kept[i] # e
    BY <2>1 DEF Filtered
  <2>3. /\ more \in Seq(S) /\ m \in Nat
        /\ DOMAIN kept = 1 .. m /\ DOMAIN more = 1 .. (m + 1)
        /\ more[m + 1] = e
        /\ \A i \in 1 .. m : more[i] = kept[i]
    BY <1>2, AppendProperties, LenProperties DEF Filtered
  <2>4. \A i : i \in 1 .. (m + 1) <=> i \in 1 .. m \/ i = m + 1
    BY <2>3
  <2> HIDE DEF e, m, more
  <2>5. IsInjective(more)
    <3> SUFFICES ASSUME NEW i \in DOMAIN more, NEW j \in DOMAIN more, more[i] = more[j]
                 PROVE  i = j
      BY DEF IsInjective
    <3>1. (i \in 1 .. m \/ i = m + 1) /\ (j \in 1 .. m \/ j = m + 1)
      BY <2>3, <2>4
    <3>2. CASE i \in 1 .. m /\ j \in 1 .. m
      BY <2>3, <3>2 DEF Filtered, IsInjective
    <3>3. CASE i \in 1 .. m /\ j = m + 1
      BY <2>2, <2>3, <3>3
    <3>4. CASE i = m + 1 /\ j \in 1 .. m
      BY <2>2, <2>3, <3>4
    <3>5. QED
      BY <3>1, <3>2, <3>3, <3>4
  <2>6. ASSUME NEW x
        PROVE  (\E i \in DOMAIN more : more[i] = x)
                 <=> x \in allowed /\ \E i \in 1 .. (n + 1) : entries[i] = x
    <3>1. (\E i \in DOMAIN more : more[i] = x) <=> (\E i \in DOMAIN kept : kept[i] = x) \/ x = e
      BY <2>3, <2>4
    <3>2. (\E i \in 1 .. (n + 1) : entries[i] = x) <=> (\E i \in 1 .. n : entries[i] = x) \/ x = e
      BY <1>3 DEF e
    <3>3. e \in allowed
      BY <1>5 DEF e
    <3>4. QED
      BY <3>1, <3>2, <3>3 DEF Filtered
  <2>7. Filtered(S, entries, allowed, n + 1, more)
    BY <2>3, <2>5, <2>6 DEF Filtered
  <2>8. QED
    BY <1>5, <2>7 DEF more, e
<1>6. QED
  BY <1>4, <1>5

\* filterEntries returns, of a list without repetitions, the entries allowed, once each.
LEMMA FilterProperties ==
  ASSUME NEW S, NEW entries \in Seq(S), IsInjective(entries), NEW allowed
  PROVE  Filtered(S, entries, allowed, Len(entries), filterEntries(entries, allowed))
<1>1. Len(entries) \in Nat
  BY LenProperties
<1>2. PICK f : /\ filterEntries(entries, allowed) = f[Len(entries)]
               /\ f[0] = << >>
               /\ \A n \in Nat : n + 1 <= Len(entries) =>
                    f[n + 1] = IF entries[n + 1] \in allowed
                               THEN Append(f[n], entries[n + 1]) ELSE f[n]
  BY <1>1, FilterEquations
<1> DEFINE T == {n \in Nat : n <= Len(entries) => Filtered(S, entries, allowed, n, f[n])}
<1>3. 0 \in T
  <2>1. << >> \in Seq(S) /\ DOMAIN << >> = {} /\ \A i \in 1 .. 0 : FALSE
    OBVIOUS
  <2>2. Filtered(S, entries, allowed, 0, << >>)
    BY <2>1 DEF Filtered, IsInjective
  <2>3. QED
    BY <1>2, <2>2
<1>4. ASSUME NEW n \in Nat, n \in T PROVE n + 1 \in T
  <2>1. CASE n + 1 <= Len(entries)
    <3>1. n <= Len(entries)
      BY <1>1, <2>1
    <3>2. Filtered(S, entries, allowed, n, f[n])
      BY <1>4, <3>1
    <3>3. Filtered(S, entries, allowed, n + 1, f[n + 1])
      BY <1>2, <2>1, <3>2, KeepOne
    <3>4. QED
      BY <3>3
  <2>2. CASE ~(n + 1 <= Len(entries))
    BY <2>2
  <2>3. QED
    BY <2>1, <2>2
<1> HIDE DEF T
<1>5. \A n \in Nat : n \in T
  BY <1>3, <1>4, SetInduction
<1>6. QED
  BY <1>1, <1>2, <1>5 DEF T

-----------------------------------------------------------------------------
(***************************************************************************)
(* Ordering.                                                               *)
(***************************************************************************)

\* A list of a finite board has every player on it once.
LEMMA RankedOnce ==
  ASSUME NEW board, IsFiniteSet(DOMAIN board), NEW ordered \in rankedEntries(board)
  PROVE  /\ Cardinality(DOMAIN board) \in Nat
         /\ ordered \in Seq(DOMAIN board) /\ Len(ordered) = Cardinality(DOMAIN board)
         /\ DOMAIN ordered = 1 .. Len(ordered)
         /\ IsInjective(ordered)
         /\ \A p \in DOMAIN board : \E i \in DOMAIN ordered : ordered[i] = p
<1> DEFINE n == Cardinality(DOMAIN board)
<1>1. n \in Nat
  BY FS_CardinalityType
<1>2. ordered \in [1 .. n -> DOMAIN board] /\ IsInjective(ordered)
  BY DEF rankedEntries, IsInjective
<1>3. ordered \in Injection(1 .. n, DOMAIN board)
  BY <1>2 DEF Injection
<1>4. Cardinality(1 .. n) = n
  BY <1>1, FS_Interval
<1>5. ordered \in Surjection(1 .. n, DOMAIN board)
  BY <1>3, <1>4, FS_Injection
<1>6. ordered \in Seq(DOMAIN board) /\ Len(ordered) = n /\ DOMAIN ordered = 1 .. n
  BY <1>1, <1>2
<1>7. QED
  BY <1>1, <1>2, <1>5, <1>6 DEF Surjection

\* The place of a player on such a list.
LEMMA PlaceOf ==
  ASSUME NEW ordered, IsInjective(ordered), NEW i \in DOMAIN ordered
  PROVE  (CHOOSE j \in DOMAIN ordered : ordered[j] = ordered[i]) = i
BY DEF IsInjective

\* A list without repetitions of the members of a set is as long as the set.
LEMMA LengthIsCardinality ==
  ASSUME NEW S, NEW T, NEW s \in Seq(T), IsInjective(s),
         \A x : (\E i \in DOMAIN s : s[i] = x) <=> x \in S
  PROVE  Len(s) = Cardinality(S)
<1>1. Len(s) \in Nat /\ s \in [1 .. Len(s) -> S] /\ DOMAIN s = 1 .. Len(s)
  BY LenProperties
<1>2. s \in Bijection(1 .. Len(s), S)
  BY <1>1 DEF Bijection, Injection, Surjection
<1>3. QED
  BY <1>1, <1>2, FS_CountingElements DEF ExistsBijection

-----------------------------------------------------------------------------
(***************************************************************************)
(* Ranks.  copied is the set of the places whose rank is that of the place *)
(* before; the rank of place i is the last place up to i that is not.      *)
(***************************************************************************)

RunStart(copied, i, r) ==
  r \in 1 .. i /\ r \notin copied /\ \A k \in (r + 1) .. i : k \in copied

\* The ranks are defined.
LEMMA RanksExist ==
  ASSUME NEW copied, 1 \notin copied
  PROVE  \A n \in Nat : \E f :
           f = [i \in 1 .. n |-> IF i \in copied THEN f[i - 1] ELSE i]
<1> DEFINE Is(f, n) == f = [i \in 1 .. n |-> IF i \in copied THEN f[i - 1] ELSE i]
           S == {n \in Nat : \E f : Is(f, n)}
<1>1. 0 \in S
  <2>1. Is([i \in 1 .. 0 |-> i], 0)
    OBVIOUS
  <2> HIDE DEF Is
  <2>2. QED
    BY <2>1
<1>2. ASSUME NEW n \in Nat, n \in S PROVE n + 1 \in S
  <2>1. PICK f : Is(f, n)
    BY <1>2
  <2> DEFINE g == [i \in 1 .. (n + 1) |->
                     IF i = n + 1 THEN IF i \in copied THEN f[n] ELSE i ELSE f[i]]
             h == [i \in 1 .. (n + 1) |-> IF i \in copied THEN g[i - 1] ELSE i]
  <2>2. ASSUME NEW i \in 1 .. (n + 1) PROVE g[i] = h[i]
    <3>1. CASE i \notin copied
      <4>1. i \in 1 .. n => f[i] = i
        BY <2>1, <3>1
      <4>2. QED
        BY <3>1, <4>1
    <3>2. CASE i \in copied
      <4>1. i # 1 /\ i - 1 \in 1 .. (n + 1) /\ i - 1 # n + 1
        BY <3>2
      <4>2. g[i - 1] = f[i - 1]
        BY <4>1
      <4>3. i # n + 1 => i \in 1 .. n /\ f[i] = f[i - 1]
        BY <2>1, <3>2
      <4>4. i = n + 1 => i - 1 = n
        OBVIOUS
      <4>5. QED
        BY <3>2, <4>2, <4>3, <4>4
    <3>3. QED
      BY <3>1, <3>2
  <2>3. g = h
    BY <2>2
  <2>4. Is(g, n + 1)
    BY <2>3
  <2>5. QED
    <3> HIDE DEF g, Is
    <3>1. QED
      BY <2>4
<1>3. \A n \in Nat : n \in S
  BY <1>1, <1>2, SetInduction
<1>4. QED
  BY <1>3

\* The places whose rank is copied: those of scores that equal the one before, if standard.
Copied(board, ordered, standard) ==
  {i \in DOMAIN ordered :
     standard /\ i > 1 /\ board[ordered[i]].score = board[ordered[i - 1]].score}

\* What ranks returns for the player at place i.
LEMMA RankOfPlace ==
  ASSUME NEW S, NEW board, NEW ordered \in Seq(S), IsInjective(ordered), NEW standard \in BOOLEAN,
         NEW i \in DOMAIN ordered
  PROVE  RunStart(Copied(board, ordered, standard), i, ranks(board, ordered, standard)[ordered[i]])
<1> DEFINE copied == Copied(board, ordered, standard)
           n == Len(ordered)
<1>1. n \in Nat /\ DOMAIN ordered = 1 .. n
  BY LenProperties
<1>2. 1 \notin copied
  BY DEF Copied
<1>3. \A j \in DOMAIN ordered :
        j \in copied <=> standard /\ j > 1 /\ board[ordered[j]].score = board[ordered[j - 1]].score
  BY DEF Copied
<1> HIDE DEF copied, n
<1>4. PICK f : f = [j \in 1 .. n |-> IF j \in copied THEN f[j - 1] ELSE j]
  BY <1>1, <1>2, RanksExist
<1>5. \E g : g = [j \in DOMAIN ordered |->
                    IF standard /\ j > 1 /\ board[ordered[j]].score = board[ordered[j - 1]].score
                    THEN g[j - 1] ELSE j]
  <2>1. [j \in 1 .. n |-> IF j \in copied THEN f[j - 1] ELSE j]
          = [j \in DOMAIN ordered |->
               IF standard /\ j > 1 /\ board[ordered[j]].score = board[ordered[j - 1]].score
               THEN f[j - 1] ELSE j]
    BY <1>1, <1>3
  <2>2. QED
    BY <1>4, <2>1
<1>6. PICK g :
        /\ g = [j \in DOMAIN ordered |->
                  IF standard /\ j > 1 /\ board[ordered[j]].score = board[ordered[j - 1]].score
                  THEN g[j - 1] ELSE j]
        /\ ranks(board, ordered, standard)
             = [p \in {ordered[j] : j \in DOMAIN ordered} |->
                  g[CHOOSE j \in DOMAIN ordered : ordered[j] = p]]
  BY <1>5 DEF ranks
<1>7. ranks(board, ordered, standard)[ordered[i]] = g[i]
  <2>1. ordered[i] \in {ordered[j] : j \in DOMAIN ordered}
    OBVIOUS
  <2>2. (CHOOSE j \in DOMAIN ordered : ordered[j] = ordered[i]) = i
    BY PlaceOf
  <2>3. ranks(board, ordered, standard)[ordered[i]]
          = g[CHOOSE j \in DOMAIN ordered : ordered[j] = ordered[i]]
    BY <1>6, <2>1
  <2>4. QED
    BY <2>2, <2>3
<1>8. \A j \in 1 .. n : g[j] = IF j \in copied THEN g[j - 1] ELSE j
  BY <1>1, <1>3, <1>6
<1> DEFINE T == {m \in Nat : m + 1 <= n => RunStart(copied, m + 1, g[m + 1])}
<1>9. 0 \in T
  BY <1>1, <1>2, <1>8 DEF RunStart
<1>10. ASSUME NEW m \in Nat, m \in T PROVE m + 1 \in T
  <2> SUFFICES ASSUME m + 2 <= n PROVE RunStart(copied, m + 2, g[m + 2])
    OBVIOUS
  <2>1. RunStart(copied, m + 1, g[m + 1])
    BY <1>1, <1>10
  <2>2. m + 2 \in 1 .. n /\ (m + 2) - 1 = m + 1
    BY <1>1
  <2>3. CASE m + 2 \in copied
    <3>1. g[m + 2] = g[m + 1]
      BY <1>8, <2>2, <2>3
    <3>2. QED
      BY <2>1, <2>3, <3>1 DEF RunStart
  <2>4. CASE m + 2 \notin copied
    <3>1. g[m + 2] = m + 2
      BY <1>8, <2>2, <2>4
    <3>2. QED
      BY <2>4, <3>1 DEF RunStart
  <2>5. QED
    BY <2>3, <2>4
<1> HIDE DEF T
<1>11. \A m \in Nat : m \in T
  BY <1>9, <1>10, SetInduction
<1>12. i - 1 \in Nat /\ i - 1 + 1 = i /\ i <= n
  BY <1>1
<1>13. RunStart(copied, i, g[i])
  BY <1>11, <1>12 DEF T
<1>14. QED
  BY <1>7, <1>13 DEF copied

\* The ordinal rank of a player is its place.
LEMMA OrdinalRank ==
  ASSUME NEW S, NEW board, NEW ordered \in Seq(S), IsInjective(ordered), NEW i \in DOMAIN ordered
  PROVE  ranks(board, ordered, FALSE)[ordered[i]] = i
<1>1. RunStart(Copied(board, ordered, FALSE), i, ranks(board, ordered, FALSE)[ordered[i]])
  BY RankOfPlace
<1>2. Copied(board, ordered, FALSE) = {}
  BY DEF Copied
<1>3. i \in Nat
  BY LenProperties
<1> DEFINE r == ranks(board, ordered, FALSE)[ordered[i]]
<1> HIDE DEF r
<1>4. r \in 1 .. i /\ \A k \in (r + 1) .. i : FALSE
  BY <1>1, <1>2 DEF RunStart, r
<1>5. r = i
  <2>1. i \notin (r + 1) .. i
    BY <1>4
  <2>2. QED
    BY <1>3, <1>4, <2>1
<1>6. QED
  BY <1>5 DEF r

-----------------------------------------------------------------------------
(***************************************************************************)
(* Pages.                                                                  *)
(***************************************************************************)

\* The answer has an entry for every player selected, in that order.
LEMMA RankDataFacts ==
  ASSUME NEW S, NEW board, NEW ordered, NEW selected \in Seq(S),
         NEW standard \in BOOLEAN
  PROVE  LET answer == rankData(board, ordered, selected, standard) IN
         /\ Len(answer) = Len(selected) /\ Len(selected) \in Nat
         /\ DOMAIN answer = 1 .. Len(selected)
         /\ \A i \in DOMAIN answer :
              /\ answer[i].player = selected[i]
              /\ answer[i].order = ranks(board, ordered, standard)[selected[i]]
<1> DEFINE answer == rankData(board, ordered, selected, standard)
           R == {answer[i] : i \in DOMAIN selected}
<1>1. Len(selected) \in Nat /\ DOMAIN selected = 1 .. Len(selected)
  BY LenProperties
<1>2. answer \in [1 .. Len(selected) -> R]
  BY <1>1 DEF rankData
<1> HIDE DEF R
<1>3. answer \in Seq(R) /\ Len(answer) = Len(selected)
  BY <1>1, <1>2
<1>4. QED
  BY <1>1, <1>3 DEF rankData

\* slice returns what follows the offset, and no more than asked for.
LEMMA SliceFacts ==
  ASSUME NEW S, NEW entries \in Seq(S), NEW offset \in Nat, NEW length \in Nat
  PROVE  LET page == slice(entries, offset, length) IN
         /\ page \in Seq(S) /\ Len(page) \in Nat
         /\ \A i \in 1 .. Len(page) :
              offset + i \in 1 .. Len(entries) /\ page[i] = entries[offset + i]
         /\ Len(page) = length \/ offset + Len(page) >= Len(entries) \/ length = 0
<1> DEFINE n == Len(entries)
           rest == SubSeq(entries, offset + 1, n)
<1>1. n \in Nat /\ \A i \in 1 .. n : entries[i] \in S
  BY LenProperties, ElementOfSeq
<1>2. \A i \in (offset + 1) .. n : entries[i] \in S
  BY <1>1
<1>3. /\ rest \in Seq(S)
      /\ Len(rest) = IF offset + 1 <= n THEN n - (offset + 1) + 1 ELSE 0
      /\ \A i \in 1 .. (n - (offset + 1) + 1) : rest[i] = entries[offset + 1 + i - 1]
  BY <1>1, <1>2, SubSeqProperties
<1>4. /\ Len(rest) \in Nat
      /\ \A i \in 1 .. Len(rest) : i \in 1 .. (n - offset) /\ rest[i] = entries[offset + i]
  BY <1>1, <1>3
<1>5. CASE length > 0 /\ length < Len(rest)
  <2> DEFINE page == SubSeq(rest, 1, length)
  <2>1. \A i \in 1 .. length : rest[i] \in S
    BY <1>3, <1>4, <1>5, ElementOfSeq
  <2>2. /\ page \in Seq(S)
        /\ Len(page) = length
        /\ \A i \in 1 .. length : page[i] = rest[i]
    BY <1>5, <2>1, SubSeqProperties
  <2>3. slice(entries, offset, length) = page
    BY <1>5 DEF slice
  <2> HIDE DEF page, rest, n
  <2>4. \A i \in 1 .. Len(page) : i \in 1 .. Len(rest)
    BY <1>4, <1>5, <2>2
  <2>5. ASSUME NEW i \in 1 .. Len(page)
        PROVE  offset + i \in 1 .. n /\ page[i] = entries[offset + i]
    <3>1. i \in 1 .. length /\ i \in 1 .. Len(rest)
      BY <2>2, <2>4
    <3>2. page[i] = rest[i] /\ i \in 1 .. (n - offset) /\ rest[i] = entries[offset + i]
      BY <1>4, <2>2, <3>1
    <3>3. QED
      BY <1>1, <3>2
  <2>6. QED
    BY <2>2, <2>3, <2>5 DEF n
<1>6. CASE ~(length > 0 /\ length < Len(rest))
  <2>1. slice(entries, offset, length) = rest
    BY <1>6 DEF slice
  <2> HIDE DEF rest, n
  <2>2. offset + Len(rest) >= n
    BY <1>1, <1>3
  <2>3. \A i \in 1 .. Len(rest) : offset + i \in 1 .. n /\ rest[i] = entries[offset + i]
    BY <1>1, <1>4
  <2>4. QED
    BY <1>3, <1>4, <2>1, <2>2, <2>3 DEF n
<1>7. QED
  BY <1>5, <1>6

\* What PagesContinueTheRanking says of one answer about n entries.
Continues(answer, offset, length, n) ==
  /\ \A i \in DOMAIN answer : answer[i].order = offset + i
  /\ Len(answer) = length \/ offset + Len(answer) >= n \/ length = 0

\* An ordinal page of a list without repetitions continues where the page before it ends.
LEMMA PageContinues ==
  ASSUME NEW S, NEW board, NEW entries \in Seq(S), IsInjective(entries),
         NEW offset \in Nat, NEW length \in Nat
  PROVE  Continues(rankData(board, entries, slice(entries, offset, length), FALSE),
                   offset, length, Len(entries))
<1> DEFINE page == slice(entries, offset, length)
           answer == rankData(board, entries, page, FALSE)
<1>1. /\ page \in Seq(S) /\ Len(page) \in Nat
      /\ \A i \in 1 .. Len(page) : offset + i \in 1 .. Len(entries) /\ page[i] = entries[offset + i]
      /\ Len(page) = length \/ offset + Len(page) >= Len(entries) \/ length = 0
  BY SliceFacts
<1> HIDE DEF page
<1>2. /\ Len(answer) = Len(page) /\ DOMAIN answer = 1 .. Len(page)
      /\ \A i \in DOMAIN answer : answer[i].order = ranks(board, entries, FALSE)[page[i]]
  <2>1. page \in Seq(S)
    BY <1>1
  <2>2. PICK standard \in BOOLEAN : standard = FALSE
    OBVIOUS
  <2> DEFINE given == rankData(board, entries, page, standard)
  <2>3. /\ Len(given) = Len(page) /\ DOMAIN given = 1 .. Len(page)
        /\ \A i \in DOMAIN given : given[i].order = ranks(board, entries, standard)[page[i]]
    BY <2>1, RankDataFacts
  <2>4. QED
    BY <2>2, <2>3
<1> HIDE DEF answer
<1>3. DOMAIN entries = 1 .. Len(entries)
  BY LenProperties
<1>4. ASSUME NEW i \in DOMAIN answer PROVE answer[i].order = offset + i
  <2>1. /\ answer[i].order = ranks(board, entries, FALSE)[entries[offset + i]]
        /\ offset + i \in DOMAIN entries
    BY <1>1, <1>2, <1>3
  <2>2. QED
    BY <2>1, OrdinalRank
<1>5. Continues(answer, offset, length, Len(entries))
  BY <1>1, <1>2, <1>4 DEF Continues
<1>6. QED
  BY <1>5 DEF answer, page

-----------------------------------------------------------------------------
(***************************************************************************)
(* Boards are finite, however many players there are: every upload adds    *)
(* one entry to what was there.                                            *)
(***************************************************************************)

FiniteBoards == IsFiniteSet(DOMAIN scores) /\ IsFiniteSet(DOMAIN Stable[1])

\* The invariant of this section.
BoardsInv == IInv /\ FiniteBoards

\* A new store has finite boards.
LEMMA InitHasBoardsInv == Init => BoardsInv
<1> SUFFICES ASSUME Init PROVE BoardsInv
  OBVIOUS
<1>1. DOMAIN Empty[1] = {}
  BY DEF Empty
<1>2. scores = Empty[1] /\ Stable = Empty
  BY DEF Init, Stable
<1>3. QED
  BY <1>1, <1>2, InitHasIInv, FS_EmptySet DEF BoardsInv, FiniteBoards

\* The boards stay finite.
LEMMA NextKeepsBoardsInv == BoardsInv /\ [Next]_vars => BoardsInv'
<1> SUFFICES ASSUME BoardsInv, [Next]_vars PROVE BoardsInv'
  OBVIOUS
<1> USE DEF BoardsInv, FiniteBoards
<1>1. IInv'
  BY NextKeepsIInv
<1>2. CASE Requested
  <2>1. Stable' = Stable
    BY <1>2, RequestedFacts DEF IInv, Stable
  <2>2. ASSUME NEW upload \in Upload, NEW mode \in UpdateModes, InsertRanking(upload, mode)
        PROVE  IsFiniteSet(DOMAIN scores')
    <3>1. DOMAIN scores' = DOMAIN scores \/ DOMAIN scores' = DOMAIN scores \cup {Key(upload)}
      BY <2>2 DEF InsertRanking, With
    <3>2. QED
      BY <3>1, FS_AddElement
  <2>3. ASSUME NEW p \in Players, NEW C, DeleteScores(p, C)
        PROVE  IsFiniteSet(DOMAIN scores')
    <3>1. DOMAIN scores' \subseteq DOMAIN scores
      BY <2>3 DEF DeleteScores, Without
    <3>2. QED
      BY <3>1, FS_Subset
  <2>4. IsFiniteSet(DOMAIN scores')
    BY <1>2, <2>2, <2>3 DEF Requested, DeleteScore, DeleteAllScores,
       UploadCommonData, DeleteCommonData
  <2>5. QED
    BY <1>1, <2>1, <2>4
<1>3. CASE CreateTemporary \/ WriteTemporary \/ FailSave \/ Tick
  BY <1>1, <1>3 DEF CreateTemporary, WriteTemporary, FailSave, Tick, Stable
<1>4. CASE Rename
  <2>1. file' = memory /\ memory \in Contents /\ scores' = scores
    BY <1>4 DEF Rename, IInv, TypeOK, TemporaryIsCurrent
  <2>2. Stable' = memory
    BY <2>1, AbsenceAssumption DEF Stable, AbsenceAssumption
  <2>3. QED
    BY <1>1, <2>1, <2>2 DEF memory
<1>5. CASE Crash
  BY <1>1, <1>5, FS_EmptySet DEF Crash, Empty, Stable
<1>6. CASE Restart
  BY <1>1, <1>6 DEF Restart, Stable
<1>7. CASE UNCHANGED vars
  BY <1>1, <1>7 DEF vars, Stable
<1>8. QED
  BY <1>2, <1>3, <1>4, <1>5, <1>6, <1>7 DEF Next, Requested

\* The boards are finite in every reachable state.
THEOREM BoardsAreFinite == Spec => []BoardsInv
BY InitHasBoardsInv, NextKeepsBoardsInv, PTL DEF Spec

\* The board of a category in the entries s.
BoardOf(s, c) == [p \in {q \in Players : <<c, q>> \in DOMAIN s} |-> s[<<c, p>>]]

\* The players on a board are those of finitely many entries.
LEMMA BoardIsFinite ==
  ASSUME NEW s, IsFiniteSet(DOMAIN s), NEW c
  PROVE  IsFiniteSet(DOMAIN BoardOf(s, c))
<1> DEFINE D == {k \in DOMAIN s : \E q \in Players : k = <<c, q>>}
           board == BoardOf(s, c)
           f == [p \in DOMAIN board |-> <<c, p>>]
<1>1. IsFiniteSet(D)
  BY FS_Subset
<1>2. f \in Injection(DOMAIN board, D)
  <2>1. DOMAIN board = {q \in Players : <<c, q>> \in DOMAIN s}
    BY DEF BoardOf
  <2>2. f \in [DOMAIN board -> D]
    BY <2>1
  <2>3. IsInjective(f)
    BY DEF IsInjective
  <2>4. QED
    BY <2>2, <2>3 DEF Injection
<1>3. QED
  BY <1>1, <1>2, FS_Injection

\* A page of the whole board.
LEMMA BoardPageContinues ==
  ASSUME NEW board, IsFiniteSet(DOMAIN board), NEW offset \in Nat, NEW length \in Nat,
         NEW answer \in GetRankings(board, offset, length, FALSE)
  PROVE  Continues(answer, offset, length, Cardinality(DOMAIN board))
<1>1. PICK ordered \in rankedEntries(board) :
        answer = rankData(board, ordered, slice(ordered, offset, length), FALSE)
  BY DEF GetRankings
<1>2. /\ ordered \in Seq(DOMAIN board) /\ IsInjective(ordered)
      /\ Len(ordered) = Cardinality(DOMAIN board)
  BY RankedOnce
<1>3. Continues(rankData(board, ordered, slice(ordered, offset, length), FALSE),
                offset, length, Len(ordered))
  BY <1>2, PageContinues
<1>4. QED
  BY <1>1, <1>2, <1>3

\* A page of the board of a player's friends.
LEMMA FriendsPageContinues ==
  ASSUME NEW board, IsFiniteSet(DOMAIN board), NEW p, NEW offset \in Nat, NEW length \in Nat,
         NEW answer \in GetFriendsRankings(board, p, offset, length, FALSE)
  PROVE  Continues(answer, offset, length, Cardinality(friendSet(p) \cap DOMAIN board))
<1>1. PICK ordered \in rankedEntries(board) :
        answer = LET friends == filterEntries(ordered, friendSet(p))
                 IN  rankData(board, friends, slice(friends, offset, length), FALSE)
  BY DEF GetFriendsRankings
<1> DEFINE friends == filterEntries(ordered, friendSet(p))
<1>2. /\ ordered \in Seq(DOMAIN board) /\ IsInjective(ordered)
      /\ DOMAIN ordered = 1 .. Len(ordered)
      /\ \A q \in DOMAIN board : \E i \in DOMAIN ordered : ordered[i] = q
      /\ \A i \in DOMAIN ordered : ordered[i] \in DOMAIN board
  BY RankedOnce, ElementOfSeq
<1>3. Filtered(DOMAIN board, ordered, friendSet(p), Len(ordered), friends)
  BY <1>2, FilterProperties
<1>4. answer = rankData(board, friends, slice(friends, offset, length), FALSE)
  BY <1>1
<1> HIDE DEF friends
<1>5. /\ friends \in Seq(DOMAIN board) /\ IsInjective(friends)
      /\ \A x : (\E i \in DOMAIN friends : friends[i] = x) <=> x \in friendSet(p) \cap DOMAIN board
  BY <1>2, <1>3 DEF Filtered
<1>6. Len(friends) = Cardinality(friendSet(p) \cap DOMAIN board)
  BY <1>5, LengthIsCardinality
<1>7. Continues(rankData(board, friends, slice(friends, offset, length), FALSE),
                offset, length, Len(friends))
  BY <1>5, PageContinues
<1>8. QED
  BY <1>4, <1>6, <1>7

\* Every page of a board and of a board of friends continues the ordinal
\* ranking, whatever the sizes, offsets and lengths.
THEOREM PagesContinue == Spec => []PagesContinueTheRanking
<1>1. BoardsInv => PagesContinueTheRanking
  <2> SUFFICES ASSUME BoardsInv, NEW c \in Categories,
                      NEW offset \in Lengths, NEW length \in Lengths
               PROVE  /\ \A answer \in GetRankings(Board(c), offset, length, FALSE) :
                           Continues(answer, offset, length, Cardinality(DOMAIN Board(c)))
                      /\ \A p \in Players :
                           \A answer \in GetFriendsRankings(Board(c), p, offset, length, FALSE) :
                             Continues(answer, offset, length,
                                       Cardinality(friendSet(p) \cap DOMAIN Board(c)))
    BY DEF PagesContinueTheRanking, Continues
  <2>1. offset \in Nat /\ length \in Nat /\ IsFiniteSet(DOMAIN Board(c))
    BY LeaderboardsAssumption, BoardIsFinite
       DEF LeaderboardsAssumption, BoardsInv, FiniteBoards, Board, BoardOf
  <2>2. QED
    BY <2>1, BoardPageContinues, FriendsPageContinues
<1>2. QED
  BY <1>1, BoardsAreFinite, PTL

-----------------------------------------------------------------------------
(***************************************************************************)
(* The nearby board.                                                       *)
(***************************************************************************)

\* The window is a stretch of the list with the caller in it.
LEMMA WindowFacts ==
  ASSUME NEW S, NEW ordered \in Seq(S), IsInjective(ordered), NEW place \in DOMAIN ordered,
         NEW length \in Nat
  PROVE  LET shown == Window(ordered, ordered[place], length) IN
         \E first \in Nat :
           /\ shown \in Seq(S) /\ Len(shown) \in Nat
           /\ \A i \in 1 .. Len(shown) :
                first + i \in DOMAIN ordered /\ shown[i] = ordered[first + i]
           /\ place - first \in 1 .. Len(shown)
           /\ Len(shown) <= IF length = 0 THEN 1 ELSE length
<1> DEFINE n == Len(ordered)
           size  == IF length <= 0 THEN 1 ELSE length
           start == (place - 1) - size \div 2
           first == IF start < 0 THEN 0 ELSE start
           end   == first + size
           last  == IF end > n THEN n ELSE end
           shown == SubSeq(ordered, first + 1, last)
<1>1. n \in Nat /\ DOMAIN ordered = 1 .. n /\ \A i \in 1 .. n : ordered[i] \in S
  BY LenProperties, ElementOfSeq
<1>2. Window(ordered, ordered[place], length) = shown
  BY PlaceOf DEF Window
<1>3. /\ size \in Nat /\ size >= 1 /\ size = IF length = 0 THEN 1 ELSE length
      /\ size \div 2 \in Nat /\ size \div 2 < size
  OBVIOUS
<1> HIDE DEF size
<1>4. /\ first \in Nat /\ first + 1 <= place /\ place <= first + size
  BY <1>1, <1>3
<1> HIDE DEF start, first
<1>5. last \in Nat /\ place <= last /\ last <= n /\ last <= first + size
  BY <1>1, <1>3, <1>4
<1> HIDE DEF last
<1>6. /\ shown \in Seq(S)
      /\ Len(shown) = IF first + 1 <= last THEN last - (first + 1) + 1 ELSE 0
      /\ \A i \in 1 .. (last - (first + 1) + 1) : shown[i] = ordered[first + 1 + i - 1]
  <2>1. \A i \in (first + 1) .. last : ordered[i] \in S
    BY <1>1, <1>4, <1>5
  <2>2. QED
    BY <1>4, <1>5, <2>1, SubSeqProperties
<1> HIDE DEF shown
<1>7. Len(shown) = last - first
  BY <1>1, <1>4, <1>5, <1>6
<1>8. ASSUME NEW i \in 1 .. Len(shown)
      PROVE  first + i \in DOMAIN ordered /\ shown[i] = ordered[first + i]
  <2>1. i \in 1 .. (last - (first + 1) + 1) /\ first + 1 + i - 1 = first + i
    BY <1>4, <1>5, <1>7
  <2>2. first + i \in 1 .. n
    BY <1>1, <1>4, <1>5, <1>7
  <2>3. QED
    BY <1>1, <1>6, <2>1, <2>2
<1>9. place - first \in 1 .. Len(shown) /\ Len(shown) <= size /\ Len(shown) \in Nat
  BY <1>1, <1>3, <1>4, <1>5, <1>7
<1>10. QED
  BY <1>2, <1>3, <1>4, <1>6, <1>8, <1>9

\* The nearby board shows the caller among its neighbours, in consecutive
\* places and no more of them than asked for.
THEOREM NearbyShown == Spec => []NearbyShowsTheCaller
<1>1. BoardsInv => NearbyShowsTheCaller
  <2> SUFFICES ASSUME BoardsInv, NEW c \in Categories, NEW length \in Lengths,
                      NEW p \in DOMAIN Board(c),
                      NEW answer \in GetNearbyRankings(Board(c), p, length, FALSE)
               PROVE  /\ \E i \in DOMAIN answer : answer[i].player = p
                      /\ Len(answer) <= IF length = 0 THEN 1 ELSE length
                      /\ \A i \in DOMAIN answer : answer[i].order = answer[1].order + i - 1
    BY DEF NearbyShowsTheCaller
  <2> DEFINE board == Board(c)
  <2>1. length \in Nat /\ IsFiniteSet(DOMAIN board)
    BY LeaderboardsAssumption, BoardIsFinite
       DEF LeaderboardsAssumption, BoardsInv, FiniteBoards, Board, BoardOf
  <2>2. PICK ordered \in rankedEntries(board) :
          answer = rankData(board, ordered, Window(ordered, p, length), FALSE)
    BY DEF GetNearbyRankings
  <2> HIDE DEF board
  <2>3. /\ ordered \in Seq(DOMAIN board) /\ IsInjective(ordered)
        /\ \A q \in DOMAIN board : \E i \in DOMAIN ordered : ordered[i] = q
    BY <2>1, RankedOnce
  <2>4. PICK place \in DOMAIN ordered : ordered[place] = p
    BY <2>3 DEF board
  <2> DEFINE shown == Window(ordered, ordered[place], length)
  <2>5. \E first \in Nat :
          /\ shown \in Seq(DOMAIN board) /\ Len(shown) \in Nat
          /\ \A i \in 1 .. Len(shown) :
               first + i \in DOMAIN ordered /\ shown[i] = ordered[first + i]
          /\ place - first \in 1 .. Len(shown)
          /\ Len(shown) <= IF length = 0 THEN 1 ELSE length
    BY <2>1, <2>3, WindowFacts
  <2>6. PICK first \in Nat :
          /\ shown \in Seq(DOMAIN board) /\ Len(shown) \in Nat
          /\ \A i \in 1 .. Len(shown) :
               first + i \in DOMAIN ordered /\ shown[i] = ordered[first + i]
          /\ place - first \in 1 .. Len(shown)
          /\ Len(shown) <= IF length = 0 THEN 1 ELSE length
    BY <2>5
  <2>7. answer = rankData(board, ordered, shown, FALSE)
    BY <2>2, <2>4
  <2> HIDE DEF shown
  <2>8. /\ Len(answer) = Len(shown) /\ DOMAIN answer = 1 .. Len(shown)
        /\ \A i \in DOMAIN answer :
             /\ answer[i].player = shown[i]
             /\ answer[i].order = ranks(board, ordered, FALSE)[shown[i]]
    <3>1. PICK standard \in BOOLEAN : standard = FALSE
      OBVIOUS
    <3> DEFINE given == rankData(board, ordered, shown, standard)
    <3>2. /\ Len(given) = Len(shown) /\ DOMAIN given = 1 .. Len(shown)
          /\ \A i \in DOMAIN given :
               /\ given[i].player = shown[i]
               /\ given[i].order = ranks(board, ordered, standard)[shown[i]]
      BY <2>6, RankDataFacts
    <3>3. QED
      BY <2>7, <3>1, <3>2
  <2>9. \A i \in DOMAIN answer : answer[i].order = first + i
    <3> SUFFICES ASSUME NEW i \in DOMAIN answer PROVE answer[i].order = first + i
      OBVIOUS
    <3> DEFINE k == first + i
    <3>1. /\ k \in DOMAIN ordered
          /\ answer[i].order = ranks(board, ordered, FALSE)[ordered[k]]
      BY <2>6, <2>8
    <3> HIDE DEF k
    <3>2. answer[i].order = k
      BY <2>3, <3>1, OrdinalRank
    <3>3. QED
      BY <3>2 DEF k
  <2>10. answer[place - first].player = p /\ place - first \in DOMAIN answer
    <3>1. place \in Nat /\ first + (place - first) = place
      BY <2>3, LenProperties
    <3>2. QED
      BY <2>4, <2>6, <2>8, <3>1
  <2>11. 1 \in DOMAIN answer
    BY <2>6, <2>8
  <2>12. \A i \in DOMAIN answer : answer[i].order = answer[1].order + i - 1
    BY <2>8, <2>9, <2>11
  <2>13. QED
    BY <2>6, <2>8, <2>10, <2>12
<1>2. QED
  BY <1>1, BoardsAreFinite, PTL

-----------------------------------------------------------------------------
(***************************************************************************)
(* The projected rank.  In standard ranking the rank of a player is one    *)
(* more than the number of the better entries: those are the entries       *)
(* before the run of scores that equal the player's.                       *)
(***************************************************************************)

\* A board whose entries are all ordered alike and have natural numbers as scores.
OneOrder(board, o) == \A p \in DOMAIN board : board[p].orderBy = o /\ board[p].score \in Nat

\* The players with a better score.
Better(board, score, o) == {q \in DOMAIN board : betterThan(board[q].score, score, o)}

\* The list is ordered by score.
LEMMA RankedInOrder ==
  ASSUME NEW board, NEW o, OneOrder(board, o), NEW ordered \in rankedEntries(board),
         NEW i \in DOMAIN ordered, NEW j \in DOMAIN ordered, i < j
  PROVE  \/ board[ordered[i]].score = board[ordered[j]].score
         \/ betterThan(board[ordered[i]].score, board[ordered[j]].score, o)
<1>1. ordered[i] \in DOMAIN board
  BY DEF rankedEntries
<1>2. PICK first \in DOMAIN board : \A k, m \in DOMAIN ordered : k < m =>
          LET a == board[ordered[k]]
              b == board[ordered[m]]
          IN  IF a.score # b.score
              THEN betterThan(a.score, b.score, board[first].orderBy)
              ELSE a.updateTime <= b.updateTime
  BY <1>1 DEF rankedEntries
<1>3. board[first].orderBy = o
  BY DEF OneOrder
<1>4. QED
  BY <1>2, <1>3

\* Scores are strictly ordered, either way.
LEMMA StrictlyBetter ==
  ASSUME NEW a \in Nat, NEW b \in Nat, NEW c \in Nat, NEW o
  PROVE  /\ ~betterThan(a, a, o)
         /\ betterThan(a, b, o) => ~betterThan(b, a, o)
         /\ betterThan(a, b, o) /\ betterThan(b, c, o) => betterThan(a, c, o)
         /\ a # b => betterThan(a, b, o) \/ betterThan(b, a, o)
BY DEF betterThan

\* The places of a list whose score equals that of the place before.
Ties(board, ordered) ==
  {i \in DOMAIN ordered : i > 1 /\ board[ordered[i]].score = board[ordered[i - 1]].score}

\* The standard rank of a place is the start of its run of equal scores.
LEMMA StandardRun ==
  ASSUME NEW S, NEW board, NEW ordered \in Seq(S), IsInjective(ordered), NEW i \in DOMAIN ordered,
         NEW standard \in BOOLEAN
  PROVE  standard => RunStart(Ties(board, ordered), i, ranks(board, ordered, standard)[ordered[i]])
<1>1. RunStart(Copied(board, ordered, standard), i, ranks(board, ordered, standard)[ordered[i]])
  BY RankOfPlace
<1>2. standard => Copied(board, ordered, standard) = Ties(board, ordered)
  BY DEF Copied, Ties
<1>3. QED
  BY <1>1, <1>2

\* The scores of a run are equal.
LEMMA RunIsEqual ==
  ASSUME NEW S, NEW board, NEW ordered \in Seq(S), NEW i \in DOMAIN ordered, NEW r,
         RunStart(Ties(board, ordered), i, r)
  PROVE  \A k \in r .. i : board[ordered[k]].score = board[ordered[r]].score
<1>1. i \in Nat /\ r \in 1 .. i /\ DOMAIN ordered = 1 .. Len(ordered)
  BY LenProperties DEF RunStart
<1>2. ASSUME NEW k \in (r + 1) .. i
      PROVE  board[ordered[k]].score = board[ordered[k - 1]].score
  BY <1>2 DEF RunStart, Ties
<1> DEFINE T == {m \in Nat : r + m <= i => board[ordered[r + m]].score = board[ordered[r]].score}
<1>3. 0 \in T
  BY <1>1
<1>4. ASSUME NEW m \in Nat, m \in T PROVE m + 1 \in T
  <2>1. CASE r + (m + 1) <= i
    <3> DEFINE k == r + (m + 1)
    <3>1. r + m <= i /\ k \in (r + 1) .. i /\ k - 1 = r + m
      BY <1>1, <2>1
    <3> HIDE DEF k
    <3>2. board[ordered[k]].score = board[ordered[k - 1]].score
      BY <1>2, <3>1
    <3>3. QED
      BY <1>4, <3>1, <3>2 DEF k
  <2>2. QED
    BY <2>1
<1> HIDE DEF T
<1>5. \A m \in Nat : m \in T
  BY <1>3, <1>4, SetInduction
<1>6. ASSUME NEW k \in r .. i PROVE board[ordered[k]].score = board[ordered[r]].score
  <2>1. k - r \in Nat /\ r + (k - r) = k /\ k <= i
    BY <1>1
  <2>2. QED
    BY <1>5, <2>1 DEF T
<1>7. QED
  BY <1>6

\* The better entries are those before the run.
LEMMA BetterIsBefore ==
  ASSUME NEW board, IsFiniteSet(DOMAIN board), NEW o, OneOrder(board, o),
         NEW ordered \in rankedEntries(board), NEW i \in DOMAIN ordered, NEW r,
         RunStart(Ties(board, ordered), i, r), NEW j \in DOMAIN ordered
  PROVE  betterThan(board[ordered[j]].score, board[ordered[i]].score, o) <=> j < r
<1> DEFINE sc(k) == board[ordered[k]].score
<1>1. /\ ordered \in Seq(DOMAIN board) /\ DOMAIN ordered = 1 .. Len(ordered) /\ Len(ordered) \in Nat
      /\ \A k \in DOMAIN ordered : sc(k) \in Nat
  BY RankedOnce, ElementOfSeq DEF OneOrder
<1>2. /\ i \in Nat /\ j \in Nat /\ r \in Nat /\ 1 <= r /\ r <= i /\ r \in DOMAIN ordered
      /\ r \notin Ties(board, ordered)
  <2>1. i \in 1 .. Len(ordered) /\ j \in 1 .. Len(ordered)
    BY <1>1
  <2>2. r \in 1 .. i /\ r \notin Ties(board, ordered)
    BY DEF RunStart
  <2>3. Len(ordered) \in Nat /\ DOMAIN ordered = 1 .. Len(ordered)
    BY <1>1
  <2>4. QED
    BY <2>1, <2>2, <2>3
<1>3. \A k \in r .. i : sc(k) = sc(r)
  <2>1. ordered \in Seq(DOMAIN board)
    BY <1>1
  <2>2. \A k \in r .. i : board[ordered[k]].score = board[ordered[r]].score
    BY <2>1, RunIsEqual
  <2>3. QED
    BY <2>2
<1>4. \A k, m \in DOMAIN ordered : k < m => sc(k) = sc(m) \/ betterThan(sc(k), sc(m), o)
  BY RankedInOrder
<1>5. r > 1 => r - 1 \in DOMAIN ordered /\ sc(r - 1) # sc(r)
  BY <1>1, <1>2 DEF Ties
<1>6. sc(i) = sc(r)
  BY <1>2, <1>3
<1> HIDE DEF sc
<1>7. CASE j < r
  <2>1. r > 1
    BY <1>1, <1>2, <1>7
  <2>2. betterThan(sc(r - 1), sc(r), o)
    BY <1>2, <1>4, <1>5, <2>1
  <2>3. CASE j = r - 1
    BY <1>6, <1>7, <2>2, <2>3 DEF sc
  <2>4. CASE j < r - 1
    <3>1. sc(j) = sc(r - 1) \/ betterThan(sc(j), sc(r - 1), o)
      BY <1>4, <1>5, <2>1, <2>4
    <3>2. betterThan(sc(j), sc(r), o)
      BY <1>1, <1>2, <1>5, <2>1, <2>2, <3>1, StrictlyBetter
    <3>3. QED
      BY <1>6, <1>7, <3>2 DEF sc
  <2>5. QED
    BY <1>2, <1>7, <2>3, <2>4
<1>8. CASE j \in r .. i
  <2>1. sc(j) = sc(i)
    BY <1>3, <1>6, <1>8
  <2>2. ~betterThan(sc(j), sc(i), o)
    BY <1>1, <2>1, StrictlyBetter
  <2>3. QED
    BY <1>2, <1>8, <2>2 DEF sc
<1>9. CASE j > i
  <2>1. sc(i) = sc(j) \/ betterThan(sc(i), sc(j), o)
    BY <1>4, <1>9
  <2>2. ~betterThan(sc(j), sc(i), o)
    BY <1>1, <2>1, StrictlyBetter
  <2>3. QED
    BY <1>2, <1>9, <2>2 DEF sc
<1>10. QED
  BY <1>2, <1>7, <1>8, <1>9

\* The standard rank of a player is one more than the number of the better entries.
LEMMA StandardRank ==
  ASSUME NEW board, IsFiniteSet(DOMAIN board), NEW o, OneOrder(board, o),
         NEW ordered \in rankedEntries(board), NEW p \in DOMAIN board,
         NEW standard \in BOOLEAN
  PROVE  standard => ranks(board, ordered, standard)[p]
           = 1 + Cardinality(Better(board, board[p].score, o))
<1> SUFFICES ASSUME standard
             PROVE  ranks(board, ordered, standard)[p]
                      = 1 + Cardinality(Better(board, board[p].score, o))
  OBVIOUS
<1> DEFINE better == Better(board, board[p].score, o)
<1>1. /\ ordered \in Seq(DOMAIN board) /\ IsInjective(ordered)
      /\ DOMAIN ordered = 1 .. Len(ordered) /\ Len(ordered) \in Nat
      /\ \A q \in DOMAIN board : \E i \in DOMAIN ordered : ordered[i] = q
      /\ \A i \in DOMAIN ordered : ordered[i] \in DOMAIN board
  BY RankedOnce, ElementOfSeq
<1>2. PICK i \in DOMAIN ordered : ordered[i] = p
  BY <1>1
<1> DEFINE r == ranks(board, ordered, standard)[ordered[i]]
<1>3. RunStart(Ties(board, ordered), i, r)
  BY <1>1, StandardRun
<1> HIDE DEF r
<1>4. r \in Nat /\ 1 <= r /\ r <= i /\ i \in Nat /\ i <= Len(ordered)
  BY <1>1, <1>3 DEF RunStart
<1>5. \A j \in DOMAIN ordered :
        betterThan(board[ordered[j]].score, board[ordered[i]].score, o) <=> j < r
  BY <1>3, BetterIsBefore
<1> DEFINE f == [j \in 1 .. (r - 1) |-> ordered[j]]
<1>6. \A j \in 1 .. (r - 1) : j \in DOMAIN ordered /\ j < r
  BY <1>1, <1>4
<1>7. f \in [1 .. (r - 1) -> better]
  BY <1>1, <1>2, <1>5, <1>6 DEF Better
<1>8. IsInjective(f)
  BY <1>1, <1>6 DEF IsInjective
<1>9. ASSUME NEW q \in better PROVE \E j \in 1 .. (r - 1) : f[j] = q
  <2>1. PICK j \in DOMAIN ordered : ordered[j] = q
    BY <1>1 DEF Better
  <2>2. j < r
    BY <1>2, <1>5, <2>1 DEF Better
  <2>3. j \in 1 .. (r - 1)
    BY <1>1, <1>4, <2>2
  <2>4. QED
    BY <2>1, <2>3
<1>10. ExistsBijection(1 .. (r - 1), better)
  <2>1. f \in Bijection(1 .. (r - 1), better)
    BY <1>7, <1>8, <1>9 DEF Bijection, Injection, Surjection
  <2>2. QED
    BY <2>1 DEF ExistsBijection
<1>11. Cardinality(better) = r - 1
  BY <1>4, <1>10, FS_CountingElements
<1>12. ranks(board, ordered, standard)[p] = r
  BY <1>2 DEF r
<1>13. r = 1 + Cardinality(better)
  BY <1>4, <1>11
<1>14. QED
  BY <1>12, <1>13

\* What a player asks of its own rank is one answer, the player's rank on the whole board.
LEMMA OwnAnswer ==
  ASSUME NEW board, IsFiniteSet(DOMAIN board), NEW p \in DOMAIN board,
         NEW standard \in BOOLEAN, NEW answer \in RankingsForPIDs(board, {p}, standard)
  PROVE  \E ordered \in rankedEntries(board) :
           /\ DOMAIN answer = {1} /\ answer[1].player = p
           /\ answer[1].order = ranks(board, ordered, standard)[p]
<1>1. PICK ordered \in rankedEntries(board) :
        answer = rankData(board, ordered, filterEntries(ordered, {p}), standard)
  BY DEF RankingsForPIDs
<1> DEFINE own == filterEntries(ordered, {p})
<1>2. /\ ordered \in Seq(DOMAIN board) /\ IsInjective(ordered)
      /\ DOMAIN ordered = 1 .. Len(ordered)
      /\ \E i \in DOMAIN ordered : ordered[i] = p
  BY RankedOnce
<1>3. Filtered(DOMAIN board, ordered, {p}, Len(ordered), own)
  BY <1>2, FilterProperties
<1> HIDE DEF own
<1>4. /\ own \in Seq(DOMAIN board) /\ IsInjective(own)
      /\ \A x : (\E i \in DOMAIN own : own[i] = x) <=> x \in {p}
  BY <1>2, <1>3 DEF Filtered
<1>5. Len(own) = 1
  BY <1>4, LengthIsCardinality, FS_Singleton
<1>6. own[1] = p
  <2>1. 1 \in DOMAIN own
    BY <1>4, <1>5, LenProperties
  <2>2. QED
    BY <1>4, <2>1
<1> DEFINE given == rankData(board, ordered, own, standard)
<1>7. /\ DOMAIN given = 1 .. 1
      /\ \A i \in DOMAIN given :
           /\ given[i].player = own[i]
           /\ given[i].order = ranks(board, ordered, standard)[own[i]]
  BY <1>4, <1>5, RankDataFacts
<1>8. answer = given
  BY <1>1 DEF own
<1>9. 1 .. 1 = {1}
  OBVIOUS
<1>10. QED
  BY <1>6, <1>7, <1>8, <1>9

\* The same of the standard rank.
LEMMA OwnStandardRank ==
  ASSUME NEW board, IsFiniteSet(DOMAIN board), NEW o, OneOrder(board, o), NEW p \in DOMAIN board,
         NEW standard \in BOOLEAN, NEW answer \in RankingsForPIDs(board, {p}, standard)
  PROVE  standard => answer[1].order
           = 1 + Cardinality(Better(board, board[p].score, o))
<1>1. PICK ordered \in rankedEntries(board) : answer[1].order = ranks(board, ordered, standard)[p]
  BY OwnAnswer
<1>2. QED
  BY <1>1, StandardRank

\* The entries of a well-typed store are ordered alike if all uploads are.
LEMMA BoardHasOneOrder ==
  ASSUME NEW o, OrderBys = {o}, NEW s \in PartialFunctions(Categories \X Players, Entry), NEW c
  PROVE  OneOrder(BoardOf(s, c), o)
<1>1. PICK D \in SUBSET (Categories \X Players) : s \in [D -> Entry]
  BY DEF PartialFunctions
<1>2. ASSUME NEW p \in DOMAIN BoardOf(s, c)
      PROVE  BoardOf(s, c)[p].orderBy = o /\ BoardOf(s, c)[p].score \in Nat
  <2>1. BoardOf(s, c)[p] = s[<<c, p>>] /\ <<c, p>> \in DOMAIN s
    BY DEF BoardOf
  <2>2. s[<<c, p>>] \in Entry
    BY <1>1, <2>1
  <2>3. QED
    BY <2>1, <2>2, RankingAssumption DEF Entry, RankingAssumption
<1>3. QED
  BY <1>2 DEF OneOrder

\* The board after differs from the one before in p's entry, which is e.
Replaces(before, after, p, e) ==
  /\ DOMAIN after = DOMAIN before \cup {p}
  /\ after[p] = e
  /\ \A q \in DOMAIN before : q # p => after[q] = before[q]

\* What a stored upload changes: the player's entry, and no other, on one board.
LEMMA UploadOnBoard ==
  ASSUME NEW s, NEW c, NEW p \in Players, NEW e
  PROVE  Replaces(BoardOf(s, c), BoardOf(With(s, <<c, p>>, e), c), p, e)
<1> DEFINE t == With(s, <<c, p>>, e)
<1>1. \A q : <<c, q>> \in DOMAIN t <=> <<c, q>> \in DOMAIN s \/ q = p
  BY DEF With
<1>2. \A q : <<c, q>> \in DOMAIN t => t[<<c, q>>] = IF q = p THEN e ELSE s[<<c, q>>]
  BY DEF With
<1> HIDE DEF t
<1>3. Replaces(BoardOf(s, c), BoardOf(t, c), p, e)
  BY <1>1, <1>2 DEF BoardOf, Replaces
<1>4. QED
  BY <1>3 DEF t

\* An upload that is stored takes the rank that was projected for it.
LEMMA StoredAsProjected ==
  ASSUME NEW o, OrderBys = {o}, BoardsInv, BoardsInv', NEW upload \in Upload,
         InsertRanking(upload, "normal"), ~ScoreStands(upload, "normal"),
         NEW standard \in BOOLEAN, standard,
         NEW answer \in RankingsForPIDs(Board(upload.category)', {upload.player}, standard)
  PROVE  answer[1].order = ApproximateOrder(Board(upload.category), upload.score)
<1> DEFINE c == upload.category
           p == upload.player
           before == BoardOf(scores, c)
           after == BoardOf(scores', c)
<1>1. Board(upload.category) = before /\ Board(upload.category)' = after
  BY DEF Board, BoardOf
<1>2. PICK e : e.score = upload.score /\ scores' = With(scores, Key(upload), e)
  <2>1. [score |-> upload.score, orderBy |-> upload.orderBy, updateTime |-> clock].score
          = upload.score
    OBVIOUS
  <2>2. QED
    BY <2>1 DEF InsertRanking
<1>3. /\ DOMAIN after = DOMAIN before \cup {p}
      /\ after[p] = e
      /\ \A q \in DOMAIN before : q # p => after[q] = before[q]
  <2>1. p \in Players
    BY DEF Upload
  <2>2. Replaces(BoardOf(scores, c), BoardOf(With(scores, <<c, p>>, e), c), p, e)
    BY <2>1, UploadOnBoard
  <2>3. scores' = With(scores, <<c, p>>, e)
    BY <1>2 DEF Key
  <2>4. QED
    BY <2>2, <2>3 DEF Replaces
<1>4. OneOrder(before, o) /\ OneOrder(after, o)
  BY BoardHasOneOrder DEF BoardsInv, IInv, TypeOK, memory, Contents
<1>5. IsFiniteSet(DOMAIN after)
  BY BoardIsFinite DEF BoardsInv, FiniteBoards
<1>6. upload.score \in Nat /\ upload.orderBy = o
  BY RankingAssumption DEF RankingAssumption, Upload
<1>7. p \in DOMAIN before => ~betterThan(before[p].score, upload.score, o)
  <2> SUFFICES ASSUME p \in DOMAIN before PROVE ~betterThan(before[p].score, upload.score, o)
    OBVIOUS
  <2>1. before[p] = scores[Key(upload)] /\ Key(upload) \in DOMAIN scores
    BY DEF BoardOf, Key
  <2>2. betterThan(upload.score, before[p].score, o)
    BY <1>6, <2>1 DEF ScoreStands
  <2>3. before[p].score \in Nat
    BY <1>4 DEF OneOrder
  <2>4. QED
    BY <1>6, <2>2, <2>3, StrictlyBetter
<1> HIDE DEF before, after, c, p
<1>8. Better(after, upload.score, o) = Better(before, upload.score, o)
  <2>1. ~betterThan(after[p].score, upload.score, o)
    BY <1>2, <1>3, <1>6, StrictlyBetter
  <2>2. QED
    BY <1>3, <1>7, <2>1 DEF Better
<1>9. answer[1].order = 1 + Cardinality(Better(after, upload.score, o))
  <2>1. answer \in RankingsForPIDs(after, {p}, standard) /\ p \in DOMAIN after
    BY <1>1, <1>3 DEF p
  <2>2. answer[1].order
          = 1 + Cardinality(Better(after, after[p].score, o))
    BY <1>4, <1>5, <2>1, OwnStandardRank
  <2>3. QED
    BY <1>2, <1>3, <2>2
<1>10. ApproximateOrder(before, upload.score) = 1 + Cardinality(Better(before, upload.score, o))
  <2>1. CASE DOMAIN before = {}
    BY <2>1 DEF ApproximateOrder, Better
  <2>2. CASE DOMAIN before # {}
    <3>1. before[CHOOSE first \in DOMAIN before : TRUE].orderBy = o
      BY <1>4, <2>2 DEF OneOrder
    <3>2. QED
      BY <2>2, <3>1 DEF ApproximateOrder, Better
  <2>3. QED
    BY <2>1, <2>2
<1>11. QED
  BY <1>1, <1>8, <1>9, <1>10

\* GetApproxOrder shows the rank that the upload then gets, for boards of any
\* size that have one ordering.
THEOREM ProjectedRank ==
  ASSUME NEW CONSTANT o, OrderBys = {o}
  PROVE  Spec => ProjectionIsTheRank
<1> DEFINE Step == \A upload \in Upload :
             InsertRanking(upload, "normal") /\ ~ScoreStands(upload, "normal")
             => \A answer \in RankingsForPIDs(Board(upload.category)', {upload.player}, TRUE) :
                  answer[1].order = ApproximateOrder(Board(upload.category), upload.score)
<1>1. BoardsInv /\ BoardsInv' => [Step]_scores
  <2> SUFFICES ASSUME BoardsInv, BoardsInv' PROVE Step
    OBVIOUS
  <2>1. PICK standard \in BOOLEAN : standard = TRUE
    OBVIOUS
  <2>2. standard => \A upload \in Upload :
          InsertRanking(upload, "normal") /\ ~ScoreStands(upload, "normal")
          => \A answer \in RankingsForPIDs(Board(upload.category)', {upload.player}, standard) :
               answer[1].order = ApproximateOrder(Board(upload.category), upload.score)
    BY StoredAsProjected
  <2>3. QED
    BY <2>1, <2>2
<1>2. QED
  BY <1>1, BoardsAreFinite, PTL DEF ProjectionIsTheRank

-----------------------------------------------------------------------------
(***************************************************************************)
(* Every board can be ranked: the theorems above speak of the orders that  *)
(* sort.Slice may return, and here there is always one, as the comparison  *)
(* is a total preorder even of boards with more than one ordering.         *)
(***************************************************************************)

\* The comparison of rankedEntries, for players of a board.
NotAfter(board, o, p, q) ==
  IF board[p].score # board[q].score
  THEN betterThan(board[p].score, board[q].score, o)
  ELSE board[p].updateTime <= board[q].updateTime

\* Scores and times are natural numbers.
Comparable(board) == \A p \in DOMAIN board : board[p].score \in Nat /\ board[p].updateTime \in Nat

\* The comparison is total and transitive.
LEMMA TotalPreorder ==
  ASSUME NEW board, Comparable(board), NEW o,
         NEW p \in DOMAIN board, NEW q \in DOMAIN board, NEW r \in DOMAIN board
  PROVE  /\ NotAfter(board, o, p, q) \/ NotAfter(board, o, q, p)
         /\ NotAfter(board, o, p, q) /\ NotAfter(board, o, q, r) => NotAfter(board, o, p, r)
<1>1. /\ board[p].score \in Nat /\ board[q].score \in Nat /\ board[r].score \in Nat
      /\ board[p].updateTime \in Nat /\ board[q].updateTime \in Nat /\ board[r].updateTime \in Nat
  BY DEF Comparable
<1>2. QED
  BY <1>1 DEF NotAfter, betterThan

\* Some entry comes first among any that are given.
IsFirst(board, o, D, p) == p \in D /\ \A q \in D : NotAfter(board, o, p, q)

\* Every finite nonempty part of a board has a first entry.
LEMMA SomeFirst ==
  ASSUME NEW board, Comparable(board), NEW o
  PROVE  \A n \in Nat : \A D \in SUBSET DOMAIN board :
           IsFiniteSet(D) /\ Cardinality(D) = n + 1 => \E p : IsFirst(board, o, D, p)
<1> DEFINE T == {n \in Nat : \A D \in SUBSET DOMAIN board :
                   IsFiniteSet(D) /\ Cardinality(D) = n + 1 => \E p : IsFirst(board, o, D, p)}
<1>1. 0 \in T
  <2> SUFFICES ASSUME NEW D \in SUBSET DOMAIN board, IsFiniteSet(D), Cardinality(D) = 0 + 1
               PROVE  \E p : IsFirst(board, o, D, p)
    OBVIOUS
  <2>1. Cardinality(D) = 1
    OBVIOUS
  <2>2. PICK p : D = {p}
    BY <2>1, FS_Singleton
  <2>3. NotAfter(board, o, p, p)
    BY <2>2, TotalPreorder
  <2>4. QED
    BY <2>2, <2>3 DEF IsFirst
<1>2. ASSUME NEW n \in Nat, n \in T PROVE n + 1 \in T
  <2> SUFFICES ASSUME NEW D \in SUBSET DOMAIN board, IsFiniteSet(D), Cardinality(D) = (n + 1) + 1
               PROVE  \E p : IsFirst(board, o, D, p)
    OBVIOUS
  <2>1. PICK x \in D : TRUE
    BY FS_EmptySet
  <2> DEFINE E == D \ {x}
  <2>2. IsFiniteSet(E) /\ Cardinality(E) = n + 1 /\ E \in SUBSET DOMAIN board
    BY FS_RemoveElement
  <2>3. PICK y : IsFirst(board, o, E, y)
    BY <1>2, <2>2
  <2>4. y \in DOMAIN board /\ x \in DOMAIN board /\ y \in D
    BY <2>3 DEF IsFirst
  <2>5. CASE NotAfter(board, o, y, x)
    <3>1. IsFirst(board, o, D, y)
      BY <2>3, <2>4, <2>5 DEF IsFirst
    <3>2. QED
      BY <3>1
  <2>6. CASE NotAfter(board, o, x, y)
    <3>1. ASSUME NEW q \in D PROVE NotAfter(board, o, x, q)
      <4>1. CASE q = x
        BY <2>4, <4>1, TotalPreorder
      <4>2. CASE q # x
        <5>1. NotAfter(board, o, y, q)
          BY <2>3, <4>2 DEF IsFirst
        <5>2. QED
          BY <2>4, <2>6, <5>1, TotalPreorder
      <4>3. QED
        BY <4>1, <4>2
    <3>2. IsFirst(board, o, D, x)
      BY <2>1, <3>1 DEF IsFirst
    <3>3. QED
      BY <3>2
  <2>7. QED
    BY <2>4, <2>5, <2>6, TotalPreorder
<1> HIDE DEF T
<1>3. \A n \in Nat : n \in T
  BY <1>1, <1>2, SetInduction
<1>4. QED
  BY <1>3 DEF T

\* s lists the n members of D in order.
Sorted(board, o, D, n, s) ==
  /\ s \in [1 .. n -> D]
  /\ IsInjective(s)
  /\ \A i, j \in 1 .. n : i < j => NotAfter(board, o, s[i], s[j])

\* The first entry and the others in order are all in order.
LEMMA FirstThenRest ==
  ASSUME NEW board, NEW o, NEW D, NEW n \in Nat, NEW x, IsFirst(board, o, D, x),
         NEW s, Sorted(board, o, D \ {x}, n, s)
  PROVE  \E t : Sorted(board, o, D, n + 1, t)
<1> DEFINE t == [i \in 1 .. (n + 1) |-> IF i = 1 THEN x ELSE s[i - 1]]
<1>1. /\ s \in [1 .. n -> D \ {x}] /\ IsInjective(s)
      /\ \A i, j \in 1 .. n : i < j => NotAfter(board, o, s[i], s[j])
      /\ x \in D /\ \A q \in D : NotAfter(board, o, x, q)
  BY DEF Sorted, IsFirst
<1>2. t[1] = x
  OBVIOUS
<1>3. ASSUME NEW i \in 1 .. (n + 1), i # 1
      PROVE  i - 1 \in 1 .. n /\ t[i] = s[i - 1] /\ t[i] \in D /\ t[i] # x
  <2>1. i - 1 \in 1 .. n /\ t[i] = s[i - 1]
    BY <1>3
  <2>2. QED
    BY <1>1, <2>1
<1>4. t \in [1 .. (n + 1) -> D]
  BY <1>1, <1>2, <1>3
<1>5. DOMAIN t = 1 .. (n + 1)
  OBVIOUS
<1> HIDE DEF t
<1>6. IsInjective(t)
  <2> SUFFICES ASSUME NEW i \in 1 .. (n + 1), NEW j \in 1 .. (n + 1), t[i] = t[j]
               PROVE  i = j
    BY <1>5 DEF IsInjective
  <2>1. CASE i = 1 \/ j = 1
    BY <1>2, <1>3, <2>1
  <2>2. CASE i # 1 /\ j # 1
    <3>1. i - 1 \in 1 .. n /\ j - 1 \in 1 .. n /\ s[i - 1] = s[j - 1]
      BY <1>3, <2>2
    <3>2. i - 1 = j - 1
      BY <1>1, <3>1 DEF IsInjective
    <3>3. QED
      BY <3>2
  <2>3. QED
    BY <2>1, <2>2
<1>7. ASSUME NEW i \in 1 .. (n + 1), NEW j \in 1 .. (n + 1), i < j
      PROVE  NotAfter(board, o, t[i], t[j])
  <2>1. j # 1 /\ j - 1 \in 1 .. n /\ t[j] = s[j - 1] /\ t[j] \in D
    BY <1>3, <1>7
  <2>2. CASE i = 1
    BY <1>1, <1>2, <2>1, <2>2
  <2>3. CASE i # 1
    <3>1. i - 1 \in 1 .. n /\ t[i] = s[i - 1] /\ i - 1 < j - 1
      BY <1>3, <1>7, <2>3
    <3>2. QED
      BY <1>1, <2>1, <3>1
  <2>4. QED
    BY <2>2, <2>3
<1>8. Sorted(board, o, D, n + 1, t)
  BY <1>4, <1>6, <1>7 DEF Sorted
<1>9. QED
  BY <1>8

\* Every finite part of a board can be listed in order.
LEMMA SomeOrder ==
  ASSUME NEW board, Comparable(board), NEW o
  PROVE  \A n \in Nat : \A D \in SUBSET DOMAIN board :
           IsFiniteSet(D) /\ Cardinality(D) = n => \E s : Sorted(board, o, D, n, s)
<1> DEFINE T == {n \in Nat : \A D \in SUBSET DOMAIN board :
                   IsFiniteSet(D) /\ Cardinality(D) = n => \E s : Sorted(board, o, D, n, s)}
<1>1. 0 \in T
  <2> SUFFICES ASSUME NEW D \in SUBSET DOMAIN board, IsFiniteSet(D), Cardinality(D) = 0
               PROVE  \E s : Sorted(board, o, D, 0, s)
    OBVIOUS
  <2>1. Sorted(board, o, D, 0, [i \in 1 .. 0 |-> i])
    BY DEF Sorted, IsInjective
  <2>2. QED
    BY <2>1
<1>2. ASSUME NEW n \in Nat, n \in T PROVE n + 1 \in T
  <2> SUFFICES ASSUME NEW D \in SUBSET DOMAIN board, IsFiniteSet(D), Cardinality(D) = n + 1
               PROVE  \E s : Sorted(board, o, D, n + 1, s)
    OBVIOUS
  <2>1. PICK x : IsFirst(board, o, D, x)
    BY SomeFirst
  <2>2. IsFiniteSet(D \ {x}) /\ Cardinality(D \ {x}) = n /\ D \ {x} \in SUBSET DOMAIN board
    BY <2>1, FS_RemoveElement DEF IsFirst
  <2>3. PICK s : Sorted(board, o, D \ {x}, n, s)
    BY <1>2, <2>2
  <2>4. QED
    BY <2>1, <2>3, FirstThenRest
<1> HIDE DEF T
<1>3. \A n \in Nat : n \in T
  BY <1>1, <1>2, SetInduction
<1>4. QED
  BY <1>3 DEF T

\* There is an order of every board, whatever OrderBy its entries came with.
THEOREM BoardsCanBeRanked == Spec => [](\A c \in Categories : rankedEntries(Board(c)) # {})
<1>1. ASSUME BoardsInv, NEW c PROVE rankedEntries(Board(c)) # {}
  <2> DEFINE board == Board(c)
             n == Cardinality(DOMAIN board)
  <2>1. IsFiniteSet(DOMAIN board)
    BY <1>1, BoardIsFinite DEF BoardsInv, FiniteBoards, Board, BoardOf
  <2>2. Comparable(board)
    <3>1. PICK D \in SUBSET (Categories \X Players) : scores \in [D -> Entry]
      BY <1>1 DEF BoardsInv, IInv, TypeOK, memory, Contents, PartialFunctions
    <3>2. ASSUME NEW p \in DOMAIN board
          PROVE  board[p].score \in Nat /\ board[p].updateTime \in Nat
      <4>1. board[p] = scores[<<c, p>>] /\ <<c, p>> \in DOMAIN scores
        BY DEF Board
      <4>2. board[p] \in Entry
        BY <3>1, <4>1
      <4> HIDE DEF board
      <4>3. board[p].score \in Scores /\ board[p].updateTime \in 0 .. MaxTime
        BY <4>2 DEF Entry
      <4>4. Scores \subseteq Nat /\ MaxTime \in Nat
        BY RankingAssumption DEF RankingAssumption
      <4>5. 0 .. MaxTime \subseteq Nat
        BY <4>4
      <4>6. QED
        BY <4>3, <4>4, <4>5
    <3>3. QED
      BY <3>2 DEF Comparable
  <2>3. n \in Nat
    BY <2>1, FS_CardinalityType
  <2> HIDE DEF board
  <2>4. CASE DOMAIN board = {}
    <3>1. n = 0
      BY <2>4, FS_EmptySet
    <3>2. [i \in 1 .. 0 |-> i] \in rankedEntries(board)
      BY <2>4, <3>1 DEF rankedEntries
    <3>3. QED
      BY <3>2 DEF board
  <2>5. CASE DOMAIN board # {}
    <3>1. PICK first \in DOMAIN board : TRUE
      BY <2>5
    <3>2. PICK s : Sorted(board, board[first].orderBy, DOMAIN board, n, s)
      BY <2>1, <2>2, <2>3, SomeOrder
    <3>3. s \in rankedEntries(board)
      BY <3>2 DEF Sorted, NotAfter, IsInjective, rankedEntries
    <3>4. QED
      BY <3>3 DEF board
  <2>6. QED
    BY <2>4, <2>5
<1>2. BoardsInv => \A c \in Categories : rankedEntries(Board(c)) # {}
  BY <1>1
<1>3. QED
  BY <1>2, BoardsAreFinite, PTL
=============================================================================
