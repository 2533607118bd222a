---------------------------- MODULE RankingProofs ----------------------------
(***************************************************************************)
(* Theorems about RankingStore, for any players, scores and common data,   *)
(* and for saves that fail at any system call.                             *)
(***************************************************************************)
EXTENDS RankingStore, TLAPS

(***************************************************************************)
(* The inductive invariant: types, and that the file about to be renamed   *)
(* to ranking.json holds what is in memory.  The latter is why a whole     *)
(* save commits the live contents, although the rename itself only sees    *)
(* the temporary file.                                                     *)
(***************************************************************************)
TemporaryIsCurrent == phase = "rename" => temporary = memory

IInv == TypeOK /\ TemporaryIsCurrent

-----------------------------------------------------------------------------
(***************************************************************************)
(* Lemmas about the contents of the store.                                 *)
(***************************************************************************)

\* Writing a key of a partial function, as a Go map assignment does.
LEMMA WithIsPartial ==
  ASSUME NEW S, NEW T, NEW f \in PartialFunctions(S, T), NEW k \in S, NEW v \in T
  PROVE  With(f, k, v) \in PartialFunctions(S, T)
<1>1. PICK D \in SUBSET S : f \in [D -> T]
  BY DEF PartialFunctions
<1>2. With(f, k, v) \in [D \cup {k} -> T]
  BY <1>1 DEF With
<1>3. D \cup {k} \in SUBSET S
  BY <1>1
<1>4. QED
  BY <1>2, <1>3 DEF PartialFunctions

\* Deleting keys of a partial function.
LEMMA WithoutIsPartial ==
  ASSUME NEW S, NEW T, NEW f \in PartialFunctions(S, T), NEW K
  PROVE  Without(f, K) \in PartialFunctions(S, T)
<1>1. PICK D \in SUBSET S : f \in [D -> T]
  BY DEF PartialFunctions
<1>2. Without(f, K) \in [D \ K -> T]
  BY <1>1 DEF Without
<1>3. D \ K \in SUBSET S
  BY <1>1
<1>4. QED
  BY <1>2, <1>3 DEF PartialFunctions

\* A new store is empty.
LEMMA EmptyIsContents == Empty \in Contents
<1>1. ASSUME NEW S, NEW T PROVE [k \in {} |-> 0] \in PartialFunctions(S, T)
  <2>1. [k \in {} |-> 0] \in [{} -> T]
    OBVIOUS
  <2>2. {} \in SUBSET S
    OBVIOUS
  <2>3. QED
    BY <2>1, <2>2 DEF PartialFunctions
<1>2. QED
  BY <1>1 DEF Empty, Contents

\* What a restart loads is a contents of the store.
LEMMA StableIsContents == TypeOK => Stable \in Contents
BY EmptyIsContents DEF TypeOK, Stable

-----------------------------------------------------------------------------
(***************************************************************************)
(* The requests, up to their call of save, change nothing but memory and   *)
(* leave it well typed.                                                    *)
(***************************************************************************)

Requested ==
  \/ \E upload \in Upload, mode \in UpdateModes : InsertRanking(upload, mode)
  \/ \E p \in Players :
       \/ \E c \in Categories : DeleteScore(p, c)
       \/ DeleteAllScores(p)
  \/ \E u \in UniqueIDs :
       \/ \E blob \in Blobs : UploadCommonData(u, blob)
       \/ DeleteCommonData(u)

\* A request that has changed memory leaves the files alone.
LEMMA RequestedFacts ==
  ASSUME TypeOK, Requested
  PROVE  /\ memory' \in Contents
         /\ phase = "idle" /\ phase' \in {"idle", "create"}
         /\ request' \in Upload \cup {Nothing}
         /\ acknowledged' \subseteq Upload
         /\ UNCHANGED <<file, temporary, clock>>
<1>1. /\ scores \in PartialFunctions(Categories \X Players, Entry)
      /\ commonData \in PartialFunctions(UniqueIDs, Blobs)
  BY DEF TypeOK, memory, Contents
<1>2. ASSUME NEW upload \in Upload, NEW mode \in UpdateModes, InsertRanking(upload, mode)
      PROVE  scores' \in PartialFunctions(Categories \X Players, Entry)
  <2>1. Key(upload) \in Categories \X Players
    BY DEF Key, Upload
  <2>2. [score |-> upload.score, orderBy |-> upload.orderBy, updateTime |-> clock] \in Entry
    BY DEF Upload, Entry, TypeOK
  <2>3. QED
    BY <1>1, <1>2, <2>1, <2>2, WithIsPartial DEF InsertRanking
<1>3. ASSUME NEW p \in Players, NEW C, DeleteScores(p, C)
      PROVE  scores' \in PartialFunctions(Categories \X Players, Entry)
  BY <1>1, <1>3, WithoutIsPartial DEF DeleteScores
<1>4. ASSUME NEW u \in UniqueIDs, NEW blob \in Blobs, UploadCommonData(u, blob)
      PROVE  commonData' \in PartialFunctions(UniqueIDs, Blobs)
  BY <1>1, <1>4, WithIsPartial DEF UploadCommonData
<1>5. ASSUME NEW u \in UniqueIDs, DeleteCommonData(u)
      PROVE  commonData' \in PartialFunctions(UniqueIDs, Blobs)
  BY <1>1, <1>5, WithoutIsPartial DEF DeleteCommonData
<1>6. memory' \in Contents
  <2>1. scores' \in PartialFunctions(Categories \X Players, Entry)
    BY <1>1, <1>2, <1>3 DEF Requested, DeleteScore, DeleteAllScores,
       UploadCommonData, DeleteCommonData
  <2>2. commonData' \in PartialFunctions(UniqueIDs, Blobs)
    BY <1>1, <1>4, <1>5 DEF Requested, DeleteScore, DeleteAllScores, DeleteScores, InsertRanking
  <2>3. QED
    BY <2>1, <2>2 DEF memory, Contents
<1>7. QED
  BY <1>6 DEF Requested, InsertRanking, DeleteScore, DeleteAllScores, DeleteScores,
     UploadCommonData, DeleteCommonData, BeginSave, TypeOK

\* The invariant holds of a new store.
LEMMA InitHasIInv == Init => IInv
<1> SUFFICES ASSUME Init PROVE IInv
  OBVIOUS
<1>1. memory = Empty
  BY DEF Init, memory, Empty
<1>2. clock \in 0 .. MaxTime
  BY RankingAssumption DEF Init, RankingAssumption
<1>3. QED
  BY <1>1, <1>2, EmptyIsContents DEF Init, IInv, TypeOK, TemporaryIsCurrent

\* The invariant is inductive.
LEMMA NextKeepsIInv == IInv /\ [Next]_vars => IInv'
<1> SUFFICES ASSUME IInv, [Next]_vars PROVE IInv'
  OBVIOUS
<1> USE DEF IInv, TypeOK, TemporaryIsCurrent, memory
<1>1. CASE Requested
  BY <1>1, RequestedFacts
<1>2. CASE CreateTemporary
  BY <1>2 DEF CreateTemporary
<1>3. CASE WriteTemporary
  BY <1>3 DEF WriteTemporary
<1>4. CASE Rename
  BY <1>4 DEF Rename
<1>5. CASE FailSave
  BY <1>5 DEF FailSave
<1>6. CASE Crash
  BY <1>6, EmptyIsContents DEF Crash, Empty
<1>7. CASE Restart
  <2>1. Stable \in Contents
    BY StableIsContents
  <2>2. memory' = Stable
    BY <1>7, <2>1 DEF Restart, Contents
  <2>3. QED
    BY <1>7, <2>1, <2>2 DEF Restart
<1>8. CASE Tick
  BY <1>8, RankingAssumption DEF Tick, RankingAssumption
<1>9. CASE UNCHANGED vars
  BY <1>9 DEF vars
<1>10. QED
  BY <1>1, <1>2, <1>3, <1>4, <1>5, <1>6, <1>7, <1>8, <1>9 DEF Next, Requested

\* The inductive invariant holds in every reachable state.
THEOREM Invariance == Spec => []IInv
BY InitHasIInv, NextKeepsIInv, PTL DEF Spec

\* Type correctness: in particular ranking.json is never partly written,
\* wherever save was cut off.
THEOREM TypeCorrectness == Spec => []TypeOK
<1>1. IInv => TypeOK
  BY DEF IInv
<1>2. QED
  BY <1>1, Invariance, PTL

-----------------------------------------------------------------------------
(***************************************************************************)
(* RankingStore implements DurableStore.                                   *)
(***************************************************************************)

\* A new store is a new DurableStore.
LEMMA InitImplements == Init => Durable!Init
<1> SUFFICES ASSUME Init PROVE Durable!Init
  OBVIOUS
<1>1. memory = Empty /\ Stable = Empty /\ phase # "down"
  BY DEF Init, memory, Empty, Stable
<1>2. QED
  BY <1>1, EmptyIsContents DEF Durable!Init

\* Every step is a step of DurableStore or leaves its variables as they are: a
\* request updates the live contents, the rename commits them, the steps of
\* save before it do nothing that a restart would see.
LEMMA StepImplements ==
  ASSUME IInv, [Next]_vars
  PROVE  [Durable!Next]_(Durable!vars)
<1> USE DEF Durable!vars, Durable!Next
<1>0. Stable \in Contents
  BY StableIsContents DEF IInv
<1>1. CASE Requested
  <2>1. Durable!Update
    BY <1>1, RequestedFacts DEF IInv, Durable!Update, Stable
  <2>2. QED
    BY <2>1
<1>2. CASE CreateTemporary \/ WriteTemporary \/ FailSave \/ Tick
  <2>1. UNCHANGED <<memory, Stable, phase # "down">>
    BY <1>2 DEF CreateTemporary, WriteTemporary, FailSave, Tick, memory, Stable
  <2>2. QED
    BY <2>1
<1>3. CASE Rename
  <2>1. file' = memory /\ memory \in Contents
    BY <1>3 DEF Rename, IInv, TypeOK, TemporaryIsCurrent
  <2>2. Stable' = memory
    BY <2>1, AbsenceAssumption DEF Stable, AbsenceAssumption
  <2>3. Durable!Commit
    BY <1>3, <2>2 DEF Rename, Durable!Commit, memory
  <2>4. QED
    BY <2>3
<1>4. CASE Crash
  <2>1. Durable!Crash
    BY <1>4 DEF Crash, Durable!Crash, Stable
  <2>2. QED
    BY <2>1
<1>5. CASE Restart
  <2>1. memory' = Stable /\ Stable' = Stable
    BY <1>0, <1>5 DEF Restart, Contents, memory, Stable
  <2>2. Durable!Restart
    BY <1>5, <2>1 DEF Restart, Durable!Restart
  <2>3. QED
    BY <2>2
<1>6. CASE UNCHANGED vars
  BY <1>6 DEF vars, memory, Stable
<1>7. QED
  BY <1>1, <1>2, <1>3, <1>4, <1>5, <1>6 DEF Next, Requested

\* What a restart brings back is at any time a whole earlier contents, however
\* save is cut off or fails.
THEOREM Implementation == Spec => ImplementsDurableStore
<1>1. Init => Durable!Init
  BY InitImplements
<1>2. IInv /\ [Next]_vars => [Durable!Next]_(Durable!vars)
  BY StepImplements
<1>3. QED
  BY <1>1, <1>2, Invariance, PTL DEF Spec, ImplementsDurableStore, Durable!Spec

-----------------------------------------------------------------------------
(***************************************************************************)
(* Acknowledged scores.  While no save fails, and the uploads are ordered  *)
(* alike, what was acknowledged is kept in memory as well as on disk; the  *)
(* two are equal between requests, which is what the answer "the existing  *)
(* score stands" relies on, as it saves nothing.                           *)
(***************************************************************************)

\* The contents c hold every acknowledged upload, or a better score.
Kept(c, uploads) ==
  \A u \in uploads :
    /\ Key(u) \in DOMAIN c[1]
    /\ ~betterThan(u.score, c[1][Key(u)].score, u.orderBy)

\* The inductive invariant of this section.
KeptInv ==
  /\ IInv
  /\ Kept(Stable, acknowledged)
  /\ phase # "down" => Kept(memory, acknowledged)
  /\ phase = "idle" => Stable = memory
  /\ phase = "down" => request = Nothing
  /\ request # Nothing =>
       /\ Key(request) \in DOMAIN scores
       /\ scores[Key(request)].score = request.score

\* A score that beats the stored one beats what the stored one is as good as.
LEMMA BetterThanOrder ==
  ASSUME NEW a \in Nat, NEW b \in Nat, NEW c \in Nat, NEW orderBy,
         ~betterThan(a, b, orderBy), betterThan(c, b, orderBy)
  PROVE  ~betterThan(a, c, orderBy)
BY DEF betterThan

\* Two scores are not both better than each other; equal ones neither.
LEMMA NotBetterThanItself ==
  ASSUME NEW a \in Nat, NEW orderBy
  PROVE  ~betterThan(a, a, orderBy)
BY DEF betterThan

\* The score of a stored entry is a natural number.
LEMMA StoredScores ==
  ASSUME TypeOK, NEW k \in DOMAIN scores
  PROVE  scores[k].score \in Nat
<1>1. PICK D \in SUBSET (Categories \X Players) : scores \in [D -> Entry]
  BY DEF TypeOK, memory, Contents, PartialFunctions
<1>2. scores[k] \in Entry
  BY <1>1
<1>3. QED
  BY <1>2, RankingAssumption DEF Entry, RankingAssumption

\* A new score beats the old one, or replaces it at the player's wish.
LEMMA UploadKeepsKept ==
  ASSUME KeptInv, NEW o, OrderBys = {o}, NEW upload \in Upload, NEW mode \in UpdateModes,
         InsertRanking(upload, mode)
  PROVE  KeptInv'
<1> DEFINE entry == [score |-> upload.score, orderBy |-> upload.orderBy, updateTime |-> clock]
<1>1. IInv'
  <2>1. Next
    BY DEF Next
  <2>2. QED
    BY <2>1, NextKeepsIInv DEF KeptInv
<1>2. phase = "idle" /\ Stable' = Stable /\ Stable = memory
  BY DEF InsertRanking, BeginSave, KeptInv, Stable
<1>3. CASE ScoreStands(upload, mode)
  <2>1. /\ UNCHANGED <<scores, commonData, phase, request>>
        /\ acknowledged' = acknowledged \cup {upload}
    BY <1>3 DEF InsertRanking
  <2>2. Kept(memory, {upload})
    BY <1>3 DEF ScoreStands, Kept, memory
  <2>3. Kept(memory, acknowledged \cup {upload})
    BY <1>2, <2>2 DEF KeptInv, Kept
  <2>4. QED
    BY <1>1, <1>2, <2>1, <2>3 DEF KeptInv, memory
<1>4. CASE ~ScoreStands(upload, mode)
  <2>1. /\ scores' = With(scores, Key(upload), entry)
        /\ phase' = "create" /\ request' = upload
        /\ acknowledged' = IF mode = "normal" THEN acknowledged
                           ELSE {u \in acknowledged : Key(u) # Key(upload)}
    BY <1>4 DEF InsertRanking, BeginSave
  <2>2. scores'[Key(upload)] = entry /\ Key(upload) \in DOMAIN scores'
    BY <2>1 DEF With
  <2>3. acknowledged' \subseteq acknowledged
    BY <2>1
  <2>4. Kept(Stable, acknowledged')
    BY <2>3 DEF KeptInv, Kept
  <2>5. ASSUME NEW u \in acknowledged'
        PROVE  /\ Key(u) \in DOMAIN scores'
               /\ ~betterThan(u.score, scores'[Key(u)].score, u.orderBy)
    <3>1. /\ u \in acknowledged /\ Key(u) \in DOMAIN scores
          /\ ~betterThan(u.score, scores[Key(u)].score, u.orderBy)
      BY <1>2, <2>3, <2>5 DEF KeptInv, Kept, memory
    <3>2. CASE Key(u) # Key(upload)
      BY <2>1, <3>1, <3>2 DEF With
    <3>3. CASE Key(u) = Key(upload)
      <4>1. mode = "normal"
        BY <2>1, <2>5, <3>3
      <4>2. u.orderBy = upload.orderBy
        BY <3>1 DEF KeptInv, IInv, TypeOK, Upload
      <4>3. betterThan(upload.score, scores[Key(u)].score, u.orderBy)
        BY <1>4, <3>1, <3>3, <4>1, <4>2 DEF ScoreStands
      <4>4. u.score \in Nat /\ upload.score \in Nat /\ scores[Key(u)].score \in Nat
        BY <3>1, StoredScores, RankingAssumption
           DEF RankingAssumption, KeptInv, IInv, TypeOK, Upload
      <4>5. ~betterThan(u.score, upload.score, u.orderBy)
        BY <3>1, <4>3, <4>4, BetterThanOrder
      <4>6. QED
        BY <2>2, <3>3, <4>5
    <3>4. QED
      BY <3>2, <3>3
  <2>6. Kept(memory, acknowledged)'
    BY <2>5 DEF Kept, memory
  <2>7. QED
    BY <1>1, <1>2, <2>1, <2>2, <2>4, <2>6 DEF KeptInv
<1>5. QED
  BY <1>3, <1>4

\* A player's own deletion withdraws its acknowledged scores as well.
LEMMA DeletionKeepsKept ==
  ASSUME KeptInv, IInv', NEW p \in Players, NEW C, DeleteScores(p, C)
  PROVE  KeptInv'
<1>1. /\ scores' = Without(scores, C \X {p})
      /\ acknowledged' = {u \in acknowledged : ~(u.player = p /\ u.category \in C)}
      /\ phase = "idle" /\ phase' = "create" /\ request' = Nothing /\ Stable' = Stable
  BY DEF DeleteScores, BeginSave, Stable
<1>2. Kept(Stable, acknowledged') /\ Kept(memory, acknowledged)
  BY <1>1 DEF KeptInv, Kept
<1>3. ASSUME NEW u \in acknowledged'
      PROVE  Key(u) \in DOMAIN scores' /\ scores'[Key(u)] = scores[Key(u)]
  BY <1>1, <1>2 DEF Kept, Key, Without, memory
<1>4. Kept(memory, acknowledged)'
  BY <1>1, <1>2, <1>3 DEF Kept, memory
<1>5. QED
  BY <1>1, <1>2, <1>4 DEF KeptInv

\* The invariant is inductive when no save fails.
LEMMA NextKeepsKept ==
  ASSUME SaveMayFail = FALSE, NEW o, OrderBys = {o}, KeptInv, [Next]_vars
  PROVE  KeptInv'
<1>1. IInv'
  BY NextKeepsIInv DEF KeptInv
<1>2. CASE \E upload \in Upload, mode \in UpdateModes : InsertRanking(upload, mode)
  BY <1>2, UploadKeepsKept
<1>3. CASE \E p \in Players : (\E c \in Categories : DeleteScore(p, c)) \/ DeleteAllScores(p)
  BY <1>1, <1>3, DeletionKeepsKept DEF DeleteScore, DeleteAllScores
<1>4. CASE \E u \in UniqueIDs :
             (\E blob \in Blobs : UploadCommonData(u, blob)) \/ DeleteCommonData(u)
  <2>1. /\ scores' = scores /\ acknowledged' = acknowledged /\ Stable' = Stable
        /\ phase = "idle" /\ phase' = "create" /\ request' = Nothing
    BY <1>4 DEF UploadCommonData, DeleteCommonData, BeginSave, Stable
  <2>2. Kept(memory, acknowledged)'
    BY <2>1 DEF KeptInv, Kept, memory
  <2>3. QED
    BY <1>1, <2>1, <2>2 DEF KeptInv, Kept
<1>5. CASE CreateTemporary \/ WriteTemporary \/ Tick
  BY <1>1, <1>5 DEF CreateTemporary, WriteTemporary, Tick, KeptInv, Stable, memory
<1>6. CASE Rename
  <2>1. /\ phase = "rename" /\ phase' = "idle" /\ request' = Nothing /\ memory' = memory
        /\ file' = memory /\ memory \in Contents
        /\ acknowledged' = acknowledged \cup ({request} \ {Nothing})
    BY <1>6 DEF Rename, KeptInv, IInv, TypeOK, TemporaryIsCurrent, memory
  <2>2. Stable' = memory
    BY <2>1, AbsenceAssumption DEF Stable, AbsenceAssumption
  <2>3. Kept(memory, {request} \ {Nothing})
    <3>1. CASE request = Nothing
      BY <3>1 DEF Kept
    <3>2. CASE request # Nothing
      <4>1. /\ Key(request) \in DOMAIN scores
            /\ scores[Key(request)].score = request.score
        BY <3>2 DEF KeptInv
      <4>2. request.score \in Nat
        BY <4>1, StoredScores DEF KeptInv, IInv
      <4>3. QED
        BY <4>1, <4>2, NotBetterThanItself DEF Kept, memory
    <3>3. QED
      BY <3>1, <3>2
  <2>4. Kept(memory, acknowledged')
    BY <2>1, <2>3 DEF KeptInv, Kept
  <2>5. QED
    BY <1>1, <2>1, <2>2, <2>4 DEF KeptInv
<1>7. CASE FailSave
  BY <1>7 DEF FailSave
<1>8. CASE Crash
  BY <1>1, <1>8 DEF Crash, KeptInv, Stable
<1>9. CASE Restart
  <2>1. Stable \in Contents
    BY StableIsContents DEF KeptInv, IInv
  <2>2. memory' = Stable /\ Stable' = Stable /\ request' = request /\ acknowledged' = acknowledged
    BY <1>9, <2>1 DEF Restart, Contents, memory, Stable
  <2>3. request = Nothing
    BY <1>9 DEF Restart, KeptInv
  <2>4. QED
    BY <1>1, <2>2, <2>3 DEF KeptInv
<1>10. CASE UNCHANGED vars
  BY <1>1, <1>10 DEF vars, KeptInv, Stable, memory
<1>11. QED
  BY <1>2, <1>3, <1>4, <1>5, <1>6, <1>7, <1>8, <1>9, <1>10 DEF Next

\* A score the player was told is accepted survives every crash, as long as
\* saving works and a board has one ordering.
THEOREM AcknowledgedScoresSurvive ==
  ASSUME SaveMayFail = FALSE, NEW CONSTANT o, OrderBys = {o}
  PROVE  Spec => []AcknowledgedScoresAreKept
<1>1. Init => KeptInv
  <2> SUFFICES ASSUME Init PROVE KeptInv
    OBVIOUS
  <2>1. memory = Empty /\ Stable = Empty /\ acknowledged = {} /\ request = Nothing
    BY DEF Init, memory, Empty, Stable
  <2>2. QED
    BY <2>1, InitHasIInv DEF KeptInv, Kept
<1>2. KeptInv /\ [Next]_vars => KeptInv'
  BY NextKeepsKept
<1>3. KeptInv => AcknowledgedScoresAreKept
  BY DEF KeptInv, Kept, AcknowledgedScoresAreKept
<1>4. QED
  BY <1>1, <1>2, <1>3, PTL DEF Spec
=============================================================================
