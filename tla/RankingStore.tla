---------------------------- MODULE RankingStore ----------------------------
(***************************************************************************)
(* The leaderboards and common data of ranking/store.go, kept in memory    *)
(* and saved to ranking.json after every change (nexserver/                *)
(* handlers_ranking.go and registerRanking wire the requests to it).       *)
(*                                                                         *)
(* A request holds Store.mutex from its first read to the end of save, so  *)
(* no other request runs meanwhile; but the process can be killed between  *)
(* any two steps of save, and each of its system calls can fail.  The      *)
(* files outlive the process; that a whole machine may stop before it has  *)
(* flushed them is not modelled.                                           *)
(*                                                                         *)
(* Of an Entry, UniqueID, Groups and Param only travel with the score and  *)
(* are left out, as is the map per category, which is never empty.         *)
(***************************************************************************)
EXTENDS Integers, FiniteSets, Sequences

CONSTANTS
  Players,      \* the PIDs that upload scores
  Categories,   \* the leaderboards
  Scores,       \* the scores uploaded
  OrderBys,     \* the OrderBy values uploaded
  UpdateModes,  \* the UpdateMode values uploaded
  UniqueIDs,    \* the keys of the common data
  Blobs,        \* the common data uploaded
  Nothing,      \* a file that does not exist, or no request
  Partial,      \* a file that is only partly written
  SaveMayFail,  \* whether the system calls of save can fail
  MaxTime       \* bound of the model: seconds that pass

ASSUME RankingAssumption ==
  /\ Scores \subseteq Nat
  /\ OrderBys \subseteq {"ascending", "descending"}
  /\ UpdateModes \subseteq {"normal", "overwrite"}
  /\ SaveMayFail \in BOOLEAN
  /\ MaxTime \in Nat

VARIABLES
  scores,       \* Store.scores: <<category, PID>> to entry
  commonData,   \* Store.commonData: unique ID to blob
  file,         \* ranking.json
  temporary,    \* ranking.json.tmp
  phase,        \* "down", "idle", or the step of save that is due
  request,      \* the request whose change is being saved
  acknowledged, \* history: the uploads answered with success and not since
                \* overwritten or deleted by the player's own request
  clock         \* the time in seconds, the resolution of a NEX DateTime

memory == <<scores, commonData>>

vars == <<scores, commonData, file, temporary, phase, request, acknowledged, clock>>

Entry == [score: Scores, orderBy: OrderBys, updateTime: 0 .. MaxTime]

Upload == [player: Players, category: Categories, score: Scores, orderBy: OrderBys]

PartialFunctions(S, T) == UNION {[D -> T] : D \in SUBSET S}

Contents == PartialFunctions(Categories \X Players, Entry)
              \X PartialFunctions(UniqueIDs, Blobs)

Empty == << [k \in {} |-> 0], [k \in {} |-> 0] >>

\* The absence of a file or a request is told apart from any of them.
ASSUME AbsenceAssumption ==
  /\ Nothing \notin Contents \cup Upload \cup {Partial}
  /\ Partial \notin Contents

\* What a restart finds.
Stable == IF file = Nothing THEN Empty ELSE file

TypeOK ==
  /\ memory \in Contents
  /\ file \in Contents \cup {Nothing}
  /\ temporary \in Contents \cup {Nothing, Partial}
  /\ phase \in {"down", "idle", "create", "write", "rename"}
  /\ request \in Upload \cup {Nothing}
  /\ acknowledged \subseteq Upload
  /\ clock \in 0 .. MaxTime

-----------------------------------------------------------------------------
With(f, k, v) == [i \in DOMAIN f \cup {k} |-> IF i = k THEN v ELSE f[i]]

Without(f, K) == [i \in DOMAIN f \ K |-> f[i]]

Key(upload) == <<upload.category, upload.player>>

betterThan(score, other, orderBy) ==
  IF orderBy = "descending" THEN score > other ELSE score < other

\* The request has changed memory, and goes on to save it.
BeginSave(upload) ==
  /\ phase' = "create"
  /\ request' = upload
  /\ UNCHANGED <<file, temporary, clock>>

-----------------------------------------------------------------------------
(***************************************************************************)
(* Requests.  Each is one step up to its call of save.                     *)
(***************************************************************************)

\* Mutant of ScoreStands: the two scores are compared the other way round.
ScoreStandsSwapped(upload, mode) ==
  /\ mode = "normal"
  /\ Key(upload) \in DOMAIN scores
  /\ ~betterThan(scores[Key(upload)].score, upload.score, upload.orderBy)

\* A later upload in UpdateModeNormal must beat the score there is, under the
\* OrderBy that it carries itself; otherwise the existing score stands, which
\* is a success too, and nothing is saved.
ScoreStands(upload, mode) ==
  /\ mode = "normal"
  /\ Key(upload) \in DOMAIN scores
  /\ ~betterThan(upload.score, scores[Key(upload)].score, upload.orderBy)

InsertRanking(upload, mode) ==
  LET entry == [score |-> upload.score, orderBy |-> upload.orderBy, updateTime |-> clock]
  IN
  /\ phase = "idle"
  /\ \/ /\ ScoreStands(upload, mode)
        /\ acknowledged' = acknowledged \cup {upload}
        /\ UNCHANGED <<scores, commonData, file, temporary, phase, request, clock>>
     \/ /\ ~ScoreStands(upload, mode)
        /\ scores' = With(scores, Key(upload), entry)
        /\ acknowledged' = IF mode = "normal"
                           THEN acknowledged
                           ELSE {u \in acknowledged : Key(u) # Key(upload)}
        /\ BeginSave(upload)
        /\ UNCHANGED commonData

\* DeleteScore and DeleteAllScores: p's scores in the categories C.
DeleteScores(p, C) ==
  /\ phase = "idle"
  /\ scores' = Without(scores, C \X {p})
  /\ acknowledged' = {u \in acknowledged : ~(u.player = p /\ u.category \in C)}
  /\ BeginSave(Nothing)
  /\ UNCHANGED commonData

DeleteScore(p, c) == DeleteScores(p, {c})

DeleteAllScores(p) == DeleteScores(p, Categories)

UploadCommonData(u, blob) ==
  /\ phase = "idle"
  /\ commonData' = With(commonData, u, blob)
  /\ BeginSave(Nothing)
  /\ UNCHANGED <<scores, acknowledged>>

DeleteCommonData(u) ==
  /\ phase = "idle"
  /\ commonData' = Without(commonData, {u})
  /\ BeginSave(Nothing)
  /\ UNCHANGED <<scores, acknowledged>>

-----------------------------------------------------------------------------
(***************************************************************************)
(* save: os.WriteFile of the temporary file, which first empties it, and   *)
(* os.Rename.  An error at any of the steps ends the request with an error *)
(* reply and leaves memory and the files as they are.                      *)
(***************************************************************************)

\* Mutant of CreateTemporary: ranking.json itself is opened and emptied.
CreateInPlace ==
  /\ phase = "create"
  /\ phase' = "write"
  /\ file' = Partial
  /\ UNCHANGED <<scores, commonData, temporary, request, acknowledged, clock>>

CreateTemporary ==
  /\ phase = "create"
  /\ phase' = "write"
  /\ temporary' = Partial
  /\ UNCHANGED <<scores, commonData, file, request, acknowledged, clock>>

WriteTemporary ==
  /\ phase = "write"
  /\ phase' = "rename"
  /\ temporary' = memory
  /\ UNCHANGED <<scores, commonData, file, request, acknowledged, clock>>

\* The save has succeeded, and the request is answered.
Rename ==
  /\ phase = "rename"
  /\ phase' = "idle"
  /\ file' = temporary
  /\ temporary' = Nothing
  /\ request' = Nothing
  /\ acknowledged' = acknowledged \cup ({request} \ {Nothing})
  /\ UNCHANGED <<scores, commonData, clock>>

FailSave ==
  /\ SaveMayFail
  /\ phase \in {"create", "write", "rename"}
  /\ phase' = "idle"
  /\ request' = Nothing
  /\ UNCHANGED <<scores, commonData, file, temporary, acknowledged, clock>>

-----------------------------------------------------------------------------
(***************************************************************************)
(* The process ends, at any point, and is started again.  NewStore loads   *)
(* ranking.json, and main gives up when it cannot be parsed.               *)
(***************************************************************************)

Crash ==
  /\ phase # "down"
  /\ phase' = "down"
  /\ scores' = Empty[1] /\ commonData' = Empty[2]
  /\ request' = Nothing
  /\ UNCHANGED <<file, temporary, acknowledged, clock>>

Restart ==
  /\ phase = "down"
  /\ file # Partial
  /\ phase' = "idle"
  /\ scores' = Stable[1] /\ commonData' = Stable[2]
  /\ UNCHANGED <<file, temporary, request, acknowledged, clock>>

Tick ==
  /\ clock < MaxTime
  /\ clock' = clock + 1
  /\ UNCHANGED <<scores, commonData, file, temporary, phase, request, acknowledged>>

Init ==
  /\ scores = Empty[1] /\ commonData = Empty[2]
  /\ file = Nothing
  /\ temporary = Nothing
  /\ phase = "idle"
  /\ request = Nothing
  /\ acknowledged = {}
  /\ clock = 0

Next ==
  \/ \E upload \in Upload, mode \in UpdateModes : InsertRanking(upload, mode)
  \/ \E p \in Players :
       \/ \E c \in Categories : DeleteScore(p, c)
       \/ DeleteAllScores(p)
  \/ \E u \in UniqueIDs :
       \/ \E blob \in Blobs : UploadCommonData(u, blob)
       \/ DeleteCommonData(u)
  \/ CreateTemporary \/ WriteTemporary \/ Rename \/ FailSave
  \/ Crash \/ Restart \/ Tick

Spec == Init /\ [][Next]_vars

-----------------------------------------------------------------------------
\* save writes "to a temporary file first ... so a crash mid-write cannot
\* leave a truncated leaderboard behind": what a restart loads is at any time
\* the whole of what memory once was, for every point at which the process is
\* killed and every system call of save that fails.
Durable == INSTANCE DurableStore WITH
  up <- phase # "down",
  live <- IF phase = "down" THEN Stable ELSE memory,
  stable <- Stable

ImplementsDurableStore == Durable!Spec

\* "a player who posts a worse lap time on a later run does not lose their
\* record" and "The JSON store keeps those values across restarts": every
\* upload answered with success is in ranking.json, with that score or a
\* better one, until the player's own request overwrites or deletes it.
AcknowledgedScoresAreKept ==
  \A u \in acknowledged :
    /\ Key(u) \in DOMAIN Stable[1]
    /\ ~betterThan(u.score, Stable[1][Key(u)].score, u.orderBy)
=============================================================================
