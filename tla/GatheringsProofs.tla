-------------------------- MODULE GatheringsProofs --------------------------
(***************************************************************************)
(* Theorems about Gatherings, for any players, requests, friend lists and  *)
(* search criteria.                                                        *)
(***************************************************************************)
EXTENDS Gatherings, FiniteSetTheorems, TLAPS

(***************************************************************************)
(* The inductive invariant.  A single session is sound when it is well     *)
(* typed, holds finitely many seats, counts them, and seats its owner and  *)
(* host; a store is sound when all its sessions are.  The owner's seat is  *)
(* what carries the induction: a session a departing player leaves alive   *)
(* has another owner, who is still seated and to whom hosting can fall.    *)
(***************************************************************************)
WellFormed(s) == s \in Session /\ IsFiniteSet(s.participants)

Sound(s) ==
  /\ WellFormed(s)
  /\ s.participationCount = ParticipationCount(s)
  /\ {s.owner, s.host} \subseteq Roster(s)

StoreSound(store) ==
  /\ DOMAIN store \subseteq GatheringIDs
  /\ \A g \in DOMAIN store : Sound(store[g])

IInv ==
  /\ nextGatheringID \in GatheringIDs
  /\ IDsAreIssued
  /\ StoreSound(sessions)

-----------------------------------------------------------------------------
(***************************************************************************)
(* Lemmas about the operations on one session.                             *)
(***************************************************************************)

\* The seats of a party are finitely many, and all are p's.
LEMMA SeatsFacts ==
  ASSUME NEW p \in Players, NEW n \in Nat
  PROVE  /\ IsFiniteSet(Seats(p, n))
         /\ Seats(p, n) \subseteq Players \X SeatNumbers
         /\ \A seat \in Seats(p, n) : seat[1] = p
         /\ n # 0 => <<p, 1>> \in Seats(p, n)
<1>1. IsFiniteSet({p}) /\ IsFiniteSet(1 .. n)
  <2>1. IsFiniteSet({p})
    BY FS_Singleton
  <2>2. 1 \in Int /\ n \in Int
    OBVIOUS
  <2>3. IsFiniteSet(1 .. n)
    BY <2>2, FS_Interval
  <2>4. QED
    BY <2>1, <2>3
<1>2. IsFiniteSet(Seats(p, n))
  BY <1>1, FS_Product DEF Seats
<1>3. QED
  BY <1>2 DEF Seats, SeatNumbers

\* JoinLocked keeps a session well formed, leaves everyone seated, and
\* recounts the seats.
LEMMA JoinedFacts ==
  ASSUME NEW s, WellFormed(s), NEW p \in Players, NEW n \in Nat
  PROVE  /\ WellFormed(Joined(s, p, n))
         /\ Joined(s, p, n).participationCount = ParticipationCount(Joined(s, p, n))
         /\ Roster(s) \cup {p} \subseteq Roster(Joined(s, p, n))
         /\ Joined(s, p, n).owner = s.owner
         /\ Joined(s, p, n).host = s.host
<1> DEFINE seats == s.participants \cup Seats(p, PartySize(n))
           t == [s EXCEPT !.participants = seats,
                          !.participationCount = Cardinality(seats)]
<1>1. PartySize(n) \in Nat /\ PartySize(n) # 0
  BY DEF PartySize
<1>2. /\ IsFiniteSet(Seats(p, PartySize(n)))
      /\ Seats(p, PartySize(n)) \subseteq Players \X SeatNumbers
      /\ <<p, 1>> \in Seats(p, PartySize(n))
  BY <1>1, SeatsFacts
<1>3. IsFiniteSet(seats)
  BY <1>2, FS_Union DEF WellFormed
<1>4. Cardinality(seats) \in Nat
  BY <1>3, FS_CardinalityType
<1>5. Joined(s, p, n) = t
  BY DEF Joined
<1>6. t \in Session /\ t.participants = seats /\ t.owner = s.owner /\ t.host = s.host
      /\ t.participationCount = Cardinality(seats)
  BY <1>2, <1>4 DEF WellFormed, Session
<1>7. Roster(s) \cup {p} \subseteq Roster(t)
  <2>1. p \in Roster(t)
    <3>1. <<p, 1>>[1] = p
      OBVIOUS
    <3>2. <<p, 1>> \in t.participants
      BY <1>2, <1>6
    <3>3. QED
      BY <3>1, <3>2 DEF Roster
  <2>2. Roster(s) \subseteq Roster(t)
    BY <1>6 DEF Roster
  <2>3. QED
    BY <2>1, <2>2
<1>8. QED
  BY <1>3, <1>5, <1>6, <1>7 DEF WellFormed, ParticipationCount

\* LeaveLocked keeps a sound session sound when the session survives.
LEMMA LeftIsSound ==
  ASSUME NEW s, Sound(s), NEW p \in Players, Survives(s, p)
  PROVE  Sound(Left(s, p)) /\ Left(s, p).settings = s.settings
<1> DEFINE remaining == {seat \in s.participants : seat[1] # p}
           host == IF s.host = p /\ Contains(s, p) THEN s.owner ELSE s.host
           t == [s EXCEPT !.participants = remaining,
                          !.participationCount = Cardinality(remaining),
                          !.host = host]
<1>1. IsFiniteSet(remaining)
  BY FS_Subset DEF Sound, WellFormed
<1>2. Cardinality(remaining) \in Nat
  BY <1>1, FS_CardinalityType
<1>3. Left(s, p) = t
  BY DEF Left
<1>4. /\ t \in Session
      /\ t.participants = remaining
      /\ t.participationCount = Cardinality(remaining)
      /\ t.owner = s.owner
      /\ t.host = host
      /\ t.settings = s.settings
  BY <1>2 DEF Sound, WellFormed, Session
<1>5. s.owner # p
  BY DEF Survives, Sound, Contains, Roster
<1>6. host # p /\ host \in Roster(s)
  BY <1>5 DEF Sound, Contains, Roster
<1>7. \A q \in Roster(s) : q # p => q \in Roster(t)
  BY <1>4 DEF Roster
<1>8. QED
  BY <1>1, <1>3, <1>4, <1>5, <1>6, <1>7 DEF Sound, WellFormed, ParticipationCount

-----------------------------------------------------------------------------
(***************************************************************************)
(* Lemmas about the operations on the store.                               *)
(***************************************************************************)

\* Taking a player out of every gathering leaves a sound store.
LEMMA RemoveConnectionIsSound ==
  ASSUME NEW store, StoreSound(store), NEW p \in Players
  PROVE  /\ StoreSound(RemoveConnection(store, p))
         /\ DOMAIN RemoveConnection(store, p) \subseteq DOMAIN store
<1>1. \A g \in DOMAIN RemoveConnection(store, p) :
        /\ g \in DOMAIN store
        /\ Survives(store[g], p)
        /\ RemoveConnection(store, p)[g] = Left(store[g], p)
  BY DEF RemoveConnection
<1>2. \A g \in DOMAIN RemoveConnection(store, p) : Sound(RemoveConnection(store, p)[g])
  BY <1>1, LeftIsSound DEF StoreSound
<1>3. QED
  BY <1>1, <1>2 DEF StoreSound

\* Taking a player out of one gathering leaves a sound store.
LEMMA LeaveLockedIsSound ==
  ASSUME NEW store, StoreSound(store), NEW g \in DOMAIN store, NEW p \in Players
  PROVE  /\ StoreSound(LeaveLocked(store, g, p))
         /\ DOMAIN LeaveLocked(store, g, p) \subseteq DOMAIN store
<1>1. \A h \in DOMAIN LeaveLocked(store, g, p) :
        /\ h \in DOMAIN store
        /\ h = g => Survives(store[h], p)
        /\ LeaveLocked(store, g, p)[h] = IF h = g THEN Left(store[h], p) ELSE store[h]
  BY DEF LeaveLocked
<1>2. \A h \in DOMAIN LeaveLocked(store, g, p) : Sound(LeaveLocked(store, g, p)[h])
  BY <1>1, LeftIsSound DEF StoreSound
<1>3. QED
  BY <1>1, <1>2 DEF StoreSound

\* Storing a sound session keeps the store sound.
LEMMA WithSessionIsSound ==
  ASSUME NEW store, StoreSound(store), NEW g \in GatheringIDs, NEW s, Sound(s)
  PROVE  /\ StoreSound(WithSession(store, g, s))
         /\ DOMAIN WithSession(store, g, s) = DOMAIN store \cup {g}
BY DEF WithSession, StoreSound

\* Seating p in a sound session keeps the store sound.
LEMMA JoinIsSound ==
  ASSUME NEW store, StoreSound(store), NEW g \in DOMAIN store,
         NEW p \in Players, NEW n \in Nat
  PROVE  /\ StoreSound(WithSession(store, g, Joined(store[g], p, n)))
         /\ DOMAIN WithSession(store, g, Joined(store[g], p, n)) = DOMAIN store
<1>1. Sound(store[g]) /\ g \in GatheringIDs
  BY DEF StoreSound
<1>2. Sound(Joined(store[g], p, n))
  BY <1>1, JoinedFacts DEF Sound
<1>3. QED
  BY <1>1, <1>2, WithSessionIsSound

-----------------------------------------------------------------------------
(***************************************************************************)
(* Each step preserves the inductive invariant.                            *)
(***************************************************************************)

\* A request is accepted or not, its creation leaves the store sound, and the
\* only ID it adds is the one just issued.
LEMMA CreateAndJoinKeepsIInv ==
  ASSUME IInv, NEW store, StoreSound(store), DOMAIN store \subseteq DOMAIN sessions,
         NEW p \in Players, NEW request \in Requests, NEW n \in Nat,
         CreateAndJoin(store, p, request, n)
  PROVE  IInv'
<1> DEFINE fresh == Created(p, request)
           s == Joined(fresh, p, n)
<1>1. WellFormed(fresh) /\ fresh.owner = p /\ fresh.host = p
  BY ParametersAssumption, FS_EmptySet DEF Created, WellFormed, Session
<1>2. Sound(s)
  BY <1>1, JoinedFacts DEF Sound
<1>3. nextGatheringID \in GatheringIDs /\ nextGatheringID' = nextGatheringID + 1
  BY DEF IInv, CreateAndJoin
<1>4. \A g \in DOMAIN store : g < nextGatheringID
  BY DEF IInv, IDsAreIssued
<1>5. /\ StoreSound(WithSession(store, nextGatheringID, s))
      /\ DOMAIN WithSession(store, nextGatheringID, s) = DOMAIN store \cup {nextGatheringID}
  BY <1>2, <1>3, WithSessionIsSound
<1>6. sessions' \in {store, WithSession(store, nextGatheringID, s)}
  BY DEF CreateAndJoin
<1>7. StoreSound(sessions') /\ DOMAIN sessions' \subseteq DOMAIN store \cup {nextGatheringID}
  BY <1>5, <1>6
<1>8. \A g \in DOMAIN sessions' : g < nextGatheringID'
  BY <1>3, <1>4, <1>7 DEF GatheringIDs, StoreSound
<1>9. nextGatheringID' \in GatheringIDs
  BY <1>3 DEF GatheringIDs
<1>10. QED
  BY <1>7, <1>8, <1>9 DEF IInv, IDsAreIssued, StoreSound, Sound, WellFormed,
                          ParticipationCount, Roster

\* A step that issues no ID and leaves a sound store of gatherings that were
\* live before preserves the invariant.
LEMMA NoNewGatheringKeepsIInv ==
  ASSUME IInv, UNCHANGED nextGatheringID,
         StoreSound(sessions'), DOMAIN sessions' \subseteq DOMAIN sessions
  PROVE  IInv'
BY DEF IInv, IDsAreIssued, StoreSound, Sound, WellFormed, ParticipationCount, Roster

\* So do both automatic matchmakers, whatever candidates the search returns.
LEMMA JoinOrCreateKeepsIInv ==
  ASSUME IInv, NEW store, StoreSound(store), DOMAIN store \subseteq DOMAIN sessions,
         NEW p \in Players, NEW candidates \in SUBSET (DOMAIN store),
         NEW request \in Requests, JoinOrCreate(store, p, candidates, request)
  PROVE  IInv'
<1>1. CASE CreateAndJoin(store, p, request, 1)
  BY <1>1, CreateAndJoinKeepsIInv
<1>2. ASSUME NEW g \in candidates, UNCHANGED nextGatheringID,
             sessions' \in {store, WithSession(store, g, Joined(store[g], p, 1))}
      PROVE  IInv'
  <2>1. /\ StoreSound(WithSession(store, g, Joined(store[g], p, 1)))
        /\ DOMAIN WithSession(store, g, Joined(store[g], p, 1)) = DOMAIN store
    BY JoinIsSound
  <2>2. StoreSound(sessions') /\ DOMAIN sessions' \subseteq DOMAIN sessions
    BY <1>2, <2>1
  <2>3. QED
    BY <1>2, <2>2, NoNewGatheringKeepsIInv
<1>3. QED
  BY <1>1, <1>2 DEF JoinOrCreate

\* The requests that name no gathering, and the end of a connection.
LEMMA PlayerStepKeepsIInv ==
  ASSUME IInv, NEW p \in Players, PlayerStep(p)
  PROVE  IInv'
<1> DEFINE store == RemoveConnection(sessions, p)
<1>1. StoreSound(store) /\ DOMAIN store \subseteq DOMAIN sessions
  BY RemoveConnectionIsSound DEF IInv
<1> HIDE DEF store
<1>2. CASE ConnectionEnded(p)
  BY <1>1, <1>2, NoNewGatheringKeepsIInv DEF ConnectionEnded, store
<1>3. ASSUME NEW request \in Requests, RegisterGathering(p, request)
      PROVE  IInv'
  BY <1>1, <1>3, CreateAndJoinKeepsIInv DEF RegisterGathering, store
<1>4. ASSUME NEW request \in Requests, NEW n \in PartySizes,
             CreateMatchmakeSession(p, request, n)
      PROVE  IInv'
  <2>1. n \in Nat
    BY ParametersAssumption
  <2>2. QED
    BY <1>1, <1>4, <2>1, CreateAndJoinKeepsIInv DEF CreateMatchmakeSession, store
<1>5. ASSUME NEW request \in Requests, AutoMatchmakePostpone(p, request)
      PROVE  IInv'
  <2>1. FindSession(store, p, request) \in SUBSET DOMAIN store
    BY DEF FindSession
  <2>2. JoinOrCreate(store, p, FindSession(store, p, request), request)
    BY <1>5 DEF AutoMatchmakePostpone, store
  <2>3. QED
    BY <1>1, <2>1, <2>2, JoinOrCreateKeepsIInv
<1>6. ASSUME NEW request \in Requests, NEW criterias \in CriteriaLists,
             AutoMatchmakeWithSearchCriteriaPostpone(p, criterias, request)
      PROVE  IInv'
  <2>1. Search(store, p, criterias) \in SUBSET DOMAIN store
    BY DEF Search
  <2>2. JoinOrCreate(store, p, Search(store, p, criterias), request)
    BY <1>6 DEF AutoMatchmakeWithSearchCriteriaPostpone, store
  <2>3. QED
    BY <1>1, <2>1, <2>2, JoinOrCreateKeepsIInv
<1>7. QED
  BY <1>2, <1>3, <1>4, <1>5, <1>6 DEF PlayerStep

\* Replacing one session by a sound one keeps a sound store sound.
LEMMA ReplacedSessionKeepsIInv ==
  ASSUME IInv, NEW g \in DOMAIN sessions, NEW s, Sound(s),
         sessions' = [sessions EXCEPT ![g] = s], UNCHANGED nextGatheringID
  PROVE  IInv'
<1>1. StoreSound(sessions') /\ DOMAIN sessions' = DOMAIN sessions
  BY DEF IInv, StoreSound
<1>2. QED
  BY <1>1, NoNewGatheringKeepsIInv

\* The handlers that give hosting or ownership do so to participants.
Handed(s, owner, host, url) ==
  [s EXCEPT !.owner = owner, !.host = host, !.sessionURL = url]

\* Requests that move ownership or hosting to a participant.
LEMMA HandingOverKeepsIInv ==
  ASSUME IInv, NEW g \in DOMAIN sessions,
         NEW owner, Contains(sessions[g], owner),
         NEW host, Contains(sessions[g], host),
         NEW url \in Players \cup {NoURL},
         sessions' = [sessions EXCEPT ![g] = Handed(sessions[g], owner, host, url)],
         UNCHANGED nextGatheringID
  PROVE  IInv'
<1> DEFINE s == sessions[g]
           t == Handed(s, owner, host, url)
<1>1. Sound(s) /\ s \in Session
  BY DEF IInv, StoreSound, Sound, WellFormed
<1>2. owner \in Players /\ host \in Players
  BY <1>1 DEF Contains, Session
<1>3. Sound(t)
  BY <1>1, <1>2 DEF Handed, Sound, WellFormed, Session, ParticipationCount, Roster, Contains
<1>4. QED
  BY <1>3, ReplacedSessionKeepsIInv

\* The requests that name a gathering.
LEMMA GatheringStepKeepsIInv ==
  ASSUME IInv, NEW p \in Players, NEW g \in DOMAIN sessions, GatheringStep(p, g)
  PROVE  IInv'
<1> DEFINE s == sessions[g]
<1>1. StoreSound(sessions) /\ Sound(s) /\ s \in Session
  BY DEF IInv, StoreSound, Sound, WellFormed
<1>2. ASSUME NEW n \in Nat, UNCHANGED nextGatheringID,
             sessions' = WithSession(sessions, g, Joined(s, p, n))
      PROVE  IInv'
  BY <1>1, <1>2, JoinIsSound, NoNewGatheringKeepsIInv
<1>3. CASE Participate(p, g)
  BY <1>2, <1>3 DEF Participate
<1>4. ASSUME NEW n \in PartySizes, JoinMatchmakeSession(p, g, n)
      PROVE  IInv'
  BY <1>2, <1>4, ParametersAssumption DEF JoinMatchmakeSession
<1>5. CASE LeaveGathering(p, g)
  BY <1>1, <1>5, LeaveLockedIsSound, NoNewGatheringKeepsIInv DEF LeaveGathering
<1>6. CASE DestroyGathering(p, g)
  <2>1. StoreSound(sessions') /\ DOMAIN sessions' \subseteq DOMAIN sessions
    BY <1>1, <1>6 DEF DestroyGathering, StoreSound
  <2>2. QED
    BY <1>6, <2>1, NoNewGatheringKeepsIInv DEF DestroyGathering
<1>7. ASSUME NEW settings \in Settings, MutateOwned(p, g, settings)
      PROVE  IInv'
  <2> DEFINE t == [s EXCEPT !.settings = settings]
  <2>1. Sound(t)
    BY <1>1 DEF Sound, WellFormed, Session, ParticipationCount, Roster
  <2>2. sessions' = [sessions EXCEPT ![g] = t] /\ UNCHANGED nextGatheringID
    BY <1>7 DEF MutateOwned
  <2>3. QED
    BY <2>1, <2>2, ReplacedSessionKeepsIInv
<1>8. CASE CloseParticipation(p, g)
  <2>1. [s.settings EXCEPT !.openParticipation = FALSE] \in Settings
    BY <1>1 DEF Session, Settings
  <2>2. QED
    BY <1>7, <1>8, <2>1 DEF CloseParticipation
<1>9. CASE OpenParticipation(p, g)
  <2>1. [s.settings EXCEPT !.openParticipation = TRUE] \in Settings
    BY <1>1 DEF Session, Settings
  <2>2. QED
    BY <1>7, <1>9, <2>1 DEF OpenParticipation
<1>10. ASSUME NEW description \in Descriptions, UpdateDescription(p, g, description)
       PROVE  IInv'
  <2>1. [s.settings EXCEPT !.description = description] \in Settings
    BY <1>1 DEF Session, Settings
  <2>2. QED
    BY <1>7, <1>10, <2>1 DEF UpdateDescription
<1>11. ASSUME NEW request \in Requests, UpdateMatchmakeSession(p, g, request)
       PROVE  IInv'
  <2> DEFINE t == [s EXCEPT !.settings = request,
                            !.participationCount = ParticipationCount(s)]
  <2>1. ParticipationCount(s) \in Nat
    BY <1>1, FS_CardinalityType DEF Sound, WellFormed, ParticipationCount
  <2>2. Sound(t)
    BY <1>1, <2>1, ParametersAssumption
       DEF Sound, WellFormed, Session, ParticipationCount, Roster
  <2>3. sessions' = [sessions EXCEPT ![g] = t] /\ UNCHANGED nextGatheringID
    BY <1>11 DEF UpdateMatchmakeSession
  <2>4. QED
    BY <2>2, <2>3, ReplacedSessionKeepsIInv
<1>12. Contains(s, s.owner) /\ Contains(s, s.host) /\ s.sessionURL \in Players \cup {NoURL}
  BY <1>1 DEF Sound, Session, Contains, Roster
<1>13. ASSUME NEW url \in {p, NoURL}, LaunchSession(p, g, url)
       PROVE  IInv'
  <2>1. sessions' = [sessions EXCEPT ![g] = Handed(s, s.owner, p, url)]
    BY <1>1, <1>13 DEF LaunchSession, Handed, Session
  <2>2. Contains(s, p) /\ UNCHANGED nextGatheringID
    BY <1>13 DEF LaunchSession
  <2>3. QED
    BY <1>12, <2>1, <2>2, HandingOverKeepsIInv
<1>14. ASSUME NEW url \in {p, NoURL}, UpdateSessionURL(p, g, url)
       PROVE  IInv'
  <2> DEFINE newURL == IF url = NoURL THEN s.sessionURL ELSE url
  <2>1. sessions' = [sessions EXCEPT ![g] = Handed(s, s.owner, p, newURL)]
    BY <1>1, <1>14 DEF UpdateSessionURL, Handed, Session
  <2>2. newURL \in Players \cup {NoURL}
    BY <1>12
  <2> HIDE DEF newURL
  <2>3. Contains(s, p) /\ UNCHANGED nextGatheringID
    BY <1>14 DEF UpdateSessionURL
  <2>4. QED
    BY <1>12, <2>1, <2>2, <2>3, HandingOverKeepsIInv
<1>15. CASE UpdateSessionHost(p, g)
  <2>1. sessions' = [sessions EXCEPT ![g] = Handed(s, s.owner, p, s.sessionURL)]
    BY <1>1, <1>15 DEF UpdateSessionHost, Handed, Session
  <2>2. Contains(s, p) /\ UNCHANGED nextGatheringID
    BY <1>15 DEF UpdateSessionHost
  <2>3. QED
    BY <1>12, <2>1, <2>2, HandingOverKeepsIInv
<1>16. CASE TakeOwnership(p, g)
  <2>1. sessions' = [sessions EXCEPT ![g] = Handed(s, p, p, s.sessionURL)]
    BY <1>1, <1>16 DEF TakeOwnership, Handed, Session
  <2>2. Contains(s, p) /\ UNCHANGED nextGatheringID
    BY <1>16 DEF TakeOwnership
  <2>3. QED
    BY <1>12, <2>1, <2>2, HandingOverKeepsIInv
<1>17. ASSUME NEW q \in Players, MigrateGatheringOwnership(p, g, q)
       PROVE  IInv'
  <2>1. sessions' = [sessions EXCEPT ![g] = Handed(s, q, s.host, s.sessionURL)]
    BY <1>1, <1>17 DEF MigrateGatheringOwnership, Handed, Session
  <2>2. Contains(s, q) /\ UNCHANGED nextGatheringID
    BY <1>17 DEF MigrateGatheringOwnership
  <2>3. QED
    BY <1>12, <2>1, <2>2, HandingOverKeepsIInv
<1>18. QED
  BY <1>3, <1>4, <1>5, <1>6, <1>8, <1>9, <1>10, <1>11, <1>13, <1>14, <1>15, <1>16, <1>17
     DEF GatheringStep

-----------------------------------------------------------------------------
(***************************************************************************)
(* The theorems.                                                           *)
(***************************************************************************)

\* A new store is empty and sound.
LEMMA InitHasIInv == Init => IInv
BY DEF Init, IInv, IDsAreIssued, StoreSound, GatheringIDs

\* The invariant is inductive.
LEMMA NextKeepsIInv == IInv /\ [Next]_vars => IInv'
<1>1. CASE UNCHANGED vars
  BY <1>1 DEF vars, IInv, IDsAreIssued, StoreSound, Sound, WellFormed, ParticipationCount, Roster
<1>2. ASSUME IInv, NEW p \in Players, PlayerStep(p)
      PROVE  IInv'
  BY <1>2, PlayerStepKeepsIInv
<1>3. ASSUME IInv, NEW p \in Players, NEW g \in DOMAIN sessions, GatheringStep(p, g)
      PROVE  IInv'
  BY <1>3, GatheringStepKeepsIInv
<1>4. QED
  BY <1>1, <1>2, <1>3 DEF Next

\* The inductive invariant holds in every reachable state of the store, under
\* every interleaving of the handlers and the teardown callback.
THEOREM Invariance == Spec => []IInv
BY InitHasIInv, NextKeepsIInv, PTL DEF Spec

\* Type correctness.
THEOREM TypeCorrectness == Spec => []TypeOK
<1>1. IInv => TypeOK
  BY DEF IInv, TypeOK, StoreSound, Sound, WellFormed
<1>2. QED
  BY <1>1, Invariance, PTL

\* The owner and the host of every live gathering are among its participants.
THEOREM OwnerAndHostPresence == Spec => []OwnerAndHostTakePart
<1>1. IInv => OwnerAndHostTakePart
  BY DEF IInv, OwnerAndHostTakePart, StoreSound, Sound
<1>2. QED
  BY <1>1, Invariance, PTL

\* The participation count clients are sent is the number of seats taken.
THEOREM CountAgreement == Spec => []ParticipationCountAgrees
<1>1. IInv => ParticipationCountAgrees
  BY DEF IInv, ParticipationCountAgrees, StoreSound, Sound
<1>2. QED
  BY <1>1, Invariance, PTL

\* Live gatherings have IDs already handed out.
THEOREM IDsIssued == Spec => []IDsAreIssued
<1>1. IInv => IDsAreIssued
  BY DEF IInv
<1>2. QED
  BY <1>1, Invariance, PTL

-----------------------------------------------------------------------------
(***************************************************************************)
(* What a step of Gatherings may do.                                       *)
(*                                                                         *)
(* The twenty-odd requests do one of four things to the store: only take   *)
(* players out, seat one player in a gathering that admits it, add a new   *)
(* gathering, or change gatherings without moving anyone.  The first three *)
(* may come after dropping the caller's earlier memberships.  Each theorem *)
(* is then a matter of four cases.                                         *)
(***************************************************************************)

\* The store is what is left of sessions after departures.
Departed(store) ==
  /\ DOMAIN store \subseteq DOMAIN sessions
  /\ \A g \in DOMAIN store :
       /\ store[g].settings = sessions[g].settings
       /\ store[g].owner = sessions[g].owner
       /\ store[g].participants \subseteq sessions[g].participants

\* The store in which a request of p continues.
Stores(p) == {sessions, RemoveConnection(sessions, p)}

\* The store is sessions after p has left those in D.
LeftBy(store, p, D) ==
  /\ DOMAIN store = {g \in DOMAIN sessions : g \in D => Survives(sessions[g], p)}
  /\ \A g \in DOMAIN store :
       store[g] = IF g \in D THEN Left(sessions[g], p) ELSE sessions[g]

Departing ==
  /\ \E p \in Players, D \in SUBSET DOMAIN sessions : LeftBy(sessions', p, D)
  /\ UNCHANGED nextGatheringID

Joining ==
  \E p \in Players, n \in Nat : \E store \in Stores(p) : \E g \in DOMAIN store :
    /\ CanJoin(p, store[g])
    /\ Accepts(store[g], p, n)
    /\ sessions' = WithSession(store, g, Joined(store[g], p, n))
    /\ UNCHANGED nextGatheringID

Creating ==
  \E p \in Players, request \in Requests, n \in Nat : \E store \in Stores(p) :
    CreateAndJoin(store, p, request, n)

Changing ==
  /\ DOMAIN sessions' = DOMAIN sessions
  /\ \A g \in DOMAIN sessions : sessions'[g].participants = sessions[g].participants
  /\ \E g \in DOMAIN sessions : \E q \in Roster(sessions[g]) : \A h \in DOMAIN sessions :
       sessions'[h].owner = IF h = g THEN q ELSE sessions[h].owner
  /\ UNCHANGED nextGatheringID

-----------------------------------------------------------------------------
\* LeaveLocked keeps settings and owner, and only takes seats away.
LEMMA LeftKeeps ==
  ASSUME NEW s, Sound(s), NEW p
  PROVE  /\ Left(s, p).settings = s.settings
         /\ Left(s, p).owner = s.owner
         /\ Left(s, p).participants \subseteq s.participants
BY DEF Left, Sound, WellFormed, Session

\* Departures keep settings and owners, and seat no one.
LEMMA LeftByDeparted ==
  ASSUME IInv, NEW p, NEW D, NEW store, LeftBy(store, p, D)
  PROVE  Departed(store)
BY LeftKeeps DEF LeftBy, Departed, StoreSound, IInv

\* Dropping memberships is departing.
LEMMA StoresLeft ==
  ASSUME NEW p, NEW store \in Stores(p)
  PROVE  \E D \in SUBSET DOMAIN sessions : LeftBy(store, p, D)
<1>1. CASE store = sessions
  <2>1. LeftBy(store, p, {})
    BY <1>1 DEF LeftBy
  <2>2. QED
    BY <2>1
<1>2. CASE store = RemoveConnection(sessions, p)
  <2>1. LeftBy(store, p, DOMAIN sessions)
    BY <1>2 DEF LeftBy, RemoveConnection
  <2>2. QED
    BY <2>1
<1>3. QED
  BY <1>1, <1>2 DEF Stores

\* The store in which a request continues keeps settings and owners too.
LEMMA StoresDeparted ==
  ASSUME IInv, NEW p, NEW store \in Stores(p)
  PROVE  Departed(store)
BY StoresLeft, LeftByDeparted

\* Every step does one of the four things.
LEMMA StepKinds ==
  ASSUME IInv, Next
  PROVE  Departing \/ Joining \/ Creating \/ Changing
<1> USE ParametersAssumption DEF ParametersAssumption
<1>1. ASSUME NEW p \in Players, NEW store \in Stores(p),
             NEW candidates \in SUBSET (DOMAIN store), NEW request \in Requests,
             JoinOrCreate(store, p, candidates, request)
      PROVE  Departing \/ Joining \/ Creating
  <2>1. CASE CreateAndJoin(store, p, request, 1)
    BY <2>1 DEF Creating
  <2>2. CASE \E g \in candidates :
               /\ CanJoin(p, store[g])
               /\ sessions' = IF Accepts(store[g], p, 1)
                              THEN WithSession(store, g, Joined(store[g], p, 1))
                              ELSE store
               /\ UNCHANGED nextGatheringID
    <3>1. PICK g \in candidates :
            /\ CanJoin(p, store[g])
            /\ sessions' = IF Accepts(store[g], p, 1)
                           THEN WithSession(store, g, Joined(store[g], p, 1))
                           ELSE store
            /\ UNCHANGED nextGatheringID
      BY <2>2
    <3>2. CASE Accepts(store[g], p, 1)
      BY <3>1, <3>2 DEF Joining
    <3>3. CASE ~Accepts(store[g], p, 1)
      BY <3>1, <3>3, StoresLeft DEF Departing
    <3>4. QED
      BY <3>2, <3>3
  <2>3. QED
    BY <1>1, <2>1, <2>2 DEF JoinOrCreate
<1>2. ASSUME NEW p \in Players, PlayerStep(p)
      PROVE  Departing \/ Joining \/ Creating
  <2> DEFINE store == RemoveConnection(sessions, p)
  <2>1. store \in Stores(p)
    BY DEF Stores
  <2>2. CASE ConnectionEnded(p)
    BY <2>1, <2>2, StoresLeft DEF ConnectionEnded, Departing
  <2>3. ASSUME NEW request \in Requests, RegisterGathering(p, request)
        PROVE  Creating
    BY <2>1, <2>3 DEF RegisterGathering, Creating
  <2>4. ASSUME NEW request \in Requests, NEW n \in PartySizes,
               CreateMatchmakeSession(p, request, n)
        PROVE  Creating
    BY <2>1, <2>4 DEF CreateMatchmakeSession, Creating
  <2>5. ASSUME NEW request \in Requests, AutoMatchmakePostpone(p, request)
        PROVE  Departing \/ Joining \/ Creating
    <3>1. FindSession(store, p, request) \in SUBSET (DOMAIN store)
      BY DEF FindSession
    <3>2. JoinOrCreate(store, p, FindSession(store, p, request), request)
      BY <2>5 DEF AutoMatchmakePostpone
    <3>3. QED
      BY <1>1, <2>1, <3>1, <3>2
  <2>6. ASSUME NEW request \in Requests, NEW criterias \in CriteriaLists,
               AutoMatchmakeWithSearchCriteriaPostpone(p, criterias, request)
        PROVE  Departing \/ Joining \/ Creating
    <3>1. Search(store, p, criterias) \in SUBSET (DOMAIN store)
      BY DEF Search
    <3>2. JoinOrCreate(store, p, Search(store, p, criterias), request)
      BY <2>6 DEF AutoMatchmakeWithSearchCriteriaPostpone
    <3>3. QED
      BY <1>1, <2>1, <3>1, <3>2
  <2>7. QED
    BY <1>2, <2>2, <2>3, <2>4, <2>5, <2>6 DEF PlayerStep
<1>3. ASSUME NEW p \in Players, NEW g \in DOMAIN sessions, GatheringStep(p, g)
      PROVE  Departing \/ Joining \/ Changing
  <2>1. /\ sessions \in Stores(p) /\ sessions[g] \in Session
        /\ sessions[g].owner \in Roster(sessions[g])
    BY DEF Stores, IInv, StoreSound, Sound, WellFormed
  <2>2. CASE Participate(p, g)
    BY <2>1, <2>2 DEF Participate, Joining
  <2>3. ASSUME NEW n \in PartySizes, JoinMatchmakeSession(p, g, n)
        PROVE  Joining
    BY <2>1, <2>3 DEF JoinMatchmakeSession, Joining
  <2>4. CASE LeaveGathering(p, g)
    <3>1. LeftBy(sessions', p, {g})
      BY <2>4 DEF LeaveGathering, LeaveLocked, LeftBy
    <3>2. QED
      BY <2>4, <3>1 DEF Departing, LeaveGathering
  <2>5. CASE DestroyGathering(p, g)
    <3>1. ~Survives(sessions[g], p)
      BY <2>1, <2>5 DEF DestroyGathering, Survives, Contains, Roster
    <3>2. LeftBy(sessions', p, {g})
      BY <2>5, <3>1 DEF DestroyGathering, LeftBy
    <3>3. QED
      BY <2>5, <3>2 DEF Departing, DestroyGathering
  <2>6. ASSUME NEW s \in Session, s.participants = sessions[g].participants,
               s.owner \in Roster(sessions[g]),
               sessions' = [sessions EXCEPT ![g] = s], UNCHANGED nextGatheringID
        PROVE  Changing
    <3>1. /\ DOMAIN sessions' = DOMAIN sessions
          /\ \A h \in DOMAIN sessions : sessions'[h] = IF h = g THEN s ELSE sessions[h]
      BY <2>6
    <3>2. QED
      BY <2>6, <3>1 DEF Changing
  <2>7. ASSUME NEW settings \in Settings, MutateOwned(p, g, settings)
        PROVE  Changing
    <3> DEFINE s == [sessions[g] EXCEPT !.settings = settings]
    <3>1. /\ s \in Session /\ s.participants = sessions[g].participants
          /\ s.owner = sessions[g].owner
      BY <2>1 DEF Session
    <3>2. sessions' = [sessions EXCEPT ![g] = s] /\ UNCHANGED nextGatheringID
      BY <2>7 DEF MutateOwned
    <3> HIDE DEF s
    <3>3. QED
      BY <2>1, <2>6, <3>1, <3>2
  <2>8. CASE \/ CloseParticipation(p, g) \/ OpenParticipation(p, g)
             \/ \E description \in Descriptions : UpdateDescription(p, g, description)
    <3>1. \A b \in BOOLEAN : [sessions[g].settings EXCEPT !.openParticipation = b] \in Settings
      BY <2>1 DEF Session, Settings
    <3>2. \A description \in Descriptions :
            [sessions[g].settings EXCEPT !.description = description] \in Settings
      BY <2>1 DEF Session, Settings
    <3>3. QED
      BY <2>7, <2>8, <3>1, <3>2 DEF CloseParticipation, OpenParticipation, UpdateDescription
  <2>9. ASSUME NEW request \in Requests, UpdateMatchmakeSession(p, g, request)
        PROVE  Changing
    <3> DEFINE s == [sessions[g] EXCEPT !.settings = request,
                                        !.participationCount = ParticipationCount(sessions[g])]
    <3>1. ParticipationCount(sessions[g]) \in Nat
      BY FS_CardinalityType DEF IInv, StoreSound, Sound, WellFormed, ParticipationCount
    <3>2. /\ s \in Session /\ s.participants = sessions[g].participants
          /\ s.owner = sessions[g].owner
      BY <2>1, <3>1 DEF Session
    <3>3. sessions' = [sessions EXCEPT ![g] = s] /\ UNCHANGED nextGatheringID
      BY <2>9 DEF UpdateMatchmakeSession
    <3> HIDE DEF s
    <3>4. QED
      BY <2>1, <2>6, <3>2, <3>3
  <2>10. ASSUME NEW url \in {p, NoURL}, LaunchSession(p, g, url) \/ UpdateSessionURL(p, g, url)
         PROVE  Changing
    <3>1. \A v \in Players \cup {NoURL} :
            LET s == [sessions[g] EXCEPT !.sessionURL = v, !.host = p]
            IN  /\ s \in Session /\ s.participants = sessions[g].participants
                /\ s.owner = sessions[g].owner
      BY <2>1 DEF Session
    <3>2. sessions[g].sessionURL \in Players \cup {NoURL}
      BY <2>1 DEF Session
    <3>3. \E v \in Players \cup {NoURL} :
            sessions' = [sessions EXCEPT ![g] = [sessions[g] EXCEPT !.sessionURL = v, !.host = p]]
      <4>1. CASE LaunchSession(p, g, url)
        <5>1. sessions' =
                [sessions EXCEPT ![g] = [sessions[g] EXCEPT !.sessionURL = url, !.host = p]]
          BY <4>1 DEF LaunchSession
        <5>2. QED
          BY <5>1
      <4>2. CASE UpdateSessionURL(p, g, url)
        <5> DEFINE v == IF url = NoURL THEN sessions[g].sessionURL ELSE url
        <5>1. sessions' =
                [sessions EXCEPT ![g] = [sessions[g] EXCEPT !.sessionURL = v, !.host = p]]
          BY <4>2 DEF UpdateSessionURL
        <5>2. v \in Players \cup {NoURL}
          BY <3>2
        <5>3. QED
          BY <5>1, <5>2
      <4>3. QED
        BY <2>10, <4>1, <4>2
    <3>4. UNCHANGED nextGatheringID
      BY <2>10 DEF LaunchSession, UpdateSessionURL
    <3>5. QED
      BY <2>1, <2>6, <3>1, <3>3, <3>4
  <2>11. ASSUME NEW host \in Players, NEW owner \in Roster(sessions[g]), owner \in Players,
                sessions' = [sessions EXCEPT ![g].host = host, ![g].owner = owner],
                UNCHANGED nextGatheringID
         PROVE  Changing
    <3> DEFINE s == [sessions[g] EXCEPT !.host = host, !.owner = owner]
    <3>1. s \in Session /\ s.participants = sessions[g].participants /\ s.owner = owner
      BY <2>1, <2>11 DEF Session
    <3>2. sessions' = [sessions EXCEPT ![g] = s]
      BY <2>11
    <3> HIDE DEF s
    <3>3. QED
      BY <2>6, <2>11, <3>1, <3>2
  <2>12. CASE UpdateSessionHost(p, g)
    <3> DEFINE s == [sessions[g] EXCEPT !.host = p]
    <3>1. /\ s \in Session /\ s.participants = sessions[g].participants
          /\ s.owner = sessions[g].owner
      BY <2>1 DEF Session
    <3>2. sessions' = [sessions EXCEPT ![g] = s] /\ UNCHANGED nextGatheringID
      BY <2>12 DEF UpdateSessionHost
    <3> HIDE DEF s
    <3>3. QED
      BY <2>1, <2>6, <3>1, <3>2
  <2>13. CASE TakeOwnership(p, g)
    <3>1. p \in Roster(sessions[g])
      BY <2>13 DEF TakeOwnership, Contains, Roster
    <3>2. QED
      BY <2>11, <2>13, <3>1 DEF TakeOwnership
  <2>14. ASSUME NEW q \in Players, MigrateGatheringOwnership(p, g, q)
         PROVE  Changing
    <3> DEFINE s == [sessions[g] EXCEPT !.owner = q]
    <3>1. s \in Session /\ s.participants = sessions[g].participants /\ s.owner = q
      BY <2>1 DEF Session
    <3>2. sessions' = [sessions EXCEPT ![g] = s] /\ UNCHANGED nextGatheringID
      BY <2>14 DEF MigrateGatheringOwnership
    <3>3. q \in Roster(sessions[g])
      BY <2>14 DEF MigrateGatheringOwnership, Contains, Roster
    <3> HIDE DEF s
    <3>4. QED
      BY <2>6, <3>1, <3>2, <3>3
  <2>15. QED
    BY <1>3, <2>2, <2>3, <2>4, <2>5, <2>8, <2>9, <2>10, <2>12, <2>13, <2>14 DEF GatheringStep
<1>4. QED
  BY <1>2, <1>3 DEF Next

-----------------------------------------------------------------------------
(***************************************************************************)
(* Gathering IDs.                                                          *)
(***************************************************************************)

\* An ID is never used for a second gathering.
THEOREM IDsUsedOnce == Spec => IDsAreNotReused
<1> DEFINE Fresh == /\ nextGatheringID' >= nextGatheringID
                    /\ \A g \in DOMAIN sessions' \ DOMAIN sessions : g >= nextGatheringID
<1>1. ASSUME IInv, Next PROVE Fresh
  <2>1. nextGatheringID \in Nat
    BY <1>1 DEF IInv, GatheringIDs
  <2>2. CASE Departing
    BY <1>1, <2>1, <2>2, LeftByDeparted DEF Departing, Departed
  <2>3. CASE Joining
    <3>1. PICK p \in Players, n \in Nat : \E store \in Stores(p) : \E g \in DOMAIN store :
            /\ sessions' = WithSession(store, g, Joined(store[g], p, n))
            /\ UNCHANGED nextGatheringID
      BY <2>3 DEF Joining
    <3>2. DOMAIN sessions' \subseteq DOMAIN sessions
      BY <1>1, <3>1, StoresDeparted DEF WithSession, Departed
    <3>3. QED
      BY <2>1, <3>1, <3>2
  <2>4. CASE Creating
    <3>0. PICK p \in Players, request \in Requests, n \in Nat :
            \E store \in Stores(p) : CreateAndJoin(store, p, request, n)
      BY <2>4 DEF Creating
    <3>1. PICK store \in Stores(p) : CreateAndJoin(store, p, request, n)
      BY <3>0
    <3>2. DOMAIN store \subseteq DOMAIN sessions
      BY <1>1, StoresDeparted DEF Departed
    <3>3. DOMAIN sessions' \subseteq DOMAIN store \cup {nextGatheringID}
      BY <3>1 DEF CreateAndJoin, WithSession
    <3>4. nextGatheringID' = nextGatheringID + 1
      BY <3>1 DEF CreateAndJoin
    <3>5. QED
      BY <2>1, <3>2, <3>3, <3>4
  <2>5. CASE Changing
    BY <2>1, <2>5 DEF Changing
  <2>6. QED
    BY <1>1, <2>2, <2>3, <2>4, <2>5, StepKinds
<1>2. IInv /\ [Next]_vars => [Fresh]_vars
  BY <1>1
<1>3. QED
  BY <1>2, Invariance, PTL DEF Spec, IDsAreNotReused

-----------------------------------------------------------------------------
(***************************************************************************)
(* Admission.                                                              *)
(***************************************************************************)

\* Only the player who joins becomes a member.
LEMMA JoinedRoster ==
  ASSUME NEW s, WellFormed(s), NEW p, NEW n
  PROVE  Roster(Joined(s, p, n)) \subseteq Roster(s) \cup {p}
BY DEF Joined, Roster, Seats, WellFormed, Session

\* A store that departures have left is sound.
LEMMA StoresSound ==
  ASSUME IInv, NEW p \in Players, NEW store \in Stores(p)
  PROVE  StoreSound(store)
BY RemoveConnectionIsSound DEF Stores, IInv

\* Every newcomer to a gathering met its rules of admission.
Admitted ==
  \A g \in Continuing : \A p \in Newcomers(g) :
    LET s == sessions[g]
    IN  /\ s.settings.openParticipation
        /\ s.settings.friendsOnly => s.owner \in Friends[p]

\* Every step admits by the rules.
LEMMA StepAdmits ==
  ASSUME IInv, Next
  PROVE  Admitted
<1>1. CASE Departing
  BY <1>1, LeftByDeparted DEF Departing, Departed, Admitted, Continuing, Newcomers, Roster
<1>2. CASE Joining
  <2>0. PICK p \in Players, n \in Nat : \E store \in Stores(p) : \E g \in DOMAIN store :
          /\ CanJoin(p, store[g])
          /\ sessions' = WithSession(store, g, Joined(store[g], p, n))
    BY <1>2 DEF Joining
  <2>1. PICK store \in Stores(p) : \E g \in DOMAIN store :
          /\ CanJoin(p, store[g])
          /\ sessions' = WithSession(store, g, Joined(store[g], p, n))
    BY <2>0
  <2>2. PICK g \in DOMAIN store :
          /\ CanJoin(p, store[g])
          /\ sessions' = WithSession(store, g, Joined(store[g], p, n))
    BY <2>1
  <2>3. Departed(store) /\ StoreSound(store)
    BY StoresDeparted, StoresSound
  <2>4. ASSUME NEW h \in Continuing, NEW q \in Newcomers(h)
        PROVE  h = g /\ q = p
    <3>1. h \in DOMAIN store
      BY <2>2, <2>4 DEF Continuing, WithSession
    <3>2. Roster(store[h]) \subseteq Roster(sessions[h])
      BY <2>3, <3>1 DEF Departed, Roster
    <3>3. CASE h = g
      <4>1. sessions'[h] = Joined(store[g], p, n)
        BY <2>2, <3>1, <3>3 DEF WithSession
      <4>2. Roster(Joined(store[g], p, n)) \subseteq Roster(store[g]) \cup {p}
        BY <2>3, JoinedRoster DEF StoreSound, Sound
      <4>3. QED
        BY <2>4, <3>2, <3>3, <4>1, <4>2 DEF Newcomers, Roster
    <3>4. CASE h # g
      <4>1. sessions'[h] = store[h]
        BY <2>2, <3>1, <3>4 DEF WithSession
      <4>2. QED
        BY <2>4, <3>2, <4>1 DEF Newcomers, Roster
    <3>5. QED
      BY <3>3, <3>4
  <2>5. CanJoin(p, sessions[g])
    BY <2>2, <2>3 DEF CanJoin, Departed
  <2>6. QED
    BY <2>4, <2>5 DEF Admitted, CanJoin
<1>3. CASE Creating
  <2>0. PICK p \in Players, request \in Requests, n \in Nat :
          \E store \in Stores(p) : CreateAndJoin(store, p, request, n)
    BY <1>3 DEF Creating
  <2>1. PICK store \in Stores(p) : CreateAndJoin(store, p, request, n)
    BY <2>0
  <2>2. Departed(store)
    BY StoresDeparted
  <2>3. nextGatheringID \notin DOMAIN sessions
    BY DEF IInv, IDsAreIssued, GatheringIDs
  <2>4. ASSUME NEW h \in Continuing
        PROVE  h \in DOMAIN store /\ sessions'[h] = store[h]
    BY <2>1, <2>3, <2>4 DEF CreateAndJoin, WithSession, Continuing
  <2>5. \A h \in Continuing : Newcomers(h) = {}
    BY <2>2, <2>4 DEF Departed, Newcomers, Roster
  <2>6. QED
    BY <2>5 DEF Admitted
<1>4. CASE Changing
  BY <1>4 DEF Changing, Admitted, Continuing, Newcomers, Roster
<1>5. QED
  BY <1>1, <1>2, <1>3, <1>4, StepKinds

\* No way into a gathering gets round its rules of admission.
THEOREM AdmissionControl == Spec => AdmissionIsControlled
<1>1. IInv /\ [Next]_vars => [Admitted]_sessions
  <2>1. ASSUME IInv, Next PROVE Admitted
    BY <2>1, StepAdmits
  <2>2. UNCHANGED vars => UNCHANGED sessions
    BY DEF vars
  <2>3. QED
    BY <2>1, <2>2
<1>2. QED
  BY <1>1, Invariance, PTL DEF Spec, AdmissionIsControlled, Admitted

-----------------------------------------------------------------------------
(***************************************************************************)
(* The maximum.                                                            *)
(***************************************************************************)

\* A party of n takes n seats.
LEMMA SeatsCount ==
  ASSUME NEW p, NEW n \in Nat
  PROVE  IsFiniteSet(Seats(p, n)) /\ Cardinality(Seats(p, n)) = n
<1>1. IsFiniteSet({p}) /\ Cardinality({p}) = 1
  BY FS_Singleton
<1>2. IsFiniteSet(1 .. n) /\ Cardinality(1 .. n) = n
  <2>1. 1 \in Int /\ n \in Int
    OBVIOUS
  <2>2. IsFiniteSet(1 .. n) /\ Cardinality(1 .. n) = IF 1 > n THEN 0 ELSE n - 1 + 1
    BY <2>1, FS_Interval
  <2>3. QED
    BY <2>2
<1>3. /\ IsFiniteSet({p} \X (1 .. n))
      /\ Cardinality({p} \X (1 .. n)) = Cardinality({p}) * Cardinality(1 .. n)
  BY <1>1, <1>2, FS_Product
<1>4. Cardinality({p} \X (1 .. n)) = n
  BY <1>1, <1>2, <1>3
<1>5. QED
  BY <1>3, <1>4 DEF Seats

\* Within the maximum, if there is one.
Fits(s) ==
  \/ s.settings.maximumParticipants = 0
  \/ ParticipationCount(s) <= s.settings.maximumParticipants

\* JoinLocked seats a party only if all of it fits.
LEMMA JoinedFits ==
  ASSUME NEW s, WellFormed(s), NEW p, NEW n \in Nat, Accepts(s, p, n)
  PROVE  Fits(Joined(s, p, n))
<1> DEFINE seats == Seats(p, PartySize(n))
<1>1. PartySize(n) \in Nat /\ s \in Session /\ IsFiniteSet(s.participants)
  BY DEF PartySize, WellFormed
<1>2. IsFiniteSet(seats) /\ Cardinality(seats) = PartySize(n)
  BY <1>1, SeatsCount
<1>3. s.participants \cap seats = {}
  BY DEF Accepts, Contains, Seats
<1>4. Cardinality(s.participants \cup seats) = Cardinality(s.participants) + PartySize(n)
  <2>1. Cardinality(s.participants \cup seats)
          = Cardinality(s.participants) + Cardinality(seats)
              - Cardinality(s.participants \cap seats)
    BY <1>1, <1>2, FS_Union
  <2>2. Cardinality(s.participants \cap seats) = 0
    BY <1>3, FS_EmptySet
  <2>3. Cardinality(s.participants) \in Nat
    BY <1>1, FS_CardinalityType
  <2>4. QED
    BY <1>1, <1>2, <2>1, <2>2, <2>3
<1>5. /\ Joined(s, p, n).settings = s.settings
      /\ Joined(s, p, n).participants = s.participants \cup seats
  BY <1>1 DEF Joined, Session
<1>6. s.settings.maximumParticipants # 0
        => ParticipationCount(s) + PartySize(n) <= s.settings.maximumParticipants
  BY DEF Accepts, HasRoom
<1>7. QED
  BY <1>4, <1>5, <1>6 DEF Fits, ParticipationCount

\* A gathering that has only lost seats has no more of them.
LEMMA FewerSeats ==
  ASSUME NEW s, WellFormed(s), NEW t, t.participants \subseteq s.participants
  PROVE  ParticipationCount(t) <= ParticipationCount(s)
BY FS_Subset DEF ParticipationCount, WellFormed

\* No gathering grows past its maximum.
NotOverfilled ==
  \A g \in DOMAIN sessions' :
    LET before == IF g \in DOMAIN sessions THEN ParticipationCount(sessions[g]) ELSE 0
        maximum == sessions'[g].settings.maximumParticipants
    IN  \/ ParticipationCount(sessions'[g]) <= before
        \/ maximum = 0
        \/ ParticipationCount(sessions'[g]) <= maximum

\* Every step respects the maxima.
LEMMA StepFits ==
  ASSUME IInv, Next
  PROVE  NotOverfilled
<1> DEFINE Fine(g) ==
      \/ /\ g \in DOMAIN sessions
         /\ ParticipationCount(sessions'[g]) <= ParticipationCount(sessions[g])
      \/ Fits(sessions'[g])
<1>1. ASSUME NEW g \in DOMAIN sessions,
             sessions'[g].participants \subseteq sessions[g].participants
      PROVE  Fine(g)
  <2>1. WellFormed(sessions[g])
    BY DEF IInv, StoreSound, Sound
  <2>2. QED
    BY <1>1, <2>1, FewerSeats
<1>2. CASE Departing \/ Changing
  <2>1. ASSUME NEW g \in DOMAIN sessions'
        PROVE  /\ g \in DOMAIN sessions
               /\ sessions'[g].participants \subseteq sessions[g].participants
    BY <1>2, LeftByDeparted DEF Departing, Departed, Changing
  <2>2. \A g \in DOMAIN sessions' : Fine(g)
    BY <1>1, <2>1
  <2>3. QED
    BY <2>2 DEF NotOverfilled, Fits
<1>3. ASSUME NEW p \in Players, NEW store \in Stores(p), NEW g, NEW s, Fits(s),
             sessions' = WithSession(store, g, s)
      PROVE  NotOverfilled
  <2>1. Departed(store)
    BY StoresDeparted
  <2>2. ASSUME NEW h \in DOMAIN sessions', h # g
        PROVE  /\ h \in DOMAIN sessions
               /\ sessions'[h].participants \subseteq sessions[h].participants
    BY <1>3, <2>1, <2>2 DEF WithSession, Departed
  <2>3. g \in DOMAIN sessions' => Fits(sessions'[g])
    BY <1>3 DEF WithSession
  <2>4. \A h \in DOMAIN sessions' : Fine(h)
    BY <1>1, <2>2, <2>3
  <2>5. QED
    BY <2>4 DEF NotOverfilled, Fits
<1>4. CASE Joining
  <2>1. PICK p \in Players, n \in Nat : \E store \in Stores(p) : \E g \in DOMAIN store :
          /\ Accepts(store[g], p, n)
          /\ sessions' = WithSession(store, g, Joined(store[g], p, n))
    BY <1>4 DEF Joining
  <2>2. PICK store \in Stores(p) : \E g \in DOMAIN store :
          /\ Accepts(store[g], p, n)
          /\ sessions' = WithSession(store, g, Joined(store[g], p, n))
    BY <2>1
  <2>3. PICK g \in DOMAIN store :
          /\ Accepts(store[g], p, n)
          /\ sessions' = WithSession(store, g, Joined(store[g], p, n))
    BY <2>2
  <2>4. WellFormed(store[g])
    BY StoresSound DEF StoreSound, Sound
  <2>5. Fits(Joined(store[g], p, n))
    BY <2>3, <2>4, JoinedFits
  <2>6. QED
    BY <1>3, <2>3, <2>5
<1>5. CASE Creating
  <2>1. PICK p \in Players, request \in Requests, n \in Nat :
          \E store \in Stores(p) : CreateAndJoin(store, p, request, n)
    BY <1>5 DEF Creating
  <2>2. PICK store \in Stores(p) : CreateAndJoin(store, p, request, n)
    BY <2>1
  <2>3. WellFormed(Created(p, request))
    <3>1. request \in Settings
      BY ParametersAssumption DEF ParametersAssumption
    <3>2. IsFiniteSet({})
      BY FS_EmptySet
    <3>3. QED
      BY <3>1, <3>2 DEF Created, WellFormed, Session
  <2>4. CASE Accepts(Created(p, request), p, n)
    <3>1. Fits(Joined(Created(p, request), p, n))
      BY <2>3, <2>4, JoinedFits
    <3>2. sessions' = WithSession(store, nextGatheringID, Joined(Created(p, request), p, n))
      BY <2>2, <2>4 DEF CreateAndJoin
    <3>3. QED
      BY <1>3, <3>1, <3>2
  <2>5. CASE ~Accepts(Created(p, request), p, n)
    <3>1. sessions' = store
      BY <2>2, <2>5 DEF CreateAndJoin
    <3>2. Departed(sessions')
      BY <3>1, StoresDeparted
    <3>3. \A g \in DOMAIN sessions' : Fine(g)
      BY <1>1, <3>2 DEF Departed
    <3>4. QED
      BY <3>3 DEF NotOverfilled, Fits
  <2>6. QED
    BY <2>4, <2>5
<1>6. QED
  BY <1>2, <1>4, <1>5, StepKinds

\* However the owner has changed the maximum, and however large the party, no
\* gathering gains a seat beyond it.
THEOREM MaximaKept == Spec => NeverOverfilled
<1>1. IInv /\ [Next]_vars => [NotOverfilled]_sessions
  <2>1. ASSUME IInv, Next PROVE NotOverfilled
    BY <2>1, StepFits
  <2>2. UNCHANGED vars => UNCHANGED sessions
    BY DEF vars
  <2>3. QED
    BY <2>1, <2>2
<1>2. QED
  BY <1>1, Invariance, PTL DEF Spec, NeverOverfilled, NotOverfilled

-----------------------------------------------------------------------------
(***************************************************************************)
(* Parties.                                                                *)
(***************************************************************************)

\* The seats p holds in s.
PartyOf(s, p) == {seat \in s.participants : seat[1] = p}

\* Everyone in s holds the seats of one whole party.
WholeParties(s) == \A p \in Roster(s) : \E k \in Nat \ {0} : PartyOf(s, p) = Seats(p, k)

\* Inductive together with IInv.
PartiesInv == \A g \in DOMAIN sessions : WholeParties(sessions[g])

\* A gathering is created empty.
LEMMA CreatedIsEmpty ==
  ASSUME NEW p \in Players, NEW request \in Requests
  PROVE  WellFormed(Created(p, request)) /\ Roster(Created(p, request)) = {}
BY ParametersAssumption, FS_EmptySet DEF Created, WellFormed, Session, Roster

\* A departing player takes all its seats and no one else's.
LEMMA LeftWhole ==
  ASSUME NEW s, WellFormed(s), WholeParties(s), NEW p
  PROVE  WholeParties(Left(s, p))
<1>1. Left(s, p).participants = {seat \in s.participants : seat[1] # p}
  BY DEF Left, WellFormed, Session
<1>2. ASSUME NEW q \in Roster(Left(s, p))
      PROVE  q \in Roster(s) /\ PartyOf(Left(s, p), q) = PartyOf(s, q)
  BY <1>1, <1>2 DEF Roster, PartyOf
<1>3. QED
  BY <1>2 DEF WholeParties

\* A party that is accepted joins players who are not in it.
LEMMA JoinedWhole ==
  ASSUME NEW s, WellFormed(s), WholeParties(s), NEW p, NEW n \in Nat, Accepts(s, p, n)
  PROVE  WholeParties(Joined(s, p, n))
<1> DEFINE t == Joined(s, p, n)
<1>1. t.participants = s.participants \cup Seats(p, PartySize(n))
  BY DEF Joined, WellFormed, Session
<1>2. \A seat \in s.participants : seat[1] # p
  BY DEF Accepts, Contains
<1>3. \A seat \in Seats(p, PartySize(n)) : seat[1] = p
  BY DEF Seats
<1>4. PartySize(n) \in Nat \ {0}
  BY DEF PartySize
<1> HIDE DEF t
<1>5. PartyOf(t, p) = Seats(p, PartySize(n))
  BY <1>1, <1>2, <1>3 DEF PartyOf
<1>6. ASSUME NEW q \in Roster(t), q # p
      PROVE  q \in Roster(s) /\ PartyOf(t, q) = PartyOf(s, q)
  BY <1>1, <1>3, <1>6 DEF Roster, PartyOf
<1>7. QED
  BY <1>4, <1>5, <1>6 DEF WholeParties, t

\* Whoever leaves whatever gatherings, parties stay whole.
LEMMA LeftByWhole ==
  ASSUME IInv, PartiesInv, NEW p, NEW D, NEW store, LeftBy(store, p, D)
  PROVE  \A g \in DOMAIN store : WholeParties(store[g])
<1>1. \A g \in DOMAIN sessions : WellFormed(sessions[g]) /\ WholeParties(sessions[g])
  BY DEF IInv, StoreSound, Sound, PartiesInv
<1>2. \A g \in DOMAIN sessions : WholeParties(Left(sessions[g], p))
  BY <1>1, LeftWhole
<1>3. QED
  BY <1>1, <1>2 DEF LeftBy

\* Every step keeps parties whole.
LEMMA StepKeepsParties ==
  ASSUME IInv, PartiesInv, Next
  PROVE  PartiesInv'
<1>1. CASE Departing
  BY <1>1, LeftByWhole DEF Departing, PartiesInv
<1>2. ASSUME NEW p \in Players, NEW store \in Stores(p)
      PROVE  \A g \in DOMAIN store : WellFormed(store[g]) /\ WholeParties(store[g])
  BY <1>2, StoresLeft, LeftByWhole, StoresSound DEF StoreSound, Sound
<1>3. CASE Joining
  <2>1. PICK p \in Players, n \in Nat : \E store \in Stores(p) : \E g \in DOMAIN store :
          /\ Accepts(store[g], p, n)
          /\ sessions' = WithSession(store, g, Joined(store[g], p, n))
    BY <1>3 DEF Joining
  <2>2. PICK store \in Stores(p) : \E g \in DOMAIN store :
          /\ Accepts(store[g], p, n)
          /\ sessions' = WithSession(store, g, Joined(store[g], p, n))
    BY <2>1
  <2>3. PICK g \in DOMAIN store :
          /\ Accepts(store[g], p, n)
          /\ sessions' = WithSession(store, g, Joined(store[g], p, n))
    BY <2>2
  <2>4. WholeParties(Joined(store[g], p, n))
    BY <1>2, <2>3, JoinedWhole
  <2>5. QED
    BY <1>2, <2>3, <2>4 DEF PartiesInv, WithSession
<1>4. CASE Creating
  <2>1. PICK p \in Players, request \in Requests, n \in Nat :
          \E store \in Stores(p) : CreateAndJoin(store, p, request, n)
    BY <1>4 DEF Creating
  <2>2. PICK store \in Stores(p) : CreateAndJoin(store, p, request, n)
    BY <2>1
  <2>3. WellFormed(Created(p, request)) /\ WholeParties(Created(p, request))
    BY CreatedIsEmpty DEF WholeParties
  <2>4. Accepts(Created(p, request), p, n)
          => WholeParties(Joined(Created(p, request), p, n))
    BY <2>3, JoinedWhole
  <2>5. QED
    BY <1>2, <2>2, <2>4 DEF CreateAndJoin, PartiesInv, WithSession
<1>5. CASE Changing
  BY <1>5 DEF Changing, PartiesInv, WholeParties, PartyOf, Roster
<1>6. QED
  BY <1>1, <1>3, <1>4, <1>5, StepKinds

\* A console holds the seats of the one party it came with: it is never left
\* with a guest's seat only, and never seated twice.
THEOREM WholePartiesKept == Spec => []PartiesAreWhole
<1>1. Init => PartiesInv
  BY DEF Init, PartiesInv
<1>2. IInv /\ PartiesInv /\ [Next]_vars => PartiesInv'
  <2>1. UNCHANGED vars /\ PartiesInv => PartiesInv'
    BY DEF vars, PartiesInv, WholeParties, PartyOf, Roster
  <2>2. QED
    BY <2>1, StepKeepsParties
<1>3. IInv /\ PartiesInv => PartiesAreWhole
  <2> SUFFICES ASSUME IInv, PartiesInv, NEW g \in DOMAIN sessions,
                      NEW p \in Roster(sessions[g])
               PROVE  \E k \in 1 .. ParticipationCount(sessions[g]) :
                        {seat \in sessions[g].participants : seat[1] = p} = Seats(p, k)
    BY DEF PartiesAreWhole
  <2>1. PICK k \in Nat \ {0} : PartyOf(sessions[g], p) = Seats(p, k)
    BY DEF PartiesInv, WholeParties
  <2>2. IsFiniteSet(sessions[g].participants)
    BY DEF IInv, StoreSound, Sound, WellFormed
  <2>3. Seats(p, k) \subseteq sessions[g].participants
    BY <2>1 DEF PartyOf
  <2>4. k <= ParticipationCount(sessions[g])
    <3>1. Cardinality(Seats(p, k)) = k
      BY SeatsCount
    <3>2. Cardinality(Seats(p, k)) <= Cardinality(sessions[g].participants)
      BY <2>2, <2>3, FS_Subset
    <3>3. QED
      BY <3>1, <3>2 DEF ParticipationCount
  <2>5. ParticipationCount(sessions[g]) \in Nat
    BY <2>2, FS_CardinalityType DEF ParticipationCount
  <2>6. k \in 1 .. ParticipationCount(sessions[g])
    BY <2>4, <2>5
  <2>7. QED
    BY <2>1, <2>6 DEF PartyOf
<1>4. QED
  BY <1>1, <1>2, <1>3, Invariance, PTL DEF Spec

-----------------------------------------------------------------------------
(***************************************************************************)
(* The store implements the registry of lobbies.                           *)
(***************************************************************************)

\* The lobbies a store stands for.
Lobbies(store) ==
  [g \in DOMAIN store |-> [leader |-> store[g].owner, members |-> Roster(store[g])]]

\* The gatherings among D that p is in.
Quits(p, D) == {g \in D : Contains(sessions[g], p)}

\* What departures leave is what the registry says they leave: as an owner is
\* always seated, a gathering ends exactly when its owner is the one to go.
LEMMA LeftByAfter ==
  ASSUME IInv, NEW p \in Players, NEW D \in SUBSET DOMAIN sessions, NEW store,
         LeftBy(store, p, D)
  PROVE  Lobbies(store) = Registry!After(p, Quits(p, D))
<1> DEFINE quits == Quits(p, D)
           lobbies == Lobbies(sessions)
<1>1. ASSUME NEW g \in DOMAIN sessions
      PROVE  /\ Contains(sessions[g], p) <=> p \in Roster(sessions[g])
             /\ sessions[g].owner \in Roster(sessions[g])
             /\ sessions[g] \in Session
  BY DEF Contains, Roster, IInv, StoreSound, Sound, WellFormed
<1>2. \A g \in DOMAIN sessions :
        Survives(sessions[g], p) <=> (Contains(sessions[g], p) => sessions[g].owner # p)
  BY <1>1 DEF Survives
<1>3. DOMAIN store = {g \in DOMAIN sessions : g \in quits => sessions[g].owner # p}
  BY <1>2 DEF LeftBy, Quits
<1>4. ASSUME NEW g \in DOMAIN store
      PROVE  /\ store[g].owner = sessions[g].owner
             /\ Roster(store[g]) = IF g \in quits THEN Roster(sessions[g]) \ {p}
                                                  ELSE Roster(sessions[g])
  <2>1. g \in DOMAIN sessions
    BY <1>3, <1>4
  <2>2. CASE g \notin D
    BY <2>1, <2>2 DEF LeftBy, Quits
  <2>3. CASE g \in D
    <3>1. store[g] = Left(sessions[g], p)
      BY <2>3 DEF LeftBy
    <3>2. /\ store[g].owner = sessions[g].owner
          /\ store[g].participants = {seat \in sessions[g].participants : seat[1] # p}
      BY <1>1, <2>1, <3>1 DEF Left, Session
    <3>3. Roster(store[g]) = Roster(sessions[g]) \ {p}
      BY <3>2 DEF Roster
    <3>4. g \in quits <=> p \in Roster(sessions[g])
      BY <1>1, <2>1, <2>3 DEF Quits
    <3>5. QED
      BY <3>2, <3>3, <3>4
  <2>4. QED
    BY <2>2, <2>3
<1>5. \A g \in DOMAIN store :
        [leader |-> store[g].owner, members |-> Roster(store[g])]
          = IF g \in quits THEN [lobbies[g] EXCEPT !.members = @ \ {p}] ELSE lobbies[g]
  BY <1>3, <1>4 DEF Lobbies
<1>6. Registry!After(p, quits) =
        [g \in DOMAIN store |->
           IF g \in quits THEN [lobbies[g] EXCEPT !.members = @ \ {p}] ELSE lobbies[g]]
  BY <1>3 DEF Registry!After, Lobbies
<1>7. QED
  BY <1>5, <1>6 DEF Lobbies

\* Seating p makes it a member and changes nothing else.
LEMMA JoinedLobby ==
  ASSUME NEW store, StoreSound(store), NEW g \in DOMAIN store, NEW p \in Players, NEW n \in Nat
  PROVE  Lobbies(WithSession(store, g, Joined(store[g], p, n)))
           = [Lobbies(store) EXCEPT ![g].members = @ \cup {p}]
<1>1. WellFormed(store[g])
  BY DEF StoreSound, Sound
<1>2. /\ Joined(store[g], p, n).owner = store[g].owner
      /\ Roster(Joined(store[g], p, n)) = Roster(store[g]) \cup {p}
  BY <1>1, JoinedFacts, JoinedRoster
<1>3. QED
  BY <1>2 DEF WithSession, Lobbies

\* The lobbies of after are those of store and one more, with p alone in it.
OneMore(after, store, g, p) ==
  /\ DOMAIN Lobbies(after) = DOMAIN store \cup {g}
  /\ Lobbies(after)[g] = [leader |-> p, members |-> {p}]
  /\ \A h \in DOMAIN store : Lobbies(after)[h] = Lobbies(store)[h]

\* A gathering that is made and joined has its maker alone as member.
LEMMA CreatedLobby ==
  ASSUME NEW store, NEW g, g \notin DOMAIN store, NEW p \in Players, NEW request \in Requests,
         NEW n \in Nat,
         NEW after, after = WithSession(store, g, Joined(Created(p, request), p, n))
  PROVE  OneMore(after, store, g, p)
<1> DEFINE s == Joined(Created(p, request), p, n)
<1>1. WellFormed(Created(p, request)) /\ Roster(Created(p, request)) = {}
  BY CreatedIsEmpty
<1>2. s.owner = p
  BY <1>1, JoinedFacts DEF Created
<1>3. Roster(s) = {p}
  BY <1>1, JoinedFacts, JoinedRoster
<1> HIDE DEF s
<1>4. after = WithSession(store, g, s)
  BY DEF s
<1>5. QED
  BY <1>2, <1>3, <1>4 DEF OneMore, WithSession, Lobbies

\* Every step of the store is a step of the registry.
LEMMA StepIsRegistered ==
  ASSUME IInv, Next
  PROVE  Registry!Next
<1>1. nextGatheringID \in Nat /\ \A g \in DOMAIN sessions : g < nextGatheringID
  BY DEF IInv, IDsAreIssued, GatheringIDs
<1>2. ASSUME NEW p \in Players, NEW D \in SUBSET DOMAIN sessions
      PROVE  Quits(p, D) \in SUBSET {g \in DOMAIN sessions : p \in Roster(sessions[g])}
  BY DEF Quits, Contains, Roster
<1>3. ASSUME NEW p \in Players, NEW D \in SUBSET DOMAIN sessions,
             \/ Registry!Leave(p, Quits(p, D))
             \/ Registry!Open(p, Quits(p, D))
             \/ \E g \in DOMAIN sessions : Registry!Enter(p, Quits(p, D), g)
      PROVE  Registry!Next
  <2>1. {g \in DOMAIN Lobbies(sessions) : p \in Lobbies(sessions)[g].members}
          = {g \in DOMAIN sessions : p \in Roster(sessions[g])}
    BY DEF Lobbies
  <2>2. /\ Quits(p, D) \in SUBSET {g \in DOMAIN Lobbies(sessions) :
                                     p \in Lobbies(sessions)[g].members}
        /\ DOMAIN Lobbies(sessions) = DOMAIN sessions
    BY <1>2, <2>1 DEF Lobbies
  <2> DEFINE lobbies == Lobbies(sessions)
             Steps(q, quits) == \/ Registry!Leave(q, quits)
                                \/ Registry!Open(q, quits)
                                \/ \E g \in DOMAIN lobbies : Registry!Enter(q, quits, g)
  <2>3. Registry!Next <=>
          \/ \E q \in Players :
               \E quits \in SUBSET {g \in DOMAIN lobbies : q \in lobbies[g].members} :
                 Steps(q, quits)
          \/ \E g \in DOMAIN lobbies, q \in Players : Registry!PassLead(g, q)
    BY DEF Registry!Next, Lobbies
  <2>4. Steps(p, Quits(p, D))
    BY <1>3, <2>2
  <2> HIDE DEF Steps
  <2>5. QED
    BY <2>2, <2>3, <2>4
<1>4. CASE Departing
  <2>1. PICK p \in Players, D \in SUBSET DOMAIN sessions : LeftBy(sessions', p, D)
    BY <1>4 DEF Departing
  <2>2. Lobbies(sessions') = Registry!After(p, Quits(p, D))
    BY <2>1, LeftByAfter
  <2>3. Registry!Leave(p, Quits(p, D))
    BY <1>4, <2>2 DEF Departing, Registry!Leave, Lobbies
  <2>4. QED
    BY <1>3, <2>3
<1>5. CASE Joining
  <2>1. PICK p \in Players, n \in Nat : \E store \in Stores(p) : \E g \in DOMAIN store :
          /\ sessions' = WithSession(store, g, Joined(store[g], p, n))
          /\ UNCHANGED nextGatheringID
    BY <1>5 DEF Joining
  <2>2. PICK store \in Stores(p) : \E g \in DOMAIN store :
          /\ sessions' = WithSession(store, g, Joined(store[g], p, n))
          /\ UNCHANGED nextGatheringID
    BY <2>1
  <2>3. PICK g \in DOMAIN store :
          /\ sessions' = WithSession(store, g, Joined(store[g], p, n))
          /\ UNCHANGED nextGatheringID
    BY <2>2
  <2>4. PICK D \in SUBSET DOMAIN sessions : LeftBy(store, p, D)
    BY StoresLeft
  <2>5. Lobbies(store) = Registry!After(p, Quits(p, D))
    BY <2>4, LeftByAfter
  <2>6. Lobbies(sessions') = [Lobbies(store) EXCEPT ![g].members = @ \cup {p}]
    BY <2>3, JoinedLobby, StoresSound
  <2>7. g \in DOMAIN sessions /\ g \in DOMAIN Lobbies(store)
    BY <2>4 DEF LeftBy, Lobbies
  <2>8. Registry!Enter(p, Quits(p, D), g)
    BY <2>3, <2>5, <2>6, <2>7 DEF Registry!Enter, Lobbies
  <2>9. QED
    BY <1>3, <2>7, <2>8
<1>6. CASE Creating
  <2>1. PICK p \in Players, request \in Requests, n \in Nat :
          \E store \in Stores(p) : CreateAndJoin(store, p, request, n)
    BY <1>6 DEF Creating
  <2>2. PICK store \in Stores(p) : CreateAndJoin(store, p, request, n)
    BY <2>1
  <2>3. PICK D \in SUBSET DOMAIN sessions : LeftBy(store, p, D)
    BY StoresLeft
  <2>4. Lobbies(store) = Registry!After(p, Quits(p, D))
    BY <2>3, LeftByAfter
  <2>5. nextGatheringID' = nextGatheringID + 1
    BY <2>2 DEF CreateAndJoin
  <2>6. CASE Accepts(Created(p, request), p, n)
    <3>1. sessions' = WithSession(store, nextGatheringID, Joined(Created(p, request), p, n))
      BY <2>2, <2>6 DEF CreateAndJoin
    <3>2. nextGatheringID \notin DOMAIN store
      BY <1>1, <2>3 DEF LeftBy
    <3>3. Lobbies(sessions') =
            [h \in DOMAIN Lobbies(store) \cup {nextGatheringID} |->
               IF h = nextGatheringID THEN [leader |-> p, members |-> {p}] ELSE Lobbies(store)[h]]
      <4>1. DOMAIN Lobbies(store) = DOMAIN store
        BY DEF Lobbies
      <4>2. OneMore(sessions', store, nextGatheringID, p)
        BY <3>1, <3>2, CreatedLobby
      <4> DEFINE after == Lobbies(sessions')
      <4>3. after = [h \in DOMAIN after |-> after[h]]
        BY DEF Lobbies
      <4> HIDE DEF after
      <4>4. after = [h \in DOMAIN Lobbies(store) \cup {nextGatheringID} |->
                       IF h = nextGatheringID THEN [leader |-> p, members |-> {p}]
                                              ELSE Lobbies(store)[h]]
        BY <4>1, <4>2, <4>3 DEF OneMore, after
      <4>5. QED
        BY <4>4 DEF after
    <3>4. nextGatheringID' - 1 = nextGatheringID /\ nextGatheringID = nextGatheringID - 1 + 1
      BY <1>1, <2>5
    <3>5. Registry!Open(p, Quits(p, D))
      BY <2>4, <3>3, <3>4 DEF Registry!Open, Lobbies
    <3>6. QED
      BY <1>3, <3>5
  <2>7. CASE ~Accepts(Created(p, request), p, n)
    <3>1. sessions' = store
      BY <2>2, <2>7 DEF CreateAndJoin
    <3>2. nextGatheringID' - 1 = nextGatheringID - 1 + 1
      BY <1>1, <2>5
    <3>3. Registry!Leave(p, Quits(p, D))
      BY <2>4, <3>1, <3>2 DEF Registry!Leave, Lobbies
    <3>4. QED
      BY <1>3, <3>3
  <2>8. QED
    BY <2>6, <2>7
<1>7. CASE Changing
  <2>0. PICK g \in DOMAIN sessions :
          \E q \in Roster(sessions[g]) : \A h \in DOMAIN sessions :
            sessions'[h].owner = IF h = g THEN q ELSE sessions[h].owner
    BY <1>7 DEF Changing
  <2>1. PICK q \in Roster(sessions[g]) :
          \A h \in DOMAIN sessions :
            sessions'[h].owner = IF h = g THEN q ELSE sessions[h].owner
    BY <2>0
  <2>2. q \in Players
    BY DEF Roster, IInv, StoreSound, Sound, WellFormed, Session
  <2>3. /\ DOMAIN sessions' = DOMAIN sessions
        /\ \A h \in DOMAIN sessions : Roster(sessions'[h]) = Roster(sessions[h])
    BY <1>7 DEF Changing, Roster
  <2>4. Lobbies(sessions') = [Lobbies(sessions) EXCEPT ![g].leader = q]
    BY <2>1, <2>3 DEF Lobbies
  <2>5. Registry!PassLead(g, q)
    BY <1>7, <2>4 DEF Changing, Registry!PassLead, Lobbies
  <2>6. QED
    BY <2>2, <2>5 DEF Registry!Next
<1>8. QED
  BY <1>4, <1>5, <1>6, <1>7, StepKinds

\* Every handler and every teardown does to the store only what the registry
\* of lobbies allows, for any players, requests and friend lists.
THEOREM Implementation == Spec => ImplementsLobbyRegistry
<1>1. Init => Registry!Init
  BY DEF Init, Registry!Init
<1>2. IInv /\ [Next]_vars => [Registry!Next]_(Registry!vars)
  <2>1. UNCHANGED vars => UNCHANGED Registry!vars
    BY DEF vars, Registry!vars, Roster
  <2>2. QED
    BY <2>1, StepIsRegistered
<1>3. QED
  BY <1>1, <1>2, Invariance, PTL DEF Spec, ImplementsLobbyRegistry, Registry!Spec
-----------------------------------------------------------------------------
(***************************************************************************)
(* Automatic matchmaking.                                                  *)
(***************************************************************************)

\* Once p has dropped its memberships it takes part in no gathering.
LEMMA DroppedIsAbsent ==
  ASSUME IInv, NEW p \in Players, NEW g \in DOMAIN RemoveConnection(sessions, p)
  PROVE  ~Contains(RemoveConnection(sessions, p)[g], p)
<1>1. RemoveConnection(sessions, p)[g] = Left(sessions[g], p) /\ Sound(sessions[g])
  BY DEF RemoveConnection, IInv, StoreSound
<1>2. Left(sessions[g], p).participants = {seat \in sessions[g].participants : seat[1] # p}
  BY <1>1 DEF Left, Sound, WellFormed, Session
<1>3. QED
  BY <1>1, <1>2 DEF Contains

\* What the searches find can be joined: open to p, with a seat for it, p absent.
Joinable(store, p) ==
  {g \in DOMAIN store : CanJoin(p, store[g]) /\ Accepts(store[g], p, 1)}

\* The plain search finds what p can join.
LEMMA FoundIsJoinable ==
  ASSUME IInv, NEW p \in Players, NEW request
  PROVE  LET store == RemoveConnection(sessions, p)
         IN  FindSession(store, p, request) \subseteq Joinable(store, p)
<1> DEFINE store == RemoveConnection(sessions, p)
<1>1. \A g \in DOMAIN store : ~Contains(store[g], p)
  BY DroppedIsAbsent
<1> HIDE DEF store
<1>2. FindSession(store, p, request) \subseteq Joinable(store, p)
  BY <1>1 DEF FindSession, FriendsMayFind, Joinable, CanJoin, Accepts, PartySize
<1>3. QED
  BY <1>2 DEF store

\* So does the search with criteria, which asks for at least one vacant seat.
LEMMA SearchedIsJoinable ==
  ASSUME IInv, NEW p \in Players, NEW criterias \in CriteriaLists
  PROVE  LET store == RemoveConnection(sessions, p)
         IN  Search(store, p, criterias) \subseteq Joinable(store, p)
<1> DEFINE store == RemoveConnection(sessions, p)
<1>1. \A g \in DOMAIN store : ~Contains(store[g], p) /\ Sound(store[g])
  BY DroppedIsAbsent, RemoveConnectionIsSound DEF IInv, StoreSound
<1> HIDE DEF store
<1>2. ASSUME NEW g \in Search(store, p, criterias) PROVE g \in Joinable(store, p)
  <2>1. PICK i \in DOMAIN criterias : g \in MatchCriteria(store, p, criterias[i])
    BY <1>2 DEF Search
  <2>2. criterias[i] \in Criteria
    BY <2>1, ParametersAssumption DEF ParametersAssumption
  <2>3. PartySize(criterias[i].vacantParticipants) \in Nat \ {0}
    BY <2>2 DEF Criteria, PartySize
  <2>4. /\ g \in DOMAIN store
        /\ CanJoin(p, store[g])
        /\ HasRoom(store[g], PartySize(criterias[i].vacantParticipants))
    BY <2>1 DEF MatchCriteria, FriendsMayFind, CanJoin
  <2>5. ParticipationCount(store[g]) \in Nat /\ store[g].settings.maximumParticipants \in Nat
    BY <1>1, <2>4, FS_CardinalityType
       DEF Sound, WellFormed, Session, Settings, ParticipationCount
  <2>6. HasRoom(store[g], 1)
    BY <2>3, <2>4, <2>5 DEF HasRoom
  <2>7. QED
    BY <1>1, <2>4, <2>6 DEF Joinable, Accepts, PartySize
<1>3. Search(store, p, criterias) \subseteq Joinable(store, p)
  BY <1>2
<1>4. QED
  BY <1>3 DEF store

\* A player seated in one more gathering of a store it was absent from is in
\* that gathering alone.
LEMMA SeatedAlone ==
  ASSUME NEW store, NEW p, NEW g, NEW s, Contains(s, p),
         \A h \in DOMAIN store : ~Contains(store[h], p)
  PROVE  GatheringsOf(WithSession(store, g, s), p) = {g}
BY DEF GatheringsOf, WithSession

\* Joining takes a seat.
LEMMA JoinedContains ==
  ASSUME NEW s, WellFormed(s), NEW p \in Players
  PROVE  Contains(Joined(s, p, 1), p)
<1>1. p \in Roster(Joined(s, p, 1))
  BY JoinedFacts
<1>2. QED
  BY <1>1 DEF Roster, Contains

\* Joining what can be joined, or else creating, seats the player once.
LEMMA JoinOrCreateSeatsOnce ==
  ASSUME IInv, NEW p \in Players, NEW request \in Requests, NEW candidates,
         candidates \subseteq Joinable(RemoveConnection(sessions, p), p),
         JoinOrCreate(RemoveConnection(sessions, p), p, candidates, request)
  PROVE  \E g \in DOMAIN sessions' : GatheringsOf(sessions', p) = {g}
<1> DEFINE store == RemoveConnection(sessions, p)
<1>1. \A g \in DOMAIN store : ~Contains(store[g], p) /\ Sound(store[g])
  BY DroppedIsAbsent, RemoveConnectionIsSound DEF IInv, StoreSound
<1>2. candidates \subseteq Joinable(store, p) /\ JoinOrCreate(store, p, candidates, request)
  OBVIOUS
<1> HIDE DEF store
<1>3. ASSUME NEW g, NEW s, Contains(s, p), sessions' = WithSession(store, g, s)
      PROVE  \E h \in DOMAIN sessions' : GatheringsOf(sessions', p) = {h}
  <2>1. GatheringsOf(WithSession(store, g, s), p) = {g}
    BY <1>1, <1>3, SeatedAlone
  <2>2. g \in DOMAIN WithSession(store, g, s)
    BY DEF WithSession
  <2>3. QED
    BY <1>3, <2>1, <2>2
<1>4. CASE CreateAndJoin(store, p, request, 1)
  <2> DEFINE fresh == Created(p, request)
  <2>1. WellFormed(fresh)
    BY ParametersAssumption, FS_EmptySet
       DEF ParametersAssumption, Created, WellFormed, Session
  <2>2. Accepts(fresh, p, 1)
    <3>1. ParticipationCount(fresh) = 0
      BY FS_EmptySet DEF Created, ParticipationCount
    <3>2. fresh.settings.maximumParticipants \in Nat
      BY <2>1 DEF WellFormed, Session, Settings
    <3>3. ~Contains(fresh, p)
      BY DEF Created, Contains
    <3> HIDE DEF fresh
    <3>4. QED
      BY <3>1, <3>2, <3>3 DEF Accepts, HasRoom, PartySize
  <2>3. sessions' = WithSession(store, nextGatheringID, Joined(fresh, p, 1))
    BY <1>4, <2>2 DEF CreateAndJoin
  <2>4. Contains(Joined(fresh, p, 1), p)
    BY <2>1, JoinedContains
  <2>5. QED
    BY <1>3, <2>3, <2>4
<1>5. ASSUME NEW g \in candidates,
             sessions' = IF Accepts(store[g], p, 1)
                         THEN WithSession(store, g, Joined(store[g], p, 1))
                         ELSE store
      PROVE  \E h \in DOMAIN sessions' : GatheringsOf(sessions', p) = {h}
  <2>1. g \in DOMAIN store /\ Accepts(store[g], p, 1)
    BY <1>2 DEF Joinable
  <2>2. Contains(Joined(store[g], p, 1), p)
    BY <1>1, <2>1, JoinedContains DEF Sound
  <2>3. QED
    BY <1>3, <1>5, <2>1, <2>2
<1>6. QED
  BY <1>2, <1>4, <1>5 DEF JoinOrCreate

\* Automatic matchmaking of either kind always succeeds, and leaves the player
\* in exactly one gathering, whatever memberships it had.
THEOREM SeatedOnce == Spec => MatchmakingSeatsOnce
<1> DEFINE AutoMatchmake(p, request) ==
             \/ AutoMatchmakePostpone(p, request)
             \/ \E criterias \in CriteriaLists :
                  AutoMatchmakeWithSearchCriteriaPostpone(p, criterias, request)
           SeatsOnce == \A p \in Players, request \in Requests :
             AutoMatchmake(p, request) =>
               \E g \in DOMAIN sessions' : GatheringsOf(sessions', p) = {g}
<1>1. ASSUME IInv, NEW p \in Players, NEW request \in Requests, AutoMatchmake(p, request)
      PROVE  \E g \in DOMAIN sessions' : GatheringsOf(sessions', p) = {g}
  <2>1. CASE AutoMatchmakePostpone(p, request)
    BY <1>1, <2>1, FoundIsJoinable, JoinOrCreateSeatsOnce DEF AutoMatchmakePostpone
  <2>2. ASSUME NEW criterias \in CriteriaLists,
               AutoMatchmakeWithSearchCriteriaPostpone(p, criterias, request)
        PROVE  \E g \in DOMAIN sessions' : GatheringsOf(sessions', p) = {g}
    BY <1>1, <2>2, SearchedIsJoinable, JoinOrCreateSeatsOnce
       DEF AutoMatchmakeWithSearchCriteriaPostpone
  <2>3. QED
    BY <1>1, <2>1, <2>2
<1>2. IInv => SeatsOnce
  BY <1>1
<1>3. QED
  BY <1>2, Invariance, PTL DEF Spec, MatchmakingSeatsOnce
=============================================================================
