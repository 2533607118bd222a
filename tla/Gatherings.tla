----------------------------- MODULE Gatherings -----------------------------
(***************************************************************************)
(* The gathering store of the secure server (matchmaking/store.go) and     *)
(* every handler of the three matchmaking protocols that changes it        *)
(* (match_making.go, match_making_ext.go, matchmake_extension.go).         *)
(*                                                                         *)
(* Every handler does its work between Store.Lock and Store.Unlock, and    *)
(* the teardown callback takes the same lock, so a handler's effect on the *)
(* store is one atomic step.  What a handler does after Unlock is sending  *)
(* notifications, which changes nothing here.  A request that is refused   *)
(* before the store is touched is a stuttering step and has no disjunct.   *)
(*                                                                         *)
(* A console is known by the PID of its connection.  A console that brings *)
(* local guests has its PID several times in Session.Participants; here    *)
(* the list is the set of its seats <<pid, k>>, k = 1 .. party size, as no *)
(* handler depends on the order of the list.                               *)
(***************************************************************************)
EXTENDS Integers, FiniteSets, Sequences

CONSTANTS
  Players,        \* the PIDs of the consoles; PID 0 (no one) is not among them
  Friends,        \* Friends[p]: what GetUserFriendPIDs answers for p
  AllowPublic,    \* Protocol.AllowPublicMatchmaking
  Descriptions,   \* what the searches compare besides the maximum: minimum
                  \* participants, game mode, system type and attributes,
                  \* attribute 1 (which only orders the matches) left out
  Requests,       \* the settings a console may send, a set of Settings
  PartySizes,     \* the participationCount arguments consoles send
  CriteriaLists,  \* the lists of search criteria consoles send
  NoURL,          \* the empty session URL
  MaxGatherings   \* bound of the model: gatherings created in a behaviour

(***************************************************************************)
(* The part of a MatchmakeSession its owner chooses.                       *)
(***************************************************************************)
Settings ==
  [maximumParticipants: Nat,          \* 0 means no limit
   openParticipation: BOOLEAN,
   friendsOnly: BOOLEAN,              \* ParticipationPolicy = 98
   userPasswordEnabled: BOOLEAN,
   changeOwnerByOtherHost: BOOLEAN,   \* GatheringFlagChangeOwnerByOtherHost
   description: Descriptions]

\* A search criterion: the descriptions its constraints accept (none when one
\* of them is malformed) and the number of vacant seats it asks for.
Criteria == [accepts: SUBSET Descriptions, vacantParticipants: Nat]

ASSUME ParametersAssumption ==
  /\ Friends \in [Players -> SUBSET Players]
  /\ AllowPublic \in BOOLEAN
  /\ Requests \subseteq Settings
  /\ PartySizes \subseteq Nat
  /\ CriteriaLists \subseteq Seq(Criteria)
  /\ NoURL \notin Players
  /\ MaxGatherings \in Nat

VARIABLES
  sessions,         \* Store.sessions: the live gatherings, by gathering ID
  nextGatheringID   \* Store.nextGatheringID

vars == <<sessions, nextGatheringID>>

GatheringIDs == Nat \ {0}

SeatNumbers == Nat \ {0}

Session ==
  [settings: Settings,
   owner: Players,                     \* OwnerPID
   host: Players,                      \* HostPID
   participants: SUBSET (Players \X SeatNumbers),
   participationCount: Nat,            \* the count field sent to clients
   sessionURL: Players \cup {NoURL}]   \* who supplied the session URL

TypeOK ==
  /\ nextGatheringID \in GatheringIDs
  /\ DOMAIN sessions \subseteq GatheringIDs
  /\ \A g \in DOMAIN sessions : sessions[g] \in Session

-----------------------------------------------------------------------------
(***************************************************************************)
(* The operations of the store.  Each takes the store, or one session, and *)
(* returns it changed.  A definition introduced as a "Mutant" is a mistake *)
(* this code could have made; no specification uses it, and PROJECT.json   *)
(* names the property that fails when it replaces what it is a mutant of.  *)
(***************************************************************************)

Seats(p, n) == {p} \X (1 .. n)

Contains(s, p) == \E seat \in s.participants : seat[1] = p

Roster(s) == {seat[1] : seat \in s.participants}

ParticipationCount(s) == Cardinality(s.participants)

\* JoinLocked counts a party of 0 as one player.
PartySize(n) == IF n = 0 THEN 1 ELSE n

\* Mutant of HasRoom: any party fits while one seat is free.
HasRoomForOne(s, n) ==
  LET maximum == s.settings.maximumParticipants
  IN  maximum # 0 => ParticipationCount(s) < maximum

HasRoom(s, n) ==
  LET maximum == s.settings.maximumParticipants
  IN  maximum # 0 => ParticipationCount(s) + n <= maximum

CanJoin(p, s) ==
  /\ s.settings.openParticipation
  /\ s.settings.friendsOnly => s.owner \in Friends[p]

\* JoinLocked, in two parts: whether it accepts p with a party of n (neither
\* AlreadyParticipatedGathering nor SessionFull), and the session after it.
Accepts(s, p, n) == ~Contains(s, p) /\ HasRoom(s, PartySize(n))

Joined(s, p, n) ==
  LET participants == s.participants \cup Seats(p, PartySize(n))
  IN  [s EXCEPT !.participants = participants,
                !.participationCount = Cardinality(participants)]

\* Mutant of Survives: a gathering goes on without its owner.
SurvivesOwner(s, p) == Contains(s, p) => \E q \in Roster(s) : q # p

\* Mutant of Left: a departing host stays the host.
LeftHosting(s, p) ==
  LET remaining == {seat \in s.participants : seat[1] # p}
  IN  [s EXCEPT !.participants = remaining,
                !.participationCount = Cardinality(remaining)]

\* Mutant of Left: only the first instance of the PID is removed.
LeftOneSeat(s, p) ==
  LET remaining == s.participants \ {<<p, 1>>}
  IN  [s EXCEPT !.participants = remaining,
                !.participationCount = Cardinality(remaining),
                !.host = IF s.host = p /\ Contains(s, p) THEN s.owner ELSE s.host]

\* LeaveLocked, in two parts: whether the session outlives the departure of
\* p, and the session after it.  Leaving a session one is not in does nothing.
Survives(s, p) ==
  Contains(s, p) => /\ s.owner # p
                    /\ \E q \in Roster(s) : q # p

Left(s, p) ==
  LET remaining == {seat \in s.participants : seat[1] # p}
  IN  [s EXCEPT !.participants = remaining,
                !.participationCount = Cardinality(remaining),
                !.host = IF s.host = p /\ Contains(s, p) THEN s.owner ELSE s.host]

LeaveLocked(store, g, p) ==
  [h \in {i \in DOMAIN store : i = g => Survives(store[i], p)} |->
     IF h = g THEN Left(store[h], p) ELSE store[h]]

RemoveConnection(store, p) ==
  [h \in {i \in DOMAIN store : Survives(store[i], p)} |-> Left(store[h], p)]

\* CreateLocked: p owns and hosts the gathering and is not yet in it.
Created(p, request) ==
  [settings |-> request,
   owner |-> p,
   host |-> p,
   participants |-> {},
   participationCount |-> 0,
   sessionURL |-> NoURL]

WithSession(store, g, s) ==
  [h \in DOMAIN store \cup {g} |-> IF h = g THEN s ELSE store[h]]

-----------------------------------------------------------------------------
(***************************************************************************)
(* Making and joining gatherings.                                          *)
(***************************************************************************)

\* Mutant of CreateAndJoin: the ID counter is not advanced.
CreateSameID(store, p, request, n) ==
  LET fresh == Created(p, request)
  IN  /\ nextGatheringID <= MaxGatherings
      /\ sessions' = IF Accepts(fresh, p, n)
                     THEN WithSession(store, nextGatheringID, Joined(fresh, p, n))
                     ELSE store
      /\ UNCHANGED nextGatheringID

\* Mutant of CreateAndJoin: IDs follow the number of live gatherings.
CreateByCount(store, p, request, n) ==
  LET fresh == Created(p, request)
      id == Cardinality(DOMAIN store) + 1
  IN  /\ id <= MaxGatherings
      /\ nextGatheringID' = id + 1
      /\ sessions' = IF Accepts(fresh, p, n)
                     THEN WithSession(store, id, Joined(fresh, p, n))
                     ELSE store

\* In a request to create, userPasswordEnabled says whether it carries a
\* password: CreateLocked computes the flag, where the updates below copy it.
\* p creates a gathering in the given store and takes a seat in it for a party
\* of n; when the party does not fit, the gathering is deleted again but its
\* ID stays used, and whatever was done to the store before is kept.
CreateAndJoin(store, p, request, n) ==
  LET fresh == Created(p, request)
  IN  /\ nextGatheringID <= MaxGatherings
      /\ nextGatheringID' = nextGatheringID + 1
      /\ sessions' = IF Accepts(fresh, p, n)
                     THEN WithSession(store, nextGatheringID, Joined(fresh, p, n))
                     ELSE store

RegisterGathering(p, request) ==
  CreateAndJoin(RemoveConnection(sessions, p), p, request, 1)

CreateMatchmakeSession(p, request, n) ==
  CreateAndJoin(RemoveConnection(sessions, p), p, request, n)

\* Mutant of Participate: the older protocol skips CanJoin.
ParticipateUnchecked(p, g) ==
  /\ Accepts(sessions[g], p, 1)
  /\ sessions' = WithSession(sessions, g, Joined(sessions[g], p, 1))
  /\ UNCHANGED nextGatheringID

\* The older Participate checks no password.
Participate(p, g) ==
  /\ CanJoin(p, sessions[g])
  /\ Accepts(sessions[g], p, 1)
  /\ sessions' = WithSession(sessions, g, Joined(sessions[g], p, 1))
  /\ UNCHANGED nextGatheringID

\* JoinMatchmakeSession is JoinMatchmakeSessionEx with a party of one.  The flag
\* stands for SystemPasswordEnabled too, which is read only beside it: CreateLocked
\* clears it, and an owner's update copies either as the console sends them.
JoinMatchmakeSession(p, g, n) ==
  /\ ~sessions[g].settings.userPasswordEnabled
  /\ CanJoin(p, sessions[g])
  /\ Accepts(sessions[g], p, n)
  /\ sessions' = WithSession(sessions, g, Joined(sessions[g], p, n))
  /\ UNCHANGED nextGatheringID

-----------------------------------------------------------------------------
(***************************************************************************)
(* Automatic matchmaking.  The two searches return the sessions that may   *)
(* come first: the order among the matches depends on attribute 1, on the  *)
(* progress score and on the map's iteration order, none of them kept.     *)
(***************************************************************************)

FriendsMayFind(p, s) == s.settings.friendsOnly => s.owner \in Friends[p]

FindSession(store, p, request) ==
  {g \in DOMAIN store :
     LET s == store[g] IN
     /\ AllowPublic
     /\ s.settings.openParticipation
     /\ ~s.settings.userPasswordEnabled
     /\ HasRoom(s, 1)
     /\ s.settings.maximumParticipants = request.maximumParticipants
     /\ s.settings.description = request.description
     /\ FriendsMayFind(p, s)}

\* matchCriteria under the filters SearchOptions.AutoMatchmake forces on.
MatchCriteria(store, p, c) ==
  {g \in DOMAIN store :
     LET s == store[g] IN
     /\ s.owner # p
     /\ s.settings.description \in c.accepts
     /\ FriendsMayFind(p, s)
     /\ s.settings.openParticipation
     /\ HasRoom(s, PartySize(c.vacantParticipants))}

\* Search limited to one result: a match of the first criterion that has one.
Search(store, p, criterias) ==
  {g \in DOMAIN store :
     /\ AllowPublic
     /\ \E i \in DOMAIN criterias :
          /\ g \in MatchCriteria(store, p, criterias[i])
          /\ \A j \in 1 .. (i - 1) : MatchCriteria(store, p, criterias[j]) = {}}

\* The end of autoMatchmake: take the candidate when p may join it, otherwise
\* become the host of a new gathering.
JoinOrCreate(store, p, candidates, request) ==
  \/ \E g \in candidates :
       /\ CanJoin(p, store[g])
       /\ sessions' = IF Accepts(store[g], p, 1)
                      THEN WithSession(store, g, Joined(store[g], p, 1))
                      ELSE store
       /\ UNCHANGED nextGatheringID
  \/ /\ candidates = {} \/ \E g \in candidates : ~CanJoin(p, store[g])
     /\ CreateAndJoin(store, p, request, 1)

\* Mutant of AutoMatchmakePostpone: earlier memberships are not dropped.
AutoMatchmakeStale(p, request) ==
  JoinOrCreate(sessions, p, FindSession(sessions, p, request), request)

AutoMatchmakePostpone(p, request) ==
  LET store == RemoveConnection(sessions, p)
  IN  JoinOrCreate(store, p, FindSession(store, p, request), request)

AutoMatchmakeWithSearchCriteriaPostpone(p, criterias, request) ==
  LET store == RemoveConnection(sessions, p)
  IN  /\ criterias # << >>   \* an empty list is the plain AutoMatchmakePostpone
      /\ JoinOrCreate(store, p, Search(store, p, criterias), request)

-----------------------------------------------------------------------------
(***************************************************************************)
(* Leaving gatherings.                                                     *)
(***************************************************************************)

\* CancelParticipation and MatchMakingExt's EndParticipation.
LeaveGathering(p, g) ==
  /\ sessions' = LeaveLocked(sessions, g, p)
  /\ UNCHANGED nextGatheringID

\* The connection of p ends, gracefully or not: the OnConnectionEnded callback.
ConnectionEnded(p) ==
  /\ sessions' = RemoveConnection(sessions, p)
  /\ UNCHANGED nextGatheringID

\* UnregisterGathering.  UnregisterGatherings is this once per ID, the lock
\* released in between, until the first refusal.
DestroyGathering(p, g) ==
  /\ sessions[g].owner = p
  /\ sessions' = [h \in DOMAIN sessions \ {g} |-> sessions[h]]
  /\ UNCHANGED nextGatheringID

-----------------------------------------------------------------------------
(***************************************************************************)
(* Changing a gathering one owns, or takes part in.                        *)
(***************************************************************************)

\* mutateOwned and its like: p, the owner of g, changes the settings of g.
MutateOwned(p, g, settings) ==
  /\ sessions[g].owner = p
  /\ sessions' = [sessions EXCEPT ![g].settings = settings]
  /\ UNCHANGED nextGatheringID

CloseParticipation(p, g) ==
  MutateOwned(p, g, [sessions[g].settings EXCEPT !.openParticipation = FALSE])

OpenParticipation(p, g) ==
  MutateOwned(p, g, [sessions[g].settings EXCEPT !.openParticipation = TRUE])

\* UpdateMatchmakeSessionAttribute and ModifyCurrentGameAttribute.  SetState,
\* UpdateApplicationBuffer and UpdateProgressScore are guarded likewise and
\* write data that no step of this module reads and that is not kept here.
UpdateDescription(p, g, description) ==
  MutateOwned(p, g, [sessions[g].settings EXCEPT !.description = description])

\* Mutant of UpdateMatchmakeSession: the count is the one in the owner's copy,
\* made when the gathering was.
UpdateWithStaleCount(p, g, request) ==
  /\ sessions[g].owner = p
  /\ sessions' = [sessions EXCEPT ![g].settings = request, ![g].participationCount = 1]
  /\ UNCHANGED nextGatheringID

\* UpdateMatchmakeSession and UpdateGathering: every setting is what the
\* owner sends, the password flag and the maximum included; identity and
\* membership stay, and the count sent to clients is computed afresh.
UpdateMatchmakeSession(p, g, request) ==
  /\ sessions[g].owner = p
  /\ sessions' = [sessions EXCEPT
       ![g].settings = request,
       ![g].participationCount = ParticipationCount(sessions[g])]
  /\ UNCHANGED nextGatheringID

LaunchSession(p, g, url) ==
  /\ Contains(sessions[g], p)
  /\ sessions' = [sessions EXCEPT ![g].sessionURL = url, ![g].host = p]
  /\ UNCHANGED nextGatheringID

\* An empty URL leaves the stored one in place.
UpdateSessionURL(p, g, url) ==
  /\ Contains(sessions[g], p)
  /\ sessions' = [sessions EXCEPT
       ![g].sessionURL = IF url = NoURL THEN @ ELSE url,
       ![g].host = p]
  /\ UNCHANGED nextGatheringID

\* UpdateSessionHostV1, and UpdateSessionHost without isMigrateOwner.
UpdateSessionHost(p, g) ==
  /\ Contains(sessions[g], p)
  /\ sessions' = [sessions EXCEPT ![g].host = p]
  /\ UNCHANGED nextGatheringID

\* UpdateSessionHost with isMigrateOwner.
TakeOwnership(p, g) ==
  /\ Contains(sessions[g], p)
  /\ sessions[g].settings.changeOwnerByOtherHost
  /\ sessions' = [sessions EXCEPT ![g].host = p, ![g].owner = p]
  /\ UNCHANGED nextGatheringID

\* The first of p's candidates that takes part, whichever q that is.
MigrateGatheringOwnership(p, g, q) ==
  /\ sessions[g].owner = p
  /\ Contains(sessions[g], q)
  /\ sessions' = [sessions EXCEPT ![g].owner = q]
  /\ UNCHANGED nextGatheringID

-----------------------------------------------------------------------------
\* Mutant of Init: the ID counter starts at Go's zero value.
InitFromZero ==
  /\ sessions = [g \in {} |-> {}]
  /\ nextGatheringID = 0

Init ==
  /\ sessions = [g \in {} |-> {}]
  /\ nextGatheringID = 1

\* What p may do whichever gatherings there are.
PlayerStep(p) ==
  \/ ConnectionEnded(p)
  \/ \E request \in Requests :
       \/ RegisterGathering(p, request)
       \/ \E n \in PartySizes : CreateMatchmakeSession(p, request, n)
       \/ AutoMatchmakePostpone(p, request)
       \/ \E criterias \in CriteriaLists :
            AutoMatchmakeWithSearchCriteriaPostpone(p, criterias, request)

\* What p may do to the gathering g.
GatheringStep(p, g) ==
  \/ Participate(p, g)
  \/ \E n \in PartySizes : JoinMatchmakeSession(p, g, n)
  \/ LeaveGathering(p, g)
  \/ DestroyGathering(p, g)
  \/ CloseParticipation(p, g)
  \/ OpenParticipation(p, g)
  \/ \E description \in Descriptions : UpdateDescription(p, g, description)
  \/ \E request \in Requests : UpdateMatchmakeSession(p, g, request)
  \/ \E url \in {p, NoURL} : LaunchSession(p, g, url) \/ UpdateSessionURL(p, g, url)
  \/ UpdateSessionHost(p, g)
  \/ TakeOwnership(p, g)
  \/ \E q \in Players : MigrateGatheringOwnership(p, g, q)

Next ==
  \E p \in Players :
    \/ PlayerStep(p)
    \/ \E g \in 1 .. MaxGatherings : g \in DOMAIN sessions /\ GatheringStep(p, g)

Spec == Init /\ [][Next]_vars

-----------------------------------------------------------------------------
(***************************************************************************)
(* Invariants.                                                             *)
(***************************************************************************)

\* The owner and the host of a live gathering take part in it.  Nothing stores
\* this: it rests on every path that seats, moves or removes a player, and on
\* LeaveLocked deleting the gathering its owner leaves and giving hosting back
\* to the owner.  Without it GetSessionURLs sends players to a departed host,
\* and no one is left whose departure or request ends the gathering.
OwnerAndHostTakePart ==
  \A g \in DOMAIN sessions :
    {sessions[g].owner, sessions[g].host} \subseteq Roster(sessions[g])

\* The count field that clients see is the number of seats taken, through
\* joins, departures and the wholesale replacement of the settings by an
\* owner's copy (UpdateGathering, UpdateMatchmakeSession), itself stale.
ParticipationCountAgrees ==
  \A g \in DOMAIN sessions :
    sessions[g].participationCount = ParticipationCount(sessions[g])

\* Every live gathering has an ID already handed out, so the next one
\* CreateLocked hands out overwrites no live gathering.
IDsAreIssued == \A g \in DOMAIN sessions : g < nextGatheringID

\* A player occupies the seats 1 .. k of a gathering for some k: a party joins
\* and leaves as a whole (LeaveLocked removes every instance of the PID).
PartiesAreWhole ==
  \A g \in DOMAIN sessions : \A p \in Roster(sessions[g]) :
    \E k \in 1 .. ParticipationCount(sessions[g]) :
      {seat \in sessions[g].participants : seat[1] = p} = Seats(p, k)

-----------------------------------------------------------------------------
(***************************************************************************)
(* What a step may never do.                                               *)
(***************************************************************************)

Newcomers(g) == Roster(sessions'[g]) \ Roster(sessions[g])

Continuing == DOMAIN sessions \cap DOMAIN sessions'

\* No way in (Participate, JoinMatchmakeSession, both automatic matchmakers)
\* seats a player in a gathering that is closed, or whose owner admits friends
\* only and is not theirs: CloseParticipation "stops new players joining".
AdmissionIsControlled ==
  [][\A g \in Continuing : \A p \in Newcomers(g) :
       LET s == sessions[g]
       IN  /\ s.settings.openParticipation
           /\ s.settings.friendsOnly => s.owner \in Friends[p]]_sessions

\* A gathering never gains a seat beyond its maximum, however the owner has
\* changed that maximum meanwhile and however large the joining party is.
NeverOverfilled ==
  [][\A g \in DOMAIN sessions' :
       LET before == IF g \in DOMAIN sessions THEN ParticipationCount(sessions[g]) ELSE 0
           maximum == sessions'[g].settings.maximumParticipants
       IN  \/ ParticipationCount(sessions'[g]) <= before
           \/ maximum = 0
           \/ ParticipationCount(sessions'[g]) <= maximum]_sessions

\* The ID of a gathering that has ended, or whose creation failed, never names
\* a later gathering: a console that still holds it gets SessionVoid, not the
\* lobby of strangers.
IDsAreNotReused ==
  [][/\ nextGatheringID' >= nextGatheringID
     /\ \A g \in DOMAIN sessions' \ DOMAIN sessions : g >= nextGatheringID]_vars

\* The store is a LobbyRegistry: one step is the doing of one player, who alone
\* enters or leaves, and a gathering ends only when its owner leaves or ends it.
Registry == INSTANCE LobbyRegistry WITH
  lobbies <- [g \in DOMAIN sessions |->
                [leader |-> sessions[g].owner, members |-> Roster(sessions[g])]],
  issued <- nextGatheringID - 1

ImplementsLobbyRegistry == Registry!Spec

GatheringsOf(store, p) == {g \in DOMAIN store : Contains(store[g], p)}

\* "Drop any stale membership before matchmaking": automatic matchmaking
\* always succeeds, and always leaves the player in exactly one gathering.
MatchmakingSeatsOnce ==
  [][\A p \in Players, request \in Requests :
       \/ AutoMatchmakePostpone(p, request)
       \/ \E criterias \in CriteriaLists :
            AutoMatchmakeWithSearchCriteriaPostpone(p, criterias, request)
       => \E g \in DOMAIN sessions' : GatheringsOf(sessions', p) = {g}]_vars
=============================================================================
