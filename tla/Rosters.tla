------------------------------ MODULE Rosters ------------------------------
(***************************************************************************)
(* What the consoles in a gathering are told of it: the notification       *)
(* events of matchmaking/store.go (JoinLocked, LeaveLocked) and            *)
(* matchmaking/match_making.go (destroyGathering, updateSessionHost,       *)
(* migrateGatheringOwnershipV1), and the list of participants that a       *)
(* console makes of them.                                                  *)
(*                                                                         *)
(* Joining and leaving are announced under the store's lock, in one step   *)
(* with the change itself; a change of owner and the end of a gathering    *)
(* are announced once the lock is released, in a step of their own, so the *)
(* announcements of one gathering may be under way at once and be sent in  *)
(* any order.  The history overlapped tells of which this is so.           *)
(*                                                                         *)
(* An event goes to a player, and FindConnectionByPID picks a connection   *)
(* of that player's: any one, if there are several, and if there is none   *)
(* the event is lost.  A connection is known by its address.  It delivers  *)
(* events in the order of sending (ReliableStream).  The gatherings are    *)
(* reduced to owner and participants; Gatherings has the rest.             *)
(***************************************************************************)
EXTENDS Integers, FiniteSets

CONSTANTS
  Players,               \* the PIDs
  Addresses,             \* the consoles' socket addresses
  MayUse,                \* MayUse[a]: the players whose console may send from a
  NoOne,                 \* neither a player nor an address
  NotifyFlags,           \* the flags gatherings are made with: a subset of Flags
  OneConnectionEach,     \* a player's former connection has ended by its next one
  MaxGatherings          \* bound of the model: gatherings made

\* GatheringFlagNotifyParticipationEventsToAllParticipants (all), the same with
\* Reproducibly (replay), or neither (owner).
Flags == {"owner", "all", "replay"}

ASSUME RostersAssumption ==
  /\ MayUse \in [Addresses -> SUBSET Players]
  /\ NoOne \notin Players \cup Addresses
  /\ NotifyFlags \subseteq Flags
  /\ OneConnectionEach \in BOOLEAN
  /\ MaxGatherings \in Nat

VARIABLES
  connected,      \* connected[a]: the PID of the connection from a that is in
                  \* StateConnected, NoOne if there is none
  sessions,       \* Store.sessions by gathering ID
  issued,         \* how many gathering IDs have been given out
  known,          \* known[a][g]: the participants of g by the events sent to a
  knownOwner,     \* knownOwner[a][g]: its owner, by the join and the events sent
                  \* to a; NoOne when the console at a takes itself not to be in g
  announcements,  \* events that have yet to be sent, after the lock; equal ones
                  \* are one
  overlapped      \* history: the gatherings whose latest announcement was made while
                  \* another of theirs had yet to be sent

vars == <<connected, sessions, issued, known, knownOwner, announcements, overlapped>>

GatheringIDs == 1 .. MaxGatherings

\* participants[p] is the address p joined from, NoOne when p's console has
\* connected anew since and knows nothing of it.
Session ==
  [owner: Players,
   participants: UNION {[S -> Addresses \cup {NoOne}] : S \in SUBSET Players},
   notify: Flags]

\* owner is NoOne in the event that the gathering is unregistered.
Announcement ==
  [gathering: GatheringIDs, owner: Players \cup {NoOne}, targets: SUBSET Players]

TypeOK ==
  /\ connected \in [Addresses -> Players \cup {NoOne}]
  /\ issued \in 0 .. MaxGatherings
  /\ DOMAIN sessions \subseteq 1 .. issued
  /\ \A g \in DOMAIN sessions : sessions[g] \in Session
  /\ known \in [Addresses -> [GatheringIDs -> SUBSET Players]]
  /\ knownOwner \in [Addresses -> [GatheringIDs -> Players \cup {NoOne}]]
  /\ announcements \subseteq Announcement
  /\ overlapped \subseteq GatheringIDs

Participants(g) == DOMAIN sessions[g].participants

-----------------------------------------------------------------------------
(***************************************************************************)
(* Sending.  A choice of connections is a function pick from players to    *)
(* the address at which FindConnectionByPID finds each.                    *)
(***************************************************************************)

Picks ==
  {pick \in [Players -> Addresses \cup {NoOne}] :
     \A p \in Players :
       IF \E a \in Addresses : connected[a] = p
       THEN pick[p] # NoOne /\ connected[pick[p]] = p
       ELSE pick[p] = NoOne}

\* known after the events "subject joined g" to targets, of which the consoles
\* in g, by owners, take notice.
ToldJoined(view, owners, g, subjects, targets, pick) ==
  [a \in Addresses |->
     IF owners[a][g] # NoOne /\ \E p \in targets : pick[p] = a
     THEN [view[a] EXCEPT ![g] = @ \cup subjects]
     ELSE view[a]]

\* known after p has left each of the gatherings in quits: those who remain
\* are told, and the console p left with forgets the gathering.
ToldLeft(p, from, quits, pick) ==
  [a \in Addresses |-> [g \in GatheringIDs |->
     IF g \notin quits THEN known[a][g]
     ELSE IF a = from THEN {}
     ELSE IF \E q \in Participants(g) \ {p} : pick[q] = a THEN known[a][g] \ {p}
     ELSE known[a][g]]]

OwnersLeft(from, quits) ==
  [knownOwner EXCEPT ![from] = [g \in GatheringIDs |-> IF g \in quits THEN NoOne ELSE @[g]]]

-----------------------------------------------------------------------------
(***************************************************************************)
(* The store.                                                              *)
(***************************************************************************)

\* LeaveLocked for p in each of quits: an owner's departure ends a gathering.
AfterLeaving(p, quits) ==
  [g \in {h \in DOMAIN sessions :
            h \in quits => sessions[h].owner # p /\ Participants(h) # {p}} |->
     IF g \in quits
     THEN [sessions[g] EXCEPT !.participants = [q \in Participants(g) \ {p} |-> @[q]]]
     ELSE sessions[g]]

MembershipsOf(p) == {g \in DOMAIN sessions : p \in Participants(g)}

\* Mutant of Joined: those who were there before are not replayed to p.
JoinedUnreplayed(store, view, owners, g, a, p, pick) ==
  LET before == DOMAIN store[g].participants
      targets == IF store[g].notify = "owner" THEN {store[g].owner} \ {p}
                 ELSE before \cup {p}
  IN  /\ sessions' = [store EXCEPT ![g].participants =
           [q \in before \cup {p} |-> IF q = p THEN a ELSE @[q]]]
      /\ knownOwner' = [owners EXCEPT ![a][g] = store[g].owner]
      /\ known' = ToldJoined(view, knownOwner', g, {p}, targets, pick)

\* JoinLocked of p, from a, in gathering g of the sessions in store.  The joiner
\* knows the owner from its search, or is the owner itself.
Joined(store, view, owners, g, a, p, pick) ==
  LET before == DOMAIN store[g].participants
      targets == IF store[g].notify = "owner" THEN {store[g].owner} \ {p}
                 ELSE before \cup {p}
      toldJoined == ToldJoined(view, knownOwner', g, {p}, targets, pick)
  IN  /\ sessions' = [store EXCEPT ![g].participants =
           [q \in before \cup {p} |-> IF q = p THEN a ELSE @[q]]]
      /\ knownOwner' = [owners EXCEPT ![a][g] = store[g].owner]
      /\ known' = IF store[g].notify = "replay"
                  THEN ToldJoined(toldJoined, knownOwner', g, before, {p}, pick)
                  ELSE toldJoined

-----------------------------------------------------------------------------
(***************************************************************************)
(* Connections.                                                            *)
(***************************************************************************)

\* p's console connects from a, for the first time or anew (handleSyn and
\* handleConnect): it starts from nothing, while the store keeps its seats.
Connect(a, p) ==
  /\ p \in MayUse[a]
  /\ connected[a] \in {NoOne, p}
  /\ OneConnectionEach => \A b \in Addresses \ {a} : connected[b] # p
  /\ connected' = [connected EXCEPT ![a] = p]
  /\ known' = [known EXCEPT ![a] = [g \in GatheringIDs |-> {}]]
  /\ knownOwner' = [knownOwner EXCEPT ![a] = [g \in GatheringIDs |-> NoOne]]
  /\ sessions' = [g \in DOMAIN sessions |->
       [sessions[g] EXCEPT !.participants =
          [q \in DOMAIN @ |-> IF q = p THEN NoOne ELSE @[q]]]]
  /\ UNCHANGED <<issued, announcements, overlapped>>

\* CleanupConnection and the callback of protocol.go: the player is taken out of
\* all its gatherings, whichever connection it joined them from.
ConnectionEnded(a) ==
  LET p == connected[a] IN
  /\ p # NoOne
  /\ connected' = [connected EXCEPT ![a] = NoOne]
  /\ \E pick \in Picks' : known' = [ToldLeft(p, a, MembershipsOf(p), pick) EXCEPT
                                      ![a] = [g \in GatheringIDs |-> {}]]
  /\ knownOwner' = [knownOwner EXCEPT ![a] = [g \in GatheringIDs |-> NoOne]]
  /\ sessions' = AfterLeaving(p, MembershipsOf(p))
  /\ UNCHANGED <<issued, announcements, overlapped>>

-----------------------------------------------------------------------------
(***************************************************************************)
(* Requests, made over the connection from a.                              *)
(***************************************************************************)

\* Mutant of Create: the counter stays.
CreateSameID(a, notify) ==
  LET p == connected[a]
      g == issued + 1
      left == AfterLeaving(p, MembershipsOf(p))
      empty == [owner |-> p, participants |-> << >>, notify |-> notify]
  IN
  /\ p # NoOne
  /\ g <= MaxGatherings
  /\ \E pick \in Picks :
       Joined([h \in DOMAIN left \cup {g} |-> IF h = g THEN empty ELSE left[h]],
              ToldLeft(p, a, MembershipsOf(p), pick), OwnersLeft(a, MembershipsOf(p)),
              g, a, p, pick)
  /\ UNCHANGED <<connected, issued, announcements, overlapped>>

\* createMatchmakeSession, registerGathering, and automatic matchmaking that
\* finds nothing: RemoveConnectionLocked, CreateLocked and JoinLocked.
Create(a, notify) ==
  LET p == connected[a]
      g == issued + 1
      left == AfterLeaving(p, MembershipsOf(p))
      empty == [owner |-> p, participants |-> << >>, notify |-> notify]
  IN
  /\ p # NoOne
  /\ g <= MaxGatherings
  /\ issued' = g
  /\ \E pick \in Picks :
       Joined([h \in DOMAIN left \cup {g} |-> IF h = g THEN empty ELSE left[h]],
              ToldLeft(p, a, MembershipsOf(p), pick), OwnersLeft(a, MembershipsOf(p)),
              g, a, p, pick)
  /\ UNCHANGED <<connected, announcements, overlapped>>

\* joinMatchmakeSession and participate, when the gathering accepts p.
Join(a, g) ==
  LET p == connected[a] IN
  /\ p # NoOne
  /\ g \in DOMAIN sessions
  /\ p \notin Participants(g)
  /\ \E pick \in Picks : Joined(sessions, known, knownOwner, g, a, p, pick)
  /\ UNCHANGED <<connected, issued, announcements, overlapped>>

\* Automatic matchmaking that finds g: p leaves whatever it was in, also g.
AutoMatchmake(a, g) ==
  LET p == connected[a]
      left == AfterLeaving(p, MembershipsOf(p))
  IN
  /\ p # NoOne
  /\ g \in DOMAIN left
  /\ \E pick \in Picks :
       Joined(left, ToldLeft(p, a, MembershipsOf(p), pick), OwnersLeft(a, MembershipsOf(p)),
              g, a, p, pick)
  /\ UNCHANGED <<connected, issued, announcements, overlapped>>

\* cancelParticipation and endParticipation.
Leave(a, g) ==
  LET p == connected[a] IN
  /\ p # NoOne
  /\ g \in MembershipsOf(p)
  /\ sessions' = AfterLeaving(p, {g})
  /\ \E pick \in Picks : known' = ToldLeft(p, a, {g}, pick)
  /\ knownOwner' = OwnersLeft(a, {g})
  /\ UNCHANGED <<connected, issued, announcements, overlapped>>

\* The handler has yet to send it when it releases the lock, and so may others.
Announce(g, owner, targets) ==
  /\ announcements' =
       announcements \cup {[gathering |-> g, owner |-> owner, targets |-> targets]}
  /\ overlapped' = IF \E event \in announcements : event.gathering = g
                   THEN overlapped \cup {g}
                   ELSE overlapped \ {g}

\* Mutant of DestroyGathering: nobody is told.
DestroyUnannounced(a, g) ==
  /\ g \in DOMAIN sessions
  /\ sessions[g].owner = connected[a]
  /\ sessions' = [h \in DOMAIN sessions \ {g} |-> sessions[h]]
  /\ UNCHANGED <<connected, issued, known, knownOwner, announcements, overlapped>>

\* destroyGathering.
DestroyGathering(a, g) ==
  /\ g \in DOMAIN sessions
  /\ sessions[g].owner = connected[a]
  /\ sessions' = [h \in DOMAIN sessions \ {g} |-> sessions[h]]
  /\ Announce(g, NoOne, Participants(g))
  /\ UNCHANGED <<connected, issued, known, knownOwner>>

\* Mutant of ChangeOwner: only the new owner is told.
ChangeOwnerQuietly(a, g, q) ==
  /\ g \in DOMAIN sessions
  /\ q \in Participants(g)
  /\ connected[a] \in {q, sessions[g].owner}
  /\ sessions' = [sessions EXCEPT ![g].owner = q]
  /\ Announce(g, q, {q})
  /\ UNCHANGED <<connected, issued, known, knownOwner>>

\* updateSessionHost, when it takes the ownership too, and
\* migrateGatheringOwnershipV1, which gives it to a participant.
ChangeOwner(a, g, q) ==
  /\ g \in DOMAIN sessions
  /\ q \in Participants(g)
  /\ connected[a] \in {q, sessions[g].owner}
  /\ sessions' = [sessions EXCEPT ![g].owner = q]
  /\ Announce(g, q, Participants(g))
  /\ UNCHANGED <<connected, issued, known, knownOwner>>

\* SendNotificationEvent, once the lock is released, to one target of many.
SendAnnouncement(event, p) ==
  /\ p \in event.targets
  /\ announcements' =
       (announcements \ {event}) \cup
         {rest \in {[event EXCEPT !.targets = @ \ {p}]} : rest.targets # {}}
  /\ \E pick \in Picks :
       IF pick[p] = NoOne \/ knownOwner[pick[p]][event.gathering] = NoOne
       THEN UNCHANGED <<known, knownOwner>>
       ELSE /\ knownOwner' = [knownOwner EXCEPT ![pick[p]][event.gathering] = event.owner]
            /\ known' = IF event.owner = NoOne
                        THEN [known EXCEPT ![pick[p]][event.gathering] = {}]
                        ELSE known
  /\ UNCHANGED <<connected, sessions, issued, overlapped>>

-----------------------------------------------------------------------------
Init ==
  /\ connected = [a \in Addresses |-> NoOne]
  /\ sessions = << >>
  /\ issued = 0
  /\ known = [a \in Addresses |-> [g \in GatheringIDs |-> {}]]
  /\ knownOwner = [a \in Addresses |-> [g \in GatheringIDs |-> NoOne]]
  /\ announcements = {}
  /\ overlapped = {}

Request(a) ==
  \/ \E notify \in NotifyFlags : Create(a, notify)
  \/ \E g \in GatheringIDs : \/ Join(a, g) \/ AutoMatchmake(a, g) \/ Leave(a, g)
                             \/ DestroyGathering(a, g)
                             \/ \E q \in Players : ChangeOwner(a, g, q)

Next ==
  \/ \E a \in Addresses : Request(a) \/ ConnectionEnded(a) \/ \E p \in Players : Connect(a, p)
  \/ \E event \in announcements, p \in Players : SendAnnouncement(event, p)

Spec == Init /\ [][Next]_vars

-----------------------------------------------------------------------------
\* "so their lobby list starts out complete" (JoinLocked), and it stays so: where
\* joiners are replayed the participants, a console that has not connected anew
\* since it joined knows exactly who takes part; with the other flags it knows of
\* nobody who does not.
ListsAreRight ==
  \A g \in DOMAIN sessions : \A p \in Participants(g) :
    LET a == sessions[g].participants[p] IN
    a # NoOne =>
      /\ known[a][g] \subseteq Participants(g)
      /\ sessions[g].notify = "replay" => known[a][g] = Participants(g)

\* What was last announced of g has been sent to all, and nothing else of g was
\* under way at the time.
Settled(g) == g \notin overlapped /\ \A event \in announcements : event.gathering # g

\* "every participant is told the gathering is gone" (unregisterGathering), and
\* where everyone is told of everyone a console can tell of any other end as well:
\* a console that was in a gathering that has ended has been told that it is
\* unregistered, or that the owner it knows left; but for a gathering one of whose
\* announcements may have overtaken another.
EndsAreKnown ==
  \A g \in (1 .. issued) \ DOMAIN sessions : Settled(g) =>
    \A a \in Addresses : knownOwner[a][g] \notin known[a][g]

\* Every participant knows who the owner is, the console whose departure will end
\* the gathering, once it has been announced; if announcements may have overtaken
\* each other, once the next one that finds none under way has been sent.
OwnersAreKnown ==
  \A g \in DOMAIN sessions : Settled(g) =>
    \A p \in Participants(g) :
      LET a == sessions[g].participants[p] IN
      a # NoOne => knownOwner[a][g] = sessions[g].owner
=============================================================================
