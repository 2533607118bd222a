--------------------------- MODULE RostersProofs ---------------------------
(***************************************************************************)
(* Theorems about what consoles are told of their gatherings, for any      *)
(* players, addresses, flags and number of gatherings.                     *)
(*                                                                         *)
(* Where a player has one connection at a time, FindConnectionByPID finds  *)
(* it.  Then what the console at an address knows of a gathering is right  *)
(* if it joined over the connection it has, and nothing if it did not:     *)
(* this is what every departure, entry and reconnection keeps (Told).      *)
(* Where no two announcements of a gathering have overlapped since the     *)
(* last that found none under way, there is one of them at most, and       *)
(* whoever does not know the owner yet, or that the gathering has ended,   *)
(* is among those who will be told (NewsOnTheWay, EndNews).                *)
(***************************************************************************)
EXTENDS Rosters, TLAPS

Views == [Addresses -> [GatheringIDs -> SUBSET Players]]

OwnerViews == [Addresses -> [GatheringIDs -> Players \cup {NoOne}]]

\* The participants of g in store.
Members(store, g) == DOMAIN store[g].participants

StoreType(store) ==
  /\ DOMAIN store \subseteq GatheringIDs
  /\ \A g \in DOMAIN store : store[g] \in Session

-----------------------------------------------------------------------------
(***************************************************************************)
(* Types.                                                                  *)
(***************************************************************************)

\* The participants of a session are players, each at an address or none.
LEMMA SessionFacts ==
  ASSUME NEW s \in Session
  PROVE  /\ DOMAIN s.participants \subseteq Players
         /\ s.participants \in [DOMAIN s.participants -> Addresses \cup {NoOne}]
         /\ s.owner \in Players
         /\ s.notify \in Flags
BY DEF Session

\* Other participants make another session.
LEMMA SessionWith ==
  ASSUME NEW s \in Session, NEW S \in SUBSET Players,
         NEW f \in [S -> Addresses \cup {NoOne}]
  PROVE  [s EXCEPT !.participants = f] \in Session
<1>1. f \in UNION {[T -> Addresses \cup {NoOne}] : T \in SUBSET Players}
  OBVIOUS
<1>2. QED
  BY <1>1 DEF Session

\* Departures keep the types.
LEMMA LeavingTypes ==
  ASSUME TypeOK, NEW p \in Players, NEW a \in Addresses, NEW quits, NEW pick
  PROVE  /\ StoreType(AfterLeaving(p, quits))
         /\ DOMAIN AfterLeaving(p, quits) \subseteq DOMAIN sessions
         /\ ToldLeft(p, a, quits, pick) \in Views
         /\ OwnersLeft(a, quits) \in OwnerViews
<1>1. \A g \in DOMAIN sessions : g \in GatheringIDs /\ sessions[g] \in Session
  BY RostersAssumption DEF TypeOK, GatheringIDs
<1>2. ASSUME NEW g \in DOMAIN sessions
      PROVE  [sessions[g] EXCEPT !.participants = [q \in Participants(g) \ {p} |-> @[q]]]
               \in Session
  <2> DEFINE f == [q \in Participants(g) \ {p} |-> sessions[g].participants[q]]
  <2>1. /\ f \in [Participants(g) \ {p} -> Addresses \cup {NoOne}]
        /\ Participants(g) \ {p} \in SUBSET Players
    BY <1>1, SessionFacts DEF Participants
  <2>2. [sessions[g] EXCEPT !.participants = [q \in Participants(g) \ {p} |-> @[q]]]
          = [sessions[g] EXCEPT !.participants = f]
    OBVIOUS
  <2> HIDE DEF f
  <2>3. QED
    BY <1>1, <2>1, <2>2, SessionWith
<1>3. /\ StoreType(AfterLeaving(p, quits))
      /\ DOMAIN AfterLeaving(p, quits) \subseteq DOMAIN sessions
  BY <1>1, <1>2 DEF AfterLeaving, StoreType
<1>4. ToldLeft(p, a, quits, pick) \in Views
  BY DEF ToldLeft, Views, TypeOK
<1>5. OwnersLeft(a, quits) \in OwnerViews
  BY DEF OwnersLeft, OwnerViews, TypeOK
<1>6. QED
  BY <1>3, <1>4, <1>5

\* In told, those in g who are found under targets have been told of subjects.
Tells(told, view, owners, g, subjects, targets, pick) ==
  /\ told \in Views
  /\ \A b \in Addresses : \A h \in GatheringIDs : h # g => told[b][h] = view[b][h]
  /\ \A b \in Addresses :
       /\ told[b][g] \subseteq view[b][g] \cup subjects
       /\ owners[b][g] = NoOne => told[b][g] = view[b][g]
       /\ (\A q \in targets : pick[q] # b) => told[b][g] = view[b][g]
       /\ \A q \in targets :
            owners[b][g] # NoOne /\ pick[q] = b => told[b][g] = view[b][g] \cup subjects

\* That is what the events do.
LEMMA ToldJoinedTells ==
  ASSUME NEW view \in Views, NEW owners, NEW g \in GatheringIDs,
         NEW subjects \in SUBSET Players, NEW targets, NEW pick
  PROVE  Tells(ToldJoined(view, owners, g, subjects, targets, pick),
               view, owners, g, subjects, targets, pick)
<1> DEFINE told == ToldJoined(view, owners, g, subjects, targets, pick)
<1>1. /\ told \in Views
      /\ \A b \in Addresses : \A h \in GatheringIDs :
           told[b][h] = IF /\ h = g
                           /\ owners[b][g] # NoOne
                           /\ \E q \in targets : pick[q] = b
                        THEN view[b][h] \cup subjects
                        ELSE view[b][h]
  BY DEF ToldJoined, Views
<1> HIDE DEF told
<1>2. Tells(told, view, owners, g, subjects, targets, pick)
  BY <1>1 DEF Tells
<1>3. QED
  BY <1>2 DEF told

\* after is store with p seated in g, at a.
Seated(after, store, g, p, a) ==
  /\ DOMAIN after = DOMAIN store
  /\ \A h \in DOMAIN store : h # g => after[h] = store[h]
  /\ after[g] \in Session
  /\ after[g].owner = store[g].owner
  /\ after[g].notify = store[g].notify
  /\ Members(after, g) = Members(store, g) \cup {p}
  /\ after[g].participants[p] = a
  /\ \A q \in Members(store, g) \ {p} :
       after[g].participants[q] = store[g].participants[q]

\* A session as it is made, before anyone is in it.
Empty == [owner: Players, participants: {<< >>}, notify: Flags]

\* p is seated, and remembered to be at a.
LEMMA SeatedSession ==
  ASSUME NEW store, NEW g \in GatheringIDs, g \in DOMAIN store,
         store[g].owner \in Players, store[g].notify \in Flags,
         NEW p \in Players, NEW a \in Addresses, store[g] \in Empty \cup Session,
         NEW after,
         after = [store EXCEPT ![g].participants =
                    [q \in Members(store, g) \cup {p} |-> IF q = p THEN a ELSE @[q]]]
  PROVE  Seated(after, store, g, p, a)
<1> DEFINE f == [q \in Members(store, g) \cup {p} |->
                   IF q = p THEN a ELSE store[g].participants[q]]
           S == Members(store, g) \cup {p}
<1>1. S \in SUBSET Players /\ f \in [S -> Addresses \cup {NoOne}]
  <2>1. CASE store[g] \in Session
    BY <2>1, SessionFacts DEF Members
  <2>2. CASE store[g] \in Empty
    <3>1. Members(store, g) = {}
      BY <2>2 DEF Members, Empty
    <3>2. QED
      BY <3>1
  <2>3. QED
    BY <2>1, <2>2
<1>2. f \in UNION {[T -> Addresses \cup {NoOne}] : T \in SUBSET Players}
  BY <1>1
<1>3. /\ DOMAIN after = DOMAIN store
      /\ \A h \in DOMAIN store : h # g => after[h] = store[h]
      /\ after[g] = [store[g] EXCEPT !.participants = f]
  OBVIOUS
<1>4. /\ after[g].owner = store[g].owner
      /\ after[g].notify = store[g].notify
      /\ after[g].participants = f
      /\ after[g] = [owner |-> store[g].owner, participants |-> f, notify |-> store[g].notify]
  <2>1. store[g] = [owner |-> store[g].owner, participants |-> store[g].participants,
                    notify |-> store[g].notify]
    BY DEF Session, Empty
  <2> HIDE DEF f
  <2>2. QED
    BY <1>3, <2>1
<1>5. after[g] \in Session
  <2> HIDE DEF f
  <2>1. QED
    BY <1>2, <1>4 DEF Session
<1>6. /\ Members(after, g) = Members(store, g) \cup {p}
      /\ after[g].participants[p] = a
      /\ \A q \in Members(store, g) \ {p} :
           after[g].participants[q] = store[g].participants[q]
  BY <1>4 DEF Members
<1>7. QED
  BY <1>3, <1>4, <1>5, <1>6 DEF Seated

-----------------------------------------------------------------------------
(***************************************************************************)
(* What is known is right.                                                 *)
(***************************************************************************)

\* p, who is in g, knows it as it is, if p joined over the connection it has.
Knows(conn, store, view, owners, g, p) ==
  LET a == store[g].participants[p] IN
  a # NoOne =>
    /\ conn[a] = p
    /\ owners[a][g] # NoOne
    /\ view[a][g] \subseteq Members(store, g)
    /\ store[g].notify = "replay" => view[a][g] = Members(store, g)

\* The console at a is in g and knows.
Here(conn, store, a, g) ==
  /\ conn[a] \in Members(store, g)
  /\ store[g].participants[conn[a]] = a

\* Who is not in g knows nothing of it, nor does anyone of what is yet to come.
Told(conn, store, view, owners) ==
  /\ \A g \in DOMAIN store : \A p \in Members(store, g) :
       Knows(conn, store, view, owners, g, p)
  /\ \A a \in Addresses : \A g \in DOMAIN store :
       Here(conn, store, a, g) \/ (view[a][g] = {} /\ owners[a][g] = NoOne)

Unique == \A a, b \in Addresses : connected[a] = connected[b] /\ connected[a] # NoOne => a = b

\* Every connection but that from a is found.
Finds(conn, pick, a) == \A b \in Addresses \ {a} : conn[b] \in Players => pick[conn[b]] = b

\* What departures of p leave of g.
LeftAs(store, p, quits, g) ==
  /\ g \in DOMAIN sessions /\ g \in GatheringIDs
  /\ store[g].notify = sessions[g].notify
  /\ store[g].owner = sessions[g].owner
  /\ Members(store, g) = IF g \in quits THEN Members(sessions, g) \ {p}
                                        ELSE Members(sessions, g)
  /\ \A q \in Members(store, g) : store[g].participants[q] = sessions[g].participants[q]
  /\ Members(sessions, g) = Participants(g)
  /\ Members(sessions, g) \subseteq Players
  /\ \A q \in Members(sessions, g) :
       sessions[g].participants[q] \in Addresses \cup {NoOne}

\* AfterLeaving leaves that.
LEMMA LeavingStore ==
  ASSUME TypeOK, NEW p, NEW quits, NEW store, store = AfterLeaving(p, quits),
         NEW g \in DOMAIN store
  PROVE  LeftAs(store, p, quits, g)
<1>1. g \in DOMAIN sessions /\ sessions[g] \in Session /\ g \in GatheringIDs
  BY RostersAssumption DEF AfterLeaving, TypeOK, GatheringIDs
<1>2. CASE g \notin quits
  <2>1. store[g] = sessions[g]
    BY <1>2 DEF AfterLeaving
  <2>2. QED
    BY <1>1, <1>2, <2>1, SessionFacts DEF LeftAs, Members, Participants
<1>3. CASE g \in quits
  <2> DEFINE f == [q \in Participants(g) \ {p} |-> sessions[g].participants[q]]
  <2>1. store[g] = [sessions[g] EXCEPT !.participants = f]
    BY <1>3 DEF AfterLeaving
  <2> HIDE DEF f
  <2>2. /\ store[g].participants = f
        /\ store[g].notify = sessions[g].notify
        /\ store[g].owner = sessions[g].owner
    BY <1>1, <2>1 DEF Session
  <2>3. QED
    BY <1>1, <1>3, <2>2, SessionFacts DEF LeftAs, Members, Participants, f
<1>4. QED
  BY <1>2, <1>3

\* Departures of p, at a, leave everyone else knowing what is so.
LEMMA LeavingTells ==
  ASSUME TypeOK, Unique, Told(connected, sessions, known, knownOwner),
         NEW a \in Addresses, NEW p \in Players, connected[a] = p,
         NEW quits \in SUBSET MembershipsOf(p), NEW pick, Finds(connected, pick, a)
  PROVE  Told(connected, AfterLeaving(p, quits), ToldLeft(p, a, quits, pick),
              OwnersLeft(a, quits))
<1> DEFINE store == AfterLeaving(p, quits)
           view == ToldLeft(p, a, quits, pick)
           owners == OwnersLeft(a, quits)
<1>1. \A g \in DOMAIN store : LeftAs(store, p, quits, g)
  BY LeavingStore
<1>2. ASSUME NEW b \in Addresses, NEW g \in GatheringIDs
      PROVE  /\ g \notin quits => view[b][g] = known[b][g]
             /\ g \in quits /\ b = a => view[b][g] = {}
             /\ \A q \in Participants(g) \ {p} :
                  g \in quits /\ b # a /\ pick[q] = b => view[b][g] = known[b][g] \ {p}
             /\ view[b][g] \subseteq known[b][g]
  <2>1. view[b][g] = IF g \notin quits THEN known[b][g]
                     ELSE IF b = a THEN {}
                     ELSE IF \E q \in Participants(g) \ {p} : pick[q] = b
                          THEN known[b][g] \ {p}
                     ELSE known[b][g]
    BY DEF ToldLeft
  <2> HIDE DEF view
  <2>2. QED
    BY <2>1
<1>3. \A b \in Addresses : \A g \in GatheringIDs :
        owners[b][g] = IF b = a /\ g \in quits THEN NoOne ELSE knownOwner[b][g]
  BY DEF OwnersLeft, TypeOK
<1> HIDE DEF store, view, owners
<1>4. ASSUME NEW g \in DOMAIN store, NEW q \in Members(store, g)
      PROVE  Knows(connected, store, view, owners, g, q)
  <2> DEFINE b == store[g].participants[q]
  <2>1. /\ b = sessions[g].participants[q]
        /\ q \in Members(sessions, g)
        /\ Knows(connected, sessions, known, knownOwner, g, q)
    BY <1>1, <1>4 DEF LeftAs, Told
  <2> SUFFICES ASSUME b # NoOne
               PROVE  /\ connected[b] = q
                      /\ owners[b][g] # NoOne
                      /\ view[b][g] \subseteq Members(store, g)
                      /\ store[g].notify = "replay" => view[b][g] = Members(store, g)
    BY DEF Knows
  <2>0. /\ g \in GatheringIDs
        /\ store[g].notify = sessions[g].notify
        /\ Members(store, g) = IF g \in quits THEN Members(sessions, g) \ {p}
                                              ELSE Members(sessions, g)
        /\ Members(sessions, g) = Participants(g)
    BY <1>1 DEF LeftAs
  <2>2. /\ b \in Addresses /\ connected[b] = q /\ q \in Players
        /\ knownOwner[b][g] # NoOne
        /\ known[b][g] \subseteq Members(sessions, g)
        /\ sessions[g].notify = "replay" => known[b][g] = Members(sessions, g)
    BY <1>1, <2>1 DEF LeftAs, Knows
  <2> HIDE DEF b
  <2>3. CASE g \notin quits
    <3>1. view[b][g] = known[b][g] /\ owners[b][g] = knownOwner[b][g]
      BY <1>2, <1>3, <2>0, <2>2, <2>3
    <3>2. QED
      BY <2>0, <2>2, <2>3, <3>1
  <2>4. CASE g \in quits
    <3>1. q # p /\ b # a
      BY <1>1, <1>4, <2>2, <2>4 DEF LeftAs
    <3>2. pick[q] = b
      BY <2>2, <3>1 DEF Finds
    <3>3. view[b][g] = known[b][g] \ {p} /\ owners[b][g] = knownOwner[b][g]
      <4>1. q \in Participants(g) \ {p}
        BY <2>0, <2>1, <3>1
      <4>2. QED
        BY <1>2, <1>3, <2>0, <2>2, <2>4, <3>1, <3>2, <4>1
    <3>4. QED
      BY <2>0, <2>2, <2>4, <3>3
  <2>5. QED
    BY <2>3, <2>4
<1>5. ASSUME NEW b \in Addresses, NEW g \in DOMAIN store, ~Here(connected, store, b, g)
      PROVE  view[b][g] = {} /\ owners[b][g] = NoOne
  <2>1. CASE b = a /\ g \in quits
    BY <1>1, <1>2, <1>3, <2>1 DEF LeftAs
  <2>2. CASE ~(b = a /\ g \in quits)
    <3>1. ~Here(connected, sessions, b, g)
      <4>1. SUFFICES ASSUME Here(connected, sessions, b, g) PROVE FALSE
        OBVIOUS
      <4>2. connected[b] \in Members(sessions, g) /\ sessions[g].participants[connected[b]] = b
        BY <4>1 DEF Here
      <4>3. CASE g \notin quits
        BY <1>1, <1>5, <4>2, <4>3 DEF LeftAs, Here
      <4>4. CASE g \in quits /\ connected[b] # p
        BY <1>1, <1>5, <4>2, <4>4 DEF LeftAs, Here
      <4>5. CASE g \in quits /\ connected[b] = p
        <5>1. b = a
          BY <4>5, RostersAssumption DEF Unique
        <5>2. QED
          BY <2>2, <4>5, <5>1
      <4>6. QED
        BY <4>3, <4>4, <4>5
    <3>2. known[b][g] = {} /\ knownOwner[b][g] = NoOne
      BY <1>1, <3>1 DEF LeftAs, Told
    <3>3. g \in GatheringIDs
      BY <1>1 DEF LeftAs
    <3>4. owners[b][g] = NoOne
      BY <1>3, <3>2, <3>3
    <3>5. view[b][g] \subseteq known[b][g]
      BY <1>2, <3>3
    <3>6. QED
      BY <3>2, <3>4, <3>5
  <2>3. QED
    BY <2>1, <2>2
<1>6. Told(connected, store, view, owners)
  <2>1. \A g \in DOMAIN store : \A q \in Members(store, g) :
          Knows(connected, store, view, owners, g, q)
    BY <1>4
  <2>2. \A b \in Addresses : \A g \in DOMAIN store :
          Here(connected, store, b, g) \/ (view[b][g] = {} /\ owners[b][g] = NoOne)
    BY <1>5
  <2>3. QED
    BY <2>1, <2>2 DEF Told
<1>7. QED
  BY <1>6 DEF store, view, owners

\* A player who enters g at a has all it needs to know, and so do the others.
LEMMA JoinedTells ==
  ASSUME NEW store, NEW view \in Views, NEW owners \in OwnerViews,
         DOMAIN store \subseteq GatheringIDs, NEW g \in GatheringIDs, g \in DOMAIN store,
         store[g] \in Empty \cup Session,
         \A h \in DOMAIN store : h # g => store[h] \in Session,
         NEW p \in Players, NEW a \in Addresses, connected[a] = p, p \notin Members(store, g),
         Told(connected, store, view, owners),
         NEW pick, Finds(connected, pick, a), pick[p] = a,
         Joined(store, view, owners, g, a, p, pick)
  PROVE  /\ StoreType(sessions') /\ DOMAIN sessions' = DOMAIN store
         /\ known' \in Views /\ knownOwner' \in OwnerViews
         /\ \A b \in Addresses : \A h \in GatheringIDs :
              /\ h # g => known'[b][h] = view[b][h]
              /\ knownOwner'[b][h] = IF b = a /\ h = g THEN store[g].owner ELSE owners[b][h]
         /\ \A h \in DOMAIN store : sessions'[h].owner = store[h].owner
         /\ \A h \in DOMAIN store : h # g => sessions'[h] = store[h]
         /\ Members(sessions', g) = Members(store, g) \cup {p}
         /\ sessions'[g].participants[p] = a
         /\ \A q \in Members(store, g) :
              sessions'[g].participants[q] = store[g].participants[q]
         /\ Told(connected, sessions', known', knownOwner')
<1> DEFINE before == Members(store, g)
           targets == IF store[g].notify = "owner" THEN {store[g].owner} \ {p}
                      ELSE before \cup {p}
           told == ToldJoined(view, knownOwner', g, {p}, targets, pick)
           after == [store EXCEPT ![g].participants =
                       [q \in before \cup {p} |-> IF q = p THEN a ELSE @[q]]]
<1>1. /\ sessions' = after
      /\ knownOwner' = [owners EXCEPT ![a][g] = store[g].owner]
      /\ known' = IF store[g].notify = "replay"
                  THEN ToldJoined(told, knownOwner', g, before, {p}, pick)
                  ELSE told
  BY DEF Joined, Members
<1>2. store[g].owner \in Players /\ store[g].notify \in Flags
  BY SessionFacts DEF Empty
<1>3. before \subseteq Players
  <2>1. CASE store[g] \in Session
    BY <2>1, SessionFacts DEF Members
  <2>2. CASE store[g] \in Empty
    BY <2>2 DEF Members, Empty
  <2>3. QED
    BY <2>1, <2>2
<1>4. /\ DOMAIN sessions' = DOMAIN store
      /\ \A h \in DOMAIN store : h # g => sessions'[h] = store[h]
      /\ sessions'[g] \in Session
      /\ sessions'[g].owner = store[g].owner
      /\ sessions'[g].notify = store[g].notify
      /\ Members(sessions', g) = before \cup {p}
      /\ sessions'[g].participants[p] = a
      /\ \A q \in before : sessions'[g].participants[q] = store[g].participants[q]
  <2>1. Seated(sessions', store, g, p, a)
    BY <1>1, <1>2, SeatedSession
  <2>2. QED
    BY <2>1 DEF Seated
<1>5. StoreType(sessions')
  BY <1>4 DEF StoreType
<1>6. /\ knownOwner' \in OwnerViews
      /\ \A b \in Addresses : \A h \in GatheringIDs :
           knownOwner'[b][h] = IF b = a /\ h = g THEN store[g].owner ELSE owners[b][h]
  BY <1>1, <1>2 DEF OwnerViews
<1> HIDE DEF targets, before
<1>7. Tells(told, view, knownOwner', g, {p}, targets, pick)
  BY <1>6, ToldJoinedTells
<1> HIDE DEF told
<1>8. IF store[g].notify = "replay" THEN Tells(known', told, knownOwner', g, before, {p}, pick)
                                   ELSE known' = told
  <2>1. told \in Views
    BY <1>7 DEF Tells
  <2>2. QED
    BY <1>1, <1>3, <1>6, <2>1, ToldJoinedTells
<1>9. /\ known' \in Views
      /\ \A b \in Addresses : \A h \in GatheringIDs : h # g => known'[b][h] = view[b][h]
  BY <1>7, <1>8 DEF Tells
<1>10. ~Here(connected, store, a, g)
  BY DEF Here
<1>11. view[a][g] = {}
  BY <1>10 DEF Told
<1>12. Knows(connected, sessions', known', knownOwner', g, p)
  <2>1. knownOwner'[a][g] # NoOne
    BY <1>2, <1>6, RostersAssumption
  <2>2. told[a][g] \subseteq {p}
    BY <1>7, <1>11 DEF Tells
  <2>3. CASE store[g].notify = "replay"
    <3>1. p \in targets
      BY <2>3 DEF targets
    <3>2. told[a][g] = {p}
      BY <1>7, <1>11, <2>1, <3>1 DEF Tells
    <3>3. known'[a][g] = told[a][g] \cup before
      BY <1>8, <2>1, <2>3 DEF Tells
    <3>4. QED
      BY <1>4, <2>1, <3>2, <3>3 DEF Knows
  <2>4. CASE store[g].notify # "replay"
    BY <1>4, <1>8, <2>1, <2>2, <2>4 DEF Knows
  <2>5. QED
    BY <2>3, <2>4
<1>13. ASSUME NEW q \in before
       PROVE  Knows(connected, sessions', known', knownOwner', g, q)
  <2> DEFINE b == store[g].participants[q]
  <2> SUFFICES ASSUME b # NoOne
               PROVE  /\ connected[b] = q
                      /\ knownOwner'[b][g] # NoOne
                      /\ known'[b][g] \subseteq before \cup {p}
                      /\ store[g].notify = "replay" => known'[b][g] = before \cup {p}
    BY <1>4 DEF Knows
  <2>1. /\ connected[b] = q /\ owners[b][g] # NoOne
        /\ view[b][g] \subseteq before
        /\ store[g].notify = "replay" => view[b][g] = before
    BY DEF Told, Knows, before
  <2>2. b \in Addresses
    <3>1. CASE store[g] \in Session
      BY <3>1, SessionFacts DEF before, Members
    <3>2. CASE store[g] \in Empty
      BY <3>2 DEF before, Members, Empty
    <3>3. QED
      BY <3>1, <3>2
  <2>3. q \in Players /\ q # p /\ b # a
    BY <1>3, <2>1 DEF before
  <2> HIDE DEF b
  <2>4. pick[q] = b /\ pick[p] # b
    BY <2>1, <2>2, <2>3 DEF Finds
  <2>5. knownOwner'[b][g] = owners[b][g]
    BY <1>6, <2>2, <2>3
  <2>6. known'[b][g] = told[b][g]
    BY <1>8, <2>2, <2>4 DEF Tells
  <2>7. told[b][g] \subseteq view[b][g] \cup {p}
    BY <1>7, <2>2 DEF Tells
  <2>8. store[g].notify = "replay" => told[b][g] = view[b][g] \cup {p}
    <3>1. store[g].notify = "replay" => q \in targets
      BY DEF targets
    <3>2. QED
      BY <1>7, <2>1, <2>2, <2>4, <2>5, <3>1 DEF Tells
  <2>9. QED
    BY <2>1, <2>5, <2>6, <2>7, <2>8
<1>14. ASSUME NEW h \in DOMAIN store, h # g, NEW q \in Members(store, h)
       PROVE  Knows(connected, sessions', known', knownOwner', h, q)
  <2>1. h \in GatheringIDs /\ store[h] \in Session /\ sessions'[h] = store[h]
    BY <1>4, <1>14
  <2>2. store[h].participants[q] \in Addresses \cup {NoOne}
    BY <1>14, <2>1, SessionFacts DEF Members
  <2>3. Knows(connected, store, view, owners, h, q)
    BY <1>14 DEF Told
  <2>4. Members(sessions', h) = Members(store, h)
    BY <2>1 DEF Members
  <2>5. \A b \in Addresses : known'[b][h] = view[b][h] /\ knownOwner'[b][h] = owners[b][h]
    BY <1>6, <1>9, <1>14, <2>1
  <2>6. QED
    BY <2>1, <2>2, <2>3, <2>4, <2>5 DEF Knows
<1>15. ASSUME NEW b \in Addresses, NEW h \in DOMAIN store,
              ~Here(connected, sessions', b, h)
       PROVE  known'[b][h] = {} /\ knownOwner'[b][h] = NoOne
  <2>1. CASE h # g
    <3>1. ~Here(connected, store, b, h)
      BY <1>4, <1>15, <2>1 DEF Here, Members
    <3>2. view[b][h] = {} /\ owners[b][h] = NoOne
      BY <3>1 DEF Told
    <3>3. QED
      BY <1>6, <1>9, <2>1, <3>2
  <2>2. CASE h = g
    <3>1. b # a
      BY <1>4, <1>15, <2>2 DEF Here
    <3>2. ~Here(connected, store, b, g)
      BY <1>4, <1>15, <2>2 DEF Here, before
    <3>3. view[b][g] = {} /\ owners[b][g] = NoOne
      BY <3>2 DEF Told
    <3>4. knownOwner'[b][g] = NoOne
      BY <1>6, <3>1, <3>3
    <3>5. told[b][g] = {}
      BY <1>7, <3>3, <3>4 DEF Tells
    <3>6. known'[b][g] = {}
      BY <1>8, <3>4, <3>5 DEF Tells
    <3>7. QED
      BY <2>2, <3>4, <3>6
  <2>3. QED
    BY <2>1, <2>2
<1>16. Told(connected, sessions', known', knownOwner')
  <2>1. \A h \in DOMAIN sessions' : \A q \in Members(sessions', h) :
          Knows(connected, sessions', known', knownOwner', h, q)
    <3>1. \A h \in DOMAIN store : h # g => Members(sessions', h) = Members(store, h)
      BY <1>4 DEF Members
    <3>2. QED
      BY <1>4, <1>12, <1>13, <1>14, <3>1
  <2>2. \A b \in Addresses : \A h \in DOMAIN sessions' :
          Here(connected, sessions', b, h) \/ (known'[b][h] = {} /\ knownOwner'[b][h] = NoOne)
    BY <1>4, <1>15
  <2>3. QED
    BY <2>1, <2>2 DEF Told
<1>17. QED
  BY <1>4, <1>5, <1>6, <1>9, <1>16 DEF before

-----------------------------------------------------------------------------
(***************************************************************************)
(* The inductive invariant.                                                *)
(***************************************************************************)

\* Nobody knows anything of a gathering that is not made yet.
Unheard(view, owners, n) ==
  \A a \in Addresses : \A g \in GatheringIDs :
    g > n => (view[a][g] = {} /\ owners[a][g] = NoOne)

\* Only a gathering that has ended is announced to have ended.
EndsAreSo ==
  \A event \in announcements :
    /\ event.gathering <= issued
    /\ event.owner = NoOne => event.gathering \notin DOMAIN sessions

IInv ==
  /\ TypeOK
  /\ Unique
  /\ Told(connected, sessions, known, knownOwner)
  /\ Unheard(known, knownOwner, issued)
  /\ EndsAreSo

\* In store, gatherings have the owners they had, and a console knows the owner,
\* or was there before and knows what it knew.
KeptOwners(store, owners) ==
  \A g \in DOMAIN store :
    /\ g \in DOMAIN sessions => store[g].owner = sessions[g].owner
    /\ g \notin DOMAIN sessions => g > issued
    /\ \A q \in Members(store, g) :
         LET b == store[g].participants[q] IN
         b # NoOne =>
           \/ owners[b][g] = store[g].owner
           \/ /\ g \in DOMAIN sessions
              /\ q \in Members(sessions, g)
              /\ sessions[g].participants[q] = b
              /\ owners[b][g] = knownOwner[b][g]

\* What is told in store is right, whatever gathering after the n-th is made next.
Consistent(store, view, owners, n) ==
  /\ view \in Views
  /\ owners \in OwnerViews
  /\ Told(connected, store, view, owners)
  /\ Unheard(view, owners, n)
  /\ KeptOwners(store, owners)

\* A state whose gatherings are known as they are.
LEMMA StateIsConsistent ==
  ASSUME IInv
  PROVE  StoreType(sessions) /\ Consistent(sessions, known, knownOwner, issued)
<1>1. StoreType(sessions)
  BY RostersAssumption DEF IInv, TypeOK, StoreType, GatheringIDs
<1>2. known \in Views /\ knownOwner \in OwnerViews
  BY DEF IInv, TypeOK, Views, OwnerViews
<1>3. KeptOwners(sessions, knownOwner)
  BY DEF KeptOwners
<1>4. QED
  BY <1>1, <1>2, <1>3 DEF IInv, Consistent

\* FindConnectionByPID finds the one connection there is.
LEMMA PicksFind ==
  ASSUME TypeOK, Unique, NEW pick \in Picks, NEW a \in Addresses
  PROVE  /\ Finds(connected, pick, a)
         /\ connected[a] \in Players => pick[connected[a]] = a
<1>1. ASSUME NEW b \in Addresses, connected[b] \in Players
      PROVE  pick[connected[b]] = b
  <2>1. pick[connected[b]] \in Addresses /\ connected[pick[connected[b]]] = connected[b]
    BY <1>1 DEF Picks
  <2>2. connected[b] # NoOne
    BY <1>1, RostersAssumption
  <2>3. QED
    BY <2>1, <2>2 DEF Unique
<1>2. QED
  BY <1>1 DEF Finds

\* Departures leave a consistent state.
LEMMA LeavingIsConsistent ==
  ASSUME IInv, NEW a \in Addresses, NEW p \in Players, connected[a] = p,
         NEW quits \in SUBSET MembershipsOf(p), NEW pick, Finds(connected, pick, a)
  PROVE  /\ StoreType(AfterLeaving(p, quits))
         /\ DOMAIN AfterLeaving(p, quits) \subseteq DOMAIN sessions
         /\ Consistent(AfterLeaving(p, quits), ToldLeft(p, a, quits, pick),
                       OwnersLeft(a, quits), issued)
<1> DEFINE store == AfterLeaving(p, quits)
           view == ToldLeft(p, a, quits, pick)
           owners == OwnersLeft(a, quits)
<1>1. /\ StoreType(store) /\ DOMAIN store \subseteq DOMAIN sessions
      /\ view \in Views /\ owners \in OwnerViews
  BY LeavingTypes DEF IInv
<1>2. Told(connected, store, view, owners)
  BY LeavingTells DEF IInv
<1>3. \A g \in DOMAIN store : LeftAs(store, p, quits, g)
  BY LeavingStore DEF IInv
<1>4. ASSUME NEW b \in Addresses, NEW g \in GatheringIDs
      PROVE  /\ owners[b][g] = IF b = a /\ g \in quits THEN NoOne ELSE knownOwner[b][g]
             /\ view[b][g] \subseteq known[b][g]
  <2>1. owners[b][g] = IF b = a /\ g \in quits THEN NoOne ELSE knownOwner[b][g]
    BY DEF OwnersLeft, IInv, TypeOK
  <2>2. view[b][g] \subseteq known[b][g]
    <3>1. view[b][g] = IF g \notin quits THEN known[b][g]
                       ELSE IF b = a THEN {}
                       ELSE IF \E q \in Participants(g) \ {p} : pick[q] = b
                            THEN known[b][g] \ {p}
                       ELSE known[b][g]
      BY DEF ToldLeft
    <3> HIDE DEF view
    <3>2. QED
      BY <3>1
  <2>3. QED
    BY <2>1, <2>2
<1> HIDE DEF store, view, owners
<1>5. Unheard(view, owners, issued)
  <2> SUFFICES ASSUME NEW b \in Addresses, NEW g \in GatheringIDs, g > issued
               PROVE  view[b][g] = {} /\ owners[b][g] = NoOne
    BY DEF Unheard
  <2>1. known[b][g] = {} /\ knownOwner[b][g] = NoOne
    BY DEF IInv, Unheard
  <2>2. QED
    BY <1>4, <2>1
<1>6. KeptOwners(store, owners)
  <2> SUFFICES ASSUME NEW g \in DOMAIN store
               PROVE  /\ g \in DOMAIN sessions
                      /\ store[g].owner = sessions[g].owner
                      /\ \A q \in Members(store, g) :
                           LET b == store[g].participants[q] IN
                           b # NoOne =>
                             /\ q \in Members(sessions, g)
                             /\ sessions[g].participants[q] = b
                             /\ owners[b][g] = knownOwner[b][g]
    BY DEF KeptOwners
  <2>1. LeftAs(store, p, quits, g)
    BY <1>3
  <2>2. ASSUME NEW q \in Members(store, g), store[g].participants[q] # NoOne
        PROVE  /\ q \in Members(sessions, g)
               /\ sessions[g].participants[q] = store[g].participants[q]
               /\ owners[store[g].participants[q]][g] = knownOwner[store[g].participants[q]][g]
    <3> DEFINE b == store[g].participants[q]
    <3>1. /\ q \in Members(sessions, g) /\ sessions[g].participants[q] = b
          /\ b \in Addresses /\ g \in GatheringIDs
          /\ g \in quits => q # p
      BY <2>1, <2>2 DEF LeftAs
    <3>2. connected[b] = q
      BY <1>2, <2>2 DEF Told, Knows
    <3>3. ~(b = a /\ g \in quits)
      BY <3>1, <3>2
    <3>4. QED
      BY <1>4, <3>1, <3>3
  <2>3. QED
    BY <2>1, <2>2 DEF LeftAs
<1>7. QED
  BY <1>1, <1>2, <1>5, <1>6 DEF Consistent, store, view, owners

-----------------------------------------------------------------------------
(***************************************************************************)
(* Steps.  None but the announcements and what they announce changes what  *)
(* a console knows of an owner, except in joining.                         *)
(***************************************************************************)

KeepsInv == IInv' /\ UNCHANGED <<announcements, overlapped>> /\ KeptOwners(sessions', knownOwner')

\* A player who enters a gathering of a consistent store.
LEMMA EnteringKeeps ==
  ASSUME IInv, NEW store, NEW view, NEW owners, issued' \in 0 .. MaxGatherings,
         issued <= issued', Consistent(store, view, owners, issued'),
         DOMAIN store \subseteq 1 .. issued',
         \A h \in DOMAIN store : h > issued \/ h \in DOMAIN sessions,
         NEW g \in DOMAIN store, store[g] \in Empty \cup Session,
         \A h \in DOMAIN store : h # g => store[h] \in Session,
         NEW a \in Addresses, NEW p \in Players, connected[a] = p, p \notin Members(store, g),
         NEW pick \in Picks, Joined(store, view, owners, g, a, p, pick),
         UNCHANGED <<connected, announcements, overlapped>>
  PROVE  KeepsInv
<1>1. DOMAIN store \subseteq GatheringIDs
  BY RostersAssumption DEF GatheringIDs
<1>2. Finds(connected, pick, a) /\ pick[p] = a
  BY PicksFind DEF IInv
<1>3. /\ StoreType(sessions') /\ DOMAIN sessions' = DOMAIN store
      /\ known' \in Views /\ knownOwner' \in OwnerViews
      /\ \A b \in Addresses : \A h \in GatheringIDs :
           /\ h # g => known'[b][h] = view[b][h]
           /\ knownOwner'[b][h] = IF b = a /\ h = g THEN store[g].owner ELSE owners[b][h]
      /\ \A h \in DOMAIN store : sessions'[h].owner = store[h].owner
      /\ \A h \in DOMAIN store : h # g => sessions'[h] = store[h]
      /\ Members(sessions', g) = Members(store, g) \cup {p}
      /\ sessions'[g].participants[p] = a
      /\ \A q \in Members(store, g) :
           sessions'[g].participants[q] = store[g].participants[q]
      /\ Told(connected, sessions', known', knownOwner')
  <2>1. view \in Views /\ owners \in OwnerViews /\ Told(connected, store, view, owners)
    BY DEF Consistent
  <2>2. g \in GatheringIDs
    BY <1>1
  <2>3. QED
    BY <1>1, <1>2, <2>1, <2>2, JoinedTells, SMTT(60)
<1>4. TypeOK'
  BY <1>3 DEF IInv, TypeOK, Views, OwnerViews, StoreType
<1>5. Unique' /\ Told(connected', sessions', known', knownOwner')
  BY <1>3 DEF IInv, Unique
<1>6. Unheard(known', knownOwner', issued')
  <2> SUFFICES ASSUME NEW b \in Addresses, NEW h \in GatheringIDs, h > issued'
               PROVE  known'[b][h] = {} /\ knownOwner'[b][h] = NoOne
    BY DEF Unheard
  <2>1. h # g
    OBVIOUS
  <2>2. view[b][h] = {} /\ owners[b][h] = NoOne
    BY DEF Consistent, Unheard
  <2>3. QED
    BY <1>3, <2>1, <2>2
<1>7. EndsAreSo'
  <2> SUFFICES ASSUME NEW event \in announcements
               PROVE  /\ event.gathering <= issued'
                      /\ event.owner = NoOne => event.gathering \notin DOMAIN store
    BY <1>3 DEF EndsAreSo
  <2>1. /\ event.gathering <= issued
        /\ event.owner = NoOne => event.gathering \notin DOMAIN sessions
    BY DEF IInv, EndsAreSo
  <2>2. event.gathering \in Int /\ issued \in Int /\ issued' \in Int
    BY RostersAssumption DEF IInv, TypeOK, Announcement, GatheringIDs
  <2>3. DOMAIN store \subseteq Int
    BY <2>2
  <2>4. QED
    BY <2>1, <2>2, <2>3
<1>8. KeptOwners(sessions', knownOwner')
  <2>1. ASSUME NEW h \in DOMAIN store, NEW q \in Members(sessions', h),
               sessions'[h].participants[q] # NoOne
        PROVE  LET b == sessions'[h].participants[q] IN
               \/ knownOwner'[b][h] = sessions'[h].owner
               \/ /\ h \in DOMAIN sessions
                  /\ q \in Members(sessions, h)
                  /\ sessions[h].participants[q] = b
                  /\ knownOwner'[b][h] = knownOwner[b][h]
    <3> DEFINE b == sessions'[h].participants[q]
    <3>1. CASE h = g /\ q = p
      BY <1>1, <1>3, <3>1
    <3>2. CASE ~(h = g /\ q = p)
      <4>1. q \in Members(store, h) /\ store[h].participants[q] = b
        BY <1>3, <2>1, <3>2 DEF Members
      <4>2. connected[b] = q
        BY <2>1, <4>1 DEF Consistent, Told, Knows
      <4>3. b \in Addresses /\ h \in GatheringIDs
        BY <1>1, <1>3, <2>1, SessionFacts DEF StoreType, Members
      <4>4. ~(b = a /\ h = g)
        BY <3>2, <4>2
      <4>5. knownOwner'[b][h] = owners[b][h] /\ sessions'[h].owner = store[h].owner
        BY <1>3, <2>1, <4>3, <4>4
      <4>6. \/ owners[b][h] = store[h].owner
            \/ /\ h \in DOMAIN sessions
               /\ q \in Members(sessions, h)
               /\ sessions[h].participants[q] = b
               /\ owners[b][h] = knownOwner[b][h]
        BY <2>1, <4>1 DEF Consistent, KeptOwners
      <4>7. QED
        BY <4>5, <4>6
    <3>3. QED
      BY <3>1, <3>2
  <2>2. \A h \in DOMAIN store : /\ h \in DOMAIN sessions => store[h].owner = sessions[h].owner
                                /\ h \notin DOMAIN sessions => h > issued
    BY DEF Consistent, KeptOwners
  <2>3. QED
    BY <1>3, <2>1, <2>2 DEF KeptOwners
<1>9. QED
  BY <1>4, <1>5, <1>6, <1>7, <1>8 DEF IInv, KeepsInv

\* Joining by ID.
LEMMA JoinKeeps ==
  ASSUME IInv, NEW a \in Addresses, NEW g, Join(a, g)
  PROVE  KeepsInv
<1> DEFINE p == connected[a]
<1>1. p \in Players /\ g \in DOMAIN sessions /\ p \notin Members(sessions, g)
  BY DEF Join, IInv, TypeOK, Participants, Members
<1>2. PICK pick \in Picks : Joined(sessions, known, knownOwner, g, a, p, pick)
  BY DEF Join
<1>3. UNCHANGED <<connected, issued, announcements, overlapped>>
  BY DEF Join
<1>4. /\ issued \in 0 .. MaxGatherings /\ DOMAIN sessions \subseteq 1 .. issued
      /\ \A h \in DOMAIN sessions : sessions[h] \in Session
  BY DEF IInv, TypeOK
<1> HIDE DEF p
<1>5. Consistent(sessions, known, knownOwner, issued')
  BY <1>3, StateIsConsistent
<1>6. issued <= issued'
  BY <1>3, <1>4
<1>7. QED
  BY <1>1, <1>2, <1>3, <1>4, <1>5, <1>6, EnteringKeeps DEF p

\* A player who leaves everything is in nothing.
LEMMA AllLeft ==
  ASSUME TypeOK, NEW p, NEW g \in DOMAIN AfterLeaving(p, MembershipsOf(p))
  PROVE  p \notin Members(AfterLeaving(p, MembershipsOf(p)), g)
<1> DEFINE store == AfterLeaving(p, MembershipsOf(p))
<1>1. LeftAs(store, p, MembershipsOf(p), g)
  BY LeavingStore
<1> HIDE DEF store
<1>2. p \notin Members(store, g)
  BY <1>1 DEF LeftAs, MembershipsOf
<1>3. QED
  BY <1>2 DEF store

\* Automatic matchmaking that finds a gathering.
LEMMA AutoMatchmakeKeeps ==
  ASSUME IInv, NEW a \in Addresses, NEW g, AutoMatchmake(a, g)
  PROVE  KeepsInv
<1> DEFINE p == connected[a]
           quits == MembershipsOf(p)
           store == AfterLeaving(p, quits)
           owners == OwnersLeft(a, quits)
<1>1. p \in Players /\ g \in DOMAIN store
  BY DEF AutoMatchmake, IInv, TypeOK
<1>2. PICK pick \in Picks : Joined(store, ToldLeft(p, a, quits, pick), owners, g, a, p, pick)
  BY DEF AutoMatchmake
<1> DEFINE view == ToldLeft(p, a, quits, pick)
<1>3. UNCHANGED <<connected, issued, announcements, overlapped>>
  BY DEF AutoMatchmake
<1>4. issued \in 0 .. MaxGatherings /\ DOMAIN sessions \subseteq 1 .. issued
  BY DEF IInv, TypeOK
<1>5. /\ StoreType(store) /\ DOMAIN store \subseteq DOMAIN sessions
      /\ Consistent(store, view, owners, issued)
  <2>1. Finds(connected, pick, a)
    BY PicksFind DEF IInv
  <2>2. QED
    BY <1>1, <2>1, LeavingIsConsistent
<1>6. p \notin Members(store, g)
  BY <1>1, AllLeft DEF IInv
<1> HIDE DEF store, view, owners, quits
<1>7. Consistent(store, view, owners, issued') /\ issued <= issued'
  BY <1>3, <1>4, <1>5
<1>8. /\ DOMAIN store \subseteq 1 .. issued'
      /\ issued' \in 0 .. MaxGatherings
      /\ \A h \in DOMAIN store : store[h] \in Session /\ h \in DOMAIN sessions
  BY <1>3, <1>4, <1>5 DEF StoreType
<1>9. Joined(store, view, owners, g, a, p, pick)
  BY <1>2 DEF store, view, owners, quits
<1>10. QED
  BY <1>1, <1>3, <1>6, <1>7, <1>8, <1>9, EnteringKeeps

\* Making a gathering.
LEMMA CreateKeeps ==
  ASSUME IInv, NEW a \in Addresses, NEW notify \in NotifyFlags, Create(a, notify)
  PROVE  KeepsInv
<1> DEFINE p == connected[a]
           quits == MembershipsOf(p)
           left == AfterLeaving(p, quits)
           owners == OwnersLeft(a, quits)
           g == issued + 1
           empty == [owner |-> p, participants |-> << >>, notify |-> notify]
           store == [h \in DOMAIN left \cup {g} |-> IF h = g THEN empty ELSE left[h]]
<1>1. p \in Players /\ g <= MaxGatherings /\ issued' = g
  BY DEF Create, IInv, TypeOK
<1>2. PICK pick \in Picks : Joined(store, ToldLeft(p, a, quits, pick), owners, g, a, p, pick)
  BY DEF Create
<1> DEFINE view == ToldLeft(p, a, quits, pick)
<1>3. UNCHANGED <<connected, announcements, overlapped>>
  BY DEF Create
<1>4. /\ issued \in 0 .. MaxGatherings /\ DOMAIN sessions \subseteq 1 .. issued
      /\ issued' \in 0 .. MaxGatherings /\ issued <= issued' /\ g \in GatheringIDs
      /\ g \notin DOMAIN sessions /\ g > issued
  BY <1>1, RostersAssumption DEF IInv, TypeOK, GatheringIDs
<1>5. /\ StoreType(left) /\ DOMAIN left \subseteq DOMAIN sessions
      /\ Consistent(left, view, owners, issued)
  <2>1. Finds(connected, pick, a)
    BY PicksFind DEF IInv
  <2>2. QED
    BY <1>1, <2>1, LeavingIsConsistent
<1>6. empty \in Empty /\ DOMAIN empty.participants = {}
  BY <1>1, RostersAssumption DEF Empty
<1>7. /\ DOMAIN store = DOMAIN left \cup {g}
      /\ store[g] = empty
      /\ \A h \in DOMAIN left : h # g /\ store[h] = left[h]
  BY <1>4, <1>5
<1>8. Joined(store, view, owners, g, a, p, pick)
  BY <1>2
<1> HIDE DEF left, store, view, owners, empty, quits
<1>9. Members(store, g) = {}
  BY <1>6, <1>7 DEF Members
<1>10. \A h \in DOMAIN left : Members(store, h) = Members(left, h)
  BY <1>7 DEF Members
<1>11. Told(connected, store, view, owners)
  <2>1. \A h \in DOMAIN store : \A q \in Members(store, h) :
          Knows(connected, store, view, owners, h, q)
    <3> SUFFICES ASSUME NEW h \in DOMAIN store, NEW q \in Members(store, h)
                 PROVE  Knows(connected, store, view, owners, h, q)
      OBVIOUS
    <3>1. h \in DOMAIN left /\ store[h] = left[h] /\ Members(store, h) = Members(left, h)
      BY <1>7, <1>9, <1>10
    <3>2. Knows(connected, left, view, owners, h, q)
      BY <1>5, <3>1 DEF Consistent, Told
    <3>3. QED
      BY <3>1, <3>2 DEF Knows
  <2>2. \A b \in Addresses : \A h \in DOMAIN store :
          Here(connected, store, b, h) \/ (view[b][h] = {} /\ owners[b][h] = NoOne)
    <3> SUFFICES ASSUME NEW b \in Addresses, NEW h \in DOMAIN store
                 PROVE  \/ Here(connected, store, b, h)
                        \/ view[b][h] = {} /\ owners[b][h] = NoOne
      OBVIOUS
    <3>1. CASE h = g
      BY <1>4, <1>5, <3>1 DEF Consistent, Unheard
    <3>2. CASE h # g
      <4>1. h \in DOMAIN left /\ store[h] = left[h] /\ Members(store, h) = Members(left, h)
        BY <1>7, <1>10, <3>2
      <4>2. \/ Here(connected, left, b, h)
            \/ view[b][h] = {} /\ owners[b][h] = NoOne
        BY <1>5, <4>1 DEF Consistent, Told
      <4>3. QED
        BY <4>1, <4>2 DEF Here
    <3>3. QED
      BY <3>1, <3>2
  <2>3. QED
    BY <2>1, <2>2 DEF Told
<1>12. Consistent(store, view, owners, issued')
  <2>1. Unheard(view, owners, issued')
    <3> SUFFICES ASSUME NEW b \in Addresses, NEW h \in GatheringIDs, h > issued'
                 PROVE  view[b][h] = {} /\ owners[b][h] = NoOne
      BY DEF Unheard
    <3>1. h > issued
      BY <1>1, <1>4, RostersAssumption DEF GatheringIDs
    <3>2. QED
      BY <1>5, <3>1 DEF Consistent, Unheard
  <2>2. KeptOwners(store, owners)
    <3> SUFFICES ASSUME NEW h \in DOMAIN store
                 PROVE  /\ h \in DOMAIN sessions => store[h].owner = sessions[h].owner
                        /\ h \notin DOMAIN sessions => h > issued
                        /\ \A q \in Members(store, h) :
                             LET b == store[h].participants[q] IN
                             b # NoOne =>
                               \/ owners[b][h] = store[h].owner
                               \/ /\ h \in DOMAIN sessions
                                  /\ q \in Members(sessions, h)
                                  /\ sessions[h].participants[q] = b
                                  /\ owners[b][h] = knownOwner[b][h]
      BY DEF KeptOwners
    <3>1. CASE h = g
      BY <1>4, <1>9, <3>1
    <3>2. CASE h # g
      <4>1. h \in DOMAIN left /\ store[h] = left[h] /\ Members(store, h) = Members(left, h)
        BY <1>7, <1>10, <3>2
      <4>2. QED
        BY <1>5, <4>1 DEF Consistent, KeptOwners
    <3>3. QED
      BY <3>1, <3>2
  <2>3. QED
    BY <1>5, <1>11, <2>1, <2>2 DEF Consistent
<1>13. /\ DOMAIN store \subseteq 1 .. issued'
       /\ \A h \in DOMAIN store : h > issued \/ h \in DOMAIN sessions
       /\ \A h \in DOMAIN store : h # g => store[h] \in Session
       /\ store[g] \in Empty /\ g \in DOMAIN store
  <2>1. DOMAIN left \subseteq 1 .. issued'
    BY <1>1, <1>4, <1>5
  <2>2. g \in 1 .. issued'
    BY <1>1, <1>4
  <2>3. QED
    BY <1>4, <1>5, <1>6, <1>7, <2>1, <2>2 DEF StoreType
<1> HIDE DEF g, p
<1>14. QED
  BY <1>1, <1>3, <1>4, <1>8, <1>9, <1>12, <1>13, EnteringKeeps DEF p

\* What is consistent and told is an invariant's next state, if nothing else changes.
LEMMA LeaversKeep ==
  ASSUME IInv, StoreType(sessions'), DOMAIN sessions' \subseteq DOMAIN sessions,
         connected' \in [Addresses -> Players \cup {NoOne}], Unique',
         known' \in Views, knownOwner' \in OwnerViews,
         Told(connected', sessions', known', knownOwner'),
         Unheard(known', knownOwner', issued), KeptOwners(sessions', knownOwner'),
         UNCHANGED <<issued, announcements, overlapped>>
  PROVE  KeepsInv
<1>1. TypeOK'
  BY DEF IInv, TypeOK, Views, OwnerViews, StoreType
<1>2. EndsAreSo'
  BY DEF IInv, EndsAreSo
<1>3. Unheard(known', knownOwner', issued')
  OBVIOUS
<1>4. QED
  BY <1>1, <1>2, <1>3 DEF IInv, KeepsInv

\* Leaving one gathering.
LEMMA LeaveKeeps ==
  ASSUME IInv, NEW a \in Addresses, NEW g, Leave(a, g)
  PROVE  KeepsInv
<1> DEFINE p == connected[a]
<1>1. p \in Players /\ {g} \in SUBSET MembershipsOf(p)
  BY DEF Leave, IInv, TypeOK
<1>2. PICK pick \in Picks : known' = ToldLeft(p, a, {g}, pick)
  BY DEF Leave
<1>3. /\ sessions' = AfterLeaving(p, {g})
      /\ knownOwner' = OwnersLeft(a, {g})
      /\ UNCHANGED <<connected, issued, announcements, overlapped>>
  BY DEF Leave
<1>4. Finds(connected, pick, a)
  BY PicksFind DEF IInv
<1>5. /\ StoreType(sessions') /\ DOMAIN sessions' \subseteq DOMAIN sessions
      /\ Consistent(sessions', known', knownOwner', issued)
  BY <1>1, <1>2, <1>3, <1>4, LeavingIsConsistent
<1>6. connected' \in [Addresses -> Players \cup {NoOne}] /\ Unique'
  BY <1>3 DEF IInv, TypeOK, Unique
<1>7. QED
  BY <1>3, <1>5, <1>6, LeaversKeep DEF Consistent

\* The connections that remain when one ends are found.
LEMMA EndedFinds ==
  ASSUME TypeOK, Unique, NEW a \in Addresses, NEW pick \in Picks',
         connected' = [connected EXCEPT ![a] = NoOne]
  PROVE  Finds(connected, pick, a)
<1> SUFFICES ASSUME NEW b \in Addresses \ {a}, connected[b] \in Players
             PROVE  pick[connected[b]] = b
  BY DEF Finds
<1>1. \A c \in Addresses : connected'[c] = IF c = a THEN NoOne ELSE connected[c]
  BY DEF TypeOK
<1>2. connected'[b] = connected[b] /\ connected[b] # NoOne
  BY <1>1, RostersAssumption
<1>3. pick[connected[b]] \in Addresses /\ connected'[pick[connected[b]]] = connected[b]
  BY <1>2 DEF Picks
<1>4. connected[pick[connected[b]]] = connected[b]
  BY <1>1, <1>2, <1>3
<1>5. QED
  BY <1>2, <1>3, <1>4 DEF Unique

\* The end of a connection.
LEMMA ConnectionEndedKeeps ==
  ASSUME IInv, NEW a \in Addresses, ConnectionEnded(a)
  PROVE  KeepsInv
<1> DEFINE p == connected[a]
           quits == MembershipsOf(p)
           store == AfterLeaving(p, quits)
           owners == OwnersLeft(a, quits)
<1>1. p \in Players /\ quits \in SUBSET MembershipsOf(p)
  BY DEF ConnectionEnded, IInv, TypeOK
<1>2. PICK pick \in Picks' : known' = [ToldLeft(p, a, quits, pick) EXCEPT
                                         ![a] = [g \in GatheringIDs |-> {}]]
  BY DEF ConnectionEnded
<1> DEFINE view == ToldLeft(p, a, quits, pick)
<1>3. /\ sessions' = store
      /\ connected' = [connected EXCEPT ![a] = NoOne]
      /\ knownOwner' = [knownOwner EXCEPT ![a] = [g \in GatheringIDs |-> NoOne]]
      /\ UNCHANGED <<issued, announcements, overlapped>>
  BY DEF ConnectionEnded
<1>4. /\ connected' \in [Addresses -> Players \cup {NoOne}]
      /\ connected'[a] = NoOne
      /\ \A b \in Addresses \ {a} : connected'[b] = connected[b]
  BY <1>3 DEF IInv, TypeOK
<1>5. Unique'
  <2>1. \A b \in Addresses : connected'[b] = NoOne \/ connected'[b] = connected[b]
    BY <1>4
  <2>2. QED
    BY <2>1 DEF IInv, Unique
<1>6. Finds(connected, pick, a)
  BY <1>3, EndedFinds DEF IInv
<1>7. /\ StoreType(store) /\ DOMAIN store \subseteq DOMAIN sessions
      /\ Consistent(store, view, owners, issued)
  BY <1>1, <1>6, LeavingIsConsistent
<1>8. ASSUME NEW b \in Addresses, NEW g \in GatheringIDs
      PROVE  /\ known'[b][g] = IF b = a THEN {} ELSE view[b][g]
             /\ knownOwner'[b][g] = IF b = a THEN NoOne ELSE owners[b][g]
  <2>1. view \in Views
    BY <1>7 DEF Consistent
  <2>2. known'[b][g] = IF b = a THEN {} ELSE view[b][g]
    <3> HIDE DEF view
    <3>1. QED
      BY <1>2, <2>1 DEF Views, view
  <2>3. knownOwner'[b][g] = IF b = a THEN NoOne ELSE owners[b][g]
    BY <1>3 DEF OwnersLeft, IInv, TypeOK
  <2>4. QED
    BY <2>2, <2>3
<1>9. known' \in Views /\ knownOwner' \in OwnerViews
  <2>1. view \in Views
    BY <1>7 DEF Consistent
  <2>2. known' \in Views
    BY <1>2, <2>1 DEF Views
  <2>3. knownOwner' \in OwnerViews
    BY <1>3 DEF IInv, TypeOK, OwnerViews
  <2>4. QED
    BY <2>2, <2>3
<1>10. \A g \in DOMAIN store : p \notin Members(store, g) /\ g \in GatheringIDs
  BY <1>7, AllLeft DEF IInv, StoreType
<1>11. ASSUME NEW g \in DOMAIN store, NEW q \in Members(store, g),
              store[g].participants[q] # NoOne
       PROVE  store[g].participants[q] \in Addresses \ {a}
  <2>1. store[g].participants[q] \in Addresses
    BY <1>7, <1>11, SessionFacts DEF StoreType, Members
  <2>2. connected[store[g].participants[q]] = q
    BY <1>7, <1>11 DEF Consistent, Told, Knows
  <2>3. q # p
    BY <1>10
  <2>4. QED
    BY <2>1, <2>2, <2>3
<1> HIDE DEF store, view, owners, quits
<1>12. Told(connected', store, known', knownOwner')
  <2>1. \A g \in DOMAIN store : \A q \in Members(store, g) :
          Knows(connected', store, known', knownOwner', g, q)
    <3> SUFFICES ASSUME NEW g \in DOMAIN store, NEW q \in Members(store, g)
                 PROVE  Knows(connected', store, known', knownOwner', g, q)
      OBVIOUS
    <3>1. Knows(connected, store, view, owners, g, q)
      BY <1>7 DEF Consistent, Told
    <3>2. CASE store[g].participants[q] = NoOne
      BY <3>2 DEF Knows
    <3>3. CASE store[g].participants[q] # NoOne
      <4>1. store[g].participants[q] \in Addresses \ {a} /\ g \in GatheringIDs
        BY <1>10, <1>11, <3>3
      <4>2. QED
        BY <1>4, <1>8, <3>1, <4>1 DEF Knows
    <3>4. QED
      BY <3>2, <3>3
  <2>2. \A b \in Addresses : \A g \in DOMAIN store :
          Here(connected', store, b, g) \/ (known'[b][g] = {} /\ knownOwner'[b][g] = NoOne)
    <3> SUFFICES ASSUME NEW b \in Addresses, NEW g \in DOMAIN store
                 PROVE  \/ Here(connected', store, b, g)
                        \/ known'[b][g] = {} /\ knownOwner'[b][g] = NoOne
      OBVIOUS
    <3>1. g \in GatheringIDs
      BY <1>10
    <3>2. CASE b = a
      BY <1>8, <3>1, <3>2
    <3>3. CASE b # a
      <4>1. \/ Here(connected, store, b, g)
            \/ view[b][g] = {} /\ owners[b][g] = NoOne
        BY <1>7 DEF Consistent, Told
      <4>2. connected'[b] = connected[b]
        BY <1>4, <3>3
      <4>3. QED
        BY <1>8, <3>1, <3>3, <4>1, <4>2 DEF Here
    <3>4. QED
      BY <3>2, <3>3
  <2>3. QED
    BY <2>1, <2>2 DEF Told
<1>13. Unheard(known', knownOwner', issued)
  <2> SUFFICES ASSUME NEW b \in Addresses, NEW g \in GatheringIDs, g > issued
               PROVE  known'[b][g] = {} /\ knownOwner'[b][g] = NoOne
    BY DEF Unheard
  <2>1. view[b][g] = {} /\ owners[b][g] = NoOne
    BY <1>7 DEF Consistent, Unheard
  <2>2. QED
    BY <1>8, <2>1
<1>14. KeptOwners(store, knownOwner')
  <2>1. KeptOwners(store, owners)
    BY <1>7 DEF Consistent
  <2>2. \A g \in DOMAIN store : \A q \in Members(store, g) :
          LET b == store[g].participants[q] IN
          b # NoOne => knownOwner'[b][g] = owners[b][g]
    BY <1>8, <1>10, <1>11
  <2>3. QED
    BY <2>1, <2>2 DEF KeptOwners
<1>15. QED
  BY <1>3, <1>4, <1>5, <1>7, <1>9, <1>12, <1>13, <1>14, LeaversKeep

\* A console that connects, for the first time or anew, starts from nothing.
LEMMA ConnectKeeps ==
  ASSUME IInv, OneConnectionEach = TRUE, NEW a \in Addresses, NEW p \in Players, Connect(a, p)
  PROVE  KeepsInv
<1>1. /\ connected[a] \in {NoOne, p}
      /\ \A b \in Addresses \ {a} : connected[b] # p
      /\ connected' = [connected EXCEPT ![a] = p]
      /\ known' = [known EXCEPT ![a] = [g \in GatheringIDs |-> {}]]
      /\ knownOwner' = [knownOwner EXCEPT ![a] = [g \in GatheringIDs |-> NoOne]]
      /\ sessions' = [g \in DOMAIN sessions |->
           [sessions[g] EXCEPT !.participants =
              [q \in DOMAIN @ |-> IF q = p THEN NoOne ELSE @[q]]]]
      /\ UNCHANGED <<issued, announcements, overlapped>>
  BY DEF Connect
<1>2. /\ connected' \in [Addresses -> Players \cup {NoOne}]
      /\ connected'[a] = p
      /\ \A b \in Addresses \ {a} : connected'[b] = connected[b]
  BY <1>1 DEF IInv, TypeOK
<1>3. Unique'
  BY <1>1, <1>2 DEF IInv, Unique
<1>4. ASSUME NEW b \in Addresses, NEW g \in GatheringIDs
      PROVE  /\ known'[b][g] = IF b = a THEN {} ELSE known[b][g]
             /\ knownOwner'[b][g] = IF b = a THEN NoOne ELSE knownOwner[b][g]
  BY <1>1 DEF IInv, TypeOK
<1>5. known' \in Views /\ knownOwner' \in OwnerViews
  BY <1>1 DEF IInv, TypeOK, Views, OwnerViews
<1>6. ASSUME NEW g \in DOMAIN sessions
      PROVE  /\ g \in GatheringIDs /\ sessions'[g] \in Session
             /\ sessions'[g].owner = sessions[g].owner
             /\ sessions'[g].notify = sessions[g].notify
             /\ Members(sessions', g) = Members(sessions, g)
             /\ \A q \in Members(sessions, g) :
                  sessions'[g].participants[q] =
                    IF q = p THEN NoOne ELSE sessions[g].participants[q]
             /\ \A q \in Members(sessions, g) :
                  sessions[g].participants[q] \in Addresses \cup {NoOne}
  <2> DEFINE f == [q \in DOMAIN sessions[g].participants |->
                     IF q = p THEN NoOne ELSE sessions[g].participants[q]]
  <2>1. g \in GatheringIDs /\ sessions[g] \in Session
    BY StateIsConsistent DEF StoreType
  <2>2. /\ f \in [DOMAIN sessions[g].participants -> Addresses \cup {NoOne}]
        /\ DOMAIN sessions[g].participants \in SUBSET Players
    BY <2>1, SessionFacts
  <2>3. sessions'[g] = [sessions[g] EXCEPT !.participants = f]
    BY <1>1
  <2> HIDE DEF f
  <2>4. sessions'[g] \in Session
    BY <2>1, <2>2, <2>3, SessionWith
  <2>5. /\ sessions'[g].owner = sessions[g].owner
        /\ sessions'[g].notify = sessions[g].notify
        /\ sessions'[g].participants = f
    BY <2>1, <2>3 DEF Session
  <2>6. QED
    BY <2>1, <2>4, <2>5, SessionFacts DEF Members, f
<1>7. DOMAIN sessions' = DOMAIN sessions /\ StoreType(sessions')
  BY <1>1, <1>6 DEF StoreType
<1>8. ASSUME NEW g \in DOMAIN sessions, NEW q \in Members(sessions, g),
             sessions'[g].participants[q] # NoOne
      PROVE  /\ q # p /\ sessions'[g].participants[q] = sessions[g].participants[q]
             /\ sessions[g].participants[q] \in Addresses \ {a}
  <2>1. q # p /\ sessions'[g].participants[q] = sessions[g].participants[q]
        /\ sessions[g].participants[q] \in Addresses
    BY <1>6, <1>8
  <2>2. connected[sessions[g].participants[q]] = q /\ q # NoOne
    <3>1. q \in Players
      BY StateIsConsistent, SessionFacts DEF StoreType, Members
    <3>2. QED
      BY <1>8, <2>1, <3>1, RostersAssumption DEF IInv, Told, Knows
  <2>3. QED
    BY <1>1, <2>1, <2>2
<1>9. Told(connected', sessions', known', knownOwner')
  <2>1. \A g \in DOMAIN sessions' : \A q \in Members(sessions', g) :
          Knows(connected', sessions', known', knownOwner', g, q)
    <3> SUFFICES ASSUME NEW g \in DOMAIN sessions, NEW q \in Members(sessions, g)
                 PROVE  Knows(connected', sessions', known', knownOwner', g, q)
      BY <1>6, <1>7
    <3>1. CASE sessions'[g].participants[q] = NoOne
      BY <3>1 DEF Knows
    <3>2. CASE sessions'[g].participants[q] # NoOne
      <4>1. Knows(connected, sessions, known, knownOwner, g, q)
        BY DEF IInv, Told
      <4>2. QED
        BY <1>2, <1>4, <1>6, <1>8, <3>2, <4>1 DEF Knows
    <3>3. QED
      BY <3>1, <3>2
  <2>2. \A b \in Addresses : \A g \in DOMAIN sessions' :
          Here(connected', sessions', b, g) \/ (known'[b][g] = {} /\ knownOwner'[b][g] = NoOne)
    <3> SUFFICES ASSUME NEW b \in Addresses, NEW g \in DOMAIN sessions
                 PROVE  \/ Here(connected', sessions', b, g)
                        \/ known'[b][g] = {} /\ knownOwner'[b][g] = NoOne
      BY <1>7
    <3>1. CASE b = a
      BY <1>4, <1>6, <3>1
    <3>2. CASE b # a
      <4>1. \/ Here(connected, sessions, b, g)
            \/ known[b][g] = {} /\ knownOwner[b][g] = NoOne
        BY DEF IInv, Told
      <4>2. connected'[b] = connected[b] /\ connected[b] # p
        BY <1>1, <1>2, <3>2
      <4>3. QED
        BY <1>4, <1>6, <3>2, <4>1, <4>2 DEF Here
    <3>3. QED
      BY <3>1, <3>2
  <2>3. QED
    BY <2>1, <2>2 DEF Told
<1>10. Unheard(known', knownOwner', issued)
  BY <1>4 DEF IInv, Unheard
<1>11. KeptOwners(sessions', knownOwner')
  <2>1. \A g \in DOMAIN sessions' : \A q \in Members(sessions', g) :
          LET b == sessions'[g].participants[q] IN
          b # NoOne =>
            /\ q \in Members(sessions, g)
            /\ sessions[g].participants[q] = b
            /\ knownOwner'[b][g] = knownOwner[b][g]
    BY <1>4, <1>6, <1>7, <1>8
  <2>2. QED
    BY <1>6, <1>7, <2>1 DEF KeptOwners
<1>12. QED
  BY <1>1, <1>2, <1>3, <1>5, <1>7, <1>9, <1>10, <1>11, LeaversKeep

-----------------------------------------------------------------------------
(***************************************************************************)
(* Announcements, and what they announce.                                  *)
(***************************************************************************)

\* A handler that changes no membership keeps what is told right.
LEMMA SameMembersKeep ==
  ASSUME IInv, StoreType(sessions'), DOMAIN sessions' \subseteq DOMAIN sessions,
         \A g \in DOMAIN sessions' :
           /\ sessions'[g].participants = sessions[g].participants
           /\ sessions'[g].notify = sessions[g].notify,
         announcements' \subseteq Announcement, overlapped' \subseteq GatheringIDs, EndsAreSo',
         UNCHANGED <<connected, issued, known, knownOwner>>
  PROVE  IInv'
<1>1. TypeOK' /\ Unique'
  BY DEF IInv, TypeOK, StoreType, Unique
<1>2. \A g \in DOMAIN sessions' : Members(sessions', g) = Members(sessions, g)
  BY DEF Members
<1>3. \A g \in DOMAIN sessions' : \A q \in Members(sessions', g) :
        Knows(connected', sessions', known', knownOwner', g, q)
  BY <1>2 DEF IInv, Told, Knows
<1>4. \A a \in Addresses : \A g \in DOMAIN sessions' :
        Here(connected', sessions', a, g) \/ (known'[a][g] = {} /\ knownOwner'[a][g] = NoOne)
  BY <1>2 DEF IInv, Told, Here
<1>5. Told(connected', sessions', known', knownOwner')
  BY <1>3, <1>4 DEF Told
<1>6. Unheard(known', knownOwner', issued')
  BY DEF IInv, Unheard
<1>7. QED
  BY <1>1, <1>5, <1>6 DEF IInv

\* Gatherings overlap, and nothing else.
LEMMA OverlappedTypes ==
  ASSUME TypeOK, NEW g \in GatheringIDs, NEW owner, NEW targets, Announce(g, owner, targets)
  PROVE  overlapped' \subseteq GatheringIDs
BY DEF TypeOK, Announce

\* The end of a gathering that its owner unregisters.
LEMMA DestroyGatheringKeeps ==
  ASSUME IInv, NEW a, NEW g, DestroyGathering(a, g)
  PROVE  IInv'
<1> DEFINE event == [gathering |-> g, owner |-> NoOne, targets |-> Participants(g)]
<1>1. /\ g \in DOMAIN sessions
      /\ sessions' = [h \in DOMAIN sessions \ {g} |-> sessions[h]]
      /\ announcements' = announcements \cup {event}
      /\ UNCHANGED <<connected, issued, known, knownOwner>>
  BY DEF DestroyGathering, Announce
<1>2. g \in GatheringIDs /\ sessions[g] \in Session /\ StoreType(sessions)
      /\ g <= issued
  BY <1>1, StateIsConsistent DEF StoreType, IInv, TypeOK
<1>3. event \in Announcement
  BY <1>2, SessionFacts DEF Announcement, Participants
<1> HIDE DEF event
<1>4. announcements' \subseteq Announcement /\ overlapped' \subseteq GatheringIDs
  BY <1>1, <1>2, <1>3, OverlappedTypes DEF IInv, TypeOK, DestroyGathering
<1>5. EndsAreSo'
  <2>1. event.gathering = g
    BY DEF event
  <2>2. QED
    BY <1>1, <1>2, <2>1 DEF IInv, EndsAreSo
<1>6. StoreType(sessions') /\ DOMAIN sessions' = DOMAIN sessions \ {g}
  BY <1>1, <1>2 DEF StoreType
<1>7. QED
  BY <1>1, <1>4, <1>5, <1>6, SameMembersKeep

\* What a change of owner does.
LEMMA ChangeOwnerFacts ==
  ASSUME IInv, NEW a, NEW g, NEW q, ChangeOwner(a, g, q)
  PROVE  /\ g \in DOMAIN sessions /\ q \in Players
         /\ g \in GatheringIDs /\ g <= issued
         /\ Participants(g) \subseteq Players
         /\ StoreType(sessions') /\ DOMAIN sessions' = DOMAIN sessions
         /\ \A h \in DOMAIN sessions :
              /\ sessions'[h].participants = sessions[h].participants
              /\ sessions'[h].notify = sessions[h].notify
              /\ sessions'[h].owner = IF h = g THEN q ELSE sessions[h].owner
<1>1. /\ g \in DOMAIN sessions /\ q \in Participants(g)
      /\ sessions' = [sessions EXCEPT ![g].owner = q]
  BY DEF ChangeOwner
<1>2. StoreType(sessions) /\ g <= issued
  BY <1>1, StateIsConsistent DEF IInv, TypeOK
<1>3. sessions[g] \in Session /\ g \in GatheringIDs
  BY <1>1, <1>2 DEF StoreType
<1>4. Participants(g) \subseteq Players
  BY <1>3, SessionFacts DEF Participants
<1> DEFINE s == [sessions[g] EXCEPT !.owner = q]
<1>5. /\ s \in Session /\ s.participants = sessions[g].participants
      /\ s.notify = sessions[g].notify /\ s.owner = q
  BY <1>1, <1>3, <1>4 DEF Session
<1>6. /\ DOMAIN sessions' = DOMAIN sessions
      /\ \A h \in DOMAIN sessions : sessions'[h] = IF h = g THEN s ELSE sessions[h]
  BY <1>1
<1> HIDE DEF s
<1>7. QED
  BY <1>1, <1>2, <1>3, <1>4, <1>5, <1>6 DEF StoreType

\* A change of owner.
LEMMA ChangeOwnerKeeps ==
  ASSUME IInv, NEW a, NEW g, NEW q, ChangeOwner(a, g, q)
  PROVE  IInv'
<1> DEFINE event == [gathering |-> g, owner |-> q, targets |-> Participants(g)]
<1>1. /\ announcements' = announcements \cup {event}
      /\ UNCHANGED <<connected, issued, known, knownOwner>>
  BY DEF ChangeOwner, Announce
<1>2. /\ q \in Players /\ g \in GatheringIDs /\ g <= issued
      /\ Participants(g) \subseteq Players
      /\ StoreType(sessions') /\ DOMAIN sessions' = DOMAIN sessions
      /\ \A h \in DOMAIN sessions :
           /\ sessions'[h].participants = sessions[h].participants
           /\ sessions'[h].notify = sessions[h].notify
  BY ChangeOwnerFacts
<1>3. event \in Announcement /\ event.gathering = g /\ event.owner # NoOne
  BY <1>2, RostersAssumption DEF Announcement
<1> HIDE DEF event
<1>4. announcements' \subseteq Announcement /\ overlapped' \subseteq GatheringIDs
  BY <1>1, <1>2, <1>3, OverlappedTypes DEF IInv, TypeOK, ChangeOwner
<1>5. EndsAreSo'
  BY <1>1, <1>2, <1>3 DEF IInv, EndsAreSo
<1>6. QED
  BY <1>1, <1>2, <1>4, <1>5, SameMembersKeep

\* What is left to announce after one target has been sent an event.
LEMMA RestFacts ==
  ASSUME TypeOK, NEW event \in announcements, NEW p, SendAnnouncement(event, p)
  PROVE  \A e \in announcements' :
           /\ e \in Announcement
           /\ \/ e \in announcements \ {event}
              \/ /\ e.gathering = event.gathering /\ e.owner = event.owner
                 /\ e.targets = event.targets \ {p}
<1> DEFINE rest == [event EXCEPT !.targets = @ \ {p}]
<1>1. \A e \in announcements' : e \in announcements \ {event} \/ e = rest
  BY DEF SendAnnouncement
<1>2. event \in Announcement
  BY DEF TypeOK
<1>3. /\ rest \in Announcement
      /\ rest.gathering = event.gathering /\ rest.owner = event.owner
      /\ rest.targets = event.targets \ {p}
  BY <1>2 DEF Announcement
<1> HIDE DEF rest
<1>4. QED
  BY <1>1, <1>3 DEF TypeOK

\* An event is sent.
LEMMA SendAnnouncementKeeps ==
  ASSUME IInv, NEW event \in announcements, NEW p \in Players, SendAnnouncement(event, p)
  PROVE  IInv'
<1> DEFINE g == event.gathering
<1>1. UNCHANGED <<connected, sessions, issued, overlapped>>
  BY DEF SendAnnouncement
<1>2. event \in Announcement
  BY DEF IInv, TypeOK
<1>3. g \in GatheringIDs /\ event.owner \in Players \cup {NoOne} /\ g <= issued
  BY <1>2 DEF Announcement, IInv, EndsAreSo
<1>4. announcements' \subseteq Announcement /\ EndsAreSo'
  BY <1>1, RestFacts DEF IInv, EndsAreSo
<1>5. PICK pick \in Picks :
        IF pick[p] = NoOne \/ knownOwner[pick[p]][g] = NoOne
        THEN UNCHANGED <<known, knownOwner>>
        ELSE /\ knownOwner' = [knownOwner EXCEPT ![pick[p]][g] = event.owner]
             /\ known' = IF event.owner = NoOne THEN [known EXCEPT ![pick[p]][g] = {}]
                         ELSE known
  BY DEF SendAnnouncement
<1>6. CASE UNCHANGED <<known, knownOwner>>
  <2>1. StoreType(sessions')
    BY <1>1, StateIsConsistent
  <2>2. QED
    BY <1>1, <1>4, <1>6, <2>1, SameMembersKeep DEF IInv, TypeOK
<1>7. CASE /\ pick[p] # NoOne /\ knownOwner[pick[p]][g] # NoOne
           /\ knownOwner' = [knownOwner EXCEPT ![pick[p]][g] = event.owner]
           /\ known' = IF event.owner = NoOne THEN [known EXCEPT ![pick[p]][g] = {}] ELSE known
  <2> DEFINE b == pick[p]
  <2>1. b \in Addresses
    BY <1>7 DEF Picks
  <2> HIDE DEF b, g
  <2>2. known' \in Views /\ knownOwner' \in OwnerViews
    BY <1>3, <1>7, <2>1 DEF IInv, TypeOK, Views, OwnerViews, b
  <2>3. ASSUME NEW c \in Addresses, NEW h \in GatheringIDs
        PROVE  /\ known'[c][h] = IF c = b /\ h = g /\ event.owner = NoOne THEN {}
                                                                        ELSE known[c][h]
               /\ knownOwner'[c][h] = IF c = b /\ h = g THEN event.owner ELSE knownOwner[c][h]
    BY <1>3, <1>7, <2>1 DEF IInv, TypeOK, b
  <2>4. knownOwner[b][g] # NoOne
    BY <1>7 DEF b
  <2>5. event.owner = NoOne => g \notin DOMAIN sessions
    BY DEF IInv, EndsAreSo, g
  <2>6. ASSUME NEW h \in DOMAIN sessions
        PROVE  /\ h \in GatheringIDs
               /\ \A c \in Addresses :
                    /\ known'[c][h] = known[c][h]
                    /\ knownOwner'[c][h] = NoOne <=> knownOwner[c][h] = NoOne
    <3>1. h \in GatheringIDs
      BY StateIsConsistent DEF StoreType
    <3>2. QED
      BY <2>3, <2>4, <2>5, <3>1
  <2>7. \A h \in DOMAIN sessions : \A q \in Members(sessions, h) :
          sessions[h].participants[q] \in Addresses \cup {NoOne}
    BY StateIsConsistent, SessionFacts DEF StoreType, Members
  <2>8. Told(connected, sessions, known', knownOwner')
    <3>1. \A h \in DOMAIN sessions : \A q \in Members(sessions, h) :
            Knows(connected, sessions, known', knownOwner', h, q)
      <4> SUFFICES ASSUME NEW h \in DOMAIN sessions, NEW q \in Members(sessions, h)
                   PROVE  Knows(connected, sessions, known', knownOwner', h, q)
        OBVIOUS
      <4>1. Knows(connected, sessions, known, knownOwner, h, q)
        BY DEF IInv, Told
      <4>2. QED
        BY <2>6, <2>7, <4>1 DEF Knows
    <3>2. \A c \in Addresses : \A h \in DOMAIN sessions :
            Here(connected, sessions, c, h) \/ (known'[c][h] = {} /\ knownOwner'[c][h] = NoOne)
      <4> SUFFICES ASSUME NEW c \in Addresses, NEW h \in DOMAIN sessions
                   PROVE  \/ Here(connected, sessions, c, h)
                          \/ known'[c][h] = {} /\ knownOwner'[c][h] = NoOne
        OBVIOUS
      <4>1. \/ Here(connected, sessions, c, h)
            \/ known[c][h] = {} /\ knownOwner[c][h] = NoOne
        BY DEF IInv, Told
      <4>2. QED
        BY <2>6, <4>1
    <3>3. QED
      BY <3>1, <3>2 DEF Told
  <2>9. Unheard(known', knownOwner', issued)
    <3> SUFFICES ASSUME NEW c \in Addresses, NEW h \in GatheringIDs, h > issued
                 PROVE  known'[c][h] = {} /\ knownOwner'[c][h] = NoOne
      BY DEF Unheard
    <3>1. g \in Int /\ issued \in Int /\ h \in Int
      BY <1>3, RostersAssumption DEF IInv, TypeOK, GatheringIDs, g
    <3>2. h # g
      BY <1>3, <3>1 DEF g
    <3>3. QED
      BY <2>3, <3>2 DEF IInv, Unheard
  <2>10. TypeOK' /\ Unique'
    BY <1>1, <1>4, <2>2 DEF IInv, TypeOK, Unique, Views, OwnerViews
  <2>11. QED
    BY <1>1, <1>4, <2>8, <2>9, <2>10 DEF IInv
<1>8. QED
  BY <1>5, <1>6, <1>7

-----------------------------------------------------------------------------
(***************************************************************************)
(* Type correctness, whatever connections a player has at once.            *)
(***************************************************************************)

\* The types of one state and the next, in terms of those of the store.
LEMMA StoreTypes == TypeOK <=> /\ StoreType(sessions) /\ DOMAIN sessions \subseteq 1 .. issued
                               /\ issued \in 0 .. MaxGatherings
                               /\ connected \in [Addresses -> Players \cup {NoOne}]
                               /\ known \in Views /\ knownOwner \in OwnerViews
                               /\ announcements \subseteq Announcement
                               /\ overlapped \subseteq GatheringIDs
BY RostersAssumption DEF TypeOK, StoreType, Views, OwnerViews, GatheringIDs

\* Seating a player keeps the types of the sessions and of what is known.
LEMMA JoinedTypes ==
  ASSUME NEW store, NEW view \in Views, NEW owners \in OwnerViews,
         DOMAIN store \subseteq GatheringIDs, NEW g \in GatheringIDs, g \in DOMAIN store,
         store[g] \in Empty \cup Session,
         \A h \in DOMAIN store : h # g => store[h] \in Session,
         NEW p \in Players, NEW a \in Addresses, NEW pick,
         Joined(store, view, owners, g, a, p, pick)
  PROVE  /\ StoreType(sessions') /\ DOMAIN sessions' = DOMAIN store
         /\ known' \in Views /\ knownOwner' \in OwnerViews
<1> DEFINE before == Members(store, g)
           targets == IF store[g].notify = "owner" THEN {store[g].owner} \ {p}
                      ELSE before \cup {p}
           told == ToldJoined(view, knownOwner', g, {p}, targets, pick)
           after == [store EXCEPT ![g].participants =
                       [q \in before \cup {p} |-> IF q = p THEN a ELSE @[q]]]
<1>1. /\ sessions' = after
      /\ knownOwner' = [owners EXCEPT ![a][g] = store[g].owner]
      /\ known' = IF store[g].notify = "replay"
                  THEN ToldJoined(told, knownOwner', g, before, {p}, pick)
                  ELSE told
  BY DEF Joined, Members
<1>2. store[g].owner \in Players /\ store[g].notify \in Flags
  BY SessionFacts DEF Empty
<1>3. before \subseteq Players
  BY SessionFacts DEF Members, Empty
<1>4. Seated(sessions', store, g, p, a)
  BY <1>1, <1>2, SeatedSession
<1>5. StoreType(sessions') /\ DOMAIN sessions' = DOMAIN store
  BY <1>4 DEF Seated, StoreType
<1>6. knownOwner' \in OwnerViews
  BY <1>1, <1>2 DEF OwnerViews
<1> HIDE DEF targets, before
<1>7. told \in Views
  <2>1. Tells(told, view, knownOwner', g, {p}, targets, pick)
    BY ToldJoinedTells
  <2> HIDE DEF told
  <2>2. QED
    BY <2>1 DEF Tells
<1> HIDE DEF told
<1>8. known' \in Views
  BY <1>1, <1>3, <1>7, ToldJoinedTells DEF Tells
<1>9. QED
  BY <1>5, <1>6, <1>8

\* Requests that seat a player: in a gathering made for it, or in another.
LEMMA EnteringKeepsTypes ==
  ASSUME TypeOK, NEW a \in Addresses, NEW g, NEW notify,
         \/ notify \in NotifyFlags /\ Create(a, notify)
         \/ Join(a, g) \/ AutoMatchmake(a, g)
  PROVE  TypeOK'
<1> DEFINE p == connected[a]
           quits == MembershipsOf(p)
           left == AfterLeaving(p, quits)
           owners == OwnersLeft(a, quits)
           n == issued + 1
           empty == [owner |-> p, participants |-> << >>, notify |-> notify]
           store == [h \in DOMAIN left \cup {n} |-> IF h = n THEN empty ELSE left[h]]
<1>1. p \in Players
  BY DEF Create, Join, AutoMatchmake, TypeOK
<1>2. /\ StoreType(left) /\ DOMAIN left \subseteq DOMAIN sessions
      /\ owners \in OwnerViews /\ \A pick : ToldLeft(p, a, quits, pick) \in Views
  BY <1>1, LeavingTypes
<1>3. /\ issued \in 0 .. MaxGatherings /\ DOMAIN sessions \subseteq 1 .. issued
      /\ StoreType(sessions) /\ UNCHANGED <<connected, announcements, overlapped>>
  BY StoreTypes DEF Create, Join, AutoMatchmake
<1>4. CASE notify \in NotifyFlags /\ Create(a, notify)
  <2>1. n <= MaxGatherings /\ issued' = n
    BY <1>4 DEF Create
  <2>2. PICK pick \in Picks : Joined(store, ToldLeft(p, a, quits, pick), owners, n, a, p, pick)
    BY <1>4 DEF Create
  <2>3. empty \in Empty /\ n \in GatheringIDs /\ n \notin DOMAIN sessions
    BY <1>1, <1>3, <1>4, <2>1, RostersAssumption DEF Empty, GatheringIDs
  <2> HIDE DEF left, empty
  <2>4. /\ DOMAIN store = DOMAIN left \cup {n} /\ store[n] = empty
        /\ \A h \in DOMAIN store : h # n => h \in DOMAIN left /\ store[h] = left[h]
    BY <2>3
  <2>5. Joined(store, ToldLeft(p, a, quits, pick), owners, n, a, p, pick)
    BY <2>2
  <2> HIDE DEF store, owners, quits, p
  <2>6. /\ StoreType(sessions') /\ DOMAIN sessions' = DOMAIN store
        /\ known' \in Views /\ knownOwner' \in OwnerViews
    BY <1>1, <1>2, <2>3, <2>4, <2>5, JoinedTypes DEF StoreType
  <2>7. DOMAIN sessions' \subseteq 1 .. issued' /\ issued' \in 0 .. MaxGatherings
    BY <1>2, <1>3, <2>1, <2>4, <2>6
  <2>8. QED
    BY <1>3, <2>6, <2>7, StoreTypes DEF TypeOK, StoreType, Views, OwnerViews
<1>5. CASE Join(a, g)
  <2>1. g \in DOMAIN sessions /\ issued' = issued
    BY <1>5 DEF Join
  <2>2. PICK pick \in Picks : Joined(sessions, known, knownOwner, g, a, p, pick)
    BY <1>5 DEF Join
  <2>3. known \in Views /\ knownOwner \in OwnerViews
    BY StoreTypes
  <2> HIDE DEF p
  <2>4. /\ StoreType(sessions') /\ DOMAIN sessions' = DOMAIN sessions
        /\ known' \in Views /\ knownOwner' \in OwnerViews
    BY <1>1, <1>3, <2>1, <2>2, <2>3, JoinedTypes DEF StoreType
  <2>5. QED
    BY <1>3, <2>1, <2>4 DEF TypeOK, StoreType, Views, OwnerViews
<1>6. CASE AutoMatchmake(a, g)
  <2>1. g \in DOMAIN left /\ issued' = issued
    BY <1>6 DEF AutoMatchmake
  <2>2. PICK pick \in Picks : Joined(left, ToldLeft(p, a, quits, pick), owners, g, a, p, pick)
    BY <1>6 DEF AutoMatchmake
  <2> HIDE DEF left, owners, quits, p
  <2>3. /\ StoreType(sessions') /\ DOMAIN sessions' = DOMAIN left
        /\ known' \in Views /\ knownOwner' \in OwnerViews
    BY <1>1, <1>2, <2>1, <2>2, JoinedTypes DEF StoreType
  <2>4. QED
    BY <1>2, <1>3, <2>1, <2>3 DEF TypeOK, StoreType, Views, OwnerViews
<1>7. QED
  BY <1>4, <1>5, <1>6

\* Departures, by request or at the end of a connection, and new connections.
LEMMA LeavingKeepsTypes ==
  ASSUME TypeOK, NEW a \in Addresses, NEW g, NEW q,
         \/ Leave(a, g) \/ ConnectionEnded(a)
         \/ q \in Players /\ Connect(a, q)
  PROVE  TypeOK'
<1> DEFINE p == connected[a]
           nothing == [h \in GatheringIDs |-> {}]
           nobody == [h \in GatheringIDs |-> NoOne]
<1>1. /\ issued \in 0 .. MaxGatherings /\ DOMAIN sessions \subseteq 1 .. issued
      /\ StoreType(sessions) /\ UNCHANGED <<issued, announcements, overlapped>>
      /\ known \in Views /\ knownOwner \in OwnerViews
      /\ connected \in [Addresses -> Players \cup {NoOne}]
  BY StoreTypes DEF Leave, ConnectionEnded, Connect
<1>2. /\ \A view \in Views : [view EXCEPT ![a] = nothing] \in Views
      /\ [knownOwner EXCEPT ![a] = nobody] \in OwnerViews
  BY <1>1 DEF Views, OwnerViews
<1>3. CASE Leave(a, g)
  <2>1. p \in Players
    BY <1>1, <1>3 DEF Leave
  <2>2. /\ sessions' = AfterLeaving(p, {g}) /\ knownOwner' = OwnersLeft(a, {g})
        /\ \E pick \in Picks : known' = ToldLeft(p, a, {g}, pick)
        /\ connected' = connected
    BY <1>3 DEF Leave
  <2> HIDE DEF p
  <2>3. /\ StoreType(sessions') /\ DOMAIN sessions' \subseteq DOMAIN sessions
        /\ known' \in Views /\ knownOwner' \in OwnerViews
    BY <2>1, <2>2, LeavingTypes
  <2>4. QED
    BY <1>1, <2>2, <2>3 DEF TypeOK, StoreType, Views, OwnerViews
<1>4. CASE ConnectionEnded(a)
  <2> DEFINE quits == MembershipsOf(p)
  <2>1. p \in Players
    BY <1>1, <1>4 DEF ConnectionEnded
  <2>2. PICK pick \in Picks' : known' = [ToldLeft(p, a, quits, pick) EXCEPT ![a] = nothing]
    BY <1>4 DEF ConnectionEnded
  <2>3. /\ sessions' = AfterLeaving(p, quits)
        /\ knownOwner' = [knownOwner EXCEPT ![a] = nobody]
        /\ connected' = [connected EXCEPT ![a] = NoOne]
    BY <1>4 DEF ConnectionEnded
  <2> HIDE DEF p, quits, nothing, nobody
  <2>4. /\ StoreType(sessions') /\ DOMAIN sessions' \subseteq DOMAIN sessions
        /\ ToldLeft(p, a, quits, pick) \in Views
    BY <2>1, <2>3, LeavingTypes
  <2>5. known' \in Views /\ knownOwner' \in OwnerViews
    BY <1>2, <2>2, <2>3, <2>4
  <2>6. connected' \in [Addresses -> Players \cup {NoOne}]
    BY <1>1, <2>3
  <2>7. QED
    BY <1>1, <2>4, <2>5, <2>6 DEF TypeOK, StoreType, Views, OwnerViews
<1>5. CASE q \in Players /\ Connect(a, q)
  <2> DEFINE seats(h) == [r \in DOMAIN sessions[h].participants |->
                            IF r = q THEN NoOne ELSE sessions[h].participants[r]]
  <2>1. /\ connected' = [connected EXCEPT ![a] = q]
        /\ known' = [known EXCEPT ![a] = nothing]
        /\ knownOwner' = [knownOwner EXCEPT ![a] = nobody]
        /\ sessions' = [h \in DOMAIN sessions |->
                          [sessions[h] EXCEPT !.participants = seats(h)]]
    BY <1>5 DEF Connect
  <2>2. ASSUME NEW h \in DOMAIN sessions
        PROVE  [sessions[h] EXCEPT !.participants = seats(h)] \in Session
    <3>1. sessions[h] \in Session
      BY <1>1 DEF StoreType
    <3>2. /\ DOMAIN sessions[h].participants \in SUBSET Players
          /\ seats(h) \in [DOMAIN sessions[h].participants -> Addresses \cup {NoOne}]
      BY <3>1, SessionFacts
    <3> HIDE DEF seats
    <3>3. QED
      BY <3>1, <3>2, SessionWith
  <2> HIDE DEF nothing, nobody, seats
  <2>3. StoreType(sessions') /\ DOMAIN sessions' = DOMAIN sessions
    BY <1>1, <2>1, <2>2 DEF StoreType
  <2>4. known' \in Views /\ knownOwner' \in OwnerViews
    BY <1>1, <1>2, <2>1
  <2>5. connected' \in [Addresses -> Players \cup {NoOne}]
    BY <1>1, <1>5, <2>1
  <2>6. QED
    BY <1>1, <2>3, <2>4, <2>5 DEF TypeOK, StoreType, Views, OwnerViews
<1>6. QED
  BY <1>3, <1>4, <1>5

\* What is announced, and what is sent of it.
LEMMA AnnouncingKeepsTypes ==
  ASSUME TypeOK, NEW a, NEW g, NEW q, DestroyGathering(a, g) \/ ChangeOwner(a, g, q)
  PROVE  TypeOK'
<1> DEFINE event(owner) == [gathering |-> g, owner |-> owner, targets |-> Participants(g)]
           s == [sessions[g] EXCEPT !.owner = q]
<1>1. /\ g \in DOMAIN sessions /\ UNCHANGED <<connected, issued, known, knownOwner>>
      /\ StoreType(sessions) /\ announcements \subseteq Announcement
      /\ g \in GatheringIDs
  BY StoreTypes DEF DestroyGathering, ChangeOwner, StoreType
<1>2. sessions[g] \in Session /\ Participants(g) \subseteq Players
  BY <1>1, SessionFacts DEF StoreType, Participants
<1>3. CASE DestroyGathering(a, g)
  <2>1. /\ sessions' = [h \in DOMAIN sessions \ {g} |-> sessions[h]]
        /\ announcements' = announcements \cup {event(NoOne)}
    BY <1>3 DEF DestroyGathering, Announce
  <2>2. event(NoOne) \in Announcement
    BY <1>1, <1>2 DEF Announcement
  <2> HIDE DEF event
  <2>3. /\ announcements' \subseteq Announcement
        /\ DOMAIN sessions' \subseteq DOMAIN sessions
        /\ \A h \in DOMAIN sessions' : sessions'[h] \in Session
    BY <1>1, <2>1, <2>2 DEF StoreType
  <2>4. overlapped' \subseteq GatheringIDs
    BY <1>1, <1>3, OverlappedTypes DEF DestroyGathering
  <2>5. QED
    BY <1>1, <2>3, <2>4 DEF TypeOK
<1>4. CASE ChangeOwner(a, g, q)
  <2>1. /\ q \in Participants(g)
        /\ sessions' = [sessions EXCEPT ![g] = s]
        /\ announcements' = announcements \cup {event(q)}
    BY <1>4 DEF ChangeOwner, Announce
  <2>2. event(q) \in Announcement /\ s \in Session
    BY <1>1, <1>2, <2>1 DEF Announcement, Session
  <2> HIDE DEF event, s
  <2>3. /\ announcements' \subseteq Announcement
        /\ DOMAIN sessions' = DOMAIN sessions
        /\ \A h \in DOMAIN sessions' : sessions'[h] \in Session
    BY <1>1, <2>1, <2>2 DEF StoreType
  <2>4. overlapped' \subseteq GatheringIDs
    BY <1>1, <1>4, OverlappedTypes DEF ChangeOwner
  <2>5. QED
    BY <1>1, <2>3, <2>4 DEF TypeOK
<1>5. QED
  BY <1>3, <1>4

\* An event that is sent changes the view of a console at most.
LEMMA SendingKeepsTypes ==
  ASSUME TypeOK, NEW event \in announcements, NEW p \in Players, SendAnnouncement(event, p)
  PROVE  TypeOK'
<1> DEFINE g == event.gathering
<1>1. UNCHANGED <<connected, sessions, issued, overlapped>> /\ announcements' \subseteq Announcement
  BY RestFacts DEF SendAnnouncement
<1>2. g \in GatheringIDs /\ event.owner \in Players \cup {NoOne}
  BY DEF TypeOK, Announcement
<1>3. PICK pick \in Picks :
        IF pick[p] = NoOne \/ knownOwner[pick[p]][g] = NoOne
        THEN UNCHANGED <<known, knownOwner>>
        ELSE /\ knownOwner' = [knownOwner EXCEPT ![pick[p]][g] = event.owner]
             /\ known' = IF event.owner = NoOne THEN [known EXCEPT ![pick[p]][g] = {}]
                         ELSE known
  BY DEF SendAnnouncement
<1>4. pick[p] # NoOne => pick[p] \in Addresses
  BY DEF Picks
<1> HIDE DEF g
<1>5. known' \in Views /\ knownOwner' \in OwnerViews
  <2>1. known \in Views /\ knownOwner \in OwnerViews
    BY StoreTypes
  <2>2. CASE UNCHANGED <<known, knownOwner>>
    BY <2>1, <2>2
  <2>3. CASE /\ pick[p] # NoOne
             /\ knownOwner' = [knownOwner EXCEPT ![pick[p]][g] = event.owner]
             /\ known' = IF event.owner = NoOne THEN [known EXCEPT ![pick[p]][g] = {}]
                         ELSE known
    <3> DEFINE b == pick[p]
    <3>1. b \in Addresses
      BY <1>4, <2>3
    <3> HIDE DEF b
    <3>2. QED
      BY <1>2, <2>1, <2>3, <3>1 DEF b, Views, OwnerViews
  <2>4. QED
    BY <1>3, <2>2, <2>3
<1>6. QED
  BY <1>1, <1>5 DEF TypeOK, Views, OwnerViews

-----------------------------------------------------------------------------
(***************************************************************************)
(* The theorems.                                                           *)
(***************************************************************************)

\* A new server: nobody is connected and nothing is known.
LEMMA InitHasIInv == Init => IInv
<1> SUFFICES ASSUME Init PROVE IInv
  OBVIOUS
<1>1. DOMAIN sessions = {}
  BY DEF Init
<1>2. TypeOK
  BY <1>1, RostersAssumption DEF Init, TypeOK
<1>3. Unique /\ EndsAreSo
  BY DEF Init, Unique, EndsAreSo
<1>4. Told(connected, sessions, known, knownOwner) /\ Unheard(known, knownOwner, issued)
  BY <1>1 DEF Init, Told, Unheard
<1>5. QED
  BY <1>2, <1>3, <1>4 DEF IInv

\* Every connection, gathering, event and console's view is of its kind.
THEOREM TypeCorrectness == Spec => []TypeOK
<1>1. Init => TypeOK
  BY InitHasIInv DEF IInv
<1>2. TypeOK /\ [Next]_vars => TypeOK'
  <2> SUFFICES ASSUME TypeOK, [Next]_vars PROVE TypeOK'
    OBVIOUS
  <2>1. CASE UNCHANGED vars
    BY <2>1 DEF vars, TypeOK
  <2>2. ASSUME NEW a \in Addresses, Request(a) PROVE TypeOK'
    <3>1. ASSUME NEW notify \in NotifyFlags, Create(a, notify) PROVE TypeOK'
      BY <3>1, EnteringKeepsTypes
    <3>2. ASSUME NEW g, Join(a, g) \/ AutoMatchmake(a, g) PROVE TypeOK'
      BY <3>2, EnteringKeepsTypes
    <3>3. ASSUME NEW g, Leave(a, g) PROVE TypeOK'
      BY <3>3, LeavingKeepsTypes
    <3>4. ASSUME NEW g, NEW q, DestroyGathering(a, g) \/ ChangeOwner(a, g, q) PROVE TypeOK'
      BY <3>4, AnnouncingKeepsTypes
    <3>5. QED
      BY <2>2, <3>1, <3>2, <3>3, <3>4 DEF Request
  <2>3. ASSUME NEW a \in Addresses, ConnectionEnded(a) \/ \E p \in Players : Connect(a, p)
        PROVE  TypeOK'
    BY <2>3, LeavingKeepsTypes
  <2>4. QED
    BY <2>1, <2>2, <2>3, SendingKeepsTypes DEF Next
<1>3. QED
  BY <1>1, <1>2, PTL DEF Spec

\* A step either announces or keeps what is known of owners.
LEMMA StepKeeps ==
  ASSUME OneConnectionEach = TRUE, IInv, Next
  PROVE  \/ KeepsInv
         \/ IInv' /\ \E a \in Addresses, g \in GatheringIDs, q \in Players :
                       DestroyGathering(a, g) \/ ChangeOwner(a, g, q)
         \/ IInv' /\ \E event \in announcements, p \in Players : SendAnnouncement(event, p)
<1>1. ASSUME NEW a \in Addresses, Request(a)
      PROVE  \/ KeepsInv
             \/ IInv' /\ \E b \in Addresses, g \in GatheringIDs, q \in Players :
                           DestroyGathering(b, g) \/ ChangeOwner(b, g, q)
  <2>1. ASSUME NEW notify \in NotifyFlags, Create(a, notify)
        PROVE  KeepsInv
    BY <2>1, CreateKeeps
  <2>2. ASSUME NEW g \in GatheringIDs, Join(a, g) \/ AutoMatchmake(a, g) \/ Leave(a, g)
        PROVE  KeepsInv
    BY <2>2, JoinKeeps, AutoMatchmakeKeeps, LeaveKeeps
  <2>3. ASSUME NEW g \in GatheringIDs, DestroyGathering(a, g)
        PROVE  IInv' /\ \E b \in Addresses, h \in GatheringIDs, q \in Players :
                          DestroyGathering(b, h) \/ ChangeOwner(b, h, q)
    <3>1. PICK q \in Players : TRUE
      BY <2>3, StateIsConsistent, SessionFacts DEF DestroyGathering, StoreType
    <3>2. QED
      BY <2>3, <3>1, DestroyGatheringKeeps
  <2>4. ASSUME NEW g \in GatheringIDs, NEW q \in Players, ChangeOwner(a, g, q)
        PROVE  IInv'
    BY <2>4, ChangeOwnerKeeps
  <2>5. QED
    BY <1>1, <2>1, <2>2, <2>3, <2>4 DEF Request
<1>2. ASSUME NEW a \in Addresses, ConnectionEnded(a) PROVE KeepsInv
  BY <1>2, ConnectionEndedKeeps
<1>3. ASSUME NEW a \in Addresses, NEW p \in Players, Connect(a, p) PROVE KeepsInv
  BY <1>3, ConnectKeeps
<1>4. ASSUME NEW event \in announcements, NEW p \in Players, SendAnnouncement(event, p)
      PROVE  IInv'
  BY <1>4, SendAnnouncementKeeps
<1>5. QED
  BY <1>1, <1>2, <1>3, <1>4 DEF Next

\* The invariant is inductive.
LEMMA NextKeepsIInv ==
  ASSUME OneConnectionEach = TRUE
  PROVE  IInv /\ [Next]_vars => IInv'
<1>1. ASSUME IInv, UNCHANGED vars PROVE IInv'
  <2>1. UNCHANGED <<connected, sessions, issued, known, knownOwner, announcements, overlapped>>
    BY <1>1 DEF vars
  <2>2. TypeOK' /\ Unique' /\ EndsAreSo'
    BY <1>1, <2>1 DEF IInv, TypeOK, Unique, EndsAreSo
  <2>3. /\ Told(connected', sessions', known', knownOwner')
        /\ Unheard(known', knownOwner', issued')
    BY <1>1, <2>1 DEF IInv
  <2>4. QED
    BY <2>2, <2>3 DEF IInv
<1>2. ASSUME IInv, Next PROVE IInv'
  BY <1>2, StepKeeps DEF KeepsInv
<1>3. QED
  BY <1>1, <1>2

\* It holds in every state that is reached.
LEMMA Invariance ==
  ASSUME OneConnectionEach = TRUE
  PROVE  Spec => []IInv
BY InitHasIInv, NextKeepsIInv, PTL DEF Spec

\* Where a player has one connection at a time, the list of a console that has
\* not reconnected is right at every moment, whoever joins and leaves through
\* whichever request: complete where joiners are replayed the participants, and
\* without a stranger elsewhere.
THEOREM RightLists ==
  ASSUME OneConnectionEach = TRUE
  PROVE  Spec => []ListsAreRight
<1>1. IInv => ListsAreRight
  BY DEF IInv, Told, Knows, ListsAreRight, Participants, Members
<1>2. QED
  BY <1>1, Invariance, PTL

-----------------------------------------------------------------------------
(***************************************************************************)
(* The owner's name.                                                       *)
(***************************************************************************)

\* Of a gathering without overlap there is one announcement at a time, and it is
\* still true; a participant who does not know the owner is yet to be sent it.
NewsOnTheWay ==
  /\ \A e, f \in announcements :
       e.gathering = f.gathering /\ e.gathering \notin overlapped => e = f
  /\ \A event \in announcements :
       event.owner # NoOne /\ event.gathering \in DOMAIN sessions \ overlapped
         => sessions[event.gathering].owner = event.owner
  /\ \A g \in DOMAIN sessions \ overlapped : \A q \in Members(sessions, g) :
       LET b == sessions[g].participants[q] IN
       b # NoOne =>
         \/ knownOwner[b][g] = sessions[g].owner
         \/ \E event \in announcements :
              event.gathering = g /\ event.owner = sessions[g].owner /\ q \in event.targets

\* While nothing is announced, it stays on its way.
LEMMA KeptNews ==
  ASSUME IInv, NewsOnTheWay, KeepsInv
  PROVE  NewsOnTheWay'
<1>1. IInv' /\ UNCHANGED <<announcements, overlapped>> /\ KeptOwners(sessions', knownOwner')
  BY DEF KeepsInv
<1>2. ASSUME NEW event \in announcements, event.owner # NoOne,
             event.gathering \in DOMAIN sessions' \ overlapped
      PROVE  sessions'[event.gathering].owner = event.owner
  <2>1. event.gathering <= issued
    BY DEF IInv, EndsAreSo
  <2>2. event.gathering \in Int /\ issued \in Int
    BY RostersAssumption DEF IInv, TypeOK, Announcement, GatheringIDs
  <2>3. event.gathering \in DOMAIN sessions
    BY <1>1, <1>2, <2>1, <2>2 DEF KeptOwners
  <2>4. QED
    BY <1>1, <1>2, <2>3 DEF KeptOwners, NewsOnTheWay
<1>3. ASSUME NEW g \in DOMAIN sessions' \ overlapped, NEW q \in Members(sessions', g),
             sessions'[g].participants[q] # NoOne
      PROVE  \/ knownOwner'[sessions'[g].participants[q]][g] = sessions'[g].owner
             \/ \E event \in announcements :
                  /\ event.gathering = g /\ event.owner = sessions'[g].owner
                  /\ q \in event.targets
  <2> DEFINE b == sessions'[g].participants[q]
  <2>1. CASE knownOwner'[b][g] = sessions'[g].owner
    BY <2>1
  <2>2. CASE /\ g \in DOMAIN sessions
             /\ q \in Members(sessions, g)
             /\ sessions[g].participants[q] = b
             /\ knownOwner'[b][g] = knownOwner[b][g]
    <3>1. sessions'[g].owner = sessions[g].owner
      BY <1>1, <2>2 DEF KeptOwners
    <3>2. QED
      BY <1>3, <2>2, <3>1 DEF NewsOnTheWay
  <2>3. QED
    BY <1>1, <1>3, <2>1, <2>2 DEF KeptOwners
<1>4. QED
  BY <1>1, <1>2, <1>3 DEF NewsOnTheWay

\* A handler that announces leaves the announcements of other gatherings alone;
\* where it finds none of its own gathering's under way, it makes the only one.
LEMMA AnnounceFacts ==
  ASSUME NEW g, NEW owner, NEW targets, Announce(g, owner, targets)
  PROVE  /\ \A e \in announcements : e \in announcements'
         /\ \A e \in announcements' :
              e \in announcements \/ (e.gathering = g /\ e.owner = owner /\ e.targets = targets)
         /\ \A h : h # g => (h \in overlapped' <=> h \in overlapped)
         /\ g \notin overlapped' =>
              /\ \A e \in announcements : e.gathering # g
              /\ \E e \in announcements' :
                   /\ e.gathering = g /\ e.owner = owner /\ e.targets = targets
                   /\ \A f \in announcements' : f.gathering = g => f = e
<1> DEFINE event == [gathering |-> g, owner |-> owner, targets |-> targets]
<1>1. /\ announcements' = announcements \cup {event}
      /\ overlapped' = IF \E e \in announcements : e.gathering = g
                       THEN overlapped \cup {g} ELSE overlapped \ {g}
  BY DEF Announce
<1>2. event.gathering = g /\ event.owner = owner /\ event.targets = targets
  OBVIOUS
<1> HIDE DEF event
<1>3. ASSUME g \notin overlapped'
      PROVE  /\ \A e \in announcements : e.gathering # g
             /\ \E e \in announcements' :
                  /\ e.gathering = g /\ e.owner = owner /\ e.targets = targets
                  /\ \A f \in announcements' : f.gathering = g => f = e
  <2>1. \A e \in announcements : e.gathering # g
    BY <1>1, <1>3
  <2>2. event \in announcements' /\ \A f \in announcements' : f.gathering = g => f = event
    BY <1>1, <2>1
  <2>3. QED
    BY <1>2, <2>1, <2>2
<1>4. QED
  BY <1>1, <1>2, <1>3

\* What is announced is true, and all are to be told.
LEMMA AnnouncedNews ==
  ASSUME IInv, NewsOnTheWay,
         NEW a, NEW g, NEW p, DestroyGathering(a, g) \/ ChangeOwner(a, g, p)
  PROVE  NewsOnTheWay'
<1>1. UNCHANGED knownOwner
  BY DEF DestroyGathering, ChangeOwner
<1>2. CASE DestroyGathering(a, g)
  <2>1. /\ sessions' = [h \in DOMAIN sessions \ {g} |-> sessions[h]]
        /\ Announce(g, NoOne, Participants(g))
    BY <1>2 DEF DestroyGathering
  <2>2. /\ g \notin DOMAIN sessions'
        /\ \A h \in DOMAIN sessions' : h \in DOMAIN sessions /\ sessions'[h] = sessions[h]
    BY <2>1
  <2>3. /\ \A e \in announcements : e \in announcements'
        /\ \A e \in announcements' : e \in announcements \/ e.gathering = g
        /\ \A h : h # g => (h \in overlapped' <=> h \in overlapped)
        /\ g \notin overlapped' =>
             \E e \in announcements' : \A f \in announcements' : f.gathering = g => f = e
    BY <2>1, AnnounceFacts
  <2>4. ASSUME NEW e \in announcements', NEW f \in announcements',
               e.gathering = f.gathering, e.gathering \notin overlapped'
        PROVE  e = f
    BY <2>3, <2>4 DEF NewsOnTheWay
  <2>5. ASSUME NEW e \in announcements', e.owner # NoOne,
               e.gathering \in DOMAIN sessions' \ overlapped'
        PROVE  sessions'[e.gathering].owner = e.owner
    BY <2>2, <2>3, <2>5 DEF NewsOnTheWay
  <2>6. ASSUME NEW h \in DOMAIN sessions' \ overlapped', NEW q \in Members(sessions', h),
               sessions'[h].participants[q] # NoOne
        PROVE  \/ knownOwner'[sessions'[h].participants[q]][h] = sessions'[h].owner
               \/ \E e \in announcements' :
                    e.gathering = h /\ e.owner = sessions'[h].owner /\ q \in e.targets
    <3>1. /\ h \in DOMAIN sessions \ overlapped /\ sessions'[h] = sessions[h]
          /\ q \in Members(sessions, h)
      BY <2>2, <2>3 DEF Members
    <3>2. QED
      BY <1>1, <2>3, <2>6, <3>1 DEF NewsOnTheWay
  <2>7. QED
    BY <2>4, <2>5, <2>6 DEF NewsOnTheWay
<1>3. CASE ChangeOwner(a, g, p)
  <2>1. /\ g \in DOMAIN sessions /\ DOMAIN sessions' = DOMAIN sessions
        /\ \A h \in DOMAIN sessions :
             /\ sessions'[h].participants = sessions[h].participants
             /\ sessions'[h].owner = IF h = g THEN p ELSE sessions[h].owner
    BY <1>3, ChangeOwnerFacts
  <2>2. Announce(g, p, Members(sessions, g))
    BY <1>3 DEF ChangeOwner, Participants, Members
  <2>3. /\ \A e \in announcements : e \in announcements'
        /\ \A e \in announcements' :
             e \in announcements \/ (e.gathering = g /\ e.owner = p)
        /\ \A h : h # g => (h \in overlapped' <=> h \in overlapped)
        /\ g \notin overlapped' =>
             /\ \A e \in announcements : e.gathering # g
             /\ \E e \in announcements' :
                  /\ e.gathering = g /\ e.owner = p /\ e.targets = Members(sessions, g)
                  /\ \A f \in announcements' : f.gathering = g => f = e
    BY <2>2, AnnounceFacts
  <2>4. ASSUME NEW e \in announcements', NEW f \in announcements',
               e.gathering = f.gathering, e.gathering \notin overlapped'
        PROVE  e = f
    BY <2>3, <2>4 DEF NewsOnTheWay
  <2>5. ASSUME NEW e \in announcements', e.owner # NoOne,
               e.gathering \in DOMAIN sessions' \ overlapped'
        PROVE  sessions'[e.gathering].owner = e.owner
    BY <2>1, <2>3, <2>5 DEF NewsOnTheWay
  <2>6. ASSUME NEW h \in DOMAIN sessions' \ overlapped', NEW q \in Members(sessions', h),
               sessions'[h].participants[q] # NoOne
        PROVE  \/ knownOwner'[sessions'[h].participants[q]][h] = sessions'[h].owner
               \/ \E e \in announcements' :
                    e.gathering = h /\ e.owner = sessions'[h].owner /\ q \in e.targets
    <3>1. q \in Members(sessions, h) /\ sessions'[h].participants = sessions[h].participants
      BY <2>1 DEF Members
    <3>2. CASE h = g
      BY <2>1, <2>3, <3>1, <3>2
    <3>3. CASE h # g
      BY <1>1, <2>1, <2>3, <2>6, <3>1, <3>3 DEF NewsOnTheWay
    <3>4. QED
      BY <3>2, <3>3
  <2>7. QED
    BY <2>4, <2>5, <2>6 DEF NewsOnTheWay
<1>4. QED
  BY <1>2, <1>3

\* The other targets of an event are still to be sent it, and so are those of others.
LEMMA StillToldOf ==
  ASSUME TypeOK, NEW event \in announcements, NEW p, SendAnnouncement(event, p),
         NEW e \in announcements, NEW q \in e.targets, e # event \/ q # p
  PROVE  \E f \in announcements' :
           f.gathering = e.gathering /\ f.owner = e.owner /\ q \in f.targets
<1> DEFINE rest == [event EXCEPT !.targets = @ \ {p}]
<1>1. /\ rest.gathering = event.gathering /\ rest.owner = event.owner
      /\ rest.targets = event.targets \ {p}
  BY DEF TypeOK, Announcement
<1>2. /\ \A f \in announcements \ {event} : f \in announcements'
      /\ rest.targets # {} => rest \in announcements'
  BY DEF SendAnnouncement
<1> HIDE DEF rest
<1>3. CASE e # event
  BY <1>2, <1>3
<1>4. CASE e = event
  BY <1>1, <1>2, <1>4
<1>5. QED
  BY <1>3, <1>4

\* Each target that is sent an event knows what it says, or was not in the
\* gathering over the connection it has.
LEMMA SentNews ==
  ASSUME IInv, NewsOnTheWay, NEW event \in announcements, NEW p \in Players,
         SendAnnouncement(event, p)
  PROVE  NewsOnTheWay'
<1>1. UNCHANGED <<sessions, overlapped>> /\ event \in Announcement
  BY DEF SendAnnouncement, IInv, TypeOK
<1>2. \A e \in announcements' :
        \/ e \in announcements \ {event}
        \/ e.gathering = event.gathering /\ e.owner = event.owner
  BY RestFacts DEF IInv
<1>3. ASSUME NEW e \in announcements', NEW f \in announcements',
             e.gathering = f.gathering, e.gathering \notin overlapped
      PROVE  e = f
  <2> DEFINE rest == [event EXCEPT !.targets = @ \ {p}]
  <2>1. \A d \in announcements' : d \in announcements \ {event} \/ d = rest
    BY DEF SendAnnouncement
  <2>2. rest.gathering = event.gathering
    BY <1>1 DEF Announcement
  <2> HIDE DEF rest
  <2>3. QED
    BY <1>3, <2>1, <2>2 DEF NewsOnTheWay
<1>4. \A e \in announcements' :
        e.owner # NoOne /\ e.gathering \in DOMAIN sessions' \ overlapped'
          => sessions'[e.gathering].owner = e.owner
  BY <1>1, <1>2 DEF NewsOnTheWay
<1>5. ASSUME NEW e \in announcements, NEW q \in e.targets, e # event \/ q # p
      PROVE  \E f \in announcements' :
               f.gathering = e.gathering /\ f.owner = e.owner /\ q \in f.targets
  BY <1>5, StillToldOf DEF IInv
<1>6. PICK pick \in Picks :
        IF pick[p] = NoOne \/ knownOwner[pick[p]][event.gathering] = NoOne
        THEN UNCHANGED <<known, knownOwner>>
        ELSE knownOwner' = [knownOwner EXCEPT ![pick[p]][event.gathering] = event.owner]
  BY DEF SendAnnouncement
<1>7. ASSUME NEW g \in DOMAIN sessions \ overlapped, NEW q \in Members(sessions, g),
             sessions[g].participants[q] # NoOne
      PROVE  \/ knownOwner'[sessions[g].participants[q]][g] = sessions[g].owner
             \/ \E e \in announcements' :
                  e.gathering = g /\ e.owner = sessions[g].owner /\ q \in e.targets
  <2> DEFINE b == sessions[g].participants[q]
  <2>1. /\ b \in Addresses /\ connected[b] = q /\ q \in Players /\ g \in GatheringIDs
        /\ knownOwner[b][g] # NoOne
    <3>1. g \in GatheringIDs /\ sessions[g] \in Session
      BY StateIsConsistent DEF StoreType
    <3>2. b \in Addresses /\ q \in Players
      BY <1>7, <3>1, SessionFacts DEF Members
    <3>3. QED
      BY <1>7, <3>1, <3>2 DEF IInv, Told, Knows
  <2>2. pick[q] = b
    BY <2>1, PicksFind DEF IInv
  <2>3. event.gathering = g => event.owner = NoOne \/ event.owner = sessions[g].owner
    BY DEF NewsOnTheWay
  <2>4. event.owner = NoOne => event.gathering # g
    BY DEF IInv, EndsAreSo
  <2>5. CASE event.gathering = g /\ q = p
    <3>1. pick[p] # NoOne
      BY <2>1, <2>2, <2>5, RostersAssumption
    <3>2. knownOwner' = [knownOwner EXCEPT ![b][g] = event.owner]
      BY <1>6, <2>1, <2>2, <2>5, <3>1
    <3>3. knownOwner'[b][g] = event.owner
      BY <2>1, <3>2 DEF IInv, TypeOK
    <3>4. QED
      BY <2>3, <2>4, <2>5, <3>3
  <2>6. CASE ~(event.gathering = g /\ q = p)
    <3>1. knownOwner'[b][g] = knownOwner[b][g]
      <4>1. CASE UNCHANGED knownOwner
        BY <4>1
      <4>2. CASE /\ pick[p] # NoOne
                 /\ knownOwner' =
                      [knownOwner EXCEPT ![pick[p]][event.gathering] = event.owner]
        <5>1. pick[p] = b => p = q
          <6>1. pick[p] # NoOne => connected[pick[p]] = p
            BY DEF Picks
          <6>2. QED
            BY <2>1, <4>2, <6>1
        <5>2. ~(pick[p] = b /\ event.gathering = g)
          BY <2>6, <5>1
        <5>3. QED
          BY <2>1, <4>2, <5>2 DEF IInv, TypeOK
      <4>3. QED
        BY <1>6, <4>1, <4>2
    <3>2. CASE knownOwner[b][g] = sessions[g].owner
      BY <3>1, <3>2
    <3>3. ASSUME NEW e \in announcements,
                 e.gathering = g, e.owner = sessions[g].owner, q \in e.targets
          PROVE  \E f \in announcements' :
                   f.gathering = g /\ f.owner = sessions[g].owner /\ q \in f.targets
      BY <1>5, <2>6, <3>3
    <3>4. QED
      BY <1>7, <3>2, <3>3 DEF NewsOnTheWay
  <2>7. QED
    BY <2>5, <2>6
<1>8. QED
  BY <1>1, <1>3, <1>4, <1>7 DEF NewsOnTheWay, Members

\* That is inductive.
LEMMA NewsStaysOnTheWay ==
  ASSUME OneConnectionEach = TRUE
  PROVE  Spec => []NewsOnTheWay
<1>1. Init => NewsOnTheWay
  BY DEF Init, NewsOnTheWay
<1>2. IInv /\ NewsOnTheWay /\ [Next]_vars => NewsOnTheWay'
  <2>1. ASSUME NewsOnTheWay, UNCHANGED vars PROVE NewsOnTheWay'
    BY <2>1 DEF vars, NewsOnTheWay, Members
  <2>2. ASSUME IInv, NewsOnTheWay, Next PROVE NewsOnTheWay'
    BY <2>2, StepKeeps, KeptNews, AnnouncedNews, SentNews
  <2>3. QED
    BY <2>1, <2>2
<1>3. QED
  BY <1>1, <1>2, Invariance, PTL DEF Spec

\* Where a player has one connection at a time, every participant that has not
\* reconnected knows the owner once a change of owner has been sent to all that
\* was announced when no other announcement of the gathering was under way.
THEOREM KnownOwners ==
  ASSUME OneConnectionEach = TRUE
  PROVE  Spec => []OwnersAreKnown
<1>1. NewsOnTheWay => OwnersAreKnown
  BY DEF NewsOnTheWay, OwnersAreKnown, Settled, Participants, Members
<1>2. QED
  BY <1>1, NewsStaysOnTheWay, PTL

-----------------------------------------------------------------------------
(***************************************************************************)
(* The end of a gathering.                                                 *)
(***************************************************************************)

\* Where no announcements overlap, a console that still takes the owner of a
\* gathering that has ended for a participant is yet to be told that it is
\* unregistered, or whose it became; and nobody takes the owner it will be told of
\* for a participant.
EndNews ==
  /\ \A b \in Addresses : \A g \in GatheringIDs \ (DOMAIN sessions \cup overlapped) :
       knownOwner[b][g] \in known[b][g] =>
         \E event \in announcements : event.gathering = g /\ connected[b] \in event.targets
  /\ \A event \in announcements : \A b \in Addresses :
       event.gathering \notin DOMAIN sessions \cup overlapped =>
         event.owner \notin known[b][event.gathering]

\* What the console at b knows of g is nothing, or what it knew when g had ended
\* already, or it was in g and has just been told that the owner left.
KeptEnd(view, owners, b, g) ==
  view[b][g] # {} =>
    /\ owners[b][g] = knownOwner[b][g]
    /\ \/ g \notin DOMAIN sessions /\ view[b][g] = known[b][g]
       \/ /\ g \in DOMAIN sessions
          /\ Here(connected, sessions, b, g)
          /\ view[b][g] = known[b][g] \ {sessions[g].owner}

\* So it is with every gathering that is not in store.
KeptEnds(store, view, owners) ==
  \A b \in Addresses : \A g \in GatheringIDs \ DOMAIN store : KeptEnd(view, owners, b, g)

\* Departures of p, at a, end gatherings in that way.
LEMMA LeavingEnds ==
  ASSUME IInv, NEW a \in Addresses, NEW p \in Players, connected[a] = p,
         NEW quits \in SUBSET MembershipsOf(p), NEW pick, Finds(connected, pick, a)
  PROVE  KeptEnds(AfterLeaving(p, quits), ToldLeft(p, a, quits, pick),
                  OwnersLeft(a, quits))
<1> DEFINE store == AfterLeaving(p, quits)
           view == ToldLeft(p, a, quits, pick)
           owners == OwnersLeft(a, quits)
<1>1. ASSUME NEW b \in Addresses, NEW g \in GatheringIDs
      PROVE  /\ g \notin quits => view[b][g] = known[b][g] /\ owners[b][g] = knownOwner[b][g]
             /\ g \in quits /\ b = a => view[b][g] = {}
             /\ b # a => owners[b][g] = knownOwner[b][g]
             /\ view[b][g] \subseteq known[b][g]
             /\ \A q \in Participants(g) \ {p} :
                  g \in quits /\ b # a /\ pick[q] = b => view[b][g] = known[b][g] \ {p}
  BY DEF ToldLeft, OwnersLeft, IInv, TypeOK
<1>2. ASSUME NEW g \in DOMAIN sessions, g \notin DOMAIN store
      PROVE  g \in quits /\ (sessions[g].owner = p \/ Participants(g) = {p})
  BY <1>2 DEF AfterLeaving
<1>3. quits \subseteq DOMAIN sessions
  BY DEF MembershipsOf
<1> HIDE DEF store, view, owners
<1>4. ASSUME NEW b \in Addresses, NEW g \in GatheringIDs \ DOMAIN store,
             g \in DOMAIN sessions, view[b][g] # {}
      PROVE  /\ b # a
             /\ owners[b][g] = knownOwner[b][g]
             /\ Here(connected, sessions, b, g)
             /\ view[b][g] = known[b][g] \ {sessions[g].owner}
  <2>1. g \in quits /\ (sessions[g].owner = p \/ Participants(g) = {p})
    BY <1>2, <1>4
  <2>2. b # a /\ owners[b][g] = knownOwner[b][g] /\ known[b][g] # {}
    BY <1>1, <1>4, <2>1
  <2>3. Here(connected, sessions, b, g)
    BY <1>4, <2>2 DEF IInv, Told
  <2>4. connected[b] \in Participants(g) /\ connected[b] \in Players
    BY <1>4, <2>3, SessionFacts, StateIsConsistent
       DEF Here, Members, Participants, StoreType
  <2>5. connected[b] # p
    BY <2>2, <2>4, RostersAssumption DEF IInv, Unique
  <2>6. pick[connected[b]] = b
    BY <2>2, <2>4 DEF Finds
  <2>7. view[b][g] = known[b][g] \ {p}
    BY <1>1, <2>1, <2>2, <2>4, <2>5, <2>6
  <2>8. sessions[g].owner = p
    BY <2>1, <2>4, <2>5
  <2>9. QED
    BY <2>2, <2>3, <2>7, <2>8
<1>5. ASSUME NEW b \in Addresses, NEW g \in GatheringIDs \ DOMAIN store, g \notin DOMAIN sessions
      PROVE  view[b][g] = known[b][g] /\ owners[b][g] = knownOwner[b][g]
  BY <1>1, <1>3, <1>5
<1>6. KeptEnds(store, view, owners)
  BY <1>4, <1>5 DEF KeptEnds, KeptEnd
<1>7. QED
  BY <1>6 DEF store, view, owners

\* While nothing is announced, the news of each end stays on its way.
LEMMA KeptEndNews ==
  ASSUME IInv, NewsOnTheWay, EndNews, NEW a \in Addresses, UNCHANGED <<announcements, overlapped>>,
         KeptEnds(sessions', known', knownOwner'),
         \A b \in Addresses \ {a} : connected'[b] = connected[b],
         connected'[a] = connected[a]
           \/ \A g \in GatheringIDs : knownOwner'[a][g] \notin known'[a][g]
  PROVE  EndNews'
<1>1. \A b \in Addresses : \A g \in GatheringIDs \ DOMAIN sessions' :
        KeptEnd(known', knownOwner', b, g)
  BY DEF KeptEnds
<1>2. ASSUME NEW b \in Addresses, NEW g \in GatheringIDs \ (DOMAIN sessions' \cup overlapped),
             knownOwner'[b][g] \in known'[b][g]
      PROVE  \E event \in announcements :
               event.gathering = g /\ connected'[b] \in event.targets
  <2>1. connected'[b] = connected[b] /\ KeptEnd(known', knownOwner', b, g)
    BY <1>1, <1>2
  <2>2. CASE g \notin DOMAIN sessions
    BY <1>2, <2>1, <2>2 DEF KeptEnd, EndNews
  <2>3. CASE g \in DOMAIN sessions
    <3>1. /\ knownOwner'[b][g] = knownOwner[b][g]
          /\ Here(connected, sessions, b, g)
          /\ known'[b][g] = known[b][g] \ {sessions[g].owner}
      BY <1>2, <2>1, <2>3 DEF KeptEnd
    <3>2. knownOwner[b][g] # sessions[g].owner /\ b # NoOne
      BY <1>2, <3>1, RostersAssumption
    <3>3. QED
      BY <2>1, <2>3, <3>1, <3>2 DEF NewsOnTheWay, Here
  <2>4. QED
    BY <2>2, <2>3
<1>3. ASSUME NEW event \in announcements, NEW b \in Addresses,
             event.gathering \notin DOMAIN sessions' \cup overlapped
      PROVE  event.owner \notin known'[b][event.gathering]
  <2> DEFINE g == event.gathering
  <2>1. g \in GatheringIDs /\ known[b][g] \subseteq Players /\ g \notin overlapped
    BY <1>3 DEF IInv, TypeOK, Announcement
  <2>2. KeptEnd(known', knownOwner', b, g)
    BY <1>1, <1>3, <2>1
  <2>3. CASE g \notin DOMAIN sessions
    <3>1. event.owner \notin known[b][g]
      BY <2>1, <2>3 DEF EndNews
    <3>2. QED
      BY <2>2, <2>3, <3>1 DEF KeptEnd
  <2>4. CASE g \in DOMAIN sessions
    <3>1. known'[b][g] \subseteq known[b][g] \ {sessions[g].owner}
      BY <2>2, <2>4 DEF KeptEnd
    <3>2. event.owner = NoOne \/ event.owner = sessions[g].owner
      BY <2>1, <2>4 DEF NewsOnTheWay
    <3>3. QED
      BY <2>1, <3>1, <3>2, RostersAssumption
  <2>5. QED
    BY <2>3, <2>4
<1>4. QED
  BY <1>2, <1>3 DEF EndNews

\* An entry concerns the gathering entered.
LEMMA JoinedElsewhere ==
  ASSUME NEW store, NEW view \in Views, NEW owners \in OwnerViews, NEW g, NEW a, NEW p, NEW pick,
         Joined(store, view, owners, g, a, p, pick)
  PROVE  /\ DOMAIN sessions' = DOMAIN store
         /\ \A b \in Addresses : \A h \in GatheringIDs \ {g} :
              known'[b][h] = view[b][h] /\ knownOwner'[b][h] = owners[b][h]
<1>1. DOMAIN sessions' = DOMAIN store
  BY DEF Joined
<1>2. knownOwner' = [owners EXCEPT ![a][g] = store[g].owner]
  BY DEF Joined
<1>3. \A b \in Addresses : \A h \in GatheringIDs \ {g} : knownOwner'[b][h] = owners[b][h]
  BY <1>2 DEF OwnerViews
<1>4. ASSUME NEW v, \A b \in Addresses : DOMAIN v[b] = GatheringIDs,
             NEW subjects, NEW targets, NEW told,
             told = ToldJoined(v, knownOwner', g, subjects, targets, pick)
      PROVE  \A b \in Addresses :
               /\ DOMAIN told[b] = GatheringIDs
               /\ \A h \in GatheringIDs \ {g} : told[b][h] = v[b][h]
  <2> TAKE b \in Addresses
  <2>1. told[b] = v[b] \/ \E S : told[b] = [v[b] EXCEPT ![g] = S]
    BY <1>4 DEF ToldJoined
  <2>2. QED
    BY <1>4, <2>1
<1>5. \A b \in Addresses : DOMAIN view[b] = GatheringIDs
  BY DEF Views
<1>6. PICK targets : LET told == ToldJoined(view, knownOwner', g, {p}, targets, pick) IN
        \/ known' = told
        \/ known' = ToldJoined(told, knownOwner', g, DOMAIN store[g].participants, {p}, pick)
  BY DEF Joined
<1>7. \A b \in Addresses : \A h \in GatheringIDs \ {g} : known'[b][h] = view[b][h]
  <2> DEFINE told == ToldJoined(view, knownOwner', g, {p}, targets, pick)
  <2>1. \A b \in Addresses : /\ DOMAIN told[b] = GatheringIDs
                             /\ \A h \in GatheringIDs \ {g} : told[b][h] = view[b][h]
    BY <1>4, <1>5
  <2>2. CASE known' = told
    BY <2>1, <2>2
  <2> HIDE DEF told
  <2>3. CASE known' = ToldJoined(told, knownOwner', g, DOMAIN store[g].participants, {p}, pick)
    BY <1>4, <2>1, <2>3
  <2>4. QED
    BY <1>6, <2>2, <2>3 DEF told
<1>8. QED
  BY <1>1, <1>3, <1>7

\* So an entry ends nothing that its departures have not ended.
LEMMA EnteringEnds ==
  ASSUME NEW store, NEW left, NEW view \in Views, NEW owners \in OwnerViews,
         NEW g, NEW a, NEW p, NEW pick, Joined(store, view, owners, g, a, p, pick),
         DOMAIN store = DOMAIN left \cup {g}, KeptEnds(left, view, owners)
  PROVE  KeptEnds(sessions', known', knownOwner')
<1>1. \A b \in Addresses : \A h \in GatheringIDs \ DOMAIN sessions' :
        /\ h \in GatheringIDs \ DOMAIN left
        /\ known'[b][h] = view[b][h]
        /\ knownOwner'[b][h] = owners[b][h]
  BY JoinedElsewhere
<1>2. QED
  BY <1>1 DEF KeptEnds, KeptEnd

\* The gatherings of the past are as they were.
LEMMA PastEnds ==
  ASSUME NEW view, NEW owners,
         \A b \in Addresses : \A g \in GatheringIDs \ DOMAIN sessions :
           view[b][g] = known[b][g] /\ owners[b][g] = knownOwner[b][g]
  PROVE  KeptEnds(sessions, view, owners)
BY DEF KeptEnds, KeptEnd

\* A console that has lost its connection, or makes one, knows of no gathering.
LEMMA ResetEnds ==
  ASSUME NEW a \in Addresses, NEW view \in Views, NEW owners \in OwnerViews,
         KeptEnds(sessions', view, owners),
         known' = [view EXCEPT ![a] = [g \in GatheringIDs |-> {}]],
         \A b \in Addresses \ {a} : knownOwner'[b] = owners[b]
  PROVE  /\ KeptEnds(sessions', known', knownOwner')
         /\ \A g \in GatheringIDs : knownOwner'[a][g] \notin known'[a][g]
<1>1. \A b \in Addresses : known'[b] = IF b = a THEN [g \in GatheringIDs |-> {}] ELSE view[b]
  BY DEF Views
<1>2. \A g \in GatheringIDs : known'[a][g] = {}
  BY <1>1
<1>3. QED
  BY <1>1, <1>2 DEF KeptEnds, KeptEnd

\* Every request that announces nothing keeps the news of ends on its way.
LEMMA RequestKeepsEndNews ==
  ASSUME IInv, NewsOnTheWay, EndNews, NEW a \in Addresses, NEW g, NEW notify,
         Create(a, notify) \/ Join(a, g) \/ AutoMatchmake(a, g) \/ Leave(a, g)
  PROVE  EndNews'
<1> DEFINE p == connected[a]
<1>1. p \in Players /\ UNCHANGED <<connected, announcements, overlapped>>
  BY DEF Create, Join, AutoMatchmake, Leave, IInv, TypeOK
<1>2. known \in Views /\ knownOwner \in OwnerViews
  BY StateIsConsistent DEF Consistent
<1>3. ASSUME NEW quits \in SUBSET MembershipsOf(p), NEW pick \in Picks
      PROVE  /\ KeptEnds(AfterLeaving(p, quits), ToldLeft(p, a, quits, pick),
                         OwnersLeft(a, quits))
             /\ ToldLeft(p, a, quits, pick) \in Views
             /\ OwnersLeft(a, quits) \in OwnerViews
  <2>1. Finds(connected, pick, a)
    BY PicksFind DEF IInv
  <2>2. QED
    BY <1>1, <2>1, LeavingEnds, LeavingTypes DEF IInv
<1>4. CASE Create(a, notify)
  <2> DEFINE left == AfterLeaving(p, MembershipsOf(p))
             owners == OwnersLeft(a, MembershipsOf(p))
             new == issued + 1
             empty == [owner |-> p, participants |-> << >>, notify |-> notify]
             store == [h \in DOMAIN left \cup {new} |-> IF h = new THEN empty ELSE left[h]]
  <2>1. PICK pick \in Picks :
          Joined(store, ToldLeft(p, a, MembershipsOf(p), pick), owners, new, a, p, pick)
    BY <1>4 DEF Create
  <2> DEFINE view == ToldLeft(p, a, MembershipsOf(p), pick)
  <2>2. KeptEnds(left, view, owners) /\ view \in Views /\ owners \in OwnerViews
    BY <1>3
  <2>3. DOMAIN store = DOMAIN left \cup {new}
    OBVIOUS
  <2> HIDE DEF store, left, view, owners, new
  <2>4. Joined(store, view, owners, new, a, p, pick)
    BY <2>1 DEF view
  <2>5. KeptEnds(sessions', known', knownOwner')
    BY <2>2, <2>3, <2>4, EnteringEnds
  <2>6. QED
    BY <1>1, <2>5, KeptEndNews
<1>5. CASE Join(a, g)
  <2>1. PICK pick \in Picks : Joined(sessions, known, knownOwner, g, a, p, pick)
    BY <1>5 DEF Join
  <2>2. DOMAIN sessions = DOMAIN sessions \cup {g}
    BY <1>5 DEF Join
  <2>3. KeptEnds(sessions, known, knownOwner)
    BY PastEnds
  <2>4. KeptEnds(sessions', known', knownOwner')
    BY <1>2, <2>1, <2>2, <2>3, EnteringEnds
  <2>5. QED
    BY <1>1, <2>4, KeptEndNews
<1>6. CASE AutoMatchmake(a, g)
  <2> DEFINE left == AfterLeaving(p, MembershipsOf(p))
             owners == OwnersLeft(a, MembershipsOf(p))
  <2>1. PICK pick \in Picks :
          Joined(left, ToldLeft(p, a, MembershipsOf(p), pick), owners, g, a, p, pick)
    BY <1>6 DEF AutoMatchmake
  <2> DEFINE view == ToldLeft(p, a, MembershipsOf(p), pick)
  <2>2. KeptEnds(left, view, owners) /\ view \in Views /\ owners \in OwnerViews
    BY <1>3
  <2>3. DOMAIN left = DOMAIN left \cup {g}
    BY <1>6 DEF AutoMatchmake
  <2> HIDE DEF left, view, owners
  <2>4. Joined(left, view, owners, g, a, p, pick)
    BY <2>1 DEF view
  <2>5. KeptEnds(sessions', known', knownOwner')
    BY <2>2, <2>3, <2>4, EnteringEnds
  <2>6. QED
    BY <1>1, <2>5, KeptEndNews
<1>7. CASE Leave(a, g)
  <2>1. {g} \in SUBSET MembershipsOf(p)
    BY <1>7 DEF Leave
  <2>2. PICK pick \in Picks : known' = ToldLeft(p, a, {g}, pick)
    BY <1>7 DEF Leave
  <2>3. sessions' = AfterLeaving(p, {g}) /\ knownOwner' = OwnersLeft(a, {g})
    BY <1>7 DEF Leave
  <2>4. KeptEnds(sessions', known', knownOwner')
    BY <1>3, <2>1, <2>2, <2>3
  <2>5. QED
    BY <1>1, <2>4, KeptEndNews
<1>8. QED
  BY <1>4, <1>5, <1>6, <1>7

\* So does the end of a connection.
LEMMA ConnectionEndedKeepsEndNews ==
  ASSUME IInv, NewsOnTheWay, EndNews, NEW a \in Addresses, ConnectionEnded(a)
  PROVE  EndNews'
<1> DEFINE p == connected[a]
           quits == MembershipsOf(p)
<1>1. p \in Players /\ quits \in SUBSET MembershipsOf(p)
  BY DEF ConnectionEnded, IInv, TypeOK
<1>2. PICK pick \in Picks' : known' = [ToldLeft(p, a, quits, pick) EXCEPT
                                         ![a] = [g \in GatheringIDs |-> {}]]
  BY DEF ConnectionEnded
<1> DEFINE view == ToldLeft(p, a, quits, pick)
           owners == OwnersLeft(a, quits)
<1>3. /\ sessions' = AfterLeaving(p, quits)
      /\ connected' = [connected EXCEPT ![a] = NoOne]
      /\ knownOwner' = [knownOwner EXCEPT ![a] = [g \in GatheringIDs |-> NoOne]]
      /\ UNCHANGED <<announcements, overlapped>>
  BY DEF ConnectionEnded
<1>4. Finds(connected, pick, a)
  BY <1>3, EndedFinds DEF IInv
<1>5. /\ KeptEnds(sessions', view, owners)
      /\ view \in Views /\ owners \in OwnerViews
  BY <1>1, <1>3, <1>4, LeavingEnds, LeavingTypes DEF IInv
<1>6. \A b \in Addresses \ {a} :
        knownOwner'[b] = owners[b] /\ connected'[b] = connected[b]
  BY <1>3 DEF OwnersLeft, IInv, TypeOK
<1>7. known' = [view EXCEPT ![a] = [g \in GatheringIDs |-> {}]]
  BY <1>2
<1> HIDE DEF view, owners
<1>8. /\ KeptEnds(sessions', known', knownOwner')
      /\ \A g \in GatheringIDs : knownOwner'[a][g] \notin known'[a][g]
  BY <1>5, <1>6, <1>7, ResetEnds
<1>9. QED
  BY <1>3, <1>6, <1>8, KeptEndNews

\* And a connection made.
LEMMA ConnectKeepsEndNews ==
  ASSUME IInv, NewsOnTheWay, EndNews, NEW a \in Addresses, NEW p \in Players, Connect(a, p)
  PROVE  EndNews'
<1>1. /\ connected' = [connected EXCEPT ![a] = p]
      /\ known' = [known EXCEPT ![a] = [g \in GatheringIDs |-> {}]]
      /\ knownOwner' = [knownOwner EXCEPT ![a] = [g \in GatheringIDs |-> NoOne]]
      /\ DOMAIN sessions' = DOMAIN sessions
      /\ UNCHANGED <<announcements, overlapped>>
  BY DEF Connect
<1>2. \A b \in Addresses \ {a} :
        knownOwner'[b] = knownOwner[b] /\ connected'[b] = connected[b]
  BY <1>1 DEF IInv, TypeOK
<1>3. known \in Views /\ knownOwner \in OwnerViews
  BY StateIsConsistent DEF Consistent
<1>4. KeptEnds(sessions', known, knownOwner)
  BY <1>1, PastEnds DEF KeptEnds
<1>5. /\ KeptEnds(sessions', known', knownOwner')
      /\ \A g \in GatheringIDs : knownOwner'[a][g] \notin known'[a][g]
  BY <1>1, <1>2, <1>3, <1>4, ResetEnds
<1>6. QED
  BY <1>1, <1>2, <1>5, KeptEndNews

\* An announced end is announced to all who were there.
LEMMA AnnouncedEndNews ==
  ASSUME IInv, EndNews, NEW a, NEW g, NEW p, DestroyGathering(a, g) \/ ChangeOwner(a, g, p)
  PROVE  EndNews'
<1>1. UNCHANGED <<connected, known, knownOwner>> /\ g \in DOMAIN sessions
  BY DEF DestroyGathering, ChangeOwner
<1>2. \A b \in Addresses : \A h \in GatheringIDs : known[b][h] \subseteq Players
  BY DEF IInv, TypeOK
<1>3. CASE DestroyGathering(a, g)
  <2>1. DOMAIN sessions' = DOMAIN sessions \ {g} /\ Announce(g, NoOne, Members(sessions, g))
    BY <1>3 DEF DestroyGathering, Participants, Members
  <2>2. /\ \A e \in announcements : e \in announcements'
        /\ \A e \in announcements' :
             e \in announcements \/ (e.gathering = g /\ e.owner = NoOne)
        /\ \A h : h # g => (h \in overlapped' <=> h \in overlapped)
        /\ g \notin overlapped' =>
             /\ \A e \in announcements : e.gathering # g
             /\ \E e \in announcements' :
                  e.gathering = g /\ e.targets = Members(sessions, g)
    BY <2>1, AnnounceFacts
  <2>3. ASSUME NEW b \in Addresses, NEW h \in GatheringIDs \ (DOMAIN sessions' \cup overlapped'),
               knownOwner[b][h] \in known[b][h]
        PROVE  \E e \in announcements' : e.gathering = h /\ connected[b] \in e.targets
    <3>1. CASE h = g
      <4>1. Here(connected, sessions, b, g)
        BY <1>1, <2>3, <3>1 DEF IInv, Told
      <4>2. QED
        BY <2>2, <2>3, <3>1, <4>1 DEF Here
    <3>2. CASE h # g
      <4>1. h \in GatheringIDs \ (DOMAIN sessions \cup overlapped)
        BY <2>1, <2>2, <2>3, <3>2
      <4>2. QED
        BY <2>2, <2>3, <4>1 DEF EndNews
    <3>3. QED
      BY <3>1, <3>2
  <2>4. ASSUME NEW e \in announcements', NEW b \in Addresses,
               e.gathering \notin DOMAIN sessions' \cup overlapped'
        PROVE  e.owner \notin known[b][e.gathering]
    <3>1. g \in GatheringIDs
      BY <1>1, StateIsConsistent DEF StoreType
    <3>2. CASE e.gathering = g /\ e.owner = NoOne
      BY <1>2, <3>1, <3>2, RostersAssumption
    <3>3. CASE e \in announcements /\ e.gathering # g
      BY <2>1, <2>2, <2>4, <3>3 DEF EndNews
    <3>4. QED
      BY <2>2, <2>4, <3>2, <3>3
  <2>5. QED
    BY <1>1, <2>3, <2>4 DEF EndNews
<1>4. CASE ChangeOwner(a, g, p)
  <2>1. DOMAIN sessions' = DOMAIN sessions /\ Announce(g, p, Participants(g))
    BY <1>4 DEF ChangeOwner
  <2>2. /\ \A e \in announcements : e \in announcements'
        /\ \A e \in announcements' : e \in announcements \/ e.gathering = g
        /\ \A h : h # g => (h \in overlapped' <=> h \in overlapped)
    BY <2>1, AnnounceFacts
  <2>3. \A h : h \notin DOMAIN sessions' \cup overlapped' =>
                 h # g /\ h \notin DOMAIN sessions \cup overlapped
    BY <1>1, <2>1, <2>2
  <2>4. QED
    BY <1>1, <2>2, <2>3 DEF EndNews
<1>5. QED
  BY <1>3, <1>4

\* Whoever is sent the news of an end has it.
LEMMA SentEndNews ==
  ASSUME IInv, NewsOnTheWay, EndNews, NEW event \in announcements, NEW p \in Players,
         SendAnnouncement(event, p)
  PROVE  EndNews'
<1>1. UNCHANGED <<connected, sessions, overlapped>> /\ event \in Announcement
  BY DEF SendAnnouncement, IInv, TypeOK
<1>2. ASSUME NEW e \in announcements, NEW q \in e.targets, e # event \/ q # p
      PROVE  \E f \in announcements' :
               f.gathering = e.gathering /\ f.owner = e.owner /\ q \in f.targets
  BY <1>2, StillToldOf DEF IInv
<1>3. PICK pick \in Picks :
        IF pick[p] = NoOne \/ knownOwner[pick[p]][event.gathering] = NoOne
        THEN UNCHANGED <<known, knownOwner>>
        ELSE /\ knownOwner' = [knownOwner EXCEPT ![pick[p]][event.gathering] = event.owner]
             /\ known' = IF event.owner = NoOne
                         THEN [known EXCEPT ![pick[p]][event.gathering] = {}]
                         ELSE known
  BY DEF SendAnnouncement
<1>4. pick[p] # NoOne => pick[p] \in Addresses /\ connected[pick[p]] = p
  BY DEF Picks
<1>5. ASSUME NEW b \in Addresses, NEW g \in GatheringIDs
      PROVE  /\ known'[b][g] \subseteq known[b][g]
             /\ \/ knownOwner'[b][g] = knownOwner[b][g]
                \/ knownOwner'[b][g] = event.owner /\ event.gathering = g
             /\ /\ connected[b] = p /\ event.gathering = g
                /\ knownOwner[b][g] \in known[b][g]
                => knownOwner'[b][g] = event.owner
  <2>1. /\ known'[b][g] \subseteq known[b][g]
        /\ \/ knownOwner'[b][g] = knownOwner[b][g]
           \/ knownOwner'[b][g] = event.owner /\ event.gathering = g
    <3>1. CASE UNCHANGED <<known, knownOwner>>
      BY <3>1
    <3>2. CASE /\ pick[p] # NoOne
               /\ knownOwner' = [knownOwner EXCEPT ![pick[p]][event.gathering] = event.owner]
               /\ known' = IF event.owner = NoOne
                           THEN [known EXCEPT ![pick[p]][event.gathering] = {}]
                           ELSE known
      BY <1>1, <1>4, <3>2 DEF IInv, TypeOK, Announcement
    <3>3. QED
      BY <1>3, <3>1, <3>2
  <2>2. ASSUME connected[b] = p, event.gathering = g, knownOwner[b][g] \in known[b][g]
        PROVE  knownOwner'[b][g] = event.owner
    <3>1. pick[p] = b /\ b # NoOne
      BY <2>2, PicksFind, RostersAssumption DEF IInv
    <3>2. knownOwner[b][g] # NoOne
      BY <2>2, RostersAssumption DEF IInv, TypeOK
    <3>3. QED
      BY <1>3, <2>2, <3>1, <3>2 DEF IInv, TypeOK
  <2>3. QED
    BY <2>1, <2>2
<1>6. ASSUME NEW b \in Addresses, NEW g \in GatheringIDs \ (DOMAIN sessions \cup overlapped),
             knownOwner'[b][g] \in known'[b][g]
      PROVE  \E e \in announcements' : e.gathering = g /\ connected[b] \in e.targets
  <2>1. event.gathering = g => knownOwner'[b][g] # event.owner
    BY <1>5, <1>6 DEF EndNews
  <2>2. knownOwner[b][g] \in known[b][g]
    BY <1>5, <1>6, <2>1
  <2>3. PICK e \in announcements : e.gathering = g /\ connected[b] \in e.targets
    BY <1>6, <2>2 DEF EndNews
  <2>4. e = event => connected[b] # p
    BY <1>5, <2>1, <2>2, <2>3
  <2>5. QED
    BY <1>2, <2>3, <2>4
<1>7. ASSUME NEW e \in announcements', NEW b \in Addresses,
             e.gathering \notin DOMAIN sessions \cup overlapped
      PROVE  e.owner \notin known'[b][e.gathering]
  <2>1. PICK f \in announcements : f.gathering = e.gathering /\ f.owner = e.owner
    BY <1>7, RestFacts DEF IInv
  <2>2. e.gathering \in GatheringIDs
    BY <2>1 DEF IInv, TypeOK, Announcement
  <2>3. e.owner \notin known[b][e.gathering]
    BY <1>7, <2>1 DEF EndNews
  <2>4. QED
    BY <1>5, <2>2, <2>3
<1>8. QED
  BY <1>1, <1>6, <1>7 DEF EndNews

\* Where a player has one connection at a time, every console that was in a
\* gathering that has ended can tell so once the gathering's latest announcement
\* has been sent to all, if no other was under way when it was made.
THEOREM KnownEnds ==
  ASSUME OneConnectionEach = TRUE
  PROVE  Spec => []EndsAreKnown
<1>1. Init => EndNews
  BY RostersAssumption DEF Init, EndNews
<1>2. IInv /\ NewsOnTheWay /\ EndNews /\ [Next]_vars => EndNews'
  <2>1. ASSUME EndNews, UNCHANGED vars PROVE EndNews'
    BY <2>1 DEF vars, EndNews
  <2>2. ASSUME IInv, NewsOnTheWay, EndNews, Next PROVE EndNews'
    <3>1. ASSUME NEW a \in Addresses, Request(a) PROVE EndNews'
      BY <2>2, <3>1, RequestKeepsEndNews, AnnouncedEndNews DEF Request
    <3>2. QED
      BY <2>2, <3>1, ConnectionEndedKeepsEndNews, ConnectKeepsEndNews, SentEndNews DEF Next
  <2>3. QED
    BY <2>1, <2>2
<1>3. IInv /\ EndNews => EndsAreKnown
  <2>1. IInv => 1 .. issued \subseteq GatheringIDs
    BY RostersAssumption DEF IInv, TypeOK, GatheringIDs
  <2>2. QED
    BY <2>1 DEF EndNews, EndsAreKnown, Settled
<1>4. QED
  BY <1>1, <1>2, <1>3, Invariance, NewsStaysOnTheWay, PTL DEF Spec
=============================================================================
