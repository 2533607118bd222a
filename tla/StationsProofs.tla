--------------------------- MODULE StationsProofs ---------------------------
(***************************************************************************)
(* Theorems about Stations, for every number of players, addresses,        *)
(* connections and stations, whoever may use which address and whatever    *)
(* connections the consoles name in the stations they put in place of      *)
(* others.                                                                 *)
(***************************************************************************)
EXTENDS Stations, SequenceTheorems, WellFoundedInduction, TLAPS

-----------------------------------------------------------------------------
(***************************************************************************)
(* The inductive invariant.  A connection's PID and the PIDs in its        *)
(* stations may differ, once the connection has changed hands; but each is *)
(* one of the players whose connection it has been, and those only grow in *)
(* number.  What has been given out stays true of the connection it names  *)
(* for that reason, whatever becomes of it.                                *)
(***************************************************************************)

\* r is a record that connection c may have.
Sound(c, r) ==
  /\ r.state = "connected" => r.pid # 0
  /\ r.pid # 0 => r.pid \in r.players
  /\ r.players # {} => r.pid # 0
  /\ \A i \in DOMAIN r.urls :
       r.urls[i].pid \in r.players /\ (r.urls[i].stamped => r.urls[i].cid = c)

ConnectionsSound == \A c \in DOMAIN connections : Sound(c, connections[c])

GivenOutWasTheirs ==
  given # << >> =>
    /\ given.from \in DOMAIN connections
    /\ given.url.pid \in connections[given.from].players
    /\ given.stamped => given.player \in connections[given.from].players
    /\ given.url.stamped =>
         /\ given.url.cid \in DOMAIN connections
         /\ given.url.pid \in connections[given.url.cid].players

ProbeReachedTheirs ==
  probe # << >> =>
    /\ probe.reached \in DOMAIN connections
    /\ probe.url.stamped =>
         /\ probe.url.pid \in connections[probe.reached].players
         /\ connections[probe.reached].pid \in connections[probe.reached].players

IInv == TypeOK /\ ConnectionsSound /\ GivenOutWasTheirs /\ ProbeReachedTheirs

-----------------------------------------------------------------------------
(***************************************************************************)
(* Lemmas.                                                                 *)
(***************************************************************************)

\* A set of numbers that has a member has a smallest one.
LEMMA Smallest ==
  ASSUME NEW S \in SUBSET Nat, S # {}
  PROVE  \E i \in S : \A j \in S : i <= j
<1>1. PICK i \in S : \A j \in S : ~ (<<j, i>> \in OpToRel(<, Nat))
  BY NatLessThanWellFounded, WFMin
<1>2. \A j \in S : ~ (j < i)
  BY <1>1 DEF OpToRel
<1>3. QED
  BY <1>2

\* The station that First takes is one that the console gave.
LEMMA FirstIsGiven ==
  ASSUME NEW claims \in Seq(Claim), NEW S \in SUBSET DOMAIN claims, S # {}
  PROVE  First(claims, S) \in Claim
<1>1. DOMAIN claims \subseteq Nat /\ claims \in [DOMAIN claims -> Claim]
  BY LenProperties
<1>2. \E i \in S : \A j \in S : i <= j
  BY <1>1, Smallest
<1>3. (CHOOSE i \in S : \A j \in S : i <= j) \in S
  BY <1>2
<1>4. QED
  BY <1>1, <1>3 DEF First

\* The connections are numbered without gaps, and the next number is free.
LEMMA NextIDIsFree ==
  ASSUME TypeOK
  PROVE  /\ NextID \in Nat \ {0} /\ NextID \notin DOMAIN connections
         /\ DOMAIN connections = 1 .. NextID - 1
<1>1. PICK n \in 0 .. MaxConnections : connections \in [1 .. n -> Connection]
  BY DEF TypeOK
<1>2. n \in Nat
  BY <1>1, StationsAssumption DEF StationsAssumption
<1>3. connections \in Seq(Connection)
  BY <1>1, <1>2
<1>4. Len(connections) \in Nat /\ DOMAIN connections = 1 .. Len(connections)
  BY <1>3, LenProperties
<1>5. QED
  BY <1>4 DEF NextID

\* A step that gives connection c another record, of the players it had at
\* least, keeps the invariant; the step may also take c out of the table.
LEMMA ConnectionUpdated ==
  ASSUME IInv,
         NEW c \in DOMAIN connections, NEW r \in Connection,
         Sound(c, r), connections[c].players \subseteq r.players,
         connections' = [connections EXCEPT ![c] = r],
         \/ registered' = registered
         \/ \E a \in Addresses : registered' = [registered EXCEPT ![a] = 0],
         probe' = << >>, given' = given
  PROVE  IInv'
<1> USE DEF IInv
<1>1. DOMAIN connections' = DOMAIN connections
  OBVIOUS
<1>2. TypeOK'
  <2>1. PICK n \in 0 .. MaxConnections : connections \in [1 .. n -> Connection]
    BY DEF TypeOK
  <2>2. connections' \in [1 .. n -> Connection]
    BY <2>1
  <2>3. registered' \in [Addresses -> DOMAIN connections' \cup {0}]
    BY <1>1 DEF TypeOK
  <2>4. QED
    BY <2>1, <2>2, <2>3 DEF TypeOK
<1>3. ConnectionsSound'
  BY DEF ConnectionsSound, Sound
<1>4. GivenOutWasTheirs'
  <2>1. \A d \in DOMAIN connections : connections[d].players \subseteq connections'[d].players
    OBVIOUS
  <2>2. QED
    BY <1>1, <2>1 DEF GivenOutWasTheirs
<1>5. ProbeReachedTheirs'
  BY DEF ProbeReachedTheirs
<1>6. QED
  BY <1>2, <1>3, <1>4, <1>5

\* A connection over which a request arrives has a PID.
LEMMA RequestersHavePIDs ==
  ASSUME IInv, NEW a \in Addresses, NEW c, Requests(a, c)
  PROVE  /\ c \in DOMAIN connections /\ connections[c] \in Connection
         /\ connections[c].pid \in Players
         /\ c \in 1 .. MaxConnections
<1>1. c \in DOMAIN connections
  BY DEF IInv, TypeOK, Requests
<1>2. connections[c] \in Connection /\ c \in 1 .. MaxConnections
  BY <1>1, StationsAssumption DEF IInv, TypeOK, StationsAssumption
<1>3. connections[c].pid \in Players
  BY <1>1, <1>2 DEF Requests, IInv, ConnectionsSound, Sound, Connection
<1>4. QED
  BY <1>1, <1>2, <1>3

\* A station has the PID of connection c, and names c where it is stamped.
Own(c, url) == url.pid = connections[c].pid /\ (url.stamped => url.cid = c)

\* The stations of c become others, each one it had or one of its own.
RegisteredOver(c) ==
  \E urls \in Seq(StationURL) :
    /\ connections' = [connections EXCEPT ![c].urls = urls]
    /\ registered' = registered /\ given' = given /\ probe' = << >>
    /\ \A i \in DOMAIN urls :
         \/ Own(c, urls[i])
         \/ \E j \in DOMAIN connections[c].urls : urls[i] = connections[c].urls[j]

\* Registering over a connection keeps the invariant.
LEMMA StationsRegistered ==
  ASSUME IInv, NEW a \in Addresses, NEW c, Requests(a, c), RegisteredOver(c)
  PROVE  IInv'
<1>1. PICK urls \in Seq(StationURL) :
        /\ connections' = [connections EXCEPT ![c].urls = urls]
        /\ registered' = registered /\ given' = given /\ probe' = << >>
        /\ \A i \in DOMAIN urls :
             \/ Own(c, urls[i])
             \/ \E j \in DOMAIN connections[c].urls : urls[i] = connections[c].urls[j]
  BY DEF RegisteredOver
<1> DEFINE r == [connections[c] EXCEPT !.urls = urls]
<1>2. c \in DOMAIN connections /\ connections[c] \in Connection
  BY RequestersHavePIDs
<1>3. Sound(c, connections[c])
  BY <1>2 DEF IInv, ConnectionsSound
<1>4. r \in Connection /\ r.players = connections[c].players
      /\ r.pid = connections[c].pid /\ r.state = connections[c].state /\ r.urls = urls
  BY <1>2 DEF Connection
<1>5. Sound(c, r)
  <2>1. connections[c].pid \in connections[c].players
    BY <1>3, RequestersHavePIDs, StationsAssumption DEF Sound, StationsAssumption
  <2>2. QED
    BY <1>1, <1>3, <1>4, <2>1 DEF Sound, Own
<1>6. connections' = [connections EXCEPT ![c] = r]
  BY <1>1
<1> HIDE DEF r
<1>7. QED
  BY <1>1, <1>2, <1>4, <1>5, <1>6, ConnectionUpdated

\* A stamped station is its player's.
LEMMA StampedIsTheirs ==
  ASSUME IInv, NEW a \in Addresses, NEW c, Requests(a, c), NEW claim \in Claim
  PROVE  /\ Stamped(c, claim) \in StationURL
         /\ Stamped(c, claim).pid = connections[c].pid
         /\ Stamped(c, claim).cid = c /\ Stamped(c, claim).stamped
BY RequestersHavePIDs, StationsAssumption DEF Stamped, StationURL, Claim, StationsAssumption

-----------------------------------------------------------------------------
(***************************************************************************)
(* The steps.                                                              *)
(***************************************************************************)

\* With no connections, nothing registered and nothing given out, it holds.
LEMMA InitHasIInv == Init => IInv
<1> SUFFICES ASSUME Init PROVE IInv
  OBVIOUS
<1>1. MaxConnections \in Nat /\ connections \in [1 .. 0 -> Connection]
  BY StationsAssumption DEF Init, StationsAssumption
<1>2. TypeOK
  BY <1>1 DEF Init, TypeOK
<1>3. ConnectionsSound
  BY <1>1 DEF ConnectionsSound
<1>4. QED
  BY <1>2, <1>3 DEF Init, IInv, GivenOutWasTheirs, ProbeReachedTheirs

\* A SYN makes a connection without a PID or stations, or resets a known one,
\* which keeps both.
LEMMA SynKeepsIInv ==
  ASSUME IInv, NEW a \in Addresses, Syn(a)
  PROVE  IInv'
<1>1. CASE registered[a] # 0
  <2> DEFINE c == registered[a]
             r == [connections[c] EXCEPT !.state = "connecting"]
  <2>1. c \in DOMAIN connections /\ connections[c] \in Connection /\ Sound(c, connections[c])
    BY <1>1 DEF IInv, TypeOK, ConnectionsSound
  <2>2. /\ r \in Connection /\ r.state = "connecting"
        /\ r.players = connections[c].players
        /\ r.pid = connections[c].pid /\ r.urls = connections[c].urls
    BY <2>1 DEF Connection
  <2>3. Sound(c, r)
    BY <2>1, <2>2 DEF Sound
  <2>4. /\ connections' = [connections EXCEPT ![c] = r]
        /\ registered' = registered /\ given' = given /\ probe' = << >>
    BY <1>1 DEF Syn, NoProbe
  <2> HIDE DEF c, r
  <2>5. QED
    BY <2>1, <2>2, <2>3, <2>4, ConnectionUpdated
<1>2. CASE registered[a] = 0
  <2> DEFINE new == [address |-> a, state |-> "connecting", pid |-> 0, urls |-> << >>,
                     players |-> {}]
  <2>1. /\ NextID \in 1 .. MaxConnections
        /\ connections' = [c \in DOMAIN connections \cup {NextID} |->
                             IF c = NextID THEN new ELSE connections[c]]
        /\ registered' = [registered EXCEPT ![a] = NextID]
        /\ given' = given /\ probe' = << >>
    BY <1>2, NextIDIsFree, StationsAssumption DEF Syn, NoProbe, IInv, StationsAssumption
  <2>2. NextID \notin DOMAIN connections /\ DOMAIN connections \cup {NextID} = 1 .. NextID
    BY <2>1, NextIDIsFree DEF IInv
  <2>3. new \in Connection
    BY EmptySeq DEF Connection
  <2>4. Sound(NextID, new)
    BY DEF Sound
  <2> HIDE DEF new
  <2>5. /\ DOMAIN connections' = DOMAIN connections \cup {NextID}
        /\ connections'[NextID] = new
        /\ \A c \in DOMAIN connections : connections'[c] = connections[c]
    BY <2>1, <2>2
  <2>6. TypeOK'
    <3>1. connections' \in [1 .. NextID -> Connection]
      BY <2>1, <2>2, <2>3, NextIDIsFree DEF IInv, TypeOK
    <3>2. registered' \in [Addresses -> DOMAIN connections' \cup {0}]
      BY <2>1, <2>5 DEF IInv, TypeOK
    <3>3. QED
      BY <2>1, <3>1, <3>2 DEF IInv, TypeOK
  <2>7. ConnectionsSound'
    BY <2>4, <2>5 DEF IInv, ConnectionsSound, Sound
  <2>8. GivenOutWasTheirs' /\ ProbeReachedTheirs'
    BY <2>1, <2>5 DEF IInv, GivenOutWasTheirs, ProbeReachedTheirs
  <2>9. QED
    BY <2>6, <2>7, <2>8 DEF IInv
<1>3. QED
  BY <1>1, <1>2

\* A CONNECT sets the PID, whoever's the connection was; the stations stay those
\* of the players it has had.
LEMMA ConnectKeepsIInv ==
  ASSUME IInv, NEW a \in Addresses, NEW p \in Players, Connect(a, p)
  PROVE  IInv'
<1> DEFINE c == registered[a]
           r == [connections[c] EXCEPT !.state = "connected", !.pid = p,
                                       !.players = @ \cup {p}]
<1>1. c \in DOMAIN connections /\ connections[c] \in Connection /\ Sound(c, connections[c])
  BY DEF Connect, IInv, TypeOK, ConnectionsSound
<1>2. /\ r \in Connection /\ r.pid = p /\ r.urls = connections[c].urls
      /\ r.players = connections[c].players \cup {p}
  BY <1>1 DEF Connection
<1>3. p # 0
  BY StationsAssumption DEF StationsAssumption
<1>4. Sound(c, r)
  BY <1>1, <1>2, <1>3 DEF Sound
<1>5. /\ connections' = [connections EXCEPT ![c] = r]
      /\ registered' = registered /\ given' = given /\ probe' = << >>
  BY DEF Connect, NoProbe
<1> HIDE DEF c, r
<1>6. QED
  BY <1>1, <1>2, <1>4, <1>5, ConnectionUpdated

\* A connection that ends loses its stations and leaves the table.
LEMMA CleanupKeepsIInv ==
  ASSUME IInv, NEW a \in Addresses, CleanupConnection(a)
  PROVE  IInv'
<1> DEFINE c == registered[a]
           r == [connections[c] EXCEPT !.state = "not connected", !.urls = << >>]
<1>1. c \in DOMAIN connections /\ connections[c] \in Connection /\ Sound(c, connections[c])
  BY DEF CleanupConnection, IInv, TypeOK, ConnectionsSound
<1>2. /\ r \in Connection /\ r.players = connections[c].players
      /\ r.pid = connections[c].pid /\ r.state = "not connected" /\ r.urls = << >>
  BY <1>1, EmptySeq DEF Connection
<1>3. Sound(c, r)
  BY <1>1, <1>2 DEF Sound
<1>4. /\ connections' = [connections EXCEPT ![c] = r]
      /\ registered' = [registered EXCEPT ![a] = 0]
      /\ given' = given /\ probe' = << >>
  BY DEF CleanupConnection, NoProbe
<1> HIDE DEF c, r
<1>5. QED
  BY <1>1, <1>2, <1>3, <1>4, ConnectionUpdated

\* The two stations that registerEx adds are stamped.
LEMMA RegisterExRegisters ==
  ASSUME IInv, NEW a \in Addresses, NEW c, NEW claims \in Claims, RegisterEx(a, c, claims)
  PROVE  Requests(a, c) /\ RegisteredOver(c)
<1> DEFINE old == connections[c].urls
           new == [i \in 1 .. 2 |-> Stamped(c, Chosen(a, claims)[i])]
           Theirs(u) == \/ Own(c, u)
                        \/ \E j \in DOMAIN old : u = old[j]
<1>1. Requests(a, c)
  BY DEF RegisterEx
<1>2. claims \in Seq(Claim)
  BY StationsAssumption DEF StationsAssumption
<1>3. First(claims, {i \in DOMAIN claims : ~claims[i].public \/ ~claims[i].known}) \in Claim
  BY <1>2, FirstIsGiven DEF RegisterEx
<1>4. {i \in DOMAIN claims : claims[i].public} # {} =>
        First(claims, {i \in DOMAIN claims : claims[i].public}) \in Claim
  BY <1>2, FirstIsGiven
<1>5. Chosen(a, claims)[1] \in Claim
  BY <1>3 DEF Chosen
<1>6. Chosen(a, claims)[2] \in Claim
  BY <1>3, <1>4 DEF Chosen, Claim
<1>7. \A i \in 1 .. 2 : Theirs(new[i])
  BY <1>1, <1>5, <1>6, StampedIsTheirs DEF Own
<1>8. new \in Seq(StationURL) /\ Len(new) = 2
  BY <1>1, <1>5, <1>6, StampedIsTheirs
<1>9. old \in Seq(StationURL) /\ \A i \in DOMAIN old : Theirs(old[i])
  BY <1>1, RequestersHavePIDs DEF Connection
<1>10. /\ connections' = [connections EXCEPT ![c].urls = old \o new]
       /\ registered' = registered /\ given' = given /\ probe' = << >>
  BY DEF RegisterEx, NoProbe
<1> HIDE DEF old, new
<1>11. old \o new \in Seq(StationURL)
  BY <1>8, <1>9, ConcatProperties
<1>12. \A i \in DOMAIN (old \o new) : Theirs((old \o new)[i])
  <2> SUFFICES ASSUME NEW i \in DOMAIN (old \o new)
               PROVE  Theirs((old \o new)[i])
    OBVIOUS
  <2> HIDE DEF Theirs
  <2>1. /\ Len(old) \in Nat /\ DOMAIN old = 1 .. Len(old)
        /\ Len(new) = 2
        /\ DOMAIN (old \o new) = 1 .. Len(old) + 2
        /\ (old \o new)[i] = IF i <= Len(old) THEN old[i] ELSE new[i - Len(old)]
    <3>1. old \in Seq(StationURL)
      BY <1>9
    <3>2. new \in Seq(StationURL) /\ Len(new) = 2
      BY <1>8
    <3>3. Len(old \o new) = Len(old) + Len(new)
      BY <3>1, <3>2, ConcatProperties
    <3>4. /\ Len(old) \in Nat /\ DOMAIN old = 1 .. Len(old)
          /\ DOMAIN (old \o new) = 1 .. Len(old \o new)
      BY <1>11, <3>1, LenProperties
    <3>5. QED
      BY <3>1, <3>2, <3>3, <3>4, ConcatProperties
  <2>2. CASE i <= Len(old)
    BY <1>9, <2>1, <2>2
  <2>3. CASE ~ (i <= Len(old))
    <3>1. i - Len(old) \in 1 .. 2
      BY <2>1, <2>3
    <3>2. QED
      BY <1>7, <2>1, <2>3, <3>1
  <2>4. QED
    BY <2>2, <2>3
<1>13. QED
  BY <1>1, <1>10, <1>11, <1>12 DEF RegisteredOver, old

\* The stations that updateURLs sets are stamped.
LEMMA UpdateURLsRegisters ==
  ASSUME IInv, NEW a \in Addresses, NEW c, NEW claims \in Claims, UpdateURLs(a, c, claims)
  PROVE  Requests(a, c) /\ RegisteredOver(c)
<1> DEFINE url(i) == [Stamped(c, claims[i]) EXCEPT
                        !.address = IF claims[i].public THEN a ELSE @]
           urls == [i \in DOMAIN claims |-> url(i)]
<1>1. Requests(a, c) /\ claims \in Seq(Claim)
  BY StationsAssumption DEF UpdateURLs, StationsAssumption
<1>2. /\ DOMAIN claims = 1 .. Len(claims) /\ Len(claims) \in Nat
      /\ \A i \in DOMAIN claims : claims[i] \in Claim
  BY <1>1, LenProperties
<1>3. \A i \in DOMAIN claims :
        url(i) \in StationURL /\ Own(c, url(i))
  BY <1>1, <1>2, StampedIsTheirs DEF StationURL, Claim, Own
<1>4. /\ connections' = [connections EXCEPT ![c].urls = urls]
      /\ registered' = registered /\ given' = given /\ probe' = << >>
  BY DEF UpdateURLs, NoProbe
<1> HIDE DEF url
<1>5. urls \in Seq(StationURL)
  BY <1>2, <1>3
<1>6. \A i \in DOMAIN urls : Own(c, urls[i])
  BY <1>3
<1> HIDE DEF urls
<1>7. QED
  BY <1>1, <1>4, <1>5, <1>6 DEF RegisteredOver

\* A replaced station has its owner's PID, whatever connection it names.
LEMMA ReplaceURLRegisters ==
  ASSUME IInv, NEW a \in Addresses, NEW c, NEW claim \in Replacements, NEW old,
         ReplaceURL(a, c, old, claim)
  PROVE  Requests(a, c) /\ RegisteredOver(c)
<1>1. Requests(a, c) /\ claim \in Claim
  BY StationsAssumption DEF ReplaceURL, StationsAssumption
<1>2. PICK cid \in DOMAIN connections \cup {0} :
        connections' = [connections EXCEPT
          ![c].urls =
            [i \in DOMAIN @ |-> IF @[i].address = old
                                THEN [Stamped(c, claim) EXCEPT !.cid = cid, !.stamped = FALSE]
                                ELSE @[i]]]
  BY DEF ReplaceURL
<1> DEFINE had == connections[c].urls
           new == [Stamped(c, claim) EXCEPT !.cid = cid, !.stamped = FALSE]
           urls == [i \in DOMAIN had |-> IF had[i].address = old THEN new ELSE had[i]]
<1>3. /\ connections' = [connections EXCEPT ![c].urls = urls]
      /\ registered' = registered /\ given' = given /\ probe' = << >>
  BY <1>2 DEF ReplaceURL, NoProbe
<1>4. new \in StationURL /\ Own(c, new)
  <2>1. DOMAIN connections \subseteq 1 .. MaxConnections
    BY StationsAssumption DEF IInv, TypeOK, StationsAssumption
  <2>2. cid \in 0 .. MaxConnections
    BY <2>1, StationsAssumption DEF StationsAssumption
  <2> DEFINE stamped == Stamped(c, claim)
  <2>3. stamped \in StationURL /\ stamped.pid = connections[c].pid
    BY <1>1, StampedIsTheirs
  <2>4. new = [stamped EXCEPT !.cid = cid, !.stamped = FALSE]
    OBVIOUS
  <2> HIDE DEF stamped, new
  <2>5. QED
    BY <2>2, <2>3, <2>4 DEF StationURL, Own
<1>5. had \in Seq(StationURL)
  BY <1>1, RequestersHavePIDs DEF Connection
<1>6. /\ DOMAIN had = 1 .. Len(had) /\ Len(had) \in Nat
      /\ \A i \in DOMAIN had : had[i] \in StationURL
  BY <1>5, LenProperties
<1> HIDE DEF new
<1>7. urls \in Seq(StationURL)
  BY <1>4, <1>6
<1>8. \A i \in DOMAIN urls : \/ Own(c, urls[i])
                             \/ \E j \in DOMAIN had : urls[i] = had[j]
  BY <1>4
<1> HIDE DEF urls
<1>9. QED
  BY <1>1, <1>3, <1>7, <1>8 DEF RegisteredOver

\* Stamping a connection's stations anew keeps them its own.
LEMMA ReportNATPropertiesRegisters ==
  ASSUME IInv, NEW a \in Addresses, NEW c, ReportNATProperties(a, c)
  PROVE  Requests(a, c) /\ RegisteredOver(c)
<1> DEFINE had == connections[c].urls
           url(i) == [had[i] EXCEPT !.pid = connections[c].pid, !.cid = c, !.stamped = TRUE]
           urls == [i \in DOMAIN had |-> url(i)]
<1>1. Requests(a, c)
  BY DEF ReportNATProperties
<1>2. had \in Seq(StationURL) /\ connections[c].pid \in Players /\ c \in 0 .. MaxConnections
  <2>1. /\ connections[c] \in Connection /\ connections[c].pid \in Players
        /\ c \in 1 .. MaxConnections
    BY <1>1, RequestersHavePIDs
  <2>2. had \in Seq(StationURL)
    BY <2>1 DEF Connection
  <2>3. QED
    BY <2>1, <2>2, StationsAssumption DEF StationsAssumption
<1>3. /\ DOMAIN had = 1 .. Len(had) /\ Len(had) \in Nat
      /\ \A i \in DOMAIN had : had[i] \in StationURL
  BY <1>2, LenProperties
<1>4. \A i \in DOMAIN had :
        url(i) \in StationURL /\ Own(c, url(i))
  BY <1>2, <1>3 DEF StationURL, Own
<1>5. /\ connections' = [connections EXCEPT ![c].urls = urls]
      /\ registered' = registered /\ given' = given /\ probe' = << >>
  BY DEF ReportNATProperties, NoProbe
<1> HIDE DEF had, url
<1>6. urls \in Seq(StationURL)
  BY <1>3, <1>4
<1>7. \A i \in DOMAIN urls : Own(c, urls[i])
  BY <1>4
<1> HIDE DEF urls
<1>8. QED
  BY <1>1, <1>5, <1>6, <1>7 DEF RegisteredOver

\* Whatever a console registers.
LEMMA RegistersStations ==
  ASSUME IInv, NEW a \in Addresses, NEW c, Registers(a, c)
  PROVE  Requests(a, c) /\ RegisteredOver(c)
BY RegisterExRegisters, UpdateURLsRegisters, ReplaceURLRegisters,
   ReportNATPropertiesRegisters DEF Registers

\* Giving out the stations of a connection that has been the player's, if the
\* question does not rest on a connection that a console has named.
LEMMA GivingOutKeepsIInv ==
  ASSUME IInv, NEW p \in Players, NEW stamped \in BOOLEAN, NEW c \in DOMAIN connections,
         stamped => p \in connections[c].players, GiveOut(p, stamped, c),
         connections' = connections, registered' = registered, probe' = << >>
  PROVE  IInv'
<1>1. PICK i \in DOMAIN connections[c].urls :
        given' = [player |-> p, stamped |-> stamped, from |-> c,
                  url |-> connections[c].urls[i]]
  BY DEF GiveOut
<1> DEFINE url == connections[c].urls[i]
<1>2. connections[c] \in Connection /\ c \in 1 .. MaxConnections
  BY StationsAssumption DEF IInv, TypeOK, StationsAssumption
<1>3. url \in StationURL
  <2>1. connections[c].urls \in Seq(StationURL)
    BY <1>2 DEF Connection
  <2>2. QED
    BY <1>1, <2>1, LenProperties
<1>4. url.pid \in connections[c].players /\ (url.stamped => url.cid = c)
  BY <1>1 DEF IInv, ConnectionsSound, Sound
<1> HIDE DEF url
<1>5. given' = [player |-> p, stamped |-> stamped, from |-> c, url |-> url]
  BY <1>1 DEF url
<1>6. /\ given' \in Answer /\ given'.url = url /\ given'.player = p
      /\ given'.from = c /\ given'.stamped = stamped
  BY <1>2, <1>3, <1>5 DEF Answer
<1>7. TypeOK'
  BY <1>6 DEF IInv, TypeOK
<1>8. ConnectionsSound'
  BY DEF IInv, ConnectionsSound, Sound
<1>9. GivenOutWasTheirs' /\ ProbeReachedTheirs'
  BY <1>4, <1>6 DEF GivenOutWasTheirs, ProbeReachedTheirs
<1>10. QED
  BY <1>7, <1>8, <1>9 DEF IInv

\* Whoever is asked about, by player or by an URL given out earlier, the answer
\* comes from a connection that has been that player's.
LEMMA AskingKeepsIInv ==
  ASSUME IInv, NEW a \in Addresses,
         \/ \E p \in Players : AskByPlayer(a, p)
         \/ given # << >> /\ AskByConnection(a, given.url)
  PROVE  IInv'
<1>1. \A p \in Players : \A c \in FindConnectionByPID(p) :
        c \in DOMAIN connections /\ p \in connections[c].players
  BY StationsAssumption
  DEF FindConnectionByPID, IInv, ConnectionsSound, Sound, StationsAssumption
<1>2. ASSUME NEW p \in Players, AskByPlayer(a, p) PROVE IInv'
  BY <1>1, <1>2, GivingOutKeepsIInv DEF AskByPlayer, NoProbe
<1>3. ASSUME given # << >>, AskByConnection(a, given.url) PROVE IInv'
  <2>1. PICK c \in Requested(given.url) : GiveOut(given.url.pid, given.url.stamped, c)
    BY <1>3 DEF AskByConnection
  <2>2. given.url.pid \in Players /\ given.url.stamped \in BOOLEAN
    BY <1>3 DEF IInv, TypeOK, Answer, StationURL
  <2>3. /\ c \in DOMAIN connections
        /\ given.url.stamped => given.url.pid \in connections[c].players
    <3>1. CASE FindConnectionByID(given.url.cid) # {}
      <4>1. c \in DOMAIN connections /\ c = given.url.cid
        BY <2>1, <3>1 DEF Requested, FindConnectionByID
      <4>2. QED
        BY <1>3, <4>1 DEF IInv, GivenOutWasTheirs
    <3>2. CASE FindConnectionByID(given.url.cid) = {}
      BY <1>1, <2>1, <2>2, <3>2 DEF Requested
    <3>3. QED
      BY <3>1, <3>2
  <2>4. QED
    BY <1>3, <2>1, <2>2, <2>3, GivingOutKeepsIInv DEF AskByConnection, NoProbe
<1>4. QED
  BY <1>2, <1>3

\* The connection a stamped URL names has been the player's it names.
LEMMA ProbingKeepsIInv ==
  ASSUME IInv, NEW a \in Addresses, NEW c,
         given # << >>, RequestProbeInitiation(a, c, given.url)
  PROVE  IInv'
<1>1. PICK d \in FindConnectionByID(given.url.cid) :
        probe' = [url |-> given.url, reached |-> d]
  BY DEF RequestProbeInitiation
<1>2. d \in DOMAIN connections /\ d = given.url.cid /\ d \in 1 .. MaxConnections
  BY <1>1, StationsAssumption DEF FindConnectionByID, IInv, TypeOK, StationsAssumption
<1>3. given.url.stamped => given.url.pid \in connections[d].players
  BY <1>2 DEF IInv, GivenOutWasTheirs
<1>4. given.url.stamped => connections[d].pid \in connections[d].players
  BY <1>2, <1>3 DEF IInv, ConnectionsSound, Sound
<1>5. connections' = connections /\ registered' = registered /\ given' = given
  BY DEF RequestProbeInitiation
<1>6. given.url \in StationURL
  BY DEF IInv, TypeOK, Answer
<1>7. probe' \in Probe /\ probe'.url = given.url /\ probe'.reached = d
  BY <1>1, <1>2, <1>6 DEF Probe
<1>8. TypeOK' /\ ProbeReachedTheirs'
  BY <1>2, <1>3, <1>4, <1>5, <1>7 DEF IInv, TypeOK, ProbeReachedTheirs
<1>9. QED
  BY <1>5, <1>8 DEF IInv, ConnectionsSound, Sound, GivenOutWasTheirs

\* Every step keeps the inductive invariant.
LEMMA NextKeepsIInv == IInv /\ [Next]_vars => IInv'
<1> SUFFICES ASSUME IInv, [Next]_vars PROVE IInv'
  OBVIOUS
<1>1. CASE Next
  <2>1. PICK a \in Addresses :
          \/ Syn(a) \/ CleanupConnection(a)
          \/ \E p \in Players : Connect(a, p) \/ AskByPlayer(a, p)
          \/ \E c \in DOMAIN connections : Registers(a, c)
          \/ /\ given # << >>
             /\ \/ AskByConnection(a, given.url)
                \/ \E c \in DOMAIN connections : RequestProbeInitiation(a, c, given.url)
    BY <1>1 DEF Next
  <2>2. CASE Syn(a) \/ CleanupConnection(a)
    BY <2>2, SynKeepsIInv, CleanupKeepsIInv
  <2>3. CASE \E p \in Players : Connect(a, p) \/ AskByPlayer(a, p)
    BY <2>3, ConnectKeepsIInv, AskingKeepsIInv
  <2>4. CASE \E c \in DOMAIN connections : Registers(a, c)
    <3>1. PICK c \in DOMAIN connections : Registers(a, c)
      BY <2>4
    <3>2. Requests(a, c) /\ RegisteredOver(c)
      BY <3>1, RegistersStations
    <3>3. QED
      BY <3>2, StationsRegistered
  <2>5. CASE given # << >> /\ AskByConnection(a, given.url)
    BY <2>5, AskingKeepsIInv
  <2>6. CASE /\ given # << >>
             /\ \E c \in DOMAIN connections : RequestProbeInitiation(a, c, given.url)
    BY <2>6, ProbingKeepsIInv
  <2>7. QED
    BY <2>1, <2>2, <2>3, <2>4, <2>5, <2>6
<1>2. CASE UNCHANGED vars
  BY <1>2 DEF vars, IInv, TypeOK, ConnectionsSound, Sound, GivenOutWasTheirs,
              ProbeReachedTheirs
<1>3. QED
  BY <1>1, <1>2

-----------------------------------------------------------------------------
(***************************************************************************)
(* The theorems.                                                           *)
(***************************************************************************)

\* The inductive invariant holds in every state that is reached.
THEOREM Invariance == Spec => []IInv
<1>1. Init => IInv
  BY InitHasIInv
<1>2. IInv /\ [Next]_vars => IInv'
  BY NextKeepsIInv
<1>3. QED
  BY <1>1, <1>2, PTL DEF Spec

\* Every connection, station, answer and probe is of its kind; the PID of a
\* connection over which a console registers stations has been set.
THEOREM TypeCorrectness == Spec => []TypeOK
<1>1. IInv => TypeOK
  BY DEF IInv
<1>2. QED
  BY <1>1, Invariance, PTL

\* The stations given out as a player's are that player's, wherever a console's
\* own naming of connections and a connection's change of hands play no part.
THEOREM PlayersAnswers == Spec => []AnswersAreThePlayers
<1>1. IInv => AnswersAreThePlayers
  BY DEF IInv, GivenOutWasTheirs, AnswersAreThePlayers, ChangedHands
<1>2. QED
  BY <1>1, Invariance, PTL

\* A probe reaches the player whose stamped station was given out, at any later
\* time, or a connection that has changed hands.
THEOREM PlayersProbes == Spec => []ProbesReachTheirPlayer
<1>1. IInv => ProbesReachTheirPlayer
  BY DEF IInv, ProbeReachedTheirs, ProbesReachTheirPlayer, ChangedHands
<1>2. QED
  BY <1>1, Invariance, PTL
=============================================================================
