------------------------------ MODULE Stations ------------------------------
(***************************************************************************)
(* Station URLs: the addresses under which the consoles find each other.   *)
(* A console registers its stations over its connection (registerEx,       *)
(* register, replaceURL and reportNATProperties of nex-protocols-common-go *)
(* and updateURLs); others ask for them, by player or by connection        *)
(* (getParticipantsURLs of both protocols, getSessionURLs,                 *)
(* requestConnectionData, requestURLs), and have the player behind such an *)
(* URL asked to send a probe (requestProbeInitiation, and its extended     *)
(* form).                                                                  *)
(*                                                                         *)
(* Connections are those of the secure endpoint, as in Presence, without   *)
(* their timers.  A console may ask about any player: which gathering the  *)
(* two are in is the business of Gatherings.                               *)
(*                                                                         *)
(* Two things that nothing in the code prevents are part of the model: a   *)
(* console may name any connection in a station that it puts in place of   *)
(* another, and an address may be taken over by another player's console,  *)
(* whose handshake then goes on with the connection that is there.  The    *)
(* histories players and stamped tell where they have happened.            *)
(***************************************************************************)
EXTENDS Integers, Sequences

CONSTANTS
  Players,          \* the PIDs
  Addresses,        \* socket addresses of consoles
  MayUse,           \* MayUse[a]: the players whose console may send from a
  OtherAddresses,   \* addresses no packet comes from: those of home networks
  Claims,           \* the lists of stations that consoles register
  Replacements,     \* the stations that consoles put in place of others
  MaxConnections,   \* bound of the model: connections made
  MaxStations       \* bound of the model: stations of a connection

\* A station as a console gives it; known: whether it knows its NAT's kind.
Claim == [public: BOOLEAN, known: BOOLEAN, address: Addresses \cup OtherAddresses]

ASSUME StationsAssumption ==
  /\ MayUse \in [Addresses -> SUBSET Players]
  /\ 0 \notin Players    \* the PID of a connection before its CONNECT
  /\ Addresses \cap OtherAddresses = {}
  /\ Claims \subseteq Seq(Claim)
  /\ Replacements \subseteq Claim
  /\ MaxConnections \in Nat /\ MaxStations \in Nat

VARIABLES
  connections,  \* all connections made, by ID
  registered,   \* PRUDPEndPoint.Connections: address to ID, 0 for none
  given,        \* history: one URL that has been given out, and the player asked
                \* about, or none; it may be any that ever was
  probe         \* the probe asked for in the latest step, or none

vars == <<connections, registered, given, probe>>

\* cid is the RVCID parameter, 0 when there is none; stamped (a history): it is
\* the server that has set it.
StationURL ==
  [pid: Players, cid: 0 .. MaxConnections, stamped: BOOLEAN, public: BOOLEAN,
   address: Addresses \cup OtherAddresses]

\* players (a history): those whose tickets have made it their connection.
Connection ==
  [address: Addresses, state: {"not connected", "connecting", "connected"},
   pid: Players \cup {0}, urls: Seq(StationURL), players: SUBSET Players]

\* player was asked about, by PID, or by a connection ID that was stamped or not;
\* the URL is one of the connection from.
Answer == [player: Players, stamped: BOOLEAN, from: 1 .. MaxConnections, url: StationURL]

\* The URL of the station that is to send the probe, and the connection reached.
Probe == [url: StationURL, reached: 1 .. MaxConnections]

TypeOK ==
  /\ \E n \in 0 .. MaxConnections : connections \in [1 .. n -> Connection]
  /\ registered \in [Addresses -> DOMAIN connections \cup {0}]
  /\ given \in Answer \cup {<< >>}
  /\ probe \in Probe \cup {<< >>}

-----------------------------------------------------------------------------
(***************************************************************************)
(* Connections.                                                            *)
(***************************************************************************)

NoProbe == probe' = << >>

\* FindConnectionByID: in whatever state it is.
FindConnectionByID(c) == {registered[a] : a \in Addresses} \cap {c} \cap DOMAIN connections

\* FindConnectionByPID: any of those in StateConnected.
FindConnectionByPID(p) ==
  {c \in {registered[a] : a \in Addresses} \cap DOMAIN connections :
     connections[c].pid = p /\ connections[c].state = "connected"}

\* Mutant of NextID: the number of connections that are registered, plus one.
NextFreeID ==
  CHOOSE c \in 1 .. (Len(connections) + 1) : \A a \in Addresses : registered[a] # c

NextID == Len(connections) + 1

\* handleSyn, on a new connection or a known one: Reset keeps PID and stations.
Syn(a) ==
  /\ IF registered[a] # 0
     THEN /\ connections' = [connections EXCEPT ![registered[a]].state = "connecting"]
          /\ UNCHANGED registered
     ELSE LET new == [address |-> a, state |-> "connecting", pid |-> 0, urls |-> << >>,
                      players |-> {}] IN
          /\ NextID <= MaxConnections
          /\ connections' = [c \in DOMAIN connections \cup {NextID} |->
               IF c = NextID THEN new ELSE connections[c]]
          /\ registered' = [registered EXCEPT ![a] = NextID]
  /\ NoProbe /\ UNCHANGED given

\* handleConnect with a ticket of p, whoever's the connection was.
Connect(a, p) ==
  LET c == registered[a] IN
  /\ p \in MayUse[a]
  /\ c # 0 /\ connections[c].state # "not connected"
  /\ connections' = [connections EXCEPT ![c].state = "connected", ![c].pid = p,
                                        ![c].players = @ \cup {p}]
  /\ NoProbe /\ UNCHANGED <<registered, given>>

\* CleanupConnection, from a timer or a DISCONNECT.  Nobody finds the connection
\* any more, and its stations go with it.
CleanupConnection(a) ==
  LET c == registered[a] IN
  /\ c # 0
  /\ registered' = [registered EXCEPT ![a] = 0]
  /\ connections' = [connections EXCEPT ![c].state = "not connected", ![c].urls = << >>]
  /\ NoProbe /\ UNCHANGED given

\* Mutant of Requests: a connection in handshake may ask, before it has a PID.
RequestsEarly(a, c) == c = registered[a] /\ c # 0

\* A request arrives over the connection c from a.
Requests(a, c) == c = registered[a] /\ c # 0 /\ connections[c].state = "connected"

-----------------------------------------------------------------------------
(***************************************************************************)
(* Registering.                                                            *)
(***************************************************************************)

\* SetPrincipalID and SetRVConnectionID.
Stamped(c, claim) ==
  [pid |-> connections[c].pid, cid |-> c, stamped |-> TRUE, public |-> claim.public,
   address |-> claim.address]

First(claims, S) == claims[CHOOSE i \in S : \A j \in S : i <= j]

\* The first station that is not public, or does not know its NAT, is the local
\* one; the first public one is the public one, and where there is none, it is the
\* local one at the address the packet came from.
Chosen(a, claims) ==
  LET local == First(claims, {i \in DOMAIN claims : ~claims[i].public \/ ~claims[i].known})
      publics == {i \in DOMAIN claims : claims[i].public}
  IN  <<local, IF publics # {} THEN First(claims, publics)
               ELSE [local EXCEPT !.public = TRUE, !.address = a]>>

\* registerEx, and register, which does the same without login data.
RegisterEx(a, c, claims) ==
  /\ Requests(a, c)
  /\ \E i \in DOMAIN claims : ~claims[i].public \/ ~claims[i].known
  /\ Len(connections[c].urls) + 2 <= MaxStations
  /\ connections' = [connections EXCEPT
       ![c].urls = @ \o [i \in 1 .. 2 |-> Stamped(c, Chosen(a, claims)[i])]]
  /\ NoProbe /\ UNCHANGED <<registered, given>>

\* Mutant of UpdateURLs: the connection ID is left as the console gave it.
UpdateURLsUnstamped(a, c, claims) ==
  /\ Requests(a, c)
  /\ Len(claims) <= MaxStations
  /\ \E cid \in DOMAIN connections :
       connections' = [connections EXCEPT ![c].urls =
         [i \in DOMAIN claims |->
            [Stamped(c, claims[i]) EXCEPT
               !.cid = cid, !.address = IF claims[i].public THEN a ELSE @]]]
  /\ NoProbe /\ UNCHANGED <<registered, given>>

\* updateURLs: a public station gets the address the packet came from.
UpdateURLs(a, c, claims) ==
  /\ Requests(a, c)
  /\ Len(claims) <= MaxStations
  /\ connections' = [connections EXCEPT ![c].urls =
       [i \in DOMAIN claims |->
          [Stamped(c, claims[i]) EXCEPT !.address = IF claims[i].public THEN a ELSE @]]]
  /\ NoProbe /\ UNCHANGED <<registered, given>>

\* replaceURL: every station at the address of old is replaced.  Only the PID is
\* set: the RVCID is none, or whatever the console gives.
ReplaceURL(a, c, old, claim) ==
  /\ Requests(a, c)
  /\ \E cid \in DOMAIN connections \cup {0} :
       connections' = [connections EXCEPT ![c].urls =
         [i \in DOMAIN @ |-> IF @[i].address = old
                             THEN [Stamped(c, claim) EXCEPT !.cid = cid, !.stamped = FALSE]
                             ELSE @[i]]]
  /\ NoProbe /\ UNCHANGED <<registered, given>>

\* reportNATProperties: the connection's stations are stamped anew.
ReportNATProperties(a, c) ==
  /\ Requests(a, c)
  /\ connections' = [connections EXCEPT ![c].urls =
       [i \in DOMAIN @ |->
          [@[i] EXCEPT !.pid = connections[c].pid, !.cid = c, !.stamped = TRUE]]]
  /\ NoProbe /\ UNCHANGED <<registered, given>>

-----------------------------------------------------------------------------
(***************************************************************************)
(* Asking and probing.                                                     *)
(***************************************************************************)

\* The URLs of connection c are given out; one of them is kept in mind.
GiveOut(p, stamped, c) ==
  \E i \in DOMAIN connections[c].urls :
    given' = [player |-> p, stamped |-> stamped, from |-> c, url |-> connections[c].urls[i]]

\* stationURLsOf for one participant, and getSessionURLs for the host.
AskByPlayer(a, p) ==
  /\ \E c \in DOMAIN connections : Requests(a, c)
  /\ \E c \in FindConnectionByPID(p) : GiveOut(p, TRUE, c)
  /\ NoProbe /\ UNCHANGED <<connections, registered>>

\* The connection an URL once given out names, or else one of the player it names.
Requested(url) ==
  IF FindConnectionByID(url.cid) # {} THEN FindConnectionByID(url.cid)
  ELSE FindConnectionByPID(url.pid)

\* requestConnectionData and requestURLs.
AskByConnection(a, url) ==
  /\ \E c \in DOMAIN connections : Requests(a, c)
  /\ \E c \in Requested(url) : GiveOut(url.pid, url.stamped, c)
  /\ NoProbe /\ UNCHANGED <<connections, registered>>

\* requestProbeInitiation for one of its targets: one without an RVCID, or whose
\* connection is gone, is skipped.
RequestProbeInitiation(a, c, url) ==
  /\ Requests(a, c)
  /\ \E d \in FindConnectionByID(url.cid) : probe' = [url |-> url, reached |-> d]
  /\ UNCHANGED <<connections, registered, given>>

-----------------------------------------------------------------------------
Init ==
  /\ connections = << >>
  /\ registered = [a \in Addresses |-> 0]
  /\ given = << >>
  /\ probe = << >>

Registers(a, c) ==
  \/ ReportNATProperties(a, c)
  \/ \E claims \in Claims : RegisterEx(a, c, claims) \/ UpdateURLs(a, c, claims)
  \/ \E claim \in Replacements, old \in Addresses \cup OtherAddresses :
       ReplaceURL(a, c, old, claim)

Next ==
  \E a \in Addresses :
    \/ Syn(a) \/ CleanupConnection(a)
    \/ \E p \in Players : Connect(a, p) \/ AskByPlayer(a, p)
    \/ \E c \in DOMAIN connections : Registers(a, c)
    \/ /\ given # << >>
       /\ \/ AskByConnection(a, given.url)
          \/ \E c \in DOMAIN connections : RequestProbeInitiation(a, c, given.url)

Spec == Init /\ [][Next]_vars

-----------------------------------------------------------------------------
\* Players have followed each other on one connection.
ChangedHands(c) == \E p, q \in connections[c].players : p # q

\* A player's stations are given out as that player's and no one else's, also
\* when connections have ended and been made again since they were registered
\* ("each console learns the others' addresses from it and connects directly").
\* It takes a connection that has changed hands, or a console that asks for one
\* named in a station that nobody stamped, to have it otherwise.
AnswersAreThePlayers ==
  given # << >> /\ given.stamped =>
    given.url.pid = given.player \/ ChangedHands(given.from)

\* A probe by way of a stamped station is asked of the player whose station was
\* given out, however long ago and whatever became of its connection, or of
\* nobody; but for a connection that has changed hands.
ProbesReachTheirPlayer ==
  probe # << >> /\ probe.url.stamped =>
    connections[probe.reached].pid = probe.url.pid \/ ChangedHands(probe.reached)
=============================================================================
