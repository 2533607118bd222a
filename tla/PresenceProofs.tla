---------------------------- MODULE PresenceProofs ----------------------------
(***************************************************************************)
(* Theorems about Presence, for every number of players, addresses,        *)
(* connections and stray timers.  Types are correct in any case; that      *)
(* seats are watched has the hypotheses that an address is used by one     *)
(* player's console only, and that no connection is torn down while it     *)
(* handles a request (the run `phantom` shows that the second is needed).  *)
(***************************************************************************)
EXTENDS Presence, FiniteSetTheorems, TLAPS

OneTenant == \A a \in Addresses : \A p, q \in MayUse[a] : p = q

-----------------------------------------------------------------------------
(***************************************************************************)
(* The inductive invariant.                                                *)
(***************************************************************************)

RegisteredByAddress ==
  \A a \in Addresses : registered[a] # 0 => connections[registered[a]].address = a

Armed(r) == r.heartbeat \/ r.kick

\* A connection's PID is its address's; it has one once it is connected, and then
\* its heartbeat has been started, as it has when any timer of it is armed.
Sound(r) ==
  /\ r.pid # 0 => r.pid \in MayUse[r.address]
  /\ r.state = "connected" => r.pid # 0 /\ r.started
  /\ Armed(r) \/ r.strayHeartbeats > 0 \/ r.strayKicks > 0 => r.started

ConnectionsSound == \A c \in DOMAIN connections : Sound(connections[c])

\* The connection whose handler may yet seat its player has a timer armed: it
\* neither gets a packet nor ends before the handler is done.
HandlersWatched ==
  \A c \in handling : Armed(connections[c]) /\ connections[c].pid # 0

IInv ==
  /\ TypeOK
  /\ RegisteredByAddress
  /\ ConnectionsSound
  /\ HandlersWatched
  /\ SeatsAreWatched

-----------------------------------------------------------------------------
\* The connections are numbered without gaps, and the next number is free.
LEMMA NextConnectionID ==
  ASSUME TypeOK
  PROVE  /\ Cardinality(DOMAIN connections) \in Nat
         /\ DOMAIN connections = 1 .. Cardinality(DOMAIN connections)
<1>1. PICK n \in 0 .. MaxConnections : connections \in [1 .. n -> Connection]
  BY DEF TypeOK
<1>2. n \in Nat /\ DOMAIN connections = 1 .. n
  BY <1>1, PresenceAssumption DEF PresenceAssumption
<1>3. Cardinality(1 .. n) = n
  BY <1>2, FS_Interval
<1>4. QED
  BY <1>2, <1>3

\* A step that gives connection c another record r keeps the invariant when r is
\* sound, keeps the PID, and stays watched: by a timer or by an end to report.
LEMMA ConnectionUpdated ==
  ASSUME IInv,
         NEW c \in DOMAIN connections, NEW r \in Connection,
         Sound(r), r.address = connections[c].address,
         connections[c].pid # 0 => r.pid = connections[c].pid,
         connections' = [connections EXCEPT ![c] = r],
         \/ registered' = registered
         \/ \E a \in Addresses : registered' = [registered EXCEPT ![a] = 0],
         handling' \subseteq handling \cup {c},
         c \in handling' => Armed(r) /\ r.pid # 0,
         ending' = ending \/ ending' = [ending EXCEPT ![c] = @ + 1],
         Armed(connections[c]) \/ connections[c].strayKicks > 0 =>
           Armed(r) \/ r.strayKicks > 0 \/ ending' = [ending EXCEPT ![c] = @ + 1],
         seated' = seated, silent' = silent
  PROVE  IInv'
<1> USE DEF IInv
<1>1. PICK n \in 0 .. MaxConnections : connections \in [1 .. n -> Connection]
  BY DEF TypeOK
<1>2. /\ c \in ConnectionIDs /\ DOMAIN connections \subseteq ConnectionIDs
      /\ connections[c] \in Connection
  BY <1>1, PresenceAssumption DEF ConnectionIDs, PresenceAssumption
<1>3. /\ DOMAIN connections' = DOMAIN connections /\ connections'[c] = r
      /\ \A d \in DOMAIN connections : d # c => connections'[d] = connections[d]
  OBVIOUS
<1>4. /\ ending' \in [ConnectionIDs -> Nat]
      /\ \A d \in ConnectionIDs : ending[d] > 0 => ending'[d] > 0
      /\ ending' = [ending EXCEPT ![c] = @ + 1] => ending'[c] > 0
  BY <1>2 DEF TypeOK
<1>5. TypeOK'
  <2>1. connections' \in [1 .. n -> Connection]
    BY <1>1
  <2>2. registered' \in [Addresses -> DOMAIN connections' \cup {0}]
    BY <1>3 DEF TypeOK
  <2>3. handling' \subseteq DOMAIN connections'
    BY <1>3 DEF TypeOK
  <2>4. QED
    BY <1>1, <1>4, <2>1, <2>2, <2>3 DEF TypeOK, ConnectionIDs
<1>6. RegisteredByAddress'
  <2> SUFFICES ASSUME NEW a \in Addresses, registered'[a] # 0
               PROVE  connections'[registered'[a]].address = a
    BY DEF RegisteredByAddress
  <2>1. registered'[a] = registered[a]
    BY DEF TypeOK
  <2>2. registered[a] \in DOMAIN connections /\ connections[registered[a]].address = a
    BY <2>1 DEF TypeOK, RegisteredByAddress
  <2>3. QED
    BY <1>3, <2>1, <2>2
<1>7. ConnectionsSound'
  BY <1>3 DEF ConnectionsSound, Sound, Armed
<1>8. HandlersWatched'
  BY <1>3 DEF HandlersWatched, Armed, TypeOK
<1>9. SeatsAreWatched'
  <2> SUFFICES ASSUME NEW p \in seated
               PROVE  \E d \in DOMAIN connections' :
                        connections'[d].pid = p /\ Watched(d)'
    BY DEF SeatsAreWatched
  <2>1. PICK d \in DOMAIN connections : connections[d].pid = p /\ Watched(d)
    BY DEF SeatsAreWatched
  <2>2. p # 0
    BY PresenceAssumption DEF TypeOK, PresenceAssumption
  <2>3. CASE d = c
    <3>1. r.pid = p
      BY <2>1, <2>2, <2>3
    <3>2. Watched(c)'
      BY <1>2, <1>3, <1>4, <2>1, <2>3 DEF Watched, Armed
    <3>3. QED
      BY <1>3, <3>1, <3>2
  <2>4. CASE d # c
    <3>1. Watched(d)'
      BY <1>2, <1>3, <1>4, <2>1, <2>4 DEF Watched
    <3>2. QED
      BY <1>3, <2>1, <2>4, <3>1
  <2>5. QED
    BY <2>3, <2>4
<1>10. QED
  BY <1>5, <1>6, <1>7, <1>8, <1>9

\* A packet finds its connection, which is not inside a handler, and resets its
\* timers: a connection that was watched by them still is.
LEMMA PacketFindsConnection ==
  ASSUME IInv, NEW a \in Addresses, Ready(a)
  PROVE  LET c == registered[a]
             r == ResetHeartbeat(connections[c])
         IN  /\ c \in DOMAIN connections /\ c \notin handling
             /\ connections[c] \in Connection /\ connections[c].address = a
             /\ Sound(connections[c])
             /\ r = [connections[c] EXCEPT !.kick = FALSE, !.heartbeat = connections[c].started]
             /\ r \in Connection
<1> DEFINE c == registered[a]
<1>1. c \in DOMAIN connections /\ c \notin handling
  BY DEF Ready, IInv, TypeOK
<1>2. connections[c] \in Connection
  BY <1>1 DEF IInv, TypeOK
<1>3. connections[c].address = a /\ Sound(connections[c])
  BY <1>1, PresenceAssumption DEF IInv, RegisteredByAddress, ConnectionsSound, Ready
<1>4. \A conn \in Connection :
        /\ ResetHeartbeat(conn) = [conn EXCEPT !.kick = FALSE, !.heartbeat = conn.started]
        /\ ResetHeartbeat(conn) \in Connection
  BY DEF ResetHeartbeat, Connection
<1>5. QED
  BY <1>1, <1>2, <1>3, <1>4

\* A SYN for a known connection.
LEMMA KnownSynKeepsIInv ==
  ASSUME IInv, NEW a \in Addresses, Ready(a),
         connections' = [connections EXCEPT
           ![registered[a]] = [ResetHeartbeat(@) EXCEPT !.state = "connecting"]],
         UNCHANGED <<registered, handling, ending, seated, silent>>
  PROVE  IInv'
<1> DEFINE c == registered[a]
           r == [ResetHeartbeat(connections[c]) EXCEPT !.state = "connecting"]
<1>1. /\ c \in DOMAIN connections /\ c \notin handling
      /\ connections[c] \in Connection /\ Sound(connections[c])
      /\ ResetHeartbeat(connections[c])
           = [connections[c] EXCEPT !.kick = FALSE, !.heartbeat = connections[c].started]
  BY PacketFindsConnection
<1>2. /\ r \in Connection /\ r.address = connections[c].address /\ r.pid = connections[c].pid
      /\ r.state = "connecting" /\ r.heartbeat = connections[c].started /\ r.kick = FALSE
      /\ r.started = connections[c].started
      /\ r.strayKicks = connections[c].strayKicks
      /\ r.strayHeartbeats = connections[c].strayHeartbeats
  BY <1>1 DEF Connection
<1>3. Sound(r)
  BY <1>1, <1>2 DEF Sound, Armed
<1>4. Armed(connections[c]) => Armed(r)
  BY <1>1, <1>2 DEF Sound, Armed
<1>5. connections' = [connections EXCEPT ![c] = r]
  OBVIOUS
<1> HIDE DEF c, r
<1>6. QED
  BY <1>1, <1>2, <1>3, <1>4, <1>5, ConnectionUpdated

\* A SYN from an address with no connection.
LEMMA NewSynKeepsIInv ==
  ASSUME IInv, NEW a \in Addresses, registered[a] = 0, Syn(a)
  PROVE  IInv'
<1> DEFINE id == Cardinality(DOMAIN connections) + 1
           new == [address |-> a, state |-> "connecting", pid |-> 0, started |-> FALSE,
                   heartbeat |-> FALSE, kick |-> FALSE,
                   strayHeartbeats |-> 0, strayKicks |-> 0]
<1> USE DEF IInv
<1>1. /\ id <= MaxConnections
      /\ connections' = [d \in 1 .. id |-> IF d = id THEN new ELSE connections[d]]
      /\ registered' = [registered EXCEPT ![a] = id]
      /\ UNCHANGED <<handling, ending, seated, silent>>
  BY DEF Syn, Ready
<1>2. id \in Nat \ {0} /\ DOMAIN connections = 1 .. id - 1 /\ MaxConnections \in Nat
  BY NextConnectionID, PresenceAssumption DEF PresenceAssumption
<1>3. new \in Connection /\ new.address = a /\ Sound(new)
  BY PresenceAssumption DEF Connection, Sound, Armed, PresenceAssumption
<1> HIDE DEF id, new
<1>4. /\ DOMAIN connections' = DOMAIN connections \cup {id} /\ id \notin DOMAIN connections
      /\ connections'[id] = new
      /\ \A d \in DOMAIN connections : connections'[d] = connections[d]
  BY <1>1, <1>2
<1>5. TypeOK'
  <2>1. connections' \in [1 .. id -> Connection]
    BY <1>1, <1>2, <1>3 DEF TypeOK
  <2>2. registered' \in [Addresses -> DOMAIN connections' \cup {0}]
    BY <1>1, <1>4 DEF TypeOK
  <2>3. handling' \subseteq DOMAIN connections'
    BY <1>1, <1>4 DEF TypeOK
  <2>4. id \in 0 .. MaxConnections
    BY <1>1, <1>2
  <2>5. QED
    BY <1>1, <2>1, <2>2, <2>3, <2>4 DEF TypeOK, ConnectionIDs
<1>6. RegisteredByAddress'
  BY <1>1, <1>3, <1>4 DEF TypeOK, RegisteredByAddress
<1>7. ConnectionsSound'
  BY <1>3, <1>4 DEF ConnectionsSound
<1>8. HandlersWatched'
  BY <1>1, <1>4 DEF HandlersWatched, TypeOK
<1>9. SeatsAreWatched'
  <2> SUFFICES ASSUME NEW p \in seated
               PROVE  \E d \in DOMAIN connections' :
                        connections'[d].pid = p /\ Watched(d)'
    BY <1>1 DEF SeatsAreWatched
  <2>1. PICK d \in DOMAIN connections : connections[d].pid = p /\ Watched(d)
    BY DEF SeatsAreWatched
  <2>2. Watched(d)'
    BY <1>1, <1>4, <2>1 DEF Watched
  <2>3. QED
    BY <1>4, <2>1, <2>2
<1>10. QED
  BY <1>5, <1>6, <1>7, <1>8, <1>9

\* A CONNECT starts the heartbeat, and sets the PID to the one the connection had
\* if it had one: the address is that player's.
LEMMA ConnectKeepsIInv ==
  ASSUME OneTenant, IInv, NEW a \in Addresses, NEW p \in Players, p \in MayUse[a],
         Connect(a, p)
  PROVE  IInv'
<1> DEFINE c == registered[a]
           conn == connections[c]
           reset == ResetHeartbeat(conn)
           r == [StartHeartbeat(reset) EXCEPT !.state = "connected", !.pid = p]
<1>1. /\ c \in DOMAIN connections /\ c \notin handling
      /\ conn \in Connection /\ Sound(conn) /\ conn.address = a
      /\ reset = [conn EXCEPT !.kick = FALSE, !.heartbeat = conn.started]
      /\ reset \in Connection
  BY PacketFindsConnection DEF Connect
<1>2. conn.started => conn.strayHeartbeats < MaxStrays
  BY DEF Connect
<1>3. MaxStrays \in Nat /\ p # 0
  BY PresenceAssumption DEF PresenceAssumption
<1>4. connections' = [connections EXCEPT ![c] = r]
      /\ UNCHANGED <<registered, handling, ending, seated, silent>>
  BY DEF Connect
<1> HIDE DEF c, conn
<1>5. /\ reset.heartbeat = conn.started /\ reset.strayHeartbeats = conn.strayHeartbeats
      /\ reset.address = a /\ reset.strayKicks = conn.strayKicks
  BY <1>1 DEF Connection
<1> HIDE DEF reset
<1>6. /\ r \in Connection /\ r.address = a /\ r.pid = p /\ r.state = "connected"
      /\ r.started = TRUE /\ r.heartbeat = TRUE
  <2> DEFINE k == IF reset.heartbeat THEN reset.strayHeartbeats + 1 ELSE reset.strayHeartbeats
  <2>1. reset.strayHeartbeats \in 0 .. MaxStrays
    BY <1>1 DEF Connection
  <2>2. k \in 0 .. MaxStrays
    BY <1>2, <1>3, <1>5, <2>1
  <2>3. r = [reset EXCEPT !.started = TRUE, !.heartbeat = TRUE, !.strayHeartbeats = k,
                          !.state = "connected", !.pid = p]
    BY <1>1 DEF StartHeartbeat, Connection
  <2> HIDE DEF k, r
  <2>4. QED
    BY <1>1, <1>5, <2>2, <2>3 DEF Connection
<1>7. Sound(r) /\ Armed(r)
  BY <1>3, <1>6 DEF Sound, Armed
<1>8. conn.pid # 0 => r.pid = conn.pid
  BY <1>1, <1>6 DEF OneTenant, Sound
<1> HIDE DEF r
<1>9. QED
  BY <1>1, <1>4, <1>6, <1>7, <1>8, ConnectionUpdated DEF conn

\* Any other packet, with or without a request in it.
LEMMA PacketKeepsIInv ==
  ASSUME IInv, NEW a \in Addresses, Heard(a) \/ BeginRequest(a)
  PROVE  IInv'
<1> DEFINE c == registered[a]
           r == ResetHeartbeat(connections[c])
<1>1. Ready(a)
  BY DEF Heard, BeginRequest
<1>2. /\ c \in DOMAIN connections /\ c \notin handling
      /\ connections[c] \in Connection /\ Sound(connections[c])
      /\ r = [connections[c] EXCEPT !.kick = FALSE, !.heartbeat = connections[c].started]
      /\ r \in Connection
  BY <1>1, PacketFindsConnection
<1>3. /\ r.address = connections[c].address /\ r.pid = connections[c].pid
      /\ r.state = connections[c].state /\ r.heartbeat = connections[c].started
      /\ r.kick = FALSE /\ r.started = connections[c].started
      /\ r.strayKicks = connections[c].strayKicks
      /\ r.strayHeartbeats = connections[c].strayHeartbeats
  BY <1>2 DEF Connection
<1>4. Sound(r)
  BY <1>2, <1>3 DEF Sound, Armed
<1>5. Armed(connections[c]) => Armed(r)
  BY <1>2, <1>3 DEF Sound, Armed
<1>6. /\ connections' = [connections EXCEPT ![c] = r]
      /\ UNCHANGED <<registered, ending, seated, silent>>
      /\ \/ handling' = handling
         \/ handling' = handling \cup {c} /\ connections[c].state = "connected"
  BY DEF Heard, BeginRequest
<1>7. c \in handling' => Armed(r) /\ r.pid # 0
  BY <1>2, <1>3, <1>6 DEF Sound, Armed
<1> HIDE DEF c, r
<1>8. QED
  BY <1>2, <1>3, <1>4, <1>5, <1>6, <1>7, ConnectionUpdated

\* A connection that is torn down has its end to report from then on.
LEMMA CleanupKeepsIInv ==
  ASSUME HandlersFinish = TRUE, IInv, NEW c \in DOMAIN connections,
         NEW conn \in Connection, Sound(conn), conn.address = connections[c].address,
         conn.pid = connections[c].pid, CleanupConnection(c, conn)
  PROVE  IInv'
<1> DEFINE r == [conn EXCEPT !.state = "not connected", !.heartbeat = FALSE, !.kick = FALSE]
<1>1. /\ r \in Connection /\ r.address = conn.address /\ r.pid = conn.pid
      /\ r.state = "not connected" /\ r.heartbeat = FALSE /\ r.kick = FALSE
      /\ r.started = conn.started
      /\ r.strayKicks = conn.strayKicks /\ r.strayHeartbeats = conn.strayHeartbeats
  BY DEF Connection
<1>2. Sound(r)
  BY <1>1 DEF Sound, Armed
<1>3. /\ c \notin handling
      /\ connections' = [connections EXCEPT ![c] = r]
      /\ registered' = [registered EXCEPT ![conn.address] = 0]
      /\ ending' = [ending EXCEPT ![c] = @ + 1]
      /\ UNCHANGED <<handling, seated, silent>>
  BY DEF CleanupConnection
<1>4. conn.address \in Addresses
  BY DEF Connection
<1> HIDE DEF r
<1>5. QED
  BY <1>1, <1>2, <1>3, <1>4, ConnectionUpdated

\* A timer that is fired leaves the kick timer armed.
LEMMA FireKeepsIInv ==
  ASSUME IInv, NEW c \in DOMAIN connections, NEW conn \in Connection,
         conn.started, conn.pid # 0 => conn.pid \in MayUse[conn.address],
         conn.state = connections[c].state,
         conn.address = connections[c].address, conn.pid = connections[c].pid,
         Fire(c, conn)
  PROVE  IInv'
<1> DEFINE r == [conn EXCEPT !.kick = TRUE, !.strayKicks = IF conn.kick THEN @ + 1 ELSE @]
<1>1. conn.kick => conn.strayKicks < MaxStrays
  BY DEF Fire
<1>2. /\ r \in Connection /\ r.address = conn.address /\ r.pid = conn.pid
      /\ r.state = conn.state /\ r.kick = TRUE /\ r.started = conn.started
  <2> DEFINE k == IF conn.kick THEN conn.strayKicks + 1 ELSE conn.strayKicks
  <2>1. conn.strayKicks \in 0 .. MaxStrays /\ MaxStrays \in Nat
    BY PresenceAssumption DEF Connection, PresenceAssumption
  <2>2. k \in 0 .. MaxStrays
    BY <1>1, <2>1
  <2>3. r = [conn EXCEPT !.kick = TRUE, !.strayKicks = k]
    OBVIOUS
  <2> HIDE DEF k, r
  <2>4. QED
    BY <2>2, <2>3 DEF Connection
<1>3. connections[c].state = "connected" => connections[c].pid # 0
  BY DEF IInv, ConnectionsSound, Sound
<1>4. Sound(r) /\ Armed(r)
  BY <1>2, <1>3 DEF Sound, Armed
<1>5. connections' = [connections EXCEPT ![c] = r]
      /\ UNCHANGED <<registered, handling, ending, seated, silent>>
  BY DEF Fire
<1>6. c \in handling => r.pid # 0
  BY <1>2 DEF IInv, HandlersWatched
<1> HIDE DEF r
<1>7. QED
  BY <1>2, <1>4, <1>5, <1>6, ConnectionUpdated

\* A timer that goes off, in its turn or astray.
LEMMA TimerKeepsIInv ==
  ASSUME HandlersFinish = TRUE, IInv, NEW c \in DOMAIN connections,
         \/ HeartbeatFires(c) \/ StrayHeartbeatFires(c)
         \/ KickFires(c) \/ StrayKickFires(c) \/ GiveUp(c)
  PROVE  IInv'
<1> DEFINE conn == connections[c]
           early == [conn EXCEPT !.heartbeat = FALSE]
           late == [conn EXCEPT !.strayHeartbeats = @ - 1]
           kicked == [conn EXCEPT !.strayKicks = @ - 1]
<1>1. conn \in Connection /\ Sound(conn)
  BY DEF IInv, TypeOK, ConnectionsSound
<1>2. CASE KickFires(c) \/ GiveUp(c)
  BY <1>1, <1>2, CleanupKeepsIInv DEF KickFires, GiveUp
<1>3. CASE HeartbeatFires(c)
  <2>1. /\ early \in Connection /\ early.started /\ early.state = conn.state
        /\ early.address = conn.address /\ early.pid = conn.pid
    BY <1>1, <1>3 DEF Connection, HeartbeatFires, Sound, Armed
  <2>2. Fire(c, early)
    BY <1>3 DEF HeartbeatFires
  <2> HIDE DEF early
  <2>3. QED
    BY <1>1, <2>1, <2>2, FireKeepsIInv DEF Sound
<1>4. CASE StrayHeartbeatFires(c)
  <2>1. /\ late \in Connection /\ late.started /\ late.state = conn.state
        /\ late.address = conn.address /\ late.pid = conn.pid
    <3> DEFINE k == conn.strayHeartbeats - 1
    <3>1. conn.strayHeartbeats \in 0 .. MaxStrays /\ conn.strayHeartbeats > 0 /\ MaxStrays \in Nat
      BY <1>1, <1>4, PresenceAssumption DEF Connection, StrayHeartbeatFires, PresenceAssumption
    <3>2. k \in 0 .. MaxStrays /\ conn.started
      BY <1>1, <3>1 DEF Sound
    <3>3. late = [conn EXCEPT !.strayHeartbeats = k]
      OBVIOUS
    <3> HIDE DEF k, conn, late
    <3>4. QED
      BY <1>1, <3>2, <3>3 DEF Connection
  <2>2. Fire(c, late)
    BY <1>4 DEF StrayHeartbeatFires
  <2> HIDE DEF late
  <2>3. QED
    BY <1>1, <2>1, <2>2, FireKeepsIInv DEF Sound
<1>5. CASE StrayKickFires(c)
  <2>1. /\ kicked \in Connection /\ kicked.started /\ kicked.state = conn.state
        /\ kicked.address = conn.address /\ kicked.pid = conn.pid
    <3> DEFINE k == conn.strayKicks - 1
    <3>1. conn.strayKicks \in 0 .. MaxStrays /\ conn.strayKicks > 0 /\ MaxStrays \in Nat
      BY <1>1, <1>5, PresenceAssumption DEF Connection, StrayKickFires, PresenceAssumption
    <3>2. k \in 0 .. MaxStrays /\ conn.started
      BY <1>1, <3>1 DEF Sound
    <3>3. kicked = [conn EXCEPT !.strayKicks = k]
      OBVIOUS
    <3> HIDE DEF k, conn, kicked
    <3>4. QED
      BY <1>1, <3>2, <3>3 DEF Connection
  <2>2. Sound(kicked)
    BY <1>1, <2>1 DEF Sound
  <2>3. CleanupConnection(c, kicked)
    BY <1>5 DEF StrayKickFires
  <2> HIDE DEF kicked
  <2>4. QED
    BY <2>1, <2>2, <2>3, CleanupKeepsIInv
<1>6. QED
  BY <1>2, <1>3, <1>4, <1>5

\* A request seats its player at most, whose connection is watched.
LEMMA FinishKeepsIInv ==
  ASSUME IInv, NEW c \in DOMAIN connections, FinishRequest(c)
  PROVE  IInv'
<1> USE DEF IInv
<1>1. /\ c \in handling /\ handling' = handling \ {c}
      /\ seated' \subseteq seated \cup {connections[c].pid}
      /\ UNCHANGED <<connections, registered, ending, silent>>
  BY DEF FinishRequest
<1>2. /\ connections[c].pid \in Players /\ Watched(c)
  <2>1. connections[c] \in Connection
    BY DEF TypeOK
  <2>2. QED
    BY <1>1, <2>1 DEF HandlersWatched, Armed, Watched, Connection
<1>3. TypeOK'
  BY <1>1, <1>2 DEF TypeOK
<1>4. RegisteredByAddress' /\ ConnectionsSound' /\ HandlersWatched'
  BY <1>1 DEF RegisteredByAddress, ConnectionsSound, HandlersWatched
<1>5. SeatsAreWatched'
  BY <1>1, <1>2 DEF SeatsAreWatched, Watched
<1>6. QED
  BY <1>3, <1>4, <1>5

\* The end that is reported takes the seat along: the other seats are watched by
\* other connections.
LEMMA EndedKeepsIInv ==
  ASSUME IInv, NEW c \in DOMAIN connections, ConnectionEnded(c)
  PROVE  IInv'
<1> USE DEF IInv
<1>1. /\ ending[c] > 0 /\ ending' = [ending EXCEPT ![c] = @ - 1]
      /\ seated' = seated \ {connections[c].pid}
      /\ UNCHANGED <<connections, registered, handling, silent>>
  BY DEF ConnectionEnded
<1>2. c \in ConnectionIDs
  BY PresenceAssumption DEF TypeOK, ConnectionIDs, PresenceAssumption
<1>3. ending' \in [ConnectionIDs -> Nat] /\ \A d \in ConnectionIDs : d # c => ending'[d] = ending[d]
  BY <1>1, <1>2 DEF TypeOK
<1>4. TypeOK'
  BY <1>1, <1>3 DEF TypeOK
<1>5. RegisteredByAddress' /\ ConnectionsSound' /\ HandlersWatched'
  BY <1>1 DEF RegisteredByAddress, ConnectionsSound, HandlersWatched
<1>6. SeatsAreWatched'
  <2> SUFFICES ASSUME NEW p \in seated, p # connections[c].pid
               PROVE  \E d \in DOMAIN connections :
                        connections[d].pid = p /\ Watched(d)'
    BY <1>1 DEF SeatsAreWatched
  <2>1. PICK d \in DOMAIN connections : connections[d].pid = p /\ Watched(d)
    BY DEF SeatsAreWatched
  <2>2. d # c /\ d \in ConnectionIDs
    BY <2>1, PresenceAssumption DEF TypeOK, ConnectionIDs, PresenceAssumption
  <2>3. QED
    BY <1>1, <1>3, <2>1, <2>2 DEF Watched
<1>7. QED
  BY <1>4, <1>5, <1>6

\* Every step keeps the inductive invariant.
LEMMA NextKeepsIInv ==
  ASSUME OneTenant, HandlersFinish = TRUE
  PROVE  IInv /\ [Next]_vars => IInv'
<1> SUFFICES ASSUME IInv, [Next]_vars PROVE IInv'
  OBVIOUS
<1>1. CASE UNCHANGED <<connections, registered, handling, ending, seated>>
           /\ silent' \subseteq Players
  BY <1>1 DEF IInv, TypeOK, RegisteredByAddress, ConnectionsSound, HandlersWatched,
              SeatsAreWatched, Watched
<1>2. ASSUME NEW p \in Players, PowerLoss(p) PROVE IInv'
  BY <1>1, <1>2 DEF PowerLoss, IInv, TypeOK
<1>3. ASSUME NEW p \in Players, NEW a \in Addresses, PacketFrom(p, a) PROVE IInv'
  <2>1. p \in MayUse[a]
    BY <1>3 DEF PacketFrom
  <2>2. CASE Syn(a)
    <3>1. CASE registered[a] = 0
      BY <2>2, <3>1, NewSynKeepsIInv
    <3>2. CASE registered[a] # 0
      BY <2>2, <3>2, KnownSynKeepsIInv DEF Syn
    <3>3. QED
      BY <3>1, <3>2
  <2>3. CASE Disconnect(a)
    <3> DEFINE c == registered[a]
    <3>1. Ready(a) /\ CleanupConnection(c, connections[c])
      BY <2>3 DEF Disconnect
    <3>2. /\ c \in DOMAIN connections /\ connections[c] \in Connection
          /\ Sound(connections[c])
      BY <3>1, PacketFindsConnection
    <3> HIDE DEF c
    <3>3. QED
      BY <3>1, <3>2, CleanupKeepsIInv
  <2>4. QED
    BY <1>3, <2>1, <2>2, <2>3, ConnectKeepsIInv, PacketKeepsIInv DEF PacketFrom
<1>4. ASSUME NEW c \in DOMAIN connections,
             \/ FinishRequest(c) \/ GiveUp(c) \/ ConnectionEnded(c)
             \/ HeartbeatFires(c) \/ StrayHeartbeatFires(c)
             \/ KickFires(c) \/ StrayKickFires(c)
      PROVE  IInv'
  BY <1>4, FinishKeepsIInv, EndedKeepsIInv, TimerKeepsIInv
<1>5. CASE UNCHANGED vars
  BY <1>1, <1>5 DEF vars, IInv, TypeOK
<1>6. QED
  BY <1>2, <1>3, <1>4, <1>5 DEF Next

\* It holds when there are no connections.
LEMMA InitHasIInv == Init => IInv
<1> SUFFICES ASSUME Init PROVE IInv
  OBVIOUS
<1>1. MaxConnections \in Nat /\ connections \in [1 .. 0 -> Connection]
      /\ DOMAIN connections = {}
  BY PresenceAssumption DEF Init, PresenceAssumption
<1>2. TypeOK
  BY <1>1 DEF Init, TypeOK
<1>3. RegisteredByAddress /\ ConnectionsSound /\ HandlersWatched /\ SeatsAreWatched
  BY <1>1 DEF Init, RegisteredByAddress, ConnectionsSound, HandlersWatched, SeatsAreWatched
<1>4. QED
  BY <1>2, <1>3 DEF IInv

-----------------------------------------------------------------------------
(***************************************************************************)
(* Type correctness needs neither hypothesis: a seat is taken only by a    *)
(* handler, and only over a connection that has a PID, which may change    *)
(* but never becomes 0 again.                                              *)
(***************************************************************************)

HandlersHavePIDs == \A c \in handling : connections[c].pid # 0

TypeInv == TypeOK /\ HandlersHavePIDs

\* A step that gives connection c another record, which does not lose its PID,
\* keeps the types.
LEMMA RecordUpdated ==
  ASSUME TypeInv, NEW c \in DOMAIN connections, NEW r \in Connection,
         connections' = [connections EXCEPT ![c] = r],
         \/ registered' = registered
         \/ \E a \in Addresses : registered' = [registered EXCEPT ![a] = 0],
         handling' \subseteq handling \cup {c}, c \in handling' => r.pid # 0,
         ending' = ending \/ ending' = [ending EXCEPT ![c] = @ + 1],
         seated' = seated, silent' = silent
  PROVE  TypeInv'
<1> USE DEF TypeInv
<1>1. PICK n \in 0 .. MaxConnections : connections \in [1 .. n -> Connection]
  BY DEF TypeOK
<1>2. c \in ConnectionIDs
  BY <1>1, PresenceAssumption DEF ConnectionIDs, PresenceAssumption
<1>3. /\ DOMAIN connections' = DOMAIN connections /\ connections'[c] = r
      /\ \A d \in DOMAIN connections : d # c => connections'[d] = connections[d]
  OBVIOUS
<1>4. connections' \in [1 .. n -> Connection]
  BY <1>1
<1>5. registered' \in [Addresses -> DOMAIN connections' \cup {0}]
  BY <1>3 DEF TypeOK
<1>6. handling' \subseteq DOMAIN connections'
  BY <1>3 DEF TypeOK
<1>7. ending' \in [ConnectionIDs -> Nat]
  BY <1>2 DEF TypeOK
<1>8. TypeOK'
  BY <1>4, <1>5, <1>6, <1>7 DEF TypeOK, ConnectionIDs
<1>9. HandlersHavePIDs'
  BY <1>3 DEF HandlersHavePIDs, TypeOK
<1>10. QED
  BY <1>8, <1>9

\* A packet finds its connection; resetting its timers leaves its PID alone.
LEMMA ResetRecord ==
  ASSUME TypeInv, NEW a \in Addresses, Ready(a)
  PROVE  /\ registered[a] \in DOMAIN connections \ handling
         /\ connections[registered[a]] \in Connection
         /\ ResetHeartbeat(connections[registered[a]]) \in Connection
         /\ ResetHeartbeat(connections[registered[a]]).pid = connections[registered[a]].pid
<1>1. registered[a] \in DOMAIN connections \ handling
  BY DEF TypeInv, TypeOK, Ready
<1>2. connections[registered[a]] \in Connection
  BY <1>1 DEF TypeInv, TypeOK
<1>3. QED
  BY <1>1, <1>2 DEF ResetHeartbeat, Connection

\* A SYN, from an address that has a connection or has none.
LEMMA SynKeepsTypes ==
  ASSUME TypeInv, NEW a \in Addresses, Syn(a)
  PROVE  TypeInv'
<1>1. CASE registered[a] # 0
  <2> DEFINE c == registered[a]
             r == [ResetHeartbeat(connections[c]) EXCEPT !.state = "connecting"]
  <2>1. c \in DOMAIN connections \ handling /\ ResetHeartbeat(connections[c]) \in Connection
    BY <1>1, ResetRecord DEF Syn
  <2>2. r \in Connection
    BY <2>1 DEF Connection
  <2>3. /\ connections' = [connections EXCEPT ![c] = r]
        /\ UNCHANGED <<registered, handling, ending, seated, silent>>
    BY <1>1 DEF Syn
  <2> HIDE DEF c, r
  <2>4. QED
    BY <2>1, <2>2, <2>3, RecordUpdated
<1>2. CASE registered[a] = 0
  <2> DEFINE id == Cardinality(DOMAIN connections) + 1
             new == [address |-> a, state |-> "connecting", pid |-> 0, started |-> FALSE,
                     heartbeat |-> FALSE, kick |-> FALSE,
                     strayHeartbeats |-> 0, strayKicks |-> 0]
  <2>1. /\ id <= MaxConnections
        /\ connections' = [d \in 1 .. id |-> IF d = id THEN new ELSE connections[d]]
        /\ registered' = [registered EXCEPT ![a] = id]
        /\ UNCHANGED <<handling, ending, seated, silent>>
    BY <1>2 DEF Syn, Ready
  <2>2. id \in Nat \ {0} /\ DOMAIN connections = 1 .. id - 1 /\ MaxConnections \in Nat
    BY NextConnectionID, PresenceAssumption DEF TypeInv, PresenceAssumption
  <2>3. new \in Connection
    BY PresenceAssumption DEF Connection, PresenceAssumption
  <2> HIDE DEF id, new
  <2>4. /\ DOMAIN connections' = DOMAIN connections \cup {id} /\ id \notin DOMAIN connections
        /\ \A d \in DOMAIN connections : connections'[d] = connections[d]
    BY <2>1, <2>2
  <2>5. connections' \in [1 .. id -> Connection] /\ id \in 0 .. MaxConnections
    BY <2>1, <2>2, <2>3 DEF TypeInv, TypeOK
  <2>6. registered' \in [Addresses -> DOMAIN connections' \cup {0}]
    BY <2>1, <2>4 DEF TypeInv, TypeOK
  <2>7. QED
    BY <2>1, <2>4, <2>5, <2>6 DEF TypeInv, TypeOK, ConnectionIDs, HandlersHavePIDs
<1>3. QED
  BY <1>1, <1>2

\* A CONNECT: a heartbeat that is armed becomes a stray one, if there is room.
LEMMA ConnectKeepsTypes ==
  ASSUME TypeInv, NEW a \in Addresses, NEW p \in Players, Connect(a, p)
  PROVE  TypeInv'
<1> DEFINE c == registered[a]
           conn == connections[c]
           reset == ResetHeartbeat(conn)
           k == IF reset.heartbeat THEN reset.strayHeartbeats + 1 ELSE reset.strayHeartbeats
           r == [reset EXCEPT !.started = TRUE, !.heartbeat = TRUE, !.strayHeartbeats = k,
                              !.state = "connected", !.pid = p]
<1>1. c \in DOMAIN connections \ handling /\ conn \in Connection /\ reset \in Connection
  BY ResetRecord DEF Connect
<1>2. conn.started => conn.strayHeartbeats < MaxStrays
  BY DEF Connect
<1>3. reset.heartbeat = conn.started /\ reset.strayHeartbeats = conn.strayHeartbeats
  BY <1>1 DEF Connection, ResetHeartbeat
<1>4. connections' = [connections EXCEPT
        ![c] = [StartHeartbeat(reset) EXCEPT !.state = "connected", !.pid = p]]
      /\ UNCHANGED <<registered, handling, ending, seated, silent>>
  BY DEF Connect
<1> HIDE DEF c, conn, reset
<1>5. [StartHeartbeat(reset) EXCEPT !.state = "connected", !.pid = p] = r
  BY <1>1 DEF StartHeartbeat, Connection
<1>6. k \in 0 .. MaxStrays
  <2>1. reset.strayHeartbeats \in 0 .. MaxStrays /\ MaxStrays \in Nat
    BY <1>1, PresenceAssumption DEF Connection, PresenceAssumption
  <2>2. QED
    BY <1>2, <1>3, <2>1
<1> HIDE DEF k
<1>7. r \in Connection
  BY <1>1, <1>6 DEF Connection
<1> HIDE DEF r
<1>8. QED
  BY <1>1, <1>4, <1>5, <1>7, RecordUpdated

\* Any other packet; a handler begins over a connection that has the player's PID.
LEMMA PacketKeepsTypes ==
  ASSUME TypeInv, NEW a \in Addresses, NEW p \in Players,
         Heard(a) \/ (BeginRequest(a) /\ connections[registered[a]].pid = p)
  PROVE  TypeInv'
<1> DEFINE c == registered[a]
           r == ResetHeartbeat(connections[c])
<1>1. c \in DOMAIN connections \ handling /\ r \in Connection /\ r.pid = connections[c].pid
  BY ResetRecord DEF Heard, BeginRequest
<1>2. /\ connections' = [connections EXCEPT ![c] = r]
      /\ UNCHANGED <<registered, ending, seated, silent>>
      /\ \/ handling' = handling
         \/ handling' = handling \cup {c} /\ connections[c].pid = p
  BY DEF Heard, BeginRequest
<1>3. p # 0
  BY PresenceAssumption DEF PresenceAssumption
<1> HIDE DEF c, r
<1>4. QED
  BY <1>1, <1>2, <1>3, RecordUpdated

\* A connection is torn down, in a handler or not, as it is or with a stray timer
\* spent.
LEMMA CleanupKeepsTypes ==
  ASSUME TypeInv, NEW c \in DOMAIN connections, NEW conn \in Connection,
         conn.pid = connections[c].pid, CleanupConnection(c, conn)
  PROVE  TypeInv'
<1> DEFINE r == [conn EXCEPT !.state = "not connected", !.heartbeat = FALSE, !.kick = FALSE]
<1>1. r \in Connection /\ r.pid = conn.pid /\ conn.address \in Addresses
  BY DEF Connection
<1>2. c \in handling => r.pid # 0
  BY <1>1 DEF TypeInv, HandlersHavePIDs
<1>3. /\ connections' = [connections EXCEPT ![c] = r]
      /\ registered' = [registered EXCEPT ![conn.address] = 0]
      /\ ending' = [ending EXCEPT ![c] = @ + 1]
      /\ UNCHANGED <<handling, seated, silent>>
  BY DEF CleanupConnection
<1> HIDE DEF r
<1>4. QED
  BY <1>1, <1>2, <1>3, RecordUpdated

\* A timer that is fired sets the kick timer, if there is room for a stray one.
LEMMA FireKeepsTypes ==
  ASSUME TypeInv, NEW c \in DOMAIN connections, NEW conn \in Connection,
         conn.pid = connections[c].pid, Fire(c, conn)
  PROVE  TypeInv'
<1> DEFINE k == IF conn.kick THEN conn.strayKicks + 1 ELSE conn.strayKicks
           r == [conn EXCEPT !.kick = TRUE, !.strayKicks = k]
<1>1. k \in 0 .. MaxStrays
  <2>1. conn.strayKicks \in 0 .. MaxStrays /\ MaxStrays \in Nat
    BY PresenceAssumption DEF Connection, PresenceAssumption
  <2>2. conn.kick => conn.strayKicks < MaxStrays
    BY DEF Fire
  <2>3. QED
    BY <2>1, <2>2
<1>2. /\ connections' = [connections EXCEPT ![c] = r]
      /\ UNCHANGED <<registered, handling, ending, seated, silent>>
  BY DEF Fire
<1> HIDE DEF k
<1>3. r \in Connection /\ r.pid = conn.pid
  BY <1>1 DEF Connection
<1>4. c \in handling => r.pid # 0
  BY <1>3 DEF TypeInv, HandlersHavePIDs
<1> HIDE DEF r
<1>5. QED
  BY <1>2, <1>3, <1>4, RecordUpdated

\* A timer that goes off, in its turn or astray.
LEMMA TimerKeepsTypes ==
  ASSUME TypeInv, NEW c \in DOMAIN connections,
         \/ HeartbeatFires(c) \/ StrayHeartbeatFires(c)
         \/ KickFires(c) \/ StrayKickFires(c) \/ GiveUp(c)
  PROVE  TypeInv'
<1> DEFINE conn == connections[c]
           early == [conn EXCEPT !.heartbeat = FALSE]
           late == [conn EXCEPT !.strayHeartbeats = conn.strayHeartbeats - 1]
           kicked == [conn EXCEPT !.strayKicks = conn.strayKicks - 1]
<1>1. conn \in Connection
  BY DEF TypeInv, TypeOK
<1>2. /\ conn.strayHeartbeats > 0 => conn.strayHeartbeats - 1 \in 0 .. MaxStrays
      /\ conn.strayKicks > 0 => conn.strayKicks - 1 \in 0 .. MaxStrays
  <2>1. /\ conn.strayHeartbeats \in 0 .. MaxStrays /\ conn.strayKicks \in 0 .. MaxStrays
        /\ MaxStrays \in Nat
    BY <1>1, PresenceAssumption DEF Connection, PresenceAssumption
  <2>2. QED
    BY <2>1
<1> HIDE DEF conn
<1>3. /\ early \in Connection /\ early.pid = conn.pid
      /\ conn.strayHeartbeats > 0 => late \in Connection /\ late.pid = conn.pid
      /\ conn.strayKicks > 0 => kicked \in Connection /\ kicked.pid = conn.pid
  BY <1>1, <1>2 DEF Connection
<1> HIDE DEF early, late, kicked
<1>4. CASE KickFires(c) \/ GiveUp(c)
  BY <1>1, <1>4, CleanupKeepsTypes DEF KickFires, GiveUp, conn
<1>5. CASE HeartbeatFires(c)
  <2>1. Fire(c, early)
    BY <1>5 DEF HeartbeatFires, early, conn
  <2>2. QED
    BY <1>3, <2>1, FireKeepsTypes DEF conn
<1>6. CASE StrayHeartbeatFires(c)
  <2>1. Fire(c, late) /\ conn.strayHeartbeats > 0
    BY <1>6 DEF StrayHeartbeatFires, late, conn
  <2>2. QED
    BY <1>3, <2>1, FireKeepsTypes DEF conn
<1>7. CASE StrayKickFires(c)
  <2>1. CleanupConnection(c, kicked) /\ conn.strayKicks > 0
    BY <1>7 DEF StrayKickFires, kicked, conn
  <2>2. QED
    BY <1>3, <2>1, CleanupKeepsTypes DEF conn
<1>8. QED
  BY <1>4, <1>5, <1>6, <1>7

\* A handler and a reported end change the seats.
LEMMA SeatsKeepTypes ==
  ASSUME TypeInv, NEW c \in DOMAIN connections, FinishRequest(c) \/ ConnectionEnded(c)
  PROVE  TypeInv'
<1> USE DEF TypeInv
<1>1. CASE FinishRequest(c)
  <2>1. /\ c \in handling /\ handling' = handling \ {c}
        /\ seated' \subseteq seated \cup {connections[c].pid}
        /\ UNCHANGED <<connections, registered, ending, silent>>
    BY <1>1 DEF FinishRequest
  <2>2. connections[c] \in Connection
    BY DEF TypeOK
  <2>3. connections[c].pid \in Players
    BY <2>1, <2>2 DEF HandlersHavePIDs, Connection
  <2>4. QED
    BY <2>1, <2>3 DEF TypeOK, HandlersHavePIDs
<1>2. CASE ConnectionEnded(c)
  <2>1. /\ ending[c] > 0 /\ ending' = [ending EXCEPT ![c] = @ - 1]
        /\ seated' \subseteq seated
        /\ UNCHANGED <<connections, registered, handling, silent>>
    BY <1>2 DEF ConnectionEnded
  <2>2. c \in ConnectionIDs
    BY PresenceAssumption DEF TypeOK, ConnectionIDs, PresenceAssumption
  <2>3. ending' \in [ConnectionIDs -> Nat]
    BY <2>1, <2>2 DEF TypeOK
  <2>4. QED
    BY <2>1, <2>3 DEF TypeOK, HandlersHavePIDs
<1>3. QED
  BY <1>1, <1>2

\* Every step keeps the types.
LEMMA NextKeepsTypes == TypeInv /\ [Next]_vars => TypeInv'
<1> SUFFICES ASSUME TypeInv, [Next]_vars PROVE TypeInv'
  OBVIOUS
<1>1. ASSUME NEW p \in Players, PowerLoss(p) PROVE TypeInv'
  BY <1>1 DEF PowerLoss, TypeInv, TypeOK, HandlersHavePIDs
<1>2. ASSUME NEW p \in Players, NEW a \in Addresses, PacketFrom(p, a) PROVE TypeInv'
  <2>1. CASE Disconnect(a)
    <3> DEFINE c == registered[a]
    <3>1. Ready(a) /\ CleanupConnection(c, connections[c])
      BY <2>1 DEF Disconnect
    <3>2. c \in DOMAIN connections /\ connections[c] \in Connection
      BY <3>1, ResetRecord
    <3> HIDE DEF c
    <3>3. QED
      BY <3>1, <3>2, CleanupKeepsTypes
  <2>2. CASE Syn(a)
    BY <2>2, SynKeepsTypes
  <2>3. CASE Connect(a, p)
    BY <2>3, ConnectKeepsTypes
  <2>4. CASE Heard(a) \/ (BeginRequest(a) /\ connections[registered[a]].pid = p)
    BY <2>4, PacketKeepsTypes
  <2>5. QED
    BY <1>2, <2>1, <2>2, <2>3, <2>4 DEF PacketFrom
<1>3. ASSUME NEW c \in DOMAIN connections,
             \/ FinishRequest(c) \/ GiveUp(c) \/ ConnectionEnded(c)
             \/ HeartbeatFires(c) \/ StrayHeartbeatFires(c)
             \/ KickFires(c) \/ StrayKickFires(c)
      PROVE  TypeInv'
  BY <1>3, SeatsKeepTypes, TimerKeepsTypes
<1>4. CASE UNCHANGED vars
  BY <1>4 DEF vars, TypeInv, TypeOK, HandlersHavePIDs
<1>5. QED
  BY <1>1, <1>2, <1>3, <1>4 DEF Next

\* Connections, timers and seats are of their kinds; only a PID that a connection
\* has got is ever seated, whoever shares an address and whatever a timer tears down.
THEOREM TypeCorrectness == Spec => []TypeOK
<1>1. Init => TypeInv
  BY InitHasIInv DEF IInv, TypeInv, Init, HandlersHavePIDs
<1>2. TypeInv => TypeOK
  BY DEF TypeInv
<1>3. QED
  BY <1>1, <1>2, NextKeepsTypes, PTL DEF Spec

-----------------------------------------------------------------------------
(***************************************************************************)
(* The seats.                                                              *)
(***************************************************************************)

\* The inductive invariant holds in every state that is reached.
THEOREM Invariance ==
  ASSUME OneTenant, HandlersFinish = TRUE
  PROVE  Spec => []IInv
<1>1. IInv /\ [Next]_vars => IInv'
  BY NextKeepsIInv
<1>2. QED
  BY <1>1, InitHasIInv, PTL DEF Spec

\* Every seat has a connection whose end will free it, whichever timers are armed,
\* astray or about to fire, and however often a player has connected anew.
THEOREM SeatsWatched ==
  ASSUME OneTenant, HandlersFinish = TRUE
  PROVE  Spec => []SeatsAreWatched
<1>1. IInv => SeatsAreWatched
  BY DEF IInv
<1>2. QED
  BY <1>1, Invariance, PTL
=============================================================================
