------------------------------ MODULE Presence ------------------------------
(***************************************************************************)
(* From a console's connection to its seat: the connections of the secure  *)
(* endpoint (nex-go's prudp_endpoint.go, prudp_connection.go and           *)
(* timeout_manager.go), and the teardown callback with which               *)
(* matchmaking/protocol.go takes a console out of its gatherings.          *)
(*                                                                         *)
(* A packet is processed under its connection's lock, but a connection is  *)
(* torn down by its timers without that lock.  Timers are not measured:    *)
(* an armed one may fire at any time, as the packets that would have reset *)
(* it can be lost or late.  The gatherings are abstracted to the set of    *)
(* the players seated in any of them (module Gatherings has the rest): a   *)
(* request may seat its sender, or unseat it, or do neither.               *)
(***************************************************************************)
EXTENDS Integers, FiniteSets

CONSTANTS
  Players,          \* the PIDs
  Addresses,        \* what tells connections apart: address, stream type and ID
  MayUse,           \* MayUse[a]: the players whose console may send from a
  HandlersFinish,   \* TRUE: no connection is torn down while it handles a request
  MaxConnections,   \* bound of the model: connections made
  MaxStrays         \* bound of the model: stray timers of a connection

ASSUME PresenceAssumption ==
  /\ MayUse \in [Addresses -> SUBSET Players]
  /\ HandlersFinish \in BOOLEAN
  /\ MaxConnections \in Nat /\ MaxStrays \in Nat
  /\ 0 \notin Players    \* the PID of a connection before its CONNECT

VARIABLES
  connections,  \* all connections made, by ID, registered or not
  registered,   \* PRUDPEndPoint.Connections: address to ID, 0 for none
  handling,     \* connections that are inside the handler of a request
  ending,       \* how often a torn down connection has yet to be reported
  seated,       \* the PIDs that take part in a gathering
  silent        \* the players whose console has lost its power or network

vars == <<connections, registered, handling, ending, seated, silent>>

ConnectionIDs == 1 .. MaxConnections

\* A timer is stray when it is armed but its connection no longer refers to it.
Connection ==
  [address: Addresses,
   state: {"not connected", "connecting", "connected"},
   pid: Players \cup {0},
   started: BOOLEAN,           \* heartbeatTimer # nil
   heartbeat: BOOLEAN,         \* heartbeatTimer is armed
   kick: BOOLEAN,              \* pingKickTimer is armed
   strayHeartbeats: 0 .. MaxStrays,
   strayKicks: 0 .. MaxStrays]

TypeOK ==
  /\ \E n \in 0 .. MaxConnections : connections \in [1 .. n -> Connection]
  /\ registered \in [Addresses -> DOMAIN connections \cup {0}]
  /\ handling \subseteq DOMAIN connections
  /\ ending \in [ConnectionIDs -> Nat]
  /\ seated \subseteq Players
  /\ silent \subseteq Players

-----------------------------------------------------------------------------
\* Mutant of ResetHeartbeat: a heartbeat that has fired is not armed again.
ResetOnlyArmed(conn) == [conn EXCEPT !.kick = FALSE]

ResetHeartbeat(conn) == [conn EXCEPT !.kick = FALSE, !.heartbeat = conn.started]

\* An earlier heartbeat timer is not stopped.
StartHeartbeat(conn) ==
  [conn EXCEPT !.started = TRUE,
               !.heartbeat = TRUE,
               !.strayHeartbeats = IF conn.heartbeat THEN @ + 1 ELSE @]

Ready(a) == registered[a] # 0 /\ registered[a] \notin handling

-----------------------------------------------------------------------------
(***************************************************************************)
(* Packets from a console.                                                 *)
(***************************************************************************)

\* Mutant of Syn: the connection counter is read a second time.
SynCountsTwice(a) ==
  LET c == registered[a]
      id == Cardinality(DOMAIN connections) + 1
  IN
  /\ \/ /\ Ready(a)
        /\ connections' = [connections EXCEPT
             ![c] = [ResetHeartbeat(@) EXCEPT !.state = "connecting"]]
        /\ UNCHANGED registered
     \/ /\ c = 0
        /\ id <= MaxConnections
        /\ connections' = [d \in 1 .. id |->
             IF d = id
             THEN [address |-> a, state |-> "connecting", pid |-> 0, started |-> FALSE,
                   heartbeat |-> FALSE, kick |-> FALSE,
                   strayHeartbeats |-> 0, strayKicks |-> 0]
             ELSE connections[d]]
        /\ registered' = [registered EXCEPT ![a] = id + 1]
  /\ UNCHANGED <<handling, ending, seated, silent>>

\* handleSyn: the state of a known connection is reset, its PID and timers
\* are kept, and no end is reported.
Syn(a) ==
  LET c == registered[a]
      id == Cardinality(DOMAIN connections) + 1
  IN
  /\ \/ /\ Ready(a)
        /\ connections' = [connections EXCEPT
             ![c] = [ResetHeartbeat(@) EXCEPT !.state = "connecting"]]
        /\ UNCHANGED registered
     \/ /\ c = 0
        /\ id <= MaxConnections
        /\ connections' = [d \in 1 .. id |->
             IF d = id
             THEN [address |-> a, state |-> "connecting", pid |-> 0, started |-> FALSE,
                   heartbeat |-> FALSE, kick |-> FALSE,
                   strayHeartbeats |-> 0, strayKicks |-> 0]
             ELSE connections[d]]
        /\ registered' = [registered EXCEPT ![a] = id]
  /\ UNCHANGED <<handling, ending, seated, silent>>

\* handleConnect with a ticket of p, also when it arrives once more.
Connect(a, p) ==
  LET c == registered[a] IN
  /\ Ready(a)
  /\ connections[c].state # "not connected"
  /\ connections[c].started => connections[c].strayHeartbeats < MaxStrays
  /\ connections' = [connections EXCEPT
       ![c] = [StartHeartbeat(ResetHeartbeat(@)) EXCEPT !.state = "connected", !.pid = p]]
  /\ UNCHANGED <<registered, handling, ending, seated, silent>>

\* Any other packet that changes nothing else: PING, an acknowledgment, or a
\* CONNECT whose ticket is refused.
Heard(a) ==
  /\ Ready(a)
  /\ connections[registered[a]].state # "not connected"
  /\ connections' = [connections EXCEPT ![registered[a]] = ResetHeartbeat(@)]
  /\ UNCHANGED <<registered, handling, ending, seated, silent>>

\* handleData up to the handler of a request ...
BeginRequest(a) ==
  /\ Ready(a)
  /\ connections[registered[a]].state = "connected"
  /\ connections' = [connections EXCEPT ![registered[a]] = ResetHeartbeat(@)]
  /\ handling' = handling \cup {registered[a]}
  /\ UNCHANGED <<registered, ending, seated, silent>>

\* ... and what it does to the store.
FinishRequest(c) ==
  /\ c \in handling
  /\ handling' = handling \ {c}
  /\ LET p == connections[c].pid IN
       seated' \in {seated, seated \cup {p}, seated \ {p}}
  /\ UNCHANGED <<connections, registered, ending, silent>>

-----------------------------------------------------------------------------
(***************************************************************************)
(* Teardown.                                                               *)
(***************************************************************************)

\* CleanupConnection up to the callbacks.  What is unregistered is whatever
\* connection has the address of c.  Stray timers are not stopped.
CleanupConnection(c, conn) ==
  /\ HandlersFinish => c \notin handling
  /\ registered' = [registered EXCEPT ![conn.address] = 0]
  /\ connections' = [connections EXCEPT
       ![c] = [conn EXCEPT !.state = "not connected", !.heartbeat = FALSE, !.kick = FALSE]]
  /\ ending' = [ending EXCEPT ![c] = @ + 1]
  /\ UNCHANGED <<handling, seated, silent>>

\* handleDisconnect, under the connection's lock.
Disconnect(a) ==
  /\ Ready(a)
  /\ CleanupConnection(registered[a], connections[registered[a]])

\* TimeoutManager.start gives up on a packet that is never acknowledged.
GiveUp(c) ==
  /\ connections[c].state = "connected"
  /\ CleanupConnection(c, connections[c])

\* The heartbeat, or a stray one: a PING is sent and the kick timer set, which
\* makes a kick timer that is armed a stray.
Fire(c, conn) ==
  /\ conn.kick => conn.strayKicks < MaxStrays
  /\ connections' = [connections EXCEPT
       ![c] = [conn EXCEPT !.kick = TRUE,
                           !.strayKicks = IF conn.kick THEN @ + 1 ELSE @]]
  /\ UNCHANGED <<registered, handling, ending, seated, silent>>

HeartbeatFires(c) ==
  /\ connections[c].heartbeat
  /\ Fire(c, [connections[c] EXCEPT !.heartbeat = FALSE])

StrayHeartbeatFires(c) ==
  /\ connections[c].strayHeartbeats > 0
  /\ Fire(c, [connections[c] EXCEPT !.strayHeartbeats = @ - 1])

KickFires(c) ==
  /\ connections[c].kick
  /\ CleanupConnection(c, connections[c])

StrayKickFires(c) ==
  /\ connections[c].strayKicks > 0
  /\ CleanupConnection(c, [connections[c] EXCEPT !.strayKicks = @ - 1])

\* Mutant of ConnectionEnded: the callback is not registered.
EndUnreported(c) ==
  /\ ending[c] > 0
  /\ ending' = [ending EXCEPT ![c] = @ - 1]
  /\ UNCHANGED <<connections, registered, handling, seated, silent>>

\* emitConnectionEnded: RemoveConnection by the PID of the connection.
ConnectionEnded(c) ==
  /\ ending[c] > 0
  /\ ending' = [ending EXCEPT ![c] = @ - 1]
  /\ seated' = seated \ {connections[c].pid}
  /\ UNCHANGED <<connections, registered, handling, silent>>

\* A console loses its power or its network, and sends nothing any more.
PowerLoss(p) ==
  /\ silent' = silent \cup {p}
  /\ UNCHANGED <<connections, registered, handling, ending, seated>>

-----------------------------------------------------------------------------
Init ==
  /\ connections = [c \in {} |-> {}]
  /\ registered = [a \in Addresses |-> 0]
  /\ handling = {}
  /\ ending = [c \in ConnectionIDs |-> 0]
  /\ seated = {}
  /\ silent = {}

PacketFrom(p, a) ==
  /\ p \in MayUse[a] \ silent
  /\ \/ Syn(a) \/ Connect(a, p) \/ Heard(a) \/ Disconnect(a)
     \/ BeginRequest(a) /\ connections[registered[a]].pid = p

Next ==
  \/ \E p \in Players : PowerLoss(p) \/ \E a \in Addresses : PacketFrom(p, a)
  \/ \E c \in DOMAIN connections :
       \/ FinishRequest(c) \/ GiveUp(c) \/ ConnectionEnded(c)
       \/ HeartbeatFires(c) \/ StrayHeartbeatFires(c)
       \/ KickFires(c) \/ StrayKickFires(c)

\* A handler returns, the callbacks run, and the timers of a connection from
\* which nothing comes any more go off.  Nothing obliges the timers of other
\* connections to, nor a console to send anything.
Unheard(c) ==
  /\ c \in DOMAIN connections
  /\ MayUse[connections[c].address] \subseteq silent

Fairness ==
  \A c \in ConnectionIDs :
    /\ WF_vars(c \in DOMAIN connections /\ FinishRequest(c))
    /\ WF_vars(c \in DOMAIN connections /\ ConnectionEnded(c))
    /\ WF_vars(Unheard(c) /\ HeartbeatFires(c))
    /\ WF_vars(Unheard(c) /\ KickFires(c))

Spec == Init /\ [][Next]_vars /\ Fairness

-----------------------------------------------------------------------------
Watched(c) ==
  \/ connections[c].heartbeat
  \/ connections[c].kick
  \/ connections[c].strayKicks > 0
  \/ ending[c] > 0

\* Every player with a seat has a connection whose end will take it away: its
\* timers are armed, or it is being torn down, or about to give the seat up.
SeatsAreWatched ==
  \A p \in seated : \E c \in DOMAIN connections : connections[c].pid = p /\ Watched(c)

\* Without the callback "every crash would leave a phantom racer occupying a
\* slot": the seat of a console that has lost its power becomes free.
PhantomsLeave == \A p \in Players : (p \in silent) ~> (p \notin seated)
=============================================================================
