# Specifications of the Fast Racing Neo server

This directory holds TLA+ models of the server in `src/`: what they model, how
they correspond to the code, what TLC checks on small instances and what TLAPS
proves for all of them. Section 1 is the inventory of the system, section 2 the
modules, section 3 the runs, section 4 the disagreements found, section 5 the
proofs, section 6 what is left out, and section 7 the plan.

    tlc -workers 2 -config MCGatherings_store.cfg MCGatherings
    tlapm GatheringsProofs.tla

`PROJECT.json` lists, for machines, what this text says for people: components,
runs, the source lines of each definition, and for each checked property a
*mutant*, a plausible mistake in one definition that the property catches.
Mutants stand in the modules, before the definition they are a mistake of, and
are used by no specification.

## 1. The system

The server lets consoles race each other. A console logs in at the
*authentication server*, takes its ticket to the *secure server* over PRUDP (a
UDP transport with its own acknowledgments), finds or opens a *gathering* there
(a lobby), connects to the other consoles directly, and uploads lap times to
leaderboards.

| Component | Where | State | Operations |
|---|---|---|---|
| Gathering store, matchmaking protocols | `matchmaking/` | `Store.sessions` (gatherings by ID: settings, owner, host, participants, session URL), `nextGatheringID`, published notification data; all under one mutex | about 40 requests: create, join, leave, destroy, update, migrate owner or host, automatic matchmaking; the end of a connection |
| Notifications | `matchmaking/store.go`, `match_making.go`, common `globals/utils.go` | each console's own list, as built from events | sent from under the store's lock on joining and leaving, after it on destruction and migration |
| Session search | `matchmaking/search.go` | none | filters and result order |
| Ranking store | `ranking/store.go` | `scores`, `commonData` under a mutex; `ranking.json` | upload, delete, common data; save by temporary file and rename; load at start |
| Leaderboard queries | `ranking/store.go` | none | ranges, nearby, friends, own, approximate order |
| Structure headers | `nexserver/structure_header.go`, `authentication.go`, `secure.go` | one decision under a mutex and a `sync.Once`; one setting per server | set at start-up, or detected from the first login |
| PRUDP connections | `third_party/nex-go` | connections by address; heartbeat and kick timers; retransmissions | SYN, CONNECT, DATA, PING, DISCONNECT; time-outs; teardown callback |
| Reliable delivery | `third_party/nex-go` | dispatch queues, fragments, 16-bit sequence numbers | reorder, drop duplicates, reassemble, retransmit |
| Stations and NAT traversal | `nexserver/handlers_secure_connection.go`, `handlers_misc.go`, common | station URLs of each connection | register, replace, relay probes |
| Utility IDs, accounts, tickets, statistics | `nexserver/`, `globals/` | associations in memory; accounts derived on demand | see `PROJECT.json` |

**Interactions.** Requests of different consoles run in goroutines of their own
and meet at the store's mutex; those of one connection run under that
connection's mutex. The transport calls back into the store when a connection
ends (`OnConnectionEnded` -> `Store.RemoveConnection`), from a goroutine of its
own. The store sends notifications through the transport, beside the responses
to requests: two goroutines may send on one stream. Consoles find each other by
the station URLs that the store and the NAT handlers read from the connections
of others. `main` starts the two
servers concurrently; login requests on either decide a setting of both.

**What is hard.** Hosting and ownership move between consoles that may vanish
at any moment, and three overlapping protocols reach the same store, each with
its own checks. Timers act on connections without the lock that handlers hold.
Events about one gathering leave from under the lock and after it, and a console
that connects anew has heard none of them. Packets are lost, repeated and
reordered under numbers that come round. An URL names a connection that may have
ended when it is used.
A save can stop after any system call. Map iteration makes leaderboard order
nondeterministic. Two goroutines construct servers that a third piece of code
writes to. The list of hazards, each at its line and with the properties that
would show it, is in `PROJECT.json` under `hazards`.

**What makes each part correct.**

* Gatherings: whoever is in charge takes part; IDs name one gathering for ever;
  counts are right and maxima kept; no way in bypasses the owner's admission
  rules; nobody is moved by another player's request.
* Presence: a seat never outlives every connection that could give it up.
* Ranking store: the file is always a whole earlier contents; an acknowledged
  record is not lost.
* Leaderboards: pages, windows and projections agree with the ranking.
* Structure headers: both servers end with the same, final decision.
* Notifications: a console's list is its gathering's, it knows the owner, and it
  can tell when the gathering has ended.
* Reliable delivery: messages come out whole, once and in order; nothing missing
  is forgotten; no stream stalls.
* Stations: what is given out as a player's is that player's, and a probe reaches
  the player it is for, or nobody.

## 2. The modules

| Module | Models | Remarks |
|---|---|---|
| `LobbyRegistry` | abstract: lobbies with a leader, changed by one player at a time | implemented by `Gatherings` |
| `Gatherings` | `matchmaking/store.go` and every handler that changes it | `MCGatherings` has its instances, `GatheringsProofs` the theorems |
| `Rosters` | the notification events of the store, and what consoles make of them | `MCRosters`, `RostersProofs` |
| `Presence` | connections, their timers and teardown, down to the seat | `MCPresence`, `PresenceProofs` |
| `ReliableChannel` | abstract: messages in, the same messages out, until the end | implemented by `ReliableStream` |
| `ReliableStream` | one reliable substream of nex-go, from fragments to request handlers | `MCReliableStream`, `ReliableStreamProofs` |
| `Stations` | station URLs: registering, giving out, probing | `MCStations`, `StationsProofs` |
| `DurableStore` | abstract: live contents, and a stable copy that is an earlier contents | implemented by `RankingStore` |
| `RankingStore` | `ranking/store.go`: requests, `save`, crash, restart | theorems in `RankingProofs` |
| `Leaderboards` | extends it with the queries | `MCLeaderboards`, `LeaderboardsProofs` |
| `StructureHeader` | start-up of both servers and the header decision | theorems in `StructureHeaderProofs` |

### Gatherings

`sessions` and `nextGatheringID` are fields of `Store` (its third, published
notification data, is left out: see section 6). A handler works
between `Lock` and `Unlock`, so it is one action, named after the request. The
store's helpers (`JoinLocked`, `LeaveLocked`, `CreateLocked`,
`RemoveConnection`) are operators from a store, or a session, to a changed one,
as handlers apply several in a row: automatic matchmaking removes the caller
from every gathering, searches what is left, then joins or creates.

* `JoinLocked` is split into `Accepts` (its two refusals) and `Joined`;
  `LeaveLocked` into `Survives` and `Left`. A refused request leaves the store
  alone, except where the code has changed it already: a join that fails after
  `RemoveConnection` or `CreateLocked` keeps their effects.
* `Session.Participants` holds a PID once per seat; the model's set holds
  `<<pid, k>>`. No handler looks at the order.
* Settings are the fields that guards, searches and properties read; the rest
  of a `MatchmakeSession` is one `description`. `ParticipationPolicy` is the
  only policy the code acts on, friends (98), as a flag. `SetState`,
  `UpdateApplicationBuffer` and `UpdateProgressScore` have `MutateOwned`'s guard
  and write data nothing here reads.
* Searches return the set of sessions that may come first: ties are resolved by
  map order.
* `sessionURL` is abstracted to the player who supplied it.
* `MaxGatherings` bounds the counter, which in the code is 32 bits wide.

### Presence

Connections are never forgotten by the model (`connections`), unlike by the
endpoint (`registered`), since timers and callbacks keep the pointer. A timer is
an armed flag, and a *stray* when its connection refers to a newer one: it still
fires. Because packets can be late or lost, any armed timer may fire at any
time. A packet is one step, with two exceptions: a request begins and finishes
in separate steps, between which timers run, and a teardown and its callback are
separate. Finding a connection and taking its lock is one step. Gatherings
appear as a set of seats, and a request may take a seat, give it up or do
neither. `HandlersFinish` excludes a teardown during a request, to show what
holds without that race (run `teardown`) and what the race does (run `phantom`).

### Rosters

Gatherings are reduced to owner, participants and notification flags, as the
events depend on nothing else. Events of joining and leaving are sent by
`JoinLocked` and `LeaveLocked` under the lock, so they arrive in the step that
causes them. `destroyGathering`, `updateSessionHost` and
`migrateGatheringOwnershipV1` unlock first: such a step leaves an announcement
with the targets read under the lock, and `SendAnnouncement` serves one target
at a time, in any order and at any later moment. `Picks` is the choice
`FindConnectionByPID` makes: any connection of the player, or none, in which
case the event is dropped. Nothing makes a handler wait for another one's
announcement, so those of one gathering overtake each other; the history
`overlapped` holds the gatherings whose latest announcement was made while another
was still to be sent, and `Settled` says that none is left to be sent and that the
latest was not such a one. A participant is kept with the address it joined
from, and loses it when its player's console connects anew, since the new console
knows nothing. `known` and `knownOwner` are what a console has been told, an
external part: it takes notice of events about gatherings it is in, and can tell
from the departure of the owner it knows that the gathering has ended. A gathering's
flags decide who is told: its owner, everyone, or everyone with the earlier
participants replayed to the one who joins. `OneConnectionEach` marks where the
properties hold (section 4 says what happens without). Two things make the model
do more than the code: equal announcements that wait are one, and a console may
make a request while its own announcement waits.

### ReliableStream

A packet is known by its place in the order of encryption, which the code never
sees: it sees the number the packet carries modulo `Modulus`. The network is the
set of packets sent: any may arrive at any time, again or never, and so may any
acknowledgment, single or aggregate. `pending` is `TimeoutManager.packets`;
`timers` are the goroutines that wait in `start`, which are found to be finished
only when they wake.

Nothing in `Send` and `sendPacket` is locked, and nothing in the model is: each
goroutine of `Senders` goes through its message fragment by fragment, and for each
one reads the counter (`ReadCounter`), writes it (`NextOutgoingSequenceID`; another
may have written in between) and encrypts, schedules and sends (`SendPacket`), in
which it may overtake others. The fragment ID wraps like the `uint8` it is.

`HandleReliable` queues a packet in one step (`Arrive`), whatever packet it is, and
each turn of its loop takes two: `GetNextToDispatch`, and `Dispatch`, which
deciphers. A teardown can fall between the two: the sliding windows are gone, the
fail-safe makes one without the session key, and the packet becomes `Noise`. So does
one that is not at its place in the key stream. Either end may give up at any time.
The console's end is not in this repository and is taken to be like the server's.

The code promises less than the stream is used for, and two histories tell where it
stops. `overlapped`: a goroutine began to send while another was sending.
`mistaken`: a sequence ID has been taken for another packet's, in one of five ways:
two goroutines got one number; an ID still to be acknowledged was given out again;
a late acknowledgment, or an aggregate one that met the wrap, forgot a packet it
does not cover; or a duplicate was dispatched in place of the packet a lap later.
The steps are the code's, with no guard against any of these. `ReliableChannel` has a variable
for whether its promise stands (`Intact`), and one action for when it does not.

### Stations

Connections are those of `Presence` without timers, with the PID and the station
URLs they carry. IDs are never reused, and are what an URL names its connection
by. `given` is one URL that was given out, any one and from any time, so that a
later request may use it; `probe` is the outcome of the last step. The requests
that write URLs stamp different things: `registerEx` and `updateURLs` the PID and
the connection ID, `replaceURL` the PID only, so a URL may have no connection ID
or that of any connection, as the console likes; `stamped` is a history that tells
which. An address is not one player's: a console that takes it over goes on with the
connection there, which keeps its stations (`Reset`, `handleConnect`), and `players`
is the history of whose it was. `Claims` and `Replacements` are the station lists that
consoles register.

### RankingStore and Leaderboards

A request holds the mutex through `save`, so `phase` is what makes other
requests wait. Opening the temporary file, writing it and renaming it are
separate steps, each of which can fail (`FailSave`) or be the last before the
process ends (`Crash`). The file system itself does not fail: writes survive
the process, and a machine that stops before flushing them is not modelled.
`acknowledged` is a history variable. `UniqueID`, `Groups` and `Param` travel
with a score and decide nothing. A query is the set of answers the code may
give, over all orders in which the map can be read. All uploads to a board in
the runs have one `OrderBy`, as the comment at `ranking/store.go:325` assumes.

### StructureHeader

Each write of a start-up goroutine that another can see is a step; so are the
two writes inside `setStructureHeader`. A login is examined in one step and
decided in another, as the `Once` is entered only after the examination, which
finds headers, no headers, or neither. `LoginsWait` excludes logins before both
servers listen.

## 3. The runs

| Run | Asks | Instance | States |
|---|---|---|---|
| `store` | types; the owner and host take part; counts agree; parties stay whole; maxima are kept; IDs are issued and never reused; the store implements `LobbyRegistry` | 3 players, 2 gatherings, parties of 0 (counts as 1) and 2, a lobby for two and an unlimited one whose owner may be replaced; each may become the other | 43 000 |
| `matchmaking` | no way in bypasses closing or friends-only; automatic matchmaking seats the player in exactly one gathering | 3 players, two of them friends; a public, a friends-only and a password-protected request; two descriptions and a search that widens from one to both | 16 600 |
| `structure_header` | servers agree, the decision is final (the overwritten setting is for `forced_off` to show) | modes `on` and `auto`, 3 consoles | 210 |
| `ranking_crashes` | `ranking.json` is a whole earlier contents | 2 players, 2 scores, overwriting, common data, saves failing anywhere | 120 000 |
| `leaderboards` | pages, windows, projections; acknowledged scores are kept while saves succeed | 3 players, 2 scores, 2 seconds, overwriting: every pattern of ties; lengths and offsets 0 to 3 | 35 000 |
| `teardown` | every seat is watched, phantoms leave | one player, two addresses, two connections, two stray timers of each kind per connection | 226 000 |
| `delivery` | nothing missing is forgotten; the stream implements `ReliableChannel`; it never stalls | messages of one, two and three packets, two goroutines sending at once, 3 packets under 2 sequence IDs, 2 fragment IDs, 2 transmissions of each | 157 000 |
| `rosters` | lists, owners and ends are known once all is announced | 3 consoles that may reconnect, a gathering with replays and one that tells its owner only, two announcements under way at once | 142 000 |
| `stations` | stamped answers and probes are the right player's | 2 players who share two addresses, 2 connections, 2 stations registered at a time | 820 000 |

Why the bounds suffice. Gathering steps touch one gathering, or all of one
player's; two gatherings and three players give every relation among a mover, an
owner, a host and a bystander, with a gathering left behind and one entered.
IDs up to 2 include the failed creation that costs an ID and the creation after
a destruction. A maximum of two is exceeded by a party of two beside one player,
and by an unlimited lobby of up to six that its owner then limits. Three
entries are the fewest for which a page has a predecessor and a successor and a
window is cut at either end. `ranking_crashes` keeps two generations of the
file with a third in memory. Two connections are the old and the new one of a
console that returns; a second stray fires after the first one's teardown. Three
packets under two sequence IDs reuse one, hold a long message with a short one
before or after it or a message too long for the fragment IDs, and
come round at the third packet: an aggregate acknowledgment meets the wrap, a
duplicate is there a lap later, an ID is given out twice. The second
transmission is the last, so a stream is given up. Each of the exemptions the
properties make is reached in this run: without any one of them a property fails.
Three consoles
are one that acts, one that is told and one that is the owner; with two
gatherings one is left for the other; two announcements are the one overtaken and
the one that overtakes, and one gathering has them. Two connections are the old and
new one of a player, or one of either, in either's place, and each may pass from one
player to the other; two stations are an old and a new one, or a local and a public.

Some runs bound more with a constraint. `NoSessionURLs` (`store`,
`matchmaking`): nothing they ask depends on the session URL, which multiplies the
states. `MCFlags` (`rosters`): the first gathering replays and the second does
not, rather than every combination. `MCAnnouncements` (`rosters`): two announcements may be
under way while there has been one gathering; then one, or none once they have
overlapped. `MCTwoStations` (`stations`): at most two stations are registered over
all connections. `MCNotMistaken` (`delivery`): behaviours are followed up to and
including the step that confuses a sequence ID, which is a step of the run; nothing
is promised after it, and it is never taken back. Players are interchangeable in the
runs with `SYMMETRY` (all of them, the two friends, or each with its address); the
runs with a liveness property have none.

Fairness appears where the question is one of progress. In `Presence` a handler
that has begun returns and a callback that has been started runs (Go schedules
every runnable goroutine); and the heartbeat and kick timer of a connection from
whose address nothing comes any more go off (a timer that is not reset expires).
No console is assumed to send anything, not even a DISCONNECT, and no timer of a
live connection is assumed to fire. In `ReliableStream` a goroutine in the middle
of a message goes on (`SenderStep`), a retransmission timer runs out (`Timeout`)
and the loop of a handler goes on (`GetNextToDispatch`, `Dispatch`). Nothing is assumed of the
network, which may lose everything: the stream then ends instead of stalling.

Deadlock is checked, except in `delivery`, `rosters` and `stations`, whose
models stop when their bounds on packets, gatherings and connections are used up.

## 4. Where the code and its texts disagree

Each of these is a run that must find its property violated.

| Run | What happens | Against |
|---|---|---|
| `forced_off` | with `FAST_STRUCTURE_HEADER=off`, the secure server's default can overwrite the forced setting | `structure_header.go:59-61` |
| `failed_save` | a score whose save failed is in memory; the retry is "not better" and is answered with success, unsaved | `ranking/store.go:5` |
| `phantom` | a connection torn down while its request is handled leaves a seat that nothing frees | `protocol.go:55-57` |

More was met while modelling, and has no run of its own.

* The search with criteria seats players in password-protected gatherings
  (`search.go:65-66`, `148`).
* The session URL is not the host's once hosting has moved (`store.go:41`,
  `match_making.go:545`).
* Equal scores of one second change places from query to query
  (`ranking/store.go:335`).
* Joining by ID and `Participate` clear no earlier membership, though
  `matchmake_extension.go:73-75` clears one when creating, as "otherwise the
  player would appear to be in two sessions at once".
* The end of an old connection takes a player out of every gathering, also one
  entered through a newer connection.
* A public station given at registration keeps the address the console claims,
  while texts in several places say that it was replaced by the observed one
  (`match_making_ext.go:118`, `match_making.go:334`); only `updateURLs` does so.
* With two connections of one player, the replay of the participants may go to
  the old one ("so their lobby list starts out complete", `store.go:233-234`):
  `ListsAreRight` fails when `OneConnectionEach` is `FALSE`.
* Two changes of a gathering may be announced in the other order, as handlers
  announce after unlocking (`match_making.go:149-156`). A console then takes a former
  owner for the present one, so `OwnersAreKnown` and, once the true owner leaves,
  `EndsAreKnown` both fail without their exemption (`Settled`). The next change that
  is announced with none under way puts it right; if there is none, the console keeps
  a gathering that is gone.
* Two goroutines that send to one console interleave the fragments of their messages,
  may number and encrypt them in different orders (`prudp_server.go:331-395`), and may
  be given one number (`counter.go:18` counts without a lock). The console reassembles
  neither message, and deciphers to garbage from the first packet out of order.
* An aggregate acknowledgment forgets every pending packet with an ID up to its own,
  compared as numbers (`prudp_endpoint.go:219-225`). When packets numbered on both
  sides of the wrap are pending, one for ID 65535 forgets 0, 1 and so on, which nobody
  resends any more; if they were lost, the stream stalls with both ends open.
* A duplicate of a packet that was dispatched is queued again
  (`packet_dispatch_queue.go:13-15`) and stays until the counter is back at its ID;
  it is then dispatched at once, in place of the packet that carries that ID now. One
  ordinary duplicate is enough, in a connection of more than 2^16 packets.
* Nothing limits the packets that wait for acknowledgment: with more than 2^16 of
  them an ID is given out twice and the former packet is forgotten, and an
  acknowledgment that is late by a lap forgets the wrong one.
* A teardown from a timer clears the sliding windows in the middle of a dispatch loop
  (`prudp_connection.go:66-81`); the fail-safe makes a new one
  (`prudp_connection.go:125-137`), whose cipher has no session key, and the handlers
  get what it makes of the packet. `ReliableChannel` promises nothing from there on.
* A message of more than 256 fragments is cut where the `uint8` comes round to 0
  (`prudp_server.go:305`), and its rest is taken for another message.
* A station put in place of another keeps the connection ID the console gives
  (`replace_url.go:30-34`): a probe by it reaches the player behind any connection
  the console names, and `requestConnectionData` answers with that player's stations.
* A console at an address whose connection is still another player's goes on with
  that connection: `Reset` keeps its PID and stations (`prudp_connection.go:66-81`)
  and the CONNECT changes only the PID (`prudp_endpoint.go:364`). Until the stations
  are registered anew, the former player's are given out as the new one's, and a
  probe for the former player is asked of the new one.
* The comment at `ranking/store.go:426-427` says that the offset of a nearby query is
  relative to the caller. The code does not read the offset there, nor does `Window`.
* A friends board shows the caller's own entry: `friendSet` says so,
  `globals/friends.go:14` that such boards are empty.
* `FAST_STRUCTURE_HEADER` left to detection has the same window as `forced_off`
  when a console logs in before the secure server is set up (`LoginsWait`
  excludes it).
* In overwrite mode `ApproximateOrder` counts the player's own better entry, so
  the projection, which the property states for the normal mode, is one too high.

## 5. What is proved

**Gatherings.** For any players, friend lists, requests, party sizes, criteria
and number of gatherings:

| Theorem | Property |
|---|---|
| `TypeCorrectness` | `TypeOK` |
| `OwnerAndHostPresence` | `OwnerAndHostTakePart` |
| `CountAgreement` | `ParticipationCountAgrees` |
| `IDsIssued` | `IDsAreIssued` |
| `IDsUsedOnce` | `IDsAreNotReused` |
| `WholePartiesKept` | `PartiesAreWhole` |
| `Implementation` | `ImplementsLobbyRegistry` |
| `SeatedOnce` | `MatchmakingSeatsOnce` |
| `AdmissionControl` | `AdmissionIsControlled` |
| `MaximaKept` | `NeverOverfilled` |

The first four are invariants and follow from
`Invariance`, which proves the inductive invariant `IInv`: the counter is
positive and ahead of every live ID, and every session is *sound* (well typed,
with finitely many seats, a correct count, and its owner and host among its
players). Hosting falls back to the owner, so the host's presence needs the
owner's; the owner's survives a departure because a gathering its owner leaves
ends (`LeftIsSound`); and a count is a cardinality, which means what it should
only for finite sets, so finiteness is carried along. The proof goes from the
operators up: each store helper keeps soundness, the ways to end a request keep
`IInv`, then there is one step per action.

The others are about steps. `StepKinds` shows that
every action does one of four things to the store: only take players out, seat
one player by the rules, add a gathering, or change gatherings without moving
anyone. The theorems are then proved for the four kinds: parties stay whole
because each kind adds or removes all seats of a console, and each kind is a step
or a stutter of `LobbyRegistry`. `IInv` is what says that a new gathering
replaces no other one. `SeatedOnce` looks inside one action instead: after
`RemoveConnection` the player is in no gathering, and then one is joined or one
is made, which cannot be refused. All of them assume only `ParametersAssumption`,
which types the constants.

**The ranking store** (`RankingProofs`). `TypeCorrectness` (`TypeOK`) and
`Implementation` (`ImplementsDurableStore`) hold for any scores and with saves
failing anywhere. Their invariant adds to the types that the temporary file
about to be renamed equals memory, which makes the rename a commit. They assume
`AbsenceAssumption` (no file, part of a file and contents are told apart).
`AcknowledgedScoresSurvive` (`AcknowledgedScoresAreKept`) needs two hypotheses,
which are the boundary between what holds and the run `failed_save`:
no save fails, and all uploads have one ordering. Its invariant `KeptInv` says
that memory and file each hold every acknowledged score or a better one, are
equal between requests, and that memory holds the score being saved.

**Leaderboards** (`LeaderboardsProofs`). For boards of any size, with any pattern
of ties, and every order the map can be read in:

| Theorem | Property | Hypotheses |
|---|---|---|
| `PagesContinue` | `PagesContinueTheRanking` | none |
| `NearbyShown` | `NearbyShowsTheCaller` | none |
| `ProjectedRank` | `ProjectionIsTheRank` | uploads have one `OrderBy` |
| `BoardsCanBeRanked` | every board has a ranking | none |

The hypothesis is the comment at `ranking/store.go:325`; two orderings on one board
make a rank depend on which entry the map yields first. The invariant is that
boards are finite (`BoardsInv`): a board grows by one entry per upload, and a restart
brings back a file that was memory once. A position in a ranking and a
number of entries that rank better are related through cardinalities: the entries
before the first of a group of ties are exactly those that are strictly better
(`StandardRun`, `StandardRank`), and the upload that was projected adds or changes
one entry that does not rank better than itself. The search for a rank runs down
the entries, so `RanksExist` needs an induction on positions, and filtering a
ranking by a set of friends one on lengths; both are done without an induction
theorem, by taking a smallest counterexample, since the numbers are well founded
(`LeastNatural`). `BoardsCanBeRanked` keeps the other three from being empty: it
builds an order of any finite board, whatever orderings its entries came with, by
inserting one entry at a time (`SetInduction`).

**The header decision** (`StructureHeaderProofs`). `TypeCorrectness` and
`OneDecision` (`DecisionIsFinal`) hold in every mode: a forced setting and a
detected one exclude each other (`ForcedOnce`, `DetectedOnce`), and either is
applied once. `Agreement` (`ServersAgree`) needs that `off` is not among the
modes, which is what `forced_off` refutes, and that logins wait for both
servers. Its invariant follows the setter through its two writes: detected, all
defaults precede the decision (`AgreeAuto`); forced on, every write is the
default (`AgreeOn`).

**Connections** (`PresenceProofs`). `TypeCorrectness` (`TypeOK`) needs no
hypothesis: whatever a timer tears down and whoever shares an address, a handler
runs over a connection that has a PID, which may change but does not become 0
again (`HandlersHavePIDs`). `SeatsWatched` (`SeatsAreWatched`) needs
`HandlersFinish`, without which `phantom` refutes it, and `OneTenant`: an address
is one player's, as a console that takes over an address takes over the
connection there, PID, timers and all. Its invariant adds that a registered connection is at its own address
(`RegisteredByAddress`), that a connection with a timer armed has been connected
(`ConnectionsSound`), and that one inside a handler has a timer armed
(`HandlersWatched`), which is why the seat its handler takes is watched.

**Reliable delivery** (`ReliableStreamProofs`).

| Theorem | Property | Hypotheses |
|---|---|---|
| `TypeCorrectness` | `TypeOK` | none |
| `NothingForgotten` | `MissingPacketsArePending` | none |
| `Implementation` | `ImplementsReliableChannel` | none |

They hold for every modulus, fragmentation, number of goroutines and bound; what
the code does not ensure is not assumed of the constants, but told apart in the
states (`overlapped`, `mistaken`, `MessagesFit`, `listening`). `SenderInv` adds to
the types that no two packets have one number until an ID is confused
(`NumbersDiffer`). `ChannelInv` adds that the queue holds packets under their own IDs
(`QueuedUnderOwn`); that while goroutines send one at a time the packets are the
fragments of the messages sent, in order (`PacketsInOrder`, `OneSends`); and that
while the stream is intact the loop is at the next packet (`InTurn`) and the messages
received and the buffer are what was dispatched (`Reassembled`). The refinement
follows: a turn of the loop is `Deliver` if its fragment is the last of a message,
a stutter otherwise, and `Broken` where the promise has ended.

**Stations** (`StationsProofs`). `TypeCorrectness` (`TypeOK`), `PlayersAnswers`
(`AnswersAreThePlayers`) and `PlayersProbes` (`ProbesReachTheirPlayer`) hold without
a hypothesis: consoles may share addresses and name any connection. Their invariant
says that a connection's PID and those in its URLs are of players it has been of, and
that stamped URLs carry its own ID (`ConnectionsSound`); that the player of a stamped
URL given out is one the connection it names has been of, at any later time
(`GivenOutWasTheirs`), which is what makes an old URL harmless and rests on IDs not
being reused; and the same of a probe (`ProbeReachedTheirs`). Where a connection has
had one player, it follows that this is the player meant.

**Notifications** (`RostersProofs`). For any number of players and gatherings:

| Theorem | Property | Hypotheses |
|---|---|---|
| `TypeCorrectness` | `TypeOK` | none |
| `RightLists` | `ListsAreRight` | `OneConnectionEach = TRUE` |
| `KnownOwners` | `OwnersAreKnown` | `OneConnectionEach = TRUE` |
| `KnownEnds` | `EndsAreKnown` | `OneConnectionEach = TRUE` |

The invariant is about what consoles remember: no two connections are one
player's (`Unique`), every participant with a known address has been told what
its list must hold, and consoles outside a gathering know nothing of it (`Told`),
least of all of one not made yet (`Unheard`). For owners and ends, what is still
on its way is added: a gathering that is not `overlapped` has one announcement at
a time, and a participant who does not know its owner is yet to be sent it
(`NewsOnTheWay`); a console that takes the owner of such a gathering, once it has
ended, for a participant is yet to be told (`EndNews`). Announcements that overtake
each other break exactly these, for their gathering and until the next one that meets
none; `OneConnectionEach` is the one thing assumed that the code does not see to.

**Model-checked only**: the liveness properties `PhantomsLeave` and
`SentIsReceivedOrEnds`. They rest on fairness, and the proof system has no rules
for `ENABLED`. Every invariant and every action property of a passing run is a
theorem, under the hypotheses named above.

## 6. What is not modelled

* Packet formats, encryption, compression, Kerberos tickets: pure conversions.
  Accounts: `main.go:48` fills `knownAccounts` before the servers start and it is
  only read afterwards.
* Wording, logging, the statistics page (it only reads).
* Utility unique IDs: each console reads and writes its own entry.
* `browse` and the `find*` methods, which change nothing and share the filters of
  the automatic matchmakers, which are modelled.
* Published notification data (`SetNotificationData`): a console overwrites its
  own entry, friends read it by polling, and no other step depends on it. It is
  never removed; no text says when it should be.
* `setState`, `updateApplicationBuffer` and `updateProgressScore`, which write
  data nothing else here reads.
* Unreliable packets, and the reliable PING the server queues in `handlePing`.
* A CONNECT repeated within a session, which makes new queues and windows; a
  stream lasts from one CONNECT to the next.
* Torn reads of another connection's station URLs, which Go leaves undefined.
* Handlers in `nex-protocols-common-go` that this program does not register.
* The wrap of the 32-bit gathering ID, and the uint32 connection ID.
* Different `OrderBy` values on one board; the code takes the ordering from
  whichever entry the map yields first.

## 7. Plan

Done: the store and its registry, structure headers, the ranking store and its
queries, connections, notifications, reliable delivery, stations, with the proofs
above. Left, in this order:

1. Composition of `Presence` with `Gatherings`: the seats of `Presence` replaced by
   the store, so that the end of an old connection and a join over the new one
   meet in one model.
2. Published notification data, with the race of a poll and a push.
3. `SessionSearch`: the result range of `browse` and `find*` against a reference
   definition.
