--------------------------- MODULE StructureHeader ---------------------------
(***************************************************************************)
(* Start-up of the two servers and the decision whether NEX structures     *)
(* carry headers (nexserver/structure_header.go, authentication.go,        *)
(* secure.go, main.go).                                                    *)
(*                                                                         *)
(* main starts the two servers in goroutines of their own.  Each publishes *)
(* its server in a global, then sets it up.  The decision is made under    *)
(* structureHeaderMutex, but the servers set up their defaults without it. *)
(* Every read or write of a global or of a header setting that another     *)
(* goroutine can see is a step.                                            *)
(***************************************************************************)
EXTENDS Naturals

CONSTANTS
  Consoles,     \* the consoles that log in
  Modes,        \* the values of FAST_STRUCTURE_HEADER to start with
  LoginsWait,   \* TRUE: no console logs in before both servers listen
  Starter,      \* the goroutine of StartAuthenticationServer, as a setter
  NoOne,        \* nobody: the mutex is free
  Absent        \* the setting of a server not yet constructed (a nil global)

ASSUME HeaderAssumption ==
  /\ Modes \subseteq {"on", "off", "auto"}
  /\ LoginsWait \in BOOLEAN
  /\ Starter \notin Consoles
  /\ NoOne \notin Consoles \cup {Starter}
  /\ Absent \notin BOOLEAN

Servers == {"auth", "secure"}

VARIABLES
  mode,      \* globals.Settings.StructureHeader
  useHeader, \* each server's ByteStreamSettings.UseStructureHeader
  pc,        \* how far each server's start-up has come
  known,     \* structureHeaderKnown
  inUse,     \* structureHeaderInUse
  once,      \* whether structureHeaderOnce has been used
  setter,    \* who is inside setStructureHeader, holding the mutex
  stage,     \* which server's setting the setter writes next
  login      \* each console's login: "idle", or what it has "found" and not
             \* yet handed to structureHeaderOnce

vars == <<mode, useHeader, pc, known, inUse, once, setter, stage, login>>

startup == <<mode, known, inUse, once, setter, stage, login>>

TypeOK ==
  /\ mode \in Modes
  /\ useHeader \in [Servers -> BOOLEAN \cup {Absent}]
  /\ pc \in [Servers -> {"start", "made", "default", "forcing", "listening"}]
  /\ known \in BOOLEAN /\ inUse \in BOOLEAN /\ once \in BOOLEAN
  /\ setter \in Consoles \cup {Starter, NoOne}
  /\ stage \in Servers
  /\ login \in [Consoles -> [state: {"idle", "found"}, header: BOOLEAN]]

Idle == [state |-> "idle", header |-> FALSE]

Listening(s) == pc[s] = "listening"

-----------------------------------------------------------------------------
\* globals.<Server> = nex.NewPRUDPServer(): headers off, and visible.
MakeServer(s) ==
  /\ pc[s] = "start"
  /\ pc' = [pc EXCEPT ![s] = "made"]
  /\ useHeader' = [useHeader EXCEPT ![s] = FALSE]
  /\ UNCHANGED startup

\* ByteStreamSettings.UseStructureHeader = true, the default.
DefaultHeader(s) ==
  /\ pc[s] = "made"
  /\ pc' = [pc EXCEPT ![s] = "default"]
  /\ useHeader' = [useHeader EXCEPT ![s] = TRUE]
  /\ UNCHANGED startup

\* The secure server goes on to listen.
ListenSecure ==
  /\ pc["secure"] = "default"
  /\ pc' = [pc EXCEPT !["secure"] = "listening"]
  /\ UNCHANGED <<useHeader, startup>>

\* setStructureHeader up to its first write to a server.
BeginSet(who, header) ==
  /\ setter = NoOne
  /\ setter' = who
  /\ stage' = "auth"
  /\ known' = TRUE
  /\ inUse' = header

\* applyStructureHeaderMode: force the setting, or leave detection armed.
ApplyStructureHeaderMode ==
  /\ pc["auth"] = "default"
  /\ \/ /\ mode = "auto"
        /\ pc' = [pc EXCEPT !["auth"] = "listening"]
        /\ UNCHANGED <<known, inUse, setter, stage>>
     \/ /\ mode # "auto"
        /\ pc' = [pc EXCEPT !["auth"] = "forcing"]
        /\ BeginSet(Starter, mode = "on")
  /\ UNCHANGED <<mode, useHeader, once, login>>

\* Mutant of WriteSetting: the secure server is never written.
WriteAuthTwice ==
  /\ setter # NoOne
  /\ useHeader' = [useHeader EXCEPT !["auth"] = IF @ = Absent THEN @ ELSE inUse]
  /\ \/ /\ stage = "auth"
        /\ stage' = "secure"
        /\ UNCHANGED <<pc, setter, login>>
     \/ /\ stage = "secure"
        /\ stage' = "auth"
        /\ setter' = NoOne
        /\ pc' = IF setter = Starter THEN [pc EXCEPT !["auth"] = "listening"] ELSE pc
        /\ login' = IF setter = Starter THEN login ELSE [login EXCEPT ![setter] = Idle]
  /\ UNCHANGED <<mode, known, inUse, once>>

\* setStructureHeader writes one server's setting, if that server exists, and
\* after the second one releases the mutex and returns.
WriteSetting ==
  /\ setter # NoOne
  /\ useHeader' = [useHeader EXCEPT ![stage] = IF @ = Absent THEN @ ELSE inUse]
  /\ \/ /\ stage = "auth"
        /\ stage' = "secure"
        /\ UNCHANGED <<pc, setter, login>>
     \/ /\ stage = "secure"
        /\ stage' = "auth"
        /\ setter' = NoOne
        /\ pc' = IF setter = Starter THEN [pc EXCEPT !["auth"] = "listening"] ELSE pc
        /\ login' = IF setter = Starter THEN login ELSE [login EXCEPT ![setter] = Idle]
  /\ UNCHANGED <<mode, known, inUse, once>>

\* detectStructureHeader on a login request that s received: nothing when the
\* mode is forced or the decision made, otherwise look at the login data and
\* find headers, no headers, or neither (and then the default is kept).
Login(c, s) ==
  /\ Listening(s)
  /\ LoginsWait => \A t \in Servers : Listening(t)
  /\ login[c].state = "idle"
  /\ mode = "auto" => setter = NoOne
  /\ \/ mode = "auto" /\ ~known /\ \E header \in BOOLEAN :
          login' = [login EXCEPT ![c] = [state |-> "found", header |-> header]]
     \/ login' = login
  /\ UNCHANGED <<mode, useHeader, pc, known, inUse, once, setter, stage>>

\* Mutant of DecideOnce: no structureHeaderOnce, every detection is applied.
DecideEachTime(c) ==
  /\ login[c].state = "found"
  /\ setter # c
  /\ once' = TRUE
  /\ BeginSet(c, login[c].header)
  /\ UNCHANGED <<mode, useHeader, pc, login>>

\* structureHeaderOnce.Do: the first to come sets, the others wait for it to
\* finish and change nothing.
DecideOnce(c) ==
  /\ login[c].state = "found"
  /\ setter # c
  /\ \/ /\ ~once
        /\ once' = TRUE
        /\ BeginSet(c, login[c].header)
        /\ UNCHANGED login
     \/ /\ once
        /\ setter = NoOne
        /\ login' = [login EXCEPT ![c] = Idle]
        /\ UNCHANGED <<once, setter, stage, known, inUse>>
  /\ UNCHANGED <<mode, useHeader, pc>>

-----------------------------------------------------------------------------
\* Mutant of Init: an unset FAST_STRUCTURE_HEADER stays empty.
InitUnset ==
  /\ mode \in Modes \cup {""}
  /\ useHeader = [s \in Servers |-> Absent]
  /\ pc = [s \in Servers |-> "start"]
  /\ known = FALSE /\ inUse = FALSE /\ once = FALSE
  /\ setter = NoOne
  /\ stage = "auth"
  /\ login = [c \in Consoles |-> Idle]

Init ==
  /\ mode \in Modes
  /\ useHeader = [s \in Servers |-> Absent]
  /\ pc = [s \in Servers |-> "start"]
  /\ known = FALSE /\ inUse = FALSE /\ once = FALSE
  /\ setter = NoOne
  /\ stage = "auth"
  /\ login = [c \in Consoles |-> Idle]

Next ==
  \/ \E s \in Servers : MakeServer(s) \/ DefaultHeader(s)
  \/ ListenSecure
  \/ ApplyStructureHeaderMode
  \/ WriteSetting
  \/ \E c \in Consoles :
       \/ DecideOnce(c)
       \/ \E s \in Servers : Login(c, s)

Spec == Init /\ [][Next]_vars

-----------------------------------------------------------------------------
\* "Both must agree": once both servers listen and no decision is being
\* applied, they use the same setting, and the decided one when there is one.
ServersAgree ==
  (\A s \in Servers : Listening(s)) /\ setter = NoOne
    => /\ useHeader["auth"] = useHeader["secure"]
       /\ known => useHeader["auth"] = inUse

\* The decision is made once: of two first logins that were examined before
\* either was applied, only one counts, even if they disagree.
DecisionIsFinal == [][known => known' /\ inUse' = inUse]_<<known, inUse>>
=============================================================================
