------------------------ MODULE StructureHeaderProofs ------------------------
(***************************************************************************)
(* Theorems about StructureHeader, for any number of consoles.             *)
(***************************************************************************)
EXTENDS StructureHeader, TLAPS

(***************************************************************************)
(* The inductive invariant behind DecisionIsFinal.  A setting has two      *)
(* sources that never meet: a forced mode, applied once by the start-up of *)
(* the authentication server while no login is examined, and detection,    *)
(* where structureHeaderOnce lets one login through.                       *)
(***************************************************************************)
ForcedOnce ==
  mode # "auto" =>
    /\ \A c \in Consoles : login[c].state = "idle"
    /\ known => pc["auth"] \in {"forcing", "listening"}

DetectedOnce == mode = "auto" => setter # Starter /\ (known <=> once)

SetterKnows == setter # NoOne => known

IInv == TypeOK /\ ForcedOnce /\ DetectedOnce /\ SetterKnows

\* Nothing is decided when the servers are started.
LEMMA InitHasIInv == Init => IInv
<1> SUFFICES ASSUME Init PROVE IInv
  OBVIOUS
<1>1. TypeOK
  BY DEF Init, TypeOK, Idle, Servers
<1>2. setter # Starter
  BY HeaderAssumption DEF Init, HeaderAssumption
<1>3. \A c \in Consoles : login[c].state = "idle"
  BY DEF Init, Idle
<1>4. QED
  BY <1>1, <1>2, <1>3 DEF Init, IInv, ForcedOnce, DetectedOnce, SetterKnows

\* The writes of setStructureHeader, and its return.
LEMMA WriteKeepsTypes ==
  ASSUME TypeOK, WriteSetting
  PROVE  TypeOK'
<1>1. setter \in Consoles \cup {Starter}
  BY DEF WriteSetting, TypeOK
<1>2. Idle \in [state: {"idle", "found"}, header: BOOLEAN]
  BY DEF Idle
<1>3. useHeader' \in [Servers -> BOOLEAN \cup {Absent}]
  BY DEF WriteSetting, TypeOK
<1>4. pc' \in [Servers -> {"start", "made", "default", "forcing", "listening"}]
  BY DEF WriteSetting, TypeOK
<1>5. login' \in [Consoles -> [state: {"idle", "found"}, header: BOOLEAN]]
  BY <1>1, <1>2 DEF WriteSetting, TypeOK
<1>6. stage' \in Servers /\ setter' \in Consoles \cup {Starter, NoOne}
  BY DEF WriteSetting, TypeOK, Servers
<1>7. QED
  BY <1>3, <1>4, <1>5, <1>6 DEF WriteSetting, TypeOK

\* The invariant is inductive.
LEMMA NextKeepsIInv == IInv /\ [Next]_vars => IInv'
<1> SUFFICES ASSUME IInv, [Next]_vars PROVE IInv'
  OBVIOUS
<1> USE HeaderAssumption DEF HeaderAssumption, IInv, ForcedOnce, DetectedOnce, SetterKnows
<1>1. ASSUME NEW s \in Servers, MakeServer(s) \/ DefaultHeader(s)
      PROVE  IInv'
  <2>1. TypeOK'
    BY <1>1 DEF MakeServer, DefaultHeader, startup, TypeOK
  <2>2. pc["auth"] \in {"forcing", "listening"} => pc'["auth"] = pc["auth"]
    BY <1>1 DEF MakeServer, DefaultHeader, TypeOK, Servers
  <2>3. UNCHANGED startup
    BY <1>1 DEF MakeServer, DefaultHeader
  <2>4. QED
    BY <2>1, <2>2, <2>3 DEF startup
<1>2. CASE ListenSecure
  BY <1>2 DEF ListenSecure, startup, TypeOK, Servers
<1>3. CASE ApplyStructureHeaderMode
  <2>1. TypeOK'
    BY <1>3 DEF ApplyStructureHeaderMode, BeginSet, TypeOK, Servers
  <2>2. QED
    BY <1>3, <2>1 DEF ApplyStructureHeaderMode, BeginSet, TypeOK, Servers
<1>4. CASE WriteSetting
  <2>1. TypeOK'
    BY <1>4, WriteKeepsTypes
  <2>2. mode # "auto" => \A c \in Consoles : login'[c].state = "idle"
    BY <1>4 DEF WriteSetting, TypeOK, Idle
  <2>3. pc["auth"] \in {"forcing", "listening"} => pc'["auth"] \in {"forcing", "listening"}
    BY <1>4 DEF WriteSetting, TypeOK, Servers
  <2>4. QED
    BY <1>4, <2>1, <2>2, <2>3 DEF WriteSetting
<1>5. ASSUME NEW c \in Consoles, NEW s \in Servers, Login(c, s)
      PROVE  IInv'
  BY <1>5 DEF Login, TypeOK
<1>6. ASSUME NEW c \in Consoles, DecideOnce(c)
      PROVE  IInv'
  <2>1. mode = "auto"
    BY <1>6 DEF DecideOnce
  <2>2. Idle \in [state: {"idle", "found"}, header: BOOLEAN]
    BY DEF Idle
  <2>3. TypeOK'
    <3>1. login[c].header \in BOOLEAN
      BY DEF TypeOK
    <3>2. inUse' \in BOOLEAN /\ known' \in BOOLEAN /\ once' \in BOOLEAN
      BY <1>6, <3>1 DEF DecideOnce, BeginSet, TypeOK
    <3>3. login' \in [Consoles -> [state: {"idle", "found"}, header: BOOLEAN]]
      BY <1>6, <2>2 DEF DecideOnce, TypeOK
    <3>4. setter' \in Consoles \cup {Starter, NoOne} /\ stage' \in Servers
      BY <1>6 DEF DecideOnce, BeginSet, TypeOK, Servers
    <3>5. QED
      BY <1>6, <3>2, <3>3, <3>4 DEF DecideOnce, TypeOK
  <2>4. QED
    BY <1>6, <2>1, <2>3 DEF DecideOnce, BeginSet
<1>7. CASE UNCHANGED vars
  BY <1>7 DEF vars, TypeOK
<1>8. QED
  BY <1>1, <1>2, <1>3, <1>4, <1>5, <1>6, <1>7 DEF Next

\* The invariant holds in every reachable state.
THEOREM Invariance == Spec => []IInv
BY InitHasIInv, NextKeepsIInv, PTL DEF Spec

\* Type correctness, in every mode.
THEOREM TypeCorrectness == Spec => []TypeOK
<1>1. IInv => TypeOK
  BY DEF IInv
<1>2. QED
  BY <1>1, Invariance, PTL

\* Whatever the mode and the order of events, the decision is made once: not
\* by two logins, and not by a login and the start-up.
THEOREM OneDecision == Spec => DecisionIsFinal
<1> DEFINE Final == known => known' /\ inUse' = inUse
<1>1. ASSUME IInv, Next PROVE Final
  <2> USE <1>1 DEF IInv, ForcedOnce, DetectedOnce
  <2>1. CASE ApplyStructureHeaderMode
    BY <2>1 DEF ApplyStructureHeaderMode, BeginSet
  <2>2. CASE \E c \in Consoles : DecideOnce(c)
    <3>1. PICK c \in Consoles : DecideOnce(c)
      BY <2>2
    <3>2. mode = "auto"
      BY <3>1 DEF DecideOnce
    <3>3. QED
      BY <3>1, <3>2 DEF DecideOnce, BeginSet
  <2>3. CASE UNCHANGED <<known, inUse>>
    BY <2>3
  <2>4. QED
    BY <1>1, <2>1, <2>2, <2>3 DEF Next, MakeServer, DefaultHeader, ListenSecure, WriteSetting,
       Login, startup
<1>2. IInv /\ [Next]_vars => [Final]_<<known, inUse>>
  BY <1>1 DEF vars
<1>3. QED
  BY <1>2, Invariance, PTL DEF Spec, DecisionIsFinal

-----------------------------------------------------------------------------
(***************************************************************************)
(* Agreement of the servers, when the setting is not forced off and no     *)
(* console logs in before both servers listen.  Forced on, every write is  *)
(* the default; detected, nothing is decided until the defaults are in     *)
(* place, after which the setter's two writes are the only ones.           *)
(***************************************************************************)
SetUp(s) == pc[s] \in {"default", "forcing", "listening"}

BothListen == \A s \in Servers : Listening(s)

\* Forced on: there is nothing but the default.
AgreeOn ==
  mode = "on" =>
    /\ known => inUse
    /\ \A s \in Servers : SetUp(s) => useHeader[s] = TRUE

\* Detected: the default until the decision, then the setter's writes in turn.
AgreeAuto ==
  mode = "auto" =>
    /\ pc["auth"] # "forcing"
    /\ known \/ (\E c \in Consoles : login[c].state = "found") => BothListen
    /\ ~known => \A s \in Servers : SetUp(s) => useHeader[s] = TRUE
    /\ known /\ (setter = NoOne \/ stage = "secure") => useHeader["auth"] = inUse
    /\ known /\ setter = NoOne => useHeader["secure"] = inUse

\* A server that exists has a setting.
Made == \A s \in Servers : pc[s] # "start" => useHeader[s] # Absent

\* The inductive invariant of this section.
AgreeInv ==
  /\ IInv
  /\ Made
  /\ setter = NoOne => stage = "auth"
  /\ pc["secure"] # "forcing"
  /\ AgreeOn
  /\ AgreeAuto

\* A server set up by its own goroutine has the default.
LEMMA SetupAgrees ==
  ASSUME AgreeInv, NEW s \in Servers, MakeServer(s) \/ DefaultHeader(s)
  PROVE  AgreeInv'
<1>1. IInv'
  <2>1. Next
    BY DEF Next
  <2>2. QED
    BY <2>1, NextKeepsIInv DEF AgreeInv
<1>2. UNCHANGED startup /\ ~Listening(s)
  BY DEF MakeServer, DefaultHeader, Listening
<1>3. /\ \A t \in Servers : t # s => pc'[t] = pc[t] /\ useHeader'[t] = useHeader[t]
      /\ \/ pc'[s] = "made" /\ useHeader'[s] = FALSE
         \/ pc'[s] = "default" /\ useHeader'[s] = TRUE
  BY DEF MakeServer, DefaultHeader, AgreeInv, IInv, TypeOK
<1>4. Made'
  BY <1>3, HeaderAssumption DEF Made, AgreeInv, HeaderAssumption
<1>5. AgreeOn'
  BY <1>2, <1>3 DEF AgreeOn, AgreeInv, SetUp, startup
<1>6. AgreeAuto'
  <2>1. ASSUME mode = "auto"
        PROVE  ~known /\ ~\E c \in Consoles : login[c].state = "found"
    BY <1>2, <2>1 DEF AgreeAuto, AgreeInv, BothListen
  <2>2. "auth" \in Servers
    BY DEF Servers
  <2>3. mode = "auto" => pc'["auth"] # "forcing"
    BY <1>3, <2>2 DEF AgreeAuto, AgreeInv
  <2>4. mode = "auto" => \A t \in Servers : SetUp(t)' => useHeader'[t] = TRUE
    BY <1>3, <2>1 DEF AgreeAuto, AgreeInv, SetUp
  <2>5. QED
    BY <1>2, <2>1, <2>3, <2>4 DEF AgreeAuto, startup
<1>7. pc'["secure"] # "forcing"
  <2>1. "secure" \in Servers
    BY DEF Servers
  <2>2. QED
    BY <1>3, <2>1 DEF AgreeInv
<1>8. QED
  BY <1>1, <1>2, <1>4, <1>5, <1>6, <1>7 DEF AgreeInv, startup

\* The writes of a setter make the servers agree on what it decided.
LEMMA WriteAgrees ==
  ASSUME AgreeInv, mode \in {"on", "auto"}, WriteSetting
  PROVE  AgreeInv'
<1>1. IInv'
  <2>1. Next
    BY DEF Next
  <2>2. QED
    BY <2>1, NextKeepsIInv DEF AgreeInv
<1>2. /\ known /\ known' = known /\ inUse' = inUse /\ mode' = mode
      /\ stage \in Servers /\ inUse \in BOOLEAN
      /\ \A t \in Servers : t # stage => useHeader'[t] = useHeader[t]
      /\ useHeader[stage] # Absent => useHeader'[stage] = inUse
      /\ useHeader[stage] = Absent => useHeader'[stage] = Absent
  BY DEF WriteSetting, AgreeInv, IInv, SetterKnows, TypeOK
<1>3. /\ pc'["secure"] = pc["secure"]
      /\ pc'["auth"] = pc["auth"] \/ (setter = Starter /\ pc'["auth"] = "listening")
  BY DEF WriteSetting, AgreeInv, IInv, TypeOK, Servers
<1>4. setter = Starter => mode # "auto" /\ pc["auth"] \in {"forcing", "listening"}
  BY <1>2 DEF AgreeInv, IInv, DetectedOnce, ForcedOnce
<1>5. \A t \in Servers : /\ pc[t] = "start" <=> pc'[t] = "start"
                         /\ SetUp(t) <=> SetUp(t)'
  BY <1>3, <1>4 DEF Servers, SetUp
<1>6. Made'
  BY <1>2, <1>5, HeaderAssumption DEF Made, AgreeInv, HeaderAssumption
<1>7. AgreeOn'
  <2>1. SUFFICES ASSUME mode = "on" PROVE AgreeOn'
    BY <1>2 DEF AgreeOn
  <2>2. inUse = TRUE
    BY <1>2, <2>1 DEF AgreeOn, AgreeInv
  <2>3. ASSUME NEW t \in Servers, SetUp(t)
        PROVE  useHeader'[t] = TRUE
    <3>1. useHeader[t] = TRUE
      BY <2>1, <2>3 DEF AgreeOn, AgreeInv
    <3>2. useHeader[t] # Absent
      BY <2>3 DEF Made, AgreeInv, SetUp
    <3>3. QED
      BY <1>2, <2>2, <3>1, <3>2
  <2>4. QED
    BY <1>2, <1>5, <2>2, <2>3 DEF AgreeOn
<1>8. AgreeAuto'
  <2>1. SUFFICES ASSUME mode = "auto" PROVE AgreeAuto'
    BY <1>2 DEF AgreeAuto
  <2>2. BothListen /\ pc' = pc
    <3>1. setter # Starter
      BY <1>4, <2>1
    <3>2. QED
      BY <1>2, <2>1, <3>1 DEF AgreeAuto, AgreeInv, WriteSetting
  <2>3. useHeader'[stage] = inUse
    BY <1>2, <2>2 DEF AgreeInv, Made, BothListen, Listening
  <2>4. CASE stage = "auth"
    <3>1. stage' = "secure" /\ setter' = setter /\ setter # NoOne
      BY <2>4 DEF WriteSetting
    <3>2. QED
      BY <1>2, <2>1, <2>2, <2>3, <2>4, <3>1 DEF AgreeAuto, AgreeInv, BothListen, Listening
  <2>5. CASE stage = "secure"
    <3>1. useHeader["auth"] = inUse
      BY <1>2, <2>1, <2>5 DEF AgreeAuto, AgreeInv
    <3>2. useHeader'["auth"] = inUse
      BY <1>2, <2>5, <3>1 DEF Servers
    <3>3. QED
      BY <1>2, <2>1, <2>2, <2>3, <2>5, <3>2 DEF AgreeAuto, AgreeInv, BothListen, Listening
  <2>6. QED
    BY <1>2, <2>4, <2>5 DEF Servers
<1>9. setter' = NoOne => stage' = "auth"
  BY DEF WriteSetting
<1>10. QED
  BY <1>1, <1>3, <1>6, <1>7, <1>8, <1>9 DEF AgreeInv

\* The invariant is inductive.
LEMMA NextKeepsAgreeInv ==
  ASSUME Modes \subseteq {"on", "auto"}, LoginsWait = TRUE, AgreeInv, [Next]_vars
  PROVE  AgreeInv'
<1>1. IInv'
  BY NextKeepsIInv DEF AgreeInv
<1>2. mode \in {"on", "auto"} /\ "auth" \in Servers /\ "secure" \in Servers
  BY DEF AgreeInv, IInv, TypeOK, Servers
<1>3. CASE \E s \in Servers : MakeServer(s) \/ DefaultHeader(s)
  BY <1>3, SetupAgrees
<1>4. CASE WriteSetting
  BY <1>2, <1>4, WriteAgrees
<1>5. CASE ListenSecure
  <2>1. /\ UNCHANGED <<startup, useHeader>> /\ pc["secure"] = "default"
        /\ pc'["secure"] = "listening" /\ pc'["auth"] = pc["auth"]
    BY <1>5 DEF ListenSecure, AgreeInv, IInv, TypeOK, Servers
  <2>2. \A s \in Servers : /\ pc[s] = "start" <=> pc'[s] = "start"
                           /\ SetUp(s) <=> SetUp(s)'
                           /\ Listening(s) => Listening(s)'
    BY <2>1 DEF Servers, SetUp, Listening
  <2>3. QED
    BY <1>1, <2>1, <2>2 DEF AgreeInv, Made, AgreeOn, AgreeAuto, BothListen, startup
<1>6. CASE ApplyStructureHeaderMode
  <2>1. /\ UNCHANGED <<mode, useHeader, once, login>> /\ pc["auth"] = "default"
        /\ pc'["secure"] = pc["secure"]
        /\ \/ /\ mode = "auto" /\ pc'["auth"] = "listening"
              /\ UNCHANGED <<known, inUse, setter, stage>>
           \/ mode = "on" /\ pc'["auth"] = "forcing" /\ known' = TRUE /\ inUse' = TRUE
                /\ stage' = "auth" /\ setter' = Starter
    BY <1>2, <1>6 DEF ApplyStructureHeaderMode, BeginSet, AgreeInv, IInv, TypeOK, Servers
  <2>2. \A s \in Servers : /\ pc[s] = "start" <=> pc'[s] = "start"
                           /\ SetUp(s) <=> SetUp(s)'
                           /\ Listening(s) => Listening(s)'
    BY <2>1 DEF Servers, SetUp, Listening
  <2>3. Made' /\ AgreeOn'
    BY <2>1, <2>2 DEF AgreeInv, Made, AgreeOn
  <2>4. AgreeAuto'
    BY <2>1, <2>2 DEF AgreeInv, AgreeAuto, BothListen
  <2>5. QED
    BY <1>1, <2>1, <2>3, <2>4 DEF AgreeInv
<1>7. ASSUME NEW c \in Consoles, NEW s \in Servers, Login(c, s)
      PROVE  AgreeInv'
  <2>1. BothListen /\ UNCHANGED <<mode, useHeader, pc, known, inUse, once, setter, stage>>
    BY <1>7, LoginsWait = TRUE DEF Login, BothListen
  <2>2. QED
    BY <1>1, <2>1 DEF AgreeInv, Made, AgreeOn, AgreeAuto, BothListen, SetUp, Listening
<1>8. ASSUME NEW c \in Consoles, DecideOnce(c)
      PROVE  AgreeInv'
  <2>1. mode = "auto" /\ BothListen /\ mode' = mode /\ pc' = pc /\ useHeader' = useHeader
    BY <1>2, <1>8 DEF DecideOnce, AgreeInv, IInv, ForcedOnce, AgreeAuto
  <2>2. CASE ~once
    <3>1. setter' = c /\ stage' = "auth" /\ known' = TRUE
      BY <1>8, <2>2 DEF DecideOnce, BeginSet
    <3>2. c # NoOne
      BY HeaderAssumption DEF HeaderAssumption
    <3>3. QED
      BY <1>1, <2>1, <3>1, <3>2
         DEF AgreeInv, Made, AgreeOn, AgreeAuto, BothListen, SetUp, Listening
  <2>3. CASE once
    <3>1. UNCHANGED <<setter, stage, known, inUse>>
      BY <1>8, <2>3 DEF DecideOnce
    <3>2. QED
      BY <1>1, <2>1, <3>1 DEF AgreeInv, Made, AgreeOn, AgreeAuto, BothListen, SetUp, Listening
  <2>4. QED
    BY <2>2, <2>3
<1>9. CASE UNCHANGED vars
  BY <1>1, <1>9 DEF vars, AgreeInv, Made, AgreeOn, AgreeAuto, BothListen, SetUp, Listening
<1>10. QED
  BY <1>3, <1>4, <1>5, <1>6, <1>7, <1>8, <1>9 DEF Next

\* Forced on or detected, both servers come to the same setting, the decided
\* one.
THEOREM Agreement ==
  ASSUME Modes \subseteq {"on", "auto"}, LoginsWait = TRUE
  PROVE  Spec => []ServersAgree
<1>1. Init => AgreeInv
  <2> SUFFICES ASSUME Init PROVE AgreeInv
    OBVIOUS
  <2>1. \A s \in Servers : pc[s] = "start"
    BY DEF Init
  <2>2. "auth" \in Servers /\ "secure" \in Servers
    BY DEF Servers
  <2>3. \A c \in Consoles : login[c].state = "idle"
    BY DEF Init, Idle
  <2>4. QED
    BY <2>1, <2>2, <2>3, InitHasIInv DEF Init, AgreeInv, Made, AgreeOn, AgreeAuto, SetUp
<1>2. AgreeInv /\ [Next]_vars => AgreeInv'
  BY NextKeepsAgreeInv
<1>3. AgreeInv => ServersAgree
  <2> SUFFICES ASSUME AgreeInv, BothListen, setter = NoOne
               PROVE  /\ useHeader["auth"] = useHeader["secure"]
                      /\ known => useHeader["auth"] = inUse
    BY DEF ServersAgree, BothListen
  <2>1. SetUp("auth") /\ SetUp("secure") /\ "auth" \in Servers /\ "secure" \in Servers
    BY DEF BothListen, Listening, SetUp, Servers
  <2>2. mode \in {"on", "auto"}
    BY DEF AgreeInv, IInv, TypeOK
  <2>3. CASE mode = "on"
    <3>1. known => inUse = TRUE
      BY <2>3 DEF AgreeInv, AgreeOn, IInv, TypeOK
    <3>2. QED
      BY <2>1, <2>3, <3>1 DEF AgreeInv, AgreeOn
  <2>4. CASE mode = "auto"
    BY <2>1, <2>4 DEF AgreeInv, AgreeAuto
  <2>5. QED
    BY <2>2, <2>3, <2>4
<1>4. QED
  BY <1>1, <1>2, <1>3, PTL DEF Spec
=============================================================================
