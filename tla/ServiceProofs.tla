--------------------------- MODULE ServiceProofs ---------------------------
(***************************************************************************)
(* Theorems about SocialService, for any apps, secrets, requests and       *)
(* bounds: type correctness, that the configuration shown is the one in    *)
(* use, that whoever answers an authorization URL is served, that a        *)
(* credential holds a token of its own server, and that nothing runs after *)
(* Stop.                                                                   *)
(*                                                                         *)
(* They rest on one invariant, Inv, whose parts need each other: the types *)
(* of a callback come from the state of its URL (StatesSound), and that    *)
(* from there being a client as long as a connect call runs.               *)
(***************************************************************************)
EXTENDS SocialService, TLAPS

USE DEF vars, database, lifecycle, requests, history, limits

-----------------------------------------------------------------------------
(***************************************************************************)
(* The invariant.                                                          *)
(***************************************************************************)

\* A process that has not started has nothing.
NotStarted ==
  stage = "down" =>
    /\ ~registered /\ ~routed /\ sched = "none" /\ router = 0
    /\ \A r \in Configurers : configurers[r] = Idle
    /\ \A b \in Callbacks : callbacks[b] = Idle
    /\ \A s \in States : states[s].phase # "inserted"

Started == Up => secret \in Secrets

\* The platform is configured, in the database or in social.Config.
Configured == row # NoRow \/ env # None

\* Somebody has the URL of the state, or is about to get it.
Waiting(s) == states[s].phase \in {"inserted", "open"}

\* A connection is only started where there is a client, and a configuration
\* is never taken away again.
StatesSound ==
  /\ \A r \in Configurers : configurers[r] # Idle => row # NoRow
  /\ Up /\ client # None => Configured
  /\ \A s \in States :
       /\ Waiting(s) => Configured
       /\ Waiting(s) /\ Up /\ client = None => failed /\ states[s].phase = "open"
       /\ states[s].phase = "open" => states[s].app \in Apps
       /\ states[s].phase = "inserted" /\ platform = "x" => states[s].app \in Apps

\* Register mounts the callback route, unless the client came later.
RouteSound == registered => routed \/ late \/ client = None

\* What configuration call r has saved is still in the row.
Saved(r) == row = [app |-> configurers[r].app, secret |-> secret]

\* Calls that do not overlap: the one between its two steps has written the
\* row, and when there is none the client is what the row says.
ConfigSound ==
  Up /\ ~overlapped =>
    /\ \A r, q \in Configurers :
         configurers[r].pc = "reload" => Saved(r) /\ (configurers[q].pc = "reload" => q = r)
    /\ ~failed /\ (\A r \in Configurers : configurers[r] = Idle) =>
         \/ row = NoRow /\ client = env
         \/ row = [app |-> client, secret |-> secret]

\* A callback that saves still has the client its code was exchanged with,
\* unless that was replaced meanwhile.
CallbacksSound ==
  \A b \in Callbacks : callbacks[b].pc = "save" /\ callbacks[b].calm => client = callbacks[b].app

\* Who may be running at each stage of Stop.
StopSound ==
  /\ sched = "running" => registered
  /\ stage \in {"stopRouter", "awaitRouter", "stopped"} => sched # "running"
  /\ \A w \in Routers : workers[w] = "running" => w <= router
  /\ stage = "stopped" => router = 0 \/ workers[router] = "done"

Inv ==
  /\ TypeOK /\ NotStarted /\ Started
  /\ StatesSound /\ RouteSound /\ ConfigSound /\ CallbacksSound /\ StopSound

-----------------------------------------------------------------------------
(***************************************************************************)
(* Types, in groups that most actions leave alone.                         *)
(***************************************************************************)

PlatformTypes ==
  /\ platform \in {"mastodon", "linkedin", "x"}
  /\ env \in Apps \cup {None} /\ client \in Apps \cup {None}
  /\ secret \in Secrets \cup {None}

RowTypes ==
  row \in {NoRow} \cup [app: Apps, secret: Secrets]

TokenTypes ==
  tokens \in [Servers -> {NoToken} \cup [issuer: Apps, calm: BOOLEAN]]

StateTypes ==
  states \in [States -> [phase: {"unborn", "inserted", "open", "spent"}, app: Apps \cup {None}]]

StageTypes ==
  /\ stage \in {"down", "setup", "serving", "awaitScheduler", "stopRouter", "awaitRouter",
                "stopped"}
  /\ registered \in BOOLEAN /\ routed \in BOOLEAN
  /\ sched \in {"none", "running", "done"} /\ cancelled \in BOOLEAN

RouterTypes ==
  /\ router \in 0..MaxRouters /\ closed \subseteq Routers
  /\ workers \in [Routers -> {"none", "running", "done"}]

ConfigurerTypes ==
  configurers \in [Configurers -> {Idle} \cup [pc: {"reload"}, app: Apps, calm: {TRUE}]]

CallbackTypes ==
  callbacks \in [Callbacks -> {Idle} \cup [pc: {"exchange", "save"}, app: Apps, calm: BOOLEAN]]

HistoryTypes == failed \in BOOLEAN /\ overlapped \in BOOLEAN /\ late \in BOOLEAN

LimitTypes == changesLeft \in Nat /\ startsLeft \in Nat /\ faultsLeft \in Nat

LEMMA TypeParts ==
  /\ TypeOK <=> /\ PlatformTypes /\ RowTypes /\ TokenTypes /\ StateTypes /\ StageTypes
                /\ RouterTypes /\ ConfigurerTypes /\ CallbackTypes /\ HistoryTypes /\ LimitTypes
  /\ TypeOK' <=> /\ PlatformTypes' /\ RowTypes' /\ TokenTypes' /\ StateTypes' /\ StageTypes'
                 /\ RouterTypes' /\ ConfigurerTypes' /\ CallbackTypes' /\ HistoryTypes'
                 /\ LimitTypes'
<1>1. {changesLeft, startsLeft, faultsLeft} \subseteq Nat <=> LimitTypes
  BY DEF LimitTypes
<1>2. {changesLeft', startsLeft', faultsLeft'} \subseteq Nat <=> LimitTypes'
  BY DEF LimitTypes
<1> QED
  BY <1>1, <1>2
  DEF TypeOK, PlatformTypes, RowTypes, TokenTypes, StateTypes, StageTypes, RouterTypes,
      ConfigurerTypes, CallbackTypes, HistoryTypes

LEMMA Bounds ==
  MaxRouters \in Nat /\ MaxChanges \in Nat /\ MaxStarts \in Nat /\ MaxFaults \in Nat
BY BoundAssumption

LEMMA InitTypes == Init => TypeOK
<1> SUFFICES ASSUME Init PROVE TypeOK
  OBVIOUS
<1>1. PlatformTypes /\ RowTypes
  BY DEF Init, PlatformTypes, RowTypes
<1>2. TokenTypes /\ StateTypes /\ StageTypes
  BY DEF Init, TokenTypes, StateTypes, StageTypes
<1>3. RouterTypes
  BY Bounds DEF Init, RouterTypes
<1>4. HistoryTypes /\ LimitTypes
  BY Bounds DEF Init, HistoryTypes, LimitTypes
<1>5. ConfigurerTypes /\ CallbackTypes
  BY DEF Init, ConfigurerTypes, CallbackTypes
<1> QED
  BY <1>1, <1>2, <1>3, <1>4, <1>5, TypeParts

\* A request in progress is for an app.
LEMMA ConfigurerApp ==
  ASSUME TypeOK, NEW r \in Configurers, configurers[r].pc = "reload"
  PROVE  configurers[r].app \in Apps
<1>1. configurers[r] # Idle
  BY DEF Idle
<1>2. configurers[r] \in [pc: {"reload"}, app: Apps, calm: {TRUE}]
  BY <1>1, TypeParts DEF ConfigurerTypes
<1> QED
  BY <1>2

LEMMA CallbackApp ==
  ASSUME TypeOK, NEW b \in Callbacks, callbacks[b].pc \in {"exchange", "save"}
  PROVE  callbacks[b].app \in Apps /\ callbacks[b].calm \in BOOLEAN
<1>1. callbacks[b] # Idle
  BY DEF Idle
<1>2. callbacks[b] \in [pc: {"exchange", "save"}, app: Apps, calm: BOOLEAN]
  BY <1>1, TypeParts DEF CallbackTypes
<1> QED
  BY <1>2

LEMMA IdleStaysIdle == [Idle EXCEPT !.calm = TRUE] = Idle
<1> DEFINE c == [Idle EXCEPT !.calm = TRUE]
<1>1. /\ DOMAIN c = {"pc", "app", "calm"}
      /\ c.pc = Idle.pc /\ c.app = Idle.app /\ c.calm = Idle.calm
  BY DEF Idle
<1> QED
  BY <1>1 DEF Idle

\* A group whose variables do not change keeps its types.
LEMMA TypesKept ==
  ASSUME TypeOK
  PROVE  /\ UNCHANGED <<platform, env, client, secret>> => PlatformTypes'
         /\ UNCHANGED row => RowTypes'
         /\ UNCHANGED <<platform, tokens>> => TokenTypes'
         /\ UNCHANGED states => StateTypes'
         /\ UNCHANGED <<stage, registered, routed, sched, cancelled>> => StageTypes'
         /\ UNCHANGED <<router, closed, workers>> => RouterTypes'
         /\ UNCHANGED configurers => ConfigurerTypes'
         /\ UNCHANGED callbacks => CallbackTypes'
         /\ UNCHANGED <<failed, overlapped, late>> => HistoryTypes'
         /\ UNCHANGED <<changesLeft, startsLeft, faultsLeft>> => LimitTypes'
<1> USE TypeParts
<1>1. UNCHANGED <<platform, env, client, secret>> => PlatformTypes'
  BY DEF PlatformTypes
<1>2. UNCHANGED row => RowTypes'
  BY DEF RowTypes
<1>3. UNCHANGED <<platform, tokens>> => TokenTypes'
  BY DEF TokenTypes, Servers
<1>4. UNCHANGED states => StateTypes'
  BY DEF StateTypes
<1>5. UNCHANGED <<stage, registered, routed, sched, cancelled>> => StageTypes'
  BY DEF StageTypes
<1>6. UNCHANGED <<router, closed, workers>> => RouterTypes'
  BY DEF RouterTypes
<1>7. UNCHANGED configurers => ConfigurerTypes'
  BY DEF ConfigurerTypes
<1>8. UNCHANGED callbacks => CallbackTypes'
  BY DEF CallbackTypes
<1>9. UNCHANGED <<failed, overlapped, late>> => HistoryTypes'
  BY DEF HistoryTypes
<1>10. UNCHANGED <<changesLeft, startsLeft, faultsLeft>> => LimitTypes'
  BY DEF LimitTypes
<1> QED
  BY <1>1, <1>2, <1>3, <1>4, <1>5, <1>6, <1>7, <1>8, <1>9, <1>10

LEMMA TypeStep ==
  ASSUME Inv, Next
  PROVE  TypeOK'
<1> USE TypeParts, TypesKept
<1>0. TypeOK /\ Started /\ StatesSound
  BY DEF Inv
<1>1. ASSUME NEW k \in Secrets, New(k) PROVE TypeOK'
  <2>1. PlatformTypes'
    BY <1>0, <1>1 DEF New, PlatformTypes, RowTypes, NoRow
  <2>2. LimitTypes'
    BY <1>0, <1>1 DEF New, LimitTypes, NoFault, Fault
  <2>3. HistoryTypes' /\ StageTypes'
    BY <1>0, <1>1 DEF New, HistoryTypes, StageTypes
  <2> QED
    BY <1>0, <1>1, <2>1, <2>2, <2>3 DEF New
<1>2. CASE Register
  <2>1. StageTypes'
    BY <1>0, <1>2 DEF Register, MountsRoute, StageTypes
  <2> QED
    BY <1>0, <1>2, <2>1 DEF Register
<1>3. CASE AddRoutes
  <2>1. RouterTypes'
    BY <1>0, <1>3, Bounds DEF AddRoutes, RouterTypes, Routers
  <2> QED
    BY <1>0, <1>3, <2>1 DEF AddRoutes
<1>4. CASE Run
  <2>1. StageTypes'
    BY <1>0, <1>4 DEF Run, StageTypes
  <2> QED
    BY <1>0, <1>4, <2>1 DEF Run
<1>5. ASSUME NEW r \in Configurers, reloadPlatformClient(r) PROVE TypeOK'
  <2>1. configurers[r].app \in Apps
    BY <1>0, <1>5, ConfigurerApp DEF reloadPlatformClient
  <2>2. PlatformTypes'
    BY <1>0, <1>5, <2>1 DEF reloadPlatformClient, PlatformTypes
  <2>3. ConfigurerTypes'
    BY <1>0, <1>5 DEF reloadPlatformClient, ConfigurerTypes
  <2>4. CallbackTypes'
    <3>1. ASSUME NEW b \in Callbacks
          PROVE  [callbacks[b] EXCEPT !.calm = callbacks[b] = Idle]
                   \in {Idle} \cup [pc: {"exchange", "save"}, app: Apps, calm: BOOLEAN]
      <4>1. CASE callbacks[b] = Idle
        BY <4>1, IdleStaysIdle
      <4>2. CASE callbacks[b] # Idle
        <5>1. callbacks[b] \in [pc: {"exchange", "save"}, app: Apps, calm: BOOLEAN]
          BY <1>0, <4>2 DEF CallbackTypes
        <5> QED
          BY <4>2, <5>1
      <4> QED
        BY <4>1, <4>2
    <3> QED
      BY <1>5, <3>1 DEF reloadPlatformClient, CallbackTypes
  <2>5. HistoryTypes'
    BY <1>0, <1>5 DEF reloadPlatformClient, HistoryTypes
  <2> QED
    BY <1>0, <1>5, <2>2, <2>3, <2>4, <2>5 DEF reloadPlatformClient
<1>6. ASSUME NEW r \in Configurers, NEW a \in Apps, save(r, a) PROVE TypeOK'
  <2>1. RowTypes'
    <3>1. secret \in Secrets
      BY <1>0, <1>6 DEF save, Started, Up
    <3>2. [app |-> a, secret |-> secret] \in [app: Apps, secret: Secrets]
      BY <3>1
    <3> QED
      BY <1>0, <1>6, <3>2 DEF save, RowTypes
  <2>2. ConfigurerTypes'
    BY <1>0, <1>6 DEF save, ConfigurerTypes, Idle
  <2>3. LimitTypes'
    <3>1. faultsLeft' \in Nat
      <4>1. NoFault \/ Fault
        BY <1>6 DEF save
      <4> QED
        BY <1>0, <4>1 DEF LimitTypes, NoFault, Fault
    <3>2. changesLeft' \in Nat /\ startsLeft' \in Nat
      BY <1>0, <1>6 DEF save, LimitTypes
    <3> QED
      BY <3>1, <3>2 DEF LimitTypes
  <2>4. HistoryTypes'
    BY <1>0, <1>6 DEF save, HistoryTypes
  <2> QED
    BY <1>0, <1>6, <2>1, <2>2, <2>3, <2>4 DEF save
<1>7. ASSUME NEW s \in States, MCPCreate(s) PROVE TypeOK'
  <2>1. StateTypes'
    BY <1>0, <1>7 DEF MCPCreate, StateTypes, PlatformTypes
  <2>2. LimitTypes'
    BY <1>0, <1>7 DEF MCPCreate, LimitTypes, NoFault, Fault
  <2> QED
    BY <1>0, <1>7, <2>1, <2>2 DEF MCPCreate
<1>8. ASSUME NEW s \in States, authURL(s) PROVE TypeOK'
  <2>1. StateTypes'
    BY <1>0, <1>8 DEF authURL, StateTypes, PlatformTypes
  <2> QED
    BY <1>0, <1>8, <2>1 DEF authURL
<1>9. ASSUME NEW b \in Callbacks, exchangeCode(b) PROVE TypeOK'
  <2>1. callbacks[b].app \in Apps
    BY <1>0, <1>9, CallbackApp DEF exchangeCode
  <2>2. CallbackTypes'
    BY <1>0, <1>9, <2>1 DEF exchangeCode, CallbackTypes, Idle
  <2> QED
    BY <1>0, <1>9, <2>2 DEF exchangeCode
<1>10. ASSUME NEW b \in Callbacks, SaveCredential(b) PROVE TypeOK'
  <2>1. callbacks[b].app \in Apps /\ callbacks[b].calm \in BOOLEAN
    BY <1>0, <1>10, CallbackApp DEF SaveCredential
  <2>2. TokenTypes'
    BY <1>0, <1>10, <2>1 DEF SaveCredential, TokenTypes, Servers
  <2>3. CallbackTypes'
    BY <1>0, <1>10 DEF SaveCredential, CallbackTypes
  <2>4. LimitTypes'
    BY <1>0, <1>10 DEF SaveCredential, LimitTypes, NoFault, Fault
  <2> QED
    BY <1>0, <1>10, <2>2, <2>3, <2>4 DEF SaveCredential
<1>11. ASSUME NEW b \in Callbacks, NEW s \in States, Callback(b, s) PROVE TypeOK'
  <2>1. states[s].app \in Apps
    BY <1>0, <1>11 DEF Callback, StatesSound
  <2>2. CallbackTypes'
    BY <1>0, <1>11, <2>1 DEF Callback, CallbackTypes, Idle
  <2>3. StateTypes'
    BY <1>0, <1>11 DEF Callback, StateTypes
  <2> QED
    BY <1>0, <1>11, <2>2, <2>3 DEF Callback
<1>12. CASE Stop \/ SchedulerStopped \/ stopWorker \/ WorkerStopped \/ SchedulerExits
  <2>1. StageTypes'
    BY <1>0, <1>12 DEF Stop, SchedulerStopped, stopWorker, WorkerStopped, SchedulerExits,
                       StopChanges, StageTypes
  <2>2. RouterTypes'
    BY <1>0, <1>12, Bounds DEF Stop, SchedulerStopped, stopWorker, WorkerStopped, SchedulerExits,
                               StopChanges, RouterTypes, Routers
  <2> QED
    BY <1>0, <1>12, <2>1, <2>2 DEF Stop, SchedulerStopped, stopWorker, WorkerStopped,
                                   SchedulerExits, StopChanges
<1>13. ASSUME NEW w \in Routers, WorkerExits(w) PROVE TypeOK'
  <2>1. StageTypes' /\ RouterTypes'
    BY <1>0, <1>13 DEF WorkerExits, StopChanges, StageTypes, RouterTypes
  <2> QED
    BY <1>0, <1>13, <2>1 DEF WorkerExits, StopChanges
<1>14. CASE Halt
  <2>1. PlatformTypes' /\ StageTypes' /\ HistoryTypes'
    BY <1>0, <1>14 DEF Halt, PlatformTypes, StageTypes, HistoryTypes
  <2>2. RouterTypes' /\ ConfigurerTypes' /\ CallbackTypes'
    BY <1>0, <1>14, Bounds DEF Halt, RouterTypes, ConfigurerTypes, CallbackTypes
  <2>3. StateTypes'
    BY <1>0, <1>14 DEF Halt, StateTypes
  <2> QED
    BY <1>0, <1>14, <2>1, <2>2, <2>3 DEF Halt
<1> QED
  BY <1>1, <1>2, <1>3, <1>4, <1>5, <1>6, <1>7, <1>8, <1>9, <1>10, <1>11, <1>12, <1>13, <1>14
  DEF Next

-----------------------------------------------------------------------------
(***************************************************************************)
(* The rest of the invariant, part by part.                                *)
(***************************************************************************)

\* When there is no process, all that can happen is that one starts.
LEMMA DownStep ==
  ASSUME Inv, Next, stage = "down"
  PROVE  \E k \in Secrets : New(k)
<1>1. NotStarted /\ StopSound
  BY DEF Inv
<1>2. ~Register /\ ~AddRoutes /\ ~Run /\ ~Stop /\ ~SchedulerStopped /\ ~stopWorker /\ ~WorkerStopped
  BY DEF Register, AddRoutes, Run, Stop, SchedulerStopped, stopWorker, WorkerStopped
<1>3. ASSUME NEW r \in Configurers
      PROVE  ~reloadPlatformClient(r) /\ \A a \in Apps : ~save(r, a)
  BY <1>1 DEF NotStarted, reloadPlatformClient, save, Idle
<1>4. ASSUME NEW s \in States
      PROVE  ~MCPCreate(s) /\ ~authURL(s)
  BY DEF MCPCreate, authURL, Up
<1>5. ASSUME NEW b \in Callbacks
      PROVE  ~exchangeCode(b) /\ ~SaveCredential(b) /\ \A s \in States : ~Callback(b, s)
  BY <1>1 DEF NotStarted, exchangeCode, SaveCredential, Callback, Idle
<1>6. ~SchedulerExits /\ ~Halt
  BY <1>1 DEF NotStarted, SchedulerExits, Halt, Up
<1>7. ASSUME NEW w \in Routers PROVE ~WorkerExits(w)
  BY <1>1, Bounds DEF NotStarted, StopSound, WorkerExits, Routers
<1> QED
  BY <1>2, <1>3, <1>4, <1>5, <1>6, <1>7 DEF Next

LEMMA NotStartedStep ==
  ASSUME Inv, Next
  PROVE  NotStarted'
<1>1. ASSUME stage' = "down" PROVE Halt
  <2>1. CASE stage = "down"
    BY <1>1, <2>1, DownStep DEF New
  <2>2. CASE stage # "down"
    BY <1>1, <2>2
    DEF Next, New, Register, AddRoutes, Run, reloadPlatformClient, save, MCPCreate, authURL,
        exchangeCode, SaveCredential, Callback, Stop, SchedulerStopped, stopWorker, WorkerStopped,
        SchedulerExits, WorkerExits, StopChanges
  <2> QED
    BY <2>1, <2>2
<1>2. ASSUME Halt PROVE NotStarted'
  <2>1. \A s \in States : states'[s].phase # "inserted"
    BY <1>2 DEF Halt, Inv, TypeOK
  <2> QED
    BY <1>2, <2>1 DEF Halt, NotStarted
<1> QED
  BY <1>1, <1>2 DEF NotStarted

LEMMA StartedStep ==
  ASSUME Inv, Next
  PROVE  Started'
<1>1. CASE stage = "down"
  BY <1>1, DownStep DEF New, Started
<1>2. CASE stage # "down"
  <2>1. CASE Halt
    BY <2>1 DEF Halt, Started, Up
  <2>2. CASE ~Halt
    <3>1. UNCHANGED secret
      BY <1>2, <2>2
      DEF Next, New, Register, AddRoutes, Run, reloadPlatformClient, save, MCPCreate, authURL,
          exchangeCode, SaveCredential, Callback, Stop, SchedulerStopped, stopWorker,
          WorkerStopped, SchedulerExits, WorkerExits, StopChanges
    <3> QED
      BY <1>2, <3>1 DEF Inv, Started, Up
  <2> QED
    BY <2>1, <2>2
<1> QED
  BY <1>1, <1>2

\* What each action does to the configuration.
LEMMA ConfigChanges ==
  ASSUME Inv, Next
  PROVE  \/ \E k \in Secrets : New(k)
         \/ \E r \in Configurers : reloadPlatformClient(r) \/ \E a \in Apps : save(r, a)
         \/ Halt
         \/ UNCHANGED <<platform, env, row, secret, client, configurers, failed, overlapped, late>>
BY DEF Next, Register, AddRoutes, Run, MCPCreate, authURL, exchangeCode, SaveCredential,
       Callback, Stop, SchedulerStopped, stopWorker, WorkerStopped, SchedulerExits, WorkerExits,
       StopChanges

LEMMA ConfigStep ==
  ASSUME Inv, Next
  PROVE  ConfigSound'
<1>0. ConfigSound /\ NotStarted
  BY DEF Inv
<1>1. ASSUME NEW k \in Secrets, New(k) PROVE ConfigSound'
  <2>1. \A r \in Configurers : configurers'[r] = Idle
    BY <1>0, <1>1 DEF New, NotStarted
  <2>2. ~failed' => (row' = NoRow /\ client' = env') \/ row' = [app |-> client', secret |-> secret']
    <3>1. CASE row = NoRow
      BY <1>1, <3>1 DEF New
    <3>2. CASE row # NoRow /\ ~failed'
      <4>1. row.secret = k /\ client' = row.app /\ row' = row /\ secret' = k
        BY <1>1, <3>2 DEF New, Readable
      <4>2. row \in [app: Apps, secret: Secrets]
        BY <3>2, TypeParts DEF Inv, RowTypes
      <4> QED
        BY <4>1, <4>2
    <3> QED
      BY <3>1, <3>2
  <2> QED
    BY <2>1, <2>2 DEF ConfigSound, Idle
<1>2. ASSUME NEW r \in Configurers, reloadPlatformClient(r) PROVE ConfigSound'
  <2> SUFFICES ASSUME Up, ~overlapped PROVE ConfigSound'
    BY <1>2 DEF reloadPlatformClient, ConfigSound, Up
  <2>1. /\ configurers[r].pc = "reload" /\ Saved(r)
        /\ \A q \in Configurers : configurers[q].pc = "reload" => q = r
    BY <1>0, <1>2 DEF reloadPlatformClient, ConfigSound
  <2>2. /\ configurers' = [configurers EXCEPT ![r] = Idle]
        /\ configurers \in
             [Configurers -> {Idle} \cup [pc: {"reload"}, app: Apps, calm: {TRUE}]]
    BY <1>2, TypeParts DEF reloadPlatformClient, Inv, ConfigurerTypes
  <2>3. \A q \in Configurers : configurers'[q].pc # "reload"
    BY <2>1, <2>2 DEF Idle
  <2>4. row' = [app |-> client', secret |-> secret']
    BY <1>2, <2>1 DEF reloadPlatformClient, Saved
  <2> QED
    BY <2>3, <2>4 DEF ConfigSound
<1>3. ASSUME NEW r \in Configurers, NEW a \in Apps, save(r, a) PROVE ConfigSound'
  <2>1. CASE Fault /\ UNCHANGED <<row, configurers, overlapped>>
    BY <1>0, <1>3, <2>1 DEF save, ConfigSound, Saved, Up
  <2>2. CASE /\ row' = [app |-> a, secret |-> secret]
             /\ configurers' = [configurers EXCEPT ![r] = [Idle EXCEPT !.pc = "reload", !.app = a]]
             /\ overlapped' = (\E q \in Configurers : configurers[q].pc = "reload")
    <3> SUFFICES ASSUME ~overlapped' PROVE ConfigSound'
      BY DEF ConfigSound
    <3>1. \A q \in Configurers : configurers[q].pc # "reload"
      BY <2>2
    <3>2. configurers'[r].pc = "reload" /\ configurers'[r].app = a /\ secret' = secret
      BY <1>3, <2>2 DEF save, Inv, TypeOK, Idle
    <3>3. \A q \in Configurers : q # r => configurers'[q].pc # "reload"
      BY <2>2, <3>1 DEF Inv, TypeOK
    <3>4. configurers'[r] # Idle
      BY <3>2 DEF Idle
    <3> QED
      BY <2>2, <3>2, <3>3, <3>4 DEF ConfigSound, Saved
  <2> QED
    BY <1>3, <2>1, <2>2 DEF save
<1>4. CASE Halt
  BY <1>4 DEF Halt, ConfigSound, Up
<1>5. CASE UNCHANGED <<platform, env, row, secret, client, configurers, failed, overlapped, late>>
  <2>1. CASE stage = "down"
    BY <1>1, <2>1, DownStep
  <2>2. CASE stage # "down"
    BY <1>0, <1>5, <2>2 DEF ConfigSound, Saved, Up
  <2> QED
    BY <2>1, <2>2
<1> QED
  BY <1>1, <1>2, <1>3, <1>4, <1>5, ConfigChanges

\* A configuration call leaves a client, and a callback route or the note that
\* it came too late for one.
LEMMA RouteStep ==
  ASSUME Inv, Next
  PROVE  RouteSound'
<1>0. RouteSound /\ NotStarted /\ TypeOK
  BY DEF Inv
<1>1. ASSUME NEW k \in Secrets, New(k) PROVE RouteSound'
  BY <1>0, <1>1 DEF New, NotStarted, RouteSound
<1>2. ASSUME NEW r \in Configurers, reloadPlatformClient(r) PROVE RouteSound'
  BY <1>2 DEF reloadPlatformClient, RouteSound
<1>3. CASE Register
  BY <1>3 DEF Register, MountsRoute, RouteSound
<1>4. CASE Halt
  BY <1>4 DEF Halt, RouteSound
<1>5. CASE UNCHANGED <<registered, routed, late, client>>
  BY <1>0, <1>5 DEF RouteSound
<1>6. \/ \E k \in Secrets : New(k)
      \/ \E r \in Configurers : reloadPlatformClient(r)
      \/ Register \/ Halt
      \/ UNCHANGED <<registered, routed, late, client>>
  BY DEF Next, AddRoutes, Run, save, MCPCreate, authURL, exchangeCode, SaveCredential,
         Callback, Stop, SchedulerStopped, stopWorker, WorkerStopped, SchedulerExits,
         WorkerExits, StopChanges
<1> QED
  BY <1>1, <1>2, <1>3, <1>4, <1>5, <1>6

\* A configuration stays, and whoever has a client has one.
LEMMA ConfiguredStep ==
  ASSUME Inv, Next
  PROVE  /\ Configured => Configured'
         /\ \A r \in Configurers : configurers'[r] # Idle => row' # NoRow
         /\ Up' /\ client' # None => Configured'
<1> DEFINE Goal == /\ Configured => Configured'
                   /\ \A r \in Configurers : configurers'[r] # Idle => row' # NoRow
                   /\ Up' /\ client' # None => Configured'
<1>0. TypeOK /\ StatesSound /\ NotStarted
  BY DEF Inv
<1>1. ASSUME NEW k \in Secrets, New(k) PROVE Goal
  <2>1. UNCHANGED <<row, env, configurers>>
    BY <1>1 DEF New
  <2>2. client' # None => Configured
    BY <1>1 DEF New, Configured
  <2> QED
    BY <1>0, <2>1, <2>2 DEF Configured, StatesSound
<1>2. ASSUME NEW r \in Configurers, reloadPlatformClient(r) PROVE Goal
  <2>1. row # NoRow /\ UNCHANGED <<row, env>>
    BY <1>0, <1>2 DEF reloadPlatformClient, StatesSound, Idle
  <2> QED
    BY <2>1 DEF Configured
<1>3. ASSUME NEW r \in Configurers, NEW a \in Apps, save(r, a) PROVE Goal
  <2>1. UNCHANGED <<env, client, stage>>
    BY <1>3 DEF save
  <2>2. CASE UNCHANGED <<row, configurers>>
    BY <1>0, <2>1, <2>2 DEF StatesSound, Configured, Up
  <2>3. CASE row' = [app |-> a, secret |-> secret]
    <3>1. row' # NoRow
      BY <2>3, NoneAssumption DEF NoRow
    <3> QED
      BY <3>1 DEF Configured
  <2> QED
    BY <1>3, <2>2, <2>3 DEF save
<1>4. CASE Halt
  BY <1>4 DEF Halt, Configured, Up
<1>5. CASE UNCHANGED <<platform, env, row, secret, client, configurers, failed, overlapped, late>>
  <2>1. CASE stage = "down"
    BY <1>1, <2>1, DownStep
  <2>2. CASE stage # "down"
    BY <1>0, <1>5, <2>2 DEF StatesSound, Configured, Up
  <2> QED
    BY <2>1, <2>2
<1> QED
  BY <1>1, <1>2, <1>3, <1>4, <1>5, ConfigChanges

\* The part of StatesSound that is about one state.
StateSound(s) ==
  /\ Waiting(s) => Configured
  /\ Waiting(s) /\ Up /\ client = None => failed /\ states[s].phase = "open"
  /\ states[s].phase = "open" => states[s].app \in Apps
  /\ states[s].phase = "inserted" /\ platform = "x" => states[s].app \in Apps

\* A step that leaves a state alone.
LEMMA SameState ==
  ASSUME Inv, Next, NEW s \in States, states'[s] = states[s]
  PROVE  StateSound(s)'
<1>0. TypeOK /\ StateSound(s) /\ NotStarted
  BY DEF Inv, StatesSound, StateSound
<1>1. UNCHANGED platform
  BY DEF Next, New, Register, AddRoutes, Run, reloadPlatformClient, save, MCPCreate, authURL,
         exchangeCode, SaveCredential, Callback, Stop, SchedulerStopped, stopWorker,
         WorkerStopped, SchedulerExits, WorkerExits, StopChanges, Halt
<1>2. ASSUME Waiting(s)', Up', client' = None
      PROVE  failed' /\ states'[s].phase = "open"
  <2>1. Waiting(s) /\ Configured
    BY <1>0, <1>2 DEF Waiting, StateSound
  <2>2. ASSUME NEW k \in Secrets, New(k) PROVE failed' /\ states'[s].phase = "open"
    <3>1. states[s].phase = "open"
      BY <1>0, <2>1, <2>2 DEF New, NotStarted, Waiting
    <3>2. row # NoRow => row.app # None
      BY <1>0, TypeParts, NoneAssumption DEF RowTypes
    <3>3. failed'
      BY <1>2, <2>1, <2>2, <3>2 DEF New, Configured
    <3> QED
      BY <3>1, <3>3
  <2>3. ASSUME NEW r \in Configurers, reloadPlatformClient(r) PROVE FALSE
    <3>1. configurers[r].app \in Apps
      BY <1>0, <2>3, ConfigurerApp DEF reloadPlatformClient
    <3> QED
      BY <1>2, <2>3, <3>1, NoneAssumption DEF reloadPlatformClient
  <2>4. CASE UNCHANGED <<client, failed>> /\ stage # "down"
    BY <1>0, <1>2, <2>1, <2>4 DEF StateSound, Up
  <2>5. CASE Halt
    BY <1>2, <2>5 DEF Halt, Up
  <2>6. (\E r \in Configurers : \E a \in Apps : save(r, a)) =>
          UNCHANGED <<client, failed>> /\ stage # "down"
    BY DEF save
  <2> QED
    BY <2>2, <2>3, <2>4, <2>5, <2>6, ConfigChanges, DownStep
<1>3. Configured => Configured'
  BY ConfiguredStep
<1> QED
  BY <1>0, <1>1, <1>2, <1>3 DEF StateSound, Waiting

LEMMA StatesStep ==
  ASSUME Inv, Next
  PROVE  StatesSound'
<1>0. TypeOK /\ StatesSound /\ NotStarted
  BY DEF Inv
<1>1. ASSUME NEW s \in States PROVE StateSound(s)'
  <2>0. StateSound(s)
    BY <1>0 DEF StatesSound, StateSound
  <2>1. ASSUME states'[s] = states[s] PROVE StateSound(s)'
    BY <2>1, SameState
  <2>2. CASE MCPCreate(s)
    <3>1. client \in Apps /\ Configured /\ UNCHANGED <<platform, env, row, client>>
      BY <1>0, <2>2 DEF MCPCreate, TypeOK, StatesSound, Up
    <3>2. \/ states'[s] = states[s]
          \/ /\ states'[s].phase = "inserted"
             /\ platform = "x" => states'[s].app = client
      BY <1>0, <2>2 DEF MCPCreate, TypeOK
    <3> QED
      BY <2>1, <3>1, <3>2, NoneAssumption DEF StateSound, Configured
  <2>3. CASE authURL(s)
    <3>1. Waiting(s) /\ client # None /\ UNCHANGED <<platform, env, row, client>>
      BY <2>0, <2>3 DEF authURL, StateSound, Waiting
    <3>2. /\ states'[s].phase = "open"
          /\ states'[s].app = IF platform = "x" THEN states[s].app ELSE client
      BY <1>0, <2>3 DEF authURL, TypeOK
    <3>3. states'[s].app \in Apps
      BY <1>0, <2>0, <2>3, <3>1, <3>2 DEF authURL, StateSound, TypeOK
    <3> QED
      BY <2>0, <3>1, <3>2, <3>3 DEF StateSound, Configured
  <2>4. ASSUME NEW b \in Callbacks, Callback(b, s) PROVE StateSound(s)'
    <3>1. states'[s].phase = "spent"
      BY <1>0, <2>4 DEF Callback, TypeOK
    <3> QED
      BY <3>1 DEF StateSound, Waiting
  <2>5. CASE Halt
    <3>1. states'[s].phase = "spent" \/ states'[s] = states[s]
      BY <1>0, <2>5 DEF Halt, TypeOK
    <3> QED
      BY <2>1, <3>1 DEF StateSound, Waiting
  <2>6. ASSUME NEW t \in States, t # s,
               MCPCreate(t) \/ authURL(t) \/ \E b \in Callbacks : Callback(b, t)
        PROVE  states'[s] = states[s]
    BY <1>0, <2>6 DEF MCPCreate, authURL, Callback, TypeOK
  <2>7. \/ \E t \in States :
             MCPCreate(t) \/ authURL(t) \/ \E b \in Callbacks : Callback(b, t)
        \/ Halt
        \/ UNCHANGED states
    BY DEF Next, New, Register, AddRoutes, Run, reloadPlatformClient, save, exchangeCode,
           SaveCredential, Stop, SchedulerStopped, stopWorker, WorkerStopped, SchedulerExits,
           WorkerExits, StopChanges
  <2> QED
    BY <2>1, <2>2, <2>3, <2>4, <2>5, <2>6, <2>7
<1> QED
  BY <1>1, ConfiguredStep DEF StatesSound, StateSound

\* The client changes under a callback only with a note of it.
LEMMA CallbacksStep ==
  ASSUME Inv, Next
  PROVE  CallbacksSound'
<1>0. TypeOK /\ CallbacksSound /\ NotStarted
  BY DEF Inv
<1> SUFFICES ASSUME NEW b \in Callbacks, callbacks'[b].pc = "save", callbacks'[b].calm
             PROVE  client' = callbacks'[b].app
  BY DEF CallbacksSound
<1>1. ASSUME NEW k \in Secrets, New(k) PROVE FALSE
  BY <1>0, <1>1 DEF New, NotStarted, Idle
<1>2. ASSUME NEW r \in Configurers, reloadPlatformClient(r) PROVE FALSE
  <2>1. CASE callbacks[b] = Idle
    <3>1. callbacks'[b] = [Idle EXCEPT !.calm = TRUE]
      BY <1>2, <2>1 DEF reloadPlatformClient
    <3> QED
      BY <3>1, IdleStaysIdle DEF Idle
  <2>2. CASE callbacks[b] # Idle
    <3>1. callbacks'[b] = [callbacks[b] EXCEPT !.calm = FALSE]
      BY <1>2, <2>2 DEF reloadPlatformClient
    <3>2. callbacks[b] \in [pc: {"exchange", "save"}, app: Apps, calm: BOOLEAN]
      BY <1>0, <2>2, TypeParts DEF CallbackTypes
    <3> QED
      BY <3>1, <3>2
  <2> QED
    BY <2>1, <2>2
<1>3. CASE Halt
  BY <1>3 DEF Halt, Idle
<1>4. ASSUME NEW c \in Callbacks, exchangeCode(c) PROVE client' = callbacks'[b].app
  BY <1>0, <1>4 DEF exchangeCode, CallbacksSound, TypeOK, Idle
<1>5. ASSUME NEW c \in Callbacks,
             SaveCredential(c) \/ \E s \in States : Callback(c, s)
      PROVE  client' = callbacks'[b].app
  <2>0. DOMAIN callbacks = Callbacks
    BY <1>0, TypeParts DEF CallbackTypes
  <2>1. callbacks'[b] = callbacks[b] \/ callbacks'[b].pc \in {"idle", "exchange"}
    <3>1. CASE SaveCredential(c)
      BY <2>0, <3>1 DEF SaveCredential, Idle
    <3>2. ASSUME NEW s \in States, Callback(c, s)
          PROVE  callbacks'[b] = callbacks[b] \/ callbacks'[b].pc = "exchange"
      <4>1. callbacks' = [callbacks EXCEPT ![c] =
                           [Idle EXCEPT !.pc = "exchange", !.app = states[s].app]]
        BY <3>2 DEF Callback
      <4>2. [Idle EXCEPT !.pc = "exchange", !.app = states[s].app].pc = "exchange"
        BY DEF Idle
      <4> QED
        BY <2>0, <4>1, <4>2
    <3> QED
      BY <1>5, <3>1, <3>2
  <2>2. UNCHANGED client
    BY <1>5 DEF SaveCredential, Callback
  <2> QED
    BY <1>0, <2>1, <2>2 DEF CallbacksSound
<1>6. CASE UNCHANGED <<client, callbacks>>
  BY <1>0, <1>6 DEF CallbacksSound
<1> QED
  BY <1>1, <1>2, <1>3, <1>4, <1>5, <1>6
  DEF Next, Register, AddRoutes, Run, save, MCPCreate, authURL, Stop, SchedulerStopped,
      stopWorker, WorkerStopped, SchedulerExits, WorkerExits, StopChanges

LEMMA StopStep ==
  ASSUME Inv, Next
  PROVE  StopSound'
<1>0. TypeOK /\ StopSound /\ NotStarted
  BY DEF Inv
<1>1. CASE Register
  BY <1>0, <1>1 DEF Register, StopSound
<1>2. CASE AddRoutes
  BY <1>0, <1>2, TypeParts, Bounds DEF AddRoutes, StopSound, RouterTypes, Routers
<1>3. CASE Stop \/ SchedulerStopped \/ stopWorker \/ WorkerStopped \/ SchedulerExits
  BY <1>0, <1>3, TypeParts DEF Stop, SchedulerStopped, stopWorker, WorkerStopped, SchedulerExits,
                    StopChanges, StopSound, StageTypes
<1>4. ASSUME NEW w \in Routers, WorkerExits(w) PROVE StopSound'
  BY <1>0, <1>4, TypeParts DEF WorkerExits, StopChanges, StopSound, RouterTypes
<1>5. CASE Halt
  BY <1>5 DEF Halt, StopSound
<1>6. CASE stage' \in {"setup", "serving"} /\ UNCHANGED <<registered, sched, router, workers>>
  BY <1>0, <1>6 DEF StopSound
<1>7. CASE UNCHANGED <<stage, registered, sched, router, workers>>
  BY <1>0, <1>7 DEF StopSound
<1> QED
  BY <1>1, <1>2, <1>3, <1>4, <1>5, <1>6, <1>7
  DEF Next, New, Run, reloadPlatformClient, save, MCPCreate, authURL, exchangeCode,
      SaveCredential, Callback

LEMMA InitInv == Init => Inv
<1> SUFFICES ASSUME Init PROVE Inv
  OBVIOUS
<1>1. NotStarted /\ Started
  BY DEF Init, NotStarted, Started, Up
<1>2. StatesSound /\ RouteSound /\ ConfigSound
  BY DEF Init, StatesSound, RouteSound, ConfigSound, Waiting, Up
<1>3. CallbacksSound /\ StopSound
  BY DEF Init, CallbacksSound, StopSound, Idle
<1> QED
  BY <1>1, <1>2, <1>3, InitTypes DEF Inv

LEMMA InvAlways == Spec => []Inv
<1>1. Inv /\ [Next]_vars => Inv'
  <2>1. ASSUME Inv, Next PROVE Inv'
    BY <2>1, TypeStep, NotStartedStep, StartedStep, StatesStep, RouteStep, ConfigStep,
       CallbacksStep, StopStep DEF Inv
  <2>2. ASSUME Inv, UNCHANGED vars PROVE Inv'
    <3>1. TypeOK'
      BY <2>2, TypeParts, TypesKept DEF Inv
    <3>2. NotStarted' /\ Started' /\ RouteSound'
      BY <2>2 DEF Inv, NotStarted, Started, RouteSound, Up
    <3>3. StatesSound' /\ ConfigSound'
      BY <2>2 DEF Inv, StatesSound, ConfigSound, Waiting, Configured, Saved, Up
    <3>4. CallbacksSound' /\ StopSound'
      BY <2>2 DEF Inv, CallbacksSound, StopSound
    <3> QED
      BY <3>1, <3>2, <3>3, <3>4 DEF Inv
  <2> QED
    BY <2>1, <2>2
<1> QED
  BY <1>1, InitInv, PTL DEF Spec

-----------------------------------------------------------------------------
(***************************************************************************)
(* The theorems.                                                           *)
(***************************************************************************)

\* The types of the service's state.
THEOREM TypeCorrect == Spec => []TypeOK
<1>1. Inv => TypeOK
  BY DEF Inv
<1> QED
  BY <1>1, InvAlways, PTL

\* The app the process publishes with is the one that list_platform_configs
\* shows, or that of social.Config when it shows none.
THEOREM ReportedConfigIsUsed == Spec => []ReportedIsUsed
<1>1. Inv => ReportedIsUsed
  <2> SUFFICES ASSUME Inv, Up, ~failed, ~overlapped, \A r \in Configurers : configurers[r] = Idle
               PROVE  IF summaries = {} THEN client = env ELSE summaries = {client}
    BY DEF ReportedIsUsed
  <2>1. CASE row = NoRow /\ client = env
    BY <2>1 DEF summaries
  <2>2. CASE row = [app |-> client, secret |-> secret] /\ row # NoRow
    BY <2>2 DEF summaries, Readable
  <2>3. row = [app |-> client, secret |-> secret] => row # NoRow
    <3>1. secret # None
      BY NoneAssumption DEF Inv, Started
    <3> QED
      BY <3>1 DEF NoRow
  <2> QED
    BY <2>1, <2>2, <2>3 DEF Inv, ConfigSound
<1> QED
  BY <1>1, InvAlways, PTL

\* Whoever follows an authorization URL finds a callback route and a client,
\* but for a configuration that could not be read or came after Register.
THEOREM CallbacksAreServed == Spec => []CallbackServed
<1>1. Inv => CallbackServed
  BY DEF Inv, CallbackServed, StatesSound, RouteSound, Waiting, Up
<1> QED
  BY <1>1, InvAlways, PTL

\* A stored credential holds a token issued by the server that its row names,
\* unless the platform was configured anew between the exchange and the save of
\* its callback.
THEOREM TokensStayHome == Spec => []TokenOfItsServer
<1>1. Init => TokenOfItsServer
  BY DEF Init, TokenOfItsServer
<1>2. Inv /\ TokenOfItsServer /\ [Next]_vars => TokenOfItsServer'
  <2>1. UNCHANGED <<platform, tokens>> /\ TokenOfItsServer => TokenOfItsServer'
    BY DEF TokenOfItsServer, Servers, Server
  <2>2. ASSUME Inv, TokenOfItsServer, NEW b \in Callbacks, SaveCredential(b)
        PROVE  TokenOfItsServer'
    <3> DEFINE c == callbacks[b]
    <3>1. UNCHANGED <<platform, client>> /\ c.pc = "save"
      BY <2>2 DEF SaveCredential
    <3>2. CASE tokens' = [tokens EXCEPT ![Server(client)] = [issuer |-> c.app, calm |-> c.calm]]
      <4> SUFFICES ASSUME NEW s \in Servers, tokens'[s] # NoToken, tokens'[s].calm
                   PROVE  Server(tokens'[s].issuer) = s
        BY <3>1 DEF TokenOfItsServer, Servers, Server
      <4>1. CASE s = Server(client)
        <5>1. tokens'[s] = [issuer |-> c.app, calm |-> c.calm]
          BY <2>2, <3>2, <4>1 DEF Inv, TypeOK
        <5>2. c.app = client
          BY <2>2, <3>1, <5>1 DEF Inv, CallbacksSound
        <5> QED
          BY <4>1, <5>1, <5>2
      <4>2. CASE s # Server(client)
        <5>1. tokens'[s] = tokens[s]
          BY <2>2, <3>2, <4>2 DEF Inv, TypeOK
        <5> QED
          BY <2>2, <5>1 DEF TokenOfItsServer
      <4> QED
        BY <4>1, <4>2
    <3>3. CASE UNCHANGED tokens
      BY <2>1, <2>2, <3>1, <3>3
    <3> QED
      BY <2>2, <3>2, <3>3 DEF SaveCredential, CallbackServer
  <2>3. ASSUME Next PROVE UNCHANGED <<platform, tokens>> \/ \E b \in Callbacks : SaveCredential(b)
    BY <2>3
    DEF Next, New, Register, AddRoutes, Run, reloadPlatformClient, save, MCPCreate, authURL,
        exchangeCode, Callback, Stop, SchedulerStopped, stopWorker, WorkerStopped, SchedulerExits,
        WorkerExits, StopChanges, Halt
  <2> QED
    BY <2>1, <2>2, <2>3
<1> QED
  BY <1>1, <1>2, InvAlways, PTL DEF Spec

\* After Stop neither the scheduler nor the last router's worker runs.
THEOREM StopLeavesNothing == Spec => []NothingRunsAfterStop
<1>1. Inv => NothingRunsAfterStop
  <2> SUFFICES ASSUME Inv, stage = "stopped"
               PROVE  sched # "running" /\ \A w \in Routers : workers[w] = "running" => w < router
    BY DEF NothingRunsAfterStop
  <2>1. TypeOK /\ StopSound
    BY DEF Inv
  <2> QED
    BY <2>1, TypeParts, Bounds DEF StopSound, RouterTypes, Routers
<1> QED
  BY <1>1, InvAlways, PTL

=============================================================================
