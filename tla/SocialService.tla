---------------------------- MODULE SocialService ----------------------------
(***************************************************************************)
(* The Social value of a server: what New, Register, AddRoutes and Stop of *)
(* social.go and router.go start and stop, the client of one platform that *)
(* a create_platform_config call replaces while others use it (config_mcp, *)
(* platform_config), and the OAuth requests that read it twice (oauth.go,  *)
(* the credential module of mcp.go).  The process may crash and start      *)
(* again, with the same application secret or with another one.            *)
(*                                                                         *)
(* Abstractions.  A platform configuration is the app it registers; each   *)
(* Mastodon app is registered at a server of its own.  What the goroutines *)
(* do is in PostScheduler and RouteWorker, how a callback races with       *)
(* another one for the same state in Credentials.                          *)
(***************************************************************************)
EXTENDS Naturals, FiniteSets

CONSTANTS
  Apps,         \* OAuth app registrations at the platform
  None,         \* no app
  Secrets,      \* values of Config.Secret
  States,       \* OAuth state tokens; never reused
  Configurers,  \* concurrent create_platform_config calls
  Callbacks,    \* concurrent requests to the callback route
  MaxRouters,   \* bound: AddRoutes calls of a process
  MaxChanges,   \* bound: create_platform_config calls
  MaxStarts,    \* bound: starts of the process
  MaxFaults     \* bound: failed statements

ASSUME NoneAssumption == None \notin Apps \cup Secrets
ASSUME BoundAssumption == {MaxRouters, MaxChanges, MaxStarts, MaxFaults} \subseteq Nat

VARIABLES
  platform, env,           \* the platform, and its app in social.Config
  \* The database.
  row,                     \* the row of smeldr_social_platform_config
  tokens,                  \* the credential of each server: its token's issuer
  states,                  \* OAuth states, and the app of the URL they are in
  \* The process.
  stage,                   \* how far main has got
  secret, client,          \* Config.Secret; s.mastodon, s.linkedin or s.twitter
  registered, routed,      \* Register was called; it mounted the callback route
  sched, cancelled,        \* the scheduler goroutine and its context
  router, workers, closed, \* s.router, the route workers, their stop channels
  \* Requests in progress.
  configurers, callbacks,
  \* History.
  failed,                  \* New could not read the row, and nobody wrote it since
  overlapped,              \* the last create_platform_config calls overlapped
  late,                    \* configured after a Register without callback route
  changesLeft, startsLeft, faultsLeft  \* bounds

database  == <<row, tokens, states>>
lifecycle == <<stage, registered, routed, sched, cancelled, router, workers, closed>>
requests  == <<configurers, callbacks>>
history   == <<failed, overlapped, late>>
limits    == <<changesLeft, startsLeft, faultsLeft>>
vars == <<platform, env, database, lifecycle, secret, client, requests, history, limits>>

Routers == 1..MaxRouters

\* The instance_url of the credentials that an app issues tokens for.
Server(a) == IF platform = "mastodon" THEN a ELSE platform

Servers == IF platform = "mastodon" THEN Apps ELSE {platform}

NoRow == [app |-> None, secret |-> None]

NoToken == [issuer |-> None, calm |-> TRUE]

Idle == [pc |-> "idle", app |-> None, calm |-> TRUE]

Up == stage # "down"

TypeOK ==
  /\ platform \in {"mastodon", "linkedin", "x"}
  /\ env \in Apps \cup {None} /\ client \in Apps \cup {None}
  /\ row \in {NoRow} \cup [app: Apps, secret: Secrets]
  /\ tokens \in [Servers -> {NoToken} \cup [issuer: Apps, calm: BOOLEAN]]
  /\ states \in [States -> [phase: {"unborn", "inserted", "open", "spent"}, app: Apps \cup {None}]]
  /\ stage \in {"down", "setup", "serving", "awaitScheduler", "stopRouter", "awaitRouter",
                "stopped"}
  /\ secret \in Secrets \cup {None}
  /\ registered \in BOOLEAN /\ routed \in BOOLEAN
  /\ sched \in {"none", "running", "done"} /\ cancelled \in BOOLEAN
  /\ router \in 0..MaxRouters /\ closed \subseteq Routers
  /\ workers \in [Routers -> {"none", "running", "done"}]
  /\ configurers \in [Configurers -> {Idle} \cup [pc: {"reload"}, app: Apps, calm: {TRUE}]]
  /\ callbacks \in [Callbacks -> {Idle} \cup [pc: {"exchange", "save"}, app: Apps, calm: BOOLEAN]]
  /\ failed \in BOOLEAN /\ overlapped \in BOOLEAN /\ late \in BOOLEAN
  /\ {changesLeft, startsLeft, faultsLeft} \subseteq Nat

Init ==
  /\ platform \in {"mastodon", "linkedin", "x"}
  /\ env \in IF platform = "x" THEN {None} ELSE Apps \cup {None}
  /\ row = NoRow
  /\ tokens = [s \in Servers |-> NoToken]
  /\ states = [s \in States |-> [phase |-> "unborn", app |-> None]]
  /\ stage = "down"
  /\ secret = None /\ client = None
  /\ registered = FALSE /\ routed = FALSE
  /\ sched = "none" /\ cancelled = FALSE
  /\ router = 0 /\ closed = {} /\ workers = [w \in Routers |-> "none"]
  /\ configurers = [r \in Configurers |-> Idle]
  /\ callbacks = [b \in Callbacks |-> Idle]
  /\ failed = FALSE /\ overlapped = FALSE /\ late = FALSE
  /\ changesLeft = MaxChanges /\ startsLeft = MaxStarts /\ faultsLeft = MaxFaults

NoFault == UNCHANGED faultsLeft

Fault == faultsLeft > 0 /\ faultsLeft' = faultsLeft - 1

-----------------------------------------------------------------------------
(***************************************************************************)
(* Starting.                                                               *)
(***************************************************************************)

\* What load finds in the row: it decrypts only what its own secret encrypted.
Readable(k) == row # NoRow /\ row.secret = k

\* New: the client comes from the row or, when there is none, from
\* social.Config.  A row that cannot be read leaves the platform without one.
New(k) ==
  /\ stage = "down" /\ startsLeft > 0
  /\ startsLeft' = startsLeft - 1
  /\ stage' = "setup"
  /\ secret' = k
  /\ \/ /\ row = NoRow \/ Readable(k)
        /\ client' = IF row = NoRow THEN env ELSE row.app
        /\ NoFault
        /\ UNCHANGED failed
     \/ /\ row # NoRow /\ ~Readable(k)
        /\ client' = None
        /\ failed' = TRUE
        /\ NoFault
     \/ /\ Fault
        /\ client' = None
        /\ failed' = TRUE
  /\ UNCHANGED <<platform, env, database, registered, routed, sched, cancelled, router, workers,
                 closed, requests, overlapped, late, changesLeft>>

\* Mutation: the route is mounted for a stored configuration only.
MountsRouteStored == platform = "linkedin" => row # NoRow

\* The callback route: LinkedIn's is mounted only if it is configured by then.
MountsRoute == platform = "linkedin" => client # None

Register ==
  /\ stage = "setup" /\ ~registered
  /\ registered' = TRUE
  /\ routed' = MountsRoute
  /\ sched' = "running"
  /\ UNCHANGED <<platform, env, database, stage, secret, client, cancelled, router, workers, closed,
                 requests, history, limits>>

\* A second call replaces s.router and leaves its worker running.
AddRoutes ==
  /\ stage = "setup" /\ router < MaxRouters
  /\ router' = router + 1
  /\ workers' = [workers EXCEPT ![router + 1] = "running"]
  /\ UNCHANGED <<platform, env, database, stage, secret, client, registered, routed, sched,
                 cancelled, closed, requests, history, limits>>

\* app.Run, of the application.
Run ==
  /\ stage = "setup"
  /\ stage' = "serving"
  /\ UNCHANGED <<platform, env, database, secret, client, registered, routed, sched, cancelled,
                 router, workers, closed, requests, history, limits>>

-----------------------------------------------------------------------------
(***************************************************************************)
(* create_platform_config: save, and then reloadPlatformClient.            *)
(***************************************************************************)

save(r, a) ==
  /\ stage = "serving" /\ configurers[r] = Idle
  /\ changesLeft > 0
  /\ changesLeft' = changesLeft - 1
  /\ \/ /\ row' = [app |-> a, secret |-> secret]
        /\ configurers' = [configurers EXCEPT ![r] = [Idle EXCEPT !.pc = "reload", !.app = a]]
        /\ overlapped' = (\E q \in Configurers : configurers[q].pc = "reload")
        /\ NoFault
     \/ Fault /\ UNCHANGED <<row, configurers, overlapped>>
  /\ UNCHANGED <<platform, env, tokens, states, lifecycle, secret, client, callbacks, failed, late,
                 startsLeft>>

\* Mutation: only a platform that has a client gets the new one.
reloadExistingClient(r) ==
  /\ configurers[r].pc = "reload"
  /\ configurers' = [configurers EXCEPT ![r] = Idle]
  /\ client' = IF client = None THEN None ELSE configurers[r].app
  /\ UNCHANGED <<platform, env, database, lifecycle, secret, callbacks, history, limits>>

reloadPlatformClient(r) ==
  /\ configurers[r].pc = "reload"
  /\ configurers' = [configurers EXCEPT ![r] = Idle]
  /\ client' = configurers[r].app
  /\ callbacks' = [b \in Callbacks |-> [callbacks[b] EXCEPT !.calm = callbacks[b] = Idle]]
  /\ failed' = FALSE
  /\ late' = (late \/ ~routed)
  /\ UNCHANGED <<platform, env, database, lifecycle, secret, overlapped, limits>>

\* What list_platform_configs shows of the platform.
summaries == IF row = NoRow THEN {} ELSE IF Readable(secret) THEN {row.app} ELSE {"unreadable"}

-----------------------------------------------------------------------------
(***************************************************************************)
(* Connecting an account: create_social_credential, and the callback.      *)
(***************************************************************************)

\* Mutation: no test for a client.
MCPCreateUnchecked(s) ==
  /\ stage = "serving"
  /\ states[s].phase = "unborn"
  /\ states' = [states EXCEPT ![s] =
       [phase |-> "inserted", app |-> IF platform = "x" THEN client ELSE None]]
  /\ UNCHANGED <<platform, env, row, tokens, lifecycle, secret, client, requests, history, limits>>

\* MCPCreate of the credential module, up to its INSERT.  For X it keeps the
\* client it has seen.
MCPCreate(s) ==
  /\ stage = "serving" /\ client # None
  /\ states[s].phase = "unborn"
  /\ \/ /\ states' = [states EXCEPT ![s] =
             [phase |-> "inserted", app |-> IF platform = "x" THEN client ELSE None]]
        /\ NoFault
     \/ Fault /\ UNCHANGED states
  /\ UNCHANGED <<platform, env, row, tokens, lifecycle, secret, client, requests, history,
                 changesLeft, startsLeft>>

\* The URL it returns; for Mastodon and LinkedIn of the client there is now.
authURL(s) ==
  /\ Up /\ states[s].phase = "inserted"
  /\ states' = [states EXCEPT ![s] =
       [phase |-> "open", app |-> IF platform = "x" THEN @.app ELSE client]]
  /\ UNCHANGED <<platform, env, row, tokens, lifecycle, secret, client, requests, history, limits>>

\* The browser returns from the platform with the state of an authorization
\* URL, in this process or in an earlier one, and the state is consumed.
Callback(b, s) ==
  /\ stage = "serving" /\ registered /\ routed
  /\ callbacks[b] = Idle
  /\ states[s].phase = "open"
  /\ states' = [states EXCEPT ![s].phase = "spent"]
  /\ callbacks' = [callbacks EXCEPT ![b] = [Idle EXCEPT !.pc = "exchange", !.app = states[s].app]]
  /\ UNCHANGED <<platform, env, row, tokens, lifecycle, secret, client, configurers, history,
                 limits>>

\* exchangeCode, and for LinkedIn fetchPersonURN, with the client there is now:
\* a code is good for the app it was issued to.  Without a client X answers 503,
\* and the other handlers panic, which ends the request.
exchangeCode(b) ==
  /\ callbacks[b].pc = "exchange"
  /\ \/ /\ client = callbacks[b].app
        /\ callbacks' = [callbacks EXCEPT ![b].pc = "save", ![b].calm = TRUE]
     \/ callbacks' = [callbacks EXCEPT ![b] = Idle]
  /\ UNCHANGED <<platform, env, database, lifecycle, secret, client, configurers, history, limits>>

\* Mutation: the credential belongs to the server of social.Config.
CallbackServerEnv(b) == Server(IF env = None THEN client ELSE env)

\* The instance the credential is for: for Mastodon that of the client there
\* is when the answer has come.
CallbackServer(b) == Server(client)

\* upsertCredentialByInstance.
SaveCredential(b) ==
  LET c == callbacks[b] IN
  /\ c.pc = "save"
  /\ callbacks' = [callbacks EXCEPT ![b] = Idle]
  /\ \/ /\ tokens' = [tokens EXCEPT ![CallbackServer(b)] = [issuer |-> c.app, calm |-> c.calm]]
        /\ NoFault
     \/ Fault /\ UNCHANGED tokens
  /\ UNCHANGED <<platform, env, row, states, lifecycle, secret, client, configurers, history,
                 changesLeft, startsLeft>>

-----------------------------------------------------------------------------
(***************************************************************************)
(* Stopping.                                                               *)
(***************************************************************************)

StopChanges(next) ==
  /\ stage' = next
  /\ UNCHANGED <<platform, env, database, secret, client, registered, routed, router, requests,
                 history, limits>>

\* Mutation: stop of the scheduler without its test for a start.
StopUnchecked ==
  /\ stage = "serving"
  /\ cancelled' = TRUE
  /\ StopChanges("awaitScheduler")
  /\ UNCHANGED <<sched, workers, closed>>

\* Mutation: the router is stopped only if there is no scheduler.
StopSchedulerOnly ==
  /\ stage = "serving"
  /\ cancelled' = registered
  /\ StopChanges(IF registered THEN "stopped" ELSE "stopRouter")
  /\ UNCHANGED <<sched, workers, closed>>

\* Stop, as far as scheduler.stop waits for the goroutine.
Stop ==
  /\ stage = "serving"
  /\ cancelled' = registered
  /\ StopChanges(IF registered THEN "awaitScheduler" ELSE "stopRouter")
  /\ UNCHANGED <<sched, workers, closed>>

SchedulerStopped ==
  /\ stage = "awaitScheduler" /\ sched = "done"
  /\ StopChanges("stopRouter")
  /\ UNCHANGED <<sched, cancelled, workers, closed>>

stopWorker ==
  /\ stage = "stopRouter"
  /\ IF router = 0
     THEN StopChanges("stopped") /\ UNCHANGED closed
     ELSE StopChanges("awaitRouter") /\ closed' = closed \cup {router}
  /\ UNCHANGED <<sched, cancelled, workers>>

WorkerStopped ==
  /\ stage = "awaitRouter" /\ workers[router] = "done"
  /\ StopChanges("stopped")
  /\ UNCHANGED <<sched, cancelled, workers, closed>>

\* The goroutines leave their loops: the scheduler when its context is
\* cancelled, a worker when its stop channel is closed.
SchedulerExits ==
  /\ sched = "running" /\ cancelled
  /\ sched' = "done"
  /\ StopChanges(stage)
  /\ UNCHANGED <<cancelled, workers, closed>>

WorkerExits(w) ==
  /\ workers[w] = "running" /\ w \in closed
  /\ workers' = [workers EXCEPT ![w] = "done"]
  /\ StopChanges(stage)
  /\ UNCHANGED <<sched, cancelled, closed>>

\* The process ends, after Stop or before.  A connect call that had not
\* answered yet leaves a state that nobody knows.
Halt ==
  /\ Up
  /\ stage' = "down"
  /\ secret' = None /\ client' = None
  /\ registered' = FALSE /\ routed' = FALSE
  /\ sched' = "none" /\ cancelled' = FALSE
  /\ router' = 0 /\ closed' = {} /\ workers' = [w \in Routers |-> "none"]
  /\ configurers' = [r \in Configurers |-> Idle]
  /\ callbacks' = [b \in Callbacks |-> Idle]
  /\ failed' = FALSE /\ overlapped' = FALSE /\ late' = FALSE
  /\ states' = [s \in States |->
       IF states[s].phase = "inserted" THEN [states[s] EXCEPT !.phase = "spent"] ELSE states[s]]
  /\ UNCHANGED <<platform, env, row, tokens, limits>>

-----------------------------------------------------------------------------
Next ==
  \/ \E k \in Secrets : New(k)
  \/ Register \/ AddRoutes \/ Run
  \/ \E r \in Configurers : reloadPlatformClient(r) \/ \E a \in Apps : save(r, a)
  \/ \E s \in States : MCPCreate(s) \/ authURL(s)
  \/ \E b \in Callbacks : exchangeCode(b) \/ SaveCredential(b) \/ \E s \in States : Callback(b, s)
  \/ Stop \/ SchedulerStopped \/ stopWorker \/ WorkerStopped
  \/ SchedulerExits \/ \E w \in Routers : WorkerExits(w)
  \/ Halt

Spec ==
  /\ Init /\ [][Next]_vars
  /\ WF_vars(SchedulerStopped \/ stopWorker \/ WorkerStopped)
  /\ WF_vars(SchedulerExits) /\ \A w \in Routers : WF_vars(WorkerExits(w))

-----------------------------------------------------------------------------
(***************************************************************************)
(* Properties.                                                             *)
(***************************************************************************)

\* The app that the process publishes with is the one list_platform_configs
\* shows, or that of social.Config when it shows none: after a change, a crash
\* between its two steps, a restart, another secret.  Except after calls that
\* overlapped, and until a row that New could not read is written again.
ReportedIsUsed ==
  Up /\ ~failed /\ ~overlapped /\ (\A r \in Configurers : configurers[r] = Idle)
    => IF summaries = {} THEN client = env ELSE summaries = {client}

\* Somebody answers an authorization URL that is out: the callback route is
\* mounted, and there is a client, unless the row could not be read or the
\* platform was configured too late for Register.
CallbackServed ==
  stage = "serving" /\ registered /\ (\E s \in States : states[s].phase = "open")
    => failed \/ (client # None /\ (routed \/ late))

\* A stored credential holds a token issued by the server that its row names,
\* unless the platform was configured anew between the exchange and the save of
\* a Mastodon callback.  This is about what the callbacks store, and not about
\* where a publication sends it: that is the server configured by then.
TokenOfItsServer ==
  \A s \in Servers : tokens[s] # NoToken /\ tokens[s].calm => Server(tokens[s].issuer) = s

\* When Stop has returned nothing that Register or AddRoutes started is
\* running, but for the workers of routers that were replaced.
NothingRunsAfterStop ==
  stage = "stopped" => sched # "running" /\ \A w \in Routers : workers[w] = "running" => w < router

\* Stop returns, whichever of Register and AddRoutes were called.
StopReturns == stage = "awaitScheduler" \/ stage = "stopRouter" ~> stage \in {"stopped", "down"}

=============================================================================
