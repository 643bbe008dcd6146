# A TLA+ development of smeldr.dev/social

`smeldr.dev/social` is a Go library that publishes posts to Mastodon, LinkedIn
and X at a given time or in recurring slots, and forwards content events to
"agents" over HTTP. It is a small program with many writers: a scheduler
goroutine, a route worker goroutine, MCP tool calls, REST handlers, OAuth
callbacks and signal handlers share one SQL database and three client pointers,
and hardly any read is in one transaction with the write that depends on it. This directory holds
specifications of those parts, configurations that check them on small
instances with TLC, and TLAPS proofs of the central results for every value of
the constants.

Paths such as `scheduler.go:136` are relative to the repository.

## 1. Inventory

### Parts, state and operations

| Part | State | Operations that change it | Module |
|---|---|---|---|
| Scheduled posts (`post.go`, `mcp.go`, `post_http.go`) | `smeldr_social_posts`, `smeldr_social_delivery_log` | create, update, schedule, publish now, archive, delete (MCP and REST); marks and retries of the scheduler | `PostScheduler` |
| Scheduler goroutine (`scheduler.go`) | its due batch, its slot firings, the post in hand, a cancellable context | `run`, `processDue`, `processSlotQueue`, `publishWithRetry`, `stop` | `PostScheduler`, `SlotQueue` |
| Publication schedules (`schedule.go`, `schedule_mcp.go`) | `smeldr_social_publication_schedules` with `last_tick_at` | create, update, pause, delete; the tick moves `last_tick_at` and counts firings (`firedSlotsBetween`) | `SlotQueue`, `FiredSlots` |
| Credentials and OAuth (`credential.go`, `oauth.go`, `mcp.go`) | `smeldr_social_credentials`, `smeldr_social_oauth_states` | start a connection, callback, upsert, delete, purge states | `Credentials`; against the replacement of the clients, `SocialService` |
| X token refresh (`scheduler.go`, `twitter.go`) | the credential's tokens, and X's own | `maybeRefreshXCredential` before each publish | `Credentials` |
| Router (`router.go`, `route_worker.go`) | `smeldr_social_route_jobs`, `smeldr_social_route_log`, the worker's batch | enqueue on a signal, poll, POST, record, retry, stop | `RouteWorker`, `RouteDelivery` |
| Platform configuration (`platform_config.go`, `config_mcp.go`, `social.go`) | `smeldr_social_platform_config`, encrypted with the application secret; the three client pointers behind `mu` | load in `New`, `save`, `reloadPlatformClient`, `summaries` | `SocialService` |
| Service lifecycle (`social.go`, `router.go`) | which goroutines and routes there are | `New`, `Register`, `AddRoutes`, `Stop`, crash, restart | `SocialService`; what a stop does to each goroutine, in its module |
| Platform clients (`mastodon.go`, `linkedin.go`, `twitter.go`) | a call in progress: its client, media id and the reply in hand | `callPlatformPublish`, media upload in one or three exchanges, the post | `PlatformClients`, `PublishCall` |
| Route validation, schema and migration, bearer tokens | none of their own, or pure data | | left out (section 8) |

### How they interact

* Everything meets in the database. The schedules, the posts and the
  credentials are linked by foreign keys that Postgres enforces and SQLite, with
  its default settings, does not; `EnforceFK` selects which.
* The scheduler calls the platform clients and reads credentials; `publish_now`
  (`Social.publishNow`) does the same from a request, with no lock against the
  scheduler. What a call may answer is all that the scheduler knows of the
  platform: `PublishCall` is that contract, and both sides are held to it.
* `create_platform_config` replaces a client while publish calls, connect calls
  and callbacks use it. `mu` protects the pointer, for those who take it; the
  Mastodon and LinkedIn connect calls and callbacks do not.
* Signals of the core package call `Router.handle`, which inserts jobs; the
  worker polls them.
* `Social.Stop` cancels the scheduler's context, waits for it, then closes the
  worker's `stopCh` and waits for it.

### What is hard

* *Read, then write.* `MCPUpdate`, `MCPSchedule`, `MCPArchive`,
  `handlePostUpdate`, the scheduler's own retry, `update_publication_schedule`,
  `deleteCredential`, `consumeOAuthState` and `upsertCredentialByInstance` each
  decide on a row they read earlier.
* *At least once.* Between the platform's or the agent's acceptance and the row
  that says so there is a lost answer, a failed statement, a stop or a crash.
* *Snapshots.* The due posts and the active schedules are read once per round and
  used after they changed.
* *Time windows.* Slots are counted in windows bounded by `last_tick_at`, which
  moves before the posts are published; the count walks over local days, whose
  length and midnight depend on the zone.
* *Two copies of a configuration.* The row and the client are written one after
  the other, by anybody, and the row can only be read with the secret that wrote
  it.
* *Ending.* Retries are bounded by a log that may not be written; stops wait for
  goroutines wherever they are.

`PROJECT.json` lists each hazard at its line with the properties that cover it.
What would make each part correct: a post costs no more copies than were asked
for, lost or revived, and is marked published only if accepted; a slot's firing
publishes one post at most and the queue drains; a stored credential stays
usable and names the server that issued it; a job is posted a bounded number of times,
never after its end, and is resolved; a publish call reports no success without a
copy, hides none behind a final error, and loses no image; the configuration that
is shown is the one in use; every stop ends, and nothing runs after it.

## 2. Modules

| Module | What it is |
|---|---|
| `PostScheduler` | one row per post, the scheduler goroutine, concurrent API requests, the platform's answers |
| `PostSchedulerProofs` | its theorems |
| `PublishReports` | what a publish call can report, and what a report says of the copy |
| `PublishCall` | abstract: what a publish call promises its caller |
| `PlatformClients` | the clients of the platforms in detail; instantiates `PublishCall` |
| `PlatformClientsProofs` | its theorems, the refinement among them |
| `RouteDelivery` | abstract: what the router promises for a job |
| `RouteWorker` | the router in detail; instantiates `RouteDelivery` |
| `RouteProofs` | its theorems, the refinement among them |
| `SlotQueue` | schedules, windows of time and the queue |
| `SlotProofs` | its theorems |
| `FiredSlots` | the count of firings in a window, day by day, in a zone with a change of offset |
| `FiredProofs` | its theorems |
| `SocialService` | starting, configuring, connecting and stopping |
| `ServiceProofs` | its theorems |
| `Credentials` | OAuth states, credential rows, token refresh, deletion |
| `CredentialProofs` | its theorems |
| `MC*` | constants and symmetry for TLC |

Every step boundary of a model is a point where the code lets another actor in:
between two SQL statements, or between a statement and an HTTP call. Whatever
the code does between two such points is one action. A definition that starts
with *Mutation:* is a plausible mistake in the definition that follows it, and
is used by no specification; `PROJECT.json` pairs it with the property that it
breaks.

### PostScheduler

`status`, `scheduledAt`, `deliveryLog` are the columns that matter; a status of
"unborn" or "deleted" is an absent row. The goroutine's `pc` follows
`scheduler.go`: *sleep* (the `select` of `run`), *due* (the loop of
`processDue`), *slots* (the loop of `processSlotQueue`), and the stages *call*,
*log*, *settle* of `publishWithRetry`. `job` is its local copy of the post, and
`Settle` writes that copy back on a retry, status included. A request is a
record: *write* holds the row a handler computed, *call*/*mark* are the two
halves of `publishNow`, and *delete* is a deletion between its two statements.
Whether the database can begin a transaction (`Transactions`) decides which
deletion there is: `DeleteInTx` does both statements or none, `DeleteLog` and
`DeleteRow` are two steps, of which the second may fail, or be refused under
foreign keys because a publication logged in between; the row then stays, and its
attempts are counted afresh. `scheduledAt` is none, later or due. `asked` and
`doubts` are history: why a copy may exist. A failed SELECT of `processDue`
leaves the state as it was and needs no action.

### RouteWorker and RouteDelivery

`due` lists the due pending jobs by `next_attempt`; the batch is a copy of its
first `Limit` jobs with their `attempts`. `Post`, `logAttempt` and `Mark` are
the HTTP call and the two statements of `deliver`; their errors are ignored by
the code and are the `Fault` alternatives here. `RouteDelivery` has four moves
per job (accept, take, deliver, fail) and the mapping is the identity on
`status` and `taken`: what the refinement says is that no poll, batch, retry or
restart ever posts a finished job or changes its status.

### PlatformClients, PublishCall and PublishReports

A call is a record: which exchange it is in, the client it was dispatched to, the
media id, and a reply not yet looked at. `Serve` is the platform: any status, any
body, and for a 500 or a lost answer either outcome. Each other action is what
the code does with the reply of one exchange, so a call may be overtaken by
`reloadPlatformClient` between any two of them. `PublishCall` is what a caller may
rely on: at most one copy per call, success only with a copy, a terminal error or
a rate limit only without one. `copies` counts each time the platform takes the
post in a call, so that a call which had it taken twice would be no step of
`PublishCall`. `PostScheduler` takes the answers of its platform from `Outcomes` of
the same `PublishReports`, and one module's theorem is the other's assumption:
`ReportsExpected` says that whatever a call of `PlatformClients` reports, with a
copy or without one, is in the set that `PostScheduler` chooses from with
`LossyNetwork`, so its properties hold for every report that there can be.
Conversely, every outcome in that set has a reply that leads to it.

### FiredSlots

Days of `DayLength` units and weeks of `WeekLength` days, in a zone given by its
offset before and after one change. `Date` is Go's `time.Date`, with either of its
two readings of a time of day that the change skips or repeats; the code's own part
is the start of the walk (`BeginWalk`), the turn of the loop (`WalkDay`), `AddDate`
and the half-open window. The reference, `Occurrences`, quantifies over days and
does not walk. `SlotQueue` uses the same count on a cyclic week without changes.

`MidnightsClear` is what the code needs of the zone: a change repeats no midnight,
and skips none, nor comes as close to one as the times it skips are many. With a
change of two units TLC finds why. Clocks that skip a midnight leave the cursor at
another time of the day. Where a midnight comes twice, a window may open on the new
day before the clock falls back into the old one, whose slots the walk does not
visit any more. And a skipped time is read with one of the two offsets: just after
a midnight it may become an instant before it, just before one an instant after
it, outside of what the walk takes for its day. The changes of most zones, one hour
forward at 01:00 or 02:00 and back at 02:00 or 03:00, are clear of the midnights,
and so is a zone without changes.

### SocialService

One platform, any of the three; its configuration is the app that it registers.
`row` holds an app and the secret it was encrypted with, `client` is the pointer.
`stage` follows `main`: *setup* after `New`, where `Register` and `AddRoutes` may
be called, *serving*, and the stages of `Stop`. `save` and `reloadPlatformClient`
are the two steps of a `create_platform_config` call; `MCPCreate` and `authURL` of
a connect call, which for Mastodon and LinkedIn reads the pointer twice;
`Callback`, `exchangeCode` and `SaveCredential` of a callback, which for Mastodon
takes the instance from the pointer again at the end. `failed`, `overlapped`,
`late` and a token's `calm` record the situations that the code does not handle
and that the invariants except; without any one of these exceptions TLC refutes
the invariant (section 4).

### SlotQueue

The week is a cycle of `Period` instants; a slot is an instant of it. The row
keeps the age of its open window (`clock - last_tick_at`), so the state space is
finite without bounding time: the age stops at `MaxAge`, from where each slot has
fired often enough to reach the cap. `lag` is the time since the tick read the
clock, so that `updateScheduleLastTick` stores the tick's time and not the
statement's. `credit` counts the firings not yet used, `debt` the publications
beyond them, `excused` the firings that a failed UPDATE or a change of the slots
inside an open window may repeat. What a tick has read is the vector of counts that
`firedSlotsBetween` returns; `SlotInTurn` is the slot that the outer loop has
reached, whose count goes down with each turn of the inner loop and to zero when
the queue is empty. `Firings` is the set of firings that a vector stands for. A paused schedule's slots earn as well, for that
is what the code makes of them (section 4).

### Credentials

The rows of one X account. A token pair is a number; `usable` are the refresh
tokens X accepts. Whether X rotates refresh tokens (`rotates`: a refresh spends
the one it used and answers a new one) is fixed at the start of a behaviour, and
both kinds are checked: the code handles both. Each SELECT and the write that
follows are two actions (`CallbackLookup`/`CallbackWrite`,
`PublisherLookup`/`PublisherWrite`, `handleXCallback`/`consumeOAuthState`,
`CountPosts`/`deleteCredential`). `lost` holds the spent refresh tokens whose
replacement did not get to its row; `uses` counts the callbacks that passed with
a state.

## 3. Runs

Each configuration is `MC<module>_<run>.cfg`. Three modules come to rest and have
`CHECK_DEADLOCK FALSE`: `Credentials` has no goroutine of its own and ends when the
bounds are used up, `SocialService` when the last process has ended, `FiredSlots`
at its horizon. All others check for deadlock.

| Run | Question | Bounds |
|---|---|---|
| `post_races` | TypeOK, CopiesAccounted, PublishedWasAccepted under racing clients that send any status but published, with lost answers; no foreign keys | 1 post, 2 clients, 4 calls, 2 attempts |
| `post_live` | CopiesAccounted, AttemptsAccounted under failures; ScheduledResolved, StopTerminates under fairness; foreign keys, no transactions | 1 post, 2 calls, 1 fault, 1 crash, 1 stop |
| `post_stopcopy` | StopCostsNoCopy (refuted) | 1 call, 1 stop, reliable network |
| `route_live` | TypeOK, CopiesAccounted, TriesAccounted, KeepsPromise; JobsResolved, StopTerminates under fairness | 2 jobs, batches of 1, 2 attempts, 1 of each failure, one 429 |
| `slots_fires` | TypeOK, FiresUsedOnce while schedules are created, changed, paused, deleted and created again | 2 schedule ids, 2 posts, 3 calls, lists of one slot and of the same slot twice |
| `slots_live` | FiresUsedOnce over failures; QueueDrains, StopTerminates under fairness | 1 schedule of two slots, 2 posts, 1 of each failure |
| `walk_walk` | TypeOK, CountsEachOccurrence, WalkAdvances, WalkEnds for every division of time into windows | days of 6 units, weeks of 2 days, 96 zones (a change of one unit or two at each time of a day), slots at every time of the week, three days |
| `walk_midnight` | FiresOncePerOccurrence (refuted) | the same in 4 zones that skip a midnight |
| `creds_tokens` | TypeOK, StoredTokenUsable under races and failures, rotating or not, no foreign keys | 2 rows, 2 states, 1 callback, 2 publishers, 3 pairs, 1 failure |
| `svc_lifecycle` | TypeOK, ReportedIsUsed, CallbackServed, TokenOfItsServer, NothingRunsAfterStop; StopReturns | each platform with and without a configuration in the environment; 2 apps, 2 secrets, 2 racing configuration calls of 3 in all, 1 connection, 2 routers, 2 starts, 1 failed statement |
| `clients_publish` | TypeOK, ImageAttached, ReportsExpected, KeepsPromise; CallsReturn | each platform, 2 servers, any number of calls of one caller, clients replaced at any time |
| `creds_singleuse` | StateIsSingleUse (refuted) | 1 state, 2 callbacks |

*Why the bounds are enough.* A stale write needs a reader, a writer in between
and a write: two actors and two or three calls. `MaxAttempts = 2` has a retry and
a last attempt; nothing in the code
depends on the length of the table beyond that, and the proofs are for every
value. Two jobs show that a batch keeps them apart, and with a batch of one that
none starves. The posts of `processDue` meet only in the loop that takes them one
by one, so one post is checked, with the other actors around it; the proofs are
for any number. A week of two instants with lists of up to two slots has a slot
that fires at the border of a window, one in the middle, one twice, and a window
longer than the cap. Deleting a schedule and creating another takes three calls.
Three token pairs are an authorization, a reconnection and a refresh, in any
order, or an authorization and two racing refreshes. One crash, fault or stop can
hit every step; two that belong together are checked only where their budgets are
separate (`post_live`, `route_live`, `slots_live`).
A window of `walk_walk` starts before the change, on its day or after it, and spans
up to three days, so the walk meets the change inside a window, at its border
and not at all. A day of six units has room for a change of two units that is clear
of the midnights, and for every one that is not. Callers of `PlatformClients` share nothing
but the clients, which change at any time anyway: one caller shows what several do
(and the proofs are for any number). In `svc_lifecycle` the third configuration
call is one that starts when two that raced are over; two starts are a restart.

### Fairness

* The goroutines (`SchedulerStep`, `WorkerStep`) are weakly fair: every HTTP
  client they use has a timeout (15 or 30 s), and the statements return.
* Leaving the loop on a stop (`Exit`) is strongly fair: the `select` of `run` and
  `runWorker` chooses at random when both the timer and the cancellation are
  ready, so a worker that keeps waking also exits in the end.
* Time passes (`TimePasses`, `ClockTick`), and in the router the handler's loop
  runs (`enqueue`).
* A publish call goes on: its exchange is answered, if only by the timeout of the
  client (`Serve`), and the goroutine looks at the answer (`Receive`). The walk of
  `FiredSlots` is a loop without waiting. In `SocialService` the goroutines see
  their cancellation, which is what `StopTerminates` of their modules shows, and
  the caller of `Stop` goes on.
* Nothing is assumed of clients, operators or answers. An agent may answer 429
  `MaxLimited` times only in the runs that ask for an end.

## 4. Disagreements between code and documents

Each of these runs checks one statement of the repository and TLC refutes it.

| Run | Statement | What happens |
|---|---|---|
| `post_stopcopy` | `README.md:278` Stop waits for in-flight work | Stop cancels it; an accepted copy is recorded as a failure and sent again |
| `walk_midnight` | `schedule.go:207-208` a slot fires once per occurrence in its timezone | where the clocks skip midnight, the walk's cursor stands at another time of the day or on the day before, and a slot of that day is missed |
| `creds_singleuse` | `oauth.go:47` state is single-use | two callbacks pass with one |

The models also contain the following traces. No run is spent on them; each is
two or three steps long and easy to replay by hand.

* `route_worker.go:22` says that attempts beyond the table are terminal. A 429 is
  retried whatever the count (`Mark`; hence `lapses` in `TriesAccounted`).
* `README.md:136` says that a paused schedule's slots are skipped. The first tick
  after the resumption catches up on them (`ClockTick`, `Snapshot`).
* `scheduler.go:170-172` says that transient errors re-queue via backoff. A queued
  post that failed is the oldest again and is retried at the next firing of the same
  tick (`dequeueOldestQueued`).
* `README.md:150-156` connects LinkedIn with two calls on a running server. If
  LinkedIn was not configured when `Register` ran, its callback answers 404 until
  the next start (`MountsRoute`, `late`).
* `social.go:34` says that `mu` protects the clients. The Mastodon and LinkedIn
  callbacks read them without it, and the Mastodon one twice: reconfigured in
  between, the token of one instance is stored in the row of the other
  (`CallbackServer`, `calm`). Without a client, both panic.
* `mcp.go:380-383` requires `instance_url` to connect Mastodon and then ignores it:
  the account is that of the configured instance (`authURL`).
* Two `create_platform_config` calls may save in one order and reload in the other,
  after which the process uses what the database does not hold (`overlapped`).
* A row that cannot be read, after a change of `Config.Secret` or a failed SELECT,
  leaves the platform without a client even if `Config` has one (`New`, `failed`).
* After Mastodon is configured for another instance, posts of the old credential
  are sent, with its token, to the new one (`callPlatformPublish` takes the client
  by platform only).
* `README.md:92` says that LinkedIn attaches media and X does not. The clients do
  the opposite (`Dispatch`).
* A 429 on an upload is an ordinary transient error: its `Retry-After` is ignored
  (`Failure`). An upload that Mastodon accepts with a blank id is dropped, and the
  post goes out without its image (`Attached`; excepted in `ImageAttached`). An
  image over 10 MB is uploaded cut off (`mastodon.go:170`, `twitter.go:156`).
* A second `Stop` closes `stopCh` twice and panics; a second `AddRoutes` leaves the
  first worker running after `Stop` (`NothingRunsAfterStop` excepts it).
* `mcp.go:258` says that archived posts cannot be published. A publication that
  read the row before it was archived marks it published (`Settle`,
  `publishNowMark`).
* `mcp.go:287` says that published posts cannot be archived. An archive call that
  read the row before its publication archives it (`MCPArchive`, `WriteRow`).
* `post.go:19-20` says that a scheduled post has a time. `MCPCreate`,
  `MCPUpdate` and the REST handlers accept one without, and `duePosts` never
  selects it.
* `CHANGELOG.md:26` says that the delivery log goes with the post. Without foreign
  keys a publication in progress logs after the deletion (`LogAttempt`). Without
  transactions a deletion whose second statement fails takes the log alone
  (`DeleteRow`).
* `schedule_mcp.go:121` speaks of a partial update. An update of the slots alone
  that read the row before a pause and writes after it undoes the pause
  (`MCPUpdate`, `updateSchedule`).
* `scheduler.go:262-264` leaves a 401 after a failed refresh to the retry logic,
  for which a 401 is terminal (`Publish` in `Credentials`).
* `credential.go:98-99` says that the matching row is updated. Two callbacks that
  both look before either inserts make two rows (`CallbackLookup`).
* `README.md:29` says that a credential in use is not deleted. Without foreign
  keys a post created between the count and the DELETE loses it (`CountPosts`,
  `deleteCredential`).
* `CHANGELOG.md:200` asks to re-authorise X for a new scope. A refresh of the old
  authorization that is stored afterwards restores it (`PublisherWrite`).
* `credential.go:228` suggests moving posts to another credential. `updatePost`
  does not write `credential_id`.

## 5. What is proved

With TLAPS, for every value of the constants that meets the modules' named
assumptions.

**PostScheduler** (`PostSchedulerProofs`).

* `TypeCorrect`. `TypeOK` alone is not inductive: that a job or request in
  progress has a post is needed too. `Typed` adds the shape of the job
  (`JobShape`) and of each request (`RequestShape`).
* `CopiesAreAccounted`. `accepted <= asked + doubts` says nothing of the copy
  about to be sent. `Credit` strengthens it: the goroutine's hold on a post, or a
  live row it would pick up, may cost one more copy (`Pending`), and that copy is
  already covered. Requests, the scheduler and the world each preserve it
  (`RequestCredit`, `SchedulerCredit`, `WorldCredit`).
* `PublishedIsAccepted`. `Backed` adds the "ok" answers on their way to a row and
  the published rows held by REST updates.

* `AttemptsAreAccounted`. Between a call and its log row the bound is one entry
  ahead of the log: `Ledger` adds what the publication in progress is about to write
  (`Owed`), and `LogCounted` says that the count the attempt started from is not
  less than the log is now.

**PlatformClients** (`PlatformClientsProofs`). One invariant, `Inv`, carries the
results: `TypeOK`, and for each call `CallSound` (what it talks to, and that
it is open exactly while it runs), `CopySound` (a copy comes with a reply to the
post that is neither a refusal nor a rate limit, a success comes with a copy, and
`copies` counts it) and `UploadSound` (how far the upload has come, at the server the call was
dispatched to). It is preserved by one lemma per action, on top of two about a call
that goes on (`GotoSound`) and one that returns (`ReturnSound`).

* `TypeCorrect`.
* `CallKeepsPromise`. From `Inv`, every step is a step of `PublishCall` or a
  stutter: `Spec => KeepsPromise`.
* `ReportsAreExpected`: `Spec => []ReportsExpected`, from `CallKeepsPromise` and an
  invariant of `PublishCall` (`Reported`) alone: what a call reports is an outcome
  that `PostScheduler` counts with.
* `ImageIsAttached`.

**RouteWorker** (`RouteProofs`).

* `InvInvariant`. `Inv` says that what the worker holds is true of the table:
  the due list has no duplicates and only pending jobs, the batch and the job in
  hand are distinct, pending, and carry their rows' attempts.
* `RouterKeepsPromise`. From `Inv`, every step of the worker is a step of
  `RouteDelivery` or a stutter: `Spec => KeepsPromise`.
* `CopiesAreAccounted`, `TriesAreAccounted`. From `Accounts`, which adds to both
  bounds the POST in hand that is counted and not yet recorded (`Got`, `Spent`,
  `Throttled`).
* `TypeCorrect`.

**SlotQueue** (`SlotProofs`).

* `TypeCorrect`. That `SlotInTurn` is a slot, and `dequeueOldestQueued` a post, is the
  existence of a least element.
* `FiresAreUsedOnce`. `debt <= excused` alone says nothing of what a tick may yet
  publish. `Covered` does: the firings earned or excused and not used (`Unused`) cover
  those of the open window (`Due`); for a schedule that a tick has read they cover what
  it read *and* the window that the tick will leave open, of age `lag`; and for the one
  being served, what is left of it (`Left`) and its open window. That the windows do not
  overlap is then a matter of sets of instants: when time passes, the firings of the
  older window map one to one to those of the window before, but for the new instant
  (`InstantsGrow`), so `Due` grows by no more than the schedule earns (`DueGrows`).
  Counts are compared as cardinalities of `Firings`, one-to-one maps and subsets, and
  never by summing a list, which would need induction. `AgendaSound` says that an id is
  in the agenda once and not in hand, and that a schedule that was read still exists or
  was deleted, never recreated under its id.

**FiredSlots** (`FiredProofs`).

* `TypeCorrect`.
* `EachOccurrenceIsCounted`. From `MidnightsClear`, local days are intervals of time
  that follow one another and hold the instants of their slots (`MidnightSplits`,
  `SlotInDay`, `DaysAreIntervals`). The invariant `Walked` says that the cursor is at
  the midnight of some day `d`, and that `fired` is the number of occurrences before
  the window or on the days before `d` (`Passed`). A turn of the loop adds day `d`
  to that set or leaves it as it is; when the cursor has passed the window, the set is
  that of all occurrences.
* `TheWalkAdvances`, from `TypeOK` and `AddDateAdvances`: read with either offset, the
  same time one day later is a later instant, if the change is shorter than a day
  (`ShortChange`). That is what the end of the walk rests on; `WalkEnds` itself is a
  liveness property. The condition is needed: a zone that skips a whole day, as
  Pacific/Apia did in 2011, can have the day after read as the instant it started from.

**Credentials** (`CredentialProofs`).

* `TypeCorrect`.
* `CredentialsStayUsable`. A pair that X issued is in one pair of hands until it is
  written (`CallbackPairs`, `PublisherPairs`), so, when X rotates, a refresh token is in
  one row and is read only for that row (`OneRow`): the refresh that spends it is the
  row's own, and its replacement is in the hands of that publication or lost. When X
  does not rotate, none is ever spent (`NoneSpent`).

**SocialService** (`ServiceProofs`). One invariant, whose parts need each other.

* `TypeCorrect`. A callback has an app because its URL was made with one, and that
  because there was a client (`StatesSound`).
* `ReportedConfigIsUsed`. `ConfigSound` says what a configuration call has in the row
  between its two steps, and that without such a call row and client agree.
* `CallbacksAreServed`, from `StatesSound` and `RouteSound`.
* `TokensStayHome`, from `CallbacksSound`: a calm callback still has the client with
  which its code was exchanged.
* `StopLeavesNothing`, from `StopSound`: who may run at each stage of `Stop`.

**Only model-checked.** Every liveness property (`ScheduledResolved`, `JobsResolved`,
`QueueDrains`, `WalkEnds`, `CallsReturn`, `StopReturns` and both `StopTerminates`):
liveness under fairness and ENABLED are beyond the prover. The refuted statements of
section 4 are counterexamples of TLC. Every invariant of a passing run, and both
refinements, are theorems. Facts that need induction over data are beyond the prover
too; the models state what they count as sets, so that none is needed. No module
declares a RECURSIVE operator.

The assumptions are those named in the modules: budgets and limits are numbers, model
values are distinct, slots are instants of the week, the offsets of a zone are
integers. No theorem assumes a bound on the number of actors or calls.

## 6. Abstractions to keep in mind

* One process at a time. Two processes on one database are not modelled.
* A SQL statement is atomic and takes effect or fails; a statement that took
  effect and reported an error is covered for marks only, as a lost outcome.
* A retry's delay is over at some later time; its length is not modelled.
* In `SlotQueue` a publication is one step and the due posts are absent;
  in `PostScheduler` a tick has any number of firings up to `MaxFires`. The two
  modules meet at `publishWithRetry`.
* In `Credentials` a transient error leaves the post as it is.

## 7. Plan

`PostPromise`: an abstract life of a post (asked, sent, settled) that
`PostScheduler` implements, and the composition of `SlotQueue` with it.

## 8. Not modelled

* The wire formats, texts, body limits and scopes of the platform clients, and the
  length of a `Retry-After`: control only is modelled. A text too long for X and a
  LinkedIn credential without an actor are one flag of a call (`fit`).
* `route.go`: builders and validation of URLs, pure and run once at start.
* `schema.go`, `migrate.go`: idempotent DDL; foreign keys and unique columns
  appear as guards.
* Encryption of tokens, HMAC signatures, bearer tokens. Of the encryption of
  configurations only who can read a row.
* A second `Register` or `Stop` in one process (section 4).
* Lists, gets and the descriptions of the tools: they change nothing.
* `nextInterval`: how long the scheduler sleeps; that it wakes is fairness.
* The `StateFlow` that `Register` declares: it is data for the core package, and
  the posts' statuses do not go through it.

## 9. Running

    tlc -config MCPostScheduler_races.cfg MCPostScheduler
    for m in *Proofs.tla; do tlapm $m; done

The longest run takes between two and three minutes with two workers.
