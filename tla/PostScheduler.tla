--------------------------- MODULE PostScheduler ---------------------------
(***************************************************************************)
(* The life of a ScheduledPost: one row of smeldr_social_posts, written by *)
(* three parties that share nothing but the database -                     *)
(*   - the scheduler goroutine (scheduler.go), which polls due posts,      *)
(*     fires slots and publishes with retries;                             *)
(*   - the MCP tools (mcp.go) and the REST handlers (post_http.go), which  *)
(*     read a row, compute a new one and write it back in a later step;    *)
(*   - publishNow, the manual path, which calls the platform itself.       *)
(* No transaction spans a read and the write that depends on it, and no    *)
(* UPDATE checks the status it overwrites; every such window is a step     *)
(* boundary here.                                                          *)
(*                                                                         *)
(* Abstractions.  A post's content is not modelled.  scheduled_at is one   *)
(* of "none", "later" and "due"; TimePasses turns "later" into "due".      *)
(* Slots fire any number of times up to MaxFires in a tick (SlotQueue has  *)
(* the schedules), a credential may be missing at any time, and the        *)
(* platform answers anything its clients can report.                       *)
(***************************************************************************)
EXTENDS Naturals, PublishReports

CONSTANTS
  Posts,         \* ids a client may create; an id is never reused
  NoPost,        \* no post
  Clients,       \* concurrent API requests (HTTP handlers, MCP calls)
  MaxAttempts,   \* len(retryDelays)+1
  MaxFires,      \* bound: slot firings a tick sees
  RestStatuses,  \* statuses REST callers send; the handlers accept any
  LossyNetwork,  \* TRUE: the answer to an accepted publish may be lost
  EnforceFK,     \* TRUE: Postgres; FALSE: SQLite with foreign keys off
  Transactions,  \* TRUE: the database is a txBeginner
  MaxRequests,   \* bound: API calls
  MaxFaults,     \* bound: failed database statements
  MaxCrashes,    \* bound: process crashes
  MaxStops       \* bound: graceful stops

PostStatuses == {"draft", "scheduled", "queued", "published", "failed", "archived"}

Times == {"none", "later", "due"}

ASSUME PostAssumption == NoPost \notin Posts
ASSUME AttemptAssumption == MaxAttempts \in Nat \ {0}
ASSUME StatusAssumption == RestStatuses \subseteq PostStatuses
ASSUME NetworkAssumption == LossyNetwork \in BOOLEAN
ASSUME DatabaseAssumption == EnforceFK \in BOOLEAN /\ Transactions \in BOOLEAN
ASSUME BoundAssumption ==
  /\ MaxFires \in Nat
  /\ MaxRequests \in Nat
  /\ MaxFaults \in Nat
  /\ MaxCrashes \in Nat
  /\ MaxStops \in Nat

VARIABLES
  \* The database.
  status,        \* of each row; "unborn" before the INSERT, "deleted" after the DELETE
  scheduledAt,   \* the row's scheduled_at
  deliveryLog,   \* rows of smeldr_social_delivery_log for the post
  \* The scheduler goroutine.
  pc,            \* where the goroutine is
  batch,         \* posts of the duePosts snapshot still to be published
  fires,         \* slot firings of this tick still to be served
  job,           \* the call of publishWithRetry in progress
  stopping,      \* its context is cancelled
  \* The API requests.
  requests,      \* each client's request
  \* The platform.
  accepted,      \* copies of the post the platform accepted
  \* History: why a copy may exist.
  asked,         \* times a client asked for the post to be published
  doubts,        \* times an outcome was lost or a stale row revived the post
  \* Bounds.
  requestsLeft, faultsLeft, crashesLeft, stopsLeft

database  == <<status, scheduledAt, deliveryLog>>
scheduler == <<pc, batch, fires, job, stopping>>
history   == <<asked, doubts>>
budgets   == <<requestsLeft, faultsLeft, crashesLeft, stopsLeft>>
vars == <<database, scheduler, requests, accepted, history, budgets>>

NoJob == [post |-> NoPost, copy |-> "scheduled", attempts |-> 0, answer |-> "none"]

Jobs == [post: Posts \cup {NoPost}, copy: {"scheduled", "queued"},
         attempts: Nat, answer: Answers \cup {"none"}]

Idle == [pc |-> "idle", post |-> NoPost, status |-> "draft", at |-> "none",
         asks |-> FALSE, answer |-> "none"]

Requests == [pc: {"idle", "write", "delete", "call", "mark"}, post: Posts \cup {NoPost},
             status: PostStatuses, at: Times, asks: BOOLEAN,
             answer: Answers \cup {"none"}]

\* Where the goroutine is: asleep in run, in the loop over due posts, in the
\* loop over slots, or in one of the three stages of publishWithRetry.
Stages == {"call", "log", "settle"}

TypeOK ==
  /\ status \in [Posts -> PostStatuses \cup {"unborn", "deleted"}]
  /\ scheduledAt \in [Posts -> Times]
  /\ deliveryLog \in [Posts -> Nat]
  /\ pc \in {"sleep", "due", "slots", "stopped"} \cup Stages
  /\ batch \subseteq Posts
  /\ fires \in Nat
  /\ job \in Jobs
  /\ stopping \in BOOLEAN
  /\ requests \in [Clients -> Requests]
  /\ accepted \in [Posts -> Nat]
  /\ asked \in [Posts -> Nat]
  /\ doubts \in [Posts -> Nat]
  /\ requestsLeft \in Nat
  /\ faultsLeft \in Nat
  /\ crashesLeft \in Nat
  /\ stopsLeft \in Nat

Init ==
  /\ status = [p \in Posts |-> "unborn"]
  /\ scheduledAt = [p \in Posts |-> "none"]
  /\ deliveryLog = [p \in Posts |-> 0]
  /\ pc = "sleep"
  /\ batch = {}
  /\ fires = 0
  /\ job = NoJob
  /\ stopping = FALSE
  /\ requests = [c \in Clients |-> Idle]
  /\ accepted = [p \in Posts |-> 0]
  /\ asked = [p \in Posts |-> 0]
  /\ doubts = [p \in Posts |-> 0]
  /\ requestsLeft = MaxRequests
  /\ faultsLeft = MaxFaults
  /\ crashesLeft = MaxCrashes
  /\ stopsLeft = MaxStops

-----------------------------------------------------------------------------
(***************************************************************************)
(* The statements of post.go.  An UPDATE whose WHERE finds no row changes  *)
(* nothing and reports no error.                                           *)
(***************************************************************************)

Stored(p) == status[p] \in PostStatuses

\* The scheduler publishes a row in one of these statuses.
IsLive(s) == s \in {"scheduled", "queued"}

Live(p) == IsLive(status[p])

SetStatus(p, s) ==
  status' = IF Stored(p) THEN [status EXCEPT ![p] = s] ELSE status

\* Mutation: the UPDATE sets platform_post_id and forgets status.
markPostPublishedWithoutStatus(p) == UNCHANGED <<status, scheduledAt>>

markPostPublished(p) == SetStatus(p, "published") /\ UNCHANGED scheduledAt

markPostFailed(p) == SetStatus(p, "failed") /\ UNCHANGED scheduledAt

updatePost(p, s, at) ==
  /\ SetStatus(p, s)
  /\ scheduledAt' = IF Stored(p) THEN [scheduledAt EXCEPT ![p] = at] ELSE scheduledAt

insertPost(p, s, at) ==
  /\ status' = [status EXCEPT ![p] = s]
  /\ scheduledAt' = [scheduledAt EXCEPT ![p] = at]

\* The two statements of deletePost.  Postgres refuses the second one while a
\* log row references the post.
deleteLog(p) == deliveryLog' = [deliveryLog EXCEPT ![p] = 0]

deleteRow(p, logged) ==
  status' = IF Stored(p) /\ ~(EnforceFK /\ logged > 0)
            THEN [status EXCEPT ![p] = "deleted"] ELSE status

\* The log row references the post: Postgres refuses it once the post is gone.
logDeliveryAttempt(p) ==
  deliveryLog' = IF Stored(p) \/ ~EnforceFK
                 THEN [deliveryLog EXCEPT ![p] = @ + 1] ELSE deliveryLog

\* The rows duePosts selects.
duePosts == {p \in Posts : status[p] = "scheduled" /\ scheduledAt[p] = "due"}

NoFault == UNCHANGED budgets

\* A database statement fails; most callers only log the error.
Fault ==
  /\ faultsLeft > 0
  /\ faultsLeft' = faultsLeft - 1
  /\ UNCHANGED <<requestsLeft, crashesLeft, stopsLeft>>

-----------------------------------------------------------------------------
(***************************************************************************)
(* API requests.  A handler that changes a row reads it (getPost), decides *)
(* what to write from what it read, and writes the whole row back: a Plan  *)
(* step and a Write step.  Anything may happen between the two.            *)
(***************************************************************************)

Spend ==
  /\ requestsLeft > 0
  /\ requestsLeft' = requestsLeft - 1
  /\ UNCHANGED <<faultsLeft, crashesLeft, stopsLeft>>

Begin(c, r) ==
  /\ requests[c] = Idle
  /\ Spend
  /\ requests' = [requests EXCEPT ![c] = r]
  /\ UNCHANGED <<database, scheduler, accepted, history>>

PlanWrite(c, p, s, at, asks) ==
  Begin(c, [Idle EXCEPT !.pc = "write", !.post = p, !.status = s, !.at = at, !.asks = asks])

\* "keep" stands for a field absent from the request.
Patch(new, old) == IF new = "keep" THEN old ELSE new

\* A draft with a time becomes scheduled.
Promote(s, at) == IF s = "draft" /\ at # "none" THEN "scheduled" ELSE s

McpStatuses == {"draft", "scheduled", "queued", "archived"}

Create(p, s, at) ==
  /\ status[p] = "unborn"
  /\ Spend
  /\ insertPost(p, s, at)
  /\ asked' = [asked EXCEPT ![p] = @ + (IF IsLive(s) THEN 1 ELSE 0)]
  /\ UNCHANGED <<deliveryLog, scheduler, requests, accepted, doubts>>

MCPCreate(p) ==
  \E s \in McpStatuses, at \in Times : Create(p, Promote(s, at), at)

handlePostCreate(p) ==
  \E s \in RestStatuses, at \in Times : Create(p, s, at)

MCPUpdate(c, p) ==
  \E new \in McpStatuses \cup {"keep"}, time \in Times \cup {"keep"} :
    LET at == Patch(time, scheduledAt[p])
        s  == Promote(Patch(new, status[p]), at)
    IN  /\ Stored(p)
        /\ status[p] \notin {"published", "failed"}
        /\ PlanWrite(c, p, s, at, s # status[p] \/ new # "keep")

handlePostUpdate(c, p) ==
  \E new \in RestStatuses \cup {"keep"}, time \in Times \cup {"keep"} :
    /\ Stored(p)
    /\ PlanWrite(c, p, Patch(new, status[p]), Patch(time, scheduledAt[p]), new # "keep")

MCPSchedule(c, p) ==
  \E at \in {"later", "due"} :
    /\ Stored(p)
    /\ status[p] \notin {"published", "archived"}
    /\ PlanWrite(c, p, "scheduled", at, TRUE)

MCPArchive(c, p) ==
  /\ Stored(p)
  /\ status[p] # "published"
  /\ PlanWrite(c, p, "archived", scheduledAt[p], FALSE)

\* The write of a planned row, over whatever the row has become.  A request
\* that asks for publication and makes the row live counts as asked; a row
\* that a stale copy brings back to life was asked for by nobody.
WriteRow(c) ==
  LET r == requests[c]
      revives == Stored(r.post) /\ ~Live(r.post) /\ IsLive(r.status)
  IN  /\ r.pc = "write"
      /\ requests' = [requests EXCEPT ![c] = Idle]
      /\ \/ /\ updatePost(r.post, r.status, r.at)
            /\ asked' = [asked EXCEPT ![r.post] = @ + (IF revives /\ r.asks THEN 1 ELSE 0)]
            /\ doubts' = [doubts EXCEPT ![r.post] = @ + (IF revives /\ ~r.asks THEN 1 ELSE 0)]
            /\ NoFault
         \/ /\ Fault
            /\ UNCHANGED <<status, scheduledAt, history>>
      /\ UNCHANGED <<deliveryLog, scheduler, accepted>>

\* In one transaction: both statements, or, if one fails, neither.
DeleteInTx(p) ==
  /\ Transactions
  /\ Stored(p)
  /\ Spend
  /\ deleteLog(p)
  /\ deleteRow(p, 0)
  /\ UNCHANGED <<scheduledAt, scheduler, requests, accepted, history>>

\* On a database without transactions: the log first, whether or not there is
\* a row.
DeleteLog(c, p) ==
  /\ ~Transactions
  /\ status[p] # "unborn"
  /\ requests[c] = Idle
  /\ Spend
  /\ requests' = [requests EXCEPT ![c] = [Idle EXCEPT !.pc = "delete", !.post = p]]
  /\ deleteLog(p)
  /\ UNCHANGED <<status, scheduledAt, scheduler, accepted, history>>

\* Then the row, unless the statement fails.
DeleteRow(c) ==
  LET p == requests[c].post IN
  /\ requests[c].pc = "delete"
  /\ requests' = [requests EXCEPT ![c] = Idle]
  /\ \/ deleteRow(p, deliveryLog[p]) /\ NoFault
     \/ Fault /\ UNCHANGED status
  /\ UNCHANGED <<scheduledAt, deliveryLog, scheduler, accepted, history>>

-----------------------------------------------------------------------------
(***************************************************************************)
(* The platform.  An answer says whether the copy was accepted; the two    *)
(* can disagree only when the answer is lost on the way back, because of   *)
(* the network or because Stop cancels the request's context.              *)
(***************************************************************************)

PlatformAnswers(cancelled) == Outcomes(LossyNetwork \/ cancelled)

Accept(p, took) ==
  accepted' = [accepted EXCEPT ![p] = @ + (IF took THEN 1 ELSE 0)]

\* MCPPublish reads the row; publishNow reads the credential, calls the
\* platform with a background context and marks the row.
MCPPublish(c, p) ==
  /\ Stored(p)
  /\ status[p] \notin {"published", "archived"}
  /\ Begin(c, [Idle EXCEPT !.pc = "call", !.post = p])

publishNowCall(c) ==
  LET p == requests[c].post IN
  /\ requests[c].pc = "call"
  /\ \/ \E a \in PlatformAnswers(FALSE) :
          /\ requests' = [requests EXCEPT ![c].pc = "mark", ![c].answer = a.answer]
          /\ Accept(p, a.took)
          /\ asked' = [asked EXCEPT ![p] = @ + 1]
     \/ /\ requests' = [requests EXCEPT ![c] = Idle]  \* no credential: nothing is marked
        /\ UNCHANGED <<accepted, asked>>
  /\ UNCHANGED <<database, scheduler, doubts, budgets>>

\* Mutation: publishNow marks the row published whatever the answer.
publishNowMarkUnchecked(c) ==
  /\ requests[c].pc = "mark"
  /\ requests' = [requests EXCEPT ![c] = Idle]
  /\ markPostPublished(requests[c].post)
  /\ UNCHANGED <<deliveryLog, scheduler, accepted, history, budgets>>

publishNowMark(c) ==
  LET p == requests[c].post IN
  /\ requests[c].pc = "mark"
  /\ requests' = [requests EXCEPT ![c] = Idle]
  /\ \/ /\ IF requests[c].answer = "ok" THEN markPostPublished(p) ELSE markPostFailed(p)
        /\ NoFault
     \/ /\ Fault
        /\ UNCHANGED <<status, scheduledAt>>
  /\ UNCHANGED <<deliveryLog, scheduler, accepted, history>>

-----------------------------------------------------------------------------
(***************************************************************************)
(* The scheduler goroutine.                                                *)
(***************************************************************************)

Pass == UNCHANGED <<requests, accepted, history>>

\* The select of run when the timer fires: duePosts is read once.  If that
\* fails processDue returns and nothing has changed.
Poll ==
  /\ pc = "sleep"
  /\ pc' = "due"
  /\ batch' = duePosts
  /\ UNCHANGED <<database, fires, job, stopping, budgets>>
  /\ Pass

\* Mutation: run selects on the timer alone.
ExitNever == FALSE /\ UNCHANGED vars

\* The select of run when the context is cancelled.
Exit ==
  /\ pc = "sleep"
  /\ stopping
  /\ pc' = "stopped"
  /\ UNCHANGED <<database, batch, fires, job, stopping, budgets>>
  /\ Pass

\* Mutation: a missing credential is only logged.
StartPublishForgiving(p, s, loop) ==
  \/ /\ job' = [post |-> p, copy |-> s, attempts |-> deliveryLog[p], answer |-> "none"]
     /\ pc' = "call"
     /\ UNCHANGED <<database, budgets>>
  \/ /\ pc' = loop
     /\ UNCHANGED <<database, job, budgets>>

\* publishWithRetry up to the platform call, for the copy of p that was read
\* with status s.  loop is where the goroutine continues if it gives up.
StartPublish(p, s, loop) ==
  \/ /\ job' = [post |-> p, copy |-> s, attempts |-> deliveryLog[p], answer |-> "none"]
     /\ pc' = "call"
     /\ UNCHANGED <<database, budgets>>
  \/ /\ Fault  \* the attempts cannot be counted: the post is skipped
     /\ pc' = loop
     /\ UNCHANGED <<database, job>>
  \/ /\ markPostFailed(p)  \* the credential is gone
     /\ pc' = loop
     /\ UNCHANGED <<deliveryLog, job, budgets>>

PublishDue(p) ==
  /\ pc = "due"
  /\ p \in batch
  /\ ~stopping
  /\ batch' = batch \ {p}
  /\ StartPublish(p, "scheduled", "due")
  /\ UNCHANGED <<fires, stopping>>
  /\ Pass

\* The end of the loop over due posts, or its early return.
EndDue ==
  /\ pc = "due"
  /\ \/ /\ stopping
        /\ batch' = {}
        /\ pc' = "sleep"
        /\ UNCHANGED fires
     \/ /\ ~stopping
        /\ batch = {}
        /\ pc' = "slots"
        /\ fires' \in 0..MaxFires
        /\ UNCHANGED batch
  /\ UNCHANGED <<database, job, stopping, budgets>>
  /\ Pass

\* Mutation: the cap on a tick's publications is not tested.
PublishQueuedUncapped(p) ==
  /\ pc = "slots"
  /\ ~stopping
  /\ status[p] = "queued"
  /\ fires' = fires - 1
  /\ StartPublish(p, "queued", "slots")
  /\ UNCHANGED <<batch, stopping>>
  /\ Pass

PublishQueued(p) ==
  /\ pc = "slots"
  /\ fires > 0
  /\ ~stopping
  /\ status[p] = "queued"
  /\ fires' = fires - 1
  /\ StartPublish(p, "queued", "slots")
  /\ UNCHANGED <<batch, stopping>>
  /\ Pass

EndSlots ==
  /\ pc = "slots"
  /\ fires = 0 \/ stopping \/ \A p \in Posts : status[p] # "queued"
  /\ pc' = "sleep"
  /\ fires' = 0
  /\ UNCHANGED <<database, batch, job, stopping, budgets>>
  /\ Pass

\* callPlatformPublish.
CallPlatform ==
  /\ pc = "call"
  /\ pc' = "log"
  /\ \E a \in PlatformAnswers(stopping) :
       /\ job' = [job EXCEPT !.answer = a.answer]
       /\ Accept(job.post, a.took)
       /\ doubts' = [doubts EXCEPT ![job.post] =
                       @ + (IF a.took /\ a.answer # "ok" THEN 1 ELSE 0)]
  /\ UNCHANGED <<database, batch, fires, stopping, requests, asked, budgets>>

LogAttempt ==
  /\ pc = "log"
  /\ pc' = "settle"
  /\ \/ logDeliveryAttempt(job.post) /\ NoFault
     \/ Fault /\ UNCHANGED deliveryLog
  /\ UNCHANGED <<status, scheduledAt, batch, fires, job, stopping>>
  /\ Pass

\* Mutation: the attempt just made is not counted.
ExhaustedLate == job.answer = "terminal" \/ job.attempts >= MaxAttempts

\* No more attempts after this one.
Exhausted == job.answer = "terminal" \/ job.attempts + 1 >= MaxAttempts

\* The backoff of an ordinary failure is at least 30 seconds; a Retry-After
\* may be zero or in the past.
RetryTimes == IF job.answer = "limited" THEN {"later", "due"} ELSE {"later"}

\* Mutation: a success does not return and falls through to the retry.
SettleFallsThrough ==
  /\ pc = "settle"
  /\ pc' = IF job.copy = "scheduled" THEN "due" ELSE "slots"
  /\ job' = NoJob
  /\ IF Exhausted THEN markPostFailed(job.post)
                  ELSE \E at \in RetryTimes : updatePost(job.post, job.copy, at)
  /\ UNCHANGED <<deliveryLog, batch, fires, stopping, requests, accepted, history, budgets>>

\* The last statement of publishWithRetry.  A retry writes back the copy that
\* was read before the call, with its status.
Settle ==
  LET p == job.post IN
  /\ pc = "settle"
  /\ pc' = IF job.copy = "scheduled" THEN "due" ELSE "slots"
  /\ job' = NoJob
  /\ \/ /\ \/ job.answer = "ok" /\ markPostPublished(p)
           \/ job.answer # "ok" /\ Exhausted /\ markPostFailed(p)
           \/ /\ job.answer # "ok" /\ ~Exhausted
              /\ \E at \in RetryTimes : updatePost(p, job.copy, at)
        /\ UNCHANGED <<doubts, budgets>>
     \/ /\ Fault
        /\ doubts' = [doubts EXCEPT ![p] = @ + 1]
        /\ UNCHANGED <<status, scheduledAt>>
  /\ UNCHANGED <<deliveryLog, batch, fires, stopping, requests, accepted, asked>>

SchedulerStep ==
  \/ Poll \/ EndDue \/ EndSlots \/ CallPlatform \/ LogAttempt \/ Settle
  \/ \E p \in Posts : PublishDue(p) \/ PublishQueued(p)

-----------------------------------------------------------------------------
(***************************************************************************)
(* The world.                                                              *)
(***************************************************************************)

TimePasses(p) ==
  /\ scheduledAt[p] = "later"
  /\ scheduledAt' = [scheduledAt EXCEPT ![p] = "due"]
  /\ UNCHANGED <<status, deliveryLog, scheduler, requests, accepted, history, budgets>>

\* Social.Stop: cancel, then wait for the goroutine.
Stop ==
  /\ ~stopping
  /\ stopsLeft > 0
  /\ stopsLeft' = stopsLeft - 1
  /\ stopping' = TRUE
  /\ UNCHANGED <<database, pc, batch, fires, job, requestsLeft, faultsLeft, crashesLeft>>
  /\ Pass

\* A new process: nothing but the database survives.
Reboot ==
  /\ pc' = "sleep"
  /\ batch' = {}
  /\ fires' = 0
  /\ job' = NoJob
  /\ stopping' = FALSE
  /\ requests' = [c \in Clients |-> Idle]
  /\ UNCHANGED <<database, accepted, asked>>

\* The start of a process after a graceful stop.
Restart ==
  /\ pc = "stopped"
  /\ Reboot
  /\ UNCHANGED <<doubts, budgets>>

\* A crash, and the process that replaces it.  An answer the goroutine holds
\* and has not recorded is lost with it.
Crash ==
  /\ crashesLeft > 0
  /\ crashesLeft' = crashesLeft - 1
  /\ Reboot
  /\ doubts' = [p \in Posts |-> doubts[p] +
                  (IF pc \in {"log", "settle"} /\ job.post = p THEN 1 ELSE 0)]
  /\ UNCHANGED <<requestsLeft, faultsLeft, stopsLeft>>

Request ==
  \/ \E p \in Posts : MCPCreate(p) \/ handlePostCreate(p) \/ DeleteInTx(p)
  \/ \E c \in Clients, p \in Posts :
       \/ MCPUpdate(c, p) \/ handlePostUpdate(c, p) \/ MCPSchedule(c, p)
       \/ MCPArchive(c, p) \/ MCPPublish(c, p) \/ DeleteLog(c, p)
  \/ \E c \in Clients : WriteRow(c) \/ DeleteRow(c) \/ publishNowCall(c) \/ publishNowMark(c)

Next ==
  \/ Request
  \/ SchedulerStep
  \/ Exit
  \/ Stop
  \/ Restart
  \/ Crash
  \/ \E p \in Posts : TimePasses(p)

Spec == Init /\ [][Next]_vars

\* The goroutine is never blocked for good: every HTTP client it uses has a
\* timeout, and Go's select picks among ready cases at random, so a cancelled
\* run loop returns after finitely many polls.  Time passes.  Nothing is
\* assumed of clients, of the platform's answers or of the operator.
Fairness ==
  /\ WF_vars(SchedulerStep)
  /\ SF_vars(Exit)
  /\ \A p \in Posts : WF_vars(TimePasses(p))

FairSpec == Spec /\ Fairness

-----------------------------------------------------------------------------
(***************************************************************************)
(* Properties.                                                             *)
(***************************************************************************)

\* Every copy on the platform has a cause.  publishWithRetry, publishNow and
\* the stale writes of the handlers may send a post more than once, but never
\* more often than clients asked (created it live, made it live, published it
\* by hand) plus the times an outcome was lost or a stale row revived it.
CopiesAccounted == \A p \in Posts : accepted[p] <= asked[p] + doubts[p]

\* A row says published only of a post the platform has accepted, whatever
\* order markPostPublished, the stale writes and the deletions come in.
\* REST callers that write "published" themselves are excluded.
PublishedWasAccepted ==
  "published" \notin RestStatuses =>
    \A p \in Posts : status[p] = "published" => accepted[p] > 0

\* The delivery log bounds the retries across restarts: beyond MaxAttempts-1
\* entries, each further one is owed to a new request or to a lost outcome.
AttemptsAccounted ==
  \A p \in Posts : deliveryLog[p] <= (MaxAttempts - 1) + asked[p] + doubts[p]

\* A scheduled post with a time is eventually published, failed or taken
\* away, in spite of transient answers, failing statements and crashes;
\* unless the process is told to stop.
ScheduledResolved ==
  \A p \in Posts :
    (status[p] = "scheduled" /\ scheduledAt[p] # "none")
      ~> (status[p] # "scheduled" \/ scheduledAt[p] = "none" \/ stopping)

\* Stop does not wait forever for the goroutine, wherever the cancellation
\* finds it.
StopTerminates == stopping ~> (pc = "stopped" \/ ~stopping)

-----------------------------------------------------------------------------
(***************************************************************************)
(* What the documentation says and the code does not do.                   *)
(***************************************************************************)

\* Stop "waits for the scheduler and delivery worker to finish in-flight
\* work": on a reliable network a stop costs no extra copy.
StopCostsNoCopy == \A p \in Posts : accepted[p] <= asked[p]

=============================================================================
