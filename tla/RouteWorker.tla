---------------------------- MODULE RouteWorker ----------------------------
(***************************************************************************)
(* The router (router.go, route_worker.go).  A signal enqueues one job per *)
(* matching route; one worker goroutine polls the due jobs, POSTs each to  *)
(* its agent and records the outcome.  The database statement that records *)
(* an outcome is separate from the POST, its error is ignored, and the     *)
(* worker looks at stopCh only between two batches.                        *)
(*                                                                         *)
(* Abstractions.  A job's payload, signature and URL are not modelled.     *)
(* next_attempt is whether the job is due: "due" lists the due pending     *)
(* jobs by next_attempt, which is the order they became due in; a pending  *)
(* job outside it is backing off.                                          *)
(***************************************************************************)
EXTENDS Naturals, SequencesExt

CONSTANTS
  Jobs,         \* jobs the signals may give rise to
  NoJob,        \* no job
  Events,       \* signal events
  JobsOf,       \* JobsOf[e]: a job for each route matching event e
  MaxAttempts,  \* len(routeRetryDelays)+1
  Limit,        \* most jobs in a batch
  MaxLimited,   \* bound: 429 answers
  MaxFaults,    \* bound: failed database statements
  MaxCrashes,   \* bound: process crashes
  MaxStops      \* bound: graceful stops

ASSUME JobAssumption ==
  /\ NoJob \notin Jobs
  /\ JobsOf \in [Events -> SUBSET Jobs]
  /\ \A e, f \in Events : e # f => JobsOf[e] \cap JobsOf[f] = {}  \* ids are fresh
ASSUME AttemptAssumption == MaxAttempts \in Nat \ {0} /\ Limit \in Nat \ {0}
ASSUME BoundAssumption ==
  /\ MaxLimited \in Nat
  /\ MaxFaults \in Nat
  /\ MaxCrashes \in Nat
  /\ MaxStops \in Nat

VARIABLES
  \* The database: smeldr_social_route_jobs and its log.
  status,      \* "absent" before the INSERT
  attempts,    \* attempts recorded in the row
  due,         \* the due pending jobs, by next_attempt
  routeLog,    \* rows of smeldr_social_route_log for the job
  \* The signal handlers.
  unheard,     \* events not signalled yet
  toEnqueue,   \* jobs a running handler has still to insert
  \* The worker goroutine.
  pc,          \* where it is
  batch,       \* the rest of the jobs it polled
  current,     \* the delivery in progress
  stopping,    \* stopCh is closed
  \* The agents.
  taken,       \* times the agent answered the job with 2xx
  \* History.
  tries,       \* POSTs made for the job
  limited,     \* 429 answers among them
  lapses,      \* outcomes that were lost before they were recorded
  \* Bounds.
  limitedLeft, faultsLeft, crashesLeft, stopsLeft

table   == <<status, attempts, due, routeLog>>
bus     == <<unheard, toEnqueue>>
worker  == <<pc, batch, current, stopping>>
history == <<tries, limited, lapses>>
budgets == <<limitedLeft, faultsLeft, crashesLeft, stopsLeft>>
vars == <<table, bus, worker, taken, history, budgets>>

Answers == {"ok", "rejected", "limited", "transient"}

Idle == [id |-> NoJob, attempt |-> 0, answer |-> "ok"]

Snapshot == [id: Jobs, attempts: Nat]

TableTypes ==
  /\ status \in [Jobs -> {"absent", "pending", "delivered", "failed"}]
  /\ attempts \in [Jobs -> Nat]
  /\ due \in Seq(Jobs)
  /\ routeLog \in [Jobs -> Nat]

BusTypes == unheard \subseteq Events /\ toEnqueue \subseteq Jobs

Deliveries == [id: Jobs \cup {NoJob}, attempt: Nat, answer: Answers]

WorkerTypes ==
  /\ pc \in {"poll", "deliver", "log", "mark", "wait", "stopped"}
  /\ batch \in Seq(Snapshot)
  /\ current \in Deliveries
  /\ stopping \in BOOLEAN

CountTypes ==
  /\ taken \in [Jobs -> Nat]
  /\ tries \in [Jobs -> Nat]
  /\ limited \in [Jobs -> Nat]
  /\ lapses \in [Jobs -> Nat]

BudgetTypes ==
  /\ limitedLeft \in Nat
  /\ faultsLeft \in Nat
  /\ crashesLeft \in Nat
  /\ stopsLeft \in Nat

TypeOK == TableTypes /\ BusTypes /\ WorkerTypes /\ CountTypes /\ BudgetTypes

Init ==
  /\ status = [j \in Jobs |-> "absent"]
  /\ attempts = [j \in Jobs |-> 0]
  /\ due = <<>>
  /\ routeLog = [j \in Jobs |-> 0]
  /\ unheard = Events
  /\ toEnqueue = {}
  /\ pc = "poll"
  /\ batch = <<>>
  /\ current = Idle
  /\ stopping = FALSE
  /\ taken = [j \in Jobs |-> 0]
  /\ tries = [j \in Jobs |-> 0]
  /\ limited = [j \in Jobs |-> 0]
  /\ lapses = [j \in Jobs |-> 0]
  /\ limitedLeft = MaxLimited
  /\ faultsLeft = MaxFaults
  /\ crashesLeft = MaxCrashes
  /\ stopsLeft = MaxStops

\* A database statement fails; every caller only logs the error, if that.
Fault ==
  /\ faultsLeft > 0
  /\ faultsLeft' = faultsLeft - 1
  /\ UNCHANGED <<limitedLeft, crashesLeft, stopsLeft>>

-----------------------------------------------------------------------------
(***************************************************************************)
(* The signal handlers.                                                    *)
(***************************************************************************)

\* The handler of a signal starts its loop over the matching routes.
handle(e) ==
  /\ e \in unheard
  /\ unheard' = unheard \ {e}
  /\ toEnqueue' = toEnqueue \cup JobsOf[e]
  /\ UNCHANGED <<table, worker, taken, history, budgets>>

\* One INSERT of that loop: due at once.  A failed one is skipped.
enqueue(j) ==
  /\ j \in toEnqueue
  /\ toEnqueue' = toEnqueue \ {j}
  /\ \/ /\ status[j] = "absent"
        /\ status' = [status EXCEPT ![j] = "pending"]
        /\ due' = Append(due, j)
        /\ UNCHANGED budgets
     \/ Fault /\ UNCHANGED <<status, due>>
  /\ UNCHANGED <<attempts, routeLog, unheard, worker, taken, history>>

-----------------------------------------------------------------------------
(***************************************************************************)
(* The worker.                                                             *)
(***************************************************************************)

Still == UNCHANGED <<bus, taken, history>>

Least(a, b) == IF a <= b THEN a ELSE b

\* Mutation: one job less than the limit.
dueJobsUnderLimit ==
  [i \in 1..Least(Limit - 1, Len(due)) |-> [id |-> due[i], attempts |-> attempts[due[i]]]]

\* The first Limit due jobs, as they are in the table now.
dueJobs ==
  [i \in 1..Least(Limit, Len(due)) |-> [id |-> due[i], attempts |-> attempts[due[i]]]]

Poll ==
  /\ pc = "poll"
  /\ pc' = "deliver"
  /\ \/ batch' = dueJobs /\ UNCHANGED budgets
     \/ batch' = <<>> /\ Fault
  /\ UNCHANGED <<table, current, stopping>>
  /\ Still

\* The POST.  An accepted job whose answer is lost looks like a network error.
AgentAnswers ==
  {[took |-> a = "ok", answer |-> a] : a \in Answers}
    \cup {[took |-> TRUE, answer |-> "transient"]}

Post ==
  /\ pc = "deliver"
  /\ batch # <<>>
  /\ \E a \in AgentAnswers :
       LET j == Head(batch).id IN
       /\ current' = [id |-> j, attempt |-> Head(batch).attempts + 1, answer |-> a.answer]
       /\ taken' = [taken EXCEPT ![j] = @ + (IF a.took THEN 1 ELSE 0)]
       /\ tries' = [tries EXCEPT ![j] = @ + 1]
       /\ limited' = [limited EXCEPT ![j] = @ + (IF a.answer = "limited" THEN 1 ELSE 0)]
       /\ lapses' = [lapses EXCEPT ![j] = @ + (IF a.took /\ a.answer # "ok" THEN 1 ELSE 0)]
       /\ IF a.answer = "limited"
          THEN limitedLeft > 0 /\ limitedLeft' = limitedLeft - 1
          ELSE UNCHANGED limitedLeft
  /\ batch' = Tail(batch)
  /\ pc' = "log"
  /\ UNCHANGED <<table, bus, stopping, faultsLeft, crashesLeft, stopsLeft>>

logAttempt ==
  /\ pc = "log"
  /\ pc' = "mark"
  /\ \/ routeLog' = [routeLog EXCEPT ![current.id] = @ + 1] /\ UNCHANGED budgets
     \/ Fault /\ UNCHANGED routeLog
  /\ UNCHANGED <<status, attempts, due, batch, current, stopping>>
  /\ Still

IsDue(j) == \E i \in 1..Len(due) : due[i] = j

NotDue(j) ==
  IF IsDue(j) THEN RemoveAt(due, CHOOSE i \in 1..Len(due) : due[i] = j) ELSE due

\* Mutation: dueJobs does not test the status, so a finished job stays due.
FinishStillDue(j, s) ==
  /\ status' = [status EXCEPT ![j] = s]
  /\ UNCHANGED <<attempts, due>>

Finish(j, s) ==
  /\ status' = [status EXCEPT ![j] = s]
  /\ due' = NotDue(j)
  /\ UNCHANGED attempts

\* Mutation: the job is logged as delivered and its status is not set.
markDeliveredWithoutStatus(j) ==
  /\ due' = NotDue(j)
  /\ UNCHANGED <<status, attempts>>

markDelivered(j) == Finish(j, "delivered")

\* Mutation: the UPDATE misspells the status.
markFailedMisspelt(j) == Finish(j, "error")

markFailed(j) == Finish(j, "failed")

\* The attempt is recorded and next_attempt lies ahead; the status is left.
scheduleRetry(j, attempt) ==
  /\ attempts' = [attempts EXCEPT ![j] = attempt]
  /\ due' = NotDue(j)
  /\ UNCHANGED status

\* Mutation: one retry too many.
applyRetryOnceMore(j, attempt) ==
  IF attempt > MaxAttempts THEN markFailed(j) ELSE scheduleRetry(j, attempt)

applyRetry(j, attempt) ==
  IF attempt > MaxAttempts - 1 THEN markFailed(j) ELSE scheduleRetry(j, attempt)

\* The statement that records the outcome.  A 429 is retried whatever the
\* number of attempts.
Mark ==
  LET j == current.id IN
  /\ pc = "mark"
  /\ pc' = "deliver"
  /\ current' = Idle
  /\ \/ /\ \/ current.answer = "ok" /\ markDelivered(j)
           \/ current.answer = "rejected" /\ markFailed(j)
           \/ current.answer = "limited" /\ scheduleRetry(j, current.attempt)
           \/ current.answer = "transient" /\ applyRetry(j, current.attempt)
        /\ UNCHANGED <<lapses, budgets>>
     \/ /\ Fault
        /\ lapses' = [lapses EXCEPT ![j] = @ + 1]
        /\ UNCHANGED <<status, attempts, due>>
  /\ UNCHANGED <<routeLog, bus, batch, stopping, taken, tries, limited>>

EndBatch ==
  /\ pc = "deliver"
  /\ batch = <<>>
  /\ pc' = "wait"
  /\ UNCHANGED <<table, batch, current, stopping, budgets>>
  /\ Still

\* Mutation: the worker selects on the timer alone.
ExitNever == FALSE /\ UNCHANGED vars

\* The select of runWorker: the timer, or stopCh.
Wake ==
  /\ pc = "wait"
  /\ pc' = "poll"
  /\ UNCHANGED <<table, batch, current, stopping, budgets>>
  /\ Still

Exit ==
  /\ pc = "wait"
  /\ stopping
  /\ pc' = "stopped"
  /\ UNCHANGED <<table, batch, current, stopping, budgets>>
  /\ Still

WorkerStep == Poll \/ Post \/ logAttempt \/ Mark \/ EndBatch \/ Wake

-----------------------------------------------------------------------------
(***************************************************************************)
(* The world.                                                              *)
(***************************************************************************)

\* The backoff of a pending job ends.
TimePasses(j) ==
  /\ status[j] = "pending"
  /\ ~IsDue(j)
  /\ due' = Append(due, j)
  /\ UNCHANGED <<status, attempts, routeLog, bus, worker, taken, history, budgets>>

stopWorker ==
  /\ ~stopping
  /\ stopsLeft > 0
  /\ stopsLeft' = stopsLeft - 1
  /\ stopping' = TRUE
  /\ UNCHANGED <<table, pc, batch, current, limitedLeft, faultsLeft, crashesLeft>>
  /\ Still

\* A new process runs AddRoutes: nothing but the tables survives.
AddRoutes ==
  /\ pc' = "poll"
  /\ batch' = <<>>
  /\ current' = Idle
  /\ stopping' = FALSE
  /\ toEnqueue' = {}
  /\ UNCHANGED <<table, unheard, taken, tries, limited>>

Restart ==
  /\ pc = "stopped"
  /\ AddRoutes
  /\ UNCHANGED <<lapses, budgets>>

\* A crash and the process that replaces it: the outcome in hand is lost.
Crash ==
  /\ crashesLeft > 0
  /\ crashesLeft' = crashesLeft - 1
  /\ AddRoutes
  /\ lapses' = [j \in Jobs |-> lapses[j] +
                 (IF pc \in {"log", "mark"} /\ current.id = j THEN 1 ELSE 0)]
  /\ UNCHANGED <<limitedLeft, faultsLeft, stopsLeft>>

Next ==
  \/ \E e \in Events : handle(e)
  \/ \E j \in Jobs : enqueue(j) \/ TimePasses(j)
  \/ WorkerStep
  \/ Exit
  \/ stopWorker
  \/ Restart
  \/ Crash

Spec == Init /\ [][Next]_vars

\* Handlers and the worker run; the HTTP client has a timeout; time passes;
\* select picks at random when the timer and stopCh are both ready.
Fairness ==
  /\ WF_vars(WorkerStep)
  /\ SF_vars(Exit)
  /\ \A j \in Jobs : WF_vars(enqueue(j)) /\ WF_vars(TimePasses(j))

FairSpec == Spec /\ Fairness

-----------------------------------------------------------------------------
(***************************************************************************)
(* Properties.                                                             *)
(***************************************************************************)

\* The worker keeps the promise of RouteDelivery: in particular a delivered
\* or failed job is never posted again and never changes, although every
\* batch is a copy of the table and every outcome is recorded by a blind
\* UPDATE.
Promise == INSTANCE RouteDelivery WITH status <- status, taken <- taken
KeepsPromise == Promise!Spec

\* An agent takes a job more than once only if an outcome was lost: the
\* answer on the wire, the statement that records it, or the whole process.
CopiesAccounted == \A j \in Jobs : taken[j] <= 1 + lapses[j]

\* routeRetryDelays bounds the POSTs of a job, restarts included: only 429
\* answers and lost outcomes add to them.
TriesAccounted ==
  \A j \in Jobs : tries[j] <= MaxAttempts + limited[j] + lapses[j]

\* A pending job is eventually delivered or failed, even when more jobs are
\* due than fit in a batch, unless 429 answers never cease or the process is
\* told to stop.
JobsResolved ==
  \A j \in Jobs : status[j] = "pending" ~> (status[j] \in {"delivered", "failed"} \/ stopping)

\* stopWorker returns: the batch in hand is drained and the worker exits.
StopTerminates == stopping ~> (pc = "stopped" \/ ~stopping)

=============================================================================
