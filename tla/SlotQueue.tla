----------------------------- MODULE SlotQueue -----------------------------
(***************************************************************************)
(* The slot queue (schedule.go, schedule_mcp.go, processSlotQueue of       *)
(* scheduler.go).  A PublicationSchedule has recurring slots; each tick of *)
(* the scheduler goroutine computes how often they fired since the         *)
(* schedule's last_tick_at, moves last_tick_at, and publishes the oldest   *)
(* queued post of the credential once per firing, at most len(slots)       *)
(* times.  Meanwhile the tools create, change, pause and delete schedules. *)
(*                                                                         *)
(* Abstractions.  The week is a cycle of Period instants and a slot is an  *)
(* instant of the week; wall-clock times, time zones and malformed slots   *)
(* are left out.  No instant passes between the reading of the clock and   *)
(* the SELECT of the active schedules.  The schedule keeps the age of its  *)
(* window, clock - last_tick_at (or created_at), instead of the time; the  *)
(* age stops growing at MaxAge, from where every slot has fired at least   *)
(* len(slots) times and a tick cannot tell the difference.  Publishing is  *)
(* one step, the last of publishWithRetry; PostScheduler has its detail.   *)
(***************************************************************************)
EXTENDS Integers, Sequences, FiniteSetsExt

CONSTANTS
  Ids,           \* schedule ids; an id is never reused
  NoId,          \* no schedule
  Posts,         \* 1..n: post p is the p-th that was created
  Credentials,   \* credentials with a queue
  CredentialOf,  \* the credential of each post
  Period,        \* instants in a week
  SlotLists,     \* values of the slots field
  MaxSlots,      \* longest of them
  Clients,       \* concurrent calls of update_publication_schedule
  MaxAttempts,   \* len(retryDelays)+1
  MaxRequests,   \* bound: tool calls
  MaxFaults,     \* bound: failed database statements
  MaxCrashes,    \* bound: process crashes
  MaxStops       \* bound: graceful stops

ASSUME IdAssumption == NoId \notin Ids
ASSUME PostAssumption == Posts \subseteq Nat \ {0} /\ CredentialOf \in [Posts -> Credentials]
ASSUME SlotAssumption ==
  /\ Period \in Nat \ {0}
  /\ MaxSlots \in Nat
  /\ SlotLists \subseteq {s \in Seq(0..(Period - 1)) : Len(s) <= MaxSlots}
ASSUME AttemptAssumption == MaxAttempts \in Nat \ {0}
ASSUME BoundAssumption ==
  /\ MaxRequests \in Nat
  /\ MaxFaults \in Nat
  /\ MaxCrashes \in Nat
  /\ MaxStops \in Nat

VARIABLES
  phase,      \* the instant of the week it is now
  \* The database.
  rows,       \* smeldr_social_publication_schedules, with the age of each window
  status,     \* of each post; "unborn" before its INSERT, "done" once published or failed
  attempts,   \* delivery log rows of each post
  \* The scheduler goroutine.
  pc,         \* where it is
  agenda,     \* active schedules of this tick still to be processed
  tick,       \* the schedule being processed
  job,        \* the post being published
  lag,        \* instants since the tick read the clock
  stopping,   \* its context is cancelled
  \* The tools.
  plans,      \* each client's row, read and changed and not yet written
  \* History.
  credit,     \* firings of each schedule not yet used, up to 2 * MaxSlots
  debt,       \* publications beyond them
  excused,    \* firings that a failed statement or a change of slots repeats
  \* Bounds.
  requestsLeft, faultsLeft, crashesLeft, stopsLeft

posts     == <<status, attempts>>
scheduler == <<pc, agenda, tick, job, lag, stopping>>
history   == <<credit, debt, excused>>
budgets   == <<requestsLeft, faultsLeft, crashesLeft, stopsLeft>>
vars == <<phase, rows, posts, scheduler, plans, history, budgets>>

MaxAge == Period * MaxSlots

NoRow == [status |-> "unborn", cred |-> NoId, slots |-> <<>>, age |-> 0]

DeletedRow == [NoRow EXCEPT !.status = "deleted"]

Exists(i) == rows[i].status \in {"active", "paused"}

\* A schedule as the tick read it, and what is left of the count of each slot.
Snapshots == [id: Ids, cred: Credentials, slots: SlotLists, fires: Seq(Nat), served: Nat]

NoTick == [id |-> NoId, cred |-> NoId, slots |-> <<>>, fires |-> <<>>, served |-> 0]

NoPlan == [id |-> NoId, status |-> "active", slots |-> <<>>]

TypeOK ==
  /\ phase \in 0..(Period - 1)
  /\ rows \in [Ids -> {NoRow, DeletedRow} \cup [status: {"active", "paused"}, cred: Credentials,
                                               slots: SlotLists, age: 0..MaxAge]]
  /\ status \in [Posts -> {"unborn", "queued", "archived", "done"}]
  /\ attempts \in [Posts -> Nat]
  /\ pc \in {"sleep", "tick", "serve", "publish", "stopped"}
  /\ agenda \subseteq Snapshots
  /\ tick \in Snapshots \cup {NoTick}
  /\ job \in Posts \cup {0}
  /\ lag \in 0..MaxAge
  /\ stopping \in BOOLEAN
  /\ plans \in [Clients -> {NoPlan} \cup [id: Ids, status: {"active", "paused"}, slots: SlotLists]]
  /\ credit \in [Ids -> 0..(2 * MaxSlots)]
  /\ debt \in [Ids -> Nat] /\ excused \in [Ids -> Nat]
  /\ requestsLeft \in Nat /\ faultsLeft \in Nat /\ crashesLeft \in Nat /\ stopsLeft \in Nat

Init ==
  /\ phase = 0
  /\ rows = [i \in Ids |-> NoRow]
  /\ status = [p \in Posts |-> "unborn"]
  /\ attempts = [p \in Posts |-> 0]
  /\ pc = "sleep"
  /\ agenda = {}
  /\ tick = NoTick
  /\ job = 0
  /\ lag = 0
  /\ stopping = FALSE
  /\ plans = [c \in Clients |-> NoPlan]
  /\ credit = [i \in Ids |-> 0]
  /\ debt = [i \in Ids |-> 0] /\ excused = [i \in Ids |-> 0]
  /\ requestsLeft = MaxRequests
  /\ faultsLeft = MaxFaults
  /\ crashesLeft = MaxCrashes
  /\ stopsLeft = MaxStops

Spend ==
  /\ requestsLeft > 0
  /\ requestsLeft' = requestsLeft - 1
  /\ UNCHANGED <<faultsLeft, crashesLeft, stopsLeft>>

Fault ==
  /\ faultsLeft > 0
  /\ faultsLeft' = faultsLeft - 1
  /\ UNCHANGED <<requestsLeft, crashesLeft, stopsLeft>>

Least(a, b) == IF a <= b THEN a ELSE b

-----------------------------------------------------------------------------
(***************************************************************************)
(* Slots.                                                                  *)
(***************************************************************************)

\* Mutation: the window is [from, now], and an instant on the border of two
\* windows counts in both.
firedSlotsBetweenClosed(slots, age) ==
  [k \in DOMAIN slots |->
     Cardinality({d \in 0..age : (phase - d) % Period = slots[k]})]

\* How often each slot fires in the window (from, now] of that age: the
\* instants now, now - 1, ..., from + 1.
firedSlotsBetween(slots, age) ==
  [k \in DOMAIN slots |->
     Cardinality({d \in 0..(age - 1) : (phase - d) % Period = slots[k]})]

\* The firings that counts, one of each slot, stand for: the n-th of slot k.
Firings(counts) == {f \in (DOMAIN counts) \X (1..MaxAge) : f[2] <= counts[f[1]]}

\* The firings of a window that one tick can serve: at most len(slots).
Servable(slots, counts) == Least(Len(slots), Cardinality(Firings(counts)))

Strikes(i, at) == Cardinality({k \in DOMAIN rows[i].slots : rows[i].slots[k] = at})

\* Time moves to the next instant of the week.  The slots of a paused schedule
\* earn as well: its window stays open, and its first tick serves them.
ClockTick ==
  LET at == (phase + 1) % Period
      older(i) == IF Exists(i) THEN Least(MaxAge, rows[i].age + 1) ELSE rows[i].age
  IN  /\ phase' = at
      /\ rows' = [i \in Ids |-> [rows[i] EXCEPT !.age = older(i)]]
      /\ lag' = IF pc = "sleep" \/ pc = "stopped" THEN 0 ELSE Least(MaxAge, lag + 1)
      /\ credit' = [i \in Ids |-> Least(2 * MaxSlots, credit[i] + Strikes(i, at))]
      /\ UNCHANGED <<posts, pc, agenda, tick, job, stopping, plans, debt, excused, budgets>>

-----------------------------------------------------------------------------
(***************************************************************************)
(* The tools.                                                              *)
(***************************************************************************)

Calm == UNCHANGED <<phase, scheduler>>

\* credential_id is UNIQUE: the INSERT of a second schedule fails.
MCPCreate(i) ==
  \E c \in Credentials, s \in SlotLists, st \in {"active", "paused"} :
    /\ rows[i].status = "unborn"
    /\ \A k \in Ids : Exists(k) => rows[k].cred # c
    /\ Spend
    /\ rows' = [rows EXCEPT ![i] = [status |-> st, cred |-> c, slots |-> s, age |-> 0]]
    /\ UNCHANGED <<posts, plans, history>>
    /\ Calm

\* The first half of MCPUpdate: a status and slots for the row, those of the
\* call or, where it has none, those just read.
MCPUpdate(c, i) ==
  \E st \in {"active", "paused"}, s \in SlotLists :
    /\ plans[c] = NoPlan
    /\ Exists(i)
    /\ Spend
    /\ plans' = [plans EXCEPT ![c] = [id |-> i, status |-> st, slots |-> s]]
    /\ UNCHANGED <<rows, posts, history>>
    /\ Calm

\* Its second half, over whatever the row has become.  New slots apply to the
\* window that is open, and may fire for instants before the change.
updateSchedule(c) ==
  LET w == plans[c] IN
  /\ w # NoPlan
  /\ plans' = [plans EXCEPT ![c] = NoPlan]
  /\ \/ /\ Exists(w.id)
        /\ rows' = [rows EXCEPT ![w.id].slots = w.slots, ![w.id].status = w.status]
        /\ excused' = [excused EXCEPT ![w.id] = @ +
             IF w.slots = rows[w.id].slots THEN 0
             ELSE Servable(w.slots, firedSlotsBetween(w.slots, rows[w.id].age))]
     \/ UNCHANGED <<rows, excused>>  \* the row is gone, or the statement fails
  /\ UNCHANGED <<posts, credit, debt, budgets>>
  /\ Calm

MCPDelete(i) ==
  /\ Exists(i)
  /\ Spend
  /\ rows' = [rows EXCEPT ![i] = DeletedRow]
  /\ UNCHANGED <<posts, plans, history>>
  /\ Calm

\* A client adds a post to the queue of its credential.
Enqueue(p) ==
  /\ status[p] = "unborn"
  /\ \A q \in Posts : q < p => status[q] # "unborn"
  /\ status' = [status EXCEPT ![p] = "queued"]
  /\ UNCHANGED <<attempts, rows, plans, history, budgets>>
  /\ Calm

\* A client takes it out again.
Withdraw(p) ==
  /\ status[p] = "queued"
  /\ Spend
  /\ status' = [status EXCEPT ![p] = "archived"]
  /\ UNCHANGED <<attempts, rows, plans, history>>
  /\ Calm

-----------------------------------------------------------------------------
(***************************************************************************)
(* The scheduler goroutine.                                                *)
(***************************************************************************)

Snapshot(i) ==
  [id |-> i, cred |-> rows[i].cred, slots |-> rows[i].slots, served |-> 0,
   fires |-> firedSlotsBetween(rows[i].slots, rows[i].age)]

listActiveSchedules == {i \in Ids : rows[i].status = "active"}

\* The start of processSlotQueue.
BeginTick ==
  /\ pc = "sleep"
  /\ pc' = "tick"
  /\ lag' = 0
  /\ agenda' = {Snapshot(i) : i \in listActiveSchedules}
  /\ UNCHANGED <<phase, rows, posts, tick, job, stopping, plans, history, budgets>>

\* Mutation: the UPDATE sets updated_at alone.
updateScheduleLastTickNever(i) == UNCHANGED rows

\* last_tick_at becomes the time the tick read; no row, no error.
updateScheduleLastTick(i) ==
  rows' = IF Exists(i) THEN [rows EXCEPT ![i].age = lag] ELSE rows

\* The next schedule of the tick.  Its firings are those of the row the tick
\* read; if last_tick_at cannot be moved they are served all the same.
ProcessSchedule(r) ==
  /\ pc = "tick"
  /\ r \in agenda
  /\ ~stopping
  /\ agenda' = agenda \ {r}
  /\ tick' = r
  /\ pc' = "serve"
  /\ \/ updateScheduleLastTick(r.id) /\ UNCHANGED <<excused, budgets>>
     \/ /\ Fault
        /\ excused' = [excused EXCEPT ![r.id] = @ + Servable(r.slots, r.fires)]
        /\ UNCHANGED rows
  /\ UNCHANGED <<phase, posts, job, lag, stopping, plans, credit, debt>>

Queued(cred) == {p \in Posts : status[p] = "queued" /\ CredentialOf[p] = cred}

dequeueOldestQueued(cred) == Min(Queued(cred))

\* Mutation: the inner loop runs once more than the count.
SlotInTurnInclusive(counts) == Min({k \in DOMAIN counts : counts[k] >= 0})

\* The slot the outer loop has reached: a slot with no firing left is done.
SlotInTurn(counts) == Min({k \in DOMAIN counts : counts[k] > 0})

\* No firing is left, or the tick has published len(slots) posts.
DoneServing ==
  (\A k \in DOMAIN tick.fires : tick.fires[k] = 0) \/ tick.served >= Len(tick.slots)

ServeFire ==
  /\ pc = "serve"
  /\ ~stopping
  /\ ~DoneServing
  /\ Queued(tick.cred) # {}
  /\ job' = dequeueOldestQueued(tick.cred)
  /\ tick' = [tick EXCEPT !.fires[SlotInTurn(tick.fires)] = @ - 1, !.served = @ + 1]
  /\ pc' = "publish"
  /\ IF credit[tick.id] > 0
     THEN credit' = [credit EXCEPT ![tick.id] = @ - 1] /\ UNCHANGED debt
     ELSE debt' = [debt EXCEPT ![tick.id] = @ + 1] /\ UNCHANGED credit
  /\ UNCHANGED <<phase, rows, posts, agenda, lag, stopping, plans, excused, budgets>>

\* The queue is empty, or it cannot be read: on to the next slot.
SkipSlot ==
  /\ pc = "serve"
  /\ ~stopping
  /\ ~DoneServing
  /\ \/ Queued(tick.cred) = {} /\ UNCHANGED budgets
     \/ Fault
  /\ tick' = [tick EXCEPT !.fires[SlotInTurn(tick.fires)] = 0]
  /\ UNCHANGED <<phase, rows, posts, pc, agenda, job, lag, stopping, plans, history>>

EndSchedule ==
  /\ pc = "serve"
  /\ ~stopping
  /\ DoneServing
  /\ pc' = "tick"
  /\ tick' = NoTick
  /\ UNCHANGED <<phase, rows, posts, agenda, job, lag, stopping, plans, history, budgets>>

\* Every schedule was processed, or the context is cancelled.
EndTick ==
  /\ \/ pc = "tick" /\ (agenda = {} \/ stopping)
     \/ pc = "serve" /\ stopping
  /\ pc' = "sleep"
  /\ agenda' = {}
  /\ tick' = NoTick
  /\ lag' = 0
  /\ UNCHANGED <<phase, rows, posts, job, stopping, plans, history, budgets>>

\* Mutation: the attempts that failed are not logged.
LogAttemptNever(p) == UNCHANGED <<attempts, budgets>>

\* The delivery log row; its failure is ignored.
LogAttempt(p) ==
  \/ attempts' = [attempts EXCEPT ![p] = @ + 1] /\ UNCHANGED budgets
  \/ Fault /\ UNCHANGED attempts

\* publishWithRetry.  A retry writes the copy back, still queued, whatever the
\* row has become.
publishWithRetry ==
  /\ pc = "publish"
  /\ pc' = "serve"
  /\ job' = 0
  /\ \/ /\ status' = [status EXCEPT ![job] = "done"]
        /\ LogAttempt(job)
     \/ /\ attempts[job] + 1 < MaxAttempts
        /\ status' = [status EXCEPT ![job] = "queued"]
        /\ LogAttempt(job)
     \/ /\ Fault  \* the attempts cannot be counted, or the outcome not written
        /\ attempts' \in {attempts, [attempts EXCEPT ![job] = @ + 1]}
        /\ UNCHANGED status
  /\ UNCHANGED <<phase, rows, agenda, tick, lag, stopping, plans, history>>

\* Mutation: run selects on the timer alone.
ExitNever == FALSE /\ UNCHANGED vars

Exit ==
  /\ pc = "sleep"
  /\ stopping
  /\ pc' = "stopped"
  /\ UNCHANGED <<phase, rows, posts, agenda, tick, job, lag, stopping, plans, history, budgets>>

SchedulerStep ==
  \/ BeginTick \/ ServeFire \/ SkipSlot \/ EndSchedule \/ EndTick \/ publishWithRetry
  \/ \E r \in agenda : ProcessSchedule(r)

-----------------------------------------------------------------------------
(***************************************************************************)
(* The process.                                                            *)
(***************************************************************************)

Stop ==
  /\ ~stopping
  /\ stopsLeft > 0
  /\ stopsLeft' = stopsLeft - 1
  /\ stopping' = TRUE
  /\ UNCHANGED <<phase, rows, posts, pc, agenda, tick, job, lag, plans, history, requestsLeft,
                 faultsLeft, crashesLeft>>

\* A new process: nothing but the database survives.
Reboot ==
  /\ pc' = "sleep"
  /\ agenda' = {}
  /\ tick' = NoTick
  /\ job' = 0
  /\ lag' = 0
  /\ stopping' = FALSE
  /\ plans' = [c \in Clients |-> NoPlan]
  /\ UNCHANGED <<phase, rows, posts, history>>

Restart == pc = "stopped" /\ Reboot /\ UNCHANGED budgets

Crash ==
  /\ crashesLeft > 0
  /\ crashesLeft' = crashesLeft - 1
  /\ Reboot
  /\ UNCHANGED <<requestsLeft, faultsLeft, stopsLeft>>

Next ==
  \/ ClockTick
  \/ \E i \in Ids : MCPCreate(i) \/ MCPDelete(i)
  \/ \E c \in Clients : updateSchedule(c) \/ \E i \in Ids : MCPUpdate(c, i)
  \/ \E p \in Posts : Enqueue(p) \/ Withdraw(p)
  \/ SchedulerStep
  \/ Exit
  \/ Stop
  \/ Restart
  \/ Crash

Spec == Init /\ [][Next]_vars

\* Time passes and the goroutine runs: its HTTP clients have timeouts.  When
\* the timer and the context are both ready, select picks at random.
Fairness == WF_vars(ClockTick) /\ WF_vars(SchedulerStep) /\ SF_vars(Exit)

FairSpec == Spec /\ Fairness

-----------------------------------------------------------------------------
(***************************************************************************)
(* Properties.                                                             *)
(***************************************************************************)

\* A slot publishes at most one post each time it fires, however ticks,
\* restarts, crashes, pauses and downtime divide time into windows, and
\* whoever deletes a schedule during a tick.  Only a last_tick_at that could
\* not be written, and slots that are changed while a window is open, repeat
\* a firing.
FiresUsedOnce == \A i \in Ids : debt[i] <= excused[i]

\* A queued post whose credential has an active schedule with slots leaves
\* the queue in the end, although the oldest post is retried before any
\* other and consumes the firings.
QueueDrains ==
  \A p \in Posts, i \in Ids :
    LET served == /\ rows[i].status = "active" /\ rows[i].slots # <<>>
                  /\ rows[i].cred = CredentialOf[p] /\ ~stopping
    IN  (status[p] = "queued" /\ served) ~> (status[p] # "queued" \/ ~served)

\* Stop finds its way out of the nested loops.
StopTerminates == stopping ~> (pc = "stopped" \/ ~stopping)

=============================================================================
