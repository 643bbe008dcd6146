------------------------ MODULE PostSchedulerProofs ------------------------
(***************************************************************************)
(* Theorems about PostScheduler, for any posts, clients and bounds: type   *)
(* correctness, that every copy on the platform is accounted for, and that *)
(* only accepted posts are marked published.                               *)
(***************************************************************************)
EXTENDS PostScheduler, TLAPS

USE DEF vars, database, scheduler, history, budgets

-----------------------------------------------------------------------------
(***************************************************************************)
(* Type correctness.                                                       *)
(***************************************************************************)

\* The statements of post.go keep rows well typed.
LEMMA StatementTypes ==
  ASSUME TypeOK, NEW p \in Posts, NEW s \in PostStatuses, NEW at \in Times
  PROVE  /\ SetStatus(p, s) => status' \in [Posts -> PostStatuses \cup {"unborn", "deleted"}]
         /\ updatePost(p, s, at) =>
              /\ status' \in [Posts -> PostStatuses \cup {"unborn", "deleted"}]
              /\ scheduledAt' \in [Posts -> Times]
BY DEF TypeOK, SetStatus, updatePost, Stored

\* Planning a write stores a well-typed request.
LEMMA PlanTypes ==
  ASSUME TypeOK, NEW c \in Clients, NEW p \in Posts,
         NEW s \in PostStatuses, NEW at \in Times, NEW asks \in BOOLEAN,
         PlanWrite(c, p, s, at, asks)
  PROVE  TypeOK'
<1>1. [Idle EXCEPT !.pc = "write", !.post = p, !.status = s, !.at = at, !.asks = asks]
        \in Requests
  BY DEF Idle, Requests, Answers
<1>2. requests' \in [Clients -> Requests]
  BY <1>1 DEF PlanWrite, Begin, TypeOK
<1> QED
  BY <1>2 DEF PlanWrite, Begin, Spend, TypeOK

\* Creating a row, by either interface.
LEMMA CreateTypes ==
  ASSUME TypeOK, NEW p \in Posts, NEW s \in PostStatuses, NEW at \in Times, Create(p, s, at)
  PROVE  TypeOK'
BY DEF TypeOK, Create, Spend, insertPost

LEMMA StartPublishTypes ==
  ASSUME TypeOK, NEW p \in Posts, NEW s \in {"scheduled", "queued"},
         NEW loop \in {"due", "slots"}, StartPublish(p, s, loop)
  PROVE  /\ job' \in Jobs
         /\ pc' \in {"sleep", "due", "slots", "stopped"} \cup Stages
         /\ status' \in [Posts -> PostStatuses \cup {"unborn", "deleted"}]
         /\ scheduledAt' \in [Posts -> Times]
         /\ deliveryLog' \in [Posts -> Nat]
         /\ faultsLeft' \in Nat
         /\ UNCHANGED <<requestsLeft, crashesLeft, stopsLeft>>
<1>1. CASE /\ job' = [post |-> p, copy |-> s, attempts |-> deliveryLog[p], answer |-> "none"]
           /\ pc' = "call"
           /\ UNCHANGED <<database, budgets>>
  BY <1>1 DEF TypeOK, Jobs, Stages
<1>2. CASE Fault /\ pc' = loop /\ UNCHANGED <<database, job>>
  BY <1>2 DEF TypeOK, Fault
<1>3. CASE markPostFailed(p) /\ pc' = loop /\ UNCHANGED <<deliveryLog, job, budgets>>
  <2>1. "failed" \in PostStatuses
    BY DEF PostStatuses
  <2>2. status' \in [Posts -> PostStatuses \cup {"unborn", "deleted"}]
    BY <1>3, <2>1 DEF markPostFailed, SetStatus, TypeOK
  <2> QED
    BY <1>3, <2>2 DEF TypeOK, markPostFailed
<1> QED
  BY <1>1, <1>2, <1>3 DEF StartPublish

\* Requests in progress name a post.
RequestShape ==
  \A c \in Clients : requests[c].pc # "idle" => requests[c].post \in Posts

\* The goroutine's local state: the post being published has left the batch,
\* its answer is known once the call returned, and the batch is used up
\* before slots fire.
JobShape ==
  /\ pc \in Stages => job.post \in Posts \ batch
  /\ pc = "call" => job.answer = "none"
  /\ pc \in {"log", "settle"} => job.answer # "none"
  /\ pc \in {"sleep", "slots", "stopped"} => batch = {}
  /\ pc \in Stages /\ job.copy = "queued" => batch = {}

Typed == TypeOK /\ RequestShape /\ JobShape

LEMMA InitTyped == Init => Typed
<1> SUFFICES ASSUME Init PROVE Typed
  OBVIOUS
<1>1. Idle \in Requests /\ NoJob \in Jobs
  BY DEF Idle, Requests, NoJob, Jobs, PostStatuses, Times
<1>2. TypeOK
  <2>1. /\ status \in [Posts -> PostStatuses \cup {"unborn", "deleted"}]
        /\ scheduledAt \in [Posts -> Times]
    BY DEF Init, Times
  <2>2. requests \in [Clients -> Requests]
    BY <1>1 DEF Init
  <2> QED
    BY <1>1, <2>1, <2>2, BoundAssumption DEF Init, TypeOK
<1>3. RequestShape /\ JobShape
  BY DEF Init, RequestShape, JobShape, Idle, Stages
<1> QED
  BY <1>2, <1>3 DEF Typed

\* The deletions, in one transaction or statement by statement, touch nothing
\* but the log, the row's status and the request that makes them.
Deletion ==
  \/ \E p \in Posts : DeleteInTx(p)
  \/ \E c \in Clients : DeleteRow(c) \/ \E p \in Posts : DeleteLog(c, p)

LEMMA DeletionEffect ==
  ASSUME Typed, Deletion
  PROVE  /\ UNCHANGED <<scheduledAt, scheduler, accepted, history>>
         /\ status' \in [Posts -> PostStatuses \cup {"unborn", "deleted"}]
         /\ deliveryLog' \in [Posts -> Nat]
         /\ \A q \in Posts : status'[q] \in {status[q], "deleted"}
         /\ \A q \in Posts : deliveryLog'[q] <= deliveryLog[q]
<1> USE DEF Typed
<1> DEFINE Effect == /\ UNCHANGED <<scheduledAt, scheduler, accepted, history>>
                     /\ status' \in [Posts -> PostStatuses \cup {"unborn", "deleted"}]
                     /\ deliveryLog' \in [Posts -> Nat]
                     /\ \A q \in Posts : status'[q] \in {status[q], "deleted"}
                     /\ \A q \in Posts : deliveryLog'[q] <= deliveryLog[q]
<1>1. ASSUME NEW p \in Posts, DeleteInTx(p) PROVE Effect
  BY <1>1 DEF DeleteInTx, deleteLog, deleteRow, TypeOK
<1>2. ASSUME NEW c \in Clients, NEW p \in Posts, DeleteLog(c, p) PROVE Effect
  BY <1>2 DEF DeleteLog, deleteLog, TypeOK
<1>3. ASSUME NEW c \in Clients, DeleteRow(c) PROVE Effect
  <2>1. requests[c].post \in Posts
    BY <1>3 DEF DeleteRow, RequestShape
  <2> QED
    BY <1>3, <2>1 DEF DeleteRow, deleteRow, TypeOK
<1> QED
  BY <1>1, <1>2, <1>3 DEF Deletion

\* A deletion brings no row to life.
LEMMA DeletionRevivesNone ==
  ASSUME Typed, Deletion, NEW q \in Posts
  PROVE  Live(q)' => Live(q)
BY DeletionEffect DEF Live, IsLive

\* What a deletion makes of the requests.
LEMMA DeletionRequests ==
  ASSUME Deletion
  PROVE  \/ UNCHANGED requests
         \/ \E c \in Clients : requests' = [requests EXCEPT ![c] = Idle]
         \/ \E c \in Clients, p \in Posts :
              requests' = [requests EXCEPT ![c] = [Idle EXCEPT !.pc = "delete", !.post = p]]
BY DEF Deletion, DeleteInTx, DeleteLog, DeleteRow

\* Every action keeps the types.
LEMMA TypeStep ==
  ASSUME Typed, Next
  PROVE  TypeOK'
<1> USE DEF Typed
<1>1. ASSUME NEW p \in Posts, MCPCreate(p) PROVE TypeOK'
  <2>1. PICK s \in McpStatuses, at \in Times : Create(p, Promote(s, at), at)
    BY <1>1 DEF MCPCreate
  <2>2. Promote(s, at) \in PostStatuses
    BY DEF Promote, McpStatuses, PostStatuses
  <2> QED
    BY <2>1, <2>2, CreateTypes
<1>2. ASSUME NEW p \in Posts, handlePostCreate(p) PROVE TypeOK'
  BY <1>2, CreateTypes, StatusAssumption DEF handlePostCreate
<1>3. ASSUME Deletion PROVE TypeOK'
  <2>1. /\ Idle \in Requests
        /\ \A p \in Posts : [Idle EXCEPT !.pc = "delete", !.post = p] \in Requests
    BY DEF Idle, Requests, PostStatuses, Times
  <2>2. requests' \in [Clients -> Requests]
    BY <1>3, <2>1, DeletionRequests DEF TypeOK
  <2>3. requestsLeft' \in Nat /\ faultsLeft' \in Nat /\ UNCHANGED <<crashesLeft, stopsLeft>>
    <3>1. Spend \/ Fault \/ NoFault
      BY <1>3 DEF Deletion, DeleteInTx, DeleteLog, DeleteRow
    <3>2. CASE Spend
      BY <3>2 DEF Spend, TypeOK
    <3>3. CASE Fault
      BY <3>3 DEF Fault, TypeOK
    <3>4. CASE NoFault
      BY <3>4 DEF NoFault, budgets, TypeOK
    <3> QED
      BY <3>1, <3>2, <3>3, <3>4
  <2> QED
    BY <1>3, <2>2, <2>3, DeletionEffect DEF TypeOK
<1>4. ASSUME NEW c \in Clients, NEW p \in Posts, MCPUpdate(c, p) PROVE TypeOK'
  <2>1. PICK new \in McpStatuses \cup {"keep"}, time \in Times \cup {"keep"} :
          /\ Stored(p)
          /\ PlanWrite(c, p, Promote(Patch(new, status[p]), Patch(time, scheduledAt[p])),
                       Patch(time, scheduledAt[p]),
                       Promote(Patch(new, status[p]), Patch(time, scheduledAt[p])) # status[p]
                         \/ new # "keep")
    BY <1>4 DEF MCPUpdate
  <2>2. Patch(time, scheduledAt[p]) \in Times
    BY DEF Patch, TypeOK
  <2>3. Promote(Patch(new, status[p]), Patch(time, scheduledAt[p])) \in PostStatuses
    BY <2>1 DEF Patch, Promote, Stored, McpStatuses, PostStatuses
  <2> QED
    BY <2>1, <2>2, <2>3, PlanTypes
<1>5. ASSUME NEW c \in Clients, NEW p \in Posts, handlePostUpdate(c, p) PROVE TypeOK'
  <2>1. PICK new \in RestStatuses \cup {"keep"}, time \in Times \cup {"keep"} :
          /\ Stored(p)
          /\ PlanWrite(c, p, Patch(new, status[p]), Patch(time, scheduledAt[p]), new # "keep")
    BY <1>5 DEF handlePostUpdate
  <2>2. Patch(new, status[p]) \in PostStatuses /\ Patch(time, scheduledAt[p]) \in Times
    BY <2>1, StatusAssumption DEF Patch, Stored, TypeOK
  <2> QED
    BY <2>1, <2>2, PlanTypes
<1>6. ASSUME NEW c \in Clients, NEW p \in Posts, MCPSchedule(c, p) PROVE TypeOK'
  BY <1>6, PlanTypes DEF MCPSchedule, PostStatuses, Times
<1>7. ASSUME NEW c \in Clients, NEW p \in Posts, MCPArchive(c, p) PROVE TypeOK'
  <2>1. scheduledAt[p] \in Times
    BY DEF TypeOK
  <2> QED
    BY <1>7, <2>1, PlanTypes DEF MCPArchive, PostStatuses
<1>8. ASSUME NEW c \in Clients, NEW p \in Posts, MCPPublish(c, p) PROVE TypeOK'
  <2>1. [Idle EXCEPT !.pc = "call", !.post = p] \in Requests
    BY DEF Idle, Requests, PostStatuses, Times
  <2> QED
    BY <1>8, <2>1 DEF MCPPublish, Begin, Spend, TypeOK
<1>9. ASSUME NEW c \in Clients, WriteRow(c) PROVE TypeOK'
  <2> DEFINE r == requests[c]
  <2>1. r \in Requests /\ r.post \in Posts /\ r.status \in PostStatuses /\ r.at \in Times
    BY <1>9 DEF TypeOK, RequestShape, WriteRow, Requests
  <2>2. Idle \in Requests
    BY DEF Idle, Requests, PostStatuses, Times
  <2>3. requests' \in [Clients -> Requests]
    BY <1>9, <2>2 DEF WriteRow, TypeOK
  <2>4. /\ status' \in [Posts -> PostStatuses \cup {"unborn", "deleted"}]
        /\ scheduledAt' \in [Posts -> Times]
    BY <1>9, <2>1, StatementTypes DEF WriteRow, TypeOK
  <2>5. asked' \in [Posts -> Nat] /\ doubts' \in [Posts -> Nat] /\ faultsLeft' \in Nat
    BY <1>9, <2>1 DEF WriteRow, TypeOK, NoFault, Fault
  <2> QED
    BY <1>9, <2>3, <2>4, <2>5 DEF WriteRow, TypeOK, NoFault, Fault
<1>10. ASSUME NEW c \in Clients, publishNowCall(c) PROVE TypeOK'
  <2> DEFINE p == requests[c].post
  <2>1. p \in Posts /\ requests[c] \in Requests
    BY <1>10 DEF TypeOK, RequestShape, publishNowCall
  <2>2. Idle \in Requests
    BY DEF Idle, Requests, PostStatuses, Times
  <2>3. CASE \E a \in PlatformAnswers(FALSE) :
               /\ requests' = [requests EXCEPT ![c].pc = "mark", ![c].answer = a.answer]
               /\ Accept(p, a.took)
               /\ asked' = [asked EXCEPT ![p] = @ + 1]
    <3>1. PICK a \in PlatformAnswers(FALSE) :
               /\ requests' = [requests EXCEPT ![c].pc = "mark", ![c].answer = a.answer]
               /\ Accept(p, a.took)
               /\ asked' = [asked EXCEPT ![p] = @ + 1]
      BY <2>3
    <3>2. a.answer \in Answers
      BY DEF PlatformAnswers, Outcomes, Answers
    <3>3. requests' \in [Clients -> Requests]
      BY <2>1, <3>1, <3>2 DEF TypeOK, Requests
    <3>4. accepted' \in [Posts -> Nat] /\ asked' \in [Posts -> Nat]
      BY <2>1, <3>1 DEF TypeOK, Accept
    <3> QED
      BY <1>10, <3>3, <3>4 DEF publishNowCall, TypeOK
  <2>4. CASE requests' = [requests EXCEPT ![c] = Idle] /\ UNCHANGED <<accepted, asked>>
    BY <1>10, <2>2, <2>4 DEF publishNowCall, TypeOK
  <2> QED
    BY <1>10, <2>3, <2>4 DEF publishNowCall
<1>11. ASSUME NEW c \in Clients, publishNowMark(c) PROVE TypeOK'
  <2>1. requests[c].post \in Posts
    BY <1>11 DEF RequestShape, publishNowMark
  <2>2. Idle \in Requests
    BY DEF Idle, Requests, PostStatuses, Times
  <2>3. /\ status' \in [Posts -> PostStatuses \cup {"unborn", "deleted"}]
        /\ scheduledAt' \in [Posts -> Times]
    BY <1>11, <2>1 DEF publishNowMark, markPostPublished, markPostFailed, SetStatus,
                       PostStatuses, TypeOK
  <2> QED
    BY <1>11, <2>2, <2>3 DEF publishNowMark, TypeOK, NoFault, Fault
<1>12. ASSUME Poll PROVE TypeOK'
  BY <1>12 DEF Poll, duePosts, Pass, TypeOK
<1>13. ASSUME Exit PROVE TypeOK'
  BY <1>13 DEF Exit, Pass, TypeOK
<1>14. ASSUME NEW p \in Posts, PublishDue(p) PROVE TypeOK'
  <2>1. StartPublish(p, "scheduled", "due") /\ batch' \subseteq Posts
    BY <1>14 DEF PublishDue, TypeOK
  <2> QED
    BY <1>14, <2>1, StartPublishTypes DEF PublishDue, Pass, TypeOK
<1>15. ASSUME EndDue PROVE TypeOK'
  BY <1>15, BoundAssumption DEF EndDue, Pass, TypeOK
<1>16. ASSUME NEW p \in Posts, PublishQueued(p) PROVE TypeOK'
  <2>1. StartPublish(p, "queued", "slots") /\ fires' \in Nat
    BY <1>16 DEF PublishQueued, TypeOK
  <2> QED
    BY <1>16, <2>1, StartPublishTypes DEF PublishQueued, Pass, TypeOK
<1>17. ASSUME EndSlots PROVE TypeOK'
  BY <1>17 DEF EndSlots, Pass, TypeOK
<1>18. ASSUME CallPlatform PROVE TypeOK'
  <2>1. PICK a \in PlatformAnswers(stopping) :
          /\ job' = [job EXCEPT !.answer = a.answer]
          /\ Accept(job.post, a.took)
          /\ doubts' = [doubts EXCEPT ![job.post] =
                           @ + (IF a.took /\ a.answer # "ok" THEN 1 ELSE 0)]
    BY <1>18 DEF CallPlatform
  <2>2. a.answer \in Answers
    BY DEF PlatformAnswers, Outcomes, Answers
  <2>3. job' \in Jobs
    BY <2>1, <2>2 DEF TypeOK, Jobs
  <2>4. accepted' \in [Posts -> Nat] /\ doubts' \in [Posts -> Nat]
    <3>1. job.post \in Posts
      BY <1>18 DEF CallPlatform, JobShape, Stages
    <3> QED
      BY <2>1, <3>1 DEF TypeOK, Accept
  <2> QED
    BY <1>18, <2>3, <2>4 DEF CallPlatform, TypeOK, Stages
<1>19. ASSUME LogAttempt PROVE TypeOK'
  BY <1>19 DEF LogAttempt, logDeliveryAttempt, NoFault, Fault, Pass, TypeOK, Stages
<1>20. ASSUME Settle PROVE TypeOK'
  <2>1. job.post \in Posts /\ NoJob \in Jobs /\ job.copy \in PostStatuses
    BY <1>20 DEF Settle, JobShape, Stages, NoJob, Jobs, PostStatuses, TypeOK
  <2>2. RetryTimes \subseteq Times
    BY DEF RetryTimes, Times
  <2>3. /\ status' \in [Posts -> PostStatuses \cup {"unborn", "deleted"}]
        /\ scheduledAt' \in [Posts -> Times]
    <3>1. CASE \E at \in RetryTimes : updatePost(job.post, job.copy, at)
      BY <2>1, <2>2, <3>1, StatementTypes
    <3>2. CASE markPostPublished(job.post) \/ markPostFailed(job.post)
      BY <2>1, <3>2 DEF markPostPublished, markPostFailed, SetStatus, PostStatuses, TypeOK
    <3> QED
      BY <1>20, <3>1, <3>2 DEF Settle, TypeOK
  <2>4. doubts' \in [Posts -> Nat] /\ faultsLeft' \in Nat
    BY <1>20 DEF Settle, Fault, TypeOK
  <2> QED
    BY <1>20, <2>1, <2>3, <2>4 DEF Settle, Fault, TypeOK
<1>21. ASSUME Stop PROVE TypeOK'
  BY <1>21 DEF Stop, Pass, TypeOK
<1>22. ASSUME Reboot, doubts' \in [Posts -> Nat],
              crashesLeft' \in Nat, UNCHANGED <<requestsLeft, faultsLeft, stopsLeft>>
       PROVE TypeOK'
  <2>1. Idle \in Requests /\ NoJob \in Jobs
    BY DEF Idle, Requests, NoJob, Jobs, PostStatuses, Times
  <2> QED
    BY <1>22, <2>1 DEF Reboot, TypeOK
<1>23. ASSUME Restart PROVE TypeOK'
  BY <1>22, <1>23 DEF Restart, TypeOK
<1>24. ASSUME Crash PROVE TypeOK'
  BY <1>22, <1>24 DEF Crash, TypeOK
<1>25. ASSUME NEW p \in Posts, TimePasses(p) PROVE TypeOK'
  BY <1>25 DEF TimePasses, TypeOK, Times
<1> QED
  BY <1>1, <1>2, <1>3, <1>4, <1>5, <1>6, <1>7, <1>8, <1>9, <1>10, <1>11, <1>12, <1>13,
     <1>14, <1>15, <1>16, <1>17, <1>18, <1>19, <1>20, <1>21, <1>23, <1>24, <1>25
  DEF Next, Request, SchedulerStep, Deletion

\* Every action keeps the shape of the requests and of the goroutine.
LEMMA RequestShapeStep ==
  ASSUME Typed, Next
  PROVE  RequestShape'
<1> USE DEF Typed
<1>1. ASSUME UNCHANGED requests PROVE RequestShape'
  BY <1>1 DEF RequestShape
<1>2. ASSUME NEW c \in Clients, NEW r, requests' = [requests EXCEPT ![c] = r],
             r.pc # "idle" => r.post \in Posts
      PROVE  RequestShape'
  BY <1>2 DEF RequestShape, TypeOK
<1>3. ASSUME NEW c \in Clients, NEW p \in Posts,
             \/ MCPUpdate(c, p) \/ handlePostUpdate(c, p) \/ MCPSchedule(c, p)
             \/ MCPArchive(c, p) \/ MCPPublish(c, p)
      PROVE  RequestShape'
  <2>1. \A s, at, asks : PlanWrite(c, p, s, at, asks) => RequestShape'
    <3> TAKE s, at, asks
    <3> DEFINE r == [Idle EXCEPT !.pc = "write", !.post = p, !.status = s,
                                 !.at = at, !.asks = asks]
    <3>1. r.post \in Posts
      BY DEF Idle
    <3> QED
      BY <1>2, <3>1 DEF PlanWrite, Begin
  <2>2. MCPPublish(c, p) => RequestShape'
    <3> DEFINE r == [Idle EXCEPT !.pc = "call", !.post = p]
    <3>1. r.post \in Posts
      BY DEF Idle
    <3> QED
      BY <1>2, <3>1 DEF MCPPublish, Begin
  <2> QED
    BY <1>3, <2>1, <2>2 DEF MCPUpdate, handlePostUpdate, MCPSchedule, MCPArchive
<1>4. ASSUME NEW c \in Clients, requests' = [requests EXCEPT ![c] = Idle]
      PROVE  RequestShape'
  BY <1>2, <1>4 DEF Idle
<1>5. ASSUME NEW c \in Clients, publishNowCall(c) PROVE RequestShape'
  <2>1. ASSUME NEW a, requests' = [requests EXCEPT ![c].pc = "mark", ![c].answer = a.answer]
        PROVE  RequestShape'
    BY ZenonT(40), <1>5, <2>1 DEF RequestShape, TypeOK, Requests, publishNowCall
  <2> QED
    BY <1>4, <1>5, <2>1 DEF publishNowCall
<1>6. ASSUME Reboot PROVE RequestShape'
  BY <1>6 DEF Reboot, RequestShape, Idle
<1>7. ASSUME Deletion PROVE RequestShape'
  <2>1. \A p \in Posts : [Idle EXCEPT !.pc = "delete", !.post = p].post \in Posts
    BY DEF Idle
  <2> QED
    BY <1>1, <1>2, <1>4, <1>7, <2>1, DeletionRequests
<1> QED
  BY <1>1, <1>3, <1>4, <1>5, <1>6, <1>7
  DEF Next, Request, SchedulerStep, MCPCreate, handlePostCreate, Create, Deletion, WriteRow,
      publishNowMark, Poll, Exit, EndDue, EndSlots, PublishDue, PublishQueued, CallPlatform,
      LogAttempt, Settle, Stop, Restart, Crash, TimePasses, Pass

\* API requests leave the goroutine alone.
LEMMA RequestLeavesScheduler == Request => UNCHANGED scheduler
<1>1. ASSUME NEW p \in Posts, MCPCreate(p) \/ handlePostCreate(p)
      PROVE  UNCHANGED scheduler
  BY <1>1 DEF MCPCreate, handlePostCreate, Create
<1>2. ASSUME NEW c \in Clients, NEW p \in Posts,
             \/ MCPUpdate(c, p) \/ handlePostUpdate(c, p) \/ MCPSchedule(c, p)
             \/ MCPArchive(c, p) \/ MCPPublish(c, p)
      PROVE  UNCHANGED scheduler
  BY <1>2 DEF MCPUpdate, handlePostUpdate, MCPSchedule, MCPArchive, MCPPublish, PlanWrite, Begin
<1>3. ASSUME NEW c \in Clients, WriteRow(c) \/ publishNowCall(c) \/ publishNowMark(c)
      PROVE  UNCHANGED scheduler
  BY <1>3 DEF WriteRow, publishNowCall, publishNowMark
<1>4. ASSUME Deletion PROVE UNCHANGED scheduler
  BY <1>4 DEF Deletion, DeleteInTx, DeleteLog, DeleteRow
<1> QED
  BY <1>1, <1>2, <1>3, <1>4 DEF Request, Deletion

LEMMA JobShapeStep ==
  ASSUME Typed, Next
  PROVE  JobShape'
<1> USE DEF Typed, Stages
<1>1. ASSUME UNCHANGED <<pc, batch, job>> PROVE JobShape'
  BY <1>1 DEF JobShape
<1>2. ASSUME Request PROVE JobShape'
  BY <1>1, <1>2, RequestLeavesScheduler
<1>3. ASSUME NEW p \in Posts, PublishDue(p) PROVE JobShape'
  BY <1>3 DEF PublishDue, StartPublish, JobShape
<1>4. ASSUME NEW p \in Posts, PublishQueued(p) PROVE JobShape'
  BY <1>4 DEF PublishQueued, StartPublish, JobShape
<1>5. ASSUME CallPlatform PROVE JobShape'
  BY <1>5 DEF CallPlatform, PlatformAnswers, Outcomes, JobShape, TypeOK, Jobs
<1>6. ASSUME Settle PROVE JobShape'
  BY <1>6 DEF Settle, JobShape, NoJob, TypeOK, Jobs
<1>7. ASSUME Poll \/ Exit \/ EndDue \/ EndSlots \/ LogAttempt PROVE JobShape'
  BY <1>7 DEF Poll, Exit, EndDue, EndSlots, LogAttempt, JobShape
<1>8. ASSUME Reboot PROVE JobShape'
  BY <1>8 DEF Reboot, JobShape
<1> QED
  BY <1>1, <1>2, <1>3, <1>4, <1>5, <1>6, <1>7, <1>8
  DEF Next, SchedulerStep, Stop, Restart, Crash, TimePasses

LEMMA TypedStep == Typed /\ [Next]_vars => Typed'
<1>1. ASSUME Typed, Next PROVE Typed'
  BY <1>1, TypeStep, RequestShapeStep, JobShapeStep DEF Typed
<1>2. ASSUME Typed, UNCHANGED vars PROVE Typed'
  BY <1>2 DEF Typed, TypeOK, RequestShape, JobShape
<1> QED
  BY <1>1, <1>2

LEMMA TypedAlways == Spec => []Typed
  BY InitTyped, TypedStep, PTL DEF Spec

\* The variables keep their types: the database, the goroutine and every
\* request hold values the code can hold.
THEOREM TypeCorrect == Spec => []TypeOK
<1>1. Typed => TypeOK
  BY DEF Typed
<1> QED
  BY <1>1, TypedAlways, PTL

-----------------------------------------------------------------------------
(***************************************************************************)
(* Copies.  CopiesAccounted is not inductive: it says nothing of the copy  *)
(* that is about to be sent.  Credit adds it: a post the scheduler holds,  *)
(* or would pick up, may cost one more copy, and that copy is already      *)
(* covered.                                                                *)
(***************************************************************************)

InJob(p) == pc \in Stages /\ job.post = p

\* The goroutine has read p and may still send it.
Held(p) == p \in batch \/ (InJob(p) /\ job.answer # "ok")

\* Copies of p that may still be sent without anybody asking again.  A post
\* whose answer was "ok" is about to be marked published.
Pending(p) == IF Held(p) \/ (Live(p) /\ ~InJob(p)) THEN 1 ELSE 0

Credit == \A p \in Posts : accepted[p] + Pending(p) <= asked[p] + doubts[p]

LEMMA InitCredit == Init => Credit
<1> SUFFICES ASSUME Init, NEW p \in Posts
             PROVE  accepted[p] + Pending(p) <= asked[p] + doubts[p]
  BY DEF Credit
<1>1. accepted[p] = 0 /\ asked[p] = 0 /\ doubts[p] = 0
  BY DEF Init
<1>2. ~Held(p) /\ ~Live(p)
  BY DEF Init, Held, InJob, Live, IsLive, Stages
<1> QED
  BY <1>1, <1>2 DEF Pending

\* A step of an API request: the goroutine stands still, so the pending
\* copies of q grow only if its row becomes live.
LEMMA PendingStill ==
  ASSUME NEW q \in Posts, UNCHANGED <<pc, batch, job>>
  PROVE  /\ Pending(q) \in 0..1 /\ Pending(q)' \in 0..1
         /\ (Live(q)' => Live(q)) => Pending(q)' <= Pending(q)
BY DEF Pending, Held, InJob

LEMMA RequestCredit ==
  ASSUME Typed, Typed', Credit, Request, NEW q \in Posts
  PROVE  accepted'[q] + Pending(q)' <= asked'[q] + doubts'[q]
<1> USE DEF Typed
<1> DEFINE Goal == accepted'[q] + Pending(q)' <= asked'[q] + doubts'[q]
<1>1. accepted[q] + Pending(q) <= asked[q] + doubts[q]
  BY DEF Credit
<1>2. /\ accepted[q] \in Nat /\ asked[q] \in Nat /\ doubts[q] \in Nat
      /\ accepted'[q] \in Nat /\ asked'[q] \in Nat /\ doubts'[q] \in Nat
  BY DEF TypeOK
<1>3. UNCHANGED <<pc, batch, job>>
  BY RequestLeavesScheduler
<1>4. ASSUME accepted'[q] = accepted[q], asked'[q] = asked[q], doubts'[q] = doubts[q],
             Live(q)' => Live(q)
      PROVE  Goal
  BY <1>1, <1>2, <1>3, <1>4, PendingStill
<1>5. ASSUME accepted'[q] = accepted[q],
             asked'[q] + doubts'[q] = asked[q] + doubts[q] + 1
      PROVE  Goal
  BY <1>1, <1>2, <1>3, <1>5, PendingStill
<1>6. ASSUME NEW p \in Posts, NEW s, NEW at, Create(p, s, at) PROVE Goal
  <2>1. CASE p = q /\ IsLive(s)
    BY <1>2, <1>5, <1>6, <2>1 DEF Create, TypeOK
  <2>2. CASE ~(p = q /\ IsLive(s))
    <3>1. Live(q)' => Live(q)
      BY <1>6, <2>2 DEF Create, insertPost, Live, TypeOK
    <3>2. asked'[q] = asked[q]
      BY <1>6, <2>2 DEF Create, TypeOK
    <3> QED
      BY <1>4, <1>6, <3>1, <3>2 DEF Create
  <2> QED
    BY <2>1, <2>2
<1>7. ASSUME Deletion PROVE Goal
  BY <1>4, <1>7, DeletionEffect, DeletionRevivesNone
<1>8. ASSUME NEW c \in Clients, WriteRow(c) PROVE Goal
  <2> DEFINE r == requests[c]
             revives == Stored(r.post) /\ ~Live(r.post) /\ IsLive(r.status)
  <2>1. CASE UNCHANGED <<status, asked, doubts>>
    BY <1>4, <1>8, <2>1 DEF WriteRow, Live
  <2>2. CASE /\ updatePost(r.post, r.status, r.at)
             /\ asked' = [asked EXCEPT ![r.post] = @ + (IF revives /\ r.asks THEN 1 ELSE 0)]
             /\ doubts' = [doubts EXCEPT ![r.post] = @ + (IF revives /\ ~r.asks THEN 1 ELSE 0)]
    <3>1. CASE r.post = q /\ revives
      <4>1. asked'[q] + doubts'[q] = asked[q] + doubts[q] + 1
        BY <1>2, <2>2, <3>1 DEF TypeOK
      <4> QED
        BY <1>5, <1>8, <4>1 DEF WriteRow
    <3>2. CASE ~(r.post = q /\ revives)
      <4>1. Live(q)' => Live(q)
        BY <2>2, <3>2 DEF updatePost, SetStatus, Live, TypeOK
      <4>2. asked'[q] = asked[q] /\ doubts'[q] = doubts[q]
        BY <1>2, <2>2, <3>2 DEF TypeOK
      <4> QED
        BY <1>4, <1>8, <4>1, <4>2 DEF WriteRow
    <3> QED
      BY <3>1, <3>2
  <2> QED
    BY <1>8, <2>1, <2>2 DEF WriteRow
<1>9. ASSUME NEW c \in Clients, publishNowCall(c) PROVE Goal
  <2> DEFINE p == requests[c].post
  <2>1. UNCHANGED status /\ UNCHANGED doubts
    BY <1>9 DEF publishNowCall
  <2>2. CASE UNCHANGED <<accepted, asked>>
    BY <1>4, <2>1, <2>2 DEF Live
  <2>3. CASE \E a \in PlatformAnswers(FALSE) :
               Accept(p, a.took) /\ asked' = [asked EXCEPT ![p] = @ + 1]
    <3>1. \/ accepted'[q] <= accepted[q] + 1 /\ asked'[q] = asked[q] + 1
          \/ accepted'[q] = accepted[q] /\ asked'[q] = asked[q]
      <4>1. PICK a \in PlatformAnswers(FALSE) :
               Accept(p, a.took) /\ asked' = [asked EXCEPT ![p] = @ + 1]
        BY <2>3
      <4>2. CASE p = q
        BY <1>2, <4>1, <4>2 DEF Accept, TypeOK
      <4>3. CASE p # q
        BY <1>2, <4>1, <4>3 DEF Accept, TypeOK
      <4> QED
        BY <4>2, <4>3
    <3>2. Pending(q)' <= Pending(q) /\ Pending(q) \in 0..1 /\ Pending(q)' \in 0..1
      BY <1>3, <2>1, PendingStill DEF Live
    <3>3. doubts'[q] = doubts[q]
      BY <2>1
    <3> QED
      BY <1>1, <1>2, <3>1, <3>2, <3>3
  <2> QED
    BY <1>9, <2>2, <2>3 DEF publishNowCall
<1>10. ASSUME NEW c \in Clients, publishNowMark(c) PROVE Goal
  <2>1. Live(q)' => Live(q)
    BY <1>10 DEF publishNowMark, markPostPublished, markPostFailed, SetStatus, Live, IsLive,
                 TypeOK
  <2> QED
    BY <1>4, <1>10, <2>1 DEF publishNowMark
<1>11. ASSUME UNCHANGED <<status, accepted, asked, doubts>> PROVE Goal
  BY <1>4, <1>11 DEF Live
<1> QED
  BY ZenonT(40), <1>6, <1>7, <1>8, <1>9, <1>10, <1>11
  DEF Request, Deletion, MCPCreate, handlePostCreate, MCPUpdate, handlePostUpdate, MCPSchedule,
      MCPArchive, MCPPublish, PlanWrite, Begin

\* The goroutine's own steps.
LEMMA SchedulerCredit ==
  ASSUME Typed, Typed', Credit, SchedulerStep, NEW q \in Posts
  PROVE  accepted'[q] + Pending(q)' <= asked'[q] + doubts'[q]
<1> USE DEF Typed
<1> DEFINE Goal == accepted'[q] + Pending(q)' <= asked'[q] + doubts'[q]
<1>1. accepted[q] + Pending(q) <= asked[q] + doubts[q]
  BY DEF Credit
<1>2. /\ accepted[q] \in Nat /\ asked[q] \in Nat /\ doubts[q] \in Nat
      /\ accepted'[q] \in Nat /\ asked'[q] \in Nat /\ doubts'[q] \in Nat
      /\ Pending(q) \in 0..1 /\ Pending(q)' \in 0..1
  BY DEF TypeOK, Pending
<1>3. ASSUME UNCHANGED <<accepted, asked, doubts>>, Pending(q)' <= Pending(q) PROVE Goal
  BY <1>1, <1>2, <1>3
<1> USE DEF Pending, Held, InJob, JobShape, Stages
<1>4. CASE Poll
  <2>1. Pending(q)' <= Pending(q)
    BY <1>4 DEF Poll, duePosts, Live, IsLive
  <2> QED
    BY <1>3, <1>4, <2>1 DEF Poll, Pass
<1>5. CASE EndDue
  <2>1. Pending(q)' <= Pending(q)
    BY <1>5 DEF EndDue, Live, IsLive
  <2> QED
    BY <1>3, <1>5, <2>1 DEF EndDue, Pass
<1>6. CASE EndSlots
  <2>1. Pending(q)' <= Pending(q)
    BY <1>6 DEF EndSlots, Live, IsLive
  <2> QED
    BY <1>3, <1>6, <2>1 DEF EndSlots, Pass
<1>7. ASSUME NEW p \in Posts, PublishDue(p) PROVE Goal
  <2>1. Pending(q)' <= Pending(q)
    BY <1>7 DEF PublishDue, StartPublish, markPostFailed, SetStatus, Live, IsLive, TypeOK
  <2> QED
    BY <1>3, <1>7, <2>1 DEF PublishDue, Pass
<1>8. ASSUME NEW p \in Posts, PublishQueued(p) PROVE Goal
  <2>1. Pending(q)' <= Pending(q)
    BY <1>8 DEF PublishQueued, StartPublish, markPostFailed, SetStatus, Live, IsLive, TypeOK
  <2> QED
    BY <1>3, <1>8, <2>1 DEF PublishQueued, Pass
<1>9. CASE CallPlatform
  <2>1. PICK a \in PlatformAnswers(stopping) :
          /\ job' = [job EXCEPT !.answer = a.answer]
          /\ Accept(job.post, a.took)
          /\ doubts' = [doubts EXCEPT ![job.post] =
                           @ + (IF a.took /\ a.answer # "ok" THEN 1 ELSE 0)]
    BY <1>9 DEF CallPlatform
  <2>2. UNCHANGED <<status, batch, asked>> /\ pc = "call" /\ pc' = "log"
    BY <1>9 DEF CallPlatform
  <2>3. CASE job.post = q
    <3>1. /\ Pending(q) = 1
          /\ Pending(q)' = IF a.answer = "ok" THEN 0 ELSE 1
      BY <2>1, <2>2, <2>3 DEF TypeOK, Jobs
    <3>2. /\ accepted'[q] = accepted[q] + (IF a.took THEN 1 ELSE 0)
          /\ doubts'[q] = doubts[q] + (IF a.took /\ a.answer # "ok" THEN 1 ELSE 0)
      BY <2>1, <2>3 DEF Accept, TypeOK
    <3> HIDE DEF Pending
    <3>3. asked'[q] = asked[q]
      BY <2>2
    <3>4. CASE a.took /\ a.answer # "ok"
      BY <1>1, <1>2, <3>1, <3>2, <3>3, <3>4
    <3>5. CASE a.took /\ a.answer = "ok"
      BY <1>1, <1>2, <3>1, <3>2, <3>3, <3>5
    <3>6. CASE ~a.took
      BY <1>1, <1>2, <3>1, <3>2, <3>3, <3>6
    <3> QED
      BY <3>4, <3>5, <3>6
  <2>4. CASE job.post # q
    <3>1. Pending(q)' = Pending(q)
      BY <2>1, <2>2, <2>4 DEF TypeOK, Jobs, Live
    <3>2. accepted'[q] = accepted[q] /\ doubts'[q] = doubts[q]
      BY <2>1, <2>4 DEF Accept, TypeOK
    <3> HIDE DEF Pending
    <3> QED
      BY <1>1, <2>2, <3>1, <3>2
  <2> QED
    BY <2>3, <2>4
<1>10. CASE LogAttempt
  <2>1. Pending(q)' <= Pending(q)
    BY <1>10 DEF LogAttempt, Live
  <2> QED
    BY <1>3, <1>10, <2>1 DEF LogAttempt, Pass
<1>11. CASE Settle
  <2>1. /\ pc = "settle" /\ pc' \in {"due", "slots"} /\ UNCHANGED batch
        /\ UNCHANGED <<accepted, asked>> /\ job.post \in Posts \ batch
    BY <1>11 DEF Settle
  <2>2. CASE job.post # q
    <3>1. Live(q)' => Live(q)
      BY <1>11, <2>2 DEF Settle, markPostPublished, markPostFailed, updatePost, SetStatus,
                         Live, TypeOK
    <3>2. Pending(q)' <= Pending(q) /\ doubts'[q] = doubts[q]
      BY <1>11, <2>1, <2>2, <3>1 DEF Settle, TypeOK
    <3> HIDE DEF Pending
    <3> QED
      BY <1>1, <1>2, <2>1, <3>2
  <2>3. CASE job.post = q /\ Fault
    <3>1. doubts'[q] = doubts[q] + 1
      BY <1>11, <2>3 DEF Settle, Fault, TypeOK
    <3> HIDE DEF Pending
    <3> QED
      BY <1>1, <1>2, <2>1, <3>1
  <2>4. CASE job.post = q /\ UNCHANGED <<doubts, budgets>>
    <3>1. CASE job.answer = "ok"
      <4>1. ~Live(q)'
        BY <1>11, <2>4, <3>1 DEF Settle, Fault, markPostPublished, SetStatus, Stored, Live,
                                 IsLive, PostStatuses, TypeOK
      <4>2. Pending(q)' = 0
        BY <2>1, <2>4, <4>1
      <4> QED
        BY <1>3, <1>2, <2>1, <2>4, <4>2
    <3>2. CASE job.answer # "ok"
      <4>1. Pending(q) = 1
        BY <2>1, <2>4, <3>2
      <4> QED
        BY <1>3, <1>2, <2>1, <2>4, <4>1
    <3> QED
      BY <3>1, <3>2
  <2> QED
    BY <1>11, <2>2, <2>3, <2>4 DEF Settle
<1> QED
  BY <1>4, <1>5, <1>6, <1>7, <1>8, <1>9, <1>10, <1>11 DEF SchedulerStep

\* The rest of the system: time, stops, restarts and crashes.
LEMMA WorldCredit ==
  ASSUME Typed, Typed', Credit, NEW q \in Posts,
         \/ Exit \/ Stop \/ Restart \/ Crash
         \/ \E p \in Posts : TimePasses(p)
  PROVE  accepted'[q] + Pending(q)' <= asked'[q] + doubts'[q]
<1> USE DEF Typed
<1>1. accepted[q] + Pending(q) <= asked[q] + doubts[q]
  BY DEF Credit
<1>2. /\ accepted[q] \in Nat /\ asked[q] \in Nat /\ doubts[q] \in Nat
      /\ Pending(q) \in 0..1 /\ Pending(q)' \in 0..1
  BY DEF TypeOK, Pending
<1>3. CASE Exit \/ Stop \/ \E p \in Posts : TimePasses(p)
  <2>1. Pending(q)' = Pending(q)
    BY <1>3 DEF Exit, Stop, TimePasses, Pending, Held, InJob, JobShape, Live, Stages
  <2> QED
    BY <1>1, <1>2, <1>3, <2>1 DEF Exit, Stop, TimePasses, Pass
<1>4. CASE Restart
  <2>1. Pending(q)' <= Pending(q)
    BY <1>4 DEF Restart, Reboot, Pending, Held, InJob, Live, Stages
  <2> QED
    BY <1>1, <1>2, <1>4, <2>1 DEF Restart, Reboot
<1>5. CASE Crash
  <2>1. UNCHANGED <<accepted, asked>>
    BY <1>5 DEF Crash, Reboot
  <2>2. doubts'[q] = doubts[q] + (IF pc \in {"log", "settle"} /\ job.post = q THEN 1 ELSE 0)
    BY <1>5 DEF Crash
  <2>3. CASE pc \in {"log", "settle"} /\ job.post = q
    BY <1>1, <1>2, <2>1, <2>2, <2>3
  <2>4. CASE ~(pc \in {"log", "settle"} /\ job.post = q)
    <3>1. Pending(q)' <= Pending(q)
      BY <1>5, <2>4 DEF Crash, Reboot, Pending, Held, InJob, JobShape, Live, Stages
    <3> QED
      BY <1>1, <1>2, <2>1, <2>2, <2>4, <3>1
  <2> QED
    BY <2>3, <2>4
<1> QED
  BY <1>3, <1>4, <1>5

LEMMA CreditAlways == Spec => []Credit
<1>1. Typed /\ Typed' /\ Credit /\ [Next]_vars => Credit'
  <2>1. ASSUME Typed, Typed', Credit, Next PROVE Credit'
    <3> SUFFICES ASSUME NEW q \in Posts
                 PROVE  accepted'[q] + Pending(q)' <= asked'[q] + doubts'[q]
      BY DEF Credit
    <3> QED
      BY <2>1, RequestCredit, SchedulerCredit, WorldCredit DEF Next
  <2>2. ASSUME Credit, UNCHANGED vars PROVE Credit'
    BY <2>2 DEF Credit, Pending, Held, InJob, Live
  <2> QED
    BY <2>1, <2>2
<1> QED
  BY <1>1, InitCredit, TypedAlways, PTL DEF Spec

\* No post has more copies on its platform than clients asked for, plus the
\* outcomes that were lost and the rows that stale writes revived.
THEOREM CopiesAreAccounted == Spec => []CopiesAccounted
<1>1. Typed /\ Credit => CopiesAccounted
  <2> SUFFICES ASSUME Typed, Credit, NEW p \in Posts
               PROVE  accepted[p] <= asked[p] + doubts[p]
    BY DEF CopiesAccounted
  <2>1. /\ accepted[p] \in Nat /\ asked[p] \in Nat /\ doubts[p] \in Nat
        /\ Pending(p) \in 0..1
    BY DEF Typed, TypeOK, Pending
  <2> QED
    BY <2>1 DEF Credit
<1> QED
  BY <1>1, CreditAlways, TypedAlways, PTL

-----------------------------------------------------------------------------
(***************************************************************************)
(* Attempts.  AttemptsAccounted says nothing of the log row that a         *)
(* publication in progress is about to write.  Ledger adds it: a post that *)
(* the goroutine holds, or would pick up, is owed one more row, and that   *)
(* row is covered already.  That a retry leaves room for its own row is    *)
(* where the count that the attempt started from comes in (LogCounted),    *)
(* and that such a post was asked for at all is Credit.                    *)
(***************************************************************************)

\* Log rows that p may get without anybody asking again.
Owed(p) ==
  IF p \in batch \/ (IF InJob(p) THEN pc # "settle" ELSE Live(p)) THEN 1 ELSE 0

Ledger == \A p \in Posts : deliveryLog[p] + Owed(p) <= (MaxAttempts - 1) + asked[p] + doubts[p]

\* The log holds no more than the attempts counted at the start of the
\* publication, and its own.
LogCounted ==
  /\ pc \in {"call", "log"} => deliveryLog[job.post] <= job.attempts
  /\ pc = "settle" => deliveryLog[job.post] <= job.attempts + 1

Accounts == Ledger /\ LogCounted

LEMMA InitAccounts == Init => Accounts
<1> SUFFICES ASSUME Init PROVE Accounts
  OBVIOUS
<1>1. LogCounted
  BY DEF Init, LogCounted
<1>2. ASSUME NEW p \in Posts
      PROVE  deliveryLog[p] + Owed(p) <= (MaxAttempts - 1) + asked[p] + doubts[p]
  <2>1. deliveryLog[p] = 0 /\ asked[p] = 0 /\ doubts[p] = 0
    BY DEF Init
  <2>2. Owed(p) = 0
    BY DEF Init, Owed, InJob, Live, IsLive, Stages
  <2> QED
    BY <2>1, <2>2, AttemptAssumption
<1> QED
  BY <1>1, <1>2 DEF Accounts, Ledger

\* A request adds no log rows, and a row that it brings to life is accounted
\* for: somebody asked for it, or a stale copy revived it.
LEMMA RequestRevives ==
  ASSUME Typed, Typed', Request, NEW q \in Posts
  PROVE  /\ deliveryLog'[q] <= deliveryLog[q]
         /\ asked'[q] + doubts'[q] >= asked[q] + doubts[q]
         /\ Live(q)' /\ ~Live(q) => asked'[q] + doubts'[q] > asked[q] + doubts[q]
<1> USE DEF Typed
<1> DEFINE Goal == /\ deliveryLog'[q] <= deliveryLog[q]
                   /\ asked'[q] + doubts'[q] >= asked[q] + doubts[q]
                   /\ Live(q)' /\ ~Live(q) => asked'[q] + doubts'[q] > asked[q] + doubts[q]
<1>1. /\ asked[q] \in Nat /\ doubts[q] \in Nat /\ deliveryLog[q] \in Nat
      /\ asked'[q] \in Nat /\ doubts'[q] \in Nat /\ deliveryLog'[q] \in Nat
  BY DEF TypeOK
<1>2. ASSUME NEW p \in Posts, NEW s, NEW at, Create(p, s, at) PROVE Goal
  BY <1>1, <1>2 DEF Create, insertPost, Live, TypeOK
<1>3. ASSUME Deletion PROVE Goal
  <2>1. /\ UNCHANGED history
        /\ deliveryLog'[q] <= deliveryLog[q]
        /\ Live(q)' => Live(q)
    BY <1>3, DeletionEffect, DeletionRevivesNone
  <2> QED
    BY <1>1, <2>1
<1>4. ASSUME NEW c \in Clients, WriteRow(c) PROVE Goal
  <2> DEFINE r == requests[c]
             revives == Stored(r.post) /\ ~Live(r.post) /\ IsLive(r.status)
  <2>1. UNCHANGED deliveryLog
    BY <1>4 DEF WriteRow
  <2>2. CASE UNCHANGED <<status, asked, doubts>>
    BY <1>1, <2>1, <2>2 DEF Live
  <2>3. CASE /\ updatePost(r.post, r.status, r.at)
             /\ asked' = [asked EXCEPT ![r.post] = @ + (IF revives /\ r.asks THEN 1 ELSE 0)]
             /\ doubts' = [doubts EXCEPT ![r.post] = @ + (IF revives /\ ~r.asks THEN 1 ELSE 0)]
    <3>1. CASE r.post = q /\ revives
      <4>1. asked'[q] + doubts'[q] = asked[q] + doubts[q] + 1
        BY <1>1, <2>3, <3>1 DEF TypeOK
      <4> QED
        BY <1>1, <2>1, <4>1
    <3>2. CASE ~(r.post = q /\ revives)
      <4>1. Live(q)' => Live(q)
        BY <2>3, <3>2 DEF updatePost, SetStatus, Live, TypeOK
      <4>2. asked'[q] = asked[q] /\ doubts'[q] = doubts[q]
        BY <1>1, <2>3, <3>2 DEF TypeOK
      <4> QED
        BY <1>1, <2>1, <4>1, <4>2
    <3> QED
      BY <3>1, <3>2
  <2> QED
    BY <1>4, <2>2, <2>3 DEF WriteRow
<1>5. ASSUME NEW c \in Clients, publishNowCall(c) PROVE Goal
  <2>1. UNCHANGED <<status, deliveryLog, doubts>>
    BY <1>5 DEF publishNowCall
  <2>2. asked'[q] >= asked[q]
    <3>1. UNCHANGED asked \/ asked' = [asked EXCEPT ![requests[c].post] = @ + 1]
      BY <1>5 DEF publishNowCall
    <3> QED
      BY <1>1, <3>1 DEF TypeOK
  <2> QED
    BY <1>1, <2>1, <2>2 DEF Live
<1>6. ASSUME NEW c \in Clients, publishNowMark(c) PROVE Goal
  <2>1. Live(q)' => Live(q)
    BY <1>6 DEF publishNowMark, markPostPublished, markPostFailed, SetStatus, Live, IsLive,
                TypeOK
  <2> QED
    BY <1>1, <1>6, <2>1 DEF publishNowMark
<1>7. ASSUME UNCHANGED <<status, deliveryLog, asked, doubts>> PROVE Goal
  BY <1>1, <1>7 DEF Live
<1> QED
  BY ZenonT(40), <1>2, <1>3, <1>4, <1>5, <1>6, <1>7
  DEF Request, Deletion, MCPCreate, handlePostCreate, MCPUpdate, handlePostUpdate, MCPSchedule,
      MCPArchive, MCPPublish, PlanWrite, Begin

LEMMA RequestAccounts ==
  ASSUME Typed, Typed', Accounts, Request
  PROVE  Accounts'
<1> USE DEF Typed
<1>1. UNCHANGED <<pc, batch, job>>
  BY RequestLeavesScheduler
<1>2. ASSUME NEW q \in Posts
      PROVE  deliveryLog'[q] + Owed(q)' <= (MaxAttempts - 1) + asked'[q] + doubts'[q]
  <2>1. /\ deliveryLog[q] \in Nat /\ asked[q] \in Nat /\ doubts[q] \in Nat
        /\ deliveryLog'[q] \in Nat /\ asked'[q] \in Nat /\ doubts'[q] \in Nat
        /\ Owed(q) \in 0..1 /\ Owed(q)' \in 0..1
    BY DEF TypeOK, Owed
  <2>2. deliveryLog[q] + Owed(q) <= (MaxAttempts - 1) + asked[q] + doubts[q]
    BY DEF Accounts, Ledger
  <2>3. Owed(q)' <= Owed(q) \/ (Live(q)' /\ ~Live(q))
    BY <1>1 DEF Owed, InJob
  <2> QED
    BY <2>1, <2>2, <2>3, RequestRevives, AttemptAssumption
<1>3. LogCounted'
  <2> SUFFICES ASSUME pc' \in Stages PROVE LogCounted'
    BY DEF LogCounted, Stages
  <2>1. job.post \in Posts
    BY <1>1 DEF JobShape
  <2>2. deliveryLog'[job.post] <= deliveryLog[job.post]
    BY <2>1, RequestRevives
  <2>3. /\ deliveryLog[job.post] \in Nat /\ deliveryLog'[job.post] \in Nat
        /\ job.attempts \in Nat
    BY <2>1 DEF TypeOK, Jobs
  <2> QED
    BY <1>1, <2>2, <2>3 DEF Accounts, LogCounted
<1> QED
  BY <1>2, <1>3 DEF Accounts, Ledger

\* The goroutine's own steps, the entries of one post.
LEMMA SchedulerLedger ==
  ASSUME Typed, Typed', Credit, Accounts, SchedulerStep, NEW q \in Posts
  PROVE  deliveryLog'[q] + Owed(q)' <= (MaxAttempts - 1) + asked'[q] + doubts'[q]
<1> USE DEF Typed
<1> DEFINE Goal == deliveryLog'[q] + Owed(q)' <= (MaxAttempts - 1) + asked'[q] + doubts'[q]
<1>1. deliveryLog[q] + Owed(q) <= (MaxAttempts - 1) + asked[q] + doubts[q]
  BY DEF Accounts, Ledger
<1>2. /\ deliveryLog[q] \in Nat /\ asked[q] \in Nat /\ doubts[q] \in Nat
      /\ deliveryLog'[q] \in Nat /\ asked'[q] \in Nat /\ doubts'[q] \in Nat
      /\ Owed(q) \in 0..1 /\ Owed(q)' \in 0..1
      /\ MaxAttempts \in Nat \ {0}
  BY AttemptAssumption DEF TypeOK, Owed
<1>3. ASSUME UNCHANGED <<deliveryLog, asked, doubts>>, Owed(q)' <= Owed(q) PROVE Goal
  BY <1>1, <1>2, <1>3
<1>4. ASSUME Poll \/ EndDue \/ EndSlots PROVE Goal
  <2>1. Owed(q)' <= Owed(q)
    BY <1>4 DEF Poll, EndDue, EndSlots, duePosts, Owed, InJob, Live, IsLive, Stages, JobShape
  <2> QED
    BY <1>3, <1>4, <2>1 DEF Poll, EndDue, EndSlots, Pass
<1>5. ASSUME NEW p \in Posts, PublishDue(p) \/ PublishQueued(p) PROVE Goal
  <2>1. Owed(q)' <= Owed(q)
    BY <1>5 DEF PublishDue, PublishQueued, StartPublish, markPostFailed, SetStatus, Owed, InJob,
                Live, IsLive, Stages, JobShape, TypeOK
  <2> QED
    BY <1>3, <1>5, <2>1 DEF PublishDue, PublishQueued, StartPublish, markPostFailed, Pass
<1>6. CASE CallPlatform
  <2>1. UNCHANGED <<deliveryLog, asked>>
    BY <1>6 DEF CallPlatform
  <2>2. doubts'[q] >= doubts[q]
    BY <1>2, <1>6 DEF CallPlatform, TypeOK
  <2>3. Owed(q)' <= Owed(q)
    BY <1>6 DEF CallPlatform, Owed, InJob, Live, Stages, TypeOK, Jobs
  <2> QED
    BY <1>1, <1>2, <2>1, <2>2, <2>3
<1>7. CASE LogAttempt
  <2>1. UNCHANGED <<status, batch, job, asked, doubts>> /\ pc = "log" /\ pc' = "settle"
    BY <1>7 DEF LogAttempt, Pass
  <2>2. CASE job.post = q
    <3>1. deliveryLog'[q] <= deliveryLog[q] + 1
      BY <1>2, <1>7, <2>2 DEF LogAttempt, logDeliveryAttempt, TypeOK
    <3>2. Owed(q) = 1 /\ Owed(q)' = 0
      BY <2>1, <2>2 DEF Owed, InJob, Stages, JobShape
    <3> QED
      BY <1>1, <1>2, <2>1, <3>1, <3>2
  <2>3. CASE job.post # q
    <3>1. deliveryLog'[q] = deliveryLog[q]
      BY <1>7, <2>3 DEF LogAttempt, logDeliveryAttempt, TypeOK
    <3>2. Owed(q)' = Owed(q)
      BY <2>1, <2>3 DEF Owed, InJob, Live
    <3> QED
      BY <1>1, <1>2, <2>1, <3>1, <3>2
  <2> QED
    BY <2>2, <2>3
<1>8. CASE Settle
  <2>1. /\ pc = "settle" /\ pc' \in {"due", "slots"} /\ UNCHANGED <<deliveryLog, batch, asked>>
        /\ job.post \in Posts \ batch
    BY <1>8 DEF Settle, JobShape, Stages
  <2>2. CASE job.post # q
    <3>1. Live(q)' => Live(q)
      BY <1>8, <2>2 DEF Settle, markPostPublished, markPostFailed, updatePost, SetStatus,
                        Live, TypeOK
    <3>2. Owed(q)' <= Owed(q) /\ doubts'[q] = doubts[q]
      BY <1>8, <2>1, <2>2, <3>1 DEF Settle, Owed, InJob, Stages, TypeOK
    <3> QED
      BY <1>1, <1>2, <2>1, <3>2
  <2>3. CASE job.post = q /\ Fault
    <3>1. doubts'[q] = doubts[q] + 1
      BY <1>8, <2>3 DEF Settle, Fault, TypeOK
    <3> QED
      BY <1>1, <1>2, <2>1, <3>1
  <2>4. CASE job.post = q /\ (job.answer = "ok" \/ Exhausted) /\ UNCHANGED <<doubts, budgets>>
    <3>1. ~Live(q)'
      BY <1>8, <2>4 DEF Settle, Fault, markPostPublished, markPostFailed, SetStatus, Stored,
                        Live, IsLive, PostStatuses, TypeOK
    <3>2. Owed(q)' = 0
      BY <2>1, <2>4, <3>1 DEF Owed, InJob, Stages
    <3> QED
      BY <1>1, <1>2, <2>1, <2>4, <3>2
  <2>5. CASE job.post = q /\ job.answer # "ok" /\ ~Exhausted /\ UNCHANGED <<doubts, budgets>>
    <3>1. deliveryLog[q] <= MaxAttempts - 1
      <4>1. job.attempts \in Nat
        BY DEF TypeOK, Jobs
      <4> QED
        BY <1>2, <2>1, <2>5, <4>1 DEF Exhausted, Accounts, LogCounted
    <3>2. asked[q] + doubts[q] >= 1
      <4>1. Pending(q) = 1
        BY <2>1, <2>5 DEF Pending, Held, InJob, Stages
      <4>2. accepted[q] \in Nat
        BY DEF TypeOK
      <4> QED
        BY <1>2, <4>1, <4>2 DEF Credit
    <3> QED
      BY <1>2, <2>1, <2>5, <3>1, <3>2
  <2> QED
    BY <1>8, <2>2, <2>3, <2>4, <2>5 DEF Settle
<1> QED
  BY <1>4, <1>5, <1>6, <1>7, <1>8 DEF SchedulerStep

\* The goroutine's own steps, the count of the publication in progress.
LEMMA SchedulerLogCounted ==
  ASSUME Typed, Accounts, SchedulerStep
  PROVE  LogCounted'
<1> USE DEF Typed
<1>1. CASE Poll \/ EndDue \/ EndSlots
  BY <1>1 DEF Poll, EndDue, EndSlots, LogCounted
<1>2. ASSUME NEW p \in Posts, PublishDue(p) \/ PublishQueued(p) PROVE LogCounted'
  <2>1. deliveryLog[p] \in Nat
    BY DEF TypeOK
  <2>2. \/ pc' \in {"due", "slots"}
        \/ pc' = "call" /\ job'.post = p /\ job'.attempts = deliveryLog[p] /\ UNCHANGED deliveryLog
    BY <1>2 DEF PublishDue, PublishQueued, StartPublish
  <2> QED
    BY <2>1, <2>2 DEF LogCounted
<1>3. CASE CallPlatform
  BY <1>3 DEF CallPlatform, Accounts, LogCounted, TypeOK, Jobs
<1>4. CASE LogAttempt
  <2>1. /\ job.post \in Posts /\ deliveryLog[job.post] \in Nat /\ job.attempts \in Nat
        /\ deliveryLog[job.post] <= job.attempts
    BY <1>4 DEF LogAttempt, TypeOK, Jobs, JobShape, Stages, Accounts, LogCounted
  <2>2. deliveryLog'[job.post] <= deliveryLog[job.post] + 1
    BY <1>4, <2>1 DEF LogAttempt, logDeliveryAttempt, TypeOK
  <2>3. deliveryLog'[job.post] \in Nat
    BY <1>4, <2>1 DEF LogAttempt, logDeliveryAttempt, TypeOK
  <2> QED
    BY <1>4, <2>1, <2>2, <2>3 DEF LogAttempt, LogCounted
<1>5. CASE Settle
  BY <1>5 DEF Settle, LogCounted
<1> QED
  BY <1>1, <1>2, <1>3, <1>4, <1>5 DEF SchedulerStep

\* Time, stops, restarts and crashes.
LEMMA WorldAccounts ==
  ASSUME Typed, Typed', Accounts,
         \/ Exit \/ Stop \/ Restart \/ Crash
         \/ \E p \in Posts : TimePasses(p)
  PROVE  Accounts'
<1> USE DEF Typed
<1>1. UNCHANGED <<deliveryLog, asked>>
  BY DEF Exit, Stop, Restart, Crash, TimePasses, Reboot, Pass
<1>2. ASSUME NEW q \in Posts
      PROVE  deliveryLog'[q] + Owed(q)' <= (MaxAttempts - 1) + asked'[q] + doubts'[q]
  <2>1. /\ deliveryLog[q] \in Nat /\ asked[q] \in Nat /\ doubts[q] \in Nat
        /\ doubts'[q] \in Nat /\ Owed(q) \in 0..1 /\ Owed(q)' \in 0..1
        /\ MaxAttempts \in Nat
    BY AttemptAssumption DEF TypeOK, Owed
  <2>2. deliveryLog[q] + Owed(q) <= (MaxAttempts - 1) + asked[q] + doubts[q]
    BY DEF Accounts, Ledger
  <2>3. CASE Exit \/ Stop \/ Restart \/ \E p \in Posts : TimePasses(p)
    <3>1. Owed(q)' <= Owed(q)
      BY <2>3 DEF Exit, Stop, Restart, Reboot, TimePasses, Owed, InJob, JobShape, Live, Stages
    <3>2. UNCHANGED doubts
      BY <2>3 DEF Exit, Stop, Restart, TimePasses, Pass
    <3> QED
      BY <1>1, <2>1, <2>2, <3>1, <3>2
  <2>4. CASE Crash
    <3>1. doubts'[q] = doubts[q] + (IF pc \in {"log", "settle"} /\ job.post = q THEN 1 ELSE 0)
      BY <2>4 DEF Crash
    <3>2. CASE pc \in {"log", "settle"} /\ job.post = q
      BY <1>1, <2>1, <2>2, <3>1, <3>2
    <3>3. CASE ~(pc \in {"log", "settle"} /\ job.post = q)
      <4>1. Owed(q)' <= Owed(q)
        BY <2>4, <3>3 DEF Crash, Reboot, Owed, InJob, JobShape, Live, Stages
      <4> QED
        BY <1>1, <2>1, <2>2, <3>1, <3>3, <4>1
    <3> QED
      BY <3>2, <3>3
  <2> QED
    BY <2>3, <2>4
<1>3. LogCounted'
  <2>1. CASE Exit \/ Stop \/ \E p \in Posts : TimePasses(p)
    BY <2>1 DEF Exit, Stop, TimePasses, Accounts, LogCounted
  <2>2. CASE Restart \/ Crash
    BY <2>2 DEF Restart, Crash, Reboot, LogCounted
  <2> QED
    BY <2>1, <2>2
<1> QED
  BY <1>2, <1>3 DEF Accounts, Ledger

\* Across restarts, deletions and stale writes the delivery log of a post
\* holds no more rows than MaxAttempts-1, plus one for each request to publish
\* it, each lost outcome and each revival.
THEOREM AttemptsAreAccounted == Spec => []AttemptsAccounted
<1>1. Typed /\ Typed' /\ Credit /\ Accounts /\ [Next]_vars => Accounts'
  <2>1. ASSUME Typed, Typed', Credit, Accounts, Next PROVE Accounts'
    <3>1. CASE Request
      BY <2>1, <3>1, RequestAccounts
    <3>2. CASE SchedulerStep
      BY <2>1, <3>2, SchedulerLedger, SchedulerLogCounted DEF Accounts, Ledger
    <3>3. CASE Exit \/ Stop \/ Restart \/ Crash \/ \E p \in Posts : TimePasses(p)
      BY <2>1, <3>3, WorldAccounts
    <3> QED
      BY <2>1, <3>1, <3>2, <3>3 DEF Next
  <2>2. ASSUME Accounts, UNCHANGED vars PROVE Accounts'
    BY <2>2 DEF Accounts, Ledger, LogCounted, Owed, InJob, Live
  <2> QED
    BY <2>1, <2>2
<1>2. Typed /\ Accounts => AttemptsAccounted
  <2> SUFFICES ASSUME Typed, Accounts, NEW p \in Posts
               PROVE  deliveryLog[p] <= (MaxAttempts - 1) + asked[p] + doubts[p]
    BY DEF AttemptsAccounted
  <2>1. /\ deliveryLog[p] \in Nat /\ asked[p] \in Nat /\ doubts[p] \in Nat
        /\ Owed(p) \in 0..1
    BY DEF Typed, TypeOK, Owed
  <2> QED
    BY <2>1, AttemptAssumption DEF Accounts, Ledger
<1> QED
  BY <1>1, <1>2, InitAccounts, TypedAlways, CreditAlways, PTL DEF Spec

-----------------------------------------------------------------------------
(***************************************************************************)
(* Published rows.  An "ok" answer on its way to the row, and a published  *)
(* row a REST update has read and will write back, both rest on a copy the *)
(* platform already accepted.                                              *)
(***************************************************************************)

Sent(p) == accepted[p] > 0

RowsBacked == \A p \in Posts : status[p] = "published" => Sent(p)

JobBacked == pc \in {"log", "settle"} /\ job.answer = "ok" => Sent(job.post)

RequestBacked(r) ==
  /\ r.pc = "mark" /\ r.answer = "ok" => Sent(r.post)
  /\ r.pc = "write" /\ r.status = "published" => Sent(r.post)

Backed == RowsBacked /\ JobBacked /\ \A c \in Clients : RequestBacked(requests[c])

\* Copies are never withdrawn.
LEMMA SentStays ==
  ASSUME Typed, Next, NEW p \in Posts, Sent(p)
  PROVE  Sent(p)'
<1> USE DEF Typed, Sent
<1>1. ASSUME UNCHANGED accepted PROVE Sent(p)'
  BY <1>1
<1>2. ASSUME NEW q \in Posts, NEW took, Accept(q, took) PROVE Sent(p)'
  BY <1>2 DEF Accept, TypeOK
<1>3. CASE CallPlatform
  BY <1>2, <1>3 DEF CallPlatform, JobShape, Stages
<1>4. ASSUME NEW c \in Clients, publishNowCall(c) PROVE Sent(p)'
  BY <1>1, <1>2, <1>4 DEF publishNowCall, RequestShape
<1>5. CASE Request
  <2>1. ASSUME NEW q \in Posts, MCPCreate(q) \/ handlePostCreate(q)
        PROVE  Sent(p)'
    BY <1>1, <2>1 DEF MCPCreate, handlePostCreate, Create
  <2>2. ASSUME NEW c \in Clients, NEW q \in Posts,
               \/ MCPUpdate(c, q) \/ handlePostUpdate(c, q) \/ MCPSchedule(c, q)
               \/ MCPArchive(c, q) \/ MCPPublish(c, q)
        PROVE  Sent(p)'
    BY <1>1, <2>2 DEF MCPUpdate, handlePostUpdate, MCPSchedule, MCPArchive, MCPPublish,
                      PlanWrite, Begin
  <2>3. ASSUME NEW c \in Clients, WriteRow(c) \/ publishNowMark(c)
        PROVE  Sent(p)'
    BY <1>1, <2>3 DEF WriteRow, publishNowMark
  <2>4. ASSUME Deletion PROVE Sent(p)'
    BY <1>1, <2>4, DeletionEffect
  <2> QED
    BY <1>4, <1>5, <2>1, <2>2, <2>3, <2>4 DEF Request, Deletion
<1>6. CASE SchedulerStep
  BY <1>1, <1>3, <1>6
  DEF SchedulerStep, Poll, EndDue, EndSlots, PublishDue, PublishQueued, LogAttempt, Settle, Pass
<1>7. CASE Exit \/ Stop \/ Restart \/ Crash \/ \E q \in Posts : TimePasses(q)
  BY <1>1, <1>7 DEF Exit, Stop, Restart, Crash, Reboot, TimePasses, Pass
<1> QED
  BY <1>5, <1>6, <1>7 DEF Next

LEMMA RowsBackedStep ==
  ASSUME Typed, Backed, Next, "published" \notin RestStatuses
  PROVE  RowsBacked'
<1> USE DEF Typed
<1> SUFFICES ASSUME NEW q \in Posts, status'[q] = "published" PROVE Sent(q)'
  BY DEF RowsBacked
<1>1. Sent(q) => Sent(q)'
  BY SentStays
<1>2. ASSUME status'[q] = status[q] PROVE Sent(q)'
  BY <1>1, <1>2 DEF Backed, RowsBacked
<1>3. ASSUME NEW p \in Posts, NEW s, SetStatus(p, s), s = "published" => Sent(p) PROVE Sent(q)'
  BY <1>1, <1>3, <1>2 DEF SetStatus, TypeOK
<1>4. ASSUME NEW p \in Posts, NEW s, NEW at, Create(p, s, at), s # "published" PROVE Sent(q)'
  BY <1>2, <1>4 DEF Create, insertPost, TypeOK
<1>5. ASSUME NEW p \in Posts, MCPCreate(p) \/ handlePostCreate(p) PROVE Sent(q)'
  BY <1>4, <1>5 DEF MCPCreate, handlePostCreate, Promote, McpStatuses
<1>6. ASSUME Deletion PROVE Sent(q)'
  BY <1>2, <1>6, DeletionEffect
<1>7. ASSUME NEW c \in Clients, WriteRow(c) PROVE Sent(q)'
  BY <1>2, <1>3, <1>7 DEF WriteRow, updatePost, Backed, RequestBacked, RequestShape
<1>8. ASSUME NEW c \in Clients, publishNowMark(c) PROVE Sent(q)'
  BY <1>2, <1>3, <1>8 DEF publishNowMark, markPostPublished, markPostFailed, Backed,
                          RequestBacked, RequestShape
<1>9. ASSUME NEW p \in Posts, PublishDue(p) \/ PublishQueued(p) PROVE Sent(q)'
  BY <1>2, <1>3, <1>9 DEF PublishDue, PublishQueued, StartPublish, markPostFailed
<1>10. CASE Settle
  <2>1. job.post \in Posts /\ job.copy # "published"
    BY <1>10 DEF Settle, JobShape, Stages, TypeOK, Jobs
  <2> QED
    BY <1>2, <1>3, <1>10, <2>1 DEF Settle, markPostPublished, markPostFailed, updatePost,
                                   Backed, JobBacked
<1>11. ASSUME UNCHANGED status PROVE Sent(q)'
  BY <1>2, <1>11
<1> QED
  BY ZenonT(40), <1>5, <1>6, <1>7, <1>8, <1>9, <1>10, <1>11
  DEF Next, Request, SchedulerStep, Deletion, MCPUpdate, handlePostUpdate, MCPSchedule,
      MCPArchive, MCPPublish, PlanWrite, Begin, publishNowCall, Poll, Exit, EndDue, EndSlots,
      CallPlatform, LogAttempt, Stop, Restart, Crash, Reboot, TimePasses

LEMMA JobBackedStep ==
  ASSUME Typed, Backed, Next
  PROVE  JobBacked'
<1> USE DEF Typed
<1>1. ASSUME UNCHANGED job, pc' \in {"log", "settle"} => pc \in {"log", "settle"}
      PROVE  JobBacked'
  <2> SUFFICES ASSUME pc' \in {"log", "settle"}, job'.answer = "ok"
               PROVE  accepted'[job'.post] > 0
    BY DEF JobBacked, Sent
  <2>1. job.post \in Posts /\ Sent(job.post)
    BY <1>1 DEF Backed, JobBacked, JobShape, Stages
  <2>2. \A p \in Posts : Sent(p) => accepted'[p] > 0
    BY SentStays DEF Sent
  <2> QED
    BY <1>1, <2>1, <2>2
<1>2. ASSUME pc' \notin {"log", "settle"} PROVE JobBacked'
  BY <1>2 DEF JobBacked
<1>3. CASE CallPlatform
  <2>1. PICK a \in PlatformAnswers(stopping) :
          job' = [job EXCEPT !.answer = a.answer] /\ Accept(job.post, a.took)
    BY <1>3 DEF CallPlatform
  <2>2. job.post \in Posts /\ job'.post = job.post /\ job'.answer = a.answer
    BY <1>3, <2>1 DEF CallPlatform, JobShape, Stages, TypeOK, Jobs
  <2>3. a.answer = "ok" => a.took
    BY DEF PlatformAnswers, Outcomes
  <2>4. a.took => accepted'[job.post] > 0
    BY <2>1, <2>2 DEF Accept, TypeOK
  <2> QED
    BY <2>2, <2>3, <2>4 DEF JobBacked, Sent
<1>4. ASSUME Request PROVE JobBacked'
  BY <1>1, <1>4, RequestLeavesScheduler
<1>5. ASSUME NEW p \in Posts, PublishDue(p) \/ PublishQueued(p) PROVE JobBacked'
  BY <1>2, <1>5 DEF PublishDue, PublishQueued, StartPublish
<1>6. ASSUME Poll \/ Exit \/ EndDue \/ EndSlots \/ Settle \/ Reboot PROVE JobBacked'
  BY <1>2, <1>6 DEF Poll, Exit, EndDue, EndSlots, Settle, Reboot
<1>7. ASSUME LogAttempt \/ Stop \/ \E p \in Posts : TimePasses(p) PROVE JobBacked'
  BY <1>1, <1>7 DEF LogAttempt, Stop, TimePasses
<1> QED
  BY <1>3, <1>4, <1>5, <1>6, <1>7 DEF Next, SchedulerStep, Restart, Crash

LEMMA RequestsBackedStep ==
  ASSUME Typed, Backed, Next, "published" \notin RestStatuses, NEW d \in Clients
  PROVE  RequestBacked(requests[d])'
<1> USE DEF Typed
<1>1. ASSUME requests'[d] = requests[d] PROVE RequestBacked(requests[d])'
  <2>1. RequestBacked(requests[d])
    BY DEF Backed
  <2>2. requests[d].pc # "idle" => (Sent(requests[d].post) => Sent(requests[d].post)')
    BY <1>1, SentStays DEF RequestShape, Sent
  <2> QED
    BY <1>1, <2>1, <2>2 DEF RequestBacked, Sent
<1>2. ASSUME requests'[d].pc \in {"idle", "delete", "call"} PROVE RequestBacked(requests[d])'
  BY <1>2 DEF RequestBacked
<1>3. ASSUME NEW c \in Clients, NEW p \in Posts, NEW s, NEW at, NEW asks,
             PlanWrite(c, p, s, at, asks), s = "published" => status[p] = "published"
      PROVE  RequestBacked(requests[d])'
  <2>1. CASE c = d
    <3> DEFINE r == [Idle EXCEPT !.pc = "write", !.post = p, !.status = s,
                                 !.at = at, !.asks = asks]
    <3>0. requests'[d] = r
      BY <1>3, <2>1 DEF PlanWrite, Begin, TypeOK
    <3>1. r.pc = "write" /\ r.post = p /\ r.status = s
      BY DEF Idle
    <3>2. s = "published" => Sent(p)'
      BY <1>3, SentStays DEF Backed, RowsBacked
    <3> QED
      BY <3>0, <3>1, <3>2 DEF RequestBacked, Sent
  <2>2. CASE c # d
    BY <1>1, <1>3, <2>2 DEF PlanWrite, Begin, TypeOK
  <2> QED
    BY <2>1, <2>2
<1>4. ASSUME NEW c \in Clients, requests' = [requests EXCEPT ![c] = Idle]
      PROVE  RequestBacked(requests[d])'
  BY <1>1, <1>2, <1>4 DEF Idle, TypeOK
<1>5. ASSUME NEW c \in Clients, NEW p \in Posts,
             \/ MCPUpdate(c, p) \/ handlePostUpdate(c, p) \/ MCPSchedule(c, p) \/ MCPArchive(c, p)
      PROVE  RequestBacked(requests[d])'
  <2>1. CASE MCPUpdate(c, p)
    <3>1. PICK new \in McpStatuses \cup {"keep"}, time \in Times \cup {"keep"} :
            PlanWrite(c, p, Promote(Patch(new, status[p]), Patch(time, scheduledAt[p])),
                      Patch(time, scheduledAt[p]),
                      Promote(Patch(new, status[p]), Patch(time, scheduledAt[p])) # status[p]
                        \/ new # "keep")
      BY <2>1 DEF MCPUpdate
    <3>2. Promote(Patch(new, status[p]), Patch(time, scheduledAt[p])) = "published"
            => status[p] = "published"
      BY DEF Promote, Patch, McpStatuses
    <3> QED
      BY <1>3, <3>1, <3>2
  <2>2. CASE handlePostUpdate(c, p)
    <3>1. PICK new \in RestStatuses \cup {"keep"}, time \in Times \cup {"keep"} :
            PlanWrite(c, p, Patch(new, status[p]), Patch(time, scheduledAt[p]), new # "keep")
      BY <2>2 DEF handlePostUpdate
    <3>2. Patch(new, status[p]) = "published" => status[p] = "published"
      BY DEF Patch
    <3> QED
      BY <1>3, <3>1, <3>2
  <2>3. CASE MCPSchedule(c, p)
    BY <1>3, <2>3 DEF MCPSchedule
  <2>4. CASE MCPArchive(c, p)
    BY <1>3, <2>4 DEF MCPArchive
  <2> QED
    BY <1>5, <2>1, <2>2, <2>3, <2>4
<1>6. ASSUME NEW c \in Clients, NEW p \in Posts, MCPPublish(c, p)
      PROVE  RequestBacked(requests[d])'
  BY <1>1, <1>2, <1>6 DEF MCPPublish, Begin, Idle, TypeOK
<1>7. ASSUME NEW c \in Clients, publishNowCall(c) PROVE RequestBacked(requests[d])'
  <2> DEFINE p == requests[c].post
  <2>1. CASE \E a \in PlatformAnswers(FALSE) :
          /\ requests' = [requests EXCEPT ![c].pc = "mark", ![c].answer = a.answer]
          /\ Accept(p, a.took)
    <3>1. PICK a \in PlatformAnswers(FALSE) :
          /\ requests' = [requests EXCEPT ![c].pc = "mark", ![c].answer = a.answer]
          /\ Accept(p, a.took)
      BY <2>1
    <3>2. CASE c = d
      <4>1. /\ requests'[d].pc = "mark" /\ requests'[d].post = p
            /\ requests'[d].answer = a.answer
        BY <3>1, <3>2 DEF TypeOK, Requests
      <4>2. p \in Posts
        BY <1>7 DEF publishNowCall, RequestShape
      <4>3. a.answer = "ok" => a.took
        BY DEF PlatformAnswers, Outcomes
      <4>4. a.took => accepted'[p] > 0
        BY <3>1, <4>2 DEF Accept, TypeOK
      <4> QED
        BY <4>1, <4>3, <4>4 DEF RequestBacked, Sent
    <3>3. CASE c # d
      BY <1>1, <3>1, <3>3 DEF TypeOK
    <3> QED
      BY <3>2, <3>3
  <2> QED
    BY <1>4, <1>7, <2>1 DEF publishNowCall
<1>8. ASSUME Reboot PROVE RequestBacked(requests[d])'
  BY <1>2, <1>8 DEF Reboot, Idle
<1>9. ASSUME Deletion PROVE RequestBacked(requests[d])'
  <2>1. ASSUME NEW c \in Clients, NEW p \in Posts,
               requests' = [requests EXCEPT ![c] = [Idle EXCEPT !.pc = "delete", !.post = p]]
        PROVE  RequestBacked(requests[d])'
    <3>1. CASE c = d
      BY <1>2, <2>1, <3>1 DEF Idle, TypeOK
    <3>2. CASE c # d
      BY <1>1, <2>1, <3>2 DEF TypeOK
    <3> QED
      BY <3>1, <3>2
  <2> QED
    BY <1>1, <1>4, <1>9, <2>1, DeletionRequests
<1> QED
  BY <1>1, <1>4, <1>5, <1>6, <1>7, <1>8, <1>9
  DEF Next, Request, SchedulerStep, MCPCreate, handlePostCreate, Create, Deletion, WriteRow,
      publishNowMark, Poll, Exit, EndDue, EndSlots, PublishDue, PublishQueued, CallPlatform,
      LogAttempt, Settle, Stop, Restart, Crash, TimePasses, Pass

\* Unless REST callers write the status themselves, a row says published only
\* of a post its platform has accepted.
THEOREM PublishedIsAccepted == Spec => []PublishedWasAccepted
<1> DEFINE Safe == "published" \notin RestStatuses => Backed
<1>1. Init => Safe
  BY DEF Init, Backed, RowsBacked, JobBacked, RequestBacked, Idle
<1>2. Typed /\ Safe /\ [Next]_vars => Safe'
  <2>1. ASSUME Typed, Backed, Next, "published" \notin RestStatuses PROVE Backed'
    BY <2>1, RowsBackedStep, JobBackedStep, RequestsBackedStep DEF Backed
  <2>2. ASSUME Backed, UNCHANGED vars PROVE Backed'
    BY <2>2 DEF Backed, RowsBacked, JobBacked, RequestBacked, Sent
  <2> QED
    BY <2>1, <2>2
<1>3. Safe => PublishedWasAccepted
  BY DEF Backed, RowsBacked, Sent, PublishedWasAccepted
<1> QED
  BY <1>1, <1>2, <1>3, TypedAlways, PTL DEF Spec

=============================================================================
