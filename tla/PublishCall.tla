---------------------------- MODULE PublishCall ----------------------------
(***************************************************************************)
(* What a publish call to a platform promises its caller: the platform     *)
(* takes at most one copy of the post in a call; a call that reports       *)
(* success has had its copy taken, and one that reports a refusal or a     *)
(* rate limit has not; only a transient error leaves that open.  Every     *)
(* call returns.  The scheduler's retries rest on this: what a call may    *)
(* report here is what PostScheduler counts with (ReportsExpected in       *)
(* PlatformClients).                                                       *)
(***************************************************************************)
EXTENDS PublishReports

CONSTANT Callers

VARIABLES
  copies,  \* copies taken in the last call of each caller
  answer   \* of that call: "none" before the first one, "open" while it runs

Init ==
  /\ copies = [c \in Callers |-> 0]
  /\ answer = [c \in Callers |-> "none"]

Begin(c) ==
  /\ answer[c] # "open"
  /\ answer' = [answer EXCEPT ![c] = "open"]
  /\ copies' = [copies EXCEPT ![c] = 0]

Take(c) ==
  /\ answer[c] = "open"
  /\ copies[c] = 0
  /\ copies' = [copies EXCEPT ![c] = 1]
  /\ UNCHANGED answer

Return(c) ==
  /\ answer[c] = "open"
  /\ \E a \in Reports(copies[c]) : answer' = [answer EXCEPT ![c] = a]
  /\ UNCHANGED copies

Next == \E c \in Callers : Begin(c) \/ Take(c) \/ Return(c)

Safety == Init /\ [][Next]_<<copies, answer>>

Liveness == \A c \in Callers : WF_<<copies, answer>>(Return(c))

Spec == Safety /\ Liveness

=============================================================================
