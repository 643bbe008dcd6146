--------------------------- MODULE RouteDelivery ---------------------------
(***************************************************************************)
(* What the router promises for one outbound job (router.go,               *)
(* route_worker.go): a job is pending until it is delivered or failed; it  *)
(* is called delivered only if its agent took it, possibly several times;  *)
(* once it is delivered or failed its status never changes and the agent   *)
(* never sees it again.                                                    *)
(***************************************************************************)
EXTENDS Naturals

CONSTANT Jobs

VARIABLES
  status,  \* of each job; "absent" before it is enqueued
  taken    \* times the agent accepted the job

Statuses == {"absent", "pending", "delivered", "failed"}

Init ==
  /\ status = [j \in Jobs |-> "absent"]
  /\ taken = [j \in Jobs |-> 0]

Move(j, from, to) ==
  /\ status[j] = from
  /\ status' = [status EXCEPT ![j] = to]
  /\ UNCHANGED taken

Accept(j) == Move(j, "absent", "pending")

Take(j) ==
  /\ status[j] = "pending"
  /\ taken' = [taken EXCEPT ![j] = @ + 1]
  /\ UNCHANGED status

Deliver(j) == taken[j] > 0 /\ Move(j, "pending", "delivered")

Fail(j) == Move(j, "pending", "failed")

Next == \E j \in Jobs : Accept(j) \/ Take(j) \/ Deliver(j) \/ Fail(j)

Spec == Init /\ [][Next]_<<status, taken>>

=============================================================================
