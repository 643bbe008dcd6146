-------------------------- MODULE MCPostScheduler --------------------------
(***************************************************************************)
(* PostScheduler on small instances.  Posts and clients are interchangeable *)
(* (CHOOSE is not used and no action orders them), so the safety runs take *)
(* their permutations as symmetries.                                       *)
(***************************************************************************)
EXTENDS PostScheduler, TLC

Symmetry == Permutations(Posts) \cup Permutations(Clients)

\* REST callers that use only the statuses the MCP tools know.
PlainRest == {"draft", "scheduled", "queued", "archived"}

\* REST callers that may also write a failed status.
AnyRest == PlainRest \cup {"failed"}

NoRest == {}

=============================================================================
