--------------------------- MODULE MCRouteWorker ---------------------------
(***************************************************************************)
(* RouteWorker on small instances: an event matched by two routes.         *)
(***************************************************************************)
EXTENDS RouteWorker, TLC

CONSTANTS e1, j1, j2

\* One event, two routes: a fan-out.
FanOut == e1 :> {j1, j2}

=============================================================================
