-------------------------- MODULE MCPlatformClients --------------------------
(***************************************************************************)
(* PlatformClients on small sets.                                          *)
(***************************************************************************)
EXTENDS PlatformClients

CONSTANTS c1, m1, m2

OneCaller == {c1}
TwoServers == {m1, m2}

=============================================================================
