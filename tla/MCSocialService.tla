--------------------------- MODULE MCSocialService ---------------------------
(***************************************************************************)
(* SocialService on small sets.                                            *)
(***************************************************************************)
EXTENDS SocialService

CONSTANTS a1, a2, k1, k2, s1, r1, r2, b1

TwoApps == {a1, a2}
TwoSecrets == {k1, k2}
OneState == {s1}
TwoConfigurers == {r1, r2}
OneCallback == {b1}

=============================================================================
