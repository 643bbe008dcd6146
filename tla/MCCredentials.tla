--------------------------- MODULE MCCredentials ---------------------------
(***************************************************************************)
(* Credentials on small instances.  Requests, states, posts and rows are   *)
(* interchangeable.                                                        *)
(***************************************************************************)
EXTENDS Credentials, TLC

Symmetry ==
  Permutations(Ids) \cup Permutations(Posts) \cup Permutations(States)
    \cup Permutations(Callbacks) \cup Permutations(Publishers)

=============================================================================
