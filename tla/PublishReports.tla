--------------------------- MODULE PublishReports ---------------------------
(***************************************************************************)
(* What a publish call can report to its caller, and what a report says of *)
(* the copy: nil, a terminal publishError, a rateLimitError, or any other  *)
(* error.                                                                  *)
(***************************************************************************)
EXTENDS Naturals

Answers == {"ok", "terminal", "transient", "limited"}

\* What a call may report when n copies were taken.
Reports(n) == IF n = 1 THEN {"ok", "transient"} ELSE {"terminal", "transient", "limited"}

\* Whether a call's copy was taken, with what the call reports.  The two can
\* disagree only where an answer may be lost on its way back.
Outcomes(lossy) ==
  {[took |-> TRUE, answer |-> "ok"]}
    \cup {[took |-> FALSE, answer |-> a] : a \in {"terminal", "transient", "limited"}}
    \cup (IF lossy THEN {[took |-> TRUE, answer |-> "transient"]} ELSE {})

=============================================================================
