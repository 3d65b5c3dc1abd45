--------------------------- MODULE MCIdempotency ---------------------------
(* Small instances of job creation for TLC. *)
EXTENDS Idempotency

CONSTANTS r1, r2, r3, u1, u2, j1, j2

OneRequest    == {r1}
ThreeRequests == {r1, r2, r3}
TwoUsers      == {u1, u2}
TwoJobs       == {j1, j2}
OneText       == {"x"}
Nothing       == ""

NoFault    == {}
EveryFault == {"dbError", "commitUnknown"}

-----------------------------------------------------------------------------
\* A body with its options omitted.
Short(webhook_url) ==
  [type |-> "x", name |-> "x", webhook_url |-> webhook_url,
   version |-> 0, max_retries |-> 0, timeout_seconds |-> 0]

\* Two that mean the same, one that differs in the last field only, and one
\* that lacks its webhook_url.
FewBodies ==
  {Short("x"), [Short("x") EXCEPT !.max_retries = 5, !.version = -1],
   [Short("x") EXCEPT !.timeout_seconds = 16], Short(Nothing)}
=============================================================================
