------------------------------ MODULE JobPayload ------------------------------
(***************************************************************************)
(* The payload of a job (service/job_payload.go) and the text its hash is  *)
(* computed from (CanonicalJSON, service/idempotency.go).                  *)
(*                                                                         *)
(* createJobHandler passes a struct, for which CanonicalJSON is            *)
(* json.Marshal; its cases for maps, arrays and raw messages are reached   *)
(* by no request and are not modelled.  The names of the members are the   *)
(* same in all texts, so that a text is the sequence of its values.        *)
(***************************************************************************)
EXTENDS Integers, Sequences

\* A number that is missing (0 stands for nil) or not positive has its default.
Option(n, default) == IF n > 0 THEN n ELSE default

NewJobPayload(b) ==
  [b EXCEPT !.version         = Option(b.version, 1),
            !.max_retries     = Option(b.max_retries, 5),
            !.timeout_seconds = Option(b.timeout_seconds, 15)]

\* Variant: json:"-" for timeout_seconds.
CanonicalWithoutTimeout(p) ==
  <<p.type, p.name, p.webhook_url, p.version, p.max_retries>>

\* json.Marshal of a struct: its fields in the order of their declaration.
\* (handler/routes.go:215 and README:135 speak of sorted keys; only the case for
\* maps sorts them.  That the order is fixed is what matters.)
CanonicalJSON(p) ==
  <<p.type, p.name, p.webhook_url, p.version, p.max_retries, p.timeout_seconds>>

-----------------------------------------------------------------------------
(* What it is to ask for the same job *)

\* Two values of an option mean the same if they are equal or both ask for
\* the default.
SameOption(m, n, default) ==
  m = n \/ \A k \in {m, n} : k <= 0 \/ k = default

SameJob(b, c) ==
  /\ b.type = c.type /\ b.name = c.name /\ b.webhook_url = c.webhook_url
  /\ SameOption(b.version, c.version, 1)
  /\ SameOption(b.max_retries, c.max_retries, 5)
  /\ SameOption(b.timeout_seconds, c.timeout_seconds, 15)
=============================================================================
