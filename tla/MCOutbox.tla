------------------------------ MODULE MCOutbox ------------------------------
(* Small instances of the outbox relay for TLC. *)
EXTENDS Outbox

CONSTANTS j1, j2, p1, p2

MCJobs    == {j1, j2}
OneJob    == {j1}
MCPollers == {p1, p2}
MCEvents  == 1..3

AllFaults   == {"dbError", "commitUnknown", "redisReject", "redisUnknown",
                "death", "shutdown"}
OnlyDeath   == {"death"}
=============================================================================
