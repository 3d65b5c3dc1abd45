------------------------------ MODULE MCJobsApi ------------------------------
(* Small instances of the jobs API for TLC. *)
EXTENDS JobsApi, TLC

CONSTANTS h1, h2, u1, u2, j1

TwoHandlers   == {h1, h2}
TwoUsers      == {u1, u2}
OneJob        == {j1}
OwnedBy1      == [j \in OneJob |-> u1]
Texts         == {"name"}
Numbers       == {"max_retries"}
ZeroOrOne     == {0, 1}
AllTwo        == [f \in Texts \cup Numbers |-> 2]

DbErrors      == {"dbError"}

HandlerSymmetry == Permutations(TwoHandlers)
=============================================================================
