--------------------------- MODULE MCJobPipeline ---------------------------
(* Small instances of the job pipeline for TLC. *)
EXTENDS JobPipeline, TLC

CONSTANTS j1, j2, p1, p2, x1, x2

OneJob      == {j1}
TwoJobs     == {j1, j2}
OnePoller   == {p1}
TwoPollers  == {p1, p2}
OneExec     == {x1}
TwoExecs    == {x1, x2}

TwoEvents   == 1..2
FourEvents  == 1..4

UpToTwo     == 1..2
OnlyTwo     == {2}

NoFaults     == {}
EveryFault   == FaultKinds
NoDuplicates == FaultKinds \ DuplicatingFaults
NoLoss       == FaultKinds \ LossyFaults

PipelineSymmetry ==
  Permutations(TwoJobs) \cup Permutations(TwoPollers) \cup Permutations(TwoExecs)
=============================================================================
