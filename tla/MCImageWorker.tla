--------------------------- MODULE MCImageWorker ---------------------------
(* Instances of ImageWorker for TLC. *)
EXTENDS ImageWorker, TLC

CONSTANTS w1, w2, j1, j2, q1

MCWorkers == {w1, w2}
MCOneJob == {j1}
MCTwoJobs == {j1, j2}
MCOneByOne == {q1}
MCSources == {"cover"}
MCOneMode == {"LIFESTYLE_BACKGROUND"}
WorkerSymmetry == Permutations(MCWorkers)

\* One task that raises or one process that dies, not both in one behaviour.
MCOneFault == errors + crashes <= 1
=============================================================================
