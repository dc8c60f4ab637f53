----------------------------- MODULE MCPipeline -----------------------------
(* Instances of Pipeline for TLC. *)
EXTENDS Pipeline, TLC

CONSTANTS w1, w2, j1, q1

MCWorkers == {w1, w2}
MCOneWorker == {w1}
MCOneJob == {j1}
MCOneByOne == {q1}
MCSources == {"cover"}
MCTwoModes == {"WHITE_BACKGROUND", "LIFESTYLE_BACKGROUND"}
MCOneMode == {"LIFESTYLE_BACKGROUND"}

\* The partition moves or the relay gives an event up, not both in one behaviour.
MCMovedOrDead == rebalances = 0 \/ deadTopic = {}
=============================================================================
