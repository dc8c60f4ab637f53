------------------------- MODULE MCEmbeddingWorker -------------------------
(* Instances of EmbeddingWorker for TLC. *)
EXTENDS EmbeddingWorker

CONSTANTS w1, w2, i1

MCWorkers == {w1, w2}
MCItems == {i1}
=============================================================================
