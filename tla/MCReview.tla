------------------------------ MODULE MCReview ------------------------------
(* Instances of Review for TLC. *)
EXTENDS Review, TLC

CONSTANTS q1, q2, j1, j2

MCTwoRequests == {q1, q2}
MCTwoJobs == {j1, j2}
MCSources == {"cover"}
MCOneMode == {"WHITE_BACKGROUND"}
ReviewSymmetry == Permutations(MCTwoRequests) \cup Permutations(MCTwoJobs)
=============================================================================
