--------------------------- MODULE MCCreateBatch ---------------------------
(* Instances of CreateBatch for TLC. *)
EXTENDS CreateBatch, TLC

CONSTANTS q1, q2, q3, k1, k2, short, p1, p2

MCRequests == {q1, q2, q3}
MCKeys == {k1, k2, short}
MCShortKeys == {short}
MCPayloads == {p1, p2}
CreateSymmetry == Permutations(MCRequests) \cup Permutations({k1, k2}) \cup Permutations(MCPayloads)
=============================================================================
