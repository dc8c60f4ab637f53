----------------------- MODULE MCContentSuggestions -----------------------
(* Instances of ContentSuggestions for TLC. *)
EXTENDS ContentSuggestions, TLC

CONSTANTS r1, r2, r3, k1

MCRequests == {r1,r2,r3}
MCKeys == {k1}
MCSymmetry == Permutations(MCRequests)
=============================================================================
