------------------------------ MODULE MCImpact ------------------------------
(* Instance of Impact for TLC. *)
EXTENDS Impact, TLC

CONSTANTS j1, j2, q1, q2, front, back

MCJobs == {j1, j2}
MCSlots == {front, back}
MCRequests == {q1, q2}
ImpactSymmetry ==
    Permutations(MCJobs) \cup Permutations(MCSlots) \cup Permutations(MCRequests)

\* Bounds: the seller edits the cover or an answer is lost, not both; and the
\* first day passes before the first request.
OneDisturbance == edits + lost <= 1
FirstDayFree == today = 0 => requests = 0
=============================================================================
