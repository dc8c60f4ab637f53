---------------------------- MODULE JobLifecycle ----------------------------
(***************************************************************************)
(* What an image job promises the seller who asked for it.  The job waits  *)
(* for the workers, is put under review or fails, may be taken up again    *)
(* after a failure, goes through a second, final run once the seller       *)
(* approved the preview, and pays the image provider within its budget.    *)
(* Leases, claims, messages, retries and crashes do not show.              *)
(* Pipeline.tla is shown to implement this module.                         *)
(***************************************************************************)
EXTENDS Naturals

CONSTANTS Jobs, Budget

VARIABLES
    phase,   \* "waiting", "review", "failed" or "rejected"
    final,   \* jobs whose preview the seller has approved
    spent    \* rounds of provider calls paid for

vars == <<phase, final, spent>>

Init ==
    /\ phase = [j \in Jobs |-> "waiting"]
    /\ final = {}
    /\ spent = [j \in Jobs |-> 0]

Move(j, from, to) == phase[j] = from /\ phase' = [phase EXCEPT ![j] = to]

\* Nothing is paid for a job that the seller does not wait for.
Pay(j) ==
    /\ phase[j] = "waiting"
    /\ spent[j] < Budget
    /\ spent' = [spent EXCEPT ![j] = @ + 1]
    /\ UNCHANGED <<phase, final>>

\* Images to review cost a round, and the final ones a round of their own.
Present(j) ==
    /\ Move(j, "waiting", "review")
    /\ spent[j] >= IF j \in final THEN 2 ELSE 1
    /\ UNCHANGED <<final, spent>>

Fail(j) == Move(j, "waiting", "failed") /\ UNCHANGED <<final, spent>>
Retry(j) == Move(j, "failed", "waiting") /\ UNCHANGED <<final, spent>>

\* The final run is started by the seller only, and once.
Approve(j) ==
    /\ j \notin final
    /\ Move(j, "review", "waiting")
    /\ final' = final \cup {j}
    /\ UNCHANGED spent

Reject(j) == Move(j, "review", "rejected") /\ UNCHANGED <<final, spent>>

Next ==
    \E j \in Jobs :
        Pay(j) \/ Present(j) \/ Fail(j) \/ Retry(j) \/ Approve(j) \/ Reject(j)

Spec == Init /\ [][Next]_vars
=============================================================================
