------------------------------ MODULE Delivery ------------------------------
(***************************************************************************)
(* What Draindeck promises about an issue, with the machinery left out: no *)
(* process, no attempts, no repository, no recovery.  An issue waits for   *)
(* its dependencies, is worked on, and either fails or is approved, merged *)
(* exactly once and then done.  Orchestrator is shown to implement this    *)
(* whatever stops it (OrchestratorProperties!DeliverySpec).                *)
(***************************************************************************)
CONSTANTS Issues, DependsOn

VARIABLE stage

Stage == {"waiting", "working", "approved", "merged", "done", "failed"}

StageOK == stage \in [Issues -> Stage]

Init == stage = [i \in Issues |-> "waiting"]

Move(i, from, to) ==
  /\ stage[i] = from
  /\ stage' = [stage EXCEPT ![i] = to]

Begin(i) == (\A d \in DependsOn[i] : stage[d] = "done") /\ Move(i, "waiting", "working")
Approve(i) == Move(i, "working", "approved")
Fail(i) == Move(i, "working", "failed")
Merge(i) == Move(i, "approved", "merged")
Finish(i) == Move(i, "merged", "done")

Next == \E i \in Issues : Begin(i) \/ Approve(i) \/ Fail(i) \/ Merge(i) \/ Finish(i)

Spec == Init /\ [][Next]_stage

=============================================================================
