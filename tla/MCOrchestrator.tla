--------------------------- MODULE MCOrchestrator ---------------------------
(***************************************************************************)
(* Instances of Orchestrator for TLC: one or two issues, the second        *)
(* depending on the first or not.                                          *)
(***************************************************************************)
EXTENDS OrchestratorProperties

CONSTANTS a, b

OneIssue == <<a>>
TwoIssues == <<a, b>>

Independent == [i \in Issues |-> {}]
Chained == [i \in Issues |-> IF i = b THEN {a} ELSE {}]

Legacy == {[kind |-> "legacy", ids |-> {}]}
RunAll == {[kind |-> "all", ids |-> {}]}
Selected == {[kind |-> "selected", ids |-> S] : S \in SUBSET Issues \ {{}}}
PlannedOnly == RunAll \cup Selected
AnyRequest == Legacy \cup PlannedOnly

OneCategory == {<<"review-correctness">>}
TwoCategories == {<<"review-correctness">>, <<"review-scope">>}

EngineLeavesEdits == {{"tracked"}}
GateLeavesNothing == {{}}
GateLeavesFile == {{}, {"tmp"}}
AllStops == {"kill", "interrupt", "halt"}
KillOnly == {"kill"}
BranchKillOnly == {"branch-kill"}
=============================================================================
