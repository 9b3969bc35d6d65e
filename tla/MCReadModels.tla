---------------------------- MODULE MCReadModels ----------------------------
(* Where ReadModels begins: nothing indexed, and three logs of runs that    *)
(* have got far enough for the last records of a life to arrive.            *)
EXTENDS ReadModels

Only(events) == CHOOSE e \in events : TRUE

Spawned == {e \in Event : e.type = "ExecutionSpawned"}
Opening ==
  <<Only(IssueEvent("IssueCreated", "none")), Only(IssueEvent("IssueActivated", "none")), Only(Spawned)>>
Contained ==
  Opening \o <<Only(ContainmentEvent("ContainmentPrepared")),
               Only(ContainmentEvent("ContainmentEstablished"))>>
Reviewed ==
  Opening \o <<Only(ExecutionEvent("ExecutionFinished", "finished", "metered")),
               Only(ExecutionEvent("ValidationPassed", "none", "unknown"))>>
Begun == <<Only(RunEvent("RunStarted", "complete"))>> \o Opening

MCAltered ==
  IssueEvent("IssueCreated", "none") \cup IssueEvent("IssueCompleted", "none")
    \cup Spawned \cup RunEvent("RunStarted", "malformed")

MCHistories == {<<>>, Contained, Reviewed, Begun}

=============================================================================
