---------------------------- MODULE Orchestrator ----------------------------
(***************************************************************************)
(* `draindeck run', from process start to process exit, over and over: the *)
(* step loop that drives issues to a terminal state (loop.py), composed    *)
(* with recovery, startup and shutdown (Recovery).                         *)
(***************************************************************************)
EXTENDS Recovery

vars == <<projection, repository, process>>

TypeOK == ProjectionTypeOK /\ RepositoryTypeOK /\ ProcessTypeOK

Init == ProjectionInit /\ RepositoryInit /\ ProcessInit

-----------------------------------------------------------------------------
(* Which issue moves next.                                                 *)

\* Fault: starts every PENDING issue before it finishes the ACTIVE one.
FaultyActionable ==
  LET chosen == {plan[k] : k \in DOMAIN plan}
      pending == {i \in chosen : issue[i] = "PENDING" /\ DepsMet(i)}
  IN  IF pending # {} THEN pending ELSE {i \in chosen : issue[i] = "ACTIVE"}

Actionable ==
  IF plan = <<>>
  THEN {i \in Issues : issue[i] = "ACTIVE" \/ (issue[i] = "PENDING" /\ DepsMet(i))}
  ELSE LET chosen == {plan[k] : k \in DOMAIN plan}
           active == {i \in chosen : issue[i] = "ACTIVE"}
       IN  IF active # {} THEN active
           ELSE {i \in chosen : issue[i] = "PENDING" /\ DepsMet(i)}

\* The first of them, in ingest order for an unfiltered run and in the
\* validated order otherwise (an ACTIVE issue first).
InPlan(i) == CHOOSE k \in DOMAIN plan : plan[k] = i
NextActionable ==
  IF plan = <<>> \/ \E i \in Actionable : issue[i] = "ACTIVE"
  THEN First(Actionable)
  ELSE CHOOSE i \in Actionable : \A j \in Actionable : InPlan(i) <= InPlan(j)

\* The issue whose step starts, and its latest execution.
Stepping(i) == At("Loop") /\ Actionable # {} /\ i = NextActionable
InState(i, state) ==
  Stepping(i) /\ issue[i] = "ACTIVE" /\ HasExecution(i) /\ Latest(i).state = state
X == LatestId(cur)
Ex == exec[X]

\* Hand the step over to its next part, remembering the issue.
Continue(i, label) ==
  pc' = label /\ cur' = i /\ UNCHANGED <<plan, spawned, stops>>
\* The step is over.
Done == pc' = "Loop" /\ cur' = NoIssue /\ UNCHANGED <<plan, spawned, stops>>

-----------------------------------------------------------------------------
(* The rows of the step table.                                             *)

Drained ==
  /\ At("Loop") /\ Actionable = {}
  /\ Leave
  /\ UNCHANGED <<projection, repository>>

\* Fault: pins what is checked out instead of the target's tip.
FaultyActivate ==
  \E i \in Issues :
    /\ Stepping(i) /\ issue[i] = "PENDING"
    /\ IssueActivated(i, CurrentCommit)
    /\ Done
    /\ UNCHANGED repository

Activate ==
  \E i \in Issues :
    /\ Stepping(i) /\ issue[i] = "PENDING"
    /\ IssueActivated(i, tip[Target])
    /\ Done
    /\ UNCHANGED repository

NeedsExecution(i) ==
  /\ Stepping(i) /\ issue[i] = "ACTIVE"
  /\ HasExecution(i) => Latest(i).state \in Retryable

CapHit(i) == attempts[i] >= MaxAttempts

\* Fault: the attempt cap never escalates.
FaultyEscalate ==
  \E i \in Issues :
    /\ NeedsExecution(i)
    /\ DuplicateFeedback(i)
    /\ IssueClosed(i, "NEEDS_HUMAN")
    /\ Done
    /\ UNCHANGED repository

Escalate ==
  \E i \in Issues :
    /\ NeedsExecution(i)
    /\ CapHit(i) \/ DuplicateFeedback(i)
    /\ IssueClosed(i, "NEEDS_HUMAN")
    /\ Done
    /\ UNCHANGED repository

\* Fault: the budget of the run is off by one.
FaultySpawn ==
  \E i \in Issues :
    /\ NeedsExecution(i)
    /\ ~CapHit(i) /\ ~DuplicateFeedback(i)
    /\ spawned <= MaxExecutionsPerRun
    /\ ExecutionSpawned(i, attempts[i] + 1, dirt \ {"tracked"})
    /\ spawned' = spawned + 1
    /\ pc' = "Loop" /\ UNCHANGED <<cur, plan, stops>>
    /\ UNCHANGED repository

\* ExecutionSpawned is durable before anything runs, with the untracked files
\* the workspace already had.
Spawn ==
  \E i \in Issues :
    /\ NeedsExecution(i)
    /\ ~CapHit(i) /\ ~DuplicateFeedback(i)
    /\ spawned < MaxExecutionsPerRun
    /\ ExecutionSpawned(i, attempts[i] + 1, dirt \ {"tracked"})
    /\ spawned' = spawned + 1
    /\ pc' = "Loop" /\ UNCHANGED <<cur, plan, stops>>
    /\ UNCHANGED repository

\* The execution count or the proxy dollars of the run hit their hard stop; no
\* dollars are recorded before this run has executed something.
BudgetStop ==
  \E i \in Issues :
    /\ NeedsExecution(i)
    /\ ~CapHit(i) /\ ~DuplicateFeedback(i)
    /\ spawned > 0
    /\ Leave
    /\ UNCHANGED <<projection, repository>>

\* A clean issue branch at the base; a dirty worktree raises RepoError, which
\* nothing in the run catches.
CheckoutIssue ==
  \E i \in Issues :
    /\ InState(i, "EXECUTING")
    /\ \/ CheckoutNew(i, base[i]) /\ Continue(i, "Engine")
       \/ dirt # {} /\ Leave /\ UNCHANGED <<head, tip>>
    /\ UNCHANGED <<projection, commits, dirt, attemptRef, archive>>

\* While the engine runs it edits the worktree, or commits its edits itself.
EngineWrites ==
  /\ At("Engine")
  /\ dirt = {} /\ CurrentCommit = base[cur]
  /\ \/ \E d \in EngineDirt : d # {} /\ dirt' = d /\ UNCHANGED <<commits, tip>>
     \/ CommitOnHead({})
  /\ UNCHANGED <<projection, process, head, attemptRef, archive>>

EngineExits ==
  /\ At("Engine")
  /\ Goto("Snapshot")
  /\ UNCHANGED <<projection, repository>>

SnapshotWork ==
  /\ At("Snapshot")
  /\ SnapshotCommit({})
  /\ Goto("SetRef")
  /\ UNCHANGED <<projection, head, attemptRef, archive>>

\* Fault: no ref for an engine that changed nothing.
FaultyReferWork ==
  /\ At("SetRef")
  /\ IF CurrentCommit = base[cur] THEN UNCHANGED attemptRef
     ELSE SetAttemptRef(X, CurrentCommit)
  /\ Goto("Finish")
  /\ UNCHANGED <<projection, commits, tip, head, dirt, archive>>

\* The attempt ref is durable before the fact that names its commit.
ReferWork ==
  /\ At("SetRef")
  /\ \/ MayRefer(X, CurrentCommit) /\ SetAttemptRef(X, CurrentCommit) /\ Goto("Finish")
     \/ ~MayRefer(X, CurrentCommit) /\ Leave /\ UNCHANGED attemptRef
  /\ UNCHANGED <<projection, commits, tip, head, dirt, archive>>

\* Normal exit; a timeout or a failing exit status; the turn budget.
FinishNormal ==
  /\ At("Finish")
  /\ IdleEngine \/ CurrentCommit # base[cur]
  /\ ExecutionFinished(X, CurrentCommit)
  /\ Done
  /\ UNCHANGED repository

FinishRejected ==
  /\ At("Finish")
  /\ ExecutionFinishedRejected(X, CurrentCommit)
  /\ Goto("Reset") \/ Goto("Decompose")
  /\ UNCHANGED repository

Decompose ==
  /\ At("Decompose")
  /\ IssueClosed(cur, "NEEDS_DECOMPOSITION")
  /\ Goto("Reset")
  /\ UNCHANGED repository

ResetWorkspace ==
  /\ At("Reset")
  /\ ResetHard(base[cur])
  /\ Goto("Clean")
  /\ UNCHANGED <<projection, commits, head, attemptRef, archive>>

CleanWorkspace ==
  /\ At("Clean")
  /\ dirt' = {}
  /\ Done
  /\ UNCHANGED <<projection, commits, tip, head, attemptRef, archive>>

\* The validation commands run in the workspace as it is, and may leave dirt.
RunGate ==
  \E i \in Issues :
    /\ InState(i, "VALIDATING")
    /\ \E d \in GateDirt : dirt' = dirt \cup d
    /\ Continue(i, "Gate")
    /\ UNCHANGED <<projection, commits, tip, head, attemptRef, archive>>

GateVerdict ==
  /\ At("Gate")
  /\ \/ ValidationPassed(X, Ex.end) /\ Done
     \/ ValidationFailed(X) /\ Goto("Reset")
  /\ UNCHANGED repository

\* The verdict: approve, reject with feedback, or an answer that cannot be
\* parsed, which escalates the issue and leaves the workspace as it is.
Review ==
  \E i \in Issues :
    /\ InState(i, "REVIEWING")
    /\ \/ ReviewApproved(LatestId(i), Latest(i).end) /\ Done
       \/ \E f \in Feedbacks : ReviewRejected(LatestId(i), f) /\ Continue(i, "Reset")
       \/ IssueClosed(i, "NEEDS_HUMAN") /\ Done
    /\ UNCHANGED repository

\* The pin gate guards the intent.
PinGate(view) ==
  view.end # NoCommit /\ view.end = view.validated /\ view.validated = view.reviewed

IntendCommit ==
  \E i \in Issues :
    /\ InState(i, "ACCEPTED") /\ Latest(i).intent = NoCommit
    /\ \/ PinGate(Latest(i)) /\ CommitIntent(LatestId(i), Latest(i).end) /\ Done
       \/ ~PinGate(Latest(i)) /\ Leave /\ UNCHANGED projection
    /\ UNCHANGED repository

\* Merge, unless the end commit is on the target already.
Merge ==
  \E i \in Issues :
    LET end == Latest(i).intent
    IN  /\ InState(i, "ACCEPTED") /\ end # NoCommit /\ ~Latest(i).created
        /\ \/ /\ IsAncestor(end, tip[Target])
              /\ IF MergeWitnessed(end) THEN Continue(i, "MergeFact") ELSE Leave
              /\ UNCHANGED <<commits, tip>>
           \/ /\ ~IsAncestor(end, tip[Target])
              /\ MergeTo(end)
              /\ Continue(i, "MergeFact")
           \/ /\ ~IsAncestor(end, tip[Target])
              /\ ~MayMerge \/ MayConflict(end)
              /\ Leave
              /\ UNCHANGED <<commits, tip>>
        /\ UNCHANGED <<projection, head, dirt, attemptRef, archive>>

RecordMerge ==
  /\ At("MergeFact")
  /\ CommitCreated(X)
  /\ Done
  /\ UNCHANGED repository

\* Fault: the intent is taken for the merge.
FaultyCompleteIssue ==
  \E i \in Issues :
    /\ InState(i, "ACCEPTED") /\ Latest(i).intent # NoCommit
    /\ IssueClosed(i, "DONE")
    /\ Continue(i, "DropRef")
    /\ UNCHANGED repository

CompleteIssue ==
  \E i \in Issues :
    /\ InState(i, "ACCEPTED") /\ Latest(i).created
    /\ IssueClosed(i, "DONE")
    /\ Continue(i, "DropRef")
    /\ UNCHANGED repository

\* Only this execution's own ref is dropped.
DropAttemptRef ==
  /\ At("DropRef")
  /\ attemptRef' = [attemptRef EXCEPT ![X] = NoCommit]
  /\ Done
  /\ UNCHANGED <<projection, commits, tip, head, dirt, archive>>

-----------------------------------------------------------------------------
(* Stops from outside.                                                     *)

Stop(kind) == kind \in StopKinds /\ stops < MaxStops /\ stops' = stops + 1

\* The process disappears between any two steps; the second kind only while an
\* issue branch is checked out.
Kill ==
  /\ pc # "Down"
  /\ Stop("kill") \/ (Stop("branch-kill") /\ head # Target)
  /\ Exit
  /\ UNCHANGED <<projection, repository>>

\* Ctrl-C inside the loop: the finally clause still runs.
Interrupt ==
  /\ Stop("interrupt") /\ pc \in Looping
  /\ pc' = "Shutdown" /\ UNCHANGED <<cur, plan, spawned>>
  /\ UNCHANGED <<projection, repository>>

\* The reviewer is unreachable: at startup the run is refused, in the loop it
\* halts and the execution stays REVIEWING.
ReviewerUnavailable ==
  /\ Stop("halt")
  /\ \/ pc = "Ingest" /\ Exit
     \/ /\ \E i \in Issues : InState(i, "REVIEWING")
        /\ pc' = "Shutdown" /\ UNCHANGED <<cur, plan, spawned>>
  /\ UNCHANGED <<projection, repository>>

-----------------------------------------------------------------------------

RecoveryStep ==
  \/ Start \/ PreserveResidue \/ ReferResidue \/ CrashOrphan \/ NoOrphans
  \/ CheckUnwitnessed \/ RedoMerge \/ RedoFact
  \/ CheckWorkspace \/ ArchiveResidue \/ RestoreWorkspace

StartupStep ==
  \/ \E req \in Requests : Select(req)
  \/ CheckoutTarget \/ Ingest \/ Shutdown

LoopStep ==
  \/ Drained \/ Activate \/ Escalate \/ Spawn \/ BudgetStop
  \/ CheckoutIssue \/ EngineWrites \/ EngineExits \/ SnapshotWork \/ ReferWork
  \/ FinishNormal \/ FinishRejected \/ Decompose \/ ResetWorkspace \/ CleanWorkspace
  \/ RunGate \/ GateVerdict \/ Review
  \/ IntendCommit \/ Merge \/ RecordMerge \/ CompleteIssue \/ DropAttemptRef

Step == RecoveryStep \/ StartupStep \/ LoopStep

Next == Step \/ Kill \/ Interrupt \/ ReviewerUnavailable

Spec == Init /\ [][Next]_vars

=============================================================================
