----------------------------- MODULE Projection -----------------------------
(***************************************************************************)
(* The state projection that strict replay folds out of the event log      *)
(* (src/src/runtime/events/projections.py), kept as the variables the log  *)
(* determines.  Appending an event and applying it are one step here: the  *)
(* append is fsync'd, and a process that dies between the two rebuilds the *)
(* same projection when it replays.                                        *)
(*                                                                         *)
(* The log is appended to BEFORE the event is applied, so a handler that   *)
(* refuses its event does not undo it: the refused event stays in the log  *)
(* and every later replay refuses it again.  `poisoned' records that.      *)
(***************************************************************************)
EXTENDS Naturals, Sequences, FiniteSets

CONSTANTS
  IssueOrder,    \* the issues in the order of the configured issues file
  DependsOn,     \* issue -> the issues it depends on
  MaxAttempts,   \* budget.max_attempts_per_issue
  Feedbacks,     \* the category lists a rejecting review may carry
  Untracked      \* the untracked paths that can appear in the workspace

Issues == {IssueOrder[k] : k \in DOMAIN IssueOrder}

ASSUME IssuesAssumption ==
  /\ IssueOrder \in Seq(Issues)
  /\ \A j, k \in DOMAIN IssueOrder : IssueOrder[j] = IssueOrder[k] => j = k
  /\ DependsOn \in [Issues -> SUBSET Issues]

ASSUME BudgetAssumption == MaxAttempts \in Nat \ {0}

\* A rejecting verdict carries a non-empty list of categorised feedback.
ASSUME FeedbackAssumption ==
  /\ Feedbacks # {}
  /\ \A f \in Feedbacks : f \in Seq(STRING) /\ f # <<>>

VARIABLES
  issue,      \* issue -> its lifecycle state
  base,       \* issue -> the commit IssueActivated pinned, or NoCommit
  attempts,   \* issue -> how many executions were spawned for it
  exec,       \* execution -> its view
  poisoned    \* the log holds an event that replay refuses

projection == <<issue, base, attempts, exec, poisoned>>

NoCommit == 0

IssueState == {"ABSENT", "PENDING", "ACTIVE", "DONE", "NEEDS_HUMAN",
               "NEEDS_DECOMPOSITION"}
ExecutionState == {"NONE", "EXECUTING", "VALIDATING", "REVIEWING", "ACCEPTED",
                   "REJECTED", "CRASHED"}
Retryable == {"REJECTED", "CRASHED"}
ExecutionTerminal == {"ACCEPTED", "REJECTED", "CRASHED"}
IssueTerminal == {"DONE", "NEEDS_HUMAN", "NEEDS_DECOMPOSITION"}

Execution == Issues \X (1 .. MaxAttempts)

\* What replay knows of one execution.  `intent' is the end commit its
\* CommitIntent named (NoCommit before one); `untracked' is the untracked-file
\* baseline recorded at spawn.
View == [state: ExecutionState, end: Nat, validated: Nat, reviewed: Nat,
         intent: Nat, created: BOOLEAN, feedback: Feedbacks \cup {<<>>},
         untracked: SUBSET Untracked]

NoView == [state |-> "NONE", end |-> NoCommit, validated |-> NoCommit,
           reviewed |-> NoCommit, intent |-> NoCommit, created |-> FALSE,
           feedback |-> <<>>, untracked |-> {}]

ProjectionTypeOK ==
  /\ issue \in [Issues -> IssueState]
  /\ base \in [Issues -> Nat]
  /\ attempts \in [Issues -> 0 .. MaxAttempts]
  /\ exec \in [Execution -> View]
  /\ poisoned \in BOOLEAN

ProjectionInit ==
  /\ issue = [i \in Issues |-> "ABSENT"]
  /\ base = [i \in Issues |-> NoCommit]
  /\ attempts = [i \in Issues |-> 0]
  /\ exec = [x \in Execution |-> NoView]
  /\ poisoned = FALSE

-----------------------------------------------------------------------------
(* Queries.                                                                *)

HasExecution(i) == attempts[i] > 0
LatestId(i) == <<i, attempts[i]>>
Latest(i) == exec[LatestId(i)]
OpenExecutions == {x \in Execution : exec[x].state = "EXECUTING"}
\* Fault: forgets which intents have been recorded as merged.
FaultyUnwitnessed == {x \in Execution : exec[x].intent # NoCommit}
Unwitnessed == {x \in Execution : exec[x].intent # NoCommit /\ ~exec[x].created}
\* Fault: any terminal dependency will do.
FaultyDepsMet(i) == \A d \in DependsOn[i] : issue[d] \in IssueTerminal
DepsMet(i) == \A d \in DependsOn[i] : issue[d] = "DONE"

\* A category that a review of this issue has already used comes back, in the
\* same verdict or in a later one.
DuplicateFeedback(i) ==
  \E m, n \in 1 .. attempts[i] :
    \E j \in DOMAIN exec[<<i, m>>].feedback, k \in DOMAIN exec[<<i, n>>].feedback :
      /\ <<m, j>> # <<n, k>>
      /\ exec[<<i, m>>].feedback[j] = exec[<<i, n>>].feedback[k]

-----------------------------------------------------------------------------
(* One operator per handler: it applies the event it stands for when the   *)
(* handler accepts it, and poisons the log when the handler raises.        *)

Poison ==
  /\ poisoned' = TRUE
  /\ UNCHANGED <<issue, base, attempts, exec>>

IssueCreated(i) ==
  IF issue[i] # "ABSENT" THEN Poison
  ELSE /\ issue' = [issue EXCEPT ![i] = "PENDING"]
       /\ UNCHANGED <<base, attempts, exec, poisoned>>

IssueActivated(i, c) ==
  IF issue[i] # "PENDING" THEN Poison
  ELSE /\ issue' = [issue EXCEPT ![i] = "ACTIVE"]
       /\ base' = [base EXCEPT ![i] = c]
       /\ UNCHANGED <<attempts, exec, poisoned>>

\* IssueCompleted and IssueEscalated: the two ways out of ACTIVE.
IssueClosed(i, final) ==
  IF issue[i] # "ACTIVE" THEN Poison
  ELSE /\ issue' = [issue EXCEPT ![i] = final]
       /\ UNCHANGED <<base, attempts, exec, poisoned>>

ExecutionSpawned(i, n, untracked) ==
  IF \/ issue[i] # "ACTIVE"
     \/ exec[<<i, n>>].state # "NONE"
     \/ HasExecution(i) /\ Latest(i).state \notin ExecutionTerminal
  THEN Poison
  ELSE /\ exec' = [exec EXCEPT ![<<i, n>>] =
                     [NoView EXCEPT !.state = "EXECUTING", !.untracked = untracked]]
       /\ attempts' = [attempts EXCEPT ![i] = n]
       /\ UNCHANGED <<issue, base, poisoned>>

\* Finished, Crashed, ValidationPassed/Failed, ReviewApproved/Rejected: legal
\* from one state each, `view' being the view the handler leaves.
ExecutionTransition(x, from, view) ==
  IF exec[x].state # from THEN Poison
  ELSE /\ exec' = [exec EXCEPT ![x] = view]
       /\ UNCHANGED <<issue, base, attempts, poisoned>>

ExecutionFinished(x, end) ==
  ExecutionTransition(x, "EXECUTING",
    [exec[x] EXCEPT !.state = "VALIDATING", !.end = end])

ExecutionFinishedRejected(x, end) ==
  ExecutionTransition(x, "EXECUTING",
    [exec[x] EXCEPT !.state = "REJECTED", !.end = end])

ExecutionCrashed(x) ==
  ExecutionTransition(x, "EXECUTING", [exec[x] EXCEPT !.state = "CRASHED"])

ValidationPassed(x, c) ==
  ExecutionTransition(x, "VALIDATING",
    [exec[x] EXCEPT !.state = "REVIEWING", !.validated = c])

ValidationFailed(x) ==
  ExecutionTransition(x, "VALIDATING", [exec[x] EXCEPT !.state = "REJECTED"])

ReviewApproved(x, c) ==
  ExecutionTransition(x, "REVIEWING",
    [exec[x] EXCEPT !.state = "ACCEPTED", !.reviewed = c])

ReviewRejected(x, feedback) ==
  ExecutionTransition(x, "REVIEWING",
    [exec[x] EXCEPT !.state = "REJECTED", !.feedback = feedback])

CommitIntent(x, c) ==
  IF exec[x].state # "ACCEPTED" \/ exec[x].intent # NoCommit THEN Poison
  ELSE /\ exec' = [exec EXCEPT ![x] = [@ EXCEPT !.intent = c]]
       /\ UNCHANGED <<issue, base, attempts, poisoned>>

CommitCreated(x) ==
  IF exec[x].state # "ACCEPTED" \/ exec[x].intent = NoCommit \/ exec[x].created
  THEN Poison
  ELSE /\ exec' = [exec EXCEPT ![x] = [@ EXCEPT !.created = TRUE]]
       /\ UNCHANGED <<issue, base, attempts, poisoned>>

=============================================================================
