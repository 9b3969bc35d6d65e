------------------------------ MODULE Recovery ------------------------------
(***************************************************************************)
(* The parts of `draindeck run' around its loop: startup recovery          *)
(* (recovery/reconciler.py, recovery/bindings.py), selection, checkout and *)
(* ingest, and the shutdown that restores the target branch (main.py).     *)
(* Orchestrator adds the loop.                                             *)
(*                                                                         *)
(* Every event append and every git command that changes the repository is *)
(* a step of its own (the add, unstage and commit of one snapshot count as *)
(* one), and the process may be killed between any two of them.  What      *)
(* survives a kill is the projection (the log) and the repository; what is *)
(* lost is `cur', `plan' and `spawned'.                                    *)
(***************************************************************************)
EXTENDS Repository

CONSTANTS
  MaxExecutionsPerRun,  \* budget.max_executions_per_run
  Requests,             \* the selections a run may be started with
  EngineDirt,           \* what the engine may leave uncommitted
  GateDirt,             \* what a validation command may leave in the workspace
  IdleEngine,           \* whether an engine may exit 0 having changed nothing
  StopKinds,            \* the ways a run may be stopped from outside
  MaxStops              \* bound on those stops

ASSUME RunAssumption ==
  /\ MaxExecutionsPerRun \in Nat \ {0}
  /\ MaxStops \in Nat
  /\ StopKinds \subseteq {"kill", "branch-kill", "interrupt", "halt"}
  /\ Requests \subseteq [kind: {"legacy", "all", "selected"}, ids: SUBSET Issues]
  /\ EngineDirt \subseteq SUBSET Dirt /\ GateDirt \subseteq SUBSET Dirt
  /\ {} \in GateDirt
  /\ IdleEngine \in BOOLEAN

VARIABLES
  pc,       \* where the runtime process is
  cur,      \* the issue whose step is running
  plan,     \* the validated selection order, empty in an unfiltered run
  spawned,  \* executions started in this run
  stops     \* stops from outside so far

process == <<pc, cur, plan, spawned, stops>>
Reconciling == {"Orphans", "OrphanRef", "OrphanFact", "Unwitnessed", "RedoMerge",
                "RedoFact", "Workspace", "Archive", "Restore"}
Starting == {"Select", "Checkout", "Ingest"}
Looping == {"Loop", "Engine", "Snapshot", "SetRef", "Finish", "Decompose", "Gate",
            "MergeFact", "DropRef", "Reset", "Clean"}
Label == {"Down", "Shutdown"} \cup Reconciling \cup Starting \cup Looping

NoIssue == Target

ProcessTypeOK ==
  /\ pc \in Label
  /\ cur \in Issues \cup {NoIssue}
  /\ plan \in Seq(Issues)
  /\ spawned \in 0 .. MaxExecutionsPerRun
  /\ stops \in 0 .. MaxStops

ProcessInit ==
  pc = "Down" /\ cur = NoIssue /\ plan = <<>> /\ spawned = 0 /\ stops = 0

-----------------------------------------------------------------------------
(* Control.                                                                *)

\* A refused event raises out of every later replay: nothing runs after it.
At(label) == pc = label /\ ~poisoned

\* Move on within the run, keeping cur, plan and spawned.
Goto(label) == pc' = label /\ UNCHANGED <<cur, plan, spawned, stops>>

\* The process is gone, with what it held in memory.
Exit == pc' = "Down" /\ cur' = NoIssue /\ plan' = <<>> /\ spawned' = 0

\* An uncaught exception before the loop: no branch restore runs.
Die == Exit /\ UNCHANGED stops

\* The loop is left; the finally clause restores the target branch.
Leave == Goto("Shutdown")

-----------------------------------------------------------------------------
(* Recovery: replay, then check 1, check 2 and check 3.                    *)

Start ==
  /\ At("Down")
  /\ Goto("Orphans")
  /\ UNCHANGED <<projection, repository>>

Orphan == CHOOSE x \in OpenExecutions : TRUE

\* Fault: a clean worktree is taken for an engine that did nothing.
FaultyPreserveResidue ==
  /\ At("Orphans")
  /\ OpenExecutions # {}
  /\ IF attemptRef[Orphan] # NoCommit \/ dirt = {}
     THEN UNCHANGED <<commits, tip, dirt>> /\ Goto("OrphanFact")
     ELSE SnapshotCommit(exec[Orphan].untracked) /\ Goto("OrphanRef")
  /\ UNCHANGED <<projection, head, attemptRef, archive>>

\* Check 1, preserve_residue: an existing ref short-circuits, otherwise the
\* residue is committed, leaving the pre-spawn untracked files alone.
PreserveResidue ==
  /\ At("Orphans")
  /\ OpenExecutions # {}
  /\ IF attemptRef[Orphan] # NoCommit
     THEN UNCHANGED <<commits, tip, dirt>> /\ Goto("OrphanFact")
     ELSE SnapshotCommit(exec[Orphan].untracked) /\ Goto("OrphanRef")
  /\ UNCHANGED <<projection, head, attemptRef, archive>>

\* A workspace still at the issue base means nothing happened: no ref.
ReferResidue ==
  /\ At("OrphanRef")
  /\ IF CurrentCommit = base[Orphan[1]]
     THEN UNCHANGED attemptRef
     ELSE SetAttemptRef(Orphan, CurrentCommit)
  /\ Goto("OrphanFact")
  /\ UNCHANGED <<projection, commits, tip, head, dirt, archive>>

CrashOrphan ==
  /\ At("OrphanFact")
  /\ ExecutionCrashed(Orphan)
  /\ Goto("Orphans")
  /\ UNCHANGED repository

\* Fault: an orphan may be left open.
FaultyNoOrphans ==
  /\ At("Orphans")
  /\ Goto("Unwitnessed")
  /\ UNCHANGED <<projection, repository>>

NoOrphans ==
  /\ At("Orphans")
  /\ OpenExecutions = {}
  /\ Goto("Unwitnessed")
  /\ UNCHANGED <<projection, repository>>

Intended == CHOOSE x \in Unwitnessed : TRUE

\* Check 2: a CommitIntent without its CommitCreated.  The merge is on the
\* target already (backfill), it is there without a merge commit (tamper), or
\* it is redone.  The code records the merges after the last of them; there is
\* never more than one, which comes to the same.
CheckUnwitnessed ==
  /\ At("Unwitnessed")
  /\ \/ /\ Unwitnessed = {}
        /\ Goto("Workspace")
        /\ UNCHANGED repository
     \/ /\ Unwitnessed # {}
        /\ IsAncestor(exec[Intended].intent, tip[Target])
        /\ IF MergeWitnessed(exec[Intended].intent) THEN Goto("RedoFact") ELSE Die
        /\ UNCHANGED repository
     \/ /\ Unwitnessed # {}
        /\ ~IsAncestor(exec[Intended].intent, tip[Target])
        /\ \/ /\ tip[Target] # CurrentCommit
              /\ Goto("RedoMerge")
              /\ UNCHANGED repository
           \/ /\ tip[Target] = CurrentCommit
              /\ CheckoutNew(Intended[1], base[Intended[1]])
              /\ Goto("RedoMerge")
              /\ UNCHANGED <<commits, dirt, attemptRef, archive>>
           \/ /\ tip[Target] = CurrentCommit
              /\ dirt # {}
              /\ Die
              /\ UNCHANGED repository
  /\ UNCHANGED projection

\* Fault: merges what is checked out instead of the intended commit.
FaultyRedoMerge ==
  /\ At("RedoMerge")
  /\ MergeTo(CurrentCommit)
  /\ Goto("RedoFact")
  /\ UNCHANGED <<projection, head, dirt, attemptRef, archive>>

RedoMerge ==
  /\ At("RedoMerge")
  /\ \/ /\ MergeTo(exec[Intended].intent)
        /\ Goto("RedoFact")
        /\ UNCHANGED <<head, dirt, attemptRef, archive>>
     \/ /\ ~MayMerge \/ MayConflict(exec[Intended].intent)
        /\ Die
        /\ UNCHANGED repository
  /\ UNCHANGED projection

RedoFact ==
  /\ At("RedoFact")
  /\ CommitCreated(Intended)
  /\ Goto("Unwitnessed")
  /\ UNCHANGED repository

Position(i) == CHOOSE k \in DOMAIN IssueOrder : IssueOrder[k] = i
First(S) == CHOOSE i \in S : \A j \in S : Position(i) <= Position(j)

ActiveIssues == {i \in Issues : issue[i] = "ACTIVE"}
ActiveIssue == First(ActiveIssues)

\* The commit check 3 holds the workspace to.
ExpectedCommit ==
  IF ActiveIssues = {} THEN tip[Target]
  ELSE IF /\ HasExecution(ActiveIssue)
          /\ \/ Latest(ActiveIssue).state \in {"VALIDATING", "REVIEWING"}
             \/ Latest(ActiveIssue).state = "ACCEPTED" /\ Latest(ActiveIssue).created
       THEN Latest(ActiveIssue).end
       ELSE base[ActiveIssue]

\* The untracked paths check 3 must not touch, and whether what is dirty is
\* Draindeck's own.
HasBaseline == ActiveIssues # {} /\ HasExecution(ActiveIssue)
Preserved ==
  IF HasBaseline THEN dirt \cap Latest(ActiveIssue).untracked ELSE dirt \ {"tracked"}
OwnedDirty == ~(dirt \subseteq Preserved)

\* Check 3: archive what is not yet under a ref, then reset.
CheckWorkspace ==
  /\ At("Workspace")
  /\ IF ~OwnedDirty /\ CurrentCommit = ExpectedCommit
     THEN UNCHANGED <<commits, tip, dirt>> /\ Goto("Select")
     ELSE IF ~OwnedDirty /\ CurrentCommit \in AttemptRefs
     THEN UNCHANGED <<commits, tip, dirt>> /\ Goto("Restore")
     ELSE SnapshotCommit(Preserved) /\ Goto("Archive")
  /\ UNCHANGED <<projection, head, attemptRef, archive>>

ArchiveResidue ==
  /\ At("Archive")
  /\ archive' = IF CurrentCommit \in AttemptRefs THEN archive
                ELSE archive \cup {CurrentCommit}
  /\ Goto("Restore")
  /\ UNCHANGED <<projection, commits, tip, head, dirt, attemptRef>>

\* reset_hard(expected); the clean that follows spares everything still dirty.
RestoreWorkspace ==
  /\ At("Restore")
  /\ ResetHard(ExpectedCommit)
  /\ Goto("Select")
  /\ UNCHANGED <<projection, commits, head, attemptRef, archive>>

-----------------------------------------------------------------------------
(* Startup and shutdown.                                                   *)

\* Kahn's order over a set of issues: next is the issue earliest in the file that
\* has no dependency left in the set.  There is none when they are cyclic.
TopologicalOrders(S) ==
  LET Left(o, k) == S \ {o[j] : j \in 1 .. k - 1}
      Ready(o, k) == {i \in Left(o, k) : DependsOn[i] \cap Left(o, k) = {}}
  IN  {o \in UNION {[1 .. n -> S] : n \in 1 .. Len(IssueOrder)} :
         /\ S = {o[k] : k \in DOMAIN o}
         /\ \A k \in DOMAIN o :
              /\ o[k] \in Ready(o, k)
              /\ \A i \in Ready(o, k) : Position(o[k]) <= Position(i)}

NonTerminal == {i \in Issues : issue[i] \notin IssueTerminal}
Batch(req) == IF req.kind = "all" THEN NonTerminal ELSE req.ids

\* plan_selected and plan_run_all: every chosen issue is known and not terminal,
\* every dependency is chosen too or DONE, no ACTIVE issue is left out, no cycle.
Plannable(S) ==
  /\ S \subseteq NonTerminal
  /\ \A i \in S : \A d \in DependsOn[i] : d \in S \/ issue[d] = "DONE"
  /\ ActiveIssues \subseteq S
  /\ TopologicalOrders(S) # {}

Select(req) ==
  /\ At("Select")
  /\ \/ /\ req.kind = "legacy"
        /\ plan' = <<>> /\ pc' = "Checkout" /\ UNCHANGED <<cur, spawned, stops>>
     \/ /\ req.kind # "legacy"
        /\ Batch(req) # {} /\ Plannable(Batch(req))
        /\ plan' \in TopologicalOrders(Batch(req))
        /\ pc' = "Checkout" /\ UNCHANGED <<cur, spawned, stops>>
     \/ /\ req.kind # "legacy"
        /\ Batch(req) = {} \/ ~Plannable(Batch(req))
        /\ Die
  /\ UNCHANGED <<projection, repository>>

\* After RunStarted; a dirty worktree ends the run as CHECKOUT_FAILED.
CheckoutTarget ==
  /\ At("Checkout")
  /\ \/ Checkout(Target) /\ Goto("Ingest")
     \/ dirt # {} /\ Die /\ UNCHANGED head
  /\ UNCHANGED <<projection, commits, tip, dirt, attemptRef, archive>>

\* One IssueCreated per issue of the file that the log does not know.
Ingest ==
  /\ At("Ingest")
  /\ LET new == {i \in Issues : issue[i] = "ABSENT"}
     IN  \/ new # {} /\ IssueCreated(First(new)) /\ Goto("Ingest")
         \/ new = {} /\ Goto("Loop") /\ UNCHANGED projection
  /\ UNCHANGED repository

\* The finally clause: a dirty worktree only costs a warning.
Shutdown ==
  /\ At("Shutdown")
  /\ \/ Checkout(Target)
     \/ dirt # {} /\ UNCHANGED head
  /\ Exit
  /\ UNCHANGED <<stops, projection, commits, tip, dirt, attemptRef, archive>>

=============================================================================
