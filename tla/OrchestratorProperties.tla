----------------------- MODULE OrchestratorProperties -----------------------
(***************************************************************************)
(* What `draindeck run' promises about its log and its repository.         *)
(***************************************************************************)
EXTENDS Orchestrator

\* Execution x holds the pin that lets c be merged: c is what it produced, what
\* its gate passed and what its reviewer approved.
Approved(x, c) ==
  /\ exec[x].state = "ACCEPTED"
  /\ exec[x].end = c /\ exec[x].validated = c /\ exec[x].reviewed = c

Merges == {m \in DOMAIN commits : commits[m].second # NoCommit}

-----------------------------------------------------------------------------
(* Under every stop.                                                       *)

\* Log replay: the loop and recovery never append an event that strict replay
\* refuses, whatever a stop left behind; a refused event would end every later
\* run (events/projections.py raises after loop._emit has made it durable).
LogReplays == ~poisoned

\* Merge gate: every merge commit ever made has as its second parent a commit
\* that one execution produced, passed the gate with and was approved for, also
\* when recovery redid the merge.
MergesAreApproved ==
  \A m \in Merges : \E x \in Execution :
    Approved(x, commits[m].second) /\ exec[x].intent = commits[m].second

\* Exactly-once merge: a stop between the merge and its CommitCreated never
\* makes recovery or the loop merge the same work twice.
MergedOnce ==
  \A m, n \in Merges : commits[m].second = commits[n].second => m = n

\* Evidence: a finished execution's commit is held by its attempt ref until its
\* issue is DONE, so the event that names the commit never outlives it.
EvidenceKept ==
  \A x \in Execution :
    /\ exec[x].state \in {"VALIDATING", "REVIEWING", "REJECTED", "ACCEPTED"}
    /\ issue[x[1]] # "DONE"
    => attemptRef[x] = exec[x].end

\* One engine: at most one execution in the whole queue is EXECUTING, so crash
\* residue found in the one workspace has one owner.
OneEngine == \A x, y \in OpenExecutions : x = y

\* Refinement: seen from an issue, all of this is Delivery.  An issue is approved
\* when its latest execution is ACCEPTED and merged when a merge commit carries
\* that execution's work, recorded or not.
MergedWork(i) ==
  HasExecution(i) /\ \E m \in Merges : commits[m].second = Latest(i).intent
StageOf(i) ==
  CASE issue[i] \in {"ABSENT", "PENDING"} -> "waiting"
    [] issue[i] = "DONE" -> "done"
    [] issue[i] \in {"NEEDS_HUMAN", "NEEDS_DECOMPOSITION"} -> "failed"
    [] OTHER -> IF ~HasExecution(i) \/ Latest(i).state # "ACCEPTED" THEN "working"
                ELSE IF MergedWork(i) THEN "merged" ELSE "approved"

Promise == INSTANCE Delivery WITH stage <- [i \in Issues |-> StageOf(i)]
DeliverySpec == Promise!Spec

-----------------------------------------------------------------------------
(* When stops do not leave the target branch checked out mid-issue.        *)

\* "commits only approved work" (README.md:5): what the target holds beside the
\* root is a merge or the end commit of an approved execution.
OnlyApprovedOnTarget ==
  \A c \in commits[tip[Target]].anc \ {1} :
    c \in Merges \/ \E x \in Execution : Approved(x, c)

\* The target only ever moves forward, by one merge on its old tip.
TargetMovesByMerge ==
  [][tip'[Target] # tip[Target] =>
       /\ commits'[tip'[Target]].second # NoCommit
       /\ commits'[tip'[Target]].first
            = commits[tip[Target]].first \cup {tip'[Target]}]_vars

\* A merge sits on the very commit its issue was based on, so the merged tree is
\* the tree the reviewer saw.
MergedTreeIsReviewedTree ==
  \A m \in Merges : \E x \in Execution :
    /\ exec[x].intent = commits[m].second
    /\ commits[m].first = commits[base[x[1]]].first \cup {m}

\* DONE is backed by the target: the issue's accepted work is merged there.
DoneIsMerged ==
  \A i \in Issues : issue[i] = "DONE" =>
    \E n \in 1 .. attempts[i] :
      /\ exec[<<i, n>>].created
      /\ \E m \in commits[tip[Target]].first : commits[m].second = exec[<<i, n>>].end

\* Residue: when an execution is declared crashed, a commit on its issue branch
\* is held by a ref; none is left for the next checkout -B to drop.
CrashKeepsResidue ==
  [][\A i \in Issues :
       /\ HasExecution(i)
       /\ Latest(i).state = "EXECUTING" /\ Latest(i)'.state = "CRASHED"
       => tip[i] \in {NoCommit, base[i]} \cup AttemptRefs]_vars

\* "at most one issue is ever ACTIVE at a time in this engine" (loop.py:168).
OneActiveIssue == Cardinality(ActiveIssues) <= 1

-----------------------------------------------------------------------------
(* The inductive invariant behind OrchestratorProofs.                      *)

\* The commits that exist.
Made == 1 .. Len(commits)

\* Every pin is the end commit, which exists, and only an accepted execution
\* has an intent.
Pinned(view) ==
  /\ view.state \in {"VALIDATING", "REVIEWING", "ACCEPTED"} => view.end \in Made
  /\ view.state \in {"REVIEWING", "ACCEPTED"} => view.validated = view.end
  /\ view.state = "ACCEPTED" => view.reviewed = view.end
  /\ view.intent # NoCommit => view.state = "ACCEPTED" /\ view.intent = view.end

PinsHold ==
  \A x \in Execution :
    /\ exec[x].state # "NONE" => x[2] <= attempts[x[1]]
    /\ Pinned(exec[x])

\* An issue past PENDING has a base to reset to, and only such an issue has
\* executions.
BasesHold ==
  \A i \in Issues :
    /\ issue[i] \notin {"ABSENT", "PENDING"} => base[i] \in Made
    /\ HasExecution(i) => issue[i] \notin {"ABSENT", "PENDING"}

\* The target and the branch that is checked out exist.
BranchesHold == tip[Target] # NoCommit /\ tip[head] # NoCommit

\* What the process relies on where it is.
MidStep == Looping \ {"Loop"}
ControlHolds ==
  /\ pc \in {"OrphanRef", "OrphanFact"} => OpenExecutions # {}
  /\ pc \in {"RedoMerge", "RedoFact"} => Unwitnessed # {}
  /\ pc \in MidStep => cur \in Issues /\ HasExecution(cur)

ProjectionInv == ProjectionTypeOK /\ PinsHold /\ BasesHold
RepositoryInv == RepositoryTypeOK /\ BranchesHold
ProcessInv == ProcessTypeOK /\ ControlHolds

\* Type correctness with what makes it, and the merge gate, inductive.
IInv == ProjectionInv /\ RepositoryInv /\ ProcessInv /\ MergesAreApproved

-----------------------------------------------------------------------------
(* The inductive invariants behind OrchestratorProofs and                  *)
(* OrchestratorMergeProofs; each rests on the one before it.               *)

\* What has been started and not yet recorded as ended: a running engine, or a
\* merge that is intended.
InFlight == OpenExecutions \cup Unwitnessed

\* Where the process is with an engine running, and where with nothing in flight.
Working == {"Engine", "Snapshot", "SetRef", "Finish"}
Resting == {"Workspace", "Archive", "Restore", "Select", "Checkout", "Ingest",
            "Decompose", "Reset", "Clean", "Gate", "DropRef"}

\* One thing is in flight in the whole queue, the latest execution of an ACTIVE
\* issue, and in the loop it is that issue's turn.
OneInFlight ==
  /\ \A x, y \in InFlight : x = y
  /\ \A x \in InFlight : issue[x[1]] = "ACTIVE" /\ x = LatestId(x[1])

\* What the process knows of the log where it is.
StepHolds ==
  /\ pc = "Loop" => \A x \in InFlight : x[1] = NextActionable
  /\ pc \in Working => X \in OpenExecutions
  /\ pc = "MergeFact" => X \in Unwitnessed
  /\ pc \in {"Unwitnessed", "RedoMerge", "RedoFact"} => OpenExecutions = {}
  /\ pc \in Resting => InFlight = {}
  /\ pc = "Gate" => Ex.state = "VALIDATING"
  /\ pc = "Decompose" => issue[cur] = "ACTIVE" /\ Ex.state = "REJECTED"
  /\ pc = "DropRef" => issue[cur] = "DONE"

TurnInv == OneInFlight /\ StepHolds /\ LogReplays

\* The commit about to be recorded is under its attempt ref.
EvidenceInv ==
  /\ EvidenceKept
  /\ pc = "Finish" => attemptRef[X] = CurrentCommit

\* Ancestry is reflexive and transitive, and within the commits that exist.
AncestryHolds ==
  \A c \in Made :
    /\ IsAncestor(c, c)
    /\ commits[c].anc \subseteq Made /\ commits[c].first \subseteq Made
    /\ \A a \in commits[c].anc : commits[a].anc \subseteq commits[c].anc

\* The ACTIVE issues form a stack: the earlier in the file, the later activated;
\* and the target holds the base of each of them.
StackHolds ==
  /\ \A i \in ActiveIssues : IsAncestor(base[i], tip[Target])
  /\ \A i, j \in ActiveIssues :
       Position(i) <= Position(j) => IsAncestor(base[j], base[i])

\* Two executions end at the same commit only when one of them did nothing.
EndsHold ==
  \A x \in Execution : exec[x].end # NoCommit =>
    /\ exec[x].state # "NONE"
    /\ exec[x].end \in Made /\ IsAncestor(base[x[1]], exec[x].end)
    /\ \A y \in Execution \ {x} :
         exec[y].end = exec[x].end => exec[x].end \in {base[x[1]], base[y[1]]}

\* A merge is the work of an execution that did something; the target holds it
\* until it is recorded, and what is recorded was merged.
Merged(c) == \E m \in Merges : commits[m].second = c
MergesHold ==
  /\ \A m \in Merges : \E x \in Execution :
       exec[x].intent = commits[m].second /\ exec[x].intent # base[x[1]]
  /\ \A x \in Unwitnessed :
       Merged(exec[x].intent) => IsAncestor(exec[x].intent, tip[Target])
  /\ \A x \in Execution : exec[x].created =>
       exec[x].intent # NoCommit /\ Merged(exec[x].intent)

HistoryHolds == AncestryHolds /\ StackHolds /\ EndsHold /\ MergesHold /\ MergedOnce

\* What the process knows of the history where it is.
PlannedIssues == {plan[k] : k \in DOMAIN plan}
Fresh(c) == \A x \in Execution : exec[x].end # c
PlaceHolds ==
  /\ pc \in Looping \cup {"Checkout", "Ingest"} /\ plan # <<>> =>
       ActiveIssues \subseteq PlannedIssues
  /\ pc \in MidStep => \A j \in ActiveIssues : IsAncestor(base[j], base[cur])
  /\ pc \in Working =>
       /\ head = cur /\ IsAncestor(base[cur], CurrentCommit)
       /\ CurrentCommit = base[cur] \/ Fresh(CurrentCommit)
  /\ pc = "RedoMerge" => ~IsAncestor(exec[Intended].intent, tip[Target])
  /\ pc = "RedoFact" => Merged(exec[Intended].intent)
  /\ pc = "MergeFact" => Merged(Ex.intent)

HistoryInv == HistoryHolds /\ PlaceHolds

-----------------------------------------------------------------------------
(* The inductive invariants behind the second part of                      *)
(* OrchestratorMergeProofs, when stops leave the target alone and every    *)
(* run has a plan.                                                         *)

AlwaysPlanned == \A req \in Requests : req.kind # "legacy"

\* What the second group of properties needs: a run is stopped only by a kill with
\* an issue branch checked out, and a validation command leaves untracked files at
\* most.  InterruptedRun shows what another stop does.
Sheltered ==
  /\ StopKinds \subseteq {"branch-kill"}
  /\ AlwaysPlanned
  /\ GateDirt \subseteq SUBSET Untracked

\* One ACTIVE issue, because what a planned run activates waits for it; a step in
\* progress is about that issue.
SingleInv ==
  /\ \A i, j \in ActiveIssues : i = j
  /\ pc \in MidStep => ActiveIssues \subseteq {cur}
  /\ pc \in Looping \cup {"Checkout", "Ingest"} => plan # <<>>

\* Where the process is not yet, or no longer, in its loop.
Outside == Label \ (Looping \cup {"Ingest"})

\* An ACTIVE issue with its target checked out outside the loop asks recovery for
\* nothing but the target's tip.
Parked(i) ==
  HasExecution(i) =>
    \/ Latest(i).state \in Retryable \cup {"EXECUTING"}
    \/ /\ Latest(i).state = "ACCEPTED" /\ Latest(i).intent # NoCommit
       /\ ~Latest(i).created /\ ~MergedWork(i)
ParkHolds ==
  /\ pc = "Shutdown" \/ (pc \in Outside /\ head = Target) =>
       \A i \in ActiveIssues : Parked(i)
  /\ pc \in {"Archive", "Restore"} => head # Target

\* With the target checked out the worktree holds no edit, and what recovery would
\* snapshot was there before the execution it blames.
TargetDirtHolds ==
  head = Target =>
    /\ "tracked" \notin dirt
    /\ pc = "Ingest" => dirt = {}
    /\ \A i \in ActiveIssues : HasExecution(i) =>
         /\ pc = "Loop" /\ Latest(i).state \in Retryable => dirt = {}
         /\ pc \in Outside \cup {"Loop"} /\ Latest(i).state \in Retryable \cup {"EXECUTING"}
            => dirt \subseteq Latest(i).untracked

\* An execution adds one commit to its issue's base at most.
Small(c, i) == commits[c].anc \subseteq commits[base[i]].anc \cup {c}
WorkIsSmall ==
  /\ \A x \in Execution : exec[x].end # NoCommit => Small(exec[x].end, x[1])
  /\ pc \in Working => Small(CurrentCommit, cur)
  /\ pc \in {"Engine", "Snapshot"} => CurrentCommit = base[cur] \/ dirt = {}

\* The target holds every merge, and until it holds an issue's own it is where the
\* issue started.
TargetHolds ==
  /\ Merges \subseteq commits[tip[Target]].first
  /\ \A i \in ActiveIssues : ~MergedWork(i) => base[i] = tip[Target]
  /\ pc \in {"Gate", "Decompose", "Reset"} /\ head = Target => base[cur] = tip[Target]

TargetInv ==
  /\ ParkHolds /\ TargetDirtHolds /\ WorkIsSmall /\ TargetHolds
  /\ OnlyApprovedOnTarget /\ MergedTreeIsReviewedTree /\ DoneIsMerged

\* What residue needs: a planned queue, and no Ctrl-C, whose way out may leave an
\* unfinished branch for the target.  A kill may come anywhere.
Uninterrupted == AlwaysPlanned /\ "interrupt" \notin StopKinds

\* An issue that was never activated has no branch.
Unstarted == {"ABSENT", "PENDING"}
BranchesWait == \A i \in Issues : issue[i] \in Unstarted => tip[i] = NoCommit /\ head # i

\* The commit of an issue branch is held by a ref of that issue, or is its base,
\* except while the branch is checked out at one of these places.
Loose == {"Down", "Orphans", "OrphanRef", "Unwitnessed", "RedoMerge", "RedoFact",
          "Workspace", "Archive", "Restore", "Engine", "Snapshot", "SetRef"}
Held(i) ==
  {NoCommit, base[i]} \cup archive \cup {attemptRef[<<i, n>>] : n \in 1 .. MaxAttempts}
BranchesAreHeld ==
  \A i \in ActiveIssues : head # i \/ pc \notin Loose => tip[i] \in Held(i)

\* No attempt ref is made before its execution is spawned, nor before what it is to
\* hold is committed; and the branch does not move on from it.
Unreferred == {"Loop", "Engine", "Snapshot", "SetRef", "OrphanRef"}
RefsFollow ==
  /\ \A x \in Execution : exec[x].state = "NONE" => attemptRef[x] = NoCommit
  /\ \A x \in OpenExecutions :
       /\ pc \in Unreferred => attemptRef[x] = NoCommit
       /\ attemptRef[x] # NoCommit /\ head = x[1] => tip[head] = attemptRef[x]

ResidueInv == BranchesWait /\ BranchesAreHeld /\ RefsFollow

-----------------------------------------------------------------------------
(* Progress.                                                               *)

\* A run that can take a step takes one, and a new run is started when the last
\* one is gone; stops are finitely many.
FairSpec == Spec /\ WF_vars(Step)

Settled(i) ==
  \/ issue[i] \in IssueTerminal
  \/ \E d \in DependsOn[i] : issue[d] \in IssueTerminal \ {"DONE"}

\* Every issue reaches a terminal state, or depends on one that failed.
EveryIssueSettles == \A i \in Issues : <>[]Settled(i)

=============================================================================
