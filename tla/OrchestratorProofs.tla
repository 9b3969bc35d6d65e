------------------------- MODULE OrchestratorProofs -------------------------
(***************************************************************************)
(* For every issues file, budget, engine and sequence of stops: type       *)
(* correctness of the run, and the merge gate; then that one thing is in   *)
(* flight at a time, in the queue as a whole, and so every event that the  *)
(* loop and recovery append is one that replay accepts; and that the       *)
(* evidence an event names is kept by a ref.                               *)
(***************************************************************************)
EXTENDS OrchestratorProperties, SequenceTheorems, FiniteSetTheorems, TLAPS

USE DEF NoCommit

-----------------------------------------------------------------------------
(* Choices of the earliest issue.                                          *)

\* A set of naturals has a least member.
LEMMA LeastNatural ==
  ASSUME NEW T \in SUBSET Nat, T # {}
  PROVE  \E m \in T : \A n \in T : m <= n
<1> DEFINE less == OpToRel(<, Nat)
<1>1. PICK m \in T : \A n \in T : <<n, m>> \notin less
  <2>1. IsWellFoundedOn(less, Nat)
    BY NatLessThanWellFounded
  <2> HIDE DEF less
  <2> QED
    BY <2>1, WFMin
<1>2. \A n \in T : ~(n < m)
  BY <1>1 DEF OpToRel
<1> QED
  BY <1>2

\* So does a set whose members have a rank.
LEMMA LeastRanked ==
  ASSUME NEW S, S # {}, NEW rank \in [S -> Nat]
  PROVE  \E i \in S : \A j \in S : rank[i] <= rank[j]
<1> DEFINE Ranks == {rank[i] : i \in S}
<1>1. PICK m \in Ranks : \A n \in Ranks : m <= n
  BY LeastNatural
<1> QED
  BY <1>1

\* An issue has one position in the file.
LEMMA PositionOf ==
  ASSUME NEW i \in Issues
  PROVE  Position(i) \in DOMAIN IssueOrder /\ IssueOrder[Position(i)] = i
         /\ Position(i) \in Nat
<1>1. Position(i) \in DOMAIN IssueOrder /\ IssueOrder[Position(i)] = i
  BY DEF Position, Issues
<1> QED
  BY <1>1, IssuesAssumption, LenProperties

\* First returns the member of the set that comes earliest in the file.
LEMMA FirstIsMember ==
  ASSUME NEW S \in SUBSET Issues, S # {}
  PROVE  First(S) \in S /\ \A j \in S : Position(First(S)) <= Position(j)
<1> DEFINE rank == [i \in S |-> Position(i)]
<1>1. rank \in [S -> Nat]
  BY PositionOf
<1>2. \E i \in S : \A j \in S : rank[i] <= rank[j]
  <2> HIDE DEF rank
  <2> QED
    BY <1>1, LeastRanked
<1>3. \E i \in S : \A j \in S : Position(i) <= Position(j)
  BY <1>2
<1> QED
  BY <1>3 DEF First

\* What an order over S holds is members of S.
LEMMA OrdersAreSequences ==
  ASSUME NEW S \in SUBSET Issues, NEW o \in TopologicalOrders(S)
  PROVE  o \in Seq(Issues)
<1>1. PICK n \in 1 .. Len(IssueOrder) : o \in [1 .. n -> S]
  BY DEF TopologicalOrders
<1>2. n \in Nat
  BY <1>1, IssuesAssumption, LenProperties
<1> QED
  BY <1>1, <1>2

-----------------------------------------------------------------------------
(* The repository operations.                                              *)

\* The history only grows.
Grows ==
  /\ Len(commits') \in Nat /\ Len(commits) <= Len(commits')
  /\ \A c \in Made : commits'[c] = commits[c]

\* Appending a commit keeps the commits there are.
LEMMA AppendGrows ==
  ASSUME commits \in Seq(Commit), NEW c \in Commit, commits' = Append(commits, c)
  PROVE  /\ commits' \in Seq(Commit) /\ Grows
         /\ Len(commits') = NewCommit /\ commits'[NewCommit] = c
BY DEF Grows, Made, NewCommit

\* Leaving the history alone.
LEMMA SameGrows ==
  ASSUME commits \in Seq(Commit), commits' = commits
  PROVE  Grows
BY DEF Grows

\* The branch that is checked out has a commit.
LEMMA CurrentIsMade ==
  ASSUME RepositoryInv
  PROVE  /\ CurrentCommit \in Made /\ tip[Target] \in Made
         /\ commits \in Seq(Commit) /\ Len(commits) \in Nat
         /\ \A c \in Made : commits[c] \in Commit
BY DEF RepositoryInv, RepositoryTypeOK, BranchesHold, CurrentCommit, Made, Branch

\* An operation that makes no commit.
LEMMA RepositoryFrame ==
  ASSUME RepositoryInv, UNCHANGED repository
  PROVE  RepositoryInv' /\ Grows
BY SameGrows DEF repository, RepositoryInv, RepositoryTypeOK, BranchesHold

\* A commit on the branch that is checked out.
LEMMA CommitOnHeadType ==
  ASSUME RepositoryInv, NEW rest \in SUBSET Dirt, CommitOnHead(rest),
         UNCHANGED <<head, attemptRef, archive>>
  PROVE  /\ RepositoryInv' /\ Grows
         /\ commits' = Append(commits, ChildOf(CurrentCommit))
<1>1. ChildOf(CurrentCommit) \in Commit
  BY CurrentIsMade DEF ChildOf, Commit, NewCommit
<1>2. commits' = Append(commits, ChildOf(CurrentCommit))
  BY DEF CommitOnHead
<1>3. commits' \in Seq(Commit) /\ Grows /\ Len(commits') = NewCommit
  BY <1>1, <1>2, CurrentIsMade, AppendGrows
<1>4. Len(commits) \in Nat /\ NewCommit = Len(commits) + 1
  BY CurrentIsMade DEF NewCommit
<1>5. RepositoryTypeOK'
  BY <1>3, <1>4 DEF CommitOnHead, RepositoryInv, RepositoryTypeOK
<1>6. BranchesHold'
  BY <1>4 DEF CommitOnHead, RepositoryInv, RepositoryTypeOK, BranchesHold
<1> QED
  BY <1>2, <1>3, <1>5, <1>6 DEF RepositoryInv

\* A snapshot makes one ordinary commit or none.
LEMMA SnapshotCommitType ==
  ASSUME RepositoryInv, NEW exclude, SnapshotCommit(exclude),
         UNCHANGED <<head, attemptRef, archive>>
  PROVE  /\ RepositoryInv' /\ Grows
         /\ commits' = commits \/ commits' = Append(commits, ChildOf(CurrentCommit))
<1>1. CASE dirt \subseteq exclude
  <2>1. UNCHANGED repository
    BY <1>1 DEF SnapshotCommit, repository
  <2> QED
    BY <2>1, RepositoryFrame DEF repository
<1>2. CASE ~(dirt \subseteq exclude)
  <2>1. dirt \cap exclude \in SUBSET Dirt
    BY DEF RepositoryInv, RepositoryTypeOK
  <2>2. CommitOnHead(dirt \cap exclude)
    BY <1>2 DEF SnapshotCommit
  <2> QED
    BY <2>1, <2>2, CommitOnHeadType
<1> QED
  BY <1>1, <1>2

\* A merge advances the target by one commit.
LEMMA MergeToType ==
  ASSUME RepositoryInv, NEW c \in Made, MergeTo(c),
         UNCHANGED <<head, dirt, attemptRef, archive>>
  PROVE  /\ RepositoryInv' /\ Grows
         /\ commits' = Append(commits, MergeOf(tip[Target], c))
<1>1. MergeOf(tip[Target], c) \in Commit
  BY CurrentIsMade DEF MergeOf, Commit, NewCommit, Made
<1>2. commits' = Append(commits, MergeOf(tip[Target], c))
  BY DEF MergeTo
<1>3. commits' \in Seq(Commit) /\ Grows /\ Len(commits') = NewCommit
  BY <1>1, <1>2, CurrentIsMade, AppendGrows
<1>4. Len(commits) \in Nat /\ NewCommit = Len(commits) + 1
  BY CurrentIsMade DEF NewCommit
<1>5. RepositoryTypeOK'
  <2>1. tip' = [tip EXCEPT ![Target] = NewCommit]
    BY DEF MergeTo
  <2>2. tip' \in [Branch -> 0 .. Len(commits')]
    <3>1. tip \in [Branch -> 0 .. Len(commits)]
      BY DEF RepositoryInv, RepositoryTypeOK
    <3>2. NewCommit \in 0 .. Len(commits')
      BY <1>3, <1>4
    <3>3. 0 .. Len(commits) \subseteq 0 .. Len(commits')
      BY <1>3, <1>4
    <3> QED
      BY <2>1, <3>1, <3>2, <3>3
  <2>3. attemptRef' \in [Execution -> 0 .. Len(commits')]
    BY <1>3, <1>4 DEF RepositoryInv, RepositoryTypeOK
  <2> QED
    BY <1>3, <1>4, <2>2, <2>3 DEF RepositoryInv, RepositoryTypeOK
<1>6. BranchesHold'
  BY <1>4 DEF MergeTo, RepositoryInv, RepositoryTypeOK, BranchesHold
<1> QED
  BY <1>2, <1>3, <1>5, <1>6 DEF RepositoryInv

\* Moving the branch that is checked out to a commit.
LEMMA ResetHardType ==
  ASSUME RepositoryInv, NEW c \in Made, ResetHard(c),
         UNCHANGED <<commits, head, attemptRef, archive>>
  PROVE  RepositoryInv' /\ Grows
<1>1. Grows
  BY SameGrows, CurrentIsMade
<1>2. RepositoryTypeOK'
  BY CurrentIsMade DEF ResetHard, RepositoryInv, RepositoryTypeOK, Made
<1>3. BranchesHold'
  BY CurrentIsMade DEF ResetHard, RepositoryInv, RepositoryTypeOK, BranchesHold, Made
<1> QED
  BY <1>1, <1>2, <1>3 DEF RepositoryInv

\* Checking a branch out at a commit.
LEMMA CheckoutNewType ==
  ASSUME RepositoryInv, NEW i \in Issues, NEW c \in Made, CheckoutNew(i, c),
         UNCHANGED <<commits, dirt, attemptRef, archive>>
  PROVE  RepositoryInv' /\ Grows
<1>1. Grows
  BY SameGrows, CurrentIsMade
<1>2. RepositoryTypeOK'
  BY CurrentIsMade DEF CheckoutNew, RepositoryInv, RepositoryTypeOK, Made, Branch
<1>3. BranchesHold'
  BY CurrentIsMade, TargetAssumption
  DEF CheckoutNew, RepositoryInv, RepositoryTypeOK, BranchesHold, Made, Branch
<1> QED
  BY <1>1, <1>2, <1>3 DEF RepositoryInv

-----------------------------------------------------------------------------
(* The handlers of the projection.                                         *)

\* What a step may do to executions: an intended one keeps its pins, and no
\* execution is forgotten.
Settles ==
  /\ \A x \in Execution : exec[x].intent # NoCommit =>
       /\ exec'[x].state = exec[x].state /\ exec'[x].end = exec[x].end
       /\ exec'[x].validated = exec[x].validated
       /\ exec'[x].reviewed = exec[x].reviewed
       /\ exec'[x].intent = exec[x].intent
  /\ \A i \in Issues : attempts[i] <= attempts'[i]

\* Commits are only added, so pins and bases stay what they are.
LEMMA ProjectionFrame ==
  ASSUME ProjectionInv, UNCHANGED projection, Grows
  PROVE  ProjectionInv' /\ Settles
<1>1. Made \subseteq Made'
  BY DEF Made, Grows
<1>2. ProjectionTypeOK' /\ BasesHold'
  BY <1>1 DEF ProjectionInv, ProjectionTypeOK, BasesHold, projection, HasExecution
<1>3. PinsHold'
  BY <1>1 DEF ProjectionInv, PinsHold, Pinned, projection
<1>4. Settles
  BY DEF Settles, projection, ProjectionInv, ProjectionTypeOK
<1> QED
  BY <1>2, <1>3, <1>4 DEF ProjectionInv

\* A handler that refuses its event.
LEMMA PoisonStep ==
  ASSUME ProjectionInv, Poison, UNCHANGED commits
  PROVE  ProjectionInv' /\ Settles
<1>1. ProjectionTypeOK' /\ BasesHold' /\ PinsHold'
  BY DEF Poison, ProjectionInv, ProjectionTypeOK, BasesHold, PinsHold, Pinned, Made,
     HasExecution
<1>2. Settles
  BY DEF Settles, Poison, ProjectionInv, ProjectionTypeOK
<1> QED
  BY <1>1, <1>2 DEF ProjectionInv

\* The handlers that move an issue.
LEMMA IssueStep ==
  ASSUME ProjectionInv, NEW i \in Issues, UNCHANGED commits,
         \/ IssueCreated(i)
         \/ \E c \in Made : IssueActivated(i, c)
         \/ \E final \in IssueTerminal : IssueClosed(i, final)
  PROVE  ProjectionInv' /\ Settles
<1>1. CASE Poison
  BY <1>1, PoisonStep
<1>2. CASE ~Poison
  <2>1. UNCHANGED <<attempts, exec, poisoned>>
    BY <1>2 DEF IssueCreated, IssueActivated, IssueClosed
  <2>2. PinsHold'
    BY <2>1 DEF ProjectionInv, PinsHold, Pinned, Made
  <2>3. Settles
    BY <2>1 DEF Settles, ProjectionInv, ProjectionTypeOK
  <2>4. ProjectionTypeOK'
    <3>1. ProjectionTypeOK /\ Made \subseteq Nat
      BY DEF ProjectionInv, Made
    <3>2. CASE IssueCreated(i)
      BY <1>2, <2>1, <3>1, <3>2 DEF ProjectionTypeOK, IssueCreated, IssueState
    <3>3. CASE \E c \in Made : IssueActivated(i, c)
      BY <1>2, <2>1, <3>1, <3>3 DEF ProjectionTypeOK, IssueActivated, IssueState
    <3>4. CASE \E final \in IssueTerminal : IssueClosed(i, final)
      BY <1>2, <2>1, <3>1, <3>4
      DEF ProjectionTypeOK, IssueClosed, IssueState, IssueTerminal
    <3> QED
      BY <3>2, <3>3, <3>4
  <2>5. BasesHold'
    BY <1>2, <2>1 DEF ProjectionInv, ProjectionTypeOK, BasesHold, IssueCreated,
       IssueActivated, IssueClosed, IssueState, IssueTerminal, Made, HasExecution
  <2> QED
    BY <2>2, <2>3, <2>4, <2>5 DEF ProjectionInv
<1> QED
  BY <1>1, <1>2

\* One execution gets a new view; no other part of the projection changes.
LEMMA ViewStep ==
  ASSUME ProjectionInv, UNCHANGED commits, NEW x \in Execution, NEW view \in View,
         exec' = [exec EXCEPT ![x] = view], UNCHANGED <<issue, base, attempts, poisoned>>,
         exec[x].state # "NONE", Pinned(view),
         exec[x].intent # NoCommit =>
           /\ view.state = exec[x].state /\ view.end = exec[x].end
           /\ view.validated = exec[x].validated /\ view.reviewed = exec[x].reviewed
           /\ view.intent = exec[x].intent
  PROVE  ProjectionInv' /\ Settles
<1>1. exec \in [Execution -> View]
  BY DEF ProjectionInv, ProjectionTypeOK
<1>2. ProjectionTypeOK' /\ BasesHold'
  BY <1>1 DEF ProjectionInv, ProjectionTypeOK, BasesHold, Made, HasExecution
<1>3. PinsHold'
  BY <1>1 DEF ProjectionInv, PinsHold, Pinned, Made
<1>4. Settles
  BY <1>1 DEF Settles, ProjectionInv, ProjectionTypeOK
<1> QED
  BY <1>2, <1>3, <1>4 DEF ProjectionInv

\* Finishing, crashing, the gate's and the reviewer's verdict: before ACCEPTED
\* there is no intent to keep.
LEMMA TransitionStep ==
  ASSUME ProjectionInv, UNCHANGED commits, NEW x \in Execution,
         NEW from \in {"EXECUTING", "VALIDATING", "REVIEWING"}, NEW view \in View,
         view.intent = exec[x].intent,
         exec[x].state = from => Pinned(view), ExecutionTransition(x, from, view)
  PROVE  ProjectionInv' /\ Settles
<1>1. CASE exec[x].state # from
  BY <1>1, PoisonStep DEF ExecutionTransition
<1>2. CASE exec[x].state = from
  <2>1. exec[x].intent = NoCommit
    BY <1>2 DEF ProjectionInv, PinsHold, Pinned
  <2>2. exec' = [exec EXCEPT ![x] = view] /\ UNCHANGED <<issue, base, attempts, poisoned>>
    BY <1>2 DEF ExecutionTransition
  <2> QED
    BY <1>2, <2>1, <2>2, ViewStep
<1> QED
  BY <1>1, <1>2

\* A new execution has no pins, and its issue is past PENDING.
LEMMA SpawnStep ==
  ASSUME ProjectionInv, UNCHANGED commits, NEW i \in Issues, attempts[i] < MaxAttempts,
         NEW u \in SUBSET Untracked, ExecutionSpawned(i, attempts[i] + 1, u)
  PROVE  ProjectionInv' /\ Settles
<1> DEFINE x == <<i, attempts[i] + 1>>
           view == [NoView EXCEPT !.state = "EXECUTING", !.untracked = u]
<1>1. CASE Poison
  BY <1>1, PoisonStep
<1>2. CASE ~Poison
  <2>1. attempts[i] \in Nat /\ attempts \in [Issues -> 0 .. MaxAttempts]
        /\ exec \in [Execution -> View] /\ MaxAttempts \in Nat
    BY BudgetAssumption DEF ProjectionInv, ProjectionTypeOK
  <2>2. x \in Execution
    BY <2>1 DEF Execution
  <2>3. view \in View /\ Pinned(view)
    BY DEF View, NoView, Pinned, ExecutionState
  <2>4. /\ issue[i] = "ACTIVE" /\ exec[x].state = "NONE"
        /\ exec' = [exec EXCEPT ![x] = view]
        /\ attempts' = [attempts EXCEPT ![i] = attempts[i] + 1]
        /\ UNCHANGED <<issue, base, poisoned>>
    BY <1>2 DEF ExecutionSpawned
  <2>5. ProjectionTypeOK'
    BY <2>1, <2>2, <2>3, <2>4 DEF ProjectionInv, ProjectionTypeOK
  <2>6. BasesHold'
    BY <2>1, <2>4 DEF ProjectionInv, BasesHold, Made, HasExecution
  <2>7. PinsHold'
    <3>1. SUFFICES ASSUME NEW y \in Execution
                   PROVE  /\ exec'[y].state # "NONE" => y[2] <= attempts'[y[1]]
                          /\ Pinned(exec[y])'
      BY DEF PinsHold
    <3>2. CASE y = x
      BY <2>1, <2>2, <2>3, <2>4, <3>2 DEF Pinned, Made
    <3>3. CASE y # x
      <4>1. exec'[y] = exec[y] /\ attempts[y[1]] <= attempts'[y[1]]
        BY <2>1, <2>4, <3>3 DEF Execution
      <4>2. exec[y].state # "NONE" => y[2] <= attempts[y[1]]
        BY DEF ProjectionInv, PinsHold
      <4>3. y[1] \in Issues /\ y[2] \in Nat /\ attempts[y[1]] \in Nat
            /\ attempts'[y[1]] \in Nat
        BY <2>1, <2>4 DEF Execution
      <4>4. Pinned(exec[y])
        BY DEF ProjectionInv, PinsHold
      <4> QED
        BY <4>1, <4>2, <4>3, <4>4 DEF Pinned, Made
    <3> QED
      BY <3>2, <3>3
  <2>8. Settles
    <3>1. exec[x].intent = NoCommit
      BY <2>2, <2>4 DEF ProjectionInv, PinsHold, Pinned
    <3> QED
      BY <2>1, <2>2, <2>4, <3>1 DEF Settles
  <2> QED
    BY <2>5, <2>6, <2>7, <2>8 DEF ProjectionInv
<1> QED
  BY <1>1, <1>2

\* The intent names the end commit.
LEMMA IntentStep ==
  ASSUME ProjectionInv, UNCHANGED commits, NEW x \in Execution,
         CommitIntent(x, exec[x].end)
  PROVE  ProjectionInv' /\ Settles
<1>1. CASE Poison
  BY <1>1, PoisonStep
<1>2. CASE ~Poison
  <2> DEFINE view == [exec[x] EXCEPT !.intent = exec[x].end]
  <2>1. exec[x] \in View
    BY DEF ProjectionInv, ProjectionTypeOK
  <2>2. /\ exec[x].state = "ACCEPTED" /\ exec[x].intent = NoCommit
        /\ exec' = [exec EXCEPT ![x] = view] /\ UNCHANGED <<issue, base, attempts, poisoned>>
    BY <1>2 DEF CommitIntent
  <2>3. view \in View
    BY <2>1 DEF View
  <2>4. Pinned(view)
    BY <2>1, <2>2 DEF ProjectionInv, PinsHold, Pinned, View
  <2> QED
    BY <2>2, <2>3, <2>4, ViewStep
<1> QED
  BY <1>1, <1>2

\* Recording the merge keeps every pin.
LEMMA CreatedStep ==
  ASSUME ProjectionInv, UNCHANGED commits, NEW x \in Execution, CommitCreated(x)
  PROVE  ProjectionInv' /\ Settles
<1>1. CASE Poison
  BY <1>1, PoisonStep
<1>2. CASE ~Poison
  <2> DEFINE view == [exec[x] EXCEPT !.created = TRUE]
  <2>1. exec[x] \in View
    BY DEF ProjectionInv, ProjectionTypeOK
  <2>2. /\ exec[x].state = "ACCEPTED"
        /\ exec' = [exec EXCEPT ![x] = view] /\ UNCHANGED <<issue, base, attempts, poisoned>>
    BY <1>2 DEF CommitCreated
  <2>3. view \in View
    BY <2>1 DEF View
  <2>4. Pinned(view)
    BY <2>1 DEF ProjectionInv, PinsHold, Pinned, View
  <2>5. /\ view.state = exec[x].state /\ view.end = exec[x].end
        /\ view.validated = exec[x].validated /\ view.reviewed = exec[x].reviewed
        /\ view.intent = exec[x].intent
    BY <2>1 DEF View
  <2> QED
    BY <2>2, <2>3, <2>4, <2>5, ViewStep
<1> QED
  BY <1>1, <1>2

-----------------------------------------------------------------------------
(* What the process can rely on.                                           *)

\* The latest execution of an issue that has one.
LEMMA LatestExists ==
  ASSUME ProjectionInv, NEW i \in Issues, HasExecution(i)
  PROVE  /\ LatestId(i) \in Execution /\ Latest(i) = exec[LatestId(i)]
         /\ Latest(i) \in View /\ Pinned(Latest(i)) /\ base[i] \in Made
<1>1. attempts[i] \in 1 .. MaxAttempts
  BY BudgetAssumption DEF ProjectionInv, ProjectionTypeOK, HasExecution
<1>2. LatestId(i) \in Execution
  BY <1>1 DEF LatestId, Execution
<1> QED
  BY <1>2 DEF ProjectionInv, ProjectionTypeOK, PinsHold, BasesHold, Latest

\* The execution whose step is running.
LEMMA SteppedExists ==
  ASSUME IInv, pc \in MidStep
  PROVE  /\ cur \in Issues /\ HasExecution(cur) /\ X \in Execution /\ Ex = exec[X]
         /\ exec[X] \in View /\ Pinned(exec[X]) /\ base[cur] \in Made
BY LatestExists DEF IInv, ProcessInv, ControlHolds, X, Ex, Latest

\* The execution recovery declares crashed.
LEMMA OrphanExists ==
  ASSUME ProjectionInv, OpenExecutions # {}
  PROVE  Orphan \in Execution /\ exec[Orphan].state = "EXECUTING"
BY DEF Orphan, OpenExecutions

\* The execution whose merge recovery settles.
LEMMA IntendedExists ==
  ASSUME ProjectionInv, Unwitnessed # {}
  PROVE  /\ Intended \in Execution /\ Intended[1] \in Issues
         /\ exec[Intended].intent # NoCommit /\ exec[Intended].intent \in Made
         /\ base[Intended[1]] \in Made
<1>1. Intended \in Unwitnessed
  BY DEF Intended
<1>2. Intended \in Execution /\ exec[Intended].intent # NoCommit
  BY <1>1 DEF Unwitnessed
<1>3. Pinned(exec[Intended]) /\ Intended[2] <= attempts[Intended[1]]
  BY <1>2 DEF ProjectionInv, PinsHold, Pinned
<1>4. Intended[1] \in Issues /\ Intended[2] \in 1 .. MaxAttempts
  BY <1>2 DEF Execution
<1>5. HasExecution(Intended[1])
  BY <1>3, <1>4, BudgetAssumption DEF HasExecution, ProjectionInv, ProjectionTypeOK
<1> QED
  BY <1>2, <1>3, <1>4, <1>5 DEF Pinned, ProjectionInv, BasesHold

\* Check 3 resets to a commit that exists.
LEMMA ExpectedExists ==
  ASSUME IInv
  PROVE  ExpectedCommit \in Made
<1>1. CASE ActiveIssues = {}
  BY <1>1, CurrentIsMade DEF ExpectedCommit, IInv
<1>2. CASE ActiveIssues # {}
  <2>1. ActiveIssue \in Issues /\ issue[ActiveIssue] = "ACTIVE"
    BY <1>2, FirstIsMember DEF ActiveIssue, ActiveIssues
  <2>2. base[ActiveIssue] \in Made
    BY <2>1 DEF IInv, ProjectionInv, BasesHold
  <2>3. HasExecution(ActiveIssue) => Pinned(Latest(ActiveIssue))
    BY <2>1, LatestExists DEF IInv
  <2> QED
    BY <1>2, <2>2, <2>3 DEF ExpectedCommit, Pinned
<1> QED
  BY <1>1, <1>2

-----------------------------------------------------------------------------
(* Control.                                                                *)

Resuming == {"OrphanRef", "OrphanFact", "RedoMerge", "RedoFact"}

\* Moving to a place that relies on nothing.
LEMMA MovePlain ==
  ASSUME ProcessInv, NEW label \in Label \ (MidStep \cup Resuming), pc' = label,
         cur' \in Issues \cup {NoIssue}, plan' \in Seq(Issues),
         spawned' \in 0 .. MaxExecutionsPerRun, stops' \in 0 .. MaxStops
  PROVE  ProcessInv'
BY DEF ProcessInv, ProcessTypeOK, ControlHolds, Resuming

LEMMA GotoPlain ==
  ASSUME ProcessInv, NEW label \in Label \ (MidStep \cup Resuming), Goto(label)
  PROVE  ProcessInv'
BY MovePlain DEF Goto, ProcessInv, ProcessTypeOK

\* The process is gone.
LEMMA ExitPlain ==
  ASSUME ProcessInv, Exit, stops' \in 0 .. MaxStops
  PROVE  ProcessInv'
BY RunAssumption
DEF Exit, ProcessInv, ProcessTypeOK, ControlHolds, Label, MidStep, Looping, NoIssue

\* A step goes on with the issue it has.
LEMMA GotoMid ==
  ASSUME ProcessInv, ProjectionInv, ProjectionInv', Settles, pc \in MidStep,
         NEW label \in MidStep, Goto(label)
  PROVE  ProcessInv'
<1>1. cur \in Issues /\ attempts[cur] > 0
  BY DEF ProcessInv, ControlHolds, HasExecution
<1>2. attempts[cur] \in Nat /\ attempts'[cur] \in Nat /\ attempts[cur] <= attempts'[cur]
  BY <1>1 DEF ProjectionInv, ProjectionTypeOK, Settles
<1>3. pc' = label /\ UNCHANGED <<cur, plan, spawned, stops>>
  BY DEF Goto
<1>4. ControlHolds'
  BY <1>1, <1>2, <1>3 DEF ControlHolds, HasExecution, MidStep, Looping
<1> QED
  BY <1>3, <1>4 DEF ProcessInv, ProcessTypeOK, Label, MidStep

\* A step starts on an issue that has an execution.
LEMMA ContinueMid ==
  ASSUME ProcessInv, ProjectionInv, ProjectionInv', Settles,
         NEW i \in Issues, HasExecution(i), NEW label \in MidStep, Continue(i, label)
  PROVE  ProcessInv'
<1>1. attempts[i] > 0 /\ attempts[i] \in Nat /\ attempts'[i] \in Nat
      /\ attempts[i] <= attempts'[i]
  BY DEF ProjectionInv, ProjectionTypeOK, Settles, HasExecution
<1>2. pc' = label /\ cur' = i /\ UNCHANGED <<plan, spawned, stops>>
  BY DEF Continue
<1>3. ControlHolds'
  BY <1>1, <1>2 DEF ControlHolds, HasExecution, MidStep, Looping
<1> QED
  BY <1>2, <1>3 DEF ProcessInv, ProcessTypeOK, Label, MidStep

\* A step is over.
LEMMA DonePlain ==
  ASSUME ProcessInv, Done
  PROVE  ProcessInv'
BY DEF Done, ProcessInv, ProcessTypeOK, ControlHolds, Label, MidStep, Looping

\* The run is left for its finally clause.
LEMMA LeavePlain ==
  ASSUME ProcessInv, Leave
  PROVE  ProcessInv'
BY DEF Leave, Goto, ProcessInv, ProcessTypeOK, ControlHolds, Label, MidStep, Looping

\* An exception before the loop.
LEMMA DiePlain ==
  ASSUME ProcessInv, Die
  PROVE  ProcessInv'
BY ExitPlain DEF Die, ProcessInv, ProcessTypeOK

\* Recovery goes on with the execution it found.
LEMMA GotoResuming ==
  ASSUME ProcessInv, NEW label \in Resuming, Goto(label), UNCHANGED projection,
         label \in {"OrphanRef", "OrphanFact"} => OpenExecutions # {},
         label \in {"RedoMerge", "RedoFact"} => Unwitnessed # {}
  PROVE  ProcessInv'
<1>1. ControlHolds'
  BY DEF Goto, ControlHolds, Resuming, MidStep, Looping, OpenExecutions, Unwitnessed,
     projection
<1> QED
  BY <1>1 DEF Goto, ProcessInv, ProcessTypeOK, Label, Resuming, Reconciling

-----------------------------------------------------------------------------
(* The merge gate.                                                         *)

\* A step makes at most one commit, and its second parent, if it is a merge, is
\* what some execution intends.
Extends ==
  \/ UNCHANGED commits
  \/ \E c \in Commit :
       /\ commits' = Append(commits, c)
       /\ \/ c.second = NoCommit
          \/ \E x \in Execution : exec[x].intent # NoCommit /\ c.second = exec[x].intent

\* An intended execution is an approved one.
LEMMA IntentIsApproved ==
  ASSUME ProjectionInv, NEW x \in Execution, exec[x].intent # NoCommit
  PROVE  Approved(x, exec[x].intent)
BY DEF ProjectionInv, PinsHold, Pinned, Approved

\* So every merge stays approved.
LEMMA GateKept ==
  ASSUME IInv, ProjectionInv', Settles, Extends
  PROVE  MergesAreApproved'
<1>1. SUFFICES ASSUME NEW m \in Merges'
               PROVE  \E x \in Execution :
                        (Approved(x, commits[m].second) /\ exec[x].intent = commits[m].second)'
  BY DEF MergesAreApproved
<1>2. commits \in Seq(Commit)
  BY CurrentIsMade DEF IInv
<1>3. \E x \in Execution :
        exec[x].intent # NoCommit /\ exec[x].intent = commits'[m].second
  <2>1. CASE m \in DOMAIN commits /\ commits'[m] = commits[m]
    <3>1. m \in Merges
      BY <1>1, <2>1 DEF Merges
    <3> QED
      BY <2>1, <3>1 DEF IInv, MergesAreApproved, Merges
  <2>2. CASE ~(m \in DOMAIN commits /\ commits'[m] = commits[m])
    <3>1. PICK c \in Commit :
            /\ commits' = Append(commits, c)
            /\ \/ c.second = NoCommit
               \/ \E x \in Execution :
                    exec[x].intent # NoCommit /\ c.second = exec[x].intent
      BY <1>1, <2>2 DEF Extends, Merges
    <3>2. commits'[m] = c
      BY <1>1, <1>2, <2>2, <3>1 DEF Merges
    <3> QED
      BY <1>1, <3>1, <3>2 DEF Merges
  <2> QED
    BY <2>1, <2>2
<1>4. PICK x \in Execution :
        exec[x].intent # NoCommit /\ exec[x].intent = commits'[m].second
  BY <1>3
<1>5. Approved(x, exec[x].intent)
  BY <1>4, IntentIsApproved DEF IInv
<1> QED
  BY <1>4, <1>5 DEF Settles, Approved

\* A step of the repository alone, of the log alone, and of the process alone.
LEMMA RepositoryAlone ==
  ASSUME IInv, UNCHANGED projection, RepositoryInv', Grows, Extends, ProcessInv'
  PROVE  IInv'
BY ProjectionFrame, GateKept DEF IInv

LEMMA LogAlone ==
  ASSUME IInv, UNCHANGED repository, ProjectionInv', Settles, ProcessInv'
  PROVE  IInv'
<1>1. Extends
  BY DEF Extends, repository
<1> QED
  BY <1>1, RepositoryFrame, GateKept DEF IInv

LEMMA ProcessAlone ==
  ASSUME IInv, UNCHANGED <<projection, repository>>, ProcessInv'
  PROVE  IInv'
<1>1. Extends /\ Grows
  BY RepositoryFrame DEF Extends, repository, IInv
<1> QED
  BY <1>1, RepositoryFrame, RepositoryAlone DEF IInv

\* A snapshot and a merge extend the history as Extends says.
LEMMA SnapshotExtends ==
  ASSUME RepositoryInv, commits' = commits \/ commits' = Append(commits, ChildOf(CurrentCommit))
  PROVE  Extends
<1>1. ChildOf(CurrentCommit) \in Commit /\ ChildOf(CurrentCommit).second = NoCommit
  BY CurrentIsMade DEF ChildOf, Commit, NewCommit
<1> QED
  BY <1>1 DEF Extends

LEMMA MergeExtends ==
  ASSUME RepositoryInv, NEW x \in Execution, exec[x].intent # NoCommit,
         exec[x].intent \in Made,
         commits' = Append(commits, MergeOf(tip[Target], exec[x].intent))
  PROVE  Extends
<1> DEFINE merge == MergeOf(tip[Target], exec[x].intent)
<1>a. /\ commits[tip[Target]] \in Commit /\ commits[exec[x].intent] \in Commit
      /\ exec[x].intent \in Nat /\ NewCommit \in Nat
  BY CurrentIsMade DEF NewCommit, Made
<1>1. merge \in Commit /\ merge.second = exec[x].intent
  BY <1>a DEF MergeOf, Commit
<1> QED
  BY <1>1 DEF Extends

-----------------------------------------------------------------------------
(* Every step preserves the invariant.                                     *)

LEMMA RecoveryPreserves ==
  ASSUME IInv, RecoveryStep
  PROVE  IInv'
<1> USE DEF IInv
<1> DEFINE Plain == Label \ (MidStep \cup Resuming)
<1>0. {"Orphans", "Unwitnessed", "Workspace", "Archive", "Restore", "Select"} \subseteq Plain
  BY DEF Label, MidStep, Resuming, Reconciling, Starting, Looping
<1> HIDE DEF Plain
<1>1. CASE Start
  <2>1. Goto("Orphans") /\ UNCHANGED <<projection, repository>>
    BY <1>1 DEF Start
  <2> QED
    BY <1>0, <2>1, GotoPlain, ProcessAlone DEF Plain
<1>2. CASE PreserveResidue
  <2>1. /\ OpenExecutions # {} /\ UNCHANGED <<projection, head, attemptRef, archive>>
        /\ \/ UNCHANGED <<commits, tip, dirt>> /\ Goto("OrphanFact")
           \/ SnapshotCommit(exec[Orphan].untracked) /\ Goto("OrphanRef")
    BY <1>2 DEF PreserveResidue
  <2>2. ProcessInv'
    BY <2>1, GotoResuming DEF Resuming
  <2>3. CASE UNCHANGED <<commits, tip, dirt>>
    BY <2>1, <2>2, <2>3, ProcessAlone DEF repository
  <2>4. CASE SnapshotCommit(exec[Orphan].untracked)
    BY <2>1, <2>2, <2>4, SnapshotCommitType, SnapshotExtends, RepositoryAlone
  <2> QED
    BY <2>1, <2>3, <2>4
<1>3. CASE ReferResidue
  <2>1. /\ pc = "OrphanRef" /\ Goto("OrphanFact")
        /\ UNCHANGED <<projection, commits, tip, head, dirt, archive>>
        /\ UNCHANGED attemptRef \/ SetAttemptRef(Orphan, CurrentCommit)
    BY <1>3 DEF ReferResidue, At
  <2>2. OpenExecutions # {}
    BY <2>1 DEF ProcessInv, ControlHolds
  <2>3. ProcessInv'
    BY <2>1, <2>2, GotoResuming DEF Resuming
  <2>4. RepositoryInv'
    BY <2>1, CurrentIsMade
    DEF SetAttemptRef, RepositoryInv, RepositoryTypeOK, BranchesHold, Made
  <2>5. Grows /\ Extends
    BY <2>1, CurrentIsMade, SameGrows DEF Extends
  <2> QED
    BY <2>1, <2>3, <2>4, <2>5, RepositoryAlone
<1>4. CASE CrashOrphan
  <2>1. /\ pc = "OrphanFact" /\ Goto("Orphans") /\ UNCHANGED repository
        /\ ExecutionCrashed(Orphan)
    BY <1>4 DEF CrashOrphan, At
  <2>2. OpenExecutions # {}
    BY <2>1 DEF ProcessInv, ControlHolds
  <2> DEFINE view == [exec[Orphan] EXCEPT !.state = "CRASHED"]
  <2>3. Orphan \in Execution /\ exec[Orphan].state = "EXECUTING" /\ exec[Orphan] \in View
    BY <2>2, OrphanExists DEF ProjectionInv, ProjectionTypeOK
  <2>4. exec[Orphan].intent = NoCommit
    BY <2>3 DEF ProjectionInv, PinsHold, Pinned
  <2>5. view \in View /\ Pinned(view) /\ view.intent = exec[Orphan].intent
    BY <2>3, <2>4 DEF View, ExecutionState, Pinned
  <2>6. ExecutionTransition(Orphan, "EXECUTING", view)
    BY <2>1 DEF ExecutionCrashed
  <2>7. ProjectionInv' /\ Settles
    BY <2>1, <2>3, <2>5, <2>6, TransitionStep DEF repository
  <2> QED
    BY <1>0, <2>1, <2>7, GotoPlain, LogAlone DEF Plain
<1>5. CASE NoOrphans
  <2>1. Goto("Unwitnessed") /\ UNCHANGED <<projection, repository>>
    BY <1>5 DEF NoOrphans
  <2> QED
    BY <1>0, <2>1, GotoPlain, ProcessAlone DEF Plain
<1>6. CASE CheckUnwitnessed
  <2>1. UNCHANGED projection
    BY <1>6 DEF CheckUnwitnessed
  <2>2. CASE UNCHANGED repository
    <3>1. \/ Goto("Workspace") \/ Die
          \/ /\ Unwitnessed # {}
             /\ Goto("RedoFact") \/ Goto("RedoMerge")
      BY <1>6, <2>2 DEF CheckUnwitnessed
    <3>2. ProcessInv'
      BY <1>0, <2>1, <3>1, GotoPlain, DiePlain, GotoResuming DEF Plain, Resuming
    <3> QED
      BY <2>1, <2>2, <3>2, ProcessAlone
  <2>3. CASE /\ Unwitnessed # {} /\ Goto("RedoMerge")
             /\ CheckoutNew(Intended[1], base[Intended[1]])
             /\ UNCHANGED <<commits, dirt, attemptRef, archive>>
    <3>1. ProcessInv'
      BY <2>1, <2>3, GotoResuming DEF Resuming
    <3>2. RepositoryInv' /\ Grows
      BY <2>3, IntendedExists, CheckoutNewType
    <3> QED
      BY <2>1, <2>3, <3>1, <3>2, RepositoryAlone DEF Extends
  <2> QED
    BY <1>6, <2>2, <2>3 DEF CheckUnwitnessed
<1>7. CASE RedoMerge
  <2>1. Unwitnessed # {} /\ UNCHANGED projection
    BY <1>7 DEF RedoMerge, At, ProcessInv, ControlHolds
  <2>2. CASE Die /\ UNCHANGED repository
    BY <2>1, <2>2, DiePlain, ProcessAlone
  <2>3. CASE /\ MergeTo(exec[Intended].intent) /\ Goto("RedoFact")
             /\ UNCHANGED <<head, dirt, attemptRef, archive>>
    <3>1. ProcessInv'
      BY <2>1, <2>3, GotoResuming DEF Resuming
    <3>2. /\ RepositoryInv' /\ Grows
          /\ commits' = Append(commits, MergeOf(tip[Target], exec[Intended].intent))
      BY <2>1, <2>3, IntendedExists, MergeToType
    <3>3. Extends
      BY <2>1, <3>2, IntendedExists, MergeExtends
    <3> QED
      BY <2>1, <3>1, <3>2, <3>3, RepositoryAlone
  <2> QED
    BY <1>7, <2>2, <2>3 DEF RedoMerge
<1>8. CASE RedoFact
  <2>1. /\ Unwitnessed # {} /\ Goto("Unwitnessed") /\ UNCHANGED repository
        /\ CommitCreated(Intended)
    BY <1>8 DEF RedoFact, At, ProcessInv, ControlHolds
  <2>2. ProjectionInv' /\ Settles
    BY <2>1, IntendedExists, CreatedStep DEF repository
  <2> QED
    BY <1>0, <2>1, <2>2, GotoPlain, LogAlone DEF Plain
<1>9. CASE CheckWorkspace
  <2>1. /\ UNCHANGED <<projection, head, attemptRef, archive>>
        /\ Goto("Select") \/ Goto("Restore") \/ Goto("Archive")
        /\ UNCHANGED <<commits, tip, dirt>> \/ SnapshotCommit(Preserved)
    BY <1>9 DEF CheckWorkspace
  <2>2. ProcessInv'
    BY <1>0, <2>1, GotoPlain DEF Plain
  <2>3. CASE UNCHANGED <<commits, tip, dirt>>
    BY <2>1, <2>2, <2>3, ProcessAlone DEF repository
  <2>4. CASE SnapshotCommit(Preserved)
    BY <2>1, <2>2, <2>4, SnapshotCommitType, SnapshotExtends, RepositoryAlone
  <2> QED
    BY <2>1, <2>3, <2>4
<1>10. CASE ArchiveResidue
  <2>1. /\ Goto("Restore") /\ archive' \in {archive, archive \cup {CurrentCommit}}
        /\ UNCHANGED <<projection, commits, tip, head, dirt, attemptRef>>
    BY <1>10 DEF ArchiveResidue
  <2>2. RepositoryInv'
    BY <2>1, CurrentIsMade DEF RepositoryInv, RepositoryTypeOK, BranchesHold, Made
  <2>3. Grows /\ Extends
    BY <2>1, CurrentIsMade, SameGrows DEF Extends
  <2> QED
    BY <1>0, <2>1, <2>2, <2>3, GotoPlain, RepositoryAlone DEF Plain
<1>11. CASE RestoreWorkspace
  <2>1. /\ Goto("Select") /\ ResetHard(ExpectedCommit)
        /\ UNCHANGED <<projection, commits, head, attemptRef, archive>>
    BY <1>11 DEF RestoreWorkspace
  <2>2. RepositoryInv' /\ Grows
    BY <2>1, ExpectedExists, ResetHardType
  <2> QED
    BY <1>0, <2>1, <2>2, GotoPlain, RepositoryAlone DEF Plain, Extends
<1> QED
  BY <1>1, <1>2, <1>3, <1>4, <1>5, <1>6, <1>7, <1>8, <1>9, <1>10, <1>11 DEF RecoveryStep

LEMMA StartupPreserves ==
  ASSUME IInv, StartupStep
  PROVE  IInv'
<1> USE DEF IInv
<1>0. {"Checkout", "Ingest", "Loop"} \subseteq Label \ (MidStep \cup Resuming)
  BY DEF Label, MidStep, Resuming, Reconciling, Starting, Looping
<1>1. ASSUME NEW req \in Requests, Select(req)
      PROVE  IInv'
  <2>1. UNCHANGED <<projection, repository>>
    BY <1>1 DEF Select
  <2>2. CASE Die
    BY <2>1, <2>2, DiePlain, ProcessAlone
  <2>3. CASE ~Die
    <3>1. pc' = "Checkout" /\ UNCHANGED <<cur, spawned, stops>>
      BY <1>1, <2>3 DEF Select
    <3>2. CASE plan' = <<>>
      <4>1. plan' \in Seq(Issues)
        BY <3>2
      <4> QED
        BY <1>0, <2>1, <3>1, <4>1, MovePlain, ProcessAlone DEF ProcessInv, ProcessTypeOK
    <3>3. CASE plan' # <<>>
      <4>1. plan' \in TopologicalOrders(Batch(req)) /\ Plannable(Batch(req))
        BY <1>1, <2>3, <3>3 DEF Select
      <4>2. Batch(req) \in SUBSET Issues
        BY <4>1 DEF Plannable, NonTerminal
      <4>3. plan' \in Seq(Issues)
        BY <4>1, <4>2, OrdersAreSequences
      <4> QED
        BY <1>0, <2>1, <3>1, <4>3, MovePlain, ProcessAlone DEF ProcessInv, ProcessTypeOK
    <3> QED
      BY <3>2, <3>3
  <2> QED
    BY <2>2, <2>3
<1>2. CASE CheckoutTarget
  <2>1. UNCHANGED <<projection, commits, tip, dirt, attemptRef, archive>>
    BY <1>2 DEF CheckoutTarget
  <2>2. CASE Checkout(Target) /\ Goto("Ingest")
    <3>1. RepositoryInv'
      BY <2>1, <2>2 DEF Checkout, RepositoryInv, RepositoryTypeOK, BranchesHold, Branch
    <3>2. Grows /\ Extends
      BY <2>1, CurrentIsMade, SameGrows DEF Extends
    <3> QED
      BY <1>0, <2>1, <2>2, <3>1, <3>2, GotoPlain, RepositoryAlone
  <2>3. CASE Die /\ UNCHANGED head
    BY <2>1, <2>3, DiePlain, ProcessAlone DEF repository
  <2> QED
    BY <1>2, <2>2, <2>3 DEF CheckoutTarget
<1>3. CASE Ingest
  <2> DEFINE new == {i \in Issues : issue[i] = "ABSENT"}
  <2>1. UNCHANGED repository
    BY <1>3 DEF Ingest
  <2>2. CASE new # {} /\ IssueCreated(First(new)) /\ Goto("Ingest")
    <3>1. First(new) \in Issues
      BY <2>2, FirstIsMember
    <3>2. ProjectionInv' /\ Settles
      BY <2>1, <2>2, <3>1, IssueStep DEF repository
    <3> QED
      BY <1>0, <2>1, <2>2, <3>2, GotoPlain, LogAlone
  <2>3. CASE Goto("Loop") /\ UNCHANGED projection
    BY <1>0, <2>1, <2>3, GotoPlain, ProcessAlone
  <2> QED
    BY <1>3, <2>2, <2>3 DEF Ingest
<1>4. CASE Shutdown
  <2>1. /\ Exit /\ UNCHANGED <<stops, projection, commits, tip, dirt, attemptRef, archive>>
        /\ head' \in {head, Target}
    BY <1>4 DEF Shutdown, Checkout
  <2>2. RepositoryInv'
    BY <2>1 DEF RepositoryInv, RepositoryTypeOK, BranchesHold, Branch
  <2>3. Grows /\ Extends
    BY <2>1, CurrentIsMade, SameGrows DEF Extends
  <2>4. ProcessInv'
    BY <2>1, ExitPlain DEF ProcessInv, ProcessTypeOK
  <2> QED
    BY <2>1, <2>2, <2>3, <2>4, RepositoryAlone
<1> QED
  BY <1>1, <1>2, <1>3, <1>4 DEF StartupStep

\* The issue a step of the table is about, and its latest execution.
LEMMA InStateExists ==
  ASSUME IInv, NEW i \in Issues, NEW state, InState(i, state)
  PROVE  /\ HasExecution(i) /\ issue[i] = "ACTIVE" /\ exec[LatestId(i)].state = state
         /\ LatestId(i) \in Execution /\ Latest(i) = exec[LatestId(i)]
         /\ exec[LatestId(i)] \in View /\ Pinned(exec[LatestId(i)]) /\ base[i] \in Made
BY LatestExists DEF InState, IInv

\* The rows that choose an issue or an execution.
LEMMA ChoicePreserves ==
  ASSUME IInv, Drained \/ Activate \/ Escalate \/ Spawn \/ BudgetStop
  PROVE  IInv'
<1> USE DEF IInv
<1>1. CASE Drained \/ BudgetStop
  BY <1>1, LeavePlain, ProcessAlone DEF Drained, BudgetStop
<1>2. CASE Activate
  <2>1. PICK i \in Issues : IssueActivated(i, tip[Target]) /\ Done /\ UNCHANGED repository
    BY <1>2 DEF Activate
  <2>2. ProjectionInv' /\ Settles
    BY <2>1, CurrentIsMade, IssueStep DEF repository
  <2> QED
    BY <2>1, <2>2, DonePlain, LogAlone
<1>3. CASE Escalate
  <2>1. PICK i \in Issues : IssueClosed(i, "NEEDS_HUMAN") /\ Done /\ UNCHANGED repository
    BY <1>3 DEF Escalate
  <2>2. ProjectionInv' /\ Settles
    BY <2>1, IssueStep DEF repository, IssueTerminal
  <2> QED
    BY <2>1, <2>2, DonePlain, LogAlone
<1>4. CASE Spawn
  <2>1. PICK i \in Issues :
          /\ ~CapHit(i) /\ spawned < MaxExecutionsPerRun
          /\ ExecutionSpawned(i, attempts[i] + 1, dirt \ {"tracked"})
          /\ spawned' = spawned + 1 /\ pc' = "Loop" /\ UNCHANGED <<cur, plan, stops>>
          /\ UNCHANGED repository
    BY <1>4 DEF Spawn
  <2>2. attempts[i] < MaxAttempts
    BY <2>1, BudgetAssumption DEF CapHit, ProjectionInv, ProjectionTypeOK
  <2>3. dirt \ {"tracked"} \in SUBSET Untracked
    BY DEF RepositoryInv, RepositoryTypeOK, Dirt
  <2>4. ProjectionInv' /\ Settles
    BY <2>1, <2>2, <2>3, SpawnStep DEF repository
  <2>5. spawned' \in 0 .. MaxExecutionsPerRun
    BY <2>1, RunAssumption DEF ProcessInv, ProcessTypeOK
  <2>6. "Loop" \in Label \ (MidStep \cup Resuming)
    BY DEF Label, MidStep, Resuming, Looping
  <2>7. ProcessInv'
    BY <2>1, <2>5, <2>6, MovePlain DEF ProcessInv, ProcessTypeOK
  <2> QED
    BY <2>1, <2>4, <2>7, LogAlone
<1> QED
  BY <1>1, <1>2, <1>3, <1>4

\* The EXECUTING row, up to the fact that ends it.
LEMMA ExecutingPreserves ==
  ASSUME IInv,
         \/ CheckoutIssue \/ EngineWrites \/ EngineExits \/ SnapshotWork \/ ReferWork
         \/ FinishNormal \/ FinishRejected \/ Decompose
  PROVE  IInv'
<1> USE DEF IInv
<1>0. {"Engine", "Snapshot", "SetRef", "Finish", "Decompose", "Reset"} \subseteq MidStep
  BY DEF MidStep, Looping
<1>1. CASE CheckoutIssue
  <2>1. PICK i \in Issues :
          /\ InState(i, "EXECUTING")
          /\ \/ CheckoutNew(i, base[i]) /\ Continue(i, "Engine")
             \/ dirt # {} /\ Leave /\ UNCHANGED <<head, tip>>
          /\ UNCHANGED <<projection, commits, dirt, attemptRef, archive>>
    BY <1>1 DEF CheckoutIssue
  <2>2. HasExecution(i) /\ base[i] \in Made
    BY <2>1, InStateExists
  <2>3. CASE CheckoutNew(i, base[i]) /\ Continue(i, "Engine")
    <3>1. RepositoryInv' /\ Grows
      BY <2>1, <2>2, <2>3, CheckoutNewType
    <3>2. ProjectionInv' /\ Settles
      BY <2>1, <3>1, ProjectionFrame
    <3>3. ProcessInv'
      BY <1>0, <2>2, <2>3, <3>2, ContinueMid
    <3> QED
      BY <2>1, <3>1, <3>3, RepositoryAlone DEF Extends
  <2>4. CASE Leave /\ UNCHANGED <<head, tip>>
    BY <2>1, <2>4, LeavePlain, ProcessAlone DEF repository
  <2> QED
    BY <2>1, <2>3, <2>4
<1>2. CASE EngineWrites
  <2>1. /\ UNCHANGED <<projection, process, head, attemptRef, archive>>
        /\ \/ \E d \in EngineDirt : dirt' = d /\ UNCHANGED <<commits, tip>>
           \/ CommitOnHead({})
    BY <1>2 DEF EngineWrites
  <2>2. ProcessInv'
    BY <2>1 DEF ProcessInv, ProcessTypeOK, ControlHolds, process, projection,
       OpenExecutions, Unwitnessed, HasExecution
  <2>3. CASE CommitOnHead({})
    <3>1. /\ RepositoryInv' /\ Grows
          /\ commits' = Append(commits, ChildOf(CurrentCommit))
      BY <2>1, <2>3, CommitOnHeadType
    <3> QED
      BY <2>1, <2>2, <3>1, SnapshotExtends, RepositoryAlone
  <2>4. CASE \E d \in EngineDirt : dirt' = d /\ UNCHANGED <<commits, tip>>
    <3>1. RepositoryInv'
      BY <2>1, <2>4, RunAssumption DEF RepositoryInv, RepositoryTypeOK, BranchesHold
    <3>2. Grows /\ Extends
      BY <2>4, CurrentIsMade, SameGrows DEF Extends
    <3> QED
      BY <2>1, <2>2, <3>1, <3>2, RepositoryAlone
  <2> QED
    BY <2>1, <2>3, <2>4
<1>3. CASE EngineExits
  <2>1. pc = "Engine" /\ Goto("Snapshot") /\ UNCHANGED <<projection, repository>>
    BY <1>3 DEF EngineExits, At
  <2>2. ProjectionInv' /\ Settles
    BY <2>1, RepositoryFrame, ProjectionFrame
  <2> QED
    BY <1>0, <2>1, <2>2, GotoMid, ProcessAlone
<1>4. CASE SnapshotWork
  <2>1. /\ pc = "Snapshot" /\ Goto("SetRef") /\ SnapshotCommit({})
        /\ UNCHANGED <<projection, head, attemptRef, archive>>
    BY <1>4 DEF SnapshotWork, At
  <2>2. RepositoryInv' /\ Grows /\ Extends
    BY <2>1, SnapshotCommitType, SnapshotExtends
  <2>3. ProjectionInv' /\ Settles
    BY <2>1, <2>2, ProjectionFrame
  <2> QED
    BY <1>0, <2>1, <2>2, <2>3, GotoMid, RepositoryAlone
<1>5. CASE ReferWork
  <2>1. /\ pc = "SetRef" /\ UNCHANGED <<projection, commits, tip, head, dirt, archive>>
        /\ \/ SetAttemptRef(X, CurrentCommit) /\ Goto("Finish")
           \/ Leave /\ UNCHANGED attemptRef
    BY <1>5 DEF ReferWork, At
  <2>2. RepositoryInv'
    BY <2>1, CurrentIsMade
    DEF SetAttemptRef, RepositoryInv, RepositoryTypeOK, BranchesHold, Made
  <2>3. Grows /\ Extends
    BY <2>1, CurrentIsMade, SameGrows DEF Extends
  <2>4. ProjectionInv' /\ Settles
    BY <2>1, <2>3, ProjectionFrame
  <2>5. ProcessInv'
    BY <1>0, <2>1, <2>4, GotoMid, LeavePlain
  <2> QED
    BY <2>1, <2>2, <2>3, <2>5, RepositoryAlone
<1>6. CASE FinishNormal
  <2>1. pc \in MidStep /\ ExecutionFinished(X, CurrentCommit) /\ Done /\ UNCHANGED repository
    BY <1>0, <1>6 DEF FinishNormal, At
  <2> DEFINE view == [exec[X] EXCEPT !.state = "VALIDATING", !.end = CurrentCommit]
  <2>2. X \in Execution /\ exec[X] \in View /\ Pinned(exec[X])
    BY <2>1, SteppedExists
  <2>3. CurrentCommit \in Made /\ CurrentCommit \in Nat
    BY CurrentIsMade DEF Made
  <2>4. view \in View /\ view.intent = exec[X].intent
    BY <2>2, <2>3 DEF View, ExecutionState
  <2>5. exec[X].state = "EXECUTING" => Pinned(view)
    BY <2>2, <2>3 DEF View, Pinned
  <2>6. ProjectionInv' /\ Settles
    BY <2>1, <2>2, <2>4, <2>5, TransitionStep DEF ExecutionFinished, repository
  <2> QED
    BY <2>1, <2>6, DonePlain, LogAlone
<1>7. CASE FinishRejected
  <2>1. /\ pc \in MidStep /\ ExecutionFinishedRejected(X, CurrentCommit)
        /\ Goto("Reset") \/ Goto("Decompose")
        /\ UNCHANGED repository
    BY <1>0, <1>7 DEF FinishRejected, At
  <2> DEFINE view == [exec[X] EXCEPT !.state = "REJECTED", !.end = CurrentCommit]
  <2>2. X \in Execution /\ exec[X] \in View /\ Pinned(exec[X])
    BY <2>1, SteppedExists
  <2>3. CurrentCommit \in Nat
    BY CurrentIsMade DEF Made
  <2>4. view \in View /\ view.intent = exec[X].intent
    BY <2>2, <2>3 DEF View, ExecutionState
  <2>5. exec[X].state = "EXECUTING" => Pinned(view)
    BY <2>2, <2>3 DEF View, Pinned
  <2>6. ProjectionInv' /\ Settles
    BY <2>1, <2>2, <2>4, <2>5, TransitionStep DEF ExecutionFinishedRejected, repository
  <2>7. ProcessInv'
    BY <1>0, <2>1, <2>6, GotoMid
  <2> QED
    BY <2>1, <2>6, <2>7, LogAlone
<1>8. CASE Decompose
  <2>1. /\ pc \in MidStep /\ IssueClosed(cur, "NEEDS_DECOMPOSITION") /\ Goto("Reset")
        /\ UNCHANGED repository
    BY <1>0, <1>8 DEF Decompose, At
  <2>2. ProjectionInv' /\ Settles
    BY <2>1, SteppedExists, IssueStep DEF repository, IssueTerminal
  <2> QED
    BY <1>0, <2>1, <2>2, GotoMid, LogAlone
<1> QED
  BY <1>1, <1>2, <1>3, <1>4, <1>5, <1>6, <1>7, <1>8

\* The VALIDATING and REVIEWING rows, and the reset after a rejection.
LEMMA VerdictPreserves ==
  ASSUME IInv,
         ResetWorkspace \/ CleanWorkspace \/ RunGate \/ GateVerdict \/ Review
  PROVE  IInv'
<1> USE DEF IInv
<1>0. {"Reset", "Clean", "Gate"} \subseteq MidStep
  BY DEF MidStep, Looping
<1>1. CASE ResetWorkspace
  <2>1. /\ pc \in MidStep /\ ResetHard(base[cur]) /\ Goto("Clean")
        /\ UNCHANGED <<projection, commits, head, attemptRef, archive>>
    BY <1>0, <1>1 DEF ResetWorkspace, At
  <2>2. RepositoryInv' /\ Grows
    BY <2>1, SteppedExists, ResetHardType
  <2>3. ProjectionInv' /\ Settles
    BY <2>1, <2>2, ProjectionFrame
  <2> QED
    BY <1>0, <2>1, <2>2, <2>3, GotoMid, RepositoryAlone DEF Extends
<1>2. CASE CleanWorkspace
  <2>1. /\ dirt' = {} /\ Done
        /\ UNCHANGED <<projection, commits, tip, head, attemptRef, archive>>
    BY <1>2 DEF CleanWorkspace
  <2>2. RepositoryInv'
    BY <2>1 DEF RepositoryInv, RepositoryTypeOK, BranchesHold
  <2>3. Grows /\ Extends
    BY <2>1, CurrentIsMade, SameGrows DEF Extends
  <2> QED
    BY <2>1, <2>2, <2>3, DonePlain, RepositoryAlone
<1>3. CASE RunGate
  <2>1. PICK i \in Issues :
          /\ InState(i, "VALIDATING") /\ \E d \in GateDirt : dirt' = dirt \cup d
          /\ Continue(i, "Gate")
          /\ UNCHANGED <<projection, commits, tip, head, attemptRef, archive>>
    BY <1>3 DEF RunGate
  <2>2. RepositoryInv'
    BY <2>1, RunAssumption DEF RepositoryInv, RepositoryTypeOK, BranchesHold
  <2>3. Grows /\ Extends
    BY <2>1, CurrentIsMade, SameGrows DEF Extends
  <2>4. ProjectionInv' /\ Settles
    BY <2>1, <2>3, ProjectionFrame
  <2>5. ProcessInv'
    BY <1>0, <2>1, <2>4, InStateExists, ContinueMid
  <2> QED
    BY <2>1, <2>2, <2>3, <2>5, RepositoryAlone
<1>4. CASE GateVerdict
  <2>1. /\ pc \in MidStep /\ UNCHANGED repository
        /\ \/ ValidationPassed(X, exec[X].end) /\ Done
           \/ ValidationFailed(X) /\ Goto("Reset")
    BY <1>0, <1>4 DEF GateVerdict, At, Ex
  <2>2. X \in Execution /\ exec[X] \in View /\ Pinned(exec[X])
    BY <2>1, SteppedExists
  <2>3. CASE ValidationPassed(X, exec[X].end) /\ Done
    <3> DEFINE view == [exec[X] EXCEPT !.state = "REVIEWING", !.validated = exec[X].end]
    <3>1. view \in View /\ view.intent = exec[X].intent
      BY <2>2 DEF View, ExecutionState
    <3>2. exec[X].state = "VALIDATING" => Pinned(view)
      BY <2>2 DEF View, Pinned
    <3>3. ProjectionInv' /\ Settles
      BY <2>1, <2>2, <2>3, <3>1, <3>2, TransitionStep DEF ValidationPassed, repository
    <3> QED
      BY <2>1, <2>3, <3>3, DonePlain, LogAlone
  <2>4. CASE ValidationFailed(X) /\ Goto("Reset")
    <3> DEFINE view == [exec[X] EXCEPT !.state = "REJECTED"]
    <3>1. view \in View /\ view.intent = exec[X].intent
      BY <2>2 DEF View, ExecutionState
    <3>2. exec[X].state = "VALIDATING" => Pinned(view)
      BY <2>2 DEF View, Pinned
    <3>3. ProjectionInv' /\ Settles
      BY <2>1, <2>2, <2>4, <3>1, <3>2, TransitionStep DEF ValidationFailed, repository
    <3> QED
      BY <1>0, <2>1, <2>4, <3>3, GotoMid, LogAlone
  <2> QED
    BY <2>1, <2>3, <2>4
<1>5. CASE Review
  <2>1. PICK i \in Issues :
          /\ InState(i, "REVIEWING") /\ UNCHANGED repository
          /\ \/ ReviewApproved(LatestId(i), Latest(i).end) /\ Done
             \/ \E f \in Feedbacks : ReviewRejected(LatestId(i), f) /\ Continue(i, "Reset")
             \/ IssueClosed(i, "NEEDS_HUMAN") /\ Done
    BY <1>5 DEF Review
  <2> DEFINE x == LatestId(i)
  <2>2. /\ HasExecution(i) /\ x \in Execution /\ exec[x] \in View /\ Pinned(exec[x])
        /\ Latest(i) = exec[x]
    BY <2>1, InStateExists
  <2>3. CASE ReviewApproved(x, exec[x].end) /\ Done
    <3> DEFINE view == [exec[x] EXCEPT !.state = "ACCEPTED", !.reviewed = exec[x].end]
    <3>1. view \in View /\ view.intent = exec[x].intent
      BY <2>2 DEF View, ExecutionState
    <3>2. exec[x].state = "REVIEWING" => Pinned(view)
      BY <2>2 DEF View, Pinned
    <3>3. ProjectionInv' /\ Settles
      BY <2>1, <2>2, <2>3, <3>1, <3>2, TransitionStep DEF ReviewApproved, repository
    <3> QED
      BY <2>1, <2>3, <3>3, DonePlain, LogAlone
  <2>4. ASSUME NEW f \in Feedbacks, ReviewRejected(x, f), Continue(i, "Reset")
        PROVE  IInv'
    <3> DEFINE view == [exec[x] EXCEPT !.state = "REJECTED", !.feedback = f]
    <3>1. view \in View /\ view.intent = exec[x].intent
      BY <2>2 DEF View, ExecutionState
    <3>2. exec[x].state = "REVIEWING" => Pinned(view)
      BY <2>2 DEF View, Pinned
    <3>3. ProjectionInv' /\ Settles
      BY <2>1, <2>2, <2>4, <3>1, <3>2, TransitionStep DEF ReviewRejected, repository
    <3> QED
      BY <1>0, <2>1, <2>2, <2>4, <3>3, ContinueMid, LogAlone
  <2>5. CASE IssueClosed(i, "NEEDS_HUMAN") /\ Done
    <3>1. ProjectionInv' /\ Settles
      BY <2>1, <2>5, IssueStep DEF repository, IssueTerminal
    <3> QED
      BY <2>1, <2>5, <3>1, DonePlain, LogAlone
  <2> QED
    BY <2>1, <2>2, <2>3, <2>4, <2>5
<1> QED
  BY <1>1, <1>2, <1>3, <1>4, <1>5

\* The ACCEPTED row.
LEMMA CommitPreserves ==
  ASSUME IInv,
         IntendCommit \/ Merge \/ RecordMerge \/ CompleteIssue \/ DropAttemptRef
  PROVE  IInv'
<1> USE DEF IInv
<1>0. {"MergeFact", "DropRef"} \subseteq MidStep
  BY DEF MidStep, Looping
<1>1. CASE IntendCommit
  <2>1. PICK i \in Issues :
          /\ InState(i, "ACCEPTED") /\ UNCHANGED repository
          /\ \/ CommitIntent(LatestId(i), Latest(i).end) /\ Done
             \/ Leave /\ UNCHANGED projection
    BY <1>1 DEF IntendCommit
  <2>2. LatestId(i) \in Execution /\ Latest(i) = exec[LatestId(i)]
    BY <2>1, InStateExists
  <2>3. CASE CommitIntent(LatestId(i), Latest(i).end) /\ Done
    <3>1. ProjectionInv' /\ Settles
      BY <2>1, <2>2, <2>3, IntentStep DEF repository
    <3> QED
      BY <2>1, <2>3, <3>1, DonePlain, LogAlone
  <2>4. CASE Leave /\ UNCHANGED projection
    BY <2>1, <2>4, LeavePlain, ProcessAlone
  <2> QED
    BY <2>1, <2>3, <2>4
<1>2. CASE Merge
  <2>1. PICK i \in Issues :
          /\ InState(i, "ACCEPTED") /\ Latest(i).intent # NoCommit
          /\ \/ /\ MergeTo(Latest(i).intent)
                /\ Continue(i, "MergeFact")
             \/ /\ Leave \/ Continue(i, "MergeFact")
                /\ UNCHANGED <<commits, tip>>
          /\ UNCHANGED <<projection, head, dirt, attemptRef, archive>>
    BY <1>2 DEF Merge
  <2> DEFINE x == LatestId(i)
  <2>2. /\ HasExecution(i) /\ x \in Execution /\ Latest(i) = exec[x]
        /\ exec[x].intent \in Made
    BY <2>1, InStateExists DEF Pinned
  <2>3. Grows => ProjectionInv' /\ Settles
    BY <2>1, ProjectionFrame
  <2>4. CASE MergeTo(exec[x].intent) /\ Continue(i, "MergeFact")
    <3>1. /\ RepositoryInv' /\ Grows
          /\ commits' = Append(commits, MergeOf(tip[Target], exec[x].intent))
      BY <2>1, <2>2, <2>4, MergeToType
    <3>2. Extends
      BY <2>1, <2>2, <3>1, MergeExtends
    <3>3. ProcessInv'
      BY <1>0, <2>2, <2>3, <2>4, <3>1, ContinueMid
    <3> QED
      BY <2>1, <3>1, <3>2, <3>3, RepositoryAlone
  <2>5. CASE (Leave \/ Continue(i, "MergeFact")) /\ UNCHANGED <<commits, tip>>
    <3>1. Grows /\ UNCHANGED repository
      BY <2>1, <2>5, CurrentIsMade, SameGrows DEF repository
    <3>2. ProcessInv'
      BY <1>0, <2>2, <2>3, <2>5, <3>1, LeavePlain, ContinueMid
    <3> QED
      BY <2>1, <3>1, <3>2, ProcessAlone
  <2> QED
    BY <2>1, <2>2, <2>4, <2>5
<1>3. CASE RecordMerge
  <2>1. pc \in MidStep /\ CommitCreated(X) /\ Done /\ UNCHANGED repository
    BY <1>0, <1>3 DEF RecordMerge, At
  <2>2. ProjectionInv' /\ Settles
    BY <2>1, SteppedExists, CreatedStep DEF repository
  <2> QED
    BY <2>1, <2>2, DonePlain, LogAlone
<1>4. CASE CompleteIssue
  <2>1. PICK i \in Issues :
          /\ InState(i, "ACCEPTED") /\ IssueClosed(i, "DONE") /\ Continue(i, "DropRef")
          /\ UNCHANGED repository
    BY <1>4 DEF CompleteIssue
  <2>2. ProjectionInv' /\ Settles
    BY <2>1, IssueStep DEF repository, IssueTerminal
  <2>3. ProcessInv'
    BY <1>0, <2>1, <2>2, InStateExists, ContinueMid
  <2> QED
    BY <2>1, <2>2, <2>3, LogAlone
<1>5. CASE DropAttemptRef
  <2>1. /\ attemptRef' = [attemptRef EXCEPT ![X] = NoCommit] /\ Done
        /\ UNCHANGED <<projection, commits, tip, head, dirt, archive>>
    BY <1>5 DEF DropAttemptRef
  <2>2. RepositoryInv'
    <3>1. attemptRef' \in [Execution -> 0 .. Len(commits')]
      <4>1. attemptRef \in [Execution -> 0 .. Len(commits)] /\ NoCommit \in 0 .. Len(commits)
        BY CurrentIsMade DEF RepositoryInv, RepositoryTypeOK
      <4> QED
        BY <2>1, <4>1
    <3> QED
      BY <2>1, <3>1 DEF RepositoryInv, RepositoryTypeOK, BranchesHold
  <2>3. Grows /\ Extends
    BY <2>1, CurrentIsMade, SameGrows DEF Extends
  <2> QED
    BY <2>1, <2>2, <2>3, DonePlain, RepositoryAlone
<1> QED
  BY <1>1, <1>2, <1>3, <1>4, <1>5

\* The stops from outside.
LEMMA StopPreserves ==
  ASSUME IInv, Kill \/ Interrupt \/ ReviewerUnavailable
  PROVE  IInv'
<1> USE DEF IInv
<1>1. UNCHANGED <<projection, repository>> /\ stops' = stops + 1 /\ stops < MaxStops
  BY DEF Kill, Interrupt, ReviewerUnavailable, Stop
<1>2. stops' \in 0 .. MaxStops
  BY <1>1, RunAssumption DEF ProcessInv, ProcessTypeOK
<1>3. CASE Exit
  BY <1>1, <1>2, <1>3, ExitPlain, ProcessAlone
<1>4. CASE pc' = "Shutdown" /\ UNCHANGED <<cur, plan, spawned>>
  <2>1. "Shutdown" \in Label \ (MidStep \cup Resuming)
    BY DEF Label, MidStep, Resuming, Looping
  <2> QED
    BY <1>1, <1>2, <1>4, <2>1, MovePlain, ProcessAlone DEF ProcessInv, ProcessTypeOK
<1> QED
  BY <1>3, <1>4 DEF Kill, Interrupt, ReviewerUnavailable

-----------------------------------------------------------------------------
(* The theorems.                                                           *)

LEMMA InitEstablishes ==
  ASSUME Init
  PROVE  IInv
<1> USE DEF Init
<1>1. ProjectionInv
  <2>1. NoView \in View /\ Pinned(NoView) /\ NoView.state = "NONE"
    BY DEF NoView, View, ExecutionState, Pinned
  <2>2. ProjectionTypeOK
    <3>1. issue \in [Issues -> IssueState] /\ base \in [Issues -> Nat] /\ poisoned \in BOOLEAN
      BY DEF ProjectionInit, IssueState
    <3>2. attempts \in [Issues -> 0 .. MaxAttempts]
      BY BudgetAssumption DEF ProjectionInit
    <3>3. exec \in [Execution -> View]
      BY <2>1 DEF ProjectionInit
    <3> QED
      BY <3>1, <3>2, <3>3 DEF ProjectionTypeOK
  <2>3. PinsHold
    <3>1. \A x \in Execution : exec[x] = NoView
      BY DEF ProjectionInit
    <3> QED
      BY <2>1, <3>1 DEF PinsHold
  <2>4. BasesHold
    BY DEF ProjectionInit, BasesHold, HasExecution
  <2> QED
    BY <2>2, <2>3, <2>4 DEF ProjectionInv
<1>2. commits = <<Root>> /\ Root \in Commit /\ Root.second = NoCommit
  BY DEF RepositoryInit, Root, Commit
<1>3. commits \in Seq(Commit) /\ Len(commits) = 1 /\ commits[1] = Root
  BY <1>2
<1>4. RepositoryInv
  BY <1>3 DEF RepositoryInit, RepositoryInv, RepositoryTypeOK, BranchesHold, Branch
<1>5. ProcessInv
  BY RunAssumption
  DEF ProcessInit, ProcessInv, ProcessTypeOK, ControlHolds, Label, MidStep, Looping, NoIssue
<1>6. MergesAreApproved
  BY <1>2, <1>3 DEF MergesAreApproved, Merges
<1> QED
  BY <1>1, <1>4, <1>5, <1>6 DEF IInv

LEMMA StepPreserves ==
  ASSUME IInv, [Next]_vars
  PROVE  IInv'
<1>1. CASE UNCHANGED vars
  <2>1. UNCHANGED <<projection, repository>> /\ UNCHANGED process
    BY <1>1 DEF vars
  <2>2. ProcessInv'
    BY <2>1 DEF IInv, ProcessInv, ProcessTypeOK, ControlHolds, process, projection,
       OpenExecutions, Unwitnessed, HasExecution
  <2> QED
    BY <2>1, <2>2, ProcessAlone
<1>2. CASE LoopStep
  BY <1>2, ChoicePreserves, ExecutingPreserves, VerdictPreserves, CommitPreserves
  DEF LoopStep
<1>3. CASE RecoveryStep \/ StartupStep
  BY <1>3, RecoveryPreserves, StartupPreserves
<1>4. CASE Kill \/ Interrupt \/ ReviewerUnavailable
  BY <1>4, StopPreserves
<1> QED
  BY <1>1, <1>2, <1>3, <1>4 DEF Next, Step

\* The invariant, whatever stops the run and wherever.
THEOREM Invariance == Spec => []IInv
<1>1. Init => IInv
  BY InitEstablishes
<1>2. IInv /\ [Next]_vars => IInv'
  BY StepPreserves
<1> QED
  BY <1>1, <1>2, PTL DEF Spec

\* Type correctness: log, repository and process stay what the code takes them
\* for; in particular no step reads a commit, an execution or a base that is not
\* there (the budget of a run is never overdrawn).
THEOREM TypeCorrect == Spec => []TypeOK
<1>1. IInv => TypeOK
  BY DEF IInv, ProjectionInv, RepositoryInv, ProcessInv, TypeOK
<1> QED
  BY <1>1, Invariance, PTL

\* The merge gate: whatever is merged, by the loop or by recovery after any
\* sequence of stops, is what one execution produced, was validated and approved.
THEOREM MergeGate == Spec => []MergesAreApproved
<1>1. IInv => MergesAreApproved
  BY DEF IInv
<1> QED
  BY <1>1, Invariance, PTL

-----------------------------------------------------------------------------
(* Where the process goes.                                                 *)

\* Places that rely on nothing in the log.
Unbound == {"Down", "Shutdown", "Orphans", "OrphanRef", "OrphanFact"}
Quiet == Resting \ {"Gate", "Decompose", "DropRef"}

LEMMA ArriveUnbound ==
  ASSUME pc' \in Unbound
  PROVE  StepHolds'
BY DEF StepHolds, Unbound, Working, Resting

\* With nothing in flight the process may be in the loop or about to be.
LEMMA ArriveQuiet ==
  ASSUME pc' \in Quiet \cup {"Loop"}, InFlight' = {}
  PROVE  StepHolds'
BY DEF StepHolds, Quiet, Working, Resting

\* A stop from outside, and the ends of a run.
LEMMA ExitUnbound ==
  ASSUME Exit
  PROVE  StepHolds'
BY ArriveUnbound DEF Exit, Unbound

LEMMA LeaveUnbound ==
  ASSUME Leave
  PROVE  StepHolds'
BY ArriveUnbound DEF Leave, Goto, Unbound

-----------------------------------------------------------------------------
(* What is in flight.                                                      *)

\* A step that leaves the log alone.
LEMMA LogStill ==
  ASSUME UNCHANGED projection, OneInFlight, LogReplays
  PROVE  /\ OneInFlight' /\ LogReplays'
         /\ InFlight' = InFlight /\ OpenExecutions' = OpenExecutions
         /\ Unwitnessed' = Unwitnessed
<1>1. OpenExecutions' = OpenExecutions /\ Unwitnessed' = Unwitnessed
  BY DEF projection, OpenExecutions, Unwitnessed
<1>2. InFlight' = InFlight
  BY <1>1 DEF InFlight
<1>3. OneInFlight'
  BY <1>2 DEF OneInFlight, projection, LatestId
<1> QED
  BY <1>1, <1>2, <1>3 DEF LogReplays, projection

\* An execution's event that does not leave it running or intended.
LEMMA FlightEnds ==
  ASSUME ProjectionTypeOK, OneInFlight, NEW x \in Execution, NEW view \in View,
         exec' = [exec EXCEPT ![x] = view], UNCHANGED <<issue, attempts>>,
         view.state # "EXECUTING", view.intent = NoCommit \/ view.created
  PROVE  OneInFlight' /\ InFlight' = InFlight \ {x}
         /\ OpenExecutions' \subseteq OpenExecutions
<1>1. exec \in [Execution -> View]
  BY DEF ProjectionTypeOK
<1>2. OpenExecutions' = OpenExecutions \ {x}
  BY <1>1 DEF OpenExecutions
<1>3. Unwitnessed' = Unwitnessed \ {x}
  BY <1>1 DEF Unwitnessed
<1>4. InFlight' = InFlight \ {x}
  BY <1>2, <1>3 DEF InFlight
<1> QED
  BY <1>2, <1>4 DEF OneInFlight, LatestId

\* When nothing is in flight an issue may move.
LEMMA FlightStaysEmpty ==
  ASSUME InFlight = {}, UNCHANGED exec
  PROVE  OneInFlight' /\ InFlight' = {}
BY DEF OneInFlight, InFlight, OpenExecutions, Unwitnessed

\* What is in flight in the loop is the latest execution of the issue whose step
\* starts, running or intended.
LEMMA SteppingFlight ==
  ASSUME IInv, TurnInv, NEW i \in Issues, Stepping(i)
  PROVE  /\ pc = "Loop"
         /\ \A x \in InFlight :
              /\ x = LatestId(i) /\ issue[i] = "ACTIVE" /\ HasExecution(i)
              /\ \/ Latest(i).state = "EXECUTING"
                 \/ /\ Latest(i).state = "ACCEPTED" /\ Latest(i).intent # NoCommit
                    /\ ~Latest(i).created
<1>1. pc = "Loop" /\ i = NextActionable
  BY DEF Stepping, At
<1>2. SUFFICES ASSUME NEW x \in InFlight
               PROVE  /\ x = LatestId(i) /\ issue[i] = "ACTIVE" /\ HasExecution(i)
                      /\ \/ Latest(i).state = "EXECUTING"
                         \/ /\ Latest(i).state = "ACCEPTED"
                            /\ Latest(i).intent # NoCommit /\ ~Latest(i).created
  BY <1>1
<1>3. x[1] = i /\ x = LatestId(i) /\ issue[i] = "ACTIVE"
  BY <1>1 DEF TurnInv, StepHolds, OneInFlight
<1>4. x \in Execution
  BY DEF InFlight, OpenExecutions, Unwitnessed
<1>5. HasExecution(i)
  BY <1>3, <1>4, BudgetAssumption DEF Execution, LatestId, HasExecution
<1>6. Pinned(exec[x])
  BY <1>4 DEF IInv, ProjectionInv, PinsHold
<1> QED
  BY <1>3, <1>5, <1>6 DEF InFlight, OpenExecutions, Unwitnessed, Latest, Pinned

\* The issue whose step starts has nothing in flight, then nothing is.
LEMMA NothingInFlight ==
  ASSUME IInv, TurnInv, NEW i \in Issues, Stepping(i),
         \/ issue[i] # "ACTIVE"
         \/ ~HasExecution(i)
         \/ /\ Latest(i).state # "EXECUTING"
            /\ Latest(i).state = "ACCEPTED" =>
                 Latest(i).intent = NoCommit \/ Latest(i).created
  PROVE  InFlight = {}
BY SteppingFlight

-----------------------------------------------------------------------------
(* Every step keeps one thing in flight.                                   *)

LEMMA RecoveryTurn ==
  ASSUME IInv, TurnInv, RecoveryStep
  PROVE  TurnInv'
<1> USE DEF TurnInv
<1>0. ProjectionTypeOK /\ ProjectionInv
  BY DEF IInv, ProjectionInv
<1>1. CASE Start
  <2>1. Goto("Orphans") /\ UNCHANGED projection
    BY <1>1 DEF Start
  <2> QED
    BY <2>1, LogStill, ArriveUnbound DEF Goto, Unbound
<1>2. CASE PreserveResidue \/ ReferResidue
  <2>1. (Goto("OrphanFact") \/ Goto("OrphanRef")) /\ UNCHANGED projection
    BY <1>2 DEF PreserveResidue, ReferResidue
  <2> QED
    BY <2>1, LogStill, ArriveUnbound DEF Goto, Unbound
<1>3. CASE CrashOrphan
  <2> DEFINE view == [exec[Orphan] EXCEPT !.state = "CRASHED"]
  <2>1. Orphan \in Execution /\ exec[Orphan].state = "EXECUTING" /\ pc = "OrphanFact"
    BY <1>0, <1>3, OrphanExists DEF CrashOrphan, At, IInv, ProcessInv, ControlHolds
  <2>2. exec[Orphan] \in View /\ exec[Orphan].intent = NoCommit
    BY <1>0, <2>1 DEF ProjectionInv, ProjectionTypeOK, PinsHold, Pinned
  <2>3. view \in View /\ view.state = "CRASHED" /\ view.intent = NoCommit
    BY <2>2 DEF View, ExecutionState
  <2>4. /\ exec' = [exec EXCEPT ![Orphan] = view]
        /\ UNCHANGED <<issue, base, attempts, poisoned>> /\ Goto("Orphans")
    BY <1>3, <2>1 DEF CrashOrphan, ExecutionCrashed, ExecutionTransition
  <2>5. OneInFlight'
    BY <1>0, <2>1, <2>3, <2>4, FlightEnds
  <2> QED
    BY <2>4, <2>5, ArriveUnbound DEF LogReplays, Goto, Unbound
<1>4. CASE NoOrphans
  <2>1. OpenExecutions = {} /\ pc' = "Unwitnessed" /\ UNCHANGED projection
    BY <1>4 DEF NoOrphans, Goto
  <2> QED
    BY <2>1, LogStill DEF StepHolds, Working, Resting
<1>5. CASE CheckUnwitnessed
  <2>1. /\ pc = "Unwitnessed" /\ UNCHANGED projection
        /\ \/ Unwitnessed = {} /\ Goto("Workspace")
           \/ Goto("RedoFact") \/ Goto("RedoMerge") \/ Die
    BY <1>5 DEF CheckUnwitnessed, At
  <2>2. OpenExecutions = {} /\ OpenExecutions' = {}
    BY <2>1, LogStill DEF StepHolds
  <2>3. CASE Unwitnessed = {} /\ Goto("Workspace")
    <3>1. InFlight' = {} /\ pc' = "Workspace"
      BY <2>1, <2>2, <2>3, LogStill DEF InFlight, Goto
    <3> QED
      BY <2>1, <3>1, LogStill, ArriveQuiet DEF Quiet, Resting
  <2>4. CASE Goto("RedoFact") \/ Goto("RedoMerge")
    BY <2>1, <2>2, <2>4, LogStill DEF Goto, StepHolds, Working, Resting
  <2>5. CASE Die
    BY <2>1, <2>5, LogStill, ExitUnbound DEF Die
  <2> QED
    BY <2>1, <2>3, <2>4, <2>5
<1>6. CASE RedoMerge
  <2>1. pc = "RedoMerge" /\ UNCHANGED projection /\ (Goto("RedoFact") \/ Die)
    BY <1>6 DEF RedoMerge, At
  <2>2. OpenExecutions' = {}
    BY <2>1, LogStill DEF StepHolds
  <2>3. CASE Goto("RedoFact")
    BY <2>1, <2>2, <2>3, LogStill DEF Goto, StepHolds, Working, Resting
  <2> QED
    BY <2>1, <2>3, LogStill, ExitUnbound DEF Die
<1>7. CASE RedoFact
  <2> DEFINE view == [exec[Intended] EXCEPT !.created = TRUE]
  <2>1. pc = "RedoFact" /\ Unwitnessed # {} /\ Goto("Unwitnessed")
    BY <1>7 DEF RedoFact, At, IInv, ProcessInv, ControlHolds
  <2>2. Intended \in Unwitnessed /\ Intended \in Execution
    BY <2>1 DEF Intended, Unwitnessed
  <2>3. /\ exec[Intended] \in View /\ exec[Intended].state = "ACCEPTED"
        /\ exec[Intended].intent # NoCommit /\ ~exec[Intended].created
    BY <1>0, <2>2 DEF Unwitnessed, ProjectionInv, ProjectionTypeOK, PinsHold, Pinned
  <2>4. view \in View /\ view.state = "ACCEPTED" /\ view.created
    BY <2>3 DEF View
  <2>5. /\ exec' = [exec EXCEPT ![Intended] = view]
        /\ UNCHANGED <<issue, base, attempts, poisoned>>
    BY <1>7, <2>3 DEF RedoFact, CommitCreated
  <2>6. OneInFlight' /\ OpenExecutions' \subseteq OpenExecutions
    BY <1>0, <2>2, <2>4, <2>5, FlightEnds
  <2>7. OpenExecutions' = {} /\ pc' = "Unwitnessed"
    BY <2>1, <2>6 DEF StepHolds, Goto
  <2> QED
    BY <2>5, <2>6, <2>7 DEF LogReplays, StepHolds, Working, Resting
<1>8. CASE CheckWorkspace \/ ArchiveResidue \/ RestoreWorkspace
  <2>1. /\ pc \in {"Workspace", "Archive", "Restore"} /\ UNCHANGED projection
        /\ pc' \in {"Select", "Archive", "Restore"}
    BY <1>8 DEF CheckWorkspace, ArchiveResidue, RestoreWorkspace, At, Goto
  <2>2. InFlight' = {}
    BY <2>1, LogStill DEF StepHolds, Resting
  <2> QED
    BY <2>1, <2>2, LogStill, ArriveQuiet DEF Quiet, Resting
<1> QED
  BY <1>1, <1>2, <1>3, <1>4, <1>5, <1>6, <1>7, <1>8 DEF RecoveryStep

LEMMA StartupTurn ==
  ASSUME IInv, TurnInv, StartupStep
  PROVE  TurnInv'
<1> USE DEF TurnInv
<1>1. CASE (\E req \in Requests : Select(req)) \/ CheckoutTarget
  <2>1. /\ pc \in {"Select", "Checkout"} /\ UNCHANGED projection
        /\ pc' \in {"Checkout", "Ingest"} \/ Exit
    BY <1>1 DEF Select, CheckoutTarget, At, Goto, Die
  <2>2. InFlight' = {}
    BY <2>1, LogStill DEF StepHolds, Resting
  <2> QED
    BY <2>1, <2>2, LogStill, ArriveQuiet, ExitUnbound DEF Quiet, Resting
<1>2. CASE Ingest
  <2> DEFINE new == {i \in Issues : issue[i] = "ABSENT"}
  <2>1. InFlight = {}
    BY <1>2 DEF Ingest, At, StepHolds, Resting
  <2>2. CASE new # {} /\ IssueCreated(First(new)) /\ Goto("Ingest")
    <3>1. First(new) \in new
      BY <2>2, FirstIsMember
    <3>2. UNCHANGED <<exec, poisoned>> /\ pc' = "Ingest"
      BY <2>2, <3>1 DEF IssueCreated, Goto
    <3> QED
      BY <2>1, <3>2, FlightStaysEmpty, ArriveQuiet DEF Quiet, Resting, LogReplays
  <2>3. CASE Goto("Loop") /\ UNCHANGED projection
    BY <2>1, <2>3, LogStill, ArriveQuiet DEF Goto
  <2> QED
    BY <1>2, <2>2, <2>3 DEF Ingest
<1>3. CASE Shutdown
  BY <1>3, LogStill, ExitUnbound DEF Shutdown
<1> QED
  BY <1>1, <1>2, <1>3 DEF StartupStep

LEMMA StopTurn ==
  ASSUME TurnInv, Kill \/ Interrupt \/ ReviewerUnavailable
  PROVE  TurnInv'
<1> USE DEF TurnInv
<1>1. UNCHANGED projection /\ (Exit \/ pc' = "Shutdown")
  BY DEF Kill, Interrupt, ReviewerUnavailable
<1> QED
  BY <1>1, LogStill, ExitUnbound, ArriveUnbound DEF Unbound

\* Whose turn it is depends on the issues and the plan alone.
LEMMA SameTurn ==
  ASSUME UNCHANGED <<issue, plan>>
  PROVE  NextActionable' = NextActionable
<1>1. Actionable' = Actionable
  BY DEF Actionable, DepsMet
<1>2. \A i \in Actionable : InPlan(i)' = InPlan(i)
  BY DEF InPlan
<1> QED
  BY <1>1, <1>2 DEF NextActionable, First, Position, InPlan

\* The rows that choose what happens to an issue.
LEMMA ChoiceTurn ==
  ASSUME IInv, TurnInv, Drained \/ Activate \/ Escalate \/ Spawn \/ BudgetStop
  PROVE  TurnInv'
<1> USE DEF TurnInv
<1>1. CASE Drained \/ BudgetStop
  <2>1. UNCHANGED projection /\ Leave
    BY <1>1 DEF Drained, BudgetStop
  <2> QED
    BY <2>1, LogStill, LeaveUnbound
<1>2. CASE Activate
  <2>1. PICK i \in Issues : /\ Stepping(i) /\ issue[i] = "PENDING"
                            /\ IssueActivated(i, tip[Target]) /\ Done
    BY <1>2 DEF Activate
  <2>2. InFlight = {}
    BY <2>1, NothingInFlight
  <2>3. UNCHANGED <<exec, poisoned>> /\ pc' = "Loop"
    BY <2>1 DEF IssueActivated, Done
  <2> QED
    BY <2>2, <2>3, FlightStaysEmpty, ArriveQuiet DEF LogReplays
<1>3. CASE Escalate
  <2>1. PICK i \in Issues : NeedsExecution(i) /\ IssueClosed(i, "NEEDS_HUMAN") /\ Done
    BY <1>3 DEF Escalate
  <2>2. InFlight = {}
    BY <2>1, NothingInFlight DEF NeedsExecution, Retryable
  <2>3. UNCHANGED <<exec, poisoned>> /\ pc' = "Loop"
    BY <2>1 DEF NeedsExecution, IssueClosed, Done
  <2> QED
    BY <2>2, <2>3, FlightStaysEmpty, ArriveQuiet DEF LogReplays
<1>4. CASE Spawn
  <2>1. PICK i \in Issues :
          /\ NeedsExecution(i) /\ ~CapHit(i)
          /\ ExecutionSpawned(i, attempts[i] + 1, dirt \ {"tracked"})
          /\ pc' = "Loop" /\ UNCHANGED <<cur, plan, stops>>
    BY <1>4 DEF Spawn
  <2> DEFINE x == <<i, attempts[i] + 1>>
             view == [NoView EXCEPT !.state = "EXECUTING", !.untracked = dirt \ {"tracked"}]
  <2>2. InFlight = {} /\ issue[i] = "ACTIVE" /\ i = NextActionable
    BY <2>1, NothingInFlight DEF NeedsExecution, Retryable, Stepping
  <2>3. /\ attempts \in [Issues -> 0 .. MaxAttempts] /\ attempts[i] \in Nat
        /\ exec \in [Execution -> View] /\ attempts[i] < MaxAttempts /\ MaxAttempts \in Nat
    BY <2>1, BudgetAssumption DEF IInv, ProjectionInv, ProjectionTypeOK, CapHit
  <2>4. x \in Execution /\ x[1] = i
    BY <2>3 DEF Execution
  <2>5. exec[x].state = "NONE"
    BY <2>3, <2>4 DEF IInv, ProjectionInv, PinsHold
  <2>6. HasExecution(i) => Latest(i).state \in ExecutionTerminal
    BY <2>1 DEF NeedsExecution, Retryable, ExecutionTerminal
  <2>7. /\ exec' = [exec EXCEPT ![x] = view]
        /\ attempts' = [attempts EXCEPT ![i] = attempts[i] + 1]
        /\ UNCHANGED <<issue, poisoned>>
    BY <2>1, <2>2, <2>5, <2>6 DEF ExecutionSpawned
  <2>8. InFlight' \subseteq {x}
    <3>1. \A y \in Execution \ {x} : exec'[y] = exec[y]
      BY <2>3, <2>7
    <3>2. InFlight' \ {x} \subseteq InFlight
      BY <3>1 DEF InFlight, OpenExecutions, Unwitnessed
    <3> QED
      BY <2>2, <3>2
  <2>9. LatestId(i)' = x
    BY <2>3, <2>7 DEF LatestId
  <2>10. OneInFlight'
    BY <2>2, <2>4, <2>7, <2>8, <2>9 DEF OneInFlight
  <2>11. StepHolds'
    BY <2>1, <2>2, <2>4, <2>7, <2>8, SameTurn DEF StepHolds, Working, Resting
  <2> QED
    BY <2>7, <2>10, <2>11 DEF LogReplays
<1> QED
  BY <1>1, <1>2, <1>3, <1>4

\* Going on with the execution that is running.
LEMMA GoOnWorking ==
  ASSUME TurnInv, UNCHANGED projection, pc \in Working, pc' \in Working, UNCHANGED cur
  PROVE  TurnInv'
<1>1. X' = X /\ pc' \notin Resting /\ pc' \notin {"Unwitnessed", "RedoMerge", "RedoFact"}
  BY DEF X, LatestId, projection, Working, Resting
<1>2. X \in OpenExecutions
  BY DEF TurnInv, StepHolds
<1> QED
  BY <1>1, <1>2, LogStill DEF TurnInv, StepHolds, Working

\* Nothing is left in flight by the event that ends the only thing that was.
LEMMA OnlyOneEnds ==
  ASSUME IInv, TurnInv, X \in InFlight, NEW view \in View,
         exec' = [exec EXCEPT ![X] = view], UNCHANGED <<issue, attempts>>,
         view.state # "EXECUTING", view.intent = NoCommit \/ view.created
  PROVE  OneInFlight' /\ InFlight' = {}
<1>1. X \in Execution
  BY DEF InFlight, OpenExecutions, Unwitnessed
<1>2. OneInFlight' /\ InFlight' = InFlight \ {X}
  BY <1>1, FlightEnds DEF IInv, ProjectionInv, TurnInv
<1> QED
  BY <1>2 DEF TurnInv, OneInFlight

\* The EXECUTING row, to the end of the engine's work.
LEMMA ExecutingTurn ==
  ASSUME IInv, TurnInv,
         \/ CheckoutIssue \/ EngineWrites \/ EngineExits \/ SnapshotWork \/ ReferWork
         \/ FinishNormal \/ FinishRejected \/ Decompose
  PROVE  TurnInv'
<1> USE DEF TurnInv
<1>1. CASE CheckoutIssue
  <2>1. PICK i \in Issues :
          /\ InState(i, "EXECUTING") /\ UNCHANGED projection
          /\ Continue(i, "Engine") \/ Leave
    BY <1>1 DEF CheckoutIssue
  <2>2. CASE Continue(i, "Engine")
    <3>1. LatestId(i) \in OpenExecutions
      BY <2>1, InStateExists DEF OpenExecutions
    <3>2. X' = LatestId(i) /\ pc' = "Engine"
      BY <2>1, <2>2 DEF Continue, X, LatestId, projection
    <3> QED
      BY <2>1, <3>1, <3>2, LogStill DEF StepHolds, Resting
  <2> QED
    BY <2>1, <2>2, LogStill, LeaveUnbound
<1>2. CASE EngineWrites \/ EngineExits \/ SnapshotWork
  <2>1. pc \in Working /\ pc' \in Working /\ UNCHANGED projection /\ UNCHANGED cur
    BY <1>2 DEF EngineWrites, EngineExits, SnapshotWork, At, Goto, Working, process
  <2> QED
    BY <2>1, GoOnWorking
<1>3. CASE ReferWork
  <2>1. /\ pc \in Working /\ UNCHANGED projection
        /\ (pc' \in Working /\ UNCHANGED cur) \/ Leave
    BY <1>3 DEF ReferWork, At, Goto, Working
  <2> QED
    BY <2>1, GoOnWorking, LogStill, LeaveUnbound
<1>4. CASE FinishNormal \/ FinishRejected
  <2> DEFINE view(state) == [exec[X] EXCEPT !.state = state, !.end = CurrentCommit]
  <2>1. pc \in MidStep /\ X \in OpenExecutions
    BY <1>4 DEF FinishNormal, FinishRejected, At, MidStep, Looping, StepHolds, Working
  <2>2. /\ X \in InFlight /\ exec[X].state = "EXECUTING" /\ X \in Execution
        /\ issue[cur] = "ACTIVE" /\ exec[X] \in View /\ exec \in [Execution -> View]
    BY <2>1, SteppedExists
    DEF InFlight, OpenExecutions, OneInFlight, X, LatestId, IInv, ProjectionInv,
        ProjectionTypeOK
  <2>3. exec[X].intent = NoCommit /\ CurrentCommit \in Nat
    BY <2>2, CurrentIsMade DEF IInv, ProjectionInv, PinsHold, Pinned, Made
  <2>4. \A state \in {"VALIDATING", "REJECTED"} :
          view(state) \in View /\ view(state).state = state /\ view(state).intent = NoCommit
    BY <2>2, <2>3 DEF View, ExecutionState
  <2>5. PICK state \in {"VALIDATING", "REJECTED"} :
          /\ exec' = [exec EXCEPT ![X] = view(state)]
          /\ UNCHANGED <<issue, base, attempts, poisoned>>
          /\ \/ pc' = "Loop"
             \/ state = "REJECTED" /\ pc' \in {"Reset", "Decompose"} /\ cur' = cur
    <3>1. CASE FinishNormal
      BY <2>2, <3>1 DEF FinishNormal, ExecutionFinished, ExecutionTransition, Done
    <3>2. CASE FinishRejected
      BY <2>2, <3>2
      DEF FinishRejected, ExecutionFinishedRejected, ExecutionTransition, Goto
    <3> QED
      BY <1>4, <3>1, <3>2
  <2>6. OneInFlight' /\ InFlight' = {}
    BY <2>2, <2>4, <2>5, OnlyOneEnds
  <2>7. CASE pc' \in {"Loop", "Reset"}
    BY <2>5, <2>6, <2>7, ArriveQuiet DEF Quiet, Resting, LogReplays
  <2>8. CASE state = "REJECTED" /\ pc' = "Decompose" /\ cur' = cur
    <3>1. X' = X
      BY <2>5, <2>8 DEF X, LatestId
    <3>2. Ex'.state = "REJECTED"
      BY <2>2, <2>4, <2>5, <2>8, <3>1 DEF Ex
    <3> QED
      BY <2>2, <2>5, <2>6, <2>8, <3>2 DEF StepHolds, Working, LogReplays
  <2> QED
    BY <2>5, <2>7, <2>8
<1>5. CASE Decompose
  <2>1. /\ pc = "Decompose" /\ IssueClosed(cur, "NEEDS_DECOMPOSITION") /\ pc' = "Reset"
    BY <1>5 DEF Decompose, At, Goto
  <2>2. InFlight = {} /\ UNCHANGED <<exec, poisoned>>
    BY <2>1 DEF StepHolds, Resting, IssueClosed
  <2> QED
    BY <2>1, <2>2, FlightStaysEmpty, ArriveQuiet DEF Quiet, Resting, LogReplays
<1> QED
  BY <1>1, <1>2, <1>3, <1>4, <1>5

\* The VALIDATING and REVIEWING rows, and the reset after a rejection.
LEMMA VerdictTurn ==
  ASSUME IInv, TurnInv,
         ResetWorkspace \/ CleanWorkspace \/ RunGate \/ GateVerdict \/ Review
  PROVE  TurnInv'
<1> USE DEF TurnInv
<1>0. ProjectionTypeOK
  BY DEF IInv, ProjectionInv
<1>1. CASE ResetWorkspace \/ CleanWorkspace
  <2>1. pc \in {"Reset", "Clean"} /\ UNCHANGED projection /\ pc' \in {"Clean", "Loop"}
    BY <1>1 DEF ResetWorkspace, CleanWorkspace, At, Goto, Done
  <2>2. InFlight' = {}
    BY <2>1, LogStill DEF StepHolds, Resting
  <2> QED
    BY <2>1, <2>2, LogStill, ArriveQuiet DEF Quiet, Resting
<1>2. CASE RunGate
  <2>1. PICK i \in Issues :
          InState(i, "VALIDATING") /\ Continue(i, "Gate") /\ UNCHANGED projection
    BY <1>2 DEF RunGate
  <2>2. InFlight' = {}
    BY <2>1, NothingInFlight, LogStill DEF InState
  <2>3. pc' = "Gate" /\ Ex' = Latest(i)
    BY <2>1 DEF Continue, Ex, X, Latest, LatestId, projection
  <2> QED
    BY <2>1, <2>2, <2>3, LogStill DEF InState, StepHolds, Working
<1>3. CASE GateVerdict
  <2> DEFINE passed == [exec[X] EXCEPT !.state = "REVIEWING", !.validated = exec[X].end]
             failed == [exec[X] EXCEPT !.state = "REJECTED"]
  <2>1. pc = "Gate" /\ pc \in MidStep
    BY <1>3 DEF GateVerdict, At, MidStep, Looping
  <2>2. /\ X \in Execution /\ exec[X].state = "VALIDATING" /\ exec[X] \in View
        /\ Ex = exec[X] /\ InFlight = {} /\ exec[X].intent = NoCommit
    BY <2>1, SteppedExists DEF StepHolds, Resting, Pinned
  <2>3. PICK view \in {passed, failed} :
          /\ exec' = [exec EXCEPT ![X] = view] /\ UNCHANGED <<issue, base, attempts, poisoned>>
          /\ pc' \in {"Loop", "Reset"}
    BY <1>3, <2>2
    DEF GateVerdict, ValidationPassed, ValidationFailed, ExecutionTransition, Done, Goto
  <2>4. view \in View /\ view.state # "EXECUTING" /\ view.intent = NoCommit
    BY <2>2 DEF View, ExecutionState
  <2>5. OneInFlight' /\ InFlight' = {}
    BY <1>0, <2>2, <2>3, <2>4, FlightEnds
  <2> QED
    BY <2>3, <2>5, ArriveQuiet DEF Quiet, Resting, LogReplays
<1>4. CASE Review
  <2>1. PICK i \in Issues :
          /\ InState(i, "REVIEWING")
          /\ \/ ReviewApproved(LatestId(i), Latest(i).end) /\ Done
             \/ \E f \in Feedbacks : ReviewRejected(LatestId(i), f) /\ Continue(i, "Reset")
             \/ IssueClosed(i, "NEEDS_HUMAN") /\ Done
    BY <1>4 DEF Review
  <2> DEFINE x == LatestId(i)
  <2>2. /\ x \in Execution /\ exec[x].state = "REVIEWING" /\ exec[x] \in View
        /\ issue[i] = "ACTIVE" /\ exec[x].intent = NoCommit /\ Latest(i) = exec[x]
    BY <2>1, InStateExists DEF Pinned
  <2>3. InFlight = {}
    BY <2>1, <2>2, NothingInFlight DEF InState
  <2>4. CASE IssueClosed(i, "NEEDS_HUMAN") /\ Done
    <3>1. UNCHANGED <<exec, poisoned>> /\ pc' = "Loop"
      BY <2>2, <2>4 DEF IssueClosed, Done
    <3> QED
      BY <2>3, <3>1, FlightStaysEmpty, ArriveQuiet DEF LogReplays
  <2>5. ASSUME NEW view \in View, view.state # "EXECUTING", view.intent = NoCommit,
               exec' = [exec EXCEPT ![x] = view],
               UNCHANGED <<issue, base, attempts, poisoned>>, pc' \in {"Loop", "Reset"}
        PROVE  TurnInv'
    <3>1. OneInFlight' /\ InFlight' = {}
      BY <1>0, <2>2, <2>3, <2>5, FlightEnds
    <3> QED
      BY <2>5, <3>1, ArriveQuiet DEF Quiet, Resting, LogReplays
  <2>6. CASE ReviewApproved(x, exec[x].end) /\ Done
    <3> DEFINE view == [exec[x] EXCEPT !.state = "ACCEPTED", !.reviewed = exec[x].end]
    <3>1. view \in View /\ view.state # "EXECUTING" /\ view.intent = NoCommit
      BY <2>2 DEF View, ExecutionState
    <3> QED
      BY <2>2, <2>5, <2>6, <3>1 DEF ReviewApproved, ExecutionTransition, Done
  <2>7. ASSUME NEW f \in Feedbacks, ReviewRejected(x, f), Continue(i, "Reset")
        PROVE  TurnInv'
    <3> DEFINE view == [exec[x] EXCEPT !.state = "REJECTED", !.feedback = f]
    <3>1. view \in View /\ view.state # "EXECUTING" /\ view.intent = NoCommit
      BY <2>2 DEF View, ExecutionState
    <3> QED
      BY <2>2, <2>5, <2>7, <3>1 DEF ReviewRejected, ExecutionTransition, Continue
  <2> QED
    BY <2>1, <2>2, <2>4, <2>6, <2>7
<1> QED
  BY <1>1, <1>2, <1>3, <1>4

\* The ACCEPTED row.
LEMMA CommitTurn ==
  ASSUME IInv, TurnInv,
         IntendCommit \/ Merge \/ RecordMerge \/ CompleteIssue \/ DropAttemptRef
  PROVE  TurnInv'
<1> USE DEF TurnInv
<1>0. exec \in [Execution -> View]
  BY DEF IInv, ProjectionInv, ProjectionTypeOK
<1>1. CASE IntendCommit
  <2>1. PICK i \in Issues :
          /\ InState(i, "ACCEPTED") /\ Latest(i).intent = NoCommit
          /\ \/ CommitIntent(LatestId(i), Latest(i).end) /\ Done
             \/ Leave /\ UNCHANGED projection
    BY <1>1 DEF IntendCommit
  <2> DEFINE x == LatestId(i)
  <2>2. /\ x \in Execution /\ exec[x].state = "ACCEPTED" /\ exec[x].intent = NoCommit
        /\ issue[i] = "ACTIVE" /\ x[1] = i /\ i = NextActionable
    BY <2>1, InStateExists DEF LatestId, InState, Stepping
  <2>3. InFlight = {}
    BY <2>1, NothingInFlight DEF InState
  <2>4. CASE CommitIntent(x, Latest(i).end) /\ Done
    <3>1. /\ exec' = [exec EXCEPT ![x] = [@ EXCEPT !.intent = Latest(i).end]]
          /\ UNCHANGED <<issue, base, attempts, poisoned, plan>> /\ pc' = "Loop"
      BY <2>2, <2>4 DEF CommitIntent, Done
    <3>2. InFlight' \subseteq {x}
      <4>1. \A y \in Execution \ {x} : exec'[y] = exec[y]
        BY <1>0, <3>1
      <4>2. InFlight' \ {x} \subseteq InFlight
        BY <4>1 DEF InFlight, OpenExecutions, Unwitnessed
      <4> QED
        BY <2>3, <4>2
    <3>3. OneInFlight'
      BY <2>2, <3>1, <3>2 DEF OneInFlight, LatestId
    <3>4. StepHolds'
      BY <2>2, <3>1, <3>2, SameTurn DEF StepHolds, Working, Resting
    <3> QED
      BY <3>1, <3>3, <3>4 DEF LogReplays
  <2> QED
    BY <2>1, <2>4, LogStill, LeaveUnbound
<1>2. CASE Merge
  <2>1. PICK i \in Issues :
          /\ InState(i, "ACCEPTED") /\ Latest(i).intent # NoCommit /\ ~Latest(i).created
          /\ UNCHANGED projection /\ (Leave \/ Continue(i, "MergeFact"))
    BY <1>2 DEF Merge
  <2>2. CASE Continue(i, "MergeFact")
    <3>1. LatestId(i) \in Unwitnessed
      BY <2>1, InStateExists DEF Unwitnessed
    <3>2. X' = LatestId(i) /\ pc' = "MergeFact"
      BY <2>1, <2>2 DEF Continue, X, LatestId, projection
    <3> QED
      BY <2>1, <3>1, <3>2, LogStill DEF StepHolds, Working, Resting
  <2> QED
    BY <2>1, <2>2, LogStill, LeaveUnbound
<1>3. CASE RecordMerge
  <2> DEFINE view == [exec[X] EXCEPT !.created = TRUE]
  <2>1. pc = "MergeFact" /\ pc \in MidStep /\ pc' = "Loop"
    BY <1>3 DEF RecordMerge, At, MidStep, Looping, Done
  <2>2. X \in Unwitnessed /\ X \in InFlight /\ exec[X] \in View /\ Pinned(exec[X])
    BY <2>1, SteppedExists DEF StepHolds, InFlight
  <2>3. /\ exec[X].state = "ACCEPTED" /\ exec[X].intent # NoCommit /\ ~exec[X].created
    BY <2>2 DEF Unwitnessed, Pinned
  <2>4. view \in View /\ view.state = "ACCEPTED" /\ view.created
    BY <2>2, <2>3 DEF View
  <2>5. /\ exec' = [exec EXCEPT ![X] = view]
        /\ UNCHANGED <<issue, base, attempts, poisoned>>
    BY <1>3, <2>3 DEF RecordMerge, CommitCreated
  <2>6. OneInFlight' /\ InFlight' = {}
    BY <2>2, <2>4, <2>5, OnlyOneEnds
  <2> QED
    BY <2>1, <2>5, <2>6, ArriveQuiet DEF LogReplays
<1>4. CASE CompleteIssue
  <2>1. PICK i \in Issues :
          /\ InState(i, "ACCEPTED") /\ Latest(i).created /\ IssueClosed(i, "DONE")
          /\ Continue(i, "DropRef")
    BY <1>4 DEF CompleteIssue
  <2>2. InFlight = {} /\ issue[i] = "ACTIVE"
    BY <2>1, NothingInFlight DEF InState
  <2>3. /\ UNCHANGED <<exec, poisoned>> /\ pc' = "DropRef" /\ cur' = i
        /\ issue' = [issue EXCEPT ![i] = "DONE"]
    BY <2>1, <2>2 DEF IssueClosed, Continue
  <2>4. OneInFlight' /\ InFlight' = {}
    BY <2>2, <2>3, FlightStaysEmpty
  <2>5. issue'[cur'] = "DONE"
    BY <2>3 DEF IInv, ProjectionInv, ProjectionTypeOK
  <2> QED
    BY <2>3, <2>4, <2>5 DEF StepHolds, Working, LogReplays
<1>5. CASE DropAttemptRef
  <2>1. pc = "DropRef" /\ UNCHANGED projection /\ pc' = "Loop"
    BY <1>5 DEF DropAttemptRef, At, Done
  <2>2. InFlight' = {}
    BY <2>1, LogStill DEF StepHolds, Resting
  <2> QED
    BY <2>1, <2>2, LogStill, ArriveQuiet
<1> QED
  BY <1>1, <1>2, <1>3, <1>4, <1>5

LEMMA TurnPreserved ==
  ASSUME IInv, TurnInv, [Next]_vars
  PROVE  TurnInv'
<1>1. CASE UNCHANGED vars
  <2>1. UNCHANGED <<projection, process>>
    BY <1>1 DEF vars
  <2>2. UNCHANGED <<issue, plan, pc, cur, attempts, exec>>
    BY <2>1 DEF projection, process
  <2>3. X' = X /\ Ex' = Ex
    BY <2>2 DEF X, Ex, LatestId
  <2> QED
    BY <2>1, <2>2, <2>3, LogStill, SameTurn DEF TurnInv, StepHolds
<1>2. CASE LoopStep
  BY <1>2, ChoiceTurn, ExecutingTurn, VerdictTurn, CommitTurn DEF LoopStep
<1> QED
  BY <1>1, <1>2, RecoveryTurn, StartupTurn, StopTurn DEF Next, Step

LEMMA InitTurn ==
  ASSUME Init
  PROVE  TurnInv
<1>1. InFlight = {}
  BY DEF Init, ProjectionInit, NoView, InFlight, OpenExecutions, Unwitnessed
<1> QED
  BY <1>1
  DEF Init, ProjectionInit, ProcessInit, TurnInv, OneInFlight, StepHolds, LogReplays,
      Working, Resting

-----------------------------------------------------------------------------
(* Evidence.                                                               *)

Evidenced == {"VALIDATING", "REVIEWING", "REJECTED", "ACCEPTED"}

\* What the log may do without touching the refs: no execution finishes, and no
\* DONE issue is reopened.
KeepsEvidence ==
  /\ \A i \in Issues : issue[i] = "DONE" => issue'[i] = "DONE"
  /\ \A x \in Execution : exec'[x].state \in Evidenced =>
       exec[x].state \in Evidenced /\ exec'[x].end = exec[x].end

LEMMA EvidenceFrame ==
  ASSUME EvidenceInv, KeepsEvidence, UNCHANGED attemptRef, pc' # "Finish"
  PROVE  EvidenceInv'
<1>1. \A x \in Execution : x[1] \in Issues
  BY DEF Execution
<1> QED
  BY <1>1 DEF EvidenceInv, EvidenceKept, KeepsEvidence, Evidenced

\* The handlers that finish no execution.
LEMMA HandlersKeepEvidence ==
  ASSUME ProjectionInv, NEW i \in Issues, NEW x \in Execution,
         \/ UNCHANGED projection
         \/ IssueCreated(i) \/ (\E c \in Nat : IssueActivated(i, c))
         \/ \E final \in IssueTerminal : IssueClosed(i, final)
         \/ \E n \in 1 .. MaxAttempts, u \in SUBSET Untracked : ExecutionSpawned(i, n, u)
         \/ ExecutionCrashed(x)
         \/ \E c \in Nat : ValidationPassed(x, c) \/ ReviewApproved(x, c) \/ CommitIntent(x, c)
         \/ ValidationFailed(x) \/ (\E f \in Feedbacks : ReviewRejected(x, f))
         \/ CommitCreated(x)
  PROVE  KeepsEvidence
<1>0. issue \in [Issues -> IssueState] /\ exec \in [Execution -> View]
  BY DEF ProjectionInv, ProjectionTypeOK
<1>1. CASE UNCHANGED <<issue, exec>>
  BY <1>1 DEF KeepsEvidence
<1>2. CASE IssueCreated(i) \/ (\E c \in Nat : IssueActivated(i, c))
           \/ (\E final \in IssueTerminal : IssueClosed(i, final))
  BY <1>0, <1>2 DEF KeepsEvidence, IssueCreated, IssueActivated, IssueClosed, Poison
<1>3. ASSUME NEW n \in 1 .. MaxAttempts, NEW u \in SUBSET Untracked,
             ExecutionSpawned(i, n, u)
      PROVE  KeepsEvidence
  <2> DEFINE view == [NoView EXCEPT !.state = "EXECUTING", !.untracked = u]
  <2>1. CASE Poison
    BY <2>1 DEF Poison, KeepsEvidence
  <2>2. CASE ~Poison
    <3>1. exec' = [exec EXCEPT ![<<i, n>>] = view] /\ issue' = issue
      BY <1>3, <2>2 DEF ExecutionSpawned
    <3>2. view.state = "EXECUTING"
      BY DEF NoView
    <3> QED
      BY <1>0, <3>1, <3>2 DEF KeepsEvidence, Evidenced, Execution
  <2> QED
    BY <2>1, <2>2
<1>4. ASSUME NEW from \in Evidenced \cup {"EXECUTING"}, NEW view \in View,
             exec[x].state = from, from # "EXECUTING" \/ view.state = "CRASHED",
             view.end = exec[x].end, issue' = issue, exec' = [exec EXCEPT ![x] = view]
      PROVE  KeepsEvidence
  BY <1>0, <1>4 DEF KeepsEvidence, Evidenced
<1>5. CASE ~ UNCHANGED <<issue, exec>>
           /\ \/ ExecutionCrashed(x)
              \/ \E c \in Nat :
                   ValidationPassed(x, c) \/ ReviewApproved(x, c) \/ CommitIntent(x, c)
              \/ ValidationFailed(x) \/ (\E f \in Feedbacks : ReviewRejected(x, f))
              \/ CommitCreated(x)
  <2>1. exec[x] \in View
    BY <1>0
  <2>2. CASE ExecutionCrashed(x)
    <3> DEFINE view == [exec[x] EXCEPT !.state = "CRASHED"]
    <3>1. view \in View /\ view.state = "CRASHED" /\ view.end = exec[x].end
      BY <2>1 DEF View, ExecutionState
    <3> QED
      BY <1>4, <1>5, <2>2, <3>1 DEF ExecutionCrashed, ExecutionTransition, Poison
  <2>3. ASSUME NEW c \in Nat, ValidationPassed(x, c)
        PROVE  KeepsEvidence
    <3> DEFINE view == [exec[x] EXCEPT !.state = "REVIEWING", !.validated = c]
    <3>1. view \in View /\ view.end = exec[x].end
      BY <2>1 DEF View, ExecutionState
    <3> QED
      BY <1>4, <1>5, <2>3, <3>1 DEF ValidationPassed, ExecutionTransition, Poison, Evidenced
  <2>4. ASSUME NEW c \in Nat, ReviewApproved(x, c)
        PROVE  KeepsEvidence
    <3> DEFINE view == [exec[x] EXCEPT !.state = "ACCEPTED", !.reviewed = c]
    <3>1. view \in View /\ view.end = exec[x].end
      BY <2>1 DEF View, ExecutionState
    <3> QED
      BY <1>4, <1>5, <2>4, <3>1 DEF ReviewApproved, ExecutionTransition, Poison, Evidenced
  <2>5. ASSUME NEW c \in Nat, CommitIntent(x, c)
        PROVE  KeepsEvidence
    <3> DEFINE view == [exec[x] EXCEPT !.intent = c]
    <3>1. view \in View /\ view.end = exec[x].end
      BY <2>1 DEF View
    <3> QED
      BY <1>4, <1>5, <2>5, <3>1 DEF CommitIntent, Poison, Evidenced
  <2>6. CASE ValidationFailed(x)
    <3> DEFINE view == [exec[x] EXCEPT !.state = "REJECTED"]
    <3>1. view \in View /\ view.end = exec[x].end
      BY <2>1 DEF View, ExecutionState
    <3> QED
      BY <1>4, <1>5, <2>6, <3>1 DEF ValidationFailed, ExecutionTransition, Poison, Evidenced
  <2>7. ASSUME NEW f \in Feedbacks, ReviewRejected(x, f)
        PROVE  KeepsEvidence
    <3> DEFINE view == [exec[x] EXCEPT !.state = "REJECTED", !.feedback = f]
    <3>1. view \in View /\ view.end = exec[x].end
      BY <2>1 DEF View, ExecutionState
    <3> QED
      BY <1>4, <1>5, <2>7, <3>1 DEF ReviewRejected, ExecutionTransition, Poison, Evidenced
  <2>8. CASE CommitCreated(x)
    <3> DEFINE view == [exec[x] EXCEPT !.created = TRUE]
    <3>1. view \in View /\ view.end = exec[x].end
      BY <2>1 DEF View
    <3> QED
      BY <1>4, <1>5, <2>8, <3>1 DEF CommitCreated, Poison, Evidenced
  <2> QED
    BY <1>5, <2>2, <2>3, <2>4, <2>5, <2>6, <2>7, <2>8
<1> QED
  BY <1>1, <1>2, <1>3, <1>5 DEF projection

\* The steps that touch neither a ref nor the end of an execution.
LEMMA EvidenceUntouched ==
  ASSUME IInv, TurnInv, Next, ~ReferResidue, ~ReferWork,
         ~FinishNormal, ~FinishRejected, ~DropAttemptRef
  PROVE  KeepsEvidence /\ UNCHANGED attemptRef /\ pc' # "Finish"
<1> USE DEF repository
<1>0. ProjectionInv
  BY DEF IInv
<1>a. UNCHANGED projection => KeepsEvidence
  BY DEF projection, KeepsEvidence
<1>b. ASSUME NEW i \in Issues,
             \/ IssueCreated(i) \/ (\E c \in Nat : IssueActivated(i, c))
             \/ \E final \in IssueTerminal : IssueClosed(i, final)
             \/ \E n \in 1 .. MaxAttempts, u \in SUBSET Untracked : ExecutionSpawned(i, n, u)
      PROVE  KeepsEvidence
  <2>1. <<i, 1>> \in Execution
    BY BudgetAssumption DEF Execution
  <2> QED
    BY <1>0, <1>b, <2>1, HandlersKeepEvidence
<1>c. ASSUME NEW x \in Execution,
             \/ ExecutionCrashed(x)
             \/ \E c \in Nat : ValidationPassed(x, c) \/ ReviewApproved(x, c) \/ CommitIntent(x, c)
             \/ ValidationFailed(x) \/ (\E f \in Feedbacks : ReviewRejected(x, f))
             \/ CommitCreated(x)
      PROVE  KeepsEvidence
  <2>1. x[1] \in Issues
    BY DEF Execution
  <2> QED
    BY <1>0, <1>c, <2>1, HandlersKeepEvidence
<1>2. CASE Kill \/ Interrupt \/ ReviewerUnavailable
  BY <1>2, <1>a DEF Kill, Interrupt, ReviewerUnavailable, Exit
<1>3. CASE Start \/ PreserveResidue \/ NoOrphans \/ CheckUnwitnessed \/ RedoMerge
           \/ CheckWorkspace \/ ArchiveResidue \/ RestoreWorkspace
  BY <1>3, <1>a
  DEF Start, PreserveResidue, NoOrphans, CheckUnwitnessed, RedoMerge, CheckWorkspace,
      ArchiveResidue, RestoreWorkspace, Goto, Die, Exit
<1>4. CASE CrashOrphan
  <2>1. Orphan \in Execution
    BY <1>0, <1>4, OrphanExists DEF CrashOrphan, At, IInv, ProcessInv, ControlHolds
  <2> QED
    BY <1>4, <1>c, <2>1 DEF CrashOrphan, Goto
<1>5. CASE RedoFact
  <2>1. Intended \in Execution
    BY <1>0, <1>5, IntendedExists DEF RedoFact, At, IInv, ProcessInv, ControlHolds
  <2> QED
    BY <1>5, <1>c, <2>1 DEF RedoFact, Goto
<1>6. CASE StartupStep
  <2>1. CASE Ingest
    <3> DEFINE new == {i \in Issues : issue[i] = "ABSENT"}
    <3>1. new # {} => First(new) \in Issues
      BY FirstIsMember
    <3> QED
      BY <1>a, <1>b, <2>1, <3>1 DEF Ingest, Goto
  <2>2. CASE (\E req \in Requests : Select(req)) \/ CheckoutTarget \/ Shutdown
    BY <1>a, <2>2 DEF Select, CheckoutTarget, Shutdown, Goto, Die, Exit
  <2> QED
    BY <1>6, <2>1, <2>2 DEF StartupStep
<1>7. CASE Drained \/ BudgetStop \/ CheckoutIssue \/ EngineWrites \/ EngineExits
           \/ SnapshotWork \/ ResetWorkspace \/ CleanWorkspace \/ RunGate \/ Merge
  BY <1>7, <1>a
  DEF Drained, BudgetStop, CheckoutIssue, EngineWrites, EngineExits, SnapshotWork,
      ResetWorkspace, CleanWorkspace, RunGate, Merge, Leave, Goto, Continue, Done, At, process
<1>8. CASE Activate \/ Escalate \/ Spawn \/ Decompose \/ CompleteIssue
  <2>1. UNCHANGED attemptRef /\ pc' # "Finish"
    BY <1>8 DEF Activate, Escalate, Spawn, Decompose, CompleteIssue, Done, Goto, Continue
  <2>2. CASE Activate
    <3>1. tip[Target] \in Nat
      BY CurrentIsMade DEF IInv, Made
    <3> QED
      BY <1>b, <2>1, <2>2, <3>1 DEF Activate
  <2>3. CASE Spawn
    <3>1. PICK i \in Issues :
            ~CapHit(i) /\ ExecutionSpawned(i, attempts[i] + 1, dirt \ {"tracked"})
      BY <2>3 DEF Spawn
    <3>2. attempts[i] + 1 \in 1 .. MaxAttempts
      BY <1>0, <3>1, BudgetAssumption DEF ProjectionInv, ProjectionTypeOK, CapHit
    <3>3. dirt \ {"tracked"} \in SUBSET Untracked
      BY DEF IInv, RepositoryInv, RepositoryTypeOK, Dirt
    <3> QED
      BY <1>b, <2>1, <3>1, <3>2, <3>3
  <2>4. CASE Escalate \/ Decompose \/ CompleteIssue
    <3>1. pc = "Decompose" => cur \in Issues
      BY SteppedExists DEF MidStep, Looping
    <3> QED
      BY <1>b, <2>1, <2>4, <3>1 DEF Escalate, Decompose, CompleteIssue, At, IssueTerminal
  <2> QED
    BY <1>8, <2>2, <2>3, <2>4
<1>9. CASE GateVerdict \/ RecordMerge
  <2>1. UNCHANGED attemptRef /\ pc' # "Finish" /\ pc \in MidStep
    BY <1>9 DEF GateVerdict, RecordMerge, Done, Goto, At, MidStep, Looping
  <2>2. X \in Execution /\ Ex.end \in Nat
    BY <2>1, SteppedExists DEF View
  <2> QED
    BY <1>9, <1>c, <2>1, <2>2 DEF GateVerdict, RecordMerge
<1>10. CASE Review \/ IntendCommit
  <2>1. UNCHANGED attemptRef /\ pc' # "Finish"
    BY <1>10 DEF Review, IntendCommit, Done, Leave, Goto, Continue
  <2>2. PICK i \in Issues :
          /\ InState(i, "REVIEWING") \/ InState(i, "ACCEPTED")
          /\ \/ ReviewApproved(LatestId(i), Latest(i).end)
             \/ \E f \in Feedbacks : ReviewRejected(LatestId(i), f)
             \/ IssueClosed(i, "NEEDS_HUMAN")
             \/ CommitIntent(LatestId(i), Latest(i).end)
             \/ UNCHANGED projection
    BY <1>10 DEF Review, IntendCommit
  <2>3. LatestId(i) \in Execution /\ Latest(i).end \in Nat
    BY <2>2, InStateExists DEF View
  <2> QED
    BY <1>a, <1>b, <1>c, <2>1, <2>2, <2>3 DEF IssueTerminal
<1> QED
  BY <1>2, <1>3, <1>4, <1>5, <1>6, <1>7, <1>8, <1>9, <1>10
  DEF Next, Step, RecoveryStep, LoopStep

LEMMA EvidencePreserved ==
  ASSUME IInv, TurnInv, EvidenceInv, [Next]_vars
  PROVE  EvidenceInv'
<1>0. /\ exec \in [Execution -> View] /\ issue \in [Issues -> IssueState]
      /\ attemptRef \in [Execution -> 0 .. Len(commits)]
  BY DEF IInv, ProjectionInv, ProjectionTypeOK, RepositoryInv, RepositoryTypeOK
<1>1. CASE ReferResidue
  <2>1. /\ \A x \in Execution \ {Orphan} : attemptRef'[x] = attemptRef[x]
        /\ UNCHANGED projection /\ pc' = "OrphanFact"
    BY <1>0, <1>1 DEF ReferResidue, SetAttemptRef, Goto
  <2>2. exec[Orphan].state = "EXECUTING"
    BY <1>1, OrphanExists DEF ReferResidue, At, IInv, ProcessInv, ControlHolds
  <2> QED
    BY <2>1, <2>2 DEF EvidenceInv, EvidenceKept, projection
<1>2. CASE ReferWork
  <2>1. X \in Execution /\ exec[X].state = "EXECUTING"
    BY <1>2 DEF ReferWork, At, TurnInv, StepHolds, Working, OpenExecutions
  <2>2. /\ UNCHANGED projection /\ UNCHANGED <<tip, head, cur>>
        /\ \/ attemptRef' = [attemptRef EXCEPT ![X] = CurrentCommit]
           \/ attemptRef' = attemptRef /\ pc' # "Finish"
    BY <1>2 DEF ReferWork, SetAttemptRef, Goto, Leave
  <2>3. X' = X /\ CurrentCommit' = CurrentCommit
    BY <2>2 DEF X, LatestId, projection, CurrentCommit
  <2>4. \A x \in Execution \ {X} : attemptRef'[x] = attemptRef[x]
    BY <1>0, <2>2
  <2>5. pc' = "Finish" => attemptRef'[X] = CurrentCommit
    BY <1>0, <2>1, <2>2
  <2> QED
    BY <2>1, <2>2, <2>3, <2>4, <2>5 DEF EvidenceInv, EvidenceKept, projection
<1>3. CASE FinishNormal \/ FinishRejected
  <2>1. /\ pc = "Finish" /\ pc' # "Finish" /\ UNCHANGED attemptRef
        /\ ExecutionFinished(X, CurrentCommit) \/ ExecutionFinishedRejected(X, CurrentCommit)
    BY <1>3 DEF FinishNormal, FinishRejected, At, Done, Goto, repository
  <2>2. X \in Execution /\ exec[X] \in View /\ exec[X].state = "EXECUTING"
    BY <1>0, <2>1 DEF TurnInv, StepHolds, Working, OpenExecutions
  <2>3. PICK state \in ExecutionState :
          /\ exec' = [exec EXCEPT ![X] =
                        [exec[X] EXCEPT !.state = state, !.end = CurrentCommit]]
          /\ UNCHANGED issue
    BY <2>1, <2>2
    DEF ExecutionFinished, ExecutionFinishedRejected, ExecutionTransition, ExecutionState
  <2>4. exec'[X].end = attemptRef[X] /\ \A x \in Execution \ {X} : exec'[x] = exec[x]
    BY <1>0, <2>1, <2>2, <2>3 DEF EvidenceInv, View
  <2> QED
    BY <2>1, <2>3, <2>4 DEF EvidenceInv, EvidenceKept
<1>4. CASE DropAttemptRef
  <2>1. /\ pc = "DropRef" /\ UNCHANGED projection /\ pc' = "Loop"
        /\ attemptRef' = [attemptRef EXCEPT ![X] = NoCommit]
    BY <1>4 DEF DropAttemptRef, At, Done
  <2>2. issue[cur] = "DONE" /\ X[1] = cur
    BY <2>1 DEF TurnInv, StepHolds, X, LatestId
  <2>3. \A x \in Execution \ {X} : attemptRef'[x] = attemptRef[x]
    BY <1>0, <2>1
  <2> QED
    BY <2>1, <2>2, <2>3 DEF EvidenceInv, EvidenceKept, projection
<1>5. CASE UNCHANGED vars
  <2>1. UNCHANGED <<pc, attemptRef, issue, exec>> /\ CurrentCommit' = CurrentCommit /\ X' = X
    BY <1>5 DEF vars, process, projection, repository, CurrentCommit, X, LatestId
  <2> QED
    BY <2>1 DEF EvidenceInv, EvidenceKept
<1>6. CASE Next /\ ~ReferResidue /\ ~ReferWork /\ ~FinishNormal /\ ~FinishRejected
           /\ ~DropAttemptRef
  BY <1>6, EvidenceUntouched, EvidenceFrame
<1> QED
  BY <1>1, <1>2, <1>3, <1>4, <1>5, <1>6

-----------------------------------------------------------------------------
(* The theorems.                                                           *)

\* What is in flight, and where the process is with it, whatever stops the run.
THEOREM TurnInvariance == Spec => []TurnInv
<1>1. Init => TurnInv
  BY InitTurn
<1>2. IInv /\ TurnInv /\ [Next]_vars => TurnInv'
  BY TurnPreserved
<1> QED
  BY <1>1, <1>2, Invariance, PTL DEF Spec

\* Log replay: no event the loop or recovery appends is ever refused by replay
\* (loop._emit makes it durable before projections.py judges it), for every
\* issues file, plan, engine, gate and sequence of stops.
THEOREM LogAlwaysReplays == Spec => []LogReplays
<1>1. TurnInv => LogReplays
  BY DEF TurnInv
<1> QED
  BY <1>1, TurnInvariance, PTL

\* One engine: whatever the order in which issues were taken up and stopped, at
\* most one execution in the whole queue is EXECUTING, so the residue that check 1
\* finds in the one workspace has one owner.
THEOREM OneEngineRuns == Spec => []OneEngine
<1>1. TurnInv => OneEngine
  BY DEF TurnInv, OneInFlight, OneEngine, InFlight
<1> QED
  BY <1>1, TurnInvariance, PTL

\* EvidenceKept made inductive: between the attempt ref and the event that names its
\* commit (loop.py's _drive), the ref holds what the branch holds.
THEOREM EvidenceInvariance == Spec => []EvidenceInv
<1>1. Init => EvidenceInv
  BY DEF Init, ProjectionInit, ProcessInit, NoView, EvidenceInv, EvidenceKept
<1>2. IInv /\ TurnInv /\ EvidenceInv /\ [Next]_vars => EvidenceInv'
  BY EvidencePreserved
<1> QED
  BY <1>1, <1>2, Invariance, TurnInvariance, PTL DEF Spec

\* Evidence: the commit a finished execution's event names is held by its attempt
\* ref until the issue is DONE, through every stop and every recovery.
THEOREM EvidenceIsKept == Spec => []EvidenceKept
<1>1. EvidenceInv => EvidenceKept
  BY DEF EvidenceInv
<1> QED
  BY <1>1, EvidenceInvariance, PTL

=============================================================================
