----------------------------- MODULE Repository -----------------------------
(***************************************************************************)
(* The target git repository and the adapter operations that change it     *)
(* (src/src/runtime/repo/git_adapter.py): commits with their ancestry,     *)
(* branch tips, HEAD, the worktree's dirt, and the attempt refs that keep  *)
(* an execution's evidence.                                                *)
(*                                                                         *)
(* A commit is its position in `commits'.  It carries its ancestors        *)
(* (itself included), the commits of its first-parent chain, and the       *)
(* second parent a merge has.  Dirt is "tracked" (anything git status      *)
(* shows but ??) and the untracked paths.                                  *)
(***************************************************************************)
EXTENDS Projection

CONSTANT Target   \* the branch approved work is merged into

ASSUME TargetAssumption == Target \notin Issues /\ "tracked" \notin Untracked

VARIABLES
  commits,     \* the commits made so far
  tip,         \* branch -> its tip, NoCommit for a branch that does not exist
  head,        \* the branch HEAD is on
  dirt,        \* what git status reports
  attemptRef,  \* execution -> the commit its attempt ref keeps, or NoCommit
  archive      \* the commits check 3 archived under reconciler refs

repository == <<commits, tip, head, dirt, attemptRef, archive>>

\* issue/<i> is written as the issue i itself.
Branch == Issues \cup {Target}
Dirt == {"tracked"} \cup Untracked
Commit == [anc: SUBSET Nat, first: SUBSET Nat, second: Nat]

Root == [anc |-> {1}, first |-> {1}, second |-> NoCommit]

RepositoryTypeOK ==
  /\ commits \in Seq(Commit)
  /\ tip \in [Branch -> 0 .. Len(commits)]
  /\ head \in Branch
  /\ dirt \subseteq Dirt
  /\ attemptRef \in [Execution -> 0 .. Len(commits)]
  /\ archive \subseteq 1 .. Len(commits)

\* A repository with one commit, checked out clean on the target branch.
RepositoryInit ==
  /\ commits = <<Root>>
  /\ tip = [b \in Branch |-> IF b = Target THEN 1 ELSE NoCommit]
  /\ head = Target
  /\ dirt = {}
  /\ attemptRef = [x \in Execution |-> NoCommit]
  /\ archive = {}

-----------------------------------------------------------------------------
(* Queries.                                                                *)

CurrentCommit == tip[head]
\* Fault: compares with the tip instead of walking its history.
FaultyIsAncestor(a, c) == a = c
IsAncestor(a, c) == a \in commits[c].anc

\* find_merge_commit: a merge on the first-parent chain of the target whose
\* second parent is c.
MergeWitnessed(c) ==
  \E m \in commits[tip[Target]].first : commits[m].second = c

AttemptRefs == {attemptRef[x] : x \in {y \in Execution : attemptRef[y] # NoCommit}}
                 \cup archive

-----------------------------------------------------------------------------
(* Operations.                                                             *)

NewCommit == Len(commits) + 1

ChildOf(parent) ==
  [anc |-> commits[parent].anc \cup {NewCommit},
   first |-> commits[parent].first \cup {NewCommit}, second |-> NoCommit]

MergeOf(parent, merged) ==
  [anc |-> commits[parent].anc \cup commits[merged].anc \cup {NewCommit},
   first |-> commits[parent].first \cup {NewCommit}, second |-> merged]

\* A commit on the branch HEAD is on, leaving `rest' of the dirt behind.
CommitOnHead(rest) ==
  /\ commits' = Append(commits, ChildOf(CurrentCommit))
  /\ tip' = [tip EXCEPT ![head] = NewCommit]
  /\ dirt' = rest

\* git add -A, unstage the excluded paths, commit what is left; no commit when
\* nothing is left.
SnapshotCommit(exclude) ==
  IF dirt \subseteq exclude
  THEN UNCHANGED <<commits, tip, dirt>>
  ELSE CommitOnHead(dirt \cap exclude)

\* git checkout -B b c: refused while anything is dirty.
CheckoutNew(b, c) ==
  /\ dirt = {}
  /\ head' = b
  /\ tip' = [tip EXCEPT ![b] = c]

\* git checkout b, of a branch that exists.
Checkout(b) ==
  /\ dirt = {}
  /\ head' = b

\* Refuses to move an attempt ref off its own history.
MayRefer(x, c) == attemptRef[x] = NoCommit \/ IsAncestor(attemptRef[x], c)
SetAttemptRef(x, c) == attemptRef' = [attemptRef EXCEPT ![x] = c]

\* git reset --hard moves the branch HEAD is on, whichever that is, and drops
\* tracked dirt; git clean -fd is a second command.
ResetHard(c) ==
  /\ tip' = [tip EXCEPT ![head] = c]
  /\ dirt' = dirt \ {"tracked"}

\* merge_to refuses while HEAD is on the target.  A conflict needs the target to
\* hold something the merged commit was not built on.
MayMerge == head # Target
MayConflict(c) == ~IsAncestor(tip[Target], c)
\* Fault: a fast-forward instead of a merge commit.
FaultyMergeTo(c) ==
  /\ MayMerge
  /\ tip' = [tip EXCEPT ![Target] = c]
  /\ UNCHANGED commits

MergeTo(c) ==
  /\ MayMerge
  /\ commits' = Append(commits, MergeOf(tip[Target], c))
  /\ tip' = [tip EXCEPT ![Target] = NewCommit]

=============================================================================
