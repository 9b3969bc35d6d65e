----------------------- MODULE OrchestratorMergeProofs -----------------------
(***************************************************************************)
(* What the history of the repository says about the log, for every issues *)
(* file, budget, engine and sequence of stops.  First, although stops and  *)
(* recovery may move the target branch back: exactly-once merge, and the   *)
(* refinement of Delivery.  Then, when stops leave the target alone and    *)
(* every run has a plan: one issue is ACTIVE at a time, the target moves   *)
(* by merges of approved work on the very commit that work was based on,   *)
(* and an issue that is DONE is merged there.                              *)
(***************************************************************************)
EXTENDS OrchestratorProofs, FiniteSetTheorems

USE DEF NoCommit

-----------------------------------------------------------------------------
(* Ancestry.                                                               *)

\* A commit that exists keeps its ancestors.
LEMMA AncestorsKept ==
  ASSUME Grows, NEW c \in Made
  PROVE  c \in Made' /\ commits'[c] = commits[c]
         /\ \A a : a \in commits'[c].anc <=> a \in commits[c].anc
BY DEF Grows, Made

\* A new commit on ancestors that are closed.
LEMMA NewAncestry ==
  ASSUME commits \in Seq(Commit), AncestryHolds, NEW c \in Commit,
         commits' = Append(commits, c),
         NewCommit \in c.anc, c.anc \subseteq Made \cup {NewCommit},
         \A a \in c.anc \ {NewCommit} : commits[a].anc \subseteq c.anc,
         c.first \subseteq Made \cup {NewCommit}
  PROVE  AncestryHolds'
<1>1. /\ Grows /\ Len(commits') = NewCommit /\ commits'[NewCommit] = c
      /\ Len(commits) \in Nat /\ commits' \in Seq(Commit)
  BY AppendGrows
<1>2. Made' = Made \cup {NewCommit} /\ NewCommit \notin Made
  BY <1>1 DEF Made, NewCommit
<1>3. \A m \in Made : commits'[m] = commits[m]
  BY <1>1 DEF Grows
<1>4. SUFFICES ASSUME NEW m \in Made'
               PROVE  /\ m \in commits'[m].anc
                      /\ commits'[m].anc \subseteq Made' /\ commits'[m].first \subseteq Made'
                      /\ \A a \in commits'[m].anc : commits'[a].anc \subseteq commits'[m].anc
  BY DEF AncestryHolds, IsAncestor
<1>5. CASE m \in Made
  BY <1>2, <1>3, <1>5 DEF AncestryHolds, IsAncestor
<1>6. CASE m = NewCommit
  <2>1. \A a \in c.anc \ {NewCommit} : commits'[a].anc = commits[a].anc
    BY <1>3
  <2> QED
    BY <1>1, <1>2, <1>6, <2>1
<1> QED
  BY <1>2, <1>5, <1>6

\* A commit on the branch that is checked out.
LEMMA ChildAncestry ==
  ASSUME RepositoryInv, AncestryHolds, NEW parent \in Made,
         commits' = Append(commits, ChildOf(parent))
  PROVE  /\ AncestryHolds' /\ Grows
         /\ NewCommit \notin Made /\ NewCommit \in Made' /\ NewCommit \in Nat
         /\ commits'[NewCommit].anc = commits[parent].anc \cup {NewCommit}
         /\ Merges' = Merges
<1> DEFINE c == ChildOf(parent)
<1>0. commits[parent] \in Commit
  BY CurrentIsMade
<1>1. /\ commits \in Seq(Commit) /\ Len(commits) \in Nat
      /\ NewCommit = Len(commits) + 1 /\ NewCommit \in Nat
  BY CurrentIsMade DEF NewCommit
<1>2. c \in Commit /\ c.anc = commits[parent].anc \cup {NewCommit} /\ c.second = NoCommit
      /\ c.first = commits[parent].first \cup {NewCommit}
  <2>1. /\ c.anc = commits[parent].anc \cup {NewCommit} /\ c.second = NoCommit
        /\ c.first = commits[parent].first \cup {NewCommit}
    BY DEF ChildOf
  <2>2. c \in Commit
    BY <1>0, <1>1 DEF ChildOf, Commit
  <2> QED
    BY <2>1, <2>2
<1>3. Grows /\ commits'[NewCommit] = c /\ Len(commits') = NewCommit
  BY <1>1, <1>2, AppendGrows
<1>4. AncestryHolds'
  <2> HIDE DEF c
  <2>1. /\ NewCommit \in c.anc /\ c.anc \subseteq Made \cup {NewCommit}
        /\ \A a \in c.anc \ {NewCommit} : commits[a].anc \subseteq c.anc
        /\ c.first \subseteq Made \cup {NewCommit}
    BY <1>2 DEF AncestryHolds
  <2> QED
    BY <1>1, <1>2, <2>1, NewAncestry DEF c
<1>5. NewCommit \notin Made /\ Made' = Made \cup {NewCommit}
  BY <1>1, <1>3 DEF Made
<1>6. Merges' = Merges
  <2>1. DOMAIN commits = Made /\ DOMAIN commits' = Made'
    BY <1>1, <1>2, <1>3 DEF Made
  <2>2. \A m \in Made : commits'[m] = commits[m]
    BY <1>3 DEF Grows
  <2> QED
    BY <1>2, <1>3, <1>5, <2>1, <2>2 DEF Merges
<1> QED
  BY <1>1, <1>2, <1>3, <1>4, <1>5, <1>6

\* A merge of one commit into the target.
LEMMA MergeAncestry ==
  ASSUME RepositoryInv, AncestryHolds, NEW parent \in Made, NEW merged \in Made,
         commits' = Append(commits, MergeOf(parent, merged))
  PROVE  /\ AncestryHolds' /\ Grows
         /\ NewCommit \notin Made /\ NewCommit \in Made' /\ NewCommit \in Nat
         /\ commits'[NewCommit].anc
              = commits[parent].anc \cup commits[merged].anc \cup {NewCommit}
         /\ commits'[NewCommit].second = merged
         /\ Merges' = Merges \cup {NewCommit} /\ Merges \subseteq Made
<1> DEFINE c == MergeOf(parent, merged)
<1>0. /\ commits[parent] \in Commit /\ commits[merged] \in Commit
  BY CurrentIsMade
<1>1. /\ commits \in Seq(Commit) /\ Len(commits) \in Nat
      /\ NewCommit = Len(commits) + 1 /\ NewCommit \in Nat
      /\ merged \in Nat /\ merged # NoCommit
  BY CurrentIsMade DEF NewCommit, Made
<1>2. /\ c \in Commit /\ c.second = merged
      /\ c.anc = commits[parent].anc \cup commits[merged].anc \cup {NewCommit}
      /\ c.first = commits[parent].first \cup {NewCommit}
  <2>1. /\ c.anc = commits[parent].anc \cup commits[merged].anc \cup {NewCommit}
        /\ c.first = commits[parent].first \cup {NewCommit} /\ c.second = merged
    BY DEF MergeOf
  <2>2. c \in Commit
    BY <1>0, <1>1 DEF MergeOf, Commit
  <2> QED
    BY <2>1, <2>2
<1>3. Grows /\ commits'[NewCommit] = c /\ Len(commits') = NewCommit
  BY <1>1, <1>2, AppendGrows
<1>4. AncestryHolds'
  <2> HIDE DEF c
  <2>1. /\ NewCommit \in c.anc /\ c.anc \subseteq Made \cup {NewCommit}
        /\ \A a \in c.anc \ {NewCommit} : commits[a].anc \subseteq c.anc
        /\ c.first \subseteq Made \cup {NewCommit}
    BY <1>2 DEF AncestryHolds
  <2> QED
    BY <1>1, <1>2, <2>1, NewAncestry DEF c
<1>5. NewCommit \notin Made /\ Made' = Made \cup {NewCommit}
  BY <1>1, <1>3 DEF Made
<1>6. Merges' = Merges \cup {NewCommit} /\ Merges \subseteq Made
  <2>1. DOMAIN commits = Made /\ DOMAIN commits' = Made'
    BY <1>1, <1>2, <1>3 DEF Made
  <2>2. \A m \in Made : commits'[m] = commits[m]
    BY <1>3 DEF Grows
  <2> QED
    BY <1>1, <1>2, <1>3, <1>5, <2>1, <2>2 DEF Merges
<1> QED
  BY <1>1, <1>2, <1>3, <1>4, <1>5, <1>6

-----------------------------------------------------------------------------
(* What a step does to the history's part of the invariant.                *)

\* What HistoryHolds reads of an execution: unchanged, except that a new one has no
\* end and that a merge may be recorded.
SameWork ==
  \A x \in Execution :
    /\ exec'[x].end \in {exec[x].end, NoCommit} /\ exec'[x].intent = exec[x].intent
    /\ exec[x].state # "NONE" => exec'[x].state # "NONE"
    /\ exec'[x].created =>
         exec[x].created \/ (exec[x].intent # NoCommit /\ Merged(exec[x].intent))

\* A step of the log that closes no more than it opens.
LEMMA HistoryOfLog ==
  ASSUME HistoryHolds, UNCHANGED <<commits, tip, base>>, SameWork,
         ActiveIssues' \subseteq ActiveIssues, Unwitnessed' \subseteq Unwitnessed
  PROVE  HistoryHolds'
<1> USE DEF HistoryHolds
<1>1. Made' = Made /\ Merges' = Merges /\ \A a, c : IsAncestor(a, c)' <=> IsAncestor(a, c)
  BY DEF Made, Merges, IsAncestor
<1>2. AncestryHolds'
  BY <1>1 DEF AncestryHolds, IsAncestor
<1>3. StackHolds'
  BY DEF StackHolds, IsAncestor, Position
<1>4. EndsHold'
  <2>1. SUFFICES ASSUME NEW x \in Execution, exec'[x].end # NoCommit
                 PROVE  /\ exec'[x].state # "NONE"
                        /\ exec'[x].end \in Made' /\ IsAncestor(base[x[1]], exec[x].end)'
                        /\ \A y \in Execution \ {x} :
                             exec'[y].end = exec'[x].end =>
                               exec'[x].end \in {base[x[1]], base[y[1]]}
    BY DEF EndsHold
  <2>2. \A y \in Execution : exec'[y].end # NoCommit => exec'[y].end = exec[y].end
    BY DEF SameWork
  <2>3. exec'[x].state # "NONE"
    BY <2>1, <2>2 DEF EndsHold, SameWork
  <2> QED
    BY <1>1, <2>1, <2>2, <2>3 DEF EndsHold, IsAncestor
<1>5. MergesHold'
  <2>1. \A c : Merged(c)' <=> Merged(c)
    BY <1>1 DEF Merged
  <2>2. \A x \in Execution : exec'[x].intent = exec[x].intent
    BY DEF SameWork
  <2>3. \A m \in Merges' : \E x \in Execution :
          exec'[x].intent = commits'[m].second /\ exec'[x].intent # base'[x[1]]
    BY <1>1, <2>2 DEF MergesHold
  <2>4. \A x \in Unwitnessed' :
          Merged(exec[x].intent)' => IsAncestor(exec[x].intent, tip[Target])'
    <3>1. SUFFICES ASSUME NEW x \in Unwitnessed, Merged(exec[x].intent)'
                   PROVE  IsAncestor(exec[x].intent, tip[Target])'
      OBVIOUS
    <3>2. x \in Execution /\ exec'[x].intent = exec[x].intent
      BY <2>2 DEF Unwitnessed
    <3>3. Merged(exec[x].intent)
      BY <1>1, <3>1, <3>2 DEF Merged
    <3> QED
      BY <3>2, <3>3 DEF MergesHold, IsAncestor
  <2>5. \A x \in Execution : exec'[x].created =>
          exec'[x].intent # NoCommit /\ Merged(exec[x].intent)'
    <3>1. SUFFICES ASSUME NEW x \in Execution, exec'[x].created
                   PROVE  exec'[x].intent # NoCommit /\ Merged(exec[x].intent)'
      OBVIOUS
    <3>2. exec[x].intent # NoCommit /\ Merged(exec[x].intent) /\ exec'[x].intent = exec[x].intent
      BY <3>1 DEF SameWork, MergesHold
    <3> QED
      BY <1>1, <3>2 DEF Merged
  <2> QED
    BY <2>3, <2>4, <2>5 DEF MergesHold
<1>6. MergedOnce'
  BY <1>1 DEF MergedOnce
<1> QED
  BY <1>2, <1>3, <1>4, <1>5, <1>6

\* A step of the repository that makes no merge: the target need only keep what the
\* invariant says it holds.
LEMMA HistoryOfRepository ==
  ASSUME IInv, HistoryHolds, UNCHANGED projection, Grows, AncestryHolds', Merges' = Merges,
         \A i \in ActiveIssues : IsAncestor(base[i], tip[Target])',
         \A x \in Unwitnessed :
           IsAncestor(exec[x].intent, tip[Target]) => IsAncestor(exec[x].intent, tip[Target])'
  PROVE  HistoryHolds'
<1> USE DEF HistoryHolds
<1>0. UNCHANGED <<issue, base, attempts, exec>>
  BY DEF projection
<1>1. /\ ActiveIssues' = ActiveIssues /\ Unwitnessed' = Unwitnessed
      /\ Made \subseteq Made' /\ Merges \subseteq Made
      /\ \A c \in Made : commits'[c] = commits[c]
  <2>1. DOMAIN commits = Made
    BY CurrentIsMade DEF IInv, Made
  <2> QED
    BY <1>0, <2>1 DEF ActiveIssues, Unwitnessed, Grows, Made, Merges
<1>2. StackHolds'
  <2>1. \A i \in ActiveIssues : base[i] \in Made
    BY DEF ActiveIssues, IInv, ProjectionInv, BasesHold
  <2> QED
    BY <1>0, <1>1, <2>1 DEF StackHolds, IsAncestor, Position
<1>3. EndsHold'
  BY <1>0, <1>1 DEF EndsHold, IsAncestor
<1>4. \A c : Merged(c)' <=> Merged(c)
  BY <1>1 DEF Merged
<1>5. MergesHold'
  <2>1. \A m \in Merges' : \E x \in Execution :
          exec'[x].intent = commits'[m].second /\ exec'[x].intent # base'[x[1]]
    BY <1>0, <1>1 DEF MergesHold
  <2>2. \A x \in Unwitnessed' : Merged(exec[x].intent)' => IsAncestor(exec[x].intent, tip[Target])'
    BY <1>0, <1>1 DEF MergesHold, Merged
  <2>3. \A x \in Execution : exec'[x].created =>
          exec'[x].intent # NoCommit /\ Merged(exec[x].intent)'
    BY <1>0, <1>1 DEF MergesHold, Merged
  <2> QED
    BY <2>1, <2>2, <2>3 DEF MergesHold
<1>6. MergedOnce'
  BY <1>1 DEF MergedOnce
<1> QED
  BY <1>2, <1>3, <1>5, <1>6

\* A commit on the branch that is checked out, be it the target.
LEMMA HistoryOfCommit ==
  ASSUME IInv, HistoryHolds, UNCHANGED projection,
         commits' = Append(commits, ChildOf(CurrentCommit)),
         tip' = [tip EXCEPT ![head] = NewCommit]
  PROVE  HistoryHolds'
<1>1. /\ RepositoryInv /\ CurrentCommit \in Made /\ tip[Target] \in Made
      /\ tip \in [Branch -> 0 .. Len(commits)] /\ Target \in Branch
  BY CurrentIsMade DEF IInv, RepositoryInv, RepositoryTypeOK, Branch
<1>2. /\ AncestryHolds' /\ Grows /\ Merges' = Merges
      /\ commits'[NewCommit].anc = commits[CurrentCommit].anc \cup {NewCommit}
  BY <1>1, ChildAncestry DEF HistoryHolds
<1>3. \A a : IsAncestor(a, tip[Target]) => IsAncestor(a, tip[Target])'
  <2>1. CASE head = Target
    <3>1. tip'[Target] = NewCommit /\ CurrentCommit = tip[Target]
      BY <1>1, <2>1 DEF CurrentCommit
    <3> QED
      BY <1>2, <3>1 DEF IsAncestor
  <2>2. CASE head # Target
    <3>1. tip'[Target] = tip[Target] /\ commits'[tip[Target]] = commits[tip[Target]]
      BY <1>1, <1>2, <2>2 DEF Grows
    <3> QED
      BY <3>1 DEF IsAncestor
  <2> QED
    BY <2>1, <2>2
<1>4. \A i \in ActiveIssues : IsAncestor(base[i], tip[Target])'
  BY <1>3 DEF HistoryHolds, StackHolds, projection, IsAncestor
<1>5. \A x \in Unwitnessed :
        IsAncestor(exec[x].intent, tip[Target]) => IsAncestor(exec[x].intent, tip[Target])'
  BY <1>3 DEF projection, IsAncestor
<1> QED
  BY <1>2, <1>4, <1>5, HistoryOfRepository

LEMMA HistoryOfSnapshot ==
  ASSUME IInv, HistoryHolds, UNCHANGED projection, NEW exclude, SnapshotCommit(exclude)
  PROVE  HistoryHolds'
<1>1. CASE UNCHANGED <<commits, tip>>
  <2>1. Grows /\ AncestryHolds' /\ Merges' = Merges
    BY <1>1, CurrentIsMade, SameGrows
    DEF IInv, HistoryHolds, AncestryHolds, IsAncestor, Made, Merges
  <2> QED
    BY <1>1, <2>1, HistoryOfRepository
    DEF HistoryHolds, StackHolds, projection, IsAncestor
<1>2. CASE ~UNCHANGED <<commits, tip>>
  BY <1>2, HistoryOfCommit DEF SnapshotCommit, CommitOnHead
<1> QED
  BY <1>1, <1>2

\* A branch moved while the history stays.
LEMMA HistoryOfMove ==
  ASSUME IInv, HistoryHolds, UNCHANGED projection, UNCHANGED commits,
         \/ tip'[Target] = tip[Target]
         \/ /\ Unwitnessed = {}
            /\ \A i \in ActiveIssues : IsAncestor(base[i], tip'[Target])
  PROVE  HistoryHolds'
<1>1. Grows /\ AncestryHolds' /\ Merges' = Merges
  BY CurrentIsMade, SameGrows DEF IInv, HistoryHolds, AncestryHolds, IsAncestor, Made, Merges
<1>2. UNCHANGED <<base, exec, issue>>
  BY DEF projection
<1> QED
  BY <1>1, <1>2, HistoryOfRepository DEF HistoryHolds, StackHolds, IsAncestor

\* A merge of intended work that the target does not hold.
LEMMA HistoryOfMerge ==
  ASSUME IInv, TurnInv, HistoryHolds, UNCHANGED projection,
         NEW x \in Unwitnessed, MergeTo(exec[x].intent),
         ~IsAncestor(exec[x].intent, tip[Target])
  PROVE  HistoryHolds' /\ Merged(exec[x].intent)'
<1> USE DEF HistoryHolds
<1> PICK c : c = exec[x].intent
  OBVIOUS
<1>0. UNCHANGED <<issue, base, attempts, exec>>
  BY DEF projection
<1>1. /\ RepositoryInv /\ tip[Target] \in Made /\ Target \in Branch
      /\ tip \in [Branch -> 0 .. Len(commits)] /\ x \in Execution
  BY CurrentIsMade DEF IInv, RepositoryInv, RepositoryTypeOK, Branch, Unwitnessed
<1>2. c \in Made
  BY <1>1 DEF Unwitnessed, IInv, ProjectionInv, PinsHold, Pinned
<1>3. commits' = Append(commits, MergeOf(tip[Target], c)) /\ tip'[Target] = NewCommit
  BY <1>1 DEF MergeTo
<1>4. /\ AncestryHolds' /\ Grows /\ NewCommit \notin Made
      /\ commits'[NewCommit].anc = commits[tip[Target]].anc \cup commits[c].anc \cup {NewCommit}
      /\ commits'[NewCommit].second = c
      /\ Merges' = Merges \cup {NewCommit} /\ Merges \subseteq Made
  BY <1>1, <1>2, <1>3, MergeAncestry
<1>5. /\ ActiveIssues' = ActiveIssues /\ Unwitnessed' = Unwitnessed
      /\ Made \subseteq Made' /\ \A m \in Made : commits'[m] = commits[m]
  BY <1>0, <1>4 DEF ActiveIssues, Unwitnessed, Grows, Made
<1>6. \A a : IsAncestor(a, tip[Target]) => IsAncestor(a, tip[Target])'
  BY <1>3, <1>4 DEF IsAncestor
<1>7. IsAncestor(c, tip[Target])'
  BY <1>2, <1>3, <1>4 DEF IsAncestor, AncestryHolds
<1>8. StackHolds'
  <2>1. \A i \in ActiveIssues : base[i] \in Made
    BY DEF ActiveIssues, IInv, ProjectionInv, BasesHold
  <2>2. \A i \in ActiveIssues : IsAncestor(base[i], tip[Target])'
    BY <1>0, <1>6 DEF StackHolds, IsAncestor
  <2> QED
    BY <1>0, <1>5, <2>1, <2>2 DEF StackHolds, IsAncestor, Position
<1>9. EndsHold'
  BY <1>0, <1>5 DEF EndsHold, IsAncestor
<1>10. ~Merged(c)
  BY DEF MergesHold
<1>11. \A m \in Merges : commits[m].second # c
  BY <1>10 DEF Merged
<1>12. MergedOnce'
  BY <1>4, <1>5, <1>11 DEF MergedOnce
<1>13. c # base[x[1]]
  <2>1. issue[x[1]] = "ACTIVE" /\ x[1] \in Issues
    BY <1>1 DEF TurnInv, OneInFlight, InFlight, Execution
  <2> QED
    BY <2>1 DEF StackHolds, ActiveIssues
<1>14. /\ \A d : Merged(d) => Merged(d)'
       /\ Merged(c)'
       /\ \A d : Merged(d)' => d = c \/ Merged(d)
  <2>1. \A m \in Merges : commits'[m].second = commits[m].second
    BY <1>4, <1>5
  <2> QED
    BY <1>4, <2>1 DEF Merged
<1>15. MergesHold'
  <2>1. \A m \in Merges' : \E y \in Execution :
          exec'[y].intent = commits'[m].second /\ exec'[y].intent # base'[y[1]]
    <3>1. SUFFICES ASSUME NEW m \in Merges'
                   PROVE  \E y \in Execution : /\ exec[y].intent = commits'[m].second
                                               /\ exec[y].intent # base[y[1]]
      BY <1>0
    <3>2. CASE m = NewCommit
      BY <1>1, <1>4, <1>13, <3>2
    <3>3. CASE m \in Merges
      BY <1>4, <1>5, <3>3 DEF MergesHold
    <3> QED
      BY <1>4, <3>2, <3>3
  <2>2. \A y \in Unwitnessed' :
          Merged(exec[y].intent)' => IsAncestor(exec[y].intent, tip[Target])'
    <3>1. SUFFICES ASSUME NEW y \in Unwitnessed, Merged(exec[y].intent)'
                   PROVE  IsAncestor(exec[y].intent, tip[Target])'
      BY <1>5
    <3>2. exec'[y].intent = exec[y].intent
      BY <1>0
    <3>3. exec[y].intent = c \/ Merged(exec[y].intent)
      BY <1>14, <3>1, <3>2 DEF Merged
    <3>4. exec[y].intent = c \/ IsAncestor(exec[y].intent, tip[Target])
      BY <3>3 DEF MergesHold
    <3> QED
      BY <1>6, <1>7, <1>0, <3>4 DEF IsAncestor
  <2>3. \A y \in Execution : exec'[y].created =>
          exec'[y].intent # NoCommit /\ Merged(exec[y].intent)'
    <3>1. SUFFICES ASSUME NEW y \in Execution, exec[y].created
                   PROVE  exec[y].intent # NoCommit /\ Merged(exec[y].intent)'
      BY <1>0
    <3>2. exec[y].intent # NoCommit /\ Merged(exec[y].intent)
      BY <3>1 DEF MergesHold
    <3> QED
      BY <1>0, <1>14, <3>2 DEF Merged
  <2> QED
    BY <2>1, <2>2, <2>3 DEF MergesHold
<1>16. Merged(exec[x].intent)'
  BY <1>0, <1>14 DEF Merged
<1> QED
  BY <1>4, <1>8, <1>9, <1>12, <1>15, <1>16

\* An event about one execution that says nothing new of its work, but that it may
\* be merged.
LEMMA WorkKept ==
  ASSUME ProjectionInv, NEW x \in Execution, NEW view,
         exec' = [exec EXCEPT ![x] = view],
         view.state # "NONE", view.end \in {exec[x].end, NoCommit},
         view.intent = exec[x].intent, exec[x].created => view.created,
         view.created =>
           exec[x].created \/ (exec[x].intent # NoCommit /\ Merged(exec[x].intent))
  PROVE  SameWork /\ Unwitnessed' \subseteq Unwitnessed
<1>1. exec'[x] = view /\ \A y \in Execution \ {x} : exec'[y] = exec[y]
  BY DEF ProjectionInv, ProjectionTypeOK
<1>2. SameWork
  BY <1>1 DEF SameWork
<1>3. Unwitnessed' \subseteq Unwitnessed
  BY <1>1 DEF Unwitnessed
<1> QED
  BY <1>2, <1>3

\* No execution changes.
LEMMA NoWork ==
  ASSUME UNCHANGED exec
  PROVE  SameWork /\ Unwitnessed' = Unwitnessed
BY DEF SameWork, Unwitnessed

\* The earliest issue of all that are ACTIVE is activated on the target's tip.
LEMMA HistoryOfActivate ==
  ASSUME IInv, HistoryHolds, NEW i \in Issues, issue[i] = "PENDING",
         \A j \in ActiveIssues : Position(i) <= Position(j),
         issue' = [issue EXCEPT ![i] = "ACTIVE"],
         base' = [base EXCEPT ![i] = tip[Target]],
         UNCHANGED <<attempts, exec, commits, tip>>
  PROVE  HistoryHolds'
<1> USE DEF HistoryHolds
<1>1. /\ ActiveIssues' = ActiveIssues \cup {i} /\ i \notin ActiveIssues
      /\ base'[i] = tip[Target] /\ \A j \in Issues \ {i} : base'[j] = base[j]
  BY DEF IInv, ProjectionInv, ProjectionTypeOK, ActiveIssues
<1>2. /\ Made' = Made /\ Merges' = Merges /\ Unwitnessed' = Unwitnessed
      /\ \A c : Merged(c)' <=> Merged(c)
  BY DEF Made, Merges, Unwitnessed, Merged
<1>3. \A x \in Execution : exec[x].state # "NONE" => x[1] \in Issues \ {i}
  <2>1. SUFFICES ASSUME NEW x \in Execution, exec[x].state # "NONE", x[1] = i
                 PROVE  FALSE
    BY DEF Execution
  <2>2. x[2] <= attempts[i] /\ x[2] \in 1 .. MaxAttempts
    BY <2>1 DEF IInv, ProjectionInv, PinsHold, Execution
  <2>3. attempts[i] \in Nat /\ ~HasExecution(i)
    BY DEF IInv, ProjectionInv, BasesHold, ProjectionTypeOK
  <2> QED
    BY <2>2, <2>3, BudgetAssumption DEF HasExecution
<1>4. AncestryHolds'
  BY <1>2 DEF AncestryHolds, IsAncestor
<1>5. StackHolds'
  <2>1. tip[Target] \in Made
    BY CurrentIsMade DEF IInv
  <2>2. \A j \in ActiveIssues' : IsAncestor(base[j], tip[Target])'
    <3>1. SUFFICES ASSUME NEW j \in ActiveIssues \cup {i}
                   PROVE  base'[j] \in commits[tip[Target]].anc
      BY <1>1 DEF IsAncestor
    <3>2. CASE j = i
      BY <1>1, <2>1, <3>2 DEF AncestryHolds, IsAncestor
    <3>3. CASE j \in ActiveIssues
      BY <1>1, <3>3 DEF StackHolds, ActiveIssues, IsAncestor
    <3> QED
      BY <3>2, <3>3
  <2>3. ASSUME NEW j \in ActiveIssues', NEW k \in ActiveIssues', Position(j) <= Position(k)
        PROVE  base'[k] \in commits[base'[j]].anc
    <3>1. CASE j = i
      BY <1>1, <2>2, <3>1 DEF IsAncestor
    <3>2. CASE j # i /\ k = i
      <4>1. j \in ActiveIssues /\ j \in Issues
        BY <1>1, <3>2 DEF ActiveIssues
      <4>2. Position(i) = Position(j)
        BY <2>3, <3>2, <4>1, PositionOf
      <4> QED
        BY <3>2, <4>1, <4>2, PositionOf
    <3>3. CASE j # i /\ k # i
      <4>1. j \in ActiveIssues /\ k \in ActiveIssues /\ base'[j] = base[j] /\ base'[k] = base[k]
        BY <1>1, <3>3 DEF ActiveIssues
      <4> QED
        BY <2>3, <4>1 DEF StackHolds, IsAncestor
    <3> QED
      BY <3>1, <3>2, <3>3
  <2> QED
    BY <2>2, <2>3 DEF StackHolds, IsAncestor, Position
<1>6. EndsHold'
  <2>1. \A x \in Execution : exec[x].end # NoCommit => base'[x[1]] = base[x[1]]
    BY <1>1, <1>3 DEF EndsHold
  <2> QED
    BY <1>2, <2>1 DEF EndsHold, IsAncestor
<1>7. MergesHold'
  <2>1. \A x \in Execution : exec[x].intent # NoCommit => base'[x[1]] = base[x[1]]
    BY <1>1, <1>3 DEF IInv, ProjectionInv, PinsHold, Pinned
  <2>2. \A m \in Merges' : \E x \in Execution :
          exec'[x].intent = commits'[m].second /\ exec'[x].intent # base'[x[1]]
    BY <1>2, <2>1 DEF MergesHold, Merges
  <2>3. \A x \in Unwitnessed' : Merged(exec[x].intent)' => IsAncestor(exec[x].intent, tip[Target])'
    BY <1>2 DEF MergesHold, Merged, IsAncestor
  <2>4. \A x \in Execution : exec'[x].created =>
          exec'[x].intent # NoCommit /\ Merged(exec[x].intent)'
    BY <1>2 DEF MergesHold, Merged
  <2> QED
    BY <2>2, <2>3, <2>4 DEF MergesHold
<1>8. MergedOnce'
  BY <1>2 DEF MergedOnce
<1> QED
  BY <1>4, <1>5, <1>6, <1>7, <1>8

\* An execution ends at a commit built on its base, which no other ended at unless
\* it is the base itself.
LEMMA HistoryOfFinish ==
  ASSUME IInv, HistoryHolds, NEW x \in Execution, NEW view,
         exec' = [exec EXCEPT ![x] = view], UNCHANGED <<issue, base, commits, tip>>,
         view.state # "NONE", view.end \in Made,
         view.intent = exec[x].intent, view.created = exec[x].created,
         IsAncestor(base[x[1]], view.end), view.end = base[x[1]] \/ Fresh(view.end)
  PROVE  HistoryHolds'
<1> USE DEF HistoryHolds
<1>1. exec'[x] = view /\ \A y \in Execution \ {x} : exec'[y] = exec[y]
  BY DEF IInv, ProjectionInv, ProjectionTypeOK
<1>2. /\ Made' = Made /\ Merges' = Merges /\ ActiveIssues' = ActiveIssues
      /\ \A c : Merged(c)' <=> Merged(c)
  BY DEF Made, Merges, ActiveIssues, Merged
<1>3. AncestryHolds' /\ StackHolds' /\ MergedOnce'
  BY <1>2 DEF AncestryHolds, StackHolds, MergedOnce, IsAncestor, Position
<1>4. EndsHold'
  <2>1. SUFFICES ASSUME NEW y \in Execution, exec'[y].end # NoCommit
                 PROVE  /\ exec'[y].state # "NONE"
                        /\ exec'[y].end \in Made' /\ IsAncestor(base[y[1]], exec[y].end)'
                        /\ \A z \in Execution \ {y} :
                             exec'[z].end = exec'[y].end =>
                               exec'[y].end \in {base[y[1]], base[z[1]]}
    BY DEF EndsHold
  <2>2. CASE y = x
    BY <1>1, <1>2, <2>2 DEF Fresh, IsAncestor
  <2>3. CASE y # x
    BY <1>1, <1>2, <2>1, <2>3 DEF EndsHold, Fresh, IsAncestor
  <2> QED
    BY <2>2, <2>3
<1>5. MergesHold'
  <2>1. \A y \in Execution : exec'[y].intent = exec[y].intent /\ exec'[y].created = exec[y].created
    BY <1>1
  <2>2. Unwitnessed' = Unwitnessed
    BY <2>1 DEF Unwitnessed
  <2>3. \A m \in Merges' : \E y \in Execution :
          exec'[y].intent = commits'[m].second /\ exec'[y].intent # base'[y[1]]
    BY <1>2, <2>1 DEF MergesHold
  <2>4. \A y \in Unwitnessed' : Merged(exec[y].intent)' => IsAncestor(exec[y].intent, tip[Target])'
    BY <1>2, <2>1, <2>2 DEF MergesHold, Merged, IsAncestor, Unwitnessed
  <2>5. \A y \in Execution : exec'[y].created =>
          exec'[y].intent # NoCommit /\ Merged(exec[y].intent)'
    BY <1>2, <2>1 DEF MergesHold, Merged
  <2> QED
    BY <2>3, <2>4, <2>5 DEF MergesHold
<1> QED
  BY <1>3, <1>4, <1>5

\* The end commit is intended: if some merge made it before, it was for an execution
\* that shares it because this one did nothing, and then the target holds it.
LEMMA HistoryOfIntent ==
  ASSUME IInv, HistoryHolds, NEW x \in Execution, NEW view,
         exec' = [exec EXCEPT ![x] = view], UNCHANGED <<issue, base, commits, tip>>,
         issue[x[1]] = "ACTIVE", exec[x].intent = NoCommit, exec[x].end # NoCommit,
         view.state # "NONE", view.end = exec[x].end, view.intent = exec[x].end,
         view.created = exec[x].created
  PROVE  HistoryHolds'
<1> USE DEF HistoryHolds
<1>1. exec'[x] = view /\ \A y \in Execution \ {x} : exec'[y] = exec[y]
  BY DEF IInv, ProjectionInv, ProjectionTypeOK
<1>2. /\ Made' = Made /\ Merges' = Merges /\ ActiveIssues' = ActiveIssues
      /\ \A c : Merged(c)' <=> Merged(c)
  BY DEF Made, Merges, ActiveIssues, Merged
<1>3. AncestryHolds' /\ StackHolds' /\ MergedOnce'
  BY <1>2 DEF AncestryHolds, StackHolds, MergedOnce, IsAncestor, Position
<1>4. EndsHold'
  <2>1. \A y \in Execution : /\ exec'[y].end = exec[y].end
                            /\ exec[y].state # "NONE" => exec'[y].state # "NONE"
    BY <1>1
  <2> QED
    BY <1>2, <2>1 DEF EndsHold, IsAncestor
<1>5. Merged(exec[x].end) => IsAncestor(exec[x].end, tip[Target])
  <2>1. SUFFICES ASSUME Merged(exec[x].end)
                 PROVE  IsAncestor(exec[x].end, tip[Target])
    OBVIOUS
  <2>2. PICK y \in Execution : exec[y].intent = exec[x].end /\ exec[y].intent # base[y[1]]
    BY <2>1 DEF Merged, MergesHold
  <2>3. exec[y].end = exec[x].end /\ y # x
    BY <2>2 DEF IInv, ProjectionInv, PinsHold, Pinned
  <2>4. exec[x].end = base[x[1]]
    BY <2>2, <2>3 DEF EndsHold
  <2>5. x[1] \in ActiveIssues
    BY DEF ActiveIssues, Execution
  <2> QED
    BY <2>4, <2>5 DEF StackHolds
<1>6. MergesHold'
  <2>1. ~exec[x].created
    BY DEF MergesHold
  <2>2. \A m \in Merges' : \E y \in Execution :
          exec'[y].intent = commits'[m].second /\ exec'[y].intent # base'[y[1]]
    BY <1>1, <1>2 DEF MergesHold, Merges
  <2>3. ASSUME NEW y \in Unwitnessed', Merged(exec[y].intent)'
        PROVE  IsAncestor(exec[y].intent, tip[Target])'
    <3>1. PICK c : c = exec'[y].intent
      OBVIOUS
    <3>2. Merged(c)
      BY <1>2, <2>3, <3>1 DEF Merged
    <3>3. CASE y = x
      BY <1>1, <1>5, <3>1, <3>2, <3>3 DEF IsAncestor
    <3>4. CASE y # x
      <4>1. y \in Unwitnessed /\ c = exec[y].intent
        BY <1>1, <2>3, <3>1, <3>4 DEF Unwitnessed
      <4> QED
        BY <3>1, <3>2, <4>1 DEF MergesHold, IsAncestor
    <3> QED
      BY <3>3, <3>4
  <2>4. \A y \in Execution : exec'[y].created =>
          exec'[y].intent # NoCommit /\ Merged(exec[y].intent)'
    <3>1. SUFFICES ASSUME NEW y \in Execution, exec'[y].created
                   PROVE  exec'[y].intent # NoCommit /\ Merged(exec[y].intent)'
      OBVIOUS
    <3>2. exec[y].created /\ exec'[y].intent = exec[y].intent
      BY <1>1, <2>1, <3>1
    <3> QED
      BY <1>2, <3>2 DEF MergesHold, Merged
  <2> QED
    BY <2>2, <2>3, <2>4 DEF MergesHold
<1> QED
  BY <1>3, <1>4, <1>6

-----------------------------------------------------------------------------
(* Whose turn it is.                                                       *)

\* The plan holds every ACTIVE issue; and the base of an issue has the base of
\* every ACTIVE issue behind it.
Planned == plan # <<>> => ActiveIssues \subseteq PlannedIssues
Foremost(i) == \A j \in ActiveIssues : IsAncestor(base[j], base[i])

\* The issue whose step starts comes before every ACTIVE issue in the file.
LEMMA TurnIsFirst ==
  ASSUME IInv, Planned, NEW i \in Issues, Stepping(i)
  PROVE  /\ \A j \in ActiveIssues : Position(i) <= Position(j)
         /\ plan # <<>> => i \in PlannedIssues
         /\ issue[i] = "PENDING" => DepsMet(i)
<1>1. i = NextActionable /\ Actionable # {}
  BY DEF Stepping
<1>2. CASE plan = <<>>
  <2>1. Actionable \in SUBSET Issues /\ ActiveIssues \subseteq Actionable
    BY <1>2 DEF Actionable, ActiveIssues
  <2>2. i = First(Actionable)
    BY <1>1, <1>2 DEF NextActionable
  <2>3. i \in Actionable
    BY <1>1, <2>1, <2>2, FirstIsMember
  <2> QED
    BY <1>1, <1>2, <2>1, <2>2, <2>3, FirstIsMember DEF Actionable
<1>3. CASE plan # <<>>
  <2>1. PlannedIssues \subseteq Issues /\ plan \in Seq(Issues)
    BY DEF PlannedIssues, IInv, ProcessInv, ProcessTypeOK
  <2>2. ActiveIssues \subseteq PlannedIssues
    BY <1>3 DEF Planned
  <2>3. Actionable = IF ActiveIssues # {} THEN ActiveIssues
                     ELSE {j \in PlannedIssues : issue[j] = "PENDING" /\ DepsMet(j)}
    <3>1. {j \in PlannedIssues : issue[j] = "ACTIVE"} = ActiveIssues
      BY <2>1, <2>2 DEF ActiveIssues
    <3> QED
      BY <1>3, <3>1 DEF Actionable, PlannedIssues
  <2>4. CASE ActiveIssues # {}
    <3>1. i = First(ActiveIssues)
      BY <1>1, <1>3, <2>3, <2>4 DEF NextActionable, ActiveIssues
    <3>2. ActiveIssues \in SUBSET Issues
      BY DEF ActiveIssues
    <3>3. i \in ActiveIssues /\ \A j \in ActiveIssues : Position(i) <= Position(j)
      BY <2>4, <3>1, <3>2, FirstIsMember
    <3> QED
      BY <2>2, <3>3 DEF ActiveIssues
  <2>5. CASE ActiveIssues = {}
    <3>1. i = CHOOSE j \in Actionable : \A k \in Actionable : InPlan(j) <= InPlan(k)
      BY <1>1, <1>3, <2>1, <2>3, <2>5 DEF NextActionable
    <3> DEFINE rank == [j \in Actionable |-> InPlan(j)]
    <3>2. rank \in [Actionable -> Nat]
      <4>1. \A j \in PlannedIssues : InPlan(j) \in Nat
        <5>1. SUFFICES ASSUME NEW j \in PlannedIssues
                       PROVE  InPlan(j) \in Nat
          OBVIOUS
        <5>2. InPlan(j) \in DOMAIN plan
          BY <5>1 DEF PlannedIssues, InPlan
        <5> QED
          BY <2>1, <5>2, LenProperties
      <4> QED
        BY <2>3, <2>5, <4>1
    <3>3. \E j \in Actionable : \A k \in Actionable : rank[j] <= rank[k]
      <4> HIDE DEF rank
      <4> QED
        BY <1>1, <3>2, LeastRanked
    <3>4. \E j \in Actionable : \A k \in Actionable : InPlan(j) <= InPlan(k)
      BY <3>3
    <3>5. i \in Actionable
      BY <3>1, <3>4
    <3> QED
      BY <2>3, <2>5, <3>5
  <2> QED
    BY <2>4, <2>5
<1> QED
  BY <1>2, <1>3

\* So its base is the foremost.
LEMMA TurnIsForemost ==
  ASSUME IInv, HistoryHolds, Planned, NEW i \in Issues, Stepping(i), issue[i] = "ACTIVE"
  PROVE  Foremost(i)
BY TurnIsFirst DEF HistoryHolds, StackHolds, Foremost, ActiveIssues

-----------------------------------------------------------------------------
(* What the process relies on where it arrives.                            *)

\* Places that rely on nothing, and places in the loop that rely on the plan and
\* the base alone.
Idle == {"Down", "Shutdown", "Select"} \cup (Reconciling \ {"RedoMerge", "RedoFact"})
Verdicts == {"Decompose", "Gate", "DropRef", "Reset", "Clean"}

LEMMA ArriveIdle ==
  ASSUME pc' \in Idle
  PROVE  PlaceHolds'
BY DEF PlaceHolds, Idle, Reconciling, Looping, MidStep, Working

\* Back at the loop.
LEMMA ArriveLoop ==
  ASSUME pc' \in {"Checkout", "Ingest", "Loop"}, Planned'
  PROVE  PlaceHolds'
BY DEF PlaceHolds, Planned, Looping, MidStep, Working

LEMMA ArriveVerdict ==
  ASSUME pc' \in Verdicts, Planned', Foremost(cur)'
  PROVE  PlaceHolds'
BY DEF PlaceHolds, Planned, Foremost, Verdicts, Looping, MidStep, Working

LEMMA ArriveWorking ==
  ASSUME pc' \in Working, Planned', Foremost(cur)',
         head' = cur', IsAncestor(base[cur], CurrentCommit)',
         CurrentCommit' = base'[cur'] \/ Fresh(CurrentCommit)'
  PROVE  PlaceHolds'
BY DEF PlaceHolds, Planned, Foremost, Looping, MidStep, Working

LEMMA ArriveMerged ==
  ASSUME pc' = "MergeFact", Planned', Foremost(cur)', Merged(Ex.intent)'
  PROVE  PlaceHolds'
BY DEF PlaceHolds, Planned, Foremost, Looping, MidStep, Working

\* In the loop the plan and the turn are there.
LEMMA LoopRelies ==
  ASSUME PlaceHolds
  PROVE  /\ pc \in Looping \cup {"Checkout", "Ingest"} => Planned
         /\ pc \in MidStep => Planned /\ Foremost(cur)
BY DEF PlaceHolds, Planned, Foremost, MidStep

\* The plan keeps every ACTIVE issue while no other becomes ACTIVE.
LEMMA PlanKept ==
  ASSUME Planned, UNCHANGED plan, ActiveIssues' \subseteq ActiveIssues
  PROVE  Planned'
BY DEF Planned, PlannedIssues

\* A base stays foremost while the history grows.
LEMMA ForemostKept ==
  ASSUME Grows, NEW i, base[i] \in Made, Foremost(i), UNCHANGED base,
         ActiveIssues' \subseteq ActiveIssues
  PROVE  Foremost(i)'
<1>1. commits'[base[i]] = commits[base[i]]
  BY DEF Grows
<1> QED
  BY <1>1 DEF Foremost, IsAncestor

-----------------------------------------------------------------------------
(* Every step preserves the history's invariant.                           *)

\* A step that leaves the log and the target where they are, and goes where the
\* process relies on nothing.
LEMMA IdleStep ==
  ASSUME IInv, HistoryInv, UNCHANGED <<projection, commits>>, tip'[Target] = tip[Target],
         pc' \in Idle
  PROVE  HistoryInv'
BY HistoryOfMove, ArriveIdle DEF HistoryInv

LEMMA SnapshotIdle ==
  ASSUME IInv, HistoryInv, UNCHANGED projection, NEW exclude, SnapshotCommit(exclude),
         pc' \in Idle
  PROVE  HistoryInv'
BY HistoryOfSnapshot, ArriveIdle DEF HistoryInv

\* Check 3 resets to a commit that every ACTIVE issue's base is behind.
LEMMA ExpectedIsForemost ==
  ASSUME IInv, HistoryHolds
  PROVE  \A i \in ActiveIssues : IsAncestor(base[i], ExpectedCommit)
<1>1. CASE ActiveIssues = {}
  BY <1>1
<1>2. CASE ActiveIssues # {}
  <2>1. PICK a \in ActiveIssues : /\ a = ActiveIssue
                                  /\ \A i \in ActiveIssues : Position(a) <= Position(i)
    BY <1>2, FirstIsMember DEF ActiveIssue, ActiveIssues
  <2>2. \A i \in ActiveIssues : IsAncestor(base[i], base[a])
    BY <2>1 DEF HistoryHolds, StackHolds
  <2>3. CASE ExpectedCommit = base[a]
    BY <2>2, <2>3
  <2>4. CASE ExpectedCommit # base[a]
    <3>1. /\ HasExecution(a) /\ Latest(a).state \in {"VALIDATING", "REVIEWING", "ACCEPTED"}
          /\ ExpectedCommit = Latest(a).end /\ a \in Issues
      BY <1>2, <2>1, <2>4 DEF ExpectedCommit, ActiveIssues
    <3>2. LatestId(a) \in Execution /\ Latest(a) = exec[LatestId(a)] /\ Pinned(Latest(a))
      BY <3>1, LatestExists DEF IInv
    <3>3. Latest(a).end \in Made /\ Latest(a).end # NoCommit
      BY <3>1, <3>2 DEF Pinned, Made
    <3>4. IsAncestor(base[a], ExpectedCommit)
      BY <3>1, <3>2, <3>3 DEF HistoryHolds, EndsHold, LatestId
    <3>5. commits[base[a]].anc \subseteq commits[ExpectedCommit].anc
      BY <3>1, <3>3, <3>4 DEF HistoryHolds, AncestryHolds, IsAncestor
    <3> QED
      BY <2>2, <3>5 DEF IsAncestor
  <2> QED
    BY <2>3, <2>4
<1> QED
  BY <1>1, <1>2

\* What the target's first-parent chain shows was merged.
LEMMA WitnessIsMerge ==
  ASSUME IInv, AncestryHolds, NEW c, c # NoCommit, MergeWitnessed(c)
  PROVE  Merged(c)
<1>1. tip[Target] \in Made /\ DOMAIN commits = Made
  BY CurrentIsMade DEF IInv, Made
<1> QED
  BY <1>1 DEF AncestryHolds, MergeWitnessed, Merged, Merges

LEMMA RecoveryHistory ==
  ASSUME IInv, TurnInv, TurnInv', HistoryInv, RecoveryStep
  PROVE  HistoryInv'
<1>0. /\ HistoryHolds /\ PlaceHolds /\ RepositoryInv /\ ProjectionInv /\ AncestryHolds
      /\ tip \in [Branch -> 0 .. Len(commits)] /\ Target \in Branch
  BY DEF HistoryInv, HistoryHolds, IInv, RepositoryInv, RepositoryTypeOK, Branch
<1>l. {"Orphans", "OrphanRef", "OrphanFact", "Unwitnessed", "Workspace", "Archive",
       "Restore", "Select", "Down"} \subseteq Idle
  BY DEF Idle, Reconciling
<1>1. CASE Start \/ ReferResidue \/ NoOrphans \/ ArchiveResidue
  <2>1. /\ UNCHANGED <<projection, commits, tip>>
        /\ pc' \in {"Orphans", "OrphanFact", "Unwitnessed", "Restore"}
    BY <1>1 DEF Start, ReferResidue, NoOrphans, ArchiveResidue, Goto, repository
  <2> QED
    BY <1>l, <2>1, IdleStep
<1>2. CASE PreserveResidue
  <2>1. /\ UNCHANGED projection /\ pc' \in {"OrphanRef", "OrphanFact"}
        /\ UNCHANGED <<commits, tip>> \/ SnapshotCommit(exec[Orphan].untracked)
    BY <1>2 DEF PreserveResidue, Goto
  <2> QED
    BY <1>l, <2>1, IdleStep, SnapshotIdle
<1>3. CASE CheckWorkspace
  <2>1. /\ UNCHANGED projection /\ pc' \in {"Select", "Restore", "Archive"}
        /\ UNCHANGED <<commits, tip>> \/ SnapshotCommit(Preserved)
    BY <1>3 DEF CheckWorkspace, Goto
  <2> QED
    BY <1>l, <2>1, IdleStep, SnapshotIdle
<1>4. CASE CrashOrphan
  <2> DEFINE view == [exec[Orphan] EXCEPT !.state = "CRASHED"]
  <2>1. Orphan \in Execution /\ exec[Orphan].state = "EXECUTING" /\ exec[Orphan] \in View
    BY <1>0, <1>4, OrphanExists
    DEF CrashOrphan, At, IInv, ProcessInv, ControlHolds, ProjectionInv, ProjectionTypeOK
  <2>2. /\ view.state = "CRASHED" /\ view.end = exec[Orphan].end
        /\ view.intent = exec[Orphan].intent /\ view.created = exec[Orphan].created
    BY <2>1 DEF View
  <2>3. /\ exec' = [exec EXCEPT ![Orphan] = view] /\ UNCHANGED <<issue, base>>
        /\ UNCHANGED <<commits, tip>> /\ pc' = "Orphans"
    BY <1>4, <2>1 DEF CrashOrphan, ExecutionCrashed, ExecutionTransition, Goto, repository
  <2>4. SameWork /\ Unwitnessed' \subseteq Unwitnessed
    <3> HIDE DEF view
    <3> QED
      BY <1>0, <2>1, <2>2, <2>3, WorkKept
  <2>5. HistoryHolds'
    BY <1>0, <2>3, <2>4, HistoryOfLog DEF ActiveIssues
  <2> QED
    BY <1>l, <2>3, <2>5, ArriveIdle DEF HistoryInv
<1>5. CASE CheckUnwitnessed
  <2>1. UNCHANGED <<projection, commits>>
    BY <1>5 DEF CheckUnwitnessed, repository
  <2>2. tip'[Target] = tip[Target]
    <3>1. CASE UNCHANGED repository
      BY <3>1 DEF repository
    <3>2. CASE Unwitnessed # {} /\ CheckoutNew(Intended[1], base[Intended[1]])
      BY <1>0, <3>2, IntendedExists, TargetAssumption DEF CheckoutNew
    <3> QED
      BY <1>5, <3>1, <3>2 DEF CheckUnwitnessed
  <2>3. HistoryHolds'
    BY <1>0, <2>1, <2>2, HistoryOfMove
  <2>4. exec' = exec /\ Intended' = Intended
    BY <2>1 DEF projection, Intended, Unwitnessed
  <2>5. CASE pc' \in {"Workspace", "Down"}
    BY <1>l, <2>3, <2>5, ArriveIdle DEF HistoryInv
  <2>6. CASE pc' = "RedoFact"
    <3>1. /\ Unwitnessed # {} /\ MergeWitnessed(exec[Intended].intent)
      BY <1>5, <2>6 DEF CheckUnwitnessed, Goto, Die, Exit
    <3>2. Merged(exec[Intended].intent)
      BY <1>0, <3>1, IntendedExists, WitnessIsMerge
    <3>3. Merged(exec[Intended].intent)'
      BY <2>1, <2>4, <3>2 DEF Merged, Merges
    <3> QED
      BY <2>3, <2>6, <3>3 DEF HistoryInv, PlaceHolds, Looping, MidStep, Working
  <2>7. CASE pc' = "RedoMerge"
    <3>1. ~IsAncestor(exec[Intended].intent, tip[Target])
      BY <1>5, <2>7 DEF CheckUnwitnessed, Goto, Die, Exit
    <3>2. ~IsAncestor(exec[Intended].intent, tip[Target])'
      BY <2>1, <2>2, <2>4, <3>1 DEF IsAncestor
    <3> QED
      BY <2>3, <2>7, <3>2 DEF HistoryInv, PlaceHolds, Looping, MidStep, Working
  <2>8. pc' \in {"Workspace", "Down", "RedoFact", "RedoMerge"}
    BY <1>5 DEF CheckUnwitnessed, Goto, Die, Exit
  <2> QED
    BY <2>5, <2>6, <2>7, <2>8
<1>6. CASE RedoMerge
  <2>1. Unwitnessed # {} /\ UNCHANGED projection /\ ~IsAncestor(exec[Intended].intent, tip[Target])
    BY <1>0, <1>6 DEF RedoMerge, At, IInv, ProcessInv, ControlHolds, PlaceHolds
  <2>2. CASE Die /\ UNCHANGED repository
    BY <1>l, <2>1, <2>2, IdleStep DEF repository, Die, Exit
  <2>3. CASE MergeTo(exec[Intended].intent) /\ Goto("RedoFact")
    <3>1. Intended \in Unwitnessed
      BY <2>1 DEF Intended
    <3>2. HistoryHolds' /\ Merged(exec[Intended].intent)'
      <4>1. PICK x \in Unwitnessed : x = Intended
        BY <3>1
      <4>2. HistoryHolds' /\ Merged(exec[x].intent)'
        BY <1>0, <2>1, <2>3, <4>1, HistoryOfMerge
      <4>3. Intended' = Intended
        BY <2>1 DEF projection, Intended, Unwitnessed
      <4> QED
        BY <4>1, <4>2, <4>3
    <3> QED
      BY <2>3, <3>2 DEF Goto, HistoryInv, PlaceHolds, Looping, MidStep, Working
  <2> QED
    BY <1>6, <2>2, <2>3 DEF RedoMerge
<1>7. CASE RedoFact
  <2> DEFINE view == [exec[Intended] EXCEPT !.created = TRUE]
  <2>1. Unwitnessed # {} /\ Merged(exec[Intended].intent)
    BY <1>0, <1>7 DEF RedoFact, At, IInv, ProcessInv, ControlHolds, PlaceHolds
  <2>2. /\ Intended \in Execution /\ exec[Intended].intent # NoCommit
        /\ exec[Intended] \in View /\ Pinned(exec[Intended])
    BY <1>0, <2>1, IntendedExists DEF ProjectionInv, ProjectionTypeOK, PinsHold
  <2>3. /\ view.state = "ACCEPTED" /\ view.end = exec[Intended].end
        /\ view.intent = exec[Intended].intent /\ view.created
    BY <2>2 DEF View, Pinned
  <2>4. /\ exec' = [exec EXCEPT ![Intended] = view] /\ UNCHANGED <<issue, base>>
        /\ UNCHANGED <<commits, tip>> /\ pc' = "Unwitnessed"
    BY <1>7, <2>2 DEF RedoFact, CommitCreated, Poison, Goto, repository, TurnInv, LogReplays
  <2>5. SameWork /\ Unwitnessed' \subseteq Unwitnessed
    <3> HIDE DEF view
    <3> QED
      BY <1>0, <2>1, <2>2, <2>3, <2>4, WorkKept
  <2>6. HistoryHolds'
    BY <1>0, <2>4, <2>5, HistoryOfLog DEF ActiveIssues
  <2> QED
    BY <1>l, <2>4, <2>6, ArriveIdle DEF HistoryInv
<1>8. CASE RestoreWorkspace
  <2>1. /\ UNCHANGED <<projection, commits, head>> /\ ResetHard(ExpectedCommit)
        /\ pc = "Restore" /\ pc' = "Select"
    BY <1>8 DEF RestoreWorkspace, At, Goto
  <2>2. Unwitnessed = {}
    BY <2>1 DEF TurnInv, StepHolds, Resting, InFlight
  <2>3. tip'[Target] = tip[Target] \/ tip'[Target] = ExpectedCommit
    BY <1>0, <2>1 DEF ResetHard
  <2>4. HistoryHolds'
    BY <1>0, <2>1, <2>2, <2>3, ExpectedIsForemost, HistoryOfMove
  <2> QED
    BY <1>l, <2>1, <2>4, ArriveIdle DEF HistoryInv
<1> QED
  BY <1>1, <1>2, <1>3, <1>4, <1>5, <1>6, <1>7, <1>8 DEF RecoveryStep

LEMMA StartupHistory ==
  ASSUME IInv, TurnInv, TurnInv', HistoryInv, StartupStep
  PROVE  HistoryInv'
<1>0. HistoryHolds /\ PlaceHolds /\ ("Down" \in Idle)
  BY DEF HistoryInv, Idle
<1>1. ASSUME NEW req \in Requests, Select(req)
      PROVE  HistoryInv'
  <2>1. UNCHANGED <<projection, repository>>
    BY <1>1 DEF Select
  <2>2. CASE Die
    BY <1>0, <2>1, <2>2, IdleStep DEF Die, Exit, repository
  <2>3. CASE ~Die
    <3>1. HistoryHolds'
      BY <1>0, <2>1, HistoryOfMove DEF repository
    <3>2. pc' = "Checkout"
      BY <1>1, <2>3 DEF Select
    <3>3. Planned'
      <4>1. CASE plan' = <<>>
        BY <4>1 DEF Planned
      <4>2. CASE plan' # <<>>
        <5>1. plan' \in TopologicalOrders(Batch(req)) /\ Plannable(Batch(req))
          BY <1>1, <2>3, <4>2 DEF Select
        <5>2. Batch(req) = {plan'[k] : k \in DOMAIN plan'} /\ ActiveIssues \subseteq Batch(req)
          BY <5>1 DEF TopologicalOrders, Plannable
        <5> QED
          BY <2>1, <5>2 DEF Planned, PlannedIssues, ActiveIssues, projection
      <4> QED
        BY <4>1, <4>2
    <3> QED
      BY <3>1, <3>2, <3>3, ArriveLoop DEF HistoryInv
  <2> QED
    BY <2>2, <2>3
<1>2. CASE CheckoutTarget
  <2>1. /\ pc = "Checkout" /\ UNCHANGED <<projection, commits, tip>>
        /\ Goto("Ingest") \/ Die
    BY <1>2 DEF CheckoutTarget, At
  <2>2. CASE Die
    BY <1>0, <2>1, <2>2, IdleStep DEF Die, Exit
  <2>3. CASE Goto("Ingest")
    <3>1. Planned /\ UNCHANGED plan /\ ActiveIssues' = ActiveIssues
      BY <1>0, <2>1, <2>3, LoopRelies DEF Goto, ActiveIssues, projection
    <3> QED
      BY <1>0, <2>1, <2>3, <3>1, PlanKept, ArriveLoop, HistoryOfMove DEF Goto, HistoryInv
  <2> QED
    BY <2>1, <2>2, <2>3
<1>3. CASE Ingest
  <2> DEFINE new == {i \in Issues : issue[i] = "ABSENT"}
  <2>1. pc = "Ingest" /\ UNCHANGED <<repository, plan>> /\ pc' \in {"Ingest", "Loop"}
    BY <1>3 DEF Ingest, At, Goto
  <2>2. CASE new # {} /\ IssueCreated(First(new))
    <3>1. First(new) \in Issues /\ issue[First(new)] = "ABSENT"
      BY <2>2, FirstIsMember
    <3>2. /\ issue' = [issue EXCEPT ![First(new)] = "PENDING"]
          /\ UNCHANGED <<base, attempts, exec>>
      BY <2>2, <3>1 DEF IssueCreated
    <3>3. ActiveIssues' = ActiveIssues
      BY <3>1, <3>2 DEF ActiveIssues, IInv, ProjectionInv, ProjectionTypeOK
    <3>4. HistoryHolds'
      BY <1>0, <2>1, <3>2, <3>3, NoWork, HistoryOfLog DEF repository
    <3> QED
      BY <1>0, <2>1, <3>3, <3>4, LoopRelies, PlanKept, ArriveLoop DEF HistoryInv
  <2>3. CASE UNCHANGED projection
    <3>1. ActiveIssues' = ActiveIssues
      BY <2>3 DEF ActiveIssues, projection
    <3>2. HistoryHolds'
      BY <1>0, <2>1, <2>3, HistoryOfMove DEF repository
    <3> QED
      BY <1>0, <2>1, <3>1, <3>2, LoopRelies, PlanKept, ArriveLoop DEF HistoryInv
  <2> QED
    BY <1>3, <2>2, <2>3 DEF Ingest
<1>4. CASE Shutdown
  BY <1>0, <1>4, IdleStep DEF Shutdown, Exit
<1> QED
  BY <1>1, <1>2, <1>3, <1>4 DEF StartupStep

LEMMA StopHistory ==
  ASSUME IInv, HistoryInv, Kill \/ Interrupt \/ ReviewerUnavailable
  PROVE  HistoryInv'
<1>1. UNCHANGED <<projection, repository>> /\ pc' \in {"Down", "Shutdown"}
  BY DEF Kill, Interrupt, ReviewerUnavailable, Exit
<1> QED
  BY <1>1, IdleStep DEF repository, Idle

\* In the loop: back to its head, or on with the issue whose step it is, after an
\* event that makes no issue ACTIVE.
LEMMA BackToLoop ==
  ASSUME PlaceHolds, pc \in Looping, pc' = "Loop", UNCHANGED plan,
         ActiveIssues' \subseteq ActiveIssues
  PROVE  PlaceHolds'
BY LoopRelies, PlanKept, ArriveLoop

LEMMA OnWithVerdict ==
  ASSUME IInv, PlaceHolds, pc \in MidStep, Grows, pc' \in Verdicts,
         UNCHANGED <<plan, cur, base>>, ActiveIssues' \subseteq ActiveIssues
  PROVE  PlaceHolds'
<1>1. Planned /\ Foremost(cur) /\ base[cur] \in Made
  BY LoopRelies, SteppedExists
<1>2. Foremost(cur)'
  BY <1>1, ForemostKept
<1> QED
  BY <1>1, <1>2, PlanKept, ArriveVerdict

\* The issue whose step starts is remembered.
LEMMA StepStarts ==
  ASSUME IInv, HistoryInv, NEW i \in Issues, NEW state, InState(i, state),
         Grows, cur' = i, UNCHANGED <<plan, base>>, ActiveIssues' \subseteq ActiveIssues
  PROVE  Planned' /\ Foremost(cur)'
<1>1. Stepping(i) /\ issue[i] = "ACTIVE" /\ base[i] \in Made /\ pc \in Looping
  BY InStateExists DEF InState, Stepping, At, Looping
<1>2. Planned
  BY <1>1, LoopRelies DEF HistoryInv
<1>3. Foremost(i)
  BY <1>1, <1>2, TurnIsForemost DEF HistoryInv
<1>4. Foremost(i)'
  BY <1>1, <1>3, ForemostKept
<1>5. Foremost(cur)'
  BY <1>4 DEF Foremost, IsAncestor
<1> QED
  BY <1>2, <1>5, PlanKept

LEMMA ChoiceHistory ==
  ASSUME IInv, TurnInv, TurnInv', HistoryInv,
         Drained \/ Activate \/ Escalate \/ Spawn \/ BudgetStop
  PROVE  HistoryInv'
<1>0. HistoryHolds /\ PlaceHolds /\ ProjectionInv /\ ~poisoned'
  BY DEF HistoryInv, IInv, TurnInv, LogReplays
<1>1. CASE Drained \/ BudgetStop
  BY <1>1, IdleStep DEF Drained, BudgetStop, Leave, Goto, Idle, repository
<1>2. CASE Activate
  <2>1. PICK i \in Issues : /\ Stepping(i) /\ issue[i] = "PENDING"
                            /\ IssueActivated(i, tip[Target]) /\ Done
                            /\ UNCHANGED repository
    BY <1>2 DEF Activate
  <2>2. pc \in Looping /\ Planned
    BY <1>0, <2>1, LoopRelies DEF Stepping, At, Looping
  <2>3. /\ \A j \in ActiveIssues : Position(i) <= Position(j)
        /\ plan # <<>> => i \in PlannedIssues
    BY <2>1, <2>2, TurnIsFirst
  <2>4. /\ issue' = [issue EXCEPT ![i] = "ACTIVE"]
        /\ base' = [base EXCEPT ![i] = tip[Target]]
        /\ UNCHANGED <<attempts, exec, commits, tip, plan>> /\ pc' = "Loop"
    BY <2>1 DEF IssueActivated, Done, repository
  <2>5. HistoryHolds'
    BY <1>0, <2>1, <2>3, <2>4, HistoryOfActivate
  <2>6. ActiveIssues' \subseteq ActiveIssues \cup {i}
    BY <1>0, <2>4 DEF ActiveIssues, ProjectionInv, ProjectionTypeOK
  <2>7. Planned'
    BY <2>2, <2>3, <2>4, <2>6 DEF Planned, PlannedIssues
  <2> QED
    BY <2>4, <2>5, <2>7, ArriveLoop DEF HistoryInv
<1>3. CASE Escalate
  <2>1. PICK i \in Issues : /\ NeedsExecution(i) /\ IssueClosed(i, "NEEDS_HUMAN") /\ Done
                            /\ UNCHANGED repository
    BY <1>3 DEF Escalate
  <2>2. /\ issue' = [issue EXCEPT ![i] = "NEEDS_HUMAN"]
        /\ UNCHANGED <<base, exec, commits, tip, plan>> /\ pc' = "Loop" /\ pc \in Looping
    BY <1>0, <2>1
    DEF IssueClosed, Poison, Done, repository, NeedsExecution, Stepping, At, Looping
  <2>3. ActiveIssues' \subseteq ActiveIssues
    BY <1>0, <2>2 DEF ActiveIssues, ProjectionInv, ProjectionTypeOK
  <2>4. HistoryHolds'
    BY <1>0, <2>2, <2>3, NoWork, HistoryOfLog
  <2> QED
    BY <1>0, <2>2, <2>3, <2>4, BackToLoop DEF HistoryInv
<1>4. CASE Spawn
  <2>1. PICK i \in Issues :
          /\ NeedsExecution(i) /\ ~CapHit(i)
          /\ ExecutionSpawned(i, attempts[i] + 1, dirt \ {"tracked"})
          /\ pc' = "Loop" /\ UNCHANGED <<cur, plan, stops>> /\ UNCHANGED repository
    BY <1>4 DEF Spawn
  <2> DEFINE x == <<i, attempts[i] + 1>>
             view == [NoView EXCEPT !.state = "EXECUTING", !.untracked = dirt \ {"tracked"}]
  <2>2. /\ exec' = [exec EXCEPT ![x] = view] /\ exec[x].state = "NONE"
        /\ UNCHANGED <<issue, base, commits, tip>> /\ pc \in Looping
    BY <1>0, <2>1
    DEF ExecutionSpawned, Poison, repository, NeedsExecution, Stepping, At, Looping
  <2>3. x \in Execution
    BY <1>0, <2>1, BudgetAssumption DEF Execution, CapHit, ProjectionInv, ProjectionTypeOK
  <2>4. exec[x].intent = NoCommit
    BY <1>0, <2>2, <2>3 DEF ProjectionInv, PinsHold, Pinned
  <2>5. ~exec[x].created
    BY <1>0, <2>3, <2>4 DEF HistoryHolds, MergesHold
  <2>6. /\ view.state = "EXECUTING" /\ view.end = NoCommit
        /\ view.intent = NoCommit /\ ~view.created
    BY DEF NoView
  <2>7. SameWork /\ Unwitnessed' \subseteq Unwitnessed
    <3> HIDE DEF x, view
    <3> QED
      BY <1>0, <2>2, <2>3, <2>4, <2>5, <2>6, WorkKept
  <2>8. HistoryHolds'
    BY <1>0, <2>2, <2>7, HistoryOfLog DEF ActiveIssues
  <2> QED
    BY <1>0, <2>1, <2>2, <2>8, BackToLoop DEF HistoryInv, ActiveIssues
<1> QED
  BY <1>1, <1>2, <1>3, <1>4

\* The EXECUTING row: the branch is at the base, the engine commits at most once on
\* it, and what it ends at is new or the base.
LEMMA ExecutingHistory ==
  ASSUME IInv, TurnInv, TurnInv', HistoryInv,
         CheckoutIssue \/ EngineWrites \/ EngineExits \/ SnapshotWork \/ ReferWork
  PROVE  HistoryInv'
<1>0. /\ HistoryHolds /\ PlaceHolds /\ ProjectionInv /\ RepositoryInv /\ AncestryHolds
      /\ tip \in [Branch -> 0 .. Len(commits)] /\ Target \in Branch /\ head \in Branch
      /\ "Shutdown" \in Idle /\ Working \subseteq MidStep
  BY DEF HistoryInv, HistoryHolds, IInv, RepositoryInv, RepositoryTypeOK, Branch, Idle,
     Working, MidStep, Looping
<1>1. CASE CheckoutIssue
  <2>1. PICK i \in Issues :
          /\ InState(i, "EXECUTING")
          /\ \/ CheckoutNew(i, base[i]) /\ Continue(i, "Engine")
             \/ Leave /\ UNCHANGED <<head, tip>>
          /\ UNCHANGED <<projection, commits>>
    BY <1>1 DEF CheckoutIssue
  <2>2. CASE Leave /\ UNCHANGED <<head, tip>>
    BY <1>0, <2>1, <2>2, IdleStep DEF Leave, Goto
  <2>3. CASE CheckoutNew(i, base[i]) /\ Continue(i, "Engine")
    <3>1. /\ head' = i /\ cur' = i /\ tip' = [tip EXCEPT ![i] = base[i]]
          /\ pc' = "Engine" /\ UNCHANGED plan
      BY <2>3 DEF CheckoutNew, Continue
    <3>2. tip'[i] = base[i] /\ tip'[Target] = tip[Target]
      BY <1>0, <3>1, TargetAssumption DEF Branch
    <3>3. HistoryHolds'
      BY <1>0, <2>1, <3>2, HistoryOfMove
    <3>4. Grows /\ UNCHANGED base /\ ActiveIssues' = ActiveIssues
      BY <1>0, <2>1, SameGrows, CurrentIsMade DEF projection, ActiveIssues
    <3>5. Planned' /\ Foremost(cur)'
      BY <2>1, <3>1, <3>4, StepStarts
    <3>6. CurrentCommit' = base'[cur'] /\ base'[cur'] = base[i]
      BY <3>1, <3>2, <3>4 DEF CurrentCommit
    <3>7. IsAncestor(base[cur], CurrentCommit)'
      <4>1. base[i] \in Made
        BY <2>1, InStateExists
      <4> QED
        BY <1>0, <2>1, <3>6, <4>1 DEF AncestryHolds, IsAncestor
    <3> QED
      BY <3>1, <3>3, <3>5, <3>6, <3>7, ArriveWorking DEF HistoryInv, Working
  <2> QED
    BY <2>1, <2>2, <2>3
<1>2. ASSUME EngineWrites \/ EngineExits \/ SnapshotWork \/ ReferWork, pc' # "Shutdown"
      PROVE  HistoryInv'
  <2>1. /\ pc \in Working /\ pc' \in Working /\ UNCHANGED <<projection, head, cur, plan>>
        /\ \/ UNCHANGED <<commits, tip>>
           \/ /\ commits' = Append(commits, ChildOf(CurrentCommit))
              /\ tip' = [tip EXCEPT ![head] = NewCommit]
    BY <1>2
    DEF EngineWrites, EngineExits, SnapshotWork, ReferWork, At, Goto, Leave, Working,
        process, repository, SnapshotCommit, CommitOnHead
  <2>2. /\ head = cur /\ IsAncestor(base[cur], CurrentCommit)
        /\ CurrentCommit = base[cur] \/ Fresh(CurrentCommit)
        /\ Planned /\ Foremost(cur) /\ base[cur] \in Made
    BY <1>0, <2>1, LoopRelies, SteppedExists DEF PlaceHolds
  <2>3. UNCHANGED <<base, exec>> /\ ActiveIssues' = ActiveIssues
    BY <2>1 DEF projection, ActiveIssues
  <2>4. CASE UNCHANGED <<commits, tip>>
    <3>1. HistoryHolds'
      BY <1>0, <2>1, <2>4, HistoryOfMove
    <3>2. Planned' /\ Foremost(cur)' /\ CurrentCommit' = CurrentCommit
      BY <2>1, <2>2, <2>3, <2>4, PlanKept DEF Foremost, IsAncestor, CurrentCommit
    <3>3. IsAncestor(base[cur], CurrentCommit)' /\ (Fresh(CurrentCommit) => Fresh(CurrentCommit)')
      BY <2>1, <2>2, <2>3, <2>4, <3>2 DEF IsAncestor, Fresh
    <3> QED
      BY <2>1, <2>2, <2>3, <3>1, <3>2, <3>3, ArriveWorking DEF HistoryInv
  <2>5. CASE /\ commits' = Append(commits, ChildOf(CurrentCommit))
             /\ tip' = [tip EXCEPT ![head] = NewCommit]
    <3>1. HistoryHolds'
      BY <1>0, <2>1, <2>5, HistoryOfCommit
    <3>2. CurrentCommit \in Made
      BY <1>0, CurrentIsMade
    <3>3. /\ Grows /\ NewCommit \notin Made
          /\ commits'[NewCommit].anc = commits[CurrentCommit].anc \cup {NewCommit}
      BY <1>0, <2>5, <3>2, ChildAncestry
    <3>4. CurrentCommit' = NewCommit
      BY <1>0, <2>1, <2>5 DEF CurrentCommit
    <3>5. Foremost(cur)'
      <4>1. PICK i : i = cur
        OBVIOUS
      <4>2. Foremost(i)'
        BY <2>2, <2>3, <3>3, <4>1, ForemostKept
      <4> QED
        BY <2>1, <4>1, <4>2 DEF Foremost, IsAncestor
    <3>6. Planned'
      BY <2>1, <2>2, <2>3, PlanKept
    <3>7. IsAncestor(base[cur], CurrentCommit)'
      BY <2>1, <2>2, <2>3, <3>3, <3>4 DEF IsAncestor
    <3>8. NewCommit # NoCommit
      BY <1>0, CurrentIsMade DEF NewCommit
    <3>9. \A x \in Execution : exec[x].end # NewCommit
      BY <1>0, <3>3, <3>8 DEF HistoryHolds, EndsHold
    <3>10. Fresh(CurrentCommit)'
      BY <2>3, <3>4, <3>9 DEF Fresh
    <3> QED
      BY <2>1, <2>2, <3>1, <3>5, <3>6, <3>7, <3>10, ArriveWorking DEF HistoryInv
  <2> QED
    BY <2>1, <2>4, <2>5
<1>3. CASE ReferWork /\ pc' = "Shutdown"
  BY <1>0, <1>3, IdleStep DEF ReferWork
<1>4. EngineWrites \/ EngineExits \/ SnapshotWork => pc' # "Shutdown"
  BY DEF EngineWrites, EngineExits, SnapshotWork, At, Goto, process
<1> QED
  BY <1>1, <1>2, <1>3, <1>4

\* The fact that ends it, and the reset of a rejected one.
LEMMA FinishHistory ==
  ASSUME IInv, TurnInv, TurnInv', HistoryInv,
         FinishNormal \/ FinishRejected \/ Decompose \/ ResetWorkspace \/ CleanWorkspace
  PROVE  HistoryInv'
<1>0. /\ HistoryHolds /\ PlaceHolds /\ ProjectionInv /\ RepositoryInv /\ ~poisoned'
      /\ tip \in [Branch -> 0 .. Len(commits)] /\ Target \in Branch
  BY DEF HistoryInv, IInv, RepositoryInv, RepositoryTypeOK, Branch, TurnInv, LogReplays
<1>1. CASE FinishNormal \/ FinishRejected
  <2>1. /\ pc = "Finish" /\ UNCHANGED <<repository, plan>>
        /\ ExecutionFinished(X, CurrentCommit) \/ ExecutionFinishedRejected(X, CurrentCommit)
        /\ pc' = "Loop" \/ (pc' \in Verdicts /\ UNCHANGED cur)
    BY <1>1 DEF FinishNormal, FinishRejected, At, Done, Goto, Verdicts
  <2>2. /\ X \in Execution /\ exec[X] \in View /\ X[1] = cur
        /\ IsAncestor(base[cur], CurrentCommit)
        /\ CurrentCommit = base[cur] \/ Fresh(CurrentCommit)
        /\ CurrentCommit \in Made
    BY <1>0, <2>1, SteppedExists, CurrentIsMade
    DEF PlaceHolds, Working, MidStep, Looping, X, LatestId
  <2>3. PICK state \in {"VALIDATING", "REJECTED"} :
          /\ exec' = [exec EXCEPT ![X] =
                        [exec[X] EXCEPT !.state = state, !.end = CurrentCommit]]
          /\ UNCHANGED <<issue, base>>
    BY <1>0, <2>1
    DEF ExecutionFinished, ExecutionFinishedRejected, ExecutionTransition, Poison
  <2> DEFINE view == [exec[X] EXCEPT !.state = state, !.end = CurrentCommit]
  <2>4. /\ view.state # "NONE" /\ view.end = CurrentCommit
        /\ view.intent = exec[X].intent /\ view.created = exec[X].created
    BY <2>2 DEF View
  <2>5. HistoryHolds'
    <3>1. UNCHANGED <<commits, tip>>
      BY <2>1 DEF repository
    <3>2. exec' = [exec EXCEPT ![X] = view]
      BY <2>3
    <3> HIDE DEF view
    <3> QED
      BY <1>0, <2>2, <2>3, <2>4, <3>1, <3>2, HistoryOfFinish
  <2>6. Grows /\ ActiveIssues' = ActiveIssues
    BY <1>0, <2>1, <2>3, SameGrows, CurrentIsMade DEF repository, ActiveIssues
  <2>7. PlaceHolds'
    BY <1>0, <2>1, <2>3, <2>6, BackToLoop, OnWithVerdict DEF MidStep, Looping
  <2> QED
    BY <2>5, <2>7 DEF HistoryInv
<1>2. CASE Decompose
  <2>1. /\ pc = "Decompose" /\ UNCHANGED <<repository, plan, cur>> /\ pc' = "Reset"
        /\ IssueClosed(cur, "NEEDS_DECOMPOSITION")
    BY <1>2 DEF Decompose, At, Goto
  <2>2. issue' = [issue EXCEPT ![cur] = "NEEDS_DECOMPOSITION"] /\ UNCHANGED <<base, exec>>
    BY <1>0, <2>1 DEF IssueClosed, Poison
  <2>3. ActiveIssues' \subseteq ActiveIssues
    BY <1>0, <2>2 DEF ActiveIssues, ProjectionInv, ProjectionTypeOK
  <2>4. HistoryHolds'
    BY <1>0, <2>1, <2>2, <2>3, NoWork, HistoryOfLog DEF repository
  <2>5. Grows
    BY <1>0, <2>1, SameGrows, CurrentIsMade DEF repository
  <2>6. PlaceHolds'
    BY <1>0, <2>1, <2>2, <2>3, <2>5, OnWithVerdict DEF MidStep, Looping, Verdicts
  <2> QED
    BY <2>4, <2>6 DEF HistoryInv
<1>3. CASE ResetWorkspace
  <2>1. /\ pc = "Reset" /\ UNCHANGED <<projection, commits, plan, cur>> /\ pc' = "Clean"
        /\ ResetHard(base[cur])
    BY <1>3 DEF ResetWorkspace, At, Goto
  <2>2. Unwitnessed = {} /\ Foremost(cur)
    BY <1>0, <2>1, LoopRelies
    DEF TurnInv, StepHolds, Resting, InFlight, MidStep, Looping
  <2>3. tip'[Target] = tip[Target] \/ tip'[Target] = base[cur]
    BY <1>0, <2>1 DEF ResetHard
  <2>4. HistoryHolds'
    BY <1>0, <2>1, <2>2, <2>3, HistoryOfMove DEF Foremost
  <2>5. Grows /\ UNCHANGED base /\ ActiveIssues' = ActiveIssues
    BY <1>0, <2>1, SameGrows, CurrentIsMade DEF projection, ActiveIssues
  <2>6. PlaceHolds'
    BY <1>0, <2>1, <2>5, OnWithVerdict DEF MidStep, Looping, Verdicts
  <2> QED
    BY <2>4, <2>6 DEF HistoryInv
<1>4. CASE CleanWorkspace
  <2>1. /\ pc = "Clean" /\ UNCHANGED <<projection, commits, tip, plan>> /\ pc' = "Loop"
    BY <1>4 DEF CleanWorkspace, At, Done
  <2>2. HistoryHolds'
    BY <1>0, <2>1, HistoryOfMove
  <2>3. PlaceHolds'
    BY <1>0, <2>1, BackToLoop DEF Looping, ActiveIssues, projection
  <2> QED
    BY <2>2, <2>3 DEF HistoryInv
<1> QED
  BY <1>1, <1>2, <1>3, <1>4

\* The gate's and the reviewer's verdict.
LEMMA VerdictHistory ==
  ASSUME IInv, TurnInv, TurnInv', HistoryInv, RunGate \/ GateVerdict \/ Review
  PROVE  HistoryInv'
<1>0. /\ HistoryHolds /\ PlaceHolds /\ ProjectionInv /\ RepositoryInv /\ ~poisoned'
      /\ commits \in Seq(Commit)
  BY CurrentIsMade DEF HistoryInv, IInv, TurnInv, LogReplays
<1>1. CASE RunGate
  <2>1. PICK i \in Issues :
          /\ InState(i, "VALIDATING") /\ Continue(i, "Gate")
          /\ UNCHANGED <<projection, commits, tip>>
    BY <1>1 DEF RunGate
  <2>2. HistoryHolds'
    BY <1>0, <2>1, HistoryOfMove
  <2>3. Planned' /\ Foremost(cur)'
    BY <1>0, <2>1, StepStarts, SameGrows DEF Continue, ActiveIssues, projection
  <2> QED
    BY <2>1, <2>2, <2>3, ArriveVerdict DEF Continue, Verdicts, HistoryInv
<1>2. CASE GateVerdict
  <2>1. /\ pc = "Gate" /\ UNCHANGED <<repository, plan>>
        /\ \/ ValidationPassed(X, Ex.end) /\ pc' = "Loop"
           \/ ValidationFailed(X) /\ pc' = "Reset" /\ UNCHANGED cur
    BY <1>2 DEF GateVerdict, At, Done, Goto
  <2>2. X \in Execution /\ exec[X] \in View
    BY <2>1, SteppedExists DEF MidStep, Looping
  <2>3. PICK view : /\ exec' = [exec EXCEPT ![X] = view] /\ UNCHANGED <<issue, base>>
                    /\ view \in { [exec[X] EXCEPT !.state = "REVIEWING", !.validated = Ex.end],
                                  [exec[X] EXCEPT !.state = "REJECTED"] }
    BY <1>0, <2>1 DEF ValidationPassed, ValidationFailed, ExecutionTransition, Poison
  <2>4. /\ view.state # "NONE" /\ view.end = exec[X].end
        /\ view.intent = exec[X].intent /\ view.created = exec[X].created
    BY <2>2, <2>3 DEF View
  <2>5. SameWork /\ Unwitnessed' \subseteq Unwitnessed
    BY <1>0, <2>2, <2>3, <2>4, WorkKept
  <2>6. HistoryHolds' /\ ActiveIssues' = ActiveIssues /\ Grows
    BY <1>0, <2>1, <2>3, <2>5, HistoryOfLog, SameGrows DEF repository, ActiveIssues
  <2>7. PlaceHolds'
    BY <1>0, <2>1, <2>3, <2>6, BackToLoop, OnWithVerdict DEF MidStep, Looping, Verdicts
  <2> QED
    BY <2>6, <2>7 DEF HistoryInv
<1>3. CASE Review
  <2>1. PICK i \in Issues :
          /\ InState(i, "REVIEWING") /\ UNCHANGED repository
          /\ \/ ReviewApproved(LatestId(i), Latest(i).end) /\ Done
             \/ \E f \in Feedbacks :
                  ReviewRejected(LatestId(i), f) /\ Continue(i, "Reset")
             \/ IssueClosed(i, "NEEDS_HUMAN") /\ Done
    BY <1>3 DEF Review
  <2> DEFINE x == LatestId(i)
  <2>2. /\ x \in Execution /\ exec[x] \in View /\ issue[i] = "ACTIVE"
        /\ pc \in Looping /\ Grows
    BY <1>0, <2>1, InStateExists, SameGrows
    DEF InState, Stepping, At, Looping, repository
  <2>3. CASE IssueClosed(i, "NEEDS_HUMAN") /\ Done
    <3>1. /\ issue' = [issue EXCEPT ![i] = "NEEDS_HUMAN"]
          /\ UNCHANGED <<base, exec, plan>> /\ pc' = "Loop"
      BY <2>2, <2>3 DEF IssueClosed, Done
    <3>2. ActiveIssues' \subseteq ActiveIssues
      BY <1>0, <3>1 DEF ActiveIssues, ProjectionInv, ProjectionTypeOK
    <3>3. HistoryHolds'
      BY <1>0, <2>1, <3>1, <3>2, NoWork, HistoryOfLog DEF repository
    <3> QED
      BY <1>0, <2>2, <3>1, <3>2, <3>3, BackToLoop DEF HistoryInv
  <2>4. CASE ~(IssueClosed(i, "NEEDS_HUMAN") /\ Done)
    <3>1. PICK view :
            /\ exec' = [exec EXCEPT ![x] = view] /\ UNCHANGED <<issue, base>>
            /\ \/ view = [exec[x] EXCEPT !.state = "ACCEPTED", !.reviewed = Latest(i).end]
               \/ \E f \in Feedbacks :
                    view = [exec[x] EXCEPT !.state = "REJECTED", !.feedback = f]
      BY <1>0, <2>1, <2>4 DEF ReviewApproved, ReviewRejected, ExecutionTransition, Poison
    <3>2. /\ view.state # "NONE" /\ view.end = exec[x].end
          /\ view.intent = exec[x].intent /\ view.created = exec[x].created
      BY <2>2, <3>1 DEF View
    <3>3. SameWork /\ Unwitnessed' \subseteq Unwitnessed
      <4> HIDE DEF x
      <4> QED
        BY <1>0, <2>2, <3>1, <3>2, WorkKept
    <3>4. HistoryHolds' /\ ActiveIssues' = ActiveIssues
      BY <1>0, <2>1, <3>1, <3>3, HistoryOfLog DEF repository, ActiveIssues
    <3>5. CASE Done
      BY <1>0, <2>2, <3>4, <3>5, BackToLoop DEF Done, HistoryInv
    <3>6. CASE Continue(i, "Reset")
      <4>1. Planned' /\ Foremost(cur)'
        BY <2>1, <2>2, <3>1, <3>4, <3>6, StepStarts DEF Continue
      <4> QED
        BY <3>4, <3>6, <4>1, ArriveVerdict DEF Continue, Verdicts, HistoryInv
    <3> QED
      BY <2>1, <2>4, <3>5, <3>6
  <2> QED
    BY <2>1, <2>3, <2>4
<1> QED
  BY <1>1, <1>2, <1>3

\* The ACCEPTED row: intent, merge, fact, completion.
LEMMA CommitHistory ==
  ASSUME IInv, TurnInv, TurnInv', HistoryInv,
         IntendCommit \/ Merge \/ RecordMerge \/ CompleteIssue \/ DropAttemptRef
  PROVE  HistoryInv'
<1>0. /\ HistoryHolds /\ PlaceHolds /\ ProjectionInv /\ RepositoryInv /\ ~poisoned'
      /\ commits \in Seq(Commit) /\ AncestryHolds /\ "Shutdown" \in Idle
  BY CurrentIsMade DEF HistoryInv, HistoryHolds, IInv, TurnInv, LogReplays, Idle
<1>1. CASE IntendCommit
  <2>1. PICK i \in Issues :
          /\ InState(i, "ACCEPTED") /\ Latest(i).intent = NoCommit /\ UNCHANGED repository
          /\ \/ PinGate(Latest(i)) /\ CommitIntent(LatestId(i), Latest(i).end) /\ Done
             \/ Leave /\ UNCHANGED projection
    BY <1>1 DEF IntendCommit
  <2>2. CASE Leave /\ UNCHANGED projection
    BY <1>0, <2>1, <2>2, IdleStep DEF Leave, Goto, repository
  <2>3. CASE PinGate(Latest(i)) /\ CommitIntent(LatestId(i), Latest(i).end) /\ Done
    <3> DEFINE x == LatestId(i)
               view == [exec[x] EXCEPT !.intent = exec[x].end]
    <3>1. /\ x \in Execution /\ exec[x] \in View /\ issue[x[1]] = "ACTIVE"
          /\ Latest(i) = exec[x] /\ pc \in Looping /\ exec[x].state = "ACCEPTED"
      BY <2>1, InStateExists DEF InState, Stepping, At, Looping, LatestId
    <3>2. exec[x].intent = NoCommit /\ exec[x].end # NoCommit
      BY <2>1, <2>3, <3>1 DEF PinGate
    <3>3. exec' = [exec EXCEPT ![x] = view] /\ UNCHANGED <<issue, base>>
      BY <2>3, <3>1, <3>2 DEF CommitIntent
    <3>4. /\ view.state # "NONE" /\ view.end = exec[x].end /\ view.intent = exec[x].end
          /\ view.created = exec[x].created
      BY <3>1 DEF View
    <3>5. HistoryHolds'
      <4> HIDE DEF x, view
      <4> QED
        BY <1>0, <2>1, <3>1, <3>2, <3>3, <3>4, HistoryOfIntent DEF repository
    <3>6. PlaceHolds'
      BY <1>0, <2>3, <3>1, <3>3, BackToLoop DEF Done, ActiveIssues
    <3> QED
      BY <3>5, <3>6 DEF HistoryInv
  <2> QED
    BY <2>1, <2>2, <2>3
<1>2. CASE Merge
  <2>1. PICK i \in Issues :
          /\ InState(i, "ACCEPTED") /\ Latest(i).intent # NoCommit /\ ~Latest(i).created
          /\ \/ /\ MergeWitnessed(Latest(i).intent) /\ Continue(i, "MergeFact")
                /\ UNCHANGED <<commits, tip>>
             \/ /\ ~IsAncestor(Latest(i).intent, tip[Target])
                /\ MergeTo(Latest(i).intent) /\ Continue(i, "MergeFact")
             \/ Leave /\ UNCHANGED <<commits, tip>>
          /\ UNCHANGED projection
    BY <1>2 DEF Merge
  <2>2. PICK x \in Unwitnessed : x = LatestId(i) /\ x \in Execution /\ Latest(i) = exec[x]
    BY <2>1, InStateExists DEF Unwitnessed
  <2>3. CASE Leave /\ UNCHANGED <<commits, tip>>
    BY <1>0, <2>1, <2>3, IdleStep DEF Leave, Goto
  <2>4. CASE Continue(i, "MergeFact")
    <3>1. /\ pc' = "MergeFact" /\ cur' = i /\ UNCHANGED <<plan, base, exec, attempts>>
          /\ ActiveIssues' = ActiveIssues
      BY <2>1, <2>4 DEF Continue, projection, ActiveIssues
    <3>2. HistoryHolds' /\ Merged(exec[x].intent)' /\ Grows
      <4>1. CASE MergeWitnessed(exec[x].intent) /\ UNCHANGED <<commits, tip>>
        <5>1. Merged(exec[x].intent)
          BY <1>0, <2>1, <2>2, <4>1, WitnessIsMerge DEF IInv
        <5>2. Merged(exec[x].intent)'
          BY <3>1, <4>1, <5>1 DEF Merged, Merges
        <5> QED
          BY <1>0, <2>1, <4>1, <5>2, HistoryOfMove, SameGrows
      <4>2. CASE MergeTo(exec[x].intent) /\ ~IsAncestor(exec[x].intent, tip[Target])
        <5>1. HistoryHolds' /\ Merged(exec[x].intent)'
          BY <1>0, <2>1, <4>2, HistoryOfMerge
        <5>2. Grows
          <6>1. exec[x].intent \in Made /\ tip[Target] \in Made
            BY <1>0, <2>2, CurrentIsMade DEF Unwitnessed, ProjectionInv, PinsHold, Pinned
          <6> QED
            BY <1>0, <4>2, <6>1, MergeAncestry DEF MergeTo
        <5> QED
          BY <5>1, <5>2
      <4> QED
        BY <2>1, <2>2, <2>3, <2>4, <4>1, <4>2 DEF Leave, Goto, Continue
    <3>3. Planned' /\ Foremost(cur)'
      BY <2>1, <3>1, <3>2, StepStarts
    <3>4. Merged(Ex.intent)'
      <4>1. Ex' = exec'[x]
        BY <2>2, <3>1 DEF Ex, X, LatestId
      <4> QED
        BY <3>2, <4>1 DEF Merged
    <3> QED
      BY <3>1, <3>2, <3>3, <3>4, ArriveMerged DEF HistoryInv
  <2> QED
    BY <2>1, <2>3, <2>4
<1>3. CASE RecordMerge
  <2> DEFINE view == [exec[X] EXCEPT !.created = TRUE]
  <2>1. /\ pc = "MergeFact" /\ CommitCreated(X) /\ pc' = "Loop" /\ UNCHANGED <<repository, plan>>
    BY <1>3 DEF RecordMerge, At, Done
  <2>2. X \in Execution /\ exec[X] \in View /\ Merged(exec[X].intent) /\ X \in Unwitnessed
    BY <1>0, <2>1, SteppedExists DEF MidStep, Looping, PlaceHolds, TurnInv, StepHolds
  <2>3. exec[X].state = "ACCEPTED" /\ exec[X].intent # NoCommit
    BY <1>0, <2>2 DEF Unwitnessed, ProjectionInv, PinsHold, Pinned
  <2>4. exec' = [exec EXCEPT ![X] = view] /\ UNCHANGED <<issue, base>>
    BY <1>0, <2>1 DEF CommitCreated, Poison
  <2>5. /\ view.state = "ACCEPTED" /\ view.end = exec[X].end
        /\ view.intent = exec[X].intent /\ view.created
    BY <2>2, <2>3 DEF View
  <2>6. SameWork /\ Unwitnessed' \subseteq Unwitnessed
    <3> HIDE DEF view
    <3> QED
      BY <1>0, <2>2, <2>3, <2>4, <2>5, WorkKept
  <2>7. HistoryHolds' /\ ActiveIssues' = ActiveIssues
    BY <1>0, <2>1, <2>4, <2>6, HistoryOfLog DEF repository, ActiveIssues
  <2>8. PlaceHolds'
    BY <1>0, <2>1, <2>7, BackToLoop DEF Looping
  <2> QED
    BY <2>7, <2>8 DEF HistoryInv
<1>4. CASE CompleteIssue
  <2>1. PICK i \in Issues :
          /\ InState(i, "ACCEPTED") /\ IssueClosed(i, "DONE") /\ Continue(i, "DropRef")
          /\ UNCHANGED repository
    BY <1>4 DEF CompleteIssue
  <2>2. /\ issue' = [issue EXCEPT ![i] = "DONE"] /\ UNCHANGED <<base, exec, plan>>
        /\ pc' = "DropRef" /\ cur' = i
    BY <1>0, <2>1 DEF IssueClosed, Poison, Continue
  <2>3. ActiveIssues' \subseteq ActiveIssues /\ Grows
    BY <1>0, <2>1, <2>2, SameGrows
    DEF ActiveIssues, ProjectionInv, ProjectionTypeOK, repository
  <2>4. HistoryHolds'
    BY <1>0, <2>1, <2>2, <2>3, NoWork, HistoryOfLog DEF repository
  <2>5. Planned' /\ Foremost(cur)'
    BY <2>1, <2>2, <2>3, StepStarts
  <2> QED
    BY <2>2, <2>4, <2>5, ArriveVerdict DEF Verdicts, HistoryInv
<1>5. CASE DropAttemptRef
  <2>1. /\ pc = "DropRef" /\ UNCHANGED <<projection, commits, tip, plan>> /\ pc' = "Loop"
    BY <1>5 DEF DropAttemptRef, At, Done
  <2>2. HistoryHolds'
    BY <1>0, <2>1, HistoryOfMove
  <2>3. PlaceHolds'
    BY <1>0, <2>1, BackToLoop DEF Looping, ActiveIssues, projection
  <2> QED
    BY <2>2, <2>3 DEF HistoryInv
<1> QED
  BY <1>1, <1>2, <1>3, <1>4, <1>5

LEMMA HistoryPreserved ==
  ASSUME IInv, TurnInv, HistoryInv, [Next]_vars
  PROVE  HistoryInv'
<1>0. TurnInv'
  BY TurnPreserved
<1>1. CASE UNCHANGED vars
  <2>1. UNCHANGED <<projection, repository, process>>
    BY <1>1 DEF vars
  <2>2. /\ UNCHANGED <<commits, tip, head, plan, pc, cur, exec, base, attempts, issue>>
    BY <2>1 DEF projection, repository, process
  <2>3. HistoryHolds'
    BY <2>1, <2>2, HistoryOfMove DEF HistoryInv
  <2>4. /\ ActiveIssues' = ActiveIssues /\ PlannedIssues' = PlannedIssues
        /\ CurrentCommit' = CurrentCommit /\ Ex' = Ex
        /\ Intended' = Intended /\ Merges' = Merges
    BY <2>2
    DEF ActiveIssues, PlannedIssues, CurrentCommit, Ex, X, LatestId, Intended, Unwitnessed,
        Merges
  <2>5. PlaceHolds'
    BY <2>2, <2>4 DEF HistoryInv, PlaceHolds, IsAncestor, Fresh, Merged
  <2> QED
    BY <2>3, <2>5 DEF HistoryInv
<1>2. CASE LoopStep
  BY <1>0, <1>2, ChoiceHistory, ExecutingHistory, FinishHistory, VerdictHistory, CommitHistory
  DEF LoopStep
<1> QED
  BY <1>0, <1>1, <1>2, RecoveryHistory, StartupHistory, StopHistory DEF Next, Step

LEMMA InitHistory ==
  ASSUME Init
  PROVE  HistoryInv
<1>1. /\ commits = <<Root>> /\ Made = {1} /\ commits[1] = Root /\ DOMAIN commits = {1}
      /\ exec = [x \in Execution |-> NoView] /\ issue = [i \in Issues |-> "ABSENT"]
      /\ pc = "Down"
  BY DEF Init, RepositoryInit, ProjectionInit, ProcessInit, Made
<1>2. Merges = {} /\ ActiveIssues = {} /\ Unwitnessed = {}
  BY <1>1 DEF Merges, Root, ActiveIssues, Unwitnessed, NoView
<1>3. AncestryHolds
  BY <1>1 DEF AncestryHolds, IsAncestor, Root
<1>4. StackHolds /\ MergedOnce
  BY <1>2 DEF StackHolds, MergedOnce
<1>5. EndsHold /\ MergesHold
  BY <1>1, <1>2 DEF EndsHold, MergesHold, NoView
<1>6. PlaceHolds
  BY <1>1 DEF PlaceHolds, Looping, MidStep, Working
<1> QED
  BY <1>3, <1>4, <1>5, <1>6 DEF HistoryInv, HistoryHolds

-----------------------------------------------------------------------------
(* The theorems.                                                           *)

\* What the history of the repository says of the log, whatever stops the run.
THEOREM HistoryInvariance == Spec => []HistoryInv
<1>1. Init => HistoryInv
  BY InitHistory
<1>2. IInv /\ TurnInv /\ HistoryInv /\ [Next]_vars => HistoryInv'
  BY HistoryPreserved
<1> QED
  BY <1>1, <1>2, Invariance, TurnInvariance, PTL DEF Spec

\* Exactly-once merge: no stop between the merge (git_adapter.merge_to) and its
\* CommitCreated, and no reset of the target by recovery, makes the loop or check 2
\* merge the same work a second time.
THEOREM MergesOnce == Spec => []MergedOnce
<1>1. HistoryInv => MergedOnce
  BY DEF HistoryInv, HistoryHolds
<1> QED
  BY <1>1, HistoryInvariance, PTL

-----------------------------------------------------------------------------
(* Refinement of Delivery.                                                 *)

Stages == [i \in Issues |-> StageOf(i)]

\* The stage of an issue that is worked on, and of one that is not.
LEMMA ActiveStage ==
  ASSUME NEW i \in Issues, issue[i] = "ACTIVE"
  PROVE  StageOf(i) = IF ~HasExecution(i) \/ exec[LatestId(i)].state # "ACCEPTED"
                      THEN "working"
                      ELSE IF MergedWork(i) THEN "merged" ELSE "approved"
BY DEF StageOf, Latest

LEMMA OtherStage ==
  ASSUME NEW i \in Issues
  PROVE  /\ issue[i] \in {"ABSENT", "PENDING"} => StageOf(i) = "waiting"
         /\ issue[i] = "DONE" => StageOf(i) = "done"
         /\ issue[i] \in {"NEEDS_HUMAN", "NEEDS_DECOMPOSITION"} => StageOf(i) = "failed"
<1>1. issue[i] \in {"ABSENT", "PENDING"} => StageOf(i) = "waiting"
  BY DEF StageOf
<1>2. issue[i] = "DONE" => StageOf(i) = "done"
  BY DEF StageOf
<1>3. issue[i] \in {"NEEDS_HUMAN", "NEEDS_DECOMPOSITION"} => StageOf(i) = "failed"
  BY DEF StageOf
<1> QED
  BY <1>1, <1>2, <1>3

\* An issue keeps its stage while its latest execution keeps its verdict and, when
\* accepted, its work stays merged or unmerged.
LEMMA StageKept ==
  ASSUME ProjectionTypeOK,
         NEW j \in Issues, issue'[j] = issue[j],
         issue[j] = "ACTIVE" =>
           /\ attempts'[j] = attempts[j]
           /\ HasExecution(j) =>
                /\ exec'[LatestId(j)].state = "ACCEPTED" <=> exec[LatestId(j)].state = "ACCEPTED"
                /\ exec[LatestId(j)].state = "ACCEPTED" => (MergedWork(j)' <=> MergedWork(j))
  PROVE  StageOf(j)' = StageOf(j)
<1>1. CASE issue[j] = "ACTIVE"
  <2>1. (HasExecution(j)' <=> HasExecution(j)) /\ LatestId(j)' = LatestId(j)
    BY <1>1 DEF HasExecution, LatestId
  <2>2. StageOf(j)' = IF ~HasExecution(j)' \/ exec'[LatestId(j)'].state # "ACCEPTED"
                      THEN "working"
                      ELSE IF MergedWork(j)' THEN "merged" ELSE "approved"
    BY <1>1 DEF StageOf, Latest
  <2> QED
    BY <1>1, <2>1, <2>2, ActiveStage
<1>2. CASE issue[j] # "ACTIVE"
  <2>1. issue[j] \in {"ABSENT", "PENDING", "DONE", "NEEDS_HUMAN", "NEEDS_DECOMPOSITION"}
    BY <1>2 DEF ProjectionTypeOK, IssueState
  <2> QED
    BY <2>1 DEF StageOf
<1> QED
  BY <1>1, <1>2

\* Every issue keeps its stage.
LEMMA StagesKept ==
  ASSUME \A j \in Issues : StageOf(j)' = StageOf(j)
  PROVE  [Promise!Next]_Stages
<1>1. Stages' = Stages
  BY DEF Stages
<1> QED
  BY <1>1

\* One issue moves on.
LEMMA StageMoves ==
  ASSUME NEW i \in Issues, NEW from, NEW to, StageOf(i) = from, StageOf(i)' = to,
         \A j \in Issues \ {i} : StageOf(j)' = StageOf(j)
  PROVE  Promise!Move(i, from, to)
<1>1. Stages[i] = from
  BY DEF Stages
<1>2. Stages' = [Stages EXCEPT ![i] = to]
  BY DEF Stages
<1> QED
  BY <1>1, <1>2 DEF Promise!Move, Stages

\* Whether an issue's work was merged depends on what its latest execution intends.
LEMMA WorkStays ==
  ASSUME ProjectionTypeOK, NEW j \in Issues, HasExecution(j), attempts'[j] = attempts[j],
         exec'[LatestId(j)].intent = exec[LatestId(j)].intent, NEW c,
         c = exec[LatestId(j)].intent, Merged(c)' <=> Merged(c)
  PROVE  MergedWork(j)' <=> MergedWork(j)
<1>1. LatestId(j)' = LatestId(j) /\ HasExecution(j)'
  BY DEF LatestId, HasExecution
<1>2. MergedWork(j) <=> Merged(c)
  BY DEF MergedWork, Merged, Latest
<1>3. MergedWork(j)' <=> Merged(c)'
  BY <1>1 DEF MergedWork, Merged, Latest
<1> QED
  BY <1>2, <1>3

LEMMA LatestIsExecution ==
  ASSUME ProjectionTypeOK, NEW j \in Issues, HasExecution(j)
  PROVE  LatestId(j) \in Execution
BY BudgetAssumption DEF HasExecution, LatestId, Execution, ProjectionTypeOK

\* A step of the log about one issue leaves the stage of the others.
LEMMA OthersKept ==
  ASSUME ProjectionTypeOK, UNCHANGED commits, NEW i \in Issues,
         \A j \in Issues \ {i} : issue'[j] = issue[j] /\ attempts'[j] = attempts[j],
         \A x \in Execution : x[1] # i => exec'[x] = exec[x]
  PROVE  \A j \in Issues \ {i} : StageOf(j)' = StageOf(j)
<1>1. SUFFICES ASSUME NEW j \in Issues, j # i
               PROVE  StageOf(j)' = StageOf(j)
  OBVIOUS
<1>2. HasExecution(j) => exec'[LatestId(j)] = exec[LatestId(j)]
  BY <1>1, LatestIsExecution DEF LatestId
<1>3. \A c : Merged(c)' <=> Merged(c)
  BY DEF Merges, Merged
<1>4. HasExecution(j) => (MergedWork(j)' <=> MergedWork(j))
  BY <1>1, <1>2, <1>3, WorkStays
<1> QED
  BY <1>1, <1>2, <1>4, StageKept

\* An event that neither accepts an execution nor is about an accepted one.
LEMMA UnacceptedStages ==
  ASSUME ProjectionTypeOK, UNCHANGED <<issue, attempts, commits>>, NEW x \in Execution,
         NEW view, exec' = [exec EXCEPT ![x] = view],
         exec[x].state # "ACCEPTED", view.state # "ACCEPTED"
  PROVE  [Promise!Next]_Stages
<1>1. PICK i \in Issues : x[1] = i
  BY DEF Execution
<1>2. exec'[x] = view /\ \A y \in Execution \ {x} : exec'[y] = exec[y]
  BY DEF ProjectionTypeOK
<1>3. \A j \in Issues \ {i} : StageOf(j)' = StageOf(j)
  BY <1>1, <1>2, OthersKept
<1>4. StageOf(i)' = StageOf(i)
  <2>1. CASE HasExecution(i) /\ LatestId(i) = x
    BY <1>2, <2>1, StageKept
  <2>2. CASE HasExecution(i) /\ LatestId(i) # x
    <3>1. exec'[LatestId(i)] = exec[LatestId(i)]
      BY <1>2, <2>2, LatestIsExecution
    <3>2. \A c : Merged(c)' <=> Merged(c)
      BY DEF Merges, Merged
    <3>3. MergedWork(i)' <=> MergedWork(i)
      BY <2>2, <3>1, <3>2, WorkStays
    <3> QED
      BY <3>1, <3>3, StageKept
  <2>3. CASE ~HasExecution(i)
    BY <2>3, StageKept
  <2> QED
    BY <2>1, <2>2, <2>3
<1> QED
  BY <1>3, <1>4, StagesKept

\* The log and the history stay.
LEMMA StagesStill ==
  ASSUME UNCHANGED <<projection, commits>>
  PROVE  [Promise!Next]_Stages
<1>1. \A j \in Issues : StageOf(j)' = StageOf(j)
  BY DEF StageOf, MergedWork, Merges, Latest, LatestId, HasExecution, projection
<1> QED
  BY <1>1, StagesKept

\* A commit that is no merge, or none.
LEMMA StagesGrow ==
  ASSUME IInv, AncestryHolds, UNCHANGED projection,
         \/ UNCHANGED commits
         \/ commits' = Append(commits, ChildOf(CurrentCommit))
  PROVE  [Promise!Next]_Stages
<1>1. CASE UNCHANGED commits
  BY <1>1, StagesStill
<1>2. CASE commits' = Append(commits, ChildOf(CurrentCommit))
  <2>1. Merges' = Merges /\ \A m \in Made : commits'[m] = commits[m]
    BY <1>2, ChildAncestry, CurrentIsMade DEF IInv, Grows
  <2>2. Merges \subseteq Made
    BY CurrentIsMade DEF IInv, Merges, Made
  <2>3. \A j \in Issues : StageOf(j)' = StageOf(j)
    BY <2>1, <2>2 DEF StageOf, MergedWork, Latest, LatestId, HasExecution, projection
  <2> QED
    BY <2>3, StagesKept
<1> QED
  BY <1>1, <1>2

\* A merge of intended work moves its issue on, and no other: an ACTIVE issue that
\* ended at the same commit did nothing or is the one whose base it is, and the
\* target held that.
LEMMA MergeMoves ==
  ASSUME IInv, TurnInv, HistoryHolds, UNCHANGED projection,
         NEW x \in Unwitnessed, MergeTo(exec[x].intent),
         ~IsAncestor(exec[x].intent, tip[Target])
  PROVE  [Promise!Next]_Stages
<1> USE DEF HistoryHolds
<1> PICK c : c = exec[x].intent
  OBVIOUS
<1>0. UNCHANGED <<issue, base, attempts, exec>> /\ ProjectionTypeOK /\ RepositoryInv
  BY DEF projection, IInv, ProjectionInv
<1>1. /\ x \in Execution /\ x[1] \in Issues /\ issue[x[1]] = "ACTIVE" /\ x = LatestId(x[1])
      /\ exec[x].state = "ACCEPTED" /\ exec[x].end = c /\ c \in Made /\ c # NoCommit
  BY DEF Unwitnessed, TurnInv, OneInFlight, InFlight, Execution, IInv, ProjectionInv,
     PinsHold, Pinned
<1>2. PICK i \in Issues : x[1] = i
  BY <1>1
<1>3. HasExecution(i)
  <2>1. x[2] <= attempts[i] /\ x[2] \in 1 .. MaxAttempts /\ attempts[i] \in Nat
    BY <1>0, <1>1, <1>2 DEF IInv, ProjectionInv, PinsHold, Execution, ProjectionTypeOK
  <2> QED
    BY <2>1, BudgetAssumption DEF HasExecution
<1>4. /\ Merges' = Merges \cup {NewCommit} /\ Merges \subseteq Made
      /\ commits'[NewCommit].second = c /\ \A m \in Made : commits'[m] = commits[m]
  <2>1. commits' = Append(commits, MergeOf(tip[Target], c)) /\ tip[Target] \in Made
    BY <1>0, CurrentIsMade DEF MergeTo
  <2> QED
    BY <1>0, <1>1, <2>1, MergeAncestry DEF Grows
<1>5. /\ Merged(c)' /\ ~Merged(c)
      /\ \A d : d # c => (Merged(d)' <=> Merged(d))
  <2>1. \A m \in Merges : commits'[m].second = commits[m].second
    BY <1>4
  <2>2. ~Merged(c)
    BY DEF MergesHold
  <2> QED
    BY <1>4, <2>1, <2>2 DEF Merged
<1>6. StageOf(i) = "approved"
  <2>1. ~MergedWork(i)
    BY <1>1, <1>2, <1>5 DEF MergedWork, Merged, Latest
  <2> QED
    BY <1>1, <1>2, <1>3, <2>1, ActiveStage
<1>7. StageOf(i)' = "merged"
  <2>1. issue'[i] = "ACTIVE" /\ HasExecution(i)' /\ Latest(i)' = exec[x]
    BY <1>0, <1>1, <1>2, <1>3 DEF HasExecution, Latest, LatestId
  <2>2. MergedWork(i)'
    BY <1>5, <2>1 DEF MergedWork, Merged
  <2> QED
    BY <1>1, <2>1, <2>2 DEF StageOf
<1>8. ASSUME NEW j \in Issues, j # i
      PROVE  StageOf(j)' = StageOf(j)
  <2>1. SUFFICES ASSUME issue[j] = "ACTIVE", HasExecution(j),
                        exec[LatestId(j)].state = "ACCEPTED"
                 PROVE  MergedWork(j)' <=> MergedWork(j)
    BY <1>0, StageKept
  <2>2. PICK y \in Execution : y = LatestId(j) /\ y # x /\ y[1] = j
    BY <1>0, <1>2, <1>8, <2>1, LatestIsExecution DEF LatestId
  <2>3. exec[y].intent # c
    <3>1. SUFFICES ASSUME exec[y].intent = c PROVE FALSE
      OBVIOUS
    <3>2. exec[y].end = c
      BY <1>1, <3>1 DEF IInv, ProjectionInv, PinsHold, Pinned
    <3>3. c \in {base[i], base[j]}
      BY <1>1, <1>2, <2>2, <3>2 DEF EndsHold
    <3>4. i \in ActiveIssues /\ j \in ActiveIssues
      BY <1>1, <1>2, <2>1 DEF ActiveIssues
    <3> QED
      BY <3>3, <3>4 DEF StackHolds
  <2>4. PICK d : d = exec[y].intent
    OBVIOUS
  <2>5. Merged(d)' <=> Merged(d)
    BY <1>5, <2>3, <2>4
  <2> QED
    BY <1>0, <2>1, <2>2, <2>4, <2>5, WorkStays
<1>9. Promise!Merge(i)
  BY <1>6, <1>7, <1>8, StageMoves DEF Promise!Merge
<1> QED
  BY <1>9 DEF Promise!Next

\* An event about the latest execution of an ACTIVE issue moves that issue alone.
LEMMA VerdictMoves ==
  ASSUME ProjectionTypeOK, UNCHANGED <<issue, attempts, commits>>,
         NEW i \in Issues, HasExecution(i), issue[i] = "ACTIVE",
         NEW view, exec' = [exec EXCEPT ![LatestId(i)] = view]
  PROVE  /\ \A j \in Issues \ {i} : StageOf(j)' = StageOf(j)
         /\ StageOf(i)' = IF view.state # "ACCEPTED" THEN "working"
                          ELSE IF Merged(view.intent) THEN "merged" ELSE "approved"
<1> DEFINE x == LatestId(i)
<1>1. x \in Execution /\ x[1] = i
  BY LatestIsExecution DEF LatestId
<1>2. exec'[x] = view /\ \A y \in Execution \ {x} : exec'[y] = exec[y]
  BY <1>1 DEF ProjectionTypeOK
<1>3. \A j \in Issues \ {i} : StageOf(j)' = StageOf(j)
  BY <1>1, <1>2, OthersKept
<1>4. issue'[i] = "ACTIVE" /\ HasExecution(i)' /\ Latest(i)' = view
  BY <1>2 DEF HasExecution, Latest, LatestId
<1>5. MergedWork(i)' <=> Merged(view.intent)
  BY <1>4 DEF MergedWork, Merged, Merges
<1> QED
  BY <1>3, <1>4, <1>5 DEF StageOf

\* An issue is moved by its own event.
LEMMA IssueMoves ==
  ASSUME ProjectionTypeOK, UNCHANGED <<attempts, exec, commits>>, NEW i \in Issues,
         NEW final, issue' = [issue EXCEPT ![i] = final]
  PROVE  issue'[i] = final /\ \A j \in Issues \ {i} : StageOf(j)' = StageOf(j)
<1>1. issue'[i] = final /\ \A j \in Issues \ {i} : issue'[j] = issue[j]
  BY DEF ProjectionTypeOK
<1> QED
  BY <1>1, OthersKept

\* A way out of ACTIVE that is not completion, for an issue with nothing accepted.
LEMMA IssueFails ==
  ASSUME ProjectionTypeOK, UNCHANGED <<attempts, exec, commits>>, NEW i \in Issues,
         issue[i] = "ACTIVE", HasExecution(i) => exec[LatestId(i)].state # "ACCEPTED",
         NEW final \in {"NEEDS_HUMAN", "NEEDS_DECOMPOSITION"},
         issue' = [issue EXCEPT ![i] = final]
  PROVE  [Promise!Next]_Stages
<1>1. StageOf(i) = "working"
  BY ActiveStage
<1>2. issue'[i] = final /\ \A j \in Issues \ {i} : StageOf(j)' = StageOf(j)
  BY IssueMoves
<1>3. StageOf(i)' = "failed"
  BY <1>2 DEF StageOf
<1>4. Promise!Fail(i)
  BY <1>1, <1>2, <1>3, StageMoves DEF Promise!Fail
<1> QED
  BY <1>4 DEF Promise!Next

\* Recording a merge says nothing new: the issue was past it already.
LEMMA FactKeepsStage ==
  ASSUME IInv, TurnInv, LogReplays', NEW x \in Unwitnessed, CommitCreated(x), UNCHANGED commits
  PROVE  [Promise!Next]_Stages
<1> DEFINE view == [exec[x] EXCEPT !.created = TRUE]
<1>0. ProjectionTypeOK /\ ~poisoned'
  BY DEF IInv, ProjectionInv, LogReplays
<1>1. /\ x \in Execution /\ exec[x] \in View /\ exec[x].intent # NoCommit
      /\ issue[x[1]] = "ACTIVE" /\ x = LatestId(x[1]) /\ x[1] \in Issues
      /\ exec[x].state = "ACCEPTED" /\ x[2] <= attempts[x[1]]
  BY <1>0 DEF Unwitnessed, TurnInv, OneInFlight, InFlight, Execution, IInv, ProjectionInv,
     PinsHold, Pinned, ProjectionTypeOK
<1>2. PICK i \in Issues : x[1] = i /\ x = LatestId(i)
  BY <1>1
<1>3. HasExecution(i)
  <2>1. x[2] \in 1 .. MaxAttempts /\ attempts[i] \in Nat
    BY <1>0, <1>1 DEF Execution, ProjectionTypeOK
  <2> QED
    BY <1>1, <1>2, <2>1, BudgetAssumption DEF HasExecution
<1>4. exec' = [exec EXCEPT ![x] = view] /\ UNCHANGED <<issue, attempts>>
  BY <1>0 DEF CommitCreated, Poison
<1>5. view.state = "ACCEPTED" /\ view.intent = exec[x].intent
  BY <1>1 DEF View
<1>6. /\ \A j \in Issues \ {i} : StageOf(j)' = StageOf(j)
      /\ StageOf(i)' = IF Merged(exec[x].intent) THEN "merged" ELSE "approved"
  <2> HIDE DEF view
  <2> QED
    BY <1>0, <1>1, <1>2, <1>3, <1>4, <1>5, VerdictMoves
<1>7. MergedWork(i) <=> Merged(exec[x].intent)
  BY <1>2, <1>3 DEF MergedWork, Merged, Latest
<1> QED
  BY <1>1, <1>2, <1>3, <1>6, <1>7, ActiveStage, StagesKept

LEMMA RecoveryDelivers ==
  ASSUME IInv, TurnInv, TurnInv', HistoryInv, RecoveryStep
  PROVE  [Promise!Next]_Stages
<1>0. /\ HistoryHolds /\ PlaceHolds /\ ProjectionInv /\ ProjectionTypeOK /\ ~poisoned'
      /\ LogReplays' /\ AncestryHolds
  BY DEF HistoryInv, HistoryHolds, IInv, ProjectionInv, TurnInv, LogReplays
<1>1. CASE Start \/ ReferResidue \/ NoOrphans \/ CheckUnwitnessed \/ ArchiveResidue
           \/ RestoreWorkspace
  <2>1. UNCHANGED <<projection, commits>>
    BY <1>1
    DEF Start, ReferResidue, NoOrphans, CheckUnwitnessed, ArchiveResidue, RestoreWorkspace,
        repository
  <2> QED
    BY <2>1, StagesStill
<1>2. CASE PreserveResidue \/ CheckWorkspace
  <2>1. /\ UNCHANGED projection
        /\ \/ UNCHANGED commits
           \/ commits' = Append(commits, ChildOf(CurrentCommit))
    BY <1>2 DEF PreserveResidue, CheckWorkspace, SnapshotCommit, CommitOnHead
  <2> QED
    BY <1>0, <2>1, StagesGrow
<1>3. CASE CrashOrphan
  <2> DEFINE view == [exec[Orphan] EXCEPT !.state = "CRASHED"]
  <2>1. Orphan \in Execution /\ exec[Orphan].state = "EXECUTING" /\ exec[Orphan] \in View
    BY <1>0, <1>3, OrphanExists
    DEF CrashOrphan, At, IInv, ProcessInv, ControlHolds, ProjectionTypeOK
  <2>2. view.state = "CRASHED"
    BY <2>1 DEF View
  <2>3. exec' = [exec EXCEPT ![Orphan] = view] /\ UNCHANGED <<issue, attempts, commits>>
    BY <1>3, <2>1 DEF CrashOrphan, ExecutionCrashed, ExecutionTransition, repository
  <2> HIDE DEF view
  <2> QED
    BY <1>0, <2>1, <2>2, <2>3, UnacceptedStages
<1>4. CASE RedoMerge
  <2>1. Unwitnessed # {} /\ UNCHANGED projection /\ ~IsAncestor(exec[Intended].intent, tip[Target])
    BY <1>0, <1>4 DEF RedoMerge, At, IInv, ProcessInv, ControlHolds, PlaceHolds
  <2>2. CASE UNCHANGED repository
    BY <2>1, <2>2, StagesStill DEF repository
  <2>3. CASE MergeTo(exec[Intended].intent)
    <3>1. PICK x \in Unwitnessed : x = Intended
      BY <2>1 DEF Intended
    <3> QED
      BY <1>0, <2>1, <2>3, <3>1, MergeMoves
  <2> QED
    BY <1>4, <2>2, <2>3 DEF RedoMerge
<1>5. CASE RedoFact
  <2>1. Unwitnessed # {} /\ CommitCreated(Intended) /\ UNCHANGED commits
    BY <1>5 DEF RedoFact, At, IInv, ProcessInv, ControlHolds, repository
  <2> PICK x \in Unwitnessed : x = Intended
    BY <2>1 DEF Intended
  <2>2. CommitCreated(x)
    BY <2>1
  <2> QED
    BY <1>0, <2>1, <2>2, FactKeepsStage
<1> QED
  BY <1>1, <1>2, <1>3, <1>4, <1>5 DEF RecoveryStep

LEMMA StartupDelivers ==
  ASSUME IInv, StartupStep \/ Kill \/ Interrupt \/ ReviewerUnavailable
  PROVE  [Promise!Next]_Stages
<1>1. CASE UNCHANGED <<projection, commits>>
  BY <1>1, StagesStill
<1>2. CASE Ingest /\ ~UNCHANGED projection
  <2> DEFINE new == {i \in Issues : issue[i] = "ABSENT"}
  <2>1. PICK i \in Issues : i = First(new) /\ issue[i] = "ABSENT"
    BY <1>2, FirstIsMember DEF Ingest
  <2>2. /\ issue' = [issue EXCEPT ![i] = "PENDING"]
        /\ UNCHANGED <<attempts, exec, commits>>
    BY <1>2, <2>1 DEF Ingest, IssueCreated, repository
  <2>3. issue'[i] = "PENDING" /\ \A j \in Issues \ {i} : StageOf(j)' = StageOf(j)
    BY <2>2, IssueMoves DEF IInv, ProjectionInv
  <2>4. StageOf(i)' = StageOf(i)
    BY <2>1, <2>3 DEF StageOf
  <2> QED
    BY <2>3, <2>4, StagesKept
<1>3. Ingest \/ UNCHANGED <<projection, commits>>
  BY DEF StartupStep, Select, CheckoutTarget, Shutdown, Kill, Interrupt,
     ReviewerUnavailable, repository
<1>4. Ingest => UNCHANGED commits
  BY DEF Ingest, repository
<1> QED
  BY <1>1, <1>2, <1>3, <1>4

LEMMA ChoiceDelivers ==
  ASSUME IInv, TurnInv, TurnInv', HistoryInv,
         Drained \/ Activate \/ Escalate \/ Spawn \/ BudgetStop
  PROVE  [Promise!Next]_Stages
<1>0. /\ PlaceHolds /\ ProjectionTypeOK /\ ~poisoned'
      /\ exec \in [Execution -> View]
  BY DEF HistoryInv, IInv, ProjectionInv, ProjectionTypeOK, TurnInv, LogReplays
<1>1. CASE Drained \/ BudgetStop
  BY <1>1, StagesStill DEF Drained, BudgetStop, repository
<1>2. CASE Activate
  <2>1. PICK i \in Issues : /\ Stepping(i) /\ issue[i] = "PENDING"
                            /\ IssueActivated(i, tip[Target]) /\ UNCHANGED repository
    BY <1>2 DEF Activate
  <2>2. Planned
    BY <1>0, <2>1, LoopRelies DEF Stepping, At, Looping
  <2>3. DepsMet(i)
    BY <2>1, <2>2, TurnIsFirst
  <2>4. \A d \in DependsOn[i] : Stages[d] = "done"
    <3>1. \A d \in DependsOn[i] : d \in Issues /\ issue[d] = "DONE"
      BY <2>3, IssuesAssumption DEF DepsMet
    <3> QED
      BY <3>1, OtherStage DEF Stages
  <2>5. StageOf(i) = "waiting"
    BY <2>1, OtherStage
  <2>6. issue' = [issue EXCEPT ![i] = "ACTIVE"] /\ UNCHANGED <<attempts, exec, commits>>
    BY <2>1 DEF IssueActivated, repository
  <2>7. issue'[i] = "ACTIVE" /\ \A j \in Issues \ {i} : StageOf(j)' = StageOf(j)
    BY <1>0, <2>6, IssueMoves
  <2>8. ~HasExecution(i)'
    BY <2>1, <2>6 DEF IInv, ProjectionInv, BasesHold, HasExecution
  <2>9. StageOf(i)' = "working"
    BY <2>7, <2>8 DEF StageOf
  <2>10. Promise!Begin(i)
    BY <2>4, <2>5, <2>7, <2>9, StageMoves DEF Promise!Begin, Stages
  <2> QED
    BY <2>10 DEF Promise!Next
<1>3. CASE Escalate
  <2>1. PICK i \in Issues : /\ NeedsExecution(i) /\ IssueClosed(i, "NEEDS_HUMAN")
                            /\ UNCHANGED repository
    BY <1>3 DEF Escalate
  <2>2. /\ issue[i] = "ACTIVE"
        /\ HasExecution(i) => exec[LatestId(i)].state # "ACCEPTED"
        /\ issue' = [issue EXCEPT ![i] = "NEEDS_HUMAN"]
        /\ UNCHANGED <<attempts, exec, commits>>
    BY <2>1 DEF NeedsExecution, Retryable, Latest, IssueClosed, repository
  <2> QED
    BY <1>0, <2>2, IssueFails
<1>4. CASE Spawn
  <2>1. PICK i \in Issues :
          /\ NeedsExecution(i) /\ ~CapHit(i)
          /\ ExecutionSpawned(i, attempts[i] + 1, dirt \ {"tracked"}) /\ UNCHANGED repository
    BY <1>4 DEF Spawn
  <2> DEFINE x == <<i, attempts[i] + 1>>
             view == [NoView EXCEPT !.state = "EXECUTING", !.untracked = dirt \ {"tracked"}]
  <2>2. /\ exec' = [exec EXCEPT ![x] = view] /\ view.state = "EXECUTING"
        /\ attempts' = [attempts EXCEPT ![i] = attempts[i] + 1]
        /\ UNCHANGED <<issue, commits>> /\ issue[i] = "ACTIVE"
    BY <1>0, <2>1 DEF ExecutionSpawned, Poison, repository, NoView
  <2>3. x \in Execution /\ attempts'[i] = attempts[i] + 1 /\ attempts[i] \in Nat
        /\ \A j \in Issues \ {i} : attempts'[j] = attempts[j]
    BY <1>0, <2>1, <2>2, BudgetAssumption DEF Execution, CapHit, ProjectionTypeOK
  <2>4. exec'[x].state = "EXECUTING" /\ \A y \in Execution : y[1] # i => exec'[y] = exec[y]
    <3> HIDE DEF view
    <3> QED
      BY <1>0, <2>2, <2>3
  <2>5. \A j \in Issues \ {i} : StageOf(j)' = StageOf(j)
    BY <1>0, <2>2, <2>3, <2>4, OthersKept
  <2>6. StageOf(i) = "working"
    BY <2>1, ActiveStage DEF NeedsExecution, Retryable, Latest
  <2>7. StageOf(i)' = "working"
    <3>1. Latest(i)'.state = "EXECUTING" /\ issue'[i] = "ACTIVE"
      BY <2>2, <2>3, <2>4 DEF Latest, LatestId
    <3> QED
      BY <3>1 DEF StageOf
  <2> QED
    BY <2>5, <2>6, <2>7, StagesKept
<1> QED
  BY <1>1, <1>2, <1>3, <1>4

LEMMA ExecutingDelivers ==
  ASSUME IInv, TurnInv, TurnInv', HistoryInv,
         \/ CheckoutIssue \/ EngineWrites \/ EngineExits \/ SnapshotWork \/ ReferWork
         \/ FinishNormal \/ FinishRejected \/ Decompose \/ ResetWorkspace \/ CleanWorkspace
  PROVE  [Promise!Next]_Stages
<1>0. /\ ProjectionTypeOK /\ ~poisoned' /\ AncestryHolds /\ exec \in [Execution -> View]
  BY DEF HistoryInv, HistoryHolds, IInv, ProjectionInv, ProjectionTypeOK, TurnInv, LogReplays
<1>1. CASE CheckoutIssue \/ EngineExits \/ ReferWork \/ ResetWorkspace \/ CleanWorkspace
  <2>1. UNCHANGED <<projection, commits>>
    BY <1>1 DEF CheckoutIssue, EngineExits, ReferWork, ResetWorkspace, CleanWorkspace, repository
  <2> QED
    BY <2>1, StagesStill
<1>2. CASE EngineWrites \/ SnapshotWork
  <2>1. /\ UNCHANGED projection
        /\ \/ UNCHANGED commits
           \/ commits' = Append(commits, ChildOf(CurrentCommit))
    BY <1>2 DEF EngineWrites, SnapshotWork, SnapshotCommit, CommitOnHead
  <2> QED
    BY <1>0, <2>1, StagesGrow
<1>3. CASE FinishNormal \/ FinishRejected
  <2>1. /\ pc = "Finish" /\ UNCHANGED commits
        /\ ExecutionFinished(X, CurrentCommit) \/ ExecutionFinishedRejected(X, CurrentCommit)
    BY <1>3 DEF FinishNormal, FinishRejected, At, repository
  <2>2. X \in Execution /\ exec[X] \in View /\ exec[X].state = "EXECUTING"
    BY <1>0, <2>1 DEF TurnInv, StepHolds, Working, OpenExecutions
  <2>3. PICK state \in {"VALIDATING", "REJECTED"} :
          /\ exec' = [exec EXCEPT ![X] =
                        [exec[X] EXCEPT !.state = state, !.end = CurrentCommit]]
          /\ UNCHANGED <<issue, attempts>>
    BY <1>0, <2>1
    DEF ExecutionFinished, ExecutionFinishedRejected, ExecutionTransition, Poison
  <2> DEFINE view == [exec[X] EXCEPT !.state = state, !.end = CurrentCommit]
  <2>4. view.state = state
    BY <2>2 DEF View
  <2>5. exec' = [exec EXCEPT ![X] = view]
    BY <2>3
  <2> HIDE DEF view
  <2> QED
    BY <1>0, <2>1, <2>2, <2>3, <2>4, <2>5, UnacceptedStages
<1>4. CASE Decompose
  <2>1. pc = "Decompose" /\ IssueClosed(cur, "NEEDS_DECOMPOSITION") /\ UNCHANGED commits
    BY <1>4 DEF Decompose, At, repository
  <2>2. cur \in Issues /\ issue[cur] = "ACTIVE" /\ exec[LatestId(cur)].state = "REJECTED"
    BY <2>1, SteppedExists DEF TurnInv, StepHolds, MidStep, Looping, Ex, X
  <2>3. /\ issue' = [issue EXCEPT ![cur] = "NEEDS_DECOMPOSITION"]
        /\ UNCHANGED <<attempts, exec>>
    BY <2>1, <2>2 DEF IssueClosed
  <2> QED
    BY <1>0, <2>1, <2>2, <2>3, IssueFails
<1> QED
  BY <1>1, <1>2, <1>3, <1>4

LEMMA VerdictDelivers ==
  ASSUME IInv, TurnInv, TurnInv', HistoryInv, RunGate \/ GateVerdict \/ Review
  PROVE  [Promise!Next]_Stages
<1>0. /\ ProjectionTypeOK /\ ~poisoned' /\ exec \in [Execution -> View]
  BY DEF IInv, ProjectionInv, ProjectionTypeOK, TurnInv, LogReplays
<1>1. CASE RunGate
  <2>1. UNCHANGED <<projection, commits>>
    BY <1>1 DEF RunGate
  <2> QED
    BY <2>1, StagesStill
<1>2. CASE GateVerdict
  <2>1. /\ pc = "Gate" /\ UNCHANGED commits
        /\ ValidationPassed(X, Ex.end) \/ ValidationFailed(X)
    BY <1>2 DEF GateVerdict, At, repository
  <2>2. X \in Execution /\ exec[X] \in View /\ exec[X].state = "VALIDATING"
    BY <2>1, SteppedExists DEF TurnInv, StepHolds, MidStep, Looping
  <2>3. PICK view : /\ exec' = [exec EXCEPT ![X] = view] /\ UNCHANGED <<issue, attempts>>
                    /\ view \in { [exec[X] EXCEPT !.state = "REVIEWING", !.validated = Ex.end],
                                  [exec[X] EXCEPT !.state = "REJECTED"] }
    BY <1>0, <2>1 DEF ValidationPassed, ValidationFailed, ExecutionTransition, Poison
  <2>4. view.state # "ACCEPTED"
    BY <2>2, <2>3 DEF View
  <2> QED
    BY <1>0, <2>1, <2>2, <2>3, <2>4, UnacceptedStages
<1>3. CASE Review
  <2>1. PICK i \in Issues :
          /\ InState(i, "REVIEWING") /\ UNCHANGED commits
          /\ \/ ReviewApproved(LatestId(i), Latest(i).end)
             \/ \E f \in Feedbacks : ReviewRejected(LatestId(i), f)
             \/ IssueClosed(i, "NEEDS_HUMAN")
    BY <1>3 DEF Review, repository
  <2> DEFINE x == LatestId(i)
  <2>2. /\ x \in Execution /\ exec[x] \in View /\ issue[i] = "ACTIVE" /\ HasExecution(i)
        /\ exec[x].state = "REVIEWING" /\ Pinned(exec[x])
    BY <2>1, InStateExists
  <2>3. CASE IssueClosed(i, "NEEDS_HUMAN")
    BY <1>0, <2>1, <2>2, <2>3, IssueFails DEF IssueClosed
  <2>4. ASSUME NEW f \in Feedbacks, ReviewRejected(x, f)
        PROVE  [Promise!Next]_Stages
    <3> DEFINE view == [exec[x] EXCEPT !.state = "REJECTED", !.feedback = f]
    <3>1. view.state = "REJECTED"
      BY <2>2 DEF View
    <3>2. exec' = [exec EXCEPT ![x] = view] /\ UNCHANGED <<issue, attempts>>
      BY <2>2, <2>4 DEF ReviewRejected, ExecutionTransition
    <3> HIDE DEF x, view
    <3> QED
      BY <1>0, <2>1, <2>2, <3>1, <3>2, UnacceptedStages
  <2>5. CASE ReviewApproved(x, Latest(i).end)
    <3> DEFINE view == [exec[x] EXCEPT !.state = "ACCEPTED", !.reviewed = Latest(i).end]
    <3>1. view.state = "ACCEPTED" /\ view.intent = NoCommit
      BY <2>2 DEF View, Pinned
    <3>2. exec' = [exec EXCEPT ![x] = view] /\ UNCHANGED <<issue, attempts>>
      BY <2>2, <2>5 DEF ReviewApproved, ExecutionTransition
    <3>3. ~Merged(NoCommit)
      BY DEF Merged, Merges
    <3>4. StageOf(i) = "working"
      BY <2>2, ActiveStage
    <3>5. StageOf(i)' = "approved" /\ \A j \in Issues \ {i} : StageOf(j)' = StageOf(j)
      <4> HIDE DEF view
      <4> QED
        BY <1>0, <2>1, <2>2, <3>1, <3>2, <3>3, VerdictMoves
    <3>6. Promise!Approve(i)
      BY <3>4, <3>5, StageMoves DEF Promise!Approve
    <3> QED
      BY <3>6 DEF Promise!Next
  <2> QED
    BY <2>1, <2>3, <2>4, <2>5
<1> QED
  BY <1>1, <1>2, <1>3

LEMMA CommitDelivers ==
  ASSUME IInv, TurnInv, TurnInv', HistoryInv,
         IntendCommit \/ Merge \/ RecordMerge \/ CompleteIssue \/ DropAttemptRef
  PROVE  [Promise!Next]_Stages
<1>0. /\ HistoryHolds /\ ProjectionTypeOK /\ ~poisoned' /\ LogReplays'
      /\ exec \in [Execution -> View]
  BY DEF HistoryInv, IInv, ProjectionInv, ProjectionTypeOK, TurnInv, LogReplays
<1>1. CASE IntendCommit
  <2>1. PICK i \in Issues :
          /\ InState(i, "ACCEPTED") /\ Latest(i).intent = NoCommit /\ UNCHANGED commits
          /\ CommitIntent(LatestId(i), Latest(i).end) \/ UNCHANGED projection
    BY <1>1 DEF IntendCommit, repository
  <2>2. CASE UNCHANGED projection
    BY <2>1, <2>2, StagesStill
  <2>3. CASE CommitIntent(LatestId(i), Latest(i).end)
    <3> DEFINE x == LatestId(i)
               view == [exec[x] EXCEPT !.intent = Latest(i).end]
    <3>1. /\ x \in Execution /\ exec[x] \in View /\ issue[i] = "ACTIVE" /\ HasExecution(i)
          /\ exec[x].state = "ACCEPTED" /\ exec[x].intent = NoCommit /\ Latest(i) = exec[x]
      BY <2>1, InStateExists
    <3>2. view.state = "ACCEPTED"
      BY <3>1 DEF View
    <3>3. exec' = [exec EXCEPT ![x] = view] /\ UNCHANGED <<issue, attempts>>
      BY <2>3, <3>1 DEF CommitIntent
    <3>4. ~MergedWork(i)
      BY <3>1 DEF MergedWork, Merges
    <3>5. StageOf(i) = "approved"
      BY <3>1, <3>4, ActiveStage
    <3>6. /\ StageOf(i)' \in {"approved", "merged"}
          /\ \A j \in Issues \ {i} : StageOf(j)' = StageOf(j)
      <4> HIDE DEF view
      <4> QED
        BY <1>0, <2>1, <3>1, <3>2, <3>3, VerdictMoves
    <3>7. CASE StageOf(i)' = "approved"
      BY <3>5, <3>6, <3>7, StagesKept
    <3>8. CASE StageOf(i)' = "merged"
      <4>1. Promise!Merge(i)
        BY <3>5, <3>6, <3>8, StageMoves DEF Promise!Merge
      <4> QED
        BY <4>1 DEF Promise!Next
    <3> QED
      BY <3>6, <3>7, <3>8
  <2> QED
    BY <2>1, <2>2, <2>3
<1>2. CASE Merge
  <2>1. PICK i \in Issues :
          /\ InState(i, "ACCEPTED") /\ Latest(i).intent # NoCommit /\ ~Latest(i).created
          /\ \/ UNCHANGED commits
             \/ /\ ~IsAncestor(Latest(i).intent, tip[Target])
                /\ MergeTo(Latest(i).intent)
          /\ UNCHANGED projection
    BY <1>2 DEF Merge
  <2>2. PICK x \in Unwitnessed : Latest(i) = exec[x]
    BY <2>1, InStateExists DEF Unwitnessed
  <2> QED
    BY <1>0, <2>1, <2>2, StagesStill, MergeMoves
<1>3. CASE RecordMerge
  <2>1. pc = "MergeFact" /\ CommitCreated(X) /\ UNCHANGED commits
    BY <1>3 DEF RecordMerge, At, repository
  <2>2. X \in Unwitnessed
    BY <2>1 DEF TurnInv, StepHolds
  <2> QED
    BY <1>0, <2>1, <2>2, FactKeepsStage
<1>4. CASE CompleteIssue
  <2>1. PICK i \in Issues :
          /\ InState(i, "ACCEPTED") /\ Latest(i).created /\ IssueClosed(i, "DONE")
          /\ UNCHANGED commits
    BY <1>4 DEF CompleteIssue, repository
  <2>2. /\ LatestId(i) \in Execution /\ issue[i] = "ACTIVE" /\ HasExecution(i)
        /\ exec[LatestId(i)].state = "ACCEPTED" /\ Latest(i) = exec[LatestId(i)]
    BY <2>1, InStateExists
  <2>3. MergedWork(i)
    BY <1>0, <2>1, <2>2 DEF HistoryHolds, MergesHold, Merged, MergedWork
  <2>4. StageOf(i) = "merged"
    BY <2>2, <2>3, ActiveStage
  <2>5. issue' = [issue EXCEPT ![i] = "DONE"] /\ UNCHANGED <<attempts, exec>>
    BY <2>1, <2>2 DEF IssueClosed
  <2>6. issue'[i] = "DONE" /\ \A j \in Issues \ {i} : StageOf(j)' = StageOf(j)
    BY <1>0, <2>1, <2>5, IssueMoves
  <2>7. StageOf(i)' = "done"
    BY <2>6 DEF StageOf
  <2>8. Promise!Finish(i)
    BY <2>4, <2>6, <2>7, StageMoves DEF Promise!Finish
  <2> QED
    BY <2>8 DEF Promise!Next
<1>5. CASE DropAttemptRef
  BY <1>5, StagesStill DEF DropAttemptRef
<1> QED
  BY <1>1, <1>2, <1>3, <1>4, <1>5

\* Every step of the run is a step of Delivery for one issue, or none.
LEMMA StepDelivers ==
  ASSUME IInv, TurnInv, HistoryInv, [Next]_vars
  PROVE  [Promise!Next]_Stages
<1>0. TurnInv'
  BY TurnPreserved
<1>1. CASE UNCHANGED vars
  BY <1>1, StagesStill DEF vars, repository
<1>2. CASE LoopStep
  BY <1>0, <1>2, ChoiceDelivers, ExecutingDelivers, VerdictDelivers, CommitDelivers
  DEF LoopStep
<1> QED
  BY <1>0, <1>1, <1>2, RecoveryDelivers, StartupDelivers DEF Next, Step

\* Refinement: whatever stops the run, an issue is begun only when what it depends on
\* is done, approved before it is merged, merged before it is done, and never fails
\* after it was approved.
THEOREM Delivers == Spec => DeliverySpec
<1>1. Init => Promise!Init
  <2> SUFFICES ASSUME Init PROVE Promise!Init
    OBVIOUS
  <2>1. \A i \in Issues : issue[i] = "ABSENT"
    BY DEF Init, ProjectionInit
  <2> QED
    BY <2>1, OtherStage DEF Promise!Init
<1>2. IInv /\ TurnInv /\ HistoryInv /\ [Next]_vars => [Promise!Next]_Stages
  BY StepDelivers
<1> QED
  BY <1>1, <1>2, Invariance, TurnInvariance, HistoryInvariance, PTL
  DEF Spec, DeliverySpec, Promise!Spec, Stages

-----------------------------------------------------------------------------
(* One ACTIVE issue.                                                       *)

\* What a step may do to the log.
Event ==
  \/ UNCHANGED projection
  \/ Activate
  \/ \E i \in Issues : IssueCreated(i)
  \/ CompleteIssue
  \/ \E i \in Issues, final \in IssueTerminal \ {"DONE"} : IssueClosed(i, final)
  \/ \E i \in Issues : \E u :
       /\ Spawn
       /\ HasExecution(i) => Latest(i).state \in Retryable
       /\ ExecutionSpawned(i, attempts[i] + 1, u)
  \/ \E x, view : \E from \in ExecutionState \ {"NONE", "ACCEPTED"} :
       /\ ExecutionTransition(x, from, view) /\ view.state \notin {"NONE", "EXECUTING"}
       /\ view.state = "CRASHED" => pc = "OrphanFact"
       /\ view.end = exec[x].end \/ (pc = "Finish" /\ x = X /\ view.end = CurrentCommit)
  \/ \E x, c : CommitIntent(x, c)
  \/ \E x : CommitCreated(x)

LEMMA StepEvents ==
  ASSUME IInv, [Next]_vars
  PROVE  Event
<1> USE DEF Event
<1>1. CASE RecoveryStep
  <2>1. CASE CrashOrphan
    <3>1. OpenExecutions # {}
      BY <2>1 DEF CrashOrphan, At, IInv, ProcessInv, ControlHolds
    <3>2. Orphan \in Execution /\ exec[Orphan] \in View
      BY <3>1, OrphanExists DEF IInv, ProjectionInv, ProjectionTypeOK
    <3> DEFINE view == [exec[Orphan] EXCEPT !.state = "CRASHED"]
    <3>3. /\ ExecutionTransition(Orphan, "EXECUTING", view)
          /\ view.end = exec[Orphan].end /\ view.state = "CRASHED" /\ pc = "OrphanFact"
      BY <2>1, <3>2 DEF CrashOrphan, ExecutionCrashed, View, At
    <3> HIDE DEF view
    <3> QED
      BY <3>3 DEF ExecutionState
  <2>2. CASE RedoFact
    BY <2>2 DEF RedoFact
  <2> QED
    BY <1>1, <2>1, <2>2
    DEF RecoveryStep, Start, PreserveResidue, ReferResidue, NoOrphans, CheckUnwitnessed,
        RedoMerge, CheckWorkspace, ArchiveResidue, RestoreWorkspace
<1>2. CASE StartupStep \/ Kill \/ Interrupt \/ ReviewerUnavailable
  <2>1. CASE Ingest /\ ~UNCHANGED projection
    <3> DEFINE new == {i \in Issues : issue[i] = "ABSENT"}
    <3>1. new # {} /\ IssueCreated(First(new))
      BY <2>1 DEF Ingest
    <3>2. First(new) \in Issues
      BY <3>1, FirstIsMember
    <3> QED
      BY <3>1, <3>2
  <2> QED
    BY <1>2, <2>1
    DEF StartupStep, Select, CheckoutTarget, Shutdown, Kill, Interrupt, ReviewerUnavailable
<1>3. CASE LoopStep
  <2>1. CASE Drained \/ Activate \/ Escalate \/ Spawn \/ BudgetStop \/ CheckoutIssue
             \/ EngineWrites \/ EngineExits \/ SnapshotWork \/ ReferWork
    BY <2>1 DEF Drained, Escalate, Spawn, BudgetStop, CheckoutIssue, EngineWrites,
       EngineExits, SnapshotWork, ReferWork, NeedsExecution, IssueTerminal
  <2>2. CASE FinishNormal \/ FinishRejected
    <3>1. pc = "Finish" /\ exec[X] \in View
      BY <2>2, SteppedExists DEF FinishNormal, FinishRejected, At, MidStep, Looping
    <3>2. PICK state \in {"VALIDATING", "REJECTED"} :
            ExecutionTransition(X, "EXECUTING",
              [exec[X] EXCEPT !.state = state, !.end = CurrentCommit])
      BY <2>2
      DEF FinishNormal, FinishRejected, ExecutionFinished, ExecutionFinishedRejected
    <3> DEFINE view == [exec[X] EXCEPT !.state = state, !.end = CurrentCommit]
    <3>3. /\ ExecutionTransition(X, "EXECUTING", view)
          /\ view.end = CurrentCommit /\ view.state \in {"VALIDATING", "REJECTED"}
      BY <3>1, <3>2 DEF View
    <3> HIDE DEF view
    <3> QED
      BY <3>1, <3>3 DEF ExecutionState
  <2>3. CASE Decompose \/ ResetWorkspace \/ CleanWorkspace \/ RunGate
    <3>1. Decompose => cur \in Issues
      BY SteppedExists DEF Decompose, At, MidStep, Looping
    <3> QED
      BY <2>3, <3>1 DEF Decompose, ResetWorkspace, CleanWorkspace, RunGate, IssueTerminal
  <2>4. CASE GateVerdict
    <3>1. exec[X] \in View
      BY <2>4, SteppedExists DEF GateVerdict, At, MidStep, Looping
    <3>2. PICK view : /\ ExecutionTransition(X, "VALIDATING", view)
                      /\ view \in { [exec[X] EXCEPT !.state = "REVIEWING", !.validated = Ex.end],
                                    [exec[X] EXCEPT !.state = "REJECTED"] }
      BY <2>4 DEF GateVerdict, ValidationPassed, ValidationFailed
    <3>3. view.end = exec[X].end /\ view.state \in {"REVIEWING", "REJECTED"}
      BY <3>1, <3>2 DEF View
    <3> QED
      BY <3>2, <3>3 DEF ExecutionState
  <2>5. CASE Review
    <3>1. PICK i \in Issues :
            /\ InState(i, "REVIEWING")
            /\ \/ ReviewApproved(LatestId(i), Latest(i).end)
               \/ \E f \in Feedbacks : ReviewRejected(LatestId(i), f)
               \/ IssueClosed(i, "NEEDS_HUMAN")
      BY <2>5 DEF Review
    <3>2. CASE IssueClosed(i, "NEEDS_HUMAN")
      BY <3>2 DEF IssueTerminal
    <3>3. exec[LatestId(i)] \in View
      BY <3>1, InStateExists DEF IInv, ProjectionInv, ProjectionTypeOK
    <3>4. ASSUME NEW view, ExecutionTransition(LatestId(i), "REVIEWING", view),
                 \/ view = [exec[LatestId(i)] EXCEPT
                             !.state = "ACCEPTED", !.reviewed = Latest(i).end]
                 \/ \E f : view = [exec[LatestId(i)] EXCEPT
                                    !.state = "REJECTED", !.feedback = f]
          PROVE  Event
      <4>1. view.end = exec[LatestId(i)].end /\ view.state \in {"ACCEPTED", "REJECTED"}
        BY <3>3, <3>4 DEF View
      <4> QED
        BY <3>4, <4>1 DEF ExecutionState
    <3> QED
      BY <3>1, <3>2, <3>4 DEF ReviewApproved, ReviewRejected
  <2>6. CASE IntendCommit \/ Merge \/ RecordMerge \/ CompleteIssue \/ DropAttemptRef
    BY <2>6 DEF IntendCommit, Merge, RecordMerge, DropAttemptRef
  <2> QED
    BY <1>3, <2>1, <2>2, <2>3, <2>4, <2>5, <2>6 DEF LoopStep
<1>4. CASE UNCHANGED vars
  BY <1>4 DEF vars
<1> QED
  BY <1>1, <1>2, <1>3, <1>4 DEF Next, Step

\* No event but IssueActivated makes an issue ACTIVE.
LEMMA EventsSettle ==
  ASSUME ProjectionTypeOK, Event, ~Activate
  PROVE  ActiveIssues' \subseteq ActiveIssues
<1>1. \/ issue' = issue
      \/ \E i \in Issues : \E final \in IssueTerminal \cup {"PENDING"} :
           issue' = [issue EXCEPT ![i] = final]
  BY DEF Event, IssueCreated, CompleteIssue, IssueClosed, ExecutionSpawned,
     ExecutionTransition, CommitIntent, CommitCreated, Poison, projection, IssueTerminal
<1> QED
  BY <1>1 DEF ActiveIssues, ProjectionTypeOK, IssueTerminal

\* An issue of a plan starts alone.
LEMMA StartsAlone ==
  ASSUME IInv, Planned, plan # <<>>, NEW i \in Issues, Stepping(i), issue[i] = "PENDING"
  PROVE  ActiveIssues = {}
<1>1. plan \in Seq(Issues)
  BY DEF IInv, ProcessInv, ProcessTypeOK
<1>2. PlannedIssues \subseteq Issues
  BY <1>1 DEF PlannedIssues
<1>3. SUFFICES ASSUME ActiveIssues # {}
               PROVE  FALSE
  OBVIOUS
<1>4. {j \in PlannedIssues : issue[j] = "ACTIVE"} = ActiveIssues
  BY <1>2 DEF ActiveIssues, Planned
<1>5. Actionable = ActiveIssues
  BY <1>3, <1>4 DEF Actionable, PlannedIssues
<1>6. i = First(ActiveIssues)
  BY <1>3, <1>5 DEF Stepping, NextActionable, ActiveIssues
<1>7. i \in ActiveIssues
  BY <1>3, <1>6, FirstIsMember DEF ActiveIssues
<1> QED
  BY <1>7 DEF ActiveIssues

\* An order that plan_run_all or plan_selected returns is not empty.
LEMMA OrdersAreFull ==
  ASSUME NEW S, NEW o \in TopologicalOrders(S)
  PROVE  o # <<>>
<1>1. PICK n \in 1 .. Len(IssueOrder) : o \in [1 .. n -> S]
  BY DEF TopologicalOrders
<1>2. n \in Nat /\ n >= 1
  BY <1>1, IssuesAssumption, LenProperties
<1>3. 1 \in DOMAIN o
  BY <1>1, <1>2
<1> QED
  BY <1>3

LEMMA SinglePreserved ==
  ASSUME AlwaysPlanned, IInv, HistoryInv, SingleInv, [Next]_vars
  PROVE  SingleInv'
<1>1. \A i, j \in ActiveIssues' : i = j
  <2>1. CASE Activate
    <3>1. PICK i \in Issues : /\ Stepping(i) /\ issue[i] = "PENDING"
                              /\ IssueActivated(i, tip[Target])
      BY <2>1 DEF Activate
    <3>2. pc = "Loop"
      BY <3>1 DEF Stepping, At
    <3>3. plan # <<>> /\ Planned
      BY <3>2, LoopRelies DEF SingleInv, Looping, HistoryInv
    <3>4. ActiveIssues = {}
      BY <3>1, <3>3, StartsAlone
    <3>5. issue' = [issue EXCEPT ![i] = "ACTIVE"]
      BY <3>1 DEF IssueActivated
    <3>6. issue \in [Issues -> IssueState]
      BY DEF IInv, ProjectionInv, ProjectionTypeOK
    <3>7. \A j \in Issues : issue'[j] = "ACTIVE" => j = i
      BY <3>4, <3>5, <3>6 DEF ActiveIssues
    <3> QED
      BY <3>7 DEF ActiveIssues
  <2>2. CASE ~Activate
    BY <2>2, StepEvents, EventsSettle DEF SingleInv, IInv, ProjectionInv
  <2> QED
    BY <2>1, <2>2
<1>2. pc' \in MidStep' => ActiveIssues' \subseteq {cur'}
  <2>1. CASE pc \in MidStep /\ cur' = cur
    <3>1. ~Activate
      BY <2>1 DEF Activate, Stepping, At, MidStep
    <3> QED
      BY <2>1, <3>1, StepEvents, EventsSettle DEF SingleInv, IInv, ProjectionInv
  <2>2. CASE UNCHANGED <<pc, cur>>
    BY <2>1, <2>2 DEF MidStep
  <2>3. ASSUME NEW i \in Issues, Stepping(i), issue[i] = "ACTIVE", cur' = i, ~Activate
        PROVE  ActiveIssues' \subseteq {cur'}
    <3>1. i \in ActiveIssues
      BY <2>3 DEF ActiveIssues
    <3> QED
      BY <2>3, <3>1, StepEvents, EventsSettle DEF SingleInv, IInv, ProjectionInv
  <2>4. CASE RecoveryStep \/ StartupStep \/ Kill \/ Interrupt \/ ReviewerUnavailable
    BY <2>4
    DEF RecoveryStep, Start, PreserveResidue, ReferResidue, CrashOrphan, NoOrphans,
        CheckUnwitnessed, RedoMerge, RedoFact, CheckWorkspace, ArchiveResidue,
        RestoreWorkspace, StartupStep, Select, CheckoutTarget, Ingest, Shutdown, Kill,
        Interrupt, ReviewerUnavailable, Goto, Exit, Die, MidStep, Looping
  <2>5. CASE Drained \/ Activate \/ Escalate \/ Spawn \/ BudgetStop
    BY <2>5 DEF Drained, Activate, Escalate, Spawn, BudgetStop, Leave, Goto, Done, MidStep,
       Looping
  <2>6. CASE CheckoutIssue \/ RunGate \/ Review \/ IntendCommit \/ Merge \/ CompleteIssue
    <3>1. \/ pc' \in {"Loop", "Shutdown"}
          \/ \E i \in Issues : Stepping(i) /\ issue[i] = "ACTIVE" /\ cur' = i
      BY <2>6 DEF CheckoutIssue, RunGate, Review, IntendCommit, Merge, CompleteIssue,
         InState, Continue, Done, Leave, Goto
    <3>2. CASE pc' \in {"Loop", "Shutdown"}
      BY <3>2 DEF MidStep, Looping
    <3>3. ASSUME NEW i \in Issues, Stepping(i), issue[i] = "ACTIVE", cur' = i
          PROVE  ActiveIssues' \subseteq {cur'}
      <4>1. i = NextActionable /\ ~Activate
        BY <3>3 DEF Stepping, Activate
      <4> QED
        BY <2>3, <3>3, <4>1
    <3> QED
      BY <3>1, <3>2, <3>3
  <2>7. CASE EngineWrites \/ EngineExits \/ SnapshotWork \/ ReferWork \/ FinishNormal
             \/ FinishRejected \/ Decompose \/ ResetWorkspace \/ CleanWorkspace
             \/ GateVerdict \/ RecordMerge \/ DropAttemptRef
    <3>1. pc \in MidStep
      BY <2>7 DEF EngineWrites, EngineExits, SnapshotWork, ReferWork, FinishNormal,
         FinishRejected, Decompose, ResetWorkspace, CleanWorkspace, GateVerdict, RecordMerge,
         DropAttemptRef, At, MidStep, Looping
    <3>2. pc' \in {"Loop", "Shutdown"} \/ cur' = cur
      BY <2>7 DEF EngineWrites, EngineExits, SnapshotWork, ReferWork, FinishNormal,
         FinishRejected, Decompose, ResetWorkspace, CleanWorkspace, GateVerdict, RecordMerge,
         DropAttemptRef, Goto, Done, Leave, process
    <3> QED
      BY <2>1, <3>1, <3>2 DEF MidStep, Looping
  <2> QED
    BY <2>2, <2>4, <2>5, <2>6, <2>7 DEF Next, Step, LoopStep, vars, process
<1>3. pc' \in Looping \cup {"Checkout", "Ingest"} => plan' # <<>>
  <2>1. CASE UNCHANGED <<pc, plan>>
    BY <2>1 DEF SingleInv
  <2>2. CASE pc \in Looping \cup {"Checkout", "Ingest"} /\ UNCHANGED plan
    BY <2>2 DEF SingleInv
  <2>3. CASE Exit
    BY <2>3 DEF Exit, Looping
  <2>4. CASE RecoveryStep
    BY <2>3, <2>4
    DEF RecoveryStep, Start, PreserveResidue, ReferResidue, CrashOrphan, NoOrphans,
        CheckUnwitnessed, RedoMerge, RedoFact, CheckWorkspace, ArchiveResidue,
        RestoreWorkspace, Goto, Die, Looping
  <2>5. ASSUME NEW req \in Requests, Select(req)
        PROVE  pc' \in Looping \cup {"Checkout", "Ingest"} => plan' # <<>>
    <3>1. req.kind # "legacy"
      BY DEF AlwaysPlanned
    <3> QED
      BY <2>3, <2>5, <3>1, OrdersAreFull DEF Select, Die
  <2>6. CASE CheckoutTarget \/ Ingest \/ Shutdown \/ Kill \/ Interrupt \/ ReviewerUnavailable
    BY <2>2, <2>3, <2>6 DEF CheckoutTarget, Ingest, Shutdown, Kill, Interrupt,
       ReviewerUnavailable, Goto, Die, At, Looping
  <2>7. CASE LoopStep
    <3>1. pc \in Looping
      BY <2>7
      DEF LoopStep, Drained, Activate, Escalate, Spawn, BudgetStop, CheckoutIssue,
          EngineWrites, EngineExits, SnapshotWork, ReferWork, FinishNormal, FinishRejected,
          Decompose, ResetWorkspace, CleanWorkspace, RunGate, GateVerdict, Review,
          IntendCommit, Merge, RecordMerge, CompleteIssue, DropAttemptRef, NeedsExecution,
          InState, Stepping, At, Looping
    <3>2. UNCHANGED plan
      BY <2>7
      DEF LoopStep, Drained, Activate, Escalate, Spawn, BudgetStop, CheckoutIssue,
          EngineWrites, EngineExits, SnapshotWork, ReferWork, FinishNormal, FinishRejected,
          Decompose, ResetWorkspace, CleanWorkspace, RunGate, GateVerdict, Review,
          IntendCommit, Merge, RecordMerge, CompleteIssue, DropAttemptRef,
          Leave, Goto, Done, Continue, process
    <3> QED
      BY <2>2, <3>1, <3>2
  <2> QED
    BY <2>1, <2>4, <2>5, <2>6, <2>7 DEF Next, Step, StartupStep, vars, process
<1> QED
  BY <1>1, <1>2, <1>3 DEF SingleInv

\* A planned run never has two ACTIVE issues, nor a step about another than the one.
THEOREM SingleInvariance == AlwaysPlanned => (Spec => []SingleInv)
<1> SUFFICES ASSUME AlwaysPlanned
             PROVE  Spec => []SingleInv
  OBVIOUS
<1>1. Init => SingleInv
  BY DEF Init, ProjectionInit, ProcessInit, SingleInv, ActiveIssues, MidStep, Looping
<1>2. IInv /\ HistoryInv /\ SingleInv /\ [Next]_vars => SingleInv'
  BY SinglePreserved
<1> QED
  BY <1>1, <1>2, Invariance, HistoryInvariance, PTL DEF Spec

\* One ACTIVE issue ("at most one issue is ever ACTIVE at a time in this engine",
\* loop.py:168), for every issues file, engine, gate and sequence of stops, as long as
\* every run has a plan; an unfiltered run activates what is earlier in the file.
THEOREM OneIssueActive == AlwaysPlanned => (Spec => []OneActiveIssue)
<1> SUFFICES ASSUME AlwaysPlanned
             PROVE  Spec => []OneActiveIssue
  OBVIOUS
<1>1. SingleInv => OneActiveIssue
  <2> SUFFICES ASSUME SingleInv
               PROVE  Cardinality(ActiveIssues) <= 1
    BY DEF OneActiveIssue
  <2>1. CASE ActiveIssues = {}
    BY <2>1, FS_EmptySet
  <2>2. CASE ActiveIssues # {}
    <3>1. PICK i : i \in ActiveIssues
      BY <2>2
    <3>2. ActiveIssues = {i}
      BY <3>1 DEF SingleInv
    <3> QED
      BY <3>2, FS_Singleton
  <2> QED
    BY <2>1, <2>2
<1> QED
  BY <1>1, SingleInvariance, PTL

-----------------------------------------------------------------------------
(* What the log keeps.                                                     *)

\* An accepted view stays what it is, and gains its intent and its merge.
Later(v, w) ==
  /\ v.state = "ACCEPTED" =>
       /\ w.state = "ACCEPTED"
       /\ w.end = v.end /\ w.validated = v.validated /\ w.reviewed = v.reviewed
  /\ v.intent # NoCommit => w.intent = v.intent
  /\ v.created => w.created

\* What the log says of an issue, and of an execution that was accepted, it says
\* for good; an execution is spawned after one that can be retried.
LogGrows ==
  /\ \A x \in Execution : Later(exec[x], exec'[x])
  /\ \A i \in Issues :
       /\ issue[i] \notin {"ABSENT", "PENDING"} => base'[i] = base[i]
       /\ attempts'[i] = attempts[i] \/
            /\ attempts'[i] = attempts[i] + 1
            /\ HasExecution(i) => Latest(i).state \in Retryable

\* One view changes, from a state where nothing was accepted.
LEMMA ViewGrows ==
  ASSUME ProjectionInv, MergesHold, NEW x, NEW view, UNCHANGED <<base, attempts>>,
         exec' = [exec EXCEPT ![x] = view], exec[x].state # "ACCEPTED"
  PROVE  LogGrows
<1>1. \A y \in Execution : y # x => exec'[y] = exec[y]
  BY DEF ProjectionInv, ProjectionTypeOK
<1>2. x \in Execution => exec[x].intent = NoCommit /\ ~exec[x].created
  BY DEF ProjectionInv, PinsHold, Pinned, MergesHold
<1> QED
  BY <1>1, <1>2 DEF LogGrows, Later

LEMMA LogKeeps ==
  ASSUME ProjectionInv, MergesHold, Event
  PROVE  LogGrows
<1>1. CASE UNCHANGED <<base, attempts, exec>>
  BY <1>1 DEF LogGrows, Later
<1>2. CASE Activate
  <2>1. PICK i \in Issues : issue[i] = "PENDING" /\ IssueActivated(i, tip[Target])
    BY <1>2 DEF Activate
  <2>2. UNCHANGED <<attempts, exec>> /\ base' = [base EXCEPT ![i] = tip[Target]]
    BY <2>1 DEF IssueActivated
  <2>3. \A j \in Issues \ {i} : base'[j] = base[j]
    BY <2>2 DEF ProjectionInv, ProjectionTypeOK
  <2> QED
    BY <2>1, <2>2, <2>3 DEF LogGrows, Later
<1>3. ASSUME NEW i \in Issues, NEW u, ExecutionSpawned(i, attempts[i] + 1, u),
             HasExecution(i) => Latest(i).state \in Retryable
      PROVE  LogGrows
  <2>1. CASE Poison
    BY <1>1, <2>1 DEF Poison
  <2>2. CASE ~Poison
    <3> DEFINE x == <<i, attempts[i] + 1>>
               view == [NoView EXCEPT !.state = "EXECUTING", !.untracked = u]
    <3>1. /\ exec[x].state = "NONE" /\ exec' = [exec EXCEPT ![x] = view]
          /\ attempts' = [attempts EXCEPT ![i] = attempts[i] + 1] /\ UNCHANGED base
      BY <1>3, <2>2 DEF ExecutionSpawned
    <3>2. \A j \in Issues \ {i} : attempts'[j] = attempts[j]
      BY <3>1 DEF ProjectionInv, ProjectionTypeOK
    <3>3. attempts'[i] = attempts[i] + 1
      BY <3>1 DEF ProjectionInv, ProjectionTypeOK
    <3>4. \A y \in Execution : y # x => exec'[y] = exec[y]
      <4> HIDE DEF x, view
      <4> QED
        BY <3>1 DEF ProjectionInv, ProjectionTypeOK
    <3>5. x \in Execution => exec[x].intent = NoCommit /\ ~exec[x].created
      <4> HIDE DEF x
      <4> QED
        BY <3>1 DEF ProjectionInv, PinsHold, Pinned, MergesHold
    <3>6. \A y \in Execution : Later(exec[y], exec'[y])
      <4> HIDE DEF x, view
      <4> QED
        BY <3>1, <3>4, <3>5 DEF Later
    <3> QED
      BY <1>3, <3>1, <3>2, <3>3, <3>6 DEF LogGrows
  <2> QED
    BY <2>1, <2>2
<1>4. ASSUME NEW x, NEW view, NEW from \in ExecutionState \ {"NONE", "ACCEPTED"},
             ExecutionTransition(x, from, view)
      PROVE  LogGrows
  BY <1>1, <1>4, ViewGrows DEF ExecutionTransition, Poison
<1>5. ASSUME NEW x, NEW c, CommitIntent(x, c)
      PROVE  LogGrows
  <2>1. CASE exec[x].state = "ACCEPTED" /\ exec[x].intent = NoCommit
    <3> DEFINE view == [exec[x] EXCEPT !.intent = c]
    <3>1. exec' = [exec EXCEPT ![x] = view] /\ UNCHANGED <<base, attempts>>
      BY <1>5, <2>1 DEF CommitIntent
    <3>2. x \in Execution => Later(exec[x], view)
      BY <2>1 DEF Later, ProjectionInv, ProjectionTypeOK, View
    <3>3. \A y \in Execution : exec'[y] = IF y = x THEN view ELSE exec[y]
      <4> HIDE DEF view
      <4> QED
        BY <3>1 DEF ProjectionInv, ProjectionTypeOK
    <3>4. \A y \in Execution : Later(exec[y], exec[y])
      BY DEF Later
    <3> HIDE DEF view
    <3> QED
      BY <3>1, <3>2, <3>3, <3>4 DEF LogGrows
  <2> QED
    BY <1>1, <1>5, <2>1 DEF CommitIntent, Poison
<1>6. ASSUME NEW x, CommitCreated(x)
      PROVE  LogGrows
  <2>1. CASE Poison
    BY <1>1, <2>1 DEF Poison
  <2>2. CASE ~Poison
    <3> DEFINE view == [exec[x] EXCEPT !.created = TRUE]
    <3>1. exec' = [exec EXCEPT ![x] = view] /\ UNCHANGED <<base, attempts>>
      BY <1>6, <2>2 DEF CommitCreated
    <3>2. x \in Execution => Later(exec[x], view)
      BY DEF Later, ProjectionInv, ProjectionTypeOK, View
    <3>3. \A y \in Execution : exec'[y] = IF y = x THEN view ELSE exec[y]
      <4> HIDE DEF view
      <4> QED
        BY <3>1 DEF ProjectionInv, ProjectionTypeOK
    <3>4. \A y \in Execution : Later(exec[y], exec[y])
      BY DEF Later
    <3> HIDE DEF view
    <3> QED
      BY <3>1, <3>2, <3>3, <3>4 DEF LogGrows
  <2> QED
    BY <2>1, <2>2
<1> QED
  BY <1>1, <1>2, <1>3, <1>4, <1>5, <1>6
  DEF Event, projection, IssueCreated, CompleteIssue, IssueClosed, Poison

-----------------------------------------------------------------------------
(* Where the target goes.                                                  *)

TargetStill == tip'[Target] = tip[Target] /\ Grows /\ Merges' = Merges

MergeStep ==
  \E x \in Unwitnessed :
    /\ MergeTo(exec[x].intent) /\ ~IsAncestor(exec[x].intent, tip[Target])
    /\ UNCHANGED projection

\* What is in flight is the latest execution of the ACTIVE issue.
LEMMA FlightIsLatest ==
  ASSUME IInv, TurnInv, NEW x \in InFlight
  PROVE  /\ x \in Execution /\ x[1] \in ActiveIssues /\ x = LatestId(x[1])
         /\ HasExecution(x[1]) /\ Latest(x[1]) = exec[x]
<1>1. x \in Execution /\ issue[x[1]] = "ACTIVE" /\ x = LatestId(x[1])
  BY DEF InFlight, OpenExecutions, Unwitnessed, TurnInv, OneInFlight
<1>2. x[1] \in Issues /\ x[2] \in 1 .. MaxAttempts /\ x[2] = attempts[x[1]]
  BY <1>1 DEF Execution, LatestId
<1> QED
  BY <1>1, <1>2, BudgetAssumption DEF HasExecution, ActiveIssues, Latest

LEMMA CommitsStill ==
  ASSUME IInv, UNCHANGED commits, tip'[Target] = tip[Target]
  PROVE  TargetStill
BY CurrentIsMade, SameGrows DEF IInv, TargetStill, Merges

LEMMA CommitStill ==
  ASSUME IInv, AncestryHolds, head # Target,
         commits' = Append(commits, ChildOf(CurrentCommit)),
         tip' = [tip EXCEPT ![head] = NewCommit]
  PROVE  TargetStill
<1>1. RepositoryInv /\ CurrentCommit \in Made /\ tip \in [Branch -> 0 .. Len(commits)]
  BY CurrentIsMade DEF IInv, RepositoryInv, RepositoryTypeOK
<1>2. tip'[Target] = tip[Target]
  BY <1>1 DEF Branch
<1> QED
  BY <1>1, <1>2, ChildAncestry DEF TargetStill

LEMMA SnapshotStill ==
  ASSUME IInv, AncestryHolds, NEW exclude, SnapshotCommit(exclude),
         head = Target => dirt \subseteq exclude
  PROVE  TargetStill
BY CommitsStill, CommitStill DEF SnapshotCommit, CommitOnHead

\* A branch moved that is not the target.
LEMMA MoveStill ==
  ASSUME IInv, UNCHANGED commits, NEW b, NEW c, tip' = [tip EXCEPT ![b] = c],
         b # Target \/ c = tip[Target]
  PROVE  TargetStill
<1>1. tip \in [Branch -> 0 .. Len(commits)] /\ Target \in Branch
  BY DEF IInv, RepositoryInv, RepositoryTypeOK, Branch
<1> QED
  BY <1>1, CommitsStill

\* Recovery with the target checked out finds nothing to snapshot, and the target
\* where check 3 wants it.
LEMMA ParkedIsClean ==
  ASSUME IInv, TurnInv, HistoryInv, SingleInv, TargetInv, head = Target, pc = "Workspace"
  PROVE  ~OwnedDirty /\ CurrentCommit = ExpectedCommit
<1>1. "tracked" \notin dirt /\ pc \in Outside /\ "Workspace" \notin {"Loop"}
  BY DEF TargetInv, TargetDirtHolds, Outside, Label, Looping, Reconciling
<1>2. CASE ActiveIssues = {}
  BY <1>1, <1>2 DEF OwnedDirty, Preserved, HasBaseline, CurrentCommit, ExpectedCommit
<1>3. CASE ActiveIssues # {}
  <2>1. PICK i \in ActiveIssues : i = ActiveIssue
    BY <1>3, FirstIsMember DEF ActiveIssue, ActiveIssues
  <2>2. i \in Issues /\ issue[i] = "ACTIVE"
    BY <2>1 DEF ActiveIssues
  <2>3. CASE ~HasExecution(i)
    <3>1. base[i] = tip[Target]
      BY <2>1, <2>3 DEF TargetInv, TargetHolds, MergedWork
    <3> QED
      BY <1>1, <1>3, <2>1, <2>3, <3>1
      DEF OwnedDirty, Preserved, HasBaseline, CurrentCommit, ExpectedCommit
  <2>4. CASE HasExecution(i)
    <3>1. LatestId(i) \in Execution /\ Latest(i) = exec[LatestId(i)] /\ Latest(i) \in View
      BY <2>2, <2>4, LatestExists DEF IInv
    <3>2. Parked(i)
      BY <1>1, <2>1 DEF TargetInv, ParkHolds
    <3>3. InFlight = {}
      BY DEF TurnInv, StepHolds, Resting
    <3>4. Latest(i).state \in Retryable
      BY <2>4, <3>1, <3>2, <3>3
      DEF Parked, InFlight, OpenExecutions, Unwitnessed
    <3>5. dirt \subseteq Latest(i).untracked
      BY <1>1, <2>1, <2>4, <3>4 DEF TargetInv, TargetDirtHolds
    <3>6. Latest(i).intent = NoCommit
      BY <3>1, <3>4 DEF IInv, ProjectionInv, PinsHold, Pinned, Retryable
    <3>7. base[i] = tip[Target]
      BY <2>1, <3>6 DEF TargetInv, TargetHolds, MergedWork, Merges
    <3> QED
      BY <1>3, <2>1, <2>4, <3>4, <3>5, <3>7
      DEF OwnedDirty, Preserved, HasBaseline, CurrentCommit, ExpectedCommit, Retryable
  <2> QED
    BY <2>3, <2>4
<1> QED
  BY <1>2, <1>3

\* Every step leaves the target where it is or merges approved work into it.
LEMMA StepOnTarget ==
  ASSUME IInv, TurnInv, HistoryInv, SingleInv, TargetInv, [Next]_vars
  PROVE  TargetStill \/ MergeStep
<1>0. AncestryHolds /\ PlaceHolds /\ ParkHolds /\ TargetHolds /\ TargetDirtHolds
  BY DEF HistoryInv, HistoryHolds, TargetInv
<1>1. CASE UNCHANGED <<commits, tip>>
  BY <1>1, CommitsStill
<1>2. CASE PreserveResidue
  <2>1. CASE UNCHANGED <<commits, tip>>
    BY <2>1, CommitsStill
  <2>2. CASE ~UNCHANGED <<commits, tip>>
    <3>1. /\ SnapshotCommit(exec[Orphan].untracked) /\ Orphan \in OpenExecutions
          /\ pc = "Orphans"
      BY <1>2, <2>2 DEF PreserveResidue, Orphan, At
    <3>2. PICK x \in OpenExecutions : x = Orphan
      BY <3>1
    <3>3. x[1] \in ActiveIssues /\ HasExecution(x[1]) /\ Latest(x[1]) = exec[x]
      BY FlightIsLatest DEF InFlight
    <3>4. exec[x].state = "EXECUTING" /\ pc \in Outside
      BY <3>1 DEF OpenExecutions, Outside, Label, Reconciling, Looping
    <3>5. head = Target => dirt \subseteq exec[x].untracked
      BY <1>0, <3>3, <3>4 DEF TargetDirtHolds
    <3> QED
      BY <1>0, <3>1, <3>2, <3>5, SnapshotStill
  <2> QED
    BY <2>1, <2>2
<1>3. CASE CheckWorkspace
  <2>1. CASE UNCHANGED <<commits, tip>>
    BY <2>1, CommitsStill
  <2>2. CASE ~UNCHANGED <<commits, tip>>
    <3>1. SnapshotCommit(Preserved) /\ head # Target
      BY <1>3, <2>2, ParkedIsClean DEF CheckWorkspace, At
    <3> QED
      BY <1>0, <3>1, SnapshotStill
  <2> QED
    BY <2>1, <2>2
<1>4. CASE RestoreWorkspace
  <2>1. head # Target
    BY <1>0, <1>4 DEF RestoreWorkspace, At, ParkHolds
  <2> QED
    BY <1>4, <2>1, MoveStill DEF RestoreWorkspace, ResetHard
<1>5. CASE CheckUnwitnessed
  <2>1. CASE ~UNCHANGED <<commits, tip>>
    <3>1. /\ tip' = [tip EXCEPT ![Intended[1]] = base[Intended[1]]] /\ UNCHANGED commits
          /\ Unwitnessed # {}
      BY <1>5, <2>1 DEF CheckUnwitnessed, CheckoutNew, repository
    <3>2. Intended[1] # Target
      BY <3>1, IntendedExists, TargetAssumption DEF IInv
    <3> QED
      BY <3>1, <3>2, MoveStill
  <2> QED
    BY <1>1, <2>1
<1>6. CASE RedoMerge
  <2>1. CASE ~UNCHANGED <<commits, tip>>
    <3>1. MergeTo(exec[Intended].intent) /\ UNCHANGED projection /\ pc = "RedoMerge"
      BY <1>6, <2>1 DEF RedoMerge, At, repository
    <3>2. Unwitnessed # {} /\ ~IsAncestor(exec[Intended].intent, tip[Target])
      BY <1>0, <3>1 DEF IInv, ProcessInv, ControlHolds, PlaceHolds
    <3>3. Intended \in Unwitnessed
      BY <3>2 DEF Intended
    <3> QED
      BY <3>1, <3>2, <3>3 DEF MergeStep
  <2> QED
    BY <1>1, <2>1
<1>7. CASE CheckoutIssue
  <2>1. CASE ~UNCHANGED <<commits, tip>>
    <3>1. PICK i \in Issues : tip' = [tip EXCEPT ![i] = base[i]] /\ UNCHANGED commits
      BY <1>7, <2>1 DEF CheckoutIssue, CheckoutNew
    <3> QED
      BY <3>1, MoveStill, TargetAssumption
  <2> QED
    BY <1>1, <2>1
<1>8. CASE EngineWrites \/ SnapshotWork
  <2>1. pc \in Working /\ cur \in Issues
    BY <1>8, SteppedExists DEF EngineWrites, SnapshotWork, At, Working, MidStep, Looping
  <2>2. head # Target
    BY <1>0, <2>1, TargetAssumption DEF PlaceHolds
  <2>3. CASE SnapshotWork
    BY <1>0, <2>2, <2>3, SnapshotStill DEF SnapshotWork
  <2>4. CASE EngineWrites
    BY <1>0, <2>2, <2>4, CommitsStill, CommitStill DEF EngineWrites, CommitOnHead
  <2> QED
    BY <1>8, <2>3, <2>4
<1>9. CASE ResetWorkspace
  <2>1. /\ pc = "Reset" /\ tip' = [tip EXCEPT ![head] = base[cur]] /\ UNCHANGED commits
    BY <1>9 DEF ResetWorkspace, ResetHard, At
  <2>2. head # Target \/ base[cur] = tip[Target]
    BY <1>0, <2>1 DEF TargetHolds
  <2> QED
    BY <2>1, <2>2, MoveStill
<1>10. CASE Merge
  <2>1. CASE ~UNCHANGED <<commits, tip>>
    <3>1. PICK i \in Issues :
            /\ InState(i, "ACCEPTED") /\ Latest(i).intent # NoCommit /\ ~Latest(i).created
            /\ ~IsAncestor(Latest(i).intent, tip[Target]) /\ MergeTo(Latest(i).intent)
            /\ UNCHANGED projection
      BY <1>10, <2>1 DEF Merge
    <3>2. PICK x \in Unwitnessed : Latest(i) = exec[x]
      BY <3>1, InStateExists DEF Unwitnessed
    <3> QED
      BY <3>1, <3>2 DEF MergeStep
  <2> QED
    BY <1>1, <2>1
<1>11. CASE ~UNCHANGED <<commits, tip>> /\ Next
  <2>1. \/ PreserveResidue \/ CheckWorkspace \/ RestoreWorkspace \/ CheckUnwitnessed
        \/ RedoMerge \/ LoopStep
    BY <1>11
    DEF Next, Step, RecoveryStep, StartupStep, Start, ReferResidue, CrashOrphan, NoOrphans,
        RedoFact, ArchiveResidue, Select, CheckoutTarget, Ingest, Shutdown, Kill, Interrupt,
        ReviewerUnavailable, repository
  <2>2. LoopStep =>
          \/ CheckoutIssue \/ EngineWrites \/ SnapshotWork \/ ResetWorkspace \/ Merge
    BY <1>11
    DEF LoopStep, Drained, Activate, Escalate, Spawn, BudgetStop, EngineExits, ReferWork,
        FinishNormal, FinishRejected, Decompose, CleanWorkspace, RunGate, GateVerdict, Review,
        IntendCommit, RecordMerge, CompleteIssue, DropAttemptRef, repository
  <2> QED
    BY <2>1, <2>2, <1>2, <1>3, <1>4, <1>5, <1>6, <1>7, <1>8, <1>9, <1>10
<1> QED
  BY <1>1, <1>11 DEF vars, repository

\* What a merge into the target does, and whose work it takes.
MergeOn(x) ==
  /\ x \in Execution /\ x[1] \in ActiveIssues /\ x = LatestId(x[1]) /\ HasExecution(x[1])
  /\ Approved(x, exec[x].intent)
  /\ exec[x].intent # NoCommit /\ exec[x].end = exec[x].intent
  /\ base[x[1]] = tip[Target]
  /\ Grows /\ tip'[Target] = NewCommit /\ Merges' = Merges \cup {NewCommit}
  /\ NewCommit \in Made' /\ NewCommit \notin Made
  /\ commits'[NewCommit].second = exec[x].intent
  /\ commits'[NewCommit].first = commits[tip[Target]].first \cup {NewCommit}
  /\ commits'[NewCommit].anc
       = commits[tip[Target]].anc \cup commits[exec[x].intent].anc \cup {NewCommit}

LEMMA MergesAreOn ==
  ASSUME IInv, TurnInv, HistoryInv, TargetInv, NEW x \in Unwitnessed,
         MergeTo(exec[x].intent), ~IsAncestor(exec[x].intent, tip[Target])
  PROVE  MergeOn(x)
<1>1. /\ x \in Execution /\ x[1] \in ActiveIssues /\ x = LatestId(x[1])
      /\ HasExecution(x[1]) /\ Latest(x[1]) = exec[x] /\ exec[x].intent # NoCommit
  BY FlightIsLatest DEF InFlight, Unwitnessed
<1>2. Approved(x, exec[x].intent) /\ exec[x].intent \in Made /\ exec[x].end = exec[x].intent
  BY <1>1 DEF IInv, ProjectionInv, PinsHold, Pinned, Approved
<1>3. ~Merged(exec[x].intent)
  BY DEF HistoryInv, HistoryHolds, MergesHold
<1>4. base[x[1]] = tip[Target]
  BY <1>1, <1>3 DEF TargetInv, TargetHolds, MergedWork, Merged
<1>5. /\ RepositoryInv /\ AncestryHolds /\ tip[Target] \in Made
      /\ tip \in [Branch -> 0 .. Len(commits)] /\ Target \in Branch
  BY CurrentIsMade DEF IInv, HistoryInv, HistoryHolds, RepositoryInv, RepositoryTypeOK, Branch
<1> PICK c \in Made : c = exec[x].intent
  BY <1>2
<1>6. commits' = Append(commits, MergeOf(tip[Target], c)) /\ tip'[Target] = NewCommit
  BY <1>5 DEF MergeTo
<1>7. /\ Grows /\ NewCommit \notin Made /\ NewCommit \in Made' /\ NewCommit \in Nat
      /\ commits'[NewCommit].anc = commits[tip[Target]].anc \cup commits[c].anc \cup {NewCommit}
      /\ commits'[NewCommit].second = c
      /\ Merges' = Merges \cup {NewCommit}
  BY <1>5, <1>6, MergeAncestry
<1>8. commits'[NewCommit] = MergeOf(tip[Target], c)
  BY <1>5, <1>6, <1>7, CurrentIsMade DEF NewCommit
<1>9. commits'[NewCommit].first = commits[tip[Target]].first \cup {NewCommit}
  BY <1>8 DEF MergeOf
<1> QED
  BY <1>1, <1>2, <1>4, <1>6, <1>7, <1>9 DEF MergeOn

\* "The target only ever moves forward, by one merge on its old tip."
LEMMA StepMovesByMerge ==
  ASSUME IInv, TurnInv, HistoryInv, SingleInv, TargetInv, [Next]_vars,
         tip'[Target] # tip[Target]
  PROVE  /\ commits'[tip'[Target]].second # NoCommit
         /\ commits'[tip'[Target]].first
              = commits[tip[Target]].first \cup {tip'[Target]}
<1>1. PICK x \in Unwitnessed :
        MergeTo(exec[x].intent) /\ ~IsAncestor(exec[x].intent, tip[Target])
  BY StepOnTarget DEF TargetStill, MergeStep
<1>2. MergeOn(x)
  BY <1>1, MergesAreOn
<1> QED
  BY <1>2 DEF MergeOn

\* Approval is for good.
LEMMA ApprovedStays ==
  ASSUME LogGrows, NEW x \in Execution, NEW c, Approved(x, c)
  PROVE  Approved(x, c)'
BY DEF LogGrows, Later, Approved

LEMMA TargetHistory ==
  ASSUME IInv, TurnInv, HistoryInv, SingleInv, TargetInv, [Next]_vars
  PROVE  /\ OnlyApprovedOnTarget' /\ MergedTreeIsReviewedTree'
         /\ (Merges \subseteq commits[tip[Target]].first)'
<1>0. /\ OnlyApprovedOnTarget /\ MergedTreeIsReviewedTree
      /\ Merges \subseteq commits[tip[Target]].first
      /\ tip[Target] \in Made /\ Merges \subseteq Made
      /\ \A c \in Made : commits[c] \in Commit
  BY CurrentIsMade DEF TargetInv, TargetHolds, IInv, Merges, Made
<1>1. LogGrows
  BY StepEvents, LogKeeps DEF IInv, HistoryInv, HistoryHolds
<1>2. \A x \in Execution : exec[x].intent # NoCommit =>
        /\ exec'[x].intent = exec[x].intent
        /\ base'[x[1]] = base[x[1]] /\ base[x[1]] \in Made
  <2> SUFFICES ASSUME NEW x \in Execution, exec[x].intent # NoCommit
               PROVE  /\ exec'[x].intent = exec[x].intent
                      /\ base'[x[1]] = base[x[1]] /\ base[x[1]] \in Made
    OBVIOUS
  <2>1. exec[x].end # NoCommit
    BY DEF IInv, ProjectionInv, PinsHold, Pinned, Made
  <2>2. x[1] \in Issues /\ x[2] \in 1 .. MaxAttempts /\ x[2] <= attempts[x[1]]
    BY <2>1 DEF HistoryInv, HistoryHolds, EndsHold, IInv, ProjectionInv, PinsHold, Execution
  <2>3. HasExecution(x[1])
    BY <2>2, BudgetAssumption DEF HasExecution, IInv, ProjectionInv, ProjectionTypeOK
  <2>4. issue[x[1]] \notin {"ABSENT", "PENDING"} /\ base[x[1]] \in Made
    BY <2>2, <2>3 DEF IInv, ProjectionInv, BasesHold
  <2> QED
    BY <1>1, <2>2, <2>4 DEF LogGrows, Later
<1>3. CASE TargetStill
  <2>1. commits'[tip'[Target]] = commits[tip[Target]] /\ Merges' = Merges
    BY <1>0, <1>3 DEF TargetStill, Grows
  <2>2. OnlyApprovedOnTarget'
    BY <1>0, <1>1, <2>1, ApprovedStays DEF OnlyApprovedOnTarget
  <2>3. MergedTreeIsReviewedTree'
    <3> SUFFICES ASSUME NEW m \in Merges
                 PROVE  \E x \in Execution :
                          /\ exec'[x].intent = commits'[m].second
                          /\ commits'[m].first = commits'[base'[x[1]]].first \cup {m}
      BY <2>1 DEF MergedTreeIsReviewedTree
    <3>1. commits'[m] = commits[m] /\ commits[m].second # NoCommit
      BY <1>0, <1>3 DEF TargetStill, Grows, Merges
    <3>2. PICK x \in Execution : /\ exec[x].intent = commits[m].second
                                 /\ commits[m].first = commits[base[x[1]]].first \cup {m}
      BY <1>0 DEF MergedTreeIsReviewedTree
    <3> QED
      BY <1>2, <1>3, <3>1, <3>2 DEF TargetStill, Grows
  <2> QED
    BY <1>0, <2>1, <2>2, <2>3
<1>4. CASE MergeStep
  <2>1. PICK x \in Unwitnessed : MergeOn(x) /\ UNCHANGED projection
    BY <1>4, MergesAreOn DEF MergeStep
  <2>2. UNCHANGED <<exec, base>>
    BY <2>1 DEF projection
  <2>3. \A c \in Made : commits'[c] = commits[c]
    BY <2>1 DEF MergeOn, Grows
  <2>4. Small(exec[x].intent, x[1])
    <3>1. exec[x].end = exec[x].intent /\ exec[x].end # NoCommit /\ x \in Execution
      BY <2>1 DEF MergeOn
    <3> QED
      BY <3>1 DEF TargetInv, WorkIsSmall
  <2>5. OnlyApprovedOnTarget'
    <3> SUFFICES ASSUME NEW c \in commits'[NewCommit].anc \ {1}
                 PROVE  c \in Merges' \/ \E y \in Execution : Approved(y, c)'
      BY <2>1 DEF OnlyApprovedOnTarget, MergeOn
    <3>1. c \in commits[tip[Target]].anc \/ c = exec[x].intent \/ c = NewCommit
      BY <2>1, <2>4 DEF MergeOn, Small
    <3>2. CASE c \in commits[tip[Target]].anc
      <4>1. c \in Merges \/ \E y \in Execution : Approved(y, c)
        BY <1>0, <3>2 DEF OnlyApprovedOnTarget
      <4> QED
        BY <1>1, <2>1, <4>1, ApprovedStays DEF MergeOn
    <3>3. CASE c = exec[x].intent
      BY <1>1, <2>1, <3>3, ApprovedStays DEF MergeOn
    <3>4. CASE c = NewCommit
      BY <2>1, <3>4 DEF MergeOn
    <3> QED
      BY <3>1, <3>2, <3>3, <3>4
  <2>6. MergedTreeIsReviewedTree'
    <3> SUFFICES ASSUME NEW m \in Merges'
                 PROVE  \E y \in Execution :
                          /\ exec'[y].intent = commits'[m].second
                          /\ commits'[m].first = commits'[base'[y[1]]].first \cup {m}
      BY DEF MergedTreeIsReviewedTree
    <3>1. CASE m \in Merges
      <4>1. commits'[m] = commits[m] /\ commits[m].second # NoCommit
        BY <1>0, <2>3, <3>1 DEF Merges
      <4>2. PICK y \in Execution : /\ exec[y].intent = commits[m].second
                                   /\ commits[m].first = commits[base[y[1]]].first \cup {m}
        BY <1>0, <3>1 DEF MergedTreeIsReviewedTree
      <4> QED
        BY <1>2, <2>3, <4>1, <4>2
    <3>2. CASE m = NewCommit
      BY <1>0, <2>1, <2>2, <2>3, <3>2 DEF MergeOn
    <3> QED
      BY <2>1, <3>1, <3>2 DEF MergeOn
  <2>7. (Merges \subseteq commits[tip[Target]].first)'
    BY <1>0, <2>1 DEF MergeOn
  <2> QED
    BY <2>5, <2>6, <2>7
<1> QED
  BY <1>3, <1>4, StepOnTarget

\* What was merged for an issue stays merged, and the target holds what it held.
LEMMA MergedWorkStays ==
  ASSUME ProjectionInv, LogGrows, NEW i \in Issues, MergedWork(i),
         \A m \in Merges : m \in Merges' /\ commits'[m] = commits[m]
  PROVE  MergedWork(i)'
<1>1. /\ HasExecution(i) /\ LatestId(i) \in Execution /\ Latest(i) = exec[LatestId(i)]
      /\ Latest(i).intent # NoCommit /\ Latest(i).state = "ACCEPTED" /\ attempts[i] \in Nat
  BY LatestExists DEF MergedWork, Merges, Pinned, ProjectionInv, ProjectionTypeOK
<1>2. attempts'[i] = attempts[i]
  BY <1>1 DEF LogGrows, Retryable
<1>3. LatestId(i)' = LatestId(i) /\ exec'[LatestId(i)].intent = exec[LatestId(i)].intent
  BY <1>1, <1>2 DEF LogGrows, Later, LatestId
<1> QED
  BY <1>1, <1>2, <1>3 DEF MergedWork, HasExecution, Latest

LEMMA MergesStay ==
  ASSUME IInv, TurnInv, HistoryInv, SingleInv, TargetInv, [Next]_vars
  PROVE  /\ Grows /\ \A m \in Merges : m \in Merges' /\ commits'[m] = commits[m]
         /\ commits[tip[Target]].first \subseteq commits'[tip'[Target]].first
         /\ \A m \in commits[tip[Target]].first : commits'[m] = commits[m]
<1>1. /\ tip[Target] \in Made /\ Merges \subseteq Made
      /\ commits[tip[Target]].first \subseteq Made
  BY CurrentIsMade DEF IInv, Merges, Made, HistoryInv, HistoryHolds, AncestryHolds
<1>2. CASE TargetStill
  BY <1>1, <1>2 DEF TargetStill, Grows
<1>3. CASE MergeStep
  <2>1. PICK x \in Unwitnessed : MergeOn(x)
    BY <1>3, MergesAreOn DEF MergeStep
  <2> QED
    BY <1>1, <2>1 DEF MergeOn, Grows
<1> QED
  BY <1>2, <1>3, StepOnTarget

LEMMA BasesOnTarget ==
  ASSUME IInv, TurnInv, HistoryInv, SingleInv, TargetInv, [Next]_vars
  PROVE  \A i \in ActiveIssues' : ~MergedWork(i)' => base'[i] = tip'[Target]
<1>1. Event /\ LogGrows
  BY StepEvents, LogKeeps DEF IInv, HistoryInv, HistoryHolds
<1> SUFFICES ASSUME NEW i \in ActiveIssues', ~MergedWork(i)'
             PROVE  base'[i] = tip'[Target]
  OBVIOUS
<1>2. CASE i \in ActiveIssues
  <2>1. i \in Issues /\ issue[i] = "ACTIVE"
    BY <1>2 DEF ActiveIssues
  <2>2. ~MergedWork(i)
    BY <1>1, <2>1, MergesStay, MergedWorkStays DEF IInv
  <2>3. base[i] = tip[Target] /\ base'[i] = base[i]
    BY <1>1, <1>2, <2>1, <2>2 DEF TargetInv, TargetHolds, LogGrows
  <2>4. ~MergeStep
    <3> SUFFICES ASSUME MergeStep
                 PROVE  MergedWork(i)'
      OBVIOUS
    <3>1. PICK x \in Unwitnessed : MergeOn(x) /\ UNCHANGED projection
      BY MergesAreOn DEF MergeStep
    <3>2. x[1] = i /\ x = LatestId(i) /\ HasExecution(i)
      BY <1>2, <3>1 DEF MergeOn, SingleInv
    <3>3. HasExecution(i)' /\ Latest(i)' = exec[x]
      BY <3>1, <3>2 DEF HasExecution, Latest, LatestId, projection
    <3> QED
      BY <3>1, <3>3 DEF MergedWork, MergeOn
  <2> QED
    BY <2>3, <2>4, StepOnTarget DEF TargetStill
<1>3. CASE i \notin ActiveIssues
  <2>1. Activate
    BY <1>1, <1>3, EventsSettle DEF IInv, ProjectionInv
  <2>2. PICK j \in Issues : /\ issue[j] = "PENDING" /\ IssueActivated(j, tip[Target])
                            /\ UNCHANGED repository
    BY <2>1 DEF Activate
  <2>3. /\ issue' = [issue EXCEPT ![j] = "ACTIVE"] /\ base' = [base EXCEPT ![j] = tip[Target]]
        /\ UNCHANGED tip
    BY <2>2 DEF IssueActivated, repository
  <2>4. i = j
    BY <1>3, <2>3 DEF ActiveIssues, IInv, ProjectionInv, ProjectionTypeOK
  <2> QED
    BY <2>3, <2>4 DEF IInv, ProjectionInv, ProjectionTypeOK
<1> QED
  BY <1>2, <1>3

\* DONE is recorded for merged work, and the target keeps it.
LEMMA DoneOnTarget ==
  ASSUME IInv, TurnInv, HistoryInv, SingleInv, TargetInv, [Next]_vars
  PROVE  DoneIsMerged'
<1>1. Event /\ LogGrows
  BY StepEvents, LogKeeps DEF IInv, HistoryInv, HistoryHolds
<1>2. \A x \in Execution : exec[x].created =>
        /\ exec'[x].created /\ exec'[x].end = exec[x].end
        /\ exec[x].intent = exec[x].end /\ Merged(exec[x].intent)
  BY <1>1 DEF LogGrows, Later, IInv, ProjectionInv, PinsHold, Pinned, HistoryInv, HistoryHolds,
     MergesHold
<1> SUFFICES ASSUME NEW i \in Issues, issue'[i] = "DONE"
             PROVE  \E n \in 1 .. attempts'[i] :
                      /\ exec'[<<i, n>>].created
                      /\ \E m \in commits'[tip'[Target]].first :
                           commits'[m].second = exec'[<<i, n>>].end
  BY DEF DoneIsMerged
<1>3. ASSUME NEW n \in 1 .. attempts[i], exec[<<i, n>>].created,
             NEW m \in commits[tip[Target]].first, commits[m].second = exec[<<i, n>>].end
      PROVE  /\ n \in 1 .. attempts'[i] /\ exec'[<<i, n>>].created
             /\ m \in commits'[tip'[Target]].first
             /\ commits'[m].second = exec'[<<i, n>>].end
  <2>1. attempts[i] \in 0 .. MaxAttempts /\ MaxAttempts \in Nat
    BY BudgetAssumption DEF IInv, ProjectionInv, ProjectionTypeOK
  <2>2. <<i, n>> \in Execution
    BY <2>1 DEF Execution
  <2>3. n \in 1 .. attempts'[i]
    BY <1>1, <2>1 DEF LogGrows
  <2> QED
    BY <1>2, <1>3, <2>2, <2>3, MergesStay
<1>4. CASE issue[i] = "DONE"
  BY <1>3, <1>4 DEF TargetInv, DoneIsMerged
<1>5. CASE issue[i] # "DONE"
  <2>1. \/ CompleteIssue \/ UNCHANGED issue
        \/ \E j \in Issues : \E final \in IssueState \ {"DONE"} :
             issue' = [issue EXCEPT ![j] = final]
    BY <1>1 DEF Event, Activate, IssueActivated, IssueCreated, IssueClosed, ExecutionSpawned,
       ExecutionTransition, CommitIntent, CommitCreated, Poison, projection, IssueTerminal,
       IssueState
  <2>2. CompleteIssue
    BY <1>5, <2>1 DEF IInv, ProjectionInv, ProjectionTypeOK
  <2>3. PICK j \in Issues : /\ InState(j, "ACCEPTED") /\ Latest(j).created
                            /\ IssueClosed(j, "DONE")
    BY <2>2 DEF CompleteIssue
  <2>4. i = j
    BY <1>5, <2>3 DEF IssueClosed, Poison, IInv, ProjectionInv, ProjectionTypeOK
  <2>5. /\ HasExecution(i) /\ LatestId(i) \in Execution /\ Latest(i) = exec[LatestId(i)]
        /\ exec[LatestId(i)].created /\ attempts[i] \in 1 .. attempts[i]
    BY <2>3, <2>4, InStateExists DEF HasExecution, IInv, ProjectionInv, ProjectionTypeOK
  <2>6. PICK m \in Merges : commits[m].second = exec[LatestId(i)].end
    BY <1>2, <2>5 DEF Merged
  <2>7. m \in commits[tip[Target]].first
    BY DEF TargetInv, TargetHolds
  <2> QED
    BY <1>3, <2>5, <2>6, <2>7 DEF LatestId
<1> QED
  BY <1>4, <1>5

\* What is recorded as an execution's end is its base and one commit at most.
LEMMA EndsAreSmall ==
  ASSUME IInv, TurnInv, HistoryInv, SingleInv, TargetInv, [Next]_vars
  PROVE  \A x \in Execution : exec'[x].end # NoCommit => Small(exec[x].end, x[1])'
<1>1. Event /\ LogGrows /\ Grows
  BY StepEvents, LogKeeps, MergesStay DEF IInv, HistoryInv, HistoryHolds
<1> SUFFICES ASSUME NEW x \in Execution, exec'[x].end # NoCommit
             PROVE  Small(exec[x].end, x[1])'
  OBVIOUS
<1>2. ASSUME NEW c \in Made, NEW i \in Issues, HasExecution(i), Small(c, i)
      PROVE  commits'[c].anc \subseteq commits'[base'[i]].anc \cup {c}
  <2>1. base[i] \in Made /\ base'[i] = base[i]
    BY <1>1, <1>2 DEF IInv, ProjectionInv, BasesHold, LogGrows
  <2> QED
    BY <1>1, <1>2, <2>1 DEF Small, Grows
<1>3. CASE exec'[x].end = exec[x].end
  <2>1. /\ x[1] \in Issues /\ x[2] \in 1 .. MaxAttempts /\ x[2] <= attempts[x[1]]
        /\ exec[x].end \in Made
    BY <1>3 DEF HistoryInv, HistoryHolds, EndsHold, IInv, ProjectionInv, PinsHold, Execution
  <2>2. HasExecution(x[1])
    BY <2>1, BudgetAssumption DEF HasExecution, IInv, ProjectionInv, ProjectionTypeOK
  <2>3. Small(exec[x].end, x[1])
    BY <1>3 DEF TargetInv, WorkIsSmall
  <2> QED
    BY <1>2, <1>3, <2>1, <2>2, <2>3 DEF Small
<1>4. CASE exec'[x].end # exec[x].end
  <2>1. pc = "Finish" /\ x = X /\ exec'[x].end = CurrentCommit
    <3>1. UNCHANGED exec \/
          \E y, view : exec' = [exec EXCEPT ![y] = view] /\
            \/ view.end = NoCommit \/ view.end = exec[y].end
            \/ pc = "Finish" /\ y = X /\ view.end = CurrentCommit
      <4>1. ASSUME NEW i \in Issues, NEW u, ExecutionSpawned(i, attempts[i] + 1, u), ~Poison
            PROVE  \E y, view : exec' = [exec EXCEPT ![y] = view] /\ view.end = NoCommit
        <5> DEFINE view == [NoView EXCEPT !.state = "EXECUTING", !.untracked = u]
        <5>1. exec' = [exec EXCEPT ![<<i, attempts[i] + 1>>] = view]
          BY <4>1 DEF ExecutionSpawned
        <5>2. view.end = NoCommit
          BY DEF NoView
        <5> HIDE DEF view
        <5> QED
          BY <5>1, <5>2
      <4>2. ASSUME NEW y, NEW c, CommitIntent(y, c), ~Poison
            PROVE  \E view : /\ exec' = [exec EXCEPT ![y] = view]
                             /\ y \in Execution => view.end = exec[y].end
        <5> DEFINE view == [exec[y] EXCEPT !.intent = c]
        <5>1. exec' = [exec EXCEPT ![y] = view]
          BY <4>2 DEF CommitIntent
        <5>2. y \in Execution => view.end = exec[y].end
          BY DEF IInv, ProjectionInv, ProjectionTypeOK, View
        <5> HIDE DEF view
        <5> QED
          BY <5>1, <5>2
      <4>3. ASSUME NEW y, CommitCreated(y), ~Poison
            PROVE  \E view : /\ exec' = [exec EXCEPT ![y] = view]
                             /\ y \in Execution => view.end = exec[y].end
        <5> DEFINE view == [exec[y] EXCEPT !.created = TRUE]
        <5>1. exec' = [exec EXCEPT ![y] = view]
          BY <4>3 DEF CommitCreated
        <5>2. y \in Execution => view.end = exec[y].end
          BY DEF IInv, ProjectionInv, ProjectionTypeOK, View
        <5> HIDE DEF view
        <5> QED
          BY <5>1, <5>2
      <4>4. \A y, view : y \notin Execution /\ exec' = [exec EXCEPT ![y] = view]
                         => UNCHANGED exec
        BY DEF IInv, ProjectionInv, ProjectionTypeOK
      <4>5. Poison => UNCHANGED exec
        BY DEF Poison
      <4> QED
        BY <1>1, <4>1, <4>2, <4>3, <4>4, <4>5
        DEF Event, Activate, IssueActivated, IssueCreated, CompleteIssue, IssueClosed,
            ExecutionTransition, projection
    <3> QED
      BY <1>4, <3>1 DEF IInv, ProjectionInv, ProjectionTypeOK
  <2>2. cur \in Issues /\ HasExecution(cur) /\ x[1] = cur /\ CurrentCommit \in Made
    BY <2>1, SteppedExists, CurrentIsMade DEF MidStep, Looping, X, LatestId, IInv
  <2>3. Small(CurrentCommit, cur)
    BY <2>1 DEF TargetInv, WorkIsSmall, Working
  <2> QED
    BY <1>2, <2>1, <2>2, <2>3 DEF Small
<1> QED
  BY <1>3, <1>4

-----------------------------------------------------------------------------
(* What the process relies on where it is.                                 *)

SmallPlaces ==
  /\ pc \in Working => Small(CurrentCommit, cur)
  /\ pc \in {"Engine", "Snapshot"} => CurrentCommit = base[cur] \/ dirt = {}
ResetPlaces ==
  pc \in {"Gate", "Decompose", "Reset"} /\ head = Target => base[cur] = tip[Target]
Places == ParkHolds /\ TargetDirtHolds /\ SmallPlaces /\ ResetPlaces

\* Away from the target.
LEMMA ArriveAway ==
  ASSUME head' # Target, pc' \notin Working \cup {"Shutdown"}
  PROVE  Places'
BY DEF Places, ParkHolds, TargetDirtHolds, SmallPlaces, ResetPlaces, Working

LEMMA ArriveWork ==
  ASSUME head' # Target, pc' \in Working, SmallPlaces'
  PROVE  Places'
BY DEF Places, ParkHolds, TargetDirtHolds, SmallPlaces, ResetPlaces, Working

\* At a part of a step that only needs the base.
LEMMA ArriveVerdictOnTarget ==
  ASSUME pc' \in Looping \ ({"Loop"} \cup Working),
         head' = Target =>
           /\ "tracked" \notin dirt'
           /\ pc' \in {"Gate", "Decompose", "Reset"} => base'[cur'] = tip'[Target]
  PROVE  Places'
BY DEF Places, ParkHolds, TargetDirtHolds, SmallPlaces, ResetPlaces, Working, Looping, Outside

\* Back at the loop.
LEMMA ArriveLoopOnTarget ==
  ASSUME pc' = "Loop",
         head' = Target =>
           /\ "tracked" \notin dirt'
           /\ \A i \in ActiveIssues' : HasExecution(i)' =>
                /\ Latest(i)'.state \in Retryable => dirt' = {}
                /\ Latest(i)'.state = "EXECUTING" => dirt' \subseteq Latest(i)'.untracked
  PROVE  Places'
<1>1. TargetDirtHolds'
  BY DEF TargetDirtHolds, Outside, Looping
<1> QED
  BY <1>1 DEF Places, ParkHolds, SmallPlaces, ResetPlaces, Working, Looping, Outside

\* Out of the loop, or on outside it, with nothing changed.
LEMMA MergedWorkSame ==
  ASSUME IInv, UNCHANGED projection, TargetStill, NEW i
  PROVE  /\ MergedWork(i)' <=> MergedWork(i)
         /\ Latest(i)' = Latest(i) /\ (HasExecution(i)' <=> HasExecution(i))
<1>1. Latest(i)' = Latest(i) /\ (HasExecution(i)' <=> HasExecution(i))
  BY DEF projection, Latest, LatestId, HasExecution
<1>2. Merges \subseteq Made /\ Merges' = Merges
  BY CurrentIsMade DEF IInv, Merges, Made, TargetStill
<1>3. \A m \in Merges : commits'[m] = commits[m]
  BY <1>2 DEF TargetStill, Grows
<1> QED
  BY <1>1, <1>2, <1>3 DEF MergedWork

LEMMA StayOutside ==
  ASSUME IInv, ParkHolds, TargetDirtHolds, UNCHANGED <<projection, dirt>>,
         TargetStill, pc \in Outside, pc' \in Outside \ {"Shutdown", "Archive", "Restore"},
         head' = Target =>
           head = Target \/ (pc = "Shutdown" /\ dirt = {})
  PROVE  Places'
<1>1. pc' \notin Working /\ pc' \notin {"Gate", "Decompose", "Reset", "Loop", "Ingest"}
  BY DEF Outside, Working, Looping
<1>2. ActiveIssues' = ActiveIssues
  BY DEF projection, ActiveIssues
<1>3. ParkHolds'
  BY <1>1, <1>2, MergedWorkSame DEF ParkHolds, Parked
<1>4. TargetDirtHolds'
  <2>1. \A i \in ActiveIssues : Latest(i)' = Latest(i) /\ (HasExecution(i)' <=> HasExecution(i))
    BY DEF projection, Latest, LatestId, HasExecution
  <2>2. CASE head' # Target
    BY <2>2 DEF TargetDirtHolds
  <2>3. CASE dirt = {}
    BY <1>1, <2>3 DEF TargetDirtHolds
  <2>4. CASE head = Target
    BY <1>1, <1>2, <2>1, <2>4 DEF TargetDirtHolds
  <2> QED
    BY <2>2, <2>3, <2>4
<1> QED
  BY <1>1, <1>3, <1>4 DEF Places, SmallPlaces, ResetPlaces, Working

LEMMA LeaveLoop ==
  ASSUME IInv, TargetDirtHolds, UNCHANGED <<projection, dirt, head, commits, tip>>,
         pc = "Loop", pc' = "Shutdown", \A i \in ActiveIssues : Parked(i)
  PROVE  Places'
<1>1. ActiveIssues' = ActiveIssues /\ TargetStill
  BY CommitsStill DEF projection, ActiveIssues
<1>2. ParkHolds'
  BY <1>1, MergedWorkSame DEF ParkHolds, Parked
<1>3. TargetDirtHolds'
  BY <1>1, MergedWorkSame DEF TargetDirtHolds
<1> QED
  BY <1>2, <1>3 DEF Places, SmallPlaces, ResetPlaces, Working

LEMMA StepsOutside ==
  /\ Reconciling \cup Starting \cup {"Down", "Shutdown"} = Outside \cup {"Ingest"}
  /\ Reconciling \cup {"Select", "Checkout", "Down", "Shutdown"} \subseteq Outside
  /\ Outside \cap (Working \cup {"Ingest", "Loop"}) = {}
BY DEF Outside, Label, Reconciling, Starting, Looping, Working

\* Recovery.
LEMMA RecoveryPlaces ==
  ASSUME IInv, TurnInv, HistoryInv, SingleInv, TargetInv, RecoveryStep
  PROVE  Places'
<1> USE DEF Goto, At
<1>0. ParkHolds /\ TargetDirtHolds /\ PlaceHolds
  BY DEF TargetInv, HistoryInv
<1>1. CASE /\ UNCHANGED <<projection, dirt, head, commits, tip>>
           /\ pc \in Reconciling \cup {"Down"}
           /\ pc' \in {"Down", "Orphans", "OrphanFact", "Unwitnessed", "RedoFact", "RedoMerge",
                       "Workspace", "Select"}
  <2>1. /\ pc \in Outside /\ pc # "Shutdown"
        /\ pc' \in Outside \ {"Shutdown", "Archive", "Restore"}
    BY <1>1, StepsOutside DEF Reconciling
  <2>2. TargetStill
    BY <1>1, CommitsStill
  <2> QED
    BY <1>0, <1>1, <2>1, <2>2, StayOutside
<1>2. CASE head' # Target /\ pc' \in Reconciling \cup {"Select"}
  BY <1>2, ArriveAway DEF Reconciling, Working
<1>3. CASE PreserveResidue
  <2>1. CASE head = Target /\ attemptRef[Orphan] = NoCommit
    <3>1. Orphan \in OpenExecutions /\ pc = "Orphans"
      BY <1>3 DEF PreserveResidue, Orphan
    <3>2. PICK x \in OpenExecutions : x = Orphan
      BY <3>1
    <3>3. x[1] \in ActiveIssues /\ HasExecution(x[1]) /\ Latest(x[1]) = exec[x]
      BY FlightIsLatest DEF InFlight
    <3>4. dirt \subseteq exec[x].untracked
      BY <1>0, <2>1, <3>1, <3>3, StepsOutside DEF TargetDirtHolds, OpenExecutions, Reconciling
    <3>5. UNCHANGED <<projection, dirt, head, commits, tip>> /\ pc' = "OrphanRef"
      BY <1>3, <2>1, <3>2, <3>4 DEF PreserveResidue, SnapshotCommit
    <3>6. pc' \in Outside \ {"Shutdown", "Archive", "Restore"} /\ pc \in Outside
      BY <3>1, <3>5, StepsOutside DEF Reconciling
    <3> QED
      BY <1>0, <2>1, <3>5, <3>6, CommitsStill, StayOutside
  <2>2. CASE head = Target /\ attemptRef[Orphan] # NoCommit
    BY <1>1, <1>3, <2>2 DEF PreserveResidue, Reconciling
  <2>3. CASE head # Target
    BY <1>2, <1>3, <2>3 DEF PreserveResidue, Reconciling
  <2> QED
    BY <2>1, <2>2, <2>3
<1>4. CASE CrashOrphan
  <2>1. pc = "OrphanFact" /\ pc' = "Orphans" /\ UNCHANGED <<head, dirt, commits, tip>>
    BY <1>4 DEF CrashOrphan, repository
  <2>2. PICK x \in OpenExecutions : x = Orphan
    BY <2>1 DEF Orphan, IInv, ProcessInv, ControlHolds
  <2>3. /\ x \in Execution /\ x[1] \in ActiveIssues /\ HasExecution(x[1]) /\ x = LatestId(x[1])
        /\ Latest(x[1]) = exec[x] /\ exec[x].state = "EXECUTING" /\ exec[x] \in View
    BY FlightIsLatest DEF InFlight, OpenExecutions, IInv, ProjectionInv, ProjectionTypeOK
  <2>4. /\ exec' = [exec EXCEPT ![x] = [exec[x] EXCEPT !.state = "CRASHED"]]
        /\ UNCHANGED <<issue, base, attempts>>
    BY <1>4, <2>2, <2>3 DEF CrashOrphan, ExecutionCrashed, ExecutionTransition
  <2>5. exec'[x].state = "CRASHED" /\ exec'[x].untracked = exec[x].untracked
    BY <2>3, <2>4 DEF IInv, ProjectionInv, ProjectionTypeOK, View
  <2>6. \A i \in ActiveIssues' : i = x[1] /\ Latest(i)' = exec'[x]
    BY <2>3, <2>4 DEF ActiveIssues, SingleInv, Latest, LatestId
  <2>7. /\ pc' \notin Working \cup {"Shutdown", "Archive", "Restore"}
        /\ pc' \notin {"Gate", "Decompose", "Reset", "Loop", "Ingest"} /\ pc \in Outside
    BY <2>1, StepsOutside DEF Working, Reconciling
  <2>8. ParkHolds'
    BY <2>5, <2>6, <2>7 DEF ParkHolds, Parked, Retryable
  <2>9. TargetDirtHolds'
    BY <1>0, <2>1, <2>3, <2>5, <2>6, <2>7 DEF TargetDirtHolds
  <2> QED
    BY <2>7, <2>8, <2>9 DEF Places, SmallPlaces, ResetPlaces, Working
<1>5. CASE CheckUnwitnessed
  <2>1. CASE UNCHANGED repository
    BY <1>1, <1>5, <2>1 DEF CheckUnwitnessed, Die, Exit, Reconciling, repository
  <2>2. CASE ~UNCHANGED repository
    <3>1. /\ Unwitnessed # {} /\ CheckoutNew(Intended[1], base[Intended[1]])
          /\ pc' = "RedoMerge"
      BY <1>5, <2>2 DEF CheckUnwitnessed
    <3>2. Intended \in Execution
      BY <3>1, IntendedExists DEF IInv
    <3>3. Intended[1] \in Issues
      BY <3>2 DEF Execution
    <3>4. head' # Target
      BY <3>1, <3>3, TargetAssumption DEF CheckoutNew
    <3> QED
      BY <1>2, <3>1, <3>4 DEF Reconciling
  <2> QED
    BY <2>1, <2>2
<1>6. CASE RedoMerge
  BY <1>1, <1>2, <1>6 DEF RedoMerge, MergeTo, MayMerge, Die, Exit, Reconciling, repository
<1>7. CASE RedoFact
  <2>1. /\ pc = "RedoFact" /\ pc' = "Unwitnessed" /\ UNCHANGED head
    BY <1>7 DEF RedoFact, repository
  <2>2. PICK x \in Unwitnessed : x = Intended
    BY <2>1 DEF Intended, IInv, ProcessInv, ControlHolds
  <2>3. /\ x \in Execution /\ x[1] \in ActiveIssues /\ HasExecution(x[1])
        /\ Latest(x[1]) = exec[x] /\ exec[x].intent # NoCommit /\ ~exec[x].created
    BY FlightIsLatest DEF InFlight, Unwitnessed
  <2>4. MergedWork(x[1])
    BY <1>0, <2>1, <2>2, <2>3 DEF PlaceHolds, Merged, MergedWork
  <2>5. exec[x].state = "ACCEPTED"
    BY <2>3 DEF IInv, ProjectionInv, PinsHold, Pinned
  <2>6. ~Parked(x[1])
    BY <2>3, <2>4, <2>5 DEF Parked, Retryable
  <2>7. head # Target
    BY <1>0, <2>1, <2>3, <2>6, StepsOutside DEF ParkHolds, Reconciling
  <2> QED
    BY <1>2, <2>1, <2>7 DEF Reconciling
<1>8. CASE CheckWorkspace
  <2>1. CASE head = Target
    BY <1>1, <1>8, <2>1, ParkedIsClean DEF CheckWorkspace, Reconciling
  <2>2. CASE head # Target
    BY <1>2, <1>8, <2>2 DEF CheckWorkspace, Reconciling
  <2> QED
    BY <2>1, <2>2
<1>9. CASE ReferResidue \/ Start \/ NoOrphans
  BY <1>1, <1>9 DEF ReferResidue, Start, NoOrphans, Reconciling, repository
<1>10. CASE ArchiveResidue \/ RestoreWorkspace
  BY <1>0, <1>2, <1>10 DEF ParkHolds, ArchiveResidue, RestoreWorkspace, Reconciling
<1> QED
  BY <1>3, <1>4, <1>5, <1>6, <1>7, <1>8, <1>9, <1>10 DEF RecoveryStep

\* Startup and shutdown.
LEMMA StartupPlaces ==
  ASSUME IInv, SingleInv, TargetInv, TurnInv', StartupStep
  PROVE  Places'
<1> USE DEF Goto, At
<1>0. ParkHolds /\ TargetDirtHolds
  BY DEF TargetInv
<1>1. CASE \E req \in Requests : Select(req)
  <2>1. /\ UNCHANGED <<projection, dirt, head, commits, tip>> /\ pc = "Select"
        /\ pc' \in {"Down", "Checkout"}
    BY <1>1 DEF Select, Die, Exit, repository
  <2>2. pc \in Outside /\ pc' \in Outside \ {"Shutdown", "Archive", "Restore"}
    BY <2>1, StepsOutside
  <2> QED
    BY <1>0, <2>1, <2>2, CommitsStill, StayOutside
<1>2. CASE CheckoutTarget
  <2>1. pc = "Checkout" /\ UNCHANGED <<projection, dirt, commits, tip>>
    BY <1>2 DEF CheckoutTarget
  <2>2. CASE pc' = "Ingest" /\ dirt = {}
    <3>1. ParkHolds' /\ TargetDirtHolds'
      BY <2>1, <2>2 DEF ParkHolds, TargetDirtHolds, Outside
    <3> QED
      BY <2>2, <3>1 DEF Places, SmallPlaces, ResetPlaces, Working
  <2>3. CASE pc' = "Down" /\ UNCHANGED head
    <3>1. pc \in Outside /\ pc' \in Outside \ {"Shutdown", "Archive", "Restore"}
      BY <2>1, <2>3, StepsOutside
    <3> QED
      BY <1>0, <2>1, <2>3, <3>1, CommitsStill, StayOutside
  <2> QED
    BY <1>2, <2>2, <2>3 DEF CheckoutTarget, Checkout, Die, Exit
<1>3. CASE Ingest
  <2>1. pc' \in {"Ingest", "Loop"} /\ UNCHANGED <<head, dirt>> /\ pc = "Ingest"
    BY <1>3 DEF Ingest, repository
  <2>2. TargetDirtHolds'
    BY <1>0, <2>1 DEF TargetDirtHolds
  <2>3. ParkHolds'
    BY <2>1 DEF ParkHolds, Outside, Looping
  <2> QED
    BY <2>1, <2>2, <2>3 DEF Places, SmallPlaces, ResetPlaces, Working
<1>4. CASE Shutdown
  <2>1. /\ pc = "Shutdown" /\ pc' = "Down" /\ UNCHANGED <<projection, dirt, commits, tip>>
        /\ dirt = {} \/ head' = head
    BY <1>4 DEF Shutdown, Checkout, Exit
  <2>2. pc \in Outside /\ pc' \in Outside \ {"Shutdown", "Archive", "Restore"}
    BY <2>1, StepsOutside
  <2> QED
    BY <1>0, <2>1, <2>2, CommitsStill, StayOutside
<1> QED
  BY <1>1, <1>2, <1>3, <1>4 DEF StartupStep

\* A stop from outside.
LEMMA StopPlaces ==
  ASSUME Sheltered, Kill \/ Interrupt \/ ReviewerUnavailable
  PROVE  Places'
<1>1. Kill /\ head # Target
  BY DEF Sheltered, Kill, Interrupt, ReviewerUnavailable, Stop
<1> QED
  BY <1>1, ArriveAway DEF Kill, Exit, repository, Working

\* At the loop with nothing of the ACTIVE issue to recover.
LEMMA ArriveLoopSettled ==
  ASSUME TargetDirtHolds, UNCHANGED <<head, dirt>>, pc' = "Loop",
         \A i \in ActiveIssues' : HasExecution(i)' =>
           Latest(i)'.state \notin Retryable \cup {"EXECUTING"}
  PROVE  Places'
BY ArriveLoopOnTarget DEF TargetDirtHolds

\* The one ACTIVE issue leaves the queue.
LEMMA ArriveLoopClosed ==
  ASSUME IInv, SingleInv, TargetInv, TurnInv', UNCHANGED <<head, dirt>>, pc' = "Loop",
         NEW i \in ActiveIssues, NEW final \in IssueTerminal, IssueClosed(i, final)
  PROVE  Places'
<1>1. issue' = [issue EXCEPT ![i] = final]
  BY DEF IssueClosed, ActiveIssues
<1>2. ActiveIssues' = {}
  BY <1>1 DEF ActiveIssues, SingleInv, IInv, ProjectionInv, ProjectionTypeOK, IssueTerminal
<1> QED
  BY <1>2, ArriveLoopSettled DEF TargetInv

\* The one ACTIVE issue's latest execution moves on.
LEMMA LatestMoves ==
  ASSUME IInv, NEW i, LatestId(i) \in Execution, NEW view, UNCHANGED <<issue, attempts>>,
         exec' = [exec EXCEPT ![LatestId(i)] = view], ActiveIssues \subseteq {i}
  PROVE  \A j \in ActiveIssues' : j = i /\ Latest(j)' = view
BY DEF IInv, ProjectionInv, ProjectionTypeOK, ActiveIssues, Latest, LatestId

LEMMA ArriveLoopMoved ==
  ASSUME IInv, TargetInv, UNCHANGED <<head, dirt>>, pc' = "Loop",
         NEW i, LatestId(i) \in Execution, NEW view, UNCHANGED <<issue, attempts>>,
         exec' = [exec EXCEPT ![LatestId(i)] = view], ActiveIssues \subseteq {i},
         view.state \in {"REVIEWING", "ACCEPTED"}
  PROVE  Places'
<1>1. \A j \in ActiveIssues' : Latest(j)'.state \notin Retryable \cup {"EXECUTING"}
  BY LatestMoves DEF Retryable
<1> QED
  BY <1>1, ArriveLoopSettled DEF TargetInv

\* Until its work is accepted, an issue is based on the target's tip.
LEMMA BasedOnTip ==
  ASSUME IInv, TargetInv, NEW i \in ActiveIssues,
         HasExecution(i) => Latest(i).state # "ACCEPTED"
  PROVE  base[i] = tip[Target]
<1>1. i \in Issues
  BY DEF ActiveIssues
<1>2. ~MergedWork(i)
  BY <1>1, LatestExists DEF MergedWork, Merges, IInv, Pinned
<1> QED
  BY <1>2 DEF TargetInv, TargetHolds

\* The rows that choose an issue or an execution.
LEMMA ChoicePlaces ==
  ASSUME IInv, TurnInv', HistoryInv, SingleInv, TargetInv,
         Drained \/ Activate \/ Escalate \/ Spawn \/ BudgetStop
  PROVE  Places'
<1> USE DEF Goto, Done, Leave
<1>0. TargetDirtHolds /\ pc = "Loop" /\ plan # <<>> /\ Planned
  <2>1. pc = "Loop"
    BY DEF Drained, Activate, Escalate, Spawn, BudgetStop, NeedsExecution, Stepping, At
  <2> QED
    BY <2>1, LoopRelies DEF TargetInv, HistoryInv, SingleInv, Looping
<1>1. CASE Drained
  <2>1. ActiveIssues = {}
    BY <1>0, <1>1 DEF Drained, Actionable, Planned, PlannedIssues, ActiveIssues
  <2> QED
    BY <1>0, <1>1, <2>1, LeaveLoop DEF Drained, repository
<1>2. CASE BudgetStop
  <2>1. PICK i \in Issues : NeedsExecution(i)
    BY <1>2 DEF BudgetStop
  <2>2. i \in ActiveIssues /\ Parked(i)
    BY <2>1 DEF NeedsExecution, ActiveIssues, Parked
  <2>3. \A j \in ActiveIssues : Parked(j)
    BY <2>2 DEF SingleInv
  <2> QED
    BY <1>0, <1>2, <2>3, LeaveLoop DEF BudgetStop, repository
<1>3. CASE Activate
  <2>1. PICK i \in Issues :
          /\ Stepping(i) /\ issue[i] = "PENDING"
          /\ IssueActivated(i, tip[Target]) /\ Done /\ UNCHANGED repository
    BY <1>3 DEF Activate
  <2>2. ActiveIssues = {}
    BY <1>0, <2>1, StartsAlone
  <2>3. issue' = [issue EXCEPT ![i] = "ACTIVE"] /\ UNCHANGED <<attempts, exec>>
    BY <2>1 DEF IssueActivated
  <2>4. \A j \in ActiveIssues' : j = i
    BY <2>2, <2>3 DEF ActiveIssues, IInv, ProjectionInv, ProjectionTypeOK
  <2>5. ~HasExecution(i)'
    BY <2>1, <2>3 DEF HasExecution, IInv, ProjectionInv, BasesHold
  <2> QED
    BY <1>0, <2>1, <2>4, <2>5, ArriveLoopSettled DEF repository
<1>4. CASE Escalate
  <2>1. PICK i \in Issues : NeedsExecution(i) /\ IssueClosed(i, "NEEDS_HUMAN")
    BY <1>4 DEF Escalate
  <2>2. i \in ActiveIssues
    BY <2>1 DEF NeedsExecution, ActiveIssues
  <2> QED
    BY <1>4, <2>1, <2>2, ArriveLoopClosed DEF Escalate, repository, IssueTerminal
<1>5. CASE Spawn
  <2>1. PICK i \in Issues :
          /\ NeedsExecution(i) /\ ~CapHit(i)
          /\ ExecutionSpawned(i, attempts[i] + 1, dirt \ {"tracked"})
          /\ UNCHANGED repository /\ pc' = "Loop"
    BY <1>5 DEF Spawn
  <2>2. i \in ActiveIssues /\ issue[i] = "ACTIVE"
    BY <2>1 DEF NeedsExecution, ActiveIssues
  <2> DEFINE x == <<i, attempts[i] + 1>>
             view == [NoView EXCEPT !.state = "EXECUTING", !.untracked = dirt \ {"tracked"}]
  <2>3. x \in Execution
    BY <2>1, BudgetAssumption DEF CapHit, IInv, ProjectionInv, ProjectionTypeOK, Execution
  <2>4. /\ exec' = [exec EXCEPT ![x] = view] /\ UNCHANGED issue
        /\ attempts' = [attempts EXCEPT ![i] = attempts[i] + 1]
    BY <2>1 DEF ExecutionSpawned, Poison, TurnInv, LogReplays
  <2>5. view.state = "EXECUTING" /\ view.untracked = dirt \ {"tracked"}
    BY DEF NoView
  <2>6. exec'[x] = view /\ attempts'[i] = attempts[i] + 1
    BY <2>3, <2>4 DEF IInv, ProjectionInv, ProjectionTypeOK
  <2> HIDE DEF view
  <2>7. \A j \in ActiveIssues' : Latest(j)' = view
    BY <2>2, <2>4, <2>6 DEF ActiveIssues, SingleInv, Latest, LatestId
  <2>8. /\ UNCHANGED <<head, dirt>>
        /\ head = Target => "tracked" \notin dirt
    BY <1>0, <2>1 DEF TargetDirtHolds, repository
  <2> QED
    BY <2>1, <2>5, <2>7, <2>8, ArriveLoopOnTarget DEF Retryable
<1> QED
  BY <1>1, <1>2, <1>3, <1>4, <1>5

\* On the branch, one commit beyond the base at most.
LEMMA BaseIsSmall ==
  ASSUME NEW i, commits' = commits, base' = base
  PROVE  Small(base[i], i)'
BY DEF Small

LEMMA CommitIsSmall ==
  ASSUME IInv, NEW i \in Issues, NEW rest, CurrentCommit = base[i], UNCHANGED <<head, base>>,
         CommitOnHead(rest)
  PROVE  Small(CurrentCommit, i)'
<1>1. /\ commits' = Append(commits, ChildOf(CurrentCommit)) /\ CurrentCommit \in Made
      /\ tip' = [tip EXCEPT ![head] = NewCommit] /\ commits \in Seq(Commit)
      /\ tip \in [Branch -> 0 .. Len(commits)] /\ head \in Branch
  BY CurrentIsMade DEF CommitOnHead, IInv, RepositoryInv, RepositoryTypeOK
<1>2. CurrentCommit' = Len(commits) + 1
  BY <1>1 DEF CurrentCommit, NewCommit
<1>3. commits'[CurrentCommit] = commits[CurrentCommit] /\ commits'[Len(commits) + 1] = ChildOf(CurrentCommit)
  BY <1>1 DEF Made
<1>4. ChildOf(CurrentCommit).anc = commits[CurrentCommit].anc \cup {Len(commits) + 1}
  BY DEF ChildOf, NewCommit
<1>5. base'[i] = CurrentCommit
  OBVIOUS
<1> QED
  BY <1>2, <1>3, <1>4, <1>5 DEF Small

\* The EXECUTING row.
LEMMA ExecutingPlaces ==
  ASSUME IInv, TurnInv, HistoryInv, SingleInv, TargetInv,
         \/ CheckoutIssue \/ EngineWrites \/ EngineExits \/ SnapshotWork \/ ReferWork
         \/ FinishNormal \/ FinishRejected
  PROVE  Places'
<1> USE DEF Goto, At, Continue, Done, Leave
<1>0. TargetDirtHolds /\ SmallPlaces /\ PlaceHolds
  BY DEF TargetInv, WorkIsSmall, SmallPlaces, HistoryInv
<1>1. CASE CheckoutIssue
  <2>1. PICK i \in Issues :
          /\ InState(i, "EXECUTING")
          /\ \/ CheckoutNew(i, base[i]) /\ pc' = "Engine" /\ cur' = i
             \/ pc' = "Shutdown" /\ UNCHANGED <<head, tip>>
    BY <1>1 DEF CheckoutIssue
  <2>2. UNCHANGED <<projection, commits, dirt>> /\ pc = "Loop"
    BY <1>1, <2>1 DEF CheckoutIssue, InState, Stepping
  <2>3. CASE CheckoutNew(i, base[i]) /\ pc' = "Engine" /\ cur' = i
    <3>1. head' = i /\ CurrentCommit' = base[i] /\ i # Target
      BY <2>3, TargetAssumption DEF CheckoutNew, CurrentCommit, IInv, RepositoryInv,
         RepositoryTypeOK, Branch
    <3>2. Small(CurrentCommit, cur)' /\ (CurrentCommit = base[cur])'
      BY <2>2, <2>3, <3>1, BaseIsSmall DEF projection, Small
    <3> QED
      BY <2>3, <3>1, <3>2, ArriveWork DEF SmallPlaces, Working
  <2>4. CASE pc' = "Shutdown" /\ UNCHANGED <<head, tip>>
    <3>1. \A j \in ActiveIssues : Parked(j)
      BY <2>1, InStateExists DEF SingleInv, ActiveIssues, Parked
    <3> QED
      BY <1>0, <2>2, <2>4, <3>1, LeaveLoop
  <2> QED
    BY <2>1, <2>3, <2>4
<1>2. pc # "Loop" => head # Target /\ cur \in Issues
  <2>1. CASE EngineWrites \/ EngineExits \/ SnapshotWork \/ ReferWork \/ FinishNormal
             \/ FinishRejected
    <3>1. pc \in Working
      BY <2>1 DEF EngineWrites, EngineExits, SnapshotWork, ReferWork, FinishNormal,
         FinishRejected, Working
    <3>2. cur \in Issues /\ head = cur
      BY <1>0, <3>1 DEF PlaceHolds, IInv, ProcessInv, ControlHolds, MidStep, Looping, Working
    <3> QED
      BY <3>2, TargetAssumption
  <2> QED
    BY <1>1, <2>1 DEF CheckoutIssue, InState, Stepping
<1>3. CASE EngineWrites
  <2>1. /\ pc = "Engine" /\ pc' = "Engine" /\ dirt = {} /\ CurrentCommit = base[cur]
        /\ UNCHANGED <<projection, cur, head>>
        /\ UNCHANGED <<commits, tip>> \/ CommitOnHead({})
    BY <1>3 DEF EngineWrites, process
  <2>2. head' # Target
    BY <1>2, <2>1
  <2>3. CASE UNCHANGED <<commits, tip>>
    <3>1. CurrentCommit' = base'[cur'] /\ Small(CurrentCommit, cur)'
      BY <2>1, <2>3 DEF CurrentCommit, projection, Small
    <3> QED
      BY <2>1, <2>2, <3>1, ArriveWork DEF SmallPlaces, Working
  <2>4. CASE CommitOnHead({})
    <3>1. Small(CurrentCommit, cur)'
      BY <1>2, <2>1, <2>4, CommitIsSmall DEF projection, Small
    <3>2. dirt' = {}
      BY <2>4 DEF CommitOnHead
    <3> QED
      BY <2>1, <2>2, <3>1, <3>2, ArriveWork DEF SmallPlaces, Working
  <2> QED
    BY <2>1, <2>3, <2>4
<1>4. CASE EngineExits \/ (ReferWork /\ pc' = "Finish")
  <2>1. /\ pc \in {"Engine", "SetRef"} /\ UNCHANGED <<projection, cur, head, tip, commits, dirt>>
        /\ (pc = "Engine" /\ pc' = "Snapshot") \/ (pc = "SetRef" /\ pc' = "Finish")
    BY <1>4 DEF EngineExits, ReferWork, repository
  <2>2. head' # Target
    BY <1>2, <2>1
  <2>3. SmallPlaces'
    BY <1>0, <2>1 DEF SmallPlaces, Small, CurrentCommit, projection, Working
  <2> QED
    BY <2>1, <2>2, <2>3, ArriveWork DEF Working
<1>5. CASE SnapshotWork
  <2>1. /\ pc = "Snapshot" /\ pc' = "SetRef" /\ UNCHANGED <<projection, cur, head>>
        /\ SnapshotCommit({})
    BY <1>5 DEF SnapshotWork
  <2>2. head' # Target
    BY <1>2, <2>1
  <2>3. Small(CurrentCommit, cur)'
    <3>1. CASE UNCHANGED <<commits, tip>>
      BY <1>0, <2>1, <3>1 DEF SmallPlaces, Small, CurrentCommit, projection, Working
    <3>2. CASE ~UNCHANGED <<commits, tip>>
      <4>1. CommitOnHead(dirt \cap {}) /\ dirt # {}
        BY <2>1, <3>2 DEF SnapshotCommit
      <4>2. CurrentCommit = base[cur]
        BY <1>0, <2>1, <4>1 DEF SmallPlaces
      <4>3. Small(CurrentCommit, cur)' 
        BY <1>2, <2>1, <4>1, <4>2, CommitIsSmall DEF projection, Small
      <4> QED
        BY <4>3
    <3> QED
      BY <3>1, <3>2
  <2> QED
    BY <2>1, <2>2, <2>3, ArriveWork DEF SmallPlaces, Working
<1>6. CASE ReferWork /\ pc' # "Finish"
  <2>1. /\ pc = "SetRef" /\ pc' = "Shutdown"
        /\ UNCHANGED <<projection, head, tip, commits, dirt>>
    BY <1>6 DEF ReferWork
  <2>2. Latest(cur).state = "EXECUTING"
    BY <2>1 DEF TurnInv, StepHolds, Working, X, Latest, OpenExecutions
  <2>3. ActiveIssues \subseteq {cur} /\ ActiveIssues' = ActiveIssues
    BY <2>1 DEF SingleInv, MidStep, Looping, projection, ActiveIssues
  <2>4. ParkHolds'
    BY <2>1, <2>2, <2>3 DEF ParkHolds, Parked, projection, Latest, LatestId
  <2>5. head' # Target /\ pc' \notin Working \cup {"Gate", "Decompose", "Reset"}
    BY <1>2, <2>1 DEF Working
  <2> QED
    BY <2>4, <2>5 DEF Places, TargetDirtHolds, SmallPlaces, ResetPlaces, Working
<1>7. CASE FinishNormal \/ FinishRejected
  BY <1>2, <1>7, ArriveAway DEF FinishNormal, FinishRejected, repository, Working
<1> QED
  BY <1>1, <1>3, <1>4, <1>5, <1>6, <1>7

\* Verdicts on the work, and the way back to the base.
LEMMA VerdictPlaces ==
  ASSUME Sheltered, IInv, TurnInv, TurnInv', SingleInv, TargetInv,
         \/ Decompose \/ ResetWorkspace \/ CleanWorkspace \/ RunGate \/ GateVerdict \/ Review
  PROVE  Places'
<1> USE DEF Goto, At, Continue, Done
<1>0. TargetDirtHolds /\ ResetPlaces
  BY DEF TargetInv, TargetHolds, ResetPlaces
<1>1. CASE Decompose \/ (GateVerdict /\ ValidationFailed(X) /\ pc' = "Reset")
  <2>1. /\ pc \in {"Decompose", "Gate"} /\ pc' = "Reset" /\ UNCHANGED <<base, tip, head, dirt, cur>>
    BY <1>1 DEF Decompose, GateVerdict, IssueClosed, ValidationFailed, ExecutionTransition,
       Poison, repository
  <2>2. head = Target => base[cur] = tip[Target] /\ "tracked" \notin dirt
    BY <1>0, <2>1 DEF ResetPlaces, TargetDirtHolds
  <2> QED
    BY <2>1, <2>2, ArriveVerdictOnTarget DEF Looping, Working
<1>2. CASE ResetWorkspace
  <2>1. pc' = "Clean" /\ dirt' = dirt \ {"tracked"}
    BY <1>2 DEF ResetWorkspace, ResetHard
  <2> QED
    BY <2>1, ArriveVerdictOnTarget DEF Looping, Working
<1>3. CASE CleanWorkspace
  <2>1. pc' = "Loop" /\ dirt' = {}
    BY <1>3 DEF CleanWorkspace
  <2> QED
    BY <2>1, ArriveLoopOnTarget
<1>4. CASE RunGate
  <2>1. PICK i \in Issues, d \in GateDirt :
          /\ InState(i, "VALIDATING") /\ dirt' = dirt \cup d
          /\ pc' = "Gate" /\ cur' = i /\ UNCHANGED <<projection, tip, head>>
    BY <1>4 DEF RunGate
  <2>2. base[i] = tip[Target]
    BY <2>1, InStateExists, BasedOnTip DEF ActiveIssues
  <2>3. "tracked" \notin d
    BY <2>1, TargetAssumption DEF Sheltered
  <2> QED
    BY <1>0, <2>1, <2>2, <2>3, ArriveVerdictOnTarget
    DEF TargetDirtHolds, projection, Looping, Working
<1>5. CASE GateVerdict /\ ValidationPassed(X, Ex.end) /\ pc' = "Loop"
  <2>1. pc = "Gate" /\ UNCHANGED <<head, dirt>>
    BY <1>5 DEF GateVerdict, repository
  <2>2. cur \in Issues /\ ActiveIssues \subseteq {cur} /\ X \in Execution /\ X = LatestId(cur)
    BY <2>1, SteppedExists DEF SingleInv, MidStep, Looping, X, LatestId, IInv, ProcessInv, ControlHolds
  <2> DEFINE view == [exec[X] EXCEPT !.state = "REVIEWING", !.validated = Ex.end]
  <2>3. exec' = [exec EXCEPT ![LatestId(cur)] = view] /\ UNCHANGED <<issue, attempts>>
    BY <1>5, <2>2 DEF ValidationPassed, ExecutionTransition, Poison, TurnInv, LogReplays
  <2>4. view.state = "REVIEWING"
    BY <2>2 DEF IInv, ProjectionInv, ProjectionTypeOK, View
  <2> HIDE DEF view
  <2> QED
    BY <1>5, <2>1, <2>2, <2>3, <2>4, ArriveLoopMoved
<1>6. CASE Review
  <2>1. PICK i \in Issues :
          /\ InState(i, "REVIEWING")
          /\ \/ ReviewApproved(LatestId(i), Latest(i).end) /\ pc' = "Loop"
             \/ \E f \in Feedbacks : /\ ReviewRejected(LatestId(i), f)
                                     /\ pc' = "Reset" /\ cur' = i
             \/ IssueClosed(i, "NEEDS_HUMAN") /\ pc' = "Loop"
    BY <1>6 DEF Review
  <2>2. UNCHANGED <<tip, head, dirt>>
    BY <1>6 DEF Review, repository
  <2>3. /\ i \in ActiveIssues /\ ActiveIssues \subseteq {i} /\ LatestId(i) \in Execution
        /\ exec[LatestId(i)] \in View /\ Latest(i).state = "REVIEWING"
    BY <2>1, InStateExists DEF ActiveIssues, SingleInv
  <2>4. CASE ReviewApproved(LatestId(i), Latest(i).end) /\ pc' = "Loop"
    <3> DEFINE view == [exec[LatestId(i)] EXCEPT !.state = "ACCEPTED", !.reviewed = Latest(i).end]
    <3>1. exec' = [exec EXCEPT ![LatestId(i)] = view] /\ UNCHANGED <<issue, attempts>>
      BY <2>4 DEF ReviewApproved, ExecutionTransition, Poison, TurnInv, LogReplays
    <3>2. view.state = "ACCEPTED"
      BY <2>3 DEF View
    <3> HIDE DEF view
    <3> QED
      BY <2>2, <2>3, <2>4, <3>1, <3>2, ArriveLoopMoved
  <2>5. CASE \E f \in Feedbacks : ReviewRejected(LatestId(i), f) /\ pc' = "Reset" /\ cur' = i
    <3>1. base[i] = tip[Target]
      BY <2>3, BasedOnTip
    <3>2. UNCHANGED base /\ pc' = "Reset" /\ cur' = i
      BY <2>5 DEF ReviewRejected, ExecutionTransition, Poison
    <3> QED
      BY <1>0, <2>2, <3>1, <3>2, ArriveVerdictOnTarget DEF TargetDirtHolds, Looping, Working
  <2>6. CASE IssueClosed(i, "NEEDS_HUMAN") /\ pc' = "Loop"
    BY <2>2, <2>3, <2>6, ArriveLoopClosed DEF IssueTerminal
  <2> QED
    BY <2>1, <2>4, <2>5, <2>6
<1>7. GateVerdict => \/ ValidationPassed(X, Ex.end) /\ pc' = "Loop"
                     \/ ValidationFailed(X) /\ pc' = "Reset"
  BY DEF GateVerdict
<1> QED
  BY <1>1, <1>2, <1>3, <1>4, <1>5, <1>6, <1>7

\* The ACCEPTED row.
LEMMA CommitPlaces ==
  ASSUME IInv, TurnInv, TurnInv', HistoryInv, SingleInv, TargetInv,
         \/ IntendCommit \/ Merge \/ RecordMerge \/ CompleteIssue \/ DropAttemptRef
  PROVE  Places'
<1> USE DEF Goto, At, Continue, Done, Leave
<1>0. TargetDirtHolds
  BY DEF TargetInv
<1>1. CASE IntendCommit
  <2>1. PICK i \in Issues :
          /\ InState(i, "ACCEPTED")
          /\ \/ CommitIntent(LatestId(i), Latest(i).end) /\ pc' = "Loop"
             \/ ~PinGate(Latest(i))
    BY <1>1 DEF IntendCommit
  <2>2. UNCHANGED <<head, dirt>>
    BY <1>1 DEF IntendCommit, repository
  <2>3. /\ ActiveIssues \subseteq {i} /\ LatestId(i) \in Execution
        /\ exec[LatestId(i)] \in View /\ exec[LatestId(i)].state = "ACCEPTED"
        /\ PinGate(Latest(i))
    BY <2>1, InStateExists DEF ActiveIssues, SingleInv, Pinned, PinGate, Made, NoCommit
  <2>4. CommitIntent(LatestId(i), Latest(i).end) /\ pc' = "Loop"
    BY <2>1, <2>3
  <2> DEFINE view == [exec[LatestId(i)] EXCEPT !.intent = Latest(i).end]
  <2>5. exec' = [exec EXCEPT ![LatestId(i)] = view] /\ UNCHANGED <<issue, attempts>>
    BY <2>4 DEF CommitIntent, Poison, TurnInv, LogReplays
  <2>6. view.state = "ACCEPTED"
    BY <2>3 DEF View
  <2> HIDE DEF view
  <2> QED
    BY <2>2, <2>3, <2>4, <2>5, <2>6, ArriveLoopMoved
<1>2. CASE Merge
  <2>1. PICK i \in Issues :
          LET end == Latest(i).intent
          IN  /\ InState(i, "ACCEPTED") /\ end # NoCommit /\ ~Latest(i).created
              /\ \/ pc' = "MergeFact"
                 \/ /\ MergeTo(end) /\ pc' = "MergeFact"
                 \/ /\ IsAncestor(end, tip[Target]) => ~MergeWitnessed(end)
                    /\ pc' = "Shutdown" /\ UNCHANGED <<commits, tip>>
    BY <1>2 DEF Merge
  <2>2. UNCHANGED <<projection, head, dirt>> /\ pc = "Loop"
    BY <1>2, <2>1 DEF Merge, InState, Stepping
  <2>3. CASE pc' = "MergeFact"
    BY <1>0, <2>2, <2>3, ArriveVerdictOnTarget DEF TargetDirtHolds, Looping, Working
  <2>4. CASE /\ IsAncestor(Latest(i).intent, tip[Target]) => ~MergeWitnessed(Latest(i).intent)
             /\ pc' = "Shutdown" /\ UNCHANGED <<commits, tip>>
    <3>1. /\ HasExecution(i) /\ LatestId(i) \in Unwitnessed /\ i \in ActiveIssues
          /\ Latest(i) = exec[LatestId(i)] /\ exec[LatestId(i)].state = "ACCEPTED"
      BY <2>1, InStateExists DEF Unwitnessed, ActiveIssues
    <3>2. ~MergedWork(i)
      <4>1. SUFFICES ASSUME NEW m \in Merges, commits[m].second = Latest(i).intent
                     PROVE  FALSE
        BY DEF MergedWork
      <4>2. MergeWitnessed(Latest(i).intent)
        BY <4>1 DEF MergeWitnessed, TargetInv, TargetHolds
      <4>3. IsAncestor(Latest(i).intent, tip[Target])
        BY <3>1, <4>1 DEF HistoryInv, HistoryHolds, MergesHold, Merged
      <4> QED
        BY <2>4, <4>2, <4>3
    <3>3. Parked(i)
      BY <2>1, <3>1, <3>2 DEF Parked
    <3>4. \A j \in ActiveIssues : Parked(j)
      BY <3>1, <3>3 DEF SingleInv
    <3> QED
      BY <1>0, <2>2, <2>4, <3>4, LeaveLoop
  <2> QED
    BY <2>1, <2>3, <2>4
<1>3. CASE RecordMerge
  <2>1. pc = "MergeFact" /\ pc' = "Loop" /\ UNCHANGED <<head, dirt>> /\ CommitCreated(X)
    BY <1>3 DEF RecordMerge, repository
  <2>2. /\ cur \in Issues /\ ActiveIssues \subseteq {cur} /\ X \in Execution /\ X = LatestId(cur)
        /\ X \in Unwitnessed
    BY <2>1, SteppedExists DEF SingleInv, MidStep, Looping, X, LatestId, IInv, ProcessInv,
       ControlHolds, TurnInv, StepHolds
  <2> DEFINE view == [exec[X] EXCEPT !.created = TRUE]
  <2>3. exec' = [exec EXCEPT ![LatestId(cur)] = view] /\ UNCHANGED <<issue, attempts>>
    BY <2>1, <2>2 DEF CommitCreated, Poison, TurnInv, LogReplays
  <2>4. view.state = "ACCEPTED"
    BY <2>2 DEF IInv, ProjectionInv, ProjectionTypeOK, View, PinsHold, Pinned, Unwitnessed
  <2> HIDE DEF view
  <2> QED
    BY <2>1, <2>2, <2>3, <2>4, ArriveLoopMoved
<1>4. CASE CompleteIssue
  <2>1. pc' = "DropRef" /\ UNCHANGED <<head, dirt>>
    BY <1>4 DEF CompleteIssue, repository
  <2> QED
    BY <1>0, <2>1, ArriveVerdictOnTarget DEF TargetDirtHolds, Looping, Working
<1>5. CASE DropAttemptRef
  <2>1. pc = "DropRef" /\ pc' = "Loop" /\ UNCHANGED <<projection, head, dirt>>
    BY <1>5 DEF DropAttemptRef
  <2>2. ActiveIssues' = {}
    BY <2>1 DEF SingleInv, MidStep, Looping, TurnInv, StepHolds, ActiveIssues, projection
  <2> QED
    BY <1>0, <2>1, <2>2, ArriveLoopSettled
<1> QED
  BY <1>1, <1>2, <1>3, <1>4, <1>5

LEMMA PlacesPreserved ==
  ASSUME Sheltered, IInv, TurnInv, TurnInv', HistoryInv, SingleInv, TargetInv, [Next]_vars
  PROVE  Places'
<1>1. CASE UNCHANGED vars
  <2>1. Places
    BY DEF TargetInv, WorkIsSmall, TargetHolds, Places, SmallPlaces, ResetPlaces
  <2> QED
    BY <1>1, <2>1
    DEF Places, ParkHolds, TargetDirtHolds, SmallPlaces, ResetPlaces, Parked, MergedWork, Merges,
        Small, ActiveIssues, HasExecution, Latest, LatestId, CurrentCommit, vars, projection,
        repository, process
<1>2. CASE RecoveryStep
  BY <1>2, RecoveryPlaces
<1>3. CASE StartupStep
  BY <1>3, StartupPlaces
<1>4. CASE LoopStep
  BY <1>4, ChoicePlaces, ExecutingPlaces, VerdictPlaces, CommitPlaces DEF LoopStep
<1>5. CASE Kill \/ Interrupt \/ ReviewerUnavailable
  BY <1>5, StopPlaces
<1> QED
  BY <1>1, <1>2, <1>3, <1>4, <1>5 DEF Next, Step

-----------------------------------------------------------------------------
(* The theorems.                                                           *)

LEMMA TargetPreserved ==
  ASSUME Sheltered, IInv, TurnInv, TurnInv', HistoryInv, SingleInv, TargetInv, [Next]_vars
  PROVE  TargetInv'
<1>1. Places'
  BY PlacesPreserved
<1>2. WorkIsSmall'
  BY <1>1, EndsAreSmall DEF WorkIsSmall, Places, SmallPlaces
<1>3. TargetHolds'
  BY <1>1, TargetHistory, BasesOnTarget DEF TargetHolds, Places, ResetPlaces
<1> QED
  BY <1>1, <1>2, <1>3, TargetHistory, DoneOnTarget DEF TargetInv, Places

LEMMA InitTarget ==
  ASSUME Init
  PROVE  TargetInv
<1>1. /\ commits = <<Root>> /\ DOMAIN commits = {1} /\ commits[1] = Root
      /\ exec = [x \in Execution |-> NoView] /\ issue = [i \in Issues |-> "ABSENT"]
      /\ tip[Target] = 1 /\ head = Target /\ dirt = {} /\ pc = "Down"
  BY DEF Init, RepositoryInit, ProjectionInit, ProcessInit, Branch
<1>2. Merges = {} /\ ActiveIssues = {} /\ commits[1].anc = {1}
  BY <1>1 DEF Merges, Root, ActiveIssues
<1>3. ParkHolds /\ TargetDirtHolds
  BY <1>1, <1>2 DEF ParkHolds, TargetDirtHolds
<1>4. WorkIsSmall /\ TargetHolds
  BY <1>1, <1>2 DEF WorkIsSmall, TargetHolds, NoView, Working
<1>5. OnlyApprovedOnTarget /\ MergedTreeIsReviewedTree /\ DoneIsMerged
  BY <1>1, <1>2 DEF OnlyApprovedOnTarget, MergedTreeIsReviewedTree, DoneIsMerged
<1> QED
  BY <1>3, <1>4, <1>5 DEF TargetInv

\* What the target holds, as long as the stops and the gate leave it alone.
THEOREM TargetInvariance == Sheltered => (Spec => []TargetInv)
<1> SUFFICES ASSUME Sheltered
             PROVE  Spec => []TargetInv
  OBVIOUS
<1>1. Init => TargetInv
  BY InitTarget
<1>2. IInv /\ TurnInv /\ TurnInv' /\ HistoryInv /\ SingleInv /\ TargetInv /\ [Next]_vars
        => TargetInv'
  BY TargetPreserved
<1>3. Spec => []SingleInv
  BY SingleInvariance DEF Sheltered
<1> QED
  BY <1>1, <1>2, <1>3, Invariance, TurnInvariance, HistoryInvariance, PTL DEF Spec

\* "commits only approved work" (README.md:5): whatever the target holds beside its
\* root is a merge or the end commit of an execution that passed its gate and its
\* review, for every issues file, engine and verdict, and every sequence of kills that
\* find an issue branch checked out.
THEOREM TargetIsApproved == Sheltered => (Spec => []OnlyApprovedOnTarget)
<1>1. TargetInv => OnlyApprovedOnTarget
  BY DEF TargetInv
<1> QED
  BY <1>1, TargetInvariance, PTL

\* What is merged (git_adapter.merge_to, by the loop or by check 2) is merged onto the
\* commit its issue was based on: the merged tree is the tree the reviewer saw.
THEOREM TargetIsReviewed == Sheltered => (Spec => []MergedTreeIsReviewedTree)
<1>1. TargetInv => MergedTreeIsReviewedTree
  BY DEF TargetInv
<1> QED
  BY <1>1, TargetInvariance, PTL

\* An issue the log calls DONE (loop.py's IssueCompleted) has its accepted work on the
\* first-parent chain of the target, and no later step takes it off.
THEOREM DoneStaysMerged == Sheltered => (Spec => []DoneIsMerged)
<1>1. TargetInv => DoneIsMerged
  BY DEF TargetInv
<1> QED
  BY <1>1, TargetInvariance, PTL

\* No step of the loop, of recovery's resets and snapshots or of shutdown moves the
\* target except by one merge on its old tip.
THEOREM TargetOnlyMerges == Sheltered => (Spec => TargetMovesByMerge)
<1> SUFFICES ASSUME Sheltered
             PROVE  Spec => TargetMovesByMerge
  OBVIOUS
<1> DEFINE Moves == tip'[Target] # tip[Target] =>
                      /\ commits'[tip'[Target]].second # NoCommit
                      /\ commits'[tip'[Target]].first
                           = commits[tip[Target]].first \cup {tip'[Target]}
<1>1. IInv /\ TurnInv /\ HistoryInv /\ SingleInv /\ TargetInv /\ [Next]_vars => [Moves]_vars
  BY StepMovesByMerge
<1>2. Spec => []SingleInv
  BY SingleInvariance DEF Sheltered
<1>3. Spec => []TargetInv
  BY TargetInvariance
<1> QED
  BY <1>1, <1>2, <1>3, Invariance, TurnInvariance, HistoryInvariance, PTL
  DEF Spec, TargetMovesByMerge

-----------------------------------------------------------------------------
(* Residue.                                                                *)

\* What the log does unless an issue is activated or an execution spawned.
LogQuiet ==
  /\ ActiveIssues' \subseteq ActiveIssues
  /\ \A i \in ActiveIssues : base'[i] = base[i]
  /\ \A i \in Issues : issue'[i] \in Unstarted => issue[i] \in Unstarted
  /\ \A x \in Execution : exec'[x].state = "NONE" => exec[x].state = "NONE"
  /\ OpenExecutions' \subseteq OpenExecutions

LEMMA StepIsQuiet ==
  ASSUME IInv, HistoryInv, [Next]_vars, ~Activate, ~Spawn
  PROVE  LogQuiet
<1>0. /\ Event /\ issue \in [Issues -> IssueState] /\ exec \in [Execution -> View]
      /\ ProjectionTypeOK
  BY StepEvents DEF IInv, ProjectionInv, ProjectionTypeOK
<1>1. ActiveIssues' \subseteq ActiveIssues
  BY <1>0, EventsSettle
<1>2. \A i \in ActiveIssues : base'[i] = base[i]
  BY <1>0, LogKeeps DEF LogGrows, ActiveIssues, IInv, HistoryInv, HistoryHolds
<1>3. \/ issue' = issue
      \/ \E i \in Issues : issue[i] = "ABSENT" /\ issue' = [issue EXCEPT ![i] = "PENDING"]
      \/ \E i \in Issues : \E final \in IssueTerminal : issue' = [issue EXCEPT ![i] = final]
  BY <1>0 DEF Event, IssueCreated, CompleteIssue, IssueClosed, ExecutionTransition, CommitIntent,
     CommitCreated, Poison, projection, IssueTerminal
<1>4. \A i \in Issues : issue'[i] \in Unstarted => issue[i] \in Unstarted
  BY <1>0, <1>3 DEF Unstarted, IssueTerminal
<1>5. \/ UNCHANGED exec
      \/ \E x, view : /\ exec' = [exec EXCEPT ![x] = view]
                      /\ view.state \notin {"NONE", "EXECUTING"}
  <2>1. ASSUME NEW x, NEW c, CommitIntent(x, c), ~UNCHANGED exec
        PROVE  \E view : /\ exec' = [exec EXCEPT ![x] = view]
                         /\ view.state \notin {"NONE", "EXECUTING"}
    <3>1. x \in Execution /\ exec[x].state = "ACCEPTED"
      BY <1>0, <2>1 DEF CommitIntent, Poison
    <3> DEFINE view == [exec[x] EXCEPT !.intent = c]
    <3>2. exec' = [exec EXCEPT ![x] = view] /\ view.state = "ACCEPTED"
      BY <1>0, <2>1, <3>1 DEF CommitIntent, Poison, View
    <3> HIDE DEF view
    <3> QED
      BY <3>2
  <2>2. ASSUME NEW x, CommitCreated(x), ~UNCHANGED exec
        PROVE  \E view : /\ exec' = [exec EXCEPT ![x] = view]
                         /\ view.state \notin {"NONE", "EXECUTING"}
    <3>1. x \in Execution /\ exec[x].state = "ACCEPTED"
      BY <1>0, <2>2 DEF CommitCreated, Poison
    <3> DEFINE view == [exec[x] EXCEPT !.created = TRUE]
    <3>2. exec' = [exec EXCEPT ![x] = view] /\ view.state = "ACCEPTED"
      BY <1>0, <2>2, <3>1 DEF CommitCreated, Poison, View
    <3> HIDE DEF view
    <3> QED
      BY <3>2
  <2> QED
    BY <1>0, <2>1, <2>2 DEF Event, IssueCreated, CompleteIssue, IssueClosed, ExecutionTransition,
       Poison, projection
<1>6. \A x \in Execution : exec'[x].state \in {"NONE", "EXECUTING"} => exec'[x] = exec[x]
  BY <1>0, <1>5
<1> QED
  BY <1>1, <1>2, <1>4, <1>6 DEF LogQuiet, OpenExecutions

\* The issue branches and the refs stay as they are.
RefsStill ==
  /\ \A i \in Issues : tip'[i] = tip[i]
  /\ head' = head /\ attemptRef' = attemptRef /\ archive \subseteq archive'

LEMMA ResidueKept ==
  ASSUME ResidueInv, LogQuiet, RefsStill, pc' \in Loose \/ pc \notin Loose,
         pc' \notin Unreferred \/ pc \in Unreferred \/ OpenExecutions' = {}
  PROVE  ResidueInv'
<1>1. ActiveIssues \subseteq Issues /\ \A x \in OpenExecutions : x[1] \in Issues
  BY DEF ActiveIssues, OpenExecutions, Execution
<1>2. \A i \in ActiveIssues : Held(i) \subseteq Held(i)'
  BY DEF Held, LogQuiet, RefsStill
<1>3. BranchesWait'
  BY DEF ResidueInv, BranchesWait, LogQuiet, RefsStill
<1>4. BranchesAreHeld'
  BY <1>1, <1>2 DEF ResidueInv, BranchesAreHeld, LogQuiet, RefsStill
<1>5. RefsFollow'
  BY <1>1 DEF ResidueInv, RefsFollow, LogQuiet, RefsStill
<1> QED
  BY <1>3, <1>4, <1>5 DEF ResidueInv

\* The branch that is checked out moves, with no ref to move away from.
LEMMA ResidueMoves ==
  ASSUME ResidueInv, UNCHANGED <<projection, head, attemptRef, archive>>, pc' \in Loose,
         \A i \in Issues \ {head} : tip'[i] = tip[i],
         head \in Issues => issue[head] \notin Unstarted,
         \A x \in OpenExecutions : attemptRef[x] = NoCommit
  PROVE  ResidueInv'
<1>1. ActiveIssues \subseteq Issues /\ ActiveIssues' = ActiveIssues
      /\ OpenExecutions' = OpenExecutions
  BY DEF ActiveIssues, OpenExecutions, projection
<1>2. \A i : Held(i)' = Held(i)
  BY DEF Held, projection
<1>3. BranchesWait'
  BY DEF ResidueInv, BranchesWait, projection
<1>4. BranchesAreHeld'
  BY <1>1, <1>2 DEF ResidueInv, BranchesAreHeld
<1>5. RefsFollow'
  BY <1>1 DEF ResidueInv, RefsFollow, projection
<1> QED
  BY <1>3, <1>4, <1>5 DEF ResidueInv

\* The target is checked out, when every branch is held.
LEMMA ResidueLeft ==
  ASSUME ResidueInv, UNCHANGED <<projection, tip, attemptRef, archive>>, pc \notin Loose,
         pc' \notin Unreferred, head' = Target
  PROVE  ResidueInv'
<1>1. /\ ActiveIssues \subseteq Issues /\ ActiveIssues' = ActiveIssues
      /\ OpenExecutions' = OpenExecutions
      /\ \A x \in OpenExecutions : x[1] \in Issues
  BY DEF ActiveIssues, OpenExecutions, projection, Execution
<1>2. \A i : Held(i)' = Held(i)
  BY DEF Held, projection
<1>3. BranchesWait'
  BY TargetAssumption DEF ResidueInv, BranchesWait, projection
<1>4. BranchesAreHeld'
  BY <1>1, <1>2 DEF ResidueInv, BranchesAreHeld
<1>5. RefsFollow'
  BY <1>1, TargetAssumption DEF ResidueInv, RefsFollow, projection
<1> QED
  BY <1>3, <1>4, <1>5 DEF ResidueInv

\* The branch of the ACTIVE issue is put where the log wants it.
LEMMA ResiduePlaced ==
  ASSUME IInv, ResidueInv, UNCHANGED <<projection, attemptRef, archive>>,
         NEW c, tip' = [tip EXCEPT ![head'] = c], head' = head \/ head' \in ActiveIssues,
         \A i \in ActiveIssues \ {head'} : head # i \/ pc \notin Loose,
         \A i \in ActiveIssues : head' = i => c \in Held(i),
         \A x \in OpenExecutions : attemptRef[x] = NoCommit
  PROVE  ResidueInv'
<1>1. /\ ActiveIssues \subseteq Issues /\ ActiveIssues' = ActiveIssues
      /\ OpenExecutions' = OpenExecutions
      /\ \A i \in ActiveIssues : issue[i] \notin Unstarted
  BY DEF ActiveIssues, OpenExecutions, projection, Unstarted
<1>2. \A i : Held(i)' = Held(i)
  BY DEF Held, projection
<1>3. \A i \in Issues : tip'[i] = IF i = head' THEN c ELSE tip[i]
  BY DEF IInv, RepositoryInv, RepositoryTypeOK, Branch
<1>4. BranchesWait'
  BY <1>1, <1>3 DEF ResidueInv, BranchesWait, projection
<1>5. BranchesAreHeld'
  BY <1>1, <1>2, <1>3 DEF ResidueInv, BranchesAreHeld
<1>6. RefsFollow'
  BY <1>1 DEF ResidueInv, RefsFollow, projection
<1> QED
  BY <1>4, <1>5, <1>6 DEF ResidueInv

\* What check 3 expects of the ACTIVE issue is its base or the commit of a finished
\* execution, which is under its attempt ref.
LEMMA ExpectedIsHeld ==
  ASSUME IInv, EvidenceInv, SingleInv, NEW i \in ActiveIssues
  PROVE  ExpectedCommit \in Held(i)
<1>1. ActiveIssue = i /\ i \in Issues /\ issue[i] = "ACTIVE" /\ ActiveIssues # {}
  BY FirstIsMember DEF ActiveIssue, ActiveIssues, SingleInv
<1>2. CASE ExpectedCommit = base[i]
  BY <1>2 DEF Held
<1>3. CASE ExpectedCommit # base[i]
  <2>1. /\ HasExecution(i) /\ ExpectedCommit = Latest(i).end
        /\ Latest(i).state \in {"VALIDATING", "REVIEWING", "ACCEPTED"}
    BY <1>1, <1>3 DEF ExpectedCommit
  <2>2. LatestId(i) \in Execution /\ Latest(i) = exec[LatestId(i)]
    BY <1>1, <2>1, LatestExists DEF IInv, Latest
  <2>3. attemptRef[<<i, attempts[i]>>] = ExpectedCommit
    BY <1>1, <2>1, <2>2 DEF EvidenceInv, EvidenceKept, LatestId
  <2>4. attempts[i] \in 1 .. MaxAttempts
    BY <2>2 DEF LatestId, Execution
  <2> QED
    BY <2>3, <2>4 DEF Held
<1> QED
  BY <1>2, <1>3

\* Recovery keeps what is held, and refers what is not.
LEMMA RecoveryResidue ==
  ASSUME IInv, TurnInv, EvidenceInv, HistoryInv, SingleInv, ResidueInv, RecoveryStep
  PROVE  ResidueInv'
<1> USE DEF Goto, At
<1>0. /\ pc = "OrphanRef" => \A x \in OpenExecutions : attemptRef[x] = NoCommit
      /\ head \in Issues => issue[head] \notin Unstarted
      /\ pc \in {"Unwitnessed", "RedoMerge", "RedoFact", "Workspace", "Archive", "Restore"}
           => OpenExecutions = {}
  BY DEF ResidueInv, BranchesWait, RefsFollow, Unreferred, TurnInv, StepHolds, Resting, InFlight
<1>1. LogQuiet
  <2>1. ~Activate /\ ~Spawn
    BY DEF RecoveryStep, Start, PreserveResidue, ReferResidue, CrashOrphan, NoOrphans,
       CheckUnwitnessed, RedoMerge, RedoFact, CheckWorkspace, ArchiveResidue, RestoreWorkspace,
       Activate, Spawn, NeedsExecution, Stepping
  <2> QED
    BY <2>1, StepIsQuiet DEF Next, Step
<1>2. CASE RefsStill /\ pc' \in Loose \ Unreferred
  BY <1>1, <1>2, ResidueKept
<1>3. CASE PreserveResidue
  <2>1. pc = "Orphans" /\ UNCHANGED <<projection, head, attemptRef, archive>>
    BY <1>3 DEF PreserveResidue
  <2>2. PICK x \in OpenExecutions : x = Orphan
    BY <1>3 DEF PreserveResidue, Orphan
  <2>3. /\ x \in Execution /\ x[1] \in ActiveIssues /\ x = LatestId(x[1])
        /\ \A y \in OpenExecutions : y = x
    BY FlightIsLatest DEF InFlight, TurnInv, OneInFlight
  <2>4. CASE attemptRef[x] = NoCommit
    <3>1. pc' = "OrphanRef" /\ SnapshotCommit(exec[x].untracked)
      BY <1>3, <2>2, <2>4 DEF PreserveResidue
    <3>2. \A i \in Issues \ {head} : tip'[i] = tip[i]
      BY <3>1 DEF SnapshotCommit, CommitOnHead, IInv, RepositoryInv, RepositoryTypeOK, Branch
    <3> QED
      BY <1>0, <2>1, <2>3, <2>4, <3>1, <3>2, ResidueMoves DEF Loose
  <2>5. CASE attemptRef[x] # NoCommit
    <3>1. pc' = "OrphanFact" /\ UNCHANGED tip
      BY <1>3, <2>2, <2>5 DEF PreserveResidue
    <3>2. \A i \in ActiveIssues : tip[i] \in Held(i)
      <4> SUFFICES ASSUME NEW i \in ActiveIssues, head = i
                   PROVE  tip[i] \in Held(i)
        BY DEF ResidueInv, BranchesAreHeld
      <4>1. x[1] = i
        BY <2>3 DEF SingleInv
      <4>2. tip[i] = attemptRef[x] /\ x = <<i, attempts[i]>> /\ attempts[i] \in 1 .. MaxAttempts
        BY <2>3, <2>5, <4>1 DEF ResidueInv, RefsFollow, LatestId, Execution
      <4> QED
        BY <4>2 DEF Held
    <3>3. BranchesAreHeld'
      BY <2>1, <3>1, <3>2 DEF BranchesAreHeld, Held, ActiveIssues, projection
    <3>4. BranchesWait' /\ RefsFollow'
      BY <2>1, <3>1 DEF ResidueInv, BranchesWait, RefsFollow, Unreferred, OpenExecutions, projection
    <3> QED
      BY <3>3, <3>4 DEF ResidueInv
  <2> QED
    BY <2>4, <2>5
<1>4. CASE ReferResidue
  <2>1. /\ pc = "OrphanRef" /\ pc' = "OrphanFact"
        /\ UNCHANGED <<projection, tip, head, archive>>
    BY <1>4 DEF ReferResidue
  <2>2. PICK x \in OpenExecutions : x = Orphan
    BY <2>1 DEF Orphan, IInv, ProcessInv, ControlHolds
  <2>3. /\ x \in Execution /\ x[1] \in ActiveIssues /\ x = LatestId(x[1])
        /\ \A y \in OpenExecutions : y = x
        /\ attemptRef[x] = NoCommit /\ exec[x].state = "EXECUTING"
    BY <1>0, <2>1, FlightIsLatest DEF InFlight, TurnInv, OneInFlight, OpenExecutions
  <2> DEFINE c == IF CurrentCommit = base[x[1]] THEN NoCommit ELSE CurrentCommit
  <2>4. attemptRef' = [attemptRef EXCEPT ![x] = c]
    BY <1>4, <2>2, <2>3 DEF ReferResidue, SetAttemptRef, IInv, RepositoryInv, RepositoryTypeOK
  <2>5. \A y \in Execution : attemptRef'[y] = IF y = x THEN c ELSE attemptRef[y]
    BY <2>4 DEF IInv, RepositoryInv, RepositoryTypeOK
  <2>6. /\ OpenExecutions' = OpenExecutions /\ ActiveIssues' = ActiveIssues
        /\ \A i \in ActiveIssues : i \in Issues /\ i = x[1]
    BY <2>1, <2>3 DEF OpenExecutions, ActiveIssues, projection, SingleInv
  <2>7. x = <<x[1], attempts[x[1]]>> /\ attempts[x[1]] \in 1 .. MaxAttempts /\ x[1] \in Issues
    BY <2>3 DEF LatestId, Execution
  <2>8. Held(x[1]) \cup {c} \subseteq Held(x[1])'
    <3>1. \A n \in 1 .. MaxAttempts : <<x[1], n>> \in Execution
      BY <2>7 DEF Execution
    <3>2. c \in Held(x[1])'
      BY <2>5, <2>7, <3>1 DEF Held
    <3>3. ASSUME NEW d \in Held(x[1])
          PROVE  d \in Held(x[1])'
      <4>1. CASE d \in {NoCommit, base[x[1]]} \cup archive
        BY <2>1, <4>1 DEF Held, projection
      <4>2. CASE \E n \in 1 .. MaxAttempts : d = attemptRef[<<x[1], n>>] /\ d # NoCommit
        <5>1. PICK n \in 1 .. MaxAttempts : d = attemptRef[<<x[1], n>>] /\ d # NoCommit
          BY <4>2
        <5>2. d = attemptRef'[<<x[1], n>>]
          BY <2>3, <2>5, <3>1, <5>1
        <5> QED
          BY <5>2 DEF Held
      <4> QED
        BY <4>1, <4>2 DEF Held
    <3> QED
      BY <3>2, <3>3
  <2>9. BranchesAreHeld'
    <3> SUFFICES ASSUME NEW i \in ActiveIssues
                 PROVE  tip[i] \in Held(i)'
      BY <2>1, <2>6 DEF BranchesAreHeld
    <3>1. i = x[1]
      BY <2>6
    <3>2. CASE head = i
      <4>1. tip[i] \in {c, base[i]} /\ base[i] \in Held(i)
        BY <3>1, <3>2 DEF CurrentCommit, Held
      <4> QED
        BY <2>8, <3>1, <4>1
    <3>3. CASE head # i
      BY <2>8, <3>1, <3>3 DEF ResidueInv, BranchesAreHeld
    <3> QED
      BY <3>2, <3>3
  <2>10. BranchesWait'
    BY <2>1 DEF ResidueInv, BranchesWait, projection
  <2>11. RefsFollow'
    BY <2>1, <2>3, <2>5, <2>6
    DEF ResidueInv, RefsFollow, Unreferred, CurrentCommit, projection, OpenExecutions
  <2> QED
    BY <2>9, <2>10, <2>11 DEF ResidueInv
<1>5. CASE CrashOrphan \/ NoOrphans \/ Start \/ ArchiveResidue \/ RedoFact
  <2>1. pc' \in {"Orphans", "Unwitnessed", "Restore"}
    BY <1>5 DEF CrashOrphan, NoOrphans, Start, ArchiveResidue, RedoFact
  <2>2. RefsStill
    BY <1>5 DEF RefsStill, CrashOrphan, NoOrphans, Start, ArchiveResidue, RedoFact, repository
  <2> QED
    BY <1>2, <2>1, <2>2 DEF Loose, Unreferred
<1>6. CASE CheckUnwitnessed
  <2>1. CASE UNCHANGED repository
    <3>1. pc' \in {"Workspace", "RedoFact", "RedoMerge", "Down"}
      BY <1>6 DEF CheckUnwitnessed, Die, Exit
    <3> QED
      BY <1>2, <2>1, <3>1 DEF Loose, Unreferred, RefsStill, repository
  <2>2. CASE ~UNCHANGED repository
    <3>1. /\ Unwitnessed # {} /\ CheckoutNew(Intended[1], base[Intended[1]])
          /\ pc = "Unwitnessed" /\ UNCHANGED <<projection, attemptRef, archive>>
      BY <1>6, <2>2 DEF CheckUnwitnessed
    <3>2. PICK x \in Unwitnessed : x = Intended
      BY <3>1 DEF Intended
    <3>3. x[1] \in ActiveIssues
      BY FlightIsLatest DEF InFlight
    <3>4. /\ head' = x[1] /\ tip' = [tip EXCEPT ![head'] = base[x[1]]]
          /\ base[x[1]] \in Held(x[1]) /\ \A i \in ActiveIssues : i = x[1]
      BY <3>1, <3>2, <3>3 DEF CheckoutNew, Held, SingleInv
    <3> HIDE DEF Held
    <3> QED
      BY <1>0, <3>1, <3>3, <3>4, ResiduePlaced
  <2> QED
    BY <2>1, <2>2
<1>7. CASE RedoMerge
  <2>1. pc' \in {"RedoFact", "Down"} /\ UNCHANGED <<head, attemptRef, archive>>
    BY <1>7 DEF RedoMerge, Die, Exit, repository
  <2>2. \A i \in Issues : tip'[i] = tip[i]
    BY <1>7, TargetAssumption DEF RedoMerge, MergeTo, repository, IInv, RepositoryInv,
       RepositoryTypeOK, Branch
  <2> QED
    BY <1>2, <2>1, <2>2 DEF Loose, Unreferred, RefsStill
<1>8. CASE CheckWorkspace
  <2>1. pc = "Workspace" /\ UNCHANGED <<projection, head, attemptRef, archive>>
    BY <1>8 DEF CheckWorkspace
  <2>2. CASE pc' = "Select"
    <3>1. UNCHANGED tip /\ CurrentCommit = ExpectedCommit
      BY <1>8, <2>2 DEF CheckWorkspace
    <3>2. /\ \A i \in ActiveIssues : head = i => CurrentCommit \in Held(i)
          /\ tip' = [tip EXCEPT ![head'] = CurrentCommit]
      BY <2>1, <3>1, ExpectedIsHeld DEF CurrentCommit, IInv, RepositoryInv, RepositoryTypeOK
    <3>3. \A i \in ActiveIssues \ {head'} : head # i
      BY <2>1
    <3> QED
      BY <1>0, <2>1, <3>2, <3>3, ResiduePlaced
  <2>3. CASE pc' # "Select"
    <3>1. pc' \in {"Restore", "Archive"} /\ (UNCHANGED tip \/ SnapshotCommit(Preserved))
      BY <1>8, <2>3 DEF CheckWorkspace
    <3>2. \A i \in Issues \ {head} : tip'[i] = tip[i]
      BY <3>1 DEF SnapshotCommit, CommitOnHead, IInv, RepositoryInv, RepositoryTypeOK, Branch
    <3> QED
      BY <1>0, <2>1, <3>1, <3>2, ResidueMoves DEF Loose
  <2> QED
    BY <2>2, <2>3
<1>9. CASE RestoreWorkspace
  <2>1. /\ pc = "Restore" /\ UNCHANGED <<projection, head, attemptRef, archive>>
        /\ tip' = [tip EXCEPT ![head'] = ExpectedCommit]
    BY <1>9 DEF RestoreWorkspace, ResetHard
  <2>2. \A i \in ActiveIssues \ {head'} : head # i
    BY <2>1
  <2> QED
    BY <1>0, <2>1, <2>2, ExpectedIsHeld, ResiduePlaced
<1> QED
  BY <1>3, <1>4, <1>5, <1>6, <1>7, <1>8, <1>9 DEF RecoveryStep

\* Startup, shutdown and the stops leave every branch held.
LEMMA StartupResidue ==
  ASSUME Uninterrupted, IInv, TurnInv, HistoryInv, ResidueInv,
         StartupStep \/ Kill \/ Interrupt \/ ReviewerUnavailable
  PROVE  ResidueInv'
<1> USE DEF Goto, At, Exit
<1>1. LogQuiet
  <2>1. ~Activate /\ ~Spawn
    <3>1. CASE StartupStep
      BY <3>1 DEF StartupStep, Select, CheckoutTarget, Ingest, Shutdown, Activate, Spawn,
         NeedsExecution, Stepping
    <3>2. CASE Kill \/ Interrupt \/ ReviewerUnavailable
      BY <3>2 DEF Kill, Interrupt, ReviewerUnavailable, Activate, Spawn, Done
    <3> QED
      BY <3>1, <3>2
  <2> QED
    BY <2>1, StepIsQuiet DEF Next, Step
<1>2. CASE RefsStill /\ pc' \notin Unreferred /\ (pc' \in Loose \/ pc \notin Loose)
  BY <1>1, <1>2, ResidueKept
<1>3. CASE \E req \in Requests : Select(req)
  <2>1. pc = "Select" /\ pc' \in {"Checkout", "Down"} /\ UNCHANGED repository
    BY <1>3 DEF Select, Die
  <2> QED
    BY <1>2, <2>1 DEF Loose, Unreferred, RefsStill, repository
<1>4. CASE CheckoutTarget \/ Shutdown
  <2>1. /\ pc \in {"Checkout", "Shutdown"} /\ pc' \in {"Ingest", "Down"}
        /\ UNCHANGED <<projection, tip, attemptRef, archive>>
        /\ head' = Target \/ head' = head
    BY <1>4 DEF CheckoutTarget, Shutdown, Checkout, Die
  <2>2. CASE head' = Target
    BY <2>1, <2>2, ResidueLeft DEF Loose, Unreferred
  <2>3. CASE head' = head
    BY <1>2, <2>1, <2>3 DEF Loose, Unreferred, RefsStill
  <2> QED
    BY <2>1, <2>2, <2>3
<1>5. CASE Ingest
  <2>1. pc = "Ingest" /\ pc' \in {"Ingest", "Loop"} /\ UNCHANGED repository
    BY <1>5 DEF Ingest
  <2>2. OpenExecutions = {}
    BY <2>1 DEF TurnInv, StepHolds, Resting, InFlight
  <2> QED
    BY <1>1, <2>1, <2>2, ResidueKept DEF LogQuiet, Loose, Unreferred, RefsStill, repository
<1>6. CASE Kill \/ ReviewerUnavailable
  <2>1. pc' \in {"Down", "Shutdown"} /\ (pc' = "Shutdown" => pc = "Loop") /\ UNCHANGED repository
    BY <1>6 DEF Kill, ReviewerUnavailable, InState, Stepping
  <2> QED
    BY <1>2, <2>1 DEF Loose, Unreferred, RefsStill, repository
<1>7. ~Interrupt
  BY DEF Uninterrupted, Interrupt, Stop
<1> QED
  BY <1>3, <1>4, <1>5, <1>6, <1>7 DEF StartupStep

\* The rows of the loop that leave the branches and the refs alone.
LEMMA QuietResidue ==
  ASSUME IInv, TurnInv, HistoryInv, ResidueInv,
         \/ Drained \/ Escalate \/ BudgetStop \/ EngineExits \/ FinishNormal \/ FinishRejected
         \/ Decompose \/ CleanWorkspace \/ RunGate \/ GateVerdict \/ Review
         \/ IntendCommit \/ Merge \/ RecordMerge \/ CompleteIssue
  PROVE  ResidueInv'
<1> USE DEF Goto, At, Done, Continue, Leave
<1>1. /\ \/ pc \in {"Loop", "Decompose", "Clean", "Gate", "MergeFact", "Finish"}
         \/ pc = "Engine" /\ pc' = "Snapshot"
      /\ head' = head /\ attemptRef' = attemptRef /\ archive' = archive
  BY DEF Drained, Escalate, BudgetStop, EngineExits, FinishNormal, FinishRejected, Decompose,
     CleanWorkspace, RunGate, GateVerdict, Review, IntendCommit, Merge, RecordMerge, CompleteIssue,
     NeedsExecution, InState, Stepping, repository
<1>2. \A i \in Issues : tip'[i] = tip[i]
  <2>1. CASE Merge
    BY <2>1, TargetAssumption
    DEF Merge, MergeTo, IInv, RepositoryInv, RepositoryTypeOK, Branch
  <2>2. CASE ~Merge
    BY <2>2 DEF Drained, Escalate, BudgetStop, EngineExits, FinishNormal, FinishRejected,
       Decompose, CleanWorkspace, RunGate, GateVerdict, Review, IntendCommit, RecordMerge,
       CompleteIssue, repository
  <2> QED
    BY <2>1, <2>2
<1>3. RefsStill
  BY <1>1, <1>2 DEF RefsStill
<1>4. LogQuiet
  <2>1. ~Spawn
    <3>1. spawned' = spawned /\ spawned \in Nat
      BY RunAssumption
      DEF Drained, Escalate, BudgetStop, EngineExits, FinishNormal, FinishRejected, Decompose,
          CleanWorkspace, RunGate, GateVerdict, Review, IntendCommit, Merge, RecordMerge,
          CompleteIssue, IInv, ProcessInv, ProcessTypeOK
    <3> QED
      BY <3>1 DEF Spawn
  <2>2. ~Activate
    <3>1. \/ pc # "Loop" \/ Actionable = {}
          \/ \E i \in Issues : i = NextActionable /\ issue[i] = "ACTIVE"
      BY DEF Drained, Escalate, BudgetStop, EngineExits, FinishNormal, FinishRejected, Decompose,
         CleanWorkspace, RunGate, GateVerdict, Review, IntendCommit, Merge, RecordMerge,
         CompleteIssue, NeedsExecution, InState, Stepping
    <3> QED
      BY <3>1 DEF Activate, Stepping
  <2> QED
    BY <2>1, <2>2, StepIsQuiet DEF Next, Step, LoopStep
<1>5. pc' \notin Unreferred \/ pc \in Unreferred \/ OpenExecutions' = {}
  <2>1. CASE pc \in {"Decompose", "Clean", "Gate"}
    BY <1>4, <2>1 DEF LogQuiet, TurnInv, StepHolds, Resting, InFlight
  <2>2. CASE pc = "MergeFact"
    <3>1. X \in Unwitnessed /\ \A x \in OpenExecutions : x = X
      BY <2>2 DEF TurnInv, StepHolds, OneInFlight, InFlight
    <3>2. exec[X].state = "ACCEPTED"
      BY <3>1 DEF Unwitnessed, IInv, ProjectionInv, PinsHold, Pinned
    <3> QED
      BY <1>4, <3>1, <3>2 DEF LogQuiet, OpenExecutions
  <2>3. CASE pc = "Finish"
    <3>0. FinishNormal \/ FinishRejected
      BY <2>3 DEF Drained, Escalate, BudgetStop, EngineExits, Decompose, CleanWorkspace, RunGate,
         GateVerdict, Review, IntendCommit, Merge, RecordMerge, CompleteIssue, NeedsExecution,
         InState, Stepping
    <3>1. X \in OpenExecutions /\ \A x \in OpenExecutions : x = X
      BY <2>3 DEF TurnInv, StepHolds, OneInFlight, InFlight, Working
    <3>2. X \in Execution /\ exec[X].state = "EXECUTING" /\ exec[X] \in View
      BY <3>1 DEF OpenExecutions, IInv, ProjectionInv, ProjectionTypeOK
    <3>3. PICK state \in {"VALIDATING", "REJECTED"} :
            exec' = [exec EXCEPT ![X] = [exec[X] EXCEPT !.state = state, !.end = CurrentCommit]]
      BY <3>0, <3>2 DEF FinishNormal, FinishRejected, ExecutionFinished, ExecutionFinishedRejected,
         ExecutionTransition
    <3>4. exec'[X].state = state
      BY <3>2, <3>3 DEF View, IInv, ProjectionInv, ProjectionTypeOK
    <3> QED
      BY <1>4, <3>1, <3>4 DEF LogQuiet, OpenExecutions
  <2> QED
    BY <1>1, <2>1, <2>2, <2>3 DEF Unreferred
<1> QED
  BY <1>1, <1>3, <1>4, <1>5, ResidueKept DEF Loose

\* The rows that start an issue or an execution.
LEMMA ChoiceResidue ==
  ASSUME IInv, TurnInv', HistoryInv, SingleInv, ResidueInv, Activate \/ Spawn
  PROVE  ResidueInv'
<1> USE DEF Done
<1>1. CASE Activate
  <2>1. PICK i \in Issues : /\ Stepping(i) /\ issue[i] = "PENDING"
                            /\ IssueActivated(i, tip[Target]) /\ pc' = "Loop"
    BY <1>1 DEF Activate
  <2>2. UNCHANGED repository /\ pc = "Loop"
    BY <1>1, <2>1 DEF Activate, Stepping, At
  <2>3. ActiveIssues = {}
    BY <2>1, <2>2, LoopRelies, StartsAlone DEF HistoryInv, SingleInv, Looping
  <2>4. issue' = [issue EXCEPT ![i] = "ACTIVE"] /\ UNCHANGED exec
    BY <2>1 DEF IssueActivated
  <2>5. \A j \in Issues : issue'[j] = IF j = i THEN "ACTIVE" ELSE issue[j]
    BY <2>4 DEF IInv, ProjectionInv, ProjectionTypeOK
  <2>6. tip[i] = NoCommit /\ head # i
    BY <2>1 DEF ResidueInv, BranchesWait, Unstarted
  <2>7. BranchesWait'
    BY <2>2, <2>5 DEF ResidueInv, BranchesWait, repository, Unstarted
  <2>8. BranchesAreHeld'
    BY <2>2, <2>3, <2>5, <2>6 DEF BranchesAreHeld, ActiveIssues, Held, repository
  <2>9. RefsFollow'
    BY <2>1, <2>2, <2>4 DEF ResidueInv, RefsFollow, OpenExecutions, repository
  <2> QED
    BY <2>7, <2>8, <2>9 DEF ResidueInv
<1>2. CASE Spawn
  <2>1. PICK i \in Issues : /\ NeedsExecution(i) /\ ~CapHit(i)
                            /\ ExecutionSpawned(i, attempts[i] + 1, dirt \ {"tracked"})
                            /\ UNCHANGED repository /\ pc' = "Loop"
    BY <1>2 DEF Spawn
  <2>2. pc = "Loop"
    BY <2>1 DEF NeedsExecution, Stepping, At
  <2> DEFINE x == <<i, attempts[i] + 1>>
             view == [NoView EXCEPT !.state = "EXECUTING", !.untracked = dirt \ {"tracked"}]
  <2>3. x \in Execution
    BY <2>1, BudgetAssumption DEF CapHit, IInv, ProjectionInv, ProjectionTypeOK, Execution
  <2>4. exec' = [exec EXCEPT ![x] = view] /\ UNCHANGED <<issue, base>> /\ exec[x].state = "NONE"
    BY <2>1 DEF ExecutionSpawned, Poison, TurnInv, LogReplays
  <2>5. view.state = "EXECUTING"
    BY DEF NoView
  <2> HIDE DEF view, x
  <2>6. \A y \in Execution : exec'[y] = IF y = x THEN view ELSE exec[y]
    BY <2>4 DEF IInv, ProjectionInv, ProjectionTypeOK
  <2>7. BranchesWait' /\ BranchesAreHeld'
    BY <2>1, <2>2, <2>4
    DEF ResidueInv, BranchesWait, BranchesAreHeld, ActiveIssues, Held, repository
  <2>8. RefsFollow'
    <3>1. attemptRef[x] = NoCommit
      BY <2>3, <2>4 DEF ResidueInv, RefsFollow
    <3>2. \A y \in OpenExecutions' : attemptRef[y] = NoCommit
      BY <2>2, <2>6, <3>1 DEF ResidueInv, RefsFollow, Unreferred, OpenExecutions
    <3> QED
      BY <2>1, <2>5, <2>6, <3>2 DEF ResidueInv, RefsFollow, repository, OpenExecutions
  <2> QED
    BY <2>7, <2>8 DEF ResidueInv
<1> QED
  BY <1>1, <1>2

\* The EXECUTING row.
LEMMA WorkResidue ==
  ASSUME IInv, TurnInv, HistoryInv, SingleInv, ResidueInv,
         CheckoutIssue \/ EngineWrites \/ SnapshotWork \/ ReferWork
  PROVE  ResidueInv'
<1> USE DEF Goto, At, Continue, Leave
<1>0. /\ pc \in Unreferred => \A x \in OpenExecutions : attemptRef[x] = NoCommit
      /\ head \in Issues => issue[head] \notin Unstarted
  BY DEF ResidueInv, BranchesWait, RefsFollow
<1>1. CASE CheckoutIssue
  <2>1. PICK i \in Issues :
          /\ InState(i, "EXECUTING")
          /\ \/ CheckoutNew(i, base[i])
             \/ pc' = "Shutdown" /\ UNCHANGED <<head, tip>>
    BY <1>1 DEF CheckoutIssue
  <2>2. /\ UNCHANGED <<projection, attemptRef, archive>> /\ pc = "Loop"
        /\ i \in ActiveIssues
    BY <1>1, <2>1, InStateExists DEF CheckoutIssue, InState, Stepping, ActiveIssues
  <2>3. CASE CheckoutNew(i, base[i])
    <3>1. /\ head' = i /\ tip' = [tip EXCEPT ![head'] = base[i]] /\ base[i] \in Held(i)
          /\ \A j \in ActiveIssues : j = i
      BY <2>2, <2>3 DEF CheckoutNew, Held, SingleInv
    <3>2. \A x \in OpenExecutions : attemptRef[x] = NoCommit
      BY <1>0, <2>2 DEF Unreferred
    <3> HIDE DEF Held
    <3> QED
      BY <2>2, <3>1, <3>2, ResiduePlaced
  <2>4. CASE pc' = "Shutdown" /\ UNCHANGED <<head, tip>>
    BY <2>2, <2>4
    DEF ResidueInv, BranchesWait, BranchesAreHeld, RefsFollow, ActiveIssues, OpenExecutions, Held,
        Loose, Unreferred, projection
  <2> QED
    BY <2>1, <2>3, <2>4
<1>2. CASE EngineWrites \/ SnapshotWork
  <2>1. /\ pc \in {"Engine", "Snapshot"} /\ pc' \in {"Engine", "SetRef"}
        /\ UNCHANGED <<projection, head, attemptRef, archive>>
        /\ UNCHANGED tip \/ (\E rest : CommitOnHead(rest))
    BY <1>2 DEF EngineWrites, SnapshotWork, SnapshotCommit, process
  <2>2. \A i \in Issues \ {head} : tip'[i] = tip[i]
    BY <2>1 DEF CommitOnHead, IInv, RepositoryInv, RepositoryTypeOK, Branch
  <2>3. \A x \in OpenExecutions : attemptRef[x] = NoCommit
    BY <1>0, <2>1 DEF Unreferred
  <2> QED
    BY <1>0, <2>1, <2>2, <2>3, ResidueMoves DEF Loose
<1>3. CASE ReferWork
  <2>1. pc = "SetRef" /\ UNCHANGED <<projection, tip, head, archive>>
    BY <1>3 DEF ReferWork
  <2>2. /\ X \in OpenExecutions /\ \A y \in OpenExecutions : y = X
        /\ cur \in Issues /\ head = cur /\ ActiveIssues \subseteq {cur}
    BY <2>1 DEF TurnInv, StepHolds, OneInFlight, InFlight, Working, HistoryInv, PlaceHolds, SingleInv,
       MidStep, Looping, IInv, ProcessInv, ControlHolds
  <2>3. attemptRef[X] = NoCommit /\ X \in Execution /\ exec[X].state = "EXECUTING"
    BY <1>0, <2>1, <2>2 DEF Unreferred, OpenExecutions
  <2>4. pc' = "Finish" /\ attemptRef' = [attemptRef EXCEPT ![X] = tip[head]]
    BY <1>3, <2>3 DEF ReferWork, MayRefer, SetAttemptRef, CurrentCommit
  <2>5. \A y \in Execution : attemptRef'[y] = IF y = X THEN tip[head] ELSE attemptRef[y]
    BY <2>4 DEF IInv, RepositoryInv, RepositoryTypeOK
  <2>6. /\ X = <<cur, attempts[cur]>> /\ attempts[cur] \in 1 .. MaxAttempts
        /\ X[1] = cur
    BY <2>2, <2>3 DEF X, LatestId, Execution
  <2>7. /\ attemptRef'[<<cur, attempts[cur]>>] = tip[cur]
        /\ UNCHANGED <<issue, base, attempts, archive, tip>>
    BY <2>1, <2>2, <2>3, <2>5, <2>6 DEF projection
  <2>8. BranchesAreHeld'
    <3> SUFFICES ASSUME NEW i \in ActiveIssues'
                 PROVE  tip'[i] \in Held(i)'
      BY DEF BranchesAreHeld
    <3>1. i = cur
      BY <2>2, <2>7 DEF ActiveIssues
    <3>2. tip'[i] = attemptRef'[<<i, attempts[cur]>>]
      BY <2>7, <3>1
    <3> QED
      BY <2>6, <3>2 DEF Held
  <2>9. BranchesWait'
    BY <2>1 DEF ResidueInv, BranchesWait, projection
  <2>10. RefsFollow'
    <3>1. OpenExecutions' = OpenExecutions
      BY <2>1 DEF OpenExecutions, projection
    <3>2. \A x \in Execution : exec'[x].state = "NONE" => attemptRef'[x] = NoCommit
      BY <2>1, <2>3, <2>5 DEF ResidueInv, RefsFollow, projection
    <3>3. \A x \in OpenExecutions' : tip'[head'] = attemptRef'[x]
      BY <2>1, <2>2, <2>3, <2>5, <3>1
    <3> QED
      BY <2>4, <3>2, <3>3 DEF RefsFollow, Unreferred
  <2> QED
    BY <2>8, <2>9, <2>10 DEF ResidueInv
<1> QED
  BY <1>1, <1>2, <1>3

\* Back to the base, and the end of an issue.
LEMMA ClosingResidue ==
  ASSUME IInv, TurnInv, SingleInv, ResidueInv, ResetWorkspace \/ DropAttemptRef
  PROVE  ResidueInv'
<1> USE DEF Goto, At, Done
<1>0. OpenExecutions = {} /\ ActiveIssues \subseteq {cur} /\ cur \in Issues
  BY DEF ResetWorkspace, DropAttemptRef, TurnInv, StepHolds, Resting, InFlight, SingleInv,
     MidStep, Looping, IInv, ProcessInv, ControlHolds
<1>1. CASE ResetWorkspace
  <2>1. /\ UNCHANGED <<projection, head, attemptRef, archive>>
        /\ tip' = [tip EXCEPT ![head'] = base[cur]] /\ pc = "Reset"
    BY <1>1 DEF ResetWorkspace, ResetHard
  <2>2. \A i \in ActiveIssues : head' = i => base[cur] \in Held(i)
    BY <1>0 DEF Held
  <2>3. \A i \in ActiveIssues \ {head'} : head # i
    BY <2>1
  <2> QED
    BY <1>0, <2>1, <2>2, <2>3, ResiduePlaced
<1>2. CASE DropAttemptRef
  <2>1. /\ UNCHANGED <<projection, tip, head, archive>> /\ pc = "DropRef" /\ pc' = "Loop"
        /\ attemptRef' = [attemptRef EXCEPT ![X] = NoCommit]
    BY <1>2 DEF DropAttemptRef
  <2>2. ActiveIssues' = {} /\ OpenExecutions' = {}
    BY <1>0, <2>1 DEF TurnInv, StepHolds, ActiveIssues, OpenExecutions, projection
  <2>3. \A x \in Execution : attemptRef'[x] \in {NoCommit, attemptRef[x]}
    BY <2>1 DEF IInv, RepositoryInv, RepositoryTypeOK
  <2>4. BranchesWait'
    BY <2>1 DEF ResidueInv, BranchesWait, projection
  <2>5. BranchesAreHeld' /\ RefsFollow'
    BY <2>1, <2>2, <2>3 DEF ResidueInv, BranchesAreHeld, RefsFollow, projection
  <2> QED
    BY <2>4, <2>5 DEF ResidueInv
<1> QED
  BY <1>1, <1>2

LEMMA ResiduePreserved ==
  ASSUME Uninterrupted, IInv, TurnInv, TurnInv', EvidenceInv, HistoryInv, SingleInv, ResidueInv,
         [Next]_vars
  PROVE  ResidueInv'
<1>1. CASE UNCHANGED vars
  BY <1>1 DEF ResidueInv, BranchesWait, BranchesAreHeld, RefsFollow, ActiveIssues, OpenExecutions,
     Held, vars, projection, repository, process
<1>2. CASE LoopStep
  BY <1>2, QuietResidue, ChoiceResidue, WorkResidue, ClosingResidue DEF LoopStep
<1> QED
  BY <1>1, <1>2, RecoveryResidue, StartupResidue DEF Next, Step

LEMMA InitResidue ==
  ASSUME Init
  PROVE  ResidueInv
<1>1. /\ \A i \in Issues : tip[i] = NoCommit /\ issue[i] = "ABSENT"
      /\ head = Target
      /\ \A x \in Execution : exec[x] = NoView /\ attemptRef[x] = NoCommit
  BY TargetAssumption DEF Init, ProjectionInit, RepositoryInit, Branch
<1>2. ActiveIssues = {} /\ OpenExecutions = {}
  BY <1>1 DEF ActiveIssues, OpenExecutions, NoView
<1> QED
  BY <1>1, <1>2, TargetAssumption DEF ResidueInv, BranchesWait, BranchesAreHeld, RefsFollow

\* Where the work of an execution is, as long as no Ctrl-C comes between.
THEOREM ResidueInvariance == Uninterrupted => (Spec => []ResidueInv)
<1> SUFFICES ASSUME Uninterrupted
             PROVE  Spec => []ResidueInv
  OBVIOUS
<1>1. Init => ResidueInv
  BY InitResidue
<1>2. IInv /\ TurnInv /\ TurnInv' /\ EvidenceInv /\ HistoryInv /\ SingleInv /\ ResidueInv
        /\ [Next]_vars => ResidueInv'
  BY ResiduePreserved
<1>3. Spec => []SingleInv
  BY SingleInvariance DEF Uninterrupted
<1> QED
  BY <1>1, <1>2, <1>3, Invariance, TurnInvariance, EvidenceInvariance, HistoryInvariance, PTL
  DEF Spec

\* Only check 1 of recovery calls an execution crashed.
LEMMA CrashesAreRecovered ==
  ASSUME IInv, IInv', TurnInv', [Next]_vars, NEW i \in Issues, HasExecution(i),
         Latest(i).state = "EXECUTING", Latest(i)'.state = "CRASHED"
  PROVE  pc = "OrphanFact"
<1>1. LatestId(i) \in Execution
  BY LatestExists DEF IInv
<1>2. /\ Event /\ ProjectionTypeOK /\ Latest(i) = exec[LatestId(i)]
      /\ Latest(i)' = exec'[LatestId(i)']
  BY StepEvents DEF IInv, ProjectionInv, Latest
<1>3. ASSUME NEW j \in Issues, NEW u, ExecutionSpawned(j, attempts[j] + 1, u), ~poisoned'
      PROVE  FALSE
  <2> DEFINE y == <<j, attempts[j] + 1>>
             view == [NoView EXCEPT !.state = "EXECUTING", !.untracked = u]
  <2>1. /\ exec' = [exec EXCEPT ![y] = view]
        /\ attempts' = [attempts EXCEPT ![j] = attempts[j] + 1]
    BY <1>3 DEF ExecutionSpawned, Poison
  <2>2. view.state = "EXECUTING"
    BY DEF NoView
  <2>3. LatestId(i)' = IF i = j THEN y ELSE LatestId(i)
    BY <1>2, <2>1 DEF LatestId, ProjectionTypeOK
  <2>4. y \in Execution
    BY <1>2, <2>1 DEF IInv, ProjectionInv, ProjectionTypeOK, Execution
  <2> HIDE DEF y, view
  <2> QED
    BY <1>1, <1>2, <2>1, <2>2, <2>3, <2>4 DEF ProjectionTypeOK
<1>4. ASSUME NEW x, NEW view, NEW from, ExecutionTransition(x, from, view),
             view.state = "CRASHED" => pc = "OrphanFact"
      PROVE  pc = "OrphanFact"
  <2>1. LatestId(i)' = LatestId(i) /\ (UNCHANGED exec \/ exec' = [exec EXCEPT ![x] = view])
    BY <1>4 DEF ExecutionTransition, Poison, LatestId
  <2> QED
    BY <1>1, <1>2, <1>4, <2>1 DEF ProjectionTypeOK
<1>5. ASSUME UNCHANGED <<exec, attempts>>
      PROVE  FALSE
  BY <1>2, <1>5 DEF LatestId
<1>6. ASSUME NEW x, NEW c, CommitIntent(x, c) \/ CommitCreated(x)
      PROVE  FALSE
  <2>1. UNCHANGED attempts /\ \A y \in Execution : exec'[y].state = exec[y].state
    BY <1>2, <1>6 DEF CommitIntent, CommitCreated, Poison, ProjectionTypeOK, View
  <2> QED
    BY <1>1, <1>2, <2>1 DEF LatestId
<1> QED
  BY <1>2, <1>3, <1>4, <1>5, <1>6
  DEF TurnInv, LogReplays, Event, Activate, IssueActivated, IssueCreated, CompleteIssue, IssueClosed, Poison,
      projection

\* Crash residue: when check 1 of recovery calls an execution crashed (bindings.py's
\* preserve_residue), what is on the issue's branch is its base or under a ref, so the
\* next checkout -B drops nothing; for every engine, and a kill between any two steps.
THEOREM CrashesKeepResidue == Uninterrupted => (Spec => CrashKeepsResidue)
<1> SUFFICES ASSUME Uninterrupted
             PROVE  Spec => CrashKeepsResidue
  OBVIOUS
<1> DEFINE Kept == \A i \in Issues :
                     /\ HasExecution(i)
                     /\ Latest(i).state = "EXECUTING" /\ Latest(i)'.state = "CRASHED"
                     => tip[i] \in {NoCommit, base[i]} \cup AttemptRefs
<1>1. ASSUME IInv, IInv', TurnInv, TurnInv', ResidueInv, [Next]_vars
      PROVE  Kept
  <2> SUFFICES ASSUME NEW i \in Issues, HasExecution(i), Latest(i).state = "EXECUTING",
                      Latest(i)'.state = "CRASHED"
               PROVE  tip[i] \in {NoCommit, base[i]} \cup AttemptRefs
    OBVIOUS
  <2>1. pc = "OrphanFact"
    BY <1>1, CrashesAreRecovered
  <2>2. i \in ActiveIssues
    <3>1. LatestId(i) \in InFlight /\ LatestId(i)[1] = i
      BY <1>1, LatestExists DEF IInv, InFlight, OpenExecutions, Latest, LatestId
    <3> QED
      BY <1>1, <3>1, FlightIsLatest
  <2>3. tip[i] \in Held(i)
    BY <1>1, <2>1, <2>2 DEF ResidueInv, BranchesAreHeld, Loose
  <2>4. \A n \in 1 .. MaxAttempts : <<i, n>> \in Execution
    BY DEF Execution
  <2> QED
    BY <2>3, <2>4 DEF Held, AttemptRefs
<1>2. IInv /\ IInv' /\ TurnInv /\ TurnInv' /\ ResidueInv /\ [Next]_vars => [Kept]_vars
  BY <1>1
<1> QED
  BY <1>2, Invariance, TurnInvariance, ResidueInvariance, PTL
  DEF Spec, CrashKeepsResidue

=============================================================================
