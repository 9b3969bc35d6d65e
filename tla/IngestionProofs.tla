--------------------------- MODULE IngestionProofs ---------------------------
(***************************************************************************)
(* Theorems about Ingestion, for any number of processes, any logs, page   *)
(* and tick limits, and any order of lost leases, failures and stops.      *)
(***************************************************************************)
EXTENDS Ingestion, SequenceTheorems, TLAPS

USE DEF NoLog, NoGeneration

-----------------------------------------------------------------------------
(* What is promised of the log, of a task and of a job.  The parts that are *)
(* about a task or a job speak of it and of the world it is in: the log and *)
(* the database, which only grow.                                           *)

Outcome == {"none", "error", "retained", "halted", "rolled", "caught up", "all pages used"}
Waiting == {"persisting", "rebuilding"}
Task ==
  [at: {"none", "sleeping", "polling", "probing", "ticked"} \cup Waiting,
   gen: 0 .. MaxGeneration, cursor: Cursor, left: 0 .. MaxPages, term: Nat,
   outcome: Outcome]
Job ==
  [does: {"page", "roll", "rebuild", "error"}, gen: 0 .. MaxGeneration, cursor: Cursor,
   page: Page, awaited: BOOLEAN, term: Nat]

\* Where a task waits for a job.
Waits(job) == IF job.does \in {"page", "roll"} THEN "persisting" ELSE "rebuilding"

\* A task and its process' worker agree: a job is awaited where the task waits
\* for one, and it is the last the worker has been given.
Fits(t, queue) ==
  /\ \A k \in 1 .. Len(queue) : queue[k].awaited => k = Len(queue) /\ t.at = Waits(queue[k])
  /\ t.at \in Waiting => Len(queue) > 0 /\ queue[Len(queue)].awaited
  /\ t.at = "polling" => t.left > 0

\* A cursor into the log at the path is not past its complete records.
Reached(cursor, d) ==
  /\ cursor.of.file <= d.log
  /\ cursor.of.file = d.log => cursor.at <= d.lines

\* What is before the cursor is stored.
Covered(rows, cursor) ==
  \A k \in Position : k < cursor.at => \E r \in rows : r.at = k /\ r.of = cursor.of

CoveredIn(stores, g, cursor) ==
  IF g = NoGeneration THEN cursor = NoCursor ELSE Covered(stores[g], cursor)

\* A page carries on from the cursor it was read with.
Follows(page, cursor) ==
  LET new == Advanced(page, cursor)
  IN /\ new \in Cursor /\ new.at >= cursor.at
     /\ \A r \in Range(page.records) : r.of = page.of /\ (r.at < new.at => r.is = "OK")
     /\ \/ new = cursor /\ page.records = <<>>
        \/ /\ new.of = page.of /\ page.of # Unknown
           /\ cursor = NoCursor \/ cursor.of = page.of
           /\ \A k \in Position : cursor.at <= k /\ k < new.at =>
                \E r \in Range(page.records) : r.at = k

World == [disk |-> disk, opened |-> Len(generations), stores |-> evidence, term |-> term]

\* A world that the other may become.
Later(w, v) ==
  /\ \/ w.disk.log < v.disk.log
     \/ w.disk.log = v.disk.log /\ w.disk.lines <= v.disk.lines
  /\ w.opened <= v.opened /\ w.term <= v.term
  /\ \A g \in Generation : \A r \in w.stores[g] :
       \E s \in v.stores[g] : s.at = r.at /\ s.of = r.of

GoodTask(t, w) ==
  /\ t.gen <= w.opened /\ t.term <= w.term
  /\ Reached(t.cursor, w.disk)
  /\ t.at = "polling" => CoveredIn(w.stores, t.gen, t.cursor)

GoodJob(job, w) ==
  /\ job.gen <= w.opened /\ job.term <= w.term
  /\ job.does \in {"rebuild", "error"} => job.gen # NoGeneration
  /\ job.does = "page" =>
       /\ CoveredIn(w.stores, job.gen, job.cursor)
       /\ Follows(job.page, job.cursor)
       /\ Reached(Advanced(job.page, job.cursor), w.disk)

DiskOK ==
  /\ disk \in Disk /\ losses \in 0 .. MaxLosses
  /\ disk.tail # "none" => disk.lines < MaxLines
  /\ disk.there => disk.log # NoLog

OwnedOK ==
  /\ lease \in [owner: Dashboard \cup {NoDashboard}, fresh: BOOLEAN]
  /\ term \in 0 .. MaxTerm
  /\ leader \in [Dashboard -> BOOLEAN]

StoredOK ==
  /\ generations \in Seq(Identity) /\ Len(generations) <= MaxGeneration
  /\ checkpoint \in [gen: 0 .. Len(generations), cursor: Cursor, halted: BOOLEAN]
  /\ evidence \in [Generation -> SUBSET Record]
  /\ shown \in [Generation -> SUBSET Record]
  /\ status \in [gen: 0 .. Len(generations),
                 is: {"NONE", "PREPARING", "READY", "REBUILDING", "ERROR"}]
  /\ status.is = "READY" => status.gen # NoGeneration
  /\ ShownIsStored
  /\ CoveredIn(evidence, checkpoint.gen, checkpoint.cursor)

Counted == failures \in 0 .. MaxFailures /\ overruns \in 0 .. MaxOverruns

Process(p) ==
  /\ Fits(task[p], jobs[p])
  /\ GoodTask(task[p], World)
  /\ \A job \in Range(jobs[p]) : GoodJob(job, World)

IngestInv ==
  /\ DiskOK /\ OwnedOK /\ StoredOK /\ Counted
  /\ Reached(checkpoint.cursor, disk)
  /\ task \in [Dashboard -> Task] /\ jobs \in [Dashboard -> Seq(Job)]
  /\ \A p \in Dashboard : Process(p)

-----------------------------------------------------------------------------
(* The observer.                                                           *)

LEMMA IdentityIs ==
  ASSUME DiskOK
  PROVE  IdentityOf(disk) \in Identity /\ IdentityOf(disk).file = disk.log
         /\ (disk.there => IdentityOf(disk) # Unknown)
BY ObservedAssumption DEF DiskOK, Disk, IdentityOf, Identity, Unknown

LEMMA NoCursorIs ==
  NoCursor \in Cursor /\ NoCursor.at = 0 /\ NoCursor.of = Unknown /\ Unknown.file = 0
BY ObservedAssumption DEF NoCursor, Cursor, Unknown, Identity, Position

LEMMA RecordsAre ==
  ASSUME DiskOK
  PROVE  /\ Records(disk) \in Seq(Record)
         /\ Len(Records(disk)) = disk.lines + (IF disk.tail = "none" THEN 0 ELSE 1)
         /\ \A k \in 1 .. Len(Records(disk)) :
              /\ Records(disk)[k].at = k - 1
              /\ Records(disk)[k].of = IdentityOf(disk)
              /\ k <= disk.lines => Records(disk)[k].is = "OK"
<1> DEFINE size == disk.lines + (IF disk.tail = "none" THEN 0 ELSE 1)
           rec(k) == [at |-> k - 1, of |-> IdentityOf(disk),
                      is |-> IF k <= disk.lines THEN "OK"
                             ELSE IF disk.tail = "torn" THEN "TORN" ELSE "OVERSIZED"]
<1>1. size \in Nat /\ size <= MaxLines /\ disk.lines \in Nat
  BY ObservedAssumption DEF DiskOK, Disk, Position
<1>2. Records(disk) = [k \in 1 .. size |-> rec(k)]
  BY DEF Records
<1>3. \A k \in 1 .. size : rec(k) \in Record
  BY <1>1, IdentityIs, ObservedAssumption DEF Record, Position
<1>4. Records(disk) \in Seq(Record) /\ Len(Records(disk)) = size
  <2> HIDE DEF rec, size
  <2> QED
    BY <1>1, <1>2, <1>3, IsASeq
<1>5. \A k \in 1 .. size : Records(disk)[k] = rec(k)
  <2> HIDE DEF rec, size
  <2> QED
    BY <1>2
<1> QED
  BY <1>4, <1>5

\* A page is a page, and carries on.
LEMMA PageFollows ==
  ASSUME DiskOK, NEW after \in Cursor, ~Rejects(after), Reached(after, disk)
  PROVE  /\ ReadPage(after) \in Page
         /\ Follows(ReadPage(after), after)
         /\ Reached(Advanced(ReadPage(after), after), disk)
<1> DEFINE page == ReadPage(after)
           found == Records(disk)
           id == IdentityOf(disk)
           last == IF Len(found) > after.at + PageLimit THEN after.at + PageLimit ELSE Len(found)
<1>1. /\ after.at \in Nat /\ PageLimit \in Nat \ {0} /\ MaxLines \in Nat
      /\ disk.lines \in Nat /\ disk.log \in Nat /\ disk.lines <= MaxLines
  BY ObservedAssumption DEF DiskOK, Disk, Position, Cursor
<1>2. /\ found \in Seq(Record)
      /\ Len(found) = disk.lines + (IF disk.tail = "none" THEN 0 ELSE 1)
      /\ \A k \in 1 .. Len(found) :
           /\ found[k].at = k - 1 /\ found[k].of = id
           /\ k <= disk.lines => found[k].is = "OK"
  BY RecordsAre
<1>3. CASE ~disk.there
  <2>1. page = NoPage
    BY <1>3 DEF ReadPage
  <2>2. after = NoCursor
    BY <1>3 DEF Rejects
  <2>3. NoPage \in Page
    BY NoCursorIs, EmptySeq DEF NoPage, Page, Unknown, NoCursor, Cursor
  <2>4. Advanced(NoPage, after) = after /\ Range(NoPage.records) = {} /\ NoPage.records = <<>>
    BY <2>2, EmptySeq DEF Advanced, NoPage, Range
  <2> QED
    BY <2>1, <2>3, <2>4, <1>1 DEF Follows
<1>4. CASE disk.there
  <2>1. /\ page.available = TRUE /\ page.of = id /\ page.records = SubSeq(found, after.at + 1, last)
        /\ page.next = NextCursor(found, after.at) /\ page.more = (Len(found) > last)
        /\ page = [available |-> page.available, of |-> page.of, records |-> page.records,
                   next |-> page.next, more |-> page.more]
    BY <1>4 DEF ReadPage
  <2>2. id \in Identity /\ id.file = disk.log /\ id # Unknown
    BY <1>4, IdentityIs
  <2>3. after = NoCursor \/ after.of = id
    BY <1>4 DEF Rejects
  <2>4. after.at <= disk.lines
    BY <2>2, <2>3, NoCursorIs, <1>1 DEF Reached
  <2>5. /\ last \in Nat /\ last <= Len(found) /\ after.at <= last
        /\ Len(found) \in Nat /\ Len(found) <= MaxLines
        /\ Len(found) > after.at + PageLimit => last = after.at + PageLimit
        /\ Len(found) <= after.at + PageLimit => last = Len(found)
    BY <1>1, <1>2, <2>4 DEF DiskOK
  <2> HIDE DEF last, found, id
  <2>6. /\ page.records \in Seq(Record) /\ Len(page.records) = last - after.at
        /\ \A k \in 1 .. last - after.at : page.records[k] = found[after.at + k]
    <3>1. /\ after.at + 1 \in Int /\ last \in Int
          /\ last - (after.at + 1) + 1 = last - after.at
          /\ \A k \in after.at + 1 .. last : k \in 1 .. Len(found)
      BY <2>5, <1>1
    <3>3. \A k \in after.at + 1 .. last : found[k] \in Record
      <4>1. \A k \in 1 .. Len(found) : found[k] \in Record
        BY <1>2, ElementOfSeq
      <4> QED
        BY <3>1, <4>1
    <3>2. /\ page.records \in Seq(Record)
          /\ Len(page.records) = IF after.at + 1 <= last THEN last - (after.at + 1) + 1 ELSE 0
          /\ \A k \in 1 .. last - (after.at + 1) + 1 : page.records[k] = found[(after.at + 1) + k - 1]
      BY <2>1, <3>1, <3>3, SubSeqProperties
    <3>4. \A k \in 1 .. last - after.at :
            k \in 1 .. last - (after.at + 1) + 1 /\ (after.at + 1) + k - 1 = after.at + k
      BY <2>5, <1>1
    <3>5. Len(page.records) = last - after.at
      BY <3>2, <2>5, <1>1
    <3> HIDE DEF page
    <3> QED
      BY <3>2, <3>4, <3>5
  <2>7. Range(page.records) = {found[k] : k \in after.at + 1 .. last}
    <3>1. Range(page.records) = {page.records[k] : k \in 1 .. last - after.at}
      BY <2>6, LenProperties DEF Range
    <3>2. \A k \in 1 .. last - after.at : after.at + k \in after.at + 1 .. last
      BY <1>1, <2>5
    <3>3. \A k \in after.at + 1 .. last : k - after.at \in 1 .. last - after.at
                                          /\ after.at + (k - after.at) = k
      BY <1>1, <2>5
    <3> QED
      BY <3>1, <3>2, <3>3, <2>6
  <2> DEFINE new == Advanced(page, after)
  <2>8. page.next \in Cursor
    <3>1. /\ Len(found) > after.at + PageLimit => after.at + PageLimit \in Position
          /\ disk.lines \in Position
      BY <1>1, <2>5 DEF Position
    <3>2. \A at \in Position : [at |-> at, of |-> id] \in Cursor
      BY <2>2 DEF Cursor
    <3> QED
      BY <2>1, <3>1, <3>2, NoCursorIs DEF NextCursor, id
  <2>9. page \in Page
    <3>1. page.available \in BOOLEAN
      BY <2>1
    <3>2. page.more \in BOOLEAN
      <4> DEFINE more == Len(found) > last
      <4>1. page.more = more
        BY <2>1
      <4>2. more \in BOOLEAN
        OBVIOUS
      <4> HIDE DEF more, page
      <4> QED
        BY <4>1, <4>2
    <3> HIDE DEF page
    <3> QED
      BY <2>1, <2>2, <2>6, <2>8, <3>1, <3>2 DEF Page
  <2>10. \/ /\ new = after /\ page.records = <<>>
         \/ /\ new.of = id /\ new \in Cursor /\ after.at <= new.at
            /\ new.at <= last /\ new.at <= disk.lines
    <3>1. CASE Len(found) > after.at + PageLimit
      <4>1. page.next = [at |-> after.at + PageLimit, of |-> id]
        BY <3>1, <2>1 DEF NextCursor, id
      <4>2. page.next # NoCursor
        BY <4>1, <2>2 DEF NoCursor
      <4>3. new = page.next
        BY <4>2 DEF Advanced
      <4> QED
        BY <3>1, <4>1, <4>3, <2>5, <2>8, <1>1, <1>2
    <3>2. CASE Len(found) <= after.at + PageLimit /\ disk.tail # "none"
      <4>1. page.next = [at |-> disk.lines, of |-> id]
        BY <3>2, <2>1, <2>5, <1>1 DEF NextCursor, id
      <4>2. page.next # NoCursor
        BY <4>1, <2>2 DEF NoCursor
      <4>3. new = page.next
        BY <4>2 DEF Advanced
      <4> QED
        BY <3>2, <4>1, <4>3, <2>4, <2>5, <2>8, <1>1, <1>2
    <3>3. CASE Len(found) <= after.at + PageLimit /\ disk.tail = "none"
      <4>1. page.next = NoCursor /\ last = disk.lines
        BY <3>3, <2>1, <2>5, <1>1, <1>2 DEF NextCursor
      <4>2. CASE page.records = <<>>
        BY <4>1, <4>2 DEF Advanced
      <4>3. CASE page.records # <<>>
        <5>1. last - after.at \in Nat /\ last - after.at # 0
          BY <4>3, <2>5, <2>6, <1>1, EmptySeq
        <5>2. Last(page.records) = found[last]
          <6>1. last - after.at \in 1 .. last - after.at /\ after.at + (last - after.at) = last
            BY <5>1, <2>5, <1>1
          <6> QED
            BY <6>1, <2>6 DEF Last
        <5>3. Last(page.records).at = last - 1
          BY <5>1, <5>2, <2>5, <1>1, <1>2
        <5>4. new = [at |-> last - 1, of |-> id]
          BY <4>1, <4>3, <5>3, <2>1 DEF Advanced
        <5>5. last - 1 \in Nat /\ last - 1 >= after.at /\ last - 1 \in Position
          BY <5>1, <2>5, <1>1 DEF Position
        <5> QED
          BY <5>4, <5>5, <4>1, <2>2, <1>1 DEF Cursor
      <4> QED
        BY <4>2, <4>3
    <3> QED
      BY <3>1, <3>2, <3>3, <2>5, <1>1
  <2> HIDE DEF new
  <2>11. \A r \in Range(page.records) : r.of = id
    BY <2>5, <2>7, <1>1, <1>2
  <2>12. ASSUME new.of = id, new \in Cursor, after.at <= new.at, new.at <= last, new.at <= disk.lines
         PROVE  /\ \A r \in Range(page.records) : r.at < new.at => r.is = "OK"
                /\ \A k \in Position : after.at <= k /\ k < new.at =>
                     \E r \in Range(page.records) : r.at = k
    <3>1. new.at \in Nat
      BY <2>12, <1>1 DEF Cursor, Position
    <3>2. \A k \in after.at + 1 .. last :
            k \in 1 .. Len(found) /\ (k - 1 < new.at => k <= disk.lines)
      BY <3>1, <2>12, <2>5, <1>1
    <3>3. \A k \in Position : after.at <= k /\ k < new.at =>
            k + 1 \in after.at + 1 .. last /\ k + 1 \in 1 .. Len(found) /\ (k + 1) - 1 = k
      BY <3>1, <2>12, <2>5, <1>1 DEF Position
    <3> QED
      BY <3>2, <3>3, <2>7, <1>2
  <2>13. CASE new = after /\ page.records = <<>>
    BY <2>13, <2>9, <2>11, <2>1, <1>1, EmptySeq DEF Follows, new, Range
  <2>14. CASE /\ new.of = id /\ new \in Cursor /\ after.at <= new.at
              /\ new.at <= last /\ new.at <= disk.lines
    <3>1. Follows(page, after)
      BY <2>14, <2>12, <2>11, <2>3, <2>2, <2>1, <1>1 DEF Follows, new
    <3> QED
      BY <3>1, <2>14, <2>9, <2>2, <1>1 DEF Reached, new
  <2> QED
    BY <2>10, <2>13, <2>14
<1> QED
  BY <1>3, <1>4

-----------------------------------------------------------------------------
(* The world grows, and what was promised in it stays true.                *)

Worlds ==
  [disk: Disk, opened: 0 .. MaxGeneration, stores: [Generation -> SUBSET Record], term: Nat]

LEMMA WorldIs ==
  ASSUME DiskOK, OwnedOK, StoredOK
  PROVE  /\ World \in Worlds
         /\ World.disk = disk /\ World.opened = Len(generations)
         /\ World.stores = evidence /\ World.term = term
<1>1. Len(generations) \in 0 .. MaxGeneration
  BY LenProperties, IngestionAssumption DEF StoredOK
<1>2. term \in Nat
  BY IngestionAssumption DEF OwnedOK
<1> QED
  BY <1>1, <1>2 DEF World, Worlds, DiskOK, StoredOK

LEMMA NextWorldIs ==
  ASSUME DiskOK', OwnedOK', StoredOK'
  PROVE  /\ World' \in Worlds
         /\ World'.disk = disk' /\ World'.opened = Len(generations')
         /\ World'.stores = evidence' /\ World'.term = term'
<1>1. Len(generations') \in 0 .. MaxGeneration
  BY LenProperties, IngestionAssumption DEF StoredOK
<1>2. term' \in Nat
  BY IngestionAssumption DEF OwnedOK
<1> QED
  BY <1>1, <1>2 DEF World, Worlds, DiskOK, StoredOK

LEMMA CoveredStays ==
  ASSUME NEW w \in Worlds, NEW v \in Worlds, Later(w, v),
         NEW g \in 0 .. MaxGeneration, NEW cursor, CoveredIn(w.stores, g, cursor)
  PROVE  CoveredIn(v.stores, g, cursor)
<1>1. CASE g = NoGeneration
  BY <1>1 DEF CoveredIn
<1>2. CASE g # NoGeneration
  <2>1. g \in Generation
    BY <1>2, IngestionAssumption DEF Generation
  <2>2. \A r \in w.stores[g] : \E s \in v.stores[g] : s.at = r.at /\ s.of = r.of
    BY <2>1 DEF Later
  <2>3. Covered(w.stores[g], cursor)
    BY <1>2 DEF CoveredIn
  <2>4. Covered(v.stores[g], cursor)
    BY <2>2, <2>3 DEF Covered
  <2> QED
    BY <1>2, <2>4 DEF CoveredIn
<1> QED
  BY <1>1, <1>2

LEMMA ReachedStays ==
  ASSUME NEW w \in Worlds, NEW v \in Worlds, Later(w, v),
         NEW cursor \in Cursor, Reached(cursor, w.disk)
  PROVE  Reached(cursor, v.disk)
<1>1. /\ cursor.at \in Nat /\ cursor.of.file \in Nat
      /\ w.disk.log \in Nat /\ w.disk.lines \in Nat /\ v.disk.log \in Nat /\ v.disk.lines \in Nat
  BY ObservedAssumption DEF Cursor, Identity, Position, Worlds, Disk
<1> QED
  BY <1>1 DEF Reached, Later

LEMMA TaskStays ==
  ASSUME NEW w \in Worlds, NEW v \in Worlds, Later(w, v), NEW t \in Task, GoodTask(t, w)
  PROVE  GoodTask(t, v)
<1>1. /\ t.gen \in 0 .. MaxGeneration /\ t.gen \in Nat /\ t.term \in Nat /\ t.cursor \in Cursor
      /\ w.opened \in Nat /\ v.opened \in Nat /\ w.term \in Nat /\ v.term \in Nat
  BY IngestionAssumption DEF Task, Worlds
<1>2. t.gen <= v.opened /\ t.term <= v.term
  BY <1>1 DEF GoodTask, Later
<1>3. Reached(t.cursor, v.disk)
  BY <1>1, ReachedStays DEF GoodTask
<1>4. t.at = "polling" => CoveredIn(v.stores, t.gen, t.cursor)
  BY <1>1, CoveredStays DEF GoodTask
<1> QED
  BY <1>2, <1>3, <1>4 DEF GoodTask

LEMMA JobStays ==
  ASSUME NEW w \in Worlds, NEW v \in Worlds, Later(w, v), NEW job \in Job, GoodJob(job, w)
  PROVE  GoodJob(job, v)
<1>1. /\ job.gen \in 0 .. MaxGeneration /\ job.gen \in Nat /\ job.term \in Nat
      /\ w.opened \in Nat /\ v.opened \in Nat /\ w.term \in Nat /\ v.term \in Nat
  BY IngestionAssumption DEF Job, Worlds
<1>2. job.gen <= v.opened /\ job.term <= v.term
  BY <1>1 DEF GoodJob, Later
<1>3. job.does = "page" => CoveredIn(v.stores, job.gen, job.cursor)
  BY <1>1, CoveredStays DEF GoodJob
<1>4. job.does = "page" => Reached(Advanced(job.page, job.cursor), v.disk)
  BY ReachedStays DEF GoodJob, Follows
<1> QED
  BY <1>2, <1>3, <1>4 DEF GoodJob

\* The world as it is.
LEMMA SameWorld ==
  ASSUME DiskOK, OwnedOK, StoredOK, World' = World
  PROVE  Later(World, World')
BY WorldIs, ObservedAssumption, IngestionAssumption DEF Later, Worlds, Disk, Position

LEMMA Kept ==
  /\ DiskOK /\ UNCHANGED observed => DiskOK'
  /\ OwnedOK /\ UNCHANGED owned => OwnedOK'
  /\ StoredOK /\ UNCHANGED stored => StoredOK'
  /\ Counted /\ UNCHANGED <<failures, overruns>> => Counted'
  /\ UNCHANGED <<observed, term, stored>> => World' = World
BY DEF DiskOK, OwnedOK, StoredOK, Counted, World, observed, owned, stored, ShownIsStored

\* One process moves, in a world that has grown.
LEMMA OneMoves ==
  ASSUME IngestInv, DiskOK', OwnedOK', StoredOK', Counted', Later(World, World'),
         Reached(checkpoint'.cursor, disk'),
         NEW p \in Dashboard, NEW t \in Task, NEW queue \in Seq(Job),
         task' = [task EXCEPT ![p] = t], jobs' = [jobs EXCEPT ![p] = queue],
         Fits(t, queue), GoodTask(t, World'), \A job \in Range(queue) : GoodJob(job, World')
  PROVE  IngestInv'
<1>1. World \in Worlds /\ World' \in Worlds
  BY WorldIs, NextWorldIs DEF IngestInv
<1>2. task' \in [Dashboard -> Task] /\ jobs' \in [Dashboard -> Seq(Job)]
  BY DEF IngestInv
<1>3. ASSUME NEW q \in Dashboard PROVE Process(q)'
  <2>1. CASE q = p
    BY <2>1 DEF IngestInv, Process
  <2>2. CASE q # p
    <3>1. /\ task'[q] = task[q] /\ jobs'[q] = jobs[q]
          /\ task[q] \in Task /\ jobs[q] \in Seq(Job) /\ Process(q)
      BY <2>2 DEF IngestInv
    <3>2. GoodTask(task[q], World')
      BY <1>1, <3>1, TaskStays DEF Process
    <3>3. \A job \in Range(jobs[q]) : GoodJob(job, World')
      BY <1>1, <3>1, JobStays, RangeOfSeq DEF Process
    <3> QED
      BY <3>1, <3>2, <3>3 DEF Process
  <2> QED
    BY <2>1, <2>2
<1> QED
  BY <1>2, <1>3 DEF IngestInv

\* None does.
LEMMA NoneMoves ==
  ASSUME IngestInv, DiskOK', OwnedOK', StoredOK', Counted', Later(World, World'),
         Reached(checkpoint'.cursor, disk'), UNCHANGED <<task, jobs>>
  PROVE  IngestInv'
<1>1. World \in Worlds /\ World' \in Worlds
  BY WorldIs, NextWorldIs DEF IngestInv
<1>2. ASSUME NEW q \in Dashboard PROVE Process(q)'
  <2>1. /\ task[q] \in Task /\ jobs[q] \in Seq(Job) /\ Process(q)
    BY DEF IngestInv
  <2>2. GoodTask(task[q], World')
    BY <1>1, <2>1, TaskStays DEF Process
  <2>3. \A job \in Range(jobs[q]) : GoodJob(job, World')
    BY <1>1, <2>1, JobStays, RangeOfSeq DEF Process
  <2> QED
    BY <2>1, <2>2, <2>3 DEF Process
<1> QED
  BY <1>2 DEF IngestInv

-----------------------------------------------------------------------------
(* A task and its queue.                                                   *)

LEMMA QueueIs ==
  ASSUME NEW queue \in Seq(Job)
  PROVE  /\ Len(queue) \in Nat /\ DOMAIN queue = 1 .. Len(queue)
         /\ \A k \in 1 .. Len(queue) : queue[k] \in Job /\ queue[k] \in Range(queue)
         /\ \A job \in Range(queue) : job \in Job /\ \E k \in 1 .. Len(queue) : queue[k] = job
         /\ queue = <<>> <=> Len(queue) = 0
<1>1. Len(queue) \in Nat /\ DOMAIN queue = 1 .. Len(queue)
  BY LenProperties
<1>2. \A k \in 1 .. Len(queue) : queue[k] \in Job
  BY ElementOfSeq
<1>3. queue = <<>> <=> Len(queue) = 0
  BY EmptySeq
<1> QED
  BY <1>1, <1>2, <1>3 DEF Range

\* The task has the worker do a job, and waits for it.
LEMMA FitsSubmit ==
  ASSUME NEW t, NEW queue \in Seq(Job), Fits(t, queue), t.at \notin Waiting,
         NEW job \in Job, job.awaited, NEW u, u.at = Waits(job)
  PROVE  /\ Append(queue, job) \in Seq(Job)
         /\ Fits(u, Append(queue, job))
         /\ Range(Append(queue, job)) = Range(queue) \cup {job}
<1> DEFINE new == Append(queue, job)
           n == Len(queue)
<1>1. /\ new \in Seq(Job) /\ Len(new) = n + 1 /\ n \in Nat
      /\ \A k \in 1 .. n : new[k] = queue[k]
      /\ new[n + 1] = job
  BY AppendProperties, LenProperties
<1>2. \A k \in 1 .. n : ~queue[k].awaited
  BY <1>1 DEF Fits, Waits, Waiting
<1>3. Waits(job) \in Waiting
  BY DEF Waits, Waiting
<1>4. DOMAIN queue = 1 .. n /\ DOMAIN new = 1 .. n + 1
  BY <1>1, LenProperties
<1> HIDE DEF new, n
<1>5. \A k \in 1 .. n + 1 : k \in 1 .. n \/ k = n + 1
  BY <1>1
<1>6. Range(new) = Range(queue) \cup {job}
  <2>1. n + 1 \in 1 .. n + 1 /\ \A k \in 1 .. n : k \in 1 .. n + 1
    BY <1>1
  <2> QED
    BY <1>1, <1>4, <1>5, <2>1 DEF Range
<1>7. Fits(u, new)
  <2>1. u.at # "polling"
    BY <1>3 DEF Waiting
  <2> QED
    BY <1>1, <1>2, <1>3, <1>5, <2>1 DEF Fits
<1> QED
  BY <1>1, <1>6, <1>7 DEF new

\* The task goes on without.
LEMMA FitsMove ==
  ASSUME NEW t, NEW queue \in Seq(Job), Fits(t, queue), t.at \notin Waiting,
         NEW u, u.at \notin Waiting, u.at = "polling" => u.left > 0
  PROVE  Fits(u, queue)
BY DEF Fits, Waits, Waiting

LEMMA FitsAbandoned ==
  ASSUME NEW queue \in Seq(Job)
  PROVE  /\ Abandoned(queue) \in Seq(Job) /\ Fits(NoTask, Abandoned(queue))
         /\ \A job \in Range(Abandoned(queue)) :
              ~job.awaited /\ \E old \in Range(queue) : job = [old EXCEPT !.awaited = FALSE]
<1> DEFINE n == Len(queue)
           left(k) == [queue[k] EXCEPT !.awaited = FALSE]
<1>1. n \in Nat /\ DOMAIN queue = 1 .. n /\ \A k \in 1 .. n : queue[k] \in Job /\ queue[k] \in Range(queue)
  BY QueueIs
<1>2. Abandoned(queue) = [k \in 1 .. n |-> left(k)]
  BY <1>1 DEF Abandoned
<1>3. \A k \in 1 .. n : left(k) \in Job /\ ~left(k).awaited
  BY <1>1 DEF Job
<1>4. Abandoned(queue) \in Seq(Job) /\ Len(Abandoned(queue)) = n
  <2> HIDE DEF left, n
  <2> QED
    BY <1>1, <1>2, <1>3, IsASeq
<1>5. \A k \in 1 .. n : Abandoned(queue)[k] = left(k)
  <2> HIDE DEF left
  <2> QED
    BY <1>2
<1>6. Fits(NoTask, Abandoned(queue))
  <2> HIDE DEF left
  <2> QED
    BY <1>3, <1>4, <1>5 DEF Fits, NoTask, Waiting
<1>7. \A job \in Range(Abandoned(queue)) : \E k \in 1 .. n : job = left(k)
  <2> HIDE DEF left, n
  <2> QED
    BY <1>2 DEF Range
<1> QED
  BY <1>1, <1>3, <1>4, <1>6, <1>7

\* The worker is through with a job: one that is awaited was its last.
LEMMA FitsDone ==
  ASSUME NEW t, NEW queue \in Seq(Job), Fits(t, queue), queue # <<>>
  PROVE  /\ Head(queue) \in Range(queue) /\ Head(queue) \in Job
         /\ Tail(queue) \in Seq(Job) /\ Range(Tail(queue)) \subseteq Range(queue)
         /\ ~Head(queue).awaited => Fits(t, Tail(queue))
         /\ Head(queue).awaited =>
              /\ t.at = Waits(Head(queue)) /\ Len(queue) = 1
              /\ Tail(queue) = <<>>
<1> DEFINE n == Len(queue)
           rest == Tail(queue)
<1>1. /\ Head(queue) = queue[1] /\ rest \in Seq(Job) /\ Len(rest) = n - 1
      /\ \A k \in 1 .. n - 1 : rest[k] = queue[k + 1]
      /\ n \in Nat /\ n > 0 /\ DOMAIN queue = 1 .. n /\ DOMAIN rest = 1 .. n - 1
  <2>1. /\ Head(queue) = queue[1] /\ rest \in Seq(Job) /\ Len(rest) = n - 1
        /\ \A k \in 1 .. Len(rest) : rest[k] = queue[k + 1]
    BY HeadTailProperties
  <2>2. n \in Nat /\ n # 0 /\ DOMAIN queue = 1 .. n
    BY QueueIs
  <2>3. DOMAIN rest = 1 .. Len(rest)
    BY <2>1, LenProperties
  <2> QED
    BY <2>1, <2>2, <2>3
<1>2. 1 \in 1 .. n /\ \A k \in 1 .. n - 1 : k + 1 \in 1 .. n
  BY <1>1
<1>3. Head(queue) \in Range(queue) /\ Head(queue) \in Job
  BY <1>1, <1>2, QueueIs
<1> HIDE DEF n, rest
<1>4. Range(rest) \subseteq Range(queue)
  BY <1>1, <1>2 DEF Range
<1>5. ASSUME ~Head(queue).awaited PROVE Fits(t, rest)
  <2>1. \A k \in 1 .. n - 1 : rest[k].awaited => k = n - 1 /\ t.at = Waits(rest[k])
    BY <1>1, <1>2 DEF Fits, n
  <2>2. t.at \in Waiting => n - 1 > 0 /\ rest[n - 1].awaited
    <3> SUFFICES ASSUME t.at \in Waiting PROVE n - 1 > 0 /\ rest[n - 1].awaited
      OBVIOUS
    <3>1. queue[n].awaited /\ n # 1
      BY <1>1, <1>5 DEF Fits, n
    <3>2. n - 1 \in 1 .. n - 1 /\ (n - 1) + 1 = n
      BY <1>1, <3>1
    <3> QED
      BY <1>1, <3>1, <3>2
  <2> QED
    BY <2>1, <2>2, <1>1 DEF Fits
<1>6. ASSUME Head(queue).awaited
      PROVE  t.at = Waits(Head(queue)) /\ n = 1 /\ rest = <<>>
  <2>1. n = 1 /\ t.at = Waits(Head(queue))
    BY <1>1, <1>2, <1>6 DEF Fits, n
  <2> QED
    BY <2>1, <1>1, QueueIs
<1> QED
  BY <1>1, <1>3, <1>4, <1>5, <1>6 DEF n, rest

LEMMA FitsEmpty ==
  ASSUME NEW t, t.at \notin Waiting, t.at = "polling" => t.left > 0
  PROVE  <<>> \in Seq(Job) /\ Fits(t, <<>>) /\ Range(<<>>) = {}
BY EmptySeq DEF Fits, Range

-----------------------------------------------------------------------------
(* The invariant holds at first, and steps that touch no record keep it.   *)

LEMMA NoTaskIs ==
  /\ NoTask \in Task /\ NoTask.at = "none" /\ NoTask.gen = 0 /\ NoTask.cursor = NoCursor
  /\ NoTask.term = 0 /\ NoTask.left = 0
BY NoCursorIs, IngestionAssumption DEF NoTask, Task, Outcome

LEMMA IngestInit == Init => IngestInv
<1> SUFFICES ASSUME Init PROVE IngestInv
  OBVIOUS
<1>1. DiskOK /\ disk.log = 0 /\ disk.lines = 0
  BY ObservedAssumption DEF Init, DiskInit, DiskOK, Disk, Position, Ending
<1>2. OwnedOK /\ Counted /\ term = 0
  BY IngestionAssumption DEF Init, OwnedOK, Counted
<1>3. generations = <<>> /\ Len(generations) = 0 /\ generations \in Seq(Identity)
  BY EmptySeq DEF Init
<1>4. /\ checkpoint = [gen |-> 0, cursor |-> NoCursor, halted |-> FALSE]
      /\ status = [gen |-> 0, is |-> "NONE"]
  BY DEF Init, NoCheckpoint, NoStatus
<1>5. StoredOK
  BY <1>3, <1>4, NoCursorIs, IngestionAssumption DEF Init, StoredOK, ShownIsStored, CoveredIn
<1>6. Reached(NoCursor, disk)
  BY <1>1, NoCursorIs DEF Reached
<1>7. GoodTask(NoTask, World)
  BY <1>1, <1>2, <1>3, <1>5, <1>6, NoTaskIs, WorldIs DEF GoodTask
<1>8. <<>> \in Seq(Job) /\ Fits(NoTask, <<>>) /\ Range(<<>>) = {}
  BY FitsEmpty, NoTaskIs DEF Waiting
<1>9. /\ task \in [Dashboard -> Task] /\ jobs \in [Dashboard -> Seq(Job)]
      /\ \A p \in Dashboard : task[p] = NoTask /\ jobs[p] = <<>>
  BY <1>8, NoTaskIs DEF Init
<1> QED
  BY <1>1, <1>2, <1>4, <1>5, <1>6, <1>7, <1>8, <1>9 DEF IngestInv, Process

\* A step that changes neither the log nor the database.
LEMMA Plainly ==
  ASSUME IngestInv, UNCHANGED <<observed, term, stored>>, OwnedOK', Counted',
         NEW p \in Dashboard, NEW t \in Task, NEW queue \in Seq(Job),
         task' = [task EXCEPT ![p] = t], jobs' = [jobs EXCEPT ![p] = queue],
         Fits(t, queue), GoodTask(t, World), \A job \in Range(queue) : GoodJob(job, World)
  PROVE  IngestInv'
<1>1. /\ DiskOK' /\ StoredOK' /\ World' = World
      /\ Reached(checkpoint'.cursor, disk')
  BY Kept DEF IngestInv, stored, observed
<1>2. Later(World, World')
  BY <1>1, SameWorld DEF IngestInv
<1> QED
  BY <1>1, <1>2, OneMoves

\* One that gives the worker nothing.
LEMMA TaskMoves ==
  ASSUME IngestInv, UNCHANGED <<observed, term, stored, jobs>>, OwnedOK', Counted',
         NEW p \in Dashboard, NEW t \in Task, task' = [task EXCEPT ![p] = t],
         Fits(t, jobs[p]), GoodTask(t, World)
  PROVE  IngestInv'
<1>1. /\ jobs[p] \in Seq(Job) /\ jobs' = [jobs EXCEPT ![p] = jobs[p]]
      /\ \A job \in Range(jobs[p]) : GoodJob(job, World)
  BY DEF IngestInv, Process
<1> QED
  BY <1>1, Plainly

\* A task that is at no page needs nothing of the world.
LEMMA Idle ==
  ASSUME IngestInv, NEW t, t.cursor = NoCursor, t.at # "polling",
         t.gen <= Len(generations), t.term <= term
  PROVE  GoodTask(t, World)
<1>1. disk.log \in Nat /\ disk.lines \in Nat
  BY ObservedAssumption DEF IngestInv, DiskOK, Disk, Position
<1>2. Reached(NoCursor, disk)
  BY <1>1, NoCursorIs DEF Reached
<1> QED
  BY <1>2, WorldIs DEF GoodTask, IngestInv

\* The numbers an idle task has.
LEMMA Counts ==
  ASSUME IngestInv
  PROVE  /\ term \in Nat /\ Len(generations) \in Nat
         /\ Len(generations) \in 0 .. MaxGeneration
         /\ checkpoint.gen \in 0 .. MaxGeneration /\ checkpoint.gen <= Len(generations)
         /\ checkpoint.gen \in Nat /\ checkpoint.cursor \in Cursor
         /\ MaxPages \in Nat /\ MaxPages > 0
         /\ \A p \in Dashboard :
              /\ task[p] \in Task /\ task[p].term \in Nat /\ task[p].term <= term
              /\ task[p].left \in 0 .. MaxPages
              /\ jobs[p] \in Seq(Job) /\ Fits(task[p], jobs[p])
<1>1. Len(generations) \in Nat /\ Len(generations) <= MaxGeneration
  BY LenProperties DEF IngestInv, StoredOK
<1>2. checkpoint.gen \in 0 .. Len(generations) /\ checkpoint.cursor \in Cursor
  BY DEF IngestInv, StoredOK
<1>3. term \in Nat /\ World.term = term
  BY IngestionAssumption, WorldIs DEF IngestInv, OwnedOK
<1>4. ASSUME NEW p \in Dashboard
      PROVE  /\ task[p] \in Task /\ task[p].term \in Nat /\ task[p].term <= term
             /\ task[p].left \in 0 .. MaxPages
             /\ jobs[p] \in Seq(Job) /\ Fits(task[p], jobs[p])
  <2>1. Process(p) /\ task[p] \in Task /\ jobs[p] \in Seq(Job)
    BY DEF IngestInv
  <2> QED
    BY <2>1, <1>3 DEF Process, GoodTask, Task
<1> QED
  BY <1>1, <1>2, <1>3, <1>4, IngestionAssumption

LEMMA DiskSteps ==
  ASSUME IngestInv, DiskNext, UNCHANGED <<owned, stored, task, jobs, failures, overruns>>
  PROVE  IngestInv'
<1>1. /\ disk.log \in Nat /\ disk.lines \in Nat /\ disk.log <= MaxLog /\ disk.lines <= MaxLines
      /\ disk \in Disk /\ MaxLog \in Nat /\ MaxLines \in Nat /\ MaxLosses \in Nat
      /\ Tails \subseteq {"torn", "oversized"}
  BY ObservedAssumption DEF IngestInv, DiskOK, Disk, Position
<1>2. /\ DiskOK'
      /\ \/ disk.log < disk'.log
         \/ disk.log = disk'.log /\ disk.lines <= disk'.lines
  <2>1. CASE LineWritten
    <3>1. /\ disk' = [disk EXCEPT !.lines = disk.lines + 1, !.tail = "none"]
          /\ disk.lines + 1 \in Position /\ losses' = losses /\ disk.log # 0
      BY <2>1, <1>1 DEF LineWritten, Position
    <3>2. /\ disk' \in Disk /\ disk'.log = disk.log /\ disk'.lines = disk.lines + 1
          /\ disk'.tail = "none"
      BY <3>1, <1>1 DEF Disk, Ending
    <3> QED
      BY <3>1, <3>2, <1>1 DEF IngestInv, DiskOK
  <2>2. CASE LineBegun
    BY <2>2, <1>1 DEF LineBegun, IngestInv, DiskOK, Disk, Position, Ending
  <2>3. CASE TailRepaired
    BY <2>3, <1>1 DEF TailRepaired, IngestInv, DiskOK, Disk, Position, Ending
  <2>4. CASE LogReplaced
    BY <2>4, <1>1 DEF LogReplaced, IngestInv, DiskOK, Disk, Position, Ending
  <2>5. CASE LogLost
    <3>1. disk' = [disk EXCEPT !.there = FALSE] /\ losses' \in 0 .. MaxLosses
      BY <2>5, <1>1 DEF LogLost, IngestInv, DiskOK
    <3>2. /\ disk' \in Disk /\ disk'.log = disk.log /\ disk'.lines = disk.lines
          /\ disk'.tail = disk.tail /\ disk'.there = FALSE
      BY <3>1, <1>1 DEF Disk
    <3> QED
      BY <3>1, <3>2, <1>1 DEF IngestInv, DiskOK
  <2>6. CASE LogFound
    <3>1. disk' = [disk EXCEPT !.there = TRUE] /\ losses' = losses /\ disk.log # 0
      BY <2>6, <1>1 DEF LogFound, IngestInv, DiskOK
    <3>2. /\ disk' \in Disk /\ disk'.log = disk.log /\ disk'.lines = disk.lines
          /\ disk'.tail = disk.tail /\ disk'.there = TRUE
      BY <3>1, <1>1 DEF Disk
    <3> QED
      BY <3>1, <3>2, <1>1 DEF IngestInv, DiskOK
  <2> QED
    BY <2>1, <2>2, <2>3, <2>4, <2>5, <2>6 DEF DiskNext
<1>3. OwnedOK' /\ StoredOK' /\ Counted' /\ UNCHANGED checkpoint
  BY Kept DEF IngestInv, stored
<1>4. /\ World \in Worlds /\ World' \in Worlds
      /\ World.disk = disk /\ World'.disk = disk'
      /\ World'.opened = World.opened /\ World'.stores = World.stores /\ World'.term = World.term
  BY <1>2, <1>3, WorldIs, NextWorldIs DEF IngestInv, owned, stored
<1>5. Later(World, World')
  BY <1>2, <1>4, IngestionAssumption DEF Later, Worlds
<1>6. Reached(checkpoint'.cursor, disk')
  <2>1. checkpoint.cursor \in Cursor /\ Reached(checkpoint.cursor, World.disk)
    BY <1>4 DEF IngestInv, StoredOK
  <2> QED
    BY <2>1, <1>3, <1>4, <1>5, ReachedStays
<1> QED
  BY <1>2, <1>3, <1>5, <1>6, NoneMoves

LEMMA LeaseSteps ==
  ASSUME IngestInv, NEW p \in Dashboard,
         LeaseExpires \/ Heartbeat(p) \/ StandDown(p) \/ Stop(p)
  PROVE  IngestInv'
<1>1. OwnedOK /\ Counted /\ term \in Nat
  BY Counts DEF IngestInv
<1>2. CASE LeaseExpires
  <2>1. OwnedOK' /\ Counted' /\ DiskOK' /\ StoredOK' /\ World' = World
        /\ Reached(checkpoint'.cursor, disk') /\ UNCHANGED <<task, jobs>>
    BY <1>1, <1>2, Kept DEF LeaseExpires, OwnedOK, Counted, IngestInv, stored, observed
  <2>2. Later(World, World')
    BY <2>1, SameWorld DEF IngestInv
  <2> QED
    BY <2>1, <2>2, NoneMoves
<1>3. CASE Heartbeat(p)
  <2>1. /\ OwnedOK' /\ term' \in Nat /\ term <= term'
    BY <1>1, <1>3, IngestionAssumption DEF Heartbeat, OwnedOK
  <2>2. Counted' /\ DiskOK' /\ StoredOK' /\ Reached(checkpoint'.cursor, disk')
        /\ UNCHANGED <<observed, stored, jobs>>
    BY <1>1, <1>3, Kept DEF Heartbeat, Counted, IngestInv, stored, observed
  <2>3. /\ World \in Worlds /\ World' \in Worlds
        /\ World'.disk = World.disk /\ World'.opened = World.opened
        /\ World'.stores = World.stores /\ World.term = term /\ World'.term = term'
    BY <2>1, <2>2, WorldIs, NextWorldIs DEF IngestInv, observed, stored
  <2>4. Later(World, World')
    BY <2>1, <2>3, ObservedAssumption, IngestionAssumption DEF Later, Worlds, Disk, Position
  <2>5. CASE task[p].at = "none"
    <3> DEFINE t == [task[p] EXCEPT !.at = "sleeping"]
    <3>1. task[p] \in Task /\ jobs[p] \in Seq(Job) /\ Fits(task[p], jobs[p])
          /\ Process(p)
      BY Counts DEF IngestInv
    <3>2. t \in Task /\ t.at = "sleeping" /\ t.gen = task[p].gen /\ t.term = task[p].term
          /\ t.cursor = task[p].cursor
      BY <3>1 DEF Task
    <3>3. task' = [task EXCEPT ![p] = t] /\ jobs' = [jobs EXCEPT ![p] = jobs[p]]
      BY <1>3, <2>5, <2>2 DEF Heartbeat, IngestInv
    <3>4. Fits(t, jobs[p])
      BY <3>1, <3>2, <2>5, FitsMove DEF Waiting
    <3>5. GoodTask(t, World)
      BY <3>1, <3>2 DEF Process, GoodTask
    <3> HIDE DEF t
    <3>6. GoodTask(t, World')
      BY <3>2, <3>5, <2>3, <2>4, TaskStays
    <3>7. \A job \in Range(jobs[p]) : GoodJob(job, World')
      BY <3>1, <2>3, <2>4, JobStays, RangeOfSeq DEF Process
    <3> QED
      BY <3>1, <3>2, <3>3, <3>4, <3>6, <3>7, <2>1, <2>2, <2>4, OneMoves
  <2>6. CASE task[p].at # "none"
    BY <1>3, <2>6, <2>1, <2>2, <2>4, NoneMoves DEF Heartbeat
  <2> QED
    BY <2>5, <2>6
<1>4. CASE StandDown(p)
  <2>1. jobs[p] \in Seq(Job) /\ Process(p)
    BY Counts DEF IngestInv
  <2>2. /\ Abandoned(jobs[p]) \in Seq(Job) /\ Fits(NoTask, Abandoned(jobs[p]))
        /\ \A job \in Range(Abandoned(jobs[p])) :
             \E old \in Range(jobs[p]) : job = [old EXCEPT !.awaited = FALSE]
    BY <2>1, FitsAbandoned
  <2>3. ASSUME NEW old \in Range(jobs[p]) PROVE GoodJob([old EXCEPT !.awaited = FALSE], World)
    <3>1. old \in Job /\ GoodJob(old, World)
      BY <2>1, RangeOfSeq DEF Process
    <3> QED
      BY <3>1 DEF GoodJob, Job
  <2>4. \A job \in Range(Abandoned(jobs[p])) : GoodJob(job, World)
    BY <2>2, <2>3
  <2>5. NoTask \in Task /\ GoodTask(NoTask, World)
    BY NoTaskIs, Idle, Counts
  <2>6. /\ task' = [task EXCEPT ![p] = NoTask]
        /\ jobs' = [jobs EXCEPT ![p] = Abandoned(jobs[p])]
        /\ UNCHANGED <<observed, term, stored>>
    BY <1>4 DEF StandDown
  <2>7. OwnedOK' /\ Counted'
    BY <1>1, <1>4 DEF StandDown, OwnedOK, Counted
  <2> QED
    BY <2>2, <2>4, <2>5, <2>6, <2>7, Plainly
<1>5. CASE Stop(p)
  <2>1. NoTask \in Task /\ GoodTask(NoTask, World)
    BY NoTaskIs, Idle, Counts
  <2>2. <<>> \in Seq(Job) /\ Fits(NoTask, <<>>) /\ Range(<<>>) = {}
    BY NoTaskIs, FitsEmpty DEF Waiting
  <2>3. /\ task' = [task EXCEPT ![p] = NoTask] /\ jobs' = [jobs EXCEPT ![p] = <<>>]
        /\ UNCHANGED <<observed, term, stored>>
    BY <1>5 DEF Stop
  <2>4. OwnedOK' /\ Counted'
    BY <1>1, <1>5, IngestionAssumption DEF Stop, OwnedOK, Counted
  <2> QED
    BY <2>1, <2>2, <2>3, <2>4, Plainly
<1> QED
  BY <1>2, <1>3, <1>4, <1>5

-----------------------------------------------------------------------------
(* The task's own steps.                                                   *)

\* What a task goes on to.
LEMMA GoingIs ==
  ASSUME IngestInv, NEW p \in Dashboard,
         NEW to \in {"probing", "ticked", "persisting", "rebuilding"}
  PROVE  /\ Going(p, to) \in Task /\ Going(p, to).at = to
         /\ Going(p, to).cursor = NoCursor /\ Going(p, to).gen = 0
         /\ Going(p, to).term = task[p].term /\ Going(p, to).left = 0
         /\ Going(p, to).outcome = "none"
BY Counts, NoTaskIs DEF Going, NoTask, Task, Waiting

\* The ends of a tick.
LEMMA EndingIs ==
  ASSUME IngestInv, NEW p \in Dashboard, NEW outcome \in Outcome,
         Ends(p, outcome)
  PROVE  \E t \in Task : /\ task' = [task EXCEPT ![p] = t]
                         /\ t.at = "ticked" /\ t.cursor = NoCursor /\ t.gen = 0
                         /\ t.term = task[p].term
<1> DEFINE t == [Going(p, "ticked") EXCEPT !.outcome = outcome]
<1>1. /\ t \in Task /\ t.at = "ticked" /\ t.cursor = NoCursor /\ t.gen = 0
      /\ t.term = task[p].term
  BY GoingIs DEF Task
<1>2. task' = [task EXCEPT ![p] = t]
  BY DEF Ends, Goto
<1> HIDE DEF t
<1> QED
  BY <1>1, <1>2

LEMMA SleepingIs ==
  ASSUME NEW p \in Dashboard, Sleep(p)
  PROVE  \E t \in Task : /\ task' = [task EXCEPT ![p] = t]
                         /\ t.at = "sleeping" /\ t.cursor = NoCursor /\ t.gen = 0
                         /\ t.term = 0
<1> DEFINE t == [NoTask EXCEPT !.at = "sleeping"]
<1>1. t \in Task /\ t.at = "sleeping" /\ t.cursor = NoCursor /\ t.gen = 0 /\ t.term = 0
  BY NoTaskIs DEF Task
<1>2. task' = [task EXCEPT ![p] = t]
  BY DEF Sleep, Goto
<1> HIDE DEF t
<1> QED
  BY <1>1, <1>2

\* A task that is waiting for nothing goes on to a state that needs nothing.
LEMMA IdleMove ==
  ASSUME IngestInv, UNCHANGED <<observed, term, stored, jobs>>, OwnedOK', Counted',
         NEW p \in Dashboard, task[p].at \notin Waiting,
         NEW t \in Task, task' = [task EXCEPT ![p] = t],
         t.at \notin Waiting, t.at # "polling", t.cursor = NoCursor,
         t.gen <= Len(generations), t.term <= term
  PROVE  IngestInv'
<1>1. Fits(t, jobs[p])
  BY Counts, FitsMove
<1>2. GoodTask(t, World)
  BY Idle
<1> QED
  BY <1>1, <1>2, TaskMoves

\* A task that is waiting for nothing has the worker do a job.
LEMMA Submits ==
  ASSUME IngestInv, UNCHANGED <<observed, owned, stored, failures, overruns>>,
         NEW p \in Dashboard, task[p].at \notin Waiting,
         NEW job \in Job, Submit(p, job), GoodJob([job EXCEPT !.awaited = TRUE, !.term = task[p].term], World),
         NEW t \in Task, task' = [task EXCEPT ![p] = t],
         t.at = Waits(job), t.cursor = NoCursor, t.gen = 0, t.term = task[p].term
  PROVE  IngestInv'
<1> DEFINE new == [job EXCEPT !.awaited = TRUE, !.term = task[p].term]
           queue == Append(jobs[p], new)
<1>1. new \in Job /\ new.awaited /\ new.does = job.does
  BY Counts DEF Job
<1>2. jobs[p] \in Seq(Job) /\ Fits(task[p], jobs[p]) /\ Process(p)
  BY Counts DEF IngestInv
<1>3. jobs' = [jobs EXCEPT ![p] = queue]
  BY DEF Submit
<1>4. t.at = Waits(new)
  BY <1>1 DEF Waits
<1> HIDE DEF new
<1>5. queue \in Seq(Job) /\ Fits(t, queue) /\ Range(queue) = Range(jobs[p]) \cup {new}
  BY <1>1, <1>2, <1>4, FitsSubmit
<1>6. \A old \in Range(queue) : GoodJob(old, World)
  BY <1>2, <1>5 DEF Process, new
<1>7. GoodTask(t, World)
  BY Idle, Counts DEF Waits
<1>8. OwnedOK' /\ Counted' /\ UNCHANGED <<observed, term, stored>>
  BY Kept DEF IngestInv, owned
<1> HIDE DEF queue
<1> QED
  BY <1>3, <1>5, <1>6, <1>7, <1>8, Plainly

\* A job that the task submits, of a world that has got so far.
LEMMA NoJobIs ==
  /\ NoJob = [does |-> "none", gen |-> 0, cursor |-> NoCursor, page |-> NoPage,
              awaited |-> FALSE, term |-> 0]
  /\ NoPage \in Page
BY NoCursorIs, EmptySeq DEF NoJob, NoPage, Page, Unknown, NoCursor, Cursor

LEMMA RollIs ==
  ASSUME NEW looked \in Page
  PROVE  \A job : job = [NoJob EXCEPT !.does = "roll", !.page = looked] =>
                    job \in Job /\ job.does = "roll" /\ job.gen = 0
<1> DEFINE roll == [does |-> "roll", gen |-> 0, cursor |-> NoCursor, page |-> looked,
                    awaited |-> FALSE, term |-> 0]
<1>1. roll \in Job /\ roll.does = "roll" /\ roll.gen = 0
  BY NoCursorIs, IngestionAssumption DEF Job
<1>2. ASSUME NEW job, job = [NoJob EXCEPT !.does = "roll", !.page = looked]
      PROVE  job = roll
  BY <1>2, NoJobIs
<1> HIDE DEF roll
<1> QED
  BY <1>1, <1>2

LEMMA TickBegins ==
  ASSUME IngestInv, NEW p \in Dashboard, BeginTick(p)
  PROVE  IngestInv'
<1>1. /\ UNCHANGED <<observed, owned, stored, jobs, failures, overruns>>
      /\ task[p].at = "sleeping"
  BY DEF BeginTick
<1>2. OwnedOK' /\ Counted' /\ UNCHANGED <<observed, term, stored, jobs>>
  BY <1>1, Kept DEF IngestInv, owned
<1>3. CASE checkpoint.halted
  <2> DEFINE t == [NoTask EXCEPT !.at = "ticked", !.outcome = "halted", !.term = term]
  <2>1. task' = [task EXCEPT ![p] = t]
    BY <1>3 DEF BeginTick, Goto
  <2>2. t \in Task /\ t.at = "ticked" /\ t.cursor = NoCursor /\ t.gen = 0 /\ t.term = term
    BY Counts, NoTaskIs DEF Task, Outcome
  <2> HIDE DEF t
  <2>3. t.gen <= Len(generations) /\ t.term <= term
    BY <2>2, Counts
  <2> QED
    BY <1>1, <1>2, <2>1, <2>2, <2>3, IdleMove DEF Waiting
<1>4. CASE ~checkpoint.halted
  <2> DEFINE t == [NoTask EXCEPT !.at = "polling", !.gen = checkpoint.gen,
                                 !.cursor = checkpoint.cursor, !.left = MaxPages,
                                 !.term = term]
  <2>1. task' = [task EXCEPT ![p] = t]
    BY <1>4 DEF BeginTick, Goto
  <2>2. /\ t \in Task /\ t.at = "polling" /\ t.cursor = checkpoint.cursor
        /\ t.gen = checkpoint.gen /\ t.term = term /\ t.left = MaxPages
    <3>1. MaxPages \in 0 .. MaxPages
      BY Counts
    <3> QED
      BY <3>1, Counts, NoTaskIs DEF Task, NoTask
  <2> HIDE DEF t
  <2>3. Fits(t, jobs[p])
    BY <1>1, <2>2, Counts, FitsMove DEF Waiting
  <2>4. GoodTask(t, World)
    BY <2>2, Counts, WorldIs DEF GoodTask, IngestInv, StoredOK
  <2> QED
    BY <1>2, <2>1, <2>2, <2>3, <2>4, TaskMoves
<1> QED
  BY <1>3, <1>4

LEMMA PageFetched ==
  ASSUME IngestInv, NEW p \in Dashboard, FetchPage(p)
  PROVE  IngestInv'
<1> DEFINE cursor == task[p].cursor
           page == ReadPage(cursor)
           job == [NoJob EXCEPT !.does = "page", !.gen = task[p].gen,
                                !.cursor = cursor, !.page = page]
           sent == [job EXCEPT !.awaited = TRUE, !.term = task[p].term]
           t == [Going(p, "persisting") EXCEPT !.left = task[p].left - 1]
<1>1. /\ UNCHANGED <<observed, owned, stored, failures, overruns>>
      /\ task[p].at = "polling" /\ ~Rejects(cursor)
      /\ Submit(p, job) /\ task' = [task EXCEPT ![p] = t]
  BY DEF FetchPage, Goto
<1>2. /\ task[p] \in Task /\ cursor \in Cursor /\ task[p].gen \in 0 .. MaxGeneration
      /\ task[p].left \in 0 .. MaxPages /\ task[p].left > 0 /\ MaxPages \in Nat
      /\ task[p].term \in Nat
  BY <1>1, Counts DEF Task, Fits
<1>3. /\ GoodTask(task[p], World) /\ DiskOK
      /\ World.disk = disk /\ World.opened = Len(generations) /\ World.term = term
  BY WorldIs DEF IngestInv, Process
<1>4. /\ page \in Page /\ Follows(page, cursor)
      /\ Reached(Advanced(page, cursor), disk)
  <2> HIDE DEF cursor
  <2>1. Reached(cursor, disk)
    BY <1>3 DEF GoodTask, cursor
  <2> QED
    BY <1>1, <1>2, <1>3, <2>1, PageFollows
<1> HIDE DEF page, cursor
<1>5. job \in Job /\ job.does = "page" /\ job.gen = task[p].gen /\ job.cursor = cursor
      /\ job.page = page
  BY <1>2, <1>4, NoJobIs DEF Job
<1>6. /\ sent.does = "page" /\ sent.gen = task[p].gen /\ sent.cursor = cursor
      /\ sent.page = page /\ sent.term = task[p].term
  BY <1>5 DEF Job
<1> HIDE DEF sent
<1>7. GoodJob(sent, World)
  BY <1>1, <1>3, <1>4, <1>6 DEF GoodJob, GoodTask, cursor
<1>8. /\ t \in Task /\ t.at = "persisting" /\ t.cursor = NoCursor /\ t.gen = 0
      /\ t.term = task[p].term
  <2>1. task[p].left - 1 \in 0 .. MaxPages
    BY <1>2
  <2> QED
    BY <2>1, GoingIs DEF Task
<1> HIDE DEF t, job
<1>9. t.at = Waits(job) /\ task[p].at \notin Waiting
  BY <1>1, <1>5, <1>8 DEF Waits, Waiting
<1> QED
  BY <1>1, <1>5, <1>7, <1>8, <1>9, Submits DEF sent

LEMMA CursorIsRejected ==
  ASSUME IngestInv, NEW p \in Dashboard, CursorRejected(p)
  PROVE  IngestInv'
<1> DEFINE t == [Going(p, "probing") EXCEPT !.gen = checkpoint.gen]
<1>1. /\ UNCHANGED <<observed, owned, stored, jobs, failures, overruns>>
      /\ task[p].at = "polling" /\ task' = [task EXCEPT ![p] = t]
  BY DEF CursorRejected, Goto
<1>2. OwnedOK' /\ Counted' /\ UNCHANGED <<observed, term, stored, jobs>>
  BY <1>1, Kept DEF IngestInv, owned
<1>3. t \in Task /\ t.at = "probing" /\ t.cursor = NoCursor /\ t.gen = checkpoint.gen
      /\ t.term = task[p].term
  BY Counts, GoingIs DEF Task
<1> HIDE DEF t
<1> QED
  BY <1>1, <1>2, <1>3, Counts, IdleMove DEF Waiting

LEMMA ObserverHasFailed ==
  ASSUME IngestInv, NEW p \in Dashboard, ObserverFails(p)
  PROVE  IngestInv'
<1>1. /\ UNCHANGED <<observed, owned, stored, jobs>>
      /\ task[p].at \in {"polling", "probing", "ticked"}
      /\ Counted'
  BY IngestionAssumption DEF ObserverFails, IngestInv, Counted
<1>2. OwnedOK' /\ UNCHANGED <<observed, term, stored, jobs>>
  BY <1>1, Kept DEF IngestInv, owned
<1>3. PICK t \in Task : /\ task' = [task EXCEPT ![p] = t]
                        /\ t.at \in {"ticked", "sleeping"} /\ t.cursor = NoCursor /\ t.gen = 0
                        /\ t.term \in {0, task[p].term}
  <2>1. CASE task[p].at = "polling"
    BY <2>1, EndingIs DEF ObserverFails, Outcome
  <2>2. CASE task[p].at = "probing"
    BY <2>2, EndingIs DEF ObserverFails, Outcome
  <2>3. CASE task[p].at = "ticked"
    BY <2>3, SleepingIs DEF ObserverFails
  <2> QED
    BY <1>1, <2>1, <2>2, <2>3
<1>4. t.gen <= Len(generations) /\ t.term <= term
  BY <1>3, Counts
<1> QED
  BY <1>1, <1>2, <1>3, <1>4, IdleMove DEF Waiting

LEMMA ProbeEnds ==
  ASSUME IngestInv, NEW p \in Dashboard, Probe(p)
  PROVE  IngestInv'
<1> DEFINE page == ReadPage(NoCursor)
           job == [NoJob EXCEPT !.does = "roll", !.page = [NoPage EXCEPT !.of = page.of]]
<1>1. /\ UNCHANGED <<observed, owned, stored, failures, overruns>>
      /\ task[p].at = "probing"
      /\ \/ Ends(p, "retained") /\ UNCHANGED jobs
         \/ Submit(p, job) /\ Goto(p, Going(p, "persisting"))
  BY DEF Probe
<1>2. CASE Ends(p, "retained") /\ UNCHANGED jobs
  <2>1. OwnedOK' /\ Counted' /\ UNCHANGED <<observed, term, stored, jobs>>
    BY <1>1, <1>2, Kept DEF IngestInv, owned
  <2>2. PICK t \in Task : /\ task' = [task EXCEPT ![p] = t]
                          /\ t.at = "ticked" /\ t.cursor = NoCursor /\ t.gen = 0
                          /\ t.term = task[p].term
    BY <1>2, EndingIs DEF Outcome
  <2>3. t.gen <= Len(generations) /\ t.term <= term
    BY <2>2, Counts
  <2> QED
    BY <1>1, <2>1, <2>2, <2>3, IdleMove DEF Waiting
<1>3. CASE Submit(p, job) /\ Goto(p, Going(p, "persisting"))
  <2> DEFINE sent == [job EXCEPT !.awaited = TRUE, !.term = task[p].term]
  <2>1. page.of \in Identity
    <3>1. ~Rejects(NoCursor) /\ Reached(NoCursor, disk) /\ DiskOK
      BY NoCursorIs, ObservedAssumption DEF Rejects, Reached, IngestInv, DiskOK, Disk, Position
    <3>2. page \in Page
      BY <3>1, NoCursorIs, PageFollows
    <3> QED
      BY <3>2 DEF Page
  <2> HIDE DEF page
  <2>2. job \in Job /\ job.does = "roll" /\ job.gen = 0
    <3> DEFINE looked == [NoPage EXCEPT !.of = page.of]
    <3>1. looked \in Page
      BY <2>1, NoJobIs DEF Page
    <3>2. job = [NoJob EXCEPT !.does = "roll", !.page = looked]
      OBVIOUS
    <3> HIDE DEF looked
    <3> QED
      BY <3>1, <3>2, RollIs
  <2>3. sent.does = "roll" /\ sent.gen = 0 /\ sent.term = task[p].term
    BY <2>2 DEF Job
  <2> HIDE DEF sent
  <2>4. GoodJob(sent, World)
    BY <2>3, Counts, WorldIs DEF GoodJob, IngestInv
  <2> HIDE DEF job
  <2>5. /\ Going(p, "persisting") \in Task /\ Going(p, "persisting").at = Waits(job)
        /\ Going(p, "persisting").cursor = NoCursor /\ Going(p, "persisting").gen = 0
        /\ Going(p, "persisting").term = task[p].term
        /\ task[p].at \notin Waiting
    BY <1>1, <2>2, GoingIs DEF Waits, Waiting
  <2>6. task' = [task EXCEPT ![p] = Going(p, "persisting")]
    BY <1>3 DEF Goto
  <2> QED
    BY <1>1, <1>3, <2>2, <2>4, <2>5, <2>6, Submits DEF sent
<1> QED
  BY <1>1, <1>2, <1>3

LEMMA TickEnds ==
  ASSUME IngestInv, NEW p \in Dashboard, EndTick(p)
  PROVE  IngestInv'
<1> DEFINE job == [NoJob EXCEPT !.does = "rebuild", !.gen = checkpoint.gen]
<1>1. /\ UNCHANGED <<observed, owned, stored, failures, overruns>>
      /\ task[p].at = "ticked"
      /\ \/ Sleep(p) /\ UNCHANGED jobs
         \/ /\ NeedsRebuild(task[p].outcome)
            /\ Submit(p, job) /\ Goto(p, Going(p, "rebuilding"))
  BY DEF EndTick
<1>2. CASE Sleep(p) /\ UNCHANGED jobs
  <2>1. OwnedOK' /\ Counted' /\ UNCHANGED <<observed, term, stored, jobs>>
    BY <1>1, <1>2, Kept DEF IngestInv, owned
  <2>2. PICK t \in Task : /\ task' = [task EXCEPT ![p] = t]
                          /\ t.at = "sleeping" /\ t.cursor = NoCursor /\ t.gen = 0
                          /\ t.term = 0
    BY <1>2, SleepingIs
  <2>3. t.gen <= Len(generations) /\ t.term <= term
    BY <2>2, Counts
  <2> QED
    BY <1>1, <2>1, <2>2, <2>3, IdleMove DEF Waiting
<1>3. CASE /\ NeedsRebuild(task[p].outcome)
           /\ Submit(p, job) /\ Goto(p, Going(p, "rebuilding"))
  <2> DEFINE sent == [job EXCEPT !.awaited = TRUE, !.term = task[p].term]
  <2>1. job \in Job /\ job.does = "rebuild" /\ job.gen = checkpoint.gen /\ checkpoint.gen # 0
    BY <1>3, NoJobIs, NoCursorIs, Counts DEF Job, NeedsRebuild
  <2>2. sent.does = "rebuild" /\ sent.gen = checkpoint.gen /\ sent.term = task[p].term
    BY <2>1 DEF Job
  <2> HIDE DEF sent
  <2>3. GoodJob(sent, World)
    BY <2>1, <2>2, Counts, WorldIs DEF GoodJob, IngestInv
  <2> HIDE DEF job
  <2>4. /\ Going(p, "rebuilding") \in Task /\ Going(p, "rebuilding").at = Waits(job)
        /\ Going(p, "rebuilding").cursor = NoCursor /\ Going(p, "rebuilding").gen = 0
        /\ Going(p, "rebuilding").term = task[p].term
        /\ task[p].at \notin Waiting
    BY <1>1, <2>1, GoingIs DEF Waits, Waiting
  <2>5. task' = [task EXCEPT ![p] = Going(p, "rebuilding")]
    BY <1>3 DEF Goto
  <2> QED
    BY <1>1, <1>3, <2>1, <2>3, <2>4, <2>5, Submits DEF sent
<1> QED
  BY <1>1, <1>2, <1>3

-----------------------------------------------------------------------------
(* The worker's transactions.                                              *)

\* What an upsert makes of the rows: every cursor that was there still is, and
\* unless a row was unsafe, every whole record.
LEMMA UpsertKeeps ==
  ASSUME NEW rows \in SUBSET Record, NEW records \in Seq(Record)
  PROVE  /\ Upserted(rows, records) \in SUBSET Record
         /\ Range(records) \subseteq Upserted(rows, records)
         /\ \A r \in rows : \E s \in Upserted(rows, records) : s.at = r.at /\ s.of = r.of
         /\ Upserted(rows, records) \subseteq rows \cup Range(records)
         /\ ~Unsafe(rows, records) =>
              OKRecords(rows) \subseteq OKRecords(Upserted(rows, records))
<1>1. Range(records) \subseteq Record
  BY RangeOfSeq
<1>2. ASSUME NEW r \in rows
      PROVE  \/ r \in Upserted(rows, records)
             \/ \E new \in Range(records) : SameCursor(r, new)
  BY DEF Upserted
<1>3. \A r \in rows : \E s \in Upserted(rows, records) : s.at = r.at /\ s.of = r.of
  BY <1>2 DEF Upserted, SameCursor
<1>4. ASSUME ~Unsafe(rows, records), NEW r \in OKRecords(rows)
      PROVE  r \in OKRecords(Upserted(rows, records))
  <2>1. r \in rows /\ r.is = "OK"
    BY <1>4 DEF OKRecords
  <2>2. r \in Upserted(rows, records)
    <3>1. CASE \E new \in Range(records) : SameCursor(r, new)
      <4>1. PICK new \in Range(records) : SameCursor(r, new)
        BY <3>1
      <4>2. r = new
        BY <1>4, <4>1 DEF Unsafe
      <4> QED
        BY <4>2 DEF Upserted
    <3> QED
      BY <1>2, <2>1, <3>1
  <2> QED
    BY <2>1, <2>2 DEF OKRecords
<1> QED
  BY <1>1, <1>3, <1>4 DEF Upserted

\* A page that carries on from the cursor leaves nothing out before the next.
LEMMA PageCovers ==
  ASSUME NEW rows \in SUBSET Record, NEW page \in Page, NEW cursor \in Cursor,
         cursor = NoCursor \/ Covered(rows, cursor), Follows(page, cursor)
  PROVE  Covered(Upserted(rows, page.records), Advanced(page, cursor))
<1> DEFINE new == Advanced(page, cursor)
           after == Upserted(rows, page.records)
<1>1. page.records \in Seq(Record)
  BY DEF Page
<1>2. /\ Range(page.records) \subseteq after
      /\ \A r \in rows : \E s \in after : s.at = r.at /\ s.of = r.of
  BY <1>1, UpsertKeeps
<1>3. Covered(rows, cursor)
  BY NoCursorIs DEF Covered, Position
<1>4. Covered(after, cursor)
  BY <1>2, <1>3 DEF Covered
<1>5. CASE new = cursor
  BY <1>4, <1>5
<1>6. CASE new # cursor
  <2>1. /\ new.of = page.of
        /\ cursor = NoCursor \/ cursor.of = page.of
        /\ \A k \in Position : cursor.at <= k /\ k < new.at =>
             \E r \in Range(page.records) : r.at = k
        /\ \A r \in Range(page.records) : r.of = page.of
    BY <1>6 DEF Follows, new
  <2>2. cursor.at \in Nat
    BY DEF Cursor, Position
  <2>3. ASSUME NEW k \in Position, k < new.at PROVE \E r \in after : r.at = k /\ r.of = new.of
    <3>1. CASE cursor.at <= k
      BY <1>2, <2>1, <2>3, <3>1
    <3>2. CASE k < cursor.at
      <4>1. cursor # NoCursor
        BY <3>2, NoCursorIs DEF Position
      <4>2. cursor.of = new.of
        BY <2>1, <4>1
      <4> QED
        BY <1>4, <3>2, <4>2 DEF Covered
    <3>3. k \in Nat
      BY DEF Position
    <3> QED
      BY <2>2, <3>1, <3>2, <3>3
  <2> QED
    BY <2>3 DEF Covered
<1> QED
  BY <1>5, <1>6

\* A generation is opened behind the others.
LEMMA OpenedIs ==
  ASSUME StoredOK, NEW identity \in Identity, Len(generations) < MaxGeneration
  PROVE  /\ Opened(identity) \in Seq(Identity)
         /\ Len(Opened(identity)) = Len(generations) + 1
         /\ Len(generations) \in Nat
         /\ Len(generations) + 1 \in Generation
         /\ \A g \in 1 .. Len(generations) : Opened(identity)[g] = generations[g]
         /\ Opened(identity)[Len(generations) + 1] = identity
<1>1. generations \in Seq(Identity) /\ Len(generations) \in Nat
  BY LenProperties DEF StoredOK
<1> QED
  BY <1>1, AppendProperties, IngestionAssumption DEF Opened, Generation

\* The worker is through with a job, and the task, if it waits for it, goes on.
LEMMA Worked ==
  ASSUME IngestInv, UNCHANGED <<observed, owned>>, StoredOK', Counted',
         Later(World, World'), Reached(checkpoint'.cursor, disk'),
         NEW p \in Dashboard, jobs[p] # <<>>, jobs' = [jobs EXCEPT ![p] = Tail(jobs[p])],
         \/ ~Head(jobs[p]).awaited /\ UNCHANGED task
         \/ /\ Head(jobs[p]).awaited
            /\ \E t \in Task : /\ task' = [task EXCEPT ![p] = t]
                               /\ t.at \notin Waiting /\ (t.at = "polling" => t.left > 0)
                               /\ GoodTask(t, World')
  PROVE  IngestInv'
<1>1. DiskOK' /\ OwnedOK'
  BY Kept DEF IngestInv
<1>2. World \in Worlds /\ World' \in Worlds
  BY <1>1, WorldIs, NextWorldIs DEF IngestInv
<1>3. task[p] \in Task /\ jobs[p] \in Seq(Job) /\ Process(p)
  BY DEF IngestInv
<1>4. /\ Tail(jobs[p]) \in Seq(Job) /\ Range(Tail(jobs[p])) \subseteq Range(jobs[p])
      /\ ~Head(jobs[p]).awaited => Fits(task[p], Tail(jobs[p]))
      /\ Head(jobs[p]).awaited => Tail(jobs[p]) = <<>>
  BY <1>3, FitsDone DEF Process
<1>5. \A job \in Range(Tail(jobs[p])) : GoodJob(job, World')
  <2>1. ASSUME NEW job \in Range(jobs[p]) PROVE GoodJob(job, World')
    <3>1. job \in Job /\ GoodJob(job, World)
      BY <1>3, RangeOfSeq DEF Process
    <3> QED
      BY <1>2, <3>1, JobStays
  <2> QED
    BY <1>4, <2>1
<1>6. CASE ~Head(jobs[p]).awaited /\ UNCHANGED task
  <2>1. task' = [task EXCEPT ![p] = task[p]]
    BY <1>6 DEF IngestInv
  <2>2. GoodTask(task[p], World')
    BY <1>2, <1>3, TaskStays DEF Process
  <2> QED
    BY <1>1, <1>3, <1>4, <1>5, <1>6, <2>1, <2>2, OneMoves
<1>7. ASSUME Head(jobs[p]).awaited,
             NEW t \in Task, task' = [task EXCEPT ![p] = t],
             t.at \notin Waiting, t.at = "polling" => t.left > 0, GoodTask(t, World')
      PROVE  IngestInv'
  <2>1. Fits(t, Tail(jobs[p]))
    BY <1>4, <1>7, FitsEmpty
  <2> QED
    BY <1>1, <1>4, <1>5, <1>7, <2>1, OneMoves
<1> QED
  BY <1>6, <1>7

\* Nothing in the database but the status and the view rows changes.
LEMMA NothingStored ==
  ASSUME IngestInv, UNCHANGED <<observed, owned, generations, checkpoint, evidence>>, StoredOK'
  PROVE  Later(World, World') /\ Reached(checkpoint'.cursor, disk')
<1>1. World' = World
  BY DEF World, observed, owned
<1>2. disk' = disk
  BY DEF observed
<1> QED
  BY <1>1, <1>2, SameWorld DEF IngestInv

\* Idle at once or asleep, a task is well in any later world.
LEMMA StillIdle ==
  ASSUME IngestInv, UNCHANGED <<observed, owned>>, StoredOK', Later(World, World'),
         NEW t \in Task, t.cursor = NoCursor, t.at # "polling", t.gen = 0, t.term <= term
  PROVE  GoodTask(t, World')
<1>1. DiskOK' /\ OwnedOK'
  BY Kept DEF IngestInv
<1>2. World \in Worlds /\ World' \in Worlds
  BY <1>1, WorldIs, NextWorldIs DEF IngestInv
<1>3. GoodTask(t, World)
  BY Idle, Counts
<1> QED
  BY <1>2, <1>3, TaskStays

\* What a page leaves in the database.
LEMMA PageStored ==
  ASSUME IngestInv, UNCHANGED <<observed, owned>>, NEW p \in Dashboard,
         NEW job \in Job, job.does = "page", GoodJob(job, World), PersistPage(p, job)
  PROVE  /\ StoredOK' /\ Later(World, World') /\ Reached(checkpoint'.cursor, disk')
         /\ checkpoint'.gen <= Len(generations') /\ checkpoint'.gen \in 1 .. MaxGeneration
         /\ checkpoint'.cursor = Advanced(job.page, job.cursor)
<1> DEFINE fresh == job.gen = NoGeneration
           g == IF fresh THEN Len(generations) + 1 ELSE job.gen
           rows == Upserted(evidence[g], job.page.records)
           new == Advanced(job.page, job.cursor)
           halted == Oversized(job.page)
<1>1. /\ fresh => Len(generations) < MaxGeneration
      /\ generations' = IF fresh THEN Opened(job.page.of) ELSE generations
      /\ evidence' = [evidence EXCEPT ![g] = rows]
      /\ shown' = [shown EXCEPT ![g] = shown[g] \cup (OKRecords(rows) \ OKRecords(evidence[g]))]
      /\ status' = IF fresh THEN Preparing(g)
                   ELSE IF Unsafe(evidence[g], job.page.records) /\ status.is = "READY"
                   THEN [status EXCEPT !.is = "REBUILDING"] ELSE status
      /\ checkpoint' = [gen |-> g, cursor |-> new, halted |-> halted]
  BY DEF PersistPage
<1>2. /\ StoredOK /\ Len(generations) \in Nat /\ Len(generations) <= MaxGeneration
      /\ World.opened = Len(generations) /\ World.disk = disk /\ World.stores = evidence
  BY Counts, WorldIs DEF IngestInv, StoredOK
<1>3. /\ job.page \in Page /\ job.page.records \in Seq(Record) /\ job.page.of \in Identity
      /\ job.cursor \in Cursor /\ job.gen \in 0 .. MaxGeneration /\ job.gen <= Len(generations)
      /\ CoveredIn(evidence, job.gen, job.cursor) /\ Follows(job.page, job.cursor)
      /\ Reached(new, disk)
  BY <1>2 DEF GoodJob, Job, Page
<1> HIDE DEF new, rows
<1>4. /\ g \in Generation /\ generations' \in Seq(Identity) /\ Len(generations') \in Nat
      /\ Len(generations') <= MaxGeneration /\ g \in 1 .. Len(generations')
      /\ Len(generations) <= Len(generations')
  <2>1. CASE fresh
    <3>1. /\ Opened(job.page.of) \in Seq(Identity)
          /\ Len(Opened(job.page.of)) = Len(generations) + 1
          /\ Len(generations) + 1 \in Generation
      BY <1>1, <1>2, <1>3, <2>1, OpenedIs
    <3> QED
      BY <1>1, <1>2, <2>1, <3>1, IngestionAssumption DEF Generation
  <2>2. CASE ~fresh
    <3>1. generations' = generations /\ g = job.gen /\ generations \in Seq(Identity)
      BY <1>1, <1>2, <2>2 DEF StoredOK
    <3> QED
      BY <1>2, <1>3, <2>2, <3>1, IngestionAssumption DEF Generation
  <2> QED
    BY <2>1, <2>2
<1>5. /\ evidence \in [Generation -> SUBSET Record] /\ shown \in [Generation -> SUBSET Record]
      /\ evidence[g] \in SUBSET Record /\ shown[g] \in SUBSET Record
  BY <1>2, <1>4 DEF StoredOK
<1>6. /\ rows \in SUBSET Record
      /\ \A r \in evidence[g] : \E s \in rows : s.at = r.at /\ s.of = r.of
      /\ ~Unsafe(evidence[g], job.page.records) => OKRecords(evidence[g]) \subseteq OKRecords(rows)
  BY <1>3, <1>5, UpsertKeeps DEF rows
<1>7. new \in Cursor
  BY <1>3 DEF Follows, new
<1>8. halted \in BOOLEAN
  BY DEF Oversized
<1>9. Covered(rows, new)
  <2>1. job.cursor = NoCursor \/ Covered(evidence[g], job.cursor)
    BY <1>3 DEF CoveredIn
  <2> QED
    BY <1>3, <1>5, <2>1, PageCovers DEF rows, new
<1> HIDE DEF halted
<1>10. /\ status' \in [gen: 0 .. Len(generations'),
                       is: {"NONE", "PREPARING", "READY", "REBUILDING", "ERROR"}]
       /\ status'.is = "READY" =>
            /\ status' = status /\ ~Unsafe(evidence[g], job.page.records)
            /\ status.gen # NoGeneration /\ status.gen \in Generation
  <2>1. /\ status \in [gen: 0 .. Len(generations),
                       is: {"NONE", "PREPARING", "READY", "REBUILDING", "ERROR"}]
        /\ status.is = "READY" => status.gen # NoGeneration
    BY <1>2 DEF StoredOK
  <2>2. status.gen \in 0 .. Len(generations')
    BY <1>2, <1>4, <2>1
  <2>3. CASE fresh
    BY <1>1, <1>4, <2>3 DEF Preparing
  <2>4. CASE ~fresh
    <3>1. status' = status \/ status' = [status EXCEPT !.is = "REBUILDING"]
      BY <1>1, <2>4
    <3>2. status' \in [gen: 0 .. Len(generations'),
                       is: {"NONE", "PREPARING", "READY", "REBUILDING", "ERROR"}]
      BY <2>1, <2>2, <3>1
    <3>3. ASSUME status'.is = "READY"
          PROVE  status' = status /\ ~Unsafe(evidence[g], job.page.records)
      <4>1. status' = status
        BY <2>1, <3>1, <3>3
      <4> QED
        BY <1>1, <2>1, <2>4, <3>3, <4>1
    <3>4. status.is = "READY" => status.gen \in Generation
      BY <1>2, <1>4, <2>1, <2>2, IngestionAssumption DEF Generation
    <3> QED
      BY <2>1, <3>2, <3>3, <3>4
  <2> QED
    BY <2>3, <2>4
<1> HIDE DEF g
<1>11. /\ evidence' \in [Generation -> SUBSET Record] /\ shown' \in [Generation -> SUBSET Record]
       /\ evidence'[g] = rows
       /\ shown'[g] = shown[g] \cup (OKRecords(rows) \ OKRecords(evidence[g]))
       /\ \A h \in Generation : h # g => evidence'[h] = evidence[h] /\ shown'[h] = shown[h]
  BY <1>1, <1>4, <1>5, <1>6 DEF OKRecords
<1>12. ShownIsStored'
  <2> SUFFICES ASSUME status'.is = "READY"
               PROVE  shown'[status'.gen] = OKRecords(evidence'[status'.gen])
    BY DEF ShownIsStored, OKRecords
  <2>1. shown[status.gen] = OKRecords(evidence[status.gen])
    BY <1>2, <1>10 DEF StoredOK, ShownIsStored
  <2>2. CASE status.gen = g
    <3> DEFINE old == OKRecords(evidence[g])
               now == OKRecords(rows)
    <3>1. shown[g] = old /\ old \subseteq now /\ shown'[g] = shown[g] \cup (now \ old)
      BY <1>6, <1>10, <1>11, <2>1, <2>2
    <3>2. evidence'[g] = rows /\ status'.gen = g
      BY <1>10, <1>11, <2>2
    <3> HIDE DEF old
    <3>3. shown'[g] = now
      BY <3>1
    <3> QED
      BY <3>2, <3>3
  <2>3. CASE status.gen # g
    BY <1>10, <1>11, <2>1, <2>3
  <2> QED
    BY <2>2, <2>3
<1>13. /\ checkpoint' \in [gen: 0 .. Len(generations'), cursor: Cursor, halted: BOOLEAN]
       /\ checkpoint'.gen = g /\ checkpoint'.cursor = new
  <2>1. g \in 0 .. Len(generations')
    BY <1>4
  <2> QED
    BY <1>1, <1>7, <1>8, <2>1
<1>14. CoveredIn(evidence', checkpoint'.gen, checkpoint'.cursor)
  BY <1>4, <1>9, <1>11, <1>13 DEF CoveredIn
<1>15. StoredOK'
  BY <1>4, <1>10, <1>11, <1>12, <1>13, <1>14 DEF StoredOK
<1>16. DiskOK' /\ OwnedOK' /\ disk' = disk
  BY Kept DEF IngestInv, observed
<1>17. Later(World, World')
  <2>1. /\ World \in Worlds /\ World' \in Worlds
        /\ World.disk = disk /\ World'.disk = disk' /\ World.term = term /\ World'.term = term'
        /\ World.opened = Len(generations) /\ World'.opened = Len(generations')
        /\ World.stores = evidence /\ World'.stores = evidence'
    BY <1>15, <1>16, WorldIs, NextWorldIs DEF IngestInv
  <2>2. disk.lines \in Nat /\ term \in Nat /\ term' = term
    BY Counts, ObservedAssumption DEF IngestInv, DiskOK, Disk, Position, owned
  <2>3. \A h \in Generation : \A r \in evidence[h] : \E s \in evidence'[h] : s.at = r.at /\ s.of = r.of
    BY <1>6, <1>11
  <2> QED
    BY <1>4, <1>16, <2>1, <2>2, <2>3 DEF Later
<1> QED
  BY <1>3, <1>4, <1>13, <1>15, <1>16, <1>17, IngestionAssumption DEF new

LEMMA PageWorks ==
  ASSUME IngestInv, UNCHANGED <<observed, owned>>, Counted', NEW p \in Dashboard,
         jobs[p] # <<>>, Head(jobs[p]).does = "page", PersistPage(p, Head(jobs[p])),
         jobs' = [jobs EXCEPT ![p] = Tail(jobs[p])]
  PROVE  IngestInv'
<1> DEFINE job == Head(jobs[p])
           left == task[p].left
<1>1. /\ job \in Job /\ GoodJob(job, World) /\ task[p] \in Task
      /\ left \in 0 .. MaxPages /\ MaxPages \in Nat
  BY FitsDone, Counts DEF IngestInv, Process
<1>2. /\ StoredOK' /\ Later(World, World') /\ Reached(checkpoint'.cursor, disk')
      /\ checkpoint'.gen <= Len(generations') /\ checkpoint'.gen \in 1 .. MaxGeneration
  BY <1>1, PageStored
<1>3. ASSUME NEW outcome \in Outcome, Ends(p, outcome)
      PROVE  \E t \in Task : /\ task' = [task EXCEPT ![p] = t]
                             /\ t.at \notin Waiting /\ (t.at = "polling" => t.left > 0)
                             /\ GoodTask(t, World')
  <2>1. PICK t \in Task : /\ task' = [task EXCEPT ![p] = t]
                          /\ t.at = "ticked" /\ t.cursor = NoCursor /\ t.gen = 0
                          /\ t.term = task[p].term
    BY <1>3, EndingIs
  <2>2. GoodTask(t, World')
    BY <1>2, <2>1, Counts, StillIdle
  <2> QED
    BY <2>1, <2>2 DEF Waiting
<1>4. CASE ~job.awaited
  <2>1. UNCHANGED task
    BY <1>4 DEF PersistPage
  <2> QED
    BY <1>2, <1>4, <2>1, Worked
<1>5. CASE job.awaited
  <2> DEFINE next == [Going(p, "polling") EXCEPT !.gen = checkpoint'.gen,
                                                 !.cursor = checkpoint'.cursor, !.left = left]
  <2>1. \/ Ends(p, "halted") \/ Ends(p, "all pages used") \/ Ends(p, "caught up")
        \/ left # 0 /\ task' = [task EXCEPT ![p] = next]
    BY <1>5 DEF PersistPage, Goto
  <2>2. CASE left # 0 /\ task' = [task EXCEPT ![p] = next]
    <3>1. /\ next \in Task /\ next.at = "polling" /\ next.left = left
          /\ next.gen = checkpoint'.gen /\ next.cursor = checkpoint'.cursor
          /\ next.term = task[p].term
      <4>1. checkpoint'.gen \in 0 .. MaxGeneration /\ checkpoint'.cursor \in Cursor
        BY <1>2 DEF StoredOK
      <4>2. task[p].term \in Nat
        BY Counts
      <4> QED
        BY <1>1, <4>1, <4>2, NoTaskIs DEF Going, NoTask, Task, Outcome
    <3> HIDE DEF next
    <3>2. /\ World'.disk = disk' /\ World'.opened = Len(generations')
          /\ World'.stores = evidence' /\ World'.term = term' /\ term' = term
      BY <1>2, Kept, NextWorldIs DEF IngestInv, owned
    <3>3. GoodTask(next, World')
      BY <1>2, <3>1, <3>2, Counts DEF GoodTask, StoredOK
    <3>4. left > 0
      BY <1>1, <2>2
    <3> QED
      BY <1>2, <1>5, <2>2, <3>1, <3>3, <3>4, Worked DEF Waiting
  <2>3. CASE Ends(p, "halted") \/ Ends(p, "all pages used") \/ Ends(p, "caught up")
    <3>1. \E t \in Task : /\ task' = [task EXCEPT ![p] = t]
                          /\ t.at \notin Waiting /\ (t.at = "polling" => t.left > 0)
                          /\ GoodTask(t, World')
      BY <1>3, <2>3 DEF Outcome
    <3> QED
      BY <1>2, <1>5, <3>1, Worked
  <2> QED
    BY <2>1, <2>2, <2>3
<1> QED
  BY <1>4, <1>5

LEMMA RollWorks ==
  ASSUME IngestInv, UNCHANGED <<observed, owned>>, Counted', NEW p \in Dashboard,
         jobs[p] # <<>>, Head(jobs[p]).does = "roll", RollGeneration(p, Head(jobs[p])),
         jobs' = [jobs EXCEPT ![p] = Tail(jobs[p])]
  PROVE  IngestInv'
<1> DEFINE job == Head(jobs[p])
           g == Len(generations) + 1
<1>1. /\ job \in Job /\ job.page.of \in Identity
  BY FitsDone DEF IngestInv, Process, Job, Page
<1>2. /\ g <= MaxGeneration /\ generations' = Opened(job.page.of)
      /\ status' = [gen |-> g, is |-> "PREPARING"]
      /\ checkpoint' = [gen |-> g, cursor |-> NoCursor, halted |-> FALSE]
      /\ UNCHANGED <<evidence, shown>>
  BY DEF RollGeneration, Preparing, FromTheStart
<1>3. StoredOK /\ Len(generations) \in Nat /\ MaxGeneration \in Nat
  BY Counts, IngestionAssumption DEF IngestInv
<1> HIDE DEF job
<1>4. /\ generations' \in Seq(Identity) /\ Len(generations') = Len(generations) + 1
      /\ g \in Generation
  BY <1>1, <1>2, <1>3, OpenedIs
<1>5. StoredOK'
  <2>1. CoveredIn(evidence', checkpoint'.gen, checkpoint'.cursor)
    BY <1>2, <1>3, NoCursorIs DEF CoveredIn, Covered, Position
  <2>2. ShownIsStored'
    BY <1>2 DEF ShownIsStored
  <2> HIDE DEF g
  <2>3. g \in 0 .. Len(generations') /\ Len(generations') <= MaxGeneration
    BY <1>2, <1>3, <1>4 DEF g
  <2> QED
    BY <1>2, <1>3, <1>4, <2>1, <2>2, <2>3, NoCursorIs DEF StoredOK
<1>6. DiskOK' /\ OwnedOK' /\ disk' = disk /\ term' = term
  BY Kept DEF IngestInv, observed, owned
<1>7. Later(World, World')
  <2>1. /\ World \in Worlds /\ World' \in Worlds
        /\ World.disk = disk /\ World'.disk = disk' /\ World.term = term /\ World'.term = term'
        /\ World.opened = Len(generations) /\ World'.opened = Len(generations')
        /\ World.stores = evidence /\ World'.stores = evidence'
    BY <1>5, <1>6, WorldIs, NextWorldIs DEF IngestInv
  <2>2. disk.lines \in Nat /\ term \in Nat
    BY Counts, ObservedAssumption DEF IngestInv, DiskOK, Disk, Position
  <2> QED
    BY <1>2, <1>3, <1>4, <1>6, <2>1, <2>2 DEF Later
<1>8. Reached(checkpoint'.cursor, disk')
  BY <1>2, <1>6, NoCursorIs, ObservedAssumption DEF Reached, IngestInv, DiskOK, Disk, Position
<1>9. CASE ~job.awaited
  BY <1>5, <1>7, <1>8, <1>9, Worked DEF RollGeneration, job
<1>10. CASE job.awaited
  <2>1. PICK t \in Task : /\ task' = [task EXCEPT ![p] = t]
                          /\ t.at = "ticked" /\ t.cursor = NoCursor /\ t.gen = 0
                          /\ t.term = task[p].term
    <3>1. Ends(p, "rolled")
      BY <1>10 DEF RollGeneration, job
    <3> QED
      BY <3>1, EndingIs DEF Outcome
  <2>2. GoodTask(t, World')
    BY <1>5, <1>7, <2>1, Counts, StillIdle
  <2> QED
    BY <1>5, <1>7, <1>8, <1>10, <2>1, <2>2, Worked DEF Waiting, job
<1> QED
  BY <1>9, <1>10

\* A job that only touches the view.
LEMMA ViewWorks ==
  ASSUME IngestInv, UNCHANGED <<observed, owned, generations, checkpoint, evidence>>,
         Counted', StoredOK', NEW p \in Dashboard, jobs[p] # <<>>,
         IF Head(jobs[p]).awaited THEN Sleep(p) ELSE UNCHANGED task,
         jobs' = [jobs EXCEPT ![p] = Tail(jobs[p])]
  PROVE  IngestInv'
<1>1. Later(World, World') /\ Reached(checkpoint'.cursor, disk')
  BY NothingStored
<1>2. CASE ~Head(jobs[p]).awaited
  BY <1>1, <1>2, Worked
<1>3. CASE Head(jobs[p]).awaited
  <2>1. PICK t \in Task : /\ task' = [task EXCEPT ![p] = t]
                          /\ t.at = "sleeping" /\ t.cursor = NoCursor /\ t.gen = 0
                          /\ t.term = 0
    BY <1>3, SleepingIs
  <2>2. t.term <= term
    BY <2>1, Counts
  <2>3. GoodTask(t, World')
    BY <1>1, <2>1, <2>2, StillIdle
  <2> QED
    BY <1>1, <1>3, <2>1, <2>3, Worked DEF Waiting
<1> QED
  BY <1>2, <1>3

LEMMA RebuildWorks ==
  ASSUME IngestInv, UNCHANGED <<observed, owned>>, Counted', NEW p \in Dashboard,
         jobs[p] # <<>>, Head(jobs[p]).does = "rebuild", Rebuild(p, Head(jobs[p])),
         jobs' = [jobs EXCEPT ![p] = Tail(jobs[p])]
  PROVE  IngestInv'
<1> DEFINE job == Head(jobs[p])
<1>1. job \in Job /\ GoodJob(job, World) /\ World.opened = Len(generations)
  BY FitsDone, WorldIs DEF IngestInv, Process
<1>2. StoredOK /\ UNCHANGED <<generations, checkpoint, evidence>>
      /\ Len(generations) \in Nat /\ Len(generations) <= MaxGeneration
  BY Counts DEF Rebuild, IngestInv, StoredOK
<1>3. job.gen \in 0 .. Len(generations) /\ job.gen \in Generation /\ job.gen # NoGeneration
  BY <1>1, <1>2, IngestionAssumption DEF GoodJob, Job, Generation
<1>4. StoredOK'
  <2>1. CASE Holds(p)
    <3>1. /\ shown' = [h \in Generation |-> IF h = job.gen THEN OKRecords(evidence[job.gen]) ELSE {}]
          /\ status' = [gen |-> job.gen, is |-> "READY"]
      BY <2>1 DEF Rebuild, Published
    <3>2. evidence \in [Generation -> SUBSET Record]
      BY <1>2 DEF StoredOK
    <3> HIDE DEF job
    <3>3. shown' \in [Generation -> SUBSET Record] /\ shown'[job.gen] = OKRecords(evidence[job.gen])
      BY <1>3, <3>1, <3>2 DEF OKRecords
    <3>4. ShownIsStored'
      BY <1>2, <3>1, <3>3 DEF ShownIsStored, OKRecords
    <3> QED
      BY <1>2, <1>3, <3>1, <3>3, <3>4 DEF StoredOK
  <2>2. CASE ~Holds(p)
    <3>1. UNCHANGED stored
      BY <1>2, <2>2 DEF Rebuild, stored
    <3> QED
      BY <1>2, <3>1, Kept
  <2> QED
    BY <2>1, <2>2
<1>5. IF job.awaited THEN Sleep(p) ELSE UNCHANGED task
  BY DEF Rebuild
<1> QED
  BY <1>2, <1>4, <1>5, ViewWorks

LEMMA ErrorWorks ==
  ASSUME IngestInv, UNCHANGED <<observed, owned>>, Counted', NEW p \in Dashboard,
         jobs[p] # <<>>, Head(jobs[p]).does = "error", MarkError(p, Head(jobs[p])),
         jobs' = [jobs EXCEPT ![p] = Tail(jobs[p])]
  PROVE  IngestInv'
<1>1. StoredOK /\ UNCHANGED <<generations, checkpoint, evidence, shown>>
  BY DEF MarkError, IngestInv
<1>2. status' = status \/ status' = [status EXCEPT !.is = "ERROR"]
  BY DEF MarkError
<1>3. /\ status' \in [gen: 0 .. Len(generations'),
                      is: {"NONE", "PREPARING", "READY", "REBUILDING", "ERROR"}]
      /\ status'.is = "READY" => status' = status
  BY <1>1, <1>2 DEF StoredOK
<1>4. StoredOK'
  BY <1>1, <1>3 DEF StoredOK, ShownIsStored
<1>5. IF Head(jobs[p]).awaited THEN Sleep(p) ELSE UNCHANGED task
  BY DEF MarkError
<1> QED
  BY <1>1, <1>4, <1>5, ViewWorks

LEMMA WorkerWorks ==
  ASSUME IngestInv, NEW p \in Dashboard, Work(p)
  PROVE  IngestInv'
<1>1. /\ UNCHANGED <<observed, owned>> /\ jobs[p] # <<>>
      /\ jobs' = [jobs EXCEPT ![p] = Tail(jobs[p])]
  BY DEF Work
<1>2. Counted'
  <2>1. failures' = failures
        /\ (overruns' = overruns \/ (overruns < MaxOverruns /\ overruns' = overruns + 1))
    BY DEF Work
  <2> QED
    BY <2>1, IngestionAssumption DEF IngestInv, Counted
<1> DEFINE job == Head(jobs[p])
<1>3. job.does \in {"page", "roll", "rebuild", "error"}
  BY <1>1, FitsDone DEF IngestInv, Process, Job
<1>4. CASE job.does = "page"
  BY <1>1, <1>2, <1>4, PageWorks DEF Work
<1>5. CASE job.does = "roll"
  BY <1>1, <1>2, <1>5, RollWorks DEF Work
<1>6. CASE job.does = "rebuild"
  BY <1>1, <1>2, <1>6, RebuildWorks DEF Work
<1>7. CASE job.does = "error"
  BY <1>1, <1>2, <1>7, ErrorWorks DEF Work
<1> QED
  BY <1>3, <1>4, <1>5, <1>6, <1>7

LEMMA WorkerFails ==
  ASSUME IngestInv, NEW p \in Dashboard, WorkFails(p)
  PROVE  IngestInv'
<1> DEFINE job == Head(jobs[p])
           error == [job EXCEPT !.does = "error"]
<1>1. /\ UNCHANGED <<observed, owned, stored, overruns>> /\ jobs[p] # <<>>
      /\ failures < MaxFailures /\ failures' = failures + 1
      /\ \/ /\ job.awaited /\ job.does = "rebuild"
            /\ jobs' = [jobs EXCEPT ![p] = <<error>>] /\ UNCHANGED task
         \/ /\ jobs' = [jobs EXCEPT ![p] = Tail(jobs[p])]
            /\ IF job.awaited THEN Sleep(p) ELSE UNCHANGED task
  BY DEF WorkFails
<1>2. Counted' /\ OwnedOK' /\ StoredOK' /\ UNCHANGED <<observed, term, stored>>
  BY <1>1, Kept, IngestionAssumption DEF IngestInv, Counted, owned
<1>3. task[p] \in Task /\ jobs[p] \in Seq(Job) /\ Process(p)
  BY DEF IngestInv
<1>4. CASE /\ job.awaited /\ job.does = "rebuild"
           /\ jobs' = [jobs EXCEPT ![p] = <<error>>] /\ UNCHANGED task
  <2>1. /\ job \in Job /\ GoodJob(job, World) /\ task[p].at = "rebuilding"
    BY <1>1, <1>3, <1>4, FitsDone DEF Process, Waits
  <2>2. error \in Job /\ error.does = "error" /\ error.gen = job.gen /\ error.term = job.term
        /\ error.awaited
    BY <1>4, <2>1 DEF Job
  <2>3. GoodJob(error, World)
    BY <1>4, <2>1, <2>2 DEF GoodJob
  <2> HIDE DEF error, job
  <2> DEFINE queue == <<error>>
  <2>4. /\ queue \in Seq(Job) /\ Len(queue) = 1 /\ queue[1] = error
        /\ Range(queue) = {error}
    BY <2>2 DEF Range
  <2> HIDE DEF queue
  <2>5. Fits(task[p], queue)
    <3>1. \A k \in 1 .. 1 : k = 1
      OBVIOUS
    <3> QED
      BY <2>1, <2>2, <2>4, <3>1 DEF Fits, Waits, Waiting
  <2>6. jobs' = [jobs EXCEPT ![p] = queue] /\ task' = [task EXCEPT ![p] = task[p]]
    BY <1>4 DEF queue, IngestInv
  <2> QED
    BY <1>2, <1>3, <2>3, <2>4, <2>5, <2>6, Plainly DEF Process
<1>5. CASE /\ jobs' = [jobs EXCEPT ![p] = Tail(jobs[p])]
           /\ IF job.awaited THEN Sleep(p) ELSE UNCHANGED task
  BY <1>1, <1>2, <1>5, ViewWorks DEF stored
<1> QED
  BY <1>1, <1>4, <1>5

-----------------------------------------------------------------------------
LEMMA IngestStep == IngestInv /\ [Next]_vars => IngestInv'
<1> SUFFICES ASSUME IngestInv, [Next]_vars PROVE IngestInv'
  OBVIOUS
<1>1. CASE DiskNext /\ UNCHANGED <<owned, stored, task, jobs, failures, overruns>>
  BY <1>1, DiskSteps
<1>2. CASE LeaseExpires
  <2>1. CASE Dashboard = {}
    <3>1. UNCHANGED <<observed, term, stored, task, jobs>> /\ OwnedOK' /\ Counted'
      BY <1>2 DEF LeaseExpires, IngestInv, OwnedOK, Counted, stored, observed
    <3>2. DiskOK' /\ StoredOK' /\ World' = World /\ Reached(checkpoint'.cursor, disk')
      BY <3>1, Kept DEF IngestInv, stored, observed
    <3>3. Later(World, World')
      BY <3>2, SameWorld DEF IngestInv
    <3> QED
      BY <3>1, <3>2, <3>3, NoneMoves
  <2>2. CASE Dashboard # {}
    BY <1>2, <2>2, LeaseSteps
  <2> QED
    BY <2>1, <2>2
<1>3. ASSUME NEW p \in Dashboard, Heartbeat(p) \/ StandDown(p) \/ Stop(p)
      PROVE  IngestInv'
  BY <1>3, LeaseSteps
<1>4. ASSUME NEW p \in Dashboard, Step(p) PROVE IngestInv'
  BY <1>4, TickBegins, PageFetched, CursorIsRejected, ProbeEnds, TickEnds, WorkerWorks DEF Step
<1>5. ASSUME NEW p \in Dashboard, ObserverFails(p) \/ WorkFails(p) PROVE IngestInv'
  BY <1>5, ObserverHasFailed, WorkerFails
<1>6. CASE UNCHANGED vars
  <2>1. UNCHANGED <<observed, owned, stored, task, jobs, failures, overruns>>
    BY <1>6 DEF vars
  <2>2. DiskOK' /\ OwnedOK' /\ StoredOK' /\ Counted' /\ World' = World
    BY <2>1, Kept DEF IngestInv, owned
  <2>3. Reached(checkpoint'.cursor, disk')
    BY <2>1 DEF IngestInv, stored, observed
  <2>4. Later(World, World')
    BY <2>2, SameWorld DEF IngestInv
  <2> QED
    BY <2>1, <2>2, <2>3, <2>4, NoneMoves
<1> QED
  BY <1>1, <1>2, <1>3, <1>4, <1>5, <1>6 DEF Next

THEOREM IngestInvariant == Spec => []IngestInv
BY IngestInit, IngestStep, PTL DEF Spec

-----------------------------------------------------------------------------
\* TypeOK: every variable keeps to its type, and a task waits exactly while its
\* process' worker holds a job for it (scheduler.py: the worker is awaited).
THEOREM TypesKeep == Spec => []TypeOK
<1>1. ASSUME IngestInv PROVE TypeOK
  <2>1. /\ disk \in Disk /\ losses \in 0 .. MaxLosses
        /\ lease \in [owner: Dashboard \cup {NoDashboard}, fresh: BOOLEAN]
        /\ term \in 0 .. MaxTerm
        /\ leader \in [Dashboard -> BOOLEAN]
    BY <1>1 DEF IngestInv, DiskOK, OwnedOK
  <2>2. /\ generations \in Seq(Identity) /\ Len(generations) <= MaxGeneration
        /\ checkpoint \in [gen: 0 .. Len(generations), cursor: Cursor, halted: BOOLEAN]
        /\ evidence \in [Generation -> SUBSET Record]
        /\ shown \in [Generation -> SUBSET Record]
        /\ status \in [gen: 0 .. Len(generations),
                       is: {"NONE", "PREPARING", "READY", "REBUILDING", "ERROR"}]
        /\ failures \in 0 .. MaxFailures /\ overruns \in 0 .. MaxOverruns
    BY <1>1 DEF IngestInv, StoredOK, Counted
  <2>3. ASSUME NEW p \in Dashboard
        PROVE  /\ task[p].at \in {"none", "sleeping", "polling", "persisting", "probing",
                                  "ticked", "rebuilding"}
               /\ task[p].gen \in 0 .. MaxGeneration
               /\ task[p].cursor \in Cursor
               /\ task[p].left \in 0 .. MaxPages
               /\ task[p].at \in {"persisting", "rebuilding"}
                    <=> \E k \in DOMAIN jobs[p] : jobs[p][k].awaited
    <3>1. task[p] \in Task /\ jobs[p] \in Seq(Job) /\ Fits(task[p], jobs[p])
      BY <1>1, Counts
    <3>2. DOMAIN jobs[p] = 1 .. Len(jobs[p]) /\ Len(jobs[p]) \in Nat
      BY <3>1, QueueIs
    <3>3. ASSUME task[p].at \in Waiting PROVE \E k \in DOMAIN jobs[p] : jobs[p][k].awaited
      BY <3>1, <3>2, <3>3 DEF Fits
    <3>4. ASSUME NEW k \in DOMAIN jobs[p], jobs[p][k].awaited PROVE task[p].at \in Waiting
      BY <3>1, <3>2, <3>4 DEF Fits, Waits, Waiting
    <3> QED
      BY <3>1, <3>3, <3>4 DEF Task, Waiting
  <2> QED
    BY <2>1, <2>2, <2>3 DEF TypeOK
<1> QED
  BY <1>1, IngestInvariant, PTL

\* NothingSkipped: whatever is replaced, torn, lost or retried, every record
\* before the durable checkpoint is stored (_persist_page and its cursor).
THEOREM NothingIsSkipped == Spec => []NothingSkipped
<1>1. ASSUME IngestInv PROVE NothingSkipped
  BY <1>1 DEF IngestInv, StoredOK, CoveredIn, Covered, NothingSkipped
<1> QED
  BY <1>1, IngestInvariant, PTL

\* ShownIsStored: the rows of a view that says READY reflect every whole record
\* of its generation (_upsert_evidence_and_detect_corrupt, rebuild_read_models).
THEOREM ShownAreStored == Spec => []ShownIsStored
<1>1. ASSUME IngestInv PROVE ShownIsStored
  BY <1>1 DEF IngestInv, StoredOK
<1> QED
  BY <1>1, IngestInvariant, PTL

-----------------------------------------------------------------------------
(* As long as no worker has written for a lease it had lost, what the owner *)
(* is about to write is about the database as it is.                        *)

\* The rows of a log that a cursor into it has left behind are whole.
WholeBefore(rows, cursor) ==
  /\ cursor = NoCursor => rows = {}
  /\ \A r \in rows : r.of = cursor.of /\ (r.at < cursor.at => r.is = "OK")

StoredTrue ==
  /\ \A g \in Generation : \A r, t \in evidence[g] : r.of = t.of
  /\ checkpoint.gen # NoGeneration =>
       WholeBefore(evidence[checkpoint.gen], checkpoint.cursor)
  /\ status.is = "READY" => status.gen = checkpoint.gen

CurrentTask(t) ==
  t.at = "polling" /\ t.term = term =>
    t.gen = checkpoint.gen /\ t.cursor = checkpoint.cursor
CurrentJob(job) ==
  job.term = term =>
    /\ job.awaited
    /\ job.does = "page" => job.cursor = checkpoint.cursor
    /\ job.does # "roll" => job.gen = checkpoint.gen
Current(p) == CurrentTask(task[p]) /\ \A job \in Range(jobs[p]) : CurrentJob(job)

CurrentInv ==
  /\ \A g \in Generation : g > Len(generations) => evidence[g] = {}
  /\ overruns = 0 =>
       StoredTrue /\ \A p \in Dashboard : lease.owner = p => Current(p)

LEMMA CurrentInit == Init => CurrentInv
<1> SUFFICES ASSUME Init PROVE CurrentInv
  OBVIOUS
<1>1. /\ \A g \in Generation : evidence[g] = {}
      /\ checkpoint.gen = NoGeneration /\ status.is = "NONE"
      /\ \A p \in Dashboard : lease.owner # p
  BY IngestionAssumption DEF Init, NoCheckpoint, NoStatus
<1> QED
  BY <1>1 DEF CurrentInv, StoredTrue

\* A page leaves the rows before its cursor whole.
LEMMA PageIsWhole ==
  ASSUME NEW rows \in SUBSET Record, NEW page \in Page, NEW cursor \in Cursor,
         Follows(page, cursor), WholeBefore(rows, cursor)
  PROVE  WholeBefore(Upserted(rows, page.records), Advanced(page, cursor))
<1> DEFINE new == Advanced(page, cursor)
           after == Upserted(rows, page.records)
<1>1. page.records \in Seq(Record) /\ Range(page.records) \subseteq Record
  BY RangeOfSeq DEF Page
<1>2. CASE new = cursor /\ page.records = <<>>
  <2>1. Range(page.records) = {}
    BY <1>2 DEF Range
  <2>2. after = rows
    BY <2>1 DEF Upserted
  <2> QED
    BY <1>2, <2>2
<1>3. CASE /\ new.of = page.of /\ page.of # Unknown
           /\ cursor = NoCursor \/ cursor.of = page.of
           /\ \A k \in Position : cursor.at <= k /\ k < new.at =>
                \E r \in Range(page.records) : r.at = k
  <2>1. new # NoCursor
    BY <1>3, NoCursorIs
  <2>2. /\ \A r \in Range(page.records) : r.of = page.of /\ (r.at < new.at => r.is = "OK")
        /\ cursor.at \in Nat
    BY DEF Follows, new, Cursor, Position
  <2>3. \A r \in rows : r.of = page.of /\ (r.at < cursor.at => r.is = "OK")
    BY <1>3 DEF WholeBefore
  <2>4. ASSUME NEW r \in after PROVE r.of = new.of /\ (r.at < new.at => r.is = "OK")
    <3>1. CASE r \in Range(page.records)
      BY <1>3, <2>2, <3>1
    <3>2. CASE r \in rows /\ \A s \in Range(page.records) : ~SameCursor(r, s)
      <4>1. r.of = page.of /\ r.at \in Position /\ r.at \in Nat
        BY <2>3, <3>2 DEF Record, Position
      <4>2. ASSUME cursor.at <= r.at, r.at < new.at PROVE FALSE
        <5>1. PICK s \in Range(page.records) : s.at = r.at
          BY <1>3, <4>1, <4>2
        <5> QED
          BY <2>2, <3>2, <4>1, <5>1 DEF SameCursor
      <4> QED
        BY <1>3, <2>2, <2>3, <3>2, <4>1, <4>2
    <3> QED
      BY <3>1, <3>2 DEF Upserted
  <2> QED
    BY <2>1, <2>4 DEF WholeBefore
<1> QED
  BY <1>2, <1>3 DEF Follows

\* A step of one process that stores nothing.
LEMMA CurrentMoves ==
  ASSUME CurrentInv, UNCHANGED <<term, stored, overruns>>,
         \A q \in Dashboard : lease'.owner = q => lease.owner = q,
         NEW p \in Dashboard,
         \A q \in Dashboard : q # p => task'[q] = task[q] /\ jobs'[q] = jobs[q],
         lease.owner = p /\ Current(p) =>
           CurrentTask(task'[p]) /\ \A job \in Range(jobs'[p]) : CurrentJob(job)
  PROVE  CurrentInv'
<1>1. UNCHANGED <<generations, checkpoint, evidence, status, term, overruns>>
  BY DEF stored
<1>2. \A g \in Generation : g > Len(generations') => evidence'[g] = {}
  BY <1>1 DEF CurrentInv
<1>3. overruns' = 0 => StoredTrue'
  BY <1>1 DEF CurrentInv, StoredTrue
<1>4. ASSUME overruns' = 0, NEW q \in Dashboard, lease'.owner = q PROVE Current(q)'
  <2>1. lease.owner = q /\ Current(q)
    BY <1>1, <1>4 DEF CurrentInv
  <2>2. CurrentTask(task'[q]) /\ \A job \in Range(jobs'[q]) : CurrentJob(job)
    <3>1. CASE q = p
      BY <2>1, <3>1
    <3>2. CASE q # p
      BY <2>1, <3>2 DEF Current
    <3> QED
      BY <3>1, <3>2
  <2> QED
    BY <1>1, <2>2 DEF Current, CurrentTask, CurrentJob
<1> QED
  BY <1>2, <1>3, <1>4 DEF CurrentInv

LEMMA CurrentStays ==
  ASSUME CurrentInv, UNCHANGED <<owned, stored, task, jobs, overruns>>
  PROVE  CurrentInv'
<1>1. UNCHANGED <<generations, checkpoint, evidence, status, lease, term, task, jobs, overruns>>
  BY DEF stored, owned
<1> QED
  BY <1>1 DEF CurrentInv, StoredTrue, Current, CurrentTask, CurrentJob

LEMMA CurrentLease ==
  ASSUME IngestInv, CurrentInv, NEW p \in Dashboard,
         Heartbeat(p) \/ StandDown(p) \/ Stop(p)
  PROVE  CurrentInv'
<1>1. task \in [Dashboard -> Task] /\ jobs \in [Dashboard -> Seq(Job)]
  BY DEF IngestInv
<1>2. CASE Heartbeat(p)
  <2>1. /\ \A q \in Dashboard : q # p => task'[q] = task[q]
        /\ UNCHANGED <<stored, jobs, overruns>> /\ lease'.owner = p
        /\ task'[p] = task[p] \/ task'[p].at = "sleeping"
    BY <1>1, <1>2 DEF Heartbeat, Task
  <2>2. CASE lease.owner = p
    <3>1. term' = term
      BY <1>2, <2>2 DEF Heartbeat
    <3> QED
      BY <2>1, <2>2, <3>1, CurrentMoves DEF Current, CurrentTask
  <2>3. CASE lease.owner # p
    <3>1. term' = term + 1 /\ term \in Nat
      BY <1>2, <2>3, Counts DEF Heartbeat
    <3>2. UNCHANGED <<generations, checkpoint, evidence, status>>
      BY <2>1 DEF stored
    <3>3. task'[p].term # term'
      <4>1. task'[p].term = task[p].term
        BY <1>1, <1>2 DEF Heartbeat, Task
      <4> QED
        BY <3>1, <4>1, Counts
    <3>4. \A job \in Range(jobs'[p]) : job.term # term'
      <4>1. ASSUME NEW job \in Range(jobs[p]) PROVE job.term \in Nat /\ job.term <= term
        <5>1. job \in Job /\ GoodJob(job, World) /\ World.term = term
          BY <1>1, RangeOfSeq, WorldIs DEF IngestInv, Process
        <5> QED
          BY <5>1 DEF GoodJob, Job
      <4> QED
        BY <2>1, <3>1, <4>1
    <3>5. Current(p)'
      BY <3>3, <3>4 DEF Current, CurrentTask, CurrentJob
    <3> QED
      BY <2>1, <3>2, <3>5 DEF CurrentInv, StoredTrue
  <2> QED
    BY <2>2, <2>3
<1>3. CASE StandDown(p)
  <2>1. /\ UNCHANGED <<lease, term, stored, overruns>> /\ lease.owner # p
        /\ \A q \in Dashboard : q # p => task'[q] = task[q] /\ jobs'[q] = jobs[q]
    BY <1>1, <1>3 DEF StandDown, Acquirable
  <2> QED
    BY <2>1, CurrentMoves
<1>4. CASE Stop(p)
  <2>1. /\ UNCHANGED <<term, stored, overruns>>
        /\ \A q \in Dashboard : q # p => task'[q] = task[q] /\ jobs'[q] = jobs[q]
        /\ task'[p] = NoTask /\ jobs'[p] = <<>>
    BY <1>1, <1>4 DEF Stop
  <2>2. \A q \in Dashboard : lease'.owner = q => lease.owner = q
    BY <1>4, IngestionAssumption DEF Stop, IngestInv, OwnedOK
  <2>3. CurrentTask(task'[p]) /\ Range(jobs'[p]) = {}
    BY <2>1, NoTaskIs, FitsEmpty DEF CurrentTask, Range
  <2> QED
    BY <2>1, <2>2, <2>3, CurrentMoves
<1> QED
  BY <1>2, <1>3, <1>4

\* A task that goes on without the worker, or sleeps.
LEMMA CurrentPlain ==
  ASSUME IngestInv, CurrentInv, UNCHANGED <<owned, stored, overruns>>, NEW p \in Dashboard,
         NEW t, task' = [task EXCEPT ![p] = t], CurrentTask(t),
         \/ UNCHANGED jobs
         \/ jobs[p] # <<>> /\ jobs' = [jobs EXCEPT ![p] = Tail(jobs[p])]
  PROVE  CurrentInv'
<1>1. /\ \A q \in Dashboard : q # p => task'[q] = task[q] /\ jobs'[q] = jobs[q]
      /\ task'[p] = t /\ UNCHANGED <<lease, term>> /\ jobs[p] \in Seq(Job)
      /\ Fits(task[p], jobs[p])
  BY DEF IngestInv, owned, Process
<1>2. Range(jobs'[p]) \subseteq Range(jobs[p])
  <2>1. jobs[p] # <<>> => Range(Tail(jobs[p])) \subseteq Range(jobs[p])
    BY <1>1, FitsDone
  <2> QED
    BY <2>1 DEF IngestInv
<1> QED
  BY <1>1, <1>2, CurrentMoves DEF Current

LEMMA CurrentSubmits ==
  ASSUME IngestInv, CurrentInv, UNCHANGED <<owned, stored, overruns>>, NEW p \in Dashboard,
         NEW job \in Job, Submit(p, job), NEW t, task' = [task EXCEPT ![p] = t], CurrentTask(t),
         lease.owner = p /\ Current(p) => CurrentJob([job EXCEPT !.awaited = TRUE, !.term = task[p].term])
  PROVE  CurrentInv'
<1> DEFINE new == [job EXCEPT !.awaited = TRUE, !.term = task[p].term]
<1>1. jobs' = [jobs EXCEPT ![p] = Append(jobs[p], new)]
  BY DEF Submit
<1>2. new \in Job /\ jobs[p] \in Seq(Job)
  BY Counts DEF Job
<1> HIDE DEF new
<1>3. Range(Append(jobs[p], new)) = Range(jobs[p]) \cup {new}
  <2>1. /\ DOMAIN Append(jobs[p], new) = 1 .. Len(jobs[p]) + 1
        /\ DOMAIN jobs[p] = 1 .. Len(jobs[p]) /\ Len(jobs[p]) \in Nat
        /\ \A k \in 1 .. Len(jobs[p]) : Append(jobs[p], new)[k] = jobs[p][k]
        /\ Append(jobs[p], new)[Len(jobs[p]) + 1] = new
    BY <1>2, AppendProperties, LenProperties
  <2>2. \A k \in 1 .. Len(jobs[p]) + 1 : k \in 1 .. Len(jobs[p]) \/ k = Len(jobs[p]) + 1
    BY <2>1
  <2>3. /\ Len(jobs[p]) + 1 \in 1 .. Len(jobs[p]) + 1
        /\ \A k \in 1 .. Len(jobs[p]) : k \in 1 .. Len(jobs[p]) + 1
    BY <2>1
  <2> QED
    BY <2>1, <2>2, <2>3 DEF Range
<1>4. /\ \A q \in Dashboard : q # p => task'[q] = task[q] /\ jobs'[q] = jobs[q]
      /\ task'[p] = t /\ jobs'[p] = Append(jobs[p], new) /\ UNCHANGED <<lease, term>>
  BY <1>1 DEF IngestInv, owned
<1> QED
  BY <1>3, <1>4, CurrentMoves DEF Current, new

\* The owner's task begins with the checkpoint, and what it has the worker do is
\* about it.
LEMMA CurrentStep ==
  ASSUME IngestInv, CurrentInv, NEW p \in Dashboard,
         BeginTick(p) \/ FetchPage(p) \/ CursorRejected(p) \/ Probe(p) \/ EndTick(p)
           \/ ObserverFails(p)
  PROVE  CurrentInv'
<1>1. CASE BeginTick(p)
  <2> DEFINE t == task'[p]
  <2>1. /\ UNCHANGED <<owned, stored, jobs, overruns>> /\ task' = [task EXCEPT ![p] = t]
        /\ \/ t.at = "ticked"
           \/ t.gen = checkpoint.gen /\ t.cursor = checkpoint.cursor
    BY <1>1 DEF BeginTick, Goto, NoTask, IngestInv
  <2>2. CurrentTask(t)
    BY <2>1 DEF CurrentTask
  <2> HIDE DEF t
  <2> QED
    BY <2>1, <2>2, CurrentPlain
<1>2. CASE FetchPage(p)
  <2> DEFINE job == [NoJob EXCEPT !.does = "page", !.gen = task[p].gen,
                                  !.cursor = task[p].cursor, !.page = ReadPage(task[p].cursor)]
             sent == [job EXCEPT !.awaited = TRUE, !.term = task[p].term]
             t == [Going(p, "persisting") EXCEPT !.left = task[p].left - 1]
  <2>1. /\ UNCHANGED <<owned, stored, overruns>> /\ task[p].at = "polling"
        /\ task' = [task EXCEPT ![p] = t] /\ Submit(p, job)
        /\ ~Rejects(task[p].cursor)
    BY <1>2 DEF FetchPage, Goto
  <2>2. t.at # "polling"
    BY GoingIs DEF Task
  <2>3. CurrentTask(t)
    BY <2>2 DEF CurrentTask
  <2>4. ReadPage(task[p].cursor) \in Page
    <3>1. task[p].cursor \in Cursor /\ Reached(task[p].cursor, disk) /\ DiskOK
      BY Counts, WorldIs DEF IngestInv, Process, GoodTask, Task
    <3> QED
      BY <2>1, <3>1, PageFollows
  <2> DEFINE page == ReadPage(task[p].cursor)
  <2> HIDE DEF page
  <2>5. job \in Job /\ job.does = "page" /\ job.gen = task[p].gen /\ job.cursor = task[p].cursor
    <3>1. job = [NoJob EXCEPT !.does = "page", !.gen = task[p].gen,
                              !.cursor = task[p].cursor, !.page = page]
      BY DEF page
    <3>2. page \in Page
      BY <2>4 DEF page
    <3> HIDE DEF job
    <3> QED
      BY <3>1, <3>2, Counts, NoJobIs DEF Job, Task
  <2> HIDE DEF job
  <2>6. sent.does = "page" /\ sent.gen = task[p].gen /\ sent.cursor = task[p].cursor
        /\ sent.awaited = TRUE /\ sent.term = task[p].term
    BY <2>5 DEF Job
  <2> HIDE DEF t, sent
  <2>7. Current(p) => CurrentJob(sent)
    BY <2>1, <2>6 DEF Current, CurrentTask, CurrentJob
  <2> QED
    BY <2>1, <2>3, <2>5, <2>7, CurrentSubmits DEF sent
<1>3. CASE CursorRejected(p)
  <2> DEFINE t == [Going(p, "probing") EXCEPT !.gen = checkpoint.gen]
  <2>1. UNCHANGED <<owned, stored, jobs, overruns>> /\ task' = [task EXCEPT ![p] = t]
    BY <1>3 DEF CursorRejected, Goto
  <2>2. CurrentTask(t)
    BY GoingIs DEF CurrentTask, Task
  <2> HIDE DEF t
  <2> QED
    BY <2>1, <2>2, CurrentPlain
<1>4. CASE Probe(p)
  <2> DEFINE looked == [NoPage EXCEPT !.of = ReadPage(NoCursor).of]
             job == [NoJob EXCEPT !.does = "roll", !.page = looked]
             sent == [job EXCEPT !.awaited = TRUE, !.term = task[p].term]
  <2>1. /\ UNCHANGED <<owned, stored, overruns>>
        /\ \/ Ends(p, "retained") /\ UNCHANGED jobs
           \/ Submit(p, job) /\ task' = [task EXCEPT ![p] = Going(p, "persisting")]
    BY <1>4 DEF Probe, Goto
  <2>2. CASE Ends(p, "retained") /\ UNCHANGED jobs
    <3>1. PICK t \in Task : task' = [task EXCEPT ![p] = t] /\ t.at = "ticked"
      BY <2>2, EndingIs DEF Outcome
    <3>2. CurrentTask(t)
      BY <3>1 DEF CurrentTask
    <3> QED
      BY <2>1, <2>2, <3>1, <3>2, CurrentPlain
  <2>3. CASE Submit(p, job) /\ task' = [task EXCEPT ![p] = Going(p, "persisting")]
    <3>1. CurrentTask(Going(p, "persisting"))
      BY GoingIs DEF CurrentTask
    <3>2. looked \in Page
      <4>1. ReadPage(NoCursor) \in Page
        <5>1. ~Rejects(NoCursor) /\ Reached(NoCursor, disk) /\ DiskOK
          BY NoCursorIs, ObservedAssumption
             DEF Rejects, Reached, IngestInv, DiskOK, Disk, Position
        <5> QED
          BY <5>1, NoCursorIs, PageFollows
      <4> DEFINE page == ReadPage(NoCursor)
      <4> HIDE DEF page
      <4> QED
        BY <4>1, NoJobIs DEF Page, page
    <3> HIDE DEF looked
    <3>4. job \in Job /\ job.does = "roll"
      BY <3>2, RollIs
    <3> HIDE DEF job
    <3>5. sent.does = "roll" /\ sent.awaited = TRUE
      BY <3>4 DEF Job
    <3> HIDE DEF sent
    <3>6. CurrentJob(sent)
      BY <3>5 DEF CurrentJob
    <3> QED
      BY <2>1, <2>3, <3>1, <3>4, <3>6, CurrentSubmits DEF sent
  <2> QED
    BY <2>1, <2>2, <2>3
<1>5. CASE EndTick(p)
  <2> DEFINE job == [NoJob EXCEPT !.does = "rebuild", !.gen = checkpoint.gen]
             sent == [job EXCEPT !.awaited = TRUE, !.term = task[p].term]
  <2>1. /\ UNCHANGED <<owned, stored, overruns>>
        /\ \/ Sleep(p) /\ UNCHANGED jobs
           \/ Submit(p, job) /\ task' = [task EXCEPT ![p] = Going(p, "rebuilding")]
    BY <1>5 DEF EndTick, Goto
  <2>2. CASE Sleep(p) /\ UNCHANGED jobs
    <3>1. PICK t \in Task : task' = [task EXCEPT ![p] = t] /\ t.at = "sleeping"
      BY <2>2, SleepingIs
    <3>2. CurrentTask(t)
      BY <3>1 DEF CurrentTask
    <3> QED
      BY <2>1, <2>2, <3>1, <3>2, CurrentPlain
  <2>3. CASE Submit(p, job) /\ task' = [task EXCEPT ![p] = Going(p, "rebuilding")]
    <3>1. CurrentTask(Going(p, "rebuilding"))
      BY GoingIs DEF CurrentTask
    <3>2. job \in Job /\ job.does = "rebuild" /\ job.gen = checkpoint.gen
      BY NoJobIs, NoCursorIs, Counts DEF Job
    <3> HIDE DEF job
    <3>3. sent.does = "rebuild" /\ sent.gen = checkpoint.gen /\ sent.awaited = TRUE
      BY <3>2 DEF Job
    <3> HIDE DEF sent
    <3>4. CurrentJob(sent)
      BY <3>3 DEF CurrentJob
    <3> QED
      BY <2>1, <2>3, <3>1, <3>2, <3>4, CurrentSubmits DEF sent
  <2> QED
    BY <2>1, <2>2, <2>3
<1>6. CASE ObserverFails(p)
  <2>1. /\ UNCHANGED <<owned, stored, jobs, overruns>>
        /\ Sleep(p) \/ \E outcome \in Outcome : Ends(p, outcome)
    BY <1>6 DEF ObserverFails, Outcome
  <2>2. PICK t \in Task : task' = [task EXCEPT ![p] = t] /\ t.at # "polling"
    BY <2>1, SleepingIs, EndingIs
  <2>3. CurrentTask(t)
    BY <2>2 DEF CurrentTask
  <2> QED
    BY <2>1, <2>2, <2>3, CurrentPlain
<1> QED
  BY <1>1, <1>2, <1>3, <1>4, <1>5, <1>6

LEMMA CurrentFailure ==
  ASSUME IngestInv, CurrentInv, NEW p \in Dashboard, WorkFails(p)
  PROVE  CurrentInv'
<1> DEFINE job == Head(jobs[p])
           error == [job EXCEPT !.does = "error"]
<1>1. /\ UNCHANGED <<owned, stored, overruns>> /\ jobs[p] # <<>>
      /\ \/ /\ job.awaited /\ job.does = "rebuild"
            /\ jobs' = [jobs EXCEPT ![p] = <<error>>] /\ UNCHANGED task
         \/ /\ jobs' = [jobs EXCEPT ![p] = Tail(jobs[p])]
            /\ Sleep(p) \/ UNCHANGED task
  BY DEF WorkFails
<1>2. /\ task \in [Dashboard -> Task] /\ jobs[p] \in Seq(Job) /\ Fits(task[p], jobs[p])
      /\ UNCHANGED <<lease, term>>
  BY <1>1, Counts DEF IngestInv, owned
<1>3. /\ job \in Job /\ job \in Range(jobs[p])
      /\ Range(Tail(jobs[p])) \subseteq Range(jobs[p])
  BY <1>1, <1>2, FitsDone
<1>4. CASE /\ job.awaited /\ job.does = "rebuild"
           /\ jobs' = [jobs EXCEPT ![p] = <<error>>] /\ UNCHANGED task
  <2>1. /\ error.does = "error" /\ error.gen = job.gen /\ error.term = job.term
        /\ error.awaited = job.awaited
    BY <1>3 DEF Job
  <2>2. Current(p) => CurrentJob(error)
    BY <1>3, <1>4, <2>1 DEF Current, CurrentJob
  <2> HIDE DEF error
  <2>3. jobs'[p] = <<error>> /\ Range(jobs'[p]) = {error}
    BY <1>4 DEF Range, IngestInv
  <2>4. \A q \in Dashboard : q # p => task'[q] = task[q] /\ jobs'[q] = jobs[q]
    BY <1>4 DEF IngestInv
  <2> QED
    BY <1>1, <1>2, <1>4, <2>2, <2>3, <2>4, CurrentMoves DEF Current
<1>5. CASE /\ jobs' = [jobs EXCEPT ![p] = Tail(jobs[p])]
           /\ Sleep(p) \/ UNCHANGED task
  <2>1. CASE Sleep(p)
    <3>1. PICK t \in Task : task' = [task EXCEPT ![p] = t] /\ t.at = "sleeping"
      BY <2>1, SleepingIs
    <3>2. CurrentTask(t)
      BY <3>1 DEF CurrentTask
    <3> QED
      BY <1>1, <1>5, <3>1, <3>2, CurrentPlain
  <2>2. CASE UNCHANGED task
    <3>1. /\ \A q \in Dashboard : q # p => task'[q] = task[q] /\ jobs'[q] = jobs[q]
          /\ task'[p] = task[p] /\ jobs'[p] = Tail(jobs[p])
      BY <1>5, <2>2 DEF IngestInv
    <3> QED
      BY <1>1, <1>2, <1>3, <3>1, CurrentMoves DEF Current
  <2> QED
    BY <1>5, <2>1, <2>2
<1> QED
  BY <1>1, <1>4, <1>5

\* While nothing is written for a lost lease, the worker's job is the one that
\* the owner's task waits for, and is about the checkpoint.
LEMMA WorkIsCurrent ==
  ASSUME IngestInv, CurrentInv, NEW p \in Dashboard, Work(p), overruns' = 0
  PROVE  /\ overruns = 0 /\ lease.owner = p /\ StoredTrue
         /\ Head(jobs[p]) \in Job /\ GoodJob(Head(jobs[p]), World)
         /\ Head(jobs[p]).awaited /\ CurrentJob(Head(jobs[p])) /\ Head(jobs[p]).term = term
         /\ jobs'[p] = <<>> /\ lease' = lease /\ term' = term
<1> DEFINE job == Head(jobs[p])
<1>1. overruns = 0 /\ lease.owner = p /\ job.term = term
  <2>1. \/ lease.owner = p /\ job.term = term /\ overruns' = overruns
        \/ overruns' = overruns + 1
    BY DEF Work
  <2>2. overruns \in Nat
    BY IngestionAssumption DEF IngestInv, Counted
  <2> QED
    BY <2>1, <2>2
<1>2. /\ jobs[p] # <<>> /\ jobs[p] \in Seq(Job) /\ Fits(task[p], jobs[p]) /\ Process(p)
      /\ jobs' = [jobs EXCEPT ![p] = Tail(jobs[p])] /\ lease' = lease /\ term' = term
  BY Counts DEF Work, IngestInv, owned
<1>3. /\ job \in Job /\ job \in Range(jobs[p])
      /\ job.awaited => Tail(jobs[p]) = <<>>
  BY <1>2, FitsDone
<1>4. StoredTrue /\ Current(p)
  BY <1>1 DEF CurrentInv
<1>5. CurrentJob(job) /\ job.awaited
  BY <1>1, <1>3, <1>4 DEF Current, CurrentJob
<1>6. GoodJob(job, World)
  BY <1>2, <1>3 DEF Process
<1>7. jobs'[p] = <<>>
  BY <1>2, <1>3, <1>5 DEF IngestInv
<1> QED
  BY <1>1, <1>2, <1>3, <1>4, <1>5, <1>6, <1>7

LEMMA CurrentWork ==
  ASSUME IngestInv, IngestInv', CurrentInv, NEW p \in Dashboard, Work(p)
  PROVE  CurrentInv'
<1> DEFINE job == Head(jobs[p])
<1>1. /\ UNCHANGED <<observed, owned>> /\ jobs[p] # <<>> /\ jobs[p] \in Seq(Job)
      /\ Fits(task[p], jobs[p])
      /\ \/ job.does = "page" /\ PersistPage(p, job)
         \/ job.does = "roll" /\ RollGeneration(p, job)
         \/ job.does = "rebuild" /\ Rebuild(p, job)
         \/ job.does = "error" /\ MarkError(p, job)
  <2>1. job.does \in {"page", "roll", "rebuild", "error"} /\ jobs[p] \in Seq(Job) /\ Fits(task[p], jobs[p])
    BY FitsDone, Counts DEF Work, Job
  <2> QED
    BY <2>1 DEF Work
<1>2. /\ job \in Job /\ GoodJob(job, World) /\ World.opened = Len(generations)
      /\ job.gen \in 0 .. MaxGeneration /\ job.gen <= Len(generations) /\ job.gen \in Nat
      /\ job.page \in Page /\ job.page.of \in Identity
  <2>1. job \in Job /\ GoodJob(job, World) /\ World.opened = Len(generations)
    BY <1>1, FitsDone, WorldIs DEF IngestInv, Process
  <2> QED
    BY <2>1, IngestionAssumption DEF GoodJob, Job, Page
<1>3. /\ StoredOK /\ StoredOK' /\ Len(generations) \in Nat /\ Len(generations) <= MaxGeneration
      /\ checkpoint.gen \in 0 .. MaxGeneration /\ checkpoint.gen <= Len(generations)
      /\ checkpoint.gen \in Nat
      /\ evidence \in [Generation -> SUBSET Record]
      /\ \A h \in Generation : h > Len(generations) => evidence[h] = {}
  BY Counts DEF IngestInv, StoredOK, CurrentInv
<1>4. ASSUME overruns' = 0, StoredTrue', CurrentTask(task[p])' PROVE
      \A q \in Dashboard : lease'.owner = q => Current(q)'
  <2>1. /\ lease.owner = p /\ lease' = lease /\ jobs'[p] = <<>>
    BY <1>4, WorkIsCurrent
  <2>2. Range(jobs'[p]) = {}
    BY <2>1, FitsEmpty DEF Range
  <2> QED
    BY <1>4, <2>1, <2>2 DEF Current
<1>5. CASE job.does = "page" /\ PersistPage(p, job)
  <2> DEFINE fresh == job.gen = NoGeneration
             g == IF fresh THEN Len(generations) + 1 ELSE job.gen
             rows == Upserted(evidence[g], job.page.records)
             new == Advanced(job.page, job.cursor)
  <2>1. /\ fresh => Len(generations) < MaxGeneration
        /\ generations' = IF fresh THEN Opened(job.page.of) ELSE generations
        /\ evidence' = [evidence EXCEPT ![g] = rows]
        /\ status' = IF fresh THEN Preparing(g)
                     ELSE IF Unsafe(evidence[g], job.page.records) /\ status.is = "READY"
                     THEN [status EXCEPT !.is = "REBUILDING"] ELSE status
        /\ checkpoint'.gen = g /\ checkpoint'.cursor = new
        /\ \/ ~job.awaited /\ task' = task
           \/ \E outcome \in Outcome : Ends(p, outcome)
           \/ task' = [task EXCEPT ![p] = [Going(p, "polling") EXCEPT !.gen = g, !.cursor = new,
                                                                    !.left = task[p].left]]
    BY <1>5 DEF PersistPage, Goto, Outcome
  <2> HIDE DEF rows, new
  <2>2. /\ g \in Generation /\ g \in Nat /\ Len(generations') \in Nat /\ g <= Len(generations')
        /\ Len(generations) <= Len(generations')
    <3>1. CASE fresh
      BY <1>2, <1>3, <2>1, <3>1, OpenedIs
    <3>2. CASE ~fresh
      BY <1>2, <1>3, <2>1, <3>2 DEF Generation
    <3> QED
      BY <3>1, <3>2
  <2>3. /\ evidence'[g] = rows
        /\ \A h \in Generation : h # g => evidence'[h] = evidence[h]
    BY <1>3, <2>1, <2>2
  <2>4. \A h \in Generation : h > Len(generations') => evidence'[h] = {}
    BY <1>3, <2>2, <2>3 DEF Generation
  <2>5. ASSUME overruns' = 0 PROVE StoredTrue'
    <3>1. StoredTrue /\ job.cursor = checkpoint.cursor /\ job.gen = checkpoint.gen
      BY <1>5, <2>5, WorkIsCurrent DEF CurrentJob
    <3>2. /\ evidence[g] \in SUBSET Record /\ job.cursor \in Cursor /\ Follows(job.page, job.cursor)
      BY <1>2, <1>3, <1>5, <2>2 DEF GoodJob, Job
    <3>3. WholeBefore(evidence[g], job.cursor)
      <4>1. CASE fresh
        BY <1>2, <1>3, <2>2, <4>1 DEF WholeBefore
      <4>2. CASE ~fresh
        BY <3>1, <4>2 DEF StoredTrue
      <4> QED
        BY <4>1, <4>2
    <3>4. WholeBefore(rows, new)
      BY <1>2, <3>2, <3>3, PageIsWhole DEF rows, new
    <3>5. \A r, t \in rows : r.of = t.of
      BY <3>4 DEF WholeBefore
    <3>6. status'.is = "READY" => status'.gen = g
      <4>1. CASE fresh
        BY <2>1, <4>1 DEF Preparing
      <4>2. CASE ~fresh
        BY <1>3, <2>1, <3>1, <4>2 DEF StoredTrue, StoredOK
      <4> QED
        BY <4>1, <4>2
    <3>7. \A h \in Generation : \A r, t \in evidence'[h] : r.of = t.of
      BY <2>3, <3>1, <3>5 DEF StoredTrue
    <3> QED
      BY <2>1, <2>3, <3>4, <3>6, <3>7 DEF StoredTrue
  <2>6. ASSUME overruns' = 0 PROVE CurrentTask(task[p])'
    <3>1. job.awaited
      BY <2>6, WorkIsCurrent
    <3>2. CASE \E outcome \in Outcome : Ends(p, outcome)
      <4>1. PICK t \in Task : task' = [task EXCEPT ![p] = t] /\ t.at = "ticked"
        BY <3>2, EndingIs
      <4> QED
        BY <4>1 DEF CurrentTask, IngestInv
    <3>3. CASE task' = [task EXCEPT ![p] = [Going(p, "polling") EXCEPT !.gen = g, !.cursor = new,
                                                                    !.left = task[p].left]]
      <4>1. task'[p].gen = g /\ task'[p].cursor = new
        BY <3>3 DEF Going, NoTask, IngestInv
      <4> QED
        BY <2>1, <4>1 DEF CurrentTask
    <3> QED
      BY <2>1, <3>1, <3>2, <3>3
  <2> QED
    BY <1>4, <2>4, <2>5, <2>6 DEF CurrentInv
<1>6. CASE job.does = "roll" /\ RollGeneration(p, job)
  <2> DEFINE g == Len(generations) + 1
  <2>1. /\ g <= MaxGeneration /\ generations' = Opened(job.page.of) /\ UNCHANGED evidence
        /\ status' = [gen |-> g, is |-> "PREPARING"]
        /\ checkpoint' = [gen |-> g, cursor |-> NoCursor, halted |-> FALSE]
        /\ IF job.awaited THEN Ends(p, "rolled") ELSE UNCHANGED task
    BY <1>6 DEF RollGeneration, Preparing, FromTheStart
  <2>2. Len(generations') = Len(generations) + 1 /\ g \in Generation /\ g > Len(generations)
    BY <1>2, <1>3, <2>1, OpenedIs, IngestionAssumption
  <2>3. \A h \in Generation : h > Len(generations') => evidence'[h] = {}
    BY <1>3, <2>1, <2>2 DEF Generation
  <2>4. evidence[g] = {}
    BY <1>3, <2>2
  <2>5. ASSUME overruns' = 0 PROVE StoredTrue' /\ CurrentTask(task[p])'
    <3>1. StoredTrue /\ job.awaited
      BY <2>5, WorkIsCurrent
    <3>2. StoredTrue'
      BY <2>1, <2>4, <3>1 DEF StoredTrue, WholeBefore
    <3>3. PICK t \in Task : task' = [task EXCEPT ![p] = t] /\ t.at = "ticked"
      BY <2>1, <3>1, EndingIs DEF Outcome
    <3> QED
      BY <3>2, <3>3 DEF CurrentTask, IngestInv
  <2> QED
    BY <1>4, <2>3, <2>5 DEF CurrentInv
<1>7. CASE \/ job.does = "rebuild" /\ Rebuild(p, job)
           \/ job.does = "error" /\ MarkError(p, job)
  <2>1. /\ UNCHANGED <<generations, checkpoint, evidence>>
        /\ IF job.awaited THEN Sleep(p) ELSE UNCHANGED task
        /\ \/ job.does = "rebuild" /\ status' = [gen |-> job.gen, is |-> "READY"]
           \/ status' = status
           \/ status' = [status EXCEPT !.is = "ERROR"]
    BY <1>7 DEF Rebuild, MarkError, Published
  <2>2. \A h \in Generation : h > Len(generations') => evidence'[h] = {}
    BY <1>3, <2>1
  <2>3. ASSUME overruns' = 0 PROVE StoredTrue' /\ CurrentTask(task[p])'
    <3>1. StoredTrue /\ job.awaited /\ (job.does # "roll" => job.gen = checkpoint.gen)
      BY <2>3, WorkIsCurrent DEF CurrentJob
    <3>2. status'.is = "READY" => status'.gen = checkpoint.gen
      BY <1>3, <1>7, <2>1, <3>1 DEF StoredTrue, StoredOK
    <3>3. StoredTrue'
      BY <2>1, <3>1, <3>2 DEF StoredTrue
    <3>4. PICK t \in Task : task' = [task EXCEPT ![p] = t] /\ t.at = "sleeping"
      BY <2>1, <3>1, SleepingIs
    <3> QED
      BY <3>3, <3>4 DEF CurrentTask, IngestInv
  <2> QED
    BY <1>4, <2>2, <2>3 DEF CurrentInv
<1> QED
  BY <1>1, <1>5, <1>6, <1>7

LEMMA CurrentNext ==
  IngestInv /\ IngestInv' /\ CurrentInv /\ [Next]_vars => CurrentInv'
<1> SUFFICES ASSUME IngestInv, IngestInv', CurrentInv, [Next]_vars PROVE CurrentInv'
  OBVIOUS
<1>1. CASE DiskNext /\ UNCHANGED <<owned, stored, task, jobs, failures, overruns>>
  BY <1>1, CurrentStays
<1>2. CASE LeaseExpires
  <2>1. UNCHANGED <<term, stored, task, jobs, overruns>> /\ lease'.owner = lease.owner
    BY <1>2 DEF LeaseExpires, IngestInv, OwnedOK
  <2>2. UNCHANGED <<generations, checkpoint, evidence, status>>
    BY <2>1 DEF stored
  <2> QED
    BY <2>1, <2>2 DEF CurrentInv, StoredTrue, Current, CurrentTask, CurrentJob
<1>3. ASSUME NEW p \in Dashboard, Heartbeat(p) \/ StandDown(p) \/ Stop(p)
      PROVE  CurrentInv'
  BY <1>3, CurrentLease
<1>4. ASSUME NEW p \in Dashboard, Step(p) \/ ObserverFails(p) \/ WorkFails(p)
      PROVE  CurrentInv'
  BY <1>4, CurrentStep, CurrentWork, CurrentFailure DEF Step
<1>5. CASE UNCHANGED vars
  BY <1>5, CurrentStays DEF vars
<1> QED
  BY <1>1, <1>2, <1>3, <1>4, <1>5 DEF Next

THEOREM CurrentInvariant == Spec => []CurrentInv
<1>1. Init => CurrentInv
  BY CurrentInit
<1>2. IngestInv /\ IngestInv' /\ CurrentInv /\ [Next]_vars => CurrentInv'
  BY CurrentNext
<1> QED
  BY <1>1, <1>2, IngestInvariant, PTL DEF Spec

-----------------------------------------------------------------------------
\* EvidenceIsTrue: unless a worker has written for a lease it had lost, what is
\* stored of a generation is of one log, and whole before the checkpoint
\* (_persist_page, _handle_cursor_log_replaced).
THEOREM EvidenceStaysTrue == Spec => []EvidenceIsTrue
<1>1. ASSUME CurrentInv PROVE EvidenceIsTrue
  BY <1>1 DEF CurrentInv, StoredTrue, WholeBefore, EvidenceIsTrue
<1> QED
  BY <1>1, CurrentInvariant, PTL

\* ServedIsComplete: unless a worker has written for a lease it had lost, a view
\* that says READY is that of the checkpoint's generation, and complete
\* (_maybe_rebuild, rebuild_read_models).
THEOREM CompleteIsServed == Spec => []ServedIsComplete
<1>1. ASSUME IngestInv, CurrentInv PROVE ServedIsComplete
  BY <1>1 DEF IngestInv, StoredOK, CurrentInv, StoredTrue, ServedIsComplete, Served
<1> QED
  BY <1>1, IngestInvariant, CurrentInvariant, PTL

\* CursorNeverRetreats: a page that is empty, torn or delivered again never takes
\* the checkpoint of its generation back (_persist_page, unless for a lost lease).
THEOREM CursorsAdvance == Spec => CursorNeverRetreats
<1> DEFINE Advances ==
      overruns' = 0 /\ checkpoint'.gen = checkpoint.gen =>
        checkpoint'.cursor.at >= checkpoint.cursor.at
<1>1. ASSUME IngestInv, CurrentInv, Next PROVE Advances
  <2> SUFFICES ASSUME overruns' = 0, checkpoint'.gen = checkpoint.gen
               PROVE  checkpoint'.cursor.at >= checkpoint.cursor.at
    OBVIOUS
  <2>1. checkpoint.cursor.at \in Nat /\ Len(generations) \in Nat
        /\ checkpoint.gen \in Nat /\ checkpoint.gen <= Len(generations)
    BY <1>1, Counts DEF Cursor, Position
  <2>2. CASE UNCHANGED checkpoint
    BY <2>1, <2>2
  <2>3. ASSUME NEW p \in Dashboard, Work(p)
        PROVE  checkpoint'.cursor.at >= checkpoint.cursor.at
    <3> DEFINE job == Head(jobs[p])
    <3>1. /\ job \in Job /\ GoodJob(job, World)
          /\ job.does = "page" => job.cursor = checkpoint.cursor
          /\ job.does # "roll" => job.gen = checkpoint.gen
      BY <1>1, <2>3, WorkIsCurrent DEF CurrentJob
    <3>2. CASE job.does = "page" /\ PersistPage(p, job)
      <4>1. checkpoint'.cursor = Advanced(job.page, job.cursor)
        BY <3>2 DEF PersistPage
      <4> QED
        BY <3>1, <3>2, <4>1 DEF GoodJob, Follows
    <3>3. CASE job.does = "roll" /\ RollGeneration(p, job)
      <4>1. checkpoint'.gen = Len(generations) + 1
        BY <3>3 DEF RollGeneration, FromTheStart
      <4> QED
        BY <2>1, <4>1
    <3>4. CASE \/ job.does = "rebuild" /\ Rebuild(p, job)
               \/ job.does = "error" /\ MarkError(p, job)
      BY <2>2, <3>4 DEF Rebuild, MarkError
    <3> QED
      BY <2>3, <3>1, <3>2, <3>3, <3>4 DEF Work, Job
  <2>4. (\E p \in Dashboard : Work(p)) \/ UNCHANGED checkpoint
    BY <1>1 DEF Next, Step, DiskNext, LeaseExpires, Heartbeat, StandDown, Stop, BeginTick,
                FetchPage, CursorRejected, Probe, EndTick, ObserverFails, WorkFails, stored
  <2> QED
    BY <2>2, <2>3, <2>4
<1>2. IngestInv /\ CurrentInv /\ [Next]_vars => [Advances]_vars
  BY <1>1
<1> QED
  BY <1>2, IngestInvariant, CurrentInvariant, PTL DEF Spec, CursorNeverRetreats

=============================================================================
