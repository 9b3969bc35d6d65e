----------------------------- MODULE Ingestion -----------------------------
(***************************************************************************)
(* How the dashboard's processes index one registered repository           *)
(* (lease.py, scheduler.py, poller.py, indexer.py, read_model_worker.py,   *)
(* and of read_models.py what decides which rows are served).              *)
(*                                                                         *)
(* Processes share one database.  The one that holds the lease runs a task *)
(* per repository, which fetches pages from the observer on the event loop *)
(* and hands each to the process' worker thread, where it is persisted in  *)
(* one transaction.  A process that finds the lease taken cancels its      *)
(* task, but not what the task has given to its worker.                    *)
(*                                                                         *)
(* Views are abstracted to the records they reflect: every record stands   *)
(* for an entity of its own.  ReadModels says what a view makes of them.   *)
(***************************************************************************)
EXTENDS ObservedLog, SequencesExt

CONSTANTS
  Dashboard,        \* the processes that share the database
  NoDashboard,      \* nobody, or an owner that has gone
  MaxPages,         \* pages in a tick (4 in the code)
  MaxGeneration,    \* bound: identity generations
  MaxTerm,          \* bound: times the lease is acquired
  MaxFailures,      \* bound: failed observers and jobs, stopped processes
  MaxOverruns       \* bound: jobs a worker runs for a lease since lost (when
                    \* they are used up, nothing begins without it)

ASSUME IngestionAssumption ==
  /\ NoDashboard \notin Dashboard
  /\ MaxPages \in Nat \ {0}
  /\ MaxGeneration \in Nat \ {0}
  /\ MaxTerm \in Nat \ {0}
  /\ MaxFailures \in Nat
  /\ MaxOverruns \in Nat

VARIABLES
  lease,        \* indexer_lease: the owner, and whether its heartbeat is recent
  term,         \* history: how often the lease has been acquired
  leader,       \* who believes to be the indexer
  generations,  \* identity_generations, in the order they were opened
  checkpoint,   \* the repository's row of checkpoints
  evidence,     \* generation -> the records stored
  shown,        \* generation -> the records its view rows reflect
  status,       \* the repository's row of read_model_state
  task,         \* the repository's task in each process
  jobs,         \* what each worker has been given
  failures,     \* failed observers and jobs, stopped processes
  overruns      \* jobs a worker has run for a lease since lost

owned == <<lease, term, leader>>
stored == <<generations, checkpoint, evidence, shown, status>>
vars == <<observed, owned, stored, task, jobs, failures, overruns>>

Generation == 1 .. MaxGeneration
NoGeneration == 0

NoCheckpoint == [gen |-> NoGeneration, cursor |-> NoCursor, halted |-> FALSE]
NoStatus == [gen |-> NoGeneration, is |-> "NONE"]
NoTask == [at |-> "none", gen |-> NoGeneration, cursor |-> NoCursor,
           left |-> 0, term |-> 0, outcome |-> "none"]
NoJob == [does |-> "none", gen |-> NoGeneration, cursor |-> NoCursor, page |-> NoPage,
          awaited |-> FALSE, term |-> 0]

Init ==
  /\ DiskInit
  /\ lease = [owner |-> NoDashboard, fresh |-> FALSE]
  /\ term = 0
  /\ leader = [p \in Dashboard |-> FALSE]
  /\ generations = <<>>
  /\ checkpoint = NoCheckpoint
  /\ evidence = [g \in Generation |-> {}]
  /\ shown = [g \in Generation |-> {}]
  /\ status = NoStatus
  /\ task = [p \in Dashboard |-> NoTask]
  /\ jobs = [p \in Dashboard |-> <<>>]
  /\ failures = 0
  /\ overruns = 0

-----------------------------------------------------------------------------
(* The lease: lease.py, and _lease_loop with the tasks it starts and stops.*)

\* The heartbeat is older than the lease's time to live.
LeaseExpires ==
  /\ lease.fresh
  /\ lease' = [lease EXCEPT !.fresh = FALSE]
  /\ UNCHANGED <<observed, term, leader, stored, task, jobs, failures, overruns>>

\* acquire_or_renew
Acquirable(p) == lease.owner = p \/ ~lease.fresh

Heartbeat(p) ==
  /\ Acquirable(p)
  /\ lease.owner # p => term < MaxTerm
  /\ lease' = [owner |-> p, fresh |-> TRUE]
  /\ term' = IF lease.owner = p THEN term ELSE term + 1
  /\ leader' = [leader EXCEPT ![p] = TRUE]
  /\ task' = IF task[p].at = "none" THEN [task EXCEPT ![p].at = "sleeping"] ELSE task
  /\ UNCHANGED <<observed, stored, jobs, failures, overruns>>

\* A cancelled task no longer waits for what it has given to the worker, which
\* runs all the same.  Fault: the answer still reaches the task.
FaultyAbandoned(queue) == queue
Abandoned(queue) == [k \in DOMAIN queue |-> [queue[k] EXCEPT !.awaited = FALSE]]

\* The lease is lost: the task is cancelled where it waits.
StandDown(p) ==
  /\ ~Acquirable(p)
  /\ leader[p]
  /\ leader' = [leader EXCEPT ![p] = FALSE]
  /\ task' = [task EXCEPT ![p] = NoTask]
  /\ jobs' = [jobs EXCEPT ![p] = Abandoned(@)]
  /\ UNCHANGED <<observed, lease, term, stored, failures, overruns>>

\* The process stops or dies; another start has another owner token.
Stop(p) ==
  /\ leader[p] \/ jobs[p] # <<>>
  /\ failures < MaxFailures
  /\ failures' = failures + 1
  /\ lease' = IF lease.owner = p THEN [lease EXCEPT !.owner = NoDashboard] ELSE lease
  /\ leader' = [leader EXCEPT ![p] = FALSE]
  /\ task' = [task EXCEPT ![p] = NoTask]
  /\ jobs' = [jobs EXCEPT ![p] = <<>>]
  /\ UNCHANGED <<observed, term, stored, overruns>>

-----------------------------------------------------------------------------
(* A tick of the repository's task: _repo_loop, ingest_repository_tick,    *)
(* poll_pages.                                                             *)

\* The task, as it goes on.
Going(p, to) == [NoTask EXCEPT !.at = to, !.term = task[p].term]
Goto(p, next) == task' = [task EXCEPT ![p] = next]
WithinBound(p) == lease.owner = p \/ overruns < MaxOverruns
Submit(p, job) ==
  /\ WithinBound(p)
  /\ jobs' = [jobs EXCEPT ![p] =
                 Append(@, [job EXCEPT !.awaited = TRUE, !.term = task[p].term])]

Ends(p, outcome) == Goto(p, [Going(p, "ticked") EXCEPT !.outcome = outcome])
Sleep(p) == Goto(p, [NoTask EXCEPT !.at = "sleeping"])

BeginTick(p) ==
  /\ task[p].at = "sleeping"
  /\ WithinBound(p)
  /\ IF checkpoint.halted
     THEN Goto(p, [NoTask EXCEPT !.at = "ticked", !.outcome = "halted", !.term = term])
     ELSE Goto(p, [NoTask EXCEPT !.at = "polling", !.gen = checkpoint.gen,
                                 !.cursor = checkpoint.cursor, !.left = MaxPages,
                                 !.term = term])
  /\ UNCHANGED <<observed, owned, stored, jobs, failures, overruns>>

FetchPage(p) ==
  /\ task[p].at = "polling"
  /\ ~Rejects(task[p].cursor)
  /\ Submit(p, [NoJob EXCEPT !.does = "page", !.gen = task[p].gen,
                             !.cursor = task[p].cursor, !.page = ReadPage(task[p].cursor)])
  /\ Goto(p, [Going(p, "persisting") EXCEPT !.left = task[p].left - 1])
  /\ UNCHANGED <<observed, owned, stored, failures, overruns>>

\* CURSOR_LOG_REPLACED: the cursor may be older than a generation this tick
\* has opened, so the checkpoint is read again.
CursorRejected(p) ==
  /\ task[p].at = "polling"
  /\ Rejects(task[p].cursor)
  /\ Goto(p, [Going(p, "probing") EXCEPT !.gen = checkpoint.gen])
  /\ UNCHANGED <<observed, owned, stored, jobs, failures, overruns>>

\* A timeout, an observer that cannot be run, or output that is not a page;
\* after the tick, attention's own job on the worker.
ObserverFails(p) ==
  /\ task[p].at \in {"polling", "probing", "ticked"}
  /\ failures < MaxFailures
  /\ failures' = failures + 1
  /\ CASE task[p].at = "polling" -> Ends(p, "error")
       [] task[p].at = "probing" -> Ends(p, "retained")
       [] task[p].at = "ticked" -> Sleep(p)
  /\ UNCHANGED <<observed, owned, stored, jobs, overruns>>

\* _identity_matches
\* Fault: a probe is taken for the log it was made to confirm.
FaultyMatches(g, identity) == g # NoGeneration
Matches(g, identity) == g # NoGeneration /\ generations[g] = identity

\* _handle_cursor_log_replaced: a fresh look from the beginning.
Probe(p) ==
  /\ task[p].at = "probing"
  /\ LET page == ReadPage(NoCursor)
     IN IF ~page.available \/ Matches(task[p].gen, page.of)
        THEN Ends(p, "retained") /\ UNCHANGED jobs
        ELSE /\ Submit(p, [NoJob EXCEPT !.does = "roll",
                                         !.page = [NoPage EXCEPT !.of = page.of]])
             /\ Goto(p, Going(p, "persisting"))
  /\ UNCHANGED <<observed, owned, stored, failures, overruns>>

\* _maybe_rebuild, after every tick that was not an error.
NeedsRebuild(outcome) ==
  /\ checkpoint.gen # NoGeneration
  /\ \/ status.gen # checkpoint.gen
     \/ status.is \in {"NONE", "PREPARING", "REBUILDING", "ERROR"}
  /\ \/ status.is \in {"REBUILDING", "ERROR"}
     \/ outcome \in {"caught up", "halted"}

EndTick(p) ==
  /\ task[p].at = "ticked"
  /\ IF task[p].outcome # "error" /\ NeedsRebuild(task[p].outcome)
     THEN /\ Submit(p, [NoJob EXCEPT !.does = "rebuild", !.gen = checkpoint.gen])
          /\ Goto(p, Going(p, "rebuilding"))
     ELSE Sleep(p) /\ UNCHANGED jobs
  /\ UNCHANGED <<observed, owned, stored, failures, overruns>>

-----------------------------------------------------------------------------
(* The worker's transactions.                                              *)

OKRecords(rows) == {r \in rows : r.is = "OK"}

Opened(identity) == Append(generations, identity)
\* mark_preparing.  Fault: a new generation is not marked.
FaultyPreparing(g) == status
Preparing(g) == [gen |-> g, is |-> "PREPARING"]

\* _upsert_evidence_and_detect_corrupt: a row is replaced by what now starts at
\* its cursor.
SameCursor(r, new) == r.at = new.at /\ r.of = new.of
Upserted(rows, records) ==
  {r \in rows : \A new \in Range(records) : ~SameCursor(r, new)} \cup Range(records)

\* An OK row whose content has changed: the views may hold what it said.
\* Fault: nothing is.
FaultyUnsafe(rows, records) == FALSE
Unsafe(rows, records) ==
  \E r \in OKRecords(rows), new \in Range(records) : SameCursor(r, new) /\ r # new

\* What the checkpoint's cursor becomes: the page's own, or the last record's.
\* Fault: a page without records, and without a cursor, begins again.
FaultyAdvanced(page, cursor) ==
  IF page.next # NoCursor \/ page.records = <<>> THEN page.next
  ELSE [at |-> Last(page.records).at, of |-> page.of]
Advanced(page, cursor) ==
  IF page.next # NoCursor THEN page.next
  ELSE IF page.records = <<>> THEN cursor
  ELSE [at |-> Last(page.records).at, of |-> page.of]

Oversized(page) == \E r \in Range(page.records) : r.is = "OVERSIZED"

\* _persist_page
PersistPage(p, job) ==
  LET fresh == job.gen = NoGeneration
      g == IF fresh THEN Len(generations) + 1 ELSE job.gen
      rows == Upserted(evidence[g], job.page.records)
      new == Advanced(job.page, job.cursor)
      halted == Oversized(job.page)
      left == task[p].left
  IN /\ fresh => Len(generations) < MaxGeneration
     /\ generations' = IF fresh THEN Opened(job.page.of) ELSE generations
     /\ evidence' = [evidence EXCEPT ![g] = rows]
     /\ shown' = [shown EXCEPT ![g] = @ \cup (OKRecords(rows) \ OKRecords(evidence[g]))]
     /\ status' = IF fresh THEN Preparing(g)
                  ELSE IF Unsafe(evidence[g], job.page.records) /\ status.is = "READY"
                  THEN [status EXCEPT !.is = "REBUILDING"] ELSE status
     /\ checkpoint' = [gen |-> g, cursor |-> new, halted |-> halted]
     /\ IF ~job.awaited THEN UNCHANGED task
        ELSE IF halted THEN Ends(p, "halted")
        ELSE IF left = 0 THEN Ends(p, "all pages used")
        ELSE IF ~job.page.more THEN Ends(p, "caught up")
        ELSE Goto(p, [Going(p, "polling") EXCEPT !.gen = g, !.cursor = new, !.left = left])

\* The checkpoint of a generation that has just been opened.
\* Fault: it keeps the cursor of the one before.
FaultyFromTheStart(g) == [gen |-> g, cursor |-> checkpoint.cursor, halted |-> FALSE]
FromTheStart(g) == [gen |-> g, cursor |-> NoCursor, halted |-> FALSE]

\* _open_generation_and_checkpoint
RollGeneration(p, job) ==
  LET g == Len(generations) + 1
  IN /\ g <= MaxGeneration
     /\ generations' = Opened(job.page.of)
     /\ status' = Preparing(g)
     /\ checkpoint' = FromTheStart(g)
     /\ IF job.awaited THEN Ends(p, "rolled") ELSE UNCHANGED task
     /\ UNCHANGED <<evidence, shown>>

Holds(p) == lease.owner = p /\ lease.fresh

\* rebuild_read_models: the lease is checked under the write lock, and the rows
\* of other generations are pruned with the publication.
Published(g) ==
  /\ shown' = [h \in Generation |-> IF h = g THEN OKRecords(evidence[g]) ELSE {}]
  /\ status' = [gen |-> g, is |-> "READY"]

Rebuild(p, job) ==
  /\ IF Holds(p) THEN Published(job.gen) ELSE UNCHANGED <<shown, status>>
  /\ IF job.awaited THEN Sleep(p) ELSE UNCHANGED task
  /\ UNCHANGED <<generations, checkpoint, evidence>>

\* mark_error, under the same check.
MarkError(p, job) ==
  /\ status' = IF Holds(p) /\ status.gen = job.gen
               THEN [status EXCEPT !.is = "ERROR"] ELSE status
  /\ IF job.awaited THEN Sleep(p) ELSE UNCHANGED task
  /\ UNCHANGED <<generations, checkpoint, evidence, shown>>

Work(p) ==
  /\ jobs[p] # <<>>
  /\ LET job == Head(jobs[p])
     IN /\ CASE job.does = "page" -> PersistPage(p, job)
             [] job.does = "roll" -> RollGeneration(p, job)
             [] job.does = "rebuild" -> Rebuild(p, job)
             [] job.does = "error" -> MarkError(p, job)
        /\ IF lease.owner = p /\ job.term = term THEN UNCHANGED overruns
           ELSE /\ overruns < MaxOverruns
                /\ overruns' = overruns + 1
  /\ jobs' = [jobs EXCEPT ![p] = Tail(@)]
  /\ UNCHANGED <<observed, owned, failures>>

\* A transaction that raises is rolled back.  The tick is over, except that a
\* failed rebuild is put on record.
WorkFails(p) ==
  /\ jobs[p] # <<>>
  /\ failures < MaxFailures
  /\ failures' = failures + 1
  /\ LET job == Head(jobs[p])
     IN IF job.awaited /\ job.does = "rebuild" /\ Holds(p)
        THEN /\ jobs' = [jobs EXCEPT ![p] = <<[job EXCEPT !.does = "error"]>>]
             /\ UNCHANGED task
        ELSE /\ jobs' = [jobs EXCEPT ![p] = Tail(@)]
             /\ IF job.awaited THEN Sleep(p) ELSE UNCHANGED task
  /\ UNCHANGED <<observed, owned, stored, overruns>>

-----------------------------------------------------------------------------
Step(p) ==
  \/ BeginTick(p) \/ FetchPage(p) \/ CursorRejected(p) \/ Probe(p) \/ EndTick(p)
  \/ Work(p)

Next ==
  \/ DiskNext /\ UNCHANGED <<owned, stored, task, jobs, failures, overruns>>
  \/ LeaseExpires
  \/ \E p \in Dashboard :
       \/ Heartbeat(p) \/ StandDown(p) \/ Stop(p)
       \/ Step(p) \/ ObserverFails(p) \/ WorkFails(p)

Spec == Init /\ [][Next]_vars

\* The event loop and the worker run, and the heartbeat comes round.  Nothing
\* is assumed of the log, the observer or the lease's expiry.
FairSpec ==
  /\ Spec
  /\ \A p \in Dashboard : WF_vars(Heartbeat(p)) /\ WF_vars(Step(p))

-----------------------------------------------------------------------------
TypeOK ==
  /\ disk \in Disk /\ losses \in 0 .. MaxLosses
  /\ lease \in [owner: Dashboard \cup {NoDashboard}, fresh: BOOLEAN]
  /\ term \in 0 .. MaxTerm
  /\ leader \in [Dashboard -> BOOLEAN]
  /\ generations \in Seq(Identity) /\ Len(generations) <= MaxGeneration
  /\ checkpoint \in [gen: 0 .. Len(generations), cursor: Cursor, halted: BOOLEAN]
  /\ evidence \in [Generation -> SUBSET Record]
  /\ shown \in [Generation -> SUBSET Record]
  /\ status \in [gen: 0 .. Len(generations),
                 is: {"NONE", "PREPARING", "READY", "REBUILDING", "ERROR"}]
  /\ \A p \in Dashboard :
       /\ task[p].at \in {"none", "sleeping", "polling", "persisting", "probing",
                          "ticked", "rebuilding"}
       /\ task[p].gen \in 0 .. MaxGeneration
       /\ task[p].cursor \in Cursor
       /\ task[p].left \in 0 .. MaxPages
       /\ task[p].at \in {"persisting", "rebuilding"}
            <=> \E k \in DOMAIN jobs[p] : jobs[p][k].awaited
  /\ failures \in 0 .. MaxFailures
  /\ overruns \in 0 .. MaxOverruns

\* What a checkpoint has left behind is stored: every record before its cursor,
\* whatever was replaced, torn or lost, even when two processes write at once
\* (docs/19: the durable checkpoint, and the boundary record delivered again).
NothingSkipped ==
  checkpoint.gen # NoGeneration =>
    \A k \in Position : k < checkpoint.cursor.at =>
      \E r \in evidence[checkpoint.gen] : r.at = k /\ r.of = checkpoint.cursor.of

\* A generation holds the records of one log, and those before the cursor are
\* whole, as long as no worker has written for a lease it had lost.
EvidenceIsTrue ==
  overruns = 0 =>
    /\ \A g \in Generation : \A r, t \in evidence[g] : r.of.file = t.of.file
    /\ checkpoint.gen # NoGeneration =>
         \A r \in evidence[checkpoint.gen] : r.at < checkpoint.cursor.at => r.is = "OK"

\* The view rows of a complete generation reflect all of its evidence, even
\* when two processes write at once.
ShownIsStored ==
  status.is = "READY" => shown[status.gen] = OKRecords(evidence[status.gen])

\* What is served as complete is (docs/27, decision 9): queries join the rows of
\* the checkpoint's generation.
Served ==
  status.is = "READY" =>
    /\ status.gen = checkpoint.gen
    /\ ShownIsStored

\* It is, as long as no worker has written for a lease it had lost.
ServedIsComplete == overruns = 0 => Served

\* The checkpoint of a generation never goes back, whatever the page has been:
\* empty, torn, or the boundary record delivered again (unless by a worker that
\* has lost the lease, which may go on from a cursor that is old by then).
CursorNeverRetreats ==
  [][overruns' = 0 /\ checkpoint'.gen = checkpoint.gen =>
       checkpoint'.cursor.at >= checkpoint.cursor.at]_vars

\* Indexed up to the end of the log that is there, and served; or halted at a
\* record too large to be read (docs/19: terminally).
Indexed ==
  \/ checkpoint.halted
  \/ /\ status.is = "READY" /\ checkpoint.gen # NoGeneration
     /\ \A k \in 1 .. disk.lines : Records(disk)[k] \in evidence[checkpoint.gen]

\* A log that stays is caught up with by a process that keeps the lease,
\* whatever was replaced, torn or failed before (scheduler.py: retried on every
\* tick).
CatchesUp ==
  <>[](disk.there /\ \E p \in Dashboard : Holds(p)) => <>[]Indexed

=============================================================================
