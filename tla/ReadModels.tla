----------------------------- MODULE ReadModels -----------------------------
(***************************************************************************)
(* The view tables of one identity generation (read_models.py, the rows    *)
(* indexer.py stores, and the v2->v3 migration), and the conditions that   *)
(* attention.py derives from them (LiveUpdates says how these are opened). *)
(* A page is persisted with the views of the entities it names, and no     *)
(* others; a rebuild replaces them all.                                    *)
(*                                                                         *)
(* Every action is a transaction or a job of the worker thread.  A page is *)
(* one record here: those of a longer page are stored in one transaction.  *)
(* Who may run these jobs, and over which generation, is Ingestion's.      *)
(***************************************************************************)
EXTENDS EvidenceViews, FiniteSets, Functions

CONSTANTS
  Histories,     \* bound: the logs that are indexed when the run begins
  MaxNew,        \* bound: records that arrive after it
  Altered,       \* bound: what an altered record may come to say
  MaxOddities    \* bound: records strict replay would not accept, and complete
                 \* ones that are altered in place

ASSUME ReadModelsAssumption ==
  /\ \A h \in Histories : h \in Seq(Event)
  /\ \E h \in Histories : \A g \in Histories : Len(g) <= Len(h)
  /\ MaxNew \in Nat \ {0}
  /\ Altered \subseteq Event
  /\ MaxOddities \in Nat

MaxRows == MaxNew + (CHOOSE n \in {Len(h) : h \in Histories} :
                        \A h \in Histories : Len(h) <= n)

VARIABLES
  known,      \* history: how many records were indexed when the run began
  evidence,   \* the rows of the generation, in the order they were inserted
  corrupt,    \* the event ids two OK rows have claimed with different bytes
  views,      \* the view rows
  version,    \* of the schema: 3 has proxy cost
  status,     \* the repository's read_model_state
  edits,      \* history: records that were altered
  oddities    \* history: records strict replay would not accept

vars == <<known, evidence, corrupt, views, version, status, edits, oddities>>

Torn == [is |-> "TORN", event |-> Blank, id |-> 0]
Malformed == [is |-> "MALFORMED", event |-> Blank, id |-> 0]
OK(e, id) == [is |-> "OK", event |-> e, id |-> id]
Row == {Torn, Malformed} \cup {OK(e, id) : e \in Event, id \in 1 .. MaxRows}

\* fetch_ok_evidence_rows: ordered by event id, those that share one in the
\* order of insertion.
Good(rows) == {k \in DOMAIN rows : rows[k].is = "OK"}
Before(rows, j, k) ==
  rows[j].id < rows[k].id \/ (rows[j].id = rows[k].id /\ j < k)
Rank(rows, k) == Cardinality({j \in Good(rows) : j = k \/ Before(rows, j, k)})
OKRows(rows) ==
  [n \in 1 .. Cardinality(Good(rows)) |->
     rows[CHOOSE k \in Good(rows) : Rank(rows, k) = n]]

\* Before version 3 an execution had no cost.
WithoutCost(v) ==
  [v EXCEPT !.execution = [x \in Execution |-> [@[x] EXCEPT !.cost = "unknown"]]]
Projected(rows) ==
  IF version = 3 THEN Views(OKRows(rows)) ELSE WithoutCost(Views(OKRows(rows)))

Init ==
  /\ \E h \in Histories :
       /\ known = Len(h)
       /\ evidence = [k \in DOMAIN h |-> OK(h[k], k)]
  /\ corrupt = {}
  /\ version \in {2, 3}
  /\ views = Projected(evidence)
  /\ status = "PREPARING"
  /\ edits = 0
  /\ oddities = 0

-----------------------------------------------------------------------------
(* _persist_page                                                           *)

\* The entities named by an OK record whose content is new.  Fault: a run is
\* not looked at again when it finishes.
FaultyNamed(row, key) ==
  IF row.is = "OK" /\ row.event.type # "RunFinished" THEN {row.event[key]} \ {None} ELSE {}
Named(row, key) == IF row.is = "OK" THEN {row.event[key]} \ {None} ELSE {}

\* apply_changed_entities_locked: an entity without a view keeps the row it has.
Applied1(new, old, none, named) ==
  [k \in DOMAIN old |-> IF k \in named /\ new[k] # none THEN new[k] ELSE old[k]]
Updated(old, new, row) ==
  [issue |-> Applied1(new.issue, old.issue, NoView, Named(row, "issue")),
   execution |-> Applied1(new.execution, old.execution, NoView, Named(row, "execution")),
   containment |->
     [b \in DOMAIN old.containment |->
        IF b[1] \in Named(row, "execution") THEN new.containment[b] ELSE old.containment[b]],
   run |-> Applied1(new.run, old.run, NoRun, Named(row, "run"))]

Conflicts(row) ==
  row.is = "OK" /\ \E n \in DOMAIN evidence :
    evidence[n].is = "OK" /\ evidence[n].id = row.id /\ evidence[n].event # row.event

\* mark_rebuilding, when a row that was OK has other content now.
\* Fault: only when it still is OK.
FaultyUnsafe(old, row) == old.is = "OK" /\ row.is = "OK" /\ old # row
Unsafe(old, row) == old.is = "OK" /\ old # row

Persist(k, row) ==
  LET old == IF k \in DOMAIN evidence THEN evidence[k] ELSE Torn
      rows == IF k \in DOMAIN evidence THEN [evidence EXCEPT ![k] = row]
              ELSE Append(evidence, row)
      changed == k \notin DOMAIN evidence \/ old # row
  IN /\ evidence' = rows
     /\ corrupt' = IF Conflicts(row) THEN corrupt \cup {row.id} ELSE corrupt
     /\ views' = IF changed THEN Updated(views, Projected(rows), row) ELSE views
     /\ status' = IF Unsafe(old, row) /\ status = "READY" THEN "REBUILDING" ELSE status
     /\ UNCHANGED <<known, version>>

WithinBounds == edits + oddities < MaxOddities

\* The record behind the last one; an unfinished one comes again until it is
\* whole.  Its id is the next, or was used before by an append that failed.
Arrives(k) ==
  \/ k = Len(evidence) + 1 /\ (k > 1 => evidence[k - 1] # Torn)
  \/ k = Len(evidence) /\ k > 0 /\ evidence[k] = Torn

RecordArrives ==
  \E k \in 1 .. known + MaxNew :
    LET s == Strict(OKRows(evidence))
        regular(row) == row = Torn \/ (row.is = "OK" /\ row.id = k /\ Accepts(s, row.event))
    IN /\ Arrives(k)
       /\ \E row \in {Torn, Malformed} \cup {OK(e, id) : e \in Event, id \in {k, k - 1} \ {0}} :
            /\ row = Torn => k \notin DOMAIN evidence
            /\ regular(row) \/ WithinBounds
            /\ oddities' = IF regular(row) THEN oddities ELSE oddities + 1
            /\ Persist(k, row)
       /\ UNCHANGED edits

\* The log is edited in place, which the identity of its first record and of
\* the file does not show.
RecordAltered ==
  /\ WithinBounds
  /\ edits' = edits + 1
  /\ \E k \in DOMAIN evidence :
       /\ evidence[k].is = "OK"
       /\ \E row \in ({Malformed} \cup {OK(e, evidence[k].id) : e \in Altered}) \ {evidence[k]} :
            Persist(k, row)
  /\ UNCHANGED oddities

-----------------------------------------------------------------------------
(* The other jobs.                                                         *)

\* rebuild_read_models
Rebuild ==
  /\ status # "READY"
  /\ views' = Projected(evidence)
  /\ status' = "READY"
  /\ UNCHANGED <<known, evidence, corrupt, version, edits, oddities>>

\* mark_error: the rebuild has been rolled back.
RebuildFails ==
  /\ status # "READY"
  /\ status' = "ERROR"
  /\ UNCHANGED <<known, evidence, corrupt, views, version, edits, oddities>>

\* The process is started again as version 3 (_apply_v2_to_v3_ddl).
\* Fault: complete read models are left alone.
FaultyUpgraded == status
Upgraded == IF status = "READY" THEN "REBUILDING" ELSE status
Upgrade ==
  /\ version = 2
  /\ version' = 3
  /\ status' = Upgraded
  /\ UNCHANGED <<known, evidence, corrupt, views, edits, oddities>>

\* derive_repository_conditions, of what it reads here
Inconsistent(v) ==
  {<<"INCONSISTENT_ISSUE", i>> : i \in {i \in Issue : v.issue[i].bad}} \cup
  {<<"INCONSISTENT_EXECUTION", x>> : x \in {x \in Execution : v.execution[x].bad}} \cup
  {<<"INCONSISTENT_RUN", r>> : r \in {r \in Run : v.run[r].bad}}

\* Fault: a released one is one too many.
FaultyOpenBox(v, b) == v.containment[b].state # "NONE"
OpenBox(v, b) == v.containment[b].state \in {"PREPARED", "ESTABLISHED", "UNCONFIRMED"}
Conditions(v) ==
  {<<"CORRUPT_EVIDENCE", id>> : id \in corrupt} \cup
  {<<"MALFORMED_EVIDENCE", 0>> : k \in {k \in DOMAIN evidence : evidence[k] = Malformed}} \cup
  {<<"UNKNOWN_EVENT_TYPES", 0>> :
     k \in {k \in DOMAIN evidence : evidence[k].event.type = "Unheard"}} \cup
  {<<v.issue[i].state, i>> :
     i \in {i \in Issue : v.issue[i].state \in {"NEEDS_HUMAN", "NEEDS_DECOMPOSITION"}}} \cup
  {<<"CONTAINMENT_UNCONFIRMED", b>> :
     b \in {b \in DOMAIN v.containment :
              v.execution[b[1]] # NoView /\ v.containment[b].state = "UNCONFIRMED"}} \cup
  {<<"CONTAINMENT_UNRELEASED", b>> :
     b \in {b \in DOMAIN v.containment :
              v.execution[b[1]].state \in Terminal /\ OpenBox(v, b)}} \cup
  Inconsistent(v)

Next ==
  \/ RecordArrives \/ RecordAltered
  \/ Rebuild \/ RebuildFails \/ Upgrade

Spec == Init /\ [][Next]_vars

-----------------------------------------------------------------------------
View(states) ==
  [state: {"NONE"} \cup states, workspace: Workspace \cup {None},
   cost: {"unknown", "metered"}, last: 0 .. MaxRows, bad: BOOLEAN]
IssueState == {"PENDING", "ACTIVE", "DONE", "NEEDS_HUMAN", "NEEDS_DECOMPOSITION"}
ExecutionState == {"EXECUTING", "VALIDATING", "REVIEWING"} \cup Terminal
ContainmentState == {"PREPARED", "ESTABLISHED", "UNCONFIRMED", "RELEASED"}
RunRow == [started: 0 .. MaxRows, record: {"none", "complete", "malformed"},
           finished: 0 .. MaxRows, from: 0 .. MaxRows, until: 0 .. MaxRows,
           last: 0 .. MaxRows, bad: BOOLEAN]

\* The tables, with what ties a row to another: a view that exists says which
\* event moved it last, an outcome is not shown before a finish was observed,
\* and what was observed is not later than what is shown.
TypeOK ==
  /\ evidence \in Seq(Row) /\ known \in Nat /\ Len(evidence) <= known + MaxNew
  /\ corrupt \subseteq 1 .. MaxRows
  /\ views \in
       [issue: [Issue -> View(IssueState)],
        execution: [Execution -> View(ExecutionState \cup {"Pending reconciliation"})],
        containment: [Execution \X Generation -> View(ContainmentState)],
        run: [Run -> RunRow]]
  /\ version \in {2, 3}
  /\ status \in {"PREPARING", "READY", "REBUILDING", "ERROR"}
  /\ edits \in Nat /\ oddities \in Nat /\ edits + oddities <= MaxOddities
  /\ \A r \in Run : LET v == views.run[r]
                    IN /\ v.finished # 0 => v.until # 0 /\ v.until <= v.finished
                       /\ v.from <= v.started

\* What is served as complete is what a projection of all the evidence gives:
\* replaying only the entities a page names, or migrating, loses nothing that
\* is not put right before READY is shown again.
ReadyIsComplete == status = "READY" => views = Projected(evidence)

\* A log the runtime can replay, with every run started and finished once, is
\* one in which the dashboard finds no fault, and it shows every entity in the
\* state the runtime has it in.
OncePerRun(rows) ==
  \A j, k \in DOMAIN rows :
    /\ rows[j].event.type \in {"RunStarted", "RunFinished"}
    /\ rows[j].event.type = rows[k].event.type /\ rows[j].event.run = rows[k].event.run
    => j = k
Sound(rows) == Replayable(rows) /\ OncePerRun(rows)

Shown(state) == IF state = "EXECUTING" THEN "Pending reconciliation" ELSE state
StrictAgrees ==
  LET rows == OKRows(evidence)
      s == Strict(rows)
      v == Views(rows)
  IN Sound(rows) =>
       /\ Inconsistent(v) = {}
       /\ \A i \in Issue : v.issue[i].state = s.issue[i]
       /\ \A x \in Execution : v.execution[x].state = Shown(s.execution[x])
       /\ \A b \in Execution \X Generation :
            /\ ~v.containment[b].bad
            /\ v.containment[b].state = s.box[b].state
            /\ v.containment[b].workspace = s.box[b].workspace

\* Over such a log, as long as no record was ever altered, the operator is asked
\* to look at exactly what the runtime's own state says needs a human: nothing is
\* reported corrupt or inconsistent, and no containment that could still hold the
\* workspace after its execution has ended is left out.
Wanted(s) ==
  {<<s.issue[i], i>> : i \in {i \in Issue : s.issue[i] \in {"NEEDS_HUMAN", "NEEDS_DECOMPOSITION"}}}
  \cup {<<"CONTAINMENT_UNCONFIRMED", b>> : b \in {b \in DOMAIN s.box : s.box[b].state = "UNCONFIRMED"}}
  \cup {<<"CONTAINMENT_UNRELEASED", b>> :
          b \in {b \in DOMAIN s.box : /\ s.execution[b[1]] \in Terminal
                                      /\ s.box[b].state \notin {"NONE", "RELEASED"}}}
AttentionIsWarranted ==
  LET rows == OKRows(evidence)
  IN edits = 0 /\ Malformed \notin Range(evidence) /\ Sound(rows) =>
       Conditions(views) = Wanted(Strict(rows))

=============================================================================
