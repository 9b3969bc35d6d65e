---------------------------- MODULE EvidenceViews ----------------------------
(***************************************************************************)
(* Two readings of one event log.  The dashboard's tolerant reducer        *)
(* (draindeck_dashboard/projections.py) folds whatever rows it has into a  *)
(* view per entity, and marks a view inconsistent where the rows make no   *)
(* sense.  The runtime's strict replay (runtime/events/projections.py)     *)
(* refuses a log with one illegal event.  They share the transition tables *)
(* of issues and executions and nothing else.                              *)
(*                                                                         *)
(* An event is what either reading tells apart.  `outcome' is what its     *)
(* payload decides, and "malformed" a payload that is not well formed.     *)
(***************************************************************************)
EXTENDS Naturals, Sequences

CONSTANTS
  Issue, Execution, Run,
  Generation,   \* containment generations
  Workspace,    \* workspace keys
  None          \* a null column

ASSUME NoneAssumption == None \notin Issue \cup Execution \cup Run

Blank == [type |-> "none", issue |-> None, execution |-> None, run |-> None,
          generation |-> None, workspace |-> None, outcome |-> "none", cost |-> "unknown"]

IssueEvent(type, outcome) ==
  {[Blank EXCEPT !.type = type, !.outcome = outcome, !.issue = i] : i \in Issue}
OnExecution(type, outcome, cost, i, x) ==
  [Blank EXCEPT !.type = type, !.outcome = outcome, !.cost = cost,
                !.issue = i, !.execution = x]
ExecutionEvent(type, outcome, cost) ==
  {OnExecution(type, outcome, cost, i, x) : i \in Issue, x \in Execution}
InRun(e, r) == [e EXCEPT !.run = r]
OnBoundary(type, i, x, g, w) ==
  [Blank EXCEPT !.type = type, !.issue = i, !.execution = x, !.generation = g,
                !.workspace = w]
ContainmentEvent(type) ==
  {OnBoundary(type, i, x, g, w) :
     i \in Issue, x \in Execution, g \in Generation, w \in Workspace}
RunEvent(type, outcome) ==
  {[Blank EXCEPT !.type = type, !.outcome = outcome, !.run = r] : r \in Run}

Unheard == [Blank EXCEPT !.type = "Unheard"]

ContainmentType == {"ContainmentPrepared", "ContainmentEstablished",
                    "TerminationUnconfirmed", "ContainmentReleased"}

Event ==
  (UNION {IssueEvent(type, "none") : type \in {"IssueCreated", "IssueActivated", "IssueCompleted"}})
  \cup (UNION {IssueEvent("IssueEscalated", outcome) : outcome \in {"human", "decompose"}})
  \cup ExecutionEvent("ExecutionFinished", "finished", "metered")
  \cup ExecutionEvent("ExecutionFinished", "REJECTED", "unknown")
  \cup (UNION {ExecutionEvent(type, "none", "unknown") :
                 type \in {"ExecutionCrashed", "ValidationPassed", "ValidationFailed",
                           "ReviewApproved", "ReviewRejected", "CommitIntent", "CommitCreated"}})
  \cup {InRun(e, r) : e \in ExecutionEvent("ExecutionSpawned", "none", "unknown"), r \in Run}
  \cup (UNION {ContainmentEvent(type) : type \in ContainmentType})
  \cup (UNION {RunEvent("RunStarted", outcome) : outcome \in {"complete", "malformed"}})
  \cup (UNION {RunEvent("RunFinished", outcome) : outcome \in {"COMPLETED", "malformed"}})
  \cup {Unheard}

-----------------------------------------------------------------------------
(* The transition tables both readings use (runtime/state/transitions).    *)

Move(from, type, outcome, to) == [from |-> from, type |-> type, outcome |-> outcome, to |-> to]

IssueMoves ==
  {Move("PENDING", "IssueActivated", "none", "ACTIVE"),
   Move("ACTIVE", "IssueCompleted", "none", "DONE"),
   Move("ACTIVE", "IssueEscalated", "human", "NEEDS_HUMAN"),
   Move("ACTIVE", "IssueEscalated", "decompose", "NEEDS_DECOMPOSITION")}

ExecutionMoves ==
  {Move("EXECUTING", "ExecutionFinished", "finished", "VALIDATING"),
   Move("EXECUTING", "ExecutionFinished", "REJECTED", "REJECTED"),
   Move("EXECUTING", "ExecutionCrashed", "none", "CRASHED"),
   Move("VALIDATING", "ValidationPassed", "none", "REVIEWING"),
   Move("VALIDATING", "ValidationFailed", "none", "REJECTED"),
   Move("REVIEWING", "ReviewApproved", "none", "ACCEPTED"),
   Move("REVIEWING", "ReviewRejected", "none", "REJECTED")}

Legal(moves, state, e) ==
  {m \in moves : m.from = state /\ m.type = e.type /\ m.outcome = e.outcome}
After(moves, state, e) == (CHOOSE m \in Legal(moves, state, e) : TRUE).to

TypesOf(moves) == {m.type : m \in moves}

-----------------------------------------------------------------------------
(* The tolerant reading.                                                   *)

NoView == [state |-> "NONE", workspace |-> None, cost |-> "unknown",
           last |-> 0, bad |-> FALSE]

Marked(view) == [view EXCEPT !.bad = TRUE]

Created(view, row, state) ==
  IF view # NoView THEN Marked(view)
  ELSE [NoView EXCEPT !.state = state, !.workspace = row.event.workspace, !.last = row.id]

\* A view that is missing or inconsistent no longer moves.
Moved(view, row, moves) ==
  IF view = NoView \/ view.bad THEN view
  ELSE IF Legal(moves, view.state, row.event) = {} THEN Marked(view)
  ELSE [view EXCEPT !.state = After(moves, view.state, row.event), !.last = row.id]

\* _apply_issue_created, _apply_issue_transition
IssueStep(view, row) ==
  CASE row.event.type = "IssueCreated" -> Created(view, row, "PENDING")
    [] row.event.type \in TypesOf(IssueMoves) -> Moved(view, row, IssueMoves)
    [] OTHER -> view

\* _capture_usage: only with the finish that is accepted.
Metered(view, before, row) ==
  IF view.state # before.state /\ row.event.type = "ExecutionFinished" /\ row.event.cost = "metered"
  THEN [view EXCEPT !.cost = "metered"] ELSE view

\* _apply_execution_spawned, _apply_execution_transition
ExecutionStep(view, row) ==
  CASE row.event.type = "ExecutionSpawned" -> Created(view, row, "EXECUTING")
    [] row.event.type \in TypesOf(ExecutionMoves) ->
         Metered(Moved(view, row, ExecutionMoves), view, row)
    [] OTHER -> view

\* _CONTAINMENT_TRANSITIONS.  Fault: an unconfirmed one is never released.
FaultyContainmentMoves ==
  {Move("PREPARED", "ContainmentEstablished", "none", "ESTABLISHED"),
   Move("ESTABLISHED", "TerminationUnconfirmed", "none", "UNCONFIRMED"),
   Move("PREPARED", "ContainmentReleased", "none", "RELEASED"),
   Move("ESTABLISHED", "ContainmentReleased", "none", "RELEASED")}
ContainmentMoves ==
  {Move("PREPARED", "ContainmentEstablished", "none", "ESTABLISHED"),
   Move("ESTABLISHED", "TerminationUnconfirmed", "none", "UNCONFIRMED"),
   Move("PREPARED", "ContainmentReleased", "none", "RELEASED"),
   Move("ESTABLISHED", "ContainmentReleased", "none", "RELEASED"),
   Move("UNCONFIRMED", "ContainmentReleased", "none", "RELEASED")}

\* _apply_containment_event, for the rows of one execution
ContainmentStep(view, row, g) ==
  IF row.event.generation # g \/ row.event.type \notin ContainmentType THEN view
  ELSE IF row.event.type = "ContainmentPrepared" THEN Created(view, row, "PREPARED")
  ELSE IF view # NoView /\ ~view.bad /\ view.workspace # row.event.workspace THEN Marked(view)
  ELSE Moved(view, row, ContainmentMoves)

\* `started' and `finished' are the events whose fields are shown, `from' and
\* `until' those that were first observed, 0 before one is; `record' says
\* whether the fields of the one that is shown as its start are well formed.
NoRun == [started |-> 0, record |-> "none", finished |-> 0, from |-> 0, until |-> 0,
          last |-> 0, bad |-> FALSE]

\* _apply_run_started: a second one is an anomaly, and yet a complete record is
\* not hidden by a malformed one before it.
RunStarted(view, row) ==
  LET outcome == row.event.outcome
      taken == [view EXCEPT !.started = row.id, !.record = outcome, !.last = row.id]
  IN IF view = NoRun
     THEN LET first == [taken EXCEPT !.from = row.id]
          IN IF outcome = "complete" THEN first ELSE Marked(first)
     ELSE IF outcome = "complete" /\ view.record # "complete" THEN Marked(taken)
     ELSE Marked(view)

\* _apply_run_finished, likewise.  Fault: a second finish is when it finished.
FaultyRunFinished(view, row) ==
  LET valid == row.event.outcome # "malformed"
      first == [view EXCEPT !.until = row.id]
      taken == IF valid /\ view.finished = 0
               THEN [first EXCEPT !.finished = row.id, !.last = row.id] ELSE first
  IN IF view = NoRun THEN view
     ELSE IF view.until # 0 \/ ~valid THEN Marked(taken) ELSE taken
RunFinished(view, row) ==
  LET valid == row.event.outcome # "malformed"
      first == IF view.until = 0 THEN [view EXCEPT !.until = row.id] ELSE view
      taken == IF valid /\ view.finished = 0
               THEN [first EXCEPT !.finished = row.id, !.last = row.id] ELSE first
  IN IF view = NoRun THEN view
     ELSE IF view.until # 0 \/ ~valid THEN Marked(taken) ELSE taken

RunStep(view, row) ==
  CASE row.event.type = "RunStarted" -> RunStarted(view, row)
    [] row.event.type = "RunFinished" -> RunFinished(view, row)
    [] OTHER -> view

Pending(view) ==
  IF view.state = "EXECUTING" /\ ~view.bad
  THEN [view EXCEPT !.state = "Pending reconciliation"] ELSE view

NoViews ==
  [issue |-> [i \in Issue |-> NoView],
   execution |-> [x \in Execution |-> NoView],
   containment |-> [b \in Execution \X Generation |-> NoView],
   run |-> [r \in Run |-> NoRun]]

\* A row is an event and the event id its line carries.  It moves the views of
\* the entities it names and no others, so that replaying the rows that name an
\* entity gives it the view that replaying all of them does.
Viewed(v, row) ==
  [issue |-> [i \in Issue |->
     IF row.event.issue = i THEN IssueStep(v.issue[i], row) ELSE v.issue[i]],
   execution |-> [x \in Execution |->
     IF row.event.execution = x THEN ExecutionStep(v.execution[x], row) ELSE v.execution[x]],
   containment |-> [b \in Execution \X Generation |->
     IF row.event.execution = b[1] THEN ContainmentStep(v.containment[b], row, b[2])
     ELSE v.containment[b]],
   run |-> [r \in Run |->
     IF row.event.run = r THEN RunStep(v.run[r], row) ELSE v.run[r]]]

\* apply_ok_evidence_rows
Seen(rows) ==
  LET after[k \in 0 .. Len(rows)] ==
        IF k = 0 THEN NoViews ELSE Viewed(after[k - 1], rows[k])
  IN after[Len(rows)]
Views(rows) ==
  LET v == Seen(rows)
  IN [v EXCEPT !.execution = [x \in Execution |-> Pending(v.execution[x])]]

-----------------------------------------------------------------------------
(* The strict reading.                                                     *)

NoBox == [state |-> "NONE", workspace |-> None]
StrictStart ==
  [issue |-> [i \in Issue |-> "NONE"],
   execution |-> [x \in Execution |-> "NONE"],
   of |-> [x \in Execution |-> None],
   recorded |-> [x \in Execution |-> "nothing"],
   box |-> [b \in Execution \X Generation |-> NoBox],
   refused |-> 0]

Terminal == {"ACCEPTED", "REJECTED", "CRASHED"}

\* _execution_spawned: nobody else is at work on an active issue.
MaySpawn(s, e) ==
  /\ s.execution[e.execution] = "NONE"
  /\ s.issue[e.issue] = "ACTIVE"
  /\ \A x \in Execution :
       s.of[x] = e.issue => s.execution[x] \in Terminal

\* _containment_execution, _matching_containment and the four handlers
MayContain(s, e) ==
  LET box == s.box[<<e.execution, e.generation>>]
      mine == /\ s.execution[e.execution] = "EXECUTING"
              /\ s.of[e.execution] = e.issue
      matching == box # NoBox /\ box.workspace = e.workspace
  IN \/ /\ mine /\ e.type = "ContainmentPrepared"
        /\ box = NoBox
        /\ \A g \in Generation :
             s.box[<<e.execution, g>>].state \in {"NONE", "RELEASED"}
     \/ mine /\ e.type = "ContainmentEstablished" /\ matching /\ box.state = "PREPARED"
     \/ mine /\ e.type = "TerminationUnconfirmed" /\ matching /\ box.state = "ESTABLISHED"
     \/ mine /\ e.type = "ContainmentReleased" /\ matching /\ box.state # "RELEASED"

\* The handler of every event type; a type it does not know is refused when the
\* line is decoded.
Accepts(s, e) ==
  \/ e.type = "IssueCreated" /\ s.issue[e.issue] = "NONE"
  \/ e.type \in TypesOf(IssueMoves) /\ Legal(IssueMoves, s.issue[e.issue], e) # {}
  \/ e.type = "ExecutionSpawned" /\ MaySpawn(s, e)
  \/ e.type \in ContainmentType /\ MayContain(s, e)
  \/ e.type \in TypesOf(ExecutionMoves) /\ Legal(ExecutionMoves, s.execution[e.execution], e) # {}
  \/ /\ e.type = "CommitIntent"
     /\ s.execution[e.execution] = "ACCEPTED" /\ s.recorded[e.execution] = "nothing"
  \/ /\ e.type = "CommitCreated"
     /\ s.execution[e.execution] = "ACCEPTED" /\ s.recorded[e.execution] = "intent"
  \/ e.type \in {"RunStarted", "RunFinished"} /\ e.outcome # "malformed"

BoxState ==
  [type \in ContainmentType |->
     CASE type = "ContainmentPrepared" -> "PREPARED"
       [] type = "ContainmentEstablished" -> "ESTABLISHED"
       [] type = "TerminationUnconfirmed" -> "UNCONFIRMED"
       [] type = "ContainmentReleased" -> "RELEASED"]

IssueBecomes(s, e, to) == [s EXCEPT !.issue[e.issue] = to]
ExecutionBecomes(s, e, to) == [s EXCEPT !.execution[e.execution] = to]
ExecutionOf(s, e) == [s EXCEPT !.of[e.execution] = e.issue]
BoxBecomes(s, e, to) ==
  [s EXCEPT !.box[<<e.execution, e.generation>>] = [state |-> to, workspace |-> e.workspace]]
RecordBecomes(s, e, to) == [s EXCEPT !.recorded[e.execution] = to]
Applied(s, e) ==
  CASE e.type = "IssueCreated" -> IssueBecomes(s, e, "PENDING")
    [] e.type \in TypesOf(IssueMoves) ->
         IssueBecomes(s, e, After(IssueMoves, s.issue[e.issue], e))
    [] e.type = "ExecutionSpawned" -> ExecutionOf(ExecutionBecomes(s, e, "EXECUTING"), e)
    [] e.type \in ContainmentType -> BoxBecomes(s, e, BoxState[e.type])
    [] e.type \in TypesOf(ExecutionMoves) ->
         ExecutionBecomes(s, e, After(ExecutionMoves, s.execution[e.execution], e))
    [] e.type = "CommitIntent" -> RecordBecomes(s, e, "intent")
    [] e.type = "CommitCreated" -> RecordBecomes(s, e, "merge")
    [] OTHER -> s

\* StateProjection.rebuild.  Replay raises at the first event it refuses; here
\* they are counted, and a log is legal when there are none.
StrictStep(s, row) ==
  IF Accepts(s, row.event) THEN Applied(s, row.event) ELSE [s EXCEPT !.refused = @ + 1]
Strict(rows) ==
  LET after[k \in 0 .. Len(rows)] ==
        IF k = 0 THEN StrictStart ELSE StrictStep(after[k - 1], rows[k])
  IN after[Len(rows)]

\* iter_from requires the ids to be contiguous from 1.
Replayable(rows) ==
  /\ \A k \in DOMAIN rows : rows[k].id = k
  /\ Strict(rows).refused = 0

=============================================================================
