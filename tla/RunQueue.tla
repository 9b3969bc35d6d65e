------------------------------ MODULE RunQueue ------------------------------
(***************************************************************************)
(* The Dashboard's persisted queue of run commands for one repository      *)
(* (run_queue.py), the launcher that turns a command into a `draindeck     *)
(* run' process (run_launcher.py), the scheduler that keeps calling it     *)
(* (queue_scheduler.py) and the routes an operator uses (app.py).          *)
(*                                                                         *)
(* A Dashboard is one process with one event loop whose handlers never     *)
(* wait, so a Dashboard runs one handler at a time; several Dashboards     *)
(* share the database.  The connection is in autocommit mode: a statement  *)
(* outside an explicit transaction is a step of its own, and so is the     *)
(* spawn of the child.  A Dashboard may be killed between any two steps;   *)
(* its children live on.                                                   *)
(***************************************************************************)
EXTENDS Naturals

CONSTANTS
  Dashboard,    \* the Dashboard processes
  MaxCommand,   \* bound: how many commands are ever enqueued
  MaxCrashes,   \* bound: how often a Dashboard is killed
  NoCommand     \* a Dashboard with no command in hand

ASSUME QueueAssumption ==
  /\ MaxCommand \in Nat
  /\ MaxCrashes \in Nat
  /\ NoCommand \notin 1..MaxCommand

VARIABLES
  status,      \* run_commands.status; NONE before the row is inserted, GONE after its deletion
  identity,    \* is run_commands.process_creation_time recorded?
  paused,      \* the row of run_queue_pauses
  registered,  \* the repositories row: yes, emptied (commands deleted), no
  child,       \* the process spawned for a command
  at,          \* where each Dashboard is in its handler
  hand,        \* the command that handler works on
  verdict,     \* the status reconcile_launched_command is about to write
  seen,        \* the CLAIMED rows a starting Dashboard has read
  handles,     \* _LIVE_PROCESSES of each Dashboard
  crashes

rows == <<status, identity, paused, registered>>
local == <<at, hand, verdict, seen, handles>>
vars == <<rows, child, local, crashes>>

\* Row ids are AUTOINCREMENT: the order of the ids is the order of submission.
Command == 1..MaxCommand

\* _BLOCKING_STATUSES: these keep the repository closed to a further claim.
Blocking == {"CLAIMED", "LAUNCHED", "LAUNCH_OWNERSHIP_UNKNOWN", "ABNORMAL_EXIT"}

Status == {"NONE", "QUEUED", "CLAIMED", "LAUNCHED", "LAUNCH_FAILED",
  "LAUNCH_OWNERSHIP_UNKNOWN", "REFUSED", "COMPLETED", "ABNORMAL_EXIT",
  "ACKNOWLEDGED", "CANCELLED", "GONE"}

Exited == {"zero", "nonzero"}

With(s) == {c \in Command : status[c] \in s}

\* repository_has_active_command.
\* Fault: an ambiguous claim does not close the queue.
FaultyActive == With({"CLAIMED", "LAUNCHED", "ABNORMAL_EXIT"}) # {}
Active == With(Blocking) # {}

\* An UPDATE ... WHERE id = c, which a deleted row does not match.
Update(c, s) == status' = [status EXCEPT ![c] = IF @ = "GONE" THEN @ ELSE s]

Goto(d, where) == at' = [at EXCEPT ![d] = where]

Take(d, c) == hand' = [hand EXCEPT ![d] = c]

\* The handler ends, normally or with an exception.
Return(d) == Goto(d, "idle") /\ Take(d, NoCommand)

Init ==
  /\ status = [c \in Command |-> "NONE"]
  /\ identity = [c \in Command |-> FALSE]
  /\ paused = FALSE
  /\ registered = "yes"
  /\ child = [c \in Command |-> "none"]
  /\ at = [d \in Dashboard |-> "down"]
  /\ hand = [d \in Dashboard |-> NoCommand]
  /\ verdict = [d \in Dashboard |-> "NONE"]
  /\ seen = [d \in Dashboard |-> {}]
  /\ handles = [d \in Dashboard |-> {}]
  /\ crashes = 0

-----------------------------------------------------------------------------
(* create_app: reconcile_ambiguous_claims_on_startup, before any route.    *)

StartUp(d) ==
  /\ at[d] = "down"
  /\ Goto(d, "startup")
  /\ seen' = [seen EXCEPT ![d] = With({"CLAIMED"})]
  /\ UNCHANGED <<rows, child, hand, verdict, handles, crashes>>

\* The UPDATE names the row alone, whatever its status has become.
FlipClaim(d) ==
  /\ at[d] = "startup"
  /\ \E c \in seen[d] :
       /\ Update(c, "LAUNCH_OWNERSHIP_UNKNOWN")
       /\ seen' = [seen EXCEPT ![d] = @ \ {c}]
  /\ UNCHANGED <<identity, paused, registered, child, at, hand, verdict, handles, crashes>>

Serve(d) ==
  /\ at[d] = "startup" /\ seen[d] = {}
  /\ Goto(d, "idle")
  /\ UNCHANGED <<rows, child, hand, verdict, seen, handles, crashes>>

-----------------------------------------------------------------------------
(* try_launch_next, first half: what became of the LAUNCHED command.       *)

\* The scheduler's tick, the drain route, or a repeated Idempotency-Key.
Tick(d) ==
  /\ at[d] = "idle" /\ registered # "no"
  /\ Goto(d, "reconcile")
  /\ UNCHANGED <<rows, child, hand, verdict, seen, handles, crashes>>

\* poll() of a handle of this process, or the probe of a recorded identity.
ExitVerdict(d, c) ==
  IF c \in handles[d] /\ child[c] = "zero" THEN "COMPLETED" ELSE "ABNORMAL_EXIT"

\* Fault: no fallback to the recorded identity after a restart.
FaultyExitObservable(d, c) == child[c] \in Exited /\ c \in handles[d]
ExitObservable(d, c) == child[c] \in Exited /\ (c \in handles[d] \/ identity[c])

ObserveExit(d) ==
  /\ at[d] = "reconcile"
  /\ \E c \in With({"LAUNCHED"}) :
       /\ ExitObservable(d, c)
       /\ verdict' = [verdict EXCEPT ![d] = ExitVerdict(d, c)]
       /\ handles' = [handles EXCEPT ![d] = @ \ {c}]
       /\ Take(d, c)
  /\ Goto(d, "verdict")
  /\ UNCHANGED <<rows, child, seen, crashes>>

\* Nothing LAUNCHED, still running, or a probe that proves nothing.
ObserveNothing(d) ==
  /\ at[d] = "reconcile"
  /\ \A c \in With({"LAUNCHED"}) : c \in handles[d] => child[c] = "running"
  /\ Goto(d, "claim")
  /\ UNCHANGED <<rows, child, hand, verdict, seen, handles, crashes>>

\* Again an UPDATE by id alone; get_command raises when the row is gone.
WriteVerdict(d) ==
  /\ at[d] = "verdict"
  /\ Update(hand[d], verdict[d])
  /\ Goto(d, IF status[hand[d]] = "GONE" THEN "idle" ELSE "claim")
  /\ Take(d, NoCommand)
  /\ verdict' = [verdict EXCEPT ![d] = "NONE"]
  /\ UNCHANGED <<identity, paused, registered, child, seen, handles, crashes>>

-----------------------------------------------------------------------------
(* try_launch_next, second half: claim, revalidate, spawn, record.         *)

\* claim_next_launchable_command: one BEGIN IMMEDIATE transaction.
\* Fault: the latest command first.
FaultyClaim(d) ==
  /\ at[d] = "claim"
  /\ ~Active /\ ~paused
  /\ \E c \in With({"QUEUED"}) :
       /\ \A b \in With({"QUEUED"}) : c >= b
       /\ Update(c, "CLAIMED")
       /\ Take(d, c)
  /\ Goto(d, "revalidate")
  /\ UNCHANGED <<identity, paused, registered, child, verdict, seen, handles, crashes>>
Claim(d) ==
  /\ at[d] = "claim"
  /\ ~Active /\ ~paused
  /\ \E c \in With({"QUEUED"}) :
       /\ \A b \in With({"QUEUED"}) : c <= b
       /\ Update(c, "CLAIMED")
       /\ Take(d, c)
  /\ Goto(d, "revalidate")
  /\ UNCHANGED <<identity, paused, registered, child, verdict, seen, handles, crashes>>

\* Nothing to claim, or the worktree is dirty and the launch is deferred.
NoClaim(d) ==
  /\ at[d] = "claim"
  /\ Return(d)
  /\ UNCHANGED <<rows, child, verdict, seen, handles, crashes>>

\* revalidate_claimed_command: stale batch, empty run-all, dirty worktree.
Refuse(d) ==
  /\ at[d] = "revalidate"
  /\ \E s \in {"REFUSED", "COMPLETED"} : Update(hand[d], s)
  /\ Return(d)
  /\ UNCHANGED <<identity, paused, registered, child, verdict, seen, handles, crashes>>

\* Still valid: the command read at the claim is launched, not the row.
Revalidate(d) ==
  /\ at[d] = "revalidate" /\ registered # "no"
  /\ Goto(d, "spawn")
  /\ UNCHANGED <<rows, child, hand, verdict, seen, handles, crashes>>

\* get_repository, load_config or a probe raises: the claim stays behind.
Abandon(d) ==
  /\ at[d] \in {"revalidate", "spawn"}
  /\ Return(d)
  /\ UNCHANGED <<rows, child, verdict, seen, handles, crashes>>

\* launch_claimed_command: Popen raises OSError ...
SpawnFails(d) ==
  /\ at[d] = "spawn"
  /\ Update(hand[d], "LAUNCH_FAILED")
  /\ Return(d)
  /\ UNCHANGED <<identity, paused, registered, child, verdict, seen, handles, crashes>>

\* ... or the child runs before its row says so.
Spawn(d) ==
  /\ at[d] = "spawn"
  /\ child' = [child EXCEPT ![hand[d]] = "running"]
  /\ handles' = [handles EXCEPT ![d] = @ \cup {hand[d]}]
  /\ Goto(d, "record")
  /\ UNCHANGED <<rows, hand, verdict, seen, crashes>>

\* The creation time is unknown off Windows, or when its probe fails.
RecordLaunch(d) ==
  /\ at[d] = "record"
  /\ Update(hand[d], "LAUNCHED")
  /\ \E known \in BOOLEAN : identity' = [identity EXCEPT ![hand[d]] = known]
  /\ Return(d)
  /\ UNCHANGED <<paused, registered, child, verdict, seen, handles, crashes>>

-----------------------------------------------------------------------------
(* The operator's routes.                                                  *)

\* enqueue_command with a new key, then try_launch_next.
Enqueue(d) ==
  /\ at[d] = "idle" /\ registered # "no"
  /\ \E c \in With({"NONE"}) :
       /\ \A b \in With({"NONE"}) : c <= b
       /\ Update(c, "QUEUED")
  /\ Goto(d, "reconcile")
  /\ UNCHANGED <<identity, paused, registered, child, hand, verdict, seen, handles, crashes>>

\* cancel_queued_command: the flip and the pause are one transaction.
\* Fault: the flip does not ask that the row is still QUEUED.
FaultyCancel(d, c) ==
  /\ at[d] = "idle" /\ status[c] \in {"QUEUED", "CLAIMED"}
  /\ Update(c, "CANCELLED")
  /\ paused' = TRUE
  /\ UNCHANGED <<identity, registered, child, local, crashes>>
Cancel(d, c) ==
  /\ at[d] = "idle" /\ status[c] = "QUEUED"
  /\ Update(c, "CANCELLED")
  /\ paused' = TRUE
  /\ UNCHANGED <<identity, registered, child, local, crashes>>

\* resume_repository_queue, then try_launch_next.
Resume(d) ==
  /\ at[d] = "idle" /\ registered # "no" /\ paused
  /\ paused' = FALSE
  /\ Goto(d, "reconcile")
  /\ UNCHANGED <<status, identity, registered, child, hand, verdict, seen, handles, crashes>>

\* acknowledge_abnormal_command: its gates are stable, its flip conditional.
\* Fault: no proof that the child is dead.
FaultyAcknowledge(d, c) ==
  /\ at[d] = "idle" /\ registered # "no"
  /\ status[c] = "ABNORMAL_EXIT"
  /\ Update(c, "ACKNOWLEDGED")
  /\ UNCHANGED <<identity, paused, registered, child, local, crashes>>
Acknowledge(d, c) ==
  /\ at[d] = "idle" /\ registered # "no"
  /\ status[c] = "ABNORMAL_EXIT"
  /\ identity[c] /\ child[c] \in Exited
  /\ Update(c, "ACKNOWLEDGED")
  /\ UNCHANGED <<identity, paused, registered, child, local, crashes>>

\* remove_repository: a check, then two deletions.
Unregister(d) ==
  /\ at[d] = "idle" /\ registered # "no"
  /\ ~Active
  /\ Goto(d, "delete")
  /\ UNCHANGED <<rows, child, hand, verdict, seen, handles, crashes>>

DeleteCommands(d) ==
  /\ at[d] = "delete"
  /\ status' = [c \in Command |-> IF status[c] = "NONE" THEN "NONE" ELSE "GONE"]
  /\ paused' = FALSE
  /\ registered' = IF registered = "yes" THEN "emptied" ELSE registered
  /\ Goto(d, "deregister")
  /\ UNCHANGED <<identity, child, hand, verdict, seen, handles, crashes>>

DeleteRepository(d) ==
  /\ at[d] = "deregister"
  /\ registered' = "no"
  /\ Return(d)
  /\ UNCHANGED <<status, identity, paused, child, verdict, seen, handles, crashes>>

-----------------------------------------------------------------------------
\* The `draindeck run' process ends by itself.
ChildExits(c) ==
  /\ child[c] = "running"
  /\ \E code \in Exited : child' = [child EXCEPT ![c] = code]
  /\ UNCHANGED <<rows, local, crashes>>

\* A Dashboard stops or is killed; its handles die with it.
Crash(d) ==
  /\ at[d] # "down" /\ crashes < MaxCrashes
  /\ Goto(d, "down") /\ Take(d, NoCommand)
  /\ verdict' = [verdict EXCEPT ![d] = "NONE"]
  /\ seen' = [seen EXCEPT ![d] = {}]
  /\ handles' = [handles EXCEPT ![d] = {}]
  /\ crashes' = crashes + 1
  /\ UNCHANGED <<rows, child>>

\* What a Dashboard does of its own accord.
Work(d) ==
  \/ StartUp(d) \/ FlipClaim(d) \/ Serve(d)
  \/ Tick(d) \/ ObserveExit(d) \/ ObserveNothing(d) \/ WriteVerdict(d)
  \/ Claim(d) \/ NoClaim(d) \/ Refuse(d) \/ Revalidate(d) \/ Abandon(d)
  \/ SpawnFails(d) \/ Spawn(d) \/ RecordLaunch(d)
  \/ DeleteCommands(d) \/ DeleteRepository(d)

Next ==
  \/ \E d \in Dashboard : Work(d) \/ Enqueue(d) \/ Resume(d) \/ Unregister(d) \/ Crash(d)
  \/ \E d \in Dashboard, c \in Command : Cancel(d, c) \/ Acknowledge(d, c)
  \/ \E c \in Command : ChildExits(c)

Spec == Init /\ [][Next]_vars

\* The event loop runs, a child's run ends (Orchestrator's EveryIssueSettles),
\* a worktree is found clean and a probe conclusive again and again, and the
\* operator resumes a paused queue and acknowledges what can be acknowledged.
FairSpec ==
  /\ Spec
  /\ \A d \in Dashboard : WF_vars(Work(d))
  /\ SF_vars(\E d \in Dashboard : Claim(d))
  /\ SF_vars(\E d \in Dashboard : ObserveExit(d))
  /\ WF_vars(\E c \in Command : ChildExits(c))
  /\ SF_vars(\E d \in Dashboard, c \in Command : Acknowledge(d, c))
  /\ SF_vars(\E d \in Dashboard : Resume(d))

-----------------------------------------------------------------------------
(* Properties.                                                             *)

\* The types of the rows and of a Dashboard's handler (run_queue.py,
\* run_launcher.py); a handler holds a command from its claim to its return.
TypeOK ==
  /\ status \in [Command -> Status]
  /\ identity \in [Command -> BOOLEAN]
  /\ paused \in BOOLEAN
  /\ registered \in {"yes", "emptied", "no"}
  /\ child \in [Command -> {"none", "running"} \cup Exited]
  /\ at \in [Dashboard -> {"down", "startup", "idle", "reconcile", "verdict", "claim",
                           "revalidate", "spawn", "record", "delete", "deregister"}]
  /\ hand \in [Dashboard -> Command \cup {NoCommand}]
  /\ \A d \in Dashboard :
       (hand[d] # NoCommand) <=> at[d] \in {"verdict", "revalidate", "spawn", "record"}
  /\ verdict \in [Dashboard -> {"NONE", "COMPLETED", "ABNORMAL_EXIT"}]
  /\ \A d \in Dashboard : (verdict[d] # "NONE") <=> at[d] = "verdict"
  /\ seen \in [Dashboard -> SUBSET Command]
  /\ handles \in [Dashboard -> SUBSET Command]
  /\ crashes \in 0..MaxCrashes

\* A Dashboard that claimed a command and may still launch it or record that.
BeforeSpawn == {d \in Dashboard : at[d] \in {"revalidate", "spawn"}}
Launchers == {d \in Dashboard : at[d] \in {"revalidate", "spawn", "record"}}
Launching(c) == \E d \in Launchers : hand[d] = c

InFlight == {c \in Command : child[c] = "running" \/ Launching(c)}

\* While the repository is registered at most one command is in flight -- its
\* child runs or some Dashboard may still spawn it -- and its row closes the
\* queue, whatever another Dashboard's startup, tick or crash did meanwhile
\* (the claim of run_queue.py and the spawn of run_launcher.py).
OneInFlight ==
  registered = "yes" =>
    /\ \A b, c \in InFlight : b = c
    /\ \A c \in InFlight : status[c] \in Blocking

\* The parts of the inductive invariant.  Ids are given out in order.
Submitted == \A b, c \in Command : status[b] = "NONE" /\ b < c => status[c] = "NONE"

\* No process and no other Dashboard knows a command before its claim.
Fresh ==
  \A c \in With({"NONE", "QUEUED"}) :
    child[c] = "none" /\ \A d \in Dashboard : c \notin seen[d]

\* One Dashboard launches at a time, over a claim; until it spawns nothing
\* runs, its command never ran and no earlier one waits.
Claimed ==
  /\ \A d, e \in Launchers : d = e
  /\ \A d \in Launchers : status[hand[d]] \in {"CLAIMED", "LAUNCH_OWNERSHIP_UNKNOWN"}
  /\ \A d \in BeforeSpawn :
       /\ child[hand[d]] = "none"
       /\ \A c \in Command : child[c] # "running"
       /\ \A b \in With({"QUEUED"}) : hand[d] < b

\* One child runs at a time, over a row that a tick can still settle.
Running ==
  /\ \A b, c \in Command : child[b] = "running" /\ child[c] = "running" => b = c
  /\ \A c \in Command : child[c] = "running" =>
       /\ status[c] \in {"CLAIMED", "LAUNCH_OWNERSHIP_UNKNOWN", "LAUNCHED"}
       /\ \A d \in Launchers : hand[d] = c

\* A verdict is about an exit, never about a command being launched.
Judged ==
  \A d \in Dashboard : at[d] = "verdict" =>
    child[hand[d]] \in Exited /\ \A e \in Launchers : hand[e] # hand[d]

\* The inductive invariant behind OneInFlight and LaunchedInOrder: while the
\* repository is registered, claims, children and pending verdicts exclude
\* each other (run_queue.py, run_launcher.py).
QueueInv ==
  /\ TypeOK
  /\ registered = "yes" => Submitted /\ Fresh /\ Claimed /\ Running /\ Judged

\* A child is spawned for a command at most once, in the order of submission,
\* and only over a row that closes the queue: never for one cancelled, refused
\* or settled since the claim (launch_claimed_command works from a copy).
LaunchedInOrder ==
  [][registered = "yes" =>
      \A c \in Command :
        child'[c] = "running" /\ child[c] # "running" =>
          /\ child[c] = "none"
          /\ status[c] \in {"CLAIMED", "LAUNCH_OWNERSHIP_UNKNOWN"}
          /\ \A b \in With({"QUEUED"}) : b > c]_vars

\* Some Dashboard will still write an outcome for c.
Attended(c) == Launching(c) \/ \E d \in Dashboard : at[d] = "verdict" /\ hand[d] = c

\* A blocking row nobody can release: not acknowledgeable, not cancellable.
Stuck(c) ==
  /\ ~Attended(c)
  /\ \/ status[c] \in {"CLAIMED", "LAUNCH_OWNERSHIP_UNKNOWN"}
     \/ status[c] = "ABNORMAL_EXIT" /\ ~identity[c]
     \/ /\ status[c] = "LAUNCHED" /\ ~identity[c]
        /\ \A d \in Dashboard : c \notin handles[d]

\* A row whose launch cannot be accounted for keeps the queue closed for good:
\* no tick, restart, acknowledgement or late write ever opens it again
\* (reconcile_ambiguous_claims_on_startup: "never auto-retried").
UnaccountedStaysClosed ==
  [][registered' = "yes" => \A c \in Command : Stuck(c) => Stuck(c)']_vars

\* A queued command leaves the queue -- launched, refused or cancelled -- unless
\* the repository is unregistered or a row nobody can release closes it
\* (QueueDrainScheduler: "a repository's queue keeps advancing").
QueueAdvances ==
  \A c \in Command :
    status[c] = "QUEUED" ~>
      \/ status[c] # "QUEUED"
      \/ registered # "yes"
      \/ \E b \in Command : Stuck(b)

=============================================================================
