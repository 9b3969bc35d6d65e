---------------------------- MODULE Containment ----------------------------
(***************************************************************************)
(* How a `draindeck run' or `recover' process owns the workspace and runs  *)
(* an engine in it on Windows: the workspace mutex (workspace_lease.py),   *)
(* the log (EventLog), startup resolution of containment boundaries left   *)
(* open (recovery/containment.py), recovery's own check (reconciler.py),   *)
(* the Job-contained engine (claude_headless.py, windows_job.py) and the   *)
(* shutdown path of main.py.                                               *)
(*                                                                         *)
(* A controller is one such process, from start to exit; any of them may   *)
(* be killed between two steps or inside an append.  One issue stays       *)
(* ACTIVE, its executions are numbered in the order they are spawned.      *)
(* The kernel is external: it abandons the mutexes and closes the handles  *)
(* of a process that dies, and closing the last handle of a job created    *)
(* with KILL_ON_JOB_CLOSE ends every member.                               *)
(***************************************************************************)
EXTENDS EventLog

CONSTANTS
  MaxExecution,   \* bound: executions ever spawned
  MaxIOErrors     \* bound: appends that raise

ASSUME ContainmentAssumption ==
  MaxExecution \in Nat \ {0} /\ MaxIOErrors \in Nat

Execution == 1 .. MaxExecution
NoExecution == 0

VARIABLES
  at,        \* where each controller is
  lease,     \* the owner of the workspace mutex, or NoProcess
  view,      \* the projection the owner keeps in memory
  todo,      \* open boundaries the owner has yet to probe
  prober,    \* execution -> the controller its Prepared record names
  holder,    \* execution -> the process that holds its job handle
  root,      \* execution -> its root process
  others,    \* execution -> has the job other members?
  errors     \* appends that have raised

host == <<at, lease, view, todo, prober>>
job == <<holder, root, others>>
vars == <<log, host, job, errors>>

Boundary == {"NONE", "PREPARED", "ESTABLISHED", "UNCONFIRMED", "RELEASED"}
Run == {"NONE", "EXECUTING", "FINISHED", "CRASHED"}

Event(t, x) == [type |-> t, of |-> x]
Events == {Event(t, x) : t \in {"Spawned", "Prepared", "Established",
  "Unconfirmed", "Released", "Finished", "Crashed"}, x \in Execution}
  \cup {Event("RunFinished", NoExecution)}

ASSUME EventAssumption == LogEvent = Events

-----------------------------------------------------------------------------
(* Strict replay of the containment events (events/projections.py).        *)

Blank == [ok |-> TRUE, run |-> [x \in Execution |-> "NONE"],
          boundary |-> [x \in Execution |-> "NONE"]]

\* Is the event legal after what has been replayed?
Legal(s, e) ==
  LET open == e.of \in Execution /\ s.run[e.of] = "EXECUTING"
      boundary == s.boundary[e.of]
  IN CASE e.type = "RunFinished" -> TRUE
       [] e.type = "Spawned" -> /\ s.run[e.of] = "NONE"
                                /\ \A x \in Execution : s.run[x] # "EXECUTING"
       [] e.type \in {"Finished", "Crashed"} -> open
       [] e.type = "Prepared" -> open /\ boundary = "NONE"
       [] e.type = "Established" -> open /\ boundary = "PREPARED"
       [] e.type = "Unconfirmed" -> open /\ boundary = "ESTABLISHED"
       [] e.type = "Released" -> open /\ boundary \notin {"NONE", "RELEASED"}

RunAfter == [Spawned |-> "EXECUTING", Finished |-> "FINISHED", Crashed |-> "CRASHED"]
BoundaryAfter == [Prepared |-> "PREPARED", Established |-> "ESTABLISHED",
                  Unconfirmed |-> "UNCONFIRMED", Released |-> "RELEASED"]

\* apply(): a handler that raises leaves the projection and fails the replay.
Applied(s, e) ==
  IF ~Legal(s, e) THEN [s EXCEPT !.ok = FALSE]
  ELSE IF e.type \in DOMAIN RunAfter
       THEN [s EXCEPT !.run[e.of] = RunAfter[e.type]]
  ELSE IF e.type \in DOMAIN BoundaryAfter
       THEN [s EXCEPT !.boundary[e.of] = BoundaryAfter[e.type]]
  ELSE s

Replay(f) ==
  LET after[k \in 0 .. Len(f)] ==
        IF k = 0 THEN Blank ELSE Applied(after[k - 1], f[k].event)
  IN after[Len(f)]

Unreleased(s) == {x \in Execution : s.boundary[x] \notin {"NONE", "RELEASED"}}
Open(s) == {x \in Execution : s.run[x] = "EXECUTING"}
Spawnable(s) == {x \in Execution : s.run[x] = "NONE" /\
                                   \A y \in Execution : y < x => s.run[y] # "NONE"}

-----------------------------------------------------------------------------
Live(x) == root[x] # "none" \/ others[x]
Running(c) == at[c] \notin {"down", "gone"}
Goto(c, where) == at' = [at EXCEPT ![c] = where]

\* The execution the owner is driving.
Current == IF Open(view) = {} THEN NoExecution ELSE CHOOSE x \in Open(view) : TRUE

Init ==
  /\ LogInit
  /\ at = [c \in Process |-> "down"]
  /\ lease = NoProcess
  /\ view = Blank
  /\ todo = {}
  /\ prober = [x \in Execution |-> NoProcess]
  /\ holder = [x \in Execution |-> NoProcess]
  /\ root = [x \in Execution |-> "none"]
  /\ others = [x \in Execution |-> FALSE]
  /\ errors = 0

\* The jobs of the given executions lose their last handle.
\* Fault: the job is created without KILL_ON_JOB_CLOSE.
FaultyJobsClosed(S) ==
  /\ holder' = [x \in Execution |-> IF x \in S THEN NoProcess ELSE holder[x]]
  /\ UNCHANGED <<root, others>>
JobsClosed(S) ==
  /\ holder' = [x \in Execution |-> IF x \in S THEN NoProcess ELSE holder[x]]
  /\ root' = [x \in Execution |-> IF x \in S THEN "none" ELSE root[x]]
  /\ others' = [x \in Execution |-> IF x \in S THEN FALSE ELSE others[x]]

Held(c) == {x \in Execution : holder[x] = c}

\* _emit: durable append, then apply.
Emitted(e) ==
  /\ AppendEvent(e)
  /\ view' = Applied(view, e)
  /\ UNCHANGED errors

EmitRaises(e) ==
  /\ errors < MaxIOErrors
  /\ AppendRaises(e)
  /\ errors' = errors + 1
  /\ UNCHANGED view

-----------------------------------------------------------------------------
(* Startup: _open_startup_recovery.                                        *)

\* WorkspaceLease.acquire waits for nothing: a busy mutex ends the process.
AcquireLease(c) ==
  /\ at[c] = "down"
  /\ IF lease = NoProcess
     THEN lease' = c /\ Goto(c, "leased")
     ELSE UNCHANGED lease /\ Goto(c, "gone")
  /\ UNCHANGED <<log, view, todo, prober, job, errors>>

OpenStartup(c) ==
  /\ at[c] = "leased"
  /\ OpenLog(c)
  /\ view' = Replay(file)
  /\ todo' = Unreleased(view')
  /\ IF view'.ok THEN Goto(c, "resolving") ELSE Goto(c, "closing")
  /\ UNCHANGED <<lease, prober, job, errors>>

OpenRefused(c) ==
  /\ at[c] = "leased"
  /\ RefuseLog
  /\ lease' = NoProcess
  /\ Goto(c, "leaving")
  /\ UNCHANGED <<view, todo, prober, job, errors>>

\* probe_controller_identity: a controller that runs is a LIVE_MATCH; one that
\* is gone is DEAD, or PID_REUSED when its pid has been given away, unless the
\* probe fails.
ProvedDead(c) == ~Running(c)

\* resolve_startup_containment, one open boundary at a time.
ResolveRelease(c) ==
  /\ at[c] = "resolving"
  /\ \E x \in todo :
       /\ ProvedDead(prober[x])
       /\ \/ Emitted(Event("Released", x)) /\ todo' = todo \ {x} /\ UNCHANGED at
          \/ EmitRaises(Event("Released", x)) /\ todo' = {} /\ Goto(c, "closing")
  /\ UNCHANGED <<lease, prober, job>>

ResolveInconclusive(c) ==
  /\ at[c] = "resolving"
  /\ \E x \in todo : todo' = todo \ {x}
  /\ UNCHANGED <<log, at, lease, view, prober, job, errors>>

\* WorkspaceContainmentBlocked, raised before any seam touches the workspace.
\* Fault: the boundaries probed without success are forgotten.
FaultyResolved(c) ==
  /\ at[c] = "resolving"
  /\ todo = {}
  /\ Goto(c, "recovering")
  /\ UNCHANGED <<log, lease, view, todo, prober, job, errors>>
Resolved(c) ==
  /\ at[c] = "resolving"
  /\ todo = {}
  /\ IF Unreleased(view) = {} THEN Goto(c, "recovering") ELSE Goto(c, "closing")
  /\ UNCHANGED <<log, lease, view, todo, prober, job, errors>>

\* recover(): repairs the workspace and records the orphan as crashed.
Recover(c) ==
  /\ at[c] = "recovering"
  /\ IF Open(view) = {}
     THEN Goto(c, "idle") /\ UNCHANGED <<log, view, errors>>
     ELSE \/ Emitted(Event("Crashed", Current)) /\ UNCHANGED at
          \/ EmitRaises(Event("Crashed", Current)) /\ Goto(c, "closing")
  /\ UNCHANGED <<lease, todo, prober, job>>

-----------------------------------------------------------------------------
(* One execution: loop.py _spawn and _execute, _run_windows_contained.     *)

\* A step of the owner that appends nothing.
Quietly(c, from, to) ==
  /\ at[c] = from
  /\ Goto(c, to)
  /\ UNCHANGED <<log, lease, view, todo, errors>>

\* A step that emits one event: on to `to', or to `otherwise' when append raises.
Emitting(c, from, e, to, otherwise) ==
  /\ at[c] = from
  /\ \/ Emitted(e) /\ Goto(c, to)
     \/ EmitRaises(e) /\ Goto(c, otherwise)
  /\ UNCHANGED <<lease, todo>>

Spawn(c) ==
  /\ \E x \in Spawnable(view) :
       Emitting(c, "idle", Event("Spawned", x), "spawned", "shutdown")
  /\ UNCHANGED <<prober, job>>

\* Prepared is durable before any process of the engine exists.
Prepare(c) ==
  /\ Emitting(c, "spawned", Event("Prepared", Current), "prepared", "halting")
  /\ prober' = [prober EXCEPT ![Current] = c]
  /\ UNCHANGED job

\* The root is created suspended and inside the job, by one kernel call.
CreateRoot(c) ==
  /\ Quietly(c, "prepared", "suspended")
  /\ holder' = [holder EXCEPT ![Current] = c]
  /\ root' = [root EXCEPT ![Current] = "suspended"]
  /\ UNCHANGED <<others, prober>>

CreateRootFails(c) == Quietly(c, "prepared", "halting") /\ UNCHANGED <<prober, job>>

Establish(c) ==
  /\ Emitting(c, "suspended", Event("Established", Current), "established", "halting")
  /\ IF at'[c] = "established" THEN UNCHANGED job ELSE JobsClosed(Held(c))
  /\ UNCHANGED prober

Resume(c) ==
  /\ Quietly(c, "established", "waiting")
  /\ root' = [root EXCEPT ![Current] = "running"]
  /\ UNCHANGED <<holder, others, prober>>

\* The root has exited, or the wall clock has run out and the job is told to
\* terminate: from here on nothing in it starts anything.
WaitEnds(c) == Quietly(c, "waiting", "emptying") /\ UNCHANGED <<prober, job>>

\* wait_until_empty has seen a job without members.
\* Fault: an exited root counts as an empty job.
FaultyEmptyConfirmed(c) ==
  /\ Quietly(c, "emptying", "empty")
  /\ root[Current] = "none"
  /\ UNCHANGED <<prober, job>>
EmptyConfirmed(c) ==
  /\ Quietly(c, "emptying", "empty")
  /\ ~Live(Current)
  /\ UNCHANGED <<prober, job>>

\* The resume, the termination, the membership query or the wait for the root
\* failed, or the confirmation deadline passed.
Doubt(c) ==
  /\ \E from \in {"established", "waiting", "emptying"} : Quietly(c, from, "doubtful")
  /\ UNCHANGED <<prober, job>>

\* An error outside those: the boundary is left as it is.
GiveUp(c) ==
  /\ \E from \in {"suspended", "waiting", "emptying"} : Quietly(c, from, "halting")
  /\ JobsClosed(Held(c))
  /\ UNCHANGED prober

\* _append_unconfirmed and the finally block that closes the job.
RecordDoubt(c) ==
  /\ Emitting(c, "doubtful", Event("Unconfirmed", Current), "halting", "halting")
  /\ JobsClosed(Held(c))
  /\ UNCHANGED prober

\* _append_released: when it is not durable, the boundary is latched instead.
Release(c) ==
  /\ Emitting(c, "empty", Event("Released", Current), "released", "doubtful")
  /\ IF at'[c] = "released" THEN JobsClosed(Held(c)) ELSE UNCHANGED job
  /\ UNCHANGED prober

\* The residue is snapshotted and the execution finishes.
Finish(c) ==
  /\ Emitting(c, "released", Event("Finished", Current), "idle", "shutdown")
  /\ UNCHANGED <<prober, job>>

\* The transcript shows a credential that the environment was stripped of.
CredentialLeak(c) == Quietly(c, "released", "shutdown") /\ UNCHANGED <<prober, job>>

-----------------------------------------------------------------------------
(* The end of a run: _run_after_startup and _StartupRecovery.close.        *)

EndRun(c) ==
  /\ \E from \in {"idle", "halting"} :
       Emitting(c, from, Event("RunFinished", NoExecution), "shutdown", "shutdown")
  /\ UNCHANGED <<prober, job>>

\* cmd_recover: startup recovery and nothing else.
RecoverOnly(c) == Quietly(c, "idle", "closing") /\ UNCHANGED <<prober, job>>

\* The target branch is restored unless the workspace is blocked.
Shutdown(c) ==
  /\ Quietly(c, "shutdown", IF Unreleased(view) # {} THEN "closing" ELSE "restoring")
  /\ UNCHANGED <<prober, job>>

Restore(c) == Quietly(c, "restoring", "closing") /\ UNCHANGED <<prober, job>>

\* The log is closed before the workspace is given up.
CloseStartup(c) ==
  /\ at[c] = "closing"
  /\ CloseLog
  /\ Goto(c, "unlocking")
  /\ view' = Blank
  /\ todo' = {}
  /\ UNCHANGED <<lease, prober, job, errors>>

ReleaseLease(c) ==
  /\ at[c] = "unlocking"
  /\ lease' = NoProcess
  /\ Goto(c, "leaving")
  /\ UNCHANGED <<log, view, todo, prober, job, errors>>

\* Until it exits, the process still is a live controller.
Exit(c) == Quietly(c, "leaving", "gone") /\ UNCHANGED <<prober, job>>

-----------------------------------------------------------------------------
(* The engine's processes, and the operating system.                       *)

Fork(x) ==
  /\ root[x] = "running"
  /\ \E c \in Process : at[c] = "waiting"
  /\ others' = [others EXCEPT ![x] = TRUE]
  /\ UNCHANGED <<log, host, holder, root, errors>>

RootExits(x) ==
  /\ root[x] = "running"
  /\ root' = [root EXCEPT ![x] = "none"]
  /\ UNCHANGED <<log, host, holder, others, errors>>

OthersExit(x) ==
  /\ others[x]
  /\ others' = [others EXCEPT ![x] = FALSE]
  /\ UNCHANGED <<log, host, holder, root, errors>>

\* The events a controller may be appending where it is.
InFlight(c) ==
  CASE at[c] = "resolving" -> {Event("Released", x) : x \in {y \in todo : ProvedDead(prober[y])}}
    [] at[c] = "recovering" -> {Event("Crashed", x) : x \in Open(view)}
    [] at[c] = "idle" -> {Event("Spawned", x) : x \in Spawnable(view)}
    [] at[c] = "spawned" -> {Event("Prepared", Current)}
    [] at[c] = "suspended" -> {Event("Established", Current)}
    [] at[c] = "doubtful" -> {Event("Unconfirmed", Current)}
    [] at[c] = "empty" -> {Event("Released", Current)}
    [] at[c] = "released" -> {Event("Finished", Current)}
    [] at[c] = "halting" -> {Event("RunFinished", NoExecution)}
    [] OTHER -> {}

Kill(c) ==
  /\ Running(c)
  /\ Goto(c, "gone")
  /\ IF writer = c
     THEN DieBetween \/ \E e \in InFlight(c) : DieAppending(e)
     ELSE UNCHANGED log
  /\ IF lease = c
     THEN lease' = NoProcess /\ view' = Blank /\ todo' = {}
     ELSE UNCHANGED <<lease, view, todo>>
  /\ prober' = IF at[c] = "spawned" THEN [prober EXCEPT ![Current] = c] ELSE prober
  /\ JobsClosed(Held(c))
  /\ UNCHANGED errors

-----------------------------------------------------------------------------
Startup(c) ==
  \/ OpenStartup(c) \/ OpenRefused(c)
  \/ ResolveRelease(c) \/ ResolveInconclusive(c) \/ Resolved(c) \/ Recover(c)

Engine(c) ==
  \/ Spawn(c) \/ Prepare(c) \/ CreateRoot(c) \/ CreateRootFails(c) \/ Establish(c)
  \/ Resume(c) \/ WaitEnds(c) \/ EmptyConfirmed(c) \/ Doubt(c) \/ GiveUp(c)
  \/ RecordDoubt(c) \/ Release(c) \/ Finish(c) \/ CredentialLeak(c)

Ending(c) ==
  \/ EndRun(c) \/ RecoverOnly(c) \/ Shutdown(c) \/ Restore(c)
  \/ CloseStartup(c) \/ ReleaseLease(c) \/ Exit(c)

Step(c) == Startup(c) \/ Engine(c) \/ Ending(c)

Next ==
  \/ \E c \in Process : AcquireLease(c) \/ Step(c) \/ Kill(c)
  \/ \E x \in Execution : Fork(x) \/ RootExits(x) \/ OthersExit(x)

Spec == Init /\ [][Next]_vars

-----------------------------------------------------------------------------
TypeOK ==
  /\ LogTypeOK
  /\ at \in [Process -> {"down", "leased", "resolving", "recovering", "idle",
       "spawned", "prepared", "suspended", "established", "waiting", "emptying",
       "empty", "doubtful", "released", "halting", "shutdown", "restoring",
       "closing", "unlocking", "leaving", "gone"}]
  /\ lease \in Process \cup {NoProcess}
  /\ view \in [ok: BOOLEAN, run: [Execution -> Run], boundary: [Execution -> Boundary]]
  /\ todo \subseteq Execution
  /\ prober \in [Execution -> Process \cup {NoProcess}]
  /\ holder \in [Execution -> Process \cup {NoProcess}]
  /\ root \in [Execution -> {"none", "suspended", "running"}]
  /\ others \in [Execution -> BOOLEAN]
  /\ errors \in 0 .. MaxIOErrors

\* No process of an engine is alive while a controller works on the workspace
\* itself: repairs it, checks out a branch, snapshots the residue or restores
\* the target branch (main.py, reconciler.py, loop.py).
Touching == {"recovering", "idle", "spawned", "released", "restoring"}
WorkspaceQuiet ==
  \A c \in Process : at[c] \in Touching => \A x \in Execution : ~Live(x)

\* Every log that the code leaves behind replays: no crash and no failed append
\* makes the next start refuse a containment event (projections.py), as long
\* as no handle is used again after an append on it has raised.
BoundariesReplay == ~reused => Replay(file).ok

\* The records and the engine's processes keep the promise of Quarantine.
OnRecord(t) ==
  {x \in Execution : \E k \in DOMAIN file : file[k].event = Event(t, x)}
Promise == INSTANCE Quarantine WITH
  opened <- OnRecord("Prepared"),
  live <- {x \in Execution : Live(x)},
  certified <- OnRecord("Released")
QuarantineSpec == Promise!Spec

=============================================================================
