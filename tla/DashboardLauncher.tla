------------------------- MODULE DashboardLauncher -------------------------
(***************************************************************************)
(* The one-click launcher (launcher.py, launcher_lock.py): invocations     *)
(* that start, reuse or stop a Dashboard on a port.  They share one record *)
(* of the last Dashboard that was started, and an operating-system lock    *)
(* held while deciding and while starting, but not while prerequisites are *)
(* installed or a new Dashboard comes up; --stop takes no lock at all.     *)
(***************************************************************************)
EXTENDS Naturals, FiniteSets

CONSTANTS
  Invocation,   \* invocations of the launcher, each with its own process
  Port,         \* the endpoints that are asked for
  MaxChildren,  \* bound: Dashboards that are ever started
  MaxKills      \* bound: invocations that are killed

Unlocked == "unlocked"

ASSUME DashboardLauncherAssumption ==
  /\ MaxChildren \in Nat /\ MaxKills \in Nat
  /\ Port # {} /\ Unlocked \notin Invocation

VARIABLES
  child,    \* the Dashboards that were started, by pid (and so by token)
  foreign,  \* the ports that some other program listens on
  record,   \* launcher-state.json: a pid, or Nobody
  lock,     \* who holds the launcher-operation lock
  inv,      \* the invocations
  lost,     \* history: Dashboards that the launcher can no longer know of
  kills

vars == <<child, foreign, record, lock, inv, lost, kills>>

Child == 1 .. MaxChildren
Nobody == 0

\* young: within the 180 seconds of its startup grace.
Unborn(p) == [at |-> "unborn", port |-> p, young |-> FALSE]
AnyPort == CHOOSE p \in Port : TRUE

Init ==
  /\ child = [c \in Child |-> Unborn(AnyPort)]
  /\ foreign = {}
  /\ record = Nobody
  /\ lock = Unlocked
  /\ inv = [i \in Invocation |->
              [at |-> "idle", port |-> AnyPort, acts |-> FALSE,
               saw |-> Nobody, listens |-> FALSE, target |-> Nobody]]
  /\ lost = {} /\ kills = 0

Alive(c) == child[c].at \in {"starting", "serving", "unhealthy", "hung", "dying"}
ListensOn(c, p) ==
  child[c].port = p /\ child[c].at \in {"serving", "unhealthy", "hung", "dying"}
Listening(p) == p \in foreign \/ \E c \in Child : ListensOn(c, p)

\* probe_identity and probe_health, of whoever listens on the port.
Identifies(c, p) == child[c].port = p /\ child[c].at \in {"serving", "unhealthy"}
Healthy(c) == child[c].at = "serving"

Goto(i, from, to) == inv[i].at = from /\ inv' = [inv EXCEPT ![i].at = to]
Locked(i) == lock = i
Lock(i) == lock = Unlocked /\ lock' = i
Unlocks(i) == lock' = Unlocked

-----------------------------------------------------------------------------
(* Phase A, _decide_dashboard_action, and phase B's second look, the start *)
(* of _spawn_dashboard_under_lock: load, is_port_listening, resolve.       *)

Launch(i, p) ==
  /\ inv[i].at = "idle"
  /\ inv' = [inv EXCEPT ![i].at = "lock", ![i].port = p]
  /\ UNCHANGED <<child, foreign, record, lock, lost, kills>>

Acquire(i) ==
  /\ Goto(i, "lock", "load")
  /\ Lock(i)
  /\ UNCHANGED <<child, foreign, record, lost, kills>>

\* LAUNCH_IN_PROGRESS, after three seconds.
LockTimeout(i) ==
  /\ Goto(i, "lock", "done")
  /\ lock # Unlocked
  /\ UNCHANGED <<child, foreign, record, lock, lost, kills>>

Load(i) ==
  /\ inv[i].at = "load"
  /\ inv' = [inv EXCEPT ![i].at = "listen", ![i].saw = record]
  /\ UNCHANGED <<child, foreign, record, lock, lost, kills>>

Listen(i) ==
  /\ inv[i].at = "listen"
  /\ inv' = [inv EXCEPT ![i].at = "resolve", ![i].listens = Listening(inv[i].port)]
  /\ UNCHANGED <<child, foreign, record, lock, lost, kills>>

\* _resolve_process_action.
Recorded(i) == inv[i].saw # Nobody

\* Fault: a Dashboard that does not listen yet does not count.
FaultyStarting(i) == FALSE
Starting(i) ==
  /\ ~inv[i].listens
  /\ Recorded(i)
  /\ child[inv[i].saw].port = inv[i].port
  /\ Alive(inv[i].saw)
  /\ child[inv[i].saw].young

Owned(i) == inv[i].listens /\ Recorded(i) /\ Identifies(inv[i].saw, inv[i].port)

Action(i) ==
  IF Starting(i) THEN "STARTING_OWNED"
  ELSE IF ~inv[i].listens THEN "START_NEW"
  ELSE IF ~Owned(i) THEN "REFUSE_PORT_COLLISION"
  ELSE IF Healthy(inv[i].saw) THEN "REUSE" ELSE "RESTART_STALE_OWNED"

\* Nothing to start: refused, or a browser opened on what is there.
Settle(i) ==
  /\ inv[i].at = "resolve"
  /\ Action(i) \in {"REFUSE_PORT_COLLISION", "REUSE"}
  /\ Goto(i, "resolve", "done")
  /\ Unlocks(i)
  /\ UNCHANGED <<child, foreign, record, lost, kills>>

Join(i) ==
  /\ inv[i].at = "resolve"
  /\ Action(i) = "STARTING_OWNED"
  /\ inv' = [inv EXCEPT ![i].at = "wait", ![i].target = inv[i].saw]
  /\ Unlocks(i)
  /\ UNCHANGED <<child, foreign, record, lost, kills>>

Starts(i) ==
  /\ inv[i].at = "resolve"
  /\ Action(i) \in {"START_NEW", "RESTART_STALE_OWNED"}

Decide(i) ==
  /\ Starts(i)
  /\ ~inv[i].acts
  /\ Goto(i, "resolve", "prepare")
  /\ Unlocks(i)
  /\ UNCHANGED <<child, foreign, record, lost, kills>>

-----------------------------------------------------------------------------
(* Prerequisites and the observer executable, outside the lock; phase B.   *)

\* Phase B begins as phase A did: what was decided there is forgotten.
\* Fault: what phase A decided is acted upon.
FaultySecondLook == "spawn"
SecondLook == "load"

Prepare(i) ==
  /\ inv[i].at = "prepare"
  /\ \E ok \in BOOLEAN :
       inv' = [inv EXCEPT ![i].at = IF ok THEN "relock" ELSE "done", ![i].acts = ok]
  /\ UNCHANGED <<child, foreign, record, lock, lost, kills>>

AcquireAgain(i) ==
  /\ Goto(i, "relock", SecondLook)
  /\ Lock(i)
  /\ UNCHANGED <<child, foreign, record, lost, kills>>

LockTimeoutAgain(i) ==
  /\ Goto(i, "relock", "done")
  /\ lock # Unlocked
  /\ UNCHANGED <<child, foreign, record, lock, lost, kills>>

Act(i) ==
  /\ Starts(i)
  /\ inv[i].acts
  /\ Goto(i, "resolve", IF Action(i) = "START_NEW" THEN "spawn" ELSE "terminate")
  /\ UNCHANGED <<child, foreign, record, lock, lost, kills>>

\* SIGTERM: the process may take its time.
Signalled(c) == IF Alive(c) THEN [child EXCEPT ![c].at = "dying"] ELSE child

Terminate(i) ==
  /\ Goto(i, "terminate", "release")
  /\ child' = Signalled(inv[i].saw)
  /\ UNCHANGED <<foreign, record, lock, lost, kills>>

Released(i) ==
  /\ Goto(i, "release", "spawn")
  /\ ~Listening(inv[i].port)
  /\ UNCHANGED <<child, foreign, record, lock, lost, kills>>

\* STALE_PORT_NOT_RELEASED, after five seconds.
NotReleased(i) ==
  /\ Goto(i, "release", "done")
  /\ Listening(inv[i].port)
  /\ Unlocks(i)
  /\ UNCHANGED <<child, foreign, record, lost, kills>>

Spawn(i) ==
  /\ inv[i].at = "spawn"
  /\ \E c \in Child :
       /\ child[c].at = "unborn" /\ \A d \in 1 .. c - 1 : child[d].at # "unborn"
       /\ child' = [child EXCEPT ![c] = [at |-> "starting", port |-> inv[i].port,
                                         young |-> TRUE]]
       /\ inv' = [inv EXCEPT ![i].at = "save", ![i].target = c]
  /\ UNCHANGED <<foreign, record, lock, lost, kills>>

\* There is one record: that of a Dashboard on another port is replaced.
Forgotten(c) == IF c # Nobody /\ Alive(c) THEN {c} ELSE {}
Elsewhere(c, p) == IF c # Nobody /\ child[c].port # p THEN Forgotten(c) ELSE {}

Save(i) ==
  /\ Goto(i, "save", "wait")
  /\ record' = inv[i].target
  /\ lost' = lost \cup Elsewhere(record, inv[i].port)
  /\ Unlocks(i)
  /\ UNCHANGED <<child, foreign, kills>>

\* Its own Dashboard, or one that it joined: the browser, or the deadline.
Ready(i) ==
  /\ Goto(i, "wait", "done")
  /\ Identifies(inv[i].target, inv[i].port) /\ Healthy(inv[i].target)
  /\ UNCHANGED <<child, foreign, record, lock, lost, kills>>

GiveUp(i) ==
  /\ Goto(i, "wait", "done")
  /\ ~child[inv[i].target].young
  /\ UNCHANGED <<child, foreign, record, lock, lost, kills>>

-----------------------------------------------------------------------------
(* --stop (_cmd_stop, stop_dashboard).                                     *)

Stop(i) ==
  /\ inv[i].at = "idle"
  /\ inv' = [inv EXCEPT ![i].at = IF record = Nobody THEN "done" ELSE "prove",
                        ![i].saw = record]
  /\ UNCHANGED <<child, foreign, record, lock, lost, kills>>

Prove(i) ==
  /\ Goto(i, "prove", IF Identifies(inv[i].saw, child[inv[i].saw].port) THEN "kill" ELSE "done")
  /\ UNCHANGED <<child, foreign, record, lock, lost, kills>>

KillOwned(i) ==
  /\ Goto(i, "kill", "unlink")
  /\ child' = Signalled(inv[i].saw)
  /\ UNCHANGED <<foreign, record, lock, lost, kills>>

\* Whatever the record says by now.
Unlink(i) ==
  /\ Goto(i, "unlink", "done")
  /\ record' = Nobody
  /\ lost' = lost \cup (IF record = inv[i].saw THEN {} ELSE Forgotten(record))
  /\ UNCHANGED <<child, foreign, lock, kills>>

-----------------------------------------------------------------------------
(* The Dashboards, other programs, and the user.                           *)

Becomes(c, from, to) == child[c].at \in from /\ child' = [child EXCEPT ![c].at = to]
OnlyChild == UNCHANGED <<foreign, record, lock, inv, kills>>

\* A port that is taken is an error, and the process exits.
Bind(c) ==
  /\ Becomes(c, {"starting"}, IF Listening(child[c].port) THEN "gone" ELSE "serving")
  /\ UNCHANGED lost /\ OnlyChild

Ail(c) ==
  /\ Becomes(c, {"serving"}, "unhealthy") \/ Becomes(c, {"serving"}, "hung")
  /\ UNCHANGED lost /\ OnlyChild

Exit(c) ==
  /\ Becomes(c, {"starting", "serving", "dying"}, "gone")
  /\ UNCHANGED lost /\ OnlyChild

\* 180 seconds.  One that was not seen to listen by then is taken for dead.
SeenToListen(c) ==
  /\ child[c].at # "starting"
  /\ ~\E i \in Invocation :
       inv[i].at = "resolve" /\ inv[i].port = child[c].port /\ ~inv[i].listens

Grow(c) ==
  /\ child[c].young
  /\ child' = [child EXCEPT ![c].young = FALSE]
  /\ lost' = IF SeenToListen(c) THEN lost ELSE lost \cup {c}
  /\ OnlyChild

Occupy(p) ==
  /\ ~Listening(p)
  /\ foreign' = foreign \cup {p}
  /\ UNCHANGED <<child, record, lock, inv, lost, kills>>

\* The operating system releases the lock of a process that is gone.
Kill(i) ==
  /\ inv[i].at \notin {"idle", "done"}
  /\ kills < MaxKills
  /\ kills' = kills + 1
  /\ lost' = IF inv[i].at = "save" THEN lost \cup {inv[i].target} ELSE lost
  /\ lock' = IF Locked(i) THEN Unlocked ELSE lock
  /\ inv' = [inv EXCEPT ![i].at = "done"]
  /\ UNCHANGED <<child, foreign, record>>

Step(i) ==
  \/ Acquire(i) \/ LockTimeout(i) \/ Load(i) \/ Listen(i) \/ Settle(i) \/ Join(i) \/ Decide(i)
  \/ Prepare(i) \/ AcquireAgain(i) \/ LockTimeoutAgain(i) \/ Act(i) \/ Terminate(i)
  \/ Released(i) \/ NotReleased(i) \/ Spawn(i) \/ Save(i) \/ Ready(i) \/ GiveUp(i)
  \/ Prove(i) \/ KillOwned(i) \/ Unlink(i)

Next ==
  \/ \E i \in Invocation :
       Step(i) \/ Stop(i) \/ Kill(i) \/ \E p \in Port : Launch(i, p)
  \/ \E c \in Child : Bind(c) \/ Ail(c) \/ Exit(c) \/ Grow(c)
  \/ \E p \in Port : Occupy(p)

Spec == Init /\ [][Next]_vars

-----------------------------------------------------------------------------
(* Properties.                                                             *)

State == {"idle", "lock", "load", "listen", "resolve", "prepare", "relock", "terminate",
          "release", "spawn", "save", "wait", "prove", "kill", "unlink", "done"}

\* The lock is held exactly while an invocation decides or starts.
TypeOK ==
  /\ record \in Child \cup {Nobody} /\ lost \subseteq Child /\ foreign \subseteq Port
  /\ \A i \in Invocation : inv[i].at \in State
  /\ \A i \in Invocation :
       Locked(i) <=> inv[i].at \in {"load", "listen", "resolve", "terminate", "release",
                                    "spawn", "save"}

Up(c) == Alive(c) /\ child[c].at # "dying"

\* Two Dashboards never come up on one port, however invocations overlap, as
\* long as the launcher can know of the first: unless its record was replaced by
\* one for another port, removed by a --stop that meant an earlier one, or never
\* written, or it takes longer than the grace to listen.
OnlyOne ==
  \A c, d \in Child \ lost : Up(c) /\ Up(d) /\ child[c].port = child[d].port => c = d

\* A Dashboard that is up is on record, or its launcher is about to record it,
\* with the same exceptions: it can be found, reused and stopped.
Accounted ==
  \A c \in Child \ lost :
    Up(c) => record = c \/ \E i \in Invocation : Locked(i) /\ inv[i].at = "save" /\ inv[i].target = c

=============================================================================
