--------------------------- MODULE RunQueueProofs ---------------------------
(***************************************************************************)
(* QueueInv is inductive, so at most one command is in flight while the    *)
(* repository is registered, and commands are launched once and in order:  *)
(* for any number of Dashboards, commands and crashes.                     *)
(***************************************************************************)
EXTENDS RunQueue, TLAPS

\* Types are preserved by every step of the queue.
LEMMA TypeStep == TypeOK /\ [Next]_vars => TypeOK'
<1> SUFFICES ASSUME TypeOK, [Next]_vars PROVE TypeOK'
  OBVIOUS
<1> USE QueueAssumption DEF TypeOK, Command, Exited, Status, rows, local
<1>1. ASSUME NEW d \in Dashboard, StartUp(d) PROVE TypeOK'
  BY <1>1 DEF StartUp, Goto, With
<1>2. ASSUME NEW d \in Dashboard, FlipClaim(d) PROVE TypeOK'
  BY <1>2 DEF FlipClaim, Goto, Update
<1>3. ASSUME NEW d \in Dashboard, Serve(d) PROVE TypeOK'
  BY <1>3 DEF Serve, Goto
<1>4. ASSUME NEW d \in Dashboard, Tick(d) PROVE TypeOK'
  BY <1>4 DEF Tick, Goto
<1>5. ASSUME NEW d \in Dashboard, ObserveExit(d) PROVE TypeOK'
  BY <1>5 DEF ObserveExit, Goto, Take, ExitVerdict, ExitObservable, With
<1>6. ASSUME NEW d \in Dashboard, ObserveNothing(d) PROVE TypeOK'
  BY <1>6 DEF ObserveNothing, Goto, With
<1>7. ASSUME NEW d \in Dashboard, WriteVerdict(d) PROVE TypeOK'
  BY <1>7 DEF WriteVerdict, Goto, Take, Update
<1>8. ASSUME NEW d \in Dashboard, Claim(d) PROVE TypeOK'
  BY <1>8 DEF Claim, Goto, Take, Update, With
<1>9. ASSUME NEW d \in Dashboard, NoClaim(d) PROVE TypeOK'
  BY <1>9 DEF NoClaim, Goto, Take, Return
<1>10. ASSUME NEW d \in Dashboard, Refuse(d) PROVE TypeOK'
  BY <1>10 DEF Refuse, Goto, Take, Return, Update
<1>11. ASSUME NEW d \in Dashboard, Revalidate(d) PROVE TypeOK'
  BY <1>11 DEF Revalidate, Goto
<1>12. ASSUME NEW d \in Dashboard, Abandon(d) PROVE TypeOK'
  BY <1>12 DEF Abandon, Goto, Take, Return
<1>13. ASSUME NEW d \in Dashboard, SpawnFails(d) PROVE TypeOK'
  BY <1>13 DEF SpawnFails, Goto, Take, Return, Update
<1>14. ASSUME NEW d \in Dashboard, Spawn(d) PROVE TypeOK'
  BY <1>14 DEF Spawn, Goto
<1>15. ASSUME NEW d \in Dashboard, RecordLaunch(d) PROVE TypeOK'
  BY <1>15 DEF RecordLaunch, Goto, Take, Return, Update
<1>16. ASSUME NEW d \in Dashboard, DeleteCommands(d) PROVE TypeOK'
  BY <1>16 DEF DeleteCommands, Goto
<1>17. ASSUME NEW d \in Dashboard, DeleteRepository(d) PROVE TypeOK'
  BY <1>17 DEF DeleteRepository, Goto, Take, Return
<1>18. ASSUME NEW d \in Dashboard, Enqueue(d) PROVE TypeOK'
  BY <1>18 DEF Enqueue, Goto, Update, With
<1>19. ASSUME NEW d \in Dashboard, Resume(d) PROVE TypeOK'
  BY <1>19 DEF Resume, Goto
<1>20. ASSUME NEW d \in Dashboard, Unregister(d) PROVE TypeOK'
  BY <1>20 DEF Unregister, Goto
<1>21. ASSUME NEW d \in Dashboard, Crash(d) PROVE TypeOK'
  BY <1>21 DEF Crash, Goto, Take
<1>22. ASSUME NEW d \in Dashboard, NEW c \in Command, Cancel(d, c) PROVE TypeOK'
  BY <1>22 DEF Cancel, Update
<1>23. ASSUME NEW d \in Dashboard, NEW c \in Command, Acknowledge(d, c) PROVE TypeOK'
  BY <1>23 DEF Acknowledge, Update
<1>24. ASSUME NEW c \in Command, ChildExits(c) PROVE TypeOK'
  BY <1>24 DEF ChildExits
<1>25. CASE UNCHANGED vars
  BY <1>25 DEF vars
<1> QED
  BY <1>1, <1>2, <1>3, <1>4, <1>5, <1>6, <1>7, <1>8, <1>9, <1>10, <1>11, <1>12, <1>13,
     <1>14, <1>15, <1>16, <1>17, <1>18, <1>19, <1>20, <1>21, <1>22, <1>23, <1>24, <1>25
     DEF Next, Work

\* While the repository is registered every step preserves the other parts.
LEMMA QueueStep == QueueInv /\ [Next]_vars => QueueInv'
<1> SUFFICES ASSUME QueueInv, [Next]_vars, registered' = "yes"
             PROVE  (Submitted /\ Fresh /\ Claimed /\ Running /\ Judged)'
  BY TypeStep DEF QueueInv
<1> DEFINE Parts == Submitted /\ Fresh /\ Claimed /\ Running /\ Judged
<1>t. TypeOK /\ TypeOK'
  BY TypeStep DEF QueueInv
<1> USE <1>t, QueueAssumption
     DEF TypeOK, QueueInv, Submitted, Fresh, Claimed, Running, Judged,
         BeforeSpawn, Launchers, With, Command, Exited, Status, rows, local
<1>1. ASSUME NEW d \in Dashboard, StartUp(d) PROVE Parts'
  BY <1>1 DEF StartUp, Goto
<1>2. ASSUME NEW d \in Dashboard, FlipClaim(d) PROVE Parts'
  BY <1>2 DEF FlipClaim, Goto, Update
<1>3. ASSUME NEW d \in Dashboard, Serve(d) PROVE Parts'
  BY <1>3 DEF Serve, Goto
<1>4. ASSUME NEW d \in Dashboard, Tick(d) PROVE Parts'
  BY <1>4 DEF Tick, Goto
<1>5. ASSUME NEW d \in Dashboard, ObserveExit(d) PROVE Parts'
  <2>1. PICK c \in Command : status[c] = "LAUNCHED" /\ child[c] \in Exited
                            /\ hand' = [hand EXCEPT ![d] = c]
    BY <1>5 DEF ObserveExit, Take, ExitObservable
  <2>2. /\ at[d] = "reconcile" /\ at' = [at EXCEPT ![d] = "verdict"]
        /\ registered' = registered
        /\ status' = status /\ child' = child /\ seen' = seen
    BY <1>5 DEF ObserveExit, Goto
  <2>3. (Submitted /\ Fresh)'
    BY <2>2
  <2>4. Claimed'
    BY <2>1, <2>2
  <2>5. Running'
    BY <2>1, <2>2
  <2>6. Judged'
    BY <2>1, <2>2
  <2> QED
    BY <2>3, <2>4, <2>5, <2>6
<1>6. ASSUME NEW d \in Dashboard, ObserveNothing(d) PROVE Parts'
  BY <1>6 DEF ObserveNothing, Goto
<1>7. ASSUME NEW d \in Dashboard, WriteVerdict(d) PROVE Parts'
  BY <1>7 DEF WriteVerdict, Goto, Take, Update
<1>8. ASSUME NEW d \in Dashboard, Claim(d) PROVE Parts'
  <2>c. PICK c \in With({"QUEUED"}) : /\ \A b \in With({"QUEUED"}) : c <= b
                                     /\ Update(c, "CLAIMED")
                                     /\ Take(d, c)
    BY <1>8, Zenon DEF Claim
  <2>1. /\ c \in Command
        /\ status[c] = "QUEUED" /\ \A b \in Command : status[b] = "QUEUED" => c <= b
        /\ status' = [status EXCEPT ![c] = "CLAIMED"]
        /\ hand' = [hand EXCEPT ![d] = c]
    BY <2>c DEF Update, Take
  <2>2. /\ at[d] = "claim" /\ at' = [at EXCEPT ![d] = "revalidate"]
        /\ registered' = registered /\ child' = child /\ seen' = seen
    BY <1>8 DEF Claim, Goto
  <2>3. \A b \in Command : status[b] \notin Blocking
    BY <1>8 DEF Claim, Active
  <2>4. Launchers = {} /\ \A b \in Command : child[b] # "running"
    BY <2>2, <2>3 DEF Blocking
  <2>5. Launchers' = {d} /\ BeforeSpawn' = {d}
    BY <2>2, <2>4
  <2>6. (Submitted /\ Fresh)'
    BY <2>1, <2>2
  <2>7. Claimed'
    BY <2>1, <2>2, <2>4, <2>5
  <2>8. Running'
    BY <2>2, <2>4
  <2>9. Judged'
    BY <2>1, <2>2, <2>5
  <2> QED
    BY <2>6, <2>7, <2>8, <2>9
<1>9. ASSUME NEW d \in Dashboard, NoClaim(d) PROVE Parts'
  BY <1>9 DEF NoClaim, Goto, Take, Return
<1>10. ASSUME NEW d \in Dashboard, Refuse(d) PROVE Parts'
  BY <1>10 DEF Refuse, Goto, Take, Return, Update
<1>11. ASSUME NEW d \in Dashboard, Revalidate(d) PROVE Parts'
  BY <1>11 DEF Revalidate, Goto
<1>12. ASSUME NEW d \in Dashboard, Abandon(d) PROVE Parts'
  BY <1>12 DEF Abandon, Goto, Take, Return
<1>13. ASSUME NEW d \in Dashboard, SpawnFails(d) PROVE Parts'
  BY <1>13 DEF SpawnFails, Goto, Take, Return, Update
<1>14. ASSUME NEW d \in Dashboard, Spawn(d) PROVE Parts'
  <2>1. /\ at[d] = "spawn" /\ at' = [at EXCEPT ![d] = "record"]
        /\ child' = [child EXCEPT ![hand[d]] = "running"]
        /\ registered' = registered /\ hand' = hand /\ status' = status /\ seen' = seen
    BY <1>14 DEF Spawn, Goto
  <2>2. hand[d] \in Command
    BY <2>1
  <2>3. Launchers = {d} /\ Launchers' = {d} /\ BeforeSpawn' = {}
    BY <2>1
  <2>4. \A c \in Command : child[c] # "running"
    BY <2>1
  <2>5. (Submitted /\ Fresh)'
    BY <2>1, <2>2, <2>3
  <2>6. Claimed'
    BY <2>1, <2>3
  <2>7. Running'
    BY <2>1, <2>2, <2>3, <2>4
  <2>8. Judged'
    BY <2>1, <2>2, <2>3
  <2> QED
    BY <2>5, <2>6, <2>7, <2>8
<1>15. ASSUME NEW d \in Dashboard, RecordLaunch(d) PROVE Parts'
  BY <1>15 DEF RecordLaunch, Goto, Take, Return, Update
<1>16. ASSUME NEW d \in Dashboard, DeleteCommands(d) PROVE Parts'
  BY <1>16 DEF DeleteCommands, Goto
<1>17. ASSUME NEW d \in Dashboard, DeleteRepository(d) PROVE Parts'
  BY <1>17 DEF DeleteRepository, Goto, Take, Return
<1>18. ASSUME NEW d \in Dashboard, Enqueue(d) PROVE Parts'
  BY <1>18 DEF Enqueue, Goto, Update
<1>19. ASSUME NEW d \in Dashboard, Resume(d) PROVE Parts'
  BY <1>19 DEF Resume, Goto
<1>20. ASSUME NEW d \in Dashboard, Unregister(d) PROVE Parts'
  BY <1>20 DEF Unregister, Goto
<1>21. ASSUME NEW d \in Dashboard, Crash(d) PROVE Parts'
  BY <1>21 DEF Crash, Goto, Take
<1>22. ASSUME NEW d \in Dashboard, NEW c \in Command, Cancel(d, c) PROVE Parts'
  BY <1>22 DEF Cancel, Update
<1>23. ASSUME NEW d \in Dashboard, NEW c \in Command, Acknowledge(d, c) PROVE Parts'
  BY <1>23 DEF Acknowledge, Update
<1>24. ASSUME NEW c \in Command, ChildExits(c) PROVE Parts'
  BY <1>24 DEF ChildExits
<1>25. CASE UNCHANGED vars
  BY <1>25 DEF vars
<1> QED
  BY <1>1, <1>2, <1>3, <1>4, <1>5, <1>6, <1>7, <1>8, <1>9, <1>10, <1>11, <1>12, <1>13,
     <1>14, <1>15, <1>16, <1>17, <1>18, <1>19, <1>20, <1>21, <1>22, <1>23, <1>24, <1>25
     DEF Next, Work

\* QueueInv holds in every reachable state.
THEOREM QueueInvariance == Spec => []QueueInv
<1>1. Init => QueueInv
  <2> SUFFICES ASSUME Init PROVE QueueInv
    OBVIOUS
  <2>1. TypeOK
    <3>1. 0 \in 0..MaxCrashes
      BY QueueAssumption
    <3>2. hand \in [Dashboard -> Command \cup {NoCommand}]
      BY DEF Init
    <3> QED
      BY <3>1, <3>2 DEF Init, TypeOK, Exited, Status
  <2>2. Launchers = {} /\ BeforeSpawn = {}
    BY DEF Init, Launchers, BeforeSpawn
  <2>3. Submitted /\ Fresh
    BY DEF Init, Submitted, Fresh, With
  <2>4. Claimed /\ Running /\ Judged
    BY <2>2 DEF Init, Claimed, Running, Judged
  <2> QED
    BY <2>1, <2>3, <2>4 DEF QueueInv
<1> QED
  BY <1>1, QueueStep, PTL DEF Spec

\* Every variable keeps its type, whatever Dashboards crash.
THEOREM TypeCorrect == Spec => []TypeOK
<1>1. QueueInv => TypeOK
  BY DEF QueueInv
<1> QED
  BY <1>1, QueueInvariance, PTL

\* At most one command is in flight and its row closes the queue, for any
\* number of Dashboards sharing the database.
THEOREM OneRuntime == Spec => []OneInFlight
<1>1. QueueInv => OneInFlight
  <2> SUFFICES ASSUME QueueInv, registered = "yes"
               PROVE  /\ \A b, c \in InFlight : b = c
                      /\ \A c \in InFlight : status[c] \in Blocking
    BY DEF OneInFlight
  <2>1. \A b, c \in Command : Launching(b) /\ Launching(c) => b = c
    BY DEF QueueInv, Claimed, Launching
  <2>2. \A b, c \in Command : child[b] = "running" /\ Launching(c) => b = c
    BY DEF QueueInv, Running, Launching
  <2>3. \A c \in Command : Launching(c) => status[c] \in Blocking
    BY DEF QueueInv, Claimed, Launching, Blocking
  <2> QED
    BY <2>1, <2>2, <2>3 DEF QueueInv, Running, InFlight, Blocking
<1> QED
  BY <1>1, QueueInvariance, PTL

\* A command is spawned once, in order, and over a row that closes the queue.
THEOREM LaunchOrder == Spec => LaunchedInOrder
<1> DEFINE Launch(c) == child'[c] = "running" /\ child[c] # "running"
           Due(c) == /\ child[c] = "none"
                     /\ status[c] \in {"CLAIMED", "LAUNCH_OWNERSHIP_UNKNOWN"}
                     /\ \A b \in With({"QUEUED"}) : b > c
           Order == registered = "yes" => \A c \in Command : Launch(c) => Due(c)
<1>1. QueueInv /\ [Next]_vars => Order
  <2> SUFFICES ASSUME QueueInv, [Next]_vars, registered = "yes",
                      NEW c \in Command, Launch(c)
               PROVE  Due(c)
    OBVIOUS
  <2>1. PICK d \in Dashboard : Spawn(d)
    <3>1. child' # child
      OBVIOUS
    <3> QED
      BY <3>1 DEF Next, Work, vars, rows, local, StartUp, FlipClaim, Serve, Tick,
         ObserveExit, ObserveNothing, WriteVerdict, Claim, NoClaim, Refuse, Revalidate,
         Abandon, SpawnFails, RecordLaunch, DeleteCommands, DeleteRepository, Enqueue,
         Resume, Unregister, Crash, Cancel, Acknowledge, ChildExits, QueueInv, TypeOK, Exited
  <2>2. c = hand[d] /\ d \in BeforeSpawn /\ d \in Launchers
    BY <2>1 DEF Spawn, BeforeSpawn, Launchers, QueueInv, TypeOK
  <2>3. \A b \in With({"QUEUED"}) : hand[d] < b
    BY <2>2 DEF QueueInv, Claimed
  <2> QED
    BY <2>2, <2>3 DEF QueueInv, Claimed, With, Command
<1> QED
  BY <1>1, QueueInvariance, PTL DEF Spec, LaunchedInOrder

\* What a step does to a command that nobody attends to: its status, who works on
\* it, and which Dashboards have a handle of its process.
Undisturbed(c) ==
  /\ status'[c] = status[c] /\ identity'[c] = identity[c]
  /\ \A d \in Dashboard : c \in handles'[d] => c \in handles[d]
  /\ \A d \in Dashboard : hand'[d] = c => hand[d] = c

LEMMA Attention ==
  ASSUME TypeOK, NEW c \in Command
  PROVE  Attended(c) <=> \E d \in Dashboard : hand[d] = c
BY QueueAssumption DEF Attended, Launching, Launchers, TypeOK, Command

LEMMA StuckStays ==
  ASSUME TypeOK, TypeOK', NEW c \in Command, Stuck(c),
         \/ Undisturbed(c)
         \/ /\ status'[c] = "LAUNCH_OWNERSHIP_UNKNOWN"
            /\ \A d \in Dashboard : hand'[d] = hand[d]
  PROVE  Stuck(c)'
<1>1. /\ Attended(c) <=> \E d \in Dashboard : hand[d] = c
      /\ Attended(c)' <=> \E d \in Dashboard : hand'[d] = c
  <2>1. TypeOK => (Attended(c) <=> \E d \in Dashboard : hand[d] = c)
    BY Attention
  <2>2. Attended(c)' <=> \E d \in Dashboard : hand'[d] = c
    BY QueueAssumption DEF Attended, Launching, Launchers, TypeOK, Command
  <2> QED
    BY <2>1, <2>2
<1>2. ~Attended(c)'
  BY <1>1 DEF Stuck, Undisturbed
<1>3. CASE status'[c] = "LAUNCH_OWNERSHIP_UNKNOWN"
  BY <1>2, <1>3 DEF Stuck
<1>4. CASE Undisturbed(c)
  BY <1>2, <1>4 DEF Stuck, Undisturbed
<1> QED
  BY <1>3, <1>4

\* A row whose launch cannot be accounted for closes the queue for good, for any
\* number of Dashboards that share the database, and whenever they crash or start.
THEOREM StaysClosed == Spec => UnaccountedStaysClosed
<1> DEFINE Closed == registered' = "yes" => \A c \in Command : Stuck(c) => Stuck(c)'
<1>0. TypeOK /\ [Next]_vars => Closed
  <2> SUFFICES ASSUME TypeOK, [Next]_vars, registered' = "yes", NEW c \in Command, Stuck(c)
               PROVE  Stuck(c)'
    OBVIOUS
  <2>t. TypeOK'
    BY TypeStep
  <2>h. ~Attended(c) /\ \A d \in Dashboard : hand[d] # c
    BY Attention DEF Stuck
  <2>n. c # NoCommand
    BY QueueAssumption DEF Command
  <2>s. /\ status[c] \in {"CLAIMED", "LAUNCH_OWNERSHIP_UNKNOWN", "ABNORMAL_EXIT", "LAUNCHED"}
        /\ status[c] = "ABNORMAL_EXIT" => ~identity[c]
        /\ status[c] = "LAUNCHED" => ~identity[c] /\ \A d \in Dashboard : c \notin handles[d]
    BY DEF Stuck
  <2>a. ASSUME \/ Undisturbed(c)
               \/ /\ status'[c] = "LAUNCH_OWNERSHIP_UNKNOWN"
                  /\ \A d \in Dashboard : hand'[d] = hand[d]
        PROVE  Stuck(c)'
    BY <2>a, <2>t, StuckStays
  <2> USE DEF rows, local, Goto, Take, Return, Update, With
  <2>1. ASSUME NEW d \in Dashboard,
               \/ StartUp(d) \/ Serve(d) \/ Tick(d) \/ ObserveNothing(d) \/ Revalidate(d)
               \/ Resume(d) \/ Unregister(d)
        PROVE  Undisturbed(c)
    BY <2>1 DEF StartUp, Serve, Tick, ObserveNothing, Revalidate, Resume, Unregister, Undisturbed
  <2>2. ASSUME NEW d \in Dashboard, FlipClaim(d)
        PROVE  Stuck(c)'
    <3>1. \A e \in Dashboard : hand'[e] = hand[e]
      BY <2>2 DEF FlipClaim
    <3>2. status'[c] = "LAUNCH_OWNERSHIP_UNKNOWN" \/ Undisturbed(c)
      BY <2>2 DEF FlipClaim, Undisturbed, TypeOK
    <3> QED
      BY <2>a, <3>1, <3>2
  <2>3. ASSUME NEW d \in Dashboard, ObserveExit(d)
        PROVE  Undisturbed(c)
    <3>1. PICK b \in Command : status[b] = "LAUNCHED" /\ (b \in handles[d] \/ identity[b])
                              /\ hand' = [hand EXCEPT ![d] = b]
      BY <2>3 DEF ObserveExit, ExitObservable
    <3>2. b # c
      BY <2>s, <3>1
    <3>3. UNCHANGED <<status, identity>> /\ \E S : handles' = [handles EXCEPT ![d] = @ \ S]
      BY <2>3 DEF ObserveExit
    <3> QED
      BY <3>1, <3>2, <3>3 DEF Undisturbed, TypeOK
  <2>4. ASSUME NEW d \in Dashboard,
               WriteVerdict(d) \/ Refuse(d) \/ SpawnFails(d) \/ RecordLaunch(d) \/ Spawn(d)
        PROVE  Undisturbed(c)
    <3>1. hand[d] # c
      BY <2>h
    <3>2. /\ \A b \in Command : b # hand[d] => status'[b] = status[b] /\ identity'[b] = identity[b]
          /\ \A e \in Dashboard : handles'[e] \subseteq handles[e] \cup {hand[d]}
      BY <2>4 DEF WriteVerdict, Refuse, SpawnFails, RecordLaunch, Spawn, TypeOK
    <3>3. \A e \in Dashboard : hand'[e] \in {hand[e], NoCommand}
      BY <2>4 DEF WriteVerdict, Refuse, SpawnFails, RecordLaunch, Spawn, TypeOK
    <3> QED
      BY <2>h, <2>n, <3>1, <3>2, <3>3 DEF Undisturbed
  <2>5. ASSUME NEW d \in Dashboard, Claim(d)
        PROVE  Undisturbed(c)
    <3>1. PICK b \in Command : /\ status[b] = "QUEUED" /\ status' = [status EXCEPT ![b] = "CLAIMED"]
                               /\ hand' = [hand EXCEPT ![d] = b]
      BY <2>5 DEF Claim
    <3>2. b # c
      BY <2>s, <3>1
    <3>3. UNCHANGED <<identity, handles>>
      BY <2>5 DEF Claim
    <3> QED
      BY <3>1, <3>2, <3>3 DEF Undisturbed, TypeOK
  <2>6. ASSUME NEW d \in Dashboard, NoClaim(d) \/ Abandon(d) \/ Crash(d) \/ DeleteRepository(d)
        PROVE  Undisturbed(c)
    <3>1. /\ UNCHANGED <<status, identity>>
          /\ \A e \in Dashboard : handles'[e] \subseteq handles[e]
          /\ \A e \in Dashboard : hand'[e] \in {hand[e], NoCommand}
      BY <2>6 DEF NoClaim, Abandon, Crash, DeleteRepository, TypeOK
    <3> QED
      BY <2>n, <3>1 DEF Undisturbed
  <2>7. ASSUME NEW d \in Dashboard, DeleteCommands(d)
        PROVE  FALSE
    BY <2>7 DEF DeleteCommands
  <2>8. ASSUME NEW d \in Dashboard, Enqueue(d)
        PROVE  Undisturbed(c)
    <3>1. PICK b \in Command : status[b] = "NONE" /\ status' = [status EXCEPT ![b] = "QUEUED"]
      BY <2>8 DEF Enqueue
    <3>2. UNCHANGED <<identity, handles, hand>>
      BY <2>8 DEF Enqueue
    <3> QED
      BY <2>s, <3>1, <3>2 DEF Undisturbed, TypeOK
  <2>9. ASSUME NEW d \in Dashboard, NEW b \in Command, Cancel(d, b) \/ Acknowledge(d, b)
        PROVE  Undisturbed(c)
    <3>1. b # c
      BY <2>s, <2>9 DEF Cancel, Acknowledge
    <3> QED
      BY <2>9, <3>1 DEF Cancel, Acknowledge, Undisturbed, TypeOK
  <2>10. ASSUME NEW b \in Command, ChildExits(b)
         PROVE  Undisturbed(c)
    BY <2>10 DEF ChildExits, Undisturbed
  <2>11. CASE UNCHANGED vars
    <3>1. Undisturbed(c)
      BY <2>11 DEF vars, Undisturbed
    <3> QED
      BY <2>a, <3>1
  <2> QED
    BY <2>a, <2>1, <2>2, <2>3, <2>4, <2>5, <2>6, <2>7, <2>8, <2>9, <2>10, <2>11 DEF Next, Work
<1> QED
  BY <1>0, TypeCorrect, PTL DEF Spec, UnaccountedStaysClosed

=============================================================================
