---------------------- MODULE DashboardLauncherProofs ----------------------
(***************************************************************************)
(* Theorems about DashboardLauncher, for any number of invocations, ports, *)
(* Dashboards and kills.                                                   *)
(***************************************************************************)
EXTENDS DashboardLauncher, TLAPS

Holding == {"load", "listen", "resolve", "terminate", "release", "spawn", "save"}

Dashboard ==
  [at: {"unborn", "starting", "serving", "unhealthy", "hung", "dying", "gone"},
   port: Port, young: BOOLEAN]

Pid == Child \cup {Nobody}

Caller == [at: State, port: Port, acts: BOOLEAN, listens: BOOLEAN, saw: Pid, target: Pid]

Types ==
  /\ child \in [Child -> Dashboard]
  /\ inv \in [Invocation -> Caller]
  /\ record \in Pid
  /\ lost \subseteq Child
  /\ foreign \subseteq Port

\* The lock is held exactly while an invocation decides or starts.
Exclusive == \A i \in Invocation : Locked(i) <=> inv[i].at \in Holding

Started(c) == c # Nobody => child[c].at # "unborn"

\* A Dashboard that does not listen is within its grace, one that was never
\* started has none.
Graces ==
  \A c \in Child :
    /\ child[c].at = "starting" /\ c \notin lost => child[c].young
    /\ child[c].at = "unborn" => ~child[c].young

\* What an invocation saw under the lock is on record still, unless a --stop has
\* removed the record.
Remembers(i) ==
  /\ Started(inv[i].saw)
  /\ inv[i].at \in {"listen", "resolve", "terminate"} => record \in {inv[i].saw, Nobody}
  /\ inv[i].at \in {"terminate", "prove", "kill", "unlink"} => inv[i].saw # Nobody
  /\ inv[i].at = "unlink" => ~Up(inv[i].saw)
  /\ inv[i].at = "save" => /\ inv[i].target # Nobody
                           /\ child[inv[i].target].at # "unborn"
                           /\ child[inv[i].target].port = inv[i].port

UpThere(c, i) == Up(c) /\ child[c].port = inv[i].port

\* A Dashboard that it did not see listen is within its grace.
SawStarting(i) ==
  inv[i].at = "resolve" /\ ~inv[i].listens =>
    \A c \in Child \ lost : UpThere(c, i) => child[c].young

\* From the moment it means to start one, no other Dashboard that it can know
\* of is up on the port.
Clear(i) ==
  inv[i].at \in {"release", "spawn", "save"} =>
    \A c \in Child \ lost : UpThere(c, i) => inv[i].at = "save" /\ inv[i].target = c

Fits(i) == Remembers(i) /\ SawStarting(i) /\ Clear(i)

LauncherInv ==
  /\ Types
  /\ Exclusive
  /\ Started(record)
  /\ Graces
  /\ \A i \in Invocation : Fits(i)
  /\ Accounted
  /\ OnlyOne

-----------------------------------------------------------------------------
\* Nothing runs, nothing is recorded and nobody holds the lock.
LEMMA LauncherInitial == Init => LauncherInv
BY DashboardLauncherAssumption
   DEF Init, LauncherInv, Types, Dashboard, Caller, Pid, Exclusive, Started, Graces,
       Fits, Remembers, SawStarting, Clear, UpThere, Accounted, OnlyOne, Unborn, AnyPort,
       State, Holding, Locked, Up, Alive, Nobody

-----------------------------------------------------------------------------
(* Steps of an invocation that change nothing but itself and the lock.     *)

Alone(i) ==
  /\ UNCHANGED <<child, foreign, record, lost>>
  /\ \A j \in Invocation \ {i} : inv'[j] = inv[j]

\* Nothing but the invocation has to be looked at, unless its Dashboard waits to
\* be recorded.
LEMMA OneMoves ==
  ASSUME LauncherInv, NEW i \in Invocation, Alone(i), Types', Exclusive', Fits(i)',
         inv[i].at # "save"
  PROVE  LauncherInv'
<1>1. Started(record)' /\ Graces' /\ OnlyOne'
  BY DEF LauncherInv, Alone, Started, Graces, OnlyOne, Up, Alive
<1>2. ASSUME NEW j \in Invocation PROVE Fits(j)'
  <2>1. CASE j = i
    BY <2>1
  <2>2. CASE j # i
    <3>1. Fits(j) /\ inv'[j] = inv[j]
      BY <2>2 DEF LauncherInv, Alone
    <3> QED
      BY <3>1 DEF Alone, Fits, Remembers, SawStarting, Clear, UpThere, Started, Up, Alive
  <2> QED
    BY <2>1, <2>2
<1>3. Accounted'
  <2> SUFFICES ASSUME NEW c \in Child \ lost, Up(c), record # c
               PROVE  \E j \in Invocation :
                        Locked(j)' /\ inv'[j].at = "save" /\ inv'[j].target = c
    BY DEF Alone, Accounted, Up, Alive
  <2>1. PICK j \in Invocation : inv[j].at = "save" /\ inv[j].target = c
    BY DEF LauncherInv, Accounted
  <2>2. inv'[j] = inv[j]
    BY <2>1 DEF Alone
  <2>3. Locked(j)'
    BY <2>1, <2>2 DEF Exclusive, Holding
  <2> QED
    BY <2>1, <2>2, <2>3
<1> QED
  BY <1>1, <1>2, <1>3 DEF LauncherInv

\* The record of one invocation is replaced.
LEMMA OneChanges ==
  ASSUME Types, NEW i \in Invocation, NEW r \in Caller, inv' = [inv EXCEPT ![i] = r],
         UNCHANGED <<child, foreign, record, lost>>
  PROVE  Types' /\ Alone(i) /\ inv'[i] = r
BY DEF Types, Alone

LEMMA LaunchMoves ==
  ASSUME LauncherInv, NEW i \in Invocation, NEW p \in Port, Launch(i, p) PROVE LauncherInv'
<1> DEFINE r == [inv[i] EXCEPT !.at = "lock", !.port = p]
<1>1. inv' = [inv EXCEPT ![i] = r]
  BY DEF Launch, LauncherInv, Types
<1>2. r \in Caller
  BY DEF LauncherInv, Types, Caller, Pid, State
<1>3. Types' /\ Alone(i) /\ inv'[i] = r
  BY <1>1, <1>2, OneChanges DEF Launch, LauncherInv
<1>4. Exclusive'
  BY <1>3, DashboardLauncherAssumption DEF Launch, Locked, LauncherInv, Types,
     Caller, Alone, Exclusive, Holding
<1>5. Fits(i)'
  BY <1>3 DEF Launch, LauncherInv, Types, Caller, Alone, Fits, Remembers,
     SawStarting, Clear, UpThere, Started, Up, Alive
<1> QED
  BY <1>3, <1>4, <1>5, OneMoves DEF Launch

LEMMA AcquireMoves ==
  ASSUME LauncherInv, NEW i \in Invocation, Acquire(i) PROVE LauncherInv'
<1>1. Alone(i) /\ inv[i].at # "save"
  BY DEF Alone, Acquire, Goto
<1>2. Types'
  BY DEF Acquire, Goto, LauncherInv, Types, Caller, Pid, State
<1>3. Exclusive'
  BY DashboardLauncherAssumption DEF Acquire, Goto, Lock, Locked,
     LauncherInv, Types, Exclusive, Holding
<1>4. Fits(i)'
  BY <1>1 DEF Acquire, Goto, LauncherInv, Types, Alone, Fits, Remembers,
     SawStarting, Clear, UpThere, Started, Up, Alive
<1> QED
  BY <1>1, <1>2, <1>3, <1>4, OneMoves

LEMMA LockTimeoutMoves ==
  ASSUME LauncherInv, NEW i \in Invocation, LockTimeout(i) PROVE LauncherInv'
<1>1. Alone(i) /\ inv[i].at # "save"
  BY DEF Alone, LockTimeout, Goto
<1>2. Types'
  BY DEF LockTimeout, Goto, LauncherInv, Types, Caller, Pid, State
<1>3. Exclusive'
  BY DashboardLauncherAssumption DEF LockTimeout, Goto, Locked, LauncherInv, Types,
     Exclusive, Holding
<1>4. Fits(i)'
  BY <1>1 DEF LockTimeout, Goto, LauncherInv, Types, Alone, Fits, Remembers,
     SawStarting, Clear, UpThere, Started, Up, Alive
<1> QED
  BY <1>1, <1>2, <1>3, <1>4, OneMoves

LEMMA LoadMoves ==
  ASSUME LauncherInv, NEW i \in Invocation, Load(i) PROVE LauncherInv'
<1> DEFINE r == [inv[i] EXCEPT !.at = "listen", !.saw = record]
<1>1. inv' = [inv EXCEPT ![i] = r]
  BY DEF Load, LauncherInv, Types
<1>2. r \in Caller
  BY DEF LauncherInv, Types, Caller, Pid, State
<1>3. Types' /\ Alone(i) /\ inv'[i] = r
  BY <1>1, <1>2, OneChanges DEF Load, LauncherInv
<1>4. Exclusive'
  BY <1>3, DashboardLauncherAssumption DEF Load, Locked, LauncherInv, Types, Caller,
     Alone, Exclusive, Holding
<1>5. Fits(i)'
  BY <1>3 DEF Load, LauncherInv, Types, Caller, Alone, Fits, Remembers, SawStarting,
     Clear, UpThere, Started, Up, Alive
<1> QED
  BY <1>3, <1>4, <1>5, OneMoves DEF Load

LEMMA ListenMoves ==
  ASSUME LauncherInv, NEW i \in Invocation, Listen(i) PROVE LauncherInv'
<1> DEFINE r == [inv[i] EXCEPT !.at = "resolve", !.listens = Listening(inv[i].port)]
<1>1. inv' = [inv EXCEPT ![i] = r]
  BY DEF Listen, LauncherInv, Types
<1>2. r \in Caller
  BY DEF LauncherInv, Types, Caller, Pid, State, Listening, ListensOn
<1>3. Types' /\ Alone(i) /\ inv'[i] = r
  BY <1>1, <1>2, OneChanges DEF Listen, LauncherInv
<1>4. Exclusive'
  BY <1>3, DashboardLauncherAssumption DEF Listen, Locked, LauncherInv, Types,
     Caller, Alone, Exclusive, Holding
<1>5. Fits(i)'
  <2>1. Remembers(i)' /\ Clear(i)'
    BY <1>3 DEF Listen, LauncherInv, Types, Caller, Alone, Fits, Remembers, Clear, Started,
       Up, Alive
  <2>2. SawStarting(i)'
    <3> SUFFICES ASSUME ~Listening(inv[i].port),
                        NEW c \in Child \ lost, UpThere(c, i)
                 PROVE  child[c].young
      BY <1>3 DEF LauncherInv, Types, Caller, Alone, SawStarting, UpThere, Up, Alive
    <3>1. child[c].at = "starting"
      BY DEF Listening, ListensOn, UpThere, Up, Alive
    <3> QED
      BY <3>1 DEF LauncherInv, Graces
  <2> QED
    BY <2>1, <2>2 DEF Fits
<1> QED
  BY <1>3, <1>4, <1>5, OneMoves DEF Listen

LEMMA SettleMoves ==
  ASSUME LauncherInv, NEW i \in Invocation, Settle(i) PROVE LauncherInv'
<1>1. Alone(i) /\ inv[i].at # "save"
  BY DEF Alone, Settle, Goto
<1>2. Types'
  BY DEF Settle, Goto, LauncherInv, Types, Caller, Pid, State
<1>3. Exclusive'
  BY DashboardLauncherAssumption DEF Settle, Goto, Unlocks, Locked, LauncherInv,
     Types, Exclusive, Holding
<1>4. Fits(i)'
  BY <1>1 DEF Settle, Goto, LauncherInv, Types, Alone, Fits, Remembers, SawStarting,
     Clear, UpThere, Started, Up, Alive
<1> QED
  BY <1>1, <1>2, <1>3, <1>4, OneMoves

LEMMA JoinMoves ==
  ASSUME LauncherInv, NEW i \in Invocation, Join(i) PROVE LauncherInv'
<1> DEFINE r == [inv[i] EXCEPT !.at = "wait", !.target = inv[i].saw]
<1>1. inv' = [inv EXCEPT ![i] = r]
  BY DEF Join, LauncherInv, Types
<1>2. r \in Caller
  BY DEF LauncherInv, Types, Caller, Pid, State
<1>3. Types' /\ Alone(i) /\ inv'[i] = r
  BY <1>1, <1>2, OneChanges DEF Join, LauncherInv
<1>4. Exclusive'
  BY <1>3, DashboardLauncherAssumption DEF Join, Unlocks, Locked, LauncherInv,
     Types, Caller, Alone, Exclusive, Holding
<1>5. Fits(i)'
  BY <1>3 DEF Join, LauncherInv, Types, Caller, Alone, Fits, Remembers, SawStarting,
     Clear, UpThere, Started, Up, Alive
<1> QED
  BY <1>3, <1>4, <1>5, OneMoves DEF Join

LEMMA DecideMoves ==
  ASSUME LauncherInv, NEW i \in Invocation, Decide(i) PROVE LauncherInv'
<1>1. Alone(i) /\ inv[i].at # "save"
  BY DEF Alone, Decide, Starts, Goto
<1>2. Types'
  BY DEF Decide, Starts, Goto, LauncherInv, Types, Caller, Pid, State
<1>3. Exclusive'
  BY DashboardLauncherAssumption DEF Decide, Starts, Goto, Unlocks, Locked,
     LauncherInv, Types, Exclusive, Holding
<1>4. Fits(i)'
  BY <1>1 DEF Decide, Starts, Goto, LauncherInv, Types, Alone, Fits, Remembers,
     SawStarting, Clear, UpThere, Started, Up, Alive
<1> QED
  BY <1>1, <1>2, <1>3, <1>4, OneMoves

LEMMA PrepareMoves ==
  ASSUME LauncherInv, NEW i \in Invocation, Prepare(i) PROVE LauncherInv'
<1>0. PICK ok \in BOOLEAN :
        inv' = [inv EXCEPT ![i].at = IF ok THEN "relock" ELSE "done", ![i].acts = ok]
  BY DEF Prepare
<1> DEFINE r == [inv[i] EXCEPT !.at = IF ok THEN "relock" ELSE "done", !.acts = ok]
<1>1. inv' = [inv EXCEPT ![i] = r]
  BY <1>0 DEF Prepare, LauncherInv, Types
<1>2. r \in Caller
  BY <1>0 DEF LauncherInv, Types, Caller, Pid, State
<1>3. Types' /\ Alone(i) /\ inv'[i] = r
  BY <1>1, <1>2, OneChanges DEF Prepare, LauncherInv
<1>4. Exclusive'
  BY <1>3, DashboardLauncherAssumption DEF Prepare, Locked, LauncherInv, Types,
     Caller, Alone, Exclusive, Holding
<1>5. Fits(i)'
  BY <1>3 DEF Prepare, LauncherInv, Types, Caller, Alone, Fits, Remembers,
     SawStarting, Clear, UpThere, Started, Up, Alive
<1> QED
  BY <1>3, <1>4, <1>5, OneMoves DEF Prepare

LEMMA AcquireAgainMoves ==
  ASSUME LauncherInv, NEW i \in Invocation, AcquireAgain(i) PROVE LauncherInv'
<1>1. Alone(i) /\ inv[i].at # "save"
  BY DEF Alone, AcquireAgain, Goto
<1>2. Types'
  BY DEF AcquireAgain, Goto, SecondLook, LauncherInv, Types, Caller, Pid, State
<1>3. Exclusive'
  BY DashboardLauncherAssumption DEF AcquireAgain, Goto, SecondLook, Lock,
     Locked, LauncherInv, Types, Exclusive, Holding
<1>4. Fits(i)'
  BY <1>1 DEF AcquireAgain, Goto, SecondLook, LauncherInv, Types, Alone, Fits,
     Remembers, SawStarting, Clear, UpThere, Started, Up, Alive
<1> QED
  BY <1>1, <1>2, <1>3, <1>4, OneMoves

LEMMA LockTimeoutAgainMoves ==
  ASSUME LauncherInv, NEW i \in Invocation, LockTimeoutAgain(i) PROVE LauncherInv'
<1>1. Alone(i) /\ inv[i].at # "save"
  BY DEF Alone, LockTimeoutAgain, Goto
<1>2. Types'
  BY DEF LockTimeoutAgain, Goto, LauncherInv, Types, Caller, Pid, State
<1>3. Exclusive'
  BY DashboardLauncherAssumption DEF LockTimeoutAgain, Goto, Locked, LauncherInv,
     Types, Exclusive, Holding
<1>4. Fits(i)'
  BY <1>1 DEF LockTimeoutAgain, Goto, LauncherInv, Types, Alone, Fits, Remembers,
     SawStarting, Clear, UpThere, Started, Up, Alive
<1> QED
  BY <1>1, <1>2, <1>3, <1>4, OneMoves

LEMMA ActMoves ==
  ASSUME LauncherInv, NEW i \in Invocation, Act(i) PROVE LauncherInv'
<1> DEFINE r == [inv[i] EXCEPT !.at = 
                 IF Action(i) = "START_NEW" THEN "spawn" ELSE "terminate"]
<1>1. inv' = [inv EXCEPT ![i] = r]
  BY DEF Act, Starts, Goto, LauncherInv, Types
<1>2. r \in Caller
  BY DEF LauncherInv, Types, Caller, Pid, State
<1>3. Types' /\ Alone(i) /\ inv'[i] = r
  BY <1>1, <1>2, OneChanges DEF Act, Starts, LauncherInv
<1>4. Exclusive'
  BY <1>3, DashboardLauncherAssumption DEF Act, Starts, Goto, Locked, LauncherInv,
     Types, Caller, Alone, Exclusive, Holding
<1>5. Fits(i)'
  <2>1. CASE Action(i) = "START_NEW"
    <3>1. ~inv[i].listens /\ ~Starting(i)
      BY <2>1 DEF Action, Owned
    <3>2. \A c \in Child \ lost : ~UpThere(c, i)
      <4> SUFFICES ASSUME NEW c \in Child \ lost, UpThere(c, i) PROVE FALSE
        OBVIOUS
      <4>1. record = c
        <5>1. Locked(i) /\ inv[i].at = "resolve"
          BY DEF Act, Starts, LauncherInv, Exclusive, Holding
        <5> QED
          BY <5>1, DashboardLauncherAssumption DEF LauncherInv, Accounted, UpThere, Locked
      <4>2. inv[i].saw = c /\ c # Nobody
        BY <4>1 DEF Act, Starts, LauncherInv, Fits, Remembers, Child, Nobody
      <4>3. child[c].young
        BY <3>1 DEF Act, Starts, LauncherInv, Fits, SawStarting
      <4> QED
        BY <3>1, <4>2, <4>3 DEF Starting, Recorded, UpThere, Up
    <3> QED
      BY <1>3, <2>1, <3>2 DEF Act, Starts, LauncherInv, Types, Caller, Alone, Fits,
         Remembers, SawStarting, Clear, UpThere, Started, Up, Alive
  <2>2. CASE Action(i) # "START_NEW"
    <3>1. inv[i].saw # Nobody
      BY <2>2 DEF Act, Starts, Action, Owned, Recorded
    <3> QED
      BY <1>3, <2>2, <3>1 DEF Act, Starts, LauncherInv, Types, Caller, Alone, Fits,
         Remembers, SawStarting, Clear, UpThere, Started, Up, Alive
  <2> QED
    BY <2>1, <2>2
<1> QED
  BY <1>3, <1>4, <1>5, OneMoves DEF Act, Starts, Goto

LEMMA ReleasedMoves ==
  ASSUME LauncherInv, NEW i \in Invocation, Released(i) PROVE LauncherInv'
<1>1. Alone(i) /\ inv[i].at # "save"
  BY DEF Alone, Released, Goto
<1>2. Types'
  BY DEF Released, Goto, LauncherInv, Types, Caller, Pid, State
<1>3. Exclusive'
  BY DashboardLauncherAssumption DEF Released, Goto, Locked, LauncherInv, Types,
     Exclusive, Holding
<1>4. Fits(i)'
  BY <1>1 DEF Released, Goto, LauncherInv, Types, Alone, Fits, Remembers,
     SawStarting, Clear, UpThere, Started, Up, Alive
<1> QED
  BY <1>1, <1>2, <1>3, <1>4, OneMoves

LEMMA NotReleasedMoves ==
  ASSUME LauncherInv, NEW i \in Invocation, NotReleased(i) PROVE LauncherInv'
<1>1. Alone(i) /\ inv[i].at # "save"
  BY DEF Alone, NotReleased, Goto
<1>2. Types'
  BY DEF NotReleased, Goto, LauncherInv, Types, Caller, Pid, State
<1>3. Exclusive'
  BY DashboardLauncherAssumption DEF NotReleased, Goto, Unlocks, Locked,
     LauncherInv, Types, Exclusive, Holding
<1>4. Fits(i)'
  BY <1>1 DEF NotReleased, Goto, LauncherInv, Types, Alone, Fits, Remembers,
     SawStarting, Clear, UpThere, Started, Up, Alive
<1> QED
  BY <1>1, <1>2, <1>3, <1>4, OneMoves

LEMMA ReadyMoves ==
  ASSUME LauncherInv, NEW i \in Invocation, Ready(i) PROVE LauncherInv'
<1>1. Alone(i) /\ inv[i].at # "save"
  BY DEF Alone, Ready, Goto
<1>2. Types'
  BY DEF Ready, Goto, LauncherInv, Types, Caller, Pid, State
<1>3. Exclusive'
  BY DashboardLauncherAssumption DEF Ready, Goto, Locked, LauncherInv, Types,
     Exclusive, Holding
<1>4. Fits(i)'
  BY <1>1 DEF Ready, Goto, LauncherInv, Types, Alone, Fits, Remembers, SawStarting,
     Clear, UpThere, Started, Up, Alive
<1> QED
  BY <1>1, <1>2, <1>3, <1>4, OneMoves

LEMMA GiveUpMoves ==
  ASSUME LauncherInv, NEW i \in Invocation, GiveUp(i) PROVE LauncherInv'
<1>1. Alone(i) /\ inv[i].at # "save"
  BY DEF Alone, GiveUp, Goto
<1>2. Types'
  BY DEF GiveUp, Goto, LauncherInv, Types, Caller, Pid, State
<1>3. Exclusive'
  BY DashboardLauncherAssumption DEF GiveUp, Goto, Locked, LauncherInv, Types,
     Exclusive, Holding
<1>4. Fits(i)'
  BY <1>1 DEF GiveUp, Goto, LauncherInv, Types, Alone, Fits, Remembers, SawStarting,
     Clear, UpThere, Started, Up, Alive
<1> QED
  BY <1>1, <1>2, <1>3, <1>4, OneMoves

LEMMA StopMoves ==
  ASSUME LauncherInv, NEW i \in Invocation, Stop(i) PROVE LauncherInv'
<1> DEFINE r == [inv[i] EXCEPT !.at = IF record = Nobody THEN "done" ELSE "prove",
                            !.saw = record]
<1>1. inv' = [inv EXCEPT ![i] = r]
  BY DEF Stop, LauncherInv, Types
<1>2. r \in Caller
  BY DEF LauncherInv, Types, Caller, Pid, State
<1>3. Types' /\ Alone(i) /\ inv'[i] = r
  BY <1>1, <1>2, OneChanges DEF Stop, LauncherInv
<1>4. Exclusive'
  BY <1>3, DashboardLauncherAssumption DEF Stop, Locked, LauncherInv, Types, Caller,
     Alone, Exclusive, Holding
<1>5. Fits(i)'
  BY <1>3 DEF Stop, LauncherInv, Types, Caller, Alone, Fits, Remembers, SawStarting,
     Clear, UpThere, Started, Up, Alive
<1> QED
  BY <1>3, <1>4, <1>5, OneMoves DEF Stop

LEMMA ProveMoves ==
  ASSUME LauncherInv, NEW i \in Invocation, Prove(i) PROVE LauncherInv'
<1> DEFINE r == [inv[i] EXCEPT !.at =
                 IF Identifies(inv[i].saw, child[inv[i].saw].port) THEN "kill" ELSE "done"]
<1>1. inv' = [inv EXCEPT ![i] = r]
  BY DEF Prove, Goto, LauncherInv, Types
<1>2. r \in Caller
  BY DEF LauncherInv, Types, Caller, Pid, State
<1>3. Types' /\ Alone(i) /\ inv'[i] = r
  BY <1>1, <1>2, OneChanges DEF Prove, LauncherInv
<1>4. Exclusive'
  BY <1>3, DashboardLauncherAssumption DEF Prove, Goto, Locked, LauncherInv, Types,
     Caller, Alone, Exclusive, Holding
<1>5. Fits(i)'
  BY <1>3 DEF Prove, Goto, LauncherInv, Types, Caller, Alone, Fits, Remembers,
     SawStarting, Clear, UpThere, Started, Up, Alive
<1> QED
  BY <1>3, <1>4, <1>5, OneMoves DEF Prove, Goto

-----------------------------------------------------------------------------
(* Steps of a Dashboard, and what is done to one.                          *)

\* One Dashboard changes, and does not come up by it.
Changes(c) ==
  /\ \A d \in Child \ {c} : child'[d] = child[d]
  /\ child'[c].port = child[c].port
  /\ child[c].at # "unborn" /\ child'[c].at # "unborn"
  /\ Up(c)' => Up(c)

\* Does an invocation take c for one that does not listen yet?
Unheard(c) ==
  \E i \in Invocation :
    inv[i].at = "resolve" /\ ~inv[i].listens /\ child[c].port = inv[i].port

\* Who does not move has to look only at what the change means for its memory.
LEMMA OneChanged ==
  ASSUME LauncherInv, NEW c \in Child, Changes(c), Types', Exclusive', Graces',
         UNCHANGED record, lost \subseteq lost', NEW Moved \in SUBSET Invocation,
         \A j \in Moved : inv[j].at # "save" /\ Fits(j)',
         \A j \in Invocation \ Moved : inv'[j] = inv[j],
         c \notin lost' /\ Up(c)' /\ Unheard(c) /\ child[c].young => child'[c].young
  PROVE  LauncherInv'
<1>1. \A d \in Child : /\ child'[d].port = child[d].port
                       /\ child[d].at # "unborn" => child'[d].at # "unborn"
                       /\ Up(d)' => Up(d)
  BY DEF Changes, Up, Alive
<1>2. Started(record)'
  BY <1>1 DEF LauncherInv, Types, Pid, Started
<1>3. ASSUME NEW j \in Invocation PROVE Fits(j)'
  <2>1. CASE j \in Moved
    BY <2>1
  <2>2. CASE j \notin Moved
    <3>0. Fits(j) /\ inv'[j] = inv[j] /\ inv[j].saw \in Pid /\ inv[j].target \in Pid
      BY <2>2 DEF LauncherInv, Types, Caller
    <3>1. Remembers(j)'
      BY <1>1, <3>0 DEF Fits, Remembers, Started, Pid
    <3>2. SawStarting(j)'
      <4> SUFFICES ASSUME inv[j].at = "resolve", ~inv[j].listens,
                          NEW d \in Child \ lost', UpThere(d, j)'
                   PROVE  child'[d].young
        BY <3>0 DEF SawStarting
      <4>1. Up(d) /\ Up(d)' /\ UpThere(d, j)
        BY <1>1, <3>0 DEF UpThere
      <4>2. child[d].young
        BY <3>0, <4>1 DEF Fits, SawStarting
      <4>3. CASE d = c
        BY <4>1, <4>2, <4>3 DEF Unheard, UpThere
      <4>4. CASE d # c
        BY <4>2, <4>4 DEF Changes
      <4> QED
        BY <4>3, <4>4
    <3>3. Clear(j)'
      BY <1>1, <3>0 DEF Fits, Clear, UpThere
    <3> QED
      BY <3>1, <3>2, <3>3 DEF Fits
  <2> QED
    BY <2>1, <2>2
<1>4. Accounted'
  <2> SUFFICES ASSUME NEW d \in Child \ lost, Up(d), record # d
               PROVE  \E j \in Invocation :
                        Locked(j)' /\ inv'[j].at = "save" /\ inv'[j].target = d
    BY <1>1 DEF Accounted
  <2>1. PICK j \in Invocation : inv[j].at = "save" /\ inv[j].target = d
    BY DEF LauncherInv, Accounted
  <2>2. inv'[j] = inv[j]
    BY <2>1
  <2>3. Locked(j)'
    BY <2>1, <2>2 DEF Exclusive, Holding
  <2> QED
    BY <2>1, <2>2, <2>3
<1>5. OnlyOne'
  BY <1>1 DEF LauncherInv, OnlyOne
<1> QED
  BY <1>2, <1>3, <1>4, <1>5 DEF LauncherInv

\* The same when no invocation moves.
LEMMA OnlyChildChanged ==
  ASSUME LauncherInv, NEW c \in Child, Changes(c), Types', Exclusive', Graces',
         UNCHANGED <<record, inv>>, lost \subseteq lost',
         c \notin lost' /\ Up(c)' /\ Unheard(c) /\ child[c].young => child'[c].young
  PROVE  LauncherInv'
<1>1. /\ {} \in SUBSET Invocation
      /\ \A j \in {} : inv[j].at # "save" /\ Fits(j)'
      /\ \A j \in Invocation \ {} : inv'[j] = inv[j]
  OBVIOUS
<1>2. UNCHANGED record
  OBVIOUS
<1> QED
  BY <1>1, <1>2, OneChanged

LEMMA BindMoves ==
  ASSUME LauncherInv, NEW c \in Child, Bind(c) PROVE LauncherInv'
<1>1. Changes(c) /\ child'[c].young = child[c].young
  BY DEF Bind, Becomes, Changes, LauncherInv, Types, Dashboard, Up, Alive
<1>2. Types'
  BY DEF Bind, Becomes, OnlyChild, LauncherInv, Types, Dashboard
<1>3. Exclusive'
  BY DEF Bind, OnlyChild, LauncherInv, Exclusive, Locked
<1>4. Graces'
  BY DEF Bind, Becomes, LauncherInv, Types, Dashboard, Graces
<1> QED
  BY <1>1, <1>2, <1>3, <1>4, OnlyChildChanged DEF Bind, OnlyChild

LEMMA AilMoves ==
  ASSUME LauncherInv, NEW c \in Child, Ail(c) PROVE LauncherInv'
<1>1. Changes(c) /\ child'[c].young = child[c].young
  BY DEF Ail, Becomes, Changes, LauncherInv, Types, Dashboard, Up, Alive
<1>2. Types'
  BY DEF Ail, Becomes, OnlyChild, LauncherInv, Types, Dashboard
<1>3. Exclusive'
  BY DEF Ail, OnlyChild, LauncherInv, Exclusive, Locked
<1>4. Graces'
  BY DEF Ail, Becomes, LauncherInv, Types, Dashboard, Graces
<1> QED
  BY <1>1, <1>2, <1>3, <1>4, OnlyChildChanged DEF Ail, OnlyChild

LEMMA ExitMoves ==
  ASSUME LauncherInv, NEW c \in Child, Exit(c) PROVE LauncherInv'
<1>1. Changes(c) /\ child'[c].young = child[c].young
  BY DEF Exit, Becomes, Changes, LauncherInv, Types, Dashboard, Up, Alive
<1>2. Types'
  BY DEF Exit, Becomes, OnlyChild, LauncherInv, Types, Dashboard
<1>3. Exclusive'
  BY DEF Exit, OnlyChild, LauncherInv, Exclusive, Locked
<1>4. Graces'
  BY DEF Exit, Becomes, LauncherInv, Types, Dashboard, Graces
<1> QED
  BY <1>1, <1>2, <1>3, <1>4, OnlyChildChanged DEF Exit, OnlyChild

LEMMA GrowMoves ==
  ASSUME LauncherInv, NEW c \in Child, Grow(c) PROVE LauncherInv'
<1>0. child[c].at # "unborn"
  <2>1. child[c].young
    BY DEF Grow
  <2> QED
    BY <2>1 DEF LauncherInv, Graces
<1>1. Changes(c)
  BY <1>0 DEF Grow, Changes, LauncherInv, Types, Dashboard, Up, Alive
<1>2. Types'
  BY DEF Grow, OnlyChild, LauncherInv, Types, Dashboard
<1>3. Exclusive'
  BY DEF Grow, OnlyChild, LauncherInv, Exclusive, Locked
<1>4. Graces'
  BY DEF Grow, SeenToListen, LauncherInv, Types, Dashboard, Graces
<1>5. c \notin lost' => ~Unheard(c)
  BY DEF Grow, SeenToListen, Unheard
<1>6. lost \subseteq lost' /\ UNCHANGED <<record, inv>>
  BY DEF Grow, OnlyChild
<1> QED
  BY <1>1, <1>2, <1>3, <1>4, <1>5, <1>6, OnlyChildChanged

\* Both signal what they saw, and go on.
LEMMA SignalMoves ==
  ASSUME LauncherInv, NEW i \in Invocation, Terminate(i) \/ KillOwned(i)
  PROVE  LauncherInv'
<1> DEFINE next == IF inv[i].at = "terminate" THEN "release" ELSE "unlink"
<1>1. PICK c \in Child :
        /\ c = inv[i].saw /\ child[c].at # "unborn" /\ inv[i].at # "save"
        /\ inv' = [inv EXCEPT ![i].at = next] /\ child' = Signalled(c)
        /\ UNCHANGED <<foreign, record, lock, lost>>
  BY DEF Terminate, KillOwned, Goto, LauncherInv, Types, Caller, Pid, Fits, Remembers,
     Started
<1>2. Changes(c) /\ ~Up(c)'
  BY <1>1 DEF Signalled, Changes, LauncherInv, Types, Dashboard, Up, Alive
<1>3. Types'
  BY <1>1 DEF Signalled, LauncherInv, Types, Dashboard, Caller, State
<1>4. Exclusive'
  BY <1>1 DEF Terminate, KillOwned, Goto, LauncherInv, Types, Caller, Exclusive, Holding,
     Locked
<1>5. Graces'
  BY <1>1 DEF Signalled, LauncherInv, Types, Dashboard, Graces
<1>6. /\ \A j \in Invocation \ {i} : inv'[j] = inv[j]
      /\ inv'[i].saw = c /\ inv'[i].at = next /\ inv'[i].port = inv[i].port
  BY <1>1 DEF LauncherInv, Types, Caller
<1>7. Remembers(i)'
  BY <1>1, <1>2, <1>6 DEF Remembers, Started, Changes, Nobody, Child
<1>8. Clear(i)'
  <2> SUFFICES ASSUME next = "release", NEW d \in Child \ lost, UpThere(d, i)'
               PROVE  FALSE
    BY <1>1, <1>6 DEF Clear
  <2>1. d # c /\ Up(d)
    BY <1>2 DEF UpThere, Changes, Up, Alive
  <2>2. inv[i].at = "terminate" /\ Locked(i)
    BY DEF LauncherInv, Exclusive, Holding
  <2>3. record = d
    BY <2>1, <2>2, DashboardLauncherAssumption DEF LauncherInv, Accounted, Exclusive,
       Holding, Locked
  <2>4. record \in {c, Nobody}
    BY <1>1, <2>2 DEF LauncherInv, Fits, Remembers
  <2> QED
    BY <2>1, <2>3, <2>4 DEF Child, Nobody
<1>9. Fits(i)'
  BY <1>6, <1>7, <1>8 DEF Fits, SawStarting
<1> QED
  <2>1. \A j \in {i} : inv[j].at # "save" /\ Fits(j)'
    BY <1>1, <1>9
  <2>2. {i} \in SUBSET Invocation /\ lost \subseteq lost' /\ UNCHANGED record
    BY <1>1
  <2> QED
    BY <1>1, <1>2, <1>3, <1>4, <1>5, <1>6, <2>1, <2>2, OneChanged

-----------------------------------------------------------------------------
(* Steps that change what is on record, or bring a Dashboard up.           *)

LEMMA SpawnMoves ==
  ASSUME LauncherInv, NEW i \in Invocation, Spawn(i) PROVE LauncherInv'
<1>1. PICK c \in Child :
        /\ child[c].at = "unborn"
        /\ child' = [child EXCEPT ![c] = [at |-> "starting", port |-> inv[i].port,
                                          young |-> TRUE]]
        /\ inv' = [inv EXCEPT ![i].at = "save", ![i].target = c]
  BY DEF Spawn
<1> DEFINE r == [inv[i] EXCEPT !.at = "save", !.target = c]
           born == [at |-> "starting", port |-> inv[i].port, young |-> TRUE]
<1>2. /\ inv[i].at = "spawn" /\ inv[i].port \in Port
      /\ UNCHANGED <<foreign, record, lock, lost>>
  BY DEF Spawn, LauncherInv, Types, Caller
<1>3. r \in Caller /\ born \in Dashboard /\ inv' = [inv EXCEPT ![i] = r]
  BY <1>1, <1>2 DEF LauncherInv, Types, Caller, Pid, State, Dashboard
<1>4. /\ \A j \in Invocation \ {i} : inv'[j] = inv[j]
      /\ \A d \in Child \ {c} : child'[d] = child[d]
      /\ child'[c] = born
      /\ inv'[i].at = "save" /\ inv'[i].target = c /\ inv'[i].port = inv[i].port
      /\ inv'[i].saw = inv[i].saw
  BY <1>1, <1>3 DEF LauncherInv, Types, Caller
<1>5. Types'
  BY <1>1, <1>2, <1>3 DEF LauncherInv, Types
<1>6. Exclusive' /\ Locked(i) /\ \A j \in Invocation \ {i} : inv[j].at \notin Holding
  BY <1>2, <1>4 DEF LauncherInv, Exclusive, Holding, Locked
<1>7. \A d \in Pid : Started(d) => Started(d)' /\ (d # Nobody => d # c)
  BY <1>1, <1>4 DEF Started, Pid
<1>8. \A d \in Child \ lost : Up(d) => child[d].port # inv[i].port
  BY <1>2 DEF LauncherInv, Fits, Clear, UpThere
<1>9. Started(record)' /\ Graces'
  BY <1>2, <1>4, <1>7 DEF LauncherInv, Types, Graces
<1>10. ASSUME NEW j \in Invocation PROVE Fits(j)'
  <2>0. Fits(j) /\ inv[j].saw \in Pid
    BY DEF LauncherInv, Types, Caller
  <2>1. CASE j = i
    <3>1. Remembers(j)'
      BY <1>4, <1>7, <2>0, <2>1 DEF Fits, Remembers, Child, Nobody
    <3>2. Clear(j)'
      BY <1>2, <1>4, <1>8, <2>1 DEF Clear, UpThere, Up, Alive
    <3> QED
      BY <1>4, <2>1, <3>1, <3>2 DEF Fits, SawStarting
  <2>2. CASE j # i
    <3>1. inv'[j] = inv[j] /\ inv[j].at \notin Holding
      BY <1>4, <1>6, <2>2
    <3>2. Started(inv[j].saw)' /\ (inv[j].at = "unlink" => ~Up(inv[j].saw)')
      BY <1>4, <1>7, <2>0 DEF Fits, Remembers, Up, Alive, Pid
    <3> QED
      BY <2>0, <3>1, <3>2 DEF Fits, Remembers, SawStarting, Clear, Holding
  <2> QED
    BY <2>1, <2>2
<1>11. Accounted'
  <2> SUFFICES ASSUME NEW d \in Child \ lost, Up(d)', record # d
               PROVE  \E j \in Invocation :
                        Locked(j)' /\ inv'[j].at = "save" /\ inv'[j].target = d
    BY <1>2 DEF Accounted
  <2>1. CASE d = c
    BY <1>2, <1>4, <1>6, <2>1 DEF Locked
  <2>2. CASE d # c
    <3>1. Up(d)
      BY <1>4, <2>2 DEF Up, Alive
    <3>2. PICK j \in Invocation : inv[j].at = "save"
      BY <3>1 DEF LauncherInv, Accounted
    <3> QED
      BY <1>2, <1>6, <3>2 DEF Holding
  <2> QED
    BY <2>1, <2>2
<1>12. OnlyOne'
  <2> SUFFICES ASSUME NEW d \in Child \ lost, NEW e \in Child \ lost, d # e,
                      Up(d)', Up(e)', child'[d].port = child'[e].port
               PROVE  FALSE
    BY <1>2 DEF OnlyOne
  <2>1. CASE d = c
    BY <1>4, <1>8, <2>1 DEF Up, Alive
  <2>2. CASE e = c
    BY <1>4, <1>8, <2>2 DEF Up, Alive
  <2>3. CASE d # c /\ e # c
    BY <1>4, <2>3 DEF LauncherInv, OnlyOne, Up, Alive
  <2> QED
    BY <2>1, <2>2, <2>3
<1> QED
  BY <1>5, <1>6, <1>9, <1>10, <1>11, <1>12 DEF LauncherInv

LEMMA SaveMoves ==
  ASSUME LauncherInv, NEW i \in Invocation, Save(i) PROVE LauncherInv'
<1>1. /\ inv[i].at = "save" /\ inv' = [inv EXCEPT ![i].at = "wait"]
      /\ record' = inv[i].target /\ lost' = lost \cup Elsewhere(record, inv[i].port)
      /\ lock' = Unlocked /\ UNCHANGED <<child, foreign>>
  BY DEF Save, Goto, Unlocks
<1>2. /\ \A j \in Invocation \ {i} : inv'[j] = inv[j]
      /\ inv'[i].at = "wait" /\ inv'[i].saw = inv[i].saw
  BY <1>1 DEF LauncherInv, Types, Caller
<1>3. Types'
  BY <1>1 DEF LauncherInv, Types, Caller, State, Pid, Elsewhere, Forgotten
<1>4. Locked(i) /\ \A j \in Invocation \ {i} : inv[j].at \notin Holding
  BY <1>1 DEF LauncherInv, Exclusive, Holding, Locked
<1>5. Exclusive'
  BY <1>1, <1>2, <1>4, DashboardLauncherAssumption DEF Exclusive, Holding, Locked
<1>6. Started(record)' /\ Graces' /\ OnlyOne'
  BY <1>1 DEF LauncherInv, Fits, Remembers, Started, Graces, OnlyOne, Up, Alive
<1>7. ASSUME NEW j \in Invocation PROVE Fits(j)'
  <2>1. inv'[j].at \notin Holding /\ Started(inv[j].saw)
    BY <1>2, <1>4 DEF Holding, LauncherInv, Fits, Remembers
  <2>2. CASE j = i
    BY <1>1, <1>2, <2>1, <2>2 DEF Fits, Remembers, SawStarting, Clear, Holding, Started
  <2>3. CASE j # i
    <3>1. inv'[j] = inv[j] /\ Remembers(j)
      BY <1>2, <2>3 DEF LauncherInv, Fits
    <3> QED
      BY <1>1, <2>1, <3>1 DEF Fits, Remembers, SawStarting, Clear, Holding, Started,
         Up, Alive
  <2> QED
    BY <2>2, <2>3
<1>8. Accounted'
  <2> SUFFICES ASSUME NEW c \in Child \ lost', Up(c) PROVE record' = c
    BY <1>1 DEF Accounted, Up, Alive
  <2>1. CASE record = c
    <3>1. UpThere(c, i)
      BY <1>1, <2>1 DEF Elsewhere, Forgotten, UpThere, Up, Child, Nobody
    <3> QED
      BY <1>1, <3>1 DEF LauncherInv, Fits, Clear
  <2>2. CASE record # c
    <3>1. PICK j \in Invocation : inv[j].at = "save" /\ inv[j].target = c
      BY <1>1, <2>2 DEF LauncherInv, Accounted
    <3>2. j = i
      BY <1>4, <3>1 DEF Holding
    <3> QED
      BY <1>1, <3>1, <3>2
  <2> QED
    BY <2>1, <2>2
<1> QED
  BY <1>3, <1>5, <1>6, <1>7, <1>8 DEF LauncherInv

LEMMA UnlinkMoves ==
  ASSUME LauncherInv, NEW i \in Invocation, Unlink(i) PROVE LauncherInv'
<1>1. /\ inv[i].at = "unlink" /\ inv' = [inv EXCEPT ![i].at = "done"]
      /\ record' = Nobody /\ lost \subseteq lost' /\ UNCHANGED <<child, foreign, lock>>
      /\ record # inv[i].saw => Forgotten(record) \subseteq lost'
  BY DEF Unlink, Goto
<1>2. /\ \A j \in Invocation \ {i} : inv'[j] = inv[j]
      /\ inv'[i].at = "done" /\ inv'[i].saw = inv[i].saw
  BY <1>1 DEF LauncherInv, Types, Caller
<1>3. Types'
  BY <1>1 DEF Unlink, LauncherInv, Types, Caller, State, Pid, Forgotten
<1>4. Exclusive'
  BY <1>1, <1>2 DEF LauncherInv, Exclusive, Holding, Locked
<1>5. Started(record)' /\ Graces' /\ OnlyOne'
  BY <1>1 DEF LauncherInv, Started, Graces, OnlyOne, Up, Alive
<1>6. ASSUME NEW j \in Invocation PROVE Fits(j)'
  <2>1. Fits(j)
    BY DEF LauncherInv
  <2>2. CASE j = i
    BY <1>1, <1>2, <2>1, <2>2 DEF Fits, Remembers, SawStarting, Clear, Started
  <2>3. CASE j # i
    <3>1. inv'[j] = inv[j]
      BY <1>2, <2>3
    <3> QED
      BY <1>1, <2>1, <3>1 DEF Fits, Remembers, SawStarting, Clear, UpThere, Started, Up,
         Alive
  <2> QED
    BY <2>2, <2>3
<1>7. Accounted'
  <2> SUFFICES ASSUME NEW c \in Child \ lost', Up(c)
               PROVE  \E j \in Invocation :
                        Locked(j)' /\ inv'[j].at = "save" /\ inv'[j].target = c
    BY <1>1 DEF Accounted, Up, Alive
  <2>1. record # c
    BY <1>1 DEF LauncherInv, Fits, Remembers, Forgotten, Up, Child, Nobody
  <2>2. PICK j \in Invocation : Locked(j) /\ inv[j].at = "save" /\ inv[j].target = c
    BY <1>1, <2>1 DEF LauncherInv, Accounted
  <2>3. inv'[j] = inv[j]
    BY <1>1, <1>2, <2>2
  <2> QED
    BY <1>1, <2>2, <2>3 DEF Locked
<1> QED
  BY <1>3, <1>4, <1>5, <1>6, <1>7 DEF LauncherInv

LEMMA KillMoves ==
  ASSUME LauncherInv, NEW i \in Invocation, Kill(i) PROVE LauncherInv'
<1>1. /\ inv' = [inv EXCEPT ![i].at = "done"] /\ UNCHANGED <<child, foreign, record>>
      /\ lost \subseteq lost' /\ (inv[i].at = "save" => inv[i].target \in lost')
      /\ lock' = IF lock = i THEN Unlocked ELSE lock
  BY DEF Kill, Locked
<1>2. /\ \A j \in Invocation \ {i} : inv'[j] = inv[j]
      /\ inv'[i].at = "done" /\ inv'[i].saw = inv[i].saw
  BY <1>1 DEF LauncherInv, Types, Caller
<1>3. Types'
  BY <1>1 DEF Kill, LauncherInv, Types, Caller, State, Pid, Fits, Remembers
<1>4. Exclusive'
  BY <1>1, <1>2, DashboardLauncherAssumption DEF LauncherInv, Exclusive, Holding, Locked
<1>5. Started(record)' /\ Graces' /\ OnlyOne'
  BY <1>1 DEF LauncherInv, Started, Graces, OnlyOne, Up, Alive
<1>6. ASSUME NEW j \in Invocation PROVE Fits(j)'
  <2>1. Fits(j)
    BY DEF LauncherInv
  <2>2. CASE j = i
    BY <1>1, <1>2, <2>1, <2>2 DEF Fits, Remembers, SawStarting, Clear, Started
  <2>3. CASE j # i
    <3>1. inv'[j] = inv[j]
      BY <1>2, <2>3
    <3> QED
      BY <1>1, <2>1, <3>1 DEF Fits, Remembers, SawStarting, Clear, UpThere, Started, Up,
         Alive
  <2> QED
    BY <2>2, <2>3
<1>7. Accounted'
  <2> SUFFICES ASSUME NEW c \in Child \ lost', Up(c), record # c
               PROVE  \E j \in Invocation :
                        Locked(j)' /\ inv'[j].at = "save" /\ inv'[j].target = c
    BY <1>1 DEF Accounted, Up, Alive
  <2>1. PICK j \in Invocation : Locked(j) /\ inv[j].at = "save" /\ inv[j].target = c
    BY <1>1 DEF LauncherInv, Accounted
  <2>2. j # i
    BY <1>1, <2>1
  <2>3. inv'[j] = inv[j]
    BY <1>2, <2>2
  <2> QED
    BY <1>1, <2>1, <2>2, <2>3 DEF Locked
<1> QED
  BY <1>3, <1>4, <1>5, <1>6, <1>7 DEF LauncherInv

-----------------------------------------------------------------------------
\* Every step of an invocation, a Dashboard or another program keeps the invariant.
LEMMA LauncherStep == LauncherInv /\ [Next]_vars => LauncherInv'
<1> SUFFICES ASSUME LauncherInv, [Next]_vars PROVE LauncherInv'
  OBVIOUS
<1>1. ASSUME NEW i \in Invocation, Step(i) PROVE LauncherInv'
  BY <1>1, AcquireMoves, LockTimeoutMoves, LoadMoves, ListenMoves, SettleMoves, JoinMoves,
     DecideMoves, PrepareMoves, AcquireAgainMoves, LockTimeoutAgainMoves, ActMoves,
     SignalMoves, ReleasedMoves, NotReleasedMoves, SpawnMoves, SaveMoves, ReadyMoves,
     GiveUpMoves, ProveMoves, UnlinkMoves DEF Step
<1>2. ASSUME NEW i \in Invocation,
             Stop(i) \/ Kill(i) \/ \E p \in Port : Launch(i, p) PROVE LauncherInv'
  BY <1>2, StopMoves, KillMoves, LaunchMoves
<1>3. ASSUME NEW c \in Child, Bind(c) \/ Ail(c) \/ Exit(c) \/ Grow(c) PROVE LauncherInv'
  BY <1>3, BindMoves, AilMoves, ExitMoves, GrowMoves
<1>4. ASSUME NEW p \in Port, Occupy(p) PROVE LauncherInv'
  BY <1>4 DEF Occupy, LauncherInv, Types, Exclusive, Started, Graces, Fits, Remembers,
     SawStarting, Clear, UpThere, Accounted, OnlyOne, Up, Alive, Locked
<1>5. CASE UNCHANGED vars
  BY <1>5 DEF vars, LauncherInv, Types, Exclusive, Started, Graces, Fits, Remembers,
     SawStarting, Clear, UpThere, Accounted, OnlyOne, Up, Alive, Locked
<1> QED
  BY <1>1, <1>2, <1>3, <1>4, <1>5 DEF Next

\* LauncherInv holds in every reachable state.
THEOREM LauncherInvariance == Spec => []LauncherInv
BY LauncherInitial, LauncherStep, PTL DEF Spec

\* However many invocations overlap, start, join, stop or are killed, two
\* Dashboards never come up on one port, but for those the launcher cannot know
\* of (_spawn_dashboard_under_lock).
THEOREM OneDashboard == Spec => []OnlyOne
<1>1. LauncherInv => OnlyOne
  BY DEF LauncherInv
<1> QED
  BY <1>1, LauncherInvariance, PTL

\* A Dashboard that is up is on record or about to be recorded, with the same
\* exceptions (launcher-state.json).
THEOREM Findable == Spec => []Accounted
<1>1. LauncherInv => Accounted
  BY DEF LauncherInv
<1> QED
  BY <1>1, LauncherInvariance, PTL

\* Every variable keeps its type, and the lock is held exactly while an invocation
\* decides or starts.
THEOREM TypeCorrect == Spec => []TypeOK
<1>1. LauncherInv => TypeOK
  BY DEF LauncherInv, Types, Caller, Pid, Exclusive, Holding, TypeOK
<1> QED
  BY <1>1, LauncherInvariance, PTL

=============================================================================
