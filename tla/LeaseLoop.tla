----------------------------- MODULE LeaseLoop -----------------------------
(***************************************************************************)
(* How Dashboard processes that share a database compete for the indexer's *)
(* lease (scheduler.py's _lease_loop, lease.py, and the system conditions  *)
(* of attention.py).  Every two seconds each of them derives the system's  *)
(* attention condition from the lease, opens or resolves it, and acquires  *)
(* or renews the lease.  The connections are in autocommit mode: one       *)
(* statement is atomic, a job of several is not.                           *)
(***************************************************************************)
EXTENDS Naturals, FiniteSets

CONSTANTS
  Process,     \* Dashboard processes, one start each
  MaxStops,    \* bound: processes that are closed or killed
  MaxStalls    \* bound: leases that expire under a live holder

VARIABLES
  lease,       \* the row of indexer_lease: its owner, and whether it is fresh
  conditions,  \* rows of attention_conditions, by kind: occurrences, open or not
  changes,     \* history: the invalidations each kind was given
  at, saw,     \* each loop: its next statement, the condition it derived,
  number,      \*   and the occurrence it is about to insert
  leads,       \* _is_leader
  stops, stalls

loops == <<at, saw, number, leads>>
vars == <<lease, conditions, changes, loops, stops, stalls>>

NoOwner == "nobody"
Kind == {"LEASE_STALE", "LEASE_UNCLAIMED"}
None == "none"

Init ==
  /\ lease = [owner |-> NoOwner, fresh |-> FALSE]
  /\ conditions = [k \in Kind |-> [occurrences |-> 0, open |-> FALSE]]
  /\ changes = [k \in Kind |-> 0]
  /\ at = [p \in Process |-> "down"]
  /\ saw = [p \in Process |-> None]
  /\ number = [p \in Process |-> 0]
  /\ leads = [p \in Process |-> FALSE]
  /\ stops = 0 /\ stalls = 0

Goto(p, from, to) == at[p] = from /\ at' = [at EXCEPT ![p] = to]

\* The loop awaits its job and catches nothing but cancellation: what the job
\* raises ends the task.  Its repository tasks go on, and _is_leader stays.
Raises(p, from) == Goto(p, from, "dead")

-----------------------------------------------------------------------------
(* reconcile_system_conditions.                                            *)

Start(p) ==
  /\ Goto(p, "down", "derive")
  /\ UNCHANGED <<lease, conditions, changes, saw, number, leads, stops, stalls>>

\* derive_system_conditions, from lease.read_state.
Derived ==
  IF lease.owner = NoOwner THEN "LEASE_UNCLAIMED"
  ELSE IF lease.fresh THEN None ELSE "LEASE_STALE"

Derive(p) ==
  /\ Goto(p, "derive", IF Derived = None THEN "resolve" ELSE "look up")
  /\ saw' = [saw EXCEPT ![p] = Derived]
  /\ UNCHANGED <<lease, conditions, changes, number, leads, stops, stalls>>

\* _upsert_open: an open row is refreshed and needs no invalidation.
LookUp(p) ==
  /\ at[p] = "look up"
  /\ Goto(p, "look up", IF conditions[saw[p]].open THEN "resolve" ELSE "number")
  /\ UNCHANGED <<lease, conditions, changes, saw, number, leads, stops, stalls>>

NumberRow(p) ==
  /\ Goto(p, "number", "insert")
  /\ number' = [number EXCEPT ![p] = conditions[saw[p]].occurrences + 1]
  /\ UNCHANGED <<lease, conditions, changes, saw, leads, stops, stalls>>

\* Two unique indexes: one open row per key, and each occurrence once.
RowIsUnique(p) ==
  ~conditions[saw[p]].open /\ conditions[saw[p]].occurrences < number[p]

InsertRow(p) ==
  /\ Goto(p, "insert", "record")
  /\ RowIsUnique(p)
  /\ conditions' = [conditions EXCEPT ![saw[p]] = [occurrences |-> number[p], open |-> TRUE]]
  /\ UNCHANGED <<lease, changes, saw, number, leads, stops, stalls>>

InsertRefused(p) ==
  /\ Raises(p, "insert")
  /\ ~RowIsUnique(p)
  /\ UNCHANGED <<lease, conditions, changes, saw, number, leads, stops, stalls>>

RecordOpened(p) ==
  /\ Goto(p, "record", "resolve")
  /\ changes' = [changes EXCEPT ![saw[p]] = @ + 1]
  /\ UNCHANGED <<lease, conditions, saw, number, leads, stops, stalls>>

\* _resolve_stale: the open rows of another kind.  The update is by id: a row
\* that was resolved meanwhile is resolved, and announced, once more.
Stale(p) == {k \in Kind \ {saw[p]} : conditions[k].open}

Resolve(p) ==
  /\ Goto(p, "resolve", "acquire")
  /\ conditions' = [k \in Kind |-> [conditions[k] EXCEPT !.open = @ /\ k \notin Stale(p)]]
  /\ changes' = [k \in Kind |-> changes[k] + Cardinality({k} \cap Stale(p))]
  /\ UNCHANGED <<lease, saw, number, leads, stops, stalls>>

-----------------------------------------------------------------------------
(* acquire_or_renew, and what _lease_loop does with the answer.            *)

\* Its first statement: is there a row, and whose?
ReadLease(p) ==
  /\ Goto(p, "acquire", IF lease.owner = NoOwner THEN "claim"
                        ELSE IF lease.owner = p THEN "renew" ELSE "take over")
  /\ UNCHANGED <<lease, conditions, changes, saw, number, leads, stops, stalls>>

Acquired(p) ==
  /\ lease' = [owner |-> p, fresh |-> TRUE]
  /\ leads' = [leads EXCEPT ![p] = TRUE]

Claim(p) ==
  /\ lease.owner = NoOwner
  /\ Goto(p, "claim", "derive")
  /\ Acquired(p)
  /\ UNCHANGED <<conditions, changes, saw, number, stops, stalls>>

\* The row's id is 1, and there is one by now.
ClaimRefused(p) ==
  /\ lease.owner # NoOwner
  /\ Raises(p, "claim")
  /\ UNCHANGED <<lease, conditions, changes, saw, number, leads, stops, stalls>>

\* The update names the owner; that it matched no row is not noticed.
Renew(p) ==
  /\ Goto(p, "renew", "derive")
  /\ lease' = IF lease.owner = p THEN [lease EXCEPT !.fresh = TRUE] ELSE lease
  /\ leads' = [leads EXCEPT ![p] = TRUE]
  /\ UNCHANGED <<conditions, changes, saw, number, stops, stalls>>

TakeOver(p) ==
  /\ ~lease.fresh
  /\ Goto(p, "take over", "derive")
  /\ Acquired(p)
  /\ UNCHANGED <<conditions, changes, saw, number, stops, stalls>>

Follow(p) ==
  /\ lease.fresh
  /\ Goto(p, "take over", "derive")
  /\ leads' = [leads EXCEPT ![p] = FALSE]
  /\ UNCHANGED <<lease, conditions, changes, saw, number, stops, stalls>>

-----------------------------------------------------------------------------
(* The environment.                                                        *)

Alive(p) == at[p] \notin {"down", "dead", "stopped"}

Stop(p) ==
  /\ at[p] \notin {"down", "stopped"}
  /\ stops < MaxStops
  /\ stops' = stops + 1
  /\ at' = [at EXCEPT ![p] = "stopped"]
  /\ leads' = [leads EXCEPT ![p] = FALSE]
  /\ UNCHANGED <<lease, conditions, changes, saw, number, stalls>>

\* Ten seconds without a heartbeat: nobody is there to renew, or it is late.
Expire ==
  /\ lease.fresh
  /\ IF Alive(lease.owner) THEN stalls < MaxStalls /\ stalls' = stalls + 1
                           ELSE UNCHANGED stalls
  /\ lease' = [lease EXCEPT !.fresh = FALSE]
  /\ UNCHANGED <<conditions, changes, loops, stops>>

Turn(p) ==
  \/ Derive(p) \/ LookUp(p) \/ NumberRow(p) \/ InsertRow(p) \/ InsertRefused(p)
  \/ RecordOpened(p) \/ Resolve(p) \/ ReadLease(p)
  \/ Claim(p) \/ ClaimRefused(p) \/ Renew(p) \/ TakeOver(p) \/ Follow(p)

Next == Expire \/ \E p \in Process : Start(p) \/ Stop(p) \/ Turn(p)

Spec == Init /\ [][Next]_vars

\* Each loop runs every two seconds, and a lease nobody renews expires.
FairSpec ==
  /\ Spec
  /\ \A p \in Process : WF_vars(Turn(p))
  /\ WF_vars(Expire /\ ~Alive(lease.owner))

-----------------------------------------------------------------------------
(* Property.                                                               *)

Running == {p \in Process : at[p] \notin {"down", "stopped"}}

\* With a process running in the end, some running process ends up with a lease
\* that it keeps fresh: a competitor that lost a race can still take over.
Takeover ==
  <>[](Running # {}) => []<>(lease.fresh /\ lease.owner \in Running)

=============================================================================
