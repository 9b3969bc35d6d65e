----------------------------- MODULE Quarantine -----------------------------
(***************************************************************************)
(* What execution containment promises to everything else that touches the *)
(* workspace.  An execution's boundary is on record before it has a        *)
(* process; it is certified only when it has none, and has none ever       *)
(* after; and no boundary is opened before all earlier ones are certified. *)
(***************************************************************************)
CONSTANT Execution

VARIABLES
  opened,     \* the executions whose boundary is on record
  live,       \* the executions that have a process
  certified   \* the executions whose boundary is recorded as released

Init == opened = {} /\ live = {} /\ certified = {}

Open(x) ==
  /\ opened \subseteq certified
  /\ opened' = opened \cup {x}
  /\ UNCHANGED <<live, certified>>

Launch(x) ==
  /\ x \in opened \ certified
  /\ live = {}
  /\ live' = {x}
  /\ UNCHANGED <<opened, certified>>

\* The last process exits, is terminated, or dies with the job handle.
Vacate == live' = {} /\ UNCHANGED <<opened, certified>>

Certify(x) ==
  /\ x \in opened \ live
  /\ certified' = certified \cup {x}
  /\ UNCHANGED <<opened, live>>

Next ==
  \/ \E x \in Execution : Open(x) \/ Launch(x) \/ Certify(x)
  \/ Vacate

Spec == Init /\ [][Next]_<<opened, live, certified>>

=============================================================================
