---------------------------- MODULE ObservedLog ----------------------------
(***************************************************************************)
(* One event log as the read-only observer reports it (runtime/observe.py) *)
(* and the client hands it on (observer_client.py).  The observer takes no *)
(* lock: it sees a line that is still being written, a log that has been   *)
(* replaced or deleted, and a file that cannot be opened for the moment.   *)
(*                                                                         *)
(* A cursor is a position and the identity of the log it was issued        *)
(* against.  A record is named by the cursor it starts at, and a complete  *)
(* record has the same bytes whenever it is read.                          *)
(***************************************************************************)
EXTENDS Naturals, Sequences

CONSTANTS
  MaxLog,       \* bound: logs that are ever put at the registered path
  MaxLines,     \* bound: complete records in one log
  MaxLosses,    \* bound: times the file is not there
  Tails,        \* bound: the unfinished tails the run considers
  PageLimit     \* records in a page (500 in the code)

ASSUME ObservedAssumption ==
  /\ MaxLog \in Nat \ {0}
  /\ MaxLines \in Nat \ {0}
  /\ MaxLosses \in Nat
  /\ Tails \subseteq {"torn", "oversized"}
  /\ PageLimit \in Nat \ {0}

VARIABLES
  disk,    \* which log is at the path, its complete records, its tail
  losses   \* times the file was not there

observed == <<disk, losses>>

NoLog == 0
Position == 0 .. MaxLines
Ending == {"none", "torn", "oversized"}
Disk == [log: NoLog .. MaxLog, lines: Position, tail: Ending, there: BOOLEAN]

\* contentLineage (the first complete record) and fileGeneration (the file).
Identity == [lineage: NoLog .. MaxLog, file: NoLog .. MaxLog]
IdentityOf(d) ==
  [lineage |-> IF d.lines = 0 THEN NoLog ELSE d.log, file |-> d.log]
Unknown == [lineage |-> NoLog, file |-> NoLog]

NoCursor == [at |-> 0, of |-> Unknown]
Cursor == [at: Position, of: Identity]

Record == [at: Position, of: Identity, is: {"OK", "TORN", "OVERSIZED"}]

\* `available' is AVAILABLE or EMPTY; the rest is NOT_INITIALIZED or OFFLINE.
Page == [available: BOOLEAN, of: Identity, records: Seq(Record),
         next: Cursor, more: BOOLEAN]
NoPage == [available |-> FALSE, of |-> Unknown, records |-> <<>>,
           next |-> NoCursor, more |-> FALSE]

-----------------------------------------------------------------------------
(* One invocation: read_events_page and what it calls.                     *)

Records(d) ==
  LET size == d.lines + (IF d.tail = "none" THEN 0 ELSE 1)
  IN [k \in 1 .. size |->
        [at |-> k - 1, of |-> IdentityOf(d),
         is |-> IF k <= d.lines THEN "OK"
                ELSE IF d.tail = "torn" THEN "TORN" ELSE "OVERSIZED"]]

\* _reject_if_cursor_identity_mismatch, and _empty_events_page: a file that
\* cannot be opened rejects every cursor.
\* Fault: only a shorter file does.
FaultyRejects(after) == after.at > Len(Records(disk))
Rejects(after) ==
  /\ after # NoCursor
  /\ \/ ~disk.there
     \/ after.of # IdentityOf(disk)
     \/ after.at > Len(Records(disk))

\* The next cursor is exclusive below the limit, pinned at the start of an
\* unfinished record, and null behind a complete one.
\* Fault: the cursor goes past the unfinished record.
FaultyNextCursor(found, start) ==
  IF Len(found) > start + PageLimit THEN [at |-> start + PageLimit, of |-> IdentityOf(disk)]
  ELSE IF disk.tail # "none" THEN [at |-> disk.lines + 1, of |-> IdentityOf(disk)]
  ELSE NoCursor
NextCursor(found, start) ==
  IF Len(found) > start + PageLimit THEN [at |-> start + PageLimit, of |-> IdentityOf(disk)]
  ELSE IF disk.tail # "none" THEN [at |-> disk.lines, of |-> IdentityOf(disk)]
  ELSE NoCursor

ReadPage(after) ==
  LET found == Records(disk)
      last == IF Len(found) > after.at + PageLimit THEN after.at + PageLimit ELSE Len(found)
  IN IF ~disk.there
     THEN NoPage
     ELSE [available |-> TRUE, of |-> IdentityOf(disk),
           records |-> SubSeq(found, after.at + 1, last),
           next |-> NextCursor(found, after.at), more |-> Len(found) > last]

-----------------------------------------------------------------------------
(* What happens to the log meanwhile.  Its writer is the run of EventLog;  *)
(* whoever replaces, deletes or locks it is outside.                       *)

DiskInit ==
  /\ disk = [log |-> NoLog, lines |-> 0, tail |-> "none", there |-> FALSE]
  /\ losses = 0

\* A line is written in full, or completed.
LineWritten ==
  /\ disk.log # NoLog
  /\ disk.tail # "oversized"
  /\ disk.lines < MaxLines
  /\ disk' = [disk EXCEPT !.lines = @ + 1, !.tail = "none"]
  /\ UNCHANGED losses

\* A part of it is: a scan that finds no end within its cap never will.
LineBegun ==
  /\ disk.log # NoLog
  /\ disk.tail = "none"
  /\ disk.lines < MaxLines
  /\ \E tail \in Tails : disk' = [disk EXCEPT !.tail = tail]
  /\ UNCHANGED losses

\* The next run repairs a torn tail away.
TailRepaired ==
  /\ disk.tail = "torn"
  /\ disk' = [disk EXCEPT !.tail = "none"]
  /\ UNCHANGED losses

\* Another log, with records of its own, or none, at the path.
LogReplaced ==
  /\ disk.log < MaxLog
  /\ \E lines \in Position :
       disk' = [log |-> disk.log + 1, lines |-> lines, tail |-> "none", there |-> TRUE]
  /\ UNCHANGED losses

\* The file is deleted, or cannot be opened.
LogLost ==
  /\ disk.there /\ losses < MaxLosses
  /\ disk' = [disk EXCEPT !.there = FALSE]
  /\ losses' = losses + 1

\* The same file is back.
LogFound ==
  /\ disk.log # NoLog /\ ~disk.there
  /\ disk' = [disk EXCEPT !.there = TRUE]
  /\ UNCHANGED losses

DiskNext ==
  \/ LineWritten \/ LineBegun \/ TailRepaired
  \/ LogReplaced \/ LogLost \/ LogFound

=============================================================================
