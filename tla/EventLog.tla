------------------------------ MODULE EventLog ------------------------------
(***************************************************************************)
(* The append-only event log (events/log.py, events/schema.py): one writer *)
(* at a time, a line per event, an fsync before append() returns, repair   *)
(* of a torn last line when the log is opened, and a strict scan that      *)
(* refuses a log whose event ids are not 1, 2, 3, ...                      *)
(*                                                                         *)
(* The file handle is buffered.  When flush() fails, the bytes that were   *)
(* not written stay in its buffer and go out with the next write or with   *)
(* close(); when fsync() fails the line is in the file.  Either way        *)
(* append() raises before it advances `lastId'.                            *)
(***************************************************************************)
EXTENDS Naturals, Sequences

CONSTANTS
  Process,     \* the processes that may open the log
  NoProcess,   \* nobody holds the writer mutex
  LogEvent     \* the events that may be appended, ids apart

ASSUME LogAssumption == NoProcess \notin Process

VARIABLES
  file,        \* the complete lines on disk, in order
  torn,        \* does the file end in bytes without a newline?
  writer,      \* who holds the writer mutex and the open handle
  lastId,      \* _last_event_id of the open handle
  unwritten,   \* lines that the handle's buffer has not got rid of
  failed,      \* an append on the open handle has raised
  reused,      \* history: an append followed a failed one on the same handle
  acked        \* history: the lines whose append returned

log == <<file, torn, writer, lastId, unwritten, failed, reused, acked>>

Line == [id: Nat \ {0}, event: LogEvent]

LogTypeOK ==
  /\ file \in Seq(Line)
  /\ torn \in BOOLEAN
  /\ writer \in Process \cup {NoProcess}
  /\ lastId \in Nat
  /\ unwritten \in Seq(Line)
  /\ failed \in BOOLEAN
  /\ reused \in BOOLEAN
  /\ acked \in SUBSET Line

LogInit ==
  /\ file = <<>>
  /\ torn = FALSE
  /\ writer = NoProcess
  /\ lastId = 0
  /\ unwritten = <<>>
  /\ failed = FALSE
  /\ reused = FALSE
  /\ acked = {}

\* The scan that replay() and the constructor share: ids contiguous from 1.
Contiguous(f) == \A k \in DOMAIN f : f[k].id = k

\* Fault: the id is read before it is advanced.
FaultyNextLine(e) == [id |-> lastId, event |-> e]
NextLine(e) == [id |-> lastId + 1, event |-> e]
Pending(e) == Append(unwritten, NextLine(e))

-----------------------------------------------------------------------------
(* The constructor: mutex, repair of the torn tail, scan.  A log that the  *)
(* scan refuses is left repaired and unowned.                              *)

\* Fault: the repair cuts off the last complete line as well.
FaultyRepaired == IF torn /\ file # <<>> THEN SubSeq(file, 1, Len(file) - 1) ELSE file
Repaired == file

OpenLog(p) ==
  /\ writer = NoProcess
  /\ Contiguous(file)
  /\ writer' = p
  /\ file' = Repaired
  /\ torn' = FALSE
  /\ lastId' = Len(file')
  /\ unwritten' = <<>>
  /\ failed' = FALSE
  /\ UNCHANGED <<reused, acked>>

RefuseLog ==
  /\ writer = NoProcess
  /\ ~Contiguous(file)
  /\ torn' = FALSE
  /\ UNCHANGED <<file, writer, lastId, unwritten, failed, reused, acked>>

\* close() flushes the buffer; when that raises, what it holds is dropped with
\* the handle, part of a line perhaps written.
CloseLog ==
  /\ \/ /\ file' = file \o unwritten
        /\ torn' = FALSE
     \/ /\ unwritten # <<>>
        /\ torn' \in {torn, TRUE}
        /\ UNCHANGED file
  /\ writer' = NoProcess
  /\ lastId' = 0
  /\ unwritten' = <<>>
  /\ failed' = FALSE
  /\ UNCHANGED <<reused, acked>>

-----------------------------------------------------------------------------
(* append(): write, flush, fsync, and only then the new id.                *)

AppendEvent(e) ==
  /\ file' = file \o Pending(e)
  /\ torn' = FALSE
  /\ lastId' = lastId + 1
  /\ unwritten' = <<>>
  /\ reused' = (reused \/ failed)
  /\ acked' = acked \cup {NextLine(e)}
  /\ UNCHANGED <<writer, failed>>

\* write() or flush() raises, after all, part or none of the bytes.
AppendUnflushed(e) ==
  /\ unwritten' = Pending(e)
  /\ torn' \in {torn, TRUE}
  /\ failed' = TRUE
  /\ reused' = (reused \/ failed)
  /\ UNCHANGED <<file, writer, lastId, acked>>

\* fsync() raises: the line is in the file, the id is not taken.
AppendUnsynced(e) ==
  /\ file' = file \o Pending(e)
  /\ torn' = FALSE
  /\ unwritten' = <<>>
  /\ failed' = TRUE
  /\ reused' = (reused \/ failed)
  /\ UNCHANGED <<writer, lastId, acked>>

AppendRaises(e) == AppendUnflushed(e) \/ AppendUnsynced(e)

\* The process dies: the kernel abandons its mutex and its buffer is gone.
HandleLost ==
  /\ writer' = NoProcess
  /\ lastId' = 0
  /\ unwritten' = <<>>
  /\ failed' = FALSE
  /\ UNCHANGED acked

\* It dies between two appends, or before a byte of the next one is written.
DieBetween == HandleLost /\ UNCHANGED <<file, torn, reused>>

\* It dies inside append(e), after k complete lines and perhaps a part of the
\* next: append() had not returned.
DieAppending(e) ==
  /\ HandleLost
  /\ \E k \in 0 .. Len(Pending(e)) :
       /\ file' = file \o SubSeq(Pending(e), 1, k)
       /\ torn' = (k < Len(Pending(e)))
       /\ reused' = (reused \/ (failed /\ k = Len(Pending(e))))

-----------------------------------------------------------------------------
LogNext ==
  \/ \E p \in Process : OpenLog(p)
  \/ RefuseLog
  \/ writer # NoProcess /\ CloseLog
  \/ \E e \in LogEvent : writer # NoProcess /\ (AppendEvent(e) \/ AppendRaises(e))
  \/ writer # NoProcess /\ DieBetween
  \/ \E e \in LogEvent : writer # NoProcess /\ DieAppending(e)

LogSpec == LogInit /\ [][LogNext]_log

-----------------------------------------------------------------------------
\* What the docstring of events/log.py promises, as long as no handle is used
\* for an append after one of its appends has raised.  Whatever was torn,
\* unflushed, unsynced or killed: the scan accepts the log, and an event whose
\* append returned is in it, at the id it was given.
DurableLog ==
  ~reused => /\ Contiguous(file)
             /\ \A a \in acked : a.id \in DOMAIN file /\ file[a.id] = a

=============================================================================
