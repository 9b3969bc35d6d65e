---------------------------- MODULE LiveUpdates ----------------------------
(***************************************************************************)
(* How a change reaches an open page (sse.py, the /api/events handler of   *)
(* app.py, static/js/stream.js).  Whoever writes to the database appends   *)
(* to the changes table.  Each process polls it and fans new rows out to   *)
(* its connections; a page answers every row with a fresh read over REST,  *)
(* so what it shows is what was committed when it last read.               *)
(*                                                                         *)
(* One process, with the one page connected to it.  The event loop runs    *)
(* poll_once and the stream's generator without interruption, but writers  *)
(* are on other threads and in other processes, and the generator is       *)
(* suspended at every yield.                                               *)
(***************************************************************************)
EXTENDS Naturals, Sequences, SequencesExt

CONSTANTS
  RetentionLimit,  \* changes that are kept (10,000 in the code)
  ReplayCap,       \* changes replayed, or queued, for one connection (1,000)
  MaxChanges,      \* bound: changes that are ever committed
  MaxDrops         \* bound: connections that break, processes that restart

ASSUME LiveUpdatesAssumption ==
  /\ ReplayCap \in Nat \ {0}
  /\ RetentionLimit \in Nat /\ RetentionLimit > ReplayCap
  /\ MaxChanges \in Nat
  /\ MaxDrops \in Nat

VARIABLES
  first, last,  \* the changes retained are first .. last
  seen,         \* the tailer's _last_seen
  polling,      \* the maximum poll_once has read, while it is at it
  conn,         \* the connection: its stage, the rows to replay, its queue
  missed,       \* history: changes lost between replay and subscription
  page,         \* the page: its Last-Event-ID, what it shows, what it awaits
  drops

server == <<first, last, seen, polling>>
vars == <<server, conn, missed, page, drops>>

Change == 1 .. MaxChanges
None == 0

\* Put into a full queue's place.
Overflow == MaxChanges + 1

\* `got': the page was sent, or told to read, every change up to this one.
NoConnection(got) ==
  [at |-> "none", after |-> None, replay |-> <<>>, queue |-> <<>>, got |-> got]

Init ==
  /\ first = 1 /\ last = 0
  /\ seen = 0
  /\ polling = None
  /\ conn = NoConnection(0)
  /\ missed = {}
  /\ page = [cursor |-> None, shows |-> 0, dirty |-> TRUE]
  /\ drops = 0

-----------------------------------------------------------------------------
(* The writers: _record_change, and prune_changes with every page.         *)

Pruned(n) == IF n > RetentionLimit THEN n - RetentionLimit + 1 ELSE 1

Commit ==
  /\ last < MaxChanges
  /\ last' = last + 1
  /\ first' \in {first, IF Pruned(last + 1) > first THEN Pruned(last + 1) ELSE first}
  /\ UNCHANGED <<seen, polling, conn, missed, page, drops>>

-----------------------------------------------------------------------------
(* poll_once: the maximum, and then the rows, which may be more by now.    *)

Rows(after) ==
  LET from == IF after + 1 > first THEN after + 1 ELSE first
  IN [k \in 1 .. (IF last >= from THEN last - from + 1 ELSE 0) |-> from + k - 1]

PollBegins ==
  /\ polling = None
  /\ last > seen
  /\ polling' = last
  /\ UNCHANGED <<first, last, seen, conn, missed, page, drops>>

\* A subscriber that cannot take them all loses its backlog and is told so.
\* Fault: what does not fit is left out.
FaultyFannedOut(queue, rows) ==
  SubSeq(queue \o rows, 1,
         IF Len(queue \o rows) > ReplayCap THEN ReplayCap ELSE Len(queue \o rows))
FannedOut(queue, rows) ==
  IF Len(queue) + Len(rows) > ReplayCap THEN <<Overflow>> ELSE queue \o rows

PollEnds ==
  /\ polling # None
  /\ LET rows == Rows(seen)
     IN conn' = IF conn.at = "live" THEN [conn EXCEPT !.queue = FannedOut(@, rows)] ELSE conn
  /\ seen' = polling
  /\ polling' = None
  /\ UNCHANGED <<first, last, missed, page, drops>>

-----------------------------------------------------------------------------
(* stream_events, between two of its yields.                               *)

LoopIsFree == polling = None

\* needs_resync.
NeedsResync(after) ==
  /\ after # None
  /\ \/ first <= last /\ after + 1 < first
     \/ last > after + ReplayCap

\* The page connects with the Last-Event-ID it has, or none.
Connect ==
  /\ LoopIsFree
  /\ conn.at = "none"
  /\ conn' = [NoConnection(IF page.cursor = None THEN conn.got ELSE page.cursor)
                EXCEPT !.at = IF NeedsResync(page.cursor) THEN "resync" ELSE "opened",
                       !.after = page.cursor]
  /\ UNCHANGED <<server, missed, page, drops>>

\* The changes in from .. to that the page has not read, nor is about to.
Unread(from, to) ==
  IF page.dirty THEN {} ELSE {k \in Change : k >= from /\ k <= to /\ k > page.shows}

\* After the retry directive.  A first connection replays nothing: the page has
\* read, or is about to read, what there is.
Replay ==
  /\ LoopIsFree
  /\ conn.at = "opened"
  /\ LET rows == IF conn.after = None THEN <<>> ELSE Rows(conn.after)
     IN /\ conn' = [conn EXCEPT !.at = "replaying", !.replay = rows]
        /\ missed' = IF conn.after = None THEN missed
                     ELSE missed \cup Unread(conn.after + 1, first - 1)
  /\ UNCHANGED <<server, page, drops>>

\* Fault: its id is taken, and nothing is read.
FaultyReceived(k) == page' = [page EXCEPT !.cursor = k]
Received(k) == page' = [page EXCEPT !.cursor = k, !.dirty = TRUE]
Higher(m, n) == IF m > n THEN m ELSE n

SendReplayed ==
  /\ LoopIsFree
  /\ conn.at = "replaying" /\ conn.replay # <<>>
  /\ conn' = [conn EXCEPT !.replay = Tail(@), !.got = Higher(@, Head(conn.replay))]
  /\ Received(Head(conn.replay))
  /\ UNCHANGED <<server, missed, drops>>

\* What was committed behind the replay and polled already is not queued for
\* the connection.
Subscribe ==
  /\ LoopIsFree
  /\ conn.at = "replaying" /\ conn.replay = <<>>
  /\ conn' = [conn EXCEPT !.at = "live", !.got = Higher(@, seen)]
  /\ missed' = missed \cup Unread(conn.got + 1, seen)
  /\ UNCHANGED <<server, page, drops>>

SendQueued ==
  /\ LoopIsFree
  /\ conn.at = "live" /\ conn.queue # <<>> /\ Head(conn.queue) # Overflow
  /\ conn' = [conn EXCEPT !.queue = Tail(@), !.got = Higher(@, Head(conn.queue))]
  /\ Received(Head(conn.queue))
  /\ UNCHANGED <<server, missed, drops>>

-----------------------------------------------------------------------------
(* The page: connectChangeStream, and the browser's EventSource under it.  *)

\* The resync event carries no id: the source is closed, and a fresh one knows
\* no Last-Event-ID; everything is read again.
\* Fault: only the changes that did arrive are.
FaultyResynced == [page EXCEPT !.cursor = None]
Resynced == [page EXCEPT !.cursor = None, !.dirty = TRUE]

Overflowed == conn.queue # <<>> /\ Head(conn.queue) = Overflow

Resync ==
  /\ LoopIsFree
  /\ conn.at = "resync" \/ (conn.at = "live" /\ Overflowed)
  /\ conn' = NoConnection(seen)
  /\ page' = Resynced
  /\ UNCHANGED <<server, missed, drops>>

\* The REST reads of a flushed window, or of the first load.
Refresh ==
  /\ page.dirty
  /\ page' = [page EXCEPT !.dirty = FALSE, !.shows = last]
  /\ UNCHANGED <<server, conn, missed, drops>>

\* The browser connects again with the id it has, whatever was on its way.
Drop ==
  /\ conn.at # "none"
  /\ drops < MaxDrops
  /\ drops' = drops + 1
  /\ conn' = NoConnection(conn.got)
  /\ UNCHANGED <<server, missed, page>>

\* The process starts again: its tailer begins at the end of the table.
Restart ==
  /\ drops < MaxDrops
  /\ drops' = drops + 1
  /\ seen' = last
  /\ polling' = None
  /\ conn' = NoConnection(conn.got)
  /\ UNCHANGED <<first, last, missed, page>>

-----------------------------------------------------------------------------
Stream == Connect \/ Replay \/ SendReplayed \/ Subscribe \/ SendQueued \/ Resync
Poll == PollBegins \/ PollEnds

Next == Commit \/ Poll \/ Stream \/ Refresh \/ Drop \/ Restart

Spec == Init /\ [][Next]_vars

\* The event loop runs the tailer and the stream, and the page reads what it
\* was told to.  Nothing is assumed of writers, or of the network's faults.
FairSpec == Spec /\ WF_vars(Poll) /\ WF_vars(Stream) /\ WF_vars(Refresh)

-----------------------------------------------------------------------------
(* Properties.                                                             *)

\* A live connection loses nothing in silence: what the tailer has seen since
\* the page subscribed was sent, is queued, or the queue says that it overflowed.
Gapless ==
  conn.at = "live" /\ ~Overflowed =>
    /\ \A k \in conn.got + 1 .. seen : k \in Range(conn.queue)
    /\ Len(conn.queue) <= ReplayCap

\* Nor does the page behind it: it shows what the tailer has seen, is about to
\* read it, or has yet to be sent it, whatever was dropped, replayed or pruned
\* on the way; but for what was missed between a replay and the subscription.
NothingForgotten ==
  conn.at = "live" /\ ~Overflowed =>
    \A k \in 1 .. seen :
      page.dirty \/ k <= page.shows \/ k \in missed \/ k \in Range(conn.queue)

\* Whatever the network does, the page ends up showing every change, except one
\* that was polled (or pruned) while the page had no read under way and no
\* subscription, and after its replay was read or when it had no cursor yet to
\* replay from: no backlog, lost connection or expired cursor leaves a page
\* behind, and a resync comes to an end.
Reaches == \A k \in Change : last >= k ~> page.shows >= k \/ k \in missed

=============================================================================
