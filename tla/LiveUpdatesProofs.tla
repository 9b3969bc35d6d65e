-------------------------- MODULE LiveUpdatesProofs --------------------------
(***************************************************************************)
(* Theorems about LiveUpdates, for every retention limit, replay cap,     *)
(* number of changes and number of broken connections.                     *)
(***************************************************************************)
EXTENDS LiveUpdates, SequenceTheorems, TLAPS

USE LiveUpdatesAssumption

-----------------------------------------------------------------------------
(* The inductive invariant.                                                *)

Connection ==
  [at: {"none", "resync", "opened", "replaying", "live"}, after: Nat,
   replay: Seq(Nat), queue: Seq(Nat), got: Nat]

Page == [cursor: Nat, shows: Nat, dirty: BOOLEAN]

\* Pruning leaves a full table: what it takes between the two reads of
\* poll_once makes the rows that are left too many for any queue.
Retained == first = 1 \/ last - first + 1 >= RetentionLimit

LiveInv ==
  /\ first \in Nat \ {0} /\ last \in Nat /\ seen \in Nat /\ polling \in Nat
  /\ seen <= last /\ polling <= last
  /\ conn \in Connection
  /\ page \in Page
  /\ Retained
  /\ conn.at # "live" => conn.queue = <<>>
  /\ Gapless

\* The page has read, or will read, what it was sent or told to read.
Told ==
  /\ \A k \in 1 .. conn.got : page.dirty \/ k <= page.shows \/ k \in missed
  /\ page.dirty \/ page.cursor <= page.shows
  /\ last <= MaxChanges
  /\ conn.got <= last /\ page.cursor <= last
  /\ \A k \in Range(conn.replay) : k <= last
  /\ \A k \in Range(conn.queue) : k <= last \/ k = Overflow

-----------------------------------------------------------------------------
(* Rows and queues.                                                        *)

\* What a read of the table returns.
LEMMA RowsAre ==
  ASSUME first \in Nat, last \in Nat, NEW after \in Nat
  PROVE  /\ Rows(after) \in Seq(Nat)
         /\ after + 1 >= first =>
              \A k \in after + 1 .. last : \E n \in 1 .. Len(Rows(after)) : Rows(after)[n] = k
         /\ after + 1 < first => Len(Rows(after)) >= last - first + 1
         /\ \A k \in Range(Rows(after)) : k <= last
<1> DEFINE from == IF after + 1 > first THEN after + 1 ELSE first
           n == IF last >= from THEN last - from + 1 ELSE 0
<1>1. from \in Nat /\ n \in Nat
  OBVIOUS
<1>2. Rows(after) = [k \in 1 .. n |-> from + k - 1]
  BY DEF Rows
<1>3. \A k \in 1 .. n : from + k - 1 \in Nat
  BY <1>1
<1>4. Rows(after) \in Seq(Nat) /\ Len(Rows(after)) = n
  <2> HIDE DEF from, n
  <2> QED
    BY <1>1, <1>2, <1>3, IsASeq
<1>5. ASSUME after + 1 >= first, NEW k \in after + 1 .. last
      PROVE  \E m \in 1 .. Len(Rows(after)) : Rows(after)[m] = k
  <2>1. from = after + 1 /\ k - from + 1 \in 1 .. n
    BY <1>5
  <2>2. Rows(after)[k - from + 1] = k
    BY <2>1, <1>2, <1>1
  <2> QED
    BY <2>1, <2>2, <1>4
<1>6. after + 1 < first => n >= last - first + 1
  OBVIOUS
<1>7. \A k \in 1 .. n : Rows(after)[k] <= last
  BY <1>1, <1>2
<1> QED
  BY <1>4, <1>5, <1>6, <1>7 DEF Range

\* What a subscriber's queue becomes.
LEMMA FannedOutIs ==
  ASSUME NEW queue \in Seq(Nat), NEW rows \in Seq(Nat)
  PROVE  /\ FannedOut(queue, rows) \in Seq(Nat)
         /\ \/ FannedOut(queue, rows) = <<Overflow>>
               /\ Len(queue) + Len(rows) > ReplayCap
            \/ /\ Range(FannedOut(queue, rows)) = Range(queue) \cup Range(rows)
               /\ Len(FannedOut(queue, rows)) = Len(queue) + Len(rows)
               /\ Len(queue) + Len(rows) <= ReplayCap
               /\ queue # <<>> => Head(FannedOut(queue, rows)) = Head(queue)
<1>1. Len(queue) \in Nat /\ Len(rows) \in Nat
  BY LenProperties
<1>2. <<Overflow>> \in Seq(Nat)
  BY DEF Overflow
<1>3. /\ queue \o rows \in Seq(Nat)
      /\ Len(queue \o rows) = Len(queue) + Len(rows)
      /\ \A i \in 1 .. Len(queue) + Len(rows) :
           (queue \o rows)[i] = IF i <= Len(queue) THEN queue[i] ELSE rows[i - Len(queue)]
  BY ConcatProperties
<1>4. Range(queue \o rows) = Range(queue) \cup Range(rows)
  BY RangeConcatenation
<1>5. queue # <<>> => Head(queue \o rows) = Head(queue)
  <2>1. queue # <<>> => 1 \in 1 .. Len(queue)
    BY EmptySeq, <1>1
  <2>2. queue # <<>> => Head(queue) = queue[1] /\ queue \o rows # <<>>
    BY <2>1, <1>3, <1>1, EmptySeq, HeadTailProperties
  <2> QED
    BY <2>1, <2>2, <1>1, <1>3, HeadTailProperties
<1> QED
  BY <1>1, <1>2, <1>3, <1>4, <1>5 DEF FannedOut

-----------------------------------------------------------------------------
(* What the steps do.                                                      *)

LEMMA LiveInit == Init => LiveInv
<1> SUFFICES ASSUME Init PROVE LiveInv
  OBVIOUS
<1>1. <<>> \in Seq(Nat)
  BY EmptySeq
<1>2. conn \in Connection /\ conn.at = "none" /\ conn.queue = <<>>
  BY <1>1 DEF Init, NoConnection, Connection, None
<1> QED
  BY <1>2 DEF Init, LiveInv, Retained, Gapless, None, Page

\* A connection that is not live promises nothing.
LEMMA NotLive ==
  ASSUME LiveInv, conn' \in Connection, conn.at' # "live", conn.queue' = <<>>,
         page' \in Page, UNCHANGED server
  PROVE  LiveInv'
BY DEF LiveInv, Retained, Gapless, server

\* A connection that has gone.
LEMMA Gone ==
  ASSUME NEW got \in Nat
  PROVE  /\ NoConnection(got) \in Connection
         /\ NoConnection(got).at = "none" /\ NoConnection(got).queue = <<>>
<1>1. <<>> \in Seq(Nat)
  BY EmptySeq
<1> QED
  BY <1>1 DEF NoConnection, Connection, None

LEMMA LiveStep == LiveInv /\ [Next]_vars => LiveInv'
<1> SUFFICES ASSUME LiveInv, [Next]_vars PROVE LiveInv'
  OBVIOUS
<1>1. CASE Commit
  <2>1. /\ last' = last + 1
        /\ \/ first' = first
           \/ first' = last + 1 - RetentionLimit + 1 /\ first' > first
    BY <1>1 DEF Commit, LiveInv, Pruned
  <2>2. first' \in Nat \ {0} /\ Retained'
    BY <2>1 DEF LiveInv, Retained
  <2> QED
    BY <1>1, <2>1, <2>2 DEF Commit, LiveInv, Gapless, Overflowed
<1>2. CASE PollBegins
  BY <1>2 DEF PollBegins, LiveInv, Retained, Gapless, Overflowed
<1>3. CASE PollEnds
  <2> DEFINE rows == Rows(seen)
             new == FannedOut(conn.queue, rows)
  <2>1. /\ rows \in Seq(Nat)
        /\ seen + 1 >= first => \A k \in seen + 1 .. last : \E n \in 1 .. Len(rows) : rows[n] = k
        /\ seen + 1 < first => Len(rows) >= last - first + 1
    BY RowsAre DEF LiveInv
  <2>2. conn.queue \in Seq(Nat)
    BY DEF LiveInv, Connection
  <2>3. /\ new \in Seq(Nat)
        /\ \/ new = <<Overflow>> /\ Len(conn.queue) + Len(rows) > ReplayCap
           \/ /\ Range(new) = Range(conn.queue) \cup Range(rows)
              /\ Len(new) = Len(conn.queue) + Len(rows)
              /\ Len(conn.queue) + Len(rows) <= ReplayCap
              /\ conn.queue # <<>> => Head(new) = Head(conn.queue)
    <3> HIDE DEF rows
    <3> QED
      BY <2>1, <2>2, FannedOutIs
  <2>4. /\ conn' = IF conn.at = "live" THEN [conn EXCEPT !.queue = new] ELSE conn
        /\ seen' = polling /\ polling' = 0 /\ UNCHANGED <<first, last, page>>
    BY <1>3 DEF PollEnds, None
  <2>5. conn' \in Connection
    BY <2>3, <2>4 DEF LiveInv, Connection
  <2>6. Gapless'
    <3> SUFFICES ASSUME conn.at' = "live", ~Overflowed'
                 PROVE  /\ \A k \in conn.got' + 1 .. seen' : k \in Range(conn.queue')
                        /\ Len(conn.queue') <= ReplayCap
      BY DEF Gapless
    <3>1. conn.at = "live" /\ conn.queue' = new /\ conn.got' = conn.got
      BY <2>4 DEF LiveInv, Connection
    <3>2. new # <<Overflow>>
      BY <3>1 DEF Overflowed
    <3>3. ~Overflowed
      BY <3>1, <3>2, <2>3 DEF Overflowed
    <3>4. Len(conn.queue) \in Nat /\ Len(rows) \in Nat
      BY <2>1, <2>2, LenProperties
    <3>5. seen + 1 >= first
      BY <3>2, <2>3, <2>1, <3>4 DEF LiveInv, Retained
    <3>6. ASSUME NEW k \in conn.got + 1 .. polling PROVE k \in Range(new)
      <4>1. CASE k <= seen
        <5>1. k \in conn.got + 1 .. seen
          BY <4>1, <3>6 DEF LiveInv, Connection
        <5> QED
          BY <5>1, <3>1, <3>2, <3>3, <2>3 DEF LiveInv, Gapless
      <4>2. CASE k > seen
        <5>1. k \in seen + 1 .. last
          BY <4>2, <3>6 DEF LiveInv, Connection
        <5>2. PICK n \in 1 .. Len(rows) : rows[n] = k
          BY <5>1, <3>5, <2>1
        <5>3. k \in Range(rows)
          BY <5>2, <2>1, LenProperties DEF Range
        <5> QED
          BY <5>3, <3>2, <2>3
      <4> QED
        BY <4>1, <4>2, <3>6 DEF LiveInv, Connection
    <3> QED
      BY <3>1, <3>2, <3>6, <2>3, <2>4
  <2> QED
    BY <2>4, <2>5, <2>6 DEF LiveInv, Retained, Connection
<1>4. CASE Connect
  <2>1. page.cursor \in Nat /\ conn.got \in Nat
    BY DEF LiveInv, Connection, Page
  <2>2. NoConnection(IF page.cursor = None THEN conn.got ELSE page.cursor) \in Connection
    BY <2>1, Gone
  <2>3. conn' \in Connection /\ conn.at' # "live" /\ conn.queue' = <<>>
    BY <1>4, <2>1, <2>2, Gone DEF Connect, Connection, NoConnection
  <2> QED
    BY <1>4, <2>3, NotLive DEF Connect, LiveInv
<1>5. CASE Replay
  <2>1. (IF conn.after = None THEN <<>> ELSE Rows(conn.after)) \in Seq(Nat)
    BY RowsAre, EmptySeq DEF LiveInv, Connection
  <2>2. conn' \in Connection /\ conn.at' # "live" /\ conn.queue' = <<>>
    BY <1>5, <2>1 DEF Replay, LiveInv, Connection
  <2> QED
    BY <1>5, <2>2, NotLive DEF Replay, LiveInv
<1>6. CASE SendReplayed
  <2>1. conn.replay \in Seq(Nat) /\ conn.replay # <<>>
    BY <1>6 DEF SendReplayed, LiveInv, Connection
  <2>2. Head(conn.replay) \in Nat /\ Tail(conn.replay) \in Seq(Nat)
    BY <2>1, HeadTailProperties
  <2>3. conn' \in Connection /\ conn.at' # "live" /\ conn.queue' = <<>>
    BY <1>6, <2>2 DEF SendReplayed, LiveInv, Connection, Higher
  <2>4. page' \in Page
    BY <1>6, <2>2 DEF SendReplayed, Received, LiveInv, Page
  <2> QED
    BY <1>6, <2>3, <2>4, NotLive DEF SendReplayed
<1>7. CASE Subscribe
  <2>1. /\ conn' \in Connection /\ conn.queue' = <<>>
        /\ conn.got' >= seen
    <3>1. conn.queue = <<>> /\ Higher(conn.got, seen) \in Nat /\ Higher(conn.got, seen) >= seen
      BY <1>7 DEF Subscribe, LiveInv, Connection, Higher
    <3>2. conn' = [conn EXCEPT !.at = "live", !.got = Higher(conn.got, seen)]
      BY <1>7 DEF Subscribe
    <3> QED
      BY <3>1, <3>2 DEF LiveInv, Connection
  <2>2. Gapless'
    <3>1. Len(<<>>) = 0 /\ Len(<<>>) <= ReplayCap
      BY EmptySeq
    <3>2. conn.got' \in Nat /\ seen' = seen /\ seen \in Nat
      BY <2>1, <1>7 DEF Subscribe, server, LiveInv, Connection
    <3>3. \A k \in conn.got' + 1 .. seen' : FALSE
      BY <3>2, <2>1
    <3> QED
      BY <2>1, <3>1, <3>3 DEF Gapless
  <2> QED
    BY <1>7, <2>1, <2>2 DEF Subscribe, server, LiveInv, Retained
<1>8. CASE SendQueued
  <2> DEFINE k == Head(conn.queue)
             rest == Tail(conn.queue)
  <2>1. conn.queue \in Seq(Nat) /\ conn.queue # <<>>
    BY <1>8 DEF SendQueued, LiveInv, Connection
  <2>2. /\ k \in Nat /\ rest \in Seq(Nat) /\ k = conn.queue[1]
        /\ Len(rest) = Len(conn.queue) - 1
        /\ \A i \in 1 .. Len(rest) : rest[i] = conn.queue[i + 1]
    BY <2>1, HeadTailProperties
  <2>3. Range(conn.queue) \subseteq Range(rest) \cup {k}
    <3> SUFFICES ASSUME NEW i \in 1 .. Len(conn.queue), conn.queue[i] # k
                 PROVE  conn.queue[i] \in Range(rest)
      BY <2>1, LenProperties DEF Range
    <3>1. Len(conn.queue) \in Nat
      BY <2>1, LenProperties
    <3>2. i # 1
      BY <2>2
    <3>3. i - 1 \in 1 .. Len(rest) /\ (i - 1) + 1 = i
      BY <2>2, <3>1, <3>2
    <3>4. conn.queue[i] = rest[i - 1]
      BY <2>2, <3>3
    <3> QED
      BY <3>3, <3>4, <2>2, LenProperties DEF Range
  <2>4. /\ conn' = [conn EXCEPT !.queue = rest, !.got = Higher(conn.got, k)]
        /\ conn.at = "live" /\ k # Overflow /\ UNCHANGED server
        /\ page' = [page EXCEPT !.cursor = k, !.dirty = TRUE]
    BY <1>8 DEF SendQueued, Received
  <2>5. conn' \in Connection /\ conn.got' >= conn.got /\ conn.got' >= k
        /\ conn.queue' = rest /\ conn.at' = "live"
    <3>1. Higher(conn.got, k) \in Nat /\ Higher(conn.got, k) >= conn.got /\ Higher(conn.got, k) >= k
      BY <2>2 DEF LiveInv, Connection, Higher
    <3> QED
      BY <3>1, <2>2, <2>4 DEF LiveInv, Connection
  <2>6. Gapless'
    <3>1. ~Overflowed
      BY <2>4 DEF Overflowed
    <3>2. /\ \A n \in conn.got + 1 .. seen : n \in Range(conn.queue)
          /\ Len(conn.queue) <= ReplayCap
      BY <3>1, <2>4 DEF LiveInv, Gapless
    <3>3. \A n \in conn.got' + 1 .. seen : n \in Range(rest)
      <4> HIDE DEF k, rest
      <4>1. \A n \in conn.got' + 1 .. seen : n \in conn.got + 1 .. seen /\ n # k
        BY <2>5, <2>2 DEF LiveInv, Connection
      <4> QED
        BY <4>1, <3>2, <2>3
    <3>4. Len(rest) <= ReplayCap
      BY <3>2, <2>2, <2>1, LenProperties
    <3> QED
      BY <3>3, <3>4, <2>4, <2>5 DEF Gapless, server
  <2> QED
    BY <2>2, <2>4, <2>5, <2>6 DEF LiveInv, Retained, server, Page
<1>9. CASE Resync
  BY <1>9, Gone, NotLive DEF Resync, Resynced, LiveInv, None, Page
<1>10. CASE Refresh
  BY <1>10 DEF Refresh, server, LiveInv, Retained, Gapless, Overflowed, Page
<1>11. CASE Drop
  BY <1>11, Gone, NotLive DEF Drop, LiveInv, Connection
<1>12. CASE Restart
  <2>1. conn' \in Connection /\ conn.at' = "none" /\ conn.queue' = <<>>
    BY <1>12, Gone DEF Restart, LiveInv, Connection
  <2> QED
    BY <1>12, <2>1 DEF Restart, LiveInv, Retained, Gapless, None
<1>13. CASE UNCHANGED vars
  BY <1>13 DEF vars, server, LiveInv, Retained, Gapless, Overflowed
<1> QED
  BY <1>1, <1>2, <1>3, <1>4, <1>5, <1>6, <1>7, <1>8, <1>9, <1>10, <1>11, <1>12, <1>13
  DEF Next, Poll, Stream

-----------------------------------------------------------------------------
\* A live connection never has a silent gap: what the tailer has seen since the
\* page subscribed was sent, is queued, or the queue says that it overflowed,
\* although writers commit and prune between the two reads of poll_once
\* (sse.py: poll_once, the bounded queue of a subscriber).
THEOREM NoSilentGap == Spec => []Gapless
<1>1. LiveInv => Gapless
  BY DEF LiveInv
<1> QED
  BY LiveInit, LiveStep, <1>1, PTL DEF Spec

-----------------------------------------------------------------------------
(* What the page has been told.                                            *)

LEMMA ToldInit == Init => Told
BY EmptySeq DEF Init, Told, NoConnection, None, Range

\* A connection that has gone takes nothing back.
LEMMA ToldGone ==
  ASSUME LiveInv, NEW got \in Nat
  PROVE  /\ \A k \in Range(NoConnection(got).replay) : k <= last
         /\ \A k \in Range(NoConnection(got).queue) : k <= last \/ k = Overflow
         /\ NoConnection(got).got = got
BY EmptySeq DEF NoConnection, Range

LEMMA ToldStep == LiveInv /\ Told /\ [Next]_vars => Told'
<1> SUFFICES ASSUME LiveInv, Told, [Next]_vars PROVE Told'
  OBVIOUS
<1> USE DEF Told
<1>1. CASE Commit
  <2>1. Range(conn.replay) \subseteq Nat /\ Range(conn.queue) \subseteq Nat
    BY RangeOfSeq DEF LiveInv, Connection
  <2>2. /\ last' = last + 1 /\ last + 1 <= MaxChanges /\ UNCHANGED <<conn, missed, page>>
    BY <1>1 DEF Commit, LiveInv
  <2> QED
    BY <2>1, <2>2 DEF LiveInv, Connection, Page, Overflow
<1>2. CASE PollBegins
  BY <1>2 DEF PollBegins, Overflow
<1>3. CASE PollEnds
  <2> DEFINE rows == Rows(seen)
             new == FannedOut(conn.queue, rows)
  <2>1. rows \in Seq(Nat) /\ \A k \in Range(rows) : k <= last
    BY RowsAre DEF LiveInv
  <2>2. conn.queue \in Seq(Nat)
    BY DEF LiveInv, Connection
  <2>3. new \in Seq(Nat) /\ \A k \in Range(new) : k <= last \/ k = Overflow
    <3>1. /\ new \in Seq(Nat)
          /\ new = <<Overflow>> \/ Range(new) = Range(conn.queue) \cup Range(rows)
      <4> HIDE DEF rows
      <4> QED
        BY <2>1, <2>2, FannedOutIs
    <3>2. Range(<<Overflow>>) = {Overflow}
      BY DEF Range
    <3> HIDE DEF new, rows
    <3> QED
      BY <3>1, <3>2, <2>1
  <2>4. /\ conn' = IF conn.at = "live" THEN [conn EXCEPT !.queue = new] ELSE conn
        /\ UNCHANGED <<last, page, missed>>
    BY <1>3 DEF PollEnds
  <2> HIDE DEF new
  <2>5. conn.got' = conn.got /\ conn.replay' = conn.replay /\ (conn.queue' = new \/ conn.queue' = conn.queue)
    BY <2>4 DEF LiveInv, Connection
  <2> QED
    BY <2>3, <2>4, <2>5 DEF Overflow
<1>4. CASE Connect
  <2> DEFINE got == IF page.cursor = None THEN conn.got ELSE page.cursor
  <2>1. got \in Nat /\ got <= last
    BY DEF LiveInv, Connection, Page
  <2>2. conn.got' = got /\ conn.replay' = <<>> /\ conn.queue' = <<>>
    BY <1>4, <2>1 DEF Connect, NoConnection
  <2>3. \A k \in 1 .. got : page.dirty \/ k <= page.shows \/ k \in missed
    BY DEF LiveInv, Connection, Page
  <2>4. Range(<<>>) = {}
    BY EmptySeq DEF Range
  <2> HIDE DEF got
  <2> QED
    BY <1>4, <2>1, <2>2, <2>3, <2>4 DEF Connect, server, Overflow
<1>5. CASE Replay
  <2> DEFINE rows == IF conn.after = None THEN <<>> ELSE Rows(conn.after)
  <2>1. \A k \in Range(rows) : k <= last
    BY RowsAre, EmptySeq DEF LiveInv, Connection, Range
  <2> HIDE DEF rows
  <2>2. conn' = [conn EXCEPT !.at = "replaying", !.replay = rows] /\ missed \subseteq missed'
    BY <1>5 DEF Replay, rows
  <2>3. conn.got' = conn.got /\ conn.replay' = rows /\ conn.queue' = conn.queue
    BY <2>2 DEF LiveInv, Connection
  <2> QED
    BY <1>5, <2>1, <2>2, <2>3 DEF Replay, server, Overflow
<1>6. CASE SendReplayed
  <2> DEFINE k == Head(conn.replay)
             rest == Tail(conn.replay)
  <2>1. conn.replay \in Seq(Nat) /\ conn.replay # <<>>
    BY <1>6 DEF SendReplayed, LiveInv, Connection
  <2>2. k \in Nat /\ rest \in Seq(Nat) /\ k <= last /\ \A n \in Range(rest) : n <= last
    <3>1. /\ k \in Nat /\ rest \in Seq(Nat) /\ k = conn.replay[1]
          /\ Len(rest) = Len(conn.replay) - 1
          /\ \A i \in 1 .. Len(rest) : rest[i] = conn.replay[i + 1]
      BY <2>1, HeadTailProperties
    <3>2. 1 \in 1 .. Len(conn.replay) /\ \A i \in 1 .. Len(rest) : i + 1 \in 1 .. Len(conn.replay)
      BY <2>1, <3>1, EmptySeq, LenProperties
    <3>3. \A i \in 1 .. Len(conn.replay) : conn.replay[i] <= last
      BY <2>1, LenProperties DEF Range
    <3> HIDE DEF k, rest
    <3>4. k <= last /\ \A i \in 1 .. Len(rest) : rest[i] <= last
      BY <3>1, <3>2, <3>3
    <3>5. DOMAIN rest = 1 .. Len(rest)
      BY <3>1, LenProperties
    <3> QED
      BY <3>1, <3>4, <3>5 DEF Range
  <2> HIDE DEF k, rest
  <2>3. Higher(conn.got, k) \in Nat /\ Higher(conn.got, k) <= last
    BY <2>2 DEF LiveInv, Connection, Higher
  <2>4. /\ conn' = [conn EXCEPT !.replay = rest, !.got = Higher(conn.got, k)]
        /\ page' = [page EXCEPT !.cursor = k, !.dirty = TRUE]
        /\ UNCHANGED <<last, missed>>
    BY <1>6 DEF SendReplayed, Received, server, k, rest
  <2>5. /\ conn.got' = Higher(conn.got, k) /\ conn.replay' = rest /\ conn.queue' = conn.queue
        /\ page.dirty' /\ page.cursor' = k
    BY <2>4 DEF LiveInv, Connection, Page
  <2> QED
    BY <2>2, <2>3, <2>4, <2>5 DEF Overflow
<1>7. CASE Subscribe
  <2>1. Higher(conn.got, seen) \in Nat /\ Higher(conn.got, seen) <= last
    BY DEF LiveInv, Connection, Higher
  <2>2. conn' = [conn EXCEPT !.at = "live", !.got = Higher(conn.got, seen)]
        /\ missed' = missed \cup Unread(conn.got + 1, seen)
        /\ UNCHANGED <<server, page>>
    BY <1>7 DEF Subscribe
  <2>3. conn.got' = Higher(conn.got, seen) /\ conn.replay' = conn.replay /\ conn.queue' = conn.queue
    BY <2>2 DEF LiveInv, Connection
  <2>4. ASSUME NEW k \in 1 .. Higher(conn.got, seen)
        PROVE  page.dirty \/ k <= page.shows \/ k \in missed'
    <3>1. CASE k <= conn.got
      BY <3>1, <2>2 DEF LiveInv, Connection
    <3>2. CASE k > conn.got
      <4>1. k <= seen /\ k \in Change
        BY <2>1, <3>2 DEF Higher, LiveInv, Connection, Change
      <4> QED
        BY <4>1, <3>2, <2>2 DEF Unread, LiveInv, Connection, Page
    <3> QED
      BY <3>1, <3>2, <2>1 DEF LiveInv, Connection
  <2> QED
    BY <2>1, <2>2, <2>3, <2>4 DEF server, Overflow
<1>8. CASE SendQueued
  <2> DEFINE k == Head(conn.queue)
             rest == Tail(conn.queue)
  <2>1. conn.queue \in Seq(Nat) /\ conn.queue # <<>> /\ k # Overflow
    BY <1>8 DEF SendQueued, LiveInv, Connection
  <2>2. k \in Nat /\ rest \in Seq(Nat) /\ k <= last /\ \A n \in Range(rest) : n <= last \/ n = Overflow
    <3>1. /\ k \in Nat /\ rest \in Seq(Nat) /\ k = conn.queue[1]
          /\ Len(rest) = Len(conn.queue) - 1
          /\ \A i \in 1 .. Len(rest) : rest[i] = conn.queue[i + 1]
      BY <2>1, HeadTailProperties
    <3>2. 1 \in 1 .. Len(conn.queue) /\ \A i \in 1 .. Len(rest) : i + 1 \in 1 .. Len(conn.queue)
      BY <2>1, <3>1, EmptySeq, LenProperties
    <3>3. \A i \in 1 .. Len(conn.queue) : conn.queue[i] <= last \/ conn.queue[i] = Overflow
      BY <2>1, LenProperties DEF Range
    <3>4. k <= last
      BY <2>1, <3>1, <3>2, <3>3
    <3> HIDE DEF k, rest
    <3>5. \A i \in 1 .. Len(rest) : rest[i] <= last \/ rest[i] = Overflow
      BY <3>1, <3>2, <3>3
    <3>6. DOMAIN rest = 1 .. Len(rest)
      BY <3>1, LenProperties
    <3> QED
      BY <3>1, <3>4, <3>5, <3>6 DEF Range
  <2> HIDE DEF k, rest
  <2>3. Higher(conn.got, k) \in Nat /\ Higher(conn.got, k) <= last
    BY <2>2 DEF LiveInv, Connection, Higher
  <2>4. /\ conn' = [conn EXCEPT !.queue = rest, !.got = Higher(conn.got, k)]
        /\ page' = [page EXCEPT !.cursor = k, !.dirty = TRUE]
        /\ UNCHANGED <<last, missed>>
    BY <1>8 DEF SendQueued, Received, server, k, rest
  <2>5. /\ conn.got' = Higher(conn.got, k) /\ conn.replay' = conn.replay /\ conn.queue' = rest
        /\ page.dirty' /\ page.cursor' = k
    BY <2>4 DEF LiveInv, Connection, Page
  <2> QED
    BY <2>2, <2>3, <2>4, <2>5 DEF Overflow
<1>9. CASE Resync
  <2>1. /\ conn' = NoConnection(seen) /\ page' = [page EXCEPT !.cursor = None, !.dirty = TRUE]
        /\ UNCHANGED <<last, missed>>
    BY <1>9 DEF Resync, Resynced, server
  <2>2. page.dirty' /\ page.cursor' = 0
    BY <2>1 DEF LiveInv, Page, None
  <2> QED
    BY <2>1, <2>2, ToldGone DEF LiveInv, Overflow
<1>10. CASE Refresh
  BY <1>10 DEF Refresh, server, LiveInv, Connection, Page, Overflow
<1>11. CASE Drop
  <2>1. conn' = NoConnection(conn.got) /\ UNCHANGED <<server, missed, page>> /\ conn.got \in Nat
    BY <1>11 DEF Drop, LiveInv, Connection
  <2> QED
    BY <2>1, ToldGone DEF server, Overflow
<1>12. CASE Restart
  <2>1. conn' = NoConnection(conn.got) /\ UNCHANGED <<last, missed, page>> /\ conn.got \in Nat
    BY <1>12 DEF Restart, LiveInv, Connection
  <2> QED
    BY <2>1, ToldGone DEF Overflow
<1>13. CASE UNCHANGED vars
  BY <1>13 DEF vars, server, Overflow
<1> QED
  BY <1>1, <1>2, <1>3, <1>4, <1>5, <1>6, <1>7, <1>8, <1>9, <1>10, <1>11, <1>12, <1>13
  DEF Next, Poll, Stream

\* A page behind a live connection has nothing forgotten: what the tailer has
\* seen it shows, is about to read, or has queued for it, whatever was dropped,
\* replayed or pruned on the way (sse.py: stream_events; stream.js: the answer
\* to an event is a fresh read).
THEOREM NothingIsForgotten == Spec => []NothingForgotten
<1>1. LiveInv /\ Told => NothingForgotten
  <2> SUFFICES ASSUME LiveInv, Told, conn.at = "live", ~Overflowed, NEW k \in 1 .. seen
               PROVE  page.dirty \/ k <= page.shows \/ k \in missed \/ k \in Range(conn.queue)
    BY DEF NothingForgotten
  <2>1. CASE k <= conn.got
    BY <2>1 DEF Told, LiveInv, Connection
  <2>2. CASE k > conn.got
    BY <2>2 DEF LiveInv, Gapless, Connection
  <2> QED
    BY <2>1, <2>2 DEF LiveInv, Connection
<1> QED
  BY LiveInit, LiveStep, ToldInit, ToldStep, <1>1, PTL DEF Spec

=============================================================================
