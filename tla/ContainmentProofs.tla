------------------------- MODULE ContainmentProofs --------------------------
(***************************************************************************)
(* Theorems about EventLog, for any number of processes, appends, failures *)
(* and kills; and about Containment, which keeps its facts in that log,    *)
(* for any number of controllers, executions, failed appends and kills     *)
(* between any two steps or inside an append.                              *)
(***************************************************************************)
EXTENDS Containment, SequenceTheorems, TLAPS

-----------------------------------------------------------------------------
(* The log.  What the open handle believes agrees with the file, up to the *)
(* one line of an append that has raised: it is in the file, or still      *)
(* unwritten.                                                              *)

Agrees ==
  \/ ~failed /\ Len(unwritten) = 0 /\ lastId = Len(file)
  \/ failed /\ Len(unwritten) = 0 /\ Len(file) = lastId + 1
  \/ /\ failed
     /\ Len(unwritten) = 1 /\ unwritten[1].id = lastId + 1
     /\ lastId = Len(file)

LogInv ==
  /\ LogTypeOK
  /\ DurableLog
  /\ ~reused /\ writer # NoProcess => Agrees

-----------------------------------------------------------------------------
(* Sequences of lines.                                                     *)

LEMMA NoLine == <<>> \in Seq(Line) /\ Len(<<>>) = 0
BY EmptySeq

LEMMA AddNothing ==
  ASSUME NEW f \in Seq(Line), NEW s \in Seq(Line), Len(s) = 0
  PROVE  f \o s = f
BY EmptySeq, ConcatEmptySeq

\* The line an append writes, behind what the handle still holds.
LEMMA PendingLines ==
  ASSUME LogTypeOK, NEW e \in LogEvent
  PROVE  /\ NextLine(e) \in Line /\ NextLine(e).id = lastId + 1
         /\ Pending(e) \in Seq(Line) /\ Len(Pending(e)) = Len(unwritten) + 1
         /\ \A k \in 1 .. Len(unwritten) : Pending(e)[k] = unwritten[k]
         /\ Pending(e)[Len(unwritten) + 1] = NextLine(e)
<1>1. NextLine(e) \in Line /\ NextLine(e).id = lastId + 1
  BY DEF NextLine, Line, LogTypeOK
<1>2. unwritten \in Seq(Line)
  BY DEF LogTypeOK
<1> QED
  BY <1>1, <1>2, AppendProperties DEF Pending

\* One more line with the next id keeps the ids contiguous and every line
\* where it was.
LEMMA AddOne ==
  ASSUME NEW f \in Seq(Line), Contiguous(f),
         NEW s \in Seq(Line), Len(s) = 1, s[1].id = Len(f) + 1
  PROVE  /\ Contiguous(f \o s)
         /\ Len(f \o s) = Len(f) + 1
         /\ DOMAIN (f \o s) = 1 .. Len(f) + 1 /\ DOMAIN f = 1 .. Len(f)
         /\ \A k \in DOMAIN f : (f \o s)[k] = f[k]
         /\ (f \o s)[Len(f) + 1] = s[1]
<1>a. /\ f \o s \in Seq(Line) /\ Len(f \o s) = Len(f) + Len(s)
      /\ \A k \in 1 .. Len(f) + Len(s) :
           (f \o s)[k] = IF k <= Len(f) THEN f[k] ELSE s[k - Len(f)]
  BY ConcatProperties
<1>b. Len(f) \in Nat
  BY LenProperties
<1>1. /\ f \o s \in Seq(Line) /\ Len(f \o s) = Len(f) + 1 /\ Len(f) \in Nat
      /\ \A k \in 1 .. Len(f) + 1 :
           (f \o s)[k] = IF k <= Len(f) THEN f[k] ELSE s[k - Len(f)]
  BY <1>a, <1>b
<1>2. DOMAIN (f \o s) = 1 .. Len(f) + 1 /\ DOMAIN f = 1 .. Len(f)
  BY <1>1, LenProperties
<1>3. \A k \in DOMAIN f : (f \o s)[k] = f[k]
  BY <1>1, <1>2
<1>4. (f \o s)[Len(f) + 1] = s[1]
  BY <1>1
<1>5. Contiguous(f \o s)
  BY <1>1, <1>2, <1>3, <1>4 DEF Contiguous
<1> QED
  BY <1>1, <1>2, <1>3, <1>4, <1>5

\* What is acknowledged stays where it is.
LEMMA StillDurable ==
  ASSUME LogTypeOK, DurableLog, ~reused, acked' = acked,
         NEW s \in Seq(Line), Len(s) = 1, s[1].id = Len(file) + 1, file' = file \o s
  PROVE  /\ Contiguous(file')
         /\ \A a \in acked' : a.id \in DOMAIN file' /\ file'[a.id] = a
<1>1. file \in Seq(Line) /\ Contiguous(file)
  BY DEF LogTypeOK, DurableLog
<1>2. /\ Contiguous(file')
      /\ DOMAIN file \subseteq DOMAIN file'
      /\ \A k \in DOMAIN file : file'[k] = file[k]
  <2>1. Len(file) \in Nat
    BY <1>1, LenProperties
  <2> QED
    BY <1>1, <2>1, AddOne
<1> QED
  BY <1>2 DEF DurableLog

-----------------------------------------------------------------------------
(* Types.                                                                  *)

LEMMA LogTypeStep == LogTypeOK /\ [LogNext]_log => LogTypeOK'
<1> SUFFICES ASSUME LogTypeOK, [LogNext]_log PROVE LogTypeOK'
  OBVIOUS
<1>0. file \in Seq(Line) /\ unwritten \in Seq(Line) /\ lastId \in Nat /\ acked \subseteq Line
  BY DEF LogTypeOK
<1>a. \A f, s \in Seq(Line) : f \o s \in Seq(Line)
  BY ConcatProperties
<1>b. <<>> \in Seq(Line) /\ 0 \in Nat /\ {TRUE, FALSE} = BOOLEAN
  BY NoLine
<1>1. ASSUME NEW p \in Process, OpenLog(p) PROVE LogTypeOK'
  <2>1. Len(file) \in Nat
    BY <1>0, LenProperties
  <2> QED
    BY <1>b, <1>1, <2>1 DEF OpenLog, Repaired, LogTypeOK
<1>2. ASSUME RefuseLog PROVE LogTypeOK'
  BY <1>2 DEF RefuseLog, LogTypeOK
<1>3. ASSUME CloseLog PROVE LogTypeOK'
  BY <1>0, <1>a, <1>b, <1>3 DEF CloseLog, LogTypeOK
<1>4. ASSUME NEW e \in LogEvent, AppendEvent(e) PROVE LogTypeOK'
  <2>1. NextLine(e) \in Line /\ Pending(e) \in Seq(Line)
    BY PendingLines
  <2>2. file' \in Seq(Line) /\ acked' \subseteq Line /\ lastId' \in Nat
    BY <1>0, <1>a, <1>4, <2>1 DEF AppendEvent
  <2> QED
    BY <1>b, <1>4, <2>2 DEF AppendEvent, LogTypeOK
<1>5. ASSUME NEW e \in LogEvent, AppendUnflushed(e) PROVE LogTypeOK'
  <2>1. Pending(e) \in Seq(Line)
    BY PendingLines
  <2> QED
    BY <1>b, <1>5, <2>1 DEF AppendUnflushed, LogTypeOK
<1>6. ASSUME NEW e \in LogEvent, AppendUnsynced(e) PROVE LogTypeOK'
  <2>1. Pending(e) \in Seq(Line)
    BY PendingLines
  <2>2. file' \in Seq(Line)
    BY <1>0, <1>a, <1>6, <2>1 DEF AppendUnsynced
  <2> QED
    BY <1>b, <1>6, <2>2 DEF AppendUnsynced, LogTypeOK
<1>7. ASSUME DieBetween PROVE LogTypeOK'
  BY <1>b, <1>7 DEF DieBetween, HandleLost, LogTypeOK
<1>8. ASSUME NEW e \in LogEvent, DieAppending(e) PROVE LogTypeOK'
  <2>1. Pending(e) \in Seq(Line)
    BY PendingLines
  <2>2. ASSUME NEW k \in 0 .. Len(Pending(e)) PROVE SubSeq(Pending(e), 1, k) \in Seq(Line)
    <3>1. Len(Pending(e)) \in Nat /\ DOMAIN Pending(e) = 1 .. Len(Pending(e))
          /\ \A j \in 1 .. Len(Pending(e)) : Pending(e)[j] \in Line
      BY <2>1, LenProperties
    <3>2. \A j \in 1 .. k : Pending(e)[j] \in Line
      BY <3>1
    <3> QED
      BY <3>2, SubSeqProperties
  <2>3. file' \in Seq(Line) /\ torn' \in BOOLEAN /\ reused' \in BOOLEAN
    BY <1>0, <1>a, <1>8, <2>2 DEF DieAppending, LogTypeOK
  <2> QED
    BY <1>b, <1>8, <2>3 DEF DieAppending, HandleLost, LogTypeOK
<1>9. CASE UNCHANGED log
  BY <1>9 DEF log, LogTypeOK
<1> QED
  BY <1>1, <1>2, <1>3, <1>4, <1>5, <1>6, <1>7, <1>8, <1>9 DEF LogNext, AppendRaises

-----------------------------------------------------------------------------
(* Durability.                                                             *)

LEMMA LogInitial == LogInit => LogInv
<1> SUFFICES ASSUME LogInit PROVE LogInv
  OBVIOUS
<1>1. DOMAIN <<>> = {}
  BY NoLine, LenProperties
<1>2. LogTypeOK /\ Contiguous(file) /\ acked = {} /\ writer = NoProcess
  BY <1>1, NoLine DEF LogInit, LogTypeOK, Contiguous
<1> QED
  BY <1>2 DEF LogInv, DurableLog

\* Every step of the log keeps its invariant.
LEMMA LogStep == LogInv /\ [LogNext]_log => LogInv'
<1> SUFFICES ASSUME LogInv, [LogNext]_log PROVE LogInv'
  OBVIOUS
<1>0. /\ LogTypeOK /\ LogTypeOK' /\ DurableLog
      /\ file \in Seq(Line) /\ unwritten \in Seq(Line) /\ lastId \in Nat
      /\ writer # NoProcess /\ ~reused => Agrees
  BY LogTypeStep DEF LogInv, LogTypeOK
<1>a. Len(file) \in Nat
  BY <1>0, LenProperties
<1> USE DEF LogInv
<1>1. ASSUME NEW p \in Process, OpenLog(p) PROVE LogInv'
  BY <1>0, <1>1, NoLine DEF OpenLog, Repaired, DurableLog, Agrees
<1>2. ASSUME RefuseLog PROVE LogInv'
  BY <1>0, <1>2 DEF RefuseLog, DurableLog
<1>3. ASSUME writer # NoProcess, CloseLog PROVE LogInv'
  <2>1. writer' = NoProcess /\ reused' = reused /\ acked' = acked
    BY <1>3 DEF CloseLog
  <2>2. ASSUME ~reused PROVE DurableLog'
    <3>1. CASE file' = file
      BY <1>0, <2>1, <2>2, <3>1 DEF DurableLog
    <3>2. CASE file' = file \o unwritten
      <4>1. CASE Len(unwritten) = 0
        BY <1>0, <3>1, <3>2, <4>1, AddNothing
      <4>2. CASE Len(unwritten) # 0
        <5>1. Len(unwritten) = 1 /\ unwritten[1].id = Len(file) + 1
          BY <1>0, <1>3, <2>2, <4>2 DEF Agrees
        <5> QED
          BY <1>0, <2>1, <2>2, <3>2, <5>1, StillDurable DEF DurableLog
      <4> QED
        BY <4>1, <4>2
    <3> QED
      BY <1>3, <3>1, <3>2 DEF CloseLog
  <2>3. reused => DurableLog'
    BY <2>1 DEF DurableLog
  <2> QED
    BY <1>0, <2>1, <2>2, <2>3
\* A line appended while nothing is wrong goes to the end of the file.
<1>b. ASSUME NEW e \in LogEvent, writer # NoProcess, ~failed, ~reused
      PROVE  /\ Len(unwritten) = 0 /\ lastId = Len(file)
             /\ Pending(e) \in Seq(Line) /\ Len(Pending(e)) = 1
             /\ Pending(e)[1] = NextLine(e)
             /\ NextLine(e).id = Len(file) + 1
             /\ NextLine(e) \in Line
  <2>1. Len(unwritten) = 0 /\ lastId = Len(file)
    BY <1>0, <1>b DEF Agrees
  <2> QED
    BY <1>0, <2>1, PendingLines
<1>4. ASSUME NEW e \in LogEvent, writer # NoProcess, AppendEvent(e) PROVE LogInv'
  <2>1. ASSUME ~reused' PROVE DurableLog' /\ Agrees'
    <3>1. ~failed /\ ~reused
      BY <1>0, <1>4, <2>1 DEF AppendEvent, LogTypeOK
    <3>2. /\ Contiguous(file') /\ Len(file') = Len(file) + 1
          /\ DOMAIN file' = 1 .. Len(file) + 1 /\ DOMAIN file = 1 .. Len(file)
          /\ \A k \in DOMAIN file : file'[k] = file[k]
          /\ file'[Len(file) + 1] = NextLine(e)
      BY <1>0, <1>b, <1>4, <3>1, AddOne DEF AppendEvent, DurableLog
    <3>3. \A a \in acked' : a.id \in DOMAIN file' /\ file'[a.id] = a
      <4>1. acked' = acked \cup {NextLine(e)}
        BY <1>4 DEF AppendEvent
      <4>2. \A a \in acked : a.id \in DOMAIN file /\ file[a.id] = a
        BY <1>0, <3>1 DEF DurableLog
      <4>3. NextLine(e).id = Len(file) + 1
        BY <1>b, <1>4, <3>1
      <4> QED
        BY <1>a, <3>2, <4>1, <4>2, <4>3
    <3>4. Agrees'
      BY <1>b, <1>4, <3>1, <3>2, NoLine DEF AppendEvent, Agrees
    <3> QED
      BY <3>2, <3>3, <3>4 DEF DurableLog
  <2> QED
    BY <1>0, <2>1 DEF DurableLog
<1>5. ASSUME NEW e \in LogEvent, writer # NoProcess, AppendUnflushed(e) PROVE LogInv'
  <2>1. ASSUME ~reused' PROVE DurableLog' /\ Agrees'
    <3>1. ~failed /\ ~reused
      BY <1>0, <1>5, <2>1 DEF AppendUnflushed, LogTypeOK
    <3> QED
      BY <1>0, <1>b, <1>5, <3>1 DEF AppendUnflushed, DurableLog, Agrees
  <2> QED
    BY <1>0, <2>1 DEF DurableLog
<1>6. ASSUME NEW e \in LogEvent, writer # NoProcess, AppendUnsynced(e) PROVE LogInv'
  <2>1. ASSUME ~reused' PROVE DurableLog' /\ Agrees'
    <3>1. ~failed /\ ~reused
      BY <1>0, <1>6, <2>1 DEF AppendUnsynced, LogTypeOK
    <3>2. DurableLog'
      BY <1>0, <1>b, <1>6, <3>1, StillDurable DEF AppendUnsynced, DurableLog
    <3>3. Len(file') = Len(file) + 1
      BY <1>0, <1>b, <1>6, <3>1, AddOne DEF AppendUnsynced, DurableLog
    <3>4. Agrees'
      BY <1>b, <1>6, <3>1, <3>3, NoLine DEF AppendUnsynced, Agrees
    <3> QED
      BY <3>2, <3>4
  <2> QED
    BY <1>0, <2>1 DEF DurableLog
<1>7. ASSUME DieBetween PROVE LogInv'
  BY <1>0, <1>7 DEF DieBetween, HandleLost, DurableLog
<1>8. ASSUME NEW e \in LogEvent, writer # NoProcess, DieAppending(e) PROVE LogInv'
  <2>0. /\ Pending(e) \in Seq(Line) /\ Len(Pending(e)) = Len(unwritten) + 1
        /\ Len(unwritten) \in Nat /\ writer' = NoProcess /\ acked' = acked
        /\ DOMAIN Pending(e) = 1 .. Len(Pending(e))
        /\ \A j \in 1 .. Len(Pending(e)) : Pending(e)[j] \in Line
    BY <1>0, <1>8, PendingLines, LenProperties DEF DieAppending, HandleLost
  <2>1. PICK k \in 0 .. Len(Pending(e)) :
          /\ file' = file \o SubSeq(Pending(e), 1, k)
          /\ reused' = (reused \/ (failed /\ k = Len(Pending(e))))
    BY <1>8 DEF DieAppending
  <2>2. ASSUME ~reused' PROVE DurableLog'
    <3>0. ~reused /\ (failed => k # Len(Pending(e))) /\ Agrees
      BY <1>0, <1>8, <2>1, <2>2
    <3> DEFINE written == SubSeq(Pending(e), 1, k)
    <3>1. /\ written \in Seq(Line) /\ Len(written) = k
          /\ k > 0 => written[1] = Pending(e)[1]
      <4>1. \A j \in 1 .. k : Pending(e)[j] \in Line
        BY <2>0, <2>1
      <4> QED
        BY <2>0, <2>1, <4>1, SubSeqProperties
    <3>2. k \in {0, 1}
      <4>1. CASE Len(unwritten) = 0
        <5>1. Len(Pending(e)) = 1
          BY <2>0, <4>1
        <5>2. k \in 0 .. 1
          BY <5>1
        <5> QED
          BY <5>2
      <4>2. CASE Len(unwritten) # 0
        <5>1. failed /\ Len(unwritten) = 1
          BY <3>0, <4>2 DEF Agrees
        <5>2. Len(Pending(e)) = 2
          BY <2>0, <5>1
        <5>3. k \in 0 .. 2
          BY <5>2
        <5>4. k # 2
          BY <3>0, <5>1, <5>2
        <5> QED
          BY <5>3, <5>4
      <4> QED
        BY <4>1, <4>2
    <3>3. CASE k = 0
      <4>1. file' = file
        BY <1>0, <2>1, <3>1, <3>3, AddNothing
      <4> QED
        BY <1>0, <2>0, <3>0, <4>1 DEF DurableLog
    <3>4. CASE k = 1
      <4>1. Pending(e)[1].id = Len(file) + 1
        <5>1. CASE Len(unwritten) = 0
          BY <1>0, <2>0, <3>0, <3>4, <5>1, PendingLines DEF Agrees
        <5>2. CASE Len(unwritten) # 0
          BY <1>0, <2>0, <3>0, <5>2, PendingLines DEF Agrees
        <5> QED
          BY <5>1, <5>2
      <4>2. file' = file \o written
        BY <2>1
      <4> HIDE DEF written
      <4>3. written \in Seq(Line) /\ Len(written) = 1 /\ written[1].id = Len(file) + 1
        BY <3>1, <3>4, <4>1
      <4>4. /\ Contiguous(file')
            /\ \A a \in acked' : a.id \in DOMAIN file' /\ file'[a.id] = a
        BY <1>0, <2>0, <3>0, <4>2, <4>3, StillDurable
      <4> QED
        BY <4>4 DEF DurableLog
    <3> QED
      BY <3>2, <3>3, <3>4
  <2> QED
    BY <1>0, <2>0, <2>2 DEF DurableLog
<1>9. CASE UNCHANGED log
  BY <1>0, <1>9 DEF log, DurableLog, Agrees, Contiguous
<1> QED
  BY <1>1, <1>2, <1>3, <1>4, <1>5, <1>6, <1>7, <1>8, <1>9 DEF LogNext, AppendRaises

\* Whatever is torn, unflushed, unsynced or killed, the log loads and holds what
\* was acknowledged, unless a handle is used again after one of its appends
\* raised (events/log.py on its own: whoever appends, whatever is appended).
THEOREM LogIsDurable == LogSpec => []DurableLog
<1>1. LogInv => DurableLog
  BY DEF LogInv
<1> QED
  BY <1>1, LogInitial, LogStep, PTL DEF LogSpec

-----------------------------------------------------------------------------
(* Replay, as a fold of the log.                                           *)

Folds(g, f) ==
  g = [k \in 0 .. Len(f) |-> IF k = 0 THEN Blank ELSE Applied(g[k - 1], f[k].event)]

\* The replay of f is well defined.
Replayable(f) == \E g : \A h : Folds(h, f) <=> h = g

LEMMA ReplayIsFold ==
  ASSUME NEW f, NEW g, \A h : Folds(h, f) <=> h = g
  PROVE  Replay(f) = g[Len(f)]
<1>1. g = CHOOSE h : Folds(h, f)
  OBVIOUS
<1>2. Replay(f) = (CHOOSE h : Folds(h, f))[Len(f)]
  BY DEF Replay, Folds
<1> QED
  BY <1>1, <1>2

LEMMA ReplayGrows ==
  ASSUME NEW f \in Seq(Line), NEW s \in Seq(Line), Len(s) = 1, Replayable(f)
  PROVE  Replayable(f \o s) /\ Replay(f \o s) = Applied(Replay(f), s[1].event)
<1> DEFINE F == f \o s
           n == Len(f)
<1>1. /\ F \in Seq(Line) /\ Len(F) = n + 1 /\ n \in Nat
      /\ \A k \in 1 .. n : F[k] = f[k]
      /\ F[n + 1] = s[1]
  <2>1. /\ F \in Seq(Line) /\ Len(F) = Len(f) + Len(s)
        /\ \A k \in 1 .. Len(f) + Len(s) :
           F[k] = IF k <= Len(f) THEN f[k] ELSE s[k - Len(f)]
    BY ConcatProperties
  <2>2. Len(f) \in Nat
    BY LenProperties
  <2> QED
    BY <2>1, <2>2
<1>2. PICK g : \A h : Folds(h, f) <=> h = g
  BY DEF Replayable
<1>3. g = [k \in 0 .. n |-> IF k = 0 THEN Blank ELSE Applied(g[k - 1], f[k].event)]
  BY <1>2 DEF Folds
<1> DEFINE G == [k \in 0 .. n + 1 |-> IF k <= n THEN g[k] ELSE Applied(g[n], s[1].event)]
<1> HIDE DEF F, n
<1>4. Folds(G, F)
  <2>1. ASSUME NEW k \in 0 .. n + 1
        PROVE  G[k] = IF k = 0 THEN Blank ELSE Applied(G[k - 1], F[k].event)
    <3>1. CASE k = 0
      BY <1>1, <1>3, <3>1
    <3>2. CASE k \in 1 .. n
      BY <1>1, <1>3, <3>2
    <3>3. CASE k = n + 1
      BY <1>1, <3>3
    <3> QED
      BY <1>1, <3>1, <3>2, <3>3
  <2> QED
    BY <1>1, <2>1 DEF Folds
<1>5. ASSUME NEW h, Folds(h, F)
      PROVE  h = G
  <2>1. h = [k \in 0 .. n + 1 |-> IF k = 0 THEN Blank ELSE Applied(h[k - 1], F[k].event)]
    BY <1>1, <1>5 DEF Folds
  <2> DEFINE r == [k \in 0 .. n |-> h[k]]
  <2>2. Folds(r, f)
    <3>1. ASSUME NEW k \in 0 .. n
          PROVE  r[k] = IF k = 0 THEN Blank ELSE Applied(r[k - 1], f[k].event)
      <4>1. CASE k = 0
        BY <1>1, <2>1, <4>1
      <4>2. CASE k \in 1 .. n
        BY <1>1, <2>1, <4>2
      <4> QED
        BY <1>1, <4>1, <4>2
    <3> QED
      BY <3>1 DEF Folds, n
  <2>3. r = g
    BY <1>2, <2>2
  <2>4. \A k \in 0 .. n : h[k] = g[k]
    BY <2>3
  <2>5. h[n + 1] = Applied(g[n], s[1].event)
    <3>1. n + 1 \in 0 .. n + 1 /\ n + 1 # 0 /\ (n + 1) - 1 = n /\ n \in 0 .. n
      BY <1>1
    <3>2. h[n + 1] = Applied(h[n], F[n + 1].event)
      BY <2>1, <3>1
    <3> QED
      BY <1>1, <2>4, <3>1, <3>2
  <2>6. \A k \in 0 .. n + 1 : h[k] = G[k]
    BY <1>1, <2>4, <2>5
  <2>7. h = [k \in 0 .. n + 1 |-> h[k]]
    BY <2>1
  <2>8. G = [k \in 0 .. n + 1 |-> G[k]]
    OBVIOUS
  <2> HIDE DEF G
  <2> QED
    BY <2>6, <2>7, <2>8
<1>6. \A h : Folds(h, F) <=> h = G
  BY <1>4, <1>5
<1>7. Replay(f) = g[n] /\ Replay(F) = G[n + 1]
  BY <1>1, <1>2, <1>6, ReplayIsFold DEF n
<1>8. G[n + 1] = Applied(Replay(f), s[1].event)
  BY <1>1, <1>7
<1> HIDE DEF G
<1>9. Replayable(F)
  BY <1>6 DEF Replayable
<1> QED
  BY <1>7, <1>8, <1>9 DEF F

LEMMA ReplayStarts ==
  ASSUME NEW f \in Seq(Line), Len(f) = 0
  PROVE  Replayable(f) /\ Replay(f) = Blank
<1>1. PICK g : g = [k \in 0 .. 0 |-> Blank]
  OBVIOUS
<1>2. \A h : Folds(h, f) <=> h = g
  <2>1. ASSUME NEW h, Folds(h, f)
        PROVE  h = g
    BY <1>1, <2>1 DEF Folds
  <2>2. Folds(g, f)
    BY <1>1 DEF Folds
  <2> QED
    BY <2>1, <2>2
<1>3. Replayable(f)
  BY ONLY <1>2 DEF Replayable
<1>4. Replay(f) = g[0]
  BY <1>2, ReplayIsFold
<1> QED
  BY <1>1, <1>3, <1>4

-----------------------------------------------------------------------------
(* The invariant.                                                          *)

\* Where a controller holds the mutex; where it has the log open; where its
\* handle has raised nothing yet; where it may hold a job.
Owning == {"leased", "resolving", "recovering", "idle", "spawned", "prepared",
           "suspended", "established", "waiting", "emptying", "empty", "doubtful",
           "released", "halting", "shutdown", "restoring", "closing", "unlocking"}
Writing == Owning \ {"leased", "unlocking"}
Healthy == Writing \ {"doubtful", "halting", "shutdown", "restoring", "closing"}
Holding == {"suspended", "established", "waiting", "emptying", "empty", "doubtful"}

HostTypeOK ==
  /\ at \in [Process -> Owning \cup {"down", "leaving", "gone"}]
  /\ lease \in Process \cup {NoProcess}
  /\ prober \in [Execution -> Process \cup {NoProcess}]
  /\ holder \in [Execution -> Process \cup {NoProcess}]
  /\ root \in [Execution -> {"none", "suspended", "running"}]
  /\ others \in [Execution -> BOOLEAN]
  /\ errors \in 0 .. MaxIOErrors

Owns ==
  \A c \in Process :
    /\ at[c] \in Owning <=> lease = c
    /\ at[c] \in Writing <=> writer = c
    /\ at[c] \in Healthy => ~failed

\* What a replay leaves: one open execution, and no other with an open boundary.
Coherent(s) ==
  /\ s \in [ok: BOOLEAN, run: [Execution -> Run], boundary: [Execution -> Boundary]]
  /\ s.ok
  /\ Unreleased(s) \subseteq Open(s)
  /\ \A x, y \in Open(s) : x = y
  /\ \A x \in Execution : s.run[x] = "NONE" => s.boundary[x] = "NONE"

\* The boundary of the current execution, at every step of driving it.
Stage == [spawned |-> "NONE", prepared |-> "PREPARED", suspended |-> "PREPARED",
          established |-> "ESTABLISHED", waiting |-> "ESTABLISHED",
          emptying |-> "ESTABLISHED", empty |-> "ESTABLISHED",
          doubtful |-> "ESTABLISHED", released |-> "RELEASED"]

ViewAt(p) ==
  /\ p \in Writing \ {"resolving"} => todo = {}
  /\ p = "recovering" => Unreleased(view) = {}
  /\ p = "idle" => Open(view) = {}
  /\ p \in DOMAIN Stage => Open(view) # {} /\ view.boundary[Current] = Stage[p]

ViewFits ==
  /\ Coherent(view)
  /\ todo \subseteq Unreleased(view)
  /\ writer = NoProcess => view = Blank /\ todo = {}
  /\ \A c \in Process : ViewAt(at[c])

\* The events an owner appends on a handle that has raised: they mark nothing.
Harmless(e) == e.type \in {"RunFinished", "Unconfirmed"}

\* The next event is legal, and none ends an execution with an open boundary.
Due(s, e) ==
  /\ Legal(s, e)
  /\ e.type \in {"Finished", "Crashed"} => s.boundary[e.of] \in {"NONE", "RELEASED"}

\* A log the scan accepts replays, and the replay knows what is on record.
Recorded ==
  Contiguous(file) =>
    /\ Replayable(file) /\ Coherent(Replay(file))
    /\ \A x \in Execution :
         /\ x \in OnRecord("Prepared") <=> Replay(file).boundary[x] # "NONE"
         /\ x \in OnRecord("Released") <=> Replay(file).boundary[x] = "RELEASED"

\* The view is the replay of the log until an append raises.  Then the buffer may
\* hold one line that is due; what else is appended has the same id, and a second
\* line with it makes the scan refuse the log for good.
HandleFits ==
  writer # NoProcess =>
    \/ /\ ~failed /\ Len(unwritten) = 0
       /\ Contiguous(file) /\ lastId = Len(file) /\ view = Replay(file)
    \/ /\ failed
       /\ \A k \in 1 .. Len(unwritten) : unwritten[k].id = lastId + 1
       /\ \/ /\ Contiguous(file) /\ lastId = Len(file)
             /\ Len(unwritten) >= 1 /\ Due(Replay(file), unwritten[1].event)
             /\ \A k \in 2 .. Len(unwritten) : Harmless(unwritten[k].event)
          \/ /\ Contiguous(file) => lastId + 1 = Len(file)
             /\ \A k \in 1 .. Len(unwritten) : Harmless(unwritten[k].event)

\* A process of an engine is in a job that the controller driving it holds.
Holds ==
  /\ \A x \in Execution : Live(x) => holder[x] \in Process
  /\ \A x \in Execution : holder[x] \in Process => at[holder[x]] \in Holding /\ x = Current
  /\ \A c \in Process : at[c] = "empty" => \A x \in Execution : ~Live(x)
  /\ failed => \A x \in Execution : ~Live(x)
  /\ \A c \in Process : at[c] \in {"suspended", "established"} => holder[Current] = c

-----------------------------------------------------------------------------
(* What an event does to a replay.                                         *)

\* The state after an event that is legal.
LEMMA AppliedIs ==
  ASSUME NEW s, NEW x, NEW t, Legal(s, Event(t, x))
  PROVE  /\ t = "RunFinished" => Applied(s, Event(t, x)) = s
         /\ t \in DOMAIN RunAfter =>
              Applied(s, Event(t, x)) = [s EXCEPT !.run[x] = RunAfter[t]]
         /\ t \in DOMAIN BoundaryAfter =>
              Applied(s, Event(t, x)) = [s EXCEPT !.boundary[x] = BoundaryAfter[t]]
<1>1. /\ DOMAIN RunAfter = {"Spawned", "Finished", "Crashed"}
      /\ DOMAIN BoundaryAfter = {"Prepared", "Established", "Unconfirmed", "Released"}
  BY DEF RunAfter, BoundaryAfter
<1>2. Event(t, x).type = t /\ Event(t, x).of = x
  BY DEF Event
<1> QED
  BY <1>1, <1>2 DEF Applied

LEMMA EventTypes ==
  ASSUME NEW e \in Events
  PROVE  \/ e = Event("RunFinished", NoExecution)
         \/ \E x \in Execution : \E t \in DOMAIN RunAfter \cup DOMAIN BoundaryAfter :
              e = Event(t, x)
<1>1. /\ DOMAIN RunAfter = {"Spawned", "Finished", "Crashed"}
      /\ DOMAIN BoundaryAfter = {"Prepared", "Established", "Unconfirmed", "Released"}
  BY DEF RunAfter, BoundaryAfter
<1> QED
  BY <1>1 DEF Events

\* A due event leaves a coherent state, and touches one execution.
LEMMA DueKeeps ==
  ASSUME NEW s, Coherent(s), NEW e \in Events, Due(s, e)
  PROVE  Coherent(Applied(s, e))
<1>1. CASE e = Event("RunFinished", NoExecution)
  BY <1>1, AppliedIs DEF Due
<1>2. ASSUME NEW x \in Execution, NEW t \in DOMAIN RunAfter, e = Event(t, x)
      PROVE  Coherent(Applied(s, e))
  <2>1. t \in {"Spawned", "Finished", "Crashed"} /\ e.type = t /\ e.of = x
    BY <1>2 DEF RunAfter, Event
  <2>2. Applied(s, e) = [s EXCEPT !.run[x] = RunAfter[t]]
    BY <1>2, AppliedIs DEF Due
  <2>3. RunAfter[t] \in Run /\ RunAfter[t] # "NONE" /\ (RunAfter[t] = "EXECUTING" <=> t = "Spawned")
    BY <2>1 DEF RunAfter, Run
  <2> DEFINE r == Applied(s, e)
             new == RunAfter[t]
  <2> HIDE DEF r, new
  <2>4. /\ r \in [ok: BOOLEAN, run: [Execution -> Run], boundary: [Execution -> Boundary]]
        /\ r.ok = s.ok /\ r.boundary = s.boundary
        /\ \A y \in Execution : r.run[y] = IF y = x THEN new ELSE s.run[y]
    <3>1. r = [s EXCEPT !.run[x] = new] /\ new \in Run
      BY <2>2, <2>3 DEF r, new
    <3> QED
      BY <3>1 DEF Coherent
  <2>5. Unreleased(r) \subseteq Open(r)
    <3>1. t = "Spawned" => new = "EXECUTING"
      BY <2>3 DEF new
    <3>2. t # "Spawned" => s.boundary[x] \in {"NONE", "RELEASED"}
      BY <2>1 DEF Due
    <3> QED
      BY <2>1, <2>4, <3>1, <3>2 DEF Coherent, Unreleased, Open
  <2>6. \A y, z \in Open(r) : y = z
    <3>1. t # "Spawned" => new # "EXECUTING"
      BY <2>3 DEF new
    <3>2. t = "Spawned" => Open(s) = {}
      BY <2>1 DEF Due, Legal, Open
    <3> QED
      BY <2>1, <2>4, <3>1, <3>2 DEF Coherent, Open
  <2>7. \A y \in Execution : r.run[y] = "NONE" => r.boundary[y] = "NONE"
    BY <2>3, <2>4 DEF Coherent, new
  <2> QED
    BY <2>4, <2>5, <2>6, <2>7 DEF Coherent, r
<1>3. ASSUME NEW x \in Execution, NEW t \in DOMAIN BoundaryAfter, e = Event(t, x)
      PROVE  Coherent(Applied(s, e))
  <2>1. t \in {"Prepared", "Established", "Unconfirmed", "Released"} /\ e.type = t /\ e.of = x
    BY <1>3 DEF BoundaryAfter, Event
  <2>2. Applied(s, e) = [s EXCEPT !.boundary[x] = BoundaryAfter[t]]
    BY <1>3, AppliedIs DEF Due
  <2>3. BoundaryAfter[t] \in Boundary
    BY <2>1 DEF BoundaryAfter, Boundary
  <2>4. s.run[x] = "EXECUTING"
    BY <2>1 DEF Due, Legal
  <2> DEFINE r == Applied(s, e)
  <2>5. /\ r \in [ok: BOOLEAN, run: [Execution -> Run], boundary: [Execution -> Boundary]]
        /\ r.ok = s.ok /\ r.run = s.run
        /\ \A y \in Execution : r.boundary[y] = IF y = x THEN BoundaryAfter[t] ELSE s.boundary[y]
    BY <2>2, <2>3 DEF Coherent
  <2> HIDE DEF r
  <2>6. Unreleased(r) \subseteq Open(r)
    BY <2>4, <2>5 DEF Coherent, Unreleased, Open
  <2> QED
    BY <2>4, <2>5, <2>6 DEF Coherent, Open, r
<1> QED
  BY <1>1, <1>2, <1>3, EventTypes

\* Which boundaries a due event opens and certifies.
LEMMA DueMarks ==
  ASSUME NEW s, Coherent(s), NEW e \in Events, Due(s, e), NEW x \in Execution
  PROVE  /\ Applied(s, e).boundary[x] # "NONE"
              <=> s.boundary[x] # "NONE" \/ e = Event("Prepared", x)
         /\ Applied(s, e).boundary[x] = "RELEASED"
              <=> s.boundary[x] = "RELEASED" \/ e = Event("Released", x)
         /\ e = Event("Prepared", x) => Unreleased(s) = {}
         /\ e = Event("Released", x) => s.boundary[x] # "NONE"
         /\ Harmless(e) => e \notin {Event("Prepared", x), Event("Released", x)}
<1>1. CASE e = Event("RunFinished", NoExecution)
  <2>1. Applied(s, e) = s
    BY <1>1, AppliedIs DEF Due
  <2>2. e \notin {Event("Prepared", x), Event("Released", x)}
    BY <1>1 DEF Event
  <2> QED
    BY <2>1, <2>2
<1>2. ASSUME NEW y \in Execution, NEW t \in DOMAIN RunAfter, e = Event(t, y)
      PROVE  /\ Applied(s, e).boundary[x] = s.boundary[x]
             /\ e \notin {Event("Prepared", x), Event("Released", x)}
  <2>1. t \in {"Spawned", "Finished", "Crashed"}
    BY <1>2 DEF RunAfter
  <2>2. Applied(s, e) = [s EXCEPT !.run[y] = RunAfter[t]]
    BY <1>2, AppliedIs DEF Due
  <2> QED
    BY <1>2, <2>1, <2>2 DEF Coherent, Event
<1>3. ASSUME NEW y \in Execution, NEW t \in DOMAIN BoundaryAfter, e = Event(t, y)
      PROVE  /\ Applied(s, e).boundary[x] # "NONE"
                  <=> s.boundary[x] # "NONE" \/ e = Event("Prepared", x)
             /\ Applied(s, e).boundary[x] = "RELEASED"
                  <=> s.boundary[x] = "RELEASED" \/ e = Event("Released", x)
             /\ e = Event("Prepared", x) => Unreleased(s) = {}
             /\ e = Event("Released", x) => s.boundary[x] # "NONE"
             /\ Harmless(e) => e \notin {Event("Prepared", x), Event("Released", x)}
  <2>1. /\ t \in {"Prepared", "Established", "Unconfirmed", "Released"} /\ e.type = t /\ e.of = y
        /\ e = Event("Prepared", x) <=> t = "Prepared" /\ x = y
        /\ e = Event("Released", x) <=> t = "Released" /\ x = y
    BY <1>3 DEF BoundaryAfter, Event
  <2>2. Applied(s, e) = [s EXCEPT !.boundary[y] = BoundaryAfter[t]]
    BY <1>3, AppliedIs DEF Due
  <2>3. Applied(s, e).boundary[x] = IF x = y THEN BoundaryAfter[t] ELSE s.boundary[x]
    BY <2>2 DEF Coherent
  <2>4. BoundaryAfter[t] # "NONE" /\ (BoundaryAfter[t] = "RELEASED" <=> t = "Released")
    BY <2>1 DEF BoundaryAfter
  <2>5. /\ s.run[y] = "EXECUTING"
        /\ t = "Prepared" => s.boundary[y] = "NONE"
        /\ t # "Prepared" => s.boundary[y] \notin {"NONE", "RELEASED"}
    BY <2>1 DEF Due, Legal
  <2>6. t = "Prepared" => Unreleased(s) = {}
    BY <2>5 DEF Coherent, Unreleased, Open
  <2> QED
    BY <2>1, <2>3, <2>4, <2>5, <2>6 DEF Harmless
<1> QED
  BY <1>1, <1>2, <1>3, EventTypes

-----------------------------------------------------------------------------
(* What is written behind the file.                                        *)

\* Lines that may follow the file: none; or one that is due, and behind it others
\* with the same id; or lines the scan refuses.
Following(part) ==
  /\ part \in Seq(Line)
  /\ \/ Len(part) = 0
     \/ /\ Contiguous(file)
        /\ Len(part) >= 1 /\ part[1].id = Len(file) + 1 /\ Due(Replay(file), part[1].event)
        /\ \A k \in 2 .. Len(part) : part[k].id = Len(file) + 1 /\ Harmless(part[k].event)
     \/ /\ Len(part) >= 1 /\ (Contiguous(file) => part[1].id # Len(file) + 1)
        /\ \A k \in 1 .. Len(part) : Harmless(part[k].event)

\* What that does to the records: nothing, or it opens or certifies one boundary.
Marks(part) ==
  \/ UNCHANGED <<OnRecord("Prepared"), OnRecord("Released")>>
  \/ \E x \in Execution :
       \/ /\ Len(part) >= 1 /\ part[1].event = Event("Prepared", x)
          /\ OnRecord("Prepared") \subseteq OnRecord("Released")
          /\ OnRecord("Prepared")' = OnRecord("Prepared") \cup {x}
          /\ OnRecord("Released")' = OnRecord("Released")
       \/ /\ Len(part) >= 1 /\ part[1].event = Event("Released", x)
          /\ x \in OnRecord("Prepared")
          /\ OnRecord("Released")' = OnRecord("Released") \cup {x}
          /\ OnRecord("Prepared")' = OnRecord("Prepared")

LEMMA Concatenated ==
  ASSUME NEW f \in Seq(Line), NEW s \in Seq(Line)
  PROVE  /\ f \o s \in Seq(Line) /\ Len(f) \in Nat /\ Len(s) \in Nat
         /\ Len(f \o s) = Len(f) + Len(s)
         /\ DOMAIN (f \o s) = 1 .. Len(f) + Len(s) /\ DOMAIN f = 1 .. Len(f)
         /\ \A k \in 1 .. Len(f) : (f \o s)[k] = f[k]
         /\ \A k \in 1 .. Len(s) : (f \o s)[Len(f) + k] = s[k]
<1>1. Len(f) \in Nat /\ Len(s) \in Nat
  BY LenProperties
<1>2. /\ f \o s \in Seq(Line) /\ Len(f \o s) = Len(f) + Len(s)
      /\ \A k \in 1 .. Len(f) + Len(s) :
           (f \o s)[k] = IF k <= Len(f) THEN f[k] ELSE s[k - Len(f)]
  BY ConcatProperties
<1>3. DOMAIN (f \o s) = 1 .. Len(f) + Len(s) /\ DOMAIN f = 1 .. Len(f)
  BY <1>2, LenProperties
<1>4. \A k \in 1 .. Len(f) : (f \o s)[k] = f[k]
  BY <1>1, <1>2
<1>5. ASSUME NEW k \in 1 .. Len(s)
      PROVE  (f \o s)[Len(f) + k] = s[k]
  <2>1. Len(f) + k \in 1 .. Len(f) + Len(s) /\ ~(Len(f) + k <= Len(f))
        /\ (Len(f) + k) - Len(f) = k
    BY <1>1
  <2> QED
    BY <1>2, <2>1
<1> QED
  BY <1>1, <1>2, <1>3, <1>4, <1>5

\* An event is on record when it was before or is in what is added.
LEMMA RecordsAdded ==
  ASSUME file \in Seq(Line), NEW part \in Seq(Line), file' = file \o part, NEW t
  PROVE  OnRecord(t)' = OnRecord(t) \cup
           {x \in Execution : \E k \in 1 .. Len(part) : part[k].event = Event(t, x)}
<1>1. /\ Len(file) \in Nat /\ Len(part) \in Nat
      /\ DOMAIN file' = 1 .. Len(file) + Len(part) /\ DOMAIN file = 1 .. Len(file)
      /\ \A k \in 1 .. Len(file) : file'[k] = file[k]
      /\ \A k \in 1 .. Len(part) : file'[Len(file) + k] = part[k]
  BY Concatenated
<1>2. ASSUME NEW x \in Execution, x \in OnRecord(t)'
      PROVE  \/ x \in OnRecord(t)
             \/ \E k \in 1 .. Len(part) : part[k].event = Event(t, x)
  <2>1. PICK k \in DOMAIN file' : file'[k].event = Event(t, x)
    BY <1>2 DEF OnRecord
  <2>2. CASE k \in 1 .. Len(file)
    BY <1>1, <2>1, <2>2 DEF OnRecord
  <2>3. CASE k - Len(file) \in 1 .. Len(part)
    <3>1. Len(file) + (k - Len(file)) = k
      BY <1>1, <2>1
    <3> QED
      BY <1>1, <2>1, <2>3, <3>1
  <2> QED
    BY <1>1, <2>1, <2>2, <2>3
<1>3. ASSUME NEW x \in Execution,
             \/ x \in OnRecord(t)
             \/ \E k \in 1 .. Len(part) : part[k].event = Event(t, x)
      PROVE  x \in OnRecord(t)'
  <2>1. CASE x \in OnRecord(t)
    <3>1. PICK k \in DOMAIN file : file[k].event = Event(t, x)
      BY <2>1 DEF OnRecord
    <3>2. k \in DOMAIN file' /\ file'[k] = file[k]
      BY <1>1, <3>1
    <3> QED
      BY <3>1, <3>2 DEF OnRecord
  <2>2. ASSUME NEW k \in 1 .. Len(part), part[k].event = Event(t, x)
        PROVE  x \in OnRecord(t)'
    <3>1. Len(file) + k \in DOMAIN file' /\ file'[Len(file) + k] = part[k]
      BY <1>1
    <3> QED
      BY <2>2, <3>1 DEF OnRecord
  <2> QED
    BY <1>3, <2>1, <2>2
<1> QED
  BY <1>2, <1>3 DEF OnRecord

\* When the scan accepts the file with what is added, that is nothing or one line.
LEMMA Accepted ==
  ASSUME file \in Seq(Line), NEW part, Following(part), file' = file \o part,
         Contiguous(file')
  PROVE  /\ Contiguous(file)
         /\ \/ Len(part) = 0
            \/ Len(part) = 1 /\ part[1].id = Len(file) + 1 /\ Due(Replay(file), part[1].event)
<1>1. /\ Len(file) \in Nat /\ Len(part) \in Nat
      /\ DOMAIN file' = 1 .. Len(file) + Len(part) /\ DOMAIN file = 1 .. Len(file)
      /\ \A k \in 1 .. Len(file) : file'[k] = file[k]
      /\ \A k \in 1 .. Len(part) : file'[Len(file) + k] = part[k]
  BY Concatenated DEF Following
<1>2. Contiguous(file)
  BY <1>1 DEF Contiguous
<1>3. \A k \in 1 .. Len(part) : part[k].id = Len(file) + k
  <2> SUFFICES ASSUME NEW k \in 1 .. Len(part)
               PROVE  part[k].id = Len(file) + k
    OBVIOUS
  <2>1. Len(file) + k \in DOMAIN file'
    BY <1>1
  <2> QED
    BY <1>1, <2>1 DEF Contiguous
<1>4. CASE Len(part) >= 2
  <2>1. part[1].id = Len(file) + 1 /\ part[2].id = Len(file) + 2
    BY <1>1, <1>3, <1>4
  <2>2. part[2].id = Len(file) + 1
    <3>1. 2 \in 2 .. Len(part) /\ Len(part) # 0
      BY <1>1, <1>4
    <3> QED
      BY <1>2, <2>1, <3>1 DEF Following
  <2> QED
    BY <1>1, <2>1, <2>2
<1>5. CASE Len(part) = 1
  <2>1. part[1].id = Len(file) + 1
    BY <1>3, <1>5
  <2> QED
    BY <1>2, <1>5, <2>1 DEF Following
<1>6. CASE Len(part) = 0
  BY <1>2, <1>6
<1>7. Len(part) = 0 \/ Len(part) = 1 \/ Len(part) >= 2
  <2>1. Len(part) \in Nat
    BY <1>1
  <2> QED
    BY ONLY <2>1
<1> QED
  BY <1>4, <1>5, <1>6, <1>7

\* A log that replays still does, and one boundary is marked at most.
LEMMA StillRecorded ==
  ASSUME file \in Seq(Line), Recorded, NEW part, Following(part), file' = file \o part
  PROVE  Recorded' /\ Marks(part)
<1>0. part \in Seq(Line) /\ Len(part) \in Nat
  BY LenProperties DEF Following
<1>1. \A t : OnRecord(t)' = OnRecord(t) \cup
               {x \in Execution : \E k \in 1 .. Len(part) : part[k].event = Event(t, x)}
  BY <1>0, RecordsAdded
<1>2. \A k \in 1 .. Len(part) : part[k] \in Line /\ part[k].event \in Events
  <2> SUFFICES ASSUME NEW k \in 1 .. Len(part)
               PROVE  part[k] \in Line /\ part[k].event \in Events
    OBVIOUS
  <2>1. part[k] \in Line
    BY <1>0, ElementOfSeq
  <2> QED
    BY <2>1, EventAssumption DEF Line
<1>3. \A k \in 1 .. Len(part), x \in Execution :
        Harmless(part[k].event) => part[k].event \notin {Event("Prepared", x), Event("Released", x)}
  BY DEF Harmless, Event
<1>4. Marks(part)
  <2>1. CASE \A k \in 1 .. Len(part) : Harmless(part[k].event)
    <3>1. \A t \in {"Prepared", "Released"} : OnRecord(t)' = OnRecord(t)
      BY <1>1, <1>3, <2>1
    <3> QED
      BY <3>1 DEF Marks
  <2>2. CASE Len(part) = 0
    <3>1. \A k \in 1 .. Len(part) : FALSE
      BY <2>2
    <3>2. \A t \in {"Prepared", "Released"} : OnRecord(t)' = OnRecord(t)
      BY <1>1, <3>1
    <3> QED
      BY <3>2 DEF Marks
  <2>3. CASE /\ Contiguous(file) /\ Len(part) >= 1 /\ Due(Replay(file), part[1].event)
             /\ \A k \in 2 .. Len(part) : Harmless(part[k].event)
    <3> DEFINE e == part[1].event
    <3>1. e \in Events /\ Coherent(Replay(file)) /\ Due(Replay(file), e)
      BY <1>0, <1>2, <2>3 DEF Recorded
    <3>2. \A t, x : (\E k \in 1 .. Len(part) : part[k].event = Event(t, x))
                      <=> e = Event(t, x) \/ (\E k \in 2 .. Len(part) : part[k].event = Event(t, x))
      BY <1>0, <2>3
    <3>3. \A x \in Execution :
            /\ (\E k \in 1 .. Len(part) : part[k].event = Event("Prepared", x))
                  <=> e = Event("Prepared", x)
            /\ (\E k \in 1 .. Len(part) : part[k].event = Event("Released", x))
                  <=> e = Event("Released", x)
      BY <1>0, <1>3, <2>3, <3>2
    <3> HIDE DEF e
    <3>4. /\ OnRecord("Prepared")' = OnRecord("Prepared") \cup {x \in Execution : e = Event("Prepared", x)}
          /\ OnRecord("Released")' = OnRecord("Released") \cup {x \in Execution : e = Event("Released", x)}
      BY <1>1, <3>3
    <3>5. \A x, y : /\ Event("Prepared", x) # Event("Released", y)
                    /\ Event("Prepared", x) = Event("Prepared", y) => x = y
                    /\ Event("Released", x) = Event("Released", y) => x = y
      BY DEF Event
    <3>6. ASSUME NEW x \in Execution, e = Event("Prepared", x)
          PROVE  Marks(part)
      <4>1. Unreleased(Replay(file)) = {}
        BY <3>1, <3>6, DueMarks
      <4>2. OnRecord("Prepared") \subseteq OnRecord("Released")
        BY <2>3, <4>1 DEF Recorded, Unreleased, OnRecord
      <4>3. /\ OnRecord("Prepared")' = OnRecord("Prepared") \cup {x}
            /\ OnRecord("Released")' = OnRecord("Released")
        BY <3>4, <3>5, <3>6
      <4>4. part[1].event = Event("Prepared", x)
        BY <3>6 DEF e
      <4> QED
        BY <2>3, <4>2, <4>3, <4>4 DEF Marks
    <3>7. ASSUME NEW x \in Execution, e = Event("Released", x)
          PROVE  Marks(part)
      <4>1. Replay(file).boundary[x] # "NONE"
        BY <3>1, <3>7, DueMarks
      <4>2. x \in OnRecord("Prepared")
        BY <2>3, <4>1 DEF Recorded
      <4>3. /\ OnRecord("Prepared")' = OnRecord("Prepared")
            /\ OnRecord("Released")' = OnRecord("Released") \cup {x}
        BY <3>4, <3>5, <3>7
      <4>4. part[1].event = Event("Released", x)
        BY <3>7 DEF e
      <4> QED
        BY <2>3, <4>2, <4>3, <4>4 DEF Marks
    <3> QED
      BY <3>4, <3>6, <3>7 DEF Marks
  <2> QED
    BY <2>1, <2>2, <2>3 DEF Following
<1>5. ASSUME Contiguous(file')
      PROVE  Recorded'
  <2>1. Contiguous(file)
    BY <1>5, Accepted
  <2>2. CASE Len(part) = 0
    <3>1. file' = file
      BY <1>0, <2>2, AddNothing
    <3>2. UNCHANGED <<OnRecord("Prepared"), OnRecord("Released"), Replay(file)>>
      BY <3>1 DEF OnRecord
    <3> QED
      BY <2>1, <3>1, <3>2 DEF Recorded
  <2>3. CASE Len(part) = 1 /\ Due(Replay(file), part[1].event)
    <3> DEFINE e == part[1].event
               s == Replay(file)
    <3>1. /\ Replayable(file') /\ Replay(file') = Applied(s, e)
          /\ e \in Events /\ Coherent(s)
      BY <1>0, <1>2, <2>1, <2>3, ReplayGrows DEF Recorded
    <3>2. Coherent(Applied(s, e))
      BY <2>3, <3>1, DueKeeps
    <3>3. ASSUME NEW x \in Execution
          PROVE  /\ x \in OnRecord("Prepared")' <=> Applied(s, e).boundary[x] # "NONE"
                 /\ x \in OnRecord("Released")' <=> Applied(s, e).boundary[x] = "RELEASED"
      <4>1. /\ x \in OnRecord("Prepared")' <=> x \in OnRecord("Prepared") \/ e = Event("Prepared", x)
            /\ x \in OnRecord("Released")' <=> x \in OnRecord("Released") \/ e = Event("Released", x)
        BY <1>1, <2>3
      <4>2. /\ x \in OnRecord("Prepared") <=> s.boundary[x] # "NONE"
            /\ x \in OnRecord("Released") <=> s.boundary[x] = "RELEASED"
        BY <2>1 DEF Recorded
      <4>3. /\ Applied(s, e).boundary[x] # "NONE" <=> s.boundary[x] # "NONE" \/ e = Event("Prepared", x)
            /\ Applied(s, e).boundary[x] = "RELEASED" <=> s.boundary[x] = "RELEASED" \/ e = Event("Released", x)
        BY <2>3, <3>1, DueMarks
      <4> HIDE DEF e, s
      <4> QED
        BY <4>1, <4>2, <4>3
    <3> HIDE DEF e, s
    <3> QED
      BY <3>1, <3>2, <3>3 DEF Recorded
  <2> QED
    BY <1>5, <2>2, <2>3, Accepted
<1>6. Recorded'
  BY <1>5 DEF Recorded
<1> QED
  BY <1>4, <1>6

-----------------------------------------------------------------------------
(* The steps of the log.                                                   *)

\* The owner may emit e: it is due, and harmless on a handle that has raised.
Emittable(e) == e \in Events /\ Due(view, e) /\ (failed => Harmless(e))

\* A line it has not got rid of, or one that marks a boundary, may reach the file.
Marked(e) ==
  \/ UNCHANGED <<OnRecord("Prepared"), OnRecord("Released")>>
  \/ /\ failed \/ e.type \in {"Prepared", "Released"}
     /\ \E x \in Execution :
          \/ /\ OnRecord("Prepared") \subseteq OnRecord("Released")
             /\ OnRecord("Prepared")' = OnRecord("Prepared") \cup {x}
             /\ OnRecord("Released")' = OnRecord("Released")
          \/ /\ x \in OnRecord("Prepared")
             /\ OnRecord("Released")' = OnRecord("Released") \cup {x}
             /\ OnRecord("Prepared")' = OnRecord("Prepared")

LEMMA PrefixFollows ==
  ASSUME NEW part, Following(part), NEW k \in 0 .. Len(part)
  PROVE  /\ Following(SubSeq(part, 1, k)) /\ Len(SubSeq(part, 1, k)) = k
         /\ k >= 1 => SubSeq(part, 1, k)[1] = part[1]
<1>0. part \in Seq(Line) /\ Len(part) \in Nat
  BY LenProperties DEF Following
<1> DEFINE s == SubSeq(part, 1, k)
<1>1. s \in Seq(Line) /\ Len(s) = k /\ \A j \in 1 .. k : s[j] = part[j]
  <2>1. CASE k = 0
    <3>1. s = <<>>
      BY <1>0, <2>1, SubSeqEmpty
    <3> QED
      BY <2>1, <3>1, EmptySeq
  <2>2. CASE k \in 1 .. Len(part)
    <3>1. \A j \in 1 .. k : part[j] \in Line
      BY <1>0, <2>2, ElementOfSeq
    <3> QED
      BY <1>0, <2>2, <3>1, SubSeqProperties
  <2> QED
    BY <1>0, <2>1, <2>2
<1> HIDE DEF s
<1>2. k = 0 \/ k >= 1
  BY <1>0
<1>3. \A j \in 1 .. k : j \in 1 .. Len(part)
  BY <1>0
<1>4. k >= 1 => Len(part) >= 1 /\ Len(part) # 0 /\ 1 \in 1 .. k
  BY <1>0
<1>5. \A j \in 2 .. k : j \in 2 .. Len(part) /\ j \in 1 .. k
  BY <1>0
<1>6. Following(s)
  BY <1>1, <1>2, <1>3, <1>4, <1>5 DEF Following
<1> QED
  BY <1>1, <1>4, <1>6 DEF s

\* What the buffer holds may follow the file, and so may the next line behind it.
LEMMA UnwrittenFollows ==
  ASSUME LogTypeOK, HandleFits, writer # NoProcess
  PROVE  Following(unwritten) /\ (Len(unwritten) >= 1 => failed)
<1>1. unwritten \in Seq(Line) /\ Len(unwritten) \in Nat /\ Len(file) \in Nat
  BY LenProperties DEF LogTypeOK
<1>2. CASE ~failed
  BY <1>1, <1>2 DEF HandleFits, Following
<1>3. CASE failed /\ Contiguous(file) /\ lastId = Len(file)
  BY <1>1, <1>3 DEF HandleFits, Following
<1>4. CASE failed /\ ~(Contiguous(file) /\ lastId = Len(file))
  <2>1. /\ Contiguous(file) => lastId + 1 # Len(file) + 1
        /\ \A k \in 1 .. Len(unwritten) : Harmless(unwritten[k].event)
        /\ \A k \in 1 .. Len(unwritten) : unwritten[k].id = lastId + 1
    BY <1>1, <1>4 DEF HandleFits, LogTypeOK
  <2>2. Len(unwritten) = 0 \/ (Len(unwritten) >= 1 /\ 1 \in 1 .. Len(unwritten))
    BY <1>1
  <2> QED
    BY <1>1, <1>4, <2>1, <2>2 DEF Following
<1> QED
  BY <1>2, <1>3, <1>4

LEMMA PendingFollows ==
  ASSUME LogTypeOK, HandleFits, writer # NoProcess, NEW e, Emittable(e)
  PROVE  /\ Following(Pending(e)) /\ Len(Pending(e)) = Len(unwritten) + 1
         /\ \A k \in 1 .. Len(Pending(e)) : Pending(e)[k].id = lastId + 1
         /\ ~failed => Len(Pending(e)) = 1 /\ Pending(e)[1].event = e
<1>1. unwritten \in Seq(Line) /\ Len(unwritten) \in Nat /\ Len(file) \in Nat /\ lastId \in Nat
  BY LenProperties DEF LogTypeOK
<1>2. /\ Pending(e) \in Seq(Line) /\ Len(Pending(e)) = Len(unwritten) + 1
      /\ \A k \in 1 .. Len(unwritten) : Pending(e)[k] = unwritten[k]
      /\ Pending(e)[Len(unwritten) + 1].id = lastId + 1
      /\ Pending(e)[Len(unwritten) + 1].event = e
  <2>1. e \in LogEvent /\ NextLine(e).event = e
    BY EventAssumption DEF Emittable, NextLine
  <2> QED
    BY <2>1, PendingLines
<1>3. \A k \in 1 .. Len(Pending(e)) : k \in 1 .. Len(unwritten) \/ k = Len(unwritten) + 1
  BY <1>1, <1>2
<1>4. \A k \in 1 .. Len(Pending(e)) : Pending(e)[k].id = lastId + 1
  BY <1>1, <1>2, <1>3 DEF HandleFits
<1>5. Len(Pending(e)) >= 1 /\ Len(Pending(e)) # 0 /\ 1 \in 1 .. Len(Pending(e))
  BY <1>1, <1>2
<1>6. \A k \in 2 .. Len(Pending(e)) : k \in 2 .. Len(unwritten) \/ k = Len(unwritten) + 1
  BY <1>1, <1>2
<1>7. CASE ~failed
  <2>1. Len(unwritten) = 0 /\ Contiguous(file) /\ lastId = Len(file) /\ Due(Replay(file), e)
    BY <1>7 DEF HandleFits, Emittable
  <2>2. Len(Pending(e)) = 1 /\ Pending(e)[1].event = e /\ Pending(e)[1].id = Len(file) + 1
    BY <1>2, <1>5, <1>4, <2>1
  <2>3. \A k \in 2 .. Len(Pending(e)) : FALSE
    BY <2>2
  <2> QED
    BY <1>2, <1>4, <1>5, <2>1, <2>2, <2>3 DEF Following
<1>8. CASE failed /\ Contiguous(file) /\ lastId = Len(file)
  <2>1. /\ Len(unwritten) >= 1 /\ Due(Replay(file), unwritten[1].event)
        /\ \A k \in 2 .. Len(unwritten) : Harmless(unwritten[k].event)
    BY <1>1, <1>8 DEF HandleFits
  <2>2. Pending(e)[1] = unwritten[1]
    BY <1>1, <1>2, <2>1
  <2>3. \A k \in 2 .. Len(Pending(e)) : Harmless(Pending(e)[k].event) /\ k \in 1 .. Len(Pending(e))
    <3>1. \A k \in 2 .. Len(unwritten) : Pending(e)[k] = unwritten[k]
      BY <1>1, <1>2
    <3> QED
      BY <1>1, <1>2, <1>6, <1>8, <2>1, <3>1 DEF Emittable
  <2> QED
    BY <1>2, <1>4, <1>5, <1>8, <2>1, <2>2, <2>3 DEF Following
<1>9. CASE failed /\ ~(Contiguous(file) /\ lastId = Len(file))
  <2>1. /\ Contiguous(file) => lastId + 1 # Len(file) + 1
        /\ \A k \in 1 .. Len(unwritten) : Harmless(unwritten[k].event)
    BY <1>1, <1>9 DEF HandleFits
  <2>2. \A k \in 1 .. Len(Pending(e)) : Harmless(Pending(e)[k].event)
    BY <1>2, <1>3, <1>9, <2>1 DEF Emittable
  <2> QED
    BY <1>2, <1>4, <1>5, <1>9, <2>1, <2>2 DEF Following
<1> QED
  BY <1>7, <1>8, <1>9

\* What the files' lines may be, the file's own types, and the view between them.
LEMMA LineTypes ==
  ASSUME LogTypeOK
  PROVE  /\ file \in Seq(Line) /\ unwritten \in Seq(Line) /\ lastId \in Nat
         /\ Len(file) \in Nat /\ Len(unwritten) \in Nat
BY LenProperties DEF LogTypeOK

LEMMA FileKept ==
  ASSUME UNCHANGED file
  PROVE  /\ UNCHANGED <<OnRecord("Prepared"), OnRecord("Released"), Replay(file)>>
         /\ Recorded => Recorded'
<1>1. UNCHANGED <<OnRecord("Prepared"), OnRecord("Released"), Replay(file), Contiguous(file)>>
  BY DEF OnRecord
<1> QED
  BY <1>1 DEF Recorded

\* Of the lines behind the file, only the first marks a boundary.
LEMMA MarksOfPending ==
  ASSUME LogTypeOK, HandleFits, writer # NoProcess, NEW e, Emittable(e),
         NEW k \in 0 .. Len(Pending(e)), Marks(SubSeq(Pending(e), 1, k))
  PROVE  Marked(e)
<1>1. /\ Len(SubSeq(Pending(e), 1, k)) = k
      /\ k >= 1 => SubSeq(Pending(e), 1, k)[1] = Pending(e)[1]
  BY PendingFollows, PrefixFollows
<1>2. ~failed => Pending(e)[1].event = e
  BY PendingFollows
<1>3. \A x : Event("Prepared", x).type = "Prepared" /\ Event("Released", x).type = "Released"
  BY DEF Event
<1> QED
  BY <1>1, <1>2, <1>3 DEF Marks, Marked

LEMMA AppendFits ==
  ASSUME LogTypeOK, Recorded, HandleFits, writer # NoProcess, NEW e, Emittable(e),
         AppendEvent(e), view' = Applied(view, e)
  PROVE  Recorded' /\ HandleFits' /\ Marked(e)
<1>0. /\ Following(Pending(e)) /\ Len(Pending(e)) = Len(unwritten) + 1
      /\ \A k \in 1 .. Len(Pending(e)) : Pending(e)[k].id = lastId + 1
      /\ ~failed => Len(Pending(e)) = 1 /\ Pending(e)[1].event = e
  BY PendingFollows
<1>a. Len(Pending(e)) # 0 /\ 1 \in 1 .. Len(Pending(e)) /\ Pending(e)[1].id = lastId + 1
  <2>1. Len(Pending(e)) \in Nat \ {0}
    BY <1>0, LineTypes
  <2>2. 1 \in 1 .. Len(Pending(e))
    BY <2>1
  <2> QED
    BY <1>0, <2>1, <2>2
<1>1. /\ file' = file \o Pending(e) /\ lastId' = lastId + 1 /\ unwritten' = <<>>
      /\ UNCHANGED failed /\ Len(unwritten') = 0
  BY NoLine DEF AppendEvent
<1>2. Recorded' /\ Marks(Pending(e))
  BY <1>0, <1>1, LineTypes, StillRecorded
<1>3. Marked(e)
  <2>1. \A x : Event("Prepared", x).type = "Prepared" /\ Event("Released", x).type = "Released"
    BY DEF Event
  <2> QED
    BY <1>0, <1>2, <2>1 DEF Marks, Marked
<1>4. HandleFits'
  <2>1. CASE ~failed
    <3>1. Contiguous(file) /\ lastId = Len(file) /\ view = Replay(file)
      BY <2>1 DEF HandleFits
    <3>2. Pending(e) \in Seq(Line) /\ 1 \in 1 .. Len(Pending(e))
      BY <1>0, <2>1 DEF Following
    <3>3. Contiguous(file') /\ Len(file') = Len(file) + 1
      BY <1>0, <1>1, <2>1, <3>1, <3>2, LineTypes, AddOne
    <3>4. Replay(file') = Applied(view, e)
      BY <1>0, <1>1, <2>1, <3>1, <3>2, LineTypes, ReplayGrows DEF Recorded
    <3> QED
      BY <1>1, <2>1, <3>1, <3>3, <3>4 DEF HandleFits
  <2>2. CASE failed
    <3>1. ASSUME Contiguous(file')
          PROVE  FALSE
      <4>1. /\ Contiguous(file) /\ Len(Pending(e)) = 1
            /\ Pending(e)[1].id = Len(file) + 1
        BY <1>0, <1>a, <1>1, <3>1, LineTypes, Accepted
      <4>2. Len(unwritten) = 0
        <5>1. Len(unwritten) + 1 = 1 /\ Len(unwritten) \in Nat
          BY <1>0, <4>1, LineTypes
        <5> QED
          BY ONLY <5>1
      <4>3. lastId = Len(file)
        <5>1. lastId + 1 = Len(file) + 1 /\ lastId \in Nat /\ Len(file) \in Nat
          BY <1>a, <4>1, LineTypes
        <5> QED
          BY ONLY <5>1
      <4> QED
        BY <2>2, <4>1, <4>2, <4>3, LineTypes DEF HandleFits
    <3>2. \A k \in 1 .. Len(unwritten') : FALSE
      BY <1>1
    <3> QED
      BY <1>1, <2>2, <3>1, <3>2 DEF HandleFits
  <2> QED
    BY <2>1, <2>2
<1> QED
  BY <1>2, <1>3, <1>4

LEMMA RaiseFits ==
  ASSUME LogTypeOK, Recorded, HandleFits, writer # NoProcess, NEW e, Emittable(e),
         AppendRaises(e), UNCHANGED view
  PROVE  Recorded' /\ HandleFits' /\ Marked(e) /\ failed'
<1>0. /\ Following(Pending(e)) /\ Len(Pending(e)) = Len(unwritten) + 1
      /\ \A k \in 1 .. Len(Pending(e)) : Pending(e)[k].id = lastId + 1
      /\ ~failed => Len(Pending(e)) = 1 /\ Pending(e)[1].event = e
  BY PendingFollows
<1>a. Len(Pending(e)) # 0 /\ 1 \in 1 .. Len(Pending(e)) /\ Pending(e)[1].id = lastId + 1
  <2>1. Len(Pending(e)) \in Nat \ {0}
    BY <1>0, LineTypes
  <2>2. 1 \in 1 .. Len(Pending(e))
    BY <2>1
  <2> QED
    BY <1>0, <2>1, <2>2
<1>1. CASE AppendUnflushed(e)
  <2>1. UNCHANGED <<file, writer, lastId>> /\ unwritten' = Pending(e) /\ failed'
    BY <1>1 DEF AppendUnflushed
  <2>2. UNCHANGED <<Replay(file), Contiguous(file)>>
    BY <2>1, FileKept
  <2>3. Recorded' /\ Marked(e)
    BY <2>1, FileKept DEF Marked
  <2>4. \A k \in 1 .. Len(unwritten') : unwritten'[k].id = lastId' + 1
    BY <1>0, <2>1
  <2>5. CASE Len(Pending(e)) = 0
    BY <1>0, <2>5, LineTypes
  <2>6. CASE Contiguous(file) /\ Pending(e)[1].id = Len(file) + 1
    <3>1. lastId = Len(file) /\ Len(Pending(e)) >= 1
      BY <1>0, <2>6, LineTypes
    <3>2. /\ Due(Replay(file), Pending(e)[1].event)
          /\ \A k \in 2 .. Len(Pending(e)) : Harmless(Pending(e)[k].event)
      BY <1>0, <2>6, <3>1 DEF Following
    <3> QED
      BY <2>1, <2>2, <2>3, <2>4, <2>6, <3>1, <3>2 DEF HandleFits
  <2>7. CASE ~(Contiguous(file) /\ Pending(e)[1].id = Len(file) + 1) /\ Len(Pending(e)) # 0
    <3>1. \A k \in 1 .. Len(Pending(e)) : Harmless(Pending(e)[k].event)
      BY <1>0, <2>7 DEF Following
    <3>2. Contiguous(file) => lastId + 1 = Len(file)
      <4>1. ASSUME Contiguous(file)
            PROVE  lastId # Len(file)
        BY <1>0, <1>a, <2>7, <4>1, LineTypes
      <4> QED
        BY <4>1 DEF HandleFits
    <3> QED
      BY <2>1, <2>2, <2>3, <2>4, <3>1, <3>2 DEF HandleFits
  <2> QED
    BY <2>5, <2>6, <2>7
<1>2. CASE AppendUnsynced(e)
  <2>1. /\ file' = file \o Pending(e) /\ Len(unwritten') = 0 /\ failed'
        /\ UNCHANGED <<writer, lastId>>
    BY <1>2, NoLine DEF AppendUnsynced
  <2>2. Recorded' /\ Marks(Pending(e))
    BY <1>0, <2>1, LineTypes, StillRecorded
  <2>3. Marked(e)
    <3>1. \A x : Event("Prepared", x).type = "Prepared" /\ Event("Released", x).type = "Released"
      BY DEF Event
    <3> QED
      BY <1>0, <2>2, <3>1 DEF Marks, Marked
  <2>4. ASSUME Contiguous(file')
        PROVE  lastId' + 1 = Len(file')
    <3>1. Len(Pending(e)) = 1 /\ Pending(e)[1].id = Len(file) + 1
      BY <1>0, <1>a, <2>1, <2>4, LineTypes, Accepted
    <3>2. Len(file') = Len(file) + 1
      BY <1>0, <2>1, <3>1, LineTypes, Concatenated DEF Following
    <3> QED
      BY <1>0, <2>1, <3>1, <3>2
  <2>5. \A k \in 1 .. Len(unwritten') : FALSE
    BY <2>1
  <2> QED
    BY <2>1, <2>2, <2>3, <2>4, <2>5 DEF HandleFits
<1> QED
  BY <1>1, <1>2 DEF AppendRaises

\* The owner dies inside the append, or closes the log.
LEMMA DeathFits ==
  ASSUME LogTypeOK, Recorded, HandleFits, writer # NoProcess, NEW e, Emittable(e),
         DieAppending(e)
  PROVE  Recorded' /\ HandleFits' /\ Marked(e)
<1>1. PICK k \in 0 .. Len(Pending(e)) : file' = file \o SubSeq(Pending(e), 1, k)
  BY DEF DieAppending
<1>2. Following(SubSeq(Pending(e), 1, k))
  BY PendingFollows, PrefixFollows
<1>3. Recorded' /\ Marks(SubSeq(Pending(e), 1, k))
  BY <1>1, <1>2, LineTypes, StillRecorded
<1>4. Marked(e)
  BY <1>3, MarksOfPending
<1>5. HandleFits'
  BY DEF DieAppending, HandleLost, HandleFits
<1> QED
  BY <1>3, <1>4, <1>5

LEMMA ClosingFits ==
  ASSUME LogTypeOK, Recorded, HandleFits, writer # NoProcess, CloseLog
  PROVE  Recorded' /\ HandleFits' /\ Marked(Event("RunFinished", NoExecution))
<1>1. HandleFits'
  BY DEF CloseLog, HandleFits
<1>2. Following(unwritten) /\ (Len(unwritten) >= 1 => failed)
  BY UnwrittenFollows
<1>3. CASE file' = file \o unwritten
  <2>1. Recorded' /\ Marks(unwritten)
    BY <1>2, <1>3, LineTypes, StillRecorded
  <2> QED
    BY <1>1, <1>2, <2>1 DEF Marks, Marked
<1>4. CASE UNCHANGED file
  BY <1>1, <1>4, FileKept DEF Marked
<1> QED
  BY <1>3, <1>4 DEF CloseLog

-----------------------------------------------------------------------------
(* The owner.                                                              *)

Inv == LogInv /\ HostTypeOK /\ Owns /\ ViewFits /\ Recorded /\ HandleFits /\ Holds

CurrentOf(s) == IF Open(s) = {} THEN NoExecution ELSE CHOOSE x \in Open(s) : TRUE

LEMMA CurrentIs ==
  ASSUME NEW s, Coherent(s)
  PROVE  /\ Open(s) # {} => CurrentOf(s) \in Execution /\ s.run[CurrentOf(s)] = "EXECUTING"
         /\ \A x \in Open(s) : x = CurrentOf(s)
BY DEF CurrentOf, Open, Coherent

LEMMA CurrentOfView ==
  Current = CurrentOf(view) /\ Current' = CurrentOf(view')
BY DEF Current, CurrentOf

\* The stages are steps of the owner, with an execution it drives.
LEMMA Stages ==
  /\ DOMAIN Stage = {"spawned", "prepared", "suspended", "established", "waiting",
                     "emptying", "empty", "doubtful", "released"}
  /\ Stage["spawned"] = "NONE" /\ Stage["prepared"] = "PREPARED"
  /\ Stage["suspended"] = "PREPARED" /\ Stage["released"] = "RELEASED"
  /\ \A p \in {"established", "waiting", "emptying", "empty", "doubtful"} :
       Stage[p] = "ESTABLISHED"
BY DEF Stage

LEMMA Alone ==
  ASSUME Owns, NEW c \in Process, NEW d \in Process, at[c] \in Owning, at[d] \in Owning
  PROVE  c = d
BY DEF Owns

\* Who writes is somebody, and the only one.
LEMMA Writer ==
  ASSUME Owns, NEW c \in Process, at[c] \in Writing
  PROVE  writer = c /\ lease = c /\ writer # NoProcess /\ at[c] \in Owning
BY LogAssumption DEF Owns, Writing

\* Where nothing is held nothing is alive.
LEMMA NoneLive ==
  ASSUME Owns, Holds, NEW c \in Process, at[c] \in Owning \ Holding
  PROVE  /\ \A x \in Execution : ~Live(x)
         /\ \A x \in Execution : holder[x] \notin Process
<1>1. ASSUME NEW x \in Execution, holder[x] \in Process
      PROVE  FALSE
  <2>1. at[holder[x]] \in Holding
    BY <1>1 DEF Holds
  <2>2. at[holder[x]] \in Owning
    BY <2>1 DEF Holding, Owning
  <2> QED
    BY <1>1, <2>1, <2>2, Alone
<1> QED
  BY <1>1 DEF Holds

\* The state after a due event.
LEMMA OpenAfter ==
  ASSUME NEW s, Coherent(s), NEW e, e \in Events, Due(s, e)
  PROVE  /\ e.type = "RunFinished" => Applied(s, e) = s
         /\ e.type \in {"Finished", "Crashed"} =>
              /\ Open(Applied(s, e)) = {}
              /\ Unreleased(Applied(s, e)) = {}
         /\ e.type = "Spawned" =>
              /\ Open(Applied(s, e)) = {e.of} /\ Applied(s, e).boundary[e.of] = "NONE"
         /\ e.type \in DOMAIN BoundaryAfter =>
              /\ Open(Applied(s, e)) = Open(s) /\ e.of \in Open(s)
              /\ Applied(s, e).boundary[e.of] = BoundaryAfter[e.type]
              /\ \A x \in Execution \ {e.of} : Applied(s, e).boundary[x] = s.boundary[x]
<1>0. Coherent(Applied(s, e))
  BY DueKeeps
<1>1. CASE e = Event("RunFinished", NoExecution)
  <2>1. e.type = "RunFinished" /\ "RunFinished" \notin DOMAIN BoundaryAfter
    BY <1>1 DEF Event, BoundaryAfter
  <2> QED
    BY <1>1, <2>1, AppliedIs DEF Due
<1>2. ASSUME NEW x \in Execution, NEW t \in DOMAIN RunAfter, e = Event(t, x)
      PROVE  /\ t \in {"Spawned", "Finished", "Crashed"} /\ e.type = t /\ e.of = x
             /\ t \notin DOMAIN BoundaryAfter
             /\ t # "Spawned" => Open(Applied(s, e)) = {} /\ Unreleased(Applied(s, e)) = {}
             /\ t = "Spawned" => /\ Open(Applied(s, e)) = {x}
                                 /\ Applied(s, e).boundary[x] = "NONE"
  <2>1. /\ t \in {"Spawned", "Finished", "Crashed"} /\ e.type = t /\ e.of = x
        /\ t \notin DOMAIN BoundaryAfter
    BY <1>2 DEF RunAfter, BoundaryAfter, Event
  <2>2. Applied(s, e) = [s EXCEPT !.run[x] = RunAfter[t]]
    BY <1>2, AppliedIs DEF Due
  <2>3. t = "Spawned" <=> RunAfter[t] = "EXECUTING"
    BY <2>1 DEF RunAfter
  <2> DEFINE r == Applied(s, e)
             new == RunAfter[t]
  <2> HIDE DEF r, new
  <2>4. r = [s EXCEPT !.run[x] = new]
    BY <2>2 DEF r, new
  <2>5. /\ r.boundary = s.boundary
        /\ \A y \in Execution : r.run[y] = IF y = x THEN new ELSE s.run[y]
    BY <2>4 DEF Coherent
  <2>6. CASE t = "Spawned"
    <3>1. /\ s.run[x] = "NONE" /\ Open(s) = {}
      BY <2>1, <2>6 DEF Due, Legal, Open
    <3>2. new = "EXECUTING"
      BY <2>3, <2>6 DEF new
    <3>3. Open(r) = {x} /\ r.boundary[x] = "NONE"
      BY <2>5, <3>1, <3>2 DEF Open, Coherent
    <3> QED
      BY <2>1, <2>6, <3>3 DEF r
  <2>7. CASE t # "Spawned"
    <3>1. x \in Open(s)
      BY <2>1, <2>7 DEF Due, Legal, Open
    <3>2. new # "EXECUTING"
      BY <2>3, <2>7 DEF new
    <3>3. Open(r) = {}
      BY <2>5, <3>1, <3>2 DEF Open, Coherent
    <3>4. Unreleased(r) = {}
      BY <1>0, <3>3 DEF Coherent, r
    <3> QED
      BY <2>1, <2>7, <3>3, <3>4 DEF r
  <2> QED
    BY <2>6, <2>7
<1>3. ASSUME NEW x \in Execution, NEW t \in DOMAIN BoundaryAfter, e = Event(t, x)
      PROVE  /\ t \in {"Prepared", "Established", "Unconfirmed", "Released"}
             /\ e.type = t /\ e.of = x
             /\ Open(Applied(s, e)) = Open(s) /\ x \in Open(s)
             /\ Applied(s, e).boundary[x] = BoundaryAfter[t]
             /\ \A y \in Execution \ {x} : Applied(s, e).boundary[y] = s.boundary[y]
  <2>1. t \in {"Prepared", "Established", "Unconfirmed", "Released"} /\ e.type = t /\ e.of = x
    BY <1>3 DEF BoundaryAfter, Event
  <2>2. Applied(s, e) = [s EXCEPT !.boundary[x] = BoundaryAfter[t]]
    BY <1>3, AppliedIs DEF Due
  <2>3. s.run[x] = "EXECUTING"
    BY <2>1 DEF Due, Legal
  <2> DEFINE r == Applied(s, e)
             new == BoundaryAfter[t]
  <2> HIDE DEF r, new
  <2>4. r = [s EXCEPT !.boundary[x] = new]
    BY <2>2 DEF r, new
  <2>5. /\ r.run = s.run
        /\ \A y \in Execution : r.boundary[y] = IF y = x THEN new ELSE s.boundary[y]
    BY <2>4 DEF Coherent
  <2>6. Open(r) = Open(s) /\ x \in Open(s)
    BY <2>3, <2>5 DEF Open
  <2> QED
    BY <2>1, <2>5, <2>6 DEF r, new
<1> QED
  BY <1>1, <1>2, <1>3, EventTypes

\* The events a controller appends are emittable where it appends them.
LEMMA InFlightDue ==
  ASSUME Inv, NEW c \in Process, NEW e,
         e \in InFlight(c) \/ (e = Event("RunFinished", NoExecution) /\ at[c] \in {"idle", "halting"})
  PROVE  Emittable(e) /\ at[c] \in Writing
<1>0. /\ Coherent(view) /\ todo \subseteq Unreleased(view) /\ ViewAt(at[c])
      /\ at[c] \in Healthy => ~failed
  BY DEF Inv, ViewFits, Owns
<1>1. ASSUME NEW t \in {"Spawned", "Prepared", "Established", "Unconfirmed", "Released",
                        "Finished", "Crashed"}, NEW x \in Execution
      PROVE  Event(t, x) \in Events /\ Event(t, x).type = t /\ Event(t, x).of = x
  BY DEF Events, Event
<1>2. CASE e = Event("RunFinished", NoExecution) /\ at[c] \in {"idle", "halting"}
  BY <1>2 DEF Emittable, Due, Legal, Harmless, Events, Event, Writing, Owning
<1>3. CASE at[c] = "resolving" /\ e \in InFlight(c)
  <2>1. PICK x \in todo : e = Event("Released", x)
    BY <1>3 DEF InFlight
  <2>2. x \in Open(view) /\ x \in Unreleased(view) /\ x \in Execution
    BY <1>0, <2>1 DEF Coherent, Unreleased
  <2>3. e \in Events /\ e.type = "Released" /\ e.of = x
    BY <1>1, <2>1, <2>2
  <2> QED
    BY <1>0, <1>3, <2>2, <2>3
    DEF Emittable, Due, Legal, Unreleased, Open, Healthy, Writing, Owning
<1>4. CASE at[c] = "recovering" /\ e \in InFlight(c)
  <2>1. PICK x \in Open(view) : e = Event("Crashed", x)
    BY <1>4 DEF InFlight
  <2>2. x \in Execution /\ view.run[x] = "EXECUTING" /\ view.boundary[x] \in {"NONE", "RELEASED"}
    BY <1>0, <1>4, <2>1 DEF ViewAt, Unreleased, Open
  <2>3. e \in Events /\ e.type = "Crashed" /\ e.of = x
    BY <1>1, <2>1, <2>2
  <2> QED
    BY <1>0, <1>4, <2>2, <2>3 DEF Emittable, Due, Legal, Healthy, Writing, Owning
<1>5. CASE at[c] = "idle" /\ e \in InFlight(c)
  <2>1. PICK x \in Spawnable(view) : e = Event("Spawned", x)
    BY <1>5 DEF InFlight
  <2>2. x \in Execution /\ view.run[x] = "NONE" /\ Open(view) = {}
    BY <1>0, <1>5, <2>1 DEF ViewAt, Spawnable
  <2>3. e \in Events /\ e.type = "Spawned" /\ e.of = x
    BY <1>1, <2>1, <2>2
  <2> QED
    BY <1>0, <1>5, <2>2, <2>3 DEF Emittable, Due, Legal, Open, Healthy, Writing, Owning
<1>6. CASE at[c] \in {"spawned", "suspended", "doubtful", "empty", "released"} /\ e \in InFlight(c)
  <2>1. e = CASE at[c] = "spawned" -> Event("Prepared", Current)
              [] at[c] = "suspended" -> Event("Established", Current)
              [] at[c] = "doubtful" -> Event("Unconfirmed", Current)
              [] at[c] = "empty" -> Event("Released", Current)
              [] at[c] = "released" -> Event("Finished", Current)
    BY <1>6 DEF InFlight
  <2>2. /\ Current \in Execution /\ view.run[Current] = "EXECUTING"
        /\ view.boundary[Current] = Stage[at[c]]
    BY <1>0, <1>6, CurrentIs, CurrentOfView, Stages DEF ViewAt
  <2>3. /\ e \in Events /\ e.of = Current
        /\ at[c] = "spawned" => e.type = "Prepared" /\ view.boundary[Current] = "NONE"
        /\ at[c] = "suspended" => e.type = "Established" /\ view.boundary[Current] = "PREPARED"
        /\ at[c] = "doubtful" => e.type = "Unconfirmed" /\ view.boundary[Current] = "ESTABLISHED"
        /\ at[c] = "empty" => e.type = "Released" /\ view.boundary[Current] = "ESTABLISHED"
        /\ at[c] = "released" => e.type = "Finished" /\ view.boundary[Current] = "RELEASED"
    BY <1>1, <1>6, <2>1, <2>2, Stages
  <2>4. Due(view, e)
    BY <1>6, <2>2, <2>3 DEF Due, Legal
  <2>5. failed => Harmless(e)
    BY <1>0, <1>6, <2>3 DEF Harmless, Healthy, Writing, Owning
  <2> QED
    BY <1>6, <2>3, <2>4, <2>5 DEF Emittable, Writing, Owning
<1>7. CASE at[c] = "halting" /\ e \in InFlight(c)
  <2>1. e = Event("RunFinished", NoExecution)
    BY <1>7 DEF InFlight
  <2> QED
    BY <1>2, <1>7, <2>1
<1>8. e \in InFlight(c) => at[c] \in {"resolving", "recovering", "idle", "spawned", "suspended",
                                      "doubtful", "empty", "released", "halting"}
  BY DEF InFlight
<1> QED
  BY <1>2, <1>3, <1>4, <1>5, <1>6, <1>7, <1>8

-----------------------------------------------------------------------------
(* How the parts of the invariant move.                                    *)

Phase == Owning \cup {"down", "leaving", "gone"}

\* Controller c goes on to `to', inside what it owns.
LEMMA OwnsStays ==
  ASSUME Inv, NEW c \in Process, NEW to \in Phase, at' = [at EXCEPT ![c] = to],
         UNCHANGED <<lease, writer>>,
         to \in Owning <=> at[c] \in Owning, to \in Writing <=> at[c] \in Writing,
         failed' = failed \/ writer = c, to \in Healthy => ~failed'
  PROVE  Owns'
<1>1. \A d \in Process : at'[d] = IF d = c THEN to ELSE at[d]
  BY DEF Inv, HostTypeOK
<1>2. \A d \in Process \ {c} : at[d] \in Healthy => failed' = failed
  BY DEF Inv, Owns, Healthy
<1> QED
  BY <1>1, <1>2 DEF Inv, Owns

\* The owner's view, at its next step.
LEMMA ViewStays ==
  ASSUME HostTypeOK, Owns', NEW c \in Process, NEW to \in Writing, at' = [at EXCEPT ![c] = to],
         Coherent(view'), todo' \subseteq Unreleased(view'), ViewAt(to)'
  PROVE  ViewFits'
<1>1. \A d \in Process : at'[d] = IF d = c THEN to ELSE at[d]
  BY DEF HostTypeOK
<1>2. writer' = c /\ writer' # NoProcess
  BY <1>1, LogAssumption DEF Owns
<1>3. \A d \in Process \ {c} : at'[d] \notin Writing
  BY <1>2 DEF Owns
<1>4. \A d \in Process \ {c} : ViewAt(at[d])'
  BY <1>1, <1>3, Stages DEF ViewAt, Writing, Owning
<1> QED
  BY <1>1, <1>2, <1>4 DEF ViewFits

\* Someone who does not own the view moves.
LEMMA ViewElsewhere ==
  ASSUME HostTypeOK, ViewFits, NEW c \in Process, NEW to \in Phase \ Writing,
         at' = [at EXCEPT ![c] = to], UNCHANGED <<view, todo>>, writer' = writer \/ writer' # NoProcess
  PROVE  ViewFits'
<1>1. \A d \in Process : at'[d] = IF d = c THEN to ELSE at[d]
  BY DEF HostTypeOK
<1>2. Current' = Current /\ \A p : ViewAt(p)' <=> ViewAt(p)
  BY DEF ViewAt, Current
<1>3. ViewAt(to)
  BY Stages DEF ViewAt, Writing, Owning
<1>4. \A d \in Process : ViewAt(at[d])'
  BY <1>1, <1>2, <1>3 DEF ViewFits
<1> QED
  BY <1>4 DEF ViewFits

\* Nothing is held.
LEMMA HoldsNone ==
  ASSUME Inv, NEW c \in Process, at[c] \in Owning, NEW to \in Phase \ Holding,
         at' = [at EXCEPT ![c] = to],
         \A x \in Execution : ~Live(x)' /\ holder'[x] \notin Process
  PROVE  Holds'
<1>1. \A d \in Process : at'[d] = IF d = c THEN to ELSE at[d]
  BY DEF Inv, HostTypeOK
<1>2. \A d \in Process \ {c} : at[d] \notin Owning
  BY Alone DEF Inv
<1>3. \A d \in Process : at'[d] \notin {"suspended", "established"}
  BY <1>1, <1>2 DEF Holding, Owning
<1> QED
  BY <1>3 DEF Holds

\* The owner goes on with the job it holds.
LEMMA HoldsOn ==
  ASSUME Inv, NEW c \in Process, at[c] \in Holding, NEW to \in Holding,
         at' = [at EXCEPT ![c] = to], UNCHANGED job, Current' = Current,
         to \in {"suspended", "established"} => at[c] \in {"suspended", "established"},
         to = "empty" \/ failed' => \A x \in Execution : ~Live(x)
  PROVE  Holds'
<1>1. \A d \in Process : at'[d] = IF d = c THEN to ELSE at[d]
  BY DEF Inv, HostTypeOK
<1>2. \A x \in Execution : Live(x)' = Live(x) /\ holder'[x] = holder[x]
  BY DEF Live, job
<1>3. \A d \in Process : at'[d] = "empty" => \A x \in Execution : ~Live(x)
  BY <1>1 DEF Inv, Holds
<1>4. ASSUME NEW d \in Process, at'[d] \in {"suspended", "established"}
      PROVE  holder'[Current'] = d
  BY <1>1, <1>4 DEF Inv, Holds, job
<1>5. ASSUME NEW x \in Execution, holder'[x] \in Process
      PROVE  at'[holder'[x]] \in Holding /\ x = Current'
  BY <1>1, <1>2, <1>5 DEF Inv, Holds
<1>6. \A x \in Execution : Live(x)' => holder'[x] \in Process
  BY <1>2 DEF Inv, Holds
<1> QED
  BY <1>2, <1>3, <1>4, <1>5, <1>6 DEF Holds

\* What a controller holds goes with it.
LEMMA HoldsClosed ==
  ASSUME Inv, NEW c \in Process, at[c] \in Owning, JobsClosed(Held(c))
  PROVE  \A x \in Execution : ~Live(x)' /\ holder'[x] \notin Process
<1>1. ASSUME NEW x \in Execution, holder[x] \in Process
      PROVE  holder[x] = c
  <2>1. at[holder[x]] \in Owning
    BY <1>1 DEF Inv, Holds, Holding, Owning
  <2> QED
    BY <1>1, <2>1, Alone DEF Inv
<1>2. \A x \in Execution : x \notin Held(c) => ~Live(x) /\ holder[x] \notin Process
  BY <1>1 DEF Held, Inv, Holds
<1>3. \A x \in Execution : root'[x] = (IF x \in Held(c) THEN "none" ELSE root[x])
                        /\ others'[x] = (IF x \in Held(c) THEN FALSE ELSE others[x])
                        /\ holder'[x] = (IF x \in Held(c) THEN NoProcess ELSE holder[x])
  BY DEF JobsClosed
<1> QED
  BY <1>2, <1>3, LogAssumption DEF Live

-----------------------------------------------------------------------------
(* Steps that append nothing.                                              *)

LEMMA LogKept ==
  ASSUME Inv, UNCHANGED <<log, view>>
  PROVE  LogInv' /\ Recorded' /\ HandleFits'
<1>1. LogInv'
  BY LogStep DEF Inv
<1>2. UNCHANGED <<file, writer, lastId, unwritten, failed>>
  BY DEF log
<1>3. Recorded' /\ UNCHANGED Replay(file)
  BY <1>2, FileKept DEF Inv
<1>4. HandleFits'
  BY <1>2, <1>3 DEF Inv, HandleFits
<1> QED
  BY <1>1, <1>3, <1>4

\* A step of the owner between two places where it has the log open.
LEMMA QuietMove ==
  ASSUME Inv, NEW c \in Process, at[c] \in Writing, NEW to \in Writing,
         at' = [at EXCEPT ![c] = to], UNCHANGED <<log, lease, view, prober, errors>>,
         to \in Healthy => at[c] \in Healthy, todo' \subseteq todo,
         to # "resolving" => todo' = {},
         to = "recovering" => Unreleased(view) = {}, to = "idle" => Open(view) = {},
         to \in DOMAIN Stage => Open(view) # {} /\ view.boundary[Current] = Stage[to],
         holder' \in [Execution -> Process \cup {NoProcess}],
         root' \in [Execution -> {"none", "suspended", "running"}],
         others' \in [Execution -> BOOLEAN],
         Holds'
  PROVE  Inv'
<1>0. UNCHANGED <<writer, failed>> /\ to \in Owning /\ at[c] \in Owning /\ to \in Phase
  BY DEF log, Writing, Phase
<1>1. LogInv' /\ Recorded' /\ HandleFits'
  BY LogKept
<1>2. HostTypeOK'
  BY <1>0 DEF Inv, HostTypeOK, Phase
<1>3. Owns'
  BY <1>0, OwnsStays DEF Inv, Owns
<1>4. ViewAt(to)'
  BY DEF ViewAt, Current
<1>5. Coherent(view') /\ todo' \subseteq Unreleased(view')
  BY DEF Inv, ViewFits
<1>6. ViewFits'
  BY <1>3, <1>4, <1>5, ViewStays DEF Inv
<1> QED
  BY <1>1, <1>2, <1>3, <1>6 DEF Inv

\* Where the view stands at the owner's steps.
LEMMA AtStage ==
  ASSUME Inv, NEW c \in Process
  PROVE  /\ at[c] \in Writing \ {"resolving"} => todo = {}
         /\ at[c] = "recovering" => Unreleased(view) = {}
         /\ at[c] = "idle" => Open(view) = {}
         /\ at[c] \in DOMAIN Stage =>
              /\ Current \in Execution /\ Open(view) = {Current}
              /\ view.boundary[Current] = Stage[at[c]]
<1>1. ViewAt(at[c]) /\ Coherent(view)
  BY DEF Inv, ViewFits
<1>2. Open(view) # {} => Current \in Execution /\ Open(view) = {Current}
  BY <1>1, CurrentIs, CurrentOfView DEF Open
<1> QED
  BY <1>1, <1>2 DEF ViewAt

LEMMA QuietSteps ==
  ASSUME Inv, NEW c \in Process,
         \/ ResolveInconclusive(c) \/ Resolved(c) \/ CreateRootFails(c)
         \/ CredentialLeak(c) \/ RecoverOnly(c) \/ Shutdown(c) \/ Restore(c)
  PROVE  Inv'
<1>1. ASSUME NEW to \in Writing,
             at[c] \in Writing \ Holding, at' = [at EXCEPT ![c] = to],
             UNCHANGED <<log, lease, view, prober, job, errors>>,
             to \in Healthy => at[c] \in Healthy,
             todo' \subseteq todo, to # "resolving" => todo' = {},
             to = "recovering" => Unreleased(view) = {},
             to \notin DOMAIN Stage \cup {"idle"}
      PROVE  Inv'
  <2>1. \A x \in Execution : ~Live(x) /\ holder[x] \notin Process
    BY <1>1, NoneLive, Writer DEF Inv
  <2>2. \A x \in Execution : Live(x)' = Live(x) /\ holder'[x] = holder[x]
    BY <1>1 DEF job, Live
  <2>3. at[c] \in Owning /\ to \in Phase \ Holding
    BY <1>1, Stages DEF Phase, Writing, Holding
  <2>4. Holds'
    BY <1>1, <2>1, <2>2, <2>3, HoldsNone
  <2>5. /\ holder' \in [Execution -> Process \cup {NoProcess}]
        /\ root' \in [Execution -> {"none", "suspended", "running"}]
        /\ others' \in [Execution -> BOOLEAN]
    BY <1>1 DEF job, Inv, HostTypeOK
  <2> QED
    BY <1>1, <2>4, <2>5, QuietMove
<1>2. ASSUME NEW to \in {"recovering", "halting", "shutdown", "restoring", "closing"},
             at[c] \in {"resolving", "prepared", "released", "idle", "shutdown", "restoring"},
             to = "recovering" => at[c] = "resolving" /\ Unreleased(view) = {},
             at' = [at EXCEPT ![c] = to],
             UNCHANGED <<log, lease, view, prober, job, errors, todo>>, todo = {}
      PROVE  Inv'
  <2>1. /\ at[c] \in Writing \ Holding /\ to \in Writing
        /\ to \in Healthy => at[c] \in Healthy
        /\ to \notin DOMAIN Stage \cup {"idle"}
    BY <1>2, Stages DEF Writing, Owning, Holding, Healthy
  <2> QED
    BY <1>1, <1>2, <2>1
<1>3. at[c] \in Writing \ {"resolving"} => todo = {}
  BY AtStage
<1>4. CASE ResolveInconclusive(c)
  <2>1. /\ at[c] = "resolving" /\ todo' \subseteq todo
        /\ UNCHANGED <<log, at, lease, view, prober, job, errors>>
    BY <1>4 DEF ResolveInconclusive
  <2>2. at' = [at EXCEPT ![c] = "resolving"]
    BY <2>1 DEF Inv, HostTypeOK
  <2>3. /\ at[c] \in Writing \ Holding /\ "resolving" \in Writing
        /\ "resolving" \notin DOMAIN Stage \cup {"idle"}
    BY <2>1, Stages DEF Writing, Owning, Holding
  <2> QED
    BY <1>1, <2>1, <2>2, <2>3
<1>5. CASE Resolved(c)
  BY <1>2, <1>5 DEF Resolved, Goto
<1>6. CASE CreateRootFails(c) \/ CredentialLeak(c) \/ RecoverOnly(c) \/ Shutdown(c) \/ Restore(c)
  <2>1. /\ at[c] \in {"prepared", "released", "idle", "shutdown", "restoring"}
        /\ UNCHANGED <<log, lease, view, prober, job, errors, todo>>
    BY <1>6 DEF CreateRootFails, CredentialLeak, RecoverOnly, Shutdown, Restore, Quietly
  <2>2. PICK to \in {"halting", "shutdown", "closing", "restoring"} : at' = [at EXCEPT ![c] = to]
    BY <1>6 DEF CreateRootFails, CredentialLeak, RecoverOnly, Shutdown, Restore, Quietly, Goto
  <2>3. todo = {}
    BY <1>3, <2>1 DEF Writing, Owning
  <2>4. /\ to \in {"recovering", "halting", "shutdown", "restoring", "closing"}
        /\ at[c] \in {"resolving", "prepared", "released", "idle", "shutdown", "restoring"}
        /\ to # "recovering"
    BY <2>1, <2>2
  <2> QED
    BY <1>2, <2>1, <2>2, <2>3, <2>4
<1> QED
  BY <1>4, <1>5, <1>6

\* The steps that drive the job.
LEMMA JobSteps ==
  ASSUME Inv, NEW c \in Process,
         CreateRoot(c) \/ Resume(c) \/ WaitEnds(c) \/ EmptyConfirmed(c) \/ Doubt(c) \/ GiveUp(c)
  PROVE  Inv'
<1> USE DEF Quietly, Goto
<1>a. /\ holder \in [Execution -> Process \cup {NoProcess}]
      /\ root \in [Execution -> {"none", "suspended", "running"}]
      /\ others \in [Execution -> BOOLEAN]
      /\ at \in [Process -> Phase]
  BY DEF Inv, HostTypeOK, Phase
<1>1. CASE CreateRoot(c)
  <2>1. /\ at[c] = "prepared" /\ at' = [at EXCEPT ![c] = "suspended"]
        /\ UNCHANGED <<log, lease, view, todo, errors, others, prober>>
        /\ holder' = [holder EXCEPT ![Current] = c]
        /\ root' = [root EXCEPT ![Current] = "suspended"]
    BY <1>1 DEF CreateRoot
  <2>2. /\ at[c] \in Writing \ Holding /\ at[c] \in Healthy /\ "suspended" \in Writing
        /\ "suspended" \in Healthy
    BY <2>1 DEF Writing, Owning, Healthy, Holding
  <2>3. /\ Current \in Execution /\ Open(view) = {Current} /\ todo = {}
        /\ view.boundary[Current] = Stage["suspended"]
    BY <2>1, <2>2, AtStage, Stages
  <2>4. \A x \in Execution : ~Live(x) /\ holder[x] \notin Process
    BY <2>2, NoneLive, Writer DEF Inv
  <2>5. /\ \A x \in Execution : holder'[x] = (IF x = Current THEN c ELSE holder[x])
        /\ \A x \in Execution : x # Current => Live(x)' = Live(x)
        /\ \A d \in Process : at'[d] = (IF d = c THEN "suspended" ELSE at[d])
        /\ Current' = Current /\ ~failed'
    BY <1>a, <2>1, <2>2 DEF Live, Current, Inv, Owns, log
  <2>6. \A d \in Process \ {c} : at[d] \notin {"empty", "suspended", "established"}
    BY <2>2, Writer DEF Inv, Owns, Writing, Owning
  <2>7. Holds'
    <3>1. \A x \in Execution : x # Current => ~Live(x)' /\ holder'[x] \notin Process
      BY <2>4, <2>5
    <3>2. holder'[Current] = c /\ at'[c] = "suspended"
      BY <2>3, <2>5
    <3>3. \A d \in Process : at'[d] # "empty" /\ (at'[d] \in {"suspended", "established"} => d = c)
      BY <2>5, <2>6
    <3> QED
      BY <2>5, <3>1, <3>2, <3>3 DEF Holds, Holding
  <2>8. /\ holder' \in [Execution -> Process \cup {NoProcess}]
        /\ root' \in [Execution -> {"none", "suspended", "running"}]
    BY <1>a, <2>1
  <2> QED
    BY <1>a, <2>1, <2>2, <2>3, <2>7, <2>8, QuietMove
<1>2. CASE Resume(c)
  <2>1. /\ at[c] = "established" /\ at' = [at EXCEPT ![c] = "waiting"]
        /\ UNCHANGED <<log, lease, view, todo, errors, others, prober, holder>>
        /\ root' = [root EXCEPT ![Current] = "running"]
    BY <1>2 DEF Resume
  <2>2. at[c] \in Writing /\ at[c] \in Healthy /\ "waiting" \in Writing /\ "waiting" \in Healthy
    BY <2>1 DEF Writing, Owning, Healthy
  <2>3. /\ Current \in Execution /\ Open(view) = {Current} /\ todo = {}
        /\ view.boundary[Current] = Stage["waiting"]
    BY <2>1, <2>2, AtStage, Stages
  <2>5. /\ \A x \in Execution : x # Current => Live(x)' = Live(x)
        /\ \A d \in Process : at'[d] = (IF d = c THEN "waiting" ELSE at[d])
        /\ Current' = Current /\ ~failed'
    BY <1>a, <2>1, <2>2 DEF Live, Current, Inv, Owns, log
  <2>6. holder[Current] = c
    BY <2>1 DEF Inv, Holds
  <2>7. Holds'
    <3>1. \A x \in Execution : x # Current => Live(x)' = Live(x) /\ holder'[x] = holder[x]
      BY <2>1, <2>5
    <3>2. \A x \in Execution : Live(x)' => holder'[x] \in Process
      BY <2>1, <2>5, <2>6 DEF Inv, Holds
    <3>3. ASSUME NEW x \in Execution, holder'[x] \in Process
          PROVE  at'[holder'[x]] \in Holding /\ x = Current'
      <4>1. at[holder[x]] \in Holding /\ x = Current
        BY <2>1, <3>3 DEF Inv, Holds
      <4> QED
        BY <2>1, <2>5, <2>6, <4>1 DEF Holding
    <3>4. \A d \in Process \ {c} : at[d] \notin {"empty", "suspended", "established"}
      BY <2>2, Writer DEF Inv, Owns, Writing, Owning
    <3> QED
      BY <2>5, <3>2, <3>3, <3>4 DEF Holds
  <2>8. root' \in [Execution -> {"none", "suspended", "running"}]
    BY <1>a, <2>1
  <2> QED
    BY <1>a, <2>1, <2>2, <2>3, <2>7, <2>8, QuietMove
<1>3. ASSUME NEW from \in {"established", "waiting", "emptying"},
             NEW to \in {"emptying", "empty", "doubtful"},
             at[c] = from, at' = [at EXCEPT ![c] = to],
             to = "empty" => ~Live(Current),
             UNCHANGED <<log, lease, view, todo, errors, prober, job>>
      PROVE  Inv'
  <2>1. /\ at[c] \in Writing /\ at[c] \in Healthy /\ to \in Writing /\ at[c] \in Holding
        /\ to \in Holding /\ at[c] # "resolving" /\ to \notin {"resolving", "recovering", "idle"}
    BY <1>3 DEF Writing, Owning, Healthy, Holding
  <2>2. /\ Current \in Execution /\ Open(view) = {Current} /\ todo = {}
        /\ view.boundary[Current] = Stage[to]
    BY <1>3, <2>1, AtStage, Stages
  <2>3. ~failed' /\ Current' = Current
    BY <1>3, <2>1 DEF Inv, Owns, log, Current
  <2>4. to = "empty" => \A x \in Execution : ~Live(x)
    BY <1>3 DEF Inv, Holds
  <2>5. Holds'
    BY <1>3, <2>1, <2>3, <2>4, HoldsOn
  <2>6. UNCHANGED <<holder, root, others>>
    BY <1>3 DEF job
  <2> QED
    BY <1>a, <1>3, <2>1, <2>2, <2>5, <2>6, QuietMove
<1>4. CASE WaitEnds(c) \/ EmptyConfirmed(c) \/ Doubt(c)
  BY <1>3, <1>4 DEF WaitEnds, EmptyConfirmed, Doubt
<1>5. CASE GiveUp(c)
  <2>1. /\ at[c] \in {"suspended", "waiting", "emptying"} /\ at' = [at EXCEPT ![c] = "halting"]
        /\ UNCHANGED <<log, lease, view, todo, errors, prober>> /\ JobsClosed(Held(c))
    BY <1>5 DEF GiveUp
  <2>2. /\ at[c] \in Writing /\ at[c] \in Owning /\ "halting" \in Writing
        /\ "halting" \notin Healthy /\ at[c] # "resolving"
    BY <2>1 DEF Writing, Owning, Healthy
  <2>3. todo = {} /\ "halting" \notin DOMAIN Stage
    BY <2>2, AtStage, Stages
  <2>4. Holds'
    <3>1. "halting" \in Phase \ Holding
      BY DEF Phase, Owning, Holding
    <3> QED
      BY <2>1, <2>2, <3>1, HoldsClosed, HoldsNone
  <2>5. /\ holder' \in [Execution -> Process \cup {NoProcess}]
        /\ root' \in [Execution -> {"none", "suspended", "running"}]
        /\ others' \in [Execution -> BOOLEAN]
    BY <1>a, <2>1 DEF JobsClosed
  <2> QED
    BY <1>a, <2>1, <2>2, <2>3, <2>4, <2>5, QuietMove
<1> QED
  BY <1>1, <1>2, <1>4, <1>5

-----------------------------------------------------------------------------
(* Steps of a controller that does not have the log open, and of an engine. *)

LEMMA HoldsAside ==
  ASSUME Inv, NEW c \in Process, at[c] \notin Holding, NEW to \in Phase \ Holding,
         at' = [at EXCEPT ![c] = to], UNCHANGED <<job, view, failed>>
  PROVE  Holds'
<1>1. \A d \in Process : at'[d] = IF d = c THEN to ELSE at[d]
  BY DEF Inv, HostTypeOK
<1>2. /\ \A x \in Execution : Live(x)' = Live(x) /\ holder'[x] = holder[x]
      /\ Current' = Current /\ UNCHANGED <<holder, failed>>
  BY DEF Live, job, Current
<1>3. \A d \in Process : at'[d] = "empty" => \A x \in Execution : ~Live(x)
  BY <1>1 DEF Inv, Holds, Holding
<1>4. \A d \in Process : at'[d] \in {"suspended", "established"} => holder'[Current'] = d
  BY <1>1, <1>2 DEF Inv, Holds, Holding
<1>5. ASSUME NEW x \in Execution, holder'[x] \in Process
      PROVE  at'[holder'[x]] \in Holding /\ x = Current'
  BY <1>1, <1>2, <1>5 DEF Inv, Holds
<1>6. \A x \in Execution : Live(x)' => holder'[x] \in Process
  BY <1>2 DEF Inv, Holds
<1>7. failed' => \A x \in Execution : ~Live(x)'
  BY <1>2 DEF Inv, Holds
<1> QED
  BY <1>2, <1>3, <1>4, <1>5, <1>6, <1>7 DEF Holds

LEMMA Aside ==
  ASSUME Inv, NEW c \in Process, at[c] \in {"down", "leased", "unlocking", "leaving"},
         NEW to \in {"leased", "leaving", "gone"}, at' = [at EXCEPT ![c] = to],
         RefuseLog \/ UNCHANGED log, UNCHANGED <<view, todo, prober, job, errors>>,
         to = "leased" => lease = NoProcess /\ lease' = c,
         to # "leased" => lease' = (IF at[c] \in Owning THEN NoProcess ELSE lease)
  PROVE  Inv'
<1>1. /\ UNCHANGED <<file, writer, lastId, unwritten, failed>>
      /\ at[c] \notin Writing \cup Holding /\ to \in Phase \ (Writing \cup Holding)
      /\ to \in Owning <=> to = "leased"
  BY DEF RefuseLog, log, Writing, Owning, Holding, Phase
<1>2. LogInv'
  BY LogStep DEF Inv, LogNext
<1>3. Recorded' /\ UNCHANGED Replay(file)
  BY <1>1, FileKept DEF Inv
<1>4. HandleFits'
  BY <1>1, <1>3 DEF Inv, HandleFits
<1>5. Holds'
  BY <1>1, HoldsAside
<1>6. ViewFits'
  BY <1>1, ViewElsewhere DEF Inv
<1>7. \A d \in Process : at'[d] = IF d = c THEN to ELSE at[d]
  BY DEF Inv, HostTypeOK
<1>8. HostTypeOK'
  <2>1. lease' \in Process \cup {NoProcess}
    BY DEF Inv, HostTypeOK
  <2> QED
    BY <1>1, <2>1 DEF Inv, HostTypeOK, Phase, job
<1>9. Owns'
  <2>1. \A d \in Process : /\ at'[d] \in Writing <=> writer' = d
                           /\ at'[d] \in Healthy => ~failed'
    BY <1>1, <1>7 DEF Inv, Owns, Healthy
  <2>2. ASSUME NEW d \in Process
        PROVE  at'[d] \in Owning <=> lease' = d
    <3>1. at[d] \in Owning <=> lease = d
      BY DEF Inv, Owns
    <3>2. at[c] \in Owning <=> lease = c
      BY DEF Inv, Owns
    <3>3. CASE to = "leased"
      BY <1>1, <1>7, <3>1, <3>3, LogAssumption
    <3>4. CASE to # "leased"
      BY <1>1, <1>7, <3>1, <3>2, <3>4, LogAssumption
    <3> QED
      BY <3>3, <3>4
  <2> QED
    BY <2>1, <2>2 DEF Owns
<1> QED
  BY <1>2, <1>3, <1>4, <1>5, <1>6, <1>8, <1>9 DEF Inv

LEMMA AsideSteps ==
  ASSUME Inv, NEW c \in Process,
         AcquireLease(c) \/ OpenRefused(c) \/ ReleaseLease(c) \/ Exit(c)
  PROVE  Inv'
<1> USE DEF Goto
<1>1. CASE AcquireLease(c)
  <2>1. "down" \notin Owning
    BY DEF Owning
  <2>2. CASE lease = NoProcess
    BY <1>1, <2>2, Aside DEF AcquireLease
  <2>3. CASE lease # NoProcess
    BY <1>1, <2>1, <2>3, Aside DEF AcquireLease
  <2> QED
    BY <2>2, <2>3
<1>2. CASE OpenRefused(c)
  <2>1. "leased" \in Owning
    BY DEF Owning
  <2> QED
    BY <1>2, <2>1, Aside DEF OpenRefused
<1>3. CASE ReleaseLease(c)
  <2>1. "unlocking" \in Owning
    BY DEF Owning
  <2> QED
    BY <1>3, <2>1, Aside DEF ReleaseLease
<1>4. CASE Exit(c)
  <2>1. "leaving" \notin Owning
    BY DEF Owning
  <2> QED
    BY <1>4, <2>1, Aside DEF Exit, Quietly
<1> QED
  BY <1>1, <1>2, <1>3, <1>4

LEMMA EngineSteps ==
  ASSUME Inv, NEW x \in Execution, Fork(x) \/ RootExits(x) \/ OthersExit(x)
  PROVE  Inv' /\ \A y \in Execution : Live(y)' => Live(y)
<1>1. /\ UNCHANGED <<log, at, lease, view, todo, prober, holder, errors>>
      /\ root' \in [Execution -> {"none", "suspended", "running"}]
      /\ others' \in [Execution -> BOOLEAN]
  BY DEF Fork, RootExits, OthersExit, host, Inv, HostTypeOK
<1>2. \A y \in Execution : Live(y)' => Live(y)
  BY DEF Fork, RootExits, OthersExit, Live, Inv, HostTypeOK
<1>3. LogInv' /\ Recorded' /\ HandleFits'
  BY <1>1, LogKept
<1>4. UNCHANGED <<writer, failed>> /\ Current' = Current
  BY <1>1 DEF log, Current
<1>5. HostTypeOK' /\ Owns'
  BY <1>1, <1>4 DEF Inv, HostTypeOK, Owns
<1>6. ViewFits'
  <2>1. \A p : ViewAt(p)' <=> ViewAt(p)
    BY <1>1, <1>4 DEF ViewAt
  <2> QED
    BY <1>1, <1>4, <2>1 DEF Inv, ViewFits
<1>7. Holds'
  BY <1>1, <1>2, <1>4 DEF Inv, Holds
<1> QED
  BY <1>2, <1>3, <1>5, <1>6, <1>7 DEF Inv

-----------------------------------------------------------------------------
(* Steps of the owner that append an event.                                *)

LEMMA ViewAtNext ==
  ASSUME NEW p
  PROVE  ViewAt(p)' <=>
           /\ p \in Writing \ {"resolving"} => todo' = {}
           /\ p = "recovering" => Unreleased(view') = {}
           /\ p = "idle" => Open(view') = {}
           /\ p \in DOMAIN Stage =>
                Open(view') # {} /\ view'.boundary[CurrentOf(view')] = Stage[p]
BY CurrentOfView DEF ViewAt, Unreleased, Open

LEMMA Emission ==
  ASSUME Inv, NEW c \in Process, at[c] \in Writing, NEW e, Emittable(e),
         NEW to \in Writing, at' = [at EXCEPT ![c] = to], UNCHANGED lease,
         \/ Emitted(e) /\ (to \in Healthy => at[c] \in Healthy)
         \/ EmitRaises(e) /\ to \notin Healthy,
         todo' \subseteq Unreleased(view'), ViewAt(to)',
         prober' \in [Execution -> Process \cup {NoProcess}],
         holder' \in [Execution -> Process \cup {NoProcess}],
         root' \in [Execution -> {"none", "suspended", "running"}],
         others' \in [Execution -> BOOLEAN],
         Holds'
  PROVE  Inv' /\ Marked(e)
<1>0. /\ LogTypeOK /\ writer = c /\ writer # NoProcess /\ e \in LogEvent
      /\ at[c] \in Owning /\ to \in Owning /\ to \in Phase
  BY Writer, EventAssumption DEF Inv, LogInv, Emittable, Writing, Phase
<1>1. Recorded' /\ HandleFits' /\ Marked(e)
  BY <1>0, AppendFits, RaiseFits DEF Inv, Emitted, EmitRaises
<1>2. LogInv'
  BY <1>0, LogStep DEF Inv, LogNext, Emitted, EmitRaises
<1>3. UNCHANGED writer /\ (to \in Healthy => ~failed')
  <2>1. at[c] \in Healthy => ~failed
    BY DEF Inv, Owns
  <2>2. UNCHANGED writer
    BY DEF Emitted, EmitRaises, AppendEvent, AppendRaises, AppendUnflushed, AppendUnsynced
  <2>3. Emitted(e) => UNCHANGED failed
    BY DEF Emitted, AppendEvent
  <2> QED
    BY <2>1, <2>2, <2>3
<1>4. Owns'
  BY <1>0, <1>3, OwnsStays
<1>5. Coherent(view')
  <2>1. Coherent(view)
    BY DEF Inv, ViewFits
  <2> QED
    BY <2>1, DueKeeps DEF Emitted, EmitRaises, Emittable
<1>6. ViewFits'
  BY <1>4, <1>5, ViewStays DEF Inv
<1>7. HostTypeOK'
  <2>1. errors' \in 0 .. MaxIOErrors
    BY ContainmentAssumption DEF Emitted, EmitRaises, Inv, HostTypeOK
  <2>2. at' \in [Process -> Phase]
    BY <1>0 DEF Inv, HostTypeOK, Phase
  <2> QED
    BY <2>1, <2>2 DEF Inv, HostTypeOK, Phase
<1> QED
  BY <1>1, <1>2, <1>4, <1>6, <1>7 DEF Inv

\* The job is not there, or it stays, or it is closed.
LEMMA JobKept ==
  ASSUME Inv, UNCHANGED job \/ \E c \in Process : JobsClosed(Held(c))
  PROVE  /\ holder' \in [Execution -> Process \cup {NoProcess}]
         /\ root' \in [Execution -> {"none", "suspended", "running"}]
         /\ others' \in [Execution -> BOOLEAN]
BY DEF JobsClosed, job, Inv, HostTypeOK

LEMMA HoldsQuiet ==
  ASSUME Inv, NEW c \in Process, at[c] \in Owning \ Holding, NEW to \in Phase \ Holding,
         at' = [at EXCEPT ![c] = to], UNCHANGED job
  PROVE  Holds'
<1>1. \A x \in Execution : ~Live(x) /\ holder[x] \notin Process
  BY NoneLive DEF Inv
<1>2. \A x \in Execution : Live(x)' = Live(x) /\ holder'[x] = holder[x]
  BY DEF job, Live
<1> QED
  BY <1>1, <1>2, HoldsNone

\* The event of the execution that is driven.
LEMMA Driven ==
  ASSUME Inv, NEW c \in Process, at[c] \in DOMAIN Stage,
         NEW t \in DOMAIN BoundaryAfter, Emittable(Event(t, Current)),
         view' = Applied(view, Event(t, Current))
  PROVE  /\ Open(view') = Open(view) /\ Open(view') # {} /\ Current' = Current
         /\ CurrentOf(view') = Current /\ view'.boundary[Current] = BoundaryAfter[t]
<1>1. /\ Coherent(view) /\ Current \in Execution /\ Open(view) = {Current}
      /\ Event(t, Current).type = t /\ Event(t, Current).of = Current
  BY AtStage DEF Inv, ViewFits, Event
<1>2. /\ Open(view') = Open(view)
      /\ view'.boundary[Current] = BoundaryAfter[t]
  BY <1>1, OpenAfter DEF Emittable
<1>3. CurrentOf(view') = CurrentOf(view)
  BY <1>2 DEF CurrentOf
<1> QED
  BY <1>1, <1>2, <1>3, CurrentOfView

\* What Emission asks of the state after the step, when it is no stage.
LEMMA NoStage ==
  ASSUME Inv, NEW c \in Process, at[c] \in Writing \ {"resolving"}, UNCHANGED todo,
         NEW to \in {"shutdown", "halting", "closing"}
  PROVE  todo' \subseteq Unreleased(view') /\ ViewAt(to)'
<1>1. todo' = {}
  BY AtStage
<1>2. to \notin DOMAIN Stage \cup {"idle", "recovering"}
  BY Stages
<1> QED
  BY <1>1, <1>2, ViewAtNext

\* How an append moves the records and the engine: none is alive when a boundary
\* may be marked, and none is started.
Contained(e) ==
  /\ Marked(e)
  /\ failed \/ e.type \in {"Prepared", "Released"} => \A x \in Execution : ~Live(x)
  /\ \A x \in Execution : Live(x)' => Live(x)

LEMMA Containing ==
  ASSUME Inv, NEW c \in Process, NEW e, Marked(e),
         e \in InFlight(c) \/ e.type \notin {"Prepared", "Released"},
         UNCHANGED job \/ JobsClosed(Held(c))
  PROVE  Contained(e)
<1>1. \A x \in Execution : Live(x)' => Live(x)
  BY DEF JobsClosed, job, Live, Inv, HostTypeOK
<1>2. failed => \A x \in Execution : ~Live(x)
  BY DEF Inv, Holds
<1>3. ASSUME e \in InFlight(c), e.type \in {"Prepared", "Released"}
      PROVE  \A x \in Execution : ~Live(x)
  <2>1. at[c] \in {"resolving", "spawned", "empty"}
    BY <1>3 DEF InFlight, Event
  <2>2. CASE at[c] = "empty"
    BY <2>2 DEF Inv, Holds
  <2>3. CASE at[c] \in {"resolving", "spawned"}
    BY <2>3, NoneLive DEF Inv, Owning, Holding
  <2> QED
    BY <2>1, <2>2, <2>3
<1> QED
  BY <1>1, <1>2, <1>3 DEF Contained

\* Startup: a boundary is resolved, the orphan is recorded as crashed.
LEMMA ResolveSteps ==
  ASSUME Inv, NEW c \in Process, ResolveRelease(c) \/ Recover(c)
  PROVE  Inv' /\ \E e \in Events : Contained(e)
<1>0. /\ at[c] \in {"resolving", "recovering"} /\ at[c] \in Writing \ Holding
      /\ at[c] \in Owning \ Holding /\ at[c] \in Healthy
      /\ UNCHANGED <<lease, prober, job>>
  BY DEF ResolveRelease, Recover, Writing, Owning, Holding, Healthy
<1>a. /\ prober' \in [Execution -> Process \cup {NoProcess}]
      /\ holder' \in [Execution -> Process \cup {NoProcess}]
      /\ root' \in [Execution -> {"none", "suspended", "running"}]
      /\ others' \in [Execution -> BOOLEAN]
  BY <1>0, JobKept DEF Inv, HostTypeOK
<1>b. \A to \in {"resolving", "recovering", "closing", "idle"} : to \in Writing /\ to \in Phase \ Holding
  BY DEF Writing, Owning, Holding, Phase
<1>c. "closing" \notin Healthy
  BY DEF Healthy
<1>d. ASSUME NEW e, Marked(e)
      PROVE  Contained(e)
  <2>1. \A x \in Execution : ~Live(x) /\ (Live(x)' = Live(x))
    BY <1>0, NoneLive DEF Inv, job, Live
  <2> QED
    BY <1>d, <2>1 DEF Contained
<1>1. ASSUME at[c] = "resolving", NEW x \in todo, ProvedDead(prober[x]),
             \/ Emitted(Event("Released", x)) /\ todo' = todo \ {x} /\ UNCHANGED at
             \/ EmitRaises(Event("Released", x)) /\ todo' = {} /\ Goto(c, "closing")
      PROVE  Inv' /\ \E e \in Events : Contained(e)
  <2> DEFINE e == Event("Released", x)
  <2>0. e \in InFlight(c)
    BY <1>1 DEF InFlight
  <2>1. Emittable(e) /\ e \in Events
    BY <2>0, InFlightDue DEF Emittable
  <2>2. /\ Coherent(view) /\ todo \subseteq Unreleased(view) /\ x \in Execution
        /\ e.type = "Released" /\ e.of = x
    BY <1>1 DEF Inv, ViewFits, Unreleased, Event
  <2>3. CASE Emitted(e) /\ todo' = todo \ {x} /\ UNCHANGED at
    <3>1. at' = [at EXCEPT ![c] = "resolving"]
      BY <1>1, <2>3 DEF Inv, HostTypeOK
    <3>2. view' = Applied(view, e)
      BY <2>3 DEF Emitted
    <3>3. \A y \in Execution \ {x} : view'.boundary[y] = view.boundary[y]
      BY <2>1, <2>2, <3>2, OpenAfter DEF Emittable, BoundaryAfter
    <3>4. todo' \subseteq Unreleased(view')
      BY <2>2, <2>3, <3>3 DEF Unreleased
    <3>5. ViewAt("resolving")'
      BY Stages, ViewAtNext
    <3>6. Holds'
      BY <1>0, <1>b, <3>1, HoldsQuiet
    <3> HIDE DEF e
    <3> QED
      BY <1>0, <1>a, <1>b, <2>1, <2>3, <3>1, <3>4, <3>5, <3>6, Emission, <1>d
  <2>4. CASE EmitRaises(e) /\ todo' = {} /\ Goto(c, "closing")
    <3>1. at' = [at EXCEPT ![c] = "closing"]
      BY <2>4 DEF Goto
    <3>2. ViewAt("closing")'
      BY <2>4, Stages, ViewAtNext
    <3>3. Holds'
      BY <1>0, <1>b, <3>1, HoldsQuiet
    <3> HIDE DEF e
    <3> QED
      BY <1>0, <1>a, <1>b, <1>c, <2>1, <2>4, <3>1, <3>2, <3>3, Emission, <1>d
  <2> QED
    BY <1>1, <2>3, <2>4
<1>2. CASE ResolveRelease(c)
  BY <1>1, <1>2 DEF ResolveRelease
<1>3. CASE Recover(c) /\ Open(view) = {}
  <2>1. /\ at[c] = "recovering" /\ at' = [at EXCEPT ![c] = "idle"]
        /\ UNCHANGED <<log, view, errors, lease, todo, prober, job>>
    BY <1>3 DEF Recover, Goto
  <2>2. todo = {} /\ "idle" \notin DOMAIN Stage
    BY <1>0, <2>1, AtStage, Stages
  <2>3. Holds'
    BY <1>0, <1>b, <2>1, HoldsQuiet
  <2>4. Inv'
    BY <1>0, <1>a, <1>b, <1>3, <2>1, <2>2, <2>3, QuietMove
  <2>5. Marked(Event("RunFinished", NoExecution)) /\ Event("RunFinished", NoExecution) \in Events
    BY <2>1, FileKept DEF Marked, log, Events
  <2> QED
    BY <1>d, <2>4, <2>5
<1>4. CASE Recover(c) /\ Open(view) # {}
  <2> DEFINE e == Event("Crashed", Current)
  <2>1. /\ at[c] = "recovering" /\ UNCHANGED todo
        /\ \/ Emitted(e) /\ UNCHANGED at
           \/ EmitRaises(e) /\ at' = [at EXCEPT ![c] = "closing"]
    BY <1>4 DEF Recover, Goto
  <2>2. Coherent(view) /\ Current \in Open(view) /\ todo = {}
    BY <1>0, <1>4, <2>1, AtStage, CurrentIs, CurrentOfView DEF Inv, ViewFits, Open
  <2>3. e \in InFlight(c)
    BY <2>1, <2>2 DEF InFlight
  <2>4. Emittable(e) /\ e \in Events /\ e.type = "Crashed"
    BY <2>3, InFlightDue DEF Emittable, Event
  <2>5. CASE Emitted(e) /\ UNCHANGED at
    <3>1. at' = [at EXCEPT ![c] = "recovering"]
      BY <2>1, <2>5 DEF Inv, HostTypeOK
    <3>2. view' = Applied(view, e)
      BY <2>5 DEF Emitted
    <3>3. Unreleased(view') = {}
      BY <2>2, <2>4, <3>2, OpenAfter DEF Emittable
    <3>4. ViewAt("recovering")'
      BY <2>1, <2>2, <3>3, Stages, ViewAtNext
    <3>5. Holds'
      BY <1>0, <1>b, <3>1, HoldsQuiet
    <3> HIDE DEF e
    <3> QED
      BY <1>0, <1>a, <1>b, <2>1, <2>2, <2>4, <2>5, <3>1, <3>4, <3>5, Emission, <1>d
  <2>6. CASE EmitRaises(e) /\ at' = [at EXCEPT ![c] = "closing"]
    <3>1. ViewAt("closing")' /\ todo' \subseteq Unreleased(view')
      BY <1>0, <2>1, NoStage
    <3>2. Holds'
      BY <1>0, <1>b, <2>6, HoldsQuiet
    <3> HIDE DEF e
    <3> QED
      BY <1>0, <1>a, <1>b, <1>c, <2>1, <2>4, <2>6, <3>1, <3>2, Emission, <1>d
  <2> QED
    BY <2>1, <2>5, <2>6
<1> QED
  BY <1>2, <1>3, <1>4

\* An emission of the owner: its step is to `to', or to `otherwise'.
LEMMA EmittingStep ==
  ASSUME Inv, NEW c \in Process, NEW from \in Writing \ {"resolving"}, NEW e,
         e \in InFlight(c) \/ (e = Event("RunFinished", NoExecution) /\ from \in {"idle", "halting"}),
         NEW to \in Writing, NEW otherwise \in {"shutdown", "halting", "closing", "doubtful"},
         Emitting(c, from, e, to, otherwise),
         to \in Healthy => from \in Healthy,
         UNCHANGED job \/ JobsClosed(Held(c)),
         prober' \in [Execution -> Process \cup {NoProcess}],
         view' = Applied(view, e) => ViewAt(to)',
         otherwise = "doubtful" /\ UNCHANGED view => ViewAt(otherwise)',
         Holds'
  PROVE  Inv' /\ Contained(e)
<1>1. /\ at[c] = from /\ UNCHANGED <<lease, todo>> /\ at[c] \in Writing \ {"resolving"}
      /\ \/ Emitted(e) /\ at' = [at EXCEPT ![c] = to]
         \/ EmitRaises(e) /\ at' = [at EXCEPT ![c] = otherwise]
  BY DEF Emitting, Goto
<1>2. Emittable(e) /\ e \in Events
  BY <1>1, InFlightDue DEF Emittable
<1>3. todo = {} /\ todo' = {}
  BY <1>1, AtStage
<1>4. /\ holder' \in [Execution -> Process \cup {NoProcess}]
      /\ root' \in [Execution -> {"none", "suspended", "running"}]
      /\ others' \in [Execution -> BOOLEAN]
  BY JobKept
<1>5. ASSUME Emitted(e), at' = [at EXCEPT ![c] = to]
      PROVE  Inv' /\ Marked(e)
  <2>1. ViewAt(to)'
    BY <1>5 DEF Emitted
  <2>2. /\ at[c] \in Writing /\ UNCHANGED lease /\ todo' \subseteq Unreleased(view')
        /\ at' = [at EXCEPT ![c] = to]
        /\ Emitted(e) /\ (to \in Healthy => at[c] \in Healthy)
    BY <1>1, <1>3, <1>5
  <2> QED
    BY <1>2, <1>4, <2>1, <2>2, Emission
<1>6. ASSUME EmitRaises(e), at' = [at EXCEPT ![c] = otherwise]
      PROVE  Inv' /\ Marked(e)
  <2>1. otherwise \in Writing /\ otherwise \notin Healthy
    BY DEF Writing, Owning, Healthy
  <2>2. ViewAt(otherwise)'
    BY <1>1, <1>6, NoStage DEF EmitRaises
  <2>3. /\ at[c] \in Writing /\ UNCHANGED lease /\ todo' \subseteq Unreleased(view')
        /\ at' = [at EXCEPT ![c] = otherwise]
        /\ EmitRaises(e) /\ otherwise \notin Healthy
    BY <1>1, <1>3, <1>6, <2>1
  <2> QED
    BY <1>2, <1>4, <2>1, <2>2, <2>3, Emission
<1>7. Inv' /\ Marked(e)
  BY <1>1, <1>5, <1>6
<1>8. e \in InFlight(c) \/ e.type \notin {"Prepared", "Released"}
  BY DEF Event
<1> QED
  BY <1>7, <1>8, Containing

LEMMA EmittingMoves ==
  ASSUME NEW c, NEW from, NEW e, NEW to, NEW otherwise, Emitting(c, from, e, to, otherwise)
  PROVE  /\ at[c] = from /\ UNCHANGED <<lease, todo>>
         /\ \/ /\ at' = [at EXCEPT ![c] = to] /\ view' = Applied(view, e) /\ UNCHANGED failed
            \/ /\ at' = [at EXCEPT ![c] = otherwise] /\ UNCHANGED view
BY DEF Emitting, Emitted, EmitRaises, Goto, AppendEvent

\* An emission where the owner holds no job.
LEMMA EmittingQuietly ==
  ASSUME Inv, NEW c \in Process, NEW from \in Writing \ (Holding \cup {"resolving"}), NEW e,
         e \in InFlight(c) \/ (e = Event("RunFinished", NoExecution) /\ from \in {"idle", "halting"}),
         NEW to \in Writing \ Holding, NEW otherwise \in {"shutdown", "halting", "closing"},
         Emitting(c, from, e, to, otherwise),
         to \in Healthy => from \in Healthy,
         UNCHANGED job,
         prober' \in [Execution -> Process \cup {NoProcess}],
         view' = Applied(view, e) => ViewAt(to)'
  PROVE  Inv' /\ Contained(e)
<1>1. /\ at[c] = from
      /\ at' = [at EXCEPT ![c] = to] \/ at' = [at EXCEPT ![c] = otherwise]
  BY EmittingMoves
<1>2. at[c] \in Owning \ Holding /\ to \in Phase \ Holding /\ otherwise \in Phase \ Holding
  BY <1>1 DEF Writing, Owning, Holding, Phase
<1>3. Holds'
  BY <1>1, <1>2, HoldsQuiet
<1>4. /\ from \in Writing \ {"resolving"} /\ to \in Writing
      /\ otherwise \in {"shutdown", "halting", "closing", "doubtful"} /\ otherwise # "doubtful"
  OBVIOUS
<1> QED
  BY <1>3, <1>4, EmittingStep

LEMMA EmitSteps ==
  ASSUME Inv, NEW c \in Process,
         Spawn(c) \/ Prepare(c) \/ Finish(c) \/ EndRun(c)
  PROVE  Inv' /\ \E e : Contained(e)
<1>0. prober \in [Execution -> Process \cup {NoProcess}] /\ Coherent(view)
  BY DEF Inv, HostTypeOK, ViewFits
<1>a. /\ {"idle", "spawned", "released", "halting"} \subseteq Writing \ (Holding \cup {"resolving"})
      /\ {"spawned", "prepared", "idle", "shutdown"} \subseteq Writing \ Holding
      /\ {"idle", "spawned", "released", "prepared"} \subseteq Healthy /\ "shutdown" \notin Healthy
  BY DEF Writing, Owning, Healthy, Holding
<1>b. \A p \in Writing \ {"resolving"} : at[c] = p => todo = {}
  BY AtStage
<1>1. CASE Spawn(c)
  <2>1. PICK x \in Spawnable(view) : Emitting(c, "idle", Event("Spawned", x), "spawned", "shutdown")
    BY <1>1 DEF Spawn
  <2> DEFINE e == Event("Spawned", x)
  <2>2. UNCHANGED <<prober, job, todo>> /\ at[c] = "idle" /\ e \in InFlight(c)
    BY <1>1, <2>1, EmittingMoves DEF Spawn, InFlight
  <2>3. Emittable(e) /\ e.type = "Spawned" /\ e.of = x /\ x \in Execution
    BY <2>1, <2>2, InFlightDue DEF Event, Spawnable
  <2>4. ASSUME view' = Applied(view, e)
        PROVE  ViewAt("spawned")'
    <3>1. Open(view') = {x} /\ view'.boundary[x] = "NONE"
      BY <1>0, <2>3, <2>4, OpenAfter DEF Emittable
    <3>2. CurrentOf(view') = x
      BY <3>1 DEF CurrentOf
    <3>3. todo' = {}
      BY <1>a, <1>b, <2>2
    <3> QED
      BY <3>1, <3>2, <3>3, Stages, ViewAtNext
  <2> HIDE DEF e
  <2>5. Inv' /\ Contained(e)
    BY <1>0, <1>a, <2>1, <2>2, <2>4, EmittingQuietly DEF e
  <2> QED
    BY <2>5
<1>2. CASE Prepare(c)
  <2> DEFINE e == Event("Prepared", Current)
  <2>1. /\ Emitting(c, "spawned", e, "prepared", "halting") /\ UNCHANGED job
        /\ prober' \in [Execution -> Process \cup {NoProcess}]
    BY <1>0, <1>2 DEF Prepare
  <2>2. UNCHANGED todo /\ at[c] = "spawned" /\ e \in InFlight(c)
    BY <2>1, EmittingMoves DEF InFlight
  <2>3. Emittable(e) /\ at[c] \in DOMAIN Stage
    BY <2>2, InFlightDue, Stages
  <2>4. ASSUME view' = Applied(view, e)
        PROVE  ViewAt("prepared")'
    <3>1. /\ Open(view') # {} /\ CurrentOf(view') = Current
          /\ view'.boundary[Current] = "PREPARED"
      BY <2>3, <2>4, Driven DEF BoundaryAfter
    <3>2. todo' = {}
      BY <1>a, <1>b, <2>2
    <3> QED
      BY <3>1, <3>2, Stages, ViewAtNext
  <2> HIDE DEF e
  <2>5. Inv' /\ Contained(e)
    BY <1>a, <2>1, <2>2, <2>4, EmittingQuietly
  <2> QED
    BY <2>5
<1>3. CASE Finish(c)
  <2> DEFINE e == Event("Finished", Current)
  <2>1. /\ Emitting(c, "released", e, "idle", "shutdown") /\ UNCHANGED <<prober, job>>
    BY <1>3 DEF Finish
  <2>2. UNCHANGED todo /\ at[c] = "released" /\ e \in InFlight(c)
    BY <2>1, EmittingMoves DEF InFlight
  <2>3. Emittable(e) /\ e.type = "Finished"
    BY <2>2, InFlightDue DEF Event
  <2>4. ASSUME view' = Applied(view, e)
        PROVE  ViewAt("idle")'
    <3>1. Open(view') = {}
      BY <1>0, <2>3, <2>4, OpenAfter DEF Emittable
    <3>2. todo' = {}
      BY <1>a, <1>b, <2>2
    <3> QED
      BY <3>1, <3>2, Stages, ViewAtNext
  <2> HIDE DEF e
  <2>5. Inv' /\ Contained(e)
    BY <1>0, <1>a, <2>1, <2>2, <2>4, EmittingQuietly
  <2> QED
    BY <2>5
<1>4. CASE EndRun(c)
  <2> DEFINE e == Event("RunFinished", NoExecution)
  <2>1. PICK from \in {"idle", "halting"} : Emitting(c, from, e, "shutdown", "shutdown")
    BY <1>4 DEF EndRun
  <2>2. UNCHANGED <<prober, job, todo>> /\ at[c] = from
    BY <1>4, <2>1, EmittingMoves DEF EndRun
  <2>3. todo' = {}
    BY <1>a, <1>b, <2>1, <2>2
  <2>4. ViewAt("shutdown")'
    BY <2>3, Stages, ViewAtNext
  <2>5. Inv' /\ Contained(e)
    BY <1>0, <1>a, <2>1, <2>2, <2>4, EmittingQuietly
  <2> QED
    BY <2>5
<1> QED
  BY <1>1, <1>2, <1>3, <1>4

\* The emissions while the job is held.
LEMMA JobEmitSteps ==
  ASSUME Inv, NEW c \in Process, Establish(c) \/ RecordDoubt(c) \/ Release(c)
  PROVE  Inv' /\ \E e : Contained(e)
<1>0. prober \in [Execution -> Process \cup {NoProcess}] /\ Coherent(view)
      /\ at \in [Process -> Phase]
  BY DEF Inv, HostTypeOK, ViewFits, Phase
<1>a. /\ {"suspended", "doubtful", "empty"} \subseteq Writing \ {"resolving"}
      /\ {"suspended", "doubtful", "empty"} \subseteq Holding \cap Owning
      /\ {"established", "halting", "released"} \subseteq Writing
      /\ {"established", "doubtful"} \subseteq Holding
      /\ {"halting", "released"} \subseteq Phase \ Holding
      /\ {"suspended", "empty"} \subseteq Healthy /\ "halting" \notin Healthy
  BY DEF Writing, Owning, Healthy, Holding, Phase
<1>b. \A p \in Writing \ {"resolving"} : at[c] = p => todo = {}
  BY AtStage
<1>c. \A p : at' = [at EXCEPT ![c] = p] => at'[c] = p
  BY <1>0
<1>1. CASE Establish(c)
  <2> DEFINE e == Event("Established", Current)
  <2>1. /\ Emitting(c, "suspended", e, "established", "halting") /\ UNCHANGED prober
        /\ IF at'[c] = "established" THEN UNCHANGED job ELSE JobsClosed(Held(c))
    BY <1>1 DEF Establish
  <2>2. /\ UNCHANGED todo /\ at[c] = "suspended" /\ e \in InFlight(c)
        /\ \/ at' = [at EXCEPT ![c] = "established"] /\ view' = Applied(view, e) /\ UNCHANGED failed
           \/ at' = [at EXCEPT ![c] = "halting"] /\ UNCHANGED view
    BY <2>1, EmittingMoves DEF InFlight
  <2>3. Emittable(e) /\ at[c] \in DOMAIN Stage /\ ~failed
    BY <1>a, <2>2, InFlightDue, Stages DEF Inv, Owns
  <2>4. ASSUME view' = Applied(view, e)
        PROVE  ViewAt("established")' /\ Current' = Current
    <3>1. /\ Open(view') # {} /\ CurrentOf(view') = Current /\ Current' = Current
          /\ view'.boundary[Current] = "ESTABLISHED"
      BY <2>3, <2>4, Driven DEF BoundaryAfter
    <3>2. todo' = {}
      BY <1>a, <1>b, <2>2
    <3> QED
      BY <3>1, <3>2, Stages, ViewAtNext
  <2>5. Holds'
    <3>1. CASE at' = [at EXCEPT ![c] = "established"] /\ view' = Applied(view, e) /\ UNCHANGED failed
      BY <1>a, <1>c, <2>1, <2>2, <2>3, <2>4, <3>1, HoldsOn
    <3>2. CASE at' = [at EXCEPT ![c] = "halting"]
      <4>1. JobsClosed(Held(c))
        BY <1>c, <2>1, <3>2
      <4> QED
        BY <1>a, <2>2, <3>2, <4>1, HoldsClosed, HoldsNone
    <3> QED
      BY <2>2, <3>1, <3>2
  <2> HIDE DEF e
  <2>6. Inv' /\ Contained(e)
    BY <1>0, <1>a, <2>1, <2>2, <2>4, <2>5, EmittingStep
  <2> QED
    BY <2>6
<1>2. CASE RecordDoubt(c)
  <2> DEFINE e == Event("Unconfirmed", Current)
  <2>1. /\ Emitting(c, "doubtful", e, "halting", "halting") /\ UNCHANGED prober
        /\ JobsClosed(Held(c))
    BY <1>2 DEF RecordDoubt
  <2>2. /\ UNCHANGED todo /\ at[c] = "doubtful" /\ e \in InFlight(c)
        /\ at' = [at EXCEPT ![c] = "halting"]
    BY <2>1, EmittingMoves DEF InFlight
  <2>3. todo' = {}
    BY <1>a, <1>b, <2>2
  <2>4. ViewAt("halting")'
    BY <2>3, Stages, ViewAtNext
  <2>5. Holds'
    BY <1>a, <2>1, <2>2, HoldsClosed, HoldsNone
  <2> HIDE DEF e
  <2>6. Inv' /\ Contained(e)
    BY <1>0, <1>a, <2>1, <2>2, <2>4, <2>5, EmittingStep
  <2> QED
    BY <2>6
<1>3. CASE Release(c)
  <2> DEFINE e == Event("Released", Current)
  <2>1. /\ Emitting(c, "empty", e, "released", "doubtful") /\ UNCHANGED prober
        /\ IF at'[c] = "released" THEN JobsClosed(Held(c)) ELSE UNCHANGED job
    BY <1>3 DEF Release
  <2>2. /\ UNCHANGED todo /\ at[c] = "empty" /\ e \in InFlight(c)
        /\ \/ at' = [at EXCEPT ![c] = "released"] /\ view' = Applied(view, e)
           \/ at' = [at EXCEPT ![c] = "doubtful"] /\ UNCHANGED view
    BY <2>1, EmittingMoves DEF InFlight
  <2>3. Emittable(e) /\ at[c] \in DOMAIN Stage
    BY <2>2, InFlightDue, Stages
  <2>4. todo' = {}
    BY <1>a, <1>b, <2>2
  <2>5. ASSUME view' = Applied(view, e)
        PROVE  ViewAt("released")'
    <3>1. /\ Open(view') # {} /\ CurrentOf(view') = Current
          /\ view'.boundary[Current] = "RELEASED"
      BY <2>3, <2>5, Driven DEF BoundaryAfter
    <3> QED
      BY <2>4, <3>1, Stages, ViewAtNext
  <2>6. ASSUME UNCHANGED view
        PROVE  ViewAt("doubtful")' /\ Current' = Current
    <3>1. Current' = Current /\ CurrentOf(view') = Current
      BY <2>6, CurrentOfView
    <3>2. Open(view) # {} /\ view.boundary[Current] = "ESTABLISHED"
      BY <2>2, <2>3, AtStage, Stages
    <3> QED
      BY <2>4, <2>6, <3>1, <3>2, Stages, ViewAtNext
  <2>7. Holds'
    <3>1. CASE at' = [at EXCEPT ![c] = "released"]
      <4>1. JobsClosed(Held(c))
        BY <1>c, <2>1, <3>1
      <4> QED
        BY <1>a, <2>2, <3>1, <4>1, HoldsClosed, HoldsNone
    <3>2. CASE at' = [at EXCEPT ![c] = "doubtful"] /\ UNCHANGED view
      <4>1. UNCHANGED job
        BY <1>c, <2>1, <3>2
      <4>2. \A x \in Execution : ~Live(x)
        BY <2>2 DEF Inv, Holds
      <4> QED
        BY <1>a, <2>2, <2>6, <3>2, <4>1, <4>2, HoldsOn
    <3> QED
      BY <2>2, <3>1, <3>2
  <2> HIDE DEF e
  <2>8. Inv' /\ Contained(e)
    BY <1>0, <1>a, <2>1, <2>2, <2>5, <2>6, <2>7, EmittingStep
  <2> QED
    BY <2>8
<1> QED
  BY <1>1, <1>2, <1>3

-----------------------------------------------------------------------------
(* The log is opened and closed, and a controller is killed.               *)

LEMMA BlankFits ==
  /\ Coherent(Blank) /\ Open(Blank) = {} /\ Unreleased(Blank) = {}
BY DEF Blank, Coherent, Open, Unreleased, Run, Boundary

LEMMA QuietContained ==
  ASSUME Inv, UNCHANGED file, \A x \in Execution : Live(x)' => Live(x)
  PROVE  \E e : Contained(e)
<1>1. Marked(Event("RunFinished", NoExecution))
  BY FileKept DEF Marked
<1>2. Event("RunFinished", NoExecution).type = "RunFinished"
  BY DEF Event
<1>3. Contained(Event("RunFinished", NoExecution))
  BY <1>1, <1>2 DEF Contained, Inv, Holds
<1> QED
  BY <1>3

\* Nobody has the log open afterwards.
LEMMA NobodyWrites ==
  ASSUME Inv, NEW c \in Process, writer = c, NEW to \in {"unlocking", "gone"},
         at' = [at EXCEPT ![c] = to], writer' = NoProcess,
         lease' = (IF to = "gone" THEN NoProcess ELSE lease),
         view' = Blank, todo' = {}
  PROVE  Owns' /\ ViewFits'
<1>1. /\ \A d \in Process : at'[d] = IF d = c THEN to ELSE at[d]
      /\ at[c] \in Writing /\ at[c] \in Owning /\ lease = c
  BY DEF Inv, HostTypeOK, Owns, Writing
<1>2. to \notin Writing \cup Healthy /\ (to \in Owning <=> to = "unlocking")
  BY DEF Writing, Owning, Healthy
<1>3. \A d \in Process \ {c} : at[d] \notin Owning
  BY <1>1, Alone DEF Inv
<1>4. \A d \in Process : at'[d] \notin Writing
  BY <1>1, <1>2, <1>3 DEF Writing
<1>5. Owns'
  <2>1. \A d \in Process : at'[d] \in Owning <=> lease' = d
    BY <1>1, <1>2, <1>3, LogAssumption
  <2> QED
    BY <1>4, <2>1, LogAssumption DEF Owns, Healthy
<1>6. \A d \in Process : ViewAt(at[d])'
  <2>1. \A p : p \notin Writing => p \notin DOMAIN Stage \cup {"idle", "recovering"}
    BY Stages DEF Writing, Owning
  <2>2. \A p : p \notin Writing => ViewAt(p)'
    BY <2>1, ViewAtNext
  <2> QED
    BY <1>4, <2>2
<1>7. Coherent(view') /\ todo' \subseteq Unreleased(view')
  BY BlankFits
<1> QED
  BY <1>5, <1>6, <1>7 DEF ViewFits

LEMMA OpenStep ==
  ASSUME Inv, NEW c \in Process, OpenStartup(c)
  PROVE  Inv' /\ \E e : Contained(e)
<1>1. /\ at[c] = "leased" /\ writer = NoProcess /\ Contiguous(file)
      /\ writer' = c /\ file' = file /\ lastId' = Len(file) /\ unwritten' = <<>>
      /\ ~failed' /\ view' = Replay(file) /\ todo' = Unreleased(view')
      /\ UNCHANGED <<lease, prober, job, errors>>
  BY DEF OpenStartup, OpenLog, Repaired
<1>2. Coherent(view')
  BY <1>1 DEF Inv, Recorded
<1>3. at' = [at EXCEPT ![c] = "resolving"]
  BY <1>2 DEF OpenStartup, Goto, Coherent
<1>4. LogInv'
  BY LogStep DEF Inv, LogNext, OpenStartup
<1>5. Recorded' /\ UNCHANGED Replay(file)
  BY <1>1, FileKept DEF Inv
<1>6. HandleFits'
  <2>1. Len(unwritten') = 0
    BY <1>1, NoLine
  <2> QED
    BY <1>1, <1>5, <2>1 DEF HandleFits
<1>7. \A d \in Process : at'[d] = IF d = c THEN "resolving" ELSE at[d]
  BY <1>3 DEF Inv, HostTypeOK
<1>8. /\ at[c] \in Owning \ Holding /\ "resolving" \in Writing /\ "resolving" \in Owning
      /\ "resolving" \in Phase \ Holding
  BY <1>1 DEF Owning, Holding, Writing, Phase
<1>9. Owns'
  BY <1>1, <1>7, <1>8, LogAssumption DEF Inv, Owns, Healthy
<1>10. ViewFits'
  <2>1. ViewAt("resolving")'
    BY Stages, ViewAtNext
  <2> QED
    BY <1>1, <1>2, <1>3, <1>8, <1>9, <2>1, ViewStays DEF Inv
<1>11. Holds'
  BY <1>1, <1>3, <1>8, HoldsQuiet
<1>12. HostTypeOK'
  BY <1>1, <1>3, <1>8 DEF Inv, HostTypeOK, job, Phase
<1>13. \A x \in Execution : Live(x)' => Live(x)
  BY <1>1 DEF job, Live
<1>14. \E e : Contained(e)
  BY <1>1, <1>13, QuietContained
<1> QED
  BY <1>4, <1>5, <1>6, <1>9, <1>10, <1>11, <1>12, <1>14 DEF Inv

LEMMA CloseStep ==
  ASSUME Inv, NEW c \in Process, CloseStartup(c)
  PROVE  Inv' /\ \E e : Contained(e)
<1>1. /\ at[c] = "closing" /\ CloseLog /\ at' = [at EXCEPT ![c] = "unlocking"]
      /\ view' = Blank /\ todo' = {} /\ UNCHANGED <<lease, prober, job, errors>>
      /\ writer' = NoProcess
  BY DEF CloseStartup, Goto, CloseLog
<1>2. /\ at[c] \in Writing /\ at[c] \in Owning \ Holding /\ "unlocking" \in Phase \ Holding
  BY <1>1 DEF Owning, Holding, Writing, Phase
<1>3. writer = c /\ writer # NoProcess /\ LogTypeOK
  BY <1>2, Writer DEF Inv, LogInv
<1>4. LogInv'
  BY <1>1, <1>3, LogStep DEF Inv, LogNext
<1> DEFINE e == Event("RunFinished", NoExecution)
<1>5. Recorded' /\ HandleFits' /\ Marked(e)
  BY <1>1, <1>3, ClosingFits DEF Inv
<1>6. Owns' /\ ViewFits'
  BY <1>1, <1>3, NobodyWrites
<1>7. Holds'
  BY <1>1, <1>2, HoldsQuiet
<1>8. HostTypeOK'
  BY <1>1, <1>2 DEF Inv, HostTypeOK, job, Phase
<1>9. Contained(e)
  <2>1. e.type = "RunFinished"
    BY DEF Event
  <2> HIDE DEF e
  <2> QED
    BY <1>1, <1>5, <2>1, Containing
<1> QED
  BY <1>4, <1>5, <1>6, <1>7, <1>8, <1>9 DEF Inv

LEMMA KillStep ==
  ASSUME Inv, NEW c \in Process, Kill(c)
  PROVE  Inv' /\ \E e : Contained(e)
<1>1. /\ at' = [at EXCEPT ![c] = "gone"] /\ JobsClosed(Held(c)) /\ UNCHANGED errors
      /\ prober' = IF at[c] = "spawned" THEN [prober EXCEPT ![Current] = c] ELSE prober
  BY DEF Kill, Goto
<1>2. "gone" \in Phase \ Holding /\ "gone" \notin Owning /\ "gone" \notin Writing
  BY DEF Owning, Holding, Writing, Phase
<1>3. HostTypeOK'
  <2>1. prober' \in [Execution -> Process \cup {NoProcess}]
    BY <1>1 DEF Inv, HostTypeOK
  <2>2. at' \in [Process -> Phase]
    BY <1>1, <1>2 DEF Inv, HostTypeOK, Phase
  <2>3. lease' \in Process \cup {NoProcess}
    BY DEF Kill, Inv, HostTypeOK
  <2> QED
    BY <1>1, <2>1, <2>2, <2>3, JobKept DEF Inv, HostTypeOK, Phase
<1>4. \A x \in Execution : Live(x)' => Live(x)
  BY <1>1 DEF JobsClosed, Live, Inv, HostTypeOK
<1>5. CASE writer = c
  <2>1. /\ at[c] \in Writing /\ at[c] \in Owning /\ lease = c /\ writer # NoProcess /\ LogTypeOK
    BY <1>5, LogAssumption DEF Inv, Owns, Writing, LogInv
  <2>2. /\ lease' = NoProcess /\ view' = Blank /\ todo' = {}
        /\ DieBetween \/ \E e \in InFlight(c) : DieAppending(e)
    BY <1>5, <2>1 DEF Kill
  <2>3. writer' = NoProcess
    BY <2>2 DEF DieBetween, DieAppending, HandleLost
  <2>4. Owns' /\ ViewFits'
    BY <1>1, <1>5, <2>2, <2>3, NobodyWrites
  <2>5. Holds'
    BY <1>1, <1>2, <2>1, HoldsClosed, HoldsNone
  <2>6. LogInv' /\ Recorded' /\ HandleFits' /\ \E e : Contained(e)
    <3>1. CASE DieBetween
      <4>1. UNCHANGED file
        BY <3>1 DEF DieBetween
      <4>2. LogInv'
        BY <2>1, <3>1, LogStep DEF Inv, LogNext
      <4>3. HandleFits'
        BY <2>3 DEF HandleFits
      <4> QED
        BY <1>4, <4>1, <4>2, <4>3, FileKept, QuietContained DEF Inv
    <3>2. ASSUME NEW e \in InFlight(c), DieAppending(e)
          PROVE  LogInv' /\ Recorded' /\ HandleFits' /\ \E f : Contained(f)
      <4>1. Emittable(e) /\ e \in LogEvent
        BY InFlightDue, EventAssumption DEF Emittable
      <4>2. LogInv'
        BY <2>1, <3>2, <4>1, LogStep DEF Inv, LogNext
      <4>3. Recorded' /\ HandleFits' /\ Marked(e)
        BY <2>1, <3>2, <4>1, DeathFits DEF Inv
      <4>4. Contained(e)
        BY <1>1, <4>3, Containing
      <4> QED
        BY <4>2, <4>3, <4>4
    <3> QED
      BY <2>2, <3>1, <3>2
  <2> QED
    BY <1>3, <2>4, <2>5, <2>6 DEF Inv
<1>6. CASE writer # c
  <2>1. UNCHANGED log /\ at[c] \notin Writing
    BY <1>6 DEF Kill, Inv, Owns
  <2>2. at[c] \notin Holding
    BY <2>1 DEF Holding, Writing, Owning
  <2>3. lease = c => writer = NoProcess
    <3>1. ASSUME lease = c, writer \in Process
          PROVE  FALSE
      <4>1. at[writer] \in Owning /\ writer # c
        BY <1>6, <3>1 DEF Inv, Owns, Writing
      <4> QED
        BY <3>1, <4>1 DEF Inv, Owns
    <3> QED
      BY <3>1 DEF Inv, LogInv, LogTypeOK
  <2>4. UNCHANGED <<view, todo>>
    BY <2>3 DEF Kill, Inv, ViewFits
  <2>5. UNCHANGED job
    <3>1. Held(c) = {}
      BY <2>2 DEF Held, Inv, Holds
    <3>2. /\ holder' = [x \in Execution |-> holder[x]]
          /\ root' = [x \in Execution |-> root[x]]
          /\ others' = [x \in Execution |-> others[x]]
      BY <1>1, <3>1 DEF JobsClosed
    <3> QED
      BY <3>2 DEF job, Inv, HostTypeOK
  <2>6. UNCHANGED <<file, writer, failed>>
    BY <2>1 DEF log
  <2>7. LogInv' /\ Recorded' /\ HandleFits'
    BY <2>1, <2>4, LogKept
  <2>8. Holds'
    BY <1>1, <1>2, <2>2, <2>4, <2>5, <2>6, HoldsAside
  <2>9. ViewFits'
    BY <1>1, <1>2, <2>4, <2>6, ViewElsewhere DEF Inv
  <2>10. Owns'
    <3>1. \A d \in Process : at'[d] = IF d = c THEN "gone" ELSE at[d]
      BY <1>1 DEF Inv, HostTypeOK
    <3>2. lease' = IF lease = c THEN NoProcess ELSE lease
      BY DEF Kill
    <3>3. ASSUME NEW d \in Process
          PROVE  at'[d] \in Owning <=> lease' = d
      BY <1>2, <3>1, <3>2, LogAssumption DEF Inv, Owns
    <3>4. ASSUME NEW d \in Process
          PROVE  /\ at'[d] \in Writing <=> writer' = d
                 /\ at'[d] \in Healthy => ~failed'
      BY <1>2, <1>6, <2>1, <2>6, <3>1 DEF Inv, Owns, Healthy
    <3> QED
      BY <3>3, <3>4 DEF Owns
  <2>11. \E e : Contained(e)
    BY <1>4, <2>6, QuietContained
  <2> QED
    BY <1>3, <2>7, <2>8, <2>9, <2>10, <2>11 DEF Inv
<1> QED
  BY <1>5, <1>6

-----------------------------------------------------------------------------
(* The invariant.                                                          *)

LEMMA Initially == Init => Inv
<1> SUFFICES ASSUME Init
             PROVE  Inv
  OBVIOUS
<1>1. LogInv
  BY LogInitial DEF Init
<1>2. /\ Len(file) = 0 /\ file \in Seq(Line) /\ writer = NoProcess /\ ~failed
  BY NoLine DEF Init, LogInit
<1>3. Recorded
  <2>1. Replayable(file) /\ Replay(file) = Blank
    BY <1>2, ReplayStarts
  <2>2. DOMAIN file = {}
    BY <1>2, LenProperties
  <2>3. \A t : OnRecord(t) = {}
    BY <2>2 DEF OnRecord
  <2>4. Coherent(Blank) /\ \A x \in Execution : Blank.boundary[x] = "NONE"
    BY BlankFits DEF Blank
  <2> QED
    BY <2>1, <2>3, <2>4 DEF Recorded
<1>4. HandleFits
  BY <1>2 DEF HandleFits
<1>5. /\ \A c \in Process : at[c] = "down"
      /\ lease = NoProcess /\ view = Blank /\ todo = {}
  BY DEF Init
<1>6. HostTypeOK
  BY ContainmentAssumption DEF Init, HostTypeOK
<1>7. Owns
  BY <1>2, <1>5, LogAssumption DEF Owns, Healthy, Writing, Owning
<1>8. ViewFits
  BY <1>5, BlankFits, Stages DEF ViewFits, ViewAt, Writing, Owning
<1>9. Holds
  <2>1. \A x \in Execution : ~Live(x) /\ holder[x] \notin Process
    BY LogAssumption DEF Init, Live
  <2> QED
    BY <1>5, <2>1 DEF Holds
<1> QED
  BY <1>1, <1>3, <1>4, <1>6, <1>7, <1>8, <1>9 DEF Inv

\* Every step but the start of an engine and its resumption.
LEMMA StepsContained ==
  ASSUME Inv, Next
  PROVE  Inv' /\ \/ \E e : Contained(e)
                 \/ \E c \in Process : CreateRoot(c) \/ Resume(c)
<1>a. ASSUME UNCHANGED log \/ RefuseLog, UNCHANGED job \/ \E c \in Process : JobsClosed(Held(c))
      PROVE  \E e : Contained(e)
  <2>1. UNCHANGED file
    BY <1>a DEF log, RefuseLog
  <2>2. \A x \in Execution : Live(x)' => Live(x)
    BY <1>a DEF JobsClosed, job, Live, Inv, HostTypeOK
  <2> QED
    BY <2>1, <2>2, QuietContained
<1>1. ASSUME NEW x \in Execution, Fork(x) \/ RootExits(x) \/ OthersExit(x)
      PROVE  Inv' /\ \E e : Contained(e)
  <2>1. UNCHANGED file
    BY <1>1 DEF Fork, RootExits, OthersExit, log
  <2> QED
    BY <1>1, <2>1, EngineSteps, QuietContained
<1>2. ASSUME NEW c \in Process, AcquireLease(c) \/ Step(c) \/ Kill(c)
      PROVE  Inv' /\ \/ \E e : Contained(e)
                     \/ CreateRoot(c) \/ Resume(c)
  <2>1. CASE AcquireLease(c) \/ OpenRefused(c) \/ ReleaseLease(c) \/ Exit(c)
    <3>1. (UNCHANGED log \/ RefuseLog) /\ UNCHANGED job
      BY <2>1 DEF AcquireLease, OpenRefused, ReleaseLease, Exit, Quietly
    <3> QED
      BY <1>a, <2>1, <3>1, AsideSteps
  <2>2. CASE \/ ResolveInconclusive(c) \/ Resolved(c) \/ CreateRootFails(c)
             \/ CredentialLeak(c) \/ RecoverOnly(c) \/ Shutdown(c) \/ Restore(c)
    <3>1. UNCHANGED log /\ UNCHANGED job
      BY <2>2 DEF ResolveInconclusive, Resolved, CreateRootFails, CredentialLeak, RecoverOnly,
                  Shutdown, Restore, Quietly
    <3> QED
      BY <1>a, <2>2, <3>1, QuietSteps
  <2>3. CASE CreateRoot(c) \/ Resume(c)
    BY <2>3, JobSteps
  <2>4. CASE WaitEnds(c) \/ EmptyConfirmed(c) \/ Doubt(c) \/ GiveUp(c)
    <3>1. UNCHANGED log /\ (UNCHANGED job \/ JobsClosed(Held(c)))
      BY <2>4 DEF WaitEnds, EmptyConfirmed, Doubt, GiveUp, Quietly
    <3> QED
      BY <1>a, <2>4, <3>1, JobSteps
  <2>5. CASE ResolveRelease(c) \/ Recover(c)
    BY <2>5, ResolveSteps
  <2>6. CASE Spawn(c) \/ Prepare(c) \/ Finish(c) \/ EndRun(c)
    BY <2>6, EmitSteps
  <2>7. CASE Establish(c) \/ RecordDoubt(c) \/ Release(c)
    BY <2>7, JobEmitSteps
  <2>8. CASE OpenStartup(c) \/ CloseStartup(c) \/ Kill(c)
    BY <2>8, OpenStep, CloseStep, KillStep
  <2> QED
    BY <1>2, <2>1, <2>2, <2>3, <2>4, <2>5, <2>6, <2>7, <2>8 DEF Step, Startup, Engine, Ending
<1> QED
  BY <1>1, <1>2 DEF Next

LEMMA Stuttering ==
  ASSUME Inv, UNCHANGED vars
  PROVE  Inv' /\ \E e : Contained(e)
<1>1. UNCHANGED <<log, at, lease, view, todo, prober, holder, root, others, errors>>
  BY DEF vars, host, job
<1>2. LogInv' /\ Recorded' /\ HandleFits'
  BY <1>1, LogKept
<1>3. UNCHANGED <<file, writer, failed>> /\ Current' = Current
  BY <1>1 DEF log, Current
<1>4. HostTypeOK' /\ Owns'
  BY <1>1, <1>3 DEF Inv, HostTypeOK, Owns
<1>5. ViewFits'
  <2>1. \A p : ViewAt(p)' <=> ViewAt(p)
    BY <1>1, <1>3 DEF ViewAt
  <2> QED
    BY <1>1, <1>3, <2>1 DEF Inv, ViewFits
<1>6. \A x \in Execution : Live(x)' = Live(x)
  BY <1>1 DEF Live
<1>7. Holds'
  BY <1>1, <1>3, <1>6 DEF Inv, Holds
<1>8. \E e : Contained(e)
  BY <1>3, <1>6, QuietContained
<1> QED
  BY <1>2, <1>4, <1>5, <1>7, <1>8 DEF Inv

LEMMA Invariance == Spec => []Inv
<1>1. Inv /\ [Next]_vars => Inv'
  BY StepsContained, Stuttering
<1> QED
  BY <1>1, Initially, PTL DEF Spec

-----------------------------------------------------------------------------
(* The theorems.                                                           *)

\* Every variable has its type, in every run of any number of controllers.
THEOREM TypeCorrect == Spec => []TypeOK
<1>1. Inv => TypeOK
  <2> SUFFICES ASSUME Inv
               PROVE  TypeOK
    OBVIOUS
  <2>1. LogTypeOK
    BY DEF Inv, LogInv
  <2>2. view \in [ok: BOOLEAN, run: [Execution -> Run], boundary: [Execution -> Boundary]]
    BY DEF Inv, ViewFits, Coherent
  <2>3. todo \subseteq Execution
    BY DEF Inv, ViewFits, Unreleased
  <2>4. at \in [Process -> {"down", "leased", "resolving", "recovering", "idle",
          "spawned", "prepared", "suspended", "established", "waiting", "emptying",
          "empty", "doubtful", "released", "halting", "shutdown", "restoring",
          "closing", "unlocking", "leaving", "gone"}]
    <3>1. Phase = {"down", "leased", "resolving", "recovering", "idle",
          "spawned", "prepared", "suspended", "established", "waiting", "emptying",
          "empty", "doubtful", "released", "halting", "shutdown", "restoring",
          "closing", "unlocking", "leaving", "gone"}
      BY DEF Phase, Owning
    <3> QED
      BY <3>1 DEF Inv, HostTypeOK, Phase
  <2> QED
    BY <2>1, <2>2, <2>3, <2>4 DEF Inv, HostTypeOK, TypeOK
<1> QED
  BY <1>1, Invariance, PTL

\* No process of an engine is alive while a controller repairs the workspace, checks
\* out a branch, snapshots the residue or restores the target branch (main.py,
\* reconciler.py, loop.py): whoever is killed, whenever, and whichever append fails.
THEOREM QuietWorkspace == Spec => []WorkspaceQuiet
<1>1. Inv => WorkspaceQuiet
  <2> SUFFICES ASSUME Inv, NEW c \in Process, at[c] \in Touching
               PROVE  \A x \in Execution : ~Live(x)
    BY DEF WorkspaceQuiet
  <2>1. at[c] \in Owning \ Holding
    BY DEF Touching, Owning, Holding
  <2> QED
    BY <2>1, NoneLive DEF Inv
<1> QED
  BY <1>1, Invariance, PTL

\* No crash and no failed append leaves a log in which the strict replay of the
\* containment events fails (projections.py): while no handle that has raised is
\* used again, and even then for as long as the scan accepts the log.
THEOREM BoundariesReplayed == Spec => []BoundariesReplay
<1>1. Inv => BoundariesReplay
  BY DEF Inv, LogInv, DurableLog, Recorded, Coherent, BoundariesReplay
<1> QED
  BY <1>1, Invariance, PTL

-----------------------------------------------------------------------------
(* Containment implements Quarantine.                                      *)

Living == {x \in Execution : Live(x)}
Records == <<OnRecord("Prepared"), Living, OnRecord("Released")>>

LEMMA Opens ==
  ASSUME NEW x \in Execution, OnRecord("Prepared") \subseteq OnRecord("Released"),
         OnRecord("Prepared")' = OnRecord("Prepared") \cup {x},
         UNCHANGED <<Living, OnRecord("Released")>>
  PROVE  Promise!Next
BY DEF Promise!Next, Promise!Open, Living

LEMMA Certifies ==
  ASSUME NEW x \in Execution, x \in OnRecord("Prepared"), x \notin Living,
         OnRecord("Released")' = OnRecord("Released") \cup {x},
         UNCHANGED <<Living, OnRecord("Prepared")>>
  PROVE  Promise!Next
BY DEF Promise!Next, Promise!Certify, Living

LEMMA Launches ==
  ASSUME NEW x \in Execution, x \in OnRecord("Prepared"), x \notin OnRecord("Released"),
         Living = {}, Living' = {x}, UNCHANGED <<OnRecord("Prepared"), OnRecord("Released")>>
  PROVE  Promise!Next
BY DEF Promise!Next, Promise!Launch, Living

LEMMA Vacates ==
  ASSUME Living' = {}, UNCHANGED <<OnRecord("Prepared"), OnRecord("Released")>>
  PROVE  Promise!Next
BY DEF Promise!Next, Promise!Vacate, Living

LEMMA ContainedMoves ==
  ASSUME Inv, NEW e, Contained(e)
  PROVE  Promise!Next \/ UNCHANGED Records
<1>1. Living' \subseteq Living
  BY DEF Contained, Living
<1>2. CASE Living = {}
  <2>1. UNCHANGED Living
    BY <1>1, <1>2
  <2>2. CASE UNCHANGED <<OnRecord("Prepared"), OnRecord("Released")>>
    BY <2>1, <2>2 DEF Records
  <2>3. ASSUME NEW x \in Execution,
               OnRecord("Prepared") \subseteq OnRecord("Released"),
               OnRecord("Prepared")' = OnRecord("Prepared") \cup {x},
               OnRecord("Released")' = OnRecord("Released")
        PROVE  Promise!Next
    BY <2>1, <2>3, Opens
  <2>4. ASSUME NEW x \in Execution, x \in OnRecord("Prepared"),
               OnRecord("Released")' = OnRecord("Released") \cup {x},
               OnRecord("Prepared")' = OnRecord("Prepared")
        PROVE  Promise!Next
    BY <1>2, <2>1, <2>4, Certifies
  <2> QED
    BY <2>2, <2>3, <2>4 DEF Contained, Marked
<1>3. CASE Living # {}
  <2>1. UNCHANGED <<OnRecord("Prepared"), OnRecord("Released")>>
    BY <1>3 DEF Contained, Marked, Living
  <2>2. \A x, y \in Living : x = y
    BY DEF Inv, Holds, Living
  <2>3. Living' = {} \/ Living' = Living
    BY <1>1, <2>2
  <2> QED
    BY <2>1, <2>3, Vacates DEF Records
<1> QED
  BY <1>2, <1>3

\* The engine starts, or goes on: its boundary is on record and not certified.
LEMMA LaunchMoves ==
  ASSUME Inv, NEW c \in Process, CreateRoot(c) \/ Resume(c)
  PROVE  Promise!Next \/ UNCHANGED Records
<1>1. /\ at[c] \in {"prepared", "established"} /\ UNCHANGED <<log, others>>
      /\ root' = [root EXCEPT ![Current] = IF at[c] = "prepared" THEN "suspended" ELSE "running"]
  BY DEF CreateRoot, Resume, Quietly
<1>2. UNCHANGED file /\ UNCHANGED <<OnRecord("Prepared"), OnRecord("Released")>>
  <2>1. UNCHANGED file
    BY <1>1 DEF log
  <2> QED
    BY <2>1, FileKept
<1>3. at[c] \in Healthy /\ at[c] \in Writing /\ at[c] \in DOMAIN Stage
  BY <1>1, Stages DEF Healthy, Writing, Owning
<1>4. Current \in Execution /\ view.boundary[Current] \notin {"NONE", "RELEASED"}
  BY <1>1, <1>3, AtStage, Stages
<1>5. Contiguous(file) /\ view = Replay(file)
  BY <1>3, Writer DEF Inv, Owns, HandleFits
<1>6. Current \in OnRecord("Prepared") /\ Current \notin OnRecord("Released")
  BY <1>4, <1>5 DEF Inv, Recorded
<1>7. Living \subseteq {Current}
  BY DEF Inv, Holds, Living
<1>8. Living' = {Current}
  <2>1. \A x \in Execution : /\ x # Current => (Live(x)' = Live(x))
                             /\ x = Current => Live(x)'
    BY <1>1, <1>4 DEF Live, Inv, HostTypeOK
  <2> QED
    BY <1>4, <1>7, <2>1 DEF Living
<1>9. Living = {} \/ Living = {Current}
  BY <1>7
<1> QED
  BY <1>2, <1>4, <1>6, <1>8, <1>9, Launches DEF Records

\* The records and the engine's processes keep the promise of Quarantine: a boundary
\* is on record before the execution has a process, it is certified only when it has
\* none, and no boundary is opened before every earlier one is certified.
THEOREM Quarantined == Spec => QuarantineSpec
<1>1. Init => Promise!Init
  <2> SUFFICES ASSUME Init
               PROVE  Promise!Init
    OBVIOUS
  <2>1. DOMAIN file = {}
    BY NoLine, LenProperties DEF Init, LogInit
  <2> QED
    BY <2>1 DEF Init, Promise!Init, OnRecord, Live
<1>2. Inv /\ [Next]_vars => [Promise!Next]_Records
  BY StepsContained, Stuttering, ContainedMoves, LaunchMoves
<1>3. Inv /\ [Next]_vars =>
        [Promise!Next]_<<OnRecord("Prepared"), {x \in Execution : Live(x)}, OnRecord("Released")>>
  BY <1>2 DEF Records, Living
<1> QED
  BY <1>1, <1>3, Invariance, PTL DEF Spec, QuarantineSpec, Promise!Spec

\* What the docstring of events/log.py promises holds under everything that opens,
\* writes, closes and abandons the log here: the log of Containment is EventLog's.
THEOREM Durable == Spec => []DurableLog
<1>1. Inv => DurableLog
  BY DEF Inv, LogInv
<1> QED
  BY <1>1, Invariance, PTL

=============================================================================
