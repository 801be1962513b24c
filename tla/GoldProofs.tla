----------------------------- MODULE GoldProofs -----------------------------
(***************************************************************************)
(* Proofs about query 1 for every set of users, window length, delay, Ttl  *)
(* and bound: nothing is dropped, keys are exact, and what Redis holds is  *)
(* the abstract store its readers rely on.                                 *)
(***************************************************************************)
EXTENDS GoldProperties, WindowedCountsProofs

USE WindowLenAssumption, GoldAssumption

(* The aggregates a batch computes are counts.                             *)
LEMMA CountIsNat ==
    ASSUME TypeOK, NEW u \in Users, NEW s \in Starts, NEW hi \in Nat
    PROVE  Count(u, s, hi) \in Nat
<1>1. state[u][s] \in Nat
  BY DEF TypeOK
<1>2. Cardinality(InWindow(u, s, committed + 1, hi)) \in Nat
  BY InWindowCard DEF TypeOK
<1> QED
  BY <1>1, <1>2 DEF Count

(* The rows given to foreachBatch are well formed, one per user with an    *)
(* emitted window.                                                         *)
LEMMA BatchRowsType ==
    ASSUME TypeOK, NEW hi \in Nat
    PROVE  BatchRows(hi) \subseteq Rows
<1> SUFFICES ASSUME NEW u \in Users, Touched(u, hi) # {}
             PROVE  [user |-> u, start |-> TrailingStart(Touched(u, hi)),
                     cnt |-> Count(u, TrailingStart(Touched(u, hi)), hi)] \in Rows
  BY DEF BatchRows
<1>1. /\ 1 - WindowLen \in Int /\ MaxNow \in Int
      /\ Touched(u, hi) \in SUBSET ((1 - WindowLen) .. MaxNow)
  BY DEF Touched, Starts
<1>2. TrailingStart(Touched(u, hi)) \in Touched(u, hi)
  BY <1>1, TrailingStartIsEmitted
<1>3. TrailingStart(Touched(u, hi)) \in Starts
  BY <1>1, <1>2 DEF Starts
<1>4. Count(u, TrailingStart(Touched(u, hi)), hi) \in Nat
  BY <1>3, CountIsNat
<1> QED
  BY <1>3, <1>4 DEF Rows

(* The newest event time of the committed batches is that of one of them.  *)
LEMMA NewMaxTime ==
    ASSUME TypeOK
    PROVE  LET T == {log[i].time : i \in committed + 1 .. planned}
               m == Max({maxTime} \cup T)
           IN  /\ m \in 0 .. MaxNow
               /\ m >= maxTime
               /\ m \in {maxTime} \cup T
<1> DEFINE T == {log[i].time : i \in committed + 1 .. planned}
           S == {maxTime} \cup T
<1>1. \A i \in committed + 1 .. planned : log[i].time \in 0 .. MaxNow
  <2> SUFFICES ASSUME NEW i \in committed + 1 .. planned
               PROVE  log[i].time \in 0 .. MaxNow
    OBVIOUS
  <2>1. i \in 1 .. Len(log)
    BY DEF TypeOK
  <2>2. log[i] \in Records
    BY <2>1 DEF TypeOK
  <2> QED
    BY <2>2 DEF Records
<1>2. S \in SUBSET (0 .. MaxNow) /\ S # {}
  BY <1>1 DEF TypeOK
<1>3. S \in SUBSET Int /\ (\A s \in S : s <= MaxNow) /\ MaxNow \in Int
  BY <1>2
<1>4. Max(S) \in S /\ \A y \in S : y <= Max(S)
  BY <1>2, <1>3, MaxOfBounded
<1> QED
  BY <1>2, <1>4 DEF TypeOK

-----------------------------------------------------------------------------
(* Type correctness of query 1: TypeOK is inductive.                       *)
LEMMA InitTypeOK == Init => TypeOK
<1> SUFFICES ASSUME Init PROVE TypeOK
  OBVIOUS
<1>1. log \in Seq(Records) /\ Len(log) = 0
  BY DEF Init, InitAggregation
<1>2. state \in [Users -> [Starts -> Nat]]
  BY DEF Init, InitAggregation
<1>3. DOMAIN gold \subseteq ValidUsers /\ gold \in [DOMAIN gold -> Entries]
  <2>1. gold = [u \in {} |-> {}]
    BY DEF Init, InitAggregation
  <2>2. DOMAIN gold = {}
    BY <2>1
  <2>3. gold \in [{} -> Entries]
    BY <2>1
  <2> QED
    BY <2>2, <2>3
<1>4. committed \in 0 .. planned /\ planned \in 0 .. Len(log)
  BY <1>1 DEF Init, InitAggregation
<1>5. accounted \in [Users -> Nat] /\ refused \subseteq 1 .. planned
  BY DEF Init, InitAggregation
<1>6. /\ now \in 0 .. MaxNow /\ maxTime \in 0 .. MaxNow
      /\ crashes \in 0 .. MaxCrashes /\ wm \in Nat
  BY DEF Init, InitAggregation
<1>7. /\ inFlight \in BOOLEAN /\ (~inFlight => committed = planned)
      /\ phase \in {"down", "up", "writing"} /\ (phase = "writing" => inFlight)
      /\ rows \subseteq Rows /\ (phase # "writing" => rows = {})
  BY DEF Init, InitAggregation
<1> QED
  BY <1>1, <1>2, <1>3, <1>4, <1>5, <1>6, <1>7 DEF TypeOK

LEMMA NextTypeOK == TypeOK /\ [Next]_vars => TypeOK'
<1> SUFFICES ASSUME TypeOK, [Next]_vars PROVE TypeOK'
  OBVIOUS
<1> USE DEF checkpoint
<1>1. ASSUME NEW u \in Users, NEW t \in 0 .. MaxNow, Produce(u, t)
      PROVE  TypeOK'
  <2>1. [user |-> u, time |-> t] \in Records
    BY DEF Records
  <2>2. log' \in Seq(Records) /\ Len(log') = Len(log) + 1
    BY <1>1, <2>1 DEF Produce, TypeOK
  <2> QED
    BY <1>1, <2>2 DEF Produce, TypeOK
<1>2. CASE PlanBatch
  <2>1. Len(log) \in Nat
    BY DEF TypeOK
  <2>2. rows' \subseteq Rows
    BY <1>2, <2>1, BatchRowsType DEF PlanBatch
  <2> QED
    BY <1>2, <2>1, <2>2 DEF PlanBatch, TypeOK
<1>3. CASE ReplayBatch
  <2>1. planned \in Nat
    BY DEF TypeOK
  <2>2. rows' \subseteq Rows
    BY <1>3, <2>1, BatchRowsType DEF ReplayBatch
  <2> QED
    BY <1>3, <2>2 DEF ReplayBatch, TypeOK
<1>4. ASSUME NEW r \in rows, WriteRow(r)
      PROVE  TypeOK'
  <2>1. r \in Rows
    BY DEF TypeOK
  <2>2. [start |-> r.start, cnt |-> r.cnt,
         expires |-> now + Ttl, upto |-> planned] \in Entries
    BY <2>1 DEF Rows, Entries, TypeOK
  <2>3. DOMAIN gold' = DOMAIN gold \cup {r.user}
    BY <1>4 DEF WriteRow
  <2>4. gold' \in [DOMAIN gold' -> Entries] /\ DOMAIN gold' \subseteq ValidUsers
    BY <1>4, <2>2, <2>3 DEF WriteRow, TypeOK
  <2>5. accounted' \in [Users -> Nat]
    BY <1>4, <2>1 DEF WriteRow, TypeOK, Rows
  <2> QED
    BY <1>4, <2>4, <2>5 DEF WriteRow, TypeOK
<1>5. ASSUME NEW r \in rows, QuarantineRow(r)
      PROVE  TypeOK'
  <2>1. accounted' \in [Users -> Nat]
    BY <1>5 DEF QuarantineRow, TypeOK, Rows
  <2> QED
    BY <1>5, <2>1 DEF QuarantineRow, TypeOK
<1>6. ASSUME NEW r \in rows, RaiseOnRow(r)
      PROVE  TypeOK'
  BY <1>6 DEF RaiseOnRow, TypeOK
<1>7. CASE CommitBatch
  <2>1. \A u \in Users, s \in Starts : Count(u, s, planned) \in Nat
    BY CountIsNat DEF TypeOK
  <2>2. state' \in [Users -> [Starts -> Nat]]
    BY <1>7, <2>1 DEF CommitBatch, CommitAggregation
  <2>3. wm' \in Nat
    BY <1>7, EvictWmIsMax DEF CommitBatch, CommitAggregation, TypeOK
  <2>4. maxTime' \in 0 .. MaxNow
    BY <1>7, NewMaxTime DEF CommitBatch, CommitAggregation
  <2>5. committed' \in 0 .. planned' /\ planned' \in 0 .. Len(log')
    BY <1>7 DEF CommitBatch, CommitAggregation, TypeOK
  <2>6. /\ inFlight' = FALSE /\ committed' = planned' /\ phase' = "up"
        /\ rows' = {}
    BY <1>7 DEF CommitBatch, CommitAggregation
  <2>7. /\ now' \in 0 .. MaxNow /\ log' \in Seq(Records)
        /\ DOMAIN gold' \subseteq ValidUsers
        /\ gold' \in [DOMAIN gold' -> Entries]
        /\ accounted' \in [Users -> Nat] /\ crashes' \in 0 .. MaxCrashes
        /\ refused' \subseteq 1 .. planned'
    BY <1>7 DEF CommitBatch, CommitAggregation, TypeOK
  <2> QED
    BY <2>2, <2>3, <2>4, <2>5, <2>6, <2>7 DEF TypeOK
<1>8. CASE Crash
  BY <1>8 DEF Crash, TypeOK
<1>9. CASE Restart
  BY <1>9 DEF Restart, TypeOK
<1>10. CASE Tick
  <2>1. now' \in 0 .. MaxNow
    BY <1>10 DEF Tick, TypeOK
  <2>2. DOMAIN gold' \subseteq DOMAIN gold
    BY <1>10 DEF Tick
  <2>3. gold' \in [DOMAIN gold' -> Entries]
    BY <1>10, <2>2 DEF Tick, TypeOK
  <2> QED
    BY <1>10, <2>1, <2>2, <2>3 DEF Tick, TypeOK
<1>11. CASE UNCHANGED vars
  BY <1>11 DEF vars, TypeOK
<1> QED
  BY <1>1, <1>2, <1>3, <1>4, <1>5, <1>6, <1>7, <1>8, <1>9, <1>10, <1>11
     DEF Next, HandleRow, Idle

(* Query 1 never leaves its types, whatever the bounds.                    *)
THEOREM TypeCorrect == Spec => []TypeOK
BY InitTypeOK, NextTypeOK, PTL DEF Spec

-----------------------------------------------------------------------------
(* Lateness.  Reading a record of the log, before and after an append.     *)
LEMMA LogEntry ==
    ASSUME log \in Seq(Records), NEW i \in 1 .. Len(log)
    PROVE  /\ log[i] \in Records
           /\ log[i].user \in Users
           /\ log[i].time \in 0 .. MaxNow
<1>1. log[i] \in Records
  OBVIOUS
<1> QED
  BY <1>1 DEF Records

LEMMA AppendKeeps ==
    ASSUME log \in Seq(Records), NEW u \in Users, NEW t \in 0 .. MaxNow,
           Produce(u, t)
    PROVE  /\ log' \in Seq(Records)
           /\ Len(log') = Len(log) + 1
           /\ \A i \in 1 .. Len(log) : log'[i] = log[i]
           /\ log'[Len(log) + 1] = [user |-> u, time |-> t]
<1> DEFINE e == [user |-> u, time |-> t]
<1>1. e \in Records
  BY DEF Records
<1>2. log' = Append(log, e)
  BY DEF Produce
<1> HIDE DEF e
<1>3. /\ log' \in Seq(Records)
      /\ Len(log') = Len(log) + 1
      /\ \A i \in 1 .. Len(log) : log'[i] = log[i]
      /\ log'[Len(log) + 1] = e
  BY <1>1, <1>2
<1> QED
  BY <1>3 DEF e

LEMMA InitLate == Init => LateInv
<1> SUFFICES ASSUME Init PROVE LateInv
  OBVIOUS
<1>1. Len(log) = 0 /\ maxTime = 0 /\ wm = 0 /\ now = 0 /\ committed = 0
  BY DEF Init, InitAggregation
<1>2. LogOrder
  BY <1>1 DEF LogOrder
<1>3. WatermarkBound
  BY <1>1 DEF WatermarkBound
<1> QED
  BY <1>2, <1>3, InitTypeOK DEF LateInv

LEMMA ProduceLate ==
    ASSUME LateInv, NEW u \in Users, NEW t \in 0 .. MaxNow, Produce(u, t)
    PROVE  LogOrder' /\ WatermarkBound'
<1> USE DEF LateInv
<1>1. /\ Len(log) \in Nat
      /\ Len(log') = Len(log) + 1
      /\ \A i \in 1 .. Len(log) : log'[i] = log[i]
      /\ log'[Len(log) + 1].time = t
  <2>1. log \in Seq(Records) /\ Produce(u, t)
    BY DEF TypeOK
  <2>2. /\ Len(log') = Len(log) + 1
        /\ \A i \in 1 .. Len(log) : log'[i] = log[i]
        /\ log'[Len(log) + 1] = [user |-> u, time |-> t]
    BY <2>1, AppendKeeps
  <2> QED
    BY <2>1, <2>2
<1>2. /\ now \in Nat /\ t \in Nat /\ t <= now /\ now <= t + MaxLate
      /\ now' = now /\ maxTime' = maxTime /\ wm' = wm
      /\ committed' = committed
  BY DEF Produce, checkpoint, TypeOK
<1>3. LogOrder'
  <2> SUFFICES ASSUME NEW i \in 1 .. Len(log')
               PROVE  /\ log'[i].time <= now'
                      /\ \A j \in 1 .. i : log'[j].time <= log'[i].time + MaxLate
    BY DEF LogOrder
  <2>1. CASE i \in 1 .. Len(log)
    <3>1. \A j \in 1 .. i : log'[j] = log[j]
      BY <1>1, <2>1
    <3> QED
      BY <1>1, <1>2, <2>1, <3>1 DEF LogOrder
  <2>2. CASE i = Len(log) + 1
    <3>1. log'[i].time = t
      BY <1>1, <2>2
    <3>2. ASSUME NEW j \in 1 .. i PROVE log'[j].time <= t + MaxLate
      <4>1. CASE j = i
        BY <1>2, <3>1, <4>1
      <4>2. CASE j \in 1 .. Len(log)
        <5>1. log'[j] = log[j] /\ log[j].time <= now /\ log[j].time \in Nat
          BY <1>1, <4>2, LogEntry DEF LogOrder, TypeOK
        <5> QED
          BY <1>2, <5>1
      <4> QED
        BY <1>1, <2>2, <4>1, <4>2
    <3> QED
      BY <1>2, <3>1, <3>2
  <2> QED
    BY <1>1, <2>1, <2>2
<1>4. WatermarkBound'
  <2>1. ASSUME NEW i \in committed' + 1 .. Len(log')
        PROVE  maxTime' <= log'[i].time + MaxLate
    <3>1. committed \in Nat
      BY DEF TypeOK
    <3>2. CASE i = Len(log) + 1
      BY <1>1, <1>2, <3>2 DEF WatermarkBound, TypeOK
    <3>3. CASE i \in committed + 1 .. Len(log)
      <4>1. log'[i] = log[i]
        BY <1>1, <3>1, <3>3
      <4> QED
        BY <1>2, <3>3, <4>1 DEF WatermarkBound
    <3> QED
      BY <1>1, <1>2, <3>1, <3>2, <3>3
  <2> QED
    BY <1>2, <2>1 DEF WatermarkBound
<1> QED
  BY <1>3, <1>4

LEMMA CommitLate ==
    ASSUME LateInv, CommitBatch
    PROVE  LogOrder' /\ WatermarkBound'
<1> USE DEF LateInv
<1> DEFINE T == {log[i].time : i \in committed + 1 .. planned}
           m == Max({maxTime} \cup T)
<1>1. /\ log' = log /\ now' = now /\ committed' = planned
      /\ wm' = EvictWm /\ maxTime' = m
  BY DEF CommitBatch, CommitAggregation
<1>2. m \in 0 .. MaxNow /\ m >= maxTime /\ m \in {maxTime} \cup T
  BY NewMaxTime
<1>3. wm \in Nat /\ maxTime \in Nat /\ now \in Nat
  BY DEF TypeOK
<1> HIDE DEF m
<1>4. LogOrder'
  BY <1>1 DEF LogOrder
<1>5. m <= now
  <2>1. ASSUME NEW i \in committed + 1 .. planned PROVE log[i].time <= now
    <3>1. i \in 1 .. Len(log)
      BY DEF TypeOK
    <3> QED
      BY <3>1 DEF LogOrder
  <2> QED
    BY <1>2, <2>1 DEF WatermarkBound
<1>6. wm' = 0 \/ wm' + WatermarkDelay <= m
  <2>1. EvictWm \in {wm, maxTime - WatermarkDelay}
    BY <1>3, EvictWmIsMax
  <2>2. CASE EvictWm = wm
    BY <1>1, <1>2, <1>3, <2>2 DEF WatermarkBound
  <2>3. CASE EvictWm = maxTime - WatermarkDelay
    BY <1>1, <1>2, <1>3, <2>3
  <2> QED
    BY <2>1, <2>2, <2>3
<1>7. ASSUME NEW i \in planned + 1 .. Len(log)
      PROVE  m <= log[i].time + MaxLate
  <2>1. i \in 1 .. Len(log) /\ i \in committed + 1 .. Len(log) /\ i \in Nat
    BY DEF TypeOK
  <2>2. maxTime <= log[i].time + MaxLate
    BY <2>1 DEF WatermarkBound
  <2>3. ASSUME NEW j \in committed + 1 .. planned
        PROVE  log[j].time <= log[i].time + MaxLate
    <3>1. j \in 1 .. i
      BY <2>1 DEF TypeOK
    <3> QED
      BY <2>1, <3>1 DEF LogOrder
  <2> QED
    BY <1>2, <2>2, <2>3
<1> QED
  BY <1>1, <1>4, <1>5, <1>6, <1>7 DEF WatermarkBound

LEMMA NextLate == LateInv /\ [Next]_vars => LateInv'
<1> SUFFICES ASSUME LateInv, [Next]_vars PROVE LogOrder' /\ WatermarkBound'
  BY NextTypeOK DEF LateInv
<1> USE DEF LateInv, LogOrder, WatermarkBound, checkpoint
<1>1. ASSUME NEW u \in Users, NEW t \in 0 .. MaxNow, Produce(u, t)
      PROVE  LogOrder' /\ WatermarkBound'
  BY <1>1, ProduceLate
<1>2. CASE PlanBatch
  BY <1>2 DEF PlanBatch
<1>3. CASE ReplayBatch
  BY <1>3 DEF ReplayBatch
<1>4. CASE HandleRow
  BY <1>4 DEF HandleRow, WriteRow, QuarantineRow, RaiseOnRow
<1>5. CASE CommitBatch
  BY <1>5, CommitLate
<1>6. CASE Crash \/ Restart
  BY <1>6 DEF Crash, Restart
<1>7. CASE Tick
  <2>1. /\ now' = now + 1 /\ log' = log /\ maxTime' = maxTime /\ wm' = wm
        /\ committed' = committed /\ now \in Nat /\ maxTime \in Nat
    BY <1>7 DEF Tick, TypeOK
  <2>2. LogOrder'
    <3>1. \A i \in 1 .. Len(log) : log[i].time \in Nat
      BY LogEntry DEF TypeOK
    <3> QED
      BY <2>1, <3>1
  <2>3. WatermarkBound'
    BY <2>1
  <2> QED
    BY <2>2, <2>3
<1>8. CASE UNCHANGED vars
  BY <1>8 DEF vars
<1> QED
  BY <1>1, <1>2, <1>3, <1>4, <1>5, <1>6, <1>7, <1>8 DEF Next, Idle

(* An uncommitted record is younger than the late filter of the running    *)
(* batch.                                                                  *)
LEMMA LateInvImpliesNothingLate ==
    ASSUME MaxLate <= WatermarkDelay, LateInv
    PROVE  NothingLate
<1> SUFFICES ASSUME NEW i \in committed + 1 .. Len(log),
                    NEW s \in WindowStarts(log[i].time)
             PROVE  WindowEnd(s) > wm
  BY DEF NothingLate, Late, WindowEnd, WindowStarts, LateInv, TypeOK
<1>1. i \in 1 .. Len(log) /\ log \in Seq(Records)
  BY DEF LateInv, TypeOK
<1>2. log[i].time \in Nat
  BY <1>1, LogEntry
<1>3. WindowEnd(s) > log[i].time
  BY <1>2 DEF WindowStarts, WindowEnd
<1>4. wm <= log[i].time
  <2>1. wm \in Nat /\ maxTime \in Nat
    BY DEF LateInv, TypeOK
  <2>2. maxTime <= log[i].time + MaxLate
    BY DEF LateInv, WatermarkBound
  <2>3. CASE wm = 0
    BY <1>2, <2>3
  <2>4. CASE wm + WatermarkDelay <= maxTime
    BY <1>2, <2>1, <2>2, <2>4
  <2> QED
    BY <2>3, <2>4 DEF LateInv, WatermarkBound
<1>5. WindowEnd(s) \in Int /\ wm \in Int
  BY <1>2 DEF WindowStarts, WindowEnd, LateInv, TypeOK
<1> QED
  BY <1>2, <1>3, <1>4, <1>5

(* No record loses a window to the watermark while records are overtaken   *)
(* by at most the watermark delay: for every delay, window length and      *)
(* arrival order.                                                          *)
THEOREM WatermarkLosesNothing ==
    ASSUME MaxLate <= WatermarkDelay
    PROVE  Spec => []NothingLate
<1>1. LateInv => NothingLate
  BY LateInvImpliesNothingLate
<1> QED
  BY <1>1, InitLate, NextLate, PTL DEF Spec

-----------------------------------------------------------------------------
(* What is written.  Every record of a planned batch gives its user a row. *)
LEMMA BatchRowsCover ==
    ASSUME TypeOK, NothingLate, NEW hi \in 0 .. Len(log),
           NEW i \in committed + 1 .. hi
    PROVE  \E r \in BatchRows(hi) : r.user = log[i].user
<1> DEFINE u == log[i].user
           s == log[i].time
<1>1. i \in 1 .. Len(log) /\ i \in committed + 1 .. Len(log)
  BY DEF TypeOK
<1>2. u \in Users /\ s \in 0 .. MaxNow
  BY <1>1, LogEntry DEF TypeOK
<1>3. s \in WindowStarts(log[i].time) /\ s \in Starts
  BY <1>2 DEF WindowStarts, Starts
<1>4. ~Late(s)
  BY <1>1, <1>3 DEF NothingLate
<1>5. i \in InWindow(u, s, committed + 1, hi)
  BY <1>3 DEF InWindow
<1>6. Touched(u, hi) # {}
  BY <1>3, <1>4, <1>5 DEF Touched
<1> HIDE DEF u, s
<1> DEFINE r == [user |-> u, start |-> TrailingStart(Touched(u, hi)),
                 cnt |-> Count(u, TrailingStart(Touched(u, hi)), hi)]
<1>7. r \in BatchRows(hi)
  BY <1>2, <1>6 DEF BatchRows
<1>8. r.user = u
  OBVIOUS
<1> QED
  BY <1>7, <1>8 DEF u

LEMMA InitServed == Init => ServedInv
<1> SUFFICES ASSUME Init PROVE ServedInv
  OBVIOUS
<1>1. /\ Len(log) = 0 /\ committed = 0 /\ planned = 0 /\ phase = "up"
      /\ accounted = [u \in Users |-> 0]
  BY DEF Init, InitAggregation
<1>2. DOMAIN gold = {}
  <2>1. gold = [u \in {} |-> {}]
    BY DEF Init, InitAggregation
  <2> QED
    BY <2>1
<1>3. NothingSilentlyDropped /\ BatchCovered
  BY <1>1 DEF NothingSilentlyDropped, BatchCovered
<1>4. KeysAreCurrent
  BY <1>1, <1>2 DEF KeysAreCurrent
<1> QED
  BY <1>3, <1>4, InitLate DEF ServedInv

(* The parts of ServedInv that are not LateInv.                            *)
LEMMA ProduceServed ==
    ASSUME ServedInv, NEW u \in Users, NEW t \in 0 .. MaxNow, Produce(u, t)
    PROVE  NothingSilentlyDropped' /\ BatchCovered' /\ KeysAreCurrent'
<1>1. /\ log \in Seq(Records) /\ Len(log) \in Nat
      /\ planned \in 0 .. Len(log) /\ committed \in 0 .. planned
  BY DEF ServedInv, LateInv, TypeOK
<1>2. /\ Len(log') = Len(log) + 1
      /\ \A i \in 1 .. Len(log) : log'[i] = log[i]
      /\ log'[Len(log) + 1] = [user |-> u, time |-> t]
  BY <1>1, AppendKeeps
<1>3. /\ committed' = committed /\ planned' = planned /\ phase' = phase
      /\ rows' = rows /\ gold' = gold /\ accounted' = accounted
      /\ now' = now /\ refused' = refused
  BY DEF Produce, checkpoint
<1>4. NothingSilentlyDropped'
  BY <1>1, <1>2, <1>3 DEF ServedInv, NothingSilentlyDropped
<1>5. BatchCovered'
  <2>1. \A i \in committed + 1 .. planned : log'[i] = log[i]
    BY <1>1, <1>2
  <2> QED
    BY <1>3, <2>1 DEF ServedInv, BatchCovered
<1>6. KeysAreCurrent'
  <2>1. ASSUME NEW i \in 1 .. Len(log'), i <= accounted[log'[i].user],
               log'[i].user \in Users
        PROVE  i \in 1 .. Len(log)
    <3>1. accounted[log'[i].user] <= planned
      BY <2>1 DEF ServedInv, KeysAreCurrent
    <3>2. accounted[log'[i].user] \in Nat
      BY <2>1 DEF ServedInv, LateInv, TypeOK
    <3> QED
      BY <1>1, <1>2, <2>1, <3>1, <3>2
  <2>2. ASSUME NEW i \in (1 .. Len(log')) \ refused',
               log'[i].user \in ValidUsers,
               i <= accounted'[log'[i].user],
               now' < log'[i].time + Ttl
        PROVE  /\ log'[i].user \in DOMAIN gold'
               /\ gold'[log'[i].user].upto >= i
               /\ gold'[log'[i].user].expires >= log'[i].time + Ttl
    <3>1. i \in (1 .. Len(log)) \ refused
      BY <1>3, <2>1, <2>2 DEF Users
    <3> QED
      BY <1>2, <1>3, <2>2, <3>1 DEF ServedInv, KeysAreCurrent
  <2>3. \A v \in Users : accounted'[v] <= planned'
    BY <1>3 DEF ServedInv, KeysAreCurrent
  <2> QED
    BY <2>2, <2>3 DEF KeysAreCurrent
<1> QED
  BY <1>4, <1>5, <1>6

(* A batch starts, for the first time or again, with a row for each of its *)
(* records.                                                                *)
LEMMA StartServed ==
    ASSUME MaxLate <= WatermarkDelay, ServedInv, PlanBatch \/ ReplayBatch
    PROVE  NothingSilentlyDropped' /\ BatchCovered' /\ KeysAreCurrent'
<1>1. NothingLate
  BY LateInvImpliesNothingLate DEF ServedInv
<1>2. /\ committed' = committed /\ gold' = gold /\ accounted' = accounted
      /\ log' = log /\ now' = now /\ refused' = refused
      /\ planned' \in 0 .. Len(log) /\ planned' >= planned
      /\ planned \in Nat
      /\ rows' = BatchRows(planned')
  BY DEF PlanBatch, ReplayBatch, checkpoint, ServedInv, LateInv, TypeOK
<1>3. NothingSilentlyDropped'
  BY <1>2 DEF ServedInv, NothingSilentlyDropped
<1>4. BatchCovered'
  <2>1. \A i \in committed + 1 .. planned' :
            \E r \in BatchRows(planned') : r.user = log[i].user
    BY <1>1, <1>2, BatchRowsCover DEF ServedInv, LateInv
  <2> QED
    BY <1>2, <2>1 DEF BatchCovered
<1>5. KeysAreCurrent'
  <2>1. \A u \in Users : accounted[u] <= planned /\ accounted[u] \in Nat
    BY DEF ServedInv, KeysAreCurrent, LateInv, TypeOK
  <2>2. \A u \in Users : accounted[u] <= planned'
    BY <1>2, <2>1
  <2> QED
    BY <1>2, <2>2 DEF ServedInv, KeysAreCurrent
<1> QED
  BY <1>3, <1>4, <1>5

(* Handling a row accounts for its user and, if the row is valid, renews   *)
(* the user's key for Ttl.                                                 *)
LEMMA RowServed ==
    ASSUME ServedInv, NEW r \in rows, WriteRow(r) \/ QuarantineRow(r)
    PROVE  NothingSilentlyDropped' /\ BatchCovered' /\ KeysAreCurrent'
<1>1. /\ log \in Seq(Records) /\ now \in Nat
      /\ planned \in 0 .. Len(log) /\ committed \in 0 .. planned
      /\ accounted \in [Users -> Nat] /\ r.user \in Users
      /\ DOMAIN gold \subseteq ValidUsers
  BY DEF ServedInv, LateInv, TypeOK, Rows
<1>2. /\ rows' = rows \ {r} /\ log' = log /\ now' = now
      /\ planned' = planned /\ committed' = committed /\ phase' = phase
      /\ accounted' = [accounted EXCEPT ![r.user] = planned]
  BY DEF WriteRow, QuarantineRow, checkpoint
<1>3. \A u \in Users : accounted'[u] = IF u = r.user THEN planned ELSE accounted[u]
  BY <1>1, <1>2
<1>4. \A i \in 1 .. Len(log) : log[i].user \in Users /\ log[i].time \in Nat
  BY <1>1, LogEntry
<1>5. NothingSilentlyDropped'
  <2> SUFFICES ASSUME NEW i \in 1 .. committed
               PROVE  accounted'[log[i].user] >= i
    BY <1>2 DEF NothingSilentlyDropped
  <2>1. log[i].user \in Users /\ accounted[log[i].user] >= i
    BY <1>1, <1>4 DEF ServedInv, NothingSilentlyDropped
  <2> QED
    BY <1>1, <1>3, <2>1
<1>6. BatchCovered'
  <2> SUFFICES ASSUME phase = "writing", NEW i \in committed + 1 .. planned
               PROVE  \/ accounted'[log[i].user] >= planned
                      \/ \E q \in rows' : q.user = log[i].user
    BY <1>2 DEF BatchCovered
  <2>1. log[i].user \in Users
    BY <1>1, <1>4
  <2>2. CASE log[i].user = r.user
    BY <1>1, <1>3, <2>1, <2>2
  <2>3. CASE log[i].user # r.user
    <3>1. \/ accounted[log[i].user] >= planned
          \/ \E q \in rows : q.user = log[i].user
      BY DEF ServedInv, BatchCovered
    <3> QED
      BY <1>2, <1>3, <2>1, <2>3, <3>1
  <2> QED
    BY <2>2, <2>3
<1>7. KeysAreCurrent'
  <2>1. \A u \in Users : accounted'[u] <= planned'
    BY <1>1, <1>2, <1>3 DEF ServedInv, KeysAreCurrent
  <2>2. CASE WriteRow(r)
    <3> DEFINE e == [start |-> r.start, cnt |-> r.cnt,
                     expires |-> now + Ttl, upto |-> planned]
    <3>1. /\ DOMAIN gold' = DOMAIN gold \cup {r.user}
          /\ gold'[r.user] = e
          /\ \A u \in DOMAIN gold : u # r.user => gold'[u] = gold[u]
          /\ r.user \in ValidUsers
      BY <2>2 DEF WriteRow
    <3>2. refused' = {i \in refused : log[i].user # r.user}
      BY <2>2 DEF WriteRow
    <3>3. ASSUME NEW i \in (1 .. Len(log)) \ refused',
                 log[i].user \in ValidUsers,
                 i <= accounted'[log[i].user], now < log[i].time + Ttl
          PROVE  /\ log[i].user \in DOMAIN gold'
                 /\ gold'[log[i].user].upto >= i
                 /\ gold'[log[i].user].expires >= log[i].time + Ttl
      <4>1. log[i].user \in Users /\ log[i].time \in Nat /\ log[i].time <= now
        BY <1>4 DEF ServedInv, LateInv, LogOrder
      <4>2. CASE log[i].user = r.user
        <5>1. /\ gold'[log[i].user].expires = now + Ttl
              /\ gold'[log[i].user].upto = planned
          BY <3>1, <4>2
        <5>2. planned >= i
          BY <1>1, <1>3, <3>3, <4>1, <4>2
        <5> QED
          BY <1>1, <3>1, <4>1, <4>2, <5>1, <5>2
      <4>3. CASE log[i].user # r.user
        <5>1. i <= accounted[log[i].user]
          BY <1>3, <3>3, <4>1, <4>3
        <5>2. i \notin refused
          BY <3>2, <3>3, <4>3
        <5>3. /\ log[i].user \in DOMAIN gold
              /\ gold[log[i].user].upto >= i
              /\ gold[log[i].user].expires >= log[i].time + Ttl
          BY <3>3, <5>1, <5>2 DEF ServedInv, KeysAreCurrent
        <5> QED
          BY <3>1, <4>3, <5>3
      <4> QED
        BY <4>2, <4>3
    <3> QED
      BY <1>2, <2>1, <3>3 DEF KeysAreCurrent
  <2>3. CASE QuarantineRow(r)
    <3>1. /\ gold' = gold
          /\ refused' = refused \cup
                {i \in committed + 1 .. planned : log[i].user = r.user}
      BY <2>3 DEF QuarantineRow
    <3>2. ASSUME NEW i \in (1 .. Len(log)) \ refused',
                 log[i].user \in ValidUsers, i <= accounted'[log[i].user]
          PROVE  i \notin refused /\ i <= accounted[log[i].user]
      <4>1. log[i].user \in Users /\ accounted[log[i].user] \in Nat
        BY <1>1, <1>4
      <4>2. CASE log[i].user = r.user
        <5>1. i \in 1 .. committed
          BY <1>1, <1>3, <3>1, <3>2, <4>1, <4>2
        <5>2. accounted[log[i].user] >= i
          BY <5>1 DEF ServedInv, NothingSilentlyDropped
        <5> QED
          BY <3>1, <4>1, <5>2
      <4>3. CASE log[i].user # r.user
        BY <1>3, <3>1, <3>2, <4>1, <4>3
      <4> QED
        BY <4>2, <4>3
    <3>3. ASSUME NEW i \in (1 .. Len(log)) \ refused',
                 log[i].user \in ValidUsers,
                 i <= accounted'[log[i].user], now < log[i].time + Ttl
          PROVE  /\ log[i].user \in DOMAIN gold'
                 /\ gold'[log[i].user].upto >= i
                 /\ gold'[log[i].user].expires >= log[i].time + Ttl
      BY <3>1, <3>2, <3>3 DEF ServedInv, KeysAreCurrent
    <3> QED
      BY <1>2, <2>1, <3>3 DEF KeysAreCurrent
  <2> QED
    BY <2>2, <2>3
<1> QED
  BY <1>5, <1>6, <1>7

LEMMA CommitServed ==
    ASSUME ServedInv, CommitBatch
    PROVE  NothingSilentlyDropped' /\ BatchCovered' /\ KeysAreCurrent'
<1>1. /\ log' = log /\ now' = now /\ gold' = gold /\ accounted' = accounted
      /\ planned' = planned /\ committed' = planned /\ phase' = "up"
      /\ phase = "writing" /\ rows = {} /\ refused' = refused
  BY DEF CommitBatch, CommitAggregation
<1>2. /\ committed \in Nat /\ planned \in Nat
      /\ planned \in 0 .. Len(log) /\ Len(log) \in Nat
      /\ accounted \in [Users -> Nat] /\ log \in Seq(Records)
  BY DEF ServedInv, LateInv, TypeOK
<1>3. ASSUME NEW i \in 1 .. planned PROVE accounted[log[i].user] >= i
  <2>1. CASE i \in 1 .. committed
    BY <2>1 DEF ServedInv, NothingSilentlyDropped
  <2>2. CASE i \in committed + 1 .. planned
    <3>1. accounted[log[i].user] >= planned
      BY <1>1, <2>2 DEF ServedInv, BatchCovered
    <3>2. log[i].user \in Users
      BY <1>2, LogEntry
    <3> QED
      BY <1>2, <3>1, <3>2
  <2> QED
    BY <1>2, <2>1, <2>2
<1> QED
  BY <1>1, <1>3
     DEF ServedInv, NothingSilentlyDropped, BatchCovered, KeysAreCurrent

(* A key that Redis drops had outlived every accounted event by Ttl.       *)
LEMMA TickServed ==
    ASSUME ServedInv, Tick
    PROVE  NothingSilentlyDropped' /\ BatchCovered' /\ KeysAreCurrent'
<1>1. /\ log' = log /\ now' = now + 1 /\ accounted' = accounted
      /\ planned' = planned /\ committed' = committed /\ phase' = phase
      /\ rows' = rows /\ refused' = refused
  BY DEF Tick, checkpoint
<1>2. /\ now \in Nat /\ log \in Seq(Records)
      /\ DOMAIN gold \subseteq ValidUsers
      /\ gold \in [DOMAIN gold -> Entries]
  BY DEF ServedInv, LateInv, TypeOK
<1>3. /\ DOMAIN gold' = {v \in DOMAIN gold : gold[v].expires > now + 1}
      /\ \A v \in DOMAIN gold' : gold'[v] = gold[v]
  BY DEF Tick
<1>4. NothingSilentlyDropped' /\ BatchCovered'
  BY <1>1 DEF ServedInv, NothingSilentlyDropped, BatchCovered
<1>5. KeysAreCurrent'
  <2>1. ASSUME NEW i \in (1 .. Len(log)) \ refused,
               log[i].user \in ValidUsers,
               i <= accounted[log[i].user], now + 1 < log[i].time + Ttl
        PROVE  /\ log[i].user \in DOMAIN gold'
               /\ gold'[log[i].user].upto >= i
               /\ gold'[log[i].user].expires >= log[i].time + Ttl
    <3>1. log[i].time \in Nat
      BY <1>2, LogEntry
    <3>2. now < log[i].time + Ttl
      BY <1>2, <2>1, <3>1
    <3>3. /\ log[i].user \in DOMAIN gold
          /\ gold[log[i].user].upto >= i
          /\ gold[log[i].user].expires >= log[i].time + Ttl
      BY <2>1, <3>2 DEF ServedInv, KeysAreCurrent
    <3>4. gold[log[i].user].expires \in Nat
      BY <1>2, <3>3 DEF Entries
    <3>5. gold[log[i].user].expires > now + 1
      BY <1>2, <2>1, <3>1, <3>3, <3>4
    <3> QED
      BY <1>3, <3>3, <3>5
  <2> QED
    BY <1>1, <1>3, <2>1 DEF ServedInv, KeysAreCurrent
<1> QED
  BY <1>4, <1>5

LEMMA NextServed ==
    ASSUME MaxLate <= WatermarkDelay
    PROVE  ServedInv /\ [Next]_vars => ServedInv'
<1> SUFFICES ASSUME ServedInv, [Next]_vars
             PROVE  NothingSilentlyDropped' /\ BatchCovered' /\ KeysAreCurrent'
  BY NextLate DEF ServedInv
<1>1. ASSUME NEW u \in Users, NEW t \in 0 .. MaxNow, Produce(u, t)
      PROVE  NothingSilentlyDropped' /\ BatchCovered' /\ KeysAreCurrent'
  BY <1>1, ProduceServed
<1>2. CASE PlanBatch \/ ReplayBatch
  BY <1>2, StartServed
<1>3. ASSUME NEW r \in rows, WriteRow(r) \/ QuarantineRow(r)
      PROVE  NothingSilentlyDropped' /\ BatchCovered' /\ KeysAreCurrent'
  BY <1>3, RowServed
<1>4. CASE CommitBatch
  BY <1>4, CommitServed
<1>5. ASSUME (\E r \in rows : RaiseOnRow(r)) \/ Crash \/ Restart
      PROVE  NothingSilentlyDropped' /\ BatchCovered' /\ KeysAreCurrent'
  BY <1>5 DEF RaiseOnRow, Crash, Restart, checkpoint, ServedInv,
              NothingSilentlyDropped, BatchCovered, KeysAreCurrent
<1>6. CASE Tick
  BY <1>6, TickServed
<1>7. CASE UNCHANGED vars
  BY <1>7 DEF vars, ServedInv, NothingSilentlyDropped, BatchCovered,
              KeysAreCurrent
<1> QED
  BY <1>1, <1>2, <1>3, <1>4, <1>5, <1>6, <1>7 DEF Next, HandleRow, Idle

LEMMA ServedInvImplies ==
    ServedInv => NothingSilentlyDropped /\ RecentActivityIsServed
<1> SUFFICES ASSUME ServedInv PROVE RecentActivityIsServed
  BY DEF ServedInv
<1> SUFFICES ASSUME NEW i \in (1 .. committed) \ refused,
                    log[i].user \in ValidUsers, now < log[i].time + Ttl
             PROVE  /\ log[i].user \in DOMAIN gold
                    /\ gold[log[i].user].upto >= i
  BY DEF RecentActivityIsServed
<1>1. i <= accounted[log[i].user]
  <2>1. accounted[log[i].user] >= i
    BY DEF ServedInv, NothingSilentlyDropped
  <2>2. accounted[log[i].user] \in Nat
    BY DEF ServedInv, LateInv, TypeOK, Users
  <2> QED
    BY <2>1, <2>2
<1>2. i \in 1 .. Len(log)
  BY DEF ServedInv, LateInv, TypeOK
<1> QED
  BY <1>1, <1>2 DEF ServedInv, KeysAreCurrent

(* No committed batch leaves out a user, for every pattern of crashes and  *)
(* replays and every arrival order within the watermark delay.             *)
THEOREM RowsAreNeverDropped ==
    ASSUME MaxLate <= WatermarkDelay
    PROVE  Spec => []NothingSilentlyDropped
BY InitServed, NextServed, ServedInvImplies, PTL DEF Spec

(* An active user's key is live and includes the user's committed events,  *)
(* for every Ttl and under the same conditions, unless every row since the *)
(* event was refused by validation.                                        *)
THEOREM ActiveUsersAreServed ==
    ASSUME MaxLate <= WatermarkDelay
    PROVE  Spec => []RecentActivityIsServed
BY InitServed, NextServed, ServedInvImplies, PTL DEF Spec

-----------------------------------------------------------------------------
(* Exactness. *)

(* State plus batch is everything, for a window still open.                *)
LEMMA CountIsExact ==
    ASSUME TypeOK, StateIsExact, NEW u \in Users, NEW s \in Starts, ~Late(s),
           NEW hi \in Nat, committed <= hi
    PROVE  Count(u, s, hi) = Cardinality(InWindow(u, s, 1, hi))
<1>1. committed \in Nat
  BY DEF TypeOK
<1>2. state[u][s] = Cardinality(InWindow(u, s, 1, committed))
  BY DEF StateIsExact
<1> QED
  BY <1>1, <1>2, WindowSplits DEF Count

(* The rows of a batch are exact, and in windows it touched.               *)
LEMMA BatchRowsExact ==
    ASSUME TypeOK, StateIsExact, NEW hi \in Nat, committed <= hi,
           NEW r \in BatchRows(hi)
    PROVE  /\ r.start \in Touched(r.user, hi)
           /\ r.cnt = Cardinality(InWindow(r.user, r.start, 1, hi))
<1>1. PICK u \in Users :
        /\ Touched(u, hi) # {}
        /\ r = [user |-> u, start |-> TrailingStart(Touched(u, hi)),
                cnt |-> Count(u, TrailingStart(Touched(u, hi)), hi)]
  BY DEF BatchRows
<1> DEFINE s == TrailingStart(Touched(u, hi))
<1>2. r.user = u /\ r.start = s /\ r.cnt = Count(u, s, hi)
  BY <1>1
<1>3. s \in Touched(u, hi)
  <2>1. /\ 1 - WindowLen \in Int /\ MaxNow \in Int
        /\ Touched(u, hi) \in SUBSET ((1 - WindowLen) .. MaxNow)
    BY DEF Touched, Starts
  <2>2. Touched(u, hi) # {}
    BY <1>1
  <2> QED
    BY <2>1, <2>2, TrailingStartIsEmitted
<1>4. s \in Starts /\ ~Late(s)
  BY <1>3 DEF Touched
<1> HIDE DEF s
<1>5. Count(u, s, hi) = Cardinality(InWindow(u, s, 1, hi))
  BY <1>4, CountIsExact
<1> QED
  BY <1>2, <1>3, <1>5

(* An append shows in no prefix that was there before.                     *)
LEMMA AppendKeepsWindows ==
    ASSUME TypeOK, NEW v \in Users, NEW t \in 0 .. MaxNow, Produce(v, t),
           NEW u, NEW s, NEW lo \in Nat, lo >= 1, NEW hi \in Nat, hi <= Len(log)
    PROVE  InWindow(u, s, lo, hi)' = InWindow(u, s, lo, hi)
<1>1. \A i \in lo .. hi : i \in 1 .. Len(log)
  BY DEF TypeOK
<1>2. \A i \in lo .. hi : log'[i] = log[i]
  BY <1>1, AppendKeeps DEF TypeOK
<1> QED
  BY <1>2 DEF InWindow

-----------------------------------------------------------------------------
LEMMA InitExact == Init => ExactInv
<1> SUFFICES ASSUME Init PROVE ExactInv
  OBVIOUS
<1>1. TypeOK
  BY InitTypeOK
<1>2. StateIsExact
  <2>1. \A u, s : InWindow(u, s, 1, 0) = {}
    BY DEF InWindow
  <2>2. state = [u \in Users |-> [s \in Starts |-> 0]] /\ committed = 0
    BY DEF Init, InitAggregation
  <2> QED
    BY <2>1, <2>2, FS_EmptySet DEF StateIsExact
<1>3. rows = {} /\ DOMAIN gold = {} /\ accounted = [u \in Users |-> 0]
      /\ planned = 0
  BY DEF Init, InitAggregation
<1> QED
  BY <1>1, <1>2, <1>3 DEF ExactInv, RowsAreExact, PrefixesAreBatches,
                          ExactAggregates

LEMMA ProduceExact ==
    ASSUME ExactInv, NEW v \in Users, NEW t \in 0 .. MaxNow, Produce(v, t)
    PROVE  /\ StateIsExact' /\ RowsAreExact'
           /\ PrefixesAreBatches' /\ ExactAggregates'
<1>1. /\ committed \in Nat /\ planned \in Nat /\ Len(log) \in Nat
      /\ committed <= planned /\ planned <= Len(log)
  BY DEF ExactInv, TypeOK
<1>2. UNCHANGED <<checkpoint, rows, gold, accounted>>
  BY DEF Produce
<1>3. UNCHANGED <<committed, planned, state, wm>>
  BY <1>2 DEF checkpoint
<1>4. StateIsExact'
  <2>1. \A u \in Users, s \in Starts :
          InWindow(u, s, 1, committed)' = InWindow(u, s, 1, committed)
    BY <1>1, AppendKeepsWindows, <1>3 DEF ExactInv
  <2> QED
    BY <1>3, <2>1 DEF ExactInv, StateIsExact, Late
<1>5. RowsAreExact'
  <2> SUFFICES ASSUME NEW r \in rows
               PROVE  /\ (r.start \in Touched(r.user, planned))'
                      /\ (r.cnt = Cardinality(InWindow(r.user, r.start, 1, planned)))'
    BY <1>2 DEF RowsAreExact
  <2>1. InWindow(r.user, r.start, 1, planned)' = InWindow(r.user, r.start, 1, planned)
    BY <1>1, <1>3, AppendKeepsWindows DEF ExactInv
  <2>2. InWindow(r.user, r.start, committed + 1, planned)'
          = InWindow(r.user, r.start, committed + 1, planned)
    BY <1>1, <1>3, AppendKeepsWindows DEF ExactInv
  <2> QED
    BY <1>3, <2>1, <2>2 DEF ExactInv, RowsAreExact, Touched, Late
<1>6. PrefixesAreBatches'
  BY <1>2, <1>3 DEF ExactInv, PrefixesAreBatches
<1>7. ExactAggregates'
  <2> SUFFICES ASSUME NEW u \in DOMAIN gold
               PROVE  gold[u].cnt = Cardinality(InWindow(u, gold[u].start, 1, gold[u].upto)')
    BY <1>2 DEF ExactAggregates
  <2>1. gold[u].upto \in Nat /\ gold[u].upto <= Len(log)
    BY <1>1 DEF ExactInv, PrefixesAreBatches, TypeOK, Entries
  <2>2. InWindow(u, gold[u].start, 1, gold[u].upto)'
          = InWindow(u, gold[u].start, 1, gold[u].upto)
    BY <1>2, <2>1, AppendKeepsWindows DEF ExactInv
  <2> QED
    BY <2>2 DEF ExactInv, ExactAggregates
<1> QED
  BY <1>4, <1>5, <1>6, <1>7

LEMMA StartExact ==
    ASSUME ExactInv, PlanBatch \/ ReplayBatch
    PROVE  /\ StateIsExact' /\ RowsAreExact'
           /\ PrefixesAreBatches' /\ ExactAggregates'
<1>1. /\ UNCHANGED <<log, committed, state, wm, gold, accounted>>
      /\ rows' = BatchRows(planned')
      /\ planned' \in Nat /\ planned <= planned' /\ committed <= planned'
      /\ planned' = planned \/ planned = committed
  BY DEF PlanBatch, ReplayBatch, checkpoint, ExactInv, TypeOK
<1>2. StateIsExact' /\ ExactAggregates'
  BY <1>1 DEF ExactInv, StateIsExact, ExactAggregates, InWindow, Late
<1>3. RowsAreExact'
  <2> SUFFICES ASSUME NEW r \in BatchRows(planned')
               PROVE  /\ (r.start \in Touched(r.user, planned))'
                      /\ (r.cnt = Cardinality(InWindow(r.user, r.start, 1, planned)))'
    BY <1>1 DEF RowsAreExact
  <2>1. /\ r.start \in Touched(r.user, planned')
        /\ r.cnt = Cardinality(InWindow(r.user, r.start, 1, planned'))
    BY <1>1, BatchRowsExact DEF ExactInv
  <2> QED
    BY <1>1, <2>1 DEF Touched, InWindow, Late
<1>4. PrefixesAreBatches'
  BY <1>1 DEF ExactInv, PrefixesAreBatches, TypeOK, Entries
<1> QED
  BY <1>2, <1>3, <1>4

LEMMA RowExact ==
    ASSUME ExactInv, NEW r \in rows, WriteRow(r) \/ QuarantineRow(r)
    PROVE  /\ StateIsExact' /\ RowsAreExact'
           /\ PrefixesAreBatches' /\ ExactAggregates'
<1>1. /\ UNCHANGED <<log, committed, planned, state, wm>>
      /\ rows' \subseteq rows
      /\ accounted' = [accounted EXCEPT ![r.user] = planned]
      /\ r.user \in Users
  BY DEF WriteRow, QuarantineRow, checkpoint, ExactInv, TypeOK, Rows
<1>2. StateIsExact'
  BY <1>1 DEF ExactInv, StateIsExact, InWindow, Late
<1>3. RowsAreExact'
  BY <1>1 DEF ExactInv, RowsAreExact, Touched, InWindow, Late
<1>4. \A u \in Users : accounted'[u] <= committed' \/ accounted'[u] = planned'
  BY <1>1 DEF ExactInv, PrefixesAreBatches, TypeOK
<1>5. CASE QuarantineRow(r)
  BY <1>1, <1>2, <1>3, <1>4, <1>5
     DEF QuarantineRow, ExactInv, PrefixesAreBatches, ExactAggregates, InWindow
<1>6. CASE WriteRow(r)
  <2>1. gold' = [u \in DOMAIN gold \cup {r.user} |->
                   IF u = r.user
                   THEN [start |-> r.start, cnt |-> r.cnt,
                         expires |-> now + Ttl, upto |-> planned]
                   ELSE gold[u]]
    BY <1>6 DEF WriteRow
  <2>2. /\ gold'[r.user].upto = planned /\ gold'[r.user].start = r.start
        /\ gold'[r.user].cnt = r.cnt
        /\ DOMAIN gold' = DOMAIN gold \cup {r.user}
        /\ \A u \in DOMAIN gold' : u # r.user => u \in DOMAIN gold /\ gold'[u] = gold[u]
    BY <2>1
  <2>3. r.cnt = Cardinality(InWindow(r.user, r.start, 1, planned))
    BY DEF ExactInv, RowsAreExact
  <2>4. ExactAggregates'
    BY <1>1, <2>2, <2>3 DEF ExactInv, ExactAggregates, InWindow
  <2>5. \A u \in DOMAIN gold' : gold'[u].upto <= planned'
    BY <1>1, <2>2 DEF ExactInv, PrefixesAreBatches, TypeOK
  <2> QED
    BY <1>2, <1>3, <1>4, <2>4, <2>5 DEF PrefixesAreBatches
<1> QED
  BY <1>5, <1>6

LEMMA CommitExact ==
    ASSUME ExactInv, CommitBatch
    PROVE  /\ StateIsExact' /\ RowsAreExact'
           /\ PrefixesAreBatches' /\ ExactAggregates'
<1>1. /\ UNCHANGED <<log, planned, gold, accounted>>
      /\ rows' = {} /\ committed' = planned
      /\ wm' = EvictWm
      /\ state' = [u \in Users |-> [s \in Starts |->
                     IF WindowEnd(s) <= EvictWm THEN 0 ELSE Count(u, s, planned)]]
      /\ committed \in Nat /\ planned \in Nat /\ committed <= planned
  BY DEF CommitBatch, CommitAggregation, ExactInv, TypeOK
<1>2. EvictWm \in Nat /\ EvictWm >= wm /\ wm \in Nat
  BY EvictWmIsMax DEF ExactInv, TypeOK
<1>3. StateIsExact'
  <2> SUFFICES ASSUME NEW u \in Users, NEW s \in Starts, ~(WindowEnd(s) <= EvictWm)
               PROVE  state'[u][s] = Cardinality(InWindow(u, s, 1, planned)')
    BY <1>1 DEF StateIsExact, Late
  <2>1. ~Late(s)
    BY <1>2 DEF Late, WindowEnd, Starts
  <2>2. state'[u][s] = Count(u, s, planned)
    BY <1>1
  <2>3. Count(u, s, planned) = Cardinality(InWindow(u, s, 1, planned))
    BY <1>1, <2>1, CountIsExact DEF ExactInv
  <2> QED
    BY <1>1, <2>2, <2>3 DEF InWindow
<1>4. RowsAreExact' /\ PrefixesAreBatches' /\ ExactAggregates'
  BY <1>1 DEF ExactInv, RowsAreExact, PrefixesAreBatches, ExactAggregates,
              InWindow, TypeOK
<1> QED
  BY <1>3, <1>4

LEMMA NextExact == ExactInv /\ [Next]_vars => ExactInv'
<1> SUFFICES ASSUME ExactInv, [Next]_vars
             PROVE  /\ StateIsExact' /\ RowsAreExact'
                    /\ PrefixesAreBatches' /\ ExactAggregates'
  BY NextTypeOK DEF ExactInv
<1>1. ASSUME NEW u \in Users, NEW t \in 0 .. MaxNow, Produce(u, t)
      PROVE  /\ StateIsExact' /\ RowsAreExact'
             /\ PrefixesAreBatches' /\ ExactAggregates'
  BY <1>1, ProduceExact
<1>2. CASE PlanBatch \/ ReplayBatch
  BY <1>2, StartExact
<1>3. ASSUME NEW r \in rows, WriteRow(r) \/ QuarantineRow(r)
      PROVE  /\ StateIsExact' /\ RowsAreExact'
             /\ PrefixesAreBatches' /\ ExactAggregates'
  BY <1>3, RowExact
<1>4. CASE CommitBatch
  BY <1>4, CommitExact
<1>5. ASSUME /\ UNCHANGED <<log, committed, planned, state, wm, accounted>>
             /\ rows' \subseteq rows
             /\ DOMAIN gold' \subseteq DOMAIN gold
             /\ \A u \in DOMAIN gold' : gold'[u] = gold[u]
      PROVE  /\ StateIsExact' /\ RowsAreExact'
             /\ PrefixesAreBatches' /\ ExactAggregates'
  <2>1. StateIsExact'
    BY <1>5 DEF ExactInv, StateIsExact, Late, InWindow
  <2>2. RowsAreExact'
    BY <1>5 DEF ExactInv, RowsAreExact, Touched, Late, InWindow
  <2>3. PrefixesAreBatches'
    BY <1>5 DEF ExactInv, PrefixesAreBatches
  <2>4. ExactAggregates'
    BY <1>5 DEF ExactInv, ExactAggregates, InWindow
  <2> QED
    BY <2>1, <2>2, <2>3, <2>4
<1>6. CASE Tick
  <2>1. /\ UNCHANGED <<log, committed, planned, state, wm, accounted, rows>>
        /\ gold' = [u \in {v \in DOMAIN gold : gold[v].expires > now + 1} |-> gold[u]]
    BY <1>6 DEF Tick, checkpoint
  <2> QED
    BY <1>5, <2>1
<1>7. ASSUME NEW r \in rows, RaiseOnRow(r)
      PROVE  /\ StateIsExact' /\ RowsAreExact'
             /\ PrefixesAreBatches' /\ ExactAggregates'
  BY <1>5, <1>7 DEF RaiseOnRow, checkpoint
<1>8. CASE Crash \/ Restart \/ Idle \/ UNCHANGED vars
  BY <1>5, <1>8 DEF Crash, Restart, Idle, vars, checkpoint
<1> QED
  BY <1>1, <1>2, <1>3, <1>4, <1>6, <1>7, <1>8 DEF Next, HandleRow

(* Nothing is counted twice and nothing is missing under any key.          *)
THEOREM KeysAreExact == Spec => []ExactAggregates
<1>1. ExactInv => ExactAggregates
  BY DEF ExactInv
<1> QED
  BY <1>1, InitExact, NextExact, PTL DEF Spec

-----------------------------------------------------------------------------
(* The store. *)

(* Both modules count and name windows alike.                              *)
LEMMA SameStoreOperators ==
    /\ \A S : Store!Cardinality(S) = Cardinality(S)
    /\ \A t : Store!WindowStarts(t) = WindowStarts(t)
BY DEF Cardinality, Store!Cardinality, WindowStarts, Store!WindowStarts

LEMMA SameWindows ==
    ASSUME NEW u, NEW s, NEW hi
    PROVE  Store!Counted(u, s, hi) = Cardinality(InWindow(u, s, 1, hi))
<1>1. {i \in Store!RecordsIn(u, 1, hi) : s \in Store!WindowStarts(log[i].time)}
        = InWindow(u, s, 1, hi)
  BY SameStoreOperators DEF Store!RecordsIn, InWindow
<1> QED
  BY <1>1, SameStoreOperators DEF Store!Counted

(* A row stands for a record of the running batch in its window.           *)
LEMMA RowHasRecord ==
    ASSUME ExactInv, NEW r \in rows
    PROVE  \E i \in committed + 1 .. planned :
             log[i].user = r.user /\ r.start \in WindowStarts(log[i].time)
<1>1. InWindow(r.user, r.start, committed + 1, planned) # {}
  BY DEF ExactInv, RowsAreExact, Touched
<1> QED
  BY <1>1 DEF InWindow

(* Handling a row moves its user's answer on to the running batch.         *)
LEMMA RowAdvances ==
    ASSUME ExactInv, NEW r \in rows, WriteRow(r) \/ QuarantineRow(r)
    PROVE  /\ r.user \in Users /\ planned \in 1 .. Len(log)
           /\ Store!Advance(r.user, planned)
<1>1. /\ accounted' = [accounted EXCEPT ![r.user] = planned]
      /\ committed \in Nat /\ planned \in Nat /\ planned \in 0 .. Len(log)
      /\ Len(log) \in Nat
      /\ r.user \in Users /\ accounted[r.user] \in Nat
  BY DEF WriteRow, QuarantineRow, ExactInv, TypeOK, Rows
<1>2. PICK i \in committed + 1 .. planned : log[i].user = r.user
  BY RowHasRecord
<1>3. i \in Store!RecordsIn(r.user, 1, planned)
  BY <1>1, <1>2 DEF Store!RecordsIn
<1>4. CASE accounted[r.user] = planned
  BY <1>1, <1>3, <1>4 DEF Store!Advance
<1>5. CASE accounted[r.user] <= committed
  <2>1. i \in Store!RecordsIn(r.user, accounted[r.user] + 1, planned)
    BY <1>1, <1>2, <1>5 DEF Store!RecordsIn
  <2>2. planned > accounted[r.user]
    BY <1>1, <1>2, <1>5
  <2> QED
    BY <1>1, <1>3, <2>1, <2>2 DEF Store!Advance
<1>6. planned \in 1 .. Len(log)
  BY <1>1, <1>2
<1> QED
  BY <1>1, <1>4, <1>5, <1>6 DEF ExactInv, PrefixesAreBatches

(* A valid row is an answer of the store, exact over the batch's prefix.   *)
LEMMA WriteIsPublished ==
    ASSUME ExactInv, NEW r \in rows, WriteRow(r)
    PROVE  Store!Publish(r.user, planned)
<1> DEFINE e == [start |-> r.start, cnt |-> r.cnt, expires |-> now + Ttl]
           st == [u \in DOMAIN gold |-> [start |-> gold[u].start,
                                         cnt |-> gold[u].cnt,
                                         expires |-> gold[u].expires]]
<1>1. /\ r.user \in ValidUsers
      /\ now' = now /\ log' = log
      /\ gold' = [u \in DOMAIN gold \cup {r.user} |->
                    IF u = r.user
                    THEN [start |-> r.start, cnt |-> r.cnt,
                          expires |-> now + Ttl, upto |-> planned]
                    ELSE gold[u]]
  BY DEF WriteRow
<1>2. st' = [v \in DOMAIN st \cup {r.user} |-> IF v = r.user THEN e ELSE st[v]]
  <2>1. DOMAIN gold' = DOMAIN gold \cup {r.user}
    BY <1>1
  <2>2. ASSUME NEW v \in DOMAIN gold'
        PROVE  [start |-> gold'[v].start, cnt |-> gold'[v].cnt,
                expires |-> gold'[v].expires]
                 = IF v = r.user THEN e ELSE st[v]
    BY <1>1, <2>1
  <2> QED
    BY <2>1, <2>2
<1>3. r.cnt = Store!Counted(r.user, r.start, planned)
  BY SameWindows DEF ExactInv, RowsAreExact
<1>4. r.start \in UNION {Store!WindowStarts(log[i].time) :
                           i \in Store!RecordsIn(r.user, 1, planned)}
  <2>1. PICK i \in committed + 1 .. planned :
          log[i].user = r.user /\ r.start \in WindowStarts(log[i].time)
    BY RowHasRecord
  <2>2. i \in Store!RecordsIn(r.user, 1, planned)
    BY <2>1 DEF Store!RecordsIn, ExactInv, TypeOK
  <2> QED
    BY <2>1, <2>2, SameStoreOperators
<1>5. Store!Advance(r.user, planned)
  BY RowAdvances
<1> QED
  BY <1>1, <1>2, <1>3, <1>4, <1>5 DEF Store!Publish

(* Redis drops what the store drops.                                       *)
LEMMA TickIsPass ==
    ASSUME Tick
    PROVE  Store!Pass
<1>1. /\ now' = now + 1 /\ log' = log /\ accounted' = accounted
      /\ gold' = [u \in {v \in DOMAIN gold : gold[v].expires > now + 1} |-> gold[u]]
  BY DEF Tick
<1> DEFINE st == [u \in DOMAIN gold |-> [start |-> gold[u].start,
                                         cnt |-> gold[u].cnt,
                                         expires |-> gold[u].expires]]
<1>2. st' = [u \in {v \in DOMAIN st : st[v].expires > now + 1} |-> st[u]]
  <2>1. /\ DOMAIN gold' = {v \in DOMAIN gold : gold[v].expires > now + 1}
        /\ \A u \in DOMAIN gold' : u \in DOMAIN gold /\ gold'[u] = gold[u]
    BY <1>1
  <2>2. {v \in DOMAIN st : st[v].expires > now + 1} = DOMAIN gold'
    BY <2>1
  <2> QED
    BY <2>1, <2>2
<1> QED
  BY <1>1, <1>2 DEF Store!Pass

(* What the API reads is what a store without batches could hold.          *)
THEOREM StoreImplemented == Spec => ImplementsStore
<1>1. Init => Store!Init
  <2> SUFFICES ASSUME Init PROVE Store!Init
    OBVIOUS
  <2>1. /\ now = 0 /\ log = << >> /\ accounted = [u \in Users |-> 0]
        /\ gold = [u \in {} |-> {}]
    BY DEF Init, InitAggregation
  <2>2. DOMAIN gold = {}
    BY <2>1
  <2>3. [u \in DOMAIN gold |-> [start |-> gold[u].start, cnt |-> gold[u].cnt,
                               expires |-> gold[u].expires]] = [u \in {} |-> {}]
    BY <2>2
  <2> QED
    BY <2>1, <2>3 DEF Store!Init
<1>2. ExactInv /\ [Next]_vars => [Store!Next]_(Store!vars)
  <2> SUFFICES ASSUME ExactInv, [Next]_vars
               PROVE  Store!Next \/ UNCHANGED Store!vars
    OBVIOUS
  <2>1. ASSUME NEW u \in Users, NEW t \in 0 .. MaxNow, Produce(u, t)
        PROVE  Store!Next
    <3>1. Store!Arrive
      BY <2>1 DEF Produce, Store!Arrive, ExactInv, TypeOK
    <3> QED
      BY <3>1 DEF Store!Next
  <2>2. ASSUME NEW r \in rows, WriteRow(r)
        PROVE  Store!Next
    <3>1. Store!Publish(r.user, planned)
      BY <2>2, WriteIsPublished
    <3>2. r.user \in Users /\ planned \in 1 .. Len(log)
      BY <2>2, RowAdvances
    <3> QED
      BY <3>1, <3>2 DEF Store!Next, Store!Publish, Store!Advance
  <2>3. ASSUME NEW r \in rows, QuarantineRow(r)
        PROVE  Store!Next
    <3>1. UNCHANGED <<now, log, gold>>
      BY <2>3 DEF QuarantineRow
    <3>2. Store!SetAside(r.user, planned)
      BY <2>3, <3>1, RowAdvances DEF Store!SetAside
    <3> QED
      BY <2>3, <3>2, RowAdvances DEF Store!Next, Store!SetAside, Store!Advance
  <2>4. CASE Tick
    BY <2>4, TickIsPass DEF Store!Next
  <2>5. CASE \/ PlanBatch \/ ReplayBatch \/ CommitBatch \/ Crash \/ Restart
             \/ \E r \in rows : RaiseOnRow(r)
    BY <2>5 DEF PlanBatch, ReplayBatch, CommitBatch, CommitAggregation, Crash,
                Restart, RaiseOnRow, Store!vars
  <2>6. CASE UNCHANGED vars
    BY <2>6 DEF vars, Store!vars
  <2> QED
    BY <2>1, <2>2, <2>3, <2>4, <2>5, <2>6 DEF Next, HandleRow, Idle
<1> QED
  BY <1>1, <1>2, InitExact, NextExact, PTL DEF Spec, ImplementsStore, Store!Spec

-----------------------------------------------------------------------------
(* Whose keys get a new life: a row meets an answer over its own batch only *)
(* in a replay.                                                             *)
LEMMA StartRenewal ==
    ASSUME ExactInv, RenewalInv, PlanBatch \/ ReplayBatch
    PROVE  RenewalInv'
<1>1. /\ UNCHANGED <<log, committed, accounted, crashes>>
      /\ phase' = "writing" /\ rows' = BatchRows(planned')
  BY DEF PlanBatch, ReplayBatch, checkpoint
<1>2. \A r \in BatchRows(planned') : r.user \in Users
  BY DEF BatchRows
<1>3. \A q, r \in BatchRows(planned') : q.user = r.user => q = r
  BY DEF BatchRows
<1>4. CASE PlanBatch
  <2>1. committed = planned /\ committed \in Nat
    BY <1>4 DEF PlanBatch, ExactInv, TypeOK
  <2>2. \A u \in Users : accounted[u] <= committed
    BY <2>1 DEF ExactInv, PrefixesAreBatches
  <2> QED
    BY <1>1, <1>2, <1>3, <2>2 DEF RenewalInv
<1>5. CASE ReplayBatch
  <2>1. Stopped /\ planned' = planned
    BY <1>5 DEF ReplayBatch, checkpoint, RenewalInv
  <2>2. Stopped'
    BY <1>1, <2>1 DEF Stopped
  <2> QED
    BY <1>1, <1>3, <2>2 DEF RenewalInv
<1> QED
  BY <1>4, <1>5

LEMMA RowRenewal ==
    ASSUME ExactInv, RenewalInv, NEW r \in rows, WriteRow(r) \/ QuarantineRow(r)
    PROVE  RenewalInv'
<1>1. /\ UNCHANGED <<log, committed, planned, inFlight, phase, crashes>>
      /\ rows' = rows \ {r}
      /\ accounted' = [accounted EXCEPT ![r.user] = planned]
  BY DEF WriteRow, QuarantineRow, checkpoint
<1>2. \A q \in rows' : q \in rows /\ q.user # r.user
  BY <1>1 DEF RenewalInv
<1>3. \A q \in rows' : accounted'[q.user] = accounted[q.user]
  BY <1>1, <1>2 DEF ExactInv, TypeOK, Rows
<1>4. Stopped' <=> Stopped
  BY <1>1 DEF Stopped
<1> QED
  BY <1>1, <1>2, <1>3, <1>4 DEF RenewalInv

LEMMA NextRenewal == ExactInv /\ RenewalInv /\ [Next]_vars => RenewalInv'
<1> SUFFICES ASSUME ExactInv, RenewalInv, [Next]_vars PROVE RenewalInv'
  OBVIOUS
<1>1. ASSUME NEW v \in Users, NEW t \in 0 .. MaxNow, Produce(v, t)
      PROVE  RenewalInv'
  <2>1. UNCHANGED <<committed, planned, inFlight, phase, rows, accounted, crashes>>
    BY <1>1 DEF Produce, checkpoint
  <2>2. \A i \in committed + 1 .. planned : log'[i] = log[i]
    <3>1. log \in Seq(Records) /\ \A i \in committed + 1 .. planned : i \in 1 .. Len(log)
      BY DEF ExactInv, TypeOK
    <3>2. \A i \in 1 .. Len(log) : log'[i] = log[i]
      BY <1>1, <3>1, AppendKeeps
    <3> QED
      BY <3>1, <3>2
  <2>3. Stopped => Stopped'
    BY <2>1, <2>2 DEF Stopped
  <2> QED
    BY <2>1, <2>3 DEF RenewalInv
<1>2. CASE PlanBatch \/ ReplayBatch
  BY <1>2, StartRenewal
<1>3. ASSUME NEW r \in rows, WriteRow(r) \/ QuarantineRow(r)
      PROVE  RenewalInv'
  BY <1>3, RowRenewal
<1>4. ASSUME NEW r \in rows, RaiseOnRow(r)
      PROVE  RenewalInv'
  <2>1. PICK i \in committed + 1 .. planned : log[i].user = r.user
    BY RowHasRecord
  <2>2. Stopped /\ rows' = {} /\ UNCHANGED <<log, committed, planned, crashes>>
    BY <1>4, <2>1 DEF RaiseOnRow, checkpoint, Stopped
  <2> QED
    BY <2>2 DEF RenewalInv, Stopped
<1>5. CASE CommitBatch
  BY <1>5 DEF CommitBatch, CommitAggregation, RenewalInv
<1>6. CASE Crash
  BY <1>6 DEF Crash, RenewalInv, Stopped, ExactInv, TypeOK
<1>7. ASSUME /\ UNCHANGED <<log, committed, planned, inFlight, rows, accounted, crashes>>
             /\ phase' = phase \/ phase = "down"
      PROVE  RenewalInv'
  BY <1>7 DEF RenewalInv, Stopped
<1>8. CASE Restart \/ Tick \/ UNCHANGED vars
  BY <1>7, <1>8 DEF Restart, Tick, vars, checkpoint
<1> QED
  BY <1>1, <1>2, <1>3, <1>4, <1>5, <1>6, <1>8 DEF Next, HandleRow, Idle

LEMMA StepRenews ==
    ASSUME ExactInv, RenewalInv, [Next]_vars
    PROVE  Renewal
<1>1. ASSUME NEW r \in rows, WriteRow(r)
      PROVE  Renewal
  <2>1. /\ DOMAIN gold' = DOMAIN gold \cup {r.user}
        /\ \A u \in DOMAIN gold : u # r.user => gold'[u] = gold[u]
    BY <1>1 DEF WriteRow
  <2>2. /\ committed \in Nat /\ planned \in Nat
        /\ r.user \in Users /\ accounted[r.user] \in Nat
    BY DEF ExactInv, TypeOK, Rows
  <2>3. CASE accounted[r.user] <= committed
    <3>1. PICK i \in committed + 1 .. planned : log[i].user = r.user
      BY RowHasRecord
    <3>2. i \in RecordsOf(r.user, accounted[r.user] + 1, planned)
      BY <2>2, <2>3, <3>1 DEF RecordsOf
    <3> QED
      BY <2>1, <3>2 DEF Renewal
  <2>4. CASE ~(accounted[r.user] <= committed)
    <3>1. accounted[r.user] = planned /\ Stopped
      BY <2>2, <2>4 DEF ExactInv, PrefixesAreBatches, RenewalInv
    <3> QED
      BY <2>1, <3>1 DEF Renewal
  <2> QED
    BY <2>3, <2>4
<1>2. ASSUME /\ DOMAIN gold' \subseteq DOMAIN gold
             /\ \A u \in DOMAIN gold' : gold'[u] = gold[u]
      PROVE  Renewal
  BY <1>2 DEF Renewal
<1>3. CASE Tick
  BY <1>2, <1>3 DEF Tick
<1>4. ASSUME NEW r \in rows, QuarantineRow(r) \/ RaiseOnRow(r)
      PROVE  Renewal
  BY <1>2, <1>4 DEF QuarantineRow, RaiseOnRow
<1>5. CASE \/ PlanBatch \/ ReplayBatch \/ CommitBatch \/ Crash \/ Restart
           \/ UNCHANGED vars
           \/ \E u \in Users, t \in 0 .. MaxNow : Produce(u, t)
  BY <1>2, <1>5 DEF PlanBatch, ReplayBatch, CommitBatch, Crash, Restart,
                    Produce, vars
<1> QED
  BY <1>1, <1>3, <1>4, <1>5 DEF Next, HandleRow, Idle

(* No key outlives its user's activity, except by the replay of a batch     *)
(* that was stopped.                                                        *)
THEOREM RenewalIsEarned == Spec => RenewedOnlyByActivity
<1>1. Init => RenewalInv
  BY DEF Init, InitAggregation, RenewalInv
<1>2. ExactInv /\ RenewalInv /\ [Next]_vars => [Renewal]_vars
  BY StepRenews
<1> QED
  BY <1>1, <1>2, InitExact, NextExact, NextRenewal, PTL
     DEF Spec, RenewedOnlyByActivity

-----------------------------------------------------------------------------
(* Which window is served.                                                 *)
LEMMA MaxIs ==
    ASSUME NEW S \in SUBSET Int, NEW m \in S, \A x \in S : x <= m
    PROVE  Max(S) = m
<1>1. m \in Int /\ S # {}
  OBVIOUS
<1>2. Max(S) \in S /\ \A x \in S : x <= Max(S)
  BY <1>1, MaxOfBounded
<1>3. Max(S) \in Int /\ Max(S) <= m /\ m <= Max(S)
  BY <1>2
<1> QED
  BY <1>1, <1>3

(* With nothing late, a batch emits every window of a user's records.      *)
LEMMA TouchedIsUnion ==
    ASSUME TypeOK, NothingLate, NEW u, NEW hi \in 0 .. Len(log)
    PROVE  Touched(u, hi)
             = UNION {WindowStarts(t) :
                        t \in {log[i].time : i \in RecordsOf(u, committed + 1, hi)}}
<1>1. \A i \in committed + 1 .. hi : log[i].time \in 0 .. MaxNow
  <2>1. \A i \in committed + 1 .. hi : i \in 1 .. Len(log)
    BY DEF TypeOK
  <2> QED
    BY <2>1, LogEntry DEF TypeOK
<1>2. ASSUME NEW i \in committed + 1 .. hi, NEW s \in WindowStarts(log[i].time)
      PROVE  s \in Starts /\ ~Late(s)
  <2>1. i \in committed + 1 .. Len(log)
    BY DEF TypeOK
  <2> QED
    BY <1>1, <1>2, <2>1 DEF NothingLate, Starts, WindowStarts
<1>3. \A s : s \in Touched(u, hi)
               <=> \E i \in RecordsOf(u, committed + 1, hi) : s \in WindowStarts(log[i].time)
  BY <1>2 DEF Touched, InWindow, RecordsOf
<1> QED
  BY <1>3

LEMMA BatchRowsTrail ==
    ASSUME TypeOK, NothingLate, NEW hi \in 0 .. Len(log), NEW r \in BatchRows(hi)
    PROVE  \E i \in RecordsOf(r.user, committed + 1, hi) :
             /\ r.start = log[i].time - WindowLen + 1
             /\ \A j \in RecordsOf(r.user, committed + 1, hi) :
                  log[j].time <= log[i].time
<1> DEFINE u == r.user
           R == RecordsOf(u, committed + 1, hi)
           T == {log[i].time : i \in R}
<1>1. r.start = TrailingStart(Touched(u, hi)) /\ Touched(u, hi) # {}
  BY DEF BatchRows
<1>2. Touched(u, hi) = UNION {WindowStarts(t) : t \in T}
  BY TouchedIsUnion
<1>3. T \in SUBSET (0 .. MaxNow)
  <2>1. \A i \in R : i \in 1 .. Len(log)
    BY DEF TypeOK, RecordsOf
  <2> QED
    BY <2>1, LogEntry DEF TypeOK
<1>4. T # {}
  BY <1>1, <1>2
<1> HIDE DEF T
<1>5. T \in SUBSET Int /\ (\A t \in T : t <= MaxNow) /\ MaxNow \in Int
  BY <1>3
<1>6. Max(T) \in T /\ \A t \in T : t <= Max(T)
  BY <1>4, <1>5, MaxOfBounded
<1>7. r.start = Max(T) - WindowLen + 1
  BY <1>1, <1>2, <1>5, <1>6, TrailingWindowOfNewestEvent
<1>8. PICK i \in R : log[i].time = Max(T)
  BY <1>6 DEF T
<1>9. \A j \in R : log[j].time <= log[i].time
  BY <1>6, <1>8 DEF T
<1> QED
  BY <1>7, <1>8, <1>9

(* The key of a user in order gets the window of the newest record of all. *)
LEMMA WriteTrailing ==
    ASSUME TrailingInv, NEW r \in rows, WriteRow(r)
    PROVE  InOrderUsersGetTrailingWindow'
<1>1. /\ UNCHANGED <<log, committed, planned>>
      /\ DOMAIN gold' = DOMAIN gold \cup {r.user}
      /\ gold'[r.user].start = r.start /\ gold'[r.user].upto = planned
      /\ \A u \in DOMAIN gold : u # r.user => gold'[u] = gold[u]
  BY DEF WriteRow, checkpoint
<1>2. /\ committed \in Nat /\ planned \in Nat /\ committed <= planned
      /\ planned <= Len(log) /\ Len(log) \in Nat /\ log \in Seq(Records)
  BY DEF TrailingInv, ExactInv, TypeOK
<1> SUFFICES ASSUME NEW u \in DOMAIN gold',
                    \A i, j \in RecordsOf(u, 1, gold'[u].upto) :
                        i < j => log[i].time <= log[j].time
             PROVE  gold'[u].start
                      = Max({log[i].time : i \in RecordsOf(u, 1, gold'[u].upto)})
                          - WindowLen + 1
  BY <1>1 DEF InOrderUsersGetTrailingWindow, IsTrailingWindow, RecordsOf
<1>3. CASE u # r.user
  BY <1>1, <1>3 DEF TrailingInv, InOrderUsersGetTrailingWindow, IsTrailingWindow
<1>4. CASE u = r.user
  <2> DEFINE R == RecordsOf(u, 1, planned)
             T == {log[i].time : i \in R}
  <2>1. PICK i \in RecordsOf(u, committed + 1, planned) :
          /\ r.start = log[i].time - WindowLen + 1
          /\ \A j \in RecordsOf(u, committed + 1, planned) :
               log[j].time <= log[i].time
    BY <1>4 DEF TrailingInv, RowsAreTrailing
  <2>2. i \in R
    BY <1>2, <2>1 DEF RecordsOf
  <2>3. ASSUME NEW j \in R PROVE log[j].time <= log[i].time
    <3>1. CASE j \in RecordsOf(u, committed + 1, planned)
      BY <2>1, <3>1
    <3>2. CASE j < i
      BY <1>1, <1>4, <2>2, <3>2
    <3> QED
      BY <1>2, <3>1, <3>2 DEF RecordsOf
  <2>4. T \in SUBSET Int
    <3>1. \A j \in R : j \in 1 .. Len(log)
      BY <1>2 DEF RecordsOf
    <3> QED
      BY <1>2, <3>1, LogEntry
  <2>5. log[i].time \in T /\ \A t \in T : t <= log[i].time
    BY <2>2, <2>3
  <2> HIDE DEF T
  <2>6. Max(T) = log[i].time
    BY <2>4, <2>5, MaxIs
  <2> QED
    BY <1>1, <1>4, <2>1, <2>6 DEF T
<1> QED
  BY <1>3, <1>4

(* An append shows neither in the running batch nor under a key.           *)
LEMMA ProduceTrailing ==
    ASSUME TrailingInv, NEW v \in Users, NEW t \in 0 .. MaxNow, Produce(v, t)
    PROVE  RowsAreTrailing' /\ InOrderUsersGetTrailingWindow'
<1>1. UNCHANGED <<committed, planned, rows, gold>>
  BY DEF Produce, checkpoint
<1>2. /\ committed \in Nat /\ planned \in Nat /\ planned <= Len(log)
      /\ Len(log) \in Nat /\ log \in Seq(Records)
  BY DEF TrailingInv, ExactInv, TypeOK
<1>3. \A i \in 1 .. planned : log'[i] = log[i]
  <2>1. \A i \in 1 .. Len(log) : log'[i] = log[i]
    BY <1>2, AppendKeeps
  <2> QED
    BY <1>2, <2>1
<1>4. ASSUME NEW u, NEW lo \in Nat, lo >= 1, NEW hi \in Nat, hi <= planned
      PROVE  /\ RecordsOf(u, lo, hi)' = RecordsOf(u, lo, hi)
             /\ \A i \in RecordsOf(u, lo, hi) : log'[i] = log[i]
  BY <1>2, <1>3, <1>4 DEF RecordsOf
<1>5. RowsAreTrailing'
  <2> SUFFICES ASSUME NEW r \in rows
               PROVE  \E i \in RecordsOf(r.user, committed + 1, planned)' :
                        /\ r.start = log'[i].time - WindowLen + 1
                        /\ \A j \in RecordsOf(r.user, committed + 1, planned)' :
                             log'[j].time <= log'[i].time
    BY <1>1 DEF RowsAreTrailing
  <2>1. /\ RecordsOf(r.user, committed + 1, planned)'
             = RecordsOf(r.user, committed + 1, planned)
        /\ \A i \in RecordsOf(r.user, committed + 1, planned) : log'[i] = log[i]
    <3>1. \A i \in committed + 1 .. planned : log'[i] = log[i]
      BY <1>2, <1>3
    <3> QED
      BY <1>1, <3>1 DEF RecordsOf
  <2>2. PICK i \in RecordsOf(r.user, committed + 1, planned) :
          /\ r.start = log[i].time - WindowLen + 1
          /\ \A j \in RecordsOf(r.user, committed + 1, planned) :
               log[j].time <= log[i].time
    BY DEF TrailingInv, RowsAreTrailing
  <2> QED
    BY <2>1, <2>2
<1>6. InOrderUsersGetTrailingWindow'
  <2> SUFFICES ASSUME NEW u \in DOMAIN gold,
                      \A i, j \in RecordsOf(u, 1, gold[u].upto)' :
                          i < j => log'[i].time <= log'[j].time
               PROVE  IsTrailingWindow(u)'
    BY <1>1 DEF InOrderUsersGetTrailingWindow
  <2>1. gold[u].upto \in Nat /\ gold[u].upto <= planned
    BY DEF TrailingInv, ExactInv, PrefixesAreBatches, TypeOK, Entries
  <2>2. /\ RecordsOf(u, 1, gold[u].upto)' = RecordsOf(u, 1, gold[u].upto)
        /\ \A i \in RecordsOf(u, 1, gold[u].upto) : log'[i] = log[i]
    BY <1>1, <1>4, <2>1
  <2>3. IsTrailingWindow(u)
    BY <2>2 DEF TrailingInv, InOrderUsersGetTrailingWindow
  <2>4. {log[i].time : i \in RecordsOf(u, 1, gold[u].upto)}'
          = {log[i].time : i \in RecordsOf(u, 1, gold[u].upto)}
    BY <1>1, <2>2
  <2> QED
    BY <1>1, <2>3, <2>4 DEF IsTrailingWindow
<1> QED
  BY <1>5, <1>6

LEMMA NextTrailing ==
    ASSUME MaxLate <= WatermarkDelay
    PROVE  TrailingInv /\ [Next]_vars => TrailingInv'
<1> SUFFICES ASSUME TrailingInv, [Next]_vars
             PROVE  RowsAreTrailing' /\ InOrderUsersGetTrailingWindow'
  BY NextLate, NextExact DEF TrailingInv
<1>1. ASSUME NEW v \in Users, NEW t \in 0 .. MaxNow, Produce(v, t)
      PROVE  RowsAreTrailing' /\ InOrderUsersGetTrailingWindow'
  BY <1>1, ProduceTrailing
<1>2. CASE PlanBatch \/ ReplayBatch
  <2>1. /\ UNCHANGED <<log, committed, gold>> /\ rows' = BatchRows(planned')
        /\ planned' \in 0 .. Len(log)
    BY <1>2 DEF PlanBatch, ReplayBatch, checkpoint, TrailingInv, ExactInv, TypeOK
  <2>2. NothingLate
    BY LateInvImpliesNothingLate DEF TrailingInv
  <2>3. RowsAreTrailing'
    <3>1. \A r \in BatchRows(planned') :
            \E i \in RecordsOf(r.user, committed + 1, planned') :
              /\ r.start = log[i].time - WindowLen + 1
              /\ \A j \in RecordsOf(r.user, committed + 1, planned') :
                   log[j].time <= log[i].time
      BY <2>1, <2>2, BatchRowsTrail DEF TrailingInv, LateInv
    <3> QED
      BY <2>1, <3>1 DEF RowsAreTrailing, RecordsOf
  <2>4. InOrderUsersGetTrailingWindow'
    BY <2>1 DEF TrailingInv, InOrderUsersGetTrailingWindow, IsTrailingWindow, RecordsOf
  <2> QED
    BY <2>3, <2>4
<1>3. ASSUME UNCHANGED <<log, committed, planned>>, rows' \subseteq rows
      PROVE  RowsAreTrailing'
  BY <1>3 DEF TrailingInv, RowsAreTrailing, RecordsOf
<1>4. ASSUME NEW r \in rows, WriteRow(r)
      PROVE  RowsAreTrailing' /\ InOrderUsersGetTrailingWindow'
  <2>1. RowsAreTrailing'
    BY <1>3, <1>4 DEF WriteRow, checkpoint
  <2> QED
    BY <1>4, <2>1, WriteTrailing
<1>5. ASSUME /\ log' = log /\ DOMAIN gold' \subseteq DOMAIN gold
             /\ \A u \in DOMAIN gold' : gold'[u] = gold[u]
      PROVE  InOrderUsersGetTrailingWindow'
  BY <1>5 DEF TrailingInv, InOrderUsersGetTrailingWindow, IsTrailingWindow, RecordsOf
<1>6. CASE CommitBatch
  <2>1. RowsAreTrailing'
    BY <1>6 DEF CommitBatch, RowsAreTrailing
  <2> QED
    BY <1>5, <1>6, <2>1 DEF CommitBatch
<1>7. CASE \/ Crash \/ Restart \/ UNCHANGED vars
           \/ \E r \in rows : QuarantineRow(r) \/ RaiseOnRow(r)
  BY <1>3, <1>5, <1>7 DEF Crash, Restart, QuarantineRow, RaiseOnRow, vars, checkpoint
<1>8. CASE Tick
  <2>1. /\ UNCHANGED <<log, committed, planned, rows>>
        /\ DOMAIN gold' \subseteq DOMAIN gold
        /\ \A u \in DOMAIN gold' : gold'[u] = gold[u]
    BY <1>8 DEF Tick, checkpoint
  <2> QED
    BY <1>3, <1>5, <2>1
<1> QED
  BY <1>1, <1>2, <1>4, <1>6, <1>7, <1>8 DEF Next, HandleRow, Idle

(* A user whose records arrive in order is served the trailing window,      *)
(* however the batches are cut, replayed and interleaved with others.       *)
THEOREM InOrderUsersTrail ==
    ASSUME MaxLate <= WatermarkDelay
    PROVE  Spec => []InOrderUsersGetTrailingWindow
<1>1. Init => TrailingInv
  <2> SUFFICES ASSUME Init PROVE RowsAreTrailing /\ InOrderUsersGetTrailingWindow
    BY InitLate, InitExact DEF TrailingInv
  <2>1. rows = {} /\ DOMAIN gold = {}
    <3>1. rows = {} /\ gold = [u \in {} |-> {}]
      BY DEF Init, InitAggregation
    <3> QED
      BY <3>1
  <2> QED
    BY <2>1 DEF RowsAreTrailing, InOrderUsersGetTrailingWindow
<1>2. TrailingInv => InOrderUsersGetTrailingWindow
  BY DEF TrailingInv
<1> QED
  BY <1>1, <1>2, NextTrailing, PTL DEF Spec

=============================================================================
