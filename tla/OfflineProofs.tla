---------------------------- MODULE OfflineProofs ----------------------------
(***************************************************************************)
(* Bronze, Silver and the training set for every set of users, window      *)
(* length, delay, ttl, bound and number of crashes.                        *)
(***************************************************************************)
EXTENDS OfflineTraining, WindowedCountsProofs

USE WindowLenAssumption, OfflineAssumption

LEMMA MaxOfTwo ==
    ASSUME NEW a \in Int, NEW b \in Int
    PROVE  Max({a, b}) \in {a, b} /\ Max({a, b}) >= a /\ Max({a, b}) >= b
<1> DEFINE S == {a, b}
<1>1. PICK c \in Int : a <= c /\ b <= c
  <2>1. a <= a /\ b <= b /\ (a <= b \/ b <= a)
    OBVIOUS
  <2> QED
    BY <2>1
<1>2. S \in SUBSET Int /\ S # {} /\ \A s \in S : s <= c
  BY <1>1
<1>3. a \in S /\ b \in S
  OBVIOUS
<1> HIDE DEF S
<1>4. Max(S) \in S /\ \A y \in S : y <= Max(S)
  BY <1>2, MaxOfBounded
<1>5. S = {a, b}
  BY DEF S
<1>6. a <= Max(S) /\ b <= Max(S) /\ Max(S) \in {a, b}
  BY <1>3, <1>4, <1>5
<1> QED
  BY <1>6 DEF S

-----------------------------------------------------------------------------
(* Reading the topic, and the two ways of appending to it.                  *)
LEMMA LogEntry ==
    ASSUME log \in Seq(Records), NEW i \in 1 .. Len(log)
    PROVE  /\ log[i] \in Records /\ log[i].id \in Ids
           /\ log[i].user \in Users /\ log[i].time \in 0 .. MaxNow
<1>1. log[i] \in Records
  OBVIOUS
<1> QED
  BY <1>1 DEF Records

(* A step of the producer or of its client appends e.                       *)
Appended(e) ==
    /\ e \in Records
    /\ e.id <= Len(log) + 1
    /\ now <= e.time + MaxLate
    /\ e.time <= now' /\ now <= now' /\ now' \in 0 .. MaxNow
    /\ Len(log) < MaxEvents
    /\ log' = Append(log, e)
    /\ UNCHANGED <<crashes, phase, query0, query3, trainer>>

LEMMA ProduceAppends ==
    ASSUME TypeOK, NEW u \in Users, NEW t \in 0 .. MaxNow, Produce(u, t)
    PROVE  \E e : Appended(e)
<1> DEFINE e == [id |-> Len(log) + 1, user |-> u, time |-> t]
<1>1. Len(log) \in Nat /\ now \in 0 .. MaxNow /\ MaxNow \in Nat /\ MaxLate \in Nat
      /\ MaxEvents \in Nat
  BY DEF TypeOK
<1>2. Len(log) < MaxEvents /\ t >= now - MaxLate /\ now' = Max({now, t})
      /\ log' = Append(log, e)
      /\ UNCHANGED <<crashes, phase, query0, query3, trainer>>
  BY DEF Produce
<1>3. Len(log) + 1 \in Ids
  BY <1>1, <1>2 DEF Ids
<1>4. e \in Records
  BY <1>3 DEF Records
<1>5. e.id = Len(log) + 1 /\ e.time = t
  OBVIOUS
<1> HIDE DEF e
<1>6. now' \in {now, t} /\ now' >= now /\ now' >= t
  <2>1. now \in Int /\ t \in Int
    BY <1>1
  <2>2. Max({now, t}) \in {now, t} /\ Max({now, t}) >= now /\ Max({now, t}) >= t
    BY <2>1, MaxOfTwo, Zenon
  <2> QED
    BY <1>2, <2>2
<1>7. now <= e.time + MaxLate /\ e.time <= now' /\ now <= now'
      /\ now' \in 0 .. MaxNow
  <2>1. t \in Nat /\ t <= MaxNow /\ now \in Nat /\ now <= MaxNow
    BY <1>1
  <2>2. CASE now' = now
    BY <1>1, <1>2, <1>5, <1>6, <2>1, <2>2
  <2>3. CASE now' = t
    BY <1>1, <1>2, <1>5, <1>6, <2>1, <2>3
  <2> QED
    BY <1>6, <2>2, <2>3
<1>8. Appended(e)
  BY <1>1, <1>2, <1>4, <1>5, <1>7 DEF Appended
<1> QED
  BY <1>8

LEMMA RepeatAppends ==
    ASSUME TypeOK, BronzeIsKnown, LogOrder, NEW i \in 1 .. Len(log), Repeat(i)
    PROVE  \E e : Appended(e)
<1>1. Len(log) \in Nat /\ now \in 0 .. MaxNow /\ MaxLate \in Nat /\ log \in Seq(Records)
  BY DEF TypeOK
<1>2. log[i] \in Records /\ log[i].id \in Nat /\ log[i].time \in Nat
  BY <1>1, LogEntry DEF Ids
<1>3. log[i].id <= Len(log) + 1 /\ log[i].time <= now
  BY <1>1, <1>2 DEF BronzeIsKnown, LogOrder
<1>4. Len(log) < MaxEvents /\ log[i].time >= now - MaxLate /\ now' = now
      /\ log' = Append(log, log[i])
      /\ UNCHANGED <<crashes, phase, query0, query3, trainer>>
  BY DEF Repeat
<1>5. Appended(log[i])
  BY <1>1, <1>2, <1>3, <1>4 DEF Appended
<1> QED
  BY <1>5

LEMMA AppendKeeps ==
    ASSUME log \in Seq(Records), NEW e, Appended(e)
    PROVE  /\ log' \in Seq(Records)
           /\ Len(log') = Len(log) + 1 /\ Len(log) \in Nat
           /\ \A k \in 1 .. Len(log) : log'[k] = log[k]
           /\ log'[Len(log) + 1] = e
<1>1. e \in Records /\ log' = Append(log, e)
  BY DEF Appended
<1> QED
  BY <1>1

-----------------------------------------------------------------------------
(* Bronze.  Counting the copies of a transaction.                           *)
LEMMA CopiesCard ==
    ASSUME NEW i, NEW lo \in Int, NEW hi \in Int
    PROVE  /\ IsFiniteSet(Copies(i, lo .. hi))
           /\ Cardinality(Copies(i, lo .. hi)) \in Nat
<1>1. IsFiniteSet(lo .. hi)
  BY FS_Interval
<1>2. Copies(i, lo .. hi) \in SUBSET (lo .. hi)
  BY DEF Copies
<1> QED
  BY <1>1, <1>2, FS_Subset, FS_CardinalityType

LEMMA CopiesSplit ==
    ASSUME NEW i, NEW lo \in Nat, NEW hi \in Nat, lo <= hi
    PROVE  Cardinality(Copies(i, 1 .. hi))
             = Cardinality(Copies(i, 1 .. lo))
                 + Cardinality(Copies(i, lo + 1 .. hi))
<1> DEFINE A == Copies(i, 1 .. lo)
           B == Copies(i, lo + 1 .. hi)
<1>1. IsFiniteSet(A) /\ IsFiniteSet(B)
  BY CopiesCard
<1>2. A \cap B = {}
  BY DEF Copies
<1>3. Copies(i, 1 .. hi) = A \cup B
  BY DEF Copies
<1> HIDE DEF A, B
<1>4. Cardinality(A \cup B)
        = Cardinality(A) + Cardinality(B) - Cardinality(A \cap B)
  BY <1>1, FS_Union
<1>5. Cardinality(A \cap B) = 0 /\ Cardinality(A) \in Nat /\ Cardinality(B) \in Nat
  BY <1>1, <1>2, FS_EmptySet, FS_CardinalityType
<1>6. Cardinality(A \cup B) = Cardinality(A) + Cardinality(B)
  BY <1>4, <1>5
<1>7. Cardinality(Copies(i, 1 .. hi)) = Cardinality(A \cup B)
  BY <1>3, Zenon
<1> QED
  BY <1>6, <1>7 DEF A, B

LEMMA CopiesKept ==
    ASSUME log \in Seq(Records), NEW e, Appended(e),
           NEW i, NEW hi \in Nat, hi <= Len(log)
    PROVE  Copies(i, 1 .. hi)' = Copies(i, 1 .. hi)
<1>1. Len(log) \in Nat /\ \A k \in 1 .. Len(log) : log'[k] = log[k]
  BY AppendKeeps
<1>2. \A k \in 1 .. hi : log'[k] = log[k]
  BY <1>1
<1> QED
  BY <1>2 DEF Copies

(* What a batch of query 0 spans.                                           *)
LEMMA BronzeSpan ==
    ASSUME TypeOK
    PROVE  /\ landed.committed \in Nat /\ landed.planned \in Nat
           /\ Len(log) \in Nat /\ BronzeEnd \in Nat
           /\ landed.committed <= BronzeEnd /\ BronzeEnd <= Len(log)
           /\ landed.planned <= BronzeEnd
<1>1. /\ landed.committed \in Nat /\ landed.planned \in Nat
      /\ landed.committed <= landed.planned /\ landed.planned <= Len(log)
      /\ Len(log) \in Nat
  BY DEF TypeOK
<1> QED
  BY <1>1 DEF BronzeEnd

(* A batch's part files hold each of its offsets once.                      *)
LEMMA LinesAdd ==
    ASSUME TypeOK, BronzeIsKnown, NEW i \in Ids
    PROVE  /\ WithLines(bronze, BronzeBatch)[i]
                = bronze[i] + Cardinality(Copies(i, BronzeBatch))
           /\ bronze[i] \in Nat /\ WithLines(bronze, BronzeBatch)[i] \in Nat
           /\ Cardinality(Copies(i, BronzeBatch)) \in Nat
           /\ Cardinality(Copies(i, 1 .. BronzeEnd))
                = Cardinality(Copies(i, 1 .. landed.committed))
                    + Cardinality(Copies(i, BronzeBatch))
           /\ Cardinality(Copies(i, 1 .. landed.committed)) \in Nat
           /\ WithLines(bronze, BronzeBatch)[i] > 0 => i <= Len(log)
<1>1. /\ landed.committed \in Nat /\ BronzeEnd \in Nat /\ Len(log) \in Nat
      /\ landed.committed <= BronzeEnd /\ BronzeEnd <= Len(log)
  BY BronzeSpan
<1>2. WithLines(bronze, BronzeBatch)[i] = bronze[i] + Cardinality(Copies(i, BronzeBatch))
  BY DEF WithLines
<1>3. bronze[i] \in Nat
  BY DEF TypeOK
<1>4. Cardinality(Copies(i, BronzeBatch)) \in Nat
  BY <1>1, CopiesCard DEF BronzeBatch
<1>5. Cardinality(Copies(i, 1 .. landed.committed)) \in Nat
  BY <1>1, CopiesCard
<1>6. Cardinality(Copies(i, 1 .. BronzeEnd))
        = Cardinality(Copies(i, 1 .. landed.committed))
            + Cardinality(Copies(i, BronzeBatch))
  BY <1>1, CopiesSplit DEF BronzeBatch
<1>7. ASSUME WithLines(bronze, BronzeBatch)[i] > 0 PROVE i <= Len(log)
  <2>1. CASE bronze[i] > 0
    BY <2>1 DEF BronzeIsKnown
  <2>2. CASE Copies(i, BronzeBatch) # {}
    <3>1. PICK k \in BronzeBatch : log[k].id = i
      BY <2>2 DEF Copies
    <3>2. k \in 1 .. Len(log)
      BY <1>1, <3>1 DEF BronzeBatch
    <3>3. log[k].id <= k
      BY <3>2 DEF BronzeIsKnown
    <3>4. i \in Nat
      BY DEF Ids
    <3> QED
      BY <1>1, <3>1, <3>2, <3>3, <3>4
  <2>3. ASSUME Copies(i, BronzeBatch) = {} PROVE bronze[i] > 0
    <3>1. Cardinality(Copies(i, BronzeBatch)) = 0
      BY <2>3, FS_EmptySet
    <3> QED
      BY <1>2, <1>3, <1>7, <3>1
  <2> QED
    BY <2>1, <2>2, <2>3
<1>8. WithLines(bronze, BronzeBatch)[i] \in Nat
  BY <1>2, <1>3, <1>4
<1> QED
  BY <1>2, <1>3, <1>4, <1>5, <1>6, <1>7, <1>8

LEMMA LinesType ==
    ASSUME TypeOK, BronzeIsKnown
    PROVE  WithLines(bronze, BronzeBatch) \in [Ids -> Nat]
<1>1. \A i \in Ids : WithLines(bronze, BronzeBatch)[i] \in Nat
  BY LinesAdd
<1>2. WithLines(bronze, BronzeBatch) = [i \in Ids |-> WithLines(bronze, BronzeBatch)[i]]
  BY DEF WithLines
<1> QED
  BY <1>1, <1>2

(* What dead attempts left, after one more died with its file complete.      *)
LEMMA LeftoverAdd ==
    ASSUME TypeOK
    PROVE  /\ WithLines(leftover, BronzeBatch) \in [Ids -> Nat]
           /\ \A i \in Ids : WithLines(leftover, BronzeBatch)[i]
                = leftover[i] + Cardinality(Copies(i, BronzeBatch))
<1>1. landed.committed \in Nat /\ BronzeEnd \in Nat
  BY BronzeSpan
<1>2. \A i \in Ids : WithLines(leftover, BronzeBatch)[i]
        = leftover[i] + Cardinality(Copies(i, BronzeBatch))
  BY DEF WithLines
<1>3. ASSUME NEW i \in Ids PROVE WithLines(leftover, BronzeBatch)[i] \in Nat
  <2>1. leftover[i] \in Nat
    BY DEF TypeOK
  <2>2. Cardinality(Copies(i, BronzeBatch)) \in Nat
    BY <1>1, CopiesCard DEF BronzeBatch
  <2> QED
    BY <1>2, <2>1, <2>2
<1>4. WithLines(leftover, BronzeBatch)
        = [i \in Ids |-> WithLines(leftover, BronzeBatch)[i]]
  BY DEF WithLines
<1> QED
  BY <1>2, <1>3, <1>4

-----------------------------------------------------------------------------
(* The invariant of the topic and Bronze, and the types of everything.      *)
LEMMA InitBronze == Init => BronzeInv
<1> SUFFICES ASSUME Init PROVE BronzeInv
  OBVIOUS
<1>1. log = << >> /\ log \in Seq(Records) /\ Len(log) = 0
  BY DEF Init, InitAggregation
<1>2. state \in [Users -> [Starts -> Nat]]
  BY DEF Init, InitAggregation
<1>3. /\ bronze = [i \in Ids |-> 0] /\ landed = [committed |-> 0, planned |-> 0]
      /\ leftover = [i \in Ids |-> 0] /\ crashes = 0
  BY DEF Init, InitAggregation
<1>4. trainer \in [pc : {"idle", "features"}, row : 0 .. MaxEvents,
                   known : BOOLEAN, settled : BOOLEAN] /\ trainer.pc = "idle"
  BY DEF Init, Idle
<1>5. TypeOK
  <2>1. /\ now = 0 /\ committed = 0 /\ planned = 0 /\ inFlight = FALSE
        /\ wm = 0 /\ maxTime = 0 /\ phase = "up" /\ rows = {} /\ silver = {}
    BY DEF Init, InitAggregation
  <2>2. MaxNow \in Nat /\ MaxEvents \in Nat /\ MaxCrashes \in Nat
    OBVIOUS
  <2>3. /\ bronze \in [Ids -> Nat] /\ leftover \in [Ids -> Nat]
        /\ landed \in [committed : Nat, planned : Nat]
        /\ landed.committed = 0 /\ landed.planned = 0
    BY <1>3
  <2>4. /\ now \in 0 .. MaxNow /\ maxTime \in 0 .. MaxNow /\ wm \in Nat
        /\ crashes \in 0 .. MaxCrashes
        /\ committed \in 0 .. planned /\ planned \in 0 .. Len(log)
        /\ Len(log) <= MaxEvents
        /\ landed.committed <= landed.planned /\ landed.planned <= Len(log)
    BY <1>1, <1>3, <2>1, <2>2
  <2> QED
    BY <1>1, <1>2, <1>4, <2>1, <2>3, <2>4 DEF TypeOK
<1>6. LogOrder /\ BronzeIsKnown
  BY <1>1, <1>3 DEF LogOrder, BronzeIsKnown
<1>7. \A i \in Ids : /\ bronze[i] = 0 /\ leftover[i] = 0
                     /\ Cardinality(Copies(i, 1 .. landed.committed)) = 0
  <2>1. \A i \in Ids : Copies(i, 1 .. 0) = {}
    BY DEF Copies
  <2> QED
    BY <1>3, <2>1, FS_EmptySet
<1>8. BronzeIsComplete /\ BronzeIsOnce
  BY <1>7 DEF BronzeIsComplete, BronzeIsOnce
<1> QED
  BY <1>5, <1>6, <1>8 DEF BronzeInv

(* A step of the producer or its client.                                    *)
LEMMA AppendBronze ==
    ASSUME BronzeInv, NEW e, Appended(e)
    PROVE  BronzeInv'
<1>1. TypeOK /\ log \in Seq(Records)
  BY DEF BronzeInv, TypeOK
<1>2. /\ log' \in Seq(Records) /\ Len(log') = Len(log) + 1 /\ Len(log) \in Nat
      /\ \A k \in 1 .. Len(log) : log'[k] = log[k]
      /\ log'[Len(log) + 1] = e
  BY <1>1, AppendKeeps
<1>3. /\ UNCHANGED <<crashes, phase, landed, bronze, leftover, trainer>>
      /\ UNCHANGED <<committed, planned>>
      /\ UNCHANGED <<inFlight, state, wm, maxTime, rows, silver>>
  BY DEF Appended, query0, query3, checkpoint
<1>4. /\ e \in Records /\ e.id <= Len(log) + 1 /\ now <= e.time + MaxLate
      /\ e.time <= now' /\ now <= now' /\ now' \in 0 .. MaxNow
      /\ Len(log) < MaxEvents
  BY DEF Appended
<1>5. /\ now \in Nat /\ now' \in Nat /\ MaxLate \in Nat /\ MaxEvents \in Nat
      /\ e.time \in Nat
  BY <1>1, <1>4 DEF TypeOK, Records
<1>6. TypeOK'
  <2>1. Len(log') <= MaxEvents
    BY <1>2, <1>4, <1>5
  <2>2. planned' \in 0 .. Len(log')
    BY <1>1, <1>2, <1>3 DEF TypeOK
  <2>3. landed'.planned <= Len(log')
    BY <1>1, <1>2, <1>3 DEF TypeOK
  <2>4. trainer'.pc # "idle" => trainer'.row \in 1 .. Len(log')
    BY <1>1, <1>2, <1>3 DEF TypeOK
  <2> QED
    BY <1>1, <1>2, <1>3, <1>4, <2>1, <2>2, <2>3, <2>4 DEF TypeOK
<1>7. \A i \in 1 .. Len(log') : i \in 1 .. Len(log) \/ i = Len(log) + 1
  BY <1>2
<1>8. LogOrder'
  <2>1. \A j \in 1 .. Len(log') : log'[j].time <= now'
    <3>1. \A j \in 1 .. Len(log) : log[j].time <= now /\ log[j].time \in Nat
      BY <1>1, LogEntry DEF BronzeInv, LogOrder
    <3>2. \A j \in 1 .. Len(log) : log'[j].time <= now'
      BY <1>2, <1>4, <1>5, <3>1
    <3> QED
      BY <1>2, <1>4, <1>7, <3>2
  <2>2. ASSUME NEW i \in 1 .. Len(log'), NEW j \in 1 .. i
        PROVE  log'[j].time <= log'[i].time + MaxLate
    <3>1. CASE i \in 1 .. Len(log)
      <4>1. j \in 1 .. Len(log)
        BY <1>2, <3>1
      <4>2. log[j].time <= log[i].time + MaxLate
        BY <3>1 DEF BronzeInv, LogOrder
      <4> QED
        BY <1>2, <3>1, <4>1, <4>2
    <3>2. CASE i = Len(log) + 1 /\ j \in 1 .. Len(log)
      <4>1. log[j].time <= now /\ log[j].time \in Nat
        BY <1>1, <3>2, LogEntry DEF BronzeInv, LogOrder
      <4> QED
        BY <1>2, <1>4, <1>5, <3>2, <4>1
    <3>3. CASE i = Len(log) + 1 /\ j = Len(log) + 1
      BY <1>2, <1>5, <3>3
    <3>4. j \in 1 .. Len(log) \/ j = Len(log) + 1
      BY <1>2
    <3> QED
      BY <1>7, <3>1, <3>2, <3>3, <3>4
  <2> QED
    BY <2>1, <2>2 DEF LogOrder
<1>9. BronzeIsKnown'
  <2>1. \A k \in 1 .. Len(log') : log'[k].id <= k
    BY <1>2, <1>4, <1>7 DEF BronzeInv, BronzeIsKnown
  <2>2. \A i \in Ids : bronze[i] > 0 => i <= Len(log) + 1
    <3>1. \A i \in Ids : i \in Nat
      BY DEF Ids
    <3> QED
      BY <1>2, <3>1 DEF BronzeInv, BronzeIsKnown
  <2> QED
    BY <1>2, <1>3, <2>1, <2>2 DEF BronzeIsKnown
<1>10. \A i \in Ids :
         Copies(i, 1 .. landed.committed)' = Copies(i, 1 .. landed.committed)
  <2>1. landed.committed \in Nat /\ landed.committed <= Len(log)
    BY <1>1 DEF TypeOK
  <2>2. \A i \in Ids : Copies(i, 1 .. landed.committed)' = Copies(i, 1 .. landed.committed)
    BY <1>1, <1>3, <2>1, CopiesKept
  <2> QED
    BY <2>2
<1>11. BronzeIsComplete' /\ BronzeIsOnce'
  BY <1>3, <1>10 DEF BronzeInv, BronzeIsComplete, BronzeIsOnce
<1> QED
  BY <1>6, <1>8, <1>9, <1>11 DEF BronzeInv

(* A batch of query 0 that runs to its end.                                 *)
LEMMA LandBronzeInv ==
    ASSUME BronzeInv, LandBronze
    PROVE  BronzeInv'
<1> USE DEF BronzeInv
<1>1. /\ bronze' = WithLines(bronze, BronzeBatch)
      /\ landed' = [committed |-> BronzeEnd, planned |-> BronzeEnd]
      /\ UNCHANGED <<now, log, crashes, phase, trainer, committed, planned>>
      /\ UNCHANGED <<leftover, inFlight, state, wm, maxTime, rows, silver>>
  BY DEF LandBronze, query3, checkpoint
<1>2. /\ BronzeEnd \in Nat /\ BronzeEnd <= Len(log) /\ landed.planned <= BronzeEnd
      /\ landed'.committed = BronzeEnd /\ landed'.planned = BronzeEnd
  BY <1>1, BronzeSpan
<1>3. TypeOK'
  <2>1. bronze' \in [Ids -> Nat]
    BY <1>1, LinesType
  <2>2. landed' \in [committed : Nat, planned : Nat]
    BY <1>1, <1>2
  <2> QED
    BY <1>1, <1>2, <2>1, <2>2 DEF TypeOK
<1>4. LogOrder'
  BY <1>1 DEF LogOrder
<1>5. BronzeIsKnown'
  BY <1>1, LinesAdd DEF BronzeIsKnown
<1>6. \A i \in Ids : Copies(i, 1 .. landed.committed)' = Copies(i, 1 .. BronzeEnd)
  BY <1>1, <1>2 DEF Copies
<1>7. BronzeIsComplete'
  <2> SUFFICES ASSUME NEW i \in Ids
               PROVE  bronze'[i] >= Cardinality(Copies(i, 1 .. BronzeEnd))
    BY <1>6 DEF BronzeIsComplete
  <2>1. bronze[i] >= Cardinality(Copies(i, 1 .. landed.committed))
    BY DEF BronzeIsComplete
  <2>2. /\ bronze'[i] = bronze[i] + Cardinality(Copies(i, BronzeBatch))
        /\ bronze[i] \in Nat
        /\ Cardinality(Copies(i, BronzeBatch)) \in Nat
        /\ Cardinality(Copies(i, 1 .. landed.committed)) \in Nat
        /\ Cardinality(Copies(i, 1 .. BronzeEnd))
             = Cardinality(Copies(i, 1 .. landed.committed))
                 + Cardinality(Copies(i, BronzeBatch))
    BY <1>1, LinesAdd
  <2> QED
    BY <2>1, <2>2
<1>8. BronzeIsOnce'
  <2> SUFFICES ASSUME NEW i \in Ids
               PROVE  bronze'[i]
                        = Cardinality(Copies(i, 1 .. BronzeEnd)) + leftover[i]
    BY <1>1, <1>6 DEF BronzeIsOnce
  <2>1. bronze[i]
          = Cardinality(Copies(i, 1 .. landed.committed)) + leftover[i]
    BY DEF BronzeIsOnce
  <2>2. leftover[i] \in Nat
    BY DEF TypeOK
  <2>3. /\ bronze'[i] = bronze[i] + Cardinality(Copies(i, BronzeBatch))
        /\ Cardinality(Copies(i, BronzeBatch)) \in Nat
        /\ Cardinality(Copies(i, 1 .. landed.committed)) \in Nat
        /\ Cardinality(Copies(i, 1 .. BronzeEnd))
             = Cardinality(Copies(i, 1 .. landed.committed))
                 + Cardinality(Copies(i, BronzeBatch))
    BY <1>1, LinesAdd
  <2> QED
    BY <2>1, <2>2, <2>3
<1> QED
  BY <1>3, <1>4, <1>5, <1>7, <1>8

(* A batch of query 0, or one of query 3, that dies.                        *)
LEMMA CrashBronzeInv ==
    ASSUME BronzeInv, NEW landedFile \in BOOLEAN, Crash(landedFile)
    PROVE  BronzeInv'
<1> USE DEF BronzeInv
<1>1. /\ crashes < MaxCrashes /\ crashes' = crashes + 1
      /\ phase' = "up" /\ rows' = {}
      /\ UNCHANGED <<now, log, trainer, committed, planned>>
      /\ UNCHANGED <<inFlight, state, wm, maxTime, silver>>
      /\ landed' \in {landed, [landed EXCEPT !.planned = BronzeEnd]}
      /\ \/ bronze' = bronze /\ leftover' = leftover
         \/ /\ bronze' = WithLines(bronze, BronzeBatch)
            /\ leftover' = WithLines(leftover, BronzeBatch)
  BY DEF Crash, query0, checkpoint
<1>2. /\ BronzeEnd \in Nat /\ BronzeEnd <= Len(log) /\ landed.planned <= BronzeEnd
      /\ landed.committed \in Nat /\ landed.committed <= BronzeEnd
  BY BronzeSpan
<1>3. landed \in [committed : Nat, planned : Nat] /\ bronze \in [Ids -> Nat]
  BY DEF TypeOK
<1>4. /\ landed' \in [committed : Nat, planned : Nat]
      /\ landed'.committed = landed.committed
      /\ landed'.committed <= landed'.planned /\ landed'.planned <= Len(log)
  BY <1>1, <1>2, <1>3 DEF TypeOK
<1>5. \A i \in Ids : /\ bronze'[i] \in Nat /\ bronze'[i] >= bronze[i]
                     /\ bronze'[i] > 0 => i <= Len(log)
  <2>1. CASE bronze' = bronze
    BY <1>3, <2>1 DEF BronzeIsKnown
  <2>2. CASE bronze' = WithLines(bronze, BronzeBatch)
    BY <2>2, LinesAdd
  <2> QED
    BY <1>1, <2>1, <2>2
<1>6. bronze' \in [Ids -> Nat] /\ leftover' \in [Ids -> Nat]
  <2>1. leftover \in [Ids -> Nat]
    BY DEF TypeOK
  <2> QED
    BY <1>1, <1>3, <2>1, LinesType, LeftoverAdd
<1>7. crashes' \in 0 .. MaxCrashes
  BY <1>1 DEF TypeOK
<1>8. TypeOK'
  BY <1>1, <1>4, <1>6, <1>7 DEF TypeOK
<1>9. LogOrder' /\ BronzeIsKnown'
  BY <1>1, <1>5 DEF LogOrder, BronzeIsKnown
<1>10. BronzeIsComplete'
  <2> SUFFICES ASSUME NEW i \in Ids
               PROVE  bronze'[i] >= Cardinality(Copies(i, 1 .. landed.committed))
    BY <1>1, <1>4 DEF BronzeIsComplete, Copies
  <2>1. bronze[i] >= Cardinality(Copies(i, 1 .. landed.committed))
    BY DEF BronzeIsComplete
  <2>2. Cardinality(Copies(i, 1 .. landed.committed)) \in Nat
    BY <1>2, CopiesCard
  <2>3. bronze[i] \in Nat /\ bronze'[i] \in Nat /\ bronze'[i] >= bronze[i]
    BY <1>3, <1>5
  <2> QED
    BY <2>1, <2>2, <2>3
<1>11. BronzeIsOnce'
  <2> SUFFICES ASSUME NEW i \in Ids
               PROVE  bronze'[i] = Cardinality(Copies(i, 1 .. landed.committed))
                                     + leftover'[i]
    BY <1>1, <1>4 DEF BronzeIsOnce, Copies
  <2>1. bronze[i]
          = Cardinality(Copies(i, 1 .. landed.committed)) + leftover[i]
    BY DEF BronzeIsOnce
  <2>2. leftover[i] \in Nat
    BY DEF TypeOK
  <2>3. /\ Cardinality(Copies(i, BronzeBatch)) \in Nat
        /\ Cardinality(Copies(i, 1 .. landed.committed)) \in Nat
        /\ WithLines(bronze, BronzeBatch)[i]
             = bronze[i] + Cardinality(Copies(i, BronzeBatch))
    BY LinesAdd
  <2>4. WithLines(leftover, BronzeBatch)[i]
          = leftover[i] + Cardinality(Copies(i, BronzeBatch))
    BY LeftoverAdd
  <2>5. CASE bronze' = bronze /\ leftover' = leftover
    BY <2>1, <2>5
  <2>6. CASE /\ bronze' = WithLines(bronze, BronzeBatch)
             /\ leftover' = WithLines(leftover, BronzeBatch)
    BY <2>1, <2>2, <2>3, <2>4, <2>6
  <2> QED
    BY <1>1, <2>5, <2>6
<1> QED
  BY <1>8, <1>9, <1>10, <1>11

(* The aggregates of query 3 are counts.                                    *)
LEMMA CountIsNat ==
    ASSUME TypeOK, NEW u \in Users, NEW s \in Starts, NEW hi \in Nat
    PROVE  Count(u, s, hi) \in Nat
<1>1. state[u][s] \in Nat
  BY DEF TypeOK
<1>2. Cardinality(InWindow(u, s, committed + 1, hi)) \in Nat
  <2>1. committed + 1 \in Int /\ hi \in Int
    BY DEF TypeOK
  <2> QED
    BY <2>1, InWindowCard
<1> QED
  BY <1>1, <1>2 DEF Count

(* The newest event time of the committed batches is that of one of them.   *)
LEMMA NewMaxTime ==
    ASSUME TypeOK
    PROVE  LET T == {log[i].time : i \in committed + 1 .. planned}
               m == Max({maxTime} \cup T)
           IN  /\ m \in 0 .. MaxNow
               /\ m >= maxTime
               /\ m \in {maxTime} \cup T
<1> DEFINE T == {log[i].time : i \in committed + 1 .. planned}
           S == {maxTime} \cup T
<1>1. \A i \in committed + 1 .. planned : log[i].time \in 0 .. MaxNow
  <2> SUFFICES ASSUME NEW i \in committed + 1 .. planned
               PROVE  log[i].time \in 0 .. MaxNow
    OBVIOUS
  <2>1. i \in 1 .. Len(log) /\ log \in Seq(Records)
    BY DEF TypeOK
  <2> QED
    BY <2>1, LogEntry
<1>2. S \in SUBSET (0 .. MaxNow) /\ S # {}
  BY <1>1 DEF TypeOK
<1>3. S \in SUBSET Int /\ (\A s \in S : s <= MaxNow) /\ MaxNow \in Int
  BY <1>2
<1>4. Max(S) \in S /\ \A y \in S : y <= Max(S)
  BY <1>2, <1>3, MaxOfBounded
<1> QED
  BY <1>2, <1>4 DEF TypeOK

(* Query 3 leaves the topic and Bronze alone.                               *)
LEMMA SilverKeepsBronze ==
    ASSUME BronzeInv, UNCHANGED <<now, log, crashes, landed, bronze, leftover>>, TypeOK'
    PROVE  BronzeInv'
BY DEF BronzeInv, LogOrder, BronzeIsKnown, BronzeIsComplete, BronzeIsOnce,
       Copies

LEMMA SilverTypes ==
    ASSUME TypeOK, StartSilver \/ (\E r \in rows : WriteSilver(r)) \/ CommitSilver
    PROVE  TypeOK' /\ UNCHANGED <<now, log, crashes, landed, bronze, leftover>>
<1> USE DEF checkpoint, query0
<1>1. CASE StartSilver
  <2>1. /\ planned' = IF inFlight THEN planned ELSE Len(log)
        /\ inFlight' = TRUE /\ phase' = "writing"
        /\ rows' = ClosedRows(planned')
        /\ UNCHANGED <<now, log, crashes, landed, bronze, leftover, committed, state>>
        /\ UNCHANGED <<wm, maxTime, silver, trainer>>
    BY <1>1 DEF StartSilver
  <2>2. rows' \subseteq SilverRows
    <3>1. 1 .. Len(log) \subseteq Nat \ {0}
      BY DEF TypeOK
    <3> QED
      BY <2>1, <3>1 DEF ClosedRows, SilverRows
  <2>3. planned' \in 0 .. Len(log) /\ committed \in 0 .. planned'
    BY <2>1 DEF TypeOK
  <2> QED
    BY <2>1, <2>2, <2>3 DEF TypeOK
<1>2. ASSUME NEW r \in rows, WriteSilver(r)
      PROVE  TypeOK' /\ UNCHANGED <<now, log, crashes, landed, bronze, leftover>>
  BY <1>2 DEF WriteSilver, TypeOK
<1>3. CASE CommitSilver
  <2>1. /\ wm' = EvictWm /\ committed' = planned /\ inFlight' = FALSE
        /\ phase' = "up" /\ rows' = {} /\ planned' = planned
        /\ UNCHANGED <<now, log, crashes, landed, bronze, leftover, silver, trainer>>
    BY <1>3 DEF CommitSilver, CommitAggregation
  <2>2. \A u \in Users, s \in Starts : Count(u, s, planned) \in Nat
    BY CountIsNat DEF TypeOK
  <2>3. state' \in [Users -> [Starts -> Nat]]
    BY <1>3, <2>2 DEF CommitSilver, CommitAggregation
  <2>4. wm' \in Nat
    <3>1. wm \in Nat /\ maxTime \in Nat
      BY DEF TypeOK
    <3> QED
      BY <2>1, <3>1, EvictWmIsMax
  <2>5. maxTime' \in 0 .. MaxNow
    BY <1>3, NewMaxTime DEF CommitSilver, CommitAggregation
  <2>6. committed' \in 0 .. planned' /\ planned' \in 0 .. Len(log')
    BY <2>1 DEF TypeOK
  <2>7. /\ now' \in 0 .. MaxNow /\ log' \in Seq(Records) /\ Len(log') <= MaxEvents
        /\ silver' \subseteq SilverRows /\ rows' \subseteq SilverRows
        /\ crashes' \in 0 .. MaxCrashes
        /\ bronze' \in [Ids -> Nat] /\ leftover' \in [Ids -> Nat]
    BY <2>1 DEF TypeOK
  <2>8. /\ landed' \in [committed : Nat, planned : Nat]
        /\ landed'.committed <= landed'.planned /\ landed'.planned <= Len(log')
        /\ trainer' \in [pc : {"idle", "features"}, row : 0 .. MaxEvents,
                         known : BOOLEAN, settled : BOOLEAN]
        /\ trainer'.pc # "idle" => trainer'.row \in 1 .. Len(log')
    BY <2>1 DEF TypeOK
  <2>9. /\ inFlight' \in BOOLEAN /\ ~inFlight' /\ committed' = planned'
        /\ phase' \in {"up", "writing"} /\ phase' # "writing" /\ rows' = {}
    BY <2>1
  <2> QED
    BY <2>1, <2>3, <2>4, <2>5, <2>6, <2>7, <2>8, <2>9 DEF TypeOK
<1> QED
  BY <1>1, <1>2, <1>3

(* A training run looks at rows the topic has.                              *)
LEMMA TrainerTypes ==
    ASSUME BronzeInv, (\E i \in Ids : ReadUsers(i)) \/ JoinFeatures
    PROVE  TypeOK' /\ UNCHANGED <<now, log, crashes, landed, bronze, leftover>>
<1> USE DEF checkpoint, query0, query3, BronzeInv
<1>1. /\ UNCHANGED <<now, log, crashes, landed, bronze, leftover, phase, committed>>
      /\ UNCHANGED <<planned, inFlight, state, wm, maxTime, rows, silver>>
  BY DEF ReadUsers, JoinFeatures
<1>2. ASSUME NEW i \in Ids, ReadUsers(i) PROVE TypeOK'
  <2> DEFINE known == \E r \in silver : r.user = log[i].user
             settled == log[i].time <= wm
  <2>1. trainer' = [pc |-> "features", row |-> i,
                    known |-> known, settled |-> settled] /\ bronze[i] > 0
    BY <1>2 DEF ReadUsers, EntityRows
  <2>2. known \in BOOLEAN /\ settled \in BOOLEAN
    OBVIOUS
  <2> HIDE DEF known, settled
  <2>3. i \in 1 .. Len(log) /\ i \in 0 .. MaxEvents
    <3>1. i <= Len(log)
      BY <2>1 DEF BronzeIsKnown
    <3>2. Len(log) \in Nat /\ Len(log) <= MaxEvents /\ MaxEvents \in Nat
      BY DEF TypeOK
    <3> QED
      BY <3>1, <3>2 DEF Ids
  <2> QED
    BY <1>1, <2>1, <2>2, <2>3 DEF TypeOK
<1>3. ASSUME JoinFeatures PROVE TypeOK'
  <2>1. trainer' = Idle
    BY <1>3 DEF JoinFeatures
  <2> QED
    BY <1>1, <2>1 DEF TypeOK, Idle
<1> QED
  BY <1>1, <1>2, <1>3

LEMMA NextBronze == BronzeInv /\ [Next]_vars => BronzeInv'
<1> SUFFICES ASSUME BronzeInv, [Next]_vars PROVE BronzeInv'
  OBVIOUS
<1>0. TypeOK /\ BronzeIsKnown /\ LogOrder
  BY DEF BronzeInv
<1>1. ASSUME NEW u \in Users, NEW t \in 0 .. MaxNow, Produce(u, t)
      PROVE  BronzeInv'
  BY <1>0, <1>1, ProduceAppends, AppendBronze
<1>2. ASSUME NEW i \in 1 .. Len(log), Repeat(i)
      PROVE  BronzeInv'
  BY <1>0, <1>2, RepeatAppends, AppendBronze
<1>3. CASE LandBronze
  BY <1>3, LandBronzeInv
<1>4. CASE StartSilver \/ (\E r \in rows : WriteSilver(r)) \/ CommitSilver
  BY <1>0, <1>4, SilverTypes, SilverKeepsBronze
<1>5. ASSUME NEW landedFile \in BOOLEAN, Crash(landedFile)
      PROVE  BronzeInv'
  BY <1>5, CrashBronzeInv
<1>6. CASE (\E i \in Ids : ReadUsers(i)) \/ JoinFeatures
  BY <1>6, TrainerTypes, SilverKeepsBronze
<1>7. CASE UNCHANGED vars
  <2>1. TypeOK'
    BY <1>0, <1>7 DEF vars, TypeOK
  <2> QED
    BY <1>7, <2>1, SilverKeepsBronze DEF vars
<1> QED
  BY <1>1, <1>2, <1>3, <1>4, <1>5, <1>6, <1>7 DEF Next, Done

(* The offline path keeps its types, whatever the bounds.                   *)
THEOREM OfflineTypes == Spec => []TypeOK
<1>1. BronzeInv => TypeOK
  BY DEF BronzeInv
<1> QED
  BY <1>1, InitBronze, NextBronze, PTL DEF Spec

(* Bronze has a line for every copy of every committed record, for every    *)
(* pattern of crashes and replays.                                          *)
THEOREM NothingMissingFromBronze == Spec => []BronzeIsComplete
<1>1. BronzeInv => BronzeIsComplete
  BY DEF BronzeInv
<1> QED
  BY <1>1, InitBronze, NextBronze, PTL DEF Spec

LEMMA OneRowFromInv == BronzeInv => OneRowUnlessRepeated
<1> SUFFICES ASSUME BronzeInv, NEW i \in Ids
             PROVE  bronze[i]
                      <= Cardinality(Copies(i, 1 .. Len(log))) + leftover[i]
  BY DEF OneRowUnlessRepeated, EntityRows
<1>1. /\ bronze[i] = Cardinality(Copies(i, 1 .. landed.committed)) + leftover[i]
      /\ leftover[i] \in Nat
  BY DEF BronzeInv, BronzeIsOnce, TypeOK
<1>2. landed.committed \in Nat /\ Len(log) \in Nat /\ landed.committed <= Len(log)
  BY DEF BronzeInv, TypeOK
<1>3. Cardinality(Copies(i, 1 .. Len(log)))
        = Cardinality(Copies(i, 1 .. landed.committed))
            + Cardinality(Copies(i, landed.committed + 1 .. Len(log)))
  BY <1>2, CopiesSplit
<1>4. /\ Cardinality(Copies(i, 1 .. landed.committed)) \in Nat
      /\ Cardinality(Copies(i, landed.committed + 1 .. Len(log))) \in Nat
  BY <1>2, CopiesCard
<1> QED
  BY <1>1, <1>3, <1>4

(* A transaction has a training row for each copy of its record and for each *)
(* line a dead attempt of query 0 left, and no other.                        *)
THEOREM RowsAreSingle == Spec => []OneRowUnlessRepeated
BY OneRowFromInv, InitBronze, NextBronze, PTL DEF Spec

-----------------------------------------------------------------------------
(* Silver.  A record at or after a time t no more than MaxLate before the   *)
(* newest committed one is out of every closed window.                      *)
LEMMA ClosedBefore ==
    ASSUME MaxLate <= WatermarkDelay, TypeOK, WatermarkBound,
           NEW t \in Nat, maxTime <= t + MaxLate,
           NEW s \in Starts, WindowEnd(s) <= EvictWm
    PROVE  s \notin WindowStarts(t)
<1>1. wm \in Nat /\ maxTime \in Nat /\ WatermarkDelay \in Nat /\ MaxLate \in Nat
  BY DEF TypeOK
<1>2. EvictWm \in {wm, maxTime - WatermarkDelay}
  BY <1>1, EvictWmIsMax
<1>3. EvictWm <= t
  BY <1>1, <1>2 DEF WatermarkBound
<1>4. s \in Int /\ s + WindowLen <= t
  BY <1>1, <1>2, <1>3 DEF WindowEnd, Starts
<1> QED
  BY <1>4 DEF WindowStarts

(* No uncommitted record is in a closed window.                             *)
LEMMA NothingToCome ==
    ASSUME MaxLate <= WatermarkDelay, TypeOK, WatermarkBound,
           NEW s \in Starts, WindowEnd(s) <= EvictWm,
           NEW k \in committed + 1 .. Len(log)
    PROVE  s \notin WindowStarts(log[k].time)
<1>1. k \in 1 .. Len(log) /\ log \in Seq(Records)
  BY DEF TypeOK
<1>2. log[k].time \in Nat
  BY <1>1, LogEntry
<1>3. maxTime <= log[k].time + MaxLate
  BY DEF WatermarkBound
<1> QED
  BY <1>2, <1>3, ClosedBefore

LEMMA ClosedIsComplete ==
    ASSUME MaxLate <= WatermarkDelay, TypeOK, WatermarkBound,
           NEW u, NEW s \in Starts, WindowEnd(s) <= EvictWm,
           NEW hi \in Nat, committed <= hi, hi <= Len(log)
    PROVE  /\ InWindow(u, s, 1, hi) = PartsOf(u, s)
           /\ InWindow(u, s, committed + 1, hi) = {}
<1>1. committed \in Nat /\ Len(log) \in Nat
  BY DEF TypeOK
<1>2. \A k \in committed + 1 .. Len(log) : s \notin WindowStarts(log[k].time)
  BY NothingToCome
<1>3. InWindow(u, s, committed + 1, hi) = {}
  BY <1>1, <1>2 DEF InWindow
<1>4. ASSUME NEW k \in PartsOf(u, s) PROVE k \in InWindow(u, s, 1, hi)
  <2>1. k \in 1 .. Len(log) /\ log[k].user = u /\ s \in WindowStarts(log[k].time)
    BY DEF PartsOf, InWindow
  <2>2. k \notin committed + 1 .. Len(log)
    BY <1>2, <2>1
  <2>3. k \in 1 .. hi
    BY <1>1, <2>1, <2>2
  <2> QED
    BY <2>1, <2>3 DEF InWindow
<1>5. InWindow(u, s, 1, hi) \subseteq PartsOf(u, s)
  BY <1>1 DEF PartsOf, InWindow
<1> QED
  BY <1>3, <1>4, <1>5

(* An append shows in no closed window.                                     *)
LEMMA AppendKeepsClosed ==
    ASSUME MaxLate <= WatermarkDelay, TypeOK, WatermarkBound,
           NEW e, Appended(e),
           NEW u, NEW s \in Starts, WindowEnd(s) <= EvictWm
    PROVE  PartsOf(u, s)' = PartsOf(u, s)
<1>1. /\ Len(log') = Len(log) + 1 /\ Len(log) \in Nat
      /\ log \in Seq(Records)
      /\ \A k \in 1 .. Len(log) : log'[k] = log[k]
      /\ log'[Len(log) + 1] = e
  BY AppendKeeps DEF TypeOK
<1>2. e.time \in Nat /\ maxTime <= e.time + MaxLate
  <2>1. e \in Records /\ now <= e.time + MaxLate
    BY DEF Appended
  <2>2. e.time \in Nat
    BY <2>1 DEF Records
  <2> QED
    BY <2>1, <2>2 DEF WatermarkBound, TypeOK
<1>3. s \notin WindowStarts(e.time)
  BY <1>2, ClosedBefore
<1>4. \A k : k \in 1 .. Len(log) + 1 <=> k \in 1 .. Len(log) \/ k = Len(log) + 1
  BY <1>1
<1>5. PartsOf(u, s)' = {k \in 1 .. Len(log) + 1 :
                          log'[k].user = u /\ s \in WindowStarts(log'[k].time)}
  BY <1>1 DEF PartsOf, InWindow
<1>6. \A k : k \in PartsOf(u, s)' <=> k \in PartsOf(u, s)
  BY <1>1, <1>3, <1>4, <1>5 DEF PartsOf, InWindow
<1> QED
  BY <1>6

(* State plus batch is everything, for a window still open.                 *)
LEMMA OpenCountIsExact ==
    ASSUME TypeOK, StateIsExact, NEW u \in Users, NEW s \in Starts, ~Late(s),
           NEW hi \in Nat, committed <= hi
    PROVE  Count(u, s, hi) = Cardinality(InWindow(u, s, 1, hi))
<1>1. committed \in Nat
  BY DEF TypeOK
<1>2. state[u][s] = Cardinality(InWindow(u, s, 1, committed))
  BY DEF StateIsExact
<1> QED
  BY <1>1, <1>2, WindowSplits DEF Count

(* The rows of a batch are the windows it closes, each with all that will   *)
(* ever be in it.                                                           *)
LEMMA ClosedRowsAreFinal ==
    ASSUME MaxLate <= WatermarkDelay, TypeOK, WatermarkBound, StateIsExact,
           NEW hi \in Nat, committed <= hi, hi <= Len(log),
           NEW r \in ClosedRows(hi)
    PROVE  /\ WindowEnd(r.start) <= EvictWm
           /\ r.cnt = Cardinality(PartsOf(r.user, r.start))
<1>1. /\ r.user \in Users /\ r.start \in Starts /\ r.cnt \in 1 .. Len(log)
      /\ WindowEnd(r.start) <= EvictWm /\ r.cnt = Count(r.user, r.start, hi)
  BY DEF ClosedRows
<1>2. ~Late(r.start)
  <2>1. ASSUME Late(r.start) PROVE Count(r.user, r.start, hi) = 0
    BY <1>1, <2>1 DEF StateIsExact, Count
  <2> QED
    BY <1>1, <2>1 DEF TypeOK
<1>3. r.cnt = Cardinality(InWindow(r.user, r.start, 1, hi))
  BY <1>1, <1>2, OpenCountIsExact
<1>4. InWindow(r.user, r.start, 1, hi) = PartsOf(r.user, r.start)
  BY <1>1, ClosedIsComplete
<1> QED
  BY <1>1, <1>3, <1>4

LEMMA ClosedRowsCover ==
    ASSUME MaxLate <= WatermarkDelay, TypeOK, WatermarkBound, StateIsExact,
           NEW hi \in Nat, committed <= hi, hi <= Len(log),
           NEW u \in Users, NEW s \in Starts, ~Late(s), WindowEnd(s) <= EvictWm,
           PartsOf(u, s) # {}
    PROVE  \E r \in ClosedRows(hi) : r.user = u /\ r.start = s
<1> DEFINE c == Cardinality(PartsOf(u, s))
           r == [user |-> u, start |-> s, cnt |-> c]
<1>1. Count(u, s, hi) = c
  BY OpenCountIsExact, ClosedIsComplete
<1>2. c \in 1 .. Len(log)
  <2>1. Len(log) \in Nat
    BY DEF TypeOK
  <2>2. IsFiniteSet(1 .. Len(log)) /\ Cardinality(1 .. Len(log)) = Len(log)
    <3>1. /\ IsFiniteSet(1 .. Len(log))
          /\ Cardinality(1 .. Len(log))
               = IF 1 > Len(log) THEN 0 ELSE Len(log) - 1 + 1
      <4>1. 1 \in Int /\ Len(log) \in Int
        BY <2>1
      <4> QED
        BY <4>1, FS_Interval, Zenon
    <3> QED
      BY <2>1, <3>1
  <2>3. PartsOf(u, s) \in SUBSET (1 .. Len(log))
    BY DEF PartsOf, InWindow
  <2>4. /\ IsFiniteSet(PartsOf(u, s))
        /\ Cardinality(PartsOf(u, s)) <= Len(log)
    BY <2>2, <2>3, FS_Subset
  <2>5. Cardinality(PartsOf(u, s)) \in Nat /\ Cardinality(PartsOf(u, s)) # 0
    BY <2>4, FS_CardinalityType, FS_EmptySet
  <2> QED
    BY <2>1, <2>4, <2>5
<1> HIDE DEF c
<1>3. r \in ClosedRows(hi) /\ r.user = u /\ r.start = s
  BY <1>1, <1>2 DEF ClosedRows
<1> QED
  BY <1>3

-----------------------------------------------------------------------------
(* The invariant of Silver, step by step: WatermarkBound, StateIsExact,     *)
(* RowsAreFinal and ClosedAreWritten are kept.                              *)
LEMMA InitSilver == Init => SilverInv
<1> SUFFICES ASSUME Init
             PROVE  /\ WatermarkBound /\ StateIsExact
                    /\ RowsAreFinal /\ ClosedAreWritten
  BY InitBronze DEF SilverInv
<1>1. /\ Len(log) = 0 /\ now = 0 /\ committed = 0 /\ wm = 0 /\ maxTime = 0
      /\ rows = {} /\ silver = {}
      /\ state = [u \in Users |-> [s \in Starts |-> 0]]
  BY DEF Init, InitAggregation
<1>2. \A u, s : InWindow(u, s, 1, 0) = {}
  BY DEF InWindow
<1>3. WatermarkBound
  BY <1>1 DEF WatermarkBound
<1>4. StateIsExact
  BY <1>1, <1>2, FS_EmptySet DEF StateIsExact
<1>5. RowsAreFinal /\ ClosedAreWritten
  BY <1>1, <1>2 DEF RowsAreFinal, ClosedAreWritten, PartsOf
<1> QED
  BY <1>3, <1>4, <1>5

LEMMA AppendSilver ==
    ASSUME MaxLate <= WatermarkDelay, SilverInv, NEW e, Appended(e)
    PROVE  WatermarkBound' /\ StateIsExact' /\ RowsAreFinal' /\ ClosedAreWritten'
<1> USE DEF SilverInv
<1>1. TypeOK /\ log \in Seq(Records)
  BY DEF BronzeInv, TypeOK
<1>2. /\ UNCHANGED <<phase, committed, state, wm, maxTime, rows, silver>>
      /\ now <= now' /\ now <= e.time + MaxLate /\ e \in Records
  BY DEF Appended, query3, checkpoint
<1>3. /\ Len(log') = Len(log) + 1 /\ Len(log) \in Nat
      /\ \A k \in 1 .. Len(log) : log'[k] = log[k]
      /\ log'[Len(log) + 1] = e
  BY <1>1, AppendKeeps
<1>4. EvictWm' = EvictWm /\ \A s : Late(s)' = Late(s)
  BY <1>2 DEF EvictWm, Late
<1>5. \A u, s : s \in Starts /\ WindowEnd(s) <= EvictWm
                  => PartsOf(u, s)' = PartsOf(u, s)
  BY <1>1, AppendKeepsClosed
<1>6. WatermarkBound'
  <2>1. /\ maxTime \in Nat /\ now \in Nat /\ now' \in Nat /\ e.time \in Nat
        /\ committed \in Nat /\ MaxLate \in Nat
    BY <1>1, <1>2 DEF TypeOK, Appended, Records
  <2>2. maxTime <= now' /\ maxTime <= e.time + MaxLate
    BY <1>2, <2>1 DEF WatermarkBound
  <2>3. ASSUME NEW i \in committed + 1 .. Len(log) + 1
        PROVE  maxTime <= log'[i].time + MaxLate
    <3>1. CASE i = Len(log) + 1
      BY <1>3, <2>2, <3>1
    <3>2. CASE i \in committed + 1 .. Len(log)
      <4>1. log'[i] = log[i]
        BY <1>3, <2>1, <3>2
      <4> QED
        BY <3>2, <4>1 DEF WatermarkBound
    <3> QED
      BY <1>3, <2>1, <3>1, <3>2
  <2> QED
    BY <1>2, <1>3, <2>2, <2>3 DEF WatermarkBound
<1>7. StateIsExact'
  <2>1. committed \in Nat /\ committed <= Len(log)
    BY <1>1 DEF TypeOK
  <2>2. \A u, s : InWindow(u, s, 1, committed)' = InWindow(u, s, 1, committed)
    <3>1. \A k \in 1 .. committed : log'[k] = log[k]
      BY <1>3, <2>1
    <3> QED
      BY <1>2, <3>1 DEF InWindow
  <2> QED
    BY <1>2, <1>4, <2>2 DEF StateIsExact
<1>8. RowsAreFinal'
  <2>1. \A r \in rows \cup silver : r.start \in Starts
    BY <1>1 DEF TypeOK, SilverRows
  <2>2. \A r \in rows \cup silver :
          PartsOf(r.user, r.start)' = PartsOf(r.user, r.start)
    BY <1>2, <1>5, <2>1 DEF RowsAreFinal
  <2> QED
    BY <1>2, <1>4, <2>2 DEF RowsAreFinal
<1>9. ClosedAreWritten'
  <2>1. \A s \in Starts : Late(s) => WindowEnd(s) <= EvictWm
    <3>1. wm \in Nat /\ EvictWm \in Nat /\ EvictWm >= wm
      BY <1>1, EvictWmIsMax DEF TypeOK
    <3>2. \A s \in Starts : WindowEnd(s) \in Int
      BY DEF Starts, WindowEnd
    <3> QED
      BY <3>1, <3>2 DEF Late
  <2> SUFFICES ASSUME NEW u \in Users, NEW s \in Starts, PartsOf(u, s)' # {}
               PROVE  /\ Late(s)' => \E r \in silver' : r.user = u /\ r.start = s
                      /\ (phase' = "writing" /\ WindowEnd(s) <= EvictWm') =>
                           \E r \in rows' \cup silver' : r.user = u /\ r.start = s
    BY DEF ClosedAreWritten
  <2>2. WindowEnd(s) <= EvictWm => PartsOf(u, s) # {}
    BY <1>5
  <2> QED
    BY <1>2, <1>4, <2>1, <2>2 DEF ClosedAreWritten
<1> QED
  BY <1>6, <1>7, <1>8, <1>9

(* Steps that leave the aggregation alone; a crash also drops rows.         *)
LEMMA OtherSilver ==
    ASSUME SilverInv,
           UNCHANGED <<now, log, committed, state, wm, maxTime, silver>>,
           rows' \subseteq rows, phase' = "writing" => phase = "writing" /\ rows' = rows
    PROVE  WatermarkBound' /\ StateIsExact' /\ RowsAreFinal' /\ ClosedAreWritten'
<1> USE DEF SilverInv
<1>1. /\ EvictWm' = EvictWm /\ \A s : Late(s)' = Late(s)
  BY DEF EvictWm, Late
<1>2. \A u, s : PartsOf(u, s)' = PartsOf(u, s)
  BY DEF PartsOf, InWindow
<1>3. WatermarkBound'
  BY DEF WatermarkBound
<1>4. StateIsExact'
  BY <1>1 DEF StateIsExact, InWindow
<1>5. RowsAreFinal'
  BY <1>1, <1>2 DEF RowsAreFinal
<1>6. ClosedAreWritten'
  BY <1>1, <1>2 DEF ClosedAreWritten
<1> QED
  BY <1>3, <1>4, <1>5, <1>6

LEMMA StartSilverInv ==
    ASSUME MaxLate <= WatermarkDelay, SilverInv, StartSilver
    PROVE  WatermarkBound' /\ StateIsExact' /\ RowsAreFinal' /\ ClosedAreWritten'
<1> USE DEF SilverInv
<1>1. TypeOK
  BY DEF BronzeInv
<1>2. /\ UNCHANGED <<now, log, committed, state, wm, maxTime, silver>>
      /\ planned' = IF inFlight THEN planned ELSE Len(log)
      /\ rows' = ClosedRows(planned')
  BY DEF StartSilver
<1>3. planned' \in Nat /\ committed <= planned' /\ planned' <= Len(log)
  BY <1>1, <1>2 DEF TypeOK
<1>4. /\ EvictWm' = EvictWm /\ \A s : Late(s)' = Late(s)
  BY <1>2 DEF EvictWm, Late
<1>5. \A u, s : PartsOf(u, s)' = PartsOf(u, s)
  BY <1>2 DEF PartsOf, InWindow
<1>6. WatermarkBound'
  BY <1>2 DEF WatermarkBound
<1>7. StateIsExact'
  BY <1>2, <1>4 DEF StateIsExact, InWindow
<1>8. RowsAreFinal'
  <2>1. \A r \in ClosedRows(planned') :
          /\ WindowEnd(r.start) <= EvictWm
          /\ r.cnt = Cardinality(PartsOf(r.user, r.start))
    BY <1>1, <1>3, ClosedRowsAreFinal
  <2> QED
    BY <1>2, <1>4, <1>5, <2>1 DEF RowsAreFinal
<1>9. ClosedAreWritten'
  <2> SUFFICES ASSUME NEW u \in Users, NEW s \in Starts, PartsOf(u, s) # {}
               PROVE  /\ Late(s) => \E r \in silver : r.user = u /\ r.start = s
                      /\ WindowEnd(s) <= EvictWm =>
                           \E r \in rows' \cup silver : r.user = u /\ r.start = s
    BY <1>2, <1>4, <1>5 DEF ClosedAreWritten
  <2>1. Late(s) => \E r \in silver : r.user = u /\ r.start = s
    BY DEF ClosedAreWritten
  <2>2. ~Late(s) /\ WindowEnd(s) <= EvictWm =>
          \E r \in rows' : r.user = u /\ r.start = s
    BY <1>1, <1>2, <1>3, ClosedRowsCover
  <2> QED
    BY <2>1, <2>2
<1> QED
  BY <1>6, <1>7, <1>8, <1>9

LEMMA WriteSilverInv ==
    ASSUME SilverInv, NEW r \in rows, WriteSilver(r)
    PROVE  WatermarkBound' /\ StateIsExact' /\ RowsAreFinal' /\ ClosedAreWritten'
<1> USE DEF SilverInv
<1>1. /\ UNCHANGED <<now, log, phase, committed, state, wm, maxTime>>
      /\ rows' \cup silver' = rows \cup silver /\ silver \subseteq silver'
  BY DEF WriteSilver, checkpoint
<1>2. /\ EvictWm' = EvictWm /\ \A s : Late(s)' = Late(s)
  BY <1>1 DEF EvictWm, Late
<1>3. \A u, s : /\ PartsOf(u, s)' = PartsOf(u, s)
                /\ InWindow(u, s, 1, committed)' = InWindow(u, s, 1, committed)
  BY <1>1 DEF PartsOf, InWindow
<1>4. WatermarkBound'
  BY <1>1 DEF WatermarkBound
<1>5. StateIsExact'
  BY <1>1, <1>2, <1>3 DEF StateIsExact
<1>6. RowsAreFinal'
  BY <1>1, <1>2, <1>3 DEF RowsAreFinal
<1>7. ClosedAreWritten'
  BY <1>1, <1>2, <1>3 DEF ClosedAreWritten
<1> QED
  BY <1>4, <1>5, <1>6, <1>7

LEMMA CommitSilverInv ==
    ASSUME MaxLate <= WatermarkDelay, SilverInv, CommitSilver
    PROVE  WatermarkBound' /\ StateIsExact' /\ RowsAreFinal' /\ ClosedAreWritten'
<1> USE DEF SilverInv
<1> DEFINE T == {log[i].time : i \in committed + 1 .. planned}
           m == Max({maxTime} \cup T)
<1>1. TypeOK /\ LogOrder
  BY DEF BronzeInv
<1>2. /\ UNCHANGED <<now, log, planned, rows, silver>>
      /\ committed' = planned /\ wm' = EvictWm /\ maxTime' = m
      /\ phase = "writing" /\ phase' = "up" /\ rows = {}
      /\ state' = [u \in Users |-> [s \in Starts |->
                     IF WindowEnd(s) <= EvictWm THEN 0
                     ELSE Count(u, s, planned)]]
  BY DEF CommitSilver, CommitAggregation
<1>3. m \in 0 .. MaxNow /\ m >= maxTime /\ m \in {maxTime} \cup T
  BY <1>1, NewMaxTime
<1>4. /\ wm \in Nat /\ maxTime \in Nat /\ now \in Nat /\ committed \in Nat
      /\ planned \in Nat /\ committed <= planned /\ planned <= Len(log)
      /\ Len(log) \in Nat /\ WatermarkDelay \in Nat /\ MaxLate \in Nat
  BY <1>1 DEF TypeOK
<1>5. EvictWm \in Nat /\ EvictWm >= wm /\ EvictWm \in {wm, maxTime - WatermarkDelay}
  BY <1>4, EvictWmIsMax
<1> HIDE DEF m
<1>6. WatermarkBound'
  <2>1. m <= now
    <3>1. ASSUME NEW i \in committed + 1 .. planned PROVE log[i].time <= now
      <4>1. i \in 1 .. Len(log)
        BY <1>4
      <4> QED
        BY <1>1, <4>1 DEF LogOrder
    <3> QED
      BY <1>3, <3>1 DEF WatermarkBound
  <2>2. wm' = 0 \/ wm' + WatermarkDelay <= m
    <3>1. CASE EvictWm = wm
      BY <1>2, <1>3, <1>4, <3>1 DEF WatermarkBound
    <3>2. CASE EvictWm = maxTime - WatermarkDelay
      BY <1>2, <1>3, <1>4, <3>2
    <3> QED
      BY <1>5, <3>1, <3>2
  <2>3. ASSUME NEW i \in planned + 1 .. Len(log)
        PROVE  m <= log[i].time + MaxLate
    <3>1. i \in 1 .. Len(log) /\ i \in committed + 1 .. Len(log) /\ i \in Nat
      BY <1>4
    <3>2. maxTime <= log[i].time + MaxLate
      BY <3>1 DEF WatermarkBound
    <3>3. ASSUME NEW j \in committed + 1 .. planned
          PROVE  log[j].time <= log[i].time + MaxLate
      <4>1. j \in 1 .. i
        BY <1>4, <3>1
      <4> QED
        BY <1>1, <3>1, <4>1 DEF LogOrder
    <3> QED
      BY <1>3, <3>2, <3>3
  <2> QED
    BY <1>2, <2>1, <2>2, <2>3 DEF WatermarkBound
<1>7. \A s \in Starts : WindowEnd(s) \in Int
  BY DEF Starts, WindowEnd
<1>8. \A s : Late(s)' <=> WindowEnd(s) <= EvictWm
  BY <1>2 DEF Late
<1>9. \A u, s : /\ PartsOf(u, s)' = PartsOf(u, s)
                /\ InWindow(u, s, 1, committed)' = InWindow(u, s, 1, planned)
  BY <1>2 DEF PartsOf, InWindow
<1>10. StateIsExact'
  <2> SUFFICES ASSUME NEW u \in Users, NEW s \in Starts
               PROVE  state'[u][s] = IF WindowEnd(s) <= EvictWm THEN 0
                                     ELSE Cardinality(InWindow(u, s, 1, planned))
    BY <1>8, <1>9 DEF StateIsExact
  <2>1. state'[u][s] = IF WindowEnd(s) <= EvictWm THEN 0
                       ELSE Count(u, s, planned)
    BY <1>2
  <2>2. ASSUME ~(WindowEnd(s) <= EvictWm)
        PROVE  Count(u, s, planned) = Cardinality(InWindow(u, s, 1, planned))
    <3>1. ~Late(s)
      BY <1>4, <1>5, <1>7, <2>2 DEF Late
    <3> QED
      BY <1>1, <1>4, <3>1, OpenCountIsExact
  <2> QED
    BY <2>1, <2>2
<1>11. EvictWm' >= EvictWm /\ EvictWm' \in Int
  <2>1. EvictWm' = Max({EvictWm, m - WatermarkDelay})
    BY <1>2 DEF EvictWm
  <2>2. EvictWm \in Int /\ m - WatermarkDelay \in Int
    BY <1>3, <1>4, <1>5
  <2> QED
    BY <2>1, <2>2, MaxOfTwo
<1>12. RowsAreFinal'
  <2> SUFFICES ASSUME NEW r \in rows \cup silver
               PROVE  /\ WindowEnd(r.start) <= EvictWm'
                      /\ r.cnt = Cardinality(PartsOf(r.user, r.start))
    BY <1>2, <1>9 DEF RowsAreFinal
  <2>1. /\ WindowEnd(r.start) <= EvictWm
        /\ r.cnt = Cardinality(PartsOf(r.user, r.start))
    BY DEF RowsAreFinal
  <2>2. r.start \in Starts
    BY <1>1 DEF TypeOK, SilverRows
  <2> QED
    BY <1>5, <1>7, <1>11, <2>1, <2>2
<1>13. ClosedAreWritten'
  <2> SUFFICES ASSUME NEW u \in Users, NEW s \in Starts, PartsOf(u, s) # {},
                      WindowEnd(s) <= EvictWm
               PROVE  \E r \in silver : r.user = u /\ r.start = s
    BY <1>2, <1>8, <1>9 DEF ClosedAreWritten
  <2>1. \E r \in rows \cup silver : r.user = u /\ r.start = s
    BY <1>2 DEF ClosedAreWritten
  <2> QED
    BY <1>2, <2>1
<1> QED
  BY <1>6, <1>10, <1>12, <1>13

LEMMA NextSilver ==
    ASSUME MaxLate <= WatermarkDelay
    PROVE  SilverInv /\ [Next]_vars => SilverInv'
<1> SUFFICES ASSUME SilverInv, [Next]_vars
             PROVE  /\ WatermarkBound' /\ StateIsExact'
                    /\ RowsAreFinal' /\ ClosedAreWritten'
  BY NextBronze DEF SilverInv
<1> DEFINE Goal == /\ WatermarkBound' /\ StateIsExact'
                   /\ RowsAreFinal' /\ ClosedAreWritten'
<1>0. TypeOK /\ BronzeIsKnown /\ LogOrder
  BY DEF SilverInv, BronzeInv
<1>1. ASSUME NEW u \in Users, NEW t \in 0 .. MaxNow, Produce(u, t)
      PROVE  Goal
  BY <1>0, <1>1, ProduceAppends, AppendSilver
<1>2. ASSUME NEW i \in 1 .. Len(log), Repeat(i)
      PROVE  Goal
  BY <1>0, <1>2, RepeatAppends, AppendSilver
<1>3. CASE StartSilver
  BY <1>3, StartSilverInv
<1>4. ASSUME NEW r \in rows, WriteSilver(r)
      PROVE  Goal
  BY <1>4, WriteSilverInv
<1>5. CASE CommitSilver
  BY <1>5, CommitSilverInv
<1>6. ASSUME \/ LandBronze \/ (\E i \in Ids : ReadUsers(i)) \/ JoinFeatures
             \/ (\E landedFile \in BOOLEAN : Crash(landedFile))
             \/ UNCHANGED vars
      PROVE  Goal
  <2>1. /\ UNCHANGED <<now, log, committed, state, wm, maxTime, silver>>
        /\ rows' \subseteq rows
        /\ phase' = "writing" => phase = "writing" /\ rows' = rows
    <3>1. CASE LandBronze
      BY <3>1 DEF LandBronze, query3, checkpoint
    <3>2. CASE (\E i \in Ids : ReadUsers(i)) \/ JoinFeatures
      BY <3>2 DEF ReadUsers, JoinFeatures, query3, checkpoint
    <3>3. CASE \E landedFile \in BOOLEAN : Crash(landedFile)
      BY <3>3 DEF Crash, checkpoint
    <3>4. CASE UNCHANGED vars
      BY <3>4 DEF vars
    <3> QED
      BY <1>6, <3>1, <3>2, <3>3, <3>4
  <2> QED
    BY <2>1, OtherSilver
<1> QED
  BY <1>1, <1>2, <1>3, <1>4, <1>5, <1>6 DEF Next, Done

(* No record ever reaches a window after its row: for every window length,  *)
(* every delay that covers the lateness, and every pattern of crashes.      *)
THEOREM SilverNeverChanges ==
    ASSUME MaxLate <= WatermarkDelay
    PROVE  Spec => []SilverIsFinal
<1>1. SilverInv => SilverIsFinal
  BY DEF SilverInv, RowsAreFinal, SilverIsFinal
<1> QED
  BY <1>1, InitSilver, NextSilver, PTL DEF Spec

-----------------------------------------------------------------------------
(* The training set.  What a run follows is a record of the topic.          *)
LEMMA TrainerRow ==
    ASSUME TypeOK, trainer.pc = "features"
    PROVE  /\ trainer.row \in 1 .. Len(log)
           /\ log[trainer.row].user \in Users
           /\ log[trainer.row].time \in Nat
<1>1. trainer.row \in 1 .. Len(log) /\ log \in Seq(Records)
  BY DEF TypeOK
<1>2. \A k \in 1 .. Len(log) : log[k].user \in Users /\ log[k].time \in 0 .. MaxNow
  BY <1>1, LogEntry
<1> QED
  BY <1>1, <1>2

(* The attached count is that of the latest joinable window, or zero.       *)
LEMMA FeatureCases ==
    ASSUME TypeOK
    PROVE  \/ Feature = 0 /\ (~trainer.known \/ Found = {})
           \/ /\ trainer.known
              /\ Joined \in Found /\ Feature = Joined.cnt
              /\ \A q \in Found : q.start <= Joined.start
<1> DEFINE S == {r.start : r \in Found}
<1>1. \A r \in Found : r.start \in Starts
  BY DEF Found, Joinable, TypeOK, SilverRows
<1>2. ASSUME Found # {}
      PROVE  Joined \in Found /\ \A q \in Found : q.start <= Joined.start
  <2>1. S \in SUBSET Int /\ S # {} /\ \A s \in S : s <= MaxNow
    BY <1>1, <1>2 DEF Starts
  <2>2. MaxNow \in Int
    OBVIOUS
  <2> HIDE DEF S
  <2>3. Max(S) \in S /\ \A y \in S : y <= Max(S)
    BY <2>1, <2>2, MaxOfBounded
  <2>4. \E r \in Found : \A q \in Found : q.start <= r.start
    BY <2>3 DEF S
  <2> QED
    BY <2>4 DEF Joined
<1>3. CASE trainer.known /\ Found # {}
  BY <1>2, <1>3 DEF Feature
<1>4. CASE ~(trainer.known /\ Found # {})
  BY <1>4 DEF Feature
<1> QED
  BY <1>3, <1>4

(* A joinable window ended before the transaction, so all its records did.  *)
LEMMA NoLeakageFromInv == SilverInv => NoLeakage
<1> DEFINE u == log[trainer.row].user
           t == log[trainer.row].time
           s == Joined.start
<1> SUFFICES ASSUME SilverInv, trainer.pc = "features", Feature # 0
             PROVE  Feature = Cardinality({k \in PartsOf(u, s) : log[k].time < t})
  BY DEF NoLeakage
<1>1. TypeOK
  BY DEF SilverInv, BronzeInv
<1>2. t \in Nat
  BY <1>1, TrainerRow
<1>3. Joined \in Found /\ Feature = Joined.cnt
  BY <1>1, FeatureCases
<1>4. /\ Joined \in silver /\ Joined.user = u /\ WindowEnd(s) <= t
      /\ s \in Starts
  BY <1>1, <1>3 DEF Found, Joinable, TypeOK, SilverRows
<1>5. Joined.cnt = Cardinality(PartsOf(u, s))
  <2>1. Joined.cnt = Cardinality(PartsOf(Joined.user, Joined.start))
    BY <1>4 DEF SilverInv, RowsAreFinal
  <2> QED
    BY <1>4, <2>1
<1> HIDE DEF u, t, s
<1>6. ASSUME NEW k \in PartsOf(u, s) PROVE log[k].time < t
  <2>1. /\ k \in 1 .. Len(log) /\ log \in Seq(Records)
        /\ s \in WindowStarts(log[k].time)
    BY <1>1 DEF PartsOf, InWindow, TypeOK
  <2>2. log[k].time \in Nat
    BY <2>1, LogEntry
  <2>3. s \in Int /\ s + WindowLen <= t
    BY <1>4 DEF WindowEnd, Starts
  <2>4. log[k].time - WindowLen + 1 <= s
    BY <2>1, <2>2 DEF WindowStarts
  <2> QED
    BY <1>2, <2>2, <2>3, <2>4
<1>7. {k \in PartsOf(u, s) : log[k].time < t} = PartsOf(u, s)
  BY <1>6
<1> QED
  BY <1>3, <1>5, <1>7

(* No training feature counts the transaction it is for, or a later one.    *)
THEOREM TrainingNeverLeaks ==
    ASSUME MaxLate <= WatermarkDelay
    PROVE  Spec => []NoLeakage
BY NoLeakageFromInv, InitSilver, NextSilver, PTL DEF Spec

-----------------------------------------------------------------------------
(* Rows the watermark had passed: what a run concluded when it looked stays *)
(* so.                                                                      *)
LEMMA NextSettled ==
    ASSUME MaxLate <= WatermarkDelay
    PROVE  TrainerInv /\ [Next]_vars => TrainerInv'
<1> SUFFICES ASSUME SilverInv, RunIsSettled, [Next]_vars
             PROVE  RunIsSettled'
  BY NextSilver DEF TrainerInv
<1>1. TypeOK /\ BronzeIsKnown /\ LogOrder /\ WatermarkBound
  BY DEF SilverInv, BronzeInv
<1>2. wm \in Nat /\ maxTime \in Nat /\ EvictWm \in Nat /\ EvictWm >= wm
  BY <1>1, EvictWmIsMax DEF TypeOK
<1>3. \A s \in Starts : WindowEnd(s) \in Int
  BY DEF Starts, WindowEnd
<1>4. ASSUME NEW e, Appended(e) PROVE RunIsSettled'
  <2> DEFINE NewParts(v, s) ==
               {k \in 1 .. Len(log') :
                  log'[k].user = v /\ s \in WindowStarts(log'[k].time)}
  <2>1. wm' = wm /\ trainer' = trainer
    BY <1>4 DEF Appended, query3, checkpoint
  <2> SUFFICES ASSUME trainer.pc = "features", trainer.settled
               PROVE  /\ log'[trainer.row].time <= wm
                      /\ ~trainer.known =>
                           \A s \in Starts :
                             WindowEnd(s) <= log'[trainer.row].time =>
                               NewParts(log'[trainer.row].user, s) = {}
    BY <2>1 DEF RunIsSettled, PartsOf, InWindow
  <2>2. log'[trainer.row] = log[trainer.row]
    <3>1. log \in Seq(Records)
      BY <1>1 DEF TypeOK
    <3> QED
      BY <1>1, <1>4, <3>1, TrainerRow, AppendKeeps
  <2>3. log[trainer.row].time \in Nat /\ log[trainer.row].time <= wm
    BY <1>1, TrainerRow DEF RunIsSettled
  <2>4. ASSUME ~trainer.known, NEW s \in Starts,
               WindowEnd(s) <= log[trainer.row].time
        PROVE  NewParts(log[trainer.row].user, s) = {}
    <3> DEFINE u == log[trainer.row].user
    <3>1. PartsOf(u, s) = {}
      BY <2>4 DEF RunIsSettled
    <3>2. WindowEnd(s) <= EvictWm
      BY <1>2, <1>3, <2>3, <2>4
    <3>3. ASSUME NEW v PROVE NewParts(v, s) = PartsOf(v, s)
      <4>1. PartsOf(v, s)' = PartsOf(v, s)
        BY <1>1, <1>4, <3>2, AppendKeepsClosed
      <4>2. PartsOf(v, s)' = NewParts(v, s)
        BY DEF PartsOf, InWindow
      <4> QED
        BY <4>1, <4>2
    <3> HIDE DEF NewParts
    <3> QED
      BY <3>1, <3>3
  <2> HIDE DEF NewParts
  <2> QED
    BY <2>2, <2>3, <2>4
<1>5. ASSUME NEW i \in Ids, ReadUsers(i) PROVE RunIsSettled'
  <2> DEFINE known == \E r \in silver : r.user = log[i].user
             settled == log[i].time <= wm
  <2>1. /\ UNCHANGED <<log, wm>> /\ bronze[i] > 0
        /\ trainer' = [pc |-> "features", row |-> i,
                       known |-> known, settled |-> settled]
    BY <1>5 DEF ReadUsers, EntityRows, query3, checkpoint
  <2>2. trainer'.row = i /\ trainer'.known = known /\ trainer'.settled = settled
    BY <2>1
  <2>3. \A u, s : PartsOf(u, s)' = PartsOf(u, s)
    BY <2>1 DEF PartsOf, InWindow
  <2>4. i \in 1 .. Len(log) /\ log \in Seq(Records)
    BY <1>1, <2>1 DEF BronzeIsKnown, Ids, TypeOK
  <2>5. log[i].user \in Users /\ log[i].time \in Nat
    BY <2>4, LogEntry
  <2>6. ASSUME ~known, settled, NEW s \in Starts, WindowEnd(s) <= log[i].time
        PROVE  PartsOf(log[i].user, s) = {}
    <3>1. Late(s)
      BY <1>2, <1>3, <2>5, <2>6 DEF Late
    <3>2. ~(\E r \in silver : r.user = log[i].user /\ r.start = s)
      BY <2>6
    <3> QED
      BY <2>5, <3>1, <3>2 DEF SilverInv, ClosedAreWritten
  <2> QED
    BY <2>1, <2>2, <2>3, <2>6 DEF RunIsSettled
<1>6. ASSUME UNCHANGED <<log, trainer>>, wm' \in Nat, wm' >= wm
      PROVE  RunIsSettled'
  <2>1. \A u, s : PartsOf(u, s)' = PartsOf(u, s)
    BY <1>6 DEF PartsOf, InWindow
  <2>2. trainer.pc = "features" => log[trainer.row].time \in Nat
    BY <1>1, TrainerRow
  <2> QED
    BY <1>2, <1>6, <2>1, <2>2 DEF RunIsSettled
<1>7. ASSUME NEW u \in Users, NEW t \in 0 .. MaxNow, Produce(u, t)
      PROVE  RunIsSettled'
  BY <1>1, <1>4, <1>7, ProduceAppends
<1>8. ASSUME NEW i \in 1 .. Len(log), Repeat(i)
      PROVE  RunIsSettled'
  BY <1>1, <1>4, <1>8, RepeatAppends
<1>9. CASE LandBronze \/ StartSilver \/ (\E r \in rows : WriteSilver(r))
             \/ (\E landedFile \in BOOLEAN : Crash(landedFile)) \/ UNCHANGED vars
  <2>1. UNCHANGED <<log, trainer, wm>>
    BY <1>9 DEF LandBronze, StartSilver, WriteSilver, Crash, vars,
                query3, checkpoint
  <2> QED
    BY <1>2, <1>6, <2>1
<1>10. CASE CommitSilver
  <2>1. UNCHANGED <<log, trainer>> /\ wm' = EvictWm
    BY <1>10 DEF CommitSilver, CommitAggregation
  <2> QED
    BY <1>2, <1>6, <2>1
<1>11. CASE JoinFeatures
  BY <1>11 DEF JoinFeatures, Idle, RunIsSettled
<1> QED
  BY <1>5, <1>7, <1>8, <1>9, <1>10, <1>11 DEF Next, Done

(* The windows a settled row may use are those Feast finds for it.          *)
LEMMA EndedAreJoinable ==
    ASSUME SilverInv, NEW u \in Users, NEW t \in Nat, t <= wm
    PROVE  {s \in t - FeastTtl - WindowLen .. t - WindowLen :
              PartsOf(u, s) # {}} = {r.start : r \in Joinable(u, t)}
<1> DEFINE A == {s \in t - FeastTtl - WindowLen .. t - WindowLen :
                   PartsOf(u, s) # {}}
           B == {r.start : r \in Joinable(u, t)}
<1>1. TypeOK /\ wm \in Nat /\ FeastTtl \in Nat
  BY DEF SilverInv, BronzeInv, TypeOK
<1>2. ASSUME NEW s \in A PROVE s \in B
  <2>1. /\ s \in Int /\ t - FeastTtl - WindowLen <= s /\ s <= t - WindowLen
        /\ PartsOf(u, s) # {}
    BY <1>1
  <2>2. s \in Starts
    <3>1. PICK k \in 1 .. Len(log) : s \in WindowStarts(log[k].time)
      BY <2>1 DEF PartsOf, InWindow
    <3>2. log[k].time \in 0 .. MaxNow
      BY <1>1, LogEntry DEF TypeOK
    <3> QED
      BY <3>1, <3>2 DEF WindowStarts, Starts
  <2>3. WindowEnd(s) <= t /\ WindowEnd(s) + FeastTtl >= t /\ Late(s)
    BY <1>1, <2>1 DEF WindowEnd, Late
  <2>4. PICK r \in silver : r.user = u /\ r.start = s
    BY <2>1, <2>2, <2>3 DEF SilverInv, ClosedAreWritten
  <2>5. r \in Joinable(u, t)
    BY <2>3, <2>4 DEF Joinable
  <2> QED
    BY <2>4, <2>5
<1>3. ASSUME NEW r \in Joinable(u, t) PROVE r.start \in A
  <2>1. /\ r \in silver /\ r.user = u /\ WindowEnd(r.start) <= t
        /\ WindowEnd(r.start) + FeastTtl >= t
        /\ r.start \in Starts /\ r.cnt \in Nat \ {0}
    BY <1>1 DEF Joinable, TypeOK, SilverRows
  <2>2. r.cnt = Cardinality(PartsOf(u, r.start))
    BY <2>1 DEF SilverInv, RowsAreFinal
  <2>3. PartsOf(u, r.start) # {}
    BY <2>1, <2>2, FS_EmptySet
  <2>4. r.start \in t - FeastTtl - WindowLen .. t - WindowLen
    BY <1>1, <2>1 DEF WindowEnd, Starts
  <2> QED
    BY <2>3, <2>4
<1>4. A \subseteq B /\ B \subseteq A
  BY <1>2, <1>3
<1> QED
  BY <1>4

LEMMA SettledFromInv == TrainerInv => SettledRowsAreExact
<1> SUFFICES ASSUME SilverInv, RunIsSettled, trainer.pc = "features", trainer.settled
             PROVE  Feature = Trailing(log[trainer.row].user, log[trainer.row].time)
  BY DEF TrainerInv, SettledRowsAreExact
<1> DEFINE u == log[trainer.row].user
           t == log[trainer.row].time
           found == Joinable(u, t)
           ended == {r.start : r \in found}
<1>1. TypeOK
  BY DEF SilverInv, BronzeInv
<1>2. u \in Users /\ t \in Nat /\ t <= wm
  BY <1>1, TrainerRow DEF RunIsSettled
<1>3. \/ Feature = 0 /\ (~trainer.known \/ found = {})
      \/ \E r \in found : Feature = r.cnt /\ \A q \in found : q.start <= r.start
  BY <1>1, FeatureCases DEF Found
<1>4. ~trainer.known => \A s \in Starts : WindowEnd(s) <= t => PartsOf(u, s) = {}
  BY DEF RunIsSettled
<1> HIDE DEF u, t
<1>5. Trailing(u, t) = IF ended = {} THEN 0 ELSE Cardinality(PartsOf(u, Max(ended)))
  BY <1>2, EndedAreJoinable DEF Trailing
<1>6. \A r \in found : /\ r.start \in Starts /\ WindowEnd(r.start) <= t
                       /\ r.cnt = Cardinality(PartsOf(u, r.start))
                       /\ r.cnt # 0
  <2> SUFFICES ASSUME NEW r \in found
               PROVE  /\ r.start \in Starts /\ WindowEnd(r.start) <= t
                      /\ r.cnt = Cardinality(PartsOf(u, r.start))
                      /\ r.cnt # 0
    OBVIOUS
  <2>1. /\ r \in silver /\ r.user = u /\ r.start \in Starts
        /\ WindowEnd(r.start) <= t /\ r.cnt # 0
    BY <1>1 DEF Joinable, TypeOK, SilverRows
  <2> QED
    BY <2>1 DEF SilverInv, RowsAreFinal
<1> HIDE DEF found
<1>7. CASE ~trainer.known \/ found = {}
  <2>1. found = {}
    <3>1. ASSUME NEW r \in found, ~trainer.known PROVE FALSE
      <4>1. PartsOf(u, r.start) = {}
        BY <1>4, <1>6, <3>1
      <4> QED
        BY <1>6, <3>1, <4>1, FS_EmptySet
    <3> QED
      BY <1>7, <3>1
  <2> QED
    BY <1>3, <1>5, <2>1 DEF u, t
<1>8. ASSUME NEW r \in found, Feature = r.cnt, \A q \in found : q.start <= r.start
      PROVE  Feature = Trailing(u, t)
  <2>1. ended \in SUBSET Int /\ ended # {} /\ \A s \in ended : s <= MaxNow
    BY <1>6, <1>8 DEF Starts
  <2>2. r.start \in ended /\ \A s \in ended : s <= r.start
    BY <1>8
  <2> HIDE DEF ended
  <2>3. MaxNow \in Int
    OBVIOUS
  <2>4. Max(ended) \in ended /\ \A y \in ended : y <= Max(ended)
    BY <2>1, <2>3, MaxOfBounded
  <2>5. Max(ended) = r.start
    <3>1. /\ Max(ended) \in Int /\ r.start \in Int
          /\ Max(ended) <= r.start /\ r.start <= Max(ended)
      BY <2>1, <2>2, <2>4
    <3> QED
      BY <3>1
  <2> QED
    BY <1>5, <1>6, <1>8, <2>1, <2>5
<1> QED
  BY <1>3, <1>7, <1>8 DEF u, t

LEMMA InitTrainer == Init => TrainerInv
<1>1. Init => RunIsSettled
  BY DEF Init, Idle, RunIsSettled
<1> QED
  BY <1>1, InitSilver DEF TrainerInv

(* A row the watermark had passed when the run looked gets exactly the      *)
(* trailing window of its user, read off the topic, for every ttl.          *)
THEOREM SettledRowsMatchTheTopic ==
    ASSUME MaxLate <= WatermarkDelay
    PROVE  Spec => []SettledRowsAreExact
BY SettledFromInv, InitTrainer, NextSettled, PTL DEF Spec

=============================================================================
