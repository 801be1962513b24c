---------------------------- MODULE FlagsProofs -----------------------------
(***************************************************************************)
(* Query 2 loses no row it has committed, and where an S3 client is        *)
(* installed the quarantine loses no record, for any number of records,    *)
(* crashes and replays.                                                    *)
(***************************************************************************)
EXTENDS FlagsPipeline, TLAPS

USE FlagsAssumption

(* The empty job has nothing to be wrong about.                             *)
LEMMA InitFlags == Init => FlagsInv
<1> SUFFICES ASSUME Init PROVE FlagsInv
  OBVIOUS
<1>1. log \in Seq(Transactions) /\ Len(log) = 0
  BY DEF Init
<1>2. DOMAIN objects = {} /\ DOMAIN files = {}
  BY DEF Init
<1>3. TypeOK
  <2>1. committed = 0 /\ planned = 0 /\ clock = 0 /\ crashes = 0
    BY DEF Init
  <2>2. /\ redis = {} /\ handled = {} /\ onlyLogged = {}
        /\ inFlight = FALSE /\ phase = "up"
    BY DEF Init
  <2>3. 0 \in 0 .. MaxClock /\ 0 \in 0 .. MaxCrashes
    OBVIOUS
  <2>4. \A s \in {objects, files} :
          /\ DOMAIN s \subseteq 0 .. MaxClock
          /\ \A t \in DOMAIN s : s[t] \in handled
    BY <1>2
  <2>5. /\ committed \in 0 .. planned /\ planned \in 0 .. Len(log)
        /\ clock \in 0 .. MaxClock /\ crashes \in 0 .. MaxCrashes
    BY <1>1, <2>1, <2>3
  <2>6. /\ redis \subseteq 1 .. Len(log) /\ handled \subseteq 1 .. planned
        /\ onlyLogged \subseteq handled
        /\ inFlight \in BOOLEAN
        /\ phase \in {"up", "writing", "down"} /\ phase # "writing"
    BY <2>2
  <2> QED
    BY <1>1, <2>4, <2>5, <2>6 DEF TypeOK
<1> QED
  BY <1>1, <1>2, <1>3 DEF Init, FlagsInv, EveryFlagsRowHandled,
     RowsBeforeNextHandled, NamesAreUsedUp, QuarantineKeepsEveryRecord

(* A new record changes nothing about the old ones.                         *)
LEMMA ProduceKeepsFlags ==
    ASSUME FlagsInv, NEW txn \in Transactions, Produce(txn)
    PROVE  FlagsInv'
<1>1. /\ log \in Seq(Transactions) /\ log' \in Seq(Transactions)
      /\ Len(log') = Len(log) + 1 /\ Len(log) \in Nat
      /\ \A i \in 1 .. Len(log) : log'[i] = log[i]
  <2>1. log \in Seq(Transactions) /\ log' = Append(log, txn)
    BY DEF FlagsInv, TypeOK, Produce
  <2> QED
    BY <2>1
<1>2. UNCHANGED <<clock, checkpoint, phase, next, sinks, crashes>>
  BY DEF Produce
<1>3. TypeOK'
  BY <1>1, <1>2 DEF FlagsInv, TypeOK, checkpoint, sinks
<1>4. EveryFlagsRowHandled'
  BY <1>1, <1>2 DEF FlagsInv, TypeOK, EveryFlagsRowHandled, checkpoint, sinks
<1>5. RowsBeforeNextHandled'
  BY <1>1, <1>2 DEF FlagsInv, TypeOK, RowsBeforeNextHandled, checkpoint, sinks
<1> QED
  BY <1>2, <1>3, <1>4, <1>5 DEF FlagsInv, NamesAreUsedUp,
     QuarantineKeepsEveryRecord, sinks

(* A batch, new or run again, starts with its first row.                    *)
LEMMA StartBatchKeepsFlags ==
    ASSUME FlagsInv, StartBatch
    PROVE  FlagsInv'
<1>1. Len(log) \in Nat
  BY DEF FlagsInv, TypeOK
<1>2. /\ planned' \in planned .. Len(log) /\ inFlight' = TRUE
      /\ phase' = "writing" /\ next' = committed + 1
      /\ committed' = committed /\ log' = log
      /\ UNCHANGED <<clock, sinks, crashes>>
  BY <1>1 DEF FlagsInv, TypeOK, StartBatch
<1>3. /\ committed \in Nat /\ planned \in Nat /\ planned' \in Nat
      /\ planned <= planned' /\ committed <= planned
  BY <1>1, <1>2 DEF FlagsInv, TypeOK
<1>4. TypeOK'
  <2>1. /\ committed' \in 0 .. planned' /\ planned' \in 0 .. Len(log')
        /\ next' \in committed' + 1 .. planned' + 1
    <3>1. /\ planned' \in planned .. Len(log)
          /\ next' = committed + 1 /\ committed' = committed /\ log' = log
      BY <1>2
    <3>2. planned' <= Len(log)
      BY <3>1, <1>1, <1>3
    <3>3. committed' \in 0 .. planned' /\ planned' \in 0 .. Len(log')
      BY <3>1, <3>2, <1>1, <1>3
    <3>4. next' \in committed' + 1 .. planned' + 1
      <4>1. \A c, p \in Nat : c <= p => c + 1 \in c + 1 .. p + 1
        OBVIOUS
      <4>2. next' = committed' + 1 /\ committed' \in Nat /\ planned' \in Nat
        BY <3>1, <1>3
      <4>3. committed' <= planned'
        BY <3>1, <1>3
      <4> QED
        BY <4>1, <4>2, <4>3, Zenon
    <3> QED
      BY <3>3, <3>4
  <2>2. handled' \subseteq 1 .. planned'
    <3>1. handled' = handled /\ handled \subseteq 1 .. planned
      BY <1>2 DEF FlagsInv, TypeOK, sinks
    <3> QED
      BY <3>1, <1>3
  <2> QED
    BY <1>2, <2>1, <2>2 DEF FlagsInv, TypeOK, sinks
<1> QED
  BY <1>1, <1>2, <1>3, <1>4 DEF FlagsInv, EveryFlagsRowHandled,
     RowsBeforeNextHandled, NamesAreUsedUp, QuarantineKeepsEveryRecord, sinks

(* The two sinks after a row went to the quarantine: its names are new.     *)
LEMMA QuarantineKeepsSinks ==
    ASSUME FlagsInv, WriteToQuarantine, clock < MaxClock, next \in Nat,
           handled' = handled \cup {next}
    PROVE  /\ clock' \in {clock, clock + 1} /\ clock' \in 0 .. MaxClock
           /\ redis' = redis
           /\ onlyLogged' \in {onlyLogged, onlyLogged \cup {next}}
           /\ \A s \in {objects', files'} :
                /\ DOMAIN s \subseteq 0 .. MaxClock
                /\ \A t \in DOMAIN s : s[t] \in handled'
           /\ NamesAreUsedUp'
           /\ S3Installed => QuarantineKeepsEveryRecord'
<1> DEFINE later == IF S3Installed THEN clock + 1 ELSE clock
<1>1. /\ clock \in 0 .. MaxClock
      /\ \A s \in {objects, files} :
            /\ DOMAIN s \subseteq 0 .. MaxClock
            /\ \A t \in DOMAIN s : s[t] \in handled
  BY DEF FlagsInv, TypeOK
<1>2. /\ later \in {clock, clock + 1} /\ later \in 0 .. MaxClock
      /\ S3Installed => later = clock + 1
  BY <1>1
<1>3. /\ clock' = later /\ redis' = redis
      /\ \/ /\ S3Installed
            /\ objects' = Put(objects, clock, next)
            /\ files' = files /\ onlyLogged' = onlyLogged
         \/ /\ files' = Put(files, later, next)
            /\ objects' = objects /\ onlyLogged' = onlyLogged
         \/ /\ onlyLogged' = onlyLogged \cup {next}
            /\ objects' = objects /\ files' = files
  BY DEF WriteToQuarantine
<1>4. /\ S3Installed => \A t \in DOMAIN objects : t < clock
      /\ S3Installed => \A t \in DOMAIN files : t <= clock
      /\ S3Installed => QuarantineKeepsEveryRecord
  BY DEF FlagsInv, NamesAreUsedUp
<1> HIDE DEF later
<1>5. CASE /\ S3Installed
           /\ objects' = Put(objects, clock, next)
           /\ files' = files /\ onlyLogged' = onlyLogged
  <2>1. /\ DOMAIN objects' = DOMAIN objects \cup {clock}
        /\ objects'[clock] = next
        /\ \A u \in DOMAIN objects \ {clock} : objects'[u] = objects[u]
    BY <1>5 DEF Put
  <2>2. \A s \in {objects', files'} :
          /\ DOMAIN s \subseteq 0 .. MaxClock
          /\ \A t \in DOMAIN s : s[t] \in handled'
    <3>1. /\ DOMAIN objects' \subseteq 0 .. MaxClock
          /\ \A t \in DOMAIN objects' : objects'[t] \in handled'
      BY <1>1, <2>1
    <3>2. /\ DOMAIN files' \subseteq 0 .. MaxClock
          /\ \A t \in DOMAIN files' : files'[t] \in handled'
      BY <1>1, <1>5
    <3> QED
      BY <3>1, <3>2
  <2>3. NamesAreUsedUp'
    BY <1>1, <1>2, <1>3, <1>4, <1>5, <2>1 DEF NamesAreUsedUp
  <2>4. QuarantineKeepsEveryRecord'
    <3> SUFFICES ASSUME NEW i \in handled' \ (redis' \cup onlyLogged')
                 PROVE  \/ \E t \in DOMAIN objects' : objects'[t] = i
                        \/ \E t \in DOMAIN files' : files'[t] = i
      BY DEF QuarantineKeepsEveryRecord
    <3>1. CASE i = next
      BY <2>1, <3>1
    <3>2. CASE i # next
      <4>1. i \in handled \ (redis \cup onlyLogged)
        BY <1>3, <1>5, <3>2
      <4>2. CASE \E t \in DOMAIN objects : objects[t] = i
        <5>1. clock \notin DOMAIN objects
          BY <1>1, <1>4, <1>5
        <5> QED
          BY <4>2, <5>1, <2>1
      <4>3. CASE \E t \in DOMAIN files : files[t] = i
        BY <4>3, <1>5
      <4> QED
        BY <1>4, <1>5, <4>1, <4>2, <4>3 DEF QuarantineKeepsEveryRecord
    <3> QED
      BY <3>1, <3>2
  <2> QED
    BY <1>2, <1>3, <1>5, <2>2, <2>3, <2>4
<1>6. CASE /\ files' = Put(files, later, next)
           /\ objects' = objects /\ onlyLogged' = onlyLogged
  <2>1. /\ DOMAIN files' = DOMAIN files \cup {later}
        /\ files'[later] = next
        /\ \A u \in DOMAIN files \ {later} : files'[u] = files[u]
    BY <1>6 DEF Put
  <2>2. \A s \in {objects', files'} :
          /\ DOMAIN s \subseteq 0 .. MaxClock
          /\ \A t \in DOMAIN s : s[t] \in handled'
    <3>1. /\ DOMAIN objects' \subseteq 0 .. MaxClock
          /\ \A t \in DOMAIN objects' : objects'[t] \in handled'
      BY <1>1, <1>6
    <3>2. /\ DOMAIN files' \subseteq 0 .. MaxClock
          /\ \A t \in DOMAIN files' : files'[t] \in handled'
      BY <1>1, <1>2, <2>1
    <3> QED
      BY <3>1, <3>2
  <2>3. NamesAreUsedUp'
    BY <1>1, <1>2, <1>3, <1>4, <1>6, <2>1 DEF NamesAreUsedUp
  <2>4. ASSUME S3Installed
        PROVE  QuarantineKeepsEveryRecord'
    <3> SUFFICES ASSUME NEW i \in handled' \ (redis' \cup onlyLogged')
                 PROVE  \/ \E t \in DOMAIN objects' : objects'[t] = i
                        \/ \E t \in DOMAIN files' : files'[t] = i
      BY DEF QuarantineKeepsEveryRecord
    <3>1. CASE i = next
      BY <2>1, <3>1
    <3>2. CASE i # next
      <4>1. i \in handled \ (redis \cup onlyLogged)
        BY <1>3, <1>6, <3>2
      <4>2. CASE \E t \in DOMAIN objects : objects[t] = i
        BY <4>2, <1>6
      <4>3. CASE \E t \in DOMAIN files : files[t] = i
        <5>1. later \notin DOMAIN files
          BY <1>1, <1>2, <1>4, <2>4
        <5> QED
          BY <4>3, <5>1, <2>1
      <4> QED
        BY <1>4, <2>4, <4>1, <4>2, <4>3 DEF QuarantineKeepsEveryRecord
    <3> QED
      BY <3>1, <3>2
  <2> QED
    BY <1>2, <1>3, <1>6, <2>2, <2>3, <2>4
<1>7. CASE /\ onlyLogged' = onlyLogged \cup {next}
           /\ objects' = objects /\ files' = files
  <2>1. NamesAreUsedUp'
    BY <1>1, <1>2, <1>3, <1>4, <1>7 DEF NamesAreUsedUp
  <2>2. S3Installed => QuarantineKeepsEveryRecord'
    BY <1>3, <1>4, <1>7 DEF QuarantineKeepsEveryRecord
  <2> QED
    BY <1>1, <1>2, <1>3, <1>7, <2>1, <2>2
<1> QED
  BY <1>3, <1>5, <1>6, <1>7

(* A row is handled once its predecessors are, in one sink or another.      *)
LEMMA HandleRowKeepsFlags ==
    ASSUME FlagsInv, HandleRow
    PROVE  FlagsInv'
<1>1. /\ Len(log) \in Nat /\ committed \in Nat /\ planned \in Nat
      /\ planned <= Len(log) /\ next \in committed + 1 .. planned
      /\ next \in 1 .. planned
  BY DEF FlagsInv, TypeOK, HandleRow
<1>2. /\ phase = "writing" /\ phase' = phase /\ log' = log
      /\ committed' = committed /\ planned' = planned
      /\ inFlight' = inFlight /\ crashes' = crashes
      /\ next' = next + 1 /\ handled' = handled \cup {next}
      /\ log[next].user # "null" /\ clock < MaxClock
  BY DEF HandleRow, checkpoint
<1>3. /\ clock' \in 0 .. MaxClock
      /\ redis' \in {redis, redis \cup {next}}
      /\ onlyLogged' \in {onlyLogged, onlyLogged \cup {next}}
      /\ \A s \in {objects', files'} :
            /\ DOMAIN s \subseteq 0 .. MaxClock
            /\ \A t \in DOMAIN s : s[t] \in handled'
      /\ NamesAreUsedUp'
      /\ S3Installed => QuarantineKeepsEveryRecord'
  <2>1. CASE WriteFlags
    BY <2>1, <1>2 DEF WriteFlags, FlagsInv, TypeOK, NamesAreUsedUp,
                     QuarantineKeepsEveryRecord
  <2>2. CASE WriteToQuarantine
    BY <2>2, <1>1, <1>2, QuarantineKeepsSinks
  <2> QED
    BY <2>1, <2>2 DEF HandleRow
<1>4. TypeOK'
  <2>1. next' \in committed' + 1 .. planned' + 1
    BY <1>1, <1>2
  <2>2. /\ redis \subseteq 1 .. Len(log) /\ handled \subseteq 1 .. planned
        /\ onlyLogged \subseteq handled
    BY DEF FlagsInv, TypeOK
  <2>3. redis' \subseteq 1 .. Len(log')
    BY <1>1, <1>2, <1>3, <2>2
  <2>4. handled' \subseteq 1 .. planned' /\ onlyLogged' \subseteq handled'
    BY <1>1, <1>2, <1>3, <2>2
  <2> QED
    BY <1>2, <1>3, <2>1, <2>3, <2>4 DEF FlagsInv, TypeOK
<1>5. EveryFlagsRowHandled'
  BY <1>1, <1>2 DEF FlagsInv, EveryFlagsRowHandled
<1>6. RowsBeforeNextHandled'
  BY <1>1, <1>2 DEF FlagsInv, RowsBeforeNextHandled
<1> QED
  BY <1>1, <1>2, <1>3, <1>4, <1>5, <1>6 DEF FlagsInv

(* What is committed are the rows that were handled.                        *)
LEMMA CommitKeepsFlags ==
    ASSUME FlagsInv, CommitBatch
    PROVE  FlagsInv'
<1>1. /\ Len(log) \in Nat /\ committed \in Nat /\ planned \in Nat
      /\ planned <= Len(log) /\ committed <= planned
      /\ next = planned + 1 /\ phase = "writing"
  BY DEF FlagsInv, TypeOK, CommitBatch
<1>2. /\ committed' = planned /\ planned' = planned /\ inFlight' = FALSE
      /\ phase' = "up"
      /\ UNCHANGED <<clock, log, next, sinks, crashes>>
  BY DEF CommitBatch
<1>3. TypeOK'
  <2>1. committed' \in 0 .. planned' /\ planned' \in 0 .. Len(log')
    BY <1>1, <1>2
  <2>2. phase' = "up" /\ inFlight' \in BOOLEAN
    BY <1>2
  <2> QED
    BY <1>2, <2>1, <2>2 DEF FlagsInv, TypeOK, sinks
<1>4. EveryFlagsRowHandled'
  <2> SUFFICES ASSUME NEW i \in 1 .. planned
               PROVE  /\ i \in handled
                      /\ log[i].user # "null" /\ log[i].amount # "null"
    BY <1>2 DEF EveryFlagsRowHandled, sinks
  <2>1. CASE i \in 1 .. committed
    BY <2>1 DEF FlagsInv, EveryFlagsRowHandled
  <2>2. CASE i \in committed + 1 .. planned
    BY <2>2, <1>1 DEF FlagsInv, RowsBeforeNextHandled, CommitBatch, UdfRaises
  <2> QED
    BY <1>1, <2>1, <2>2
<1> QED
  BY <1>1, <1>2, <1>3, <1>4 DEF FlagsInv, RowsBeforeNextHandled,
     NamesAreUsedUp, QuarantineKeepsEveryRecord, sinks

(* The process stops, or time passes with a process or without one.         *)
LEMMA StopsKeepFlags ==
    ASSUME FlagsInv, RaiseInBatch \/ Crash \/ Restart \/ Tick
    PROVE  FlagsInv'
<1>1. /\ UNCHANGED <<log, checkpoint, next, sinks>>
      /\ phase' \in {"down", "up"} \/ phase' = phase
      /\ clock' \in 0 .. MaxClock /\ clock <= clock' /\ clock \in Nat
      /\ crashes' \in 0 .. MaxCrashes
  BY DEF RaiseInBatch, Crash, Restart, Tick, FlagsInv, TypeOK, checkpoint, sinks
<1>2. TypeOK'
  BY <1>1 DEF FlagsInv, TypeOK, checkpoint, sinks
<1>3. EveryFlagsRowHandled' /\ RowsBeforeNextHandled'
  BY <1>1 DEF FlagsInv, EveryFlagsRowHandled, RowsBeforeNextHandled,
              checkpoint, sinks
<1>4. NamesAreUsedUp'
  BY <1>1 DEF FlagsInv, TypeOK, NamesAreUsedUp, sinks
<1> QED
  BY <1>1, <1>2, <1>3, <1>4 DEF FlagsInv, QuarantineKeepsEveryRecord, sinks

(* Every step of the query keeps the invariant.                             *)
LEMMA NextKeepsFlags == FlagsInv /\ [Next]_vars => FlagsInv'
<1>1. FlagsInv /\ UNCHANGED vars => FlagsInv'
  BY DEF FlagsInv, TypeOK, EveryFlagsRowHandled, RowsBeforeNextHandled,
         NamesAreUsedUp, QuarantineKeepsEveryRecord, vars, checkpoint, sinks
<1> QED
  BY <1>1, ProduceKeepsFlags, StartBatchKeepsFlags, HandleRowKeepsFlags,
     CommitKeepsFlags, StopsKeepFlags DEF Next, Done

(* The state of query 2 stays well typed, rows are handled in order and     *)
(* only in a batch, for any number of records, crashes and clock values.    *)
THEOREM FlagsTypes == Spec => []TypeOK
<1>1. FlagsInv => TypeOK
  BY DEF FlagsInv
<1> QED
  BY InitFlags, NextKeepsFlags, <1>1, PTL DEF Spec

(* A committed batch leaves no row unhandled, and no batch in which the     *)
(* code raised commits (write_flags_batch_to_redis).                        *)
THEOREM FlagsRowsAreHandled == Spec => []EveryFlagsRowHandled
<1>1. FlagsInv => EveryFlagsRowHandled
  BY DEF FlagsInv
<1> QED
  BY InitFlags, NextKeepsFlags, <1>1, PTL DEF Spec

(* Where an S3 client is installed, a quarantined record can be found       *)
(* unless both sinks refused it: no later record takes its name             *)
(* (write_to_quarantine).                                                   *)
THEOREM QuarantineLosesNothing ==
    ASSUME S3Installed
    PROVE  Spec => []QuarantineKeepsEveryRecord
<1>1. FlagsInv => QuarantineKeepsEveryRecord
  BY DEF FlagsInv
<1> QED
  BY InitFlags, NextKeepsFlags, <1>1, PTL DEF Spec
=============================================================================
