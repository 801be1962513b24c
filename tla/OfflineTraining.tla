--------------------------- MODULE OfflineTraining ---------------------------
(***************************************************************************)
(* The offline path: the producer and its two topics, query 0 (Bronze) and *)
(* query 3 (Silver) of spark/feature_engineering.py, and the historical    *)
(* mode of models/train.py that joins their files, through Feast, into a   *)
(* training set.                                                           *)
(*                                                                         *)
(* WindowedCounts is query 3's aggregation; here its rows are written in   *)
(* append mode.  A Spark file sink adds part files as its tasks finish and *)
(* says in _spark_metadata, with the commit, which of them count.  train.py *)
(* globs part-*.json and Feast lists the directory: neither reads          *)
(* _spark_metadata, so what an interrupted batch left behind is read too,  *)
(* next to what its replay writes.                                         *)
(*                                                                         *)
(* Labels take their own topic and query 4 into files of their own.        *)
(* train.py keeps one label per transaction, so all that shows of them is  *)
(* which transactions have one when a run looks: any may.                  *)
(***************************************************************************)
EXTENDS WindowedCounts

CONSTANT FeastTtl \* ttl of the feature view, in slots

ASSUME OfflineAssumption ==
    /\ WatermarkDelay \in Nat
    /\ MaxLate \in Nat
    /\ FeastTtl \in Nat
    /\ {MaxEvents, MaxNow, MaxCrashes} \subseteq Nat

(* A transaction goes by the offset of its first record. *)
Ids == 1 .. MaxEvents

VARIABLES
    landed,  \* query 0: committed and planned end offset
    bronze,  \* lines of each transaction in the Bronze part files
    leftover, \* how many of them are in files of attempts that died: history
    silver,  \* rows in the Silver part files
    trainer  \* a run of train.py --historical, as far as it concerns one of
             \* its rows: which, what it has read for it so far

vars == <<now, log, committed, planned, inFlight, state, wm, maxTime, phase,
          rows, crashes, landed, bronze, leftover, silver, trainer>>

query0 == <<landed, bronze, leftover>>
query3 == <<checkpoint, rows, silver>>

Records == [id : Ids, user : Users, time : 0 .. MaxNow]
SilverRows == [user : Users, start : Starts, cnt : Nat \ {0}]

(* The offsets among ks that hold transaction i. *)
Copies(i, ks) == {k \in ks : log[k].id = i}

Idle == [pc |-> "idle", row |-> 0, known |-> FALSE, settled |-> FALSE]

-----------------------------------------------------------------------------
Init ==
    /\ InitAggregation
    /\ landed = [committed |-> 0, planned |-> 0]
    /\ bronze = [i \in Ids |-> 0]
    /\ leftover = [i \in Ids |-> 0]
    /\ silver = {}
    /\ trainer = Idle

(***************************************************************************)
(* The producer stamps a transaction and hands it, with its label, to a    *)
(* client that sends both in the background.  A record that never arrives  *)
(* shows nowhere; one that does is overtaken by records stamped at most    *)
(* MaxLate after it.  Nothing else looks at the clock here, so it stands   *)
(* at the newest stamp, and slots are counted from the first ones.         *)
(***************************************************************************)
Produce(u, t) ==
    /\ Len(log) < MaxEvents
    /\ t >= now - MaxLate
    /\ log = << >> => t <= MaxLate
    /\ now' = Max({now, t})
    /\ log' = Append(log, [id |-> Len(log) + 1, user |-> u, time |-> t])
    /\ UNCHANGED <<crashes, phase, query0, query3, trainer>>

(* An acknowledgement was lost, and the client's retry appends the record   *)
(* again: retries=5, and no idempotence.                                    *)
Repeat(i) ==
    /\ Len(log) < MaxEvents
    /\ log[i].id = i
    /\ log[i].time >= now - MaxLate
    /\ log' = Append(log, log[i])
    /\ UNCHANGED <<now, crashes, phase, query0, query3, trainer>>

-----------------------------------------------------------------------------
(* Query 0: the offsets not yet committed, up to where the batch that did   *)
(* not commit ended, if there is one.                                       *)
BronzeEnd ==
    IF landed.planned > landed.committed THEN landed.planned ELSE Len(log)

BronzeBatch == landed.committed + 1 .. BronzeEnd

WithLines(f, ks) == [i \in Ids |-> f[i] + Cardinality(Copies(i, ks))]

(* Mutant: the batch is committed and its last part file is not written. *)
LandBronzeShort ==
    /\ BronzeBatch # {}
    /\ bronze' = WithLines(bronze, BronzeBatch \ {BronzeEnd})
    /\ landed' = [committed |-> BronzeEnd, planned |-> BronzeEnd]
    /\ UNCHANGED <<now, log, crashes, phase, leftover, query3, trainer>>

(* Mutant: the commit log is not written. *)
LandBronzeUnlogged ==
    /\ BronzeBatch # {}
    /\ bronze' = WithLines(bronze, BronzeBatch)
    /\ landed' = [landed EXCEPT !.planned = BronzeEnd]
    /\ UNCHANGED <<now, log, crashes, phase, leftover, query3, trainer>>

(* A batch that runs to its end. *)
LandBronze ==
    /\ BronzeBatch # {}
    /\ bronze' = WithLines(bronze, BronzeBatch)
    /\ landed' = [committed |-> BronzeEnd, planned |-> BronzeEnd]
    /\ UNCHANGED <<now, log, crashes, phase, leftover, query3, trainer>>

-----------------------------------------------------------------------------
(* Mutant: update mode, which emits a window while it is still open. *)
OpenRows(hi) ==
    {r \in [user : Users, start : Starts, cnt : 1 .. Len(log)] :
        r.start \in Touched(r.user, hi) /\ r.cnt = Count(r.user, r.start, hi)}

(* Append mode: the windows that the batch's watermark closes. *)
ClosedRows(hi) ==
    {r \in [user : Users, start : Starts, cnt : 1 .. Len(log)] :
        WindowEnd(r.start) <= EvictWm /\ r.cnt = Count(r.user, r.start, hi)}

(* A batch of query 3, or the replay of the one that did not commit. *)
StartSilver ==
    /\ phase = "up"
    /\ inFlight \/ Len(log) > committed \/ EvictWm > wm
    /\ planned' = IF inFlight THEN planned ELSE Len(log)
    /\ inFlight' = TRUE
    /\ phase' = "writing"
    /\ rows' = ClosedRows(planned')
    /\ UNCHANGED <<now, log, crashes, query0, committed, state, wm, maxTime, silver,
                   trainer>>

WriteSilver(r) ==
    /\ r \in rows
    /\ rows' = rows \ {r}
    /\ silver' = silver \cup {r}
    /\ UNCHANGED <<now, log, crashes, phase, query0, checkpoint, trainer>>

CommitSilver ==
    /\ phase = "writing"
    /\ rows = {}
    /\ CommitAggregation
    /\ phase' = "up"
    /\ UNCHANGED <<now, log, crashes, planned, rows, query0, silver, trainer>>

-----------------------------------------------------------------------------
(* Mutant: the new process goes on with the rows of the old one. *)
CrashKeepingRows(landedFile) ==
    /\ crashes < MaxCrashes
    /\ crashes' = crashes + 1
    /\ phase' = "up"
    /\ phase = "writing" /\ ~landedFile
    /\ UNCHANGED <<now, log, rows, checkpoint, silver, query0, trainer>>

(* The process dies and is restarted.  Files stay: some rows of the batch   *)
(* of query 3, and the one file of a batch of query 0 (README.md:348), if   *)
(* it was complete.                                                         *)
Crash(landedFile) ==
    /\ crashes < MaxCrashes
    /\ crashes' = crashes + 1
    /\ phase' = "up"
    /\ rows' = {}
    /\ \/ phase = "writing" /\ ~landedFile /\ UNCHANGED query0
       \/ /\ BronzeBatch # {}
          /\ \/ /\ landedFile
                /\ bronze' = WithLines(bronze, BronzeBatch)
                /\ leftover' = WithLines(leftover, BronzeBatch)
             \/ ~landedFile /\ UNCHANGED <<bronze, leftover>>
          /\ landed' = [landed EXCEPT !.planned = BronzeEnd]
    /\ UNCHANGED <<now, log, checkpoint, silver, trainer>>

-----------------------------------------------------------------------------
(* The rows a labeled transaction gets from the merge in                    *)
(* load_labeled_transactions: the labels are deduplicated, its lines in     *)
(* Bronze are not.                                                          *)
EntityRows(i) == bronze[i]

(* A run has read its rows, then _users_with_feature_rows.  The features of *)
(* its rows are computed one apart from the other, so the model follows one *)
(* row; its lines are there to stay, so when they were read does not matter *)
(* and both reads are one step.  Without any part file there is no user_id  *)
(* column, and the run ends with an error nothing catches.                  *)
ReadUsers(i) ==
    /\ trainer.pc = "idle"
    /\ EntityRows(i) > 0
    /\ silver # {}
    /\ trainer' = [pc |-> "features",
                   row |-> i,
                   known |-> \E r \in silver : r.user = log[i].user,
                   settled |-> log[i].time <= wm]
    /\ UNCHANGED <<now, log, crashes, phase, query0, query3>>

(* Mutant: windows stamped with their start. *)
JoinableByStart(u, t) ==
    {r \in silver : /\ r.user = u
                    /\ r.start <= t
                    /\ r.start + FeastTtl >= t}

(* Feast's candidates for a transaction of u at t: windows that had ended,  *)
(* no longer than the TTL ago.                                              *)
Joinable(u, t) ==
    {r \in silver : /\ r.user = u
                    /\ WindowEnd(r.start) <= t
                    /\ WindowEnd(r.start) + FeastTtl >= t}

(* The candidates for the row of the run, in Silver as it is now, and the    *)
(* one the join takes: the latest.                                          *)
Found == Joinable(log[trainer.row].user, log[trainer.row].time)

Joined == CHOOSE r \in Found : \A q \in Found : q.start <= r.start

(* Mutant: the first of the candidates. *)
FeatureOfFirst ==
    IF trainer.known /\ Found # {}
    THEN (CHOOSE r \in Found : \A q \in Found : r.start <= q.start).cnt
    ELSE 0

(* What build_historical_training_set attaches to the row now: zero without *)
(* a candidate.  A user with no windows is not sent to Feast, a row Feast   *)
(* drops comes back with the left join.                                     *)
Feature == IF trainer.known /\ Found # {} THEN Joined.cnt ELSE 0

(* The join is done and the run goes on without the offline store; it may   *)
(* be followed by another.                                                  *)
JoinFeatures ==
    /\ trainer.pc = "features"
    /\ trainer' = Idle
    /\ UNCHANGED <<now, log, crashes, phase, query0, query3>>

(* The end of the modelled period. *)
Done ==
    /\ Len(log) = MaxEvents
    /\ trainer.pc = "idle"
    /\ UNCHANGED vars

Next ==
    \/ \E u \in Users, t \in 0 .. MaxNow : Produce(u, t)
    \/ \E i \in 1 .. Len(log) : Repeat(i)
    \/ LandBronze
    \/ StartSilver
    \/ \E r \in rows : WriteSilver(r)
    \/ CommitSilver
    \/ \E landedFile \in BOOLEAN : Crash(landedFile)
    \/ \E i \in Ids : ReadUsers(i)
    \/ JoinFeatures
    \/ Done

Spec == Init /\ [][Next]_vars

-----------------------------------------------------------------------------
PartsOf(u, s) == InWindow(u, s, 1, Len(log))

(* Types; no attempt outlives its process, and neither query's offsets run  *)
(* ahead of its topic (feature_engineering.py:189-197, 227-235).            *)
TypeOK ==
    /\ now \in 0 .. MaxNow /\ log \in Seq(Records) /\ Len(log) <= MaxEvents
    /\ committed \in 0 .. planned /\ planned \in 0 .. Len(log)
    /\ inFlight \in BOOLEAN /\ (~inFlight => committed = planned)
    /\ state \in [Users -> [Starts -> Nat]]
    /\ wm \in Nat /\ maxTime \in 0 .. MaxNow
    /\ phase \in {"up", "writing"}
    /\ phase = "writing" => inFlight
    /\ phase # "writing" => rows = {}
    /\ rows \subseteq SilverRows /\ silver \subseteq SilverRows
    /\ landed \in [committed : Nat, planned : Nat]
    /\ landed.committed <= landed.planned /\ landed.planned <= Len(log)
    /\ bronze \in [Ids -> Nat] /\ leftover \in [Ids -> Nat]
    /\ crashes \in 0 .. MaxCrashes
    /\ trainer \in [pc : {"idle", "features"}, row : 0 .. MaxEvents,
                    known : BOOLEAN, settled : BOOLEAN]
    /\ trainer.pc # "idle" => trainer.row \in 1 .. Len(log)

(* Silver is final: a row under a window counts every record of the window  *)
(* that ever reaches the topic, also when a crash made query 3 write it     *)
(* twice, so whichever of two equal rows Feast picks is right               *)
(* (feature_engineering.py:227-235, feast/features.py:10-11).               *)
SilverIsFinal ==
    \A r \in silver : r.cnt = Cardinality(PartsOf(r.user, r.start))

(* Bronze is a replay log: every committed offset has its line, as often as *)
(* the topic has the record, whatever batches crashed                       *)
(* (feature_engineering.py:185-197).                                        *)
BronzeIsComplete ==
    \A i \in Ids : bronze[i] >= Cardinality(Copies(i, 1 .. landed.committed))

(* "No feature can include the transaction itself or anything after it"     *)
(* (train.py:251-253, README.md:196): a count attached to a row is that of  *)
(* the records of the joined window made before the transaction; one made   *)
(* with it or later, whenever it arrived, is not in it.                     *)
NoLeakage ==
    (trainer.pc = "features" /\ Feature # 0) =>
        Feature = Cardinality(
            {k \in PartsOf(log[trainer.row].user, Joined.start) :
                log[k].time < log[trainer.row].time})

(* The count of the last window with records of u that ended at most        *)
(* FeastTtl before t, 0 if there is none: read off the topic itself.        *)
Trailing(u, t) ==
    LET ended == {s \in t - FeastTtl - WindowLen .. t - WindowLen :
                    PartsOf(u, s) # {}}
    IN  IF ended = {} THEN 0 ELSE Cardinality(PartsOf(u, Max(ended)))

(* A row old enough for the watermark of Silver to have passed it when the  *)
(* training run looked has exactly the trailing window of its user, "the    *)
(* trailing 5 minutes that had fully happened before the transaction"       *)
(* (feast/features.py:13-15), and 0 only for lack of activity: no crash,    *)
(* late record or half-written batch shows in it.                           *)
SettledRowsAreExact ==
    (trainer.pc = "features" /\ trainer.settled)
        => Feature = Trailing(log[trainer.row].user, log[trainer.row].time)

(* "One row per labeled transaction" (train.py:190-191) and no more, but for *)
(* the further copies of its record that the topic has and the lines that    *)
(* attempts of query 0 left behind in complete files when they died.         *)
OneRowUnlessRepeated ==
    \A i \in Ids :
        EntityRows(i) <= Cardinality(Copies(i, 1 .. Len(log))) + leftover[i]

-----------------------------------------------------------------------------
(* What the steps of the offline path keep, beyond the properties.          *)

(* A record is overtaken by records stamped at most MaxLate after it.       *)
LogOrder ==
    \A i \in 1 .. Len(log) :
        /\ log[i].time <= now
        /\ \A j \in 1 .. i : log[j].time <= log[i].time + MaxLate

(* A transaction is named before it is repeated or has a line.              *)
BronzeIsKnown ==
    /\ \A k \in 1 .. Len(log) : log[k].id <= k
    /\ \A i \in Ids : bronze[i] > 0 => i <= Len(log)

(* Bronze is the committed offsets once each, and what dead attempts left.  *)
BronzeIsOnce ==
    \A i \in Ids :
        bronze[i] = Cardinality(Copies(i, 1 .. landed.committed)) + leftover[i]

BronzeInv ==
    TypeOK /\ LogOrder /\ BronzeIsKnown /\ BronzeIsComplete /\ BronzeIsOnce

(* The watermark stays WatermarkDelay behind a committed record, which no   *)
(* uncommitted one is more than MaxLate behind.                             *)
WatermarkBound ==
    /\ maxTime <= now
    /\ wm = 0 \/ wm + WatermarkDelay <= maxTime
    /\ \A i \in committed + 1 .. Len(log) : maxTime <= log[i].time + MaxLate

(* The state store holds the windows the watermark has not passed.          *)
StateIsExact ==
    \A u \in Users : \A s \in Starts :
        state[u][s] = IF Late(s) THEN 0
                      ELSE Cardinality(InWindow(u, s, 1, committed))

(* A row to be written is under a closed window and as final as one that    *)
(* was.                                                                     *)
RowsAreFinal ==
    \A r \in rows \cup silver :
        /\ WindowEnd(r.start) <= EvictWm
        /\ r.cnt = Cardinality(PartsOf(r.user, r.start))

(* Closed windows with records have their row, at the latest with the batch *)
(* that closes them.                                                        *)
ClosedAreWritten ==
    \A u \in Users : \A s \in Starts : PartsOf(u, s) # {} =>
        /\ Late(s) => \E r \in silver : r.user = u /\ r.start = s
        /\ (phase = "writing" /\ WindowEnd(s) <= EvictWm) =>
                \E r \in rows \cup silver : r.user = u /\ r.start = s

SilverInv ==
    BronzeInv /\ WatermarkBound /\ StateIsExact
        /\ RowsAreFinal /\ ClosedAreWritten

(* What a run concluded when it looked for the users of Silver still holds. *)
RunIsSettled ==
    (trainer.pc = "features" /\ trainer.settled) =>
        /\ log[trainer.row].time <= wm
        /\ ~trainer.known =>
            \A s \in Starts : WindowEnd(s) <= log[trainer.row].time =>
                PartsOf(log[trainer.row].user, s) = {}

TrainerInv == SilverInv /\ RunIsSettled

=============================================================================
