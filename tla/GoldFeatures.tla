---------------------------- MODULE GoldFeatures ----------------------------
(***************************************************************************)
(* Query 1 of spark/feature_engineering.py: Kafka topic raw_transactions   *)
(* -> windowed aggregation with a watermark -> foreachBatch -> one Redis   *)
(* key per user (the Gold layer read by the scoring API).                  *)
(*                                                                         *)
(* The key's fields come from one row and are written by one pipeline, so  *)
(* an entry is written as a unit.                                          *)
(***************************************************************************)
EXTENDS WindowedCounts

CONSTANT Ttl \* USER_FEATURES_TTL_SECONDS, in slots

ASSUME GoldAssumption ==
    /\ ValidUsers \cap BadUsers = {}
    /\ (ValidUsers \cup BadUsers) \cap NullUsers = {}
    /\ Ttl \in Nat \ {0}
    /\ WatermarkDelay \in Nat
    /\ MaxLate \in Nat
    /\ MaxEvents \in Nat
    /\ MaxNow \in Nat
    /\ MaxCrashes \in Nat

VARIABLES
    gold,       \* Redis: live key -> entry
    accounted,  \* history: prefix of the log whose rows for a user were
                \* written or handed to the quarantine
    refused     \* history: offsets whose user's rows were all refused since

vars == <<now, log, committed, planned, inFlight, state, wm, maxTime, phase,
          rows, gold, accounted, refused, crashes>>

Records == [user : Users, time : 0 .. MaxNow]
Rows == [user : Users, start : Starts, cnt : Nat]
Entries == [start : Starts, cnt : Nat, expires : Nat, upto : Nat]

(* The rows foreachBatch iterates over: one per user, the trailing window. *)
BatchRows(hi) ==
    {[user |-> u, start |-> TrailingStart(Touched(u, hi)),
      cnt |-> Count(u, TrailingStart(Touched(u, hi)), hi)] :
        u \in {v \in Users : Touched(v, hi) # {}}}

-----------------------------------------------------------------------------
Init ==
    /\ InitAggregation
    /\ gold = [u \in {} |-> {}]
    /\ accounted = [u \in Users |-> 0]
    /\ refused = {}

(***************************************************************************)
(* A producer's record reaches the topic: it was stamped at most MaxLate   *)
(* slots ago and may be overtaken by records stamped after it.             *)
(***************************************************************************)
Produce(u, t) ==
    /\ Len(log) < MaxEvents
    /\ t >= now - MaxLate
    /\ t <= now
    /\ log' = Append(log, [user |-> u, time |-> t])
    /\ UNCHANGED <<now, checkpoint, phase, rows, gold, accounted, refused,
                   crashes>>

(***************************************************************************)
(* The trigger fires with new offsets, or with a watermark that moved (a   *)
(* batch without data, which only evicts).  The range of the batch is made *)
(* durable and foreachBatch starts on its rows.                            *)
(***************************************************************************)
PlanBatch ==
    /\ phase = "up"
    /\ ~inFlight
    /\ Len(log) > committed \/ EvictWm > wm
    /\ planned' = Len(log)
    /\ inFlight' = TRUE
    /\ phase' = "writing"
    /\ rows' = BatchRows(Len(log))
    /\ UNCHANGED <<now, log, committed, state, wm, maxTime, gold, accounted,
                   refused, crashes>>

(* The first batch after a restart is the one that did not commit. *)
ReplayBatch ==
    /\ phase = "up"
    /\ inFlight
    /\ phase' = "writing"
    /\ rows' = BatchRows(planned)
    /\ UNCHANGED <<now, log, checkpoint, gold, accounted, refused, crashes>>

(* Mutant: the key expires with the window instead of Ttl after the write. *)
WriteRowUntilWindowEnd(r) ==
    /\ phase = "writing"
    /\ r \in rows
    /\ r.user \in ValidUsers
    /\ rows' = rows \ {r}
    /\ gold' = [u \in DOMAIN gold \cup {r.user} |->
                  IF u = r.user
                  THEN [start |-> r.start, cnt |-> r.cnt,
                        expires |-> WindowEnd(r.start), upto |-> planned]
                  ELSE gold[u]]
    /\ accounted' = [accounted EXCEPT ![r.user] = planned]
    /\ refused' = {i \in refused : log[i].user # r.user}
    /\ UNCHANGED <<now, log, checkpoint, phase, crashes>>

(***************************************************************************)
(* A valid row: hset and expire in one pipeline.  validate_user_features   *)
(* also requires the four aggregates, present and not negative.  Amounts   *)
(* are not modelled, so whether a row passes that check is a choice made   *)
(* for each row, here or in QuarantineRow.                                 *)
(***************************************************************************)
WriteRow(r) ==
    /\ phase = "writing"
    /\ r \in rows
    /\ r.user \in ValidUsers
    /\ rows' = rows \ {r}
    /\ gold' = [u \in DOMAIN gold \cup {r.user} |->
                  IF u = r.user
                  THEN [start |-> r.start, cnt |-> r.cnt,
                        expires |-> now + Ttl, upto |-> planned]
                  ELSE gold[u]]
    /\ accounted' = [accounted EXCEPT ![r.user] = planned]
    /\ refused' = {i \in refused : log[i].user # r.user}
    /\ UNCHANGED <<now, log, checkpoint, phase, crashes>>

(***************************************************************************)
(* A row that fails validation, for its user id or, whoever the user is,   *)
(* for a null or negative aggregate (refunds, no amount), is handed to the *)
(* quarantine.  Its sinks are best effort: write_to_quarantine returns     *)
(* whatever happens in them, and the loop goes on.                         *)
(***************************************************************************)
QuarantineRow(r) ==
    /\ phase = "writing"
    /\ r \in rows
    /\ r.user \notin NullUsers
    /\ rows' = rows \ {r}
    /\ accounted' = [accounted EXCEPT ![r.user] = planned]
    /\ refused' = refused \cup
                    {i \in committed + 1 .. planned : log[i].user = r.user}
    /\ UNCHANGED <<now, log, checkpoint, phase, gold, crashes>>

(***************************************************************************)
(* USER_ID_PATTERN.match(None) raises TypeError: the exception leaves the  *)
(* foreachBatch function, the query stops, awaitAnyTermination raises and  *)
(* the process exits.                                                      *)
(***************************************************************************)
RaiseOnRow(r) ==
    /\ phase = "writing"
    /\ r \in rows
    /\ r.user \in NullUsers
    /\ phase' = "down"
    /\ rows' = {}
    /\ UNCHANGED <<now, log, checkpoint, gold, accounted, refused, crashes>>

(* Mutant: the loop stops at an error it swallows, and the batch commits. *)
CommitBatchWithRowsLeft ==
    /\ phase = "writing"
    /\ rows' = {}
    /\ committed' = planned
    /\ inFlight' = FALSE
    /\ phase' = "up"
    /\ UNCHANGED <<now, log, planned, state, wm, maxTime, gold, accounted,
                   refused, crashes>>

(* Mutant: the commit log is not written; the batch is replayed forever. *)
CommitBatchUnlogged ==
    /\ phase = "writing"
    /\ rows = {}
    /\ phase' = "up"
    /\ UNCHANGED <<now, log, checkpoint, rows, gold, accounted, refused,
                   crashes>>

(* foreachBatch returned. *)
CommitBatch ==
    /\ phase = "writing"
    /\ rows = {}
    /\ CommitAggregation
    /\ phase' = "up"
    /\ UNCHANGED <<now, log, planned, rows, gold, accounted, refused, crashes>>

(* Mutant: the state store is saved while the batch is still running. *)
CrashAfterStateSaved ==
    /\ phase = "writing"
    /\ crashes < MaxCrashes
    /\ crashes' = crashes + 1
    /\ phase' = "down"
    /\ rows' = {}
    /\ state' = [u \in Users |-> [s \in Starts |-> Count(u, s, planned)]]
    /\ UNCHANGED <<now, log, committed, planned, inFlight, wm, maxTime, gold,
                   accounted, refused>>

(***************************************************************************)
(* The process dies, between batches or between two rows: killed, or a     *)
(* Redis call raised.  Only the checkpoint and Redis survive.              *)
(***************************************************************************)
Crash ==
    /\ phase # "down"
    /\ crashes < MaxCrashes
    /\ crashes' = crashes + 1
    /\ phase' = "down"
    /\ rows' = {}
    /\ UNCHANGED <<now, log, checkpoint, gold, accounted, refused>>

(* restart: unless-stopped, with the checkpoint directory on a volume. *)
Restart ==
    /\ phase = "down"
    /\ phase' = "up"
    /\ UNCHANGED <<now, log, checkpoint, rows, gold, accounted, refused,
                   crashes>>

(* A slot passes; Redis drops the keys whose time to live is over. *)
Tick ==
    /\ now < MaxNow
    /\ now' = now + 1
    /\ gold' = [u \in {v \in DOMAIN gold : gold[v].expires > now + 1} |->
                  gold[u]]
    /\ UNCHANGED <<log, checkpoint, phase, rows, accounted, refused, crashes>>

(* Nothing to do: every bound is reached and the job waits for offsets. *)
Idle ==
    /\ now = MaxNow
    /\ Len(log) = MaxEvents
    /\ phase = "up"
    /\ ~inFlight
    /\ Len(log) = committed
    /\ EvictWm = wm
    /\ UNCHANGED vars

HandleRow ==
    \E r \in rows : WriteRow(r) \/ QuarantineRow(r) \/ RaiseOnRow(r)

Next ==
    \/ \E u \in Users, t \in 0 .. MaxNow : Produce(u, t)
    \/ PlanBatch
    \/ ReplayBatch
    \/ HandleRow
    \/ CommitBatch
    \/ Crash
    \/ Restart
    \/ Tick
    \/ Idle

Spec == Init /\ [][Next]_vars

(***************************************************************************)
(* The processing-time trigger keeps firing, the driver keeps running the  *)
(* function it was given, and docker restarts the container.  Nothing      *)
(* makes a producer send or the clock pass a slot.                         *)
(***************************************************************************)
Fairness ==
    /\ WF_vars(PlanBatch)
    /\ WF_vars(ReplayBatch)
    /\ WF_vars(HandleRow)
    /\ WF_vars(CommitBatch)
    /\ WF_vars(Restart)

FairSpec == Spec /\ Fairness

=============================================================================
