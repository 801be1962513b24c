---------------------------- MODULE WindowedCounts ---------------------------
(***************************************************************************)
(* txn_count_5min of spark/feature_engineering.py: the windowed counts     *)
(* over topic raw_transactions that queries 1 and 3 both start from, each  *)
(* with a checkpoint of its own.  GoldFeatures and OfflineTraining add the *)
(* sinks.                                                                  *)
(*                                                                         *)
(* Time is counted in slots of one minute (see SlidingWindows).  The four  *)
(* aggregates of a window fold the same set of records; the model keeps    *)
(* the first of them, the count.                                           *)
(*                                                                         *)
(* Spark's micro-batch engine is modelled by what the job relies on: the   *)
(* offset range of a batch is durable before the batch runs, a batch that  *)
(* did not commit is run again with the same range, state and watermark,   *)
(* and state and watermark move only with the commit.  The late filter of  *)
(* a batch is the watermark of the batch before it, the eviction bound is  *)
(* the batch's own watermark (Spark 3.5).                                  *)
(***************************************************************************)
EXTENDS SlidingWindows, Sequences

CONSTANTS
    ValidUsers,      \* user ids that match USER_ID_PATTERN
    BadUsers,        \* user ids that do not
    NullUsers,       \* the null user_id of a record without one
    WatermarkDelay,  \* the argument of withWatermark, in slots
    MaxLate,         \* longest time from an event's timestamp to its append
    MaxEvents,       \* bound on the records appended
    MaxNow,          \* bound on the clock
    MaxCrashes       \* bound on the crashes of the job

Users == ValidUsers \cup BadUsers \cup NullUsers

(* Every window an event of the modelled period can land in. *)
Starts == (1 - WindowLen) .. MaxNow

VARIABLES
    now,        \* wall clock, shared by the producer, the job and the stores
    log,        \* records of the topic, in offset order
    committed,  \* offsets up to here belong to committed batches
    planned,    \* end offset of the last batch of the offset log
    inFlight,   \* the offset log holds a batch the commit log does not
    state,      \* state store: count per user and window, 0 when absent
    wm,         \* watermark of the last committed batch
    maxTime,    \* largest event time in the committed batches
    phase,      \* "down", "up" between batches, "writing" in the sink
    rows,       \* rows of the running batch not yet handled
    crashes     \* crashes so far

checkpoint == <<committed, planned, inFlight, state, wm, maxTime>>

-----------------------------------------------------------------------------
(* What one micro-batch over the offsets committed+1 .. hi computes. *)

Late(s) == WindowEnd(s) <= wm

InWindow(u, s, lo, hi) ==
    {i \in lo .. hi : log[i].user = u /\ s \in WindowStarts(log[i].time)}

Count(u, s, hi) ==
    state[u][s] + (IF Late(s) THEN 0
                   ELSE Cardinality(InWindow(u, s, committed + 1, hi)))

(* Mutant: complete mode, every window in the state store. *)
TouchedOrHeld(u, hi) == {s \in Starts : Count(u, s, hi) > 0}

(* The windows of u that update mode emits: those a record just reached. *)
Touched(u, hi) ==
    {s \in Starts : ~Late(s) /\ InWindow(u, s, committed + 1, hi) # {}}

(* Mutants: a watermark that follows the last batch down, and one without   *)
(* the delay of withWatermark.                                              *)
EvictWmUnclamped == maxTime - WatermarkDelay
EvictWmUndelayed == Max({wm, maxTime})

(* The watermark of the next batch; it never moves back. *)
EvictWm == Max({wm, maxTime - WatermarkDelay})

-----------------------------------------------------------------------------
(***************************************************************************)
(* The sink has returned: state, watermark and offsets are committed.      *)
(* Windows the batch's own watermark has passed leave the state store.     *)
(***************************************************************************)
CommitAggregation ==
    /\ state' = [u \in Users |-> [s \in Starts |->
                    IF WindowEnd(s) <= EvictWm THEN 0
                    ELSE Count(u, s, planned)]]
    /\ wm' = EvictWm
    /\ maxTime' = Max({maxTime} \cup
                      {log[i].time : i \in committed + 1 .. planned})
    /\ committed' = planned
    /\ inFlight' = FALSE

(***************************************************************************)
(* Both queries start from the latest offsets, so the log holds only the   *)
(* records appended since.                                                 *)
(***************************************************************************)
InitAggregation ==
    /\ now = 0
    /\ log = << >>
    /\ committed = 0
    /\ planned = 0
    /\ inFlight = FALSE
    /\ state = [u \in Users |-> [s \in Starts |-> 0]]
    /\ wm = 0
    /\ maxTime = 0
    /\ phase = "up"
    /\ rows = {}
    /\ crashes = 0

=============================================================================
