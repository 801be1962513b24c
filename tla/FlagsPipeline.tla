--------------------------- MODULE FlagsPipeline ----------------------------
(***************************************************************************)
(* Query 2 of spark/feature_engineering.py: Kafka topic raw_transactions   *)
(* -> flag UDFs -> foreachBatch -> txn_flags keys in Redis, or the         *)
(* quarantine of spark/quarantine.py for the rows that fail validation.    *)
(*                                                                         *)
(* The query keeps no state; a batch that did not commit is run again from *)
(* its first row.  The clock counts milliseconds, the resolution of the    *)
(* names the quarantine gives its files and objects; the hour a flags key  *)
(* lives is outside the modelled period.                                   *)
(***************************************************************************)
EXTENDS Integers, Sequences, FiniteSets

CONSTANTS
    S3Installed, \* s3fs or boto3 can be imported
    MaxEvents,   \* bound on the records appended
    MaxClock,    \* bound on the clock
    MaxCrashes   \* bound on the crashes of the job

ASSUME FlagsAssumption ==
    /\ S3Installed \in BOOLEAN
    /\ MaxEvents \in Nat
    /\ MaxClock \in Nat
    /\ MaxCrashes \in Nat

(* What validation and the UDFs can tell apart in a transaction. *)
Transactions == [user : {"valid", "bad", "null"},
                 amount : {"positive", "bad", "null"}]

(* What a flag UDF returns: the functions of features/ return 0 or 1, and   *)
(* IntegerType keeps them integers, in the row and in row.asDict().         *)
FlagType == "int"

(* validate_transaction_flags; a Python bool is what line 192 accepts. *)
ValidFlags(txn) ==
    /\ txn.user = "valid"
    /\ txn.amount = "positive"
    /\ FlagType = "bool"

VARIABLES
    clock,     \* milliseconds
    log,       \* records of the topic, in offset order
    committed, \* offsets up to here belong to committed batches
    planned,   \* end offset of the last batch of the offset log
    inFlight,  \* the offset log holds a batch the commit log does not
    phase,     \* "up" between batches, "writing", "down"
    next,      \* next row of the running batch
    redis,     \* offsets of the records with a txn_flags key
    objects,   \* S3: time in an object's name -> record in it
    files,     \* /tmp/quarantine: time in a file's name -> record in it
    onlyLogged, \* history: records neither sink could take
    handled,   \* history: records written or handed to the quarantine
    crashes    \* crashes so far

vars == <<clock, log, committed, planned, inFlight, phase, next, redis,
          objects, files, onlyLogged, handled, crashes>>

checkpoint == <<committed, planned, inFlight>>
sinks == <<redis, objects, files, onlyLogged, handled>>

(* A write under a name that exists replaces what is there. *)
Put(store, t, i) ==
    [u \in DOMAIN store \cup {t} |-> IF u = t THEN i ELSE store[u]]

Init ==
    /\ clock = 0
    /\ log = << >>
    /\ committed = 0
    /\ planned = 0
    /\ inFlight = FALSE
    /\ phase = "up"
    /\ next = 0
    /\ redis = {}
    /\ objects = [t \in {} |-> 0]
    /\ files = [t \in {} |-> 0]
    /\ onlyLogged = {}
    /\ handled = {}
    /\ crashes = 0

Produce(txn) ==
    /\ Len(log) < MaxEvents
    /\ log' = Append(log, txn)
    /\ UNCHANGED <<clock, checkpoint, phase, next, sinks, crashes>>

(* Mutant: the batch that failed is not run again. *)
StartBatchSkippingFailed ==
    /\ phase = "up"
    /\ inFlight \/ Len(log) > committed
    /\ planned' = IF inFlight THEN planned ELSE Len(log)
    /\ inFlight' = TRUE
    /\ phase' = "writing"
    /\ next' = IF inFlight THEN planned + 1 ELSE committed + 1
    /\ UNCHANGED <<clock, log, committed, sinks, crashes>>

(* The trigger fires: a new batch, or the one that did not commit. *)
StartBatch ==
    /\ phase = "up"
    /\ inFlight \/ Len(log) > committed
    /\ planned' = IF inFlight THEN planned ELSE Len(log)
    /\ inFlight' = TRUE
    /\ phase' = "writing"
    /\ next' = committed + 1
    /\ UNCHANGED <<clock, log, committed, sinks, crashes>>

(* A UDF compares a null amount with a threshold: collect() raises before  *)
(* the first row is handled.                                               *)
UdfRaises == \E i \in committed + 1 .. planned : log[i].amount = "null"

(* A valid row: hset and expire in one pipeline. *)
WriteFlags ==
    /\ redis' = redis \cup {next}
    /\ UNCHANGED <<clock, objects, files, onlyLogged>>

(* Mutant: an object has the name of its batch's first instant. *)
WriteToQuarantineInstantly ==
    /\ objects' = Put(objects, clock, next)
    /\ UNCHANGED <<clock, redis, files, onlyLogged>>

(***************************************************************************)
(* write_to_quarantine: an S3 object, if a client library is there and the *)
(* write succeeds, else a local file, else only the log line.  An attempt  *)
(* to reach S3 takes more than a millisecond; a file alone does not.       *)
(***************************************************************************)
WriteToQuarantine ==
    LET later == IF S3Installed THEN clock + 1 ELSE clock
    IN  /\ clock' = later
        /\ UNCHANGED redis
        /\ \/ /\ S3Installed
              /\ objects' = Put(objects, clock, next)
              /\ UNCHANGED <<files, onlyLogged>>
           \/ /\ files' = Put(files, later, next)
              /\ UNCHANGED <<objects, onlyLogged>>
           \/ /\ onlyLogged' = onlyLogged \cup {next}
              /\ UNCHANGED <<objects, files>>

(* One turn of the loop of write_flags_batch_to_redis. *)
HandleRow ==
    /\ phase = "writing"
    /\ ~UdfRaises
    /\ next <= planned
    /\ log[next].user # "null"
    /\ clock < MaxClock
    /\ IF ValidFlags(log[next]) THEN WriteFlags ELSE WriteToQuarantine
    /\ handled' = handled \cup {next}
    /\ next' = next + 1
    /\ UNCHANGED <<log, checkpoint, phase, crashes>>

(* A null amount in the batch, or USER_ID_PATTERN.match(None) on a row: the *)
(* query stops and the process with it.                                     *)
RaiseInBatch ==
    /\ phase = "writing"
    /\ UdfRaises \/ (next <= planned /\ log[next].user = "null")
    /\ phase' = "down"
    /\ UNCHANGED <<clock, log, checkpoint, next, sinks, crashes>>

(* Mutant: what arrived since is committed with the batch. *)
CommitBatchToEnd ==
    /\ phase = "writing"
    /\ ~UdfRaises
    /\ next > planned
    /\ committed' = Len(log)
    /\ inFlight' = FALSE
    /\ phase' = "up"
    /\ UNCHANGED <<clock, log, planned, next, sinks, crashes>>

(* Every row was handled: the batch commits. *)
CommitBatch ==
    /\ phase = "writing"
    /\ ~UdfRaises
    /\ next > planned
    /\ committed' = planned
    /\ inFlight' = FALSE
    /\ phase' = "up"
    /\ UNCHANGED <<clock, log, planned, next, sinks, crashes>>

Crash ==
    /\ phase # "down"
    /\ crashes < MaxCrashes
    /\ crashes' = crashes + 1
    /\ phase' = "down"
    /\ UNCHANGED <<clock, log, checkpoint, next, sinks>>

(* A Spark process takes more than a millisecond to start. *)
Restart ==
    /\ phase = "down"
    /\ clock < MaxClock
    /\ clock' = clock + 1
    /\ phase' = "up"
    /\ UNCHANGED <<log, checkpoint, next, sinks, crashes>>

Tick ==
    /\ clock < MaxClock
    /\ clock' = clock + 1
    /\ UNCHANGED <<log, checkpoint, phase, next, sinks, crashes>>

(* The end of the modelled period. *)
Done ==
    /\ clock = MaxClock
    /\ UNCHANGED vars

Next ==
    \/ \E txn \in Transactions : Produce(txn)
    \/ StartBatch
    \/ HandleRow
    \/ RaiseInBatch
    \/ CommitBatch
    \/ Crash
    \/ Restart
    \/ Tick
    \/ Done

Spec == Init /\ [][Next]_vars

-----------------------------------------------------------------------------
(* Types; rows are handled in offset order and never past the batch.        *)
TypeOK ==
    /\ clock \in 0 .. MaxClock
    /\ log \in Seq(Transactions)
    /\ committed \in 0 .. planned
    /\ planned \in 0 .. Len(log)
    /\ inFlight \in BOOLEAN
    /\ phase \in {"up", "writing", "down"}
    /\ phase = "writing" => inFlight /\ next \in committed + 1 .. planned + 1
    /\ redis \subseteq 1 .. Len(log)
    /\ handled \subseteq 1 .. planned
    /\ onlyLogged \subseteq handled
    /\ \A s \in {objects, files} :
        DOMAIN s \subseteq 0 .. MaxClock /\ \A t \in DOMAIN s : s[t] \in handled
    /\ crashes \in 0 .. MaxCrashes

(* Every record of a committed batch was written or handed to the           *)
(* quarantine, whatever crashed and was replayed in between, and no batch   *)
(* that made the code raise was ever committed                              *)
(* (feature_engineering.py:170-183).                                        *)
EveryFlagsRowHandled ==
    \A i \in 1 .. committed :
        /\ i \in handled
        /\ log[i].user # "null" /\ log[i].amount # "null"

(* "Invalid rows that fail validation in foreachBatch are written here      *)
(* instead of being silently dropped" (quarantine.py:4-5): each of them can *)
(* be found in a sink afterwards, unless both sinks refused it.  It holds   *)
(* where an S3 client is installed, and fails where none is, as in the      *)
(* job's image: two rows of one millisecond share a file name.              *)
QuarantineKeepsEveryRecord ==
    \A i \in handled \ (redis \cup onlyLogged) :
        \/ \E t \in DOMAIN objects : objects[t] = i
        \/ \E t \in DOMAIN files : files[t] = i

(* The running batch has handled its rows in order, and none raised.        *)
RowsBeforeNextHandled ==
    phase = "writing" =>
        \A i \in committed + 1 .. next - 1 :
            i \in handled /\ log[i].user # "null"

(* With an S3 client every name is used once: an object's is in the past    *)
(* and a file's is not in the future.                                       *)
NamesAreUsedUp ==
    S3Installed => /\ \A t \in DOMAIN objects : t < clock
                   /\ \A t \in DOMAIN files : t <= clock

(* The inductive invariant of FlagsProofs.                                  *)
FlagsInv ==
    /\ TypeOK
    /\ next \in Nat
    /\ EveryFlagsRowHandled
    /\ RowsBeforeNextHandled
    /\ NamesAreUsedUp
    /\ S3Installed => QuarantineKeepsEveryRecord

(* The flags of a valid transaction are in Redis once its batch is          *)
(* committed (README.md:165).                                               *)
FlagsReachRedis ==
    \A i \in 1 .. committed :
        log[i] = [user |-> "valid", amount |-> "positive"] => i \in redis

=============================================================================
