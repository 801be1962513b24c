# A TLA+ verification project for fraud-feature-store

The repository computes per-user features from a stream of card transactions,
serves them from Redis to a scoring API, and trains a model from the same stream
at rest.  This directory models its concurrent and crash-prone parts in TLA+,
checks them with TLC and proves the central results with TLAPS.  Paths such as
`spark/windowing.py` are relative to the repository, `src/` in `PROJECT.json`.

## The system

| Component | State it keeps | Operations | What is hard about it |
|---|---|---|---|
| Producer (`producer/`) | none of its own; Kafka topics `raw_transactions`, `fraud_labels` | `generate_transaction`, the client's sends and retries (`send_with_retry` is never called) | records appended out of the order of their timestamps, or twice |
| Query 1 (`spark/feature_engineering.py:102-122, 149-167, 200-207`, `windowing.py`, `redis_writer.py`, `validation.py`) | checkpoint: offset log, commit log, state store, watermark; Redis keys `user_features:*` | a micro-batch: plan, aggregate, choose a window per user, validate, write or quarantine row by row, commit | crash between any two writes, replay, late records, eviction, expiry |
| Query 2 (`feature_engineering.py:126-142, 170-183, 210-222`) | checkpoint; Redis keys `txn_flags:*` | a micro-batch of flagged rows | a UDF or a validator that raises, crash and replay |
| Quarantine (`spark/quarantine.py`) | S3 objects, local files, a counter | `write_to_quarantine`: S3, else file, else log line | one sink of several failing, name collisions |
| Queries 0, 3, 4 | files in MinIO: Bronze, Silver, labels | append micro-batches | late closing of windows, duplicates |
| Rate limiter (`api/rate_limit.py`) | `_requests`, `_last_cleanup`, shared by the thread pool | `check_rate_limit`, `_cleanup_old_entries` | threads without a lock; window boundaries |
| Scoring API (`api/main.py`, `metrics.py`) | `_model`, `_redis_client`, gauges | `/score`, `/explain`, `/user`, `/health`, startup | shared client and gauge under threads, Redis failing under a request |
| Training set (`models/train.py:165-310`, `feast/features.py`) | part files of Bronze, Silver and labels, read without `_spark_metadata` | join with labels, point-in-time lookup | duplicates, files of interrupted batches, windows written while the run reads |
| Training run and registry (`train.py:358-451`, `api/main.py:86-121, 139-172`) | `mlruns/`, one shared plot file | log, end the run; scan and load at API startup | a model published while the API scans, runs that raise or are killed, runs at one time |
| Shared features (`features/__init__.py`) | none | flags, feature vector | type and null handling agreed between three programs |
| Authentication, explanations, load tests, dashboards | none or configuration | | |

**Interactions.**  The producer appends to Kafka; the five queries of one Spark
process consume it, and one that fails ends the process (`awaitAnyTermination`,
line 275), which docker restarts with its checkpoint volume
(`docker-compose.yml:132-134`).  Query 1 and the API meet only in Redis.  Inside
the API, requests meet in the limiter's dictionary, the Redis client and the
gauges, in the threads FastAPI runs plain `def` endpoints in.

**What makes each part correct** is stated as the properties below; everything
hard to test, with the properties that watch it or the reason none does yet, is
the `hazards` list of `PROJECT.json`.

## Modules

| Module | Models | State and actions against the code |
|---|---|---|
| `SlidingWindows` | the window arithmetic and `select_trailing_window` | a slot is one slide (1 minute); a window is named by its first slot; `LatestStart`, `Candidates`, `TrailingStart` are the three steps of `windowing.py:36-44` |
| `WindowedCounts` | the aggregation `txn_count_5min`, which queries 1 and 3 each run with a checkpoint of its own | `log` is the topic; `committed`, `planned`, `inFlight`, `state`, `wm`, `maxTime` the checkpoint; `Count` and `Touched` what a batch computes, `CommitAggregation` what its commit saves and evicts |
| `GoldFeatures` | query 1 from topic to Redis key; extends `WindowedCounts` | `rows` what the loop of `write_windowed_batch_to_redis` still has to do; `gold` Redis. `PlanBatch`/`ReplayBatch` start a batch, `WriteRow`, `QuarantineRow`, `RaiseOnRow` are the three ends of one turn of the loop, `CommitBatch` its commit; `Crash`, `Restart`, `Tick` the world; `accounted` and `refused` are history |
| `GoldProperties` | what query 1 promises, and the parts of its inductive invariant | |
| `OnlineStore` | what Redis is to the API, abstractly: per user the exact aggregates of some window over a prefix of the topic, replaced only over a longer prefix or by a repetition, expiring | no offsets, batches, watermark or crashes; `GoldProperties` maps `gold` (less its history) to `store` and `accounted` to `seen` |
| `OfflineTraining` | queries 0 and 3 and `train.py --historical`; extends `WindowedCounts` | `bronze` counts a transaction's lines in the part files, `leftover` (history) those of attempts that died, `landed` is query 0's checkpoint, `silver` the rows in the Parquet files; `ReadUsers` is `_users_with_feature_rows`, `Joined` the window Feast takes for a row, `Feature` what `build_historical_training_set` attaches to it, `JoinFeatures` the end of the join |
| `ModelRegistry` | `log_to_mlflow` and the `with` block of `main` against `_find_latest_model_uri` and `lifespan` | `trainer` is where each training process is, `meta`, `endTime`, `model`, `plot` its files, `plotFile` the shared one; `ReadMeta` is one turn of the scan's loop, `LoadModel` its sort and the load, which may raise; `finished`, `torn`, `broken`, `overlaps` are history |
| `SlidingWindowLimiter` | the limiter abstractly: the whole history, no lists, no sweep | `RateLimit` maps `now`, `admitted`, `reply` to `clock`, `granted`, `answer` |
| `GoldProofs`, `OfflineProofs`, `RateLimitProofs`, `RateLimitThreadsProofs`, `FlagsProofs`, `ScoringProofs`, `ModelRegistryProofs` | theorems about the module each is named for | |
| `WindowedCountsProofs` | the lemmas that `GoldProofs` and `OfflineProofs` share, on extrema of bounded sets, windows and the watermark, and the theorem on the window choice | |
| `RateLimit` | `check_rate_limit`, one call at a time | `requests` and `lastCleanup` are the fields; `Admit` and `Reject` the two returns, sweep included; `admitted` is history |
| `RateLimitThreads` | the same code under threads | one action per stretch of code between two points where CPython 3.11 (the image's version) may switch threads; `thread` holds program counter and locals, a fetched list included: while it is the one in the dictionary the thread sees it change, after it is replaced it does not |
| `FlagsPipeline` | query 2 and the quarantine | `HandleRow` is one turn of `write_flags_batch_to_redis`, with the validator and `write_to_quarantine` inside; the clock counts milliseconds, the resolution of quarantine names |
| `ScoringApi` | lookup path, `/health`, gauge | one action per Redis command and per gauge update; `saw` is history: what the request could have found at some instant of its life |
| `MC...` | instances for TLC | |

Definitions whose comment begins with "Mutant" are deliberate mistakes: each
replaces one definition to show that a property notices it (`mutants` in
`PROJECT.json`).  No specification uses them, with one exception: `LatestStart`
is both the first step of the window choice and, in place of the whole choice,
the mistake `windowing.py:9-10` warns of.

### What the models assume

* Spark (`GoldFeatures`, `FlagsPipeline`): a batch's offsets are durable before
  it runs; a batch that did not commit is run again with the same offsets, state
  and watermark; state and watermark move with the commit.  Late rows are
  filtered with the watermark of the batch before, state is evicted with the
  batch's own.
* The four aggregates of a window are folds of the same records; the count
  stands for them.  A record's `user_id` is valid, invalid or null.  Amounts are
  left out, so validation's other check, of the aggregates
  (`validation.py:138-145`), may refuse any row: `WriteRow` and `QuarantineRow`
  are both possible for a valid user.  A record whose timestamp does not parse
  is not modelled (it has no window at all).
* Redis executes the `hset`/`expire` pipeline as a unit (it is a MULTI
  transaction) and keeps its data when the job crashes.
* redis-py reconnects a pooled connection the server closed, so a command fails
  exactly when the server cannot be reached at that moment.  The client has a
  timeout for connecting and none for commands: a server that accepts and does
  not answer ("hung") holds every command, the ping of `_get_redis` included,
  at startup as later.
* A Spark file sink leaves the part files of an attempt in place, whether it
  commits or not, and only `_spark_metadata` says which count.  Query 0 writes
  one file per batch (README.md:348), at once, as an S3 upload appears; query 3,
  whose rows come out of a shuffle into four partitions
  (`feature_engineering.py:51`), may have any part of its rows written when it
  dies.
* The Kafka client (`retries=5`, no idempotence) may append a record again while
  it is still within `MaxLate`.
* Feast's file store returns, for a row at time t, the latest window with
  `window_end` in [t - ttl, t] (`train.py:250-253`, `feast/features.py:13-15`).
* Bronze lines never vanish and a row's time never changes, so a training run's
  read of its rows and its read of the known users are one step.
* MLflow's file store opens a run's `meta.yaml` for writing and then writes it
  in one piece, once as RUNNING and once at the end; the model's directory is
  copied file by file.
* An attempt to reach S3, and a process start, take more than a millisecond.

## Runs

| Run | Properties | Instance | Shows |
|---|---|---|---|
| `gold_safety` | `TypeOK`, `ExactAggregates`, `NothingLate`, `NothingSilentlyDropped`, `RecentActivityIsServed`, `InOrderUsersGetTrailingWindow`, `RenewedOnlyByActivity`, `ImplementsStore` | two valid users (symmetric), one invalid, one null; 3 records, 5 slots, windows of 2, delay and lateness 2, one crash, any row refused; 2.5 million states | keys hold exactly the records of their window; the watermark costs nothing; no row is skipped; active users whose rows pass validation are served; users with ordered records get the trailing window; a key's life is renewed by activity or a replay only; query 1 implements `OnlineStore` |
| `gold_liveness` | `EveryRecordProcessed` | one valid and one invalid user, 3 records, 2 crashes | the job gets past every crash |
| `gold_late_record` (violation) | `GoldIsTrailingWindow` | lateness 1 | a late record moves the key back |
| `gold_null_user` (violation) | `InvalidRowsAreQuarantined` | a null user | a record without `user_id` stops the query for ever |
| `rate_limit` | `TypeOK`, `WindowLimit`, `RetryAfterSuffices`, `StoreIsSwept`, `HonestAnswers`, `ImplementsSlidingWindow` | a key with limit 2, an address with limit 1, windows of 4 ticks, two ticks to the second, 5 requests, 10 ticks | exact sliding window; `Retry-After` plus one second suffices; every answer leaves the lists swept; no answer tells the lists from the whole history |
| `rate_limit_threads` | `TypeOK`, `SerialRequestsKeepLimit`, `RefusedOnlyWhenFull` | two threads (symmetric), one client with limit 1, 5 requests, windows of 2 | races never refuse too early; the limit breaks only after an overlap |
| `rate_limit_overshoot` (violation) | `WindowLimit` | two threads | both take the last free place |
| `flags_safety` | `TypeOK`, `EveryFlagsRowHandled`, `QuarantineKeepsEveryRecord` | 3 records of 9 kinds, one crash besides the ones records cause, 6 ms, S3 client installed | nothing is committed unhandled; the quarantine loses nothing |
| `flags_never_served` (violation) | `FlagsReachRedis` | one record | no valid transaction ever reaches `txn_flags:*` |
| `scoring` | `TypeOK`, `AnswersAreJustified`, `GaugeConverges`, `EveryRequestAnswered` | two threads, no other bound | answers match what was there; the gauge settles; nobody waits for ever unless Redis hangs for ever, or again and again |
| `offline` | `TypeOK`, `SilverIsFinal`, `BronzeIsComplete`, `NoLeakage`, `SettledRowsAreExact`, `OneRowUnlessRepeated` | one user, 4 records, 6 slots, windows of 2, delay, lateness and TTL 1, one crash; 2.8 million states | Silver rows never change meaning, however often written; a feature counts exactly what its window had before the row's time; a row the watermark has passed has exactly the trailing window, or 0 for lack of activity; rows are repeated only as often as retries copied the record or dead attempts left its line |
| `registry` | `TypeOK`, `LoadedModelIsWhole`, `NewestFinishedIsServed`, `StartsWithModel`, `PlotIsOwn` | three runs (symmetric), 3 instants, one fault, two starts of the API, any load may raise; 3.2 million states | the scan never serves half a model or an older one than was finished when it began; only a `meta.yaml` caught while it is written, or a load that raises, leaves the API without a model |

**Why the bounds are enough.**  Three records give a batch that is replayed with
a batch before it and one after it, and two records of one user around one of
another; the clock runs past the end of every window and key of the first
records, so eviction and expiry happen; one crash suffices for a replay at any
row, and the liveness run has two so that a replay itself crashes.  For the
limiter, the clock covers two windows and more, so a sweep, a wait and a second
sweep occur.  `scoring` counts
nothing and is exhaustive for two threads.  In `rate_limit_threads` the fifth
request comes after entries of the first have been swept.

In `offline` four records are two windows of one
user with different counts to choose between, a transaction they are joined to
and a record that closes them; the last slot is there for a window to outlive
its TTL.  With one user the users with windows are known as soon as there is any
window, so the filter on known users always lets the row through; two users with
three records pass too (1.2 million states), but leave Feast no choice.  In
`registry` three runs are one served, one newer and one in the way, `end_time`
has ties, and the second start finds what the first left.

**Symmetry** is used for users and threads in runs without liveness properties.

**Fairness.**  `gold_liveness`: weak fairness of the job's own steps and of
`Restart` (`restart: unless-stopped`, the processing-time trigger); none for the
producer or the clock.  `scoring`: weak fairness of every thread, strong
fairness of `/health` finding a thread, from docker's health check every 15
seconds (`docker-compose.yml:161-166`); none for clients or Redis.  A weakly
fair step says nothing while Redis hangs, since then the step is not enabled:
`EveryRequestAnswered` excepts a Redis that hangs for ever or again and again,
which the code does not survive.  Without the
health check `GaugeConverges` fails: a ping that works again leaves the gauge
at 0 (`api/main.py:203-206`).

Deadlock is checked in every run; the modelled period ends in explicit steps
(`Idle`, `Done`).

## Findings

1. `gold_late_record`: README.md:169 and `windowing.py:12-16` promise the window
   of the latest activity; the choice is made within one micro-batch.
2. `gold_null_user`: `feature_engineering.py:144-147` and README.md:354 promise
   quarantine; `validation.py:135` raises on `None` and the query never recovers.
3. `rate_limit_overshoot`: `rate_limit.py:20-22` promises a maximum; the check
   and the append are not atomic.
4. `flags_never_served`: README.md:165 promises `txn_flags:*` keys;
   `validation.py:192` refuses the integers of the flag UDFs.

The passing runs carry exceptions that say as much:

* `OneRowUnlessRepeated`: `train.py:191` says "one row per labeled
  transaction".  `drop_duplicates` is applied to the labels and not to the
  transactions (`train.py:223-226`), so a retried append, or a batch of query 0
  that died after its file was there, makes two rows of one transaction.  The
  property counts them: one row per copy in the topic and per line such an
  attempt left, and no other.
* `StartsWithModel`: one `meta.yaml` caught empty ends the scan with an
  `AttributeError` (`main.py:152-155`), and the API serves without a model
  although finished ones exist; a trainer killed at that instant leaves the file
  empty for every later start.  Likewise `load_model` raising for the newest
  model leaves the API without one: no other candidate is tried
  (`main.py:91-105`).
* `RecentActivityIsServed`: a user all of whose rows validation refuses for
  their aggregates reads as "no activity", or keeps the key of before.
* `RenewedOnlyByActivity`: README.md:301 says a key expires "5 minutes after a
  user's last activity".  A replay renews it, and a batch with a record without
  `user_id`, which no restart gets past, does so at each of them: its other
  users stay active for as long as the container restarts.

With `S3Installed = FALSE` (the image of `spark/Dockerfile` installs neither
s3fs nor boto3) TLC also finds `QuarantineKeepsEveryRecord` violated: two
records of one millisecond share a local file name (`quarantine.py:138`); the
log line is all that is left of the first.

## Proofs

All hold for every value of the constants the `ASSUME`s allow: any number of
users, clients, events and crashes, any limit and any window length.

* `TrailingWindowOfNewestEvent` (`WindowedCountsProofs`): for any set of events
  with a newest one, `TrailingStart` of all their windows is the window that
  ends one slot after it.  It rests on the least and greatest elements of bounded
  sets of integers.
* `TypeCorrect`, then `WatermarkLosesNothing` (`GoldProofs`).  `NothingLate` is
  not inductive: it needs `LogOrder` (a record is overtaken by records at most
  `MaxLate` newer) and `WatermarkBound` (the watermark is `WatermarkDelay`
  behind a committed event, which no uncommitted record trails by more than
  `MaxLate`).  The hypothesis `MaxLate <= WatermarkDelay` is the one a ten
  minute watermark relies on.
* `RowsAreNeverDropped` and `ActiveUsersAreServed` share one invariant,
  `ServedInv`: besides the above, `BatchCovered` (each record of the running
  batch has a row to come or is accounted for; this is where `NothingLate` is
  needed, since a record all of whose windows are late yields no row) and
  `KeysAreCurrent` (a live key was written by the last batch that accounted for
  its user, and outlives each accounted event by `Ttl`, events whose rows were
  refused since excepted).
* `KeysAreExact` (`GoldProofs`), without any hypothesis on lateness.
  `ExactAggregates` speaks of keys only; `ExactInv` adds the chain that leads to
  them: the state store counts all committed records of every window still open
  (`StateIsExact`), so each row of the running batch counts all records up to
  the batch's end (`RowsAreExact`), a window late for this batch is late for all
  that follow, and the watermark never moves back.
* `StoreImplemented`: from the same invariant each step of
  query 1 is a step of `OnlineStore` or changes nothing it has.  `WriteRow` is a
  `Publish`: the row stands for a record of the batch (`RowHasRecord`), which is
  new to the user or repeats an answer over the same prefix
  (`PrefixesAreBatches`).
* `RenewalIsEarned` adds `RenewalInv`: a batch in flight outside the sink, and a
  row whose user is already answered for its batch, both mean that a run of the
  batch was stopped.
* `InOrderUsersTrail` combines `ExactInv`, `LateInv` and the window theorem: the
  row of a batch has the trailing window of the user's newest record in it
  (`RowsAreTrailing`), which for a user in order is the newest of all.  Late
  records would drop windows from the choice, hence
  `MaxLate <= WatermarkDelay` again.
* `SlidingWindowImplemented` (`RateLimitProofs`): the stored lists implement
  `SlidingWindowLimiter`, from `LimitInv` and the lemma that the swept list of a
  client is the last Window of the history.  `StoreStaysSwept` adds
  `SweepInv`, that no list has an entry a Window older than the last sweep: an
  answer either sweeps or finds the last sweep less than a Window ago, so it
  leaves nothing two Windows old, of clients that went away either.
* `ServedModelsAreWhole`, `NewestIsServed`, `ModelIsFound`
  (`ModelRegistryProofs`) share `ScanInv`: FINISHED is written last and stays
  (`FinishedIsWhole`), and every run finished when the scan began is still to be
  read or already a candidate (`ScanIsSound`), so a step of a trainer concerns
  only runs the scan has not counted.  A run whose model did not load was the
  newest candidate, and FINISHED (`ScanIsSound` again).
  `PlotsOfOverlappingRuns` needs `OverlapsAreKnown`: the plot file is overwritten only by runs active while
  its owner is.
* `RateLimitTypes`, `LimitHolds`, `AnswersAreHonest` (`RateLimitProofs`) from
  `LimitInv`, whose strengthening is `ListsAreFaithful`: an entry that still
  counts is in its client's list, whatever was swept.  `RetryIsEnough`: the wait
  takes the oldest of at most `Limit` entries out of the window, and afterwards
  the window only moves on.

* `OfflineTypes`, `NothingMissingFromBronze`, `RowsAreSingle` (`OfflineProofs`)
  share `BronzeInv`, and need nothing of the watermark.  A transaction is named
  before it is repeated or has a line (`BronzeIsKnown`), so a training run only
  looks at records the topic has; a batch adds to each transaction's lines
  exactly its copies among the batch's offsets, so Bronze is at any time the
  committed offsets once each and what dead attempts left (`BronzeIsOnce`).
* `SilverNeverChanges` and `TrainingNeverLeaks` from `SilverInv`.  The window
  joined to a row has a final count and had ended by the row's time, so all its
  records were made before the row and the count leaves none of them out.
  A Silver row is written before its batch commits and a crash may keep it, so `SilverIsFinal`
  alone says nothing of the replay: `RowsAreFinal` says of rows written and to
  be written that their window is closed, `StateIsExact` that the store holds
  the rest, and `NothingToCome` that no uncommitted record, and no record the
  producer may still append, falls into a closed window.  This is where
  `MaxLate <= WatermarkDelay` is needed, and with it `LogOrder` and
  `WatermarkBound` as in query 1.
* `SettledRowsMatchTheTopic` adds two things.  `ClosedAreWritten`: a window with
  records that the watermark of a committed batch has passed has its row, and
  one the running batch closes has it written or to come.  `RunIsSettled`: a
  user without windows when the run looked has none that ended before the row,
  so the run is right to skip Feast for it later too.  The windows Feast finds
  are then the ones the topic has (`EndedAreJoinable`).
* `FlagsTypes`, `FlagsRowsAreHandled`, `QuarantineLosesNothing` (`FlagsProofs`)
  from `FlagsInv`: the running batch handles its rows in order
  (`RowsBeforeNextHandled`), and with an S3 client every name is used once
  (`NamesAreUsedUp`), since the clock moves past it before the next row.  The
  last theorem has `S3Installed` as its hypothesis; without it the property is
  false (see Findings).
* `ScoringTypes`, `EveryAnswerIsJustified` (`ScoringProofs`) from `LookupInv`:
  a request in progress has seen the present instant and one that knows its
  answer has seen the reason (`SightsAreKept`), and nothing runs or is connected
  before the start (`QuietBeforeStart`).  Any number of threads.
* `ThreadsTypes`, `OvershootNeedsOverlap`, `RefusalsAreEarned`
  (`RateLimitThreadsProofs`) from `ThreadsInv`.  `ListsInv` holds of every
  interleaving: whatever list a thread holds, in the dictionary or replaced
  since, has only admitted requests of its key.  That is all a refusal needs.
  `SerialInv` holds until requests overlap: a thread that runs alone holds the
  list in the dictionary, and a sweep with its time drops nothing it will count
  (`FaithfulSince`).

**Model-checked only.**  Liveness: `EveryRecordProcessed`, `GaugeConverges` and
`EveryRequestAnswered` rest on fairness, which TLAPS does not reason about.
Every other property of a passing run, the two refinements included, is the
conclusion of a theorem.  The hypotheses are `MaxLate <= WatermarkDelay` where
a watermark must cover the lateness and `S3Installed` for the quarantine; the
rest hold under the `ASSUME`s alone.  No module declares a RECURSIVE operator.

## Not modelled

Authentication and explanations keep no shared state.  Load tests, dashboards
and compose files are configuration; the restart policy, the checkpoint volume
and the health check appear as assumptions.  Model fitting, metrics and the
synthetic data are numeric.  `load_historical_data` refuses to train on missing
or too little data before it writes anything; the models start where it does
not.  Query 4 is modelled by what a training run sees of it: any transaction may
have its label or not.

## Plan

1. `RateLimitThreads` with one thread as an implementation of
   `SlidingWindowLimiter`.
2. Composition of `ScoringApi` with the limiter, for the endpoints it covers
   (`/explain` never asks it, and no endpoint uses the limit per address).
3. The feature vector and its contract between training and serving as pure
   functions.
