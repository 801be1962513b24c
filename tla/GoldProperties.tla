--------------------------- MODULE GoldProperties ---------------------------
(***************************************************************************)
(* What the online store promises its reader, stated over GoldFeatures.    *)
(***************************************************************************)
EXTENDS GoldFeatures

(* The records of u with offsets lo .. hi. *)
RecordsOf(u, lo, hi) == {i \in lo .. hi : log[i].user = u}

(* Types; a row never leaves foreachBatch, and a batch in flight is the     *)
(* only thing that separates the planned offsets from the committed ones   *)
(* (feature_engineering.py:200-207 and its checkpoint).                    *)
TypeOK ==
    /\ now \in 0 .. MaxNow
    /\ log \in Seq(Records)
    /\ committed \in 0 .. planned
    /\ planned \in 0 .. Len(log)
    /\ inFlight \in BOOLEAN
    /\ ~inFlight => committed = planned
    /\ state \in [Users -> [Starts -> Nat]]
    /\ wm \in Nat
    /\ maxTime \in 0 .. MaxNow
    /\ phase \in {"down", "up", "writing"}
    /\ phase = "writing" => inFlight
    /\ rows \subseteq Rows
    /\ phase # "writing" => rows = {}
    /\ DOMAIN gold \subseteq ValidUsers
    /\ gold \in [DOMAIN gold -> Entries]
    /\ accounted \in [Users -> Nat]
    /\ refused \subseteq 1 .. planned
    /\ crashes \in 0 .. MaxCrashes

(* The aggregates under a live key are exactly those of the records in its  *)
(* window up to the batch that wrote it, whatever crashes, replays and      *)
(* state evictions happened before: nothing is counted twice, nothing is    *)
(* missing, however late records come (feature_engineering.py:102-122,      *)
(* 200-207).                                                                *)
ExactAggregates ==
    \A u \in DOMAIN gold :
        gold[u].cnt = Cardinality(InWindow(u, gold[u].start, 1, gold[u].upto))

(* The ten minute watermark never costs a record any of its windows: as     *)
(* long as records are overtaken by at most that much, no record still to   *)
(* be committed reaches a window the job has given up                       *)
(* (feature_engineering.py:103).                                            *)
NothingLate ==
    \A i \in committed + 1 .. Len(log) :
        \A s \in WindowStarts(log[i].time) : ~Late(s)

(* When a batch is committed every user with a record in it had its row     *)
(* written or quarantined, also when the batch was cut short and replayed:  *)
(* rows are "quarantined instead of being silently dropped"                 *)
(* (feature_engineering.py:144-167).                                        *)
NothingSilentlyDropped ==
    \A i \in 1 .. committed : accounted[log[i].user] >= i

(* A valid user with a committed event less than Ttl old has a live key,    *)
(* and the key was written by a batch that included that event, unless      *)
(* every row of the user since has been refused for its aggregates: the API *)
(* does not read "no activity" for an active user whose rows pass           *)
(* (redis_writer.py:8-12, 44-45, validation.py:138-145).                    *)
RecentActivityIsServed ==
    \A i \in (1 .. committed) \ refused :
        (log[i].user \in ValidUsers /\ now < log[i].time + Ttl)
            => /\ log[i].user \in DOMAIN gold
               /\ gold[log[i].user].upto >= i

(* "The oldest window containing the user's latest activity"               *)
(* (README.md:169, windowing.py:13-16), for the records up to the batch     *)
(* that wrote the key.                                                      *)
IsTrailingWindow(u) ==
    gold[u].start = Max({log[i].time : i \in RecordsOf(u, 1, gold[u].upto)})
                        - WindowLen + 1

(* Unconditionally it fails: a batch that holds only a late record of a     *)
(* user moves the user's key back to an older window.                       *)
GoldIsTrailingWindow == \A u \in DOMAIN gold : IsTrailingWindow(u)

(* It holds for every user whose own records arrived in the order of their  *)
(* timestamps, however late the records of other users are, and whatever    *)
(* batches they were cut into and replayed in.                              *)
InOrderUsersGetTrailingWindow ==
    \A u \in DOMAIN gold :
        (\A i, j \in RecordsOf(u, 1, gold[u].upto) :
            i < j => log[i].time <= log[j].time)
        => IsTrailingWindow(u)

(* Something other than a commit ended a run of a batch.                    *)
Stopped ==
    \/ crashes > 0
    \/ \E i \in committed + 1 .. planned : log[i].user \in NullUsers

(* The life of a key is renewed by its user's activity: it is written only  *)
(* for a record no row of the user covered, and apart from that only in the *)
(* replay of a batch that had handled its row before: after a crash, or     *)
(* because a record without user_id stopped the batch, which then renews it *)
(* at each restart (redis_writer.py:8-12, README.md:301).                   *)
Renewal ==
    \A u \in DOMAIN gold' :
        (u \in DOMAIN gold /\ gold'[u] = gold[u])
            \/ RecordsOf(u, accounted[u] + 1, planned) # {}
            \/ (accounted[u] = planned /\ Stopped)

RenewedOnlyByActivity == [][Renewal]_vars

Store == INSTANCE OnlineStore
           WITH clock <- now, topic <- log, seen <- accounted,
                store <- [u \in DOMAIN gold |-> [start |-> gold[u].start,
                                                 cnt |-> gold[u].cnt,
                                                 expires |-> gold[u].expires]]

(* Batches cut anywhere, replays, the watermark, evictions and crashes do   *)
(* not show in Redis: whatever is written there is an answer, exact over a  *)
(* prefix of the topic at least as long as the last, that a store without   *)
(* any of them could give (feature_engineering.py:102-167, 200-207,         *)
(* redis_writer.py:22-48).                                                  *)
ImplementsStore == Store!Spec

(* Every record that reaches the topic is committed, whatever the crashes,  *)
(* if each of them is followed by a restart (docker-compose.yml:134) and no *)
(* record without a user_id reaches the topic.                              *)
EveryRecordProcessed ==
    \A n \in 1 .. MaxEvents :
        Len(log) >= n ~> \/ committed >= n
                        \/ \E i \in 1 .. Len(log) : log[i].user \in NullUsers

(* "Invalid rows are quarantined instead of being silently dropped"         *)
(* (feature_engineering.py:144-146, README.md:354), for every user id that  *)
(* fails validation, the null one included.                                 *)
InvalidRowsAreQuarantined ==
    \A n \in 1 .. MaxEvents :
        (Len(log) >= n /\ log[n].user \in BadUsers \cup NullUsers)
            ~> (Len(log) >= n /\ accounted[log[n].user] >= n)

-----------------------------------------------------------------------------
(* The inductive invariants of the proofs. *)

(* A record is stamped before it is appended, and overtaken by records at   *)
(* most MaxLate newer.                                                      *)
LogOrder ==
    \A i \in 1 .. Len(log) :
        /\ log[i].time <= now
        /\ \A j \in 1 .. i : log[j].time <= log[i].time + MaxLate

(* The watermark stays WatermarkDelay behind a committed event, which no    *)
(* uncommitted record is more than MaxLate behind.                          *)
WatermarkBound ==
    /\ maxTime <= now
    /\ wm = 0 \/ wm + WatermarkDelay <= maxTime
    /\ \A i \in committed + 1 .. Len(log) : maxTime <= log[i].time + MaxLate

LateInv == TypeOK /\ LogOrder /\ WatermarkBound

(* While a batch runs, each of its records has a row to come or is          *)
(* accounted for: a batch cannot finish with a user left out.               *)
BatchCovered ==
    phase = "writing" =>
        \A i \in committed + 1 .. planned :
            \/ accounted[log[i].user] >= planned
            \/ \E r \in rows : r.user = log[i].user

(* An accounted event that was not refused is covered by the key of its     *)
(* user, which outlives the event by Ttl.                                   *)
KeysAreCurrent ==
    /\ \A u \in Users : accounted[u] <= planned
    /\ \A i \in (1 .. Len(log)) \ refused :
        (/\ log[i].user \in ValidUsers
         /\ i <= accounted[log[i].user]
         /\ now < log[i].time + Ttl)
            => /\ log[i].user \in DOMAIN gold
               /\ gold[log[i].user].upto >= i
               /\ gold[log[i].user].expires >= log[i].time + Ttl

ServedInv ==
    /\ LateInv
    /\ NothingSilentlyDropped
    /\ BatchCovered
    /\ KeysAreCurrent

(* The state store counts, for every window still open, all of its records  *)
(* committed so far.                                                        *)
StateIsExact ==
    \A u \in Users : \A s \in Starts :
        ~Late(s) => state[u][s] = Cardinality(InWindow(u, s, 1, committed))

(* So does each row of the running batch, for the batch included.           *)
RowsAreExact ==
    \A r \in rows :
        /\ r.start \in Touched(r.user, planned)
        /\ r.cnt = Cardinality(InWindow(r.user, r.start, 1, planned))

(* What a user was last answered by is a committed batch or the running one. *)
PrefixesAreBatches ==
    /\ \A u \in Users : accounted[u] <= committed \/ accounted[u] = planned
    /\ \A u \in DOMAIN gold : gold[u].upto <= planned

ExactInv ==
    /\ TypeOK
    /\ StateIsExact
    /\ RowsAreExact
    /\ PrefixesAreBatches
    /\ ExactAggregates

(* A row is handled a second time only in the replay of a stopped batch.    *)
RenewalInv ==
    /\ inFlight /\ phase # "writing" => Stopped
    /\ \A r \in rows : accounted[r.user] <= committed \/ Stopped
    /\ \A q, r \in rows : q.user = r.user => q = r

(* A row's window is the trailing one of its user's newest record in the    *)
(* running batch.                                                           *)
RowsAreTrailing ==
    \A r \in rows : \E i \in RecordsOf(r.user, committed + 1, planned) :
        /\ r.start = log[i].time - WindowLen + 1
        /\ \A j \in RecordsOf(r.user, committed + 1, planned) :
            log[j].time <= log[i].time

TrailingInv ==
    /\ LateInv
    /\ ExactInv
    /\ RowsAreTrailing
    /\ InOrderUsersGetTrailingWindow

=============================================================================
