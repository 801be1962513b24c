----------------------------- MODULE OnlineStore -----------------------------
(***************************************************************************)
(* What the Gold layer is to its reader, api/main.py: per user, an entry   *)
(* with the exact aggregates of one window over some prefix of the topic,  *)
(* which is replaced only by one over the same or a longer prefix, and     *)
(* expires.  There are no offsets, batches, watermark, state store or      *)
(* process that dies; GoldFeatures has them, and GoldProperties says that  *)
(* it implements this.                                                     *)
(***************************************************************************)
EXTENDS SlidingWindows, Sequences

CONSTANTS
    Users,      \* who appears in the topic
    ValidUsers, \* those whose entries are kept
    Ttl         \* life of an entry

VARIABLES
    clock,
    topic, \* records, with user and time
    store, \* live entries
    seen   \* user -> the prefix of the topic an answer was last based on

vars == <<clock, topic, store, seen>>

RecordsIn(u, lo, hi) == {i \in lo .. hi : topic[i].user = u}

Counted(u, s, hi) ==
    Cardinality({i \in RecordsIn(u, 1, hi) : s \in WindowStarts(topic[i].time)})

Init ==
    /\ clock = 0
    /\ topic = << >>
    /\ store = [u \in {} |-> {}]
    /\ seen = [u \in Users |-> 0]

Arrive ==
    /\ \E u \in Users, t \in 0 .. clock :
        topic' = Append(topic, [user |-> u, time |-> t])
    /\ UNCHANGED <<clock, store, seen>>

(* A longer prefix has more of u's records, or the answer is repeated. *)
Advance(u, hi) ==
    /\ RecordsIn(u, 1, hi) # {}
    /\ hi = seen[u] \/ (hi > seen[u] /\ RecordsIn(u, seen[u] + 1, hi) # {})
    /\ seen' = [seen EXCEPT ![u] = hi]

Publish(u, hi) ==
    /\ u \in ValidUsers
    /\ Advance(u, hi)
    /\ \E s \in UNION {WindowStarts(topic[i].time) : i \in RecordsIn(u, 1, hi)} :
        store' = [v \in DOMAIN store \cup {u} |->
                    IF v = u THEN [start |-> s,
                                   cnt |-> Counted(u, s, hi),
                                   expires |-> clock + Ttl]
                    ELSE store[v]]
    /\ UNCHANGED <<clock, topic>>

(* An answer that fails validation, whoever the user is, is set aside. *)
SetAside(u, hi) ==
    /\ Advance(u, hi)
    /\ UNCHANGED <<clock, topic, store>>

Pass ==
    /\ clock' = clock + 1
    /\ store' = [u \in {v \in DOMAIN store : store[v].expires > clock + 1} |->
                   store[u]]
    /\ UNCHANGED <<topic, seen>>

Next ==
    \/ Arrive
    \/ \E u \in Users, hi \in 1 .. Len(topic) : Publish(u, hi) \/ SetAside(u, hi)
    \/ Pass

Spec == Init /\ [][Next]_vars

=============================================================================
