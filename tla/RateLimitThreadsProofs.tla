----------------------- MODULE RateLimitThreadsProofs -----------------------
(***************************************************************************)
(* What the limiter keeps under any interleaving of any number of threads, *)
(* and that its overshoot needs two requests at once.                      *)
(***************************************************************************)
EXTENDS RateLimitThreads, FiniteSetTheorems, TLAPS

USE ThreadsAssumption

(* The locals of a thread stay right when others add lists and requests.    *)
LEMMA LocalsGrow ==
    ASSUME NEW r, NEW keys, NEW more, NEW hist, NEW longer,
           NEW m \in Nat, NEW n \in Nat,
           LocalsOK(r, keys, hist, m),
           keys \subseteq more, hist \subseteq longer, m <= n
    PROVE  LocalsOK(r, more, longer, n)
<1>1. 0 .. m \subseteq 0 .. n
  OBVIOUS
<1>2. {e \in hist : e.client = r.key}
        \subseteq {e \in longer : e.client = r.key}
  OBVIOUS
<1>3. /\ r.live => r.key \in more
      /\ r.frozen \subseteq {e \in longer : e.client = r.key}
  BY <1>2 DEF LocalsOK
<1>4. r \in [pc : {"idle", "check", "sweep", "store", "stamp", "fetch",
                   "decide", "append"},
             client : Clients \cup {{}}, id : 0 .. MaxRequests,
             current_time : 0 .. n, todo : SUBSET Clients,
             key : Clients \cup {{}}, live : BOOLEAN,
             frozen : SUBSET Entries]
  BY <1>1 DEF LocalsOK
<1> QED
  BY <1>3, <1>4 DEF LocalsOK

(* A thread at rest.                                                        *)
LEMMA IdleIsOK ==
    ASSUME NEW keys, NEW hist, NEW n \in Nat
    PROVE  LocalsOK(IdleThread, keys, hist, n) /\ IdleThread.pc = "idle"
BY DEF LocalsOK, IdleThread

(* One thread moves, and what it shares with the others only grows.         *)
LEMMA OthersStayOK ==
    ASSUME ListsInv, NEW t \in Threads, NEW r,
           thread' = [thread EXCEPT ![t] = r],
           now' \in Nat, now <= now',
           DOMAIN requests \subseteq DOMAIN requests',
           admitted \subseteq admitted',
           LocalsOK(r, DOMAIN requests', admitted', now')
    PROVE  \A u \in Threads :
             LocalsOK(thread'[u], DOMAIN requests', admitted', now')
<1> SUFFICES ASSUME NEW u \in Threads
             PROVE  LocalsOK(thread'[u], DOMAIN requests', admitted', now')
  OBVIOUS
<1>1. LocalsOK(thread[u], DOMAIN requests, admitted, now) /\ now \in Nat
  BY DEF ListsInv
<1>2. CASE u = t
  BY <1>2 DEF ListsInv
<1>3. CASE u # t
  <2>1. thread'[u] = thread[u]
    BY <1>3
  <2> QED
    BY <1>1, <2>1, LocalsGrow
<1> QED
  BY <1>2, <1>3

(* A thread moves and leaves dictionary, history and clock alone.           *)
LEMMA QuietMove ==
    ASSUME ListsInv, NEW t \in Threads, NEW r,
           thread' = [thread EXCEPT ![t] = r],
           UNCHANGED <<now, requests, admitted>>,
           lastCleanup' \in 0 .. now, begun' \in 0 .. MaxRequests,
           overlapped' \in BOOLEAN,
           LocalsOK(r, DOMAIN requests, admitted, now)
    PROVE  ListsInv'
<1>1. /\ now' = now /\ requests' = requests /\ admitted' = admitted
      /\ now \in Nat /\ now' \in Nat /\ now <= now'
      /\ DOMAIN requests \subseteq DOMAIN requests'
      /\ admitted \subseteq admitted'
      /\ LocalsOK(r, DOMAIN requests', admitted', now')
  BY DEF ListsInv
<1>2. \A u \in Threads :
        LocalsOK(thread'[u], DOMAIN requests', admitted', now')
  BY <1>1, OthersStayOK
<1>3. DOMAIN thread' = Threads
  BY DEF ListsInv
<1> QED
  BY <1>1, <1>2, <1>3 DEF ListsInv

(* What a fetch of the list of c leaves in the dictionary.                  *)
LEMMA WithListFacts ==
    ASSUME ListsInv, NEW c \in Clients
    PROVE  /\ DOMAIN WithList(c) = DOMAIN requests \cup {c}
           /\ \A d \in DOMAIN requests : WithList(c)[d] = requests[d]
           /\ \A d \in DOMAIN WithList(c) :
                  WithList(c)[d] \subseteq {e \in admitted : e.client = d}
           /\ c \notin DOMAIN requests => WithList(c)[c] = {}
<1>1. \A d \in DOMAIN requests :
        requests[d] \subseteq {e \in admitted : e.client = d}
  BY DEF ListsInv
<1> QED
  BY <1>1 DEF WithList

(* The steps that end or begin a request, or only look.                     *)
LEMMA QuietStepsKeepLists ==
    ASSUME ListsInv, NEW t \in Threads,
           \/ \E c \in Clients : Begin(t, c)
           \/ SkipSweep(t)
           \/ StartSweep(t)
           \/ FinishSweep(t)
           \/ Stamp(t)
           \/ Refuse(t)
           \/ Accept(t)
    PROVE  ListsInv'
<1> DEFINE q == thread[t]
<1>1. /\ LocalsOK(q, DOMAIN requests, admitted, now)
      /\ now \in Nat /\ lastCleanup \in 0 .. now /\ begun \in 0 .. MaxRequests
      /\ overlapped \in BOOLEAN /\ DOMAIN thread = Threads
      /\ DOMAIN requests \subseteq Clients
  BY DEF ListsInv
<1>2. CASE \E c \in Clients : Begin(t, c)
  <2>1. PICK c \in Clients : Begin(t, c)
    BY <1>2
  <2> DEFINE r == [IdleThread EXCEPT !.pc = "check", !.client = c,
                                     !.id = begun + 1, !.current_time = now]
  <2>2. begun + 1 \in 0 .. MaxRequests /\ begun + 1 # 0 /\ now \in 0 .. now
    <3>1. begun < MaxRequests
      BY <2>1 DEF Begin
    <3> QED
      BY <1>1, <3>1
  <2>3. LocalsOK(r, DOMAIN requests, admitted, now)
    <3> DEFINE id == begun + 1
    <3>1. id \in 0 .. MaxRequests /\ id # 0
      BY <2>2
    <3>2. LocalsOK(IdleThread, DOMAIN requests, admitted, now)
      BY <1>1, IdleIsOK
    <3>3. IdleThread.pc = "idle"
      BY DEF IdleThread
    <3> HIDE DEF id
    <3> QED
      BY <2>2, <3>1, <3>2, <3>3 DEF LocalsOK
  <2>4. /\ thread' = [thread EXCEPT ![t] = r]
        /\ UNCHANGED <<now, requests, admitted>> /\ lastCleanup' = lastCleanup
        /\ begun' = begun + 1 /\ overlapped' \in BOOLEAN
    BY <2>1 DEF Begin
  <2> HIDE DEF r
  <2> QED
    BY <1>1, <2>2, <2>3, <2>4, QuietMove
<1>3. CASE SkipSweep(t)
  <2> DEFINE r == [q EXCEPT !.pc = "stamp"]
  <2>1. LocalsOK(r, DOMAIN requests, admitted, now)
    BY <1>1, <1>3 DEF LocalsOK, SkipSweep
  <2>2. /\ thread' = [thread EXCEPT ![t] = r]
        /\ UNCHANGED <<now, requests, admitted, lastCleanup, begun, overlapped>>
    BY <1>3 DEF SkipSweep
  <2> HIDE DEF r
  <2> QED
    BY <1>1, <2>1, <2>2, QuietMove
<1>4. CASE StartSweep(t)
  <2> DEFINE r == [q EXCEPT !.pc = "sweep", !.todo = DOMAIN requests]
  <2>1. LocalsOK(r, DOMAIN requests, admitted, now)
    BY <1>1, <1>4 DEF LocalsOK, StartSweep
  <2>2. /\ thread' = [thread EXCEPT ![t] = r]
        /\ UNCHANGED <<now, requests, admitted, lastCleanup, begun, overlapped>>
    BY <1>1, <1>4 DEF StartSweep
  <2> HIDE DEF r
  <2> QED
    BY <1>1, <2>1, <2>2, QuietMove
<1>5. CASE FinishSweep(t)
  <2> DEFINE r == [q EXCEPT !.pc = "stamp"]
  <2>1. /\ LocalsOK(r, DOMAIN requests, admitted, now)
        /\ q.current_time \in 0 .. now
    BY <1>1, <1>5 DEF LocalsOK, FinishSweep
  <2>2. /\ thread' = [thread EXCEPT ![t] = r]
        /\ UNCHANGED <<now, requests, admitted, begun, overlapped>>
        /\ lastCleanup' = q.current_time
    BY <1>5 DEF FinishSweep
  <2> HIDE DEF r
  <2> QED
    BY <1>1, <2>1, <2>2, QuietMove
<1>6. CASE Stamp(t)
  <2> DEFINE r == [q EXCEPT !.pc = "fetch", !.current_time = now]
  <2>1. LocalsOK(r, DOMAIN requests, admitted, now)
    <3>1. now \in 0 .. now
      BY <1>1
    <3> QED
      BY <1>1, <1>6, <3>1 DEF LocalsOK, Stamp
  <2>2. /\ thread' = [thread EXCEPT ![t] = r]
        /\ UNCHANGED <<now, requests, admitted, lastCleanup, begun, overlapped>>
    BY <1>1, <1>6 DEF Stamp
  <2> HIDE DEF r
  <2> QED
    BY <1>1, <2>1, <2>2, QuietMove
<1>7. CASE Refuse(t)
  <2>1. /\ thread' = [thread EXCEPT ![t] = IdleThread]
        /\ UNCHANGED <<now, requests, admitted, lastCleanup, begun, overlapped>>
    BY <1>7 DEF Refuse
  <2> QED
    BY <1>1, <2>1, IdleIsOK, QuietMove
<1>8. CASE Accept(t)
  <2> DEFINE r == [q EXCEPT !.pc = "append", !.live = FALSE, !.frozen = {}]
  <2>1. LocalsOK(r, DOMAIN requests, admitted, now)
    BY <1>1, <1>8 DEF LocalsOK, Accept
  <2>2. /\ thread' = [thread EXCEPT ![t] = r]
        /\ UNCHANGED <<now, requests, admitted, lastCleanup, begun, overlapped>>
    BY <1>1, <1>8 DEF Accept
  <2> HIDE DEF r
  <2> QED
    BY <1>1, <2>1, <2>2, QuietMove
<1> QED
  BY <1>2, <1>3, <1>4, <1>5, <1>6, <1>7, <1>8

(* A list is fetched, by the sweep or by the check.                         *)
LEMMA FetchesKeepLists ==
    ASSUME ListsInv, NEW t \in Threads,
           (\E c \in Clients : SweepFetch(t, c)) \/ Fetch(t)
    PROVE  ListsInv'
<1> DEFINE q == thread[t]
<1>1. /\ LocalsOK(q, DOMAIN requests, admitted, now)
      /\ now \in Nat /\ DOMAIN thread = Threads
  BY DEF ListsInv
<1>2. PICK c \in Clients :
        /\ requests' = WithList(c)
        /\ UNCHANGED <<now, lastCleanup, admitted, begun, overlapped>>
        /\ \/ /\ q.pc = "sweep"
              /\ thread' = [thread EXCEPT ![t] =
                    [q EXCEPT !.pc = "store", !.todo = @ \ {c}, !.key = c,
                              !.live = TRUE]]
           \/ /\ q.pc = "fetch" /\ c = q.client
              /\ thread' = [thread EXCEPT ![t] =
                    [q EXCEPT !.pc = "decide", !.live = TRUE, !.key = c]]
  <2>1. CASE Fetch(t)
    <3>1. q.client \in Clients
      BY <1>1, <2>1 DEF Fetch, LocalsOK
    <3> QED
      BY <1>1, <2>1, <3>1 DEF Fetch
  <2>2. CASE \E c \in Clients : SweepFetch(t, c)
    BY <1>1, <2>2 DEF SweepFetch
  <2> QED
    BY <2>1, <2>2
<1>3. /\ DOMAIN requests' = DOMAIN requests \cup {c}
      /\ \A d \in DOMAIN requests' :
            requests'[d] \subseteq {e \in admitted : e.client = d}
  BY <1>2, WithListFacts
<1>4. LocalsOK(q, DOMAIN requests', admitted', now')
  BY <1>1, <1>2, <1>3, LocalsGrow
<1>5. PICK r : /\ thread' = [thread EXCEPT ![t] = r]
               /\ LocalsOK(r, DOMAIN requests', admitted', now')
  <2>1. CASE q.pc = "sweep"
    <3> DEFINE r == [q EXCEPT !.pc = "store", !.todo = @ \ {c}, !.key = c,
                              !.live = TRUE]
    <3>1. LocalsOK(r, DOMAIN requests', admitted', now')
      BY <1>3, <1>4, <2>1 DEF LocalsOK
    <3> QED
      BY <1>2, <2>1, <3>1
  <2>2. CASE q.pc = "fetch"
    <3> DEFINE r == [q EXCEPT !.pc = "decide", !.live = TRUE, !.key = c]
    <3>1. c = q.client
      BY <1>2, <2>2
    <3>2. LocalsOK(r, DOMAIN requests', admitted', now')
      BY <1>3, <1>4, <2>2, <3>1 DEF LocalsOK
    <3> QED
      BY <1>2, <2>2, <3>2
  <2> QED
    BY <1>2, <2>1, <2>2
<1>6. \A u \in Threads :
        LocalsOK(thread'[u], DOMAIN requests', admitted', now')
  <2>1. /\ now' \in Nat /\ now <= now' /\ admitted \subseteq admitted'
        /\ DOMAIN requests \subseteq DOMAIN requests'
    BY <1>1, <1>2, <1>3
  <2> QED
    BY <1>5, <2>1, OthersStayOK
<1>7. DOMAIN thread' = Threads
  BY <1>1, <1>5
<1> QED
  BY <1>2, <1>3, <1>6, <1>7 DEF ListsInv

(* Whether the list is still in the dictionary or not, it is a list of its  *)
(* client (rate_limit.py:43, 77).                                           *)
LEMMA HeldIsAdmitted ==
    ASSUME ListsInv, NEW t \in Threads
    PROVE  Held(t) \subseteq {e \in admitted : e.client = thread[t].key}
<1>1. LocalsOK(thread[t], DOMAIN requests, admitted, now)
  BY DEF ListsInv
<1>2. CASE thread[t].live
  <2>1. thread[t].key \in DOMAIN requests /\ Held(t) = requests[thread[t].key]
    BY <1>1, <1>2 DEF Held, LocalsOK
  <2> QED
    BY <2>1 DEF ListsInv
<1>3. CASE ~thread[t].live
  BY <1>1, <1>3 DEF Held, LocalsOK
<1> QED
  BY <1>2, <1>3

(* The dictionary after a turn of the sweep over c.                         *)
LEMMA SweptDictionary ==
    ASSUME ListsInv, NEW t \in Threads, SweepStore(t)
    PROVE  LET c == thread[t].key
           IN  /\ c \in Clients
               /\ DOMAIN requests' \subseteq Clients
               /\ DOMAIN requests \ {c} \subseteq DOMAIN requests'
               /\ \A d \in DOMAIN requests' :
                    /\ d # c =>
                        requests'[d] = requests[d] /\ d \in DOMAIN requests
                    /\ requests'[d] \subseteq {e \in admitted : e.client = d}
               /\ \A e \in Recent(Held(t), thread[t].current_time) :
                    c \in DOMAIN requests' /\ e \in requests'[c]
<1> DEFINE c == thread[t].key
           fresh == Recent(Held(t), thread[t].current_time)
<1>1. c \in Clients /\ DOMAIN requests \subseteq Clients
  BY DEF ListsInv, LocalsOK, SweepStore
<1>2. fresh \subseteq {e \in admitted : e.client = c}
  BY HeldIsAdmitted DEF Recent
<1>3. requests' = IF fresh = {}
                  THEN [d \in DOMAIN requests \ {c} |-> requests[d]]
                  ELSE [WithList(c) EXCEPT ![c] = fresh]
  BY DEF SweepStore
<1>4. /\ DOMAIN WithList(c) = DOMAIN requests \cup {c}
      /\ \A d \in DOMAIN requests : WithList(c)[d] = requests[d]
  BY <1>1, WithListFacts
<1>5. \A d \in DOMAIN requests :
        requests[d] \subseteq {e \in admitted : e.client = d}
  BY DEF ListsInv
<1> HIDE DEF c, fresh
<1>6. /\ c \in Clients
      /\ DOMAIN requests' \subseteq Clients
      /\ DOMAIN requests \ {c} \subseteq DOMAIN requests'
      /\ \A d \in DOMAIN requests' :
           /\ d # c => requests'[d] = requests[d] /\ d \in DOMAIN requests
           /\ requests'[d] \subseteq {e \in admitted : e.client = d}
      /\ \A e \in fresh : c \in DOMAIN requests' /\ e \in requests'[c]
  <2>1. CASE fresh = {}
    BY <1>1, <1>3, <1>5, <2>1
  <2>2. CASE fresh # {}
    <3>1. /\ DOMAIN requests' = DOMAIN requests \cup {c}
          /\ requests'[c] = fresh
          /\ \A d \in DOMAIN requests \ {c} : requests'[d] = requests[d]
      BY <1>3, <1>4, <2>2
    <3> QED
      BY <1>1, <1>2, <1>5, <3>1
  <2> QED
    BY <2>1, <2>2
<1> QED
  BY <1>6 DEF c, fresh

(* Who held the list that the sweep replaced keeps it as it was.            *)
LEMMA SweepStoreKeepsLists ==
    ASSUME ListsInv, NEW t \in Threads, SweepStore(t)
    PROVE  ListsInv'
<1> DEFINE c == thread[t].key
<1>1. /\ c \in Clients
      /\ DOMAIN requests' \subseteq Clients
      /\ DOMAIN requests \ {c} \subseteq DOMAIN requests'
      /\ \A d \in DOMAIN requests' :
            requests'[d] \subseteq {e \in admitted : e.client = d}
  BY SweptDictionary
<1>2. /\ UNCHANGED <<now, lastCleanup, begun, admitted, overlapped>>
      /\ thread' = [Detached(c) EXCEPT ![t] =
                        [thread[t] EXCEPT !.pc = "sweep", !.live = FALSE,
                                          !.frozen = {}]]
      /\ thread[t].pc = "store"
  BY DEF SweepStore
<1>3. now \in Nat /\ admitted \subseteq Entries
  BY DEF ListsInv
<1>4. DOMAIN thread' = Threads
  BY <1>2 DEF Detached
<1> HIDE DEF c
<1>5. ASSUME NEW u \in Threads
      PROVE  LocalsOK(thread'[u], DOMAIN requests', admitted, now)
  <2> DEFINE p == thread[u]
  <2>1. LocalsOK(p, DOMAIN requests, admitted, now)
    BY DEF ListsInv
  <2>2. CASE u = t
    <3>1. thread'[u] = [p EXCEPT !.pc = "sweep", !.live = FALSE, !.frozen = {}]
      BY <1>2, <2>2 DEF Detached
    <3>2. p.pc = "store"
      BY <1>2, <2>2
    <3> HIDE DEF p
    <3>3. LocalsOK([p EXCEPT !.pc = "sweep", !.live = FALSE, !.frozen = {}],
                   DOMAIN requests', admitted, now)
      BY <2>1, <3>2 DEF LocalsOK
    <3> QED
      BY <3>1, <3>3
  <2>3. CASE u # t /\ p.live /\ p.key = c
    <3>1. thread'[u] = [p EXCEPT !.live = FALSE, !.frozen = requests[c]]
      BY <1>2, <2>3 DEF Detached
    <3>2. requests[c] \subseteq {e \in admitted : e.client = c}
      BY <2>1, <2>3 DEF ListsInv, LocalsOK
    <3>3. requests[c] \in SUBSET Entries
      BY <3>2, <1>3
    <3> QED
      BY <2>1, <2>3, <3>1, <3>2, <3>3 DEF LocalsOK
  <2>4. CASE u # t /\ ~(p.live /\ p.key = c)
    <3>1. thread'[u] = p
      BY <1>2, <2>4 DEF Detached
    <3>2. p.live => p.key \in DOMAIN requests'
      BY <1>1, <2>1, <2>4 DEF LocalsOK
    <3> HIDE DEF p
    <3> QED
      BY <2>1, <3>1, <3>2 DEF LocalsOK
  <2> QED
    BY <2>2, <2>3, <2>4
<1>6. \A u \in Threads :
        LocalsOK(thread'[u], DOMAIN requests', admitted', now')
  BY <1>2, <1>5
<1> QED
  BY <1>1, <1>2, <1>4, <1>6 DEF ListsInv

(* The dictionary and the history after a request was recorded.             *)
LEMMA AppendedDictionary ==
    ASSUME ListsInv, NEW t \in Threads, AppendEntry(t)
    PROVE  LET c == thread[t].client
               entry == [client |-> c, id |-> thread[t].id,
                         at |-> thread[t].current_time]
           IN  /\ c \in Clients
               /\ entry \in Entries
               /\ admitted' = admitted \cup {entry}
               /\ DOMAIN requests' = DOMAIN requests \cup {c}
               /\ \A d \in DOMAIN requests : requests[d] \subseteq requests'[d]
               /\ \A d \in DOMAIN requests' :
                    requests'[d] \subseteq {e \in admitted' : e.client = d}
               /\ entry \in requests'[c]
<1> DEFINE c == thread[t].client
           entry == [client |-> c, id |-> thread[t].id,
                     at |-> thread[t].current_time]
<1>1. /\ c \in Clients /\ thread[t].id \in 1 .. MaxRequests
      /\ thread[t].current_time \in 0 .. MaxNow
  BY DEF ListsInv, LocalsOK, AppendEntry
<1>2. entry \in Entries /\ entry.client = c
  BY <1>1 DEF Entries
<1>3. /\ admitted' = admitted \cup {entry}
      /\ requests' = [WithList(c) EXCEPT ![c] = @ \cup {entry}]
  BY DEF AppendEntry
<1>4. /\ DOMAIN WithList(c) = DOMAIN requests \cup {c}
      /\ \A d \in DOMAIN requests : WithList(c)[d] = requests[d]
      /\ \A d \in DOMAIN WithList(c) :
            WithList(c)[d] \subseteq {e \in admitted : e.client = d}
  BY <1>1, WithListFacts
<1> HIDE DEF c, entry
<1>5. /\ DOMAIN requests' = DOMAIN requests \cup {c}
      /\ requests'[c] = WithList(c)[c] \cup {entry}
      /\ \A d \in DOMAIN requests' \ {c} : requests'[d] = WithList(c)[d]
  BY <1>3, <1>4
<1>6. \A d \in DOMAIN requests : requests[d] \subseteq requests'[d]
  BY <1>4, <1>5
<1>7. \A d \in DOMAIN requests' :
        requests'[d] \subseteq {e \in admitted' : e.client = d}
  BY <1>2, <1>3, <1>4, <1>5
<1> QED
  BY <1>1, <1>2, <1>3, <1>5, <1>6, <1>7 DEF c, entry

(* A request is recorded in the list and in the history.                    *)
LEMMA AppendKeepsLists ==
    ASSUME ListsInv, NEW t \in Threads, AppendEntry(t)
    PROVE  ListsInv'
<1> DEFINE c == thread[t].client
           entry == [client |-> c, id |-> thread[t].id,
                     at |-> thread[t].current_time]
<1>1. /\ c \in Clients /\ entry \in Entries
      /\ admitted' = admitted \cup {entry}
      /\ DOMAIN requests' = DOMAIN requests \cup {c}
      /\ \A d \in DOMAIN requests' :
           requests'[d] \subseteq {e \in admitted' : e.client = d}
  BY AppendedDictionary
<1>2. /\ now \in Nat /\ IsFiniteSet(admitted) /\ admitted \subseteq Entries
      /\ \A e \in admitted : e.at <= now
      /\ DOMAIN requests \subseteq Clients /\ DOMAIN thread = Threads
      /\ thread[t].current_time \in 0 .. now
  BY DEF ListsInv, LocalsOK
<1>3. entry.at <= now
  BY <1>2
<1>4. /\ UNCHANGED <<now, lastCleanup, begun, overlapped>>
      /\ thread' = [thread EXCEPT ![t] = IdleThread]
  BY DEF AppendEntry
<1> HIDE DEF c, entry
<1>5. /\ IsFiniteSet(admitted') /\ admitted' \subseteq Entries
      /\ \A e \in admitted' : e.at <= now
  BY <1>1, <1>2, <1>3, FS_AddElement
<1>6. LocalsOK(IdleThread, DOMAIN requests', admitted', now')
  BY <1>2, <1>4, IdleIsOK
<1>7. \A u \in Threads :
        LocalsOK(thread'[u], DOMAIN requests', admitted', now')
  <2>1. /\ now' \in Nat /\ now <= now' /\ admitted \subseteq admitted'
        /\ DOMAIN requests \subseteq DOMAIN requests'
    BY <1>1, <1>2, <1>4
  <2> QED
    BY <1>4, <1>6, <2>1, OthersStayOK
<1>8. DOMAIN thread' = Threads /\ DOMAIN requests' \subseteq Clients
  BY <1>1, <1>2, <1>4
<1> QED
  BY <1>1, <1>4, <1>5, <1>7, <1>8 DEF ListsInv

(* Nothing is held before the first request.                                *)
LEMMA InitLists == Init => ListsInv
<1> SUFFICES ASSUME Init PROVE ListsInv
  OBVIOUS
<1>1. /\ now = 0 /\ lastCleanup = 0 /\ begun = 0 /\ admitted = {}
      /\ overlapped = FALSE /\ DOMAIN requests = {} /\ DOMAIN thread = Threads
      /\ \A t \in Threads : thread[t] = IdleThread
  BY DEF Init
<1>2. 0 \in 0 .. MaxNow /\ 0 \in 0 .. MaxRequests /\ 0 \in 0 .. 0
  OBVIOUS
<1>3. \A t \in Threads : LocalsOK(thread[t], DOMAIN requests, admitted, now)
  BY <1>1, IdleIsOK
<1>4. IsFiniteSet(admitted)
  BY <1>1, FS_EmptySet
<1> QED
  BY <1>1, <1>2, <1>3, <1>4 DEF ListsInv

(* Time passes.                                                             *)
LEMMA TickKeepsLists == ListsInv /\ Tick => ListsInv'
<1> SUFFICES ASSUME ListsInv, Tick PROVE ListsInv'
  OBVIOUS
<1>1. now \in 0 .. MaxNow /\ now' = now + 1 /\ now' \in 0 .. MaxNow
  BY DEF ListsInv, Tick
<1>2. /\ requests' = requests /\ lastCleanup' = lastCleanup
      /\ thread' = thread /\ begun' = begun /\ admitted' = admitted
      /\ overlapped' = overlapped
  BY DEF Tick
<1>3. \A u \in Threads :
        LocalsOK(thread'[u], DOMAIN requests', admitted', now')
  <2> SUFFICES ASSUME NEW u \in Threads
               PROVE  LocalsOK(thread[u], DOMAIN requests, admitted, now')
    BY <1>2
  <2>1. /\ LocalsOK(thread[u], DOMAIN requests, admitted, now)
        /\ now \in Nat /\ now' \in Nat /\ now <= now'
    BY <1>1 DEF ListsInv
  <2> QED
    BY <2>1, LocalsGrow
<1>4. lastCleanup' \in 0 .. now' /\ \A e \in admitted' : e.at <= now'
  <2>1. \A e \in admitted : e.at \in Int /\ e.at <= now
    BY DEF ListsInv, Entries
  <2> QED
    BY <1>1, <1>2, <2>1 DEF ListsInv
<1> QED
  BY <1>1, <1>2, <1>3, <1>4 DEF ListsInv

(* Every step keeps the lists right.                                        *)
LEMMA NextKeepsLists == ListsInv /\ [Next]_vars => ListsInv'
<1> SUFFICES ASSUME ListsInv, [Next]_vars PROVE ListsInv'
  OBVIOUS
<1>1. CASE UNCHANGED vars
  BY <1>1 DEF ListsInv, vars
<1>2. ASSUME NEW t \in Threads, (\E c \in Clients : Begin(t, c)) \/ Handle(t)
      PROVE  ListsInv'
  BY <1>2, QuietStepsKeepLists, FetchesKeepLists, SweepStoreKeepsLists,
     AppendKeepsLists DEF Handle
<1> QED
  BY <1>1, <1>2, TickKeepsLists DEF Next, Done

-----------------------------------------------------------------------------
(* What a thread counts was admitted to its client in the last Window.      *)
LEMMA CountedWasAdmitted ==
    ASSUME ListsInv, NEW t \in Threads, thread[t].pc = "decide"
    PROVE  LET counted == Recent(Held(t), thread[t].current_time)
               real == AdmittedIn(thread[t].client,
                                  thread[t].current_time - Window, now)
           IN  /\ counted \subseteq real
               /\ IsFiniteSet(real)
               /\ Cardinality(counted) \in Nat /\ Cardinality(real) \in Nat
               /\ Cardinality(counted) <= Cardinality(real)
<1> DEFINE counted == Recent(Held(t), thread[t].current_time)
           real == AdmittedIn(thread[t].client,
                              thread[t].current_time - Window, now)
<1>1. /\ thread[t].key = thread[t].client
      /\ \A e \in admitted : e.at \in Int /\ e.at <= now
      /\ thread[t].current_time \in Int
      /\ IsFiniteSet(admitted)
  BY DEF ListsInv, LocalsOK, Entries
<1>2. counted \subseteq real
  BY <1>1, HeldIsAdmitted DEF Recent, AdmittedIn
<1>3. IsFiniteSet(real)
  <2>1. real \subseteq admitted
    BY DEF AdmittedIn
  <2> HIDE DEF real
  <2> QED
    BY <1>1, <2>1, FS_Subset
<1> HIDE DEF counted, real
<1>4. /\ IsFiniteSet(counted) /\ Cardinality(counted) <= Cardinality(real)
  BY <1>2, <1>3, FS_Subset
<1>5. Cardinality(counted) \in Nat /\ Cardinality(real) \in Nat
  BY <1>3, <1>4, FS_CardinalityType
<1> QED
  BY <1>2, <1>3, <1>4, <1>5 DEF counted, real

(* No interleaving makes the limiter refuse a client that has not used its  *)
(* limit up.                                                                *)
LEMMA RefusalIsEarned ==
    ASSUME ListsInv, NEW t \in Threads, Refuse(t)
    PROVE  Cardinality(AdmittedIn(thread[t].client,
                                  thread[t].current_time - Window, now))
               >= Limit
<1> DEFINE counted == Cardinality(Recent(Held(t), thread[t].current_time))
           real == Cardinality(AdmittedIn(thread[t].client,
                                   thread[t].current_time - Window, now))
<1>1. thread[t].pc = "decide" /\ counted >= Limit
  BY DEF Refuse
<1>2. counted \in Nat /\ real \in Nat /\ counted <= real
  BY <1>1, CountedWasAdmitted
<1> HIDE DEF counted, real
<1>3. real >= Limit
  BY <1>1, <1>2
<1> QED
  BY <1>3 DEF real

-----------------------------------------------------------------------------
(* A thread in the middle of a request runs alone.                          *)
LEMMA AloneBefore ==
    ASSUME SerialInv, NEW t \in Threads, thread[t].pc # "idle"
    PROVE  /\ \A u \in Threads \ {t} : thread[u].pc = "idle"
           /\ AloneOK(thread[t])
           /\ WindowLimit
BY DEF SerialInv

(* What is to be shown of the thread that moved, when the others rest.      *)
LEMMA AloneAfter ==
    ASSUME NEW t \in Threads, \A u \in Threads \ {t} : thread'[u].pc = "idle",
           AloneOK(thread[t])', WindowLimit'
    PROVE  SerialInv'
<1>1. ASSUME NEW w \in Threads,
             \A u \in Threads \ {w} : thread'[u].pc = "idle"
      PROVE  AloneOK(thread[w])'
  <2>1. CASE w = t
    BY <2>1
  <2>2. CASE w # t
    <3>1. thread'[t].pc = "idle" /\ thread'[w].pc = "idle"
      BY <1>1, <2>2
    <3>2. FaithfulSince(lastCleanup', requests', admitted')
      BY <3>1 DEF AloneOK
    <3> QED
      BY <3>1, <3>2 DEF AloneOK
  <2> QED
    BY <2>1, <2>2
<1> QED
  BY <1>1 DEF SerialInv

(* Lists that only grow stay faithful.                                      *)
LEMMA FaithfulGrows ==
    ASSUME NEW time \in Int, NEW later \in Int, time <= later,
           NEW lists, NEW more, NEW hist,
           \A e \in hist : e.at \in Int,
           FaithfulSince(time, lists, hist),
           \A d \in DOMAIN lists :
                d \in DOMAIN more /\ lists[d] \subseteq more[d]
    PROVE  FaithfulSince(later, more, hist)
BY DEF FaithfulSince

(* Nothing was admitted, nobody looks at a list: time and locals may change.*)
LEMMA QuietKeepsSerial ==
    ASSUME ListsInv, SerialInv, NEW t \in Threads, ~overlapped',
           \/ \E c \in Clients : Begin(t, c)
           \/ SkipSweep(t)
           \/ StartSweep(t)
           \/ FinishSweep(t)
           \/ Stamp(t)
           \/ Refuse(t)
    PROVE  SerialInv'
<1> DEFINE q == thread[t]
<1>1. /\ UNCHANGED <<now, requests, admitted>>
      /\ \A u \in Threads \ {t} : thread'[u] = thread[u]
      /\ DOMAIN thread = Threads
  BY DEF ListsInv, Begin, SkipSweep, StartSweep, FinishSweep, Stamp, Refuse
<1>2. /\ \A u \in Threads \ {t} : thread[u].pc = "idle"
      /\ AloneOK(q)
      /\ WindowLimit
  <2>1. CASE q.pc # "idle"
    BY <2>1, AloneBefore
  <2>2. CASE q.pc = "idle"
    <3>1. \E c \in Clients : Begin(t, c)
      BY <2>2 DEF SkipSweep, StartSweep, FinishSweep, Stamp, Refuse
    <3>2. \A u \in Threads : thread[u].pc = "idle"
      BY <3>1 DEF Begin
    <3> QED
      BY <3>2 DEF SerialInv
  <2> QED
    BY <2>1, <2>2
<1>3. WindowLimit'
  BY <1>1, <1>2 DEF WindowLimit, AdmittedIn
<1>4. /\ \A e \in admitted : e.at \in Int /\ e.at <= now
      /\ lastCleanup \in Int /\ lastCleanup <= now /\ now \in Int
      /\ q.current_time \in Int
  BY DEF ListsInv, LocalsOK, Entries
<1>5. AloneOK(thread[t])'
  <2>1. CASE \E c \in Clients : Begin(t, c)
    <3>1. /\ thread'[t].pc = "check" /\ thread'[t].current_time = now
          /\ lastCleanup' = lastCleanup /\ q.pc = "idle"
      BY <1>1, <2>1 DEF Begin, IdleThread
    <3> QED
      BY <1>1, <1>2, <1>4, <3>1 DEF AloneOK
  <2>2. CASE SkipSweep(t)
    <3>1. /\ thread'[t].pc = "stamp" /\ thread'[t].current_time = q.current_time
          /\ lastCleanup' = lastCleanup /\ q.pc = "check"
      BY <1>1, <2>2 DEF SkipSweep, ListsInv, LocalsOK
    <3> QED
      BY <1>1, <1>2, <3>1 DEF AloneOK
  <2>3. CASE StartSweep(t)
    <3>1. /\ thread'[t].pc = "sweep" /\ thread'[t].current_time = q.current_time
          /\ lastCleanup' = lastCleanup /\ q.pc = "check"
          /\ q.current_time - lastCleanup >= Window
      BY <1>1, <2>3 DEF StartSweep, ListsInv, LocalsOK
    <3>2. lastCleanup <= q.current_time
      BY <1>4, <3>1
    <3>3. FaithfulSince(lastCleanup, requests, admitted)
      BY <1>2, <3>1 DEF AloneOK
    <3>4. FaithfulSince(q.current_time, requests, admitted)
      BY <1>4, <3>2, <3>3, FaithfulGrows
    <3> QED
      BY <1>1, <1>2, <3>1, <3>2, <3>4 DEF AloneOK
  <2>4. CASE FinishSweep(t)
    <3>1. /\ thread'[t].pc = "stamp" /\ thread'[t].current_time = q.current_time
          /\ lastCleanup' = q.current_time /\ q.pc = "sweep"
      BY <1>1, <2>4 DEF FinishSweep, ListsInv, LocalsOK
    <3> QED
      BY <1>1, <1>2, <3>1 DEF AloneOK
  <2>5. CASE Stamp(t)
    <3>1. /\ thread'[t].pc = "fetch" /\ thread'[t].current_time = now
          /\ lastCleanup' = lastCleanup /\ q.pc = "stamp"
      BY <1>1, <2>5 DEF Stamp, ListsInv, LocalsOK
    <3> QED
      BY <1>1, <1>2, <1>4, <3>1 DEF AloneOK
  <2>6. CASE Refuse(t)
    <3>1. /\ thread'[t].pc = "idle"
          /\ lastCleanup' = lastCleanup /\ q.pc = "decide"
      BY <1>1, <2>6 DEF Refuse, IdleThread
    <3> QED
      BY <1>1, <1>2, <3>1 DEF AloneOK
  <2> QED
    BY <2>1, <2>2, <2>3, <2>4, <2>5, <2>6
<1> QED
  BY <1>1, <1>2, <1>3, <1>5, AloneAfter

(* The list a lone thread fetches is the one in the dictionary.             *)
LEMMA FetchesKeepSerial ==
    ASSUME ListsInv, SerialInv, NEW t \in Threads,
           (\E c \in Clients : SweepFetch(t, c)) \/ Fetch(t)
    PROVE  SerialInv'
<1> DEFINE q == thread[t]
<1>1. PICK c \in Clients :
        /\ requests' = WithList(c)
        /\ UNCHANGED <<now, lastCleanup, admitted>>
        /\ \A u \in Threads \ {t} : thread'[u] = thread[u]
        /\ thread'[t].current_time = q.current_time
        /\ thread'[t].live
        /\ \/ q.pc = "sweep" /\ thread'[t].pc = "store"
           \/ q.pc = "fetch" /\ thread'[t].pc = "decide"
  <2>1. DOMAIN thread = Threads /\ LocalsOK(q, DOMAIN requests, admitted, now)
    BY DEF ListsInv
  <2>2. CASE Fetch(t)
    <3>1. q.client \in Clients
      BY <2>1, <2>2 DEF Fetch, LocalsOK
    <3> QED
      BY <2>1, <2>2, <3>1 DEF Fetch, LocalsOK
  <2>3. CASE \E c \in Clients : SweepFetch(t, c)
    <3>1. PICK c \in Clients : SweepFetch(t, c)
      BY <2>3
    <3>2. /\ requests' = WithList(c)
          /\ UNCHANGED <<now, lastCleanup, admitted>>
          /\ q.pc = "sweep"
          /\ thread' = [thread EXCEPT ![t] =
                [q EXCEPT !.pc = "store", !.todo = @ \ {c}, !.key = c,
                          !.live = TRUE]]
      BY <2>1, <3>1 DEF SweepFetch
    <3>3. /\ \A u \in Threads \ {t} : thread'[u] = thread[u]
          /\ thread'[t].current_time = q.current_time
          /\ thread'[t].live /\ thread'[t].pc = "store"
      BY <2>1, <3>2 DEF LocalsOK
    <3> QED
      BY <3>2, <3>3
  <2> QED
    BY <2>2, <2>3
<1>2. /\ \A u \in Threads \ {t} : thread[u].pc = "idle"
      /\ AloneOK(q) /\ WindowLimit
  BY <1>1, AloneBefore
<1>3. WindowLimit'
  BY <1>1, <1>2 DEF WindowLimit, AdmittedIn
<1>4. \A time \in Int : FaithfulSince(time, requests, admitted)
                           => FaithfulSince(time, requests', admitted)
  <2>1. \A d \in DOMAIN requests :
          d \in DOMAIN requests' /\ requests[d] \subseteq requests'[d]
    <3>1. requests' = WithList(c)
      BY <1>1
    <3>2. /\ DOMAIN WithList(c) = DOMAIN requests \cup {c}
          /\ \A d \in DOMAIN requests : WithList(c)[d] = requests[d]
      BY WithListFacts
    <3> QED
      BY <3>1, <3>2
  <2> QED
    BY <2>1 DEF FaithfulSince
<1>5. q.current_time \in Int /\ lastCleanup \in Int
  BY DEF ListsInv, LocalsOK
<1>6. AloneOK(thread[t])'
  BY <1>1, <1>2, <1>4, <1>5 DEF AloneOK
<1> QED
  BY <1>1, <1>2, <1>3, <1>6, AloneAfter

(* A sweep by a lone thread takes out nothing it could count.               *)
LEMMA SweepStoreKeepsSerial ==
    ASSUME ListsInv, SerialInv, NEW t \in Threads, SweepStore(t)
    PROVE  SerialInv'
<1> DEFINE q == thread[t]
           c == q.key
<1>1. /\ UNCHANGED <<now, lastCleanup, admitted>>
      /\ q.pc = "store"
  BY DEF SweepStore
<1>2. /\ \A u \in Threads \ {t} : thread[u].pc = "idle"
      /\ AloneOK(q) /\ WindowLimit
  BY <1>1, AloneBefore
<1>3. /\ thread'[t].pc = "sweep" /\ thread'[t].current_time = q.current_time
      /\ \A u \in Threads \ {t} : thread'[u] = thread[u]
  <2>1. \A u \in Threads \ {t} : ~thread[u].live
    BY <1>2 DEF ListsInv, LocalsOK
  <2>2. thread' = [Detached(c) EXCEPT ![t] =
                    [q EXCEPT !.pc = "sweep", !.live = FALSE, !.frozen = {}]]
    BY DEF SweepStore
  <2>3. LocalsOK(q, DOMAIN requests, admitted, now)
    BY DEF ListsInv
  <2> QED
    BY <2>1, <2>2, <2>3 DEF Detached, LocalsOK
<1>4. q.live /\ Held(t) = requests[c]
  BY <1>1, <1>2 DEF AloneOK, Held
<1>5. /\ DOMAIN requests \ {c} \subseteq DOMAIN requests'
      /\ \A d \in DOMAIN requests' : d # c => requests'[d] = requests[d]
      /\ \A e \in Recent(Held(t), q.current_time) :
            c \in DOMAIN requests' /\ e \in requests'[c]
  BY SweptDictionary
<1>6. FaithfulSince(q.current_time, requests', admitted)
  <2> SUFFICES ASSUME NEW e \in admitted, e.at > q.current_time - Window
               PROVE  e.client \in DOMAIN requests' /\ e \in requests'[e.client]
    BY DEF FaithfulSince
  <2>1. e.client \in DOMAIN requests /\ e \in requests[e.client]
    BY <1>1, <1>2 DEF AloneOK, FaithfulSince
  <2>2. CASE e.client = c
    <3>1. e \in Recent(Held(t), q.current_time)
      BY <1>4, <2>1, <2>2 DEF Recent
    <3> QED
      BY <1>5, <2>2, <3>1
  <2>3. CASE e.client # c
    BY <1>5, <2>1, <2>3
  <2> QED
    BY <2>2, <2>3
<1>7. AloneOK(thread[t])'
  BY <1>1, <1>2, <1>3, <1>6 DEF AloneOK
<1>8. WindowLimit'
  BY <1>1, <1>2 DEF WindowLimit, AdmittedIn
<1> QED
  BY <1>2, <1>3, <1>7, <1>8, AloneAfter

(* A lone thread that lets a request through has counted all that matters.  *)
LEMMA AcceptKeepsSerial ==
    ASSUME ListsInv, SerialInv, NEW t \in Threads, Accept(t)
    PROVE  SerialInv'
<1> DEFINE q == thread[t]
           mine == {e \in admitted : /\ e.client = q.client
                                     /\ e.at > q.current_time - Window}
           counted == Recent(Held(t), q.current_time)
<1>1. /\ UNCHANGED <<now, requests, lastCleanup, admitted>>
      /\ q.pc = "decide"
      /\ Cardinality(counted) < Limit
  BY DEF Accept
<1>2. /\ \A u \in Threads \ {t} : thread[u].pc = "idle"
      /\ AloneOK(q) /\ WindowLimit
  BY <1>1, AloneBefore
<1>3. LocalsOK(q, DOMAIN requests, admitted, now)
  BY DEF ListsInv
<1>4. /\ thread'[t].pc = "append" /\ thread'[t].current_time = q.current_time
      /\ thread'[t].client = q.client
      /\ \A u \in Threads \ {t} : thread'[u] = thread[u]
  BY <1>3 DEF Accept, ListsInv, LocalsOK
<1>5. mine \subseteq counted
  <2>1. Held(t) = requests[q.client]
    BY <1>1, <1>2, <1>3 DEF AloneOK, Held, LocalsOK
  <2>2. ASSUME NEW e \in mine PROVE e \in counted
    <3>1. FaithfulSince(lastCleanup, requests, admitted)
      BY <1>1, <1>2 DEF AloneOK
    <3>2. /\ lastCleanup <= q.current_time
          /\ lastCleanup \in Int /\ q.current_time \in Int /\ e.at \in Int
      BY <1>1, <1>2, <1>3 DEF AloneOK, LocalsOK, ListsInv, Entries
    <3>3. e.at > lastCleanup - Window
      BY <3>2
    <3>4. e \in requests[q.client]
      BY <3>1, <3>3 DEF FaithfulSince
    <3> QED
      BY <2>1, <3>4 DEF Recent
  <2> QED
    BY <2>2
<1>6. IsFiniteSet(counted)
  <2>1. counted \subseteq admitted
    BY HeldIsAdmitted DEF Recent
  <2> HIDE DEF counted
  <2> QED
    BY <2>1, FS_Subset DEF ListsInv
<1>7. Cardinality(mine) < Limit
  <2> HIDE DEF mine, counted
  <2>1. Cardinality(mine) <= Cardinality(counted) /\ IsFiniteSet(mine)
    BY <1>5, <1>6, FS_Subset
  <2>2. Cardinality(mine) \in Nat /\ Cardinality(counted) \in Nat
    BY <1>6, <2>1, FS_CardinalityType
  <2> QED
    BY <1>1, <2>1, <2>2
<1>8. AloneOK(thread[t])'
  BY <1>1, <1>2, <1>4, <1>7 DEF AloneOK
<1>9. WindowLimit'
  BY <1>1, <1>2 DEF WindowLimit, AdmittedIn
<1> QED
  BY <1>2, <1>4, <1>8, <1>9, AloneAfter

(* The request a lone thread records is within the limit of every window it *)
(* falls into.                                                              *)
LEMMA AppendKeepsSerial ==
    ASSUME ListsInv, SerialInv, NEW t \in Threads, AppendEntry(t)
    PROVE  SerialInv'
<1> DEFINE q == thread[t]
           entry == [client |-> q.client, id |-> q.id, at |-> q.current_time]
           mine == {e \in admitted : /\ e.client = q.client
                                     /\ e.at > q.current_time - Window}
<1>1. /\ UNCHANGED <<now, lastCleanup>>
      /\ q.pc = "append"
      /\ thread' = [thread EXCEPT ![t] = IdleThread]
  BY DEF AppendEntry
<1>2. /\ \A u \in Threads \ {t} : thread[u].pc = "idle"
      /\ AloneOK(q) /\ WindowLimit
  BY <1>1, AloneBefore
<1>3. /\ admitted' = admitted \cup {entry}
      /\ DOMAIN requests \subseteq DOMAIN requests'
      /\ \A d \in DOMAIN requests : requests[d] \subseteq requests'[d]
      /\ q.client \in DOMAIN requests' /\ entry \in requests'[q.client]
  <2>1. /\ admitted' = admitted \cup {entry}
        /\ DOMAIN requests' = DOMAIN requests \cup {q.client}
        /\ \A d \in DOMAIN requests : requests[d] \subseteq requests'[d]
        /\ entry \in requests'[q.client]
    BY AppendedDictionary
  <2> HIDE DEF entry
  <2> QED
    BY <2>1
<1>4. /\ entry.client = q.client /\ entry.at = q.current_time
      /\ q.current_time \in Int /\ now \in Nat /\ IsFiniteSet(admitted)
      /\ \A e \in admitted : e.at \in Int /\ e.at <= q.current_time
  BY <1>1, <1>2 DEF ListsInv, LocalsOK, AloneOK, Entries
<1> HIDE DEF entry
<1>5. FaithfulSince(lastCleanup, requests', admitted')
  <2>1. FaithfulSince(lastCleanup, requests, admitted)
    BY <1>1, <1>2 DEF AloneOK
  <2> QED
    BY <1>3, <1>4, <2>1 DEF FaithfulSince
<1>6. /\ thread'[t].pc = "idle"
      /\ \A u \in Threads \ {t} : thread'[u] = thread[u]
  BY <1>1 DEF ListsInv, IdleThread
<1>7. AloneOK(thread[t])'
  BY <1>1, <1>5, <1>6 DEF AloneOK
<1>8. Cardinality(mine) < Limit /\ IsFiniteSet(mine)
  <2>1. Cardinality(mine) < Limit
    BY <1>1, <1>2 DEF AloneOK
  <2>2. mine \subseteq admitted
    OBVIOUS
  <2> HIDE DEF mine
  <2> QED
    BY <1>4, <2>1, <2>2, FS_Subset
<1>9. WindowLimit'
  <2> SUFFICES ASSUME NEW c \in Clients, NEW m \in 0 .. now
               PROVE  Cardinality(AdmittedIn(c, m - Window, m)') <= Limit
    BY <1>1 DEF WindowLimit
  <2> DEFINE new == AdmittedIn(c, m - Window, m)'
             old == AdmittedIn(c, m - Window, m)
  <2>1. Cardinality(old) <= Limit
    BY <1>2 DEF WindowLimit
  <2>2. CASE c = q.client /\ m >= q.current_time
    <3>1. new \subseteq mine \cup {entry}
      BY <1>3, <1>4, <2>2 DEF AdmittedIn
    <3> HIDE DEF new, mine
    <3>2. /\ IsFiniteSet(mine \cup {entry})
          /\ Cardinality(mine \cup {entry}) <= Cardinality(mine) + 1
          /\ Cardinality(mine) \in Nat
      BY <1>8, FS_AddElement, FS_CardinalityType
    <3>3. /\ Cardinality(new) <= Cardinality(mine \cup {entry})
          /\ IsFiniteSet(new)
      BY <3>1, <3>2, FS_Subset
    <3>4. Cardinality(new) \in Nat /\ Cardinality(mine \cup {entry}) \in Nat
      BY <3>2, <3>3, FS_CardinalityType
    <3>5. Cardinality(new) <= Limit
      BY <1>8, <3>2, <3>3, <3>4
    <3> QED
      BY <3>5 DEF new
  <2>3. CASE ~(c = q.client /\ m >= q.current_time)
    <3>1. new = old
      BY <1>3, <1>4, <2>3 DEF AdmittedIn
    <3> QED
      BY <2>1, <3>1
  <2> QED
    BY <2>2, <2>3
<1> QED
  BY <1>2, <1>6, <1>7, <1>9, AloneAfter

(* No window ends later than the clock, and none that ends at the new time  *)
(* holds more than the one before.                                          *)
LEMMA TickKeepsSerial ==
    ASSUME ListsInv, SerialInv, Tick
    PROVE  SerialInv'
<1>1. /\ requests' = requests /\ lastCleanup' = lastCleanup
      /\ thread' = thread /\ admitted' = admitted /\ now' = now + 1
      /\ now \in Nat /\ IsFiniteSet(admitted)
      /\ \A e \in admitted : e.at \in Int /\ e.at <= now
  BY DEF ListsInv, Tick, Entries
<1>2. WindowLimit'
  <2> SUFFICES ASSUME NEW c \in Clients, NEW m \in 0 .. now + 1
               PROVE  Cardinality(AdmittedIn(c, m - Window, m)) <= Limit
    BY <1>1 DEF WindowLimit, AdmittedIn
  <2>1. CASE m <= now
    BY <1>1, <2>1 DEF SerialInv, WindowLimit
  <2>2. CASE m = now + 1
    <3> DEFINE new == AdmittedIn(c, m - Window, m)
               old == AdmittedIn(c, now - Window, now)
    <3>1. Cardinality(old) <= Limit
      BY <1>1 DEF SerialInv, WindowLimit
    <3>2. new \subseteq old /\ old \subseteq admitted
      BY <1>1, <2>2 DEF AdmittedIn
    <3> HIDE DEF new, old
    <3>3. IsFiniteSet(old) /\ IsFiniteSet(new)
      BY <1>1, <3>2, FS_Subset
    <3>4. /\ Cardinality(new) <= Cardinality(old)
          /\ Cardinality(new) \in Nat /\ Cardinality(old) \in Nat
      BY <3>2, <3>3, FS_Subset, FS_CardinalityType
    <3>5. Cardinality(new) <= Limit
      BY <3>1, <3>4
    <3> QED
      BY <3>5 DEF new
  <2> QED
    BY <1>1, <2>1, <2>2
<1> QED
  BY <1>1, <1>2 DEF SerialInv, AloneOK

(* At the start nobody runs and nothing was admitted.                       *)
LEMMA InitThreads == Init => ThreadsInv
<1> SUFFICES ASSUME Init PROVE SerialInv
  BY InitLists DEF ThreadsInv
<1>1. /\ admitted = {}
      /\ \A t \in Threads : thread[t].pc = "idle"
  BY DEF Init, IdleThread
<1>2. WindowLimit
  <2>1. \A c \in Clients, m \in 0 .. now : AdmittedIn(c, m - Window, m) = {}
    BY <1>1 DEF AdmittedIn
  <2> QED
    BY <2>1, FS_EmptySet DEF WindowLimit
<1> QED
  BY <1>1, <1>2 DEF SerialInv, AloneOK, FaithfulSince

(* Every step keeps the invariant; a second request at once gives up what   *)
(* only holds for one.                                                      *)
LEMMA NextKeepsThreads == ThreadsInv /\ [Next]_vars => ThreadsInv'
<1> SUFFICES ASSUME ThreadsInv, [Next]_vars, ~overlapped' PROVE SerialInv'
  BY NextKeepsLists DEF ThreadsInv
<1>1. overlapped' = overlapped \/ \E t \in Threads, c \in Clients : Begin(t, c)
  BY DEF Next, Handle, SkipSweep, StartSweep, SweepFetch, SweepStore,
         FinishSweep, Stamp, Fetch, Refuse, Accept, AppendEntry, Tick, Done,
         vars
<1>2. ListsInv /\ SerialInv
  <2>1. ~overlapped
    BY <1>1 DEF Begin
  <2> QED
    BY <2>1 DEF ThreadsInv
<1>3. CASE UNCHANGED vars
  BY <1>2, <1>3 DEF SerialInv, AloneOK, WindowLimit, AdmittedIn, vars
<1>4. ASSUME NEW t \in Threads, (\E c \in Clients : Begin(t, c)) \/ Handle(t)
      PROVE  SerialInv'
  BY <1>2, <1>4, QuietKeepsSerial, FetchesKeepSerial, SweepStoreKeepsSerial,
     AcceptKeepsSerial, AppendKeepsSerial DEF Handle
<1> QED
  BY <1>2, <1>3, <1>4, TickKeepsSerial DEF Next, Done

-----------------------------------------------------------------------------
(* The dictionary, the locals and the histories stay well typed, and a      *)
(* thread that holds the list in the dictionary holds one that is there,    *)
(* whatever the interleaving (rate_limit.py:35-47, 55-99).                  *)
THEOREM ThreadsTypes == Spec => []TypeOK
<1>1. ListsInv => TypeOK
  <2> SUFFICES ASSUME ListsInv PROVE TypeOK
    OBVIOUS
  <2>1. \A t \in Threads : LocalsOK(thread[t], DOMAIN requests, admitted, now)
    BY DEF ListsInv
  <2>2. \A c \in DOMAIN requests : requests[c] \subseteq Entries
    BY DEF ListsInv
  <2>3. \A t \in Threads :
          /\ thread[t].pc \in {"idle", "check", "sweep", "store", "stamp",
                               "fetch", "decide", "append"}
          /\ thread[t].current_time \in 0 .. now
          /\ thread[t].live => thread[t].key \in DOMAIN requests
          /\ thread[t].frozen \subseteq Entries
    BY <2>1 DEF LocalsOK
  <2> QED
    BY <2>2, <2>3 DEF ListsInv, TypeOK
<1> QED
  BY <1>1, InitLists, NextKeepsLists, PTL DEF Spec

(* As long as no two requests were in progress at once, no client got more  *)
(* than its limit through in any Window, across sweeps and whichever        *)
(* threads took the requests (rate_limit.py:55-99).                         *)
THEOREM OvershootNeedsOverlap == Spec => []SerialRequestsKeepLimit
<1>1. ThreadsInv => SerialRequestsKeepLimit
  BY DEF ThreadsInv, SerialInv, SerialRequestsKeepLimit
<1> QED
  BY <1>1, InitThreads, NextKeepsThreads, PTL DEF Spec

(* No interleaving of any number of threads makes the limiter refuse a      *)
(* client that has not used its limit up in the last Window                 *)
(* (rate_limit.py:77-90).                                                   *)
THEOREM RefusalsAreEarned == Spec => RefusedOnlyWhenFull
<1>1. ListsInv /\ [Next]_vars =>
        [\A t \in Threads :
            Refuse(t) =>
                Cardinality(AdmittedIn(thread[t].client,
                                       thread[t].current_time - Window, now))
                    >= Limit]_vars
  BY RefusalIsEarned
<1> QED
  BY <1>1, InitLists, NextKeepsLists, PTL DEF Spec, RefusedOnlyWhenFull
=============================================================================
