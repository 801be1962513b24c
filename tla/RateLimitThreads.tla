-------------------------- MODULE RateLimitThreads --------------------------
(***************************************************************************)
(* api/rate_limit.py under the threads that run it: the endpoints of       *)
(* api/main.py are plain functions, which FastAPI runs in a thread pool,   *)
(* and the one RateLimiter has no lock.                                    *)
(*                                                                         *)
(* A step ends where CPython can switch threads: on entering a Python      *)
(* function (the comprehensions of lines 43 and 78 are functions) and      *)
(* after a call of a C one.  What lies between two such points is one      *)
(* step.  A thread that has fetched a list keeps a reference to it: it     *)
(* sees later appends as long as the list is the one in the dictionary,    *)
(* and keeps the list as it was when another takes its place, for nothing  *)
(* appends to a list but through the dictionary.                           *)
(***************************************************************************)
EXTENDS Integers, FiniteSetsExt

CONSTANTS
    Threads,     \* the thread pool
    Clients,     \* keys of the dictionary
    Limit,       \* requests per Window, here the same for every client
    Window,      \* 60 seconds, in ticks of the clock
    MaxRequests, \* bound on the requests that begin
    MaxNow       \* bound on the clock

ASSUME ThreadsAssumption ==
    /\ Limit \in Nat \ {0}
    /\ Window \in Nat \ {0}
    /\ MaxRequests \in Nat
    /\ MaxNow \in Nat

VARIABLES
    now,         \* time.time()
    requests,    \* _requests: client -> entries, for the clients with a list
    lastCleanup, \* _last_cleanup
    thread,      \* program counter and locals of each thread
    begun,       \* requests begun so far
    admitted,    \* history: every request that was let through
    overlapped   \* history: two requests were ever in progress at once

vars == <<now, requests, lastCleanup, thread, begun, admitted, overlapped>>

Entries == [client : Clients, id : 1 .. MaxRequests, at : 0 .. MaxNow]

Recent(entries, t) == {e \in entries : e.at > t - Window}

(* The thread's locals at rest; the names of the locals are the source's,   *)
(* key is the loop variable of the sweep, then client_key.                  *)
IdleThread ==
    [pc |-> "idle", client |-> {}, id |-> 0, current_time |-> 0, todo |-> {},
     key |-> {}, live |-> FALSE, frozen |-> {}]

(* What the thread sees in the list it holds. *)
Held(t) ==
    IF thread[t].live THEN requests[thread[t].key] ELSE thread[t].frozen

(* self._requests[c]: the defaultdict makes a list where there is none. *)
WithList(c) ==
    [d \in DOMAIN requests \cup {c} |->
        IF d \in DOMAIN requests THEN requests[d] ELSE {}]

(* The list of c leaves the dictionary: who holds it keeps it as it is. *)
Detached(c) ==
    [t \in Threads |->
        IF thread[t].live /\ thread[t].key = c
        THEN [thread[t] EXCEPT !.live = FALSE, !.frozen = requests[c]]
        ELSE thread[t]]

-----------------------------------------------------------------------------
Init ==
    /\ now = 0
    /\ requests = [c \in {} |-> {}]
    /\ lastCleanup = 0
    /\ thread = [t \in Threads |-> IdleThread]
    /\ begun = 0
    /\ admitted = {}
    /\ overlapped = FALSE

(* A request arrives; _cleanup_old_entries reads the clock (36-37). *)
Begin(t, c) ==
    /\ thread[t].pc = "idle"
    /\ begun < MaxRequests
    /\ begun' = begun + 1
    /\ thread' = [thread EXCEPT ![t] =
                    [IdleThread EXCEPT !.pc = "check", !.client = c,
                                       !.id = begun + 1,
                                       !.current_time = now]]
    /\ overlapped' = (overlapped \/ \E u \in Threads : thread[u].pc # "idle")
    /\ UNCHANGED <<now, requests, lastCleanup, admitted>>

(* Too early to sweep (38-39). *)
SkipSweep(t) ==
    /\ thread[t].pc = "check"
    /\ thread[t].current_time - lastCleanup < Window
    /\ thread' = [thread EXCEPT ![t].pc = "stamp"]
    /\ UNCHANGED <<now, requests, lastCleanup, begun, admitted, overlapped>>

(* Time to sweep: the keys are copied (41-42). *)
StartSweep(t) ==
    /\ thread[t].pc = "check"
    /\ thread[t].current_time - lastCleanup >= Window
    /\ thread' = [thread EXCEPT ![t].pc = "sweep", ![t].todo = DOMAIN requests]
    /\ UNCHANGED <<now, requests, lastCleanup, begun, admitted, overlapped>>

(* The list of the next key is fetched for the comprehension (43). *)
SweepFetch(t, c) ==
    /\ thread[t].pc = "sweep"
    /\ c \in thread[t].todo
    /\ requests' = WithList(c)
    /\ thread' = [thread EXCEPT ![t].pc = "store", ![t].todo = @ \ {c},
                                ![t].key = c, ![t].live = TRUE]
    /\ UNCHANGED <<now, lastCleanup, begun, admitted, overlapped>>

(* What is left of it takes its place, or the key goes (43-45). *)
SweepStore(t) ==
    LET c == thread[t].key
        fresh == Recent(Held(t), thread[t].current_time)
    IN  /\ thread[t].pc = "store"
        /\ requests' = IF fresh = {}
                       THEN [d \in DOMAIN requests \ {c} |-> requests[d]]
                       ELSE [WithList(c) EXCEPT ![c] = fresh]
        /\ thread' = [Detached(c) EXCEPT ![t] =
                        [thread[t] EXCEPT !.pc = "sweep", !.live = FALSE,
                                          !.frozen = {}]]
        /\ UNCHANGED <<now, lastCleanup, begun, admitted, overlapped>>

(* Mutant: the sweep is dated with the time the next one is due. *)
FinishSweepDatedAhead(t) ==
    /\ thread[t].pc = "sweep"
    /\ thread[t].todo = {}
    /\ lastCleanup' = thread[t].current_time + Window
    /\ thread' = [thread EXCEPT ![t].pc = "stamp"]
    /\ UNCHANGED <<now, requests, begun, admitted, overlapped>>

(* Every key visited: the sweep is dated with the time it began (47). *)
FinishSweep(t) ==
    /\ thread[t].pc = "sweep"
    /\ thread[t].todo = {}
    /\ lastCleanup' = thread[t].current_time
    /\ thread' = [thread EXCEPT ![t].pc = "stamp"]
    /\ UNCHANGED <<now, requests, begun, admitted, overlapped>>

(* check_rate_limit reads the clock (70). *)
Stamp(t) ==
    /\ thread[t].pc = "stamp"
    /\ thread' = [thread EXCEPT ![t].pc = "fetch", ![t].current_time = now]
    /\ UNCHANGED <<now, requests, lastCleanup, begun, admitted, overlapped>>

(* The client's list is fetched (71-77). *)
Fetch(t) ==
    /\ thread[t].pc = "fetch"
    /\ requests' = WithList(thread[t].client)
    /\ thread' = [thread EXCEPT ![t].pc = "decide", ![t].live = TRUE,
                                ![t].key = thread[t].client]
    /\ UNCHANGED <<now, lastCleanup, begun, admitted, overlapped>>

(* Mutant: every entry of the list counts, however old. *)
RefuseOnOldEntries(t) ==
    /\ thread[t].pc = "decide"
    /\ Cardinality(Held(t)) >= Limit
    /\ thread' = [thread EXCEPT ![t] = IdleThread]
    /\ UNCHANGED <<now, requests, lastCleanup, begun, admitted, overlapped>>

(* At the limit (78-90): HTTP 429. *)
Refuse(t) ==
    /\ thread[t].pc = "decide"
    /\ Cardinality(Recent(Held(t), thread[t].current_time)) >= Limit
    /\ thread' = [thread EXCEPT ![t] = IdleThread]
    /\ UNCHANGED <<now, requests, lastCleanup, begun, admitted, overlapped>>

(* Mutant: one more than the limit. *)
AcceptAtLimit(t) ==
    /\ thread[t].pc = "decide"
    /\ Cardinality(Recent(Held(t), thread[t].current_time)) <= Limit
    /\ thread' = [thread EXCEPT ![t].pc = "append", ![t].live = FALSE,
                                ![t].frozen = {}]
    /\ UNCHANGED <<now, requests, lastCleanup, begun, admitted, overlapped>>

(* Below the limit (78-80). *)
Accept(t) ==
    /\ thread[t].pc = "decide"
    /\ Cardinality(Recent(Held(t), thread[t].current_time)) < Limit
    /\ thread' = [thread EXCEPT ![t].pc = "append", ![t].live = FALSE,
                                ![t].frozen = {}]
    /\ UNCHANGED <<now, requests, lastCleanup, begun, admitted, overlapped>>

(* The request is recorded in the list that is now the client's (93-99). *)
AppendEntry(t) ==
    LET c == thread[t].client
        entry == [client |-> c, id |-> thread[t].id,
                  at |-> thread[t].current_time]
    IN  /\ thread[t].pc = "append"
        /\ requests' = [WithList(c) EXCEPT ![c] = @ \cup {entry}]
        /\ admitted' = admitted \cup {entry}
        /\ thread' = [thread EXCEPT ![t] = IdleThread]
        /\ UNCHANGED <<now, lastCleanup, begun, overlapped>>

Tick ==
    /\ now < MaxNow
    /\ now' = now + 1
    /\ UNCHANGED <<requests, lastCleanup, thread, begun, admitted, overlapped>>

(* The end of the modelled period. *)
Done ==
    /\ now = MaxNow
    /\ begun = MaxRequests
    /\ \A t \in Threads : thread[t].pc = "idle"
    /\ UNCHANGED vars

Handle(t) ==
    \/ SkipSweep(t)
    \/ StartSweep(t)
    \/ \E c \in Clients : SweepFetch(t, c)
    \/ SweepStore(t)
    \/ FinishSweep(t)
    \/ Stamp(t)
    \/ Fetch(t)
    \/ Refuse(t)
    \/ Accept(t)
    \/ AppendEntry(t)

Next ==
    \/ \E t \in Threads : (\E c \in Clients : Begin(t, c)) \/ Handle(t)
    \/ Tick
    \/ Done

Spec == Init /\ [][Next]_vars

-----------------------------------------------------------------------------
AdmittedIn(c, lo, hi) ==
    {e \in admitted : e.client = c /\ lo < e.at /\ e.at <= hi}

(* Types; a thread that holds the list in the dictionary holds one that is  *)
(* there (rate_limit.py:43-45, 77), and a sweep is never dated ahead.       *)
TypeOK ==
    /\ now \in 0 .. MaxNow
    /\ lastCleanup \in 0 .. now
    /\ DOMAIN requests \subseteq Clients
    /\ \A c \in DOMAIN requests : requests[c] \subseteq Entries
    /\ admitted \subseteq Entries
    /\ begun \in 0 .. MaxRequests
    /\ overlapped \in BOOLEAN
    /\ \A t \in Threads :
        /\ thread[t].pc \in {"idle", "check", "sweep", "store", "stamp",
                             "fetch", "decide", "append"}
        /\ thread[t].current_time \in 0 .. now
        /\ thread[t].live => thread[t].key \in DOMAIN requests
        /\ thread[t].frozen \subseteq Entries

(* "Authenticated: 1000 requests per minute per API key"                    *)
(* (rate_limit.py:20-22): no client gets more than Limit through in any     *)
(* Window.  It fails with two threads: both count before either appends.    *)
WindowLimit ==
    \A c \in Clients : \A t \in 0 .. now :
        Cardinality(AdmittedIn(c, t - Window, t)) <= Limit

(* As long as no two requests were in progress at once, also across sweeps  *)
(* and whichever threads took them, the limit holds: the overshoot needs an *)
(* overlap (rate_limit.py:55-99).                                           *)
SerialRequestsKeepLimit == overlapped \/ WindowLimit

(* Whatever the threads do to each other's lists, a client is refused only  *)
(* when Limit of its requests went through in the last Window               *)
(* (rate_limit.py:77-90): the races lose entries but never invent, revive   *)
(* or misfile one.                                                          *)
RefusedOnlyWhenFull ==
    [][\A t \in Threads :
        Refuse(t) =>
            Cardinality(AdmittedIn(thread[t].client,
                                   thread[t].current_time - Window, now))
                >= Limit]_vars

-----------------------------------------------------------------------------
(* What holds of the locals of a thread when the dictionary has lists for   *)
(* keys, hist was admitted and it is time: a list that was replaced still   *)
(* holds nothing but admitted requests of its key.                          *)
LocalsOK(locals, keys, hist, time) ==
    /\ locals \in [pc : {"idle", "check", "sweep", "store", "stamp", "fetch",
                        "decide", "append"},
                  client : Clients \cup {{}}, id : 0 .. MaxRequests,
                  current_time : 0 .. time, todo : SUBSET Clients,
                  key : Clients \cup {{}}, live : BOOLEAN,
                  frozen : SUBSET Entries]
    /\ locals.pc # "idle" => locals.client \in Clients /\ locals.id # 0
    /\ locals.pc = "store" => locals.key \in Clients
    /\ locals.pc = "decide" => locals.key = locals.client
    /\ locals.pc \notin {"store", "decide"} =>
            ~locals.live /\ locals.frozen = {}
    /\ locals.live => locals.key \in keys
    /\ locals.frozen \subseteq {e \in hist : e.client = locals.key}

(* The invariant of every interleaving: lists hold admitted requests of     *)
(* their client, whoever holds them.                                        *)
ListsInv ==
    /\ now \in 0 .. MaxNow
    /\ lastCleanup \in 0 .. now
    /\ DOMAIN requests \subseteq Clients
    /\ \A c \in DOMAIN requests :
            requests[c] \subseteq {e \in admitted : e.client = c}
    /\ admitted \subseteq Entries
    /\ IsFiniteSet(admitted)
    /\ \A e \in admitted : e.at <= now
    /\ begun \in 0 .. MaxRequests
    /\ overlapped \in BOOLEAN
    /\ DOMAIN thread = Threads
    /\ \A t \in Threads :
            LocalsOK(thread[t], DOMAIN requests, admitted, now)

(* The lists have every request of the history since a Window before time.  *)
FaithfulSince(time, lists, hist) ==
    \A e \in hist :
        e.at > time - Window =>
            e.client \in DOMAIN lists /\ e \in lists[e.client]

(* What a thread that runs alone can rely on: its list is the one in the    *)
(* dictionary, and a sweep drops nothing that the thread will count.        *)
AloneOK(locals) ==
    /\ locals.pc \in {"store", "decide"} => locals.live
    /\ locals.pc \in {"sweep", "store"} =>
            FaithfulSince(locals.current_time, requests, admitted)
    /\ locals.pc \notin {"sweep", "store"} =>
            FaithfulSince(lastCleanup, requests, admitted)
    /\ locals.pc \in {"sweep", "store", "fetch", "decide", "append"} =>
            lastCleanup <= locals.current_time
    /\ locals.pc # "idle" =>
            \A e \in admitted : e.at <= locals.current_time
    /\ locals.pc = "append" =>
            Cardinality({e \in admitted :
                            /\ e.client = locals.client
                            /\ e.at > locals.current_time - Window}) < Limit

(* The invariant while requests do not overlap: one thread at a time.       *)
SerialInv ==
    /\ \A t, u \in Threads :
            thread[t].pc # "idle" /\ thread[u].pc # "idle" => t = u
    /\ \A t \in Threads :
            (\A u \in Threads \ {t} : thread[u].pc = "idle")
                => AloneOK(thread[t])
    /\ WindowLimit

(* The inductive invariant of RateLimitThreadsProofs.                       *)
ThreadsInv == ListsInv /\ (~overlapped => SerialInv)

=============================================================================
