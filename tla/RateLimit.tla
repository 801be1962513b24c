----------------------------- MODULE RateLimit ------------------------------
(***************************************************************************)
(* api/rate_limit.py, one request at a time: RateLimiter.check_rate_limit  *)
(* runs to its end before the next call starts.  RateLimitThreads has the  *)
(* same code under the threads that really run it.                         *)
(*                                                                         *)
(* A client is the key of the limiter's dictionary: an API key or an IP.   *)
(* An entry of a client's list is a record with the time of the request    *)
(* and a serial number, so that requests of one instant stay apart.        *)
(***************************************************************************)
EXTENDS Integers, FiniteSetsExt

CONSTANTS
    ApiKeys,     \* clients known by their API key
    Ips,         \* clients known by their address
    NoClient,    \* in place of a client before the first call
    AuthLimit,   \* authenticated_requests_per_minute
    IpLimit,     \* requests_per_minute
    TicksPerSecond, \* resolution of the clock
    Window,      \* 60 seconds, in ticks
    MaxRequests, \* bound on the requests admitted
    MaxNow       \* bound on the clock

ASSUME RateLimitAssumption ==
    /\ ApiKeys \cap Ips = {}
    /\ NoClient \notin ApiKeys \cup Ips
    /\ AuthLimit \in Nat \ {0}
    /\ IpLimit \in Nat \ {0}
    /\ TicksPerSecond \in Nat \ {0}
    /\ Window \in Nat \ {0}
    /\ MaxRequests \in Nat
    /\ MaxNow \in Nat

Clients == ApiKeys \cup Ips

Limit(c) == IF c \in ApiKeys THEN AuthLimit ELSE IpLimit

VARIABLES
    now,         \* time.time()
    requests,    \* _requests: client -> entries, for the clients that have any
    lastCleanup, \* _last_cleanup
    admitted,    \* history: every request that was let through
    reply        \* what the last call returned

vars == <<now, requests, lastCleanup, admitted, reply>>

(* Mutant: an entry exactly Window old still counts. *)
RecentInclusive(entries, t) == {e \in entries : e.at >= t - Window}

(* The entries less than a minute old. *)
Recent(entries, t) == {e \in entries : e.at > t - Window}

(* The list of c; the dictionary is a defaultdict. *)
ListOf(reqs, c) == IF c \in DOMAIN reqs THEN reqs[c] ELSE {}

(* Mutant: the comparison is the wrong way round, and no sweep ever starts. *)
CleanupNeverDue == now - lastCleanup < 0

(***************************************************************************)
(* _cleanup_old_entries: at most once per Window, drop what is older than  *)
(* Window from every list and every list that is left empty.               *)
(***************************************************************************)
CleanupDue == now - lastCleanup >= Window

(* Mutants: a sweep with a cutoff too near, and one that keeps empty lists. *)
SweptTooEarly ==
    IF CleanupDue
    THEN [c \in DOMAIN requests |->
            {e \in requests[c] : e.at > now - Window \div 2}]
    ELSE requests

SweptKeepingEmptyLists ==
    IF CleanupDue
    THEN [c \in DOMAIN requests |-> Recent(requests[c], now)]
    ELSE requests

(* The lists as the rest of the call finds them. *)
Swept ==
    IF CleanupDue
    THEN [c \in {d \in DOMAIN requests : Recent(requests[d], now) # {}} |->
            Recent(requests[c], now)]
    ELSE requests

-----------------------------------------------------------------------------
Init ==
    /\ now = 0
    /\ requests = [c \in {} |-> {}]
    /\ lastCleanup = 0
    /\ admitted = {}
    /\ reply = [client |-> NoClient, allowed |-> TRUE, remaining |-> 0,
                retryAfter |-> 0]

(* check_rate_limit below the limit: the request is recorded and admitted. *)
Admit(c) ==
    LET recent == Recent(ListOf(Swept, c), now)
        entry == [client |-> c, id |-> Cardinality(admitted), at |-> now]
    IN  /\ Cardinality(admitted) < MaxRequests
        /\ Cardinality(recent) < Limit(c)
        /\ requests' = [d \in DOMAIN Swept \cup {c} |->
                          IF d = c THEN ListOf(Swept, c) \cup {entry}
                          ELSE Swept[d]]
        /\ admitted' = admitted \cup {entry}
        /\ reply' = [client |-> c, allowed |-> TRUE,
                     remaining |-> Limit(c) - Cardinality(recent) - 1,
                     retryAfter |-> 0]
        /\ lastCleanup' = IF CleanupDue THEN now ELSE lastCleanup
        /\ UNCHANGED now

(* Mutant: Retry-After is the age of the oldest entry. *)
RejectWithAge(c) ==
    LET recent == Recent(ListOf(Swept, c), now)
    IN  /\ Cardinality(recent) >= Limit(c)
        /\ reply' = [client |-> c, allowed |-> FALSE, remaining |-> 0,
                     retryAfter |->
                        (now - Min({e.at : e \in recent})) \div TicksPerSecond]
        /\ requests' = Swept
        /\ lastCleanup' = IF CleanupDue THEN now ELSE lastCleanup
        /\ UNCHANGED <<now, admitted>>

(* check_rate_limit at the limit: HTTP 429, nothing is recorded. *)
Reject(c) ==
    LET recent == Recent(ListOf(Swept, c), now)
    IN  /\ Cardinality(recent) >= Limit(c)
        /\ reply' = [client |-> c, allowed |-> FALSE, remaining |-> 0,
                     retryAfter |->
                        (Window - (now - Min({e.at : e \in recent})))
                            \div TicksPerSecond]
        /\ requests' = Swept
        /\ lastCleanup' = IF CleanupDue THEN now ELSE lastCleanup
        /\ UNCHANGED <<now, admitted>>

Tick ==
    /\ now < MaxNow
    /\ now' = now + 1
    /\ UNCHANGED <<requests, lastCleanup, admitted, reply>>

(* The end of the modelled period. *)
Done ==
    /\ now = MaxNow
    /\ UNCHANGED vars

Next ==
    \/ \E c \in Clients : Admit(c) \/ Reject(c)
    \/ Tick
    \/ Done

Spec == Init /\ [][Next]_vars

-----------------------------------------------------------------------------
AdmittedIn(c, lo, hi) ==
    {e \in admitted : e.client = c /\ lo < e.at /\ e.at <= hi}

(* Types; every list is non-empty (line 44-45) and holds entries of its     *)
(* client.                                                                  *)
TypeOK ==
    /\ now \in 0 .. MaxNow
    /\ lastCleanup \in 0 .. now
    /\ DOMAIN requests \subseteq Clients
    /\ \A c \in DOMAIN requests :
        /\ requests[c] # {}
        /\ requests[c] \subseteq {e \in admitted : e.client = c}
    /\ IsFiniteSet(admitted)
    /\ \A e \in admitted :
        /\ e.client \in Clients
        /\ e.id \in 0 .. Cardinality(admitted) - 1
        /\ e.at \in 0 .. now

(* No client gets more than its limit through in any interval of Window     *)
(* ticks, wherever it starts (rate_limit.py:20-22), although entries are    *)
(* swept: the limit is not one per calendar minute.                         *)
WindowLimit ==
    \A c \in Clients : \A t \in 0 .. now :
        Cardinality(AdmittedIn(c, t - Window, t)) <= Limit(c)

(* A client is refused only when its limit was really used up in the last   *)
(* Window, and the budget the headers announce is the budget left           *)
(* (rate_limit.py:80-98): no entry is lost or counted twice by the sweep.   *)
(* Stated of the step that answers, on the history of admissions.           *)
HonestAnswer ==
    \A c \in Clients :
        LET used == Cardinality(AdmittedIn(c, now - Window, now))
        IN  /\ Reject(c) => used >= Limit(c)
            /\ Admit(c) => reply'.remaining = Limit(c) - used - 1

HonestAnswers == [][HonestAnswer]_vars

(* When a client refused last is back, a second later than it was told. *)
RetryAt == now + (reply.retryAfter + 1) * TicksPerSecond

(* A refused client that waits for Retry-After, which is truncated to whole *)
(* seconds, and one second more finds room: the oldest of the requests it   *)
(* was refused for has left the window (rate_limit.py:82-83).  Without the  *)
(* extra second it can be refused again.                                    *)
RetryAfterSuffices ==
    (reply.client \in Clients /\ ~reply.allowed)
        => Cardinality(AdmittedIn(reply.client, RetryAt - Window, now))
               < Limit(reply.client)

(* The dictionary does not grow with the history: when a call answers, the  *)
(* last sweep is less than a Window ago and no list, of any client, keeps   *)
(* an entry two Windows old, although only calls sweep, a sweep is skipped  *)
(* for a Window after another, and clients stop calling                     *)
(* (rate_limit.py:32-47).                                                   *)
AnswerLeavesStoreSwept ==
    \A c \in Clients :
        (Admit(c) \/ Reject(c))
            => /\ now - lastCleanup' < Window
               /\ \A d \in DOMAIN requests' : \A e \in requests'[d] :
                    e.at > now - 2 * Window

StoreIsSwept == [][AnswerLeavesStoreSwept]_vars

Promise == INSTANCE SlidingWindowLimiter
             WITH clock <- now, granted <- admitted, answer <- reply

(* Lists, defaultdict and sweep cannot be told from the outside: every      *)
(* answer, with its budget and its Retry-After, is one the limiter that     *)
(* remembers everything could give (rate_limit.py:20-22, 55-99).            *)
ImplementsSlidingWindow == Promise!Spec

-----------------------------------------------------------------------------
(* The lists and the history agree on the last Window: what the sweep and   *)
(* the defaultdict do to the lists never touches an entry that counts.      *)
ListsAreFaithful ==
    \A e \in admitted :
        e.at > now - Window =>
            e.client \in DOMAIN requests /\ e \in requests[e.client]

(* No entry is left that the last sweep should have taken.                  *)
SweepInv ==
    \A c \in DOMAIN requests : \A e \in requests[c] : e.at > lastCleanup - Window

(* The inductive invariants of RateLimitProofs. *)
LimitInv == TypeOK /\ ListsAreFaithful /\ WindowLimit

RetryInv == reply.retryAfter \in Int /\ RetryAfterSuffices

=============================================================================
