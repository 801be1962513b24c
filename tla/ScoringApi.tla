----------------------------- MODULE ScoringApi -----------------------------
(***************************************************************************)
(* api/main.py: the endpoints of the scoring API, the threads they run in, *)
(* the one Redis client they share, and a Redis that goes down, hangs and  *)
(* comes back under them.                                                  *)
(*                                                                         *)
(* A step of a request ends at a Redis command, and between a command and  *)
(* the gauge that reports on it.  /explain takes the path of /score, but   *)
(* for the rate limiter, which is RateLimitThreads' subject.  A request    *)
(* refused by the limiter, or by /score and /explain for want of a model,  *)
(* never gets to Redis and is left out.  Prediction, explanation and the   *)
(* other metrics change nothing that requests share.                       *)
(***************************************************************************)
EXTENDS Integers

CONSTANT Threads \* the thread pool

Endpoints == {"/score", "/user", "/health"}

VARIABLES
    redis,   \* the server: "up", "down" (refuses connections), or "hung":
             \* accepts them and answers no command
    key,     \* the user's hash in Redis: "present" or "absent"
    running, \* lifespan has started the application
    client,  \* _redis_client is not None
    gauge,   \* REDIS_CONNECTED
    thread   \* the request in each thread, its answer, and what it could see

vars == <<redis, key, running, client, gauge, thread>>

server == <<redis, key>>

(* What a lookup could meet at this instant. *)
Sight ==
    {IF redis = "up" THEN key ELSE "unreachable"}
        \cup (IF client THEN {} ELSE {"no client"})

Idle == [pc |-> "idle", at |-> "/health", saw |-> {}, result |-> "none"]

Go(t, pc) == thread' = [thread EXCEPT ![t].pc = pc]

(* The request in t has its result. *)
Answer(t, result) ==
    thread' = [thread EXCEPT ![t].pc = "answered", ![t].result = result]

(* A lookup raised: _fetch_user_features falls back to no features, and     *)
(* /user answers 503.                                                       *)
LookupRaised(t) ==
    Answer(t, IF thread[t].at = "/user" THEN "503" ELSE "fallback")

-----------------------------------------------------------------------------
Init ==
    /\ redis \in {"up", "down", "hung"}
    /\ key = "absent"
    /\ running = FALSE
    /\ client = FALSE
    /\ gauge = 0
    /\ thread = [t \in Threads |-> Idle]

(* lifespan: Redis may be missing, but its ping waits while Redis hangs.    *)
Start ==
    /\ ~running
    /\ redis # "hung"
    /\ running' = TRUE
    /\ client' = (redis = "up")
    /\ gauge' = IF redis = "up" THEN 1 ELSE 0
    /\ UNCHANGED <<server, thread>>

(* A request gets a thread. *)
Begin(t, e) ==
    /\ running
    /\ thread[t].pc = "idle"
    /\ thread' = [thread EXCEPT ![t] =
                    [Idle EXCEPT !.pc = IF e = "/health" THEN "health"
                                        ELSE "ensure",
                                 !.at = e, !.saw = Sight]]
    /\ UNCHANGED <<server, running, client, gauge>>

(* Mutant: a process that started without Redis never connects. *)
EnsureWithoutConnecting(t) ==
    /\ thread[t].pc = "ensure"
    /\ Go(t, IF client THEN "ping" ELSE "refused")
    /\ UNCHANGED <<server, running, client, gauge>>

(* _ensure_redis_connected: without a client, connect first. *)
Ensure(t) ==
    /\ thread[t].pc = "ensure"
    /\ Go(t, IF client THEN "ping" ELSE "connect")
    /\ UNCHANGED <<server, running, client, gauge>>

(* _get_redis: a new client, if the server answers its ping.  Five seconds  *)
(* bound the connecting; the ping on the connection, like every command,    *)
(* waits as long as Redis hangs.                                            *)
Connect(t) ==
    /\ thread[t].pc \in {"connect", "reconnect"}
    /\ redis # "hung"
    /\ IF redis = "up"
       THEN /\ client' = TRUE
            /\ Go(t, IF thread[t].pc = "connect" THEN "connected"
                     ELSE "reconnected")
       ELSE /\ Go(t, "refused")
            /\ UNCHANGED client
    /\ UNCHANGED <<server, running, gauge>>

(* REDIS_CONNECTED.set(1); a first connection is then pinged once more. *)
MarkConnected(t) ==
    /\ thread[t].pc \in {"connected", "reconnected"}
    /\ gauge' = 1
    /\ Go(t, IF thread[t].pc = "connected" THEN "ping" ELSE "fetch")
    /\ UNCHANGED <<server, running, client>>

(* REDIS_CONNECTED.set(0), and the exception goes up. *)
MarkRefused(t) ==
    /\ thread[t].pc = "refused"
    /\ gauge' = 0
    /\ LookupRaised(t)
    /\ UNCHANGED <<server, running, client>>

(* Mutant: the ping is tried again until it works. *)
PingUntilAnswered(t) ==
    /\ thread[t].pc = "ping"
    /\ redis # "hung"
    /\ Go(t, IF redis = "up" THEN "fetch" ELSE "ping")
    /\ UNCHANGED <<server, running, client, gauge>>

(* A ping that works leaves the gauge as it is. *)
Ping(t) ==
    /\ thread[t].pc = "ping"
    /\ redis # "hung"
    /\ Go(t, IF redis = "up" THEN "fetch" ELSE "reconnect")
    /\ UNCHANGED <<server, running, client, gauge>>

(* hgetall; an empty hash is no features, and 404 to /user. *)
Fetch(t) ==
    /\ thread[t].pc = "fetch"
    /\ redis # "hung"
    /\ IF redis = "down" THEN LookupRaised(t)
       ELSE Answer(t, IF key = "present" THEN "found"
                      ELSE IF thread[t].at = "/user" THEN "404"
                      ELSE "fallback")
    /\ UNCHANGED <<server, running, client, gauge>>

(* Mutant: the probe makes a connection of its own. *)
ProbeAnyClient(t) ==
    /\ thread[t].pc = "health"
    /\ redis # "hung"
    /\ Go(t, IF redis = "up" THEN "working" ELSE "failed")
    /\ UNCHANGED <<server, running, client, gauge>>

(* /health pings the client it finds and never makes one. *)
Probe(t) ==
    /\ thread[t].pc = "health"
    /\ client => redis # "hung"
    /\ Go(t, IF client /\ redis = "up" THEN "working" ELSE "failed")
    /\ UNCHANGED <<server, running, client, gauge>>

(* Mutant: /health does not update the gauge. *)
ReportWithoutGauge(t) ==
    /\ thread[t].pc \in {"working", "failed"}
    /\ Answer(t, IF thread[t].pc = "working" THEN "connected"
                 ELSE "not connected")
    /\ UNCHANGED <<server, running, client, gauge>>

(* The gauge takes the probe's result, and so does the answer. *)
Report(t) ==
    /\ thread[t].pc \in {"working", "failed"}
    /\ gauge' = IF thread[t].pc = "working" THEN 1 ELSE 0
    /\ Answer(t, IF thread[t].pc = "working" THEN "connected"
                 ELSE "not connected")
    /\ UNCHANGED <<server, running, client>>

Return(t) ==
    /\ thread[t].pc = "answered"
    /\ thread' = [thread EXCEPT ![t] = Idle]
    /\ UNCHANGED <<server, running, client, gauge>>

(* The server changes, or the streaming job writes the key, or it expires;  *)
(* every request in progress could see the new state.                       *)
Environment ==
    /\ \/ redis' \in {"up", "down", "hung"} \ {redis} /\ UNCHANGED key
       \/ redis = "up" /\ key' \in {"present", "absent"} \ {key}
          /\ UNCHANGED redis
    /\ UNCHANGED <<running, client, gauge>>
    /\ thread' = [t \in Threads |->
                    IF thread[t].pc \in {"idle", "answered"} THEN thread[t]
                    ELSE [thread[t] EXCEPT !.saw = @ \cup Sight']]

Step(t) ==
    \/ Ensure(t)
    \/ Connect(t)
    \/ MarkConnected(t)
    \/ MarkRefused(t)
    \/ Ping(t)
    \/ Fetch(t)
    \/ Probe(t)
    \/ Report(t)
    \/ Return(t)

Next ==
    \/ Start
    \/ \E t \in Threads :
        \/ \E e \in Endpoints : Begin(t, e)
        \/ Step(t)
    \/ Environment

Spec == Init /\ [][Next]_vars

(***************************************************************************)
(* Threads run, and docker's health check comes every 15 seconds and gets  *)
(* a thread when one is idle often enough (docker-compose.yml:161-166).    *)
(* Nothing makes a client call, and nothing makes Redis behave.            *)
(***************************************************************************)
Fairness ==
    /\ WF_vars(Start)
    /\ \A t \in Threads : WF_vars(Step(t))
    /\ SF_vars(\E t \in Threads : Begin(t, "/health"))

FairSpec == Spec /\ Fairness

-----------------------------------------------------------------------------
Places == {"idle", "health", "working", "failed", "ensure", "connect",
           "reconnect", "connected", "reconnected", "refused", "ping",
           "fetch", "answered"}

Sights == {"present", "absent", "unreachable", "no client"}

Results == {"none", "found", "404", "503", "fallback", "connected",
            "not connected"}

(* Types; the gauge says connected only in a process that has a client      *)
(* (api/main.py:187-219, 300-319).                                          *)
TypeOK ==
    /\ redis \in {"up", "down", "hung"}
    /\ key \in {"present", "absent"}
    /\ running \in BOOLEAN /\ client \in BOOLEAN
    /\ gauge \in {0, 1}
    /\ gauge = 1 => client
    /\ thread \in [Threads -> [pc : Places, at : Endpoints,
                              saw : SUBSET Sights, result : Results]]
    /\ \A t \in Threads :
        thread[t].pc \in {"ping", "reconnect", "fetch", "connected",
                         "reconnected", "working"} => client

(* An answer says what was the case at some instant of its request: found   *)
(* features were there, and a fallback to no features, a 404 or a 503 is    *)
(* never given for a user whose key was readable all the time, whatever the *)
(* other threads and Redis did in between (api/main.py:187-239, 458-480).   *)
(* /health may also deny a connection because no request made one yet.      *)
AnswersAreJustified ==
    \A t \in Threads :
        LET saw == thread[t].saw
        IN  CASE thread[t].result = "found" -> "present" \in saw
              [] thread[t].result = "404" -> "absent" \in saw
              [] thread[t].result = "503" -> "unreachable" \in saw
              [] thread[t].result = "fallback" ->
                    saw \cap {"absent", "unreachable"} # {}
              [] thread[t].result = "connected" ->
                    saw \cap {"absent", "present"} # {}
              [] thread[t].result = "not connected" ->
                    saw \cap {"no client", "unreachable"} # {}
              [] OTHER -> TRUE

(* Why answers are justified: a request in progress has seen the present    *)
(* instant, and a request that knows its answer has seen the reason.        *)
SightsAreKept ==
    \A t \in Threads :
        LET saw == thread[t].saw
        IN  /\ thread[t].pc \notin {"idle", "answered"} => Sight \subseteq saw
            /\ thread[t].pc = "refused" => "unreachable" \in saw
            /\ thread[t].pc = "working" =>
                    saw \cap {"absent", "present"} # {}
            /\ thread[t].pc = "failed" =>
                    saw \cap {"no client", "unreachable"} # {}

(* Nothing runs and nothing is connected before lifespan.                   *)
QuietBeforeStart ==
    ~running => ~client /\ \A t \in Threads : thread[t].pc = "idle"

(* The inductive invariant of ScoringProofs.                                *)
LookupInv ==
    /\ TypeOK
    /\ SightsAreKept
    /\ QuietBeforeStart
    /\ AnswersAreJustified

(* "Redis connection status (1=connected, 0=not connected)"                 *)
(* (api/metrics.py:89-92): when Redis settles, the gauge settles on its     *)
(* state, once the process has a client.  Requests alone do not see to it:  *)
(* a ping that works again leaves the gauge at 0 until a health check       *)
(* corrects it.                                                             *)
GaugeConverges ==
    /\ <>[](redis = "up" /\ client) => <>[](gauge = 1)
    /\ <>[](redis = "down") => <>[](gauge = 0)

(* Every request gets its answer, unless Redis hangs for good or again and  *)
(* again: a Redis that refuses, fails between two commands or comes back    *)
(* leaves no request waiting or retrying for ever.  The exception is the    *)
(* client's, which bounds the connecting and no command, the pings of       *)
(* _get_redis, _ensure_redis_connected and /health included                 *)
(* (api/main.py:175-219, 233, 300-306).                                     *)
EveryRequestAnswered ==
    \A t \in Threads :
        thread[t].pc # "idle" ~>
            thread[t].pc = "idle" \/ []<>(redis = "hung")

=============================================================================
