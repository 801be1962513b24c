--------------------------- MODULE ScoringProofs ---------------------------
(***************************************************************************)
(* An answer of the scoring API is justified, for any number of threads,   *)
(* whatever Redis and the other requests do while one is in progress.      *)
(***************************************************************************)
EXTENDS ScoringApi, TLAPS

Requests == [pc : Places, at : Endpoints, saw : SUBSET Sights, result : Results]

(* What one request r must satisfy when it can see S, there is a client or  *)
(* not and the application runs or not: the invariant, thread by thread.    *)
RequestOK(r, S, connected, started) ==
    /\ r.pc \in {"ping", "reconnect", "fetch", "connected", "reconnected",
                "working"} => connected
    /\ r.pc \notin {"idle", "answered"} => S \subseteq r.saw
    /\ r.pc = "refused" => "unreachable" \in r.saw
    /\ r.pc = "working" => r.saw \cap {"absent", "present"} # {}
    /\ r.pc = "failed" => r.saw \cap {"no client", "unreachable"} # {}
    /\ ~started => r.pc = "idle"
    /\ r.result = "found" => "present" \in r.saw
    /\ r.result = "404" => "absent" \in r.saw
    /\ r.result = "503" => "unreachable" \in r.saw
    /\ r.result = "fallback" => r.saw \cap {"absent", "unreachable"} # {}
    /\ r.result = "connected" => r.saw \cap {"absent", "present"} # {}
    /\ r.result = "not connected" =>
            r.saw \cap {"no client", "unreachable"} # {}

(* What the requests share.                                                 *)
SharedOK ==
    /\ redis \in {"up", "down", "hung"}
    /\ key \in {"present", "absent"}
    /\ running \in BOOLEAN /\ client \in BOOLEAN
    /\ gauge \in {0, 1}
    /\ gauge = 1 => client
    /\ ~running => ~client

ByRequest ==
    /\ SharedOK
    /\ thread \in [Threads -> Requests]
    /\ \A t \in Threads : RequestOK(thread[t], Sight, client, running)

(* The case distinction of AnswersAreJustified, result by result.           *)
LEMMA JustifiedByCases ==
    ASSUME thread \in [Threads -> Requests]
    PROVE  AnswersAreJustified <=>
             \A t \in Threads :
               LET r == thread[t]
               IN /\ r.result = "found" => "present" \in r.saw
                  /\ r.result = "404" => "absent" \in r.saw
                  /\ r.result = "503" => "unreachable" \in r.saw
                  /\ r.result = "fallback" =>
                        r.saw \cap {"absent", "unreachable"} # {}
                  /\ r.result = "connected" =>
                        r.saw \cap {"absent", "present"} # {}
                  /\ r.result = "not connected" =>
                        r.saw \cap {"no client", "unreachable"} # {}
BY DEF AnswersAreJustified, Requests, Results

(* The inductive invariant speaks of one request at a time.                 *)
LEMMA InvByRequest == LookupInv <=> ByRequest
<1>1. LookupInv => thread \in [Threads -> Requests]
  BY DEF LookupInv, TypeOK, Requests
<1>2. ASSUME thread \in [Threads -> Requests]
      PROVE  LookupInv <=> ByRequest
  <2>1. /\ TypeOK
        /\ SightsAreKept
        /\ QuietBeforeStart
        <=> /\ SharedOK
            /\ \A t \in Threads :
                LET r == thread[t]
                IN /\ r.pc \in {"ping", "reconnect", "fetch", "connected",
                                "reconnected", "working"} => client
                   /\ r.pc \notin {"idle", "answered"} => Sight \subseteq r.saw
                   /\ r.pc = "refused" => "unreachable" \in r.saw
                   /\ r.pc = "working" => r.saw \cap {"absent", "present"} # {}
                   /\ r.pc = "failed" =>
                         r.saw \cap {"no client", "unreachable"} # {}
                   /\ ~running => r.pc = "idle"
    BY <1>2 DEF TypeOK, SightsAreKept, QuietBeforeStart, SharedOK, Requests
  <2> QED
    BY <2>1, <1>2, JustifiedByCases DEF LookupInv, RequestOK, ByRequest
<1> QED
  BY <1>1, <1>2 DEF ByRequest

(* The same of the next state.                                              *)
LEMMA NextInvByRequest == LookupInv' <=> ByRequest'
BY InvByRequest, PTL

(* A step that moves one request on and makes no client disappear.          *)
LEMMA OneRequestMoves ==
    ASSUME LookupInv, NEW t \in Threads, NEW r \in Requests,
           thread' = [thread EXCEPT ![t] = r],
           UNCHANGED <<server, running>>, running, client => client',
           SharedOK', RequestOK(r, Sight', client', running')
    PROVE  LookupInv'
<1>1. thread' \in [Threads -> Requests]
  BY InvByRequest DEF ByRequest
<1>2. Sight' \subseteq Sight
  BY InvByRequest DEF ByRequest, Sight, server, SharedOK
<1>3. ASSUME NEW u \in Threads
      PROVE  RequestOK(thread[u], Sight, client, running)'
  <2>1. CASE u = t
    <3>1. thread'[t] = r
      BY InvByRequest DEF ByRequest
    <3> QED
      BY <2>1, <3>1 DEF RequestOK
  <2>2. CASE u # t
    <3>1. thread'[u] = thread[u] /\ RequestOK(thread[u], Sight, client, running)
      BY <2>2, InvByRequest DEF ByRequest
    <3>2. thread[u] \in Requests
      BY InvByRequest DEF ByRequest
    <3> QED
      BY <3>1, <3>2, <1>2 DEF RequestOK
  <2> QED
    BY <2>1, <2>2
<1> QED
  BY <1>1, <1>3, NextInvByRequest DEF ByRequest

(* At the start every thread is idle and nothing is connected.              *)
LEMMA InitLookup == Init => LookupInv
<1> SUFFICES ASSUME Init PROVE LookupInv
  OBVIOUS
<1>1. Idle \in Requests
  BY DEF Idle, Requests, Places, Endpoints, Sights, Results
<1>2. \A t \in Threads : thread[t] = Idle
  BY DEF Init
<1>3. RequestOK(Idle, Sight, client, running)
  BY DEF RequestOK, Idle
<1>4. SharedOK
  <2>1. /\ redis \in {"up", "down", "hung"} /\ key \in {"present", "absent"}
        /\ gauge \in {0, 1} /\ gauge # 1
    BY DEF Init
  <2>2. running \in BOOLEAN /\ client \in BOOLEAN /\ ~client
    BY Zenon DEF Init
  <2> QED
    BY <2>1, <2>2, Zenon DEF SharedOK
<1>5. thread \in [Threads -> Requests]
  BY <1>1 DEF Init
<1>6. \A t \in Threads : RequestOK(thread[t], Sight, client, running)
  BY <1>2, <1>3, Zenon
<1> QED
  BY <1>4, <1>5, <1>6, InvByRequest DEF ByRequest

(* The application starts, with a client or without.                        *)
LEMMA StartKeepsLookup == LookupInv /\ Start => LookupInv'
<1> SUFFICES ASSUME LookupInv, Start PROVE LookupInv'
  OBVIOUS
<1>1. SharedOK'
  BY InvByRequest DEF ByRequest, Start, SharedOK, server
<1>2. ASSUME NEW t \in Threads
      PROVE  RequestOK(thread[t], Sight, client, running)'
  <2>1. /\ thread'[t] = thread[t] /\ thread[t] \in Requests
        /\ RequestOK(thread[t], Sight, client, running) /\ thread[t].pc = "idle"
    BY InvByRequest DEF ByRequest, Start, RequestOK
  <2> QED
    BY <2>1 DEF RequestOK, Start
<1>3. thread' \in [Threads -> Requests]
  BY InvByRequest DEF ByRequest, Start
<1> QED
  BY <1>1, <1>2, <1>3, NextInvByRequest DEF ByRequest

(* A request that begins sees the instant at which it does.                 *)
LEMMA BeginKeepsLookup ==
    ASSUME LookupInv, NEW t \in Threads, NEW e \in Endpoints, Begin(t, e)
    PROVE  LookupInv'
<1> DEFINE pc == IF e = "/health" THEN "health" ELSE "ensure"
           r  == [Idle EXCEPT !.pc = pc, !.at = e, !.saw = Sight]
<1>1. Sight \in SUBSET Sights
  BY InvByRequest DEF ByRequest, Sight, Sights, SharedOK
<1>2. /\ r \in Requests
      /\ r.pc \in {"health", "ensure"} /\ r.saw = Sight /\ r.result = "none"
  <2>1. Idle \in Requests /\ Idle.result = "none"
    BY DEF Idle, Requests, Places, Endpoints, Sights, Results
  <2>2. pc \in Places /\ pc \in {"health", "ensure"}
    BY DEF Places
  <2> HIDE DEF pc
  <2> QED
    BY <1>1, <2>1, <2>2 DEF Requests
<1>3. thread' = [thread EXCEPT ![t] = r]
  BY DEF Begin
<1>4. UNCHANGED <<server, running, client, gauge>> /\ running
  BY DEF Begin
<1>5. redis' = redis /\ key' = key /\ running' = running
  BY <1>4, Zenon DEF server
<1>6. Sight' = Sight
  BY <1>4, <1>5, Zenon DEF Sight
<1>7. SharedOK'
  BY <1>4, <1>5, InvByRequest DEF ByRequest, SharedOK
<1> HIDE DEF r
<1>8. RequestOK(r, Sight', client', running')
  <2>1. running'
    BY <1>4, <1>5
  <2> QED
    BY <2>1, <1>2, <1>6 DEF RequestOK
<1> QED
  BY <1>2, <1>3, <1>4, <1>7, <1>8, OneRequestMoves

(* A request that goes on to the place pc, for a reason it has seen.        *)
LEMMA GoKeepsLookup ==
    ASSUME LookupInv, NEW t \in Threads, NEW pc \in Places, Go(t, pc),
           UNCHANGED <<server, running>>, running, client => client', SharedOK',
           thread[t].pc \notin {"idle", "answered"}, pc # "idle",
           pc \in {"ping", "reconnect", "fetch", "connected", "reconnected",
                  "working"} => client',
           pc = "refused" => "unreachable" \in thread[t].saw,
           pc = "working" => thread[t].saw \cap {"absent", "present"} # {},
           pc = "failed" =>
                thread[t].saw \cap {"no client", "unreachable"} # {}
    PROVE  LookupInv'
<1> DEFINE r == [thread[t] EXCEPT !.pc = pc]
<1>1. /\ thread[t] \in Requests
      /\ RequestOK(thread[t], Sight, client, running)
      /\ SharedOK
  BY InvByRequest DEF ByRequest
<1>2. /\ r \in Requests
      /\ r.pc = pc /\ r.saw = thread[t].saw /\ r.result = thread[t].result
  BY <1>1 DEF Requests
<1>3. thread' = [thread EXCEPT ![t] = r]
  BY DEF Go
<1>4. Sight' \subseteq Sight
  BY <1>1 DEF Sight, server, SharedOK
<1> HIDE DEF r
<1>5. RequestOK(r, Sight', client', running')
  BY <1>1, <1>2, <1>4 DEF RequestOK
<1> QED
  BY <1>2, <1>3, <1>5, OneRequestMoves

(* A request that is answered with res, for a reason it has seen.           *)
LEMMA AnswerKeepsLookup ==
    ASSUME LookupInv, NEW t \in Threads, NEW res \in Results, Answer(t, res),
           UNCHANGED <<server, running>>, running, client => client', SharedOK',
           res = "found" => "present" \in thread[t].saw,
           res = "404" => "absent" \in thread[t].saw,
           res = "503" => "unreachable" \in thread[t].saw,
           res = "fallback" =>
                thread[t].saw \cap {"absent", "unreachable"} # {},
           res = "connected" => thread[t].saw \cap {"absent", "present"} # {},
           res = "not connected" =>
                thread[t].saw \cap {"no client", "unreachable"} # {}
    PROVE  LookupInv'
<1> DEFINE r == [thread[t] EXCEPT !.pc = "answered", !.result = res]
<1>1. thread[t] \in Requests /\ SharedOK
  BY InvByRequest DEF ByRequest
<1>2. /\ r \in Requests
      /\ r.pc = "answered" /\ r.saw = thread[t].saw /\ r.result = res
  BY <1>1 DEF Requests, Places
<1>3. thread' = [thread EXCEPT ![t] = r]
  BY InvByRequest DEF ByRequest, Answer
<1> HIDE DEF r
<1>4. RequestOK(r, Sight', client', running')
  BY <1>1, <1>2 DEF RequestOK
<1> QED
  BY <1>2, <1>3, <1>4, OneRequestMoves

(* Every step of a request leads from a justified state to a justified one. *)
LEMMA StepKeepsLookup ==
    ASSUME LookupInv, NEW t \in Threads, Step(t)
    PROVE  LookupInv'
<1> DEFINE q == thread[t]
<1>1. q \in Requests /\ RequestOK(q, Sight, client, running) /\ SharedOK
  BY InvByRequest DEF ByRequest
<1>2. UNCHANGED <<server, running>>
  BY DEF Step, Ensure, Connect, MarkConnected, MarkRefused, Ping, Fetch,
         Probe, Report, Return
<1>3. q.pc # "idle" /\ (client => client')
  <2>1. q.pc # "idle"
    BY DEF Step, Ensure, Connect, MarkConnected, MarkRefused, Ping, Fetch,
           Probe, Report, Return
  <2>2. client' = TRUE \/ client' = client
    BY Zenon DEF Step, Ensure, Connect, MarkConnected, MarkRefused, Ping,
                 Fetch, Probe, Report, Return
  <2>3. client => client'
    BY <2>2
  <2> QED
    BY <2>1, <2>3
<1>4. running
  BY <1>1, <1>3 DEF RequestOK, SharedOK
<1>5. SharedOK'
  <2>1. redis' = redis /\ key' = key /\ running' = running
    BY <1>2, Zenon DEF server
  <2>2. client' = TRUE \/ client' = client
    BY Zenon DEF Step, Ensure, Connect, MarkConnected, MarkRefused, Ping,
                 Fetch, Probe, Report, Return
  <2>3. \/ gauge' = gauge
        \/ gauge' = 0
        \/ /\ gauge' = 1 /\ client' = client
           /\ q.pc \in {"connected", "reconnected", "working"}
    BY DEF Step, Ensure, Connect, MarkConnected, MarkRefused, Ping, Fetch,
           Probe, Report, Return
  <2> QED
    BY <1>1, <1>3, <1>4, <2>1, <2>2, <2>3 DEF SharedOK, RequestOK
<1>6. q.pc \notin {"idle", "answered"} => Sight \subseteq q.saw
  BY <1>1 DEF RequestOK
<1> USE DEF Places
<1>7. CASE Ensure(t)
  BY <1>1, <1>2, <1>3, <1>4, <1>5, <1>7, GoKeepsLookup DEF Ensure
<1>8. CASE Connect(t)
  <2>1. CASE redis = "up"
    BY <1>1, <1>2, <1>3, <1>4, <1>5, <1>8, <2>1, GoKeepsLookup DEF Connect
  <2>2. CASE redis # "up"
    <3>1. "unreachable" \in q.saw
      BY <1>6, <1>8, <2>2 DEF Connect, Sight
    <3> QED
      BY <1>1, <1>2, <1>3, <1>4, <1>5, <1>8, <2>2, <3>1, GoKeepsLookup
         DEF Connect
  <2> QED
    BY <2>1, <2>2
<1>9. CASE MarkConnected(t)
  BY <1>1, <1>2, <1>3, <1>4, <1>5, <1>9, GoKeepsLookup
     DEF MarkConnected, RequestOK
<1>10. CASE MarkRefused(t)
  <2>1. "unreachable" \in q.saw
    BY <1>1, <1>10 DEF MarkRefused, RequestOK
  <2> QED
    BY <1>1, <1>2, <1>3, <1>4, <1>5, <1>10, <2>1, AnswerKeepsLookup
       DEF MarkRefused, LookupRaised, Results
<1>11. CASE Ping(t)
  BY <1>1, <1>2, <1>3, <1>4, <1>5, <1>11, GoKeepsLookup DEF Ping, RequestOK
<1>12. CASE Fetch(t)
  <2>1. CASE redis = "down"
    <3>1. "unreachable" \in q.saw
      BY <1>6, <1>12, <2>1 DEF Fetch, Sight
    <3> QED
      BY <1>1, <1>2, <1>3, <1>4, <1>5, <1>12, <2>1, <3>1, AnswerKeepsLookup
         DEF Fetch, LookupRaised, Results
  <2>2. CASE redis = "up"
    <3>1. key \in q.saw
      BY <1>6, <1>12, <2>2 DEF Fetch, Sight
    <3> QED
      BY <1>1, <1>2, <1>3, <1>4, <1>5, <1>12, <2>2, <3>1, AnswerKeepsLookup
         DEF Fetch, Results, SharedOK
  <2> QED
    BY <2>1, <2>2, <1>1, <1>12 DEF Fetch, SharedOK
<1>13. CASE Probe(t)
  <2>1. CASE client /\ redis = "up"
    <3>1. q.saw \cap {"absent", "present"} # {}
      BY <1>1, <1>6, <1>13, <2>1 DEF Probe, Sight, SharedOK
    <3> QED
      BY <1>1, <1>2, <1>3, <1>4, <1>5, <1>13, <2>1, <3>1, GoKeepsLookup
         DEF Probe
  <2>2. CASE ~(client /\ redis = "up")
    <3>1. q.saw \cap {"no client", "unreachable"} # {}
      BY <1>1, <1>6, <1>13, <2>2 DEF Probe, Sight, SharedOK
    <3> QED
      BY <1>1, <1>2, <1>3, <1>4, <1>5, <1>13, <2>2, <3>1, GoKeepsLookup
         DEF Probe
  <2> QED
    BY <2>1, <2>2
<1>14. CASE Report(t)
  BY <1>1, <1>2, <1>3, <1>4, <1>5, <1>14, AnswerKeepsLookup
     DEF Report, RequestOK, Results
<1>15. CASE Return(t)
  <2>1. /\ Idle \in Requests
        /\ Idle.pc = "idle" /\ Idle.result = "none"
    BY DEF Idle, Requests, Endpoints, Sights, Results
  <2>2. RequestOK(Idle, Sight', client', running')
    BY <2>1 DEF RequestOK
  <2> QED
    BY <1>2, <1>3, <1>4, <1>5, <1>15, <2>1, <2>2, OneRequestMoves DEF Return
<1> QED
  BY <1>7, <1>8, <1>9, <1>10, <1>11, <1>12, <1>13, <1>14, <1>15 DEF Step

(* When Redis changes, every request in progress sees it.                   *)
LEMMA EnvironmentKeepsLookup ==
    ASSUME LookupInv, Environment
    PROVE  LookupInv'
<1>1. SharedOK' /\ UNCHANGED <<running, client, gauge>>
  BY InvByRequest DEF ByRequest, Environment, SharedOK
<1>2. Sight' \in SUBSET Sights
  BY <1>1 DEF Sight, Sights, SharedOK
<1>3. ASSUME NEW t \in Threads
      PROVE  /\ thread'[t] \in Requests
             /\ RequestOK(thread[t], Sight, client, running)'
  <2>1. thread[t] \in Requests /\ RequestOK(thread[t], Sight, client, running)
    BY InvByRequest DEF ByRequest
  <2>2. CASE thread[t].pc \in {"idle", "answered"}
    <3>1. thread'[t] = thread[t]
      BY <2>2 DEF Environment
    <3> QED
      BY <1>1, <2>1, <2>2, <3>1 DEF RequestOK
  <2>3. CASE thread[t].pc \notin {"idle", "answered"}
    <3>1. /\ thread'[t] \in Requests
          /\ thread'[t].pc = thread[t].pc
          /\ thread'[t].result = thread[t].result
          /\ thread'[t].saw = thread[t].saw \cup Sight'
      <4>1. thread'[t] = [thread[t] EXCEPT !.saw = @ \cup Sight']
        BY <2>3 DEF Environment
      <4> QED
        BY <4>1, <2>1, <1>2 DEF Requests
    <3> QED
      BY <1>1, <2>1, <2>3, <3>1 DEF RequestOK
  <2> QED
    BY <2>2, <2>3
<1>4. thread' \in [Threads -> Requests]
  BY <1>3 DEF Environment
<1> QED
  BY <1>1, <1>3, <1>4, NextInvByRequest DEF ByRequest

(* Steps that change nothing keep the invariant.                            *)
LEMMA StutterKeepsLookup == LookupInv /\ UNCHANGED vars => LookupInv'
<1> SUFFICES ASSUME LookupInv, UNCHANGED vars PROVE LookupInv'
  OBVIOUS
<1>1. /\ redis' = redis /\ key' = key /\ running' = running
      /\ client' = client /\ gauge' = gauge /\ thread' = thread
  BY DEF vars, server
<1> QED
  BY <1>1, InvByRequest, NextInvByRequest, Zenon
     DEF ByRequest, SharedOK, Sight

(* Every step of the system keeps the invariant.                            *)
LEMMA NextKeepsLookup == LookupInv /\ [Next]_vars => LookupInv'
BY StartKeepsLookup, BeginKeepsLookup, StepKeepsLookup,
   EnvironmentKeepsLookup, StutterKeepsLookup DEF Next

(* The state stays well typed, and the gauge never says connected in a      *)
(* process without a client, for any number of threads.                     *)
THEOREM ScoringTypes == Spec => []TypeOK
<1>1. LookupInv => TypeOK
  BY DEF LookupInv
<1> QED
  BY InitLookup, NextKeepsLookup, <1>1, PTL DEF Spec

(* A fallback, a 404, a 503 and the health report were each true at some    *)
(* instant of their request, whatever Redis and the other threads did       *)
(* (_ensure_redis_connected and its callers, api/main.py).                  *)
THEOREM EveryAnswerIsJustified == Spec => []AnswersAreJustified
<1>1. LookupInv => AnswersAreJustified
  BY DEF LookupInv
<1> QED
  BY InitLookup, NextKeepsLookup, <1>1, PTL DEF Spec
=============================================================================
