------------------------ MODULE SlidingWindowLimiter ------------------------
(***************************************************************************)
(* What api/rate_limit.py promises (lines 20-22, 55-66) and nothing of how *)
(* it is kept: a client may have Limit requests let through in any Window, *)
(* and every answer is computed from the whole history.  There are no      *)
(* lists, no sweep and no time of the last one.                            *)
(***************************************************************************)
EXTENDS Integers, FiniteSetsExt

CONSTANTS
    ApiKeys, Ips,       \* the clients
    NoClient,           \* in place of a client before the first answer
    AuthLimit, IpLimit, \* what they may have in a Window
    TicksPerSecond, Window

VARIABLES
    clock,   \* the time
    granted, \* requests let through: client, serial number, time
    answer   \* the last answer given

vars == <<clock, granted, answer>>

Allowance(c) == IF c \in ApiKeys THEN AuthLimit ELSE IpLimit

Used(c) == {e \in granted : e.client = c /\ e.at > clock - Window}

Init ==
    /\ clock = 0
    /\ granted = {}
    /\ answer = [client |-> NoClient, allowed |-> TRUE, remaining |-> 0,
                 retryAfter |-> 0]

Grant(c) ==
    /\ Cardinality(Used(c)) < Allowance(c)
    /\ granted' = granted \cup
         {[client |-> c, id |-> Cardinality(granted), at |-> clock]}
    /\ answer' = [client |-> c, allowed |-> TRUE,
                  remaining |-> Allowance(c) - Cardinality(Used(c)) - 1,
                  retryAfter |-> 0]
    /\ UNCHANGED clock

(* Room comes when the oldest of the requests in the way has aged. *)
Refuse(c) ==
    /\ Cardinality(Used(c)) >= Allowance(c)
    /\ answer' = [client |-> c, allowed |-> FALSE, remaining |-> 0,
                  retryAfter |->
                    (Window - (clock - Min({e.at : e \in Used(c)})))
                        \div TicksPerSecond]
    /\ UNCHANGED <<clock, granted>>

Pass ==
    /\ clock' = clock + 1
    /\ UNCHANGED <<granted, answer>>

Next ==
    \/ \E c \in ApiKeys \cup Ips : Grant(c) \/ Refuse(c)
    \/ Pass

Spec == Init /\ [][Next]_vars

=============================================================================
