-------------------------- MODULE RateLimitProofs ---------------------------
(***************************************************************************)
(* The rate limiter keeps its promise, one request at a time, for every    *)
(* limit, window and number of clients.                                    *)
(***************************************************************************)
EXTENDS RateLimit, FiniteSetTheorems, WellFoundedInduction, TLAPS

USE RateLimitAssumption

(* The oldest of a client's requests exists: min(timestamps) is defined.   *)
LEMMA MinOfNaturals ==
    ASSUME NEW S \in SUBSET Nat, S # {}
    PROVE  Min(S) \in S
<1> DEFINE R == OpToRel(<, Nat)
<1>1. \A y, x : (y \in Nat /\ x \in Nat /\ <<y, x>> \notin R) => ~(y < x)
  BY DEF OpToRel
<1>2. IsWellFoundedOn(R, Nat)
  BY NatLessThanWellFounded
<1> HIDE DEF R
<1>3. PICK x \in S : \A y \in S : <<y, x>> \notin R
  BY <1>2, WFMin
<1>4. \A y \in S : ~(y < x)
  BY <1>1, <1>3
<1>5. \A y \in S : x =< y
  BY <1>4
<1> QED
  BY <1>5 DEF Min

(* Limits are positive.                                                    *)
LEMMA LimitType == \A c \in Clients : Limit(c) \in Nat \ {0}
BY DEF Limit, Clients

(* Swept lists and an unswept history count the same requests: the list a  *)
(* client is judged by holds exactly the requests of its last Window.      *)
LEMMA RecentIsAdmitted ==
    ASSUME TypeOK, ListsAreFaithful, NEW c \in Clients
    PROVE  Recent(ListOf(Swept, c), now) = AdmittedIn(c, now - Window, now)
<1>1. ASSUME NEW e \in Recent(ListOf(Swept, c), now)
      PROVE  e \in AdmittedIn(c, now - Window, now)
  <2>1. c \in DOMAIN requests /\ e \in requests[c] /\ e.at > now - Window
    BY <1>1 DEF Recent, ListOf, Swept
  <2>2. e \in admitted /\ e.client = c
    BY <2>1 DEF TypeOK, ListsAreFaithful
  <2> QED
    BY <2>1, <2>2 DEF AdmittedIn, TypeOK
<1>2. ASSUME NEW e \in AdmittedIn(c, now - Window, now)
      PROVE  e \in Recent(ListOf(Swept, c), now)
  <2>1. e \in admitted /\ e.client = c /\ e.at > now - Window
    BY DEF AdmittedIn, TypeOK
  <2>2. c \in DOMAIN requests /\ e \in requests[c]
    BY <2>1 DEF ListsAreFaithful
  <2>3. e \in Recent(requests[c], now)
    BY <2>1, <2>2 DEF Recent
  <2>4. CASE CleanupDue
    <3>1. c \in DOMAIN Swept /\ Swept[c] = Recent(requests[c], now)
      BY <2>2, <2>3, <2>4 DEF Swept
    <3> QED
      BY <2>1, <2>3, <3>1 DEF ListOf, Recent
  <2>5. CASE ~CleanupDue
    BY <2>2, <2>3, <2>5 DEF ListOf, Swept
  <2> QED
    BY <2>4, <2>5
<1> QED
  BY <1>1, <1>2

(* The sweep takes nothing that counts and adds nothing.                   *)
LEMMA SweptFacts ==
    ASSUME TypeOK, ListsAreFaithful
    PROVE  /\ DOMAIN Swept \subseteq DOMAIN requests
           /\ \A c \in DOMAIN Swept :
                Swept[c] \subseteq requests[c] /\ Swept[c] # {}
           /\ \A e \in admitted : e.at > now - Window =>
                e.client \in DOMAIN Swept /\ e \in Swept[e.client]
<1>1. CASE CleanupDue
  <2>1. /\ DOMAIN Swept = {d \in DOMAIN requests : Recent(requests[d], now) # {}}
        /\ \A c \in DOMAIN Swept : Swept[c] = Recent(requests[c], now)
    BY <1>1 DEF Swept
  <2>2. \A c \in DOMAIN Swept :
            Swept[c] \subseteq requests[c] /\ Swept[c] # {}
    BY <2>1 DEF Recent
  <2>3. ASSUME NEW e \in admitted, e.at > now - Window
        PROVE  e.client \in DOMAIN Swept /\ e \in Swept[e.client]
    <3>1. e.client \in DOMAIN requests /\ e \in Recent(requests[e.client], now)
      BY <2>3 DEF ListsAreFaithful, Recent
    <3> QED
      BY <2>1, <3>1
  <2> QED
    BY <2>1, <2>2, <2>3
<1>2. CASE ~CleanupDue
  BY <1>2 DEF Swept, ListsAreFaithful, TypeOK
<1> QED
  BY <1>1, <1>2

(* The history is finite, and so is each part of it.                       *)
LEMMA AdmittedFinite ==
    ASSUME TypeOK, NEW c, NEW lo, NEW hi
    PROVE  /\ IsFiniteSet(AdmittedIn(c, lo, hi))
           /\ Cardinality(AdmittedIn(c, lo, hi)) \in Nat
<1>1. AdmittedIn(c, lo, hi) \in SUBSET admitted
  BY DEF AdmittedIn
<1> QED
  BY <1>1, FS_Subset, FS_CardinalityType DEF TypeOK

-----------------------------------------------------------------------------
LEMMA InitLimit == Init => LimitInv
<1> SUFFICES ASSUME Init PROVE LimitInv
  OBVIOUS
<1>1. admitted = {} /\ DOMAIN requests = {} /\ now = 0 /\ lastCleanup = 0
  BY DEF Init
<1>2. TypeOK
  BY <1>1, FS_EmptySet DEF TypeOK
<1>3. ListsAreFaithful
  BY <1>1 DEF ListsAreFaithful
<1>4. WindowLimit
  <2>1. \A c \in Clients, t \in 0 .. now : AdmittedIn(c, t - Window, t) = {}
    BY <1>1 DEF AdmittedIn
  <2> QED
    BY <2>1, LimitType, FS_EmptySet DEF WindowLimit
<1> QED
  BY <1>2, <1>3, <1>4 DEF LimitInv

(* An admission adds one entry, to the list and to the history.            *)
LEMMA AdmitKeeps ==
    ASSUME LimitInv, NEW c \in Clients, Admit(c)
    PROVE  LimitInv'
<1> DEFINE e == [client |-> c, id |-> Cardinality(admitted), at |-> now]
           recent == Recent(ListOf(Swept, c), now)
<1>1. /\ now' = now /\ now \in Nat /\ now \in 0 .. MaxNow
      /\ lastCleanup' = IF CleanupDue THEN now ELSE lastCleanup
      /\ lastCleanup \in 0 .. now
      /\ admitted' = admitted \cup {e}
      /\ requests' = [d \in DOMAIN Swept \cup {c} |->
                        IF d = c THEN ListOf(Swept, c) \cup {e} ELSE Swept[d]]
      /\ Cardinality(recent) < Limit(c)
  BY DEF Admit, LimitInv, TypeOK
<1>2. recent = AdmittedIn(c, now - Window, now)
  BY RecentIsAdmitted DEF LimitInv
<1>3. /\ IsFiniteSet(admitted) /\ Cardinality(admitted) \in Nat
      /\ e \notin admitted
  <2>1. IsFiniteSet(admitted) /\ Cardinality(admitted) \in Nat
    BY FS_CardinalityType DEF LimitInv, TypeOK
  <2>2. \A f \in admitted : f.id \in 0 .. Cardinality(admitted) - 1
    BY DEF LimitInv, TypeOK
  <2>3. e.id = Cardinality(admitted)
    OBVIOUS
  <2> QED
    BY <2>1, <2>2, <2>3
<1>4. IsFiniteSet(admitted') /\ Cardinality(admitted') = Cardinality(admitted) + 1
  BY <1>1, <1>3, FS_AddElement
<1>5. e.client = c /\ e.id = Cardinality(admitted) /\ e.at = now
  OBVIOUS
<1> HIDE DEF e, recent
<1>6. /\ DOMAIN Swept \subseteq DOMAIN requests
      /\ \A d \in DOMAIN Swept :
           Swept[d] \subseteq requests[d] /\ Swept[d] # {}
      /\ \A f \in admitted : f.at > now - Window =>
           f.client \in DOMAIN Swept /\ f \in Swept[f.client]
  BY SweptFacts DEF LimitInv
<1>7. /\ DOMAIN requests' = DOMAIN Swept \cup {c}
      /\ requests'[c] = ListOf(Swept, c) \cup {e}
      /\ \A d \in DOMAIN Swept : d # c => requests'[d] = Swept[d]
  BY <1>1
<1>8. TypeOK'
  <2>1. DOMAIN requests' \subseteq Clients
    BY <1>6, <1>7 DEF LimitInv, TypeOK
  <2>2. ASSUME NEW d \in DOMAIN requests'
        PROVE  /\ requests'[d] # {}
               /\ requests'[d] \subseteq {f \in admitted' : f.client = d}
    <3>1. \A b \in DOMAIN Swept :
            Swept[b] # {} /\ Swept[b] \subseteq {f \in admitted : f.client = b}
      BY <1>6 DEF LimitInv, TypeOK
    <3>2. CASE d = c
      BY <1>1, <1>5, <1>7, <3>1, <3>2 DEF ListOf
    <3>3. CASE d # c
      BY <1>1, <1>7, <3>1, <3>3
    <3> QED
      BY <3>2, <3>3
  <2>3. ASSUME NEW f \in admitted'
        PROVE  /\ f.client \in Clients
               /\ f.id \in 0 .. Cardinality(admitted') - 1
               /\ f.at \in 0 .. now'
    <3>1. CASE f = e
      BY <1>1, <1>3, <1>4, <1>5, <3>1
    <3>2. CASE f \in admitted
      BY <1>1, <1>3, <1>4, <3>2 DEF LimitInv, TypeOK
    <3> QED
      BY <1>1, <3>1, <3>2
  <2>4. now' \in 0 .. MaxNow /\ lastCleanup' \in 0 .. now'
    BY <1>1
  <2> QED
    BY <1>4, <2>1, <2>2, <2>3, <2>4 DEF TypeOK
<1>9. ListsAreFaithful'
  <2>1. ASSUME NEW f \in admitted', f.at > now' - Window
        PROVE  f.client \in DOMAIN requests' /\ f \in requests'[f.client]
    <3>1. CASE f = e
      BY <1>5, <1>7, <3>1
    <3>2. CASE f \in admitted
      <4>1. f.client \in DOMAIN Swept /\ f \in Swept[f.client]
        BY <1>1, <1>6, <2>1, <3>2
      <4>2. CASE f.client = c
        BY <1>7, <4>1, <4>2 DEF ListOf
      <4>3. CASE f.client # c
        BY <1>7, <4>1, <4>3
      <4> QED
        BY <4>2, <4>3
    <3> QED
      BY <1>1, <3>1, <3>2
  <2> QED
    BY <2>1 DEF ListsAreFaithful
<1>10. WindowLimit'
  <2> SUFFICES ASSUME NEW d \in Clients, NEW t \in 0 .. now
               PROVE  Cardinality(AdmittedIn(d, t - Window, t)') <= Limit(d)
    BY <1>1 DEF WindowLimit, AdmittedIn
  <2>1. Cardinality(AdmittedIn(d, t - Window, t)) <= Limit(d)
    BY DEF LimitInv, WindowLimit
  <2>2. CASE d = c /\ t = now
    <3>1. AdmittedIn(d, t - Window, t)' = AdmittedIn(c, now - Window, now) \cup {e}
      BY <1>1, <1>5, <2>2 DEF AdmittedIn
    <3>2. IsFiniteSet(AdmittedIn(c, now - Window, now))
          /\ Cardinality(AdmittedIn(c, now - Window, now)) \in Nat
      BY AdmittedFinite DEF LimitInv
    <3>3. Cardinality(AdmittedIn(c, now - Window, now) \cup {e}) =
            IF e \in AdmittedIn(c, now - Window, now)
            THEN Cardinality(AdmittedIn(c, now - Window, now))
            ELSE Cardinality(AdmittedIn(c, now - Window, now)) + 1
      BY <3>2, FS_AddElement
    <3>4. Cardinality(AdmittedIn(d, t - Window, t)') \in
            {Cardinality(AdmittedIn(c, now - Window, now)),
             Cardinality(AdmittedIn(c, now - Window, now)) + 1}
      BY <3>1, <3>3
    <3>5. Cardinality(AdmittedIn(c, now - Window, now)) < Limit(c)
      BY <1>1, <1>2
    <3>6. Limit(c) \in Nat /\ Limit(d) = Limit(c)
      BY <2>2, LimitType
    <3> QED
      BY <3>2, <3>4, <3>5, <3>6
  <2>3. CASE d # c \/ t # now
    <3>1. AdmittedIn(d, t - Window, t)' = AdmittedIn(d, t - Window, t)
      BY <1>1, <1>5, <2>3 DEF AdmittedIn
    <3> QED
      BY <2>1, <3>1
  <2> QED
    BY <2>2, <2>3
<1> QED
  BY <1>8, <1>9, <1>10 DEF LimitInv

(* A refusal only sweeps.                                                  *)
LEMMA RejectKeeps ==
    ASSUME LimitInv, NEW c \in Clients, Reject(c)
    PROVE  LimitInv'
<1>1. /\ now' = now /\ admitted' = admitted /\ requests' = Swept
      /\ lastCleanup' = IF CleanupDue THEN now ELSE lastCleanup
  BY DEF Reject
<1>2. /\ DOMAIN Swept \subseteq DOMAIN requests
      /\ \A d \in DOMAIN Swept :
           Swept[d] \subseteq requests[d] /\ Swept[d] # {}
      /\ \A f \in admitted : f.at > now - Window =>
           f.client \in DOMAIN Swept /\ f \in Swept[f.client]
  BY SweptFacts DEF LimitInv
<1>3. TypeOK'
  <2>1. lastCleanup' \in 0 .. now'
    BY <1>1 DEF LimitInv, TypeOK
  <2> QED
    BY <1>1, <1>2, <2>1 DEF LimitInv, TypeOK
<1>4. ListsAreFaithful'
  BY <1>1, <1>2 DEF LimitInv, ListsAreFaithful
<1>5. WindowLimit'
  BY <1>1 DEF LimitInv, WindowLimit, AdmittedIn
<1> QED
  BY <1>3, <1>4, <1>5 DEF LimitInv

(* As time passes requests only leave the window.                          *)
LEMMA TickKeeps ==
    ASSUME LimitInv, Tick
    PROVE  LimitInv'
<1>1. /\ now' = now + 1 /\ now < MaxNow /\ now \in 0 .. MaxNow
      /\ admitted' = admitted /\ requests' = requests
      /\ lastCleanup' = lastCleanup
  BY DEF Tick, LimitInv, TypeOK
<1>2. \A e \in admitted : e.at \in 0 .. now
  BY DEF LimitInv, TypeOK
<1>3. TypeOK'
  BY <1>1, <1>2 DEF LimitInv, TypeOK
<1>4. ListsAreFaithful'
  <2>1. \A e \in admitted : e.at > now + 1 - Window => e.at > now - Window
    BY <1>1, <1>2
  <2> QED
    BY <1>1, <2>1 DEF LimitInv, ListsAreFaithful
<1>5. WindowLimit'
  <2> SUFFICES ASSUME NEW c \in Clients, NEW t \in 0 .. now + 1
               PROVE  Cardinality(AdmittedIn(c, t - Window, t)) <= Limit(c)
    BY <1>1 DEF WindowLimit, AdmittedIn
  <2>1. CASE t \in 0 .. now
    BY <2>1 DEF LimitInv, WindowLimit
  <2>2. CASE t = now + 1
    <3>1. AdmittedIn(c, t - Window, t) \in SUBSET AdmittedIn(c, now - Window, now)
      BY <1>1, <1>2, <2>2 DEF AdmittedIn
    <3>2. Cardinality(AdmittedIn(c, now - Window, now)) <= Limit(c)
      BY <1>1 DEF LimitInv, WindowLimit
    <3>3. /\ IsFiniteSet(AdmittedIn(c, now - Window, now))
          /\ Cardinality(AdmittedIn(c, now - Window, now)) \in Nat
          /\ Cardinality(AdmittedIn(c, t - Window, t)) \in Nat
      BY AdmittedFinite DEF LimitInv
    <3>4. Cardinality(AdmittedIn(c, t - Window, t))
            <= Cardinality(AdmittedIn(c, now - Window, now))
      BY <3>1, <3>3, FS_Subset
    <3> QED
      BY <3>2, <3>3, <3>4, LimitType
  <2> QED
    BY <1>1, <2>1, <2>2
<1> QED
  BY <1>3, <1>4, <1>5 DEF LimitInv

LEMMA NextLimit == LimitInv /\ [Next]_vars => LimitInv'
<1> SUFFICES ASSUME LimitInv, [Next]_vars PROVE LimitInv'
  OBVIOUS
<1>1. ASSUME NEW c \in Clients, Admit(c) PROVE LimitInv'
  BY <1>1, AdmitKeeps
<1>2. ASSUME NEW c \in Clients, Reject(c) PROVE LimitInv'
  BY <1>2, RejectKeeps
<1>3. CASE Tick
  BY <1>3, TickKeeps
<1>4. CASE UNCHANGED vars
  BY <1>4 DEF vars, LimitInv, TypeOK, ListsAreFaithful, WindowLimit, AdmittedIn
<1> QED
  BY <1>1, <1>2, <1>3, <1>4 DEF Next, Done

(* The limiter never leaves its types.                                     *)
THEOREM RateLimitTypes == Spec => []TypeOK
<1>1. LimitInv => TypeOK
  BY DEF LimitInv
<1> QED
  BY <1>1, InitLimit, NextLimit, PTL DEF Spec

(* No interval of Window ticks sees more than Limit admissions of a        *)
(* client, wherever it starts and whenever the sweeps happen.              *)
THEOREM LimitHolds == Spec => []WindowLimit
<1>1. LimitInv => WindowLimit
  BY DEF LimitInv
<1> QED
  BY <1>1, InitLimit, NextLimit, PTL DEF Spec

(* A refusal is deserved and the announced budget is the budget left.      *)
THEOREM AnswersAreHonest == Spec => HonestAnswers
<1>1. LimitInv /\ [Next]_vars => [HonestAnswer]_vars
  <2> SUFFICES ASSUME LimitInv PROVE HonestAnswer
    OBVIOUS
  <2> SUFFICES ASSUME NEW c \in Clients
               PROVE  LET used == Cardinality(AdmittedIn(c, now - Window, now))
                      IN  /\ Reject(c) => used >= Limit(c)
                          /\ Admit(c) => reply'.remaining = Limit(c) - used - 1
    BY DEF HonestAnswer
  <2>1. Recent(ListOf(Swept, c), now) = AdmittedIn(c, now - Window, now)
    BY RecentIsAdmitted DEF LimitInv
  <2> QED
    BY <2>1 DEF Reject, Admit
<1> QED
  BY <1>1, InitLimit, NextLimit, PTL DEF Spec, HonestAnswers

(* The lists a call works on, by the time of the sweep it leaves behind.    *)
LEMMA SweptSinceCleanup ==
    ASSUME LimitInv, SweepInv
    PROVE  \A c \in DOMAIN Swept : \A e \in Swept[c] :
              e.at > (IF CleanupDue THEN now ELSE lastCleanup) - Window
BY DEF LimitInv, TypeOK, SweepInv, Swept, Recent

(* After an answer every entry is from the Window before the last sweep.   *)
LEMMA AnswerSweeps ==
    ASSUME LimitInv, SweepInv, NEW c \in Clients, Admit(c) \/ Reject(c)
    PROVE  /\ SweepInv'
           /\ now - lastCleanup' < Window
           /\ lastCleanup' \in Nat
<1>1. /\ now \in Nat /\ lastCleanup \in Nat /\ Window \in Nat \ {0}
      /\ lastCleanup' = IF CleanupDue THEN now ELSE lastCleanup
  BY DEF Admit, Reject, LimitInv, TypeOK
<1>2. now - lastCleanup' < Window /\ lastCleanup' \in Nat /\ lastCleanup' <= now
  BY <1>1 DEF CleanupDue, LimitInv, TypeOK
<1>3. \A d \in DOMAIN Swept : \A e \in Swept[d] : e.at > lastCleanup' - Window
  BY <1>1, SweptSinceCleanup
<1>4. CASE Admit(c)
  <2> DEFINE entry == [client |-> c, id |-> Cardinality(admitted), at |-> now]
  <2>1. requests' = [d \in DOMAIN Swept \cup {c} |->
                          IF d = c THEN ListOf(Swept, c) \cup {entry}
                          ELSE Swept[d]]
    BY <1>4 DEF Admit
  <2>2. entry.at > lastCleanup' - Window
    BY <1>1, <1>2
  <2>3. \A d \in DOMAIN requests' : \A e \in requests'[d] :
            e = entry \/ (d \in DOMAIN Swept /\ e \in Swept[d])
    BY <2>1 DEF ListOf
  <2> QED
    BY <1>2, <1>3, <2>2, <2>3 DEF SweepInv
<1>5. CASE Reject(c)
  BY <1>2, <1>3, <1>5 DEF Reject, SweepInv
<1> QED
  BY <1>4, <1>5

LEMMA SweepKeeps ==
    ASSUME LimitInv, SweepInv, [Next]_vars
    PROVE  SweepInv' /\ AnswerLeavesStoreSwept
<1>1. SweepInv'
  <2>1. CASE Tick \/ UNCHANGED vars
    BY <2>1 DEF Tick, vars, SweepInv
  <2> QED
    BY <2>1, AnswerSweeps DEF Next, Done
<1>2. ASSUME NEW c \in Clients, Admit(c) \/ Reject(c),
             NEW d \in DOMAIN requests', NEW e \in requests'[d]
      PROVE  e.at > now - 2 * Window
  <2>1. /\ e.at > lastCleanup' - Window /\ now - lastCleanup' < Window
        /\ lastCleanup' \in Nat /\ now \in Nat /\ Window \in Nat
    BY <1>1, <1>2, AnswerSweeps DEF SweepInv, LimitInv, TypeOK
  <2>2. e.at \in Nat
    BY <1>2, NextLimit DEF LimitInv, TypeOK
  <2> QED
    BY <2>1, <2>2
<1> QED
  BY <1>1, <1>2, AnswerSweeps DEF AnswerLeavesStoreSwept

(* Old entries and departed clients do not pile up in the dictionary: what *)
(* a call leaves there is less than two Windows old.                       *)
THEOREM StoreStaysSwept == Spec => StoreIsSwept
<1>1. Init => SweepInv
  BY DEF Init, SweepInv
<1>2. LimitInv /\ SweepInv /\ [Next]_vars => SweepInv' /\ AnswerLeavesStoreSwept
  BY SweepKeeps
<1> QED
  BY <1>1, <1>2, InitLimit, NextLimit, PTL DEF Spec, StoreIsSwept

-----------------------------------------------------------------------------
(* Retry-After truncates; a second more is past what it truncated.         *)
LEMMA TruncatedSeconds ==
    ASSUME NEW x \in Int, NEW d \in Nat \ {0}
    PROVE  x \div d \in Int /\ (x \div d + 1) * d > x
OBVIOUS

(* A later window over the same history holds no more.                     *)
LEMMA LaterWindowHoldsNoMore ==
    ASSUME TypeOK, NEW c \in Clients, NEW lo \in Int, NEW hi \in Int, lo <= hi
    PROVE  Cardinality(AdmittedIn(c, hi, now)) <= Cardinality(AdmittedIn(c, lo, now))
<1>1. AdmittedIn(c, hi, now) \in SUBSET AdmittedIn(c, lo, now)
  BY DEF AdmittedIn, TypeOK
<1>2. IsFiniteSet(AdmittedIn(c, lo, now))
  BY AdmittedFinite
<1> QED
  BY <1>1, <1>2, FS_Subset

(* The wait a refusal asks for takes the oldest request out of the window. *)
LEMMA RefusalSuffices ==
    ASSUME LimitInv, NEW c \in Clients, Reject(c)
    PROVE  RetryInv'
<1> DEFINE used == AdmittedIn(c, now - Window, now)
           ages == {e.at : e \in used}
           m == Min(ages)
           wait == (Window - (now - m)) \div TicksPerSecond
           retry == now + (wait + 1) * TicksPerSecond
           later == AdmittedIn(c, retry - Window, now)
<1>1. /\ now' = now /\ admitted' = admitted
      /\ reply' = [client |-> c, allowed |-> FALSE, remaining |-> 0,
                   retryAfter |-> wait]
      /\ Cardinality(used) >= Limit(c)
  BY RecentIsAdmitted DEF Reject, LimitInv
<1>2. /\ now \in Nat /\ Window \in Nat /\ TicksPerSecond \in Nat \ {0}
      /\ Limit(c) \in Nat \ {0}
      /\ \A e \in used : e.at \in Nat
      /\ IsFiniteSet(used) /\ Cardinality(used) \in Nat
  <2>1. IsFiniteSet(used) /\ Cardinality(used) \in Nat
    BY AdmittedFinite DEF LimitInv
  <2>2. \A e \in used : e.at \in Nat
    BY DEF LimitInv, TypeOK, AdmittedIn
  <2> QED
    BY <2>1, <2>2, LimitType DEF LimitInv, TypeOK
<1>3. used # {}
  BY <1>1, <1>2, FS_EmptySet
<1>4. m \in ages /\ m \in Nat
  <2>1. ages \in SUBSET Nat /\ ages # {}
    BY <1>2, <1>3
  <2> HIDE DEF ages
  <2>2. m \in ages
    BY <2>1, MinOfNaturals
  <2> QED
    BY <1>2, <2>2 DEF ages
<1>5. PICK oldest \in used : oldest.at = m
  BY <1>4
<1> HIDE DEF m
<1>6. wait \in Int /\ retry - Window > m /\ retry \in Int
  <2>1. Window - (now - m) \in Int
    BY <1>2, <1>4
  <2>2. wait \in Int /\ (wait + 1) * TicksPerSecond > Window - (now - m)
    BY <1>2, <2>1, TruncatedSeconds
  <2>3. (wait + 1) * TicksPerSecond \in Int
    BY <1>2, <2>2
  <2> QED
    BY <1>2, <1>4, <2>2, <2>3
<1> HIDE DEF wait
<1>7. later \in SUBSET (used \ {oldest})
  <2>1. \A e \in later : e \in admitted /\ e.client = c /\ e.at > m /\ e.at <= now
    BY <1>2, <1>4, <1>6 DEF AdmittedIn, LimitInv, TypeOK
  <2>2. \A e \in later : e.at > now - Window
    BY <1>2, <1>4, <1>5, <1>6 DEF AdmittedIn, LimitInv, TypeOK
  <2> QED
    BY <1>4, <1>5, <2>1, <2>2 DEF AdmittedIn
<1> HIDE DEF used, later
<1>8. /\ IsFiniteSet(used \ {oldest})
      /\ Cardinality(used \ {oldest}) = Cardinality(used) - 1
  BY <1>2, <1>5, FS_RemoveElement
<1>9. Cardinality(later) <= Cardinality(used \ {oldest})
      /\ Cardinality(later) \in Nat
  BY <1>7, <1>8, FS_Subset, FS_CardinalityType
<1>10. Cardinality(used) <= Limit(c)
  BY DEF LimitInv, WindowLimit, TypeOK, used
<1>11. Cardinality(later) < Limit(c)
  BY <1>2, <1>8, <1>9, <1>10
<1>12. RetryAfterSuffices'
  BY <1>1, <1>11 DEF RetryAfterSuffices, RetryAt, later, AdmittedIn
<1> QED
  BY <1>1, <1>6, <1>12 DEF RetryInv

LEMMA NextRetry == LimitInv /\ RetryInv /\ [Next]_vars => RetryInv'
<1> SUFFICES ASSUME LimitInv, RetryInv, [Next]_vars PROVE RetryInv'
  OBVIOUS
<1>1. ASSUME NEW c \in Clients, Admit(c) PROVE RetryInv'
  BY <1>1 DEF Admit, RetryInv, RetryAfterSuffices
<1>2. ASSUME NEW c \in Clients, Reject(c) PROVE RetryInv'
  BY <1>2, RefusalSuffices
<1>3. CASE Tick
  <2>1. /\ now' = now + 1 /\ admitted' = admitted /\ reply' = reply
        /\ now \in Nat /\ Window \in Nat /\ TicksPerSecond \in Nat
        /\ reply.retryAfter \in Int
    BY <1>3 DEF Tick, LimitInv, TypeOK, RetryInv
  <2> SUFFICES ASSUME reply.client \in Clients, ~reply.allowed
               PROVE  RetryAfterSuffices'
    BY <2>1 DEF RetryInv, RetryAfterSuffices
  <2> DEFINE c == reply.client
             held == AdmittedIn(c, RetryAt - Window, now)
             left == AdmittedIn(c, RetryAt + 1 - Window, now)
  <2>2. RetryAt \in Int /\ RetryAt' = RetryAt + 1
    <3> DEFINE wait == (reply.retryAfter + 1) * TicksPerSecond
    <3>1. wait \in Int /\ wait' = wait
      BY <2>1
    <3>2. RetryAt = now + wait /\ RetryAt' = now' + wait'
      BY DEF RetryAt
    <3> HIDE DEF wait
    <3> QED
      BY <2>1, <3>1, <3>2
  <2>3. Cardinality(held) < Limit(c)
    BY DEF RetryInv, RetryAfterSuffices
  <2>4. Cardinality(left) <= Cardinality(held)
    BY <2>1, <2>2, LaterWindowHoldsNoMore DEF LimitInv
  <2>5. Cardinality(left) \in Nat /\ Cardinality(held) \in Nat
    BY AdmittedFinite DEF LimitInv
  <2>6. Cardinality(left) < Limit(c)
    BY <2>3, <2>4, <2>5, LimitType
  <2>7. \A e \in admitted : e.at \in 0 .. now
    BY DEF LimitInv, TypeOK
  <2>8. AdmittedIn(c, RetryAt - Window, now)' = left
    BY <2>1, <2>2, <2>7 DEF AdmittedIn
  <2> QED
    BY <2>1, <2>6, <2>8 DEF RetryAfterSuffices
<1>4. CASE UNCHANGED vars
  BY <1>4 DEF vars, RetryInv, RetryAfterSuffices, RetryAt, AdmittedIn
<1> QED
  BY <1>1, <1>2, <1>3, <1>4 DEF Next, Done

(* A client that waits as told, and a second more, finds room.             *)
THEOREM RetryIsEnough == Spec => []RetryAfterSuffices
<1>1. Init => RetryInv
  BY DEF Init, RetryInv, RetryAfterSuffices
<1>2. RetryInv => RetryAfterSuffices
  BY DEF RetryInv
<1> QED
  BY <1>1, <1>2, InitLimit, NextLimit, NextRetry, PTL DEF Spec

-----------------------------------------------------------------------------
(* The two modules count and take minima alike.                            *)
LEMMA SameOperators ==
    ASSUME NEW S
    PROVE  /\ Promise!Cardinality(S) = Cardinality(S)
           /\ Promise!Min(S) = Min(S)
<1>1. Promise!Cardinality(S) = Cardinality(S)
  BY DEF Cardinality, Promise!Cardinality
<1>2. Promise!Min(S) = Min(S)
  BY DEF Min, Promise!Min
<1> QED
  BY <1>1, <1>2

(* An answer of the code is an answer of the limiter with the whole        *)
(* history: the list it judges by is the history's last Window.            *)
LEMMA AnswerIsPromised ==
    ASSUME LimitInv, NEW c \in Clients
    PROVE  /\ Admit(c) => Promise!Grant(c)
           /\ Reject(c) => Promise!Refuse(c)
<1>1. Recent(ListOf(Swept, c), now) = Promise!Used(c)
  <2>1. Promise!Used(c) = AdmittedIn(c, now - Window, now)
    BY DEF Promise!Used, AdmittedIn, LimitInv, TypeOK
  <2> QED
    BY <2>1, RecentIsAdmitted DEF LimitInv
<1>2. Limit(c) = Promise!Allowance(c)
  BY DEF Limit, Promise!Allowance
<1>3. Admit(c) => Promise!Grant(c)
  BY <1>1, <1>2, SameOperators DEF Admit, Promise!Grant
<1>4. Reject(c) => Promise!Refuse(c)
  BY <1>1, <1>2, SameOperators DEF Reject, Promise!Refuse
<1> QED
  BY <1>3, <1>4

(* The stored lists and their sweep implement the limiter that keeps the   *)
(* whole history, so no caller can tell the two apart.                     *)
THEOREM SlidingWindowImplemented == Spec => ImplementsSlidingWindow
<1>1. Init => Promise!Init
  BY DEF Init, Promise!Init
<1>2. LimitInv /\ [Next]_vars => [Promise!Next]_(Promise!vars)
  <2> SUFFICES ASSUME LimitInv, [Next]_vars
               PROVE  Promise!Next \/ UNCHANGED Promise!vars
    OBVIOUS
  <2>1. ASSUME NEW c \in Clients, Admit(c) \/ Reject(c)
        PROVE  Promise!Next
    BY <2>1, AnswerIsPromised DEF Promise!Next, Clients
  <2>2. CASE Tick
    BY <2>2 DEF Tick, Promise!Next, Promise!Pass
  <2>3. CASE UNCHANGED vars
    BY <2>3 DEF vars, Promise!vars
  <2> QED
    BY <2>1, <2>2, <2>3 DEF Next, Done
<1> QED
  BY <1>1, <1>2, InitLimit, NextLimit, PTL
     DEF Spec, ImplementsSlidingWindow, Promise!Spec

=============================================================================
