------------------------ MODULE WindowedCountsProofs ------------------------
(***************************************************************************)
(* What the proofs about queries 1 and 3 share, for every window length:   *)
(* extrema of bounded sets, the window select_trailing_window chooses, the *)
(* records of a window and the watermark.                                  *)
(***************************************************************************)
EXTENDS WindowedCounts, FiniteSetTheorems, WellFoundedInduction, TLAPS

(* A nonempty set of natural numbers has a least element: the argument     *)
(* every Min and Max of the job rests on.                                  *)
LEMMA LeastNatural ==
    ASSUME NEW S \in SUBSET Nat, S # {}
    PROVE  \E x \in S : \A y \in S : x <= y
<1> DEFINE R == OpToRel(<, Nat)
<1>1. IsWellFoundedOn(R, Nat)
  BY NatLessThanWellFounded
<1>2. \A y, x : (y \in Nat /\ x \in Nat /\ <<y, x>> \notin R) => ~(y < x)
  BY DEF OpToRel
<1> HIDE DEF R
<1>3. PICK x \in S : \A y \in S : <<y, x>> \notin R
  BY <1>1, WFMin
<1>4. ASSUME NEW y \in S PROVE x <= y
  <2>1. <<y, x>> \notin R
    BY <1>3
  <2>2. y \in Nat /\ x \in Nat
    OBVIOUS
  <2>3. ~(y < x)
    BY <2>1, <2>2, <1>2, Zenon
  <2> QED
    BY <2>2, <2>3
<1> QED
  BY <1>4

(* Min of a nonempty set of integers with a lower bound, as                *)
(* select_trailing_window takes it over the candidate windows.             *)
LEMMA MinOfBounded ==
    ASSUME NEW a \in Int, NEW S \in SUBSET Int, S # {}, \A s \in S : a <= s
    PROVE  Min(S) \in S /\ \A y \in S : Min(S) <= y
<1> DEFINE T == {s - a : s \in S}
<1>1. T \in SUBSET Nat /\ T # {}
  <2>1. ASSUME NEW s \in S PROVE s - a \in Nat
    OBVIOUS
  <2>2. PICK s \in S : TRUE
    OBVIOUS
  <2>3. s - a \in T
    OBVIOUS
  <2> QED
    BY <2>1, <2>3
<1>2. PICK x \in T : \A y \in T : x <= y
  BY <1>1, LeastNatural
<1>3. PICK m \in S : x = m - a
  BY <1>2
<1>4. ASSUME NEW y \in S PROVE m =< y
  <2>1. y - a \in T
    OBVIOUS
  <2>2. x <= y - a
    BY <2>1, <1>2
  <2> QED
    BY <2>2, <1>3
<1>5. \E n \in S : \A y \in S : n =< y
  BY <1>4
<1> QED
  BY <1>5 DEF Min

(* Max of a nonempty set of integers with an upper bound, as the watermark *)
(* and select_trailing_window take it.                                     *)
LEMMA MaxOfBounded ==
    ASSUME NEW b \in Int, NEW S \in SUBSET Int, S # {}, \A s \in S : s <= b
    PROVE  Max(S) \in S /\ \A y \in S : y <= Max(S)
<1> DEFINE T == {b - s : s \in S}
<1>1. T \in SUBSET Nat /\ T # {}
  <2>1. ASSUME NEW s \in S PROVE b - s \in Nat
    OBVIOUS
  <2>2. PICK s \in S : TRUE
    OBVIOUS
  <2>3. b - s \in T
    OBVIOUS
  <2> QED
    BY <2>1, <2>3
<1>2. PICK x \in T : \A y \in T : x <= y
  BY <1>1, LeastNatural
<1>3. PICK m \in S : x = b - m
  BY <1>2
<1>4. ASSUME NEW y \in S PROVE m >= y
  <2>1. b - y \in T
    OBVIOUS
  <2>2. x <= b - y
    BY <2>1, <1>2
  <2> QED
    BY <2>2, <1>3
<1>5. \E n \in S : \A y \in S : n >= y
  BY <1>4
<1>6. Max(S) \in S /\ \A y \in S : Max(S) >= y
  BY <1>5 DEF Max
<1> QED
  BY <1>6

-----------------------------------------------------------------------------
(* select_trailing_window chooses one of the windows the batch emitted     *)
(* (windowing.py:35-45), whatever set of windows that is.                  *)
LEMMA TrailingStartIsEmitted ==
    ASSUME NEW a \in Int, NEW b \in Int, NEW S \in SUBSET (a .. b), S # {}
    PROVE  TrailingStart(S) \in S
<1>1. S \in SUBSET Int /\ \A s \in S : a <= s /\ s <= b
  OBVIOUS
<1>2. Max(S) \in S /\ \A y \in S : y <= Max(S)
  BY <1>1, MaxOfBounded
<1>3. WindowEnd(Max(S)) > Max(S)
  <2>1. \A x \in Int : WindowEnd(x) > x
    BY WindowLenAssumption DEF WindowEnd
  <2>2. Max(S) \in Int
    BY <1>1, <1>2
  <2> QED
    BY <2>1, <2>2
<1>4. Max(S) \in Candidates(S)
  BY <1>2, <1>3 DEF Candidates, LatestStart
<1>5. Candidates(S) \subseteq S
  BY DEF Candidates
<1>6. Candidates(S) \in SUBSET Int /\ \A s \in Candidates(S) : a <= s
  BY <1>1, <1>5
<1>7. Min(Candidates(S)) \in Candidates(S)
  BY <1>4, <1>6, MinOfBounded
<1> QED
  BY <1>5, <1>7 DEF TrailingStart

(* With the windows of a set of events emitted, the choice is the window   *)
(* [m - WindowLen + 1, m + 1) of the newest event m: "the oldest window    *)
(* that contains the newest event", windowing.py:13-17, for every window   *)
(* length and every set of events.                                         *)
THEOREM TrailingWindowOfNewestEvent ==
    ASSUME NEW T \in SUBSET Int, NEW m \in T, \A t \in T : t <= m
    PROVE  TrailingStart(UNION {WindowStarts(t) : t \in T}) = m - WindowLen + 1
<1> DEFINE S == UNION {WindowStarts(t) : t \in T}
           lo == m - WindowLen + 1
<1> USE WindowLenAssumption
<1>1. \A s : s \in S <=> \E t \in T : s \in WindowStarts(t)
  OBVIOUS
<1>2. S \in SUBSET Int /\ \A s \in S : s <= m
  BY <1>1 DEF WindowStarts
<1>3. m \in S /\ lo \in S
  BY <1>1 DEF WindowStarts
<1> HIDE DEF S
<1>4. Max(S) = m
  <2>1. m \in Int
    OBVIOUS
  <2>2. Max(S) \in S /\ \A y \in S : y <= Max(S)
    BY <1>2, <1>3, <2>1, MaxOfBounded
  <2>3. Max(S) \in Int /\ Max(S) <= m /\ m <= Max(S)
    BY <1>2, <1>3, <2>2
  <2> QED
    BY <2>1, <2>3
<1>5. Candidates(S) = {s \in S : s + WindowLen > m}
  BY <1>4 DEF Candidates, LatestStart, WindowEnd
<1>6. lo \in Candidates(S) /\ \A s \in Candidates(S) : lo <= s
  <2>1. m \in Int /\ lo \in Int /\ lo + WindowLen > m
    OBVIOUS
  <2>2. lo \in Candidates(S)
    BY <1>3, <1>5, <2>1
  <2>3. ASSUME NEW s \in Candidates(S) PROVE lo <= s
    <3>1. s \in Int /\ s + WindowLen > m
      BY <1>2, <1>5
    <3> QED
      BY <2>1, <3>1
  <2> QED
    BY <2>2, <2>3
<1>7. Candidates(S) \in SUBSET Int
  BY <1>2, <1>5
<1>8. Min(Candidates(S)) = lo
  <2>1. lo \in Int
    OBVIOUS
  <2>2. Min(Candidates(S)) \in Candidates(S) /\
        \A y \in Candidates(S) : Min(Candidates(S)) <= y
    BY <1>6, <1>7, <2>1, MinOfBounded
  <2> QED
    BY <2>2, <1>6, <1>7
<1> QED
  BY <1>8 DEF TrailingStart, S

-----------------------------------------------------------------------------
(* The number of a user's records in a window is a natural number.         *)
LEMMA InWindowCard ==
    ASSUME NEW u, NEW s, NEW lo \in Int, NEW hi \in Int
    PROVE  Cardinality(InWindow(u, s, lo, hi)) \in Nat
<1>1. IsFiniteSet(lo .. hi)
  BY FS_Interval
<1>2. InWindow(u, s, lo, hi) \in SUBSET (lo .. hi)
  BY DEF InWindow
<1> QED
  BY <1>1, <1>2, FS_Subset, FS_CardinalityType

(* The records of a window up to hi are those up to lo and those after.    *)
LEMMA WindowSplits ==
    ASSUME NEW u, NEW s, NEW lo \in Nat, NEW hi \in Nat, lo <= hi
    PROVE  Cardinality(InWindow(u, s, 1, hi))
             = Cardinality(InWindow(u, s, 1, lo))
                 + Cardinality(InWindow(u, s, lo + 1, hi))
<1> DEFINE A == InWindow(u, s, 1, lo)
           B == InWindow(u, s, lo + 1, hi)
<1>1. A \in SUBSET (1 .. lo) /\ B \in SUBSET (lo + 1 .. hi)
  BY Zenon DEF InWindow
<1>2. IsFiniteSet(A) /\ IsFiniteSet(B)
  <2>1. IsFiniteSet(1 .. lo) /\ IsFiniteSet(lo + 1 .. hi)
    BY FS_Interval
  <2> HIDE DEF A, B
  <2> QED
    BY <1>1, <2>1, FS_Subset
<1>3. A \cap B = {}
  BY <1>1
<1>4. InWindow(u, s, 1, hi) = A \cup B
  BY DEF InWindow
<1>5. /\ Cardinality(A \cup B)
           = Cardinality(A) + Cardinality(B) - Cardinality(A \cap B)
      /\ Cardinality(A \cap B) = 0
      /\ Cardinality(A) \in Nat /\ Cardinality(B) \in Nat
  BY <1>2, <1>3, FS_Union, FS_EmptySet, FS_CardinalityType
<1> HIDE DEF A, B
<1>6. Cardinality(A \cup B) = Cardinality(A) + Cardinality(B)
  BY <1>5
<1>7. Cardinality(InWindow(u, s, 1, hi)) = Cardinality(A \cup B)
  BY <1>4, Zenon
<1> QED
  BY <1>6, <1>7 DEF A, B

(* The watermark is the maximum of the old one and the newest event time   *)
(* less the delay; it never moves back.                                    *)
LEMMA EvictWmIsMax ==
    ASSUME wm \in Nat, maxTime \in Nat, WatermarkDelay \in Nat
    PROVE  /\ EvictWm \in Nat
           /\ EvictWm >= wm
           /\ EvictWm \in {wm, maxTime - WatermarkDelay}
<1> DEFINE S == {wm, maxTime - WatermarkDelay}
<1>1. S \in SUBSET Int /\ S # {} /\ \A s \in S : s <= wm + maxTime
  OBVIOUS
<1>2. wm + maxTime \in Int
  OBVIOUS
<1>3. Max(S) \in S /\ \A y \in S : y <= Max(S)
  BY <1>1, <1>2, MaxOfBounded
<1> QED
  BY <1>3 DEF EvictWm

=============================================================================
