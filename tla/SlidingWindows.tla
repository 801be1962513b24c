--------------------------- MODULE SlidingWindows ---------------------------
(***************************************************************************)
(* Event-time windows of the streaming job, in slots.  A slot is the slide *)
(* of the window (1 minute); a window is WindowLen slots long (5 in the    *)
(* job), starts on a slot boundary, and is named by its first slot.        *)
(* spark/windowing.py chooses, among the windows one micro-batch emits for *)
(* a user, the one that is written to Redis.                               *)
(***************************************************************************)
EXTENDS Integers, FiniteSetsExt

CONSTANT WindowLen

ASSUME WindowLenAssumption == WindowLen \in Nat \ {0}

(* Every event lands in WindowLen overlapping windows. *)
WindowStarts(t) == (t - WindowLen + 1) .. t

(* Exclusive end of the window that starts at s. *)
WindowEnd(s) == s + WindowLen

(***************************************************************************)
(* select_trailing_window for one user: S is the set of window_start       *)
(* values of the user's rows in the micro-batch.                           *)
(***************************************************************************)
LatestStart(S) == Max(S)

Candidates(S) == {s \in S : WindowEnd(s) > LatestStart(S)}

TrailingStart(S) == Min(Candidates(S))

=============================================================================
