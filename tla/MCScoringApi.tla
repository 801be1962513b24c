---------------------------- MODULE MCScoringApi ----------------------------
(* Instances of ScoringApi for TLC; the values are in the .cfg file. *)
EXTENDS ScoringApi
=============================================================================
