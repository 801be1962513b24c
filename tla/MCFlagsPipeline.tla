-------------------------- MODULE MCFlagsPipeline --------------------------
(* Instances of FlagsPipeline for TLC; the values are in the .cfg files. *)
EXTENDS FlagsPipeline
=============================================================================
