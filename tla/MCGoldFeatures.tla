--------------------------- MODULE MCGoldFeatures ---------------------------
(* Instances of GoldFeatures for TLC. *)
EXTENDS GoldProperties, TLC

Symmetry == Permutations(ValidUsers)

=============================================================================
