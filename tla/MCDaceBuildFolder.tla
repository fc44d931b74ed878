------------------------- MODULE MCDaceBuildFolder -------------------------
(* Instances of DaceBuildFolder for TLC. *)
EXTENDS DaceBuildFolder, TLC

Symmetric == Permutations(Clients) \cup Permutations(Programs)
=============================================================================
