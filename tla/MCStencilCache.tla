--------------------------- MODULE MCStencilCache ---------------------------
(* Instances of StencilCache for TLC. *)
EXTENDS StencilCache, TLC

Symmetric == Permutations(Clients)
=============================================================================
