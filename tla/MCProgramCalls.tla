--------------------------- MODULE MCProgramCalls ---------------------------
(* Instances of ProgramCalls for TLC. *)
EXTENDS ProgramCalls, TLC

CONSTANTS t1, t2

(* Every two kinds of calls that share a hook overlap.                     *)
Mixed == t1 :> {"embedded", "operator"} @@ t2 :> {"program"}
Alike == Permutations(Users)
=============================================================================
