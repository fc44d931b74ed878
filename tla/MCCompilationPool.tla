------------------------ MODULE MCCompilationPool ------------------------
(* Instances of CompilationPool for TLC. *)
EXTENDS CompilationPool, TLC

CONSTANTS t1, t2, p1, p2, v1, v2

(* Two variants of one program, or one variant of each of two programs. *)
SamePool == v1 :> p1 @@ v2 :> p1
TwoPools == v1 :> p1 @@ v2 :> p2

OneVariant == v1 :> p1

(* One thread doing everything; two threads with programs of their own,
   or of which one only waits. *)
Alone    == t1 :> {v1, v2}
Disjoint == t1 :> {v1} @@ t2 :> {v2}
OnlyOne  == t1 :> {v1} @@ t2 :> {}

Identities == Permutations(Futures) \cup Permutations(Runners)
===========================================================================
