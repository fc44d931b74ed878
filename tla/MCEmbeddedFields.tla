-------------------------- MODULE MCEmbeddedFields --------------------------
(* The instance of EmbeddedFields for TLC: a cell dimension I with its     *)
(* staggered H, a vertical K, vertices V with neighbours L in I and        *)
(* neighbours M in V.                                                      *)
EXTENDS EmbeddedFields

CONSTANTS I, H, K, V, L, M

MCLocal == {L, M}
MCBase  == [d \in {H} |-> I]
MCWindow == [d \in {I, H, K, V, L, M} |->
               IF d \in {I, H} THEN -2 .. 4 ELSE IF d = K THEN -1 .. 2
               ELSE IF d = V THEN 0 .. 2 ELSE 0 .. 1]

R(a, b) == UnitRange(a, b)
D1(d, r) == [x \in {d} |-> r]
D2(d, r, e, s) == [x \in {d, e} |-> IF x = d THEN r ELSE s]

(* A field whose values tell its points apart.                             *)
Weight == [d \in {I, H, K, V, L, M} |-> IF d = K THEN 7 ELSE 1]
SourceField(base, dom) ==
  [domain |-> dom,
   arr |-> Array([d \in DOMAIN dom |-> RangeLen(dom[d])],
                 LAMBDA i : base + MapThenSumSet(LAMBDA d : Weight[d] * i[d], DOMAIN i))]

MCSources == {SourceField(1, D1(I, R(0, 3))),
              SourceField(1, D1(K, R(0, 2))),
              SourceField(1, D2(I, R(1, 3), K, R(0, 2)))}
MCOthers  == {SourceField(20, D1(I, R(-1, 2))),
              SourceField(20, D1(I, R(2, 4))),
              SourceField(20, D1(K, R(0, 2))),
              SourceField(20, D1(H, R(0, 3))),
              SourceField(20, D2(V, R(0, 3), L, R(0, 2)))}

(* V x L -> I, with a skipped neighbour; V x M -> V; I -> I, offset        *)
(* fields.                                                                 *)
TableOf(dom, cod, skips, F(_)) ==
  [kind |-> "gather", domain |-> dom, codomain |-> cod, skips |-> skips,
   table |-> Array([d \in DOMAIN dom |-> RangeLen(dom[d])], F)]
V2I  == TableOf(D2(V, R(0, 3), L, R(0, 2)), I, TRUE,
                LAMBDA i : IF i[V] = 2 /\ i[L] = 1 THEN -1 ELSE i[V] + i[L])
Rim  == TableOf(D2(V, R(0, 2), L, R(0, 2)), I, TRUE,
                LAMBDA i : IF i[V] = 1 /\ i[L] = 1 THEN -1 ELSE i[V] + i[L] + 2)
Diag == TableOf(D2(V, R(0, 2), L, R(0, 2)), I, FALSE, LAMBDA i : i[V] - i[L] + 1)
V2V  == TableOf(D2(V, R(0, 2), M, R(0, 2)), V, FALSE, LAMBDA i : i[V] + i[M])
Flip == TableOf(D1(I, R(0, 3)), I, FALSE, LAMBDA i : 2 - i[I])
Jump == TableOf(D1(I, R(1, 3)), I, FALSE, LAMBDA i : i[I] + 3)

Shift(d, halves)  == [kind |-> "shift", dim |-> d, halves |-> halves]
Relocate(from, to) == [kind |-> "relocation", dim |-> to, codomain |-> from]

MCPremaps == {<<Shift(I, 2)>>, <<Shift(I, 1)>>, <<Shift(I, -1)>>, <<Shift(H, 1)>>, <<Shift(H, -3)>>,
              <<Relocate(I, H)>>, <<Relocate(I, K)>>, <<Shift(I, -2), Shift(K, 2)>>,
              <<Shift(I, -2)>>, <<V2I>>, <<V2V>>, <<Rim>>, <<Diag>>, <<Flip>>, <<Jump>>,
              <<Flip, Shift(K, 2)>>}

Ix(within, at) == [within |-> within, at |-> at]
None1 == [d \in {} |-> 0]
MCIndexes == {Ix(D1(I, R(1, 3)), None1), Ix(D1(I, R(1, POSITIVE)), None1),
              Ix(None1, [d \in {I} |-> 1]), Ix(None1, [d \in {V} |-> 1]),
              Ix(D1(V, R(0, 2)), [d \in {K} |-> 1])}
Sl(lo, hi) == [lo |-> lo, hi |-> hi]
MCRelative == {Ix(D1(I, Sl(1, None)), None1), Ix(D1(I, Sl(None, -1)), None1), Ix(D1(I, Sl(0, 0)), None1),
               Ix(D1(I, Sl(-2, 3)), None1), Ix(None1, [d \in {I} |-> -2])}
MCConditions == {Compare(I, "lt", 2), Compare(I, "eq", 1), Compare(K, "ge", 1),
                 DomainAnd(Compare(I, "ge", 1), Compare(K, "lt", 1))}
MCCutDims == {I, K}
MCTable == V2I
=============================================================================
