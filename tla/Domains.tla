------------------------------ MODULE Domains ------------------------------
(***************************************************************************)
(* Ranges and domains of gt4py.next fields (next/common.py).  A range has  *)
(* integer or infinite bounds; a domain names a range for each of its      *)
(* dimensions and is a function here, so the order of the dimensions is    *)
(* abstracted.                                                             *)
(***************************************************************************)
EXTENDS Integers, FiniteSets

CONSTANTS NEGATIVE, POSITIVE     \* the two members of Infinity

ASSUME InfinityAssumption ==
  /\ NEGATIVE \notin Int
  /\ POSITIVE \notin Int
  /\ NEGATIVE # POSITIVE

Infinity == {NEGATIVE, POSITIVE}
Bounds   == Int \cup Infinity

(* a < b and a <= b.  With an integer on the left Python calls the         *)
(* reflected comparison of Infinity.                                       *)
Lt(a, b) == IF a \in Infinity THEN a = NEGATIVE /\ b # a
            ELSE IF b \in Infinity THEN b = POSITIVE
            ELSE a < b
Le(a, b) == IF a \in Infinity THEN a = NEGATIVE \/ b = POSITIVE
            ELSE IF b \in Infinity THEN b = POSITIVE
            ELSE a <= b

(* Infinity absorbs what is added to it, or subtracted on either side.     *)
Plus(a, k)  == IF a \in Infinity THEN a ELSE a + k
Minus(a, b) == IF a \in Infinity THEN a ELSE IF b \in Infinity THEN b ELSE a - b

Larger(a, b)  == IF Lt(a, b) THEN b ELSE a
Smaller(a, b) == IF Lt(b, a) THEN b ELSE a

-----------------------------------------------------------------------------
(* Ranges *)

UnitRange(start, stop) ==
  IF Lt(start, stop) THEN [start |-> start, stop |-> stop]
                     ELSE [start |-> 0, stop |-> 0]

Ranges   == {r \in [start : Bounds, stop : Bounds] : r = UnitRange(r.start, r.stop)}
Infinite == UnitRange(NEGATIVE, POSITIVE)

LeftFinite(r)  == r.start # NEGATIVE
RightFinite(r) == r.stop # POSITIVE
IsFinite(r)    == LeftFinite(r) /\ RightFinite(r)
IsEmpty(r)     == r.start = 0 /\ r.stop = 0
RangeLen(r)    == r.stop - r.start

InRange(x, r)     == Le(r.start, x) /\ Lt(x, r.stop)
RangeAnd(r, s)    == UnitRange(Larger(r.start, s.start), Smaller(r.stop, s.stop))
Intersection(ranges) ==
  UnitRange(CHOOSE a \in {r.start : r \in ranges} : \A s \in ranges : Le(s.start, a),
            CHOOSE b \in {r.stop : r \in ranges} : \A s \in ranges : Le(b, s.stop))
RangeShiftRaw(r, k) == [start |-> Plus(r.start, k), stop |-> Plus(r.stop, k)]
RangeShift(r, k)  == UnitRange(Plus(r.start, k), Plus(r.stop, k))
RangeInside(r, s) == Lt(s.start, r.start) /\ Lt(r.stop, s.stop)
RangeWithin(r, s) == Le(s.start, r.start) /\ Le(r.stop, s.stop)

(* r[lo:hi] for a finite r and hi > 0, the only slices taken of a range    *)
(* here (UnitRange.__getitem__ as Domain.slice_at calls it).               *)
RangeSlice(r, lo, hi) == UnitRange(r.start + lo, r.start + hi)

-----------------------------------------------------------------------------
(* Domains *)

RangeOf(A, d) == IF d \in DOMAIN A THEN A[d] ELSE Infinite

DomainAnd(A, B) ==
  [d \in DOMAIN A \cup DOMAIN B |-> RangeAnd(RangeOf(A, d), RangeOf(B, d))]

DomainIsFinite(A) == \A d \in DOMAIN A : IsFinite(A[d])
DomainIsEmpty(A)  == \E d \in DOMAIN A : IsEmpty(A[d])

Without(A, dims) == [d \in DOMAIN A \ dims |-> A[d]]

(* Domain.__or__: when it applies, and what it returns then.               *)
OnlyDim(A) == CHOOSE d \in DOMAIN A : TRUE
FirstOf(A, B, d)  == IF Lt(B[d].start, A[d].start) THEN B[d] ELSE A[d]
SecondOf(A, B, d) == IF Lt(B[d].start, A[d].start) THEN A[d] ELSE B[d]

CanUnite(A, B) ==
  /\ Cardinality(DOMAIN A) <= 1 /\ Cardinality(DOMAIN B) <= 1
  /\ (DOMAIN A # {} /\ DOMAIN B # {}) =>
       /\ DOMAIN A = DOMAIN B
       /\ LET d == OnlyDim(A)
          IN  Le(SecondOf(A, B, d).start, FirstOf(A, B, d).stop)

DomainOr(A, B) ==
  IF DOMAIN A = {} THEN B ELSE IF DOMAIN B = {} THEN A
  ELSE [d \in DOMAIN A |->
          UnitRange(FirstOf(A, B, d).start, SecondOf(A, B, d).stop)]

(* The comparisons of a dimension with an integer.                         *)
Comparisons == {"lt", "le", "gt", "ge", "eq"}
CompareStrict(d, op, v) ==
  [x \in {d} |-> IF op \in {"lt", "le"} THEN UnitRange(NEGATIVE, v)
                 ELSE IF op = "eq" THEN UnitRange(v, v + 1) ELSE UnitRange(v + 1, POSITIVE)]
Compare(d, op, v) ==
  [x \in {d} |->
     CASE op = "lt" -> UnitRange(NEGATIVE, v)
       [] op = "le" -> UnitRange(NEGATIVE, v + 1)
       [] op = "gt" -> UnitRange(v + 1, POSITIVE)
       [] op = "ge" -> UnitRange(v, POSITIVE)
       [] op = "eq" -> UnitRange(v, v + 1)]

(* The complement of a range, as the ranges below and above it.            *)
InvertRange(r) ==
  IF IsEmpty(r) THEN {Infinite}
  ELSE (IF LeftFinite(r) THEN {UnitRange(NEGATIVE, r.start)} ELSE {})
       \cup (IF RightFinite(r) THEN {UnitRange(r.stop, POSITIVE)} ELSE {})

(* restrict_to_intersection of two domains: each cut to their intersection *)
(* in all of its dimensions but the ignored ones.                          *)
RestrictToIntersection(A, B, ignored) ==
  LET common == DomainAnd(Without(A, ignored), Without(B, ignored))
  IN  [d \in DOMAIN A |-> IF d \in ignored THEN A[d] ELSE common[d]]
=============================================================================
