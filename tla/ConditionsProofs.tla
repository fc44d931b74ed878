-------------------------- MODULE ConditionsProofs --------------------------
(***************************************************************************)
(* Proofs about ranges and domains (Domains) and about the conditions      *)
(* built from them (Conditions), for every choice of dimensions, windows   *)
(* and comparison values.                                                  *)
(***************************************************************************)
EXTENDS Conditions, TLAPS

(* Bounds are totally ordered; Lt is the strict part of Le.                *)
LEMMA Order ==
  ASSUME NEW a \in Bounds, NEW b \in Bounds
  PROVE  /\ Lt(a, b) <=> ~Le(b, a)
         /\ Le(a, b) \/ Le(b, a)
         /\ Le(a, a)
BY InfinityAssumption, SMTT(30) DEF Lt, Le, Infinity, Bounds

(* Transitivity, for the bounds of an integer.                             *)
LEMMA Chain ==
  ASSUME NEW a \in Bounds, NEW b \in Bounds, NEW x \in Int
  PROVE  /\ Le(a, b) /\ Le(b, x) => Le(a, x)
         /\ Lt(x, a) /\ Le(a, b) => Lt(x, b)
         /\ Lt(x, a) <=> ~Le(a, x)
BY InfinityAssumption, SMTT(30) DEF Lt, Le, Infinity, Bounds

(* The larger of two bounds is passed when both are.                       *)
LEMMA Extremes ==
  ASSUME NEW a \in Bounds, NEW b \in Bounds, NEW x \in Int
  PROVE  /\ Larger(a, b) \in Bounds /\ Smaller(a, b) \in Bounds
         /\ Le(Larger(a, b), x) <=> Le(a, x) /\ Le(b, x)
         /\ Lt(x, Smaller(a, b)) <=> Lt(x, a) /\ Lt(x, b)
<1>1. Larger(a, b) \in Bounds /\ Smaller(a, b) \in Bounds
  BY DEF Larger, Smaller
<1>2. Le(Larger(a, b), x) <=> Le(a, x) /\ Le(b, x)
  BY Order, Chain DEF Larger
<1>3. Lt(x, Smaller(a, b)) <=> Lt(x, a) /\ Lt(x, b)
  BY Order, Chain DEF Smaller
<1> QED BY <1>1, <1>2, <1>3

(* UnitRange(a, b) holds the integers from a up to b, whether or not it is *)
(* normalised to the empty range.                                          *)
LEMMA Interval ==
  ASSUME NEW a \in Bounds, NEW b \in Bounds, NEW x \in Int
  PROVE  InRange(x, UnitRange(a, b)) <=> Le(a, x) /\ Lt(x, b)
<1>1. CASE Lt(a, b)
  BY <1>1 DEF InRange, UnitRange
<1>2. CASE ~Lt(a, b)
  <2>1. ~InRange(x, UnitRange(a, b))
    BY <1>2, InfinityAssumption, SMTT(30) DEF InRange, UnitRange, Lt, Le, Infinity
  <2>2. Le(b, a)
    BY <1>2, Order
  <2>3. ~(Le(a, x) /\ Lt(x, b))
    BY <2>2, Chain
  <2> QED BY <2>1, <2>3
<1> QED BY <1>1, <1>2

RawRange == [start : Bounds, stop : Bounds]
Normal(r) == r \in RawRange /\ r = UnitRange(r.start, r.stop)

(* The constructor of UnitRange normalises.                                *)
LEMMA UnitRangeNormal ==
  ASSUME NEW a \in Bounds, NEW b \in Bounds
  PROVE  Normal(UnitRange(a, b))
BY InfinityAssumption, SMTT(30) DEF Normal, RawRange, UnitRange, Lt, Infinity, Bounds

(* Every bound an integer or infinite range is shifted by stays a bound.   *)
LEMMA InfiniteHoldsAll ==
  /\ Normal(Infinite)
  /\ \A x \in Int : InRange(x, Infinite)
<1>1. NEGATIVE \in Bounds /\ POSITIVE \in Bounds
  BY DEF Bounds, Infinity
<1>2. Normal(Infinite)
  BY <1>1, UnitRangeNormal DEF Infinite
<1>3. ASSUME NEW x \in Int PROVE InRange(x, Infinite)
  <2>1. Le(NEGATIVE, x) /\ Lt(x, POSITIVE)
    BY InfinityAssumption DEF Le, Lt, Infinity
  <2> QED BY <1>1, <2>1, Interval DEF Infinite
<1> QED BY <1>2, <1>3

-----------------------------------------------------------------------------
(* UnitRange.__and__ is the intersection, also when it is empty and        *)
(* normalised to (0, 0).                                                   *)
LEMMA RangeAndExact ==
  ASSUME NEW r \in RawRange, NEW s \in RawRange, NEW x \in Int
  PROVE  /\ Normal(RangeAnd(r, s))
         /\ InRange(x, RangeAnd(r, s)) <=> InRange(x, r) /\ InRange(x, s)
<1>1. /\ r.start \in Bounds /\ r.stop \in Bounds
      /\ s.start \in Bounds /\ s.stop \in Bounds
  BY DEF RawRange
<1>2. Larger(r.start, s.start) \in Bounds /\ Smaller(r.stop, s.stop) \in Bounds
  BY <1>1, Extremes
<1>3. Normal(RangeAnd(r, s))
  BY <1>2, UnitRangeNormal DEF RangeAnd
<1>4. InRange(x, RangeAnd(r, s))
        <=> Le(Larger(r.start, s.start), x) /\ Lt(x, Smaller(r.stop, s.stop))
  BY <1>2, Interval DEF RangeAnd
<1>5. /\ Le(Larger(r.start, s.start), x) <=> Le(r.start, x) /\ Le(s.start, x)
      /\ Lt(x, Smaller(r.stop, s.stop)) <=> Lt(x, r.stop) /\ Lt(x, s.stop)
  BY <1>1, Extremes
<1> QED BY <1>3, <1>4, <1>5 DEF InRange

(* UnitRange.__add__ and __sub__ translate: a shifted range holds x when   *)
(* the range holds x moved back.  Infinite bounds stay where they are.     *)
THEOREM ShiftExact ==
  ASSUME NEW r \in RawRange, NEW k \in Int, NEW x \in Int
  PROVE  InRange(x, RangeShift(r, k)) <=> InRange(x - k, r)
<1>1. r.start \in Bounds /\ r.stop \in Bounds
  BY DEF RawRange
<1>2. \A a \in Bounds : /\ Plus(a, k) \in Bounds
                        /\ Le(Plus(a, k), x) <=> Le(a, x - k)
                        /\ Lt(x, Plus(a, k)) <=> Lt(x - k, a)
  BY InfinityAssumption, SMTT(30) DEF Plus, Le, Lt, Infinity, Bounds
<1>3. InRange(x, RangeShift(r, k))
        <=> Le(Plus(r.start, k), x) /\ Lt(x, Plus(r.stop, k))
  BY <1>1, <1>2, Interval DEF RangeShift
<1> QED BY <1>1, <1>2, <1>3 DEF InRange

(* _invert_domain splits the integers: an integer is in the range or in    *)
(* exactly one of the ranges of its inverse.                               *)
THEOREM InverseIsComplement ==
  ASSUME NEW r, Normal(r), NEW x \in Int
  PROVE  /\ InRange(x, r) <=> ~\E s \in InvertRange(r) : InRange(x, s)
         /\ \A s, t \in InvertRange(r) : InRange(x, s) /\ InRange(x, t) => s = t
<1>1. r \in RawRange /\ r.start \in Bounds /\ r.stop \in Bounds
  BY DEF Normal, RawRange
<1>2. NEGATIVE \in Bounds /\ POSITIVE \in Bounds
  BY DEF Bounds, Infinity
<1>3. /\ Le(NEGATIVE, x) /\ Lt(x, POSITIVE)
      /\ ~Lt(x, NEGATIVE) /\ ~Le(POSITIVE, x)
  BY InfinityAssumption, SMTT(30) DEF Le, Lt, Infinity
<1>4. CASE IsEmpty(r)
  <2>1. ~InRange(x, r)
    BY <1>4, InfinityAssumption, SMTT(30) DEF IsEmpty, InRange, Le, Lt, Infinity
  <2>2. InvertRange(r) = {Infinite}
    BY <1>4 DEF InvertRange
  <2> QED BY <2>1, <2>2, InfiniteHoldsAll
<1>5. CASE ~IsEmpty(r)
  <2> DEFINE below == UnitRange(NEGATIVE, r.start)
             above == UnitRange(r.stop, POSITIVE)
  <2>1. InRange(x, below) <=> ~Le(r.start, x)
    BY <1>1, <1>2, <1>3, Interval, Chain
  <2>2. InRange(x, above) <=> ~Lt(x, r.stop)
    BY <1>1, <1>2, <1>3, Interval, Chain
  <2>3. ~(InRange(x, below) /\ InRange(x, above))
    <3>1. Lt(r.start, r.stop)
      BY <1>5, SMTT(30) DEF Normal, UnitRange, IsEmpty
    <3> QED BY <1>1, <3>1, <2>1, <2>2, Order, Chain
  <2>4. \A s : s \in InvertRange(r) <=> \/ LeftFinite(r) /\ s = below
                                        \/ RightFinite(r) /\ s = above
    BY <1>5, Zenon DEF InvertRange
  <2>5. ~LeftFinite(r) => Le(r.start, x)
    BY <1>3 DEF LeftFinite
  <2>6. ~RightFinite(r) => Lt(x, r.stop)
    BY <1>3 DEF RightFinite
  <2>7. InRange(x, r) <=> Le(r.start, x) /\ Lt(x, r.stop)
    BY DEF InRange
  <2> HIDE DEF below, above
  <2>8. InRange(x, r) <=> ~\E s \in InvertRange(r) : InRange(x, s)
    BY <2>1, <2>2, <2>4, <2>5, <2>6, <2>7
  <2>9. \A s, t \in InvertRange(r) : InRange(x, s) /\ InRange(x, t) => s = t
    BY <2>3, <2>4
  <2> QED BY <2>8, <2>9
<1> QED BY <1>4, <1>5

-----------------------------------------------------------------------------
(* The points of a window have integer positions.                          *)
LEMMA PointsAreIntegers ==
  \A p \in CondPoints : \A d \in CutDims : p[d] \in Int
<1>1. CutDims \in SUBSET DOMAIN Window
  BY ConditionAssumption
<1>2. CondPoints = {p \in [CutDims -> UNION {Window[d] : d \in CutDims}] :
                      \A d \in CutDims : p[d] \in Window[d]}
  BY <1>1 DEF CondPoints, Points, PointTable
<1> QED BY <1>2, ConditionAssumption

DomainOK(A) == DOMAIN A \subseteq CutDims /\ \A d \in DOMAIN A : Normal(A[d])

(* A comparison selects the points where it holds.                         *)
LEMMA CompareExact ==
  ASSUME NEW d \in CutDims, NEW op \in Comparisons, NEW v \in Cuts
  PROVE  /\ DOMAIN Compare(d, op, v) = {d}
         /\ Normal(Compare(d, op, v)[d])
         /\ PointsOf(Compare(d, op, v)) = WhereHolds(d, op, v)
<1>1. v \in Int /\ v \in Bounds /\ v + 1 \in Bounds
  BY ConditionAssumption DEF Bounds
<1>2. NEGATIVE \in Bounds /\ POSITIVE \in Bounds
  BY DEF Bounds, Infinity
<1>3. DOMAIN Compare(d, op, v) = {d}
  BY DEF Compare
<1> DEFINE r == Compare(d, op, v)[d]
<1>4. /\ op = "lt" => r = UnitRange(NEGATIVE, v)
      /\ op = "le" => r = UnitRange(NEGATIVE, v + 1)
      /\ op = "gt" => r = UnitRange(v + 1, POSITIVE)
      /\ op = "ge" => r = UnitRange(v, POSITIVE)
      /\ op = "eq" => r = UnitRange(v, v + 1)
  BY SMTT(30) DEF Compare
<1>5. op \in {"lt", "le", "gt", "ge", "eq"}
  BY DEF Comparisons
<1>6. Normal(r)
  BY <1>1, <1>2, <1>4, <1>5, UnitRangeNormal
<1>7. ASSUME NEW x \in Int PROVE InRange(x, r) <=> Holds(op, x, v)
  <2>1. /\ Le(NEGATIVE, x) /\ Lt(x, POSITIVE)
        /\ \A n \in Int : (Le(n, x) <=> n <= x) /\ (Lt(x, n) <=> x < n)
    BY InfinityAssumption, SMTT(30) DEF Le, Lt, Infinity
  <2>2. \A a, b \in Bounds : InRange(x, UnitRange(a, b)) <=> Le(a, x) /\ Lt(x, b)
    BY Interval
  <2>3. /\ op = "lt" => (InRange(x, r) <=> x < v)
        /\ op = "le" => (InRange(x, r) <=> x < v + 1)
        /\ op = "gt" => (InRange(x, r) <=> v + 1 <= x)
        /\ op = "ge" => (InRange(x, r) <=> v <= x)
        /\ op = "eq" => (InRange(x, r) <=> v <= x /\ x < v + 1)
    BY <1>1, <1>2, <1>4, <2>1, <2>2, v + 1 \in Int
  <2> HIDE DEF r
  <2>4. CASE op = "lt" BY <1>1, <2>3, <2>4 DEF Holds
  <2>5. CASE op = "le" BY <1>1, <2>3, <2>5 DEF Holds
  <2>6. CASE op = "gt" BY <1>1, <2>3, <2>6 DEF Holds
  <2>7. CASE op = "ge" BY <1>1, <2>3, <2>7 DEF Holds
  <2>8. CASE op = "eq" BY <1>1, <2>3, <2>8 DEF Holds
  <2> QED BY <1>5, <2>4, <2>5, <2>6, <2>7, <2>8
<1> HIDE DEF r
<1>8. PointsOf(Compare(d, op, v)) = {p \in CondPoints : InRange(p[d], r)}
  BY <1>3 DEF PointsOf, r
<1>9. PointsOf(Compare(d, op, v)) = WhereHolds(d, op, v)
  BY <1>7, <1>8, PointsAreIntegers DEF WhereHolds
<1> QED BY <1>3, <1>6, <1>9 DEF r

(* Domain.__and__ is the intersection: it has the dimensions of both       *)
(* domains, its ranges are normalised, and a point is in it exactly if it  *)
(* is in both; a dimension that one of them lacks is unconstrained there.  *)
THEOREM IntersectionExact ==
  ASSUME NEW A, NEW B,
         \A d \in DOMAIN A : A[d] \in RawRange,
         \A d \in DOMAIN B : B[d] \in RawRange,
         NEW p, \A d \in DOMAIN A \cup DOMAIN B : p[d] \in Int
  PROVE  /\ DOMAIN DomainAnd(A, B) = DOMAIN A \cup DOMAIN B
         /\ \A d \in DOMAIN DomainAnd(A, B) : Normal(DomainAnd(A, B)[d])
         /\ (\A d \in DOMAIN DomainAnd(A, B) : InRange(p[d], DomainAnd(A, B)[d]))
              <=> /\ \A d \in DOMAIN A : InRange(p[d], A[d])
                  /\ \A d \in DOMAIN B : InRange(p[d], B[d])
<1> DEFINE D == DOMAIN A \cup DOMAIN B
<1>1. DOMAIN DomainAnd(A, B) = D
  BY DEF DomainAnd
<1>2. \A d \in D : DomainAnd(A, B)[d] = RangeAnd(RangeOf(A, d), RangeOf(B, d))
  BY DEF DomainAnd
<1>3. \A d \in D : RangeOf(A, d) \in RawRange /\ RangeOf(B, d) \in RawRange
  BY InfiniteHoldsAll DEF RangeOf, Normal
<1>4. \A d \in D : /\ Normal(DomainAnd(A, B)[d])
                   /\ InRange(p[d], DomainAnd(A, B)[d])
                        <=> InRange(p[d], RangeOf(A, d)) /\ InRange(p[d], RangeOf(B, d))
  BY <1>2, <1>3, RangeAndExact
<1>5. \A d \in D : /\ d \notin DOMAIN A => InRange(p[d], RangeOf(A, d))
                   /\ d \notin DOMAIN B => InRange(p[d], RangeOf(B, d))
  BY InfiniteHoldsAll DEF RangeOf
<1>6. /\ \A d \in DOMAIN A : RangeOf(A, d) = A[d]
      /\ \A d \in DOMAIN B : RangeOf(B, d) = B[d]
  BY DEF RangeOf
<1>7. (\A d \in D : InRange(p[d], DomainAnd(A, B)[d]))
        <=> /\ \A d \in DOMAIN A : InRange(p[d], A[d])
            /\ \A d \in DOMAIN B : InRange(p[d], B[d])
  BY <1>4, <1>5, <1>6
<1> QED BY <1>1, <1>4, <1>7

(* The conjunction of two conditions, on the window.                       *)
LEMMA DomainAndExact ==
  ASSUME NEW A, NEW B, DomainOK(A), DomainOK(B)
  PROVE  /\ DOMAIN DomainAnd(A, B) = DOMAIN A \cup DOMAIN B
         /\ DomainOK(DomainAnd(A, B))
         /\ PointsOf(DomainAnd(A, B)) = PointsOf(A) \cap PointsOf(B)
<1> DEFINE D == DOMAIN A \cup DOMAIN B
<1>1. /\ \A d \in DOMAIN A : d \in CutDims /\ A[d] \in RawRange
      /\ \A d \in DOMAIN B : d \in CutDims /\ B[d] \in RawRange
  BY DEF DomainOK, Normal
<1>2. \A p : (\A d \in D : p[d] \in Int) =>
        /\ DOMAIN DomainAnd(A, B) = D
        /\ \A d \in D : Normal(DomainAnd(A, B)[d])
        /\ (\A d \in D : InRange(p[d], DomainAnd(A, B)[d]))
             <=> /\ \A d \in DOMAIN A : InRange(p[d], A[d])
                 /\ \A d \in DOMAIN B : InRange(p[d], B[d])
  BY <1>1, IntersectionExact
<1>3. DOMAIN DomainAnd(A, B) = D /\ \A d \in D : Normal(DomainAnd(A, B)[d])
  <2>1. \A d \in D : [x \in D |-> 0][d] \in Int
    OBVIOUS
  <2> QED BY <1>2, <2>1
<1>4. DomainOK(DomainAnd(A, B))
  BY <1>1, <1>3 DEF DomainOK
<1>5. \A p \in CondPoints : \A d \in D : p[d] \in Int
  BY <1>1, PointsAreIntegers
<1>6. PointsOf(DomainAnd(A, B)) = PointsOf(A) \cap PointsOf(B)
  BY <1>2, <1>3, <1>5 DEF PointsOf
<1> QED BY <1>3, <1>4, <1>6

(* Domain.__or__ of two domains over one dimension, neither of which ends  *)
(* inside the other.                                                       *)
LEMMA DomainOrExact ==
  ASSUME NEW A, NEW B, NEW d \in CutDims, DomainOK(A), DomainOK(B),
         DOMAIN A # {}, DOMAIN B = {d}, CanUnite(A, B)
  PROVE  /\ DOMAIN DomainOr(A, B) = {d}
         /\ DomainOK(DomainOr(A, B))
         /\ ~Nested(A, B) => PointsOf(DomainOr(A, B)) = PointsOf(A) \cup PointsOf(B)
<1>1. DOMAIN A = {d}
  BY DEF CanUnite
<1>2. OnlyDim(A) = d
  BY <1>1 DEF OnlyDim
<1> DEFINE f == FirstOf(A, B, d)
           g == SecondOf(A, B, d)
<1>3. Le(g.start, f.stop)
  BY <1>1, <1>2 DEF CanUnite
<1>4. /\ A[d] \in RawRange /\ B[d] \in RawRange
      /\ {f, g} = {A[d], B[d]}
  BY <1>1 DEF DomainOK, Normal, FirstOf, SecondOf
<1>5. /\ f.start \in Bounds /\ f.stop \in Bounds
      /\ g.start \in Bounds /\ g.stop \in Bounds
  BY <1>4 DEF RawRange
<1>6. Le(f.start, g.start)
  <2>1. A[d].start \in Bounds /\ B[d].start \in Bounds
    BY <1>4 DEF RawRange
  <2>2. CASE Lt(B[d].start, A[d].start)
    BY <2>1, <2>2, Order DEF FirstOf, SecondOf
  <2>3. CASE ~Lt(B[d].start, A[d].start)
    BY <2>1, <2>3, Order DEF FirstOf, SecondOf
  <2> QED BY <2>2, <2>3
<1>7. /\ DOMAIN DomainOr(A, B) = {d}
      /\ DomainOr(A, B)[d] = UnitRange(f.start, g.stop)
  BY <1>1 DEF DomainOr
<1>8. Nested(A, B) <=> Lt(g.stop, f.stop)
  BY <1>1 DEF Nested
<1> HIDE DEF f, g
<1>9. DomainOK(DomainOr(A, B))
  BY <1>5, <1>7, UnitRangeNormal DEF DomainOK
<1>10. ASSUME ~Nested(A, B), NEW x \in Int
       PROVE  InRange(x, UnitRange(f.start, g.stop)) <=> InRange(x, A[d]) \/ InRange(x, B[d])
  <2>1. Le(f.stop, g.stop)
    BY <1>5, <1>8, <1>10, Order
  <2>2. InRange(x, UnitRange(f.start, g.stop)) <=> Le(f.start, x) /\ Lt(x, g.stop)
    BY <1>5, Interval
  <2>3. /\ InRange(x, f) <=> Le(f.start, x) /\ Lt(x, f.stop)
        /\ InRange(x, g) <=> Le(g.start, x) /\ Lt(x, g.stop)
    BY DEF InRange
  <2>4. Le(g.start, x) => Le(f.start, x)
    BY <1>5, <1>6, Chain
  <2>5. Lt(x, f.stop) => Lt(x, g.stop)
    BY <1>5, <2>1, Chain
  <2>6. ~Lt(x, f.stop) => Le(g.start, x)
    BY <1>3, <1>5, Chain
  <2>7. InRange(x, f) \/ InRange(x, g) <=> InRange(x, A[d]) \/ InRange(x, B[d])
    BY <1>4
  <2> QED BY <2>2, <2>3, <2>4, <2>5, <2>6, <2>7
<1>11. ASSUME ~Nested(A, B)
       PROVE  PointsOf(DomainOr(A, B)) = PointsOf(A) \cup PointsOf(B)
  BY <1>1, <1>7, <1>10, <1>11, PointsAreIntegers DEF PointsOf
<1> QED BY <1>7, <1>9, <1>11

-----------------------------------------------------------------------------
IInv ==
  /\ CondTypeOK
  /\ condSteps > 0 => DOMAIN cond # {}
  /\ ConditionHolds

(* A well-typed condition is a domain of normal ranges.                    *)
LEMMA CondTypeDomain == CondTypeOK => DomainOK(cond)
BY DEF CondTypeOK, DomainOK, Normal, RawRange

(* The condition that holds everywhere satisfies the invariant.            *)
LEMMA InitIInv == CondInit => IInv
<1> SUFFICES ASSUME CondInit PROVE IInv
  OBVIOUS
<1>1. DOMAIN cond = {} /\ condSteps = 0 /\ nested = FALSE /\ condRef = CondPoints
  BY DEF CondInit, Everywhere
<1>2. PointsOf(cond) = CondPoints
  BY <1>1 DEF PointsOf
<1>3. MaxCond \in Nat
  BY ConditionAssumption
<1>4. condSteps \in 0 .. MaxCond
  BY <1>1, <1>3
<1>5. nested \in BOOLEAN
  BY <1>1, Zenon
<1>6. CondTypeOK
  BY <1>1, <1>4, <1>5, Zenon DEF CondTypeOK
<1> QED BY <1>1, <1>2, <1>6 DEF IInv, ConditionHolds

(* So does every condition built from comparisons, intersections and       *)
(* unions.                                                                 *)
LEMMA NextIInv == IInv /\ [CondNext]_condVars => IInv'
<1> SUFFICES ASSUME IInv, [CondNext]_condVars PROVE IInv'
  OBVIOUS
<1>1. CASE UNCHANGED condVars
  BY <1>1 DEF IInv, CondTypeOK, ConditionHolds, PointsOf, condVars
<1>2. ASSUME NEW d \in CutDims, NEW op \in Comparisons, NEW v \in Cuts,
             DoCompare(d, op, v) \/ DoAnd(d, op, v) \/ DoOr(d, op, v)
      PROVE  IInv'
  <2> DEFINE B == Compare(d, op, v)
  <2> HIDE DEF B
  <2>a. /\ DOMAIN B = {d} /\ Normal(B[d])
        /\ PointsOf(B) = WhereHolds(d, op, v)
    BY CompareExact DEF B
  <2>1. /\ DOMAIN B = {d} /\ DomainOK(B)
        /\ PointsOf(B) = WhereHolds(d, op, v)
    BY <2>a DEF DomainOK
  <2>2. DomainOK(cond) /\ (~nested => PointsOf(cond) = condRef)
    BY CondTypeDomain DEF IInv, ConditionHolds
  <2>3. /\ condSteps \in 0 .. MaxCond /\ MaxCond \in Nat /\ nested \in BOOLEAN
        /\ condRef \subseteq CondPoints
    BY ConditionAssumption DEF IInv, CondTypeOK
  <2>4. WhereHolds(d, op, v) \subseteq CondPoints
    BY DEF WhereHolds
  <2>5. SUFFICES /\ DomainOK(cond') /\ DOMAIN cond' # {}
                 /\ condRef' \subseteq CondPoints
                 /\ condSteps' \in 0 .. MaxCond
                 /\ nested' \in BOOLEAN
                 /\ ~nested' => PointsOf(cond') = condRef'
    BY DEF IInv, CondTypeOK, ConditionHolds, DomainOK, Normal, RawRange, PointsOf
  <2>6. CASE DoCompare(d, op, v)
    <3>1. cond' = B /\ condRef' = WhereHolds(d, op, v) /\ nested' = nested
          /\ condSteps' = 1 /\ MaxCond > 0
      BY <2>6 DEF DoCompare, B
    <3> QED BY <3>1, <2>1, <2>3, <2>4
  <2>7. CASE DoAnd(d, op, v)
    <3>1. /\ cond' = DomainAnd(cond, B) /\ nested' = nested
          /\ condRef' = condRef \cap WhereHolds(d, op, v)
          /\ condSteps' = condSteps + 1 /\ condSteps < MaxCond
      BY <2>7 DEF DoAnd, B
    <3>2. /\ DomainOK(cond') /\ DOMAIN cond' # {}
          /\ PointsOf(cond') = PointsOf(cond) \cap PointsOf(B)
      BY <3>1, <2>1, <2>2, DomainAndExact
    <3> QED BY <3>1, <3>2, <2>1, <2>2, <2>3
  <2>8. CASE DoOr(d, op, v)
    <3>1. /\ cond' = DomainOr(cond, B)
          /\ condRef' = condRef \cup WhereHolds(d, op, v)
          /\ condSteps' = condSteps + 1 /\ condSteps < MaxCond /\ condSteps > 0
          /\ CanUnite(cond, B)
      BY <2>8 DEF DoOr, B
    <3>2. nested' = (nested \/ Nested(cond, B))
      BY <2>8, Zenon DEF DoOr, B
    <3>3. DOMAIN cond # {}
      BY <3>1 DEF IInv
    <3>4. /\ DOMAIN cond' = {d} /\ DomainOK(cond')
          /\ ~Nested(cond, B) => PointsOf(cond') = PointsOf(cond) \cup PointsOf(B)
      BY <3>1, <3>3, <2>1, <2>2, DomainOrExact
    <3>5. nested' \in BOOLEAN
      BY <3>2, <2>3, Zenon
    <3>6. ~nested' => ~nested /\ ~Nested(cond, B)
      BY <3>2, Zenon
    <3> QED BY <3>1, <3>4, <3>5, <3>6, <2>1, <2>2, <2>3, <2>4
  <2> QED BY <1>2, <2>6, <2>7, <2>8
<1> QED BY <1>1, <1>2 DEF CondNext

(* Conditions are always over the compared dimensions, with normalised     *)
(* ranges (UnitRange.__init__).                                            *)
THEOREM ConditionTypeCorrect == CondSpec => []CondTypeOK
<1>1. IInv => CondTypeOK
  BY DEF IInv
<1> QED BY InitIInv, NextIInv, <1>1, PTL DEF CondSpec

(* A condition built with comparisons, & and | (next/common.py) selects    *)
(* exactly the points its operators say, in every window and for every     *)
(* number of operators, until a union of nested ranges is taken.           *)
THEOREM ConditionsAreExact == CondSpec => []ConditionHolds
<1>1. IInv => ConditionHolds
  BY DEF IInv
<1> QED BY InitIInv, NextIInv, <1>1, PTL DEF CondSpec
=============================================================================
