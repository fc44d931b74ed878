------------------------ MODULE EmbeddedFieldsProofs ------------------------
(***************************************************************************)
(* Proofs about the operations of embedded fields (Fields) and about field *)
(* programs (EmbeddedFields), for every choice of dimensions, fields,      *)
(* connectivities, indexes and windows.                                    *)
(***************************************************************************)
EXTENDS EmbeddedFields, ConditionsProofs, FiniteSetTheorems, WellFoundedInduction

(* Ranges holds the normalised ranges.                                     *)
LEMMA RangesNormal ==
  /\ \A r : r \in Ranges <=> Normal(r)
  /\ \A a, b \in Bounds : UnitRange(a, b) \in Ranges
  /\ Infinite \in Ranges
<1>1. \A r : r \in Ranges <=> Normal(r)
  BY DEF Ranges, Normal, RawRange
<1> QED BY <1>1, UnitRangeNormal, InfiniteHoldsAll

(* A bounded range has integer bounds.                                     *)
LEMMA FiniteRange ==
  ASSUME NEW r \in Ranges, IsFinite(r)
  PROVE  r.start \in Int /\ r.stop \in Int /\ RangeLen(r) \in Nat
BY InfinityAssumption, SMTT(30) DEF Ranges, IsFinite, LeftFinite, RightFinite, UnitRange, Lt,
     Infinity, Bounds, RangeLen

(* The members of a bounded range.                                         *)
LEMMA FiniteMembers ==
  ASSUME NEW r \in Ranges, IsFinite(r), NEW x \in Int
  PROVE  InRange(x, r) <=> r.start <= x /\ x < r.stop
BY FiniteRange, InfinityAssumption, SMTT(30) DEF InRange, Le, Lt, Infinity

(* Ok and Raise are told apart by their error.                             *)
LEMMA Results ==
  /\ \A v : IsOk(Ok(v)) /\ Ok(v).val = v
  /\ \A e : IsOk(Raise(e)) <=> e = "none"
BY DEF IsOk, Ok, Raise

(* What from_array asserts.                                                *)
LEMMA FromArrayOk ==
  ASSUME NEW a, NEW dom, IsOk(FromArray(a, dom))
  PROVE  /\ DOMAIN a.shape = DOMAIN dom
         /\ \A d \in DOMAIN dom : a.shape[d] # 1 => IsFinite(dom[d]) /\ RangeLen(dom[d]) = a.shape[d]
         /\ FromArray(a, dom) = Ok([domain |-> dom, arr |-> a])
         /\ FromArray(a, dom).val = [domain |-> dom, arr |-> a]
BY Results DEF FromArray

(* Where a subscript starts and ends on each axis, and the shape it leaves. *)
AxisLow(a, slices, d)  == IF d \in DOMAIN slices THEN Low(slices[d], a.shape[d]) ELSE 0
AxisHigh(a, slices, d) == IF d \in DOMAIN slices THEN High(slices[d], a.shape[d]) ELSE a.shape[d]
SubShape(a, slices, ints) ==
  [d \in DOMAIN a.shape \ DOMAIN ints |->
     IF AxisHigh(a, slices, d) > AxisLow(a, slices, d)
     THEN AxisHigh(a, slices, d) - AxisLow(a, slices, d) ELSE 0]
SubAt(a, slices, ints, i) ==
  [d \in DOMAIN a.shape |->
     IF d \in DOMAIN ints THEN Wrap(ints[d], a.shape[d]) ELSE i[d] + AxisLow(a, slices, d)]

Sub(a, slices, ints) == Subscript(a, slices, ints, IsInt)

(* What a subscript that does not raise returns.                           *)
LEMMA SubscriptOk ==
  ASSUME NEW a, NEW slices, NEW ints, IsOk(Sub(a, slices, ints))
  PROVE  /\ \A d \in DOMAIN slices : /\ slices[d].lo = None \/ IsInt(slices[d].lo)
                                     /\ slices[d].hi = None \/ IsInt(slices[d].hi)
         /\ \A d \in DOMAIN ints : InArray(ints[d], a.shape[d])
         /\ Sub(a, slices, ints).val =
              [shape |-> SubShape(a, slices, ints),
               at |-> [i \in Indices(SubShape(a, slices, ints)) |-> a.at[SubAt(a, slices, ints, i)]]]
<1> DEFINE bad1 == \E d \in DOMAIN slices : \E x \in {slices[d].lo, slices[d].hi} :
                     ~IsInt(x) /\ x # None
           bad2 == \E d \in DOMAIN ints : ~InArray(ints[d], a.shape[d])
           res == [shape |-> SubShape(a, slices, ints),
                   at |-> [i \in Indices(SubShape(a, slices, ints)) |-> a.at[SubAt(a, slices, ints, i)]]]
<1>1. Sub(a, slices, ints) =
        IF bad1 THEN Raise("TypeError") ELSE IF bad2 THEN Raise("IndexError") ELSE Ok(res)
  BY Zenon DEF Sub, Subscript, Array, SubShape, SubAt, AxisLow, AxisHigh
<1> HIDE DEF bad1, bad2, res
<1>2. ~bad1 /\ ~bad2 /\ Sub(a, slices, ints).val = res
  BY <1>1, Results
<1> QED BY <1>2 DEF bad1, bad2, res

(* The index tuples of a shape.                                            *)
LEMMA IndexTuples ==
  ASSUME NEW D, NEW shape \in [D -> Nat], NEW i
  PROVE  i \in Indices(shape) <=> i \in [D -> Nat] /\ \A d \in D : i[d] < shape[d]
<1> DEFINE U == UNION {0 .. shape[d] - 1 : d \in D}
<1>1. Indices(shape) = {j \in [D -> U] : \A d \in D : j[d] < shape[d]}
  BY DEF Indices
<1>2. ASSUME i \in [D -> Nat], \A d \in D : i[d] < shape[d]
      PROVE  i \in [D -> U]
  <2>1. \A d \in D : i[d] \in 0 .. shape[d] - 1
    BY <1>2
  <2>2. \A d \in D : i[d] \in U
    BY <2>1
  <2> QED BY <1>2, <2>2
<1>3. ASSUME i \in [D -> U] PROVE i \in [D -> Nat]
  <2>1. U \subseteq Nat
    OBVIOUS
  <2> QED BY <1>3, <2>1
<1> QED BY <1>1, <1>2, <1>3

(* Slicing an array yields an array, and reads the array at its indices.   *)
LEMMA SubscriptArray ==
  ASSUME NEW a, IsArray(a), NEW slices, NEW ints, IsOk(Sub(a, slices, ints)),
         \A d \in DOMAIN slices : /\ slices[d].lo \in Bounds \cup {None}
                                  /\ slices[d].hi \in Bounds \cup {None},
         \A d \in DOMAIN ints : ints[d] \in Int,
         DOMAIN ints \subseteq DOMAIN a.shape
  PROVE  LET b == Sub(a, slices, ints).val
         IN  /\ IsArray(b)
             /\ \A d \in DOMAIN a.shape : /\ AxisLow(a, slices, d) \in 0 .. a.shape[d]
                                          /\ AxisHigh(a, slices, d) \in 0 .. a.shape[d]
             /\ \A i \in Indices(b.shape) : SubAt(a, slices, ints, i) \in Indices(a.shape)
<1> DEFINE b == Sub(a, slices, ints).val
           D == DOMAIN a.shape
           E == D \ DOMAIN ints
<1>1. a.shape \in [D -> Nat] /\ a.at \in [Indices(a.shape) -> Int]
  BY DEF IsArray
<1>2. ASSUME NEW d \in D
      PROVE  /\ AxisLow(a, slices, d) \in 0 .. a.shape[d]
             /\ AxisHigh(a, slices, d) \in 0 .. a.shape[d]
  <2>1. CASE d \in DOMAIN slices
    <3>1. \A x \in {slices[d].lo, slices[d].hi} : x = None \/ x \in Int
      BY <2>1, SubscriptOk DEF IsInt, Bounds
    <3>2. a.shape[d] \in Nat
      BY <1>1
    <3>3. \A x \in Int : Clip(x, a.shape[d]) \in 0 .. a.shape[d]
      BY <3>2 DEF Clip
    <3> QED BY <2>1, <3>1, <3>2, <3>3 DEF AxisLow, AxisHigh, Low, High
  <2>2. CASE d \notin DOMAIN slices
    BY <1>1, <2>2 DEF AxisLow, AxisHigh
  <2> QED BY <2>1, <2>2
<1>3. /\ b.shape = SubShape(a, slices, ints)
      /\ b.at = [i \in Indices(SubShape(a, slices, ints)) |-> a.at[SubAt(a, slices, ints, i)]]
  <2>1. b = [shape |-> SubShape(a, slices, ints),
             at |-> [i \in Indices(SubShape(a, slices, ints)) |-> a.at[SubAt(a, slices, ints, i)]]]
    BY SubscriptOk
  <2> HIDE DEF b
  <2> QED BY <2>1
<1>4. b.shape \in [E -> Nat]
  BY <1>2, <1>3 DEF SubShape
<1>5. ASSUME NEW i \in Indices(b.shape)
      PROVE  SubAt(a, slices, ints, i) \in Indices(a.shape)
  <2>1. i \in [E -> Nat] /\ \A d \in E : i[d] < b.shape[d]
    BY <1>4, IndexTuples
  <2>2. ASSUME NEW d \in D
        PROVE  SubAt(a, slices, ints, i)[d] \in Nat /\ SubAt(a, slices, ints, i)[d] < a.shape[d]
    <3>1. CASE d \in DOMAIN ints
      <4>1. SubAt(a, slices, ints, i)[d] = Wrap(ints[d], a.shape[d])
        BY <3>1 DEF SubAt
      <4>2. InArray(ints[d], a.shape[d]) /\ ints[d] \in Int
        BY <3>1, SubscriptOk
      <4> QED BY <4>1, <4>2, <1>1 DEF InArray, Wrap
    <3>2. CASE d \notin DOMAIN ints
      <4>1. SubAt(a, slices, ints, i)[d] = i[d] + AxisLow(a, slices, d)
        BY <3>2 DEF SubAt
      <4>2. i[d] \in Nat /\ i[d] < b.shape[d]
        BY <2>1, <3>2
      <4>3. b.shape[d] = IF AxisHigh(a, slices, d) > AxisLow(a, slices, d)
                         THEN AxisHigh(a, slices, d) - AxisLow(a, slices, d) ELSE 0
        BY <1>3, <3>2 DEF SubShape
      <4> QED BY <4>1, <4>2, <4>3, <1>2, <1>1
    <3> QED BY <3>1, <3>2
  <2>3. SubAt(a, slices, ints, i) \in [D -> Nat]
    BY <2>2 DEF SubAt
  <2> QED BY <1>1, <2>2, <2>3, IndexTuples
<1>6. b.at \in [Indices(b.shape) -> Int]
  BY <1>1, <1>3, <1>5
<1>7. b.shape \in [DOMAIN b.shape -> Nat]
  BY <1>4
<1> QED BY <1>2, <1>5, <1>6, <1>7 DEF IsArray

(* The buffer position of a point: an axis of one element stands for its   *)
(* whole range.                                                            *)
Pos(a, dom, p) ==
  [d \in DOMAIN a.shape |-> IF a.shape[d] = 1 THEN 0 ELSE p[d] - dom[d].start]
Inside(dom, p) == \A d \in DOMAIN dom : p[d] \in Int /\ InRange(p[d], dom[d])
Fits(a, dom) ==
  \A d \in DOMAIN dom : a.shape[d] # 1 => IsFinite(dom[d]) /\ RangeLen(dom[d]) = a.shape[d]

(* One axis of a slice.  An axis of n elements holds the range `whole`; the *)
(* slice of the range r in it has m elements, and if these hold r, each    *)
(* position of r is found where it was.                                    *)
LEMMA SliceAxis ==
  ASSUME NEW whole \in Ranges, NEW r \in Ranges, NEW n \in Nat, NEW m \in Nat, NEW s,
         n # 1 => IsFinite(whole) /\ RangeLen(whole) = n,
         s = ComputeSlice(r, whole), s.lo = None \/ IsInt(s.lo), s.hi = None \/ IsInt(s.hi),
         m = IF High(s, n) > Low(s, n) THEN High(s, n) - Low(s, n) ELSE 0,
         Low(s, n) \in 0 .. n, High(s, n) \in 0 .. n,
         m # 1 => IsFinite(r) /\ RangeLen(r) = m,
         RangeWithin(r, whole),
         NEW x \in Int, InRange(x, r)
  PROVE  /\ InRange(x, whole)
         /\ (IF m = 1 THEN 0 ELSE x - r.start) + Low(s, n) = IF n = 1 THEN 0 ELSE x - whole.start
         /\ (IF m = 1 THEN 0 ELSE x - r.start) \in 0 .. m - 1
<1>0. /\ r.start \in Bounds /\ r.stop \in Bounds
      /\ whole.start \in Bounds /\ whole.stop \in Bounds
  BY DEF Ranges
<1>1. InRange(x, whole)
  BY <1>0, Chain DEF RangeWithin, InRange
<1>2. m # 0
  BY FiniteMembers, FiniteRange DEF RangeLen
<1>3. (IF m = 1 THEN 0 ELSE x - r.start) \in 0 .. m - 1
  BY <1>2, FiniteMembers, FiniteRange DEF RangeLen
<1>4. CASE n = 1
  <2>1. Low(s, n) \in {0, 1} /\ High(s, n) \in {0, 1}
    BY <1>4
  <2>2. Low(s, n) = 0 /\ m = 1
    BY <2>1, <1>2
  <2> QED BY <1>4, <1>1, <1>3, <2>2
<1>5. CASE n # 1
  <2>1. /\ IsFinite(whole) /\ RangeLen(whole) = n
        /\ whole.start \in Int /\ whole.stop \in Int
    BY <1>5, FiniteRange
  <2>2. IsFinite(r) /\ r.start \in Int /\ r.stop \in Int
    BY <2>1, <1>0, InfinityAssumption, FiniteRange, SMTT(30)
       DEF RangeWithin, Le, Infinity, Bounds, IsFinite, LeftFinite, RightFinite
  <2>3. whole.start <= r.start /\ r.stop <= whole.stop
    BY <2>1, <2>2, InfinityAssumption DEF RangeWithin, Le, Infinity
  <2>4. s.lo = r.start - whole.start /\ s.hi = r.stop - whole.start
    BY <2>1, <2>2, InfinityAssumption DEF ComputeSlice, Minus, IsFinite, Infinity
  <2>5. s.lo # None /\ s.hi # None
    BY <2>1, <2>2, <2>4, NoneAssumption DEF Bounds
  <2>6. r.start <= x /\ x < r.stop
    BY <2>2, FiniteMembers
  <2>7. Low(s, n) = r.start - whole.start /\ High(s, n) = r.stop - whole.start
    BY <2>1, <2>2, <2>3, <2>4, <2>5, <2>6 DEF Low, High, Clip, RangeLen
  <2>8. m = r.stop - r.start
    BY <2>1, <2>2, <2>6, <2>7
  <2>9. CASE m = 1
    <3>1. x = r.start
      BY <2>2, <2>6, <2>8, <2>9
    <3> QED BY <1>1, <1>3, <1>5, <2>1, <2>2, <2>7, <2>9, <3>1
  <2>10. CASE m # 1
    BY <1>1, <1>3, <1>5, <2>1, <2>2, <2>7, <2>10
  <2> QED BY <1>1, <1>3, <2>9, <2>10
<1> QED BY <1>1, <1>3, <1>4, <1>5

(* A field is read inside its buffer.                                      *)
LEMMA PosInBuffer ==
  ASSUME NEW a, IsArray(a), NEW dom, DOMAIN a.shape = DOMAIN dom, Fits(a, dom),
         \A d \in DOMAIN dom : dom[d] \in Ranges, NEW p, Inside(dom, p)
  PROVE  Pos(a, dom, p) \in Indices(a.shape)
<1>1. a.shape \in [DOMAIN dom -> Nat]
  BY DEF IsArray
<1>2. ASSUME NEW d \in DOMAIN dom
      PROVE  Pos(a, dom, p)[d] \in Nat /\ Pos(a, dom, p)[d] < a.shape[d]
  <2>1. p[d] \in Int /\ InRange(p[d], dom[d]) /\ dom[d] \in Ranges
    BY DEF Inside
  <2>2. CASE a.shape[d] = 1
    BY <2>2 DEF Pos
  <2>3. CASE a.shape[d] # 1
    <3>1. IsFinite(dom[d]) /\ RangeLen(dom[d]) = a.shape[d]
      BY <2>3 DEF Fits
    <3>2. dom[d].start <= p[d] /\ p[d] < dom[d].stop
      BY <2>1, <3>1, FiniteMembers
    <3>3. dom[d].start \in Int /\ dom[d].stop \in Int
      BY <2>1, <3>1, FiniteRange
    <3> QED BY <2>1, <2>3, <3>1, <3>2, <3>3 DEF Pos, RangeLen
  <2> QED BY <2>2, <2>3
<1>3. Pos(a, dom, p) \in [DOMAIN dom -> Nat]
  BY <1>2 DEF Pos
<1> QED BY <1>1, <1>2, <1>3, IndexTuples

(* What IsField says.                                                      *)
LEMMA FieldFacts ==
  ASSUME NEW g, IsField(g)
  PROVE  /\ IsArray(g.arr)
         /\ DOMAIN g.arr.shape = Dimensions(g)
         /\ Fits(g.arr, g.domain)
         /\ \A d \in Dimensions(g) : g.domain[d] \in Ranges /\ g.arr.shape[d] \in Nat
<1>1. IsArray(g.arr) /\ IsOk(FromArray(g.arr, g.domain))
  BY DEF IsField
<1>2. /\ DOMAIN g.arr.shape = DOMAIN g.domain
      /\ \A d \in DOMAIN g.domain :
           g.arr.shape[d] # 1 => IsFinite(g.domain[d]) /\ RangeLen(g.domain[d]) = g.arr.shape[d]
  BY <1>1, FromArrayOk, Zenon
<1>3. DOMAIN g.arr.shape = Dimensions(g) /\ Fits(g.arr, g.domain)
  BY <1>2 DEF Dimensions, Fits
<1> QED BY <1>1, <1>3 DEF IsField, IsArray

(* b is what a subscript of the buffer of g returns; it fits the domain    *)
(* dom.  On each axis, the position of p in b lies where the position of q *)
(* lies in the buffer of g.                                                *)
AxisKept(g, slices, b, dom, p, q, d) ==
  /\ q[d] \in Int /\ InRange(q[d], g.domain[d])
  /\ (IF b.shape[d] = 1 THEN 0 ELSE p[d] - dom[d].start) + AxisLow(g.arr, slices, d)
       = IF g.arr.shape[d] = 1 THEN 0 ELSE q[d] - g.domain[d].start
AxisDropped(g, ints, q, d) ==
  /\ q[d] \in Int /\ InRange(q[d], g.domain[d])
  /\ Wrap(ints[d], g.arr.shape[d]) =
       IF g.arr.shape[d] = 1 THEN 0 ELSE q[d] - g.domain[d].start
Moves(g, slices, ints, b, dom, p, q) ==
  /\ Inside(dom, p)
  /\ \A d \in DOMAIN dom : AxisKept(g, slices, b, dom, p, q, d)
  /\ \A d \in DOMAIN ints : AxisDropped(g, ints, q, d)
SubField(g, slices, ints, b, dom) ==
  /\ IsField(g)
  /\ DOMAIN slices \subseteq Dimensions(g) /\ DOMAIN ints \subseteq Dimensions(g)
  /\ \A d \in DOMAIN slices : /\ slices[d].lo \in Bounds \cup {None}
                              /\ slices[d].hi \in Bounds \cup {None}
  /\ \A d \in DOMAIN ints : ints[d] \in Int
  /\ IsOk(Sub(g.arr, slices, ints))
  /\ b = Sub(g.arr, slices, ints).val
  /\ DOMAIN dom = Dimensions(g) \ DOMAIN ints
  /\ \A d \in DOMAIN dom : dom[d] \in Ranges
  /\ Fits(b, dom)

(* The shape of the result, axis by axis.                                  *)
LEMMA SubFieldShape ==
  ASSUME NEW g, NEW slices, NEW ints, NEW b, NEW dom, SubField(g, slices, ints, b, dom)
  PROVE  /\ IsArray(b) /\ DOMAIN b.shape = DOMAIN dom
         /\ \A d \in Dimensions(g) : /\ AxisLow(g.arr, slices, d) \in 0 .. g.arr.shape[d]
                                     /\ AxisHigh(g.arr, slices, d) \in 0 .. g.arr.shape[d]
         /\ \A d \in DOMAIN dom :
              /\ b.shape[d] \in Nat
              /\ b.shape[d] = IF AxisHigh(g.arr, slices, d) > AxisLow(g.arr, slices, d)
                              THEN AxisHigh(g.arr, slices, d) - AxisLow(g.arr, slices, d) ELSE 0
         /\ \A i \in Indices(b.shape) : b.at[i] = g.arr.at[SubAt(g.arr, slices, ints, i)]
<1> USE DEF SubField
<1> DEFINE a == g.arr
           D == Dimensions(g)
<1>1. /\ IsArray(a) /\ DOMAIN a.shape = D
  BY FieldFacts
<1>2. /\ IsArray(b)
      /\ \A d \in D : /\ AxisLow(a, slices, d) \in 0 .. a.shape[d]
                      /\ AxisHigh(a, slices, d) \in 0 .. a.shape[d]
  BY <1>1, SubscriptArray
<1>3. b = [shape |-> SubShape(a, slices, ints),
           at |-> [i \in Indices(SubShape(a, slices, ints)) |-> a.at[SubAt(a, slices, ints, i)]]]
  BY SubscriptOk
<1>4. /\ b.shape = SubShape(a, slices, ints)
      /\ \A i \in Indices(b.shape) : b.at[i] = a.at[SubAt(a, slices, ints, i)]
  BY <1>3
<1>5. /\ DOMAIN b.shape = DOMAIN dom
      /\ \A d \in DOMAIN dom : b.shape[d] = IF AxisHigh(a, slices, d) > AxisLow(a, slices, d)
                                   THEN AxisHigh(a, slices, d) - AxisLow(a, slices, d) ELSE 0
  BY <1>4, <1>1 DEF SubShape
<1>6. \A d \in DOMAIN dom : b.shape[d] \in Nat
  BY <1>2, <1>5 DEF IsArray
<1> QED BY <1>2, <1>4, <1>5, <1>6

(* The new buffer read through the new domain is the old one read through  *)
(* the old domain.                                                         *)
LEMMA SubscriptReads ==
  ASSUME NEW g, NEW slices, NEW ints, NEW b, NEW dom, NEW p, NEW q,
         SubField(g, slices, ints, b, dom), Moves(g, slices, ints, b, dom, p, q)
  PROVE  /\ Inside(g.domain, q)
         /\ b.at[Pos(b, dom, p)] = g.arr.at[Pos(g.arr, g.domain, q)]
<1> USE DEF Moves
<1> DEFINE a == g.arr
           D == Dimensions(g)
<1>1. DOMAIN a.shape = D
  BY FieldFacts DEF SubField
<1>2. /\ DOMAIN dom = D \ DOMAIN ints /\ DOMAIN ints \subseteq D
      /\ Fits(b, dom) /\ \A d \in DOMAIN dom : dom[d] \in Ranges
  BY DEF SubField
<1>3. /\ IsArray(b) /\ DOMAIN b.shape = DOMAIN dom
      /\ \A i \in Indices(b.shape) : b.at[i] = a.at[SubAt(a, slices, ints, i)]
  BY SubFieldShape
<1>4. Pos(b, dom, p) \in Indices(b.shape)
  BY <1>2, <1>3, PosInBuffer
<1>5. ASSUME NEW d \in D
      PROVE  SubAt(a, slices, ints, Pos(b, dom, p))[d] = Pos(a, g.domain, q)[d]
  <2>1. Pos(a, g.domain, q)[d] = IF a.shape[d] = 1 THEN 0 ELSE q[d] - g.domain[d].start
    BY <1>1 DEF Pos
  <2>2. CASE d \in DOMAIN ints
    BY <1>1, <2>1, <2>2 DEF SubAt, AxisDropped
  <2>3. CASE d \notin DOMAIN ints
    <3>1. Pos(b, dom, p)[d] = IF b.shape[d] = 1 THEN 0 ELSE p[d] - dom[d].start
      BY <1>2, <1>3, <2>3 DEF Pos
    <3> QED BY <1>1, <1>2, <2>1, <2>3, <3>1 DEF SubAt, AxisKept
  <2> QED BY <2>2, <2>3
<1>6. SubAt(a, slices, ints, Pos(b, dom, p)) = Pos(a, g.domain, q)
  <2>1. /\ SubAt(a, slices, ints, Pos(b, dom, p)) = [d \in D |-> SubAt(a, slices, ints, Pos(b, dom, p))[d]]
        /\ Pos(a, g.domain, q) = [d \in D |-> Pos(a, g.domain, q)[d]]
    BY <1>1 DEF SubAt, Pos
  <2> QED BY <1>5, <2>1
<1>7. Inside(g.domain, q)
  BY <1>2 DEF Inside, Dimensions, AxisKept, AxisDropped
<1> QED BY <1>3, <1>4, <1>6, <1>7

(* The same for ranges `within` and positions `at` inside g, with the      *)
(* slices that correspond to them.                                         *)
Cutting(g, within, at, ints, b, dom, p, q) ==
  /\ SubField(g, SlicesFromDomain(g.domain, within), ints, b, dom)
  /\ DOMAIN within \subseteq Dimensions(g)
  /\ \A d \in DOMAIN within : /\ within[d] \in Ranges
                              /\ RangeWithin(within[d], g.domain[d])
  /\ DOMAIN ints = DOMAIN at
  /\ \A d \in DOMAIN at : /\ at[d] \in Int /\ InRange(at[d], g.domain[d])
                          /\ IsFinite(g.domain[d])
                          /\ ints[d] = at[d] - g.domain[d].start
  /\ \A d \in DOMAIN dom : dom[d] = IF d \in DOMAIN within THEN within[d] ELSE g.domain[d]
  /\ Inside(dom, p)
  /\ q = [d \in Dimensions(g) |-> IF d \in DOMAIN at THEN at[d] ELSE p[d]]

LEMMA RestrictReads ==
  ASSUME NEW g, NEW within, NEW at, NEW ints, NEW b, NEW dom, NEW p, NEW q,
         Cutting(g, within, at, ints, b, dom, p, q)
  PROVE  /\ Inside(g.domain, q)
         /\ b.at[Pos(b, dom, p)] = g.arr.at[Pos(g.arr, g.domain, q)]
<1> USE DEF Cutting
<1> DEFINE a == g.arr
           D == Dimensions(g)
           slices == SlicesFromDomain(g.domain, within)
<1>1. /\ IsField(g) /\ DOMAIN dom = D \ DOMAIN at /\ DOMAIN at \subseteq D
      /\ Fits(b, dom)
  BY DEF SubField
<1>2. /\ DOMAIN a.shape = D /\ Fits(a, g.domain)
      /\ \A d \in D : g.domain[d] \in Ranges /\ a.shape[d] \in Nat
  BY <1>1, FieldFacts
<1>3. /\ \A d \in DOMAIN dom : dom[d] = IF d \in DOMAIN within THEN within[d] ELSE g.domain[d]
      /\ \A d \in DOMAIN dom : dom[d] \in Ranges
  BY <1>1, <1>2 DEF SubDomain, Dimensions
<1>4. /\ DOMAIN slices = DOMAIN within
      /\ \A d \in DOMAIN within : slices[d] = ComputeSlice(within[d], g.domain[d])
  BY DEF SlicesFromDomain, Dimensions
<1>5. ASSUME NEW d \in DOMAIN dom PROVE AxisKept(g, slices, b, dom, p, q, d)
  <2>1. q[d] = p[d] /\ p[d] \in Int /\ InRange(p[d], dom[d])
    BY <1>1 DEF Inside
  <2>2. /\ AxisLow(a, slices, d) \in 0 .. a.shape[d]
        /\ AxisHigh(a, slices, d) \in 0 .. a.shape[d]
        /\ a.shape[d] \in Nat /\ b.shape[d] \in Nat /\ g.domain[d] \in Ranges
        /\ b.shape[d] = IF AxisHigh(a, slices, d) > AxisLow(a, slices, d)
                        THEN AxisHigh(a, slices, d) - AxisLow(a, slices, d) ELSE 0
    BY <1>1, <1>2, SubFieldShape
  <2>3. CASE d \in DOMAIN within
    <3>1. /\ dom[d] = within[d] /\ dom[d] \in Ranges
          /\ RangeWithin(dom[d], g.domain[d])
          /\ slices[d] = ComputeSlice(dom[d], g.domain[d])
      BY <1>3, <1>4, <2>3
    <3>2. /\ AxisLow(a, slices, d) = Low(slices[d], a.shape[d])
          /\ AxisHigh(a, slices, d) = High(slices[d], a.shape[d])
      BY <1>4, <2>3 DEF AxisLow, AxisHigh
    <3>3. /\ slices[d].lo = None \/ IsInt(slices[d].lo)
          /\ slices[d].hi = None \/ IsInt(slices[d].hi)
      BY <1>4, <2>3, SubscriptOk DEF SubField
    <3>4. a.shape[d] # 1 => IsFinite(g.domain[d]) /\ RangeLen(g.domain[d]) = a.shape[d]
      BY <1>1, <1>2 DEF Fits, Dimensions
    <3>5. b.shape[d] # 1 => IsFinite(dom[d]) /\ RangeLen(dom[d]) = b.shape[d]
      BY <1>1 DEF Fits
    <3> HIDE DEF Cutting, slices
    <3>6. /\ InRange(p[d], g.domain[d])
          /\ (IF b.shape[d] = 1 THEN 0 ELSE p[d] - dom[d].start) + Low(slices[d], a.shape[d])
               = IF a.shape[d] = 1 THEN 0 ELSE p[d] - g.domain[d].start
      BY <2>1, <2>2, <3>1, <3>2, <3>3, <3>4, <3>5, SliceAxis
    <3> QED BY <2>1, <3>2, <3>6 DEF AxisKept
  <2>4. CASE d \notin DOMAIN within
    <3>1. dom[d] = g.domain[d] /\ d \in D
      BY <1>1, <1>3, <2>4
    <3>2. AxisLow(a, slices, d) = 0 /\ b.shape[d] = a.shape[d]
      BY <1>4, <2>2, <2>4 DEF AxisLow, AxisHigh
    <3>3. a.shape[d] # 1 => g.domain[d].start \in Int
      BY <1>2, <2>2, <3>1, FiniteRange DEF Fits, Dimensions
    <3> QED BY <2>1, <3>1, <3>2, <3>3 DEF AxisKept
  <2> QED BY <2>3, <2>4
<1>6. ASSUME NEW d \in DOMAIN ints PROVE AxisDropped(g, ints, q, d)
  <2>1. d \in D /\ q[d] = at[d] /\ at[d] \in Int /\ InRange(at[d], g.domain[d])
    BY <1>1
  <2>2. /\ ints[d] = at[d] - g.domain[d].start
        /\ g.domain[d].start \in Int /\ g.domain[d].stop \in Int
        /\ g.domain[d].start <= at[d] /\ at[d] < g.domain[d].stop
    BY <1>2, <2>1, FiniteRange, FiniteMembers
  <2>3. InArray(ints[d], a.shape[d]) /\ a.shape[d] \in Nat
    BY <1>2, <2>1, SubscriptOk DEF SubField
  <2> QED BY <2>1, <2>2, <2>3 DEF Wrap, InArray, AxisDropped
<1>7. SubField(g, slices, ints, b, dom) /\ Moves(g, slices, ints, b, dom, p, q)
  BY <1>5, <1>6 DEF Moves
<1> QED BY <1>7, SubscriptReads

(* The bounds of the slice of a range in another.                          *)
LEMMA SliceBounds ==
  ASSUME NEW r \in Ranges, NEW w \in Ranges
  PROVE  /\ ComputeSlice(r, w).lo \in Bounds \cup {None}
         /\ ComputeSlice(r, w).hi \in Bounds \cup {None}
<1>1. \A x, y \in Bounds : Minus(x, y) \in Bounds
  BY DEF Minus, Bounds
<1>2. \A t \in Ranges : t.start \in Bounds /\ t.stop \in Bounds
  BY DEF Ranges
<1> QED BY <1>1, <1>2 DEF ComputeSlice

(* A field made by from_array.                                             *)
LEMMA FieldMade ==
  ASSUME NEW a, IsArray(a), NEW dom, \A d \in DOMAIN dom : dom[d] \in Ranges,
         IsOk(FromArray(a, dom)), NEW h, h = FromArray(a, dom).val
  PROVE  /\ IsField(h) /\ h.domain = dom /\ h.arr = a
         /\ DOMAIN a.shape = DOMAIN dom /\ Fits(a, dom)
<1>1. h = [domain |-> dom, arr |-> a] /\ DOMAIN a.shape = DOMAIN dom /\ Fits(a, dom)
  BY FromArrayOk DEF Fits
<1> QED BY <1>1 DEF IsField, Dimensions

Integral(dims, p) == \A d \in dims : p[d] \in Int

(* The value of a field at a point, read from its buffer.                  *)
LEMMA AtReads ==
  ASSUME NEW h, IsField(h), NEW p, Integral(Dimensions(h), p)
  PROVE  /\ At(h, p) = IF Inside(h.domain, p) THEN h.arr.at[Pos(h.arr, h.domain, p)] ELSE UNDEF
         /\ Inside(h.domain, p) => At(h, p) \in Int
<1>1. Inside(h.domain, p) <=> ~\E d \in Dimensions(h) : ~InRange(p[d], h.domain[d])
  BY DEF Inside, Integral, Dimensions
<1>2. DOMAIN h.arr.shape = Dimensions(h) /\ IsArray(h.arr) /\ Fits(h.arr, h.domain)
  BY FieldFacts
<1>3. At(h, p) = IF Inside(h.domain, p) THEN h.arr.at[Pos(h.arr, h.domain, p)] ELSE UNDEF
  BY <1>1, <1>2 DEF At, Pos
<1>4. ASSUME Inside(h.domain, p) PROVE h.arr.at[Pos(h.arr, h.domain, p)] \in Int
  <2>1. Pos(h.arr, h.domain, p) \in Indices(h.arr.shape)
    BY <1>2, <1>4, FieldFacts, PosInBuffer DEF Dimensions
  <2> QED BY <1>2, <2>1 DEF IsArray
<1> QED BY <1>3, <1>4

(* NdArrayField.restrict with an absolute index: the result is defined on  *)
(* the ranges that were asked for, and has the values of the field there.  *)
THEOREM RestrictIsExact ==
  ASSUME NEW g, IsField(g), NEW ix, IsIndex(ix), IsOk(RestrictAbsolute(g, ix)),
         NEW h, h = RestrictAbsolute(g, ix).val
  PROVE  /\ IsField(h) /\ Dimensions(h) = Dimensions(g) \ DOMAIN ix.at
         /\ \A d \in Dimensions(h) :
              h.domain[d] = IF d \in DOMAIN ix.within THEN ix.within[d] ELSE g.domain[d]
         /\ \A p : Integral(Dimensions(h), p) =>
              At(h, p) =
                IF \E d \in DOMAIN ix.within \cap Dimensions(h) : ~InRange(p[d], ix.within[d])
                THEN UNDEF
                ELSE At(g, [d \in Dimensions(g) |-> IF d \in DOMAIN ix.at THEN ix.at[d] ELSE p[d]])
<1> DEFINE D == Dimensions(g)
           within == On(ix, g.domain).within
           at == On(ix, g.domain).at
           ints == [d \in DOMAIN at |-> at[d] - g.domain[d].start]
           slices == SlicesFromDomain(g.domain, within)
           dom == SubDomain(g.domain, within, at)
           outside == \/ \E d \in DOMAIN within : ~RangeWithin(within[d], g.domain[d])
                      \/ \E d \in DOMAIN at : ~InRange(at[d], g.domain[d])
           open == DOMAIN at # {} /\ ~DomainIsFinite(g.domain)
           s == Sub(g.arr, slices, ints)
           b == s.val
           A == AbsoluteSubDomain(g.domain, On(ix, g.domain))
<1>1. RestrictAbsolute(g, ix) =
        IF IsOk(A)
        THEN IF open THEN Raise("AssertionError")
             ELSE IF IsOk(s) THEN FromArray(b, A.val) ELSE s
        ELSE A
  BY Zenon DEF RestrictAbsolute, Then, Sub
<1>2. A = IF outside THEN Raise("IndexOutOfBounds") ELSE Ok(dom)
  BY DEF AbsoluteSubDomain
<1> HIDE DEF A, s, open, outside
<1>3. /\ ~outside /\ ~open /\ IsOk(s) /\ IsOk(FromArray(b, dom))
      /\ h = FromArray(b, dom).val
  BY <1>1, <1>2, Results
<1>4. /\ DOMAIN within = DOMAIN ix.within \cap D /\ DOMAIN at = DOMAIN ix.at \cap D
      /\ \A d \in DOMAIN within : within[d] = ix.within[d] /\ within[d] \in Ranges
      /\ \A d \in DOMAIN at : at[d] = ix.at[d] /\ at[d] \in Int
      /\ DOMAIN within \cap DOMAIN at = {}
  BY DEF On, Dimensions, IsIndex
<1>5. /\ \A d \in DOMAIN within : RangeWithin(within[d], g.domain[d])
      /\ \A d \in DOMAIN at : InRange(at[d], g.domain[d])
      /\ \A d \in DOMAIN at : IsFinite(g.domain[d])
  BY <1>3, <1>4 DEF outside, open, DomainIsFinite, Dimensions
<1> HIDE DEF within, at
<1>6. IsArray(g.arr) /\ DOMAIN g.arr.shape = D /\ \A d \in D : g.domain[d] \in Ranges
  BY FieldFacts
<1>7. \A d \in DOMAIN ints : ints[d] \in Int
  BY <1>4, <1>5, <1>6, FiniteRange
<1>8. \A d \in DOMAIN slices : /\ slices[d].lo \in Bounds \cup {None}
                               /\ slices[d].hi \in Bounds \cup {None}
  BY <1>4, <1>6, SliceBounds DEF SlicesFromDomain
<1>9. IsArray(b)
  BY <1>3, <1>4, <1>6, <1>7, <1>8, SubscriptArray DEF s
<1>10. /\ DOMAIN dom = D \ DOMAIN at
       /\ \A d \in D \ DOMAIN at : dom[d] = IF d \in DOMAIN within THEN within[d] ELSE g.domain[d]
       /\ \A d \in D \ DOMAIN at : dom[d] \in Ranges
  BY <1>4, <1>6 DEF SubDomain, Dimensions
<1>11. /\ IsField(h) /\ h.domain = dom /\ h.arr = b /\ Fits(b, dom)
  BY <1>3, <1>9, <1>10, FieldMade
<1>12. Dimensions(h) = D \ DOMAIN ix.at
  BY <1>4, <1>10, <1>11 DEF Dimensions
<1>13. ASSUME NEW p, Integral(Dimensions(h), p),
              NEW q, q = [d \in D |-> IF d \in DOMAIN ix.at THEN ix.at[d] ELSE p[d]]
       PROVE  At(h, p) =
                IF \E d \in DOMAIN ix.within \cap Dimensions(h) : ~InRange(p[d], ix.within[d])
                THEN UNDEF ELSE At(g, q)
  <2>1. q = [d \in D |-> IF d \in DOMAIN at THEN at[d] ELSE p[d]]
    BY <1>4, <1>13
  <2>2. Integral(D, q)
    BY <1>4, <1>12, <1>13, <2>1 DEF Integral
  <2>3. ASSUME Inside(dom, p)
        PROVE  /\ Inside(g.domain, q)
               /\ b.at[Pos(b, dom, p)] = g.arr.at[Pos(g.arr, g.domain, q)]
               /\ ~\E d \in DOMAIN ix.within \cap Dimensions(h) : ~InRange(p[d], ix.within[d])
    <3>0. /\ DOMAIN ints = DOMAIN at
          /\ \A d \in DOMAIN at : ints[d] = at[d] - g.domain[d].start
          /\ DOMAIN slices = DOMAIN within
      BY <1>4 DEF SlicesFromDomain, Dimensions
    <3>1. /\ Inside(g.domain, q)
          /\ b.at[Pos(b, dom, p)] = g.arr.at[Pos(g.arr, g.domain, q)]
      <4> HIDE DEF ints
      <4>1. SubField(g, slices, ints, b, dom)
        BY <1>3, <1>4, <1>7, <1>8, <1>10, <1>11, <3>0 DEF SubField, s
      <4> HIDE DEF dom, b
      <4>2. Cutting(g, within, at, ints, b, dom, p, q)
        BY <1>4, <1>5, <1>10, <2>1, <2>3, <3>0, <4>1 DEF Cutting
      <4> QED BY <4>2, RestrictReads
    <3>2. \A d \in DOMAIN ix.within \cap Dimensions(h) : InRange(p[d], ix.within[d])
      BY <1>4, <1>10, <1>11, <1>12, <2>3 DEF Inside
    <3> QED BY <3>1, <3>2
  <2>4. ASSUME ~Inside(dom, p),
               ~\E d \in DOMAIN ix.within \cap Dimensions(h) : ~InRange(p[d], ix.within[d])
        PROVE  ~Inside(g.domain, q)
    <3>1. PICK d \in D \ DOMAIN at : ~InRange(p[d], dom[d])
      BY <1>10, <1>11, <1>13, <2>4 DEF Inside, Integral, Dimensions
    <3>2. d \notin DOMAIN within
      BY <1>4, <1>10, <1>12, <2>4, <3>1
    <3>3. q[d] = p[d] /\ dom[d] = g.domain[d]
      BY <1>10, <2>1, <3>1, <3>2
    <3> QED BY <3>1, <3>3 DEF Inside, Dimensions
  <2>5. At(h, p) = IF Inside(dom, p) THEN b.at[Pos(b, dom, p)] ELSE UNDEF
    BY <1>11, <1>13, AtReads
  <2>6. At(g, q) = IF Inside(g.domain, q) THEN g.arr.at[Pos(g.arr, g.domain, q)] ELSE UNDEF
    BY <2>2, AtReads
  <2> QED BY <2>3, <2>4, <2>5, <2>6
<1>14. \A d \in Dimensions(h) :
         h.domain[d] = IF d \in DOMAIN ix.within THEN ix.within[d] ELSE g.domain[d]
  BY <1>4, <1>10, <1>11, <1>12
<1> QED BY <1>11, <1>12, <1>13, <1>14

(* The range a relative slice means.                                       *)
SliceMeaning(r, s) ==
  UnitRange(IF s.lo = None THEN r.start ELSE Counted(r, s.lo),
            IF s.hi = None THEN r.stop ELSE Counted(r, s.hi))

(* One axis of a relative slice: the range w that _slice_range computes is *)
(* the one that is meant, if the slice of the buffer holds it; so a stop   *)
(* of 0, which it takes for an omitted one, cannot go unnoticed.           *)
LEMMA RelativeAxis ==
  ASSUME NEW r \in Ranges, IsFinite(r), NEW s, NEW n \in Nat, NEW m \in Nat, NEW w,
         s.lo \in Int \cup {None}, s.hi \in Int \cup {None},
         n # 1 => RangeLen(r) = n,
         IsOk(SliceRange(r, s)), w = SliceRange(r, s).val,
         m = IF High(s, n) > Low(s, n) THEN High(s, n) - Low(s, n) ELSE 0,
         Low(s, n) \in 0 .. n, High(s, n) \in 0 .. n,
         m # 1 => IsFinite(w) /\ RangeLen(w) = m,
         NEW x \in Int
  PROVE  /\ InRange(x, w) <=> InRange(x, SliceMeaning(r, s))
         /\ InRange(x, w) =>
              /\ InRange(x, r)
              /\ (IF m = 1 THEN 0 ELSE x - w.start) + Low(s, n) = IF n = 1 THEN 0 ELSE x - r.start
<1> DEFINE start == IF s.lo = None THEN r.start
                    ELSE (IF s.lo >= 0 THEN r.start ELSE r.stop) + s.lo
           stop  == IF s.hi \in {None, 0} THEN r.start + RangeLen(r)
                    ELSE (IF s.hi > 0 THEN r.start ELSE r.stop) + s.hi
<1>1. r.start \in Int /\ r.stop \in Int /\ RangeLen(r) = r.stop - r.start /\ RangeLen(r) \in Nat
  BY FiniteRange DEF RangeLen
<1>2. None \notin Int
  BY NoneAssumption DEF Bounds
<1>3. start \in Int /\ stop \in Int
  BY <1>1, <1>2
<1>4. /\ SliceRange(r, s) = IF start < r.start \/ stop > r.stop THEN Raise("IndexOutOfBounds")
                            ELSE Ok(UnitRange(start, stop))
  BY DEF SliceRange
<1> HIDE DEF start, stop
<1>5. r.start <= start /\ stop <= r.stop /\ w = UnitRange(start, stop)
  BY <1>1, <1>3, <1>4, Results
<1>6. w \in Ranges /\ (InRange(x, w) <=> start <= x /\ x < stop)
  <2>1. start \in Bounds /\ stop \in Bounds
    BY <1>3 DEF Bounds
  <2>2. Le(start, x) <=> start <= x
    BY <1>3, InfinityAssumption DEF Le, Infinity
  <2>3. Lt(x, stop) <=> x < stop
    BY <1>3, InfinityAssumption DEF Lt, Infinity
  <2>4. w \in Ranges
    BY <1>5, <2>1, RangesNormal
  <2>5. InRange(x, w) <=> Le(start, x) /\ Lt(x, stop)
    BY <1>5, <2>1, Interval
  <2> QED BY <2>2, <2>3, <2>4, <2>5
<1>7. start < stop => w.start = start /\ w.stop = stop /\ RangeLen(w) = stop - start
  BY <1>3, <1>5, InfinityAssumption DEF UnitRange, Lt, Infinity, RangeLen
<1>8. r.start <= x /\ x < r.stop <=> InRange(x, r)
  BY FiniteMembers
<1>9. s.lo # None => Counted(r, s.lo) = start
  BY <1>1, <1>2 DEF Counted, start
<1>10. s.hi \notin {None, 0} => Counted(r, s.hi) = stop
  BY <1>1, <1>2 DEF Counted, stop
<1>11. s.hi = None => stop = r.stop
  BY <1>1, <1>2 DEF stop
<1>12. s.lo = None => start = r.start
  BY DEF start
<1>13. SliceMeaning(r, s) = UnitRange(start, IF s.hi = 0 THEN r.start ELSE stop)
  <2>1. s.hi = 0 => s.hi # None /\ Counted(r, s.hi) = r.start
    BY <1>1, <1>2 DEF Counted
  <2> QED BY <1>9, <1>10, <1>11, <1>12, <2>1 DEF SliceMeaning
<1>14. CASE s.hi = 0
  <2>1. m = 0
    <3>1. High(s, n) = 0
      BY <1>2, <1>14 DEF High, Clip
    <3> QED BY <3>1
  <2>2. ~(start < stop)
    BY <1>3, <1>7, <2>1
  <2>3. ~InRange(x, w)
    BY <1>3, <1>6, <2>2
  <2>4. ~InRange(x, SliceMeaning(r, s))
    <3>1. start \in Bounds /\ r.start \in Bounds
      BY <1>1, <1>3 DEF Bounds
    <3>2. Le(start, x) /\ Lt(x, r.start) => start <= x /\ x < r.start
      BY <1>1, <1>3, InfinityAssumption DEF Le, Lt, Infinity
    <3>3. SliceMeaning(r, s) = UnitRange(start, r.start)
      BY <1>13, <1>14
    <3>4. InRange(x, SliceMeaning(r, s)) => start <= x /\ x < r.start
      BY <3>1, <3>2, <3>3, Interval
    <3> QED BY <1>1, <1>3, <1>5, <3>4
  <2> QED BY <2>3, <2>4
<1>15. CASE s.hi # 0
  <2>1. SliceMeaning(r, s) = w
    BY <1>5, <1>13, <1>15
  <2>2. ASSUME InRange(x, w)
        PROVE  /\ InRange(x, r)
               /\ (IF m = 1 THEN 0 ELSE x - w.start) + Low(s, n) = IF n = 1 THEN 0 ELSE x - r.start
    <3>1. start <= x /\ x < stop /\ start < stop
      BY <1>3, <1>6, <2>2
    <3>2. InRange(x, r)
      BY <1>1, <1>3, <1>5, <1>8, <3>1
    <3>3. m # 0
      BY <1>3, <1>7, <3>1
    <3>4. CASE n = 1
      <4>1. Low(s, n) \in {0, 1} /\ High(s, n) \in {0, 1}
        BY <3>4
      <4>2. Low(s, n) = 0 /\ m = 1
        BY <4>1, <3>3
      <4> QED BY <3>2, <3>4, <4>2
    <3>5. CASE n # 1
      <4>1. n = r.stop - r.start
        BY <1>1, <3>5
      <4>2. Low(s, n) = start - r.start
        BY <1>1, <1>2, <1>3, <1>5, <3>1, <4>1 DEF Low, Clip, start
      <4>3. CASE m = 1
        <5>1. High(s, n) = stop - r.start
          BY <1>1, <1>2, <1>3, <1>5, <1>15, <3>1, <4>1 DEF High, Clip, stop
        <5>2. stop - start = 1
          BY <1>1, <1>3, <4>2, <4>3, <5>1
        <5>3. x = start
          BY <1>3, <3>1, <5>2
        <5> QED BY <1>1, <1>3, <3>2, <3>5, <4>2, <4>3, <5>3
      <4>4. CASE m # 1
        BY <1>1, <1>3, <1>7, <3>1, <3>2, <3>5, <4>2, <4>4
      <4> QED BY <4>3, <4>4
    <3> QED BY <3>4, <3>5
  <2> QED BY <2>1, <2>2
<1> QED BY <1>14, <1>15

IsRelative(ix, dom) ==
  /\ \A d \in DOMAIN ix.within : /\ ix.within[d].lo \in Int \cup {None}
                                 /\ ix.within[d].hi \in Int \cup {None}
  /\ \A d \in DOMAIN ix.at : ix.at[d] \in Int
  /\ DOMAIN ix.within \cap DOMAIN ix.at = {}
  /\ \A d \in DOMAIN ix.within \cup DOMAIN ix.at : d \in DOMAIN dom /\ IsFinite(dom[d])

(* NdArrayField.restrict with a relative index: _slice_range and           *)
(* _relative_sub_domain compute a domain, the buffer is indexed with the   *)
(* index itself, and the two agree with counting from the first or the     *)
(* last element, or from_array raises.                                     *)
THEOREM RelativeIsExact ==
  ASSUME NEW g, IsField(g), NEW ix, IsRelative(ix, g.domain), IsOk(RestrictRelative(g, ix)),
         NEW h, h = RestrictRelative(g, ix).val
  PROVE  /\ IsField(h) /\ Dimensions(h) = Dimensions(g) \ DOMAIN ix.at
         /\ \A p : Integral(Dimensions(h), p) =>
              At(h, p) =
                IF \E d \in DOMAIN ix.within :
                     ~InRange(p[d], SliceMeaning(g.domain[d], ix.within[d]))
                THEN UNDEF
                ELSE At(g, [d \in Dimensions(g) |->
                              IF d \in DOMAIN ix.at THEN Counted(g.domain[d], ix.at[d]) ELSE p[d]])
<1> DEFINE D == Dimensions(g)
           within == ix.within
           at == ix.at
           sliced == [d \in DOMAIN within |-> SliceRange(g.domain[d], within[d])]
           position(d) == (IF at[d] >= 0 THEN g.domain[d].start ELSE g.domain[d].stop) + at[d]
           outside == \/ \E d \in DOMAIN sliced : ~IsOk(sliced[d])
                      \/ \E d \in DOMAIN at : ~InRange(position(d), g.domain[d])
           ranges == [d \in DOMAIN sliced |-> sliced[d].val]
           dom == SubDomain(g.domain, ranges, at)
           s == Sub(g.arr, within, at)
           b == s.val
           A == RelativeSubDomain(g.domain, ix)
<1>1. RestrictRelative(g, ix) =
        IF IsOk(A) THEN IF IsOk(s) THEN FromArray(b, A.val) ELSE s ELSE A
  BY Zenon DEF RestrictRelative, Then, Sub
<1>2. A = IF outside THEN Raise("IndexOutOfBounds") ELSE Ok(dom)
  BY Zenon DEF RelativeSubDomain
<1> HIDE DEF A, s, outside
<1>3. /\ ~outside /\ IsOk(s) /\ IsOk(FromArray(b, dom)) /\ h = FromArray(b, dom).val
  <2> HIDE DEF dom, b
  <2> QED BY <1>1, <1>2, Results
<1>4. /\ DOMAIN within \subseteq D /\ DOMAIN at \subseteq D
      /\ DOMAIN within \cap DOMAIN at = {}
      /\ \A d \in DOMAIN within : /\ within[d].lo \in Int \cup {None}
                                  /\ within[d].hi \in Int \cup {None}
                                  /\ IsFinite(g.domain[d])
      /\ \A d \in DOMAIN at : at[d] \in Int /\ IsFinite(g.domain[d])
  BY DEF IsRelative, Dimensions
<1>5. /\ DOMAIN ranges = DOMAIN within
      /\ \A d \in DOMAIN within : /\ IsOk(SliceRange(g.domain[d], within[d]))
                                  /\ ranges[d] = SliceRange(g.domain[d], within[d]).val
      /\ \A d \in DOMAIN at : InRange(position(d), g.domain[d])
  BY <1>3 DEF outside
<1>6. /\ IsArray(g.arr) /\ DOMAIN g.arr.shape = D /\ Fits(g.arr, g.domain)
      /\ \A d \in D : g.domain[d] \in Ranges /\ g.arr.shape[d] \in Nat
  BY FieldFacts
<1>7. \A d \in DOMAIN within : ranges[d] \in Ranges
  <2> SUFFICES ASSUME NEW d \in DOMAIN within PROVE ranges[d] \in Ranges
    OBVIOUS
  <2>1. g.domain[d].start \in Int /\ g.domain[d].stop \in Int /\ RangeLen(g.domain[d]) \in Int
    BY <1>4, <1>6, FiniteRange
  <2> DEFINE r == g.domain[d]
             sl == within[d]
             start == IF sl.lo = None THEN r.start
                      ELSE (IF sl.lo >= 0 THEN r.start ELSE r.stop) + sl.lo
             stop  == IF sl.hi \in {None, 0} THEN r.start + RangeLen(r)
                      ELSE (IF sl.hi > 0 THEN r.start ELSE r.stop) + sl.hi
  <2>2. start \in Int /\ stop \in Int
    BY <1>4, <2>1
  <2>3. SliceRange(r, sl) = IF start < r.start \/ stop > r.stop THEN Raise("IndexOutOfBounds")
                            ELSE Ok(UnitRange(start, stop))
    BY DEF SliceRange
  <2>4. IsOk(SliceRange(r, sl)) /\ ranges[d] = SliceRange(r, sl).val
    BY <1>5
  <2> HIDE DEF start, stop
  <2>5. ranges[d] = UnitRange(start, stop)
    BY <2>3, <2>4, Results
  <2> QED BY <2>2, <2>5, RangesNormal DEF Bounds
<1> HIDE DEF ranges
<1>8. /\ DOMAIN dom = D \ DOMAIN at
      /\ \A d \in D \ DOMAIN at : dom[d] = IF d \in DOMAIN within THEN ranges[d] ELSE g.domain[d]
      /\ \A d \in D \ DOMAIN at : dom[d] \in Ranges
  BY <1>4, <1>5, <1>6, <1>7 DEF SubDomain, Dimensions
<1>9. \A d \in DOMAIN within : /\ within[d].lo \in Bounds \cup {None}
                               /\ within[d].hi \in Bounds \cup {None}
  BY <1>4 DEF Bounds
<1>10. IsArray(b)
  BY <1>3, <1>4, <1>6, <1>9, SubscriptArray DEF s
<1>11. /\ IsField(h) /\ h.domain = dom /\ h.arr = b /\ Fits(b, dom)
  BY <1>3, <1>8, <1>10, FieldMade
<1>12. Dimensions(h) = D \ DOMAIN at
  BY <1>8, <1>11 DEF Dimensions
<1>13. SubField(g, within, at, b, dom)
  BY <1>3, <1>4, <1>8, <1>9, <1>11 DEF SubField, s
<1> HIDE DEF dom, b
<1>14. ASSUME NEW d \in DOMAIN within, NEW x \in Int
       PROVE  /\ InRange(x, dom[d]) <=> InRange(x, SliceMeaning(g.domain[d], within[d]))
              /\ InRange(x, dom[d]) =>
                   /\ InRange(x, g.domain[d])
                   /\ (IF b.shape[d] = 1 THEN 0 ELSE x - dom[d].start)
                        + AxisLow(g.arr, within, d)
                        = IF g.arr.shape[d] = 1 THEN 0 ELSE x - g.domain[d].start
  <2>1. d \in D \ DOMAIN at /\ d \in DOMAIN dom
    BY <1>4, <1>8
  <2>2. /\ AxisLow(g.arr, within, d) \in 0 .. g.arr.shape[d]
        /\ AxisHigh(g.arr, within, d) \in 0 .. g.arr.shape[d]
        /\ g.arr.shape[d] \in Nat /\ b.shape[d] \in Nat /\ g.domain[d] \in Ranges
        /\ b.shape[d] = IF AxisHigh(g.arr, within, d) > AxisLow(g.arr, within, d)
                        THEN AxisHigh(g.arr, within, d) - AxisLow(g.arr, within, d) ELSE 0
    BY <1>6, <1>13, <2>1, SubFieldShape
  <2>3. /\ AxisLow(g.arr, within, d) = Low(within[d], g.arr.shape[d])
        /\ AxisHigh(g.arr, within, d) = High(within[d], g.arr.shape[d])
    BY DEF AxisLow, AxisHigh
  <2>4. /\ IsOk(SliceRange(g.domain[d], within[d]))
        /\ dom[d] = SliceRange(g.domain[d], within[d]).val
        /\ IsFinite(g.domain[d])
        /\ within[d].lo \in Int \cup {None} /\ within[d].hi \in Int \cup {None}
    BY <1>4, <1>5, <1>8, <2>1
  <2>5. /\ g.arr.shape[d] # 1 => RangeLen(g.domain[d]) = g.arr.shape[d]
        /\ b.shape[d] # 1 => IsFinite(dom[d]) /\ RangeLen(dom[d]) = b.shape[d]
    BY <1>6, <1>11, <2>1 DEF Fits, Dimensions
  <2> HIDE DEF within
  <2> QED BY <2>2, <2>3, <2>4, <2>5, RelativeAxis
<1>15. ASSUME NEW p, Integral(Dimensions(h), p),
              NEW q, q = [d \in D |-> IF d \in DOMAIN at THEN Counted(g.domain[d], at[d]) ELSE p[d]]
       PROVE  At(h, p) =
                IF \E d \in DOMAIN within : ~InRange(p[d], SliceMeaning(g.domain[d], within[d]))
                THEN UNDEF ELSE At(g, q)
  <2>1. \A d \in DOMAIN at : /\ Counted(g.domain[d], at[d]) = position(d)
                             /\ position(d) \in Int
    BY <1>4, <1>6, FiniteRange DEF Counted, RangeLen
  <2>2. Integral(D, q)
    BY <1>12, <1>15, <2>1 DEF Integral
  <2>3. ASSUME Inside(dom, p)
        PROVE  /\ Inside(g.domain, q)
               /\ b.at[Pos(b, dom, p)] = g.arr.at[Pos(g.arr, g.domain, q)]
               /\ \A d \in DOMAIN within : InRange(p[d], SliceMeaning(g.domain[d], within[d]))
    <3>1. ASSUME NEW d \in DOMAIN dom PROVE AxisKept(g, within, b, dom, p, q, d)
      <4>1. q[d] = p[d] /\ p[d] \in Int /\ InRange(p[d], dom[d]) /\ d \in D \ DOMAIN at
        BY <1>8, <1>15, <2>3 DEF Inside
      <4>2. CASE d \in DOMAIN within
        BY <1>14, <4>1, <4>2 DEF AxisKept
      <4>3. CASE d \notin DOMAIN within
        <5>1. dom[d] = g.domain[d] /\ AxisLow(g.arr, within, d) = 0
          BY <1>8, <4>1, <4>3 DEF AxisLow
        <5>2. b.shape[d] = g.arr.shape[d]
          BY <1>6, <1>13, <4>1, <4>3, SubFieldShape DEF AxisLow, AxisHigh
        <5>3. g.arr.shape[d] # 1 => g.domain[d].start \in Int
          BY <1>6, <4>1, FiniteRange DEF Fits, Dimensions
        <5> QED BY <4>1, <5>1, <5>2, <5>3 DEF AxisKept
      <4> QED BY <4>2, <4>3
    <3>2. ASSUME NEW d \in DOMAIN at PROVE AxisDropped(g, at, q, d)
      <4>1. /\ q[d] = position(d) /\ q[d] \in Int /\ InRange(q[d], g.domain[d])
        BY <1>4, <1>5, <1>15, <2>1
      <4>2. /\ g.domain[d].start \in Int /\ g.domain[d].stop \in Int
            /\ g.domain[d].start <= q[d] /\ q[d] < g.domain[d].stop
        BY <1>4, <1>6, <4>1, FiniteRange, FiniteMembers
      <4>3. InArray(at[d], g.arr.shape[d]) /\ g.arr.shape[d] \in Nat /\ at[d] \in Int
        BY <1>3, <1>4, <1>6, SubscriptOk DEF s
      <4>4. g.arr.shape[d] # 1 => g.domain[d].stop - g.domain[d].start = g.arr.shape[d]
        BY <1>4, <1>6 DEF Fits, Dimensions, RangeLen
      <4>5. CASE g.arr.shape[d] = 1
        BY <4>1, <4>3, <4>5 DEF Wrap, InArray, AxisDropped
      <4>6. CASE g.arr.shape[d] # 1
        BY <4>1, <4>2, <4>3, <4>4, <4>6 DEF Wrap, InArray, AxisDropped
      <4> QED BY <4>5, <4>6
    <3>3. Moves(g, within, at, b, dom, p, q)
      BY <2>3, <3>1, <3>2 DEF Moves
    <3>4. \A d \in DOMAIN within : InRange(p[d], SliceMeaning(g.domain[d], within[d]))
      BY <1>4, <1>8, <1>14, <2>3 DEF Inside
    <3> QED BY <1>13, <3>3, <3>4, SubscriptReads
  <2>4. ASSUME ~Inside(dom, p),
               \A d \in DOMAIN within : InRange(p[d], SliceMeaning(g.domain[d], within[d]))
        PROVE  ~Inside(g.domain, q)
    <3>1. PICK d \in D \ DOMAIN at : p[d] \in Int /\ ~InRange(p[d], dom[d])
      BY <1>8, <1>12, <1>15, <2>4 DEF Inside, Integral
    <3>2. d \notin DOMAIN within
      BY <1>14, <2>4, <3>1
    <3>3. q[d] = p[d] /\ dom[d] = g.domain[d]
      BY <1>8, <1>15, <3>1, <3>2
    <3> QED BY <3>1, <3>3 DEF Inside, Dimensions
  <2>5. At(h, p) = IF Inside(dom, p) THEN b.at[Pos(b, dom, p)] ELSE UNDEF
    BY <1>11, <1>15, AtReads
  <2>6. At(g, q) = IF Inside(g.domain, q) THEN g.arr.at[Pos(g.arr, g.domain, q)] ELSE UNDEF
    BY <2>2, AtReads
  <2> QED BY <2>3, <2>4, <2>5, <2>6
<1> QED BY <1>11, <1>12, <1>15

-----------------------------------------------------------------------------
(* Broadcasts and pointwise operations *)

(* Only the positions on the dimensions of a field matter to its value.    *)
LEMMA AtLocal ==
  ASSUME NEW g, IsField(g), NEW p, NEW q, \A d \in Dimensions(g) : p[d] = q[d]
  PROVE  /\ At(g, p) = At(g, q)
         /\ Pos(g.arr, g.domain, p) = Pos(g.arr, g.domain, q)
         /\ Inside(g.domain, p) <=> Inside(g.domain, q)
<1>1. DOMAIN g.arr.shape = Dimensions(g)
  BY FieldFacts
<1>2. [d \in Dimensions(g) |-> IF g.arr.shape[d] = 1 THEN 0 ELSE p[d] - g.domain[d].start]
        = [d \in Dimensions(g) |-> IF g.arr.shape[d] = 1 THEN 0 ELSE q[d] - g.domain[d].start]
  OBVIOUS
<1>3. (\E d \in Dimensions(g) : ~InRange(p[d], g.domain[d]))
        <=> (\E d \in Dimensions(g) : ~InRange(q[d], g.domain[d]))
  OBVIOUS
<1> QED BY <1>1, <1>2, <1>3 DEF At, Pos, Inside, Dimensions

(* New axes of one element.                                                *)
LEMMA NewAxesArray ==
  ASSUME NEW a, IsArray(a), NEW dims, DOMAIN a.shape \subseteq dims,
         NEW b, b = NewAxes(a, dims)
  PROVE  /\ IsArray(b) /\ DOMAIN b.shape = dims
         /\ \A d \in dims : b.shape[d] = IF d \in DOMAIN a.shape THEN a.shape[d] ELSE 1
         /\ \A i \in Indices(b.shape) : /\ [d \in DOMAIN a.shape |-> i[d]] \in Indices(a.shape)
                                        /\ b.at[i] = a.at[[d \in DOMAIN a.shape |-> i[d]]]
<1> DEFINE sh == [d \in dims |-> IF d \in DOMAIN a.shape THEN a.shape[d] ELSE 1]
           D == DOMAIN a.shape
<1>1. b = [shape |-> sh, at |-> [i \in Indices(sh) |-> a.at[[d \in DOMAIN a.shape |-> i[d]]]]]
  BY Zenon DEF NewAxes, Array
<1>2. a.shape \in [D -> Nat] /\ a.at \in [Indices(a.shape) -> Int]
  BY DEF IsArray
<1>3. sh \in [dims -> Nat]
  BY <1>2
<1>4. ASSUME NEW i \in Indices(sh) PROVE [d \in D |-> i[d]] \in Indices(a.shape)
  <2>1. i \in [dims -> Nat] /\ \A d \in dims : i[d] < sh[d]
    BY <1>3, IndexTuples
  <2>2. [d \in D |-> i[d]] \in [D -> Nat] /\ \A d \in D : i[d] < a.shape[d]
    BY <2>1
  <2> QED BY <1>2, <2>2, IndexTuples
<1> HIDE DEF sh
<1>5. b.shape = sh /\ b.at = [i \in Indices(sh) |-> a.at[[d \in DOMAIN a.shape |-> i[d]]]]
  BY <1>1
<1>6. b.at \in [Indices(b.shape) -> Int]
  BY <1>2, <1>4, <1>5
<1>7. b.shape \in [DOMAIN b.shape -> Nat] /\ DOMAIN b.shape = dims
  BY <1>3, <1>5
<1> QED BY <1>4, <1>5, <1>6, <1>7 DEF IsArray, sh

(* broadcast: the field does not depend on a dimension it is given.        *)
THEOREM BroadcastIsExact ==
  ASSUME NEW g, IsField(g), NEW dims, Dimensions(g) \subseteq dims,
         NEW h, h = Broadcast(g, dims)
  PROVE  /\ IsField(h) /\ Dimensions(h) = dims
         /\ h.domain = [d \in dims |-> RangeOf(g.domain, d)]
         /\ h.arr = NewAxes(g.arr, dims)
         /\ \A p : Integral(dims, p) =>
              /\ At(h, p) = At(g, p)
              /\ Inside(h.domain, p) <=> Inside(g.domain, p)
<1> DEFINE dom == [d \in dims |-> RangeOf(g.domain, d)]
           b == NewAxes(g.arr, dims)
           D == Dimensions(g)
<1>1. /\ IsArray(g.arr) /\ DOMAIN g.arr.shape = D /\ Fits(g.arr, g.domain)
      /\ \A d \in D : g.domain[d] \in Ranges /\ g.arr.shape[d] \in Nat
  BY FieldFacts
<1>2. h.domain = dom /\ h.arr = b
  BY DEF Broadcast
<1>3. /\ IsArray(b) /\ DOMAIN b.shape = dims
      /\ \A d \in dims : b.shape[d] = IF d \in D THEN g.arr.shape[d] ELSE 1
      /\ \A i \in Indices(b.shape) : b.at[i] = g.arr.at[[d \in D |-> i[d]]]
  <2> HIDE DEF b
  <2> QED BY <1>1, NewAxesArray DEF b
<1>4. /\ DOMAIN dom = dims
      /\ \A d \in dims : dom[d] = IF d \in D THEN g.domain[d] ELSE Infinite
      /\ \A d \in dims : dom[d] \in Ranges
  BY <1>1, RangesNormal DEF RangeOf, Dimensions
<1> HIDE DEF dom, b
<1>5. Fits(b, dom)
  BY <1>1, <1>3, <1>4 DEF Fits, Dimensions
<1>6. IsOk(FromArray(b, dom))
  BY <1>3, <1>4, <1>5, Results DEF FromArray, Fits
<1>7. IsField(h) /\ Dimensions(h) = dims
  BY <1>2, <1>3, <1>4, <1>6 DEF IsField, Dimensions
<1>8. ASSUME NEW p, Integral(dims, p)
      PROVE  /\ At(h, p) = At(g, p)
             /\ Inside(h.domain, p) <=> Inside(g.domain, p)
  <2>1. Inside(dom, p) <=> Inside(g.domain, p)
    BY <1>4, <1>8, InfiniteHoldsAll DEF Inside, Integral, Dimensions
  <2>2. ASSUME Inside(dom, p) PROVE b.at[Pos(b, dom, p)] = g.arr.at[Pos(g.arr, g.domain, p)]
    <3>1. Pos(b, dom, p) \in Indices(b.shape)
      BY <1>3, <1>4, <1>5, <2>2, PosInBuffer
    <3>2. [d \in D |-> Pos(b, dom, p)[d]] = Pos(g.arr, g.domain, p)
      BY <1>1, <1>3, <1>4 DEF Pos
    <3> QED BY <1>3, <3>1, <3>2
  <2>3. At(h, p) = IF Inside(dom, p) THEN b.at[Pos(b, dom, p)] ELSE UNDEF
    BY <1>2, <1>7, <1>8, AtReads
  <2>4. At(g, p) = IF Inside(g.domain, p) THEN g.arr.at[Pos(g.arr, g.domain, p)] ELSE UNDEF
    BY <1>8, AtReads DEF Integral
  <2> QED BY <1>2, <2>1, <2>2, <2>3, <2>4
<1> QED BY <1>2, <1>7, <1>8 DEF dom, b

(* One axis of a slice that is not empty although it was not checked       *)
(* against the range: it holds the range, or one element.                  *)
LEMMA CutAxisFits ==
  ASSUME NEW whole \in Ranges, NEW r \in Ranges, NEW n \in Nat, NEW m \in Nat, NEW s,
         n # 1 => IsFinite(whole) /\ RangeLen(whole) = n,
         s = ComputeSlice(r, whole), s.lo = None \/ IsInt(s.lo), s.hi = None \/ IsInt(s.hi),
         m = IF High(s, n) > Low(s, n) THEN High(s, n) - Low(s, n) ELSE 0,
         Low(s, n) \in 0 .. n, High(s, n) \in 0 .. n,
         RangeWithin(r, whole),
         NEW x \in Int, InRange(x, r), m # 0, m # 1
  PROVE  IsFinite(r) /\ RangeLen(r) = m
<1>0. /\ r.start \in Bounds /\ r.stop \in Bounds
      /\ whole.start \in Bounds /\ whole.stop \in Bounds
  BY DEF Ranges
<1>1. n # 1
  <2> SUFFICES ASSUME n = 1 PROVE FALSE
    OBVIOUS
  <2>1. Low(s, n) \in {0, 1} /\ High(s, n) \in {0, 1}
    OBVIOUS
  <2> QED BY <2>1
<1>2. /\ IsFinite(whole) /\ RangeLen(whole) = n
      /\ whole.start \in Int /\ whole.stop \in Int
  BY <1>1, FiniteRange
<1>3. IsFinite(r) /\ r.start \in Int /\ r.stop \in Int
  BY <1>2, <1>0, InfinityAssumption, FiniteRange, SMTT(30)
     DEF RangeWithin, Le, Infinity, Bounds, IsFinite, LeftFinite, RightFinite
<1>4. whole.start <= r.start /\ r.stop <= whole.stop
  BY <1>2, <1>3, InfinityAssumption DEF RangeWithin, Le, Infinity
<1>5. s.lo = r.start - whole.start /\ s.hi = r.stop - whole.start
  BY <1>2, <1>3, InfinityAssumption DEF ComputeSlice, Minus, IsFinite, Infinity
<1>6. s.lo # None /\ s.hi # None
  BY <1>2, <1>3, <1>5, NoneAssumption DEF Bounds
<1>7. r.start <= x /\ x < r.stop
  BY <1>3, FiniteMembers
<1>8. Low(s, n) = r.start - whole.start /\ High(s, n) = r.stop - whole.start
  BY <1>2, <1>3, <1>4, <1>5, <1>6, <1>7 DEF Low, High, Clip, RangeLen
<1> QED BY <1>2, <1>3, <1>7, <1>8 DEF RangeLen

(* An intersection that is not empty lies within both ranges.              *)
LEMMA AndWithin ==
  ASSUME NEW r \in Ranges, NEW s \in Ranges, NEW x \in Int, InRange(x, RangeAnd(r, s))
  PROVE  RangeWithin(RangeAnd(r, s), r) /\ RangeWithin(RangeAnd(r, s), s)
<1>1. /\ r.start \in Bounds /\ r.stop \in Bounds
      /\ s.start \in Bounds /\ s.stop \in Bounds
  BY DEF Ranges
<1>2. Larger(r.start, s.start) \in Bounds /\ Smaller(r.stop, s.stop) \in Bounds
  BY <1>1, Extremes
<1>3. Lt(Larger(r.start, s.start), Smaller(r.stop, s.stop))
  <2> SUFFICES ASSUME ~Lt(Larger(r.start, s.start), Smaller(r.stop, s.stop)) PROVE FALSE
    OBVIOUS
  <2>1. RangeAnd(r, s) = [start |-> 0, stop |-> 0]
    BY DEF RangeAnd, UnitRange
  <2> QED BY <2>1, InfinityAssumption DEF InRange, Le, Lt, Infinity
<1>4. /\ RangeAnd(r, s).start = Larger(r.start, s.start)
      /\ RangeAnd(r, s).stop = Smaller(r.stop, s.stop)
  BY <1>3 DEF RangeAnd, UnitRange
<1>5. \A a, b \in Bounds : /\ Le(a, Larger(a, b)) /\ Le(b, Larger(a, b))
                           /\ Le(Smaller(a, b), a) /\ Le(Smaller(a, b), b)
  BY Order DEF Larger, Smaller
<1> QED BY <1>1, <1>4, <1>5 DEF RangeWithin

(* The ranges of an intersection of domains.                               *)
LEMMA DomainAndRanges ==
  ASSUME NEW A, NEW B, \A d \in DOMAIN A : A[d] \in Ranges, \A d \in DOMAIN B : B[d] \in Ranges
  PROVE  /\ DOMAIN DomainAnd(A, B) = DOMAIN A \cup DOMAIN B
         /\ \A d \in DOMAIN A \cup DOMAIN B :
              /\ RangeOf(A, d) \in Ranges /\ RangeOf(B, d) \in Ranges
              /\ DomainAnd(A, B)[d] = RangeAnd(RangeOf(A, d), RangeOf(B, d))
              /\ DomainAnd(A, B)[d] \in Ranges
         /\ \A p : Integral(DOMAIN A \cup DOMAIN B, p) =>
              (Inside(DomainAnd(A, B), p) <=> Inside(A, p) /\ Inside(B, p))
<1> DEFINE D == DOMAIN A \cup DOMAIN B
           C == DomainAnd(A, B)
<1>1. DOMAIN C = D
  BY DEF DomainAnd
<1>2. \A d \in D : RangeOf(A, d) \in Ranges /\ RangeOf(B, d) \in Ranges
  BY RangesNormal DEF RangeOf
<1>3. \A d \in D : C[d] = RangeAnd(RangeOf(A, d), RangeOf(B, d))
  BY DEF DomainAnd
<1>4. \A r \in Ranges : r \in RawRange
  BY DEF Ranges, RawRange
<1> HIDE DEF C
<1>5. \A d \in D : C[d] \in Ranges
  BY <1>2, <1>3, <1>4, RangeAndExact, RangesNormal
<1>6. ASSUME NEW p, Integral(D, p) PROVE Inside(C, p) <=> Inside(A, p) /\ Inside(B, p)
  <2>1. ASSUME NEW d \in D
        PROVE InRange(p[d], C[d]) <=> InRange(p[d], RangeOf(A, d)) /\ InRange(p[d], RangeOf(B, d))
    BY <1>2, <1>3, <1>4, <1>6, RangeAndExact DEF Integral
  <2>2. \A d \in D : /\ p[d] \in Int
                     /\ d \notin DOMAIN A => InRange(p[d], RangeOf(A, d))
                     /\ d \notin DOMAIN B => InRange(p[d], RangeOf(B, d))
                     /\ d \in DOMAIN A => RangeOf(A, d) = A[d]
                     /\ d \in DOMAIN B => RangeOf(B, d) = B[d]
    BY <1>6, InfiniteHoldsAll DEF Integral, RangeOf
  <2> QED BY <1>1, <2>1, <2>2 DEF Inside
<1> QED BY <1>1, <1>2, <1>3, <1>5, <1>6 DEF C

(* The buffer of a field cut to a smaller domain: if it has an element for *)
(* a point, it holds the field's value there.                              *)
LEMMA CutReads ==
  ASSUME NEW g, IsField(g), NEW dom, DOMAIN dom = Dimensions(g),
         \A d \in DOMAIN dom : dom[d] \in Ranges,
         IsOk(Cut(g.arr, g.domain, dom)), NEW b, b = Cut(g.arr, g.domain, dom).val
  PROVE  /\ IsArray(b) /\ DOMAIN b.shape = DOMAIN dom
         /\ \A p : /\ Inside(dom, p)
                   /\ \A d \in DOMAIN dom : RangeWithin(dom[d], g.domain[d]) /\ b.shape[d] # 0
                   => /\ Inside(g.domain, p) /\ Fits(b, dom)
                      /\ b.at[Pos(b, dom, p)] = g.arr.at[Pos(g.arr, g.domain, p)]
<1> DEFINE slices == SlicesFromDomain(g.domain, dom)
           a == g.arr
           D == Dimensions(g)
<1>1. /\ IsArray(a) /\ DOMAIN a.shape = D /\ Fits(a, g.domain)
      /\ \A d \in D : g.domain[d] \in Ranges /\ a.shape[d] \in Nat
  BY FieldFacts
<1>2. IsOk(Sub(a, slices, NoIndex)) /\ b = Sub(a, slices, NoIndex).val
  BY Zenon DEF Cut, Sub
<1>3. DOMAIN NoIndex = {}
  BY DEF NoIndex
<1>4. /\ DOMAIN slices = D
      /\ \A d \in D : slices[d] = ComputeSlice(dom[d], g.domain[d])
  BY DEF SlicesFromDomain, Dimensions
<1>5. \A d \in DOMAIN slices : /\ slices[d].lo \in Bounds \cup {None}
                               /\ slices[d].hi \in Bounds \cup {None}
  BY <1>1, <1>4, SliceBounds
<1> HIDE DEF slices
<1>6. IsArray(b)
  BY <1>1, <1>2, <1>3, <1>5, SubscriptArray
<1>7. b.shape = SubShape(a, slices, NoIndex)
  <2>1. b = [shape |-> SubShape(a, slices, NoIndex),
             at |-> [i \in Indices(SubShape(a, slices, NoIndex)) |-> a.at[SubAt(a, slices, NoIndex, i)]]]
    BY <1>2, SubscriptOk
  <2> QED BY <2>1
<1>8. DOMAIN b.shape = D /\ \A d \in D :
        b.shape[d] = IF AxisHigh(a, slices, d) > AxisLow(a, slices, d)
                     THEN AxisHigh(a, slices, d) - AxisLow(a, slices, d) ELSE 0
  BY <1>1, <1>3, <1>7 DEF SubShape
<1>9. ASSUME NEW p, Inside(dom, p),
             \A d \in DOMAIN dom : RangeWithin(dom[d], g.domain[d]) /\ b.shape[d] # 0
      PROVE  /\ Inside(g.domain, p) /\ Fits(b, dom)
             /\ b.at[Pos(b, dom, p)] = g.arr.at[Pos(g.arr, g.domain, p)]
  <2>1. ASSUME NEW d \in D, b.shape[d] # 1
        PROVE  IsFinite(dom[d]) /\ RangeLen(dom[d]) = b.shape[d]
    <3>1. /\ AxisLow(a, slices, d) = Low(slices[d], a.shape[d])
          /\ AxisHigh(a, slices, d) = High(slices[d], a.shape[d])
      BY <1>4 DEF AxisLow, AxisHigh
    <3>2. /\ Low(slices[d], a.shape[d]) \in 0 .. a.shape[d]
          /\ High(slices[d], a.shape[d]) \in 0 .. a.shape[d]
      BY <1>1, <1>2, <1>3, <1>5, <3>1, SubscriptArray
    <3>3. /\ slices[d].lo = None \/ IsInt(slices[d].lo)
          /\ slices[d].hi = None \/ IsInt(slices[d].hi)
      BY <1>2, <1>4, SubscriptOk
    <3>4. a.shape[d] # 1 => IsFinite(g.domain[d]) /\ RangeLen(g.domain[d]) = a.shape[d]
      BY <1>1 DEF Fits, Dimensions
    <3>5. /\ p[d] \in Int /\ InRange(p[d], dom[d]) /\ RangeWithin(dom[d], g.domain[d])
          /\ b.shape[d] # 0 /\ b.shape[d] \in Nat
          /\ a.shape[d] \in Nat /\ g.domain[d] \in Ranges /\ dom[d] \in Ranges
          /\ slices[d] = ComputeSlice(dom[d], g.domain[d])
          /\ b.shape[d] = IF High(slices[d], a.shape[d]) > Low(slices[d], a.shape[d])
                          THEN High(slices[d], a.shape[d]) - Low(slices[d], a.shape[d]) ELSE 0
      BY <1>1, <1>4, <1>6, <1>8, <1>9, <3>1 DEF Inside, IsArray
    <3> QED BY <2>1, <3>2, <3>3, <3>4, <3>5, CutAxisFits
  <2>2. Fits(b, dom)
    BY <2>1 DEF Fits
  <2>3. SubField(g, slices, NoIndex, b, dom)
    BY <1>2, <1>3, <1>4, <1>5, <2>2 DEF SubField
  <2> DEFINE q == [d \in D |-> IF d \in DOMAIN NoIndex THEN NoIndex[d] ELSE p[d]]
  <2>4. Cutting(g, dom, NoIndex, NoIndex, b, dom, p, q)
    BY <1>3, <1>9, <2>3 DEF Cutting, slices
  <2>5. Inside(g.domain, q) /\ b.at[Pos(b, dom, p)] = g.arr.at[Pos(g.arr, g.domain, q)]
    <3> HIDE DEF q
    <3> QED BY <2>4, RestrictReads
  <2>6. \A d \in D : q[d] = p[d]
    BY <1>3
  <2> HIDE DEF q
  <2> QED BY <2>2, <2>5, <2>6, AtLocal
<1> QED BY <1>6, <1>8, <1>9

(* An operand of a pointwise operation on the common domain.               *)
LEMMA OperandReads ==
  ASSUME NEW g, IsField(g), NEW dom, Dimensions(g) \subseteq DOMAIN dom,
         \A d \in DOMAIN dom : dom[d] \in Ranges,
         IsOk(Operand(g, dom)), NEW b, b = Operand(g, dom).val
  PROVE  /\ IsArray(b) /\ DOMAIN b.shape = DOMAIN dom
         /\ \A p : /\ Inside(dom, p)
                   /\ \A d \in DOMAIN dom : /\ RangeWithin(dom[d], RangeOf(g.domain, d))
                                            /\ b.shape[d] # 0
                   => /\ Inside(g.domain, p) /\ Fits(b, dom)
                      /\ b.at[Pos(b, dom, p)] = At(g, p)
<1>1. CASE g.domain = dom
  <2>1. b = g.arr
    BY <1>1, Results DEF Operand
  <2>2. IsArray(b) /\ DOMAIN b.shape = DOMAIN dom /\ Fits(b, dom)
    BY <1>1, <2>1, FieldFacts DEF Dimensions
  <2>3. ASSUME NEW p, Inside(dom, p) PROVE b.at[Pos(b, dom, p)] = At(g, p)
    BY <1>1, <2>1, <2>3, AtReads DEF Inside, Integral, Dimensions
  <2> QED BY <1>1, <2>2, <2>3
<1>2. CASE g.domain # dom
  <2> DEFINE h == Broadcast(g, DOMAIN dom)
  <2>1. Operand(g, dom) = Cut(h.arr, h.domain, dom)
    BY <1>2, Zenon DEF Operand
  <2> HIDE DEF h
  <2>2. /\ IsField(h) /\ Dimensions(h) = DOMAIN dom
        /\ h.domain = [d \in DOMAIN dom |-> RangeOf(g.domain, d)]
        /\ \A p : Integral(DOMAIN dom, p) =>
             /\ At(h, p) = At(g, p)
             /\ Inside(h.domain, p) <=> Inside(g.domain, p)
    BY BroadcastIsExact DEF h
  <2>3. /\ IsArray(b) /\ DOMAIN b.shape = DOMAIN dom
        /\ \A p : /\ Inside(dom, p)
                  /\ \A d \in DOMAIN dom : RangeWithin(dom[d], h.domain[d]) /\ b.shape[d] # 0
                  => /\ Inside(h.domain, p) /\ Fits(b, dom)
                     /\ b.at[Pos(b, dom, p)] = h.arr.at[Pos(h.arr, h.domain, p)]
    BY <2>1, <2>2, CutReads
  <2>4. ASSUME NEW p, Inside(dom, p),
               \A d \in DOMAIN dom : /\ RangeWithin(dom[d], RangeOf(g.domain, d))
                                     /\ b.shape[d] # 0
        PROVE  /\ Inside(g.domain, p) /\ Fits(b, dom)
               /\ b.at[Pos(b, dom, p)] = At(g, p)
    <3>1. Integral(DOMAIN dom, p)
      BY <2>4 DEF Inside, Integral
    <3>2. \A d \in DOMAIN dom : RangeWithin(dom[d], h.domain[d]) /\ b.shape[d] # 0
      BY <2>2, <2>4
    <3>3. /\ Inside(h.domain, p) /\ Fits(b, dom)
          /\ b.at[Pos(b, dom, p)] = h.arr.at[Pos(h.arr, h.domain, p)]
      BY <2>3, <2>4, <3>2
    <3>4. At(h, p) = h.arr.at[Pos(h.arr, h.domain, p)]
      BY <2>2, <3>1, <3>3, AtReads
    <3> QED BY <2>2, <3>1, <3>3, <3>4
  <2> QED BY <2>3, <2>4
<1> QED BY <1>1, <1>2

(* Two arrays combined element by element: axes of one element stretch.    *)
Stretches(a, b) ==
  \A d \in DOMAIN a.shape : a.shape[d] = b.shape[d] \/ a.shape[d] = 1 \/ b.shape[d] = 1
ElemShape(a, b) == [d \in DOMAIN a.shape |-> IF a.shape[d] = 1 THEN b.shape[d] ELSE a.shape[d]]

LEMMA StretchedIndex ==
  ASSUME NEW a, NEW b, IsArray(a), IsArray(b), DOMAIN a.shape = DOMAIN b.shape, Stretches(a, b)
  PROVE  /\ ElemShape(a, b) \in [DOMAIN a.shape -> Nat]
         /\ \A i \in Indices(ElemShape(a, b)) : /\ Stretch(a, i) \in Indices(a.shape)
                                                /\ Stretch(b, i) \in Indices(b.shape)
<1> DEFINE D == DOMAIN a.shape
           sh == ElemShape(a, b)
<1>1. a.shape \in [D -> Nat] /\ b.shape \in [D -> Nat]
  BY DEF IsArray
<1>2. sh \in [D -> Nat]
  BY <1>1 DEF ElemShape
<1>3. \A d \in D : sh[d] = IF a.shape[d] = 1 THEN b.shape[d] ELSE a.shape[d]
  BY DEF ElemShape
<1>4. \A d \in D : a.shape[d] = b.shape[d] \/ a.shape[d] = 1 \/ b.shape[d] = 1
  BY DEF Stretches
<1> HIDE DEF sh
<1>5. ASSUME NEW i \in Indices(sh)
      PROVE  Stretch(a, i) \in Indices(a.shape) /\ Stretch(b, i) \in Indices(b.shape)
  <2>1. i \in [D -> Nat] /\ \A d \in D : i[d] < sh[d]
    BY <1>2, IndexTuples
  <2>2. Stretch(a, i) \in [D -> Nat] /\ \A d \in D : Stretch(a, i)[d] < a.shape[d]
    BY <1>1, <1>3, <2>1 DEF Stretch
  <2>3. Stretch(b, i) \in [D -> Nat] /\ \A d \in D : Stretch(b, i)[d] < b.shape[d]
    BY <1>1, <1>3, <1>4, <2>1 DEF Stretch
  <2> QED BY <1>1, <2>2, <2>3, IndexTuples
<1> QED BY <1>2, <1>5 DEF sh

(* If the result fits a domain with a point, its parts have no empty axis, *)
(* and the point is at the position the stretched axes are read at.        *)
Stretched(a, b, c, dom, p) ==
  /\ IsArray(a) /\ IsArray(b) /\ DOMAIN a.shape = DOMAIN b.shape /\ Stretches(a, b)
  /\ IsArray(c) /\ c.shape = ElemShape(a, b)
  /\ DOMAIN dom = DOMAIN a.shape /\ \A d \in DOMAIN dom : dom[d] \in Ranges
  /\ Fits(c, dom) /\ Inside(dom, p)

LEMMA StretchedPosition ==
  ASSUME NEW a, NEW b, NEW c, NEW dom, NEW p, Stretched(a, b, c, dom, p)
  PROVE  /\ \A d \in DOMAIN dom : a.shape[d] # 0 /\ b.shape[d] # 0
         /\ Stretch(a, Pos(c, dom, p)) = Pos(a, dom, p)
         /\ Stretch(b, Pos(c, dom, p)) = Pos(b, dom, p)
<1> USE DEF Stretched
<1> DEFINE D == DOMAIN dom
<1>1. a.shape \in [D -> Nat] /\ b.shape \in [D -> Nat]
  BY DEF IsArray
<1>2. /\ DOMAIN c.shape = D
      /\ \A d \in D : c.shape[d] = IF a.shape[d] = 1 THEN b.shape[d] ELSE a.shape[d]
  BY DEF ElemShape
<1>3. \A d \in D : a.shape[d] = b.shape[d] \/ a.shape[d] = 1 \/ b.shape[d] = 1
  BY DEF Stretches
<1>4. ASSUME NEW d \in D PROVE c.shape[d] # 0
  <2>1. p[d] \in Int /\ InRange(p[d], dom[d]) /\ dom[d] \in Ranges
    BY DEF Inside
  <2>2. c.shape[d] # 1 => IsFinite(dom[d]) /\ RangeLen(dom[d]) = c.shape[d]
    BY DEF Fits
  <2> QED BY <2>1, <2>2, FiniteRange, FiniteMembers DEF RangeLen
<1>5. \A d \in D : a.shape[d] # 0 /\ b.shape[d] # 0
  BY <1>1, <1>2, <1>3, <1>4
<1>6. \A d \in D : Pos(c, dom, p)[d] = IF c.shape[d] = 1 THEN 0 ELSE p[d] - dom[d].start
  BY <1>2 DEF Pos
<1>7. Stretch(a, Pos(c, dom, p)) = Pos(a, dom, p)
  <2>1. \A d \in D : Stretch(a, Pos(c, dom, p))[d] = Pos(a, dom, p)[d]
    BY <1>2, <1>6 DEF Stretch, Pos
  <2> QED BY <2>1 DEF Stretch, Pos
<1>8. Stretch(b, Pos(c, dom, p)) = Pos(b, dom, p)
  <2>1. \A d \in D : Stretch(b, Pos(c, dom, p))[d] = Pos(b, dom, p)[d]
    BY <1>2, <1>3, <1>6 DEF Stretch, Pos
  <2> QED BY <2>1 DEF Stretch, Pos
<1> QED BY <1>5, <1>7, <1>8

(* A builtin of two fields (nd_array_field.py): defined where both         *)
(* operands are, and there it combines their values, however the operands  *)
(* were broadcast, sliced and stretched for it.                            *)
THEOREM BuiltinIsExact ==
  ASSUME NEW g, IsField(g), NEW k, IsField(k), IsOk(Builtin(g, k)),
         NEW h, h = Builtin(g, k).val
  PROVE  /\ IsField(h) /\ Dimensions(h) = Dimensions(g) \cup Dimensions(k)
         /\ \A p : Integral(Dimensions(h), p) =>
              At(h, p) = IF Inside(g.domain, p) /\ Inside(k.domain, p)
                         THEN Combine(At(g, p), At(k, p)) ELSE UNDEF
<1> DEFINE dom == DomainAnd(g.domain, k.domain)
           D == Dimensions(g) \cup Dimensions(k)
           ra == Operand(g, dom)
           rb == Operand(k, dom)
           a == ra.val
           b == rb.val
           clash == \E d \in DOMAIN a.shape :
                      a.shape[d] # b.shape[d] /\ 1 \notin {a.shape[d], b.shape[d]}
           c == [shape |-> ElemShape(a, b),
                 at |-> [i \in Indices(ElemShape(a, b)) |->
                           Combine(a.at[Stretch(a, i)], b.at[Stretch(b, i)])]]
           rc == IF clash THEN Raise("ShapeError") ELSE Ok(c)
<1>1. Builtin(g, k) =
        IF ~CanPromote(DOMAIN dom) THEN Raise("ValueError")
        ELSE IF IsOk(ra)
             THEN IF IsOk(rb)
                  THEN IF IsOk(rc) THEN FromArray(rc.val, dom) ELSE rc
                  ELSE rb
             ELSE ra
  BY Zenon DEF Builtin, Then, Elementwise, Array, ElemShape
<1>2. /\ \A d \in Dimensions(g) : g.domain[d] \in Ranges
      /\ \A d \in Dimensions(k) : k.domain[d] \in Ranges
  BY FieldFacts
<1>3. /\ DOMAIN dom = D
      /\ \A d \in D : /\ RangeOf(g.domain, d) \in Ranges /\ RangeOf(k.domain, d) \in Ranges
                      /\ dom[d] = RangeAnd(RangeOf(g.domain, d), RangeOf(k.domain, d))
                      /\ dom[d] \in Ranges
      /\ \A p : Integral(D, p) => (Inside(dom, p) <=> Inside(g.domain, p) /\ Inside(k.domain, p))
  BY <1>2, DomainAndRanges DEF Dimensions
<1> HIDE DEF dom, ra, rb, clash, c
<1>4. IsOk(ra) /\ IsOk(rb) /\ ~clash /\ IsOk(FromArray(c, dom)) /\ h = FromArray(c, dom).val
  BY <1>1, Results
<1>5. /\ IsArray(a) /\ DOMAIN a.shape = D
      /\ IsArray(b) /\ DOMAIN b.shape = D
  BY <1>3, <1>4, OperandReads DEF ra, rb
<1>6. Stretches(a, b)
  BY <1>4 DEF Stretches, clash
<1>7. /\ c.shape = ElemShape(a, b)
      /\ \A i \in Indices(c.shape) : c.at[i] = Combine(a.at[Stretch(a, i)], b.at[Stretch(b, i)])
      /\ c.at = [i \in Indices(c.shape) |-> c.at[i]]
  BY DEF c
<1>8. IsArray(c)
  <2> HIDE DEF a, b
  <2>1. \A i \in Indices(c.shape) : c.at[i] \in Int
    BY <1>5, <1>6, <1>7, StretchedIndex DEF IsArray, Combine
  <2>2. c.shape \in [DOMAIN c.shape -> Nat]
    <3>1. ElemShape(a, b) \in [DOMAIN a.shape -> Nat]
      BY <1>5, <1>6, StretchedIndex
    <3> QED BY <1>7, <3>1
  <2> QED BY <1>7, <2>1, <2>2 DEF IsArray
<1>9. IsField(h) /\ h.domain = dom /\ h.arr = c /\ Fits(c, dom) /\ Dimensions(h) = D
  BY <1>3, <1>4, <1>8, FieldMade DEF Dimensions
<1>10. ASSUME NEW p, Integral(D, p)
       PROVE  At(h, p) = IF Inside(g.domain, p) /\ Inside(k.domain, p)
                         THEN Combine(At(g, p), At(k, p)) ELSE UNDEF
  <2>1. At(h, p) = IF Inside(dom, p) THEN c.at[Pos(c, dom, p)] ELSE UNDEF
    BY <1>9, <1>10, AtReads
  <2>2. ASSUME Inside(dom, p) PROVE c.at[Pos(c, dom, p)] = Combine(At(g, p), At(k, p))
    <3>1. \A d \in D : /\ RangeWithin(dom[d], RangeOf(g.domain, d))
                       /\ RangeWithin(dom[d], RangeOf(k.domain, d))
      BY <1>3, <2>2, AndWithin DEF Inside
    <3> HIDE DEF a, b, D
    <3>2. /\ \A d \in D : a.shape[d] # 0 /\ b.shape[d] # 0
          /\ Stretch(a, Pos(c, dom, p)) = Pos(a, dom, p)
          /\ Stretch(b, Pos(c, dom, p)) = Pos(b, dom, p)
      <4>1. Stretched(a, b, c, dom, p)
        BY <1>3, <1>5, <1>6, <1>7, <1>8, <1>9, <2>2 DEF Stretched
      <4> QED BY <1>3, <4>1, StretchedPosition
    <3>3. Pos(c, dom, p) \in Indices(c.shape)
      BY <1>3, <1>5, <1>7, <1>8, <1>9, <2>2, PosInBuffer DEF ElemShape
    <3>4. c.at[Pos(c, dom, p)] = Combine(a.at[Pos(a, dom, p)], b.at[Pos(b, dom, p)])
      BY <1>7, <3>2, <3>3
    <3>5. a.at[Pos(a, dom, p)] = At(g, p)
      BY <1>3, <1>4, <2>2, <3>1, <3>2, OperandReads DEF a, ra, D
    <3>6. b.at[Pos(b, dom, p)] = At(k, p)
      BY <1>3, <1>4, <2>2, <3>1, <3>2, OperandReads DEF b, rb, D
    <3> QED BY <3>4, <3>5, <3>6
  <2> QED BY <1>3, <1>10, <2>1, <2>2
<1> QED BY <1>9, <1>10

-----------------------------------------------------------------------------
(* Assignments *)

(* One axis of an assignment: an element of the axis is overwritten if and *)
(* only if its position is in the range that is assigned to.  An axis of   *)
(* one element must stand for one position, or be assigned as a whole.     *)
LEMMA WriteAxis ==
  ASSUME NEW whole \in Ranges, NEW r \in Ranges, NEW n \in Nat, NEW m \in Nat, NEW s,
         n # 1 => IsFinite(whole) /\ RangeLen(whole) = n,
         n = 1 => (IsFinite(whole) /\ RangeLen(whole) = 1) \/ r = whole,
         s = ComputeSlice(r, whole), s.lo = None \/ IsInt(s.lo), s.hi = None \/ IsInt(s.hi),
         m = IF High(s, n) > Low(s, n) THEN High(s, n) - Low(s, n) ELSE 0,
         RangeWithin(r, whole),
         NEW x \in Int, InRange(x, whole), NEW i, i = IF n = 1 THEN 0 ELSE x - whole.start
  PROVE  /\ Low(s, n) <= i /\ i < Low(s, n) + m <=> InRange(x, r)
         /\ InRange(x, r) /\ m # 1 => i - Low(s, n) = x - r.start
<1>0. /\ r.start \in Bounds /\ r.stop \in Bounds
      /\ whole.start \in Bounds /\ whole.stop \in Bounds
  BY DEF Ranges
<1>1. CASE IsFinite(whole) /\ RangeLen(whole) = n
  <2>1. whole.start \in Int /\ whole.stop \in Int /\ whole.stop - whole.start = n
    BY <1>1, FiniteRange DEF RangeLen
  <2>2. IsFinite(r) /\ r.start \in Int /\ r.stop \in Int /\ r.start <= r.stop
    <3>1. IsFinite(r)
      BY <2>1, <1>0, InfinityAssumption, SMTT(30)
         DEF RangeWithin, Le, Infinity, Bounds, IsFinite, LeftFinite, RightFinite
    <3> QED BY <3>1, FiniteRange DEF RangeLen
  <2>3. whole.start <= r.start /\ r.stop <= whole.stop
    BY <2>1, <2>2, InfinityAssumption DEF RangeWithin, Le, Infinity
  <2>4. s.lo = r.start - whole.start /\ s.hi = r.stop - whole.start
    BY <1>1, <2>1, <2>2, InfinityAssumption DEF ComputeSlice, Minus, IsFinite, Infinity
  <2>5. s.lo # None /\ s.hi # None
    BY <2>1, <2>2, <2>4, NoneAssumption DEF Bounds
  <2>6. Low(s, n) = r.start - whole.start /\ High(s, n) = r.stop - whole.start
    BY <2>1, <2>2, <2>3, <2>4, <2>5 DEF Low, High, Clip
  <2>7. m = r.stop - r.start
    BY <2>1, <2>2, <2>6
  <2>8. InRange(x, r) <=> r.start <= x /\ x < r.stop
    BY <2>2, FiniteMembers
  <2>9. i = x - whole.start
    BY <1>1, <2>1, FiniteMembers
  <2>10. Low(s, n) + m = r.stop - whole.start
    BY <2>1, <2>2, <2>6, <2>7
  <2>11. Low(s, n) <= i /\ i < Low(s, n) + m <=> r.start <= x /\ x < r.stop
    BY <2>1, <2>2, <2>6, <2>9, <2>10
  <2>12. i - Low(s, n) = x - r.start
    BY <2>1, <2>2, <2>6, <2>9
  <2> QED BY <2>8, <2>11, <2>12
<1>2. CASE n = 1 /\ r = whole
  <2>1. s.lo # None => s.lo = 0
    BY <1>0, <1>2, InfinityAssumption, SMTT(30)
       DEF ComputeSlice, Minus, LeftFinite, Infinity, Bounds, InRange, Le
  <2>2. s.hi # None => s.hi \in Int /\ s.hi > 0
    <3> SUFFICES ASSUME s.hi # None PROVE s.hi \in Int /\ s.hi > 0
      OBVIOUS
    <3>1. s.hi = Minus(whole.stop, whole.start) /\ RightFinite(whole) /\ s.hi \notin Infinity
      BY <1>2 DEF ComputeSlice, IsInt
    <3>2. whole.start \in Int /\ whole.stop \in Int
      BY <1>0, <3>1, InfinityAssumption, SMTT(30) DEF Minus, Infinity, Bounds
    <3>3. whole.start <= x /\ x < whole.stop
      BY <3>2, InfinityAssumption DEF InRange, Le, Lt, Infinity
    <3> QED BY <3>1, <3>2, <3>3, InfinityAssumption DEF Minus, Infinity
  <2>3. Low(s, n) = 0 /\ High(s, n) = 1
    BY <1>2, <2>1, <2>2 DEF Low, High, Clip
  <2> QED BY <1>2, <2>3
<1> QED BY <1>1, <1>2

(* An assignment to part of an axis of one element that stands for more.   *)
Partial(g, k) == \E d \in Dimensions(g) : Single(g, d) /\ k.domain[d] # g.domain[d]

(* Field assignment (NdArrayField.__setitem__): the field has the assigned *)
(* values on the assigned domain and keeps its own elsewhere, if no part   *)
(* of a broadcast axis is assigned to; it stays a field in any case.       *)
THEOREM SetItemIsExact ==
  ASSUME NEW g, IsField(g), NEW k, IsField(k), Dimensions(k) = Dimensions(g),
         IsOk(SetItem(g, k.domain, k)), NEW h, h = SetItem(g, k.domain, k).val
  PROVE  /\ IsField(h) /\ h.domain = g.domain
         /\ ~Partial(g, k) =>
              \A p : Integral(Dimensions(g), p) =>
                At(h, p) = IF Inside(k.domain, p) THEN At(k, p) ELSE At(g, p)
<1> DEFINE D == Dimensions(g)
           bad == \E d \in DOMAIN k.domain : ~RangeWithin(k.domain[d], g.domain[d])
           A == AbsoluteSubDomain(g.domain, [within |-> k.domain, at |-> NoIndex])
           s == SlicesFromDomain(g.domain, k.domain)
           T == Cut(g.arr, g.domain, k.domain)
           t == T.val
           clash == \E d \in DOMAIN t.shape : k.arr.shape[d] \notin {1, t.shape[d]}
           v == [shape |-> t.shape, at |-> [i \in Indices(t.shape) |-> k.arr.at[Stretch(k.arr, i)]]]
           B == IF clash THEN Raise("ShapeError") ELSE Ok(v)
           n == g.arr.shape
           lo(d) == AxisLow(g.arr, s, d)
           written(i) == \A d \in DOMAIN n : lo(d) <= i[d] /\ i[d] < lo(d) + t.shape[d]
           at(w) == [i \in Indices(n) |-> IF written(i) THEN w.at[[d \in DOMAIN n |-> i[d] - lo(d)]]
                                          ELSE g.arr.at[i]]
           res(w) == [domain |-> g.domain, arr |-> [shape |-> n, at |-> at(w)]]
<1>1. SetItem(g, k.domain, k) =
        IF IsOk(A)
        THEN IF k.domain # A.val THEN Raise("ValueError")
             ELSE IF IsOk(T)
                  THEN IF IsOk(B) THEN Ok(res(B.val)) ELSE B
                  ELSE T
        ELSE A
  BY Zenon DEF SetItem, Then, BroadcastTo, Array, AxisLow
<1>2. IsOk(A) => ~bad
  BY Results DEF AbsoluteSubDomain
<1> HIDE DEF A, T, clash, v, bad
<1>3. IsOk(A) /\ IsOk(T) /\ ~clash /\ h = res(v)
  <2> HIDE DEF res
  <2> QED BY <1>1, Results
<1>4. h.domain = g.domain /\ h.arr.shape = n /\ h.arr.at = at(v)
  <2> HIDE DEF at, n
  <2>1. h.domain = g.domain /\ h.arr = [shape |-> n, at |-> at(v)]
    BY <1>3
  <2> QED BY <2>1
<1>5. /\ IsArray(g.arr) /\ DOMAIN n = D /\ Fits(g.arr, g.domain)
      /\ \A d \in D : g.domain[d] \in Ranges /\ n[d] \in Nat
      /\ IsArray(k.arr) /\ DOMAIN k.arr.shape = D /\ Fits(k.arr, k.domain)
      /\ \A d \in D : k.domain[d] \in Ranges /\ k.arr.shape[d] \in Nat
  BY FieldFacts
<1>6. DOMAIN k.domain = D /\ DOMAIN g.domain = D
  BY DEF Dimensions
<1>7. /\ DOMAIN s = D
      /\ \A d \in D : s[d] = ComputeSlice(k.domain[d], g.domain[d])
  BY <1>6 DEF SlicesFromDomain
<1>8. DOMAIN NoIndex = {}
  BY DEF NoIndex
<1>9. IsOk(Sub(g.arr, s, NoIndex)) /\ t = Sub(g.arr, s, NoIndex).val
  BY <1>3, Zenon DEF T, Cut, Sub
<1> HIDE DEF s, t
<1>10. \A d \in DOMAIN s : /\ s[d].lo \in Bounds \cup {None}
                           /\ s[d].hi \in Bounds \cup {None}
  BY <1>5, <1>7, SliceBounds
<1>11. /\ IsArray(t)
       /\ \A d \in D : lo(d) \in 0 .. n[d] /\ AxisHigh(g.arr, s, d) \in 0 .. n[d]
  BY <1>5, <1>8, <1>9, <1>10, SubscriptArray
<1>12. t.shape = SubShape(g.arr, s, NoIndex)
  <2>1. t = [shape |-> SubShape(g.arr, s, NoIndex),
             at |-> [i \in Indices(SubShape(g.arr, s, NoIndex)) |-> g.arr.at[SubAt(g.arr, s, NoIndex, i)]]]
    BY <1>9, SubscriptOk
  <2> QED BY <2>1
<1>13. /\ DOMAIN t.shape = D /\ t.shape \in [D -> Nat]
       /\ \A d \in D : t.shape[d] = IF AxisHigh(g.arr, s, d) > lo(d)
                                    THEN AxisHigh(g.arr, s, d) - lo(d) ELSE 0
  BY <1>5, <1>8, <1>11, <1>12 DEF SubShape, IsArray
<1>14. \A d \in D : k.arr.shape[d] \in {1, t.shape[d]}
  BY <1>3, <1>13 DEF clash
<1>15. v.shape = t.shape /\ \A i \in Indices(t.shape) : v.at[i] = k.arr.at[Stretch(k.arr, i)]
  BY DEF v
<1>16. ASSUME NEW i \in Indices(n), written(i)
       PROVE  [d \in DOMAIN n |-> i[d] - lo(d)] \in Indices(t.shape)
  <2>1. i \in [D -> Nat]
    BY <1>5, IndexTuples DEF IsArray
  <2>2. \A d \in D : /\ i[d] \in Nat /\ lo(d) \in Nat /\ t.shape[d] \in Nat
                     /\ lo(d) <= i[d] /\ i[d] < lo(d) + t.shape[d]
    BY <1>5, <1>11, <1>13, <1>16, <2>1
  <2> HIDE DEF lo
  <2>3. \A d \in D : i[d] - lo(d) \in Nat /\ i[d] - lo(d) < t.shape[d]
    BY <2>2
  <2> DEFINE j == [d \in D |-> i[d] - lo(d)]
  <2>4. j \in [D -> Nat] /\ \A d \in D : j[d] < t.shape[d]
    BY <2>3
  <2> HIDE DEF j
  <2>5. j \in Indices(t.shape)
    BY <1>13, <2>4, IndexTuples
  <2> QED BY <1>5, <2>5 DEF j
<1>17. ASSUME NEW j \in Indices(t.shape) PROVE Stretch(k.arr, j) \in Indices(k.arr.shape)
  <2>1. j \in [D -> Nat] /\ \A d \in D : j[d] < t.shape[d]
    BY <1>13, IndexTuples
  <2>2. Stretch(k.arr, j) \in [D -> Nat] /\ \A d \in D : Stretch(k.arr, j)[d] < k.arr.shape[d]
    BY <1>5, <1>14, <2>1 DEF Stretch
  <2>3. k.arr.shape \in [D -> Nat]
    BY <1>5 DEF IsArray
  <2> QED BY <2>2, <2>3, IndexTuples
<1>18. \A i \in Indices(n) : at(v)[i] \in Int
  BY <1>5, <1>15, <1>16, <1>17 DEF IsArray
<1>19. IsArray(h.arr)
  BY <1>4, <1>5, <1>18 DEF IsArray
<1>20. IsField(h)
  <2>1. IsOk(FromArray(h.arr, h.domain))
    BY <1>4, <1>5, <1>6, Results DEF FromArray, Fits
  <2> QED BY <1>4, <1>5, <1>6, <1>19, <2>1 DEF IsField, Dimensions
<1> HIDE DEF at
<1>21. ASSUME ~Partial(g, k), NEW p, Integral(D, p)
       PROVE  At(h, p) = IF Inside(k.domain, p) THEN At(k, p) ELSE At(g, p)
  <2>1. At(h, p) = IF Inside(g.domain, p) THEN h.arr.at[Pos(h.arr, g.domain, p)] ELSE UNDEF
    BY <1>4, <1>6, <1>20, <1>21, AtReads DEF Dimensions
  <2>2. At(g, p) = IF Inside(g.domain, p) THEN g.arr.at[Pos(g.arr, g.domain, p)] ELSE UNDEF
    BY <1>21, AtReads
  <2>3. At(k, p) = IF Inside(k.domain, p) THEN k.arr.at[Pos(k.arr, k.domain, p)] ELSE UNDEF
    BY <1>21, AtReads
  <2>4. \A d \in D : RangeWithin(k.domain[d], g.domain[d])
    BY <1>2, <1>3, <1>6 DEF bad
  <2>5. Inside(k.domain, p) => Inside(g.domain, p)
    <3>1. \A r \in Ranges : r.start \in Bounds /\ r.stop \in Bounds
      BY DEF Ranges
    <3> QED BY <1>5, <1>6, <2>4, <3>1, Chain DEF Inside, InRange, RangeWithin
  <2> DEFINE i == Pos(g.arr, g.domain, p)
  <2>6. ASSUME Inside(g.domain, p)
        PROVE  h.arr.at[i] = IF Inside(k.domain, p) THEN At(k, p) ELSE At(g, p)
    <3>1. i \in Indices(n)
      BY <1>5, <1>6, <2>6, PosInBuffer
    <3>2. \A d \in D : i[d] = IF n[d] = 1 THEN 0 ELSE p[d] - g.domain[d].start
      BY <1>5 DEF Pos
    <3> HIDE DEF i
    <3>3. ASSUME NEW d \in D
          PROVE  /\ lo(d) <= i[d] /\ i[d] < lo(d) + t.shape[d] <=> InRange(p[d], k.domain[d])
                 /\ InRange(p[d], k.domain[d]) /\ t.shape[d] # 1 =>
                      i[d] - lo(d) = p[d] - k.domain[d].start
      <4>1. /\ lo(d) = Low(s[d], n[d])
            /\ AxisHigh(g.arr, s, d) = High(s[d], n[d])
        BY <1>7 DEF AxisLow, AxisHigh
      <4>2. /\ s[d] = ComputeSlice(k.domain[d], g.domain[d])
            /\ s[d].lo = None \/ IsInt(s[d].lo)
            /\ s[d].hi = None \/ IsInt(s[d].hi)
        BY <1>7, <1>9, SubscriptOk
      <4>3. /\ n[d] # 1 => IsFinite(g.domain[d]) /\ RangeLen(g.domain[d]) = n[d]
            /\ n[d] = 1 => \/ IsFinite(g.domain[d]) /\ RangeLen(g.domain[d]) = 1
                           \/ k.domain[d] = g.domain[d]
        BY <1>5, <1>6, <1>21 DEF Fits, Partial, Single
      <4>4. /\ t.shape[d] = IF High(s[d], n[d]) > Low(s[d], n[d])
                            THEN High(s[d], n[d]) - Low(s[d], n[d]) ELSE 0
            /\ t.shape[d] \in Nat
        BY <1>13, <4>1
      <4>5. /\ p[d] \in Int /\ InRange(p[d], g.domain[d])
            /\ i[d] = IF n[d] = 1 THEN 0 ELSE p[d] - g.domain[d].start
            /\ g.domain[d] \in Ranges /\ k.domain[d] \in Ranges /\ n[d] \in Nat
            /\ RangeWithin(k.domain[d], g.domain[d])
        BY <1>5, <1>6, <2>4, <2>6, <3>2 DEF Inside
      <4> HIDE DEF lo, n
      <4> QED BY <4>1, <4>2, <4>3, <4>4, <4>5, WriteAxis
    <3>4. written(i) <=> Inside(k.domain, p)
      BY <1>5, <1>6, <1>21, <3>3 DEF Inside, Integral
    <3>5. h.arr.at[i] = IF written(i) THEN v.at[[d \in D |-> i[d] - lo(d)]] ELSE g.arr.at[i]
      BY <1>4, <1>5, <3>1 DEF at
    <3>6. ASSUME Inside(k.domain, p)
          PROVE  v.at[[d \in D |-> i[d] - lo(d)]] = k.arr.at[Pos(k.arr, k.domain, p)]
      <4> DEFINE j == [d \in D |-> i[d] - lo(d)]
      <4>1. j \in Indices(t.shape)
        BY <1>5, <1>16, <3>1, <3>4, <3>6
      <4>2. \A d \in D : Stretch(k.arr, j)[d] = Pos(k.arr, k.domain, p)[d]
        BY <1>5, <1>6, <1>14, <3>3, <3>6 DEF Stretch, Pos, Inside
      <4>3. Stretch(k.arr, j) = Pos(k.arr, k.domain, p)
        BY <1>5, <4>2 DEF Stretch, Pos
      <4> HIDE DEF j
      <4>4. v.at[j] = k.arr.at[Pos(k.arr, k.domain, p)]
        BY <1>15, <4>1, <4>3
      <4> QED BY <4>4 DEF j
    <3> HIDE DEF written, lo
    <3> QED BY <2>2, <2>3, <2>6, <3>4, <3>5, <3>6 DEF i
  <2>7. Pos(h.arr, g.domain, p) = i
    BY <1>4 DEF Pos
  <2> QED BY <2>1, <2>2, <2>5, <2>6, <2>7
<1> QED BY <1>4, <1>20, <1>21

-----------------------------------------------------------------------------
(* Translations *)

(* h is g with its dimensions renamed by tau and its ranges shifted, the   *)
(* buffer taken as it is.                                                  *)
Relabels(g, h, tau, off) ==
  /\ IsField(g) /\ IsField(h)
  /\ DOMAIN tau = Dimensions(g) /\ Dimensions(h) = {tau[e] : e \in Dimensions(g)}
  /\ \A e \in Dimensions(g) : /\ off[e] \in Int
                              /\ h.domain[tau[e]] = RangeShift(g.domain[e], -off[e])
                              /\ h.arr.shape[tau[e]] = g.arr.shape[e]
  /\ \A i \in Indices(h.arr.shape) : h.arr.at[i] = g.arr.at[[e \in Dimensions(g) |-> i[tau[e]]]]

(* A shift that leaves a range with members moves its start.               *)
LEMMA ShiftStart ==
  ASSUME NEW r \in Ranges, NEW k \in Int, NEW x \in Int, InRange(x, RangeShift(r, k)),
         IsFinite(RangeShift(r, k))
  PROVE  r.start \in Int /\ RangeShift(r, k).start = r.start + k
<1>1. r.start \in Bounds /\ r.stop \in Bounds
  BY DEF Ranges
<1>2. \A a \in Bounds : Plus(a, k) \in Bounds
  BY DEF Plus, Bounds
<1>3. Le(Plus(r.start, k), x) /\ Lt(x, Plus(r.stop, k))
  BY <1>1, <1>2, Interval DEF RangeShift
<1>4. Lt(Plus(r.start, k), Plus(r.stop, k))
  BY <1>1, <1>2, <1>3, Order, Chain
<1>5. RangeShift(r, k).start = Plus(r.start, k)
  BY <1>4 DEF RangeShift, UnitRange
<1>6. Plus(r.start, k) # NEGATIVE /\ Plus(r.start, k) # POSITIVE
  BY <1>3, <1>5, InfinityAssumption DEF IsFinite, LeftFinite, Le, Infinity
<1> QED BY <1>1, <1>5, <1>6, InfinityAssumption DEF Plus, Infinity, Bounds

LEMMA RelabelledReads ==
  ASSUME NEW g, NEW h, NEW tau, NEW off, Relabels(g, h, tau, off),
         NEW p, Integral(Dimensions(h), p),
         NEW q, \A e \in Dimensions(g) : q[e] = p[tau[e]] + off[e]
  PROVE  At(h, p) = At(g, q)
<1> USE DEF Relabels
<1> DEFINE D == Dimensions(g)
<1>1. /\ DOMAIN g.arr.shape = D /\ Fits(g.arr, g.domain) /\ \A d \in D : g.domain[d] \in Ranges
      /\ DOMAIN h.arr.shape = Dimensions(h) /\ Fits(h.arr, h.domain) /\ IsArray(h.arr)
      /\ \A d \in Dimensions(h) : h.domain[d] \in Ranges
  BY FieldFacts
<1>2. \A e \in D : tau[e] \in Dimensions(h) /\ p[tau[e]] \in Int /\ q[e] \in Int
  BY DEF Integral
<1>3. Integral(D, q)
  BY <1>2 DEF Integral
<1>4. ASSUME NEW e \in D PROVE InRange(p[tau[e]], h.domain[tau[e]]) <=> InRange(q[e], g.domain[e])
  <2>1. g.domain[e] \in RawRange
    BY <1>1 DEF Ranges, RawRange
  <2>2. p[tau[e]] - (-off[e]) = q[e] /\ -off[e] \in Int
    BY <1>2
  <2> QED BY <1>2, <2>1, <2>2, ShiftExact
<1>5. Inside(h.domain, p) <=> Inside(g.domain, q)
  BY <1>2, <1>4 DEF Inside, Dimensions
<1>6. ASSUME Inside(h.domain, p)
      PROVE  h.arr.at[Pos(h.arr, h.domain, p)] = g.arr.at[Pos(g.arr, g.domain, q)]
  <2>1. Pos(h.arr, h.domain, p) \in Indices(h.arr.shape)
    BY <1>1, <1>6, PosInBuffer DEF Dimensions
  <2>2. ASSUME NEW e \in D PROVE Pos(h.arr, h.domain, p)[tau[e]] = Pos(g.arr, g.domain, q)[e]
    <3>1. Pos(g.arr, g.domain, q)[e] = IF g.arr.shape[e] = 1 THEN 0 ELSE q[e] - g.domain[e].start
      BY <1>1 DEF Pos
    <3>2. Pos(h.arr, h.domain, p)[tau[e]] =
            IF g.arr.shape[e] = 1 THEN 0 ELSE p[tau[e]] - h.domain[tau[e]].start
      BY <1>1, <1>2 DEF Pos
    <3>3. CASE g.arr.shape[e] = 1
      BY <3>1, <3>2, <3>3
    <3>4. CASE g.arr.shape[e] # 1
      <4>1. IsFinite(h.domain[tau[e]]) /\ InRange(p[tau[e]], h.domain[tau[e]])
        BY <1>1, <1>2, <1>6, <3>4 DEF Fits, Inside, Dimensions
      <4>2. /\ h.domain[tau[e]] = RangeShift(g.domain[e], -off[e]) /\ -off[e] \in Int
            /\ g.domain[e] \in Ranges
        BY <1>1
      <4>3. g.domain[e].start \in Int /\ h.domain[tau[e]].start = g.domain[e].start + (-off[e])
        BY <1>2, <4>1, <4>2, ShiftStart
      <4>4. p[tau[e]] - h.domain[tau[e]].start = q[e] - g.domain[e].start
        BY <1>2, <4>3
      <4> QED BY <3>1, <3>2, <3>4, <4>4
    <3> QED BY <3>3, <3>4
  <2>3. [e \in D |-> Pos(h.arr, h.domain, p)[tau[e]]] = Pos(g.arr, g.domain, q)
    <3>1. Pos(g.arr, g.domain, q) = [e \in D |-> Pos(g.arr, g.domain, q)[e]]
      BY <1>1 DEF Pos
    <3> QED BY <2>2, <3>1
  <2> QED BY <2>1, <2>3
<1>7. /\ At(h, p) = IF Inside(h.domain, p) THEN h.arr.at[Pos(h.arr, h.domain, p)] ELSE UNDEF
      /\ At(g, q) = IF Inside(g.domain, q) THEN g.arr.at[Pos(g.arr, g.domain, q)] ELSE UNDEF
  BY <1>3, AtReads
<1> QED BY <1>5, <1>6, <1>7

(* A range is not changed by a shift of 0.                                 *)
LEMMA ShiftByNothing ==
  ASSUME NEW r \in Ranges, NEW k \in Int, k = 0
  PROVE  RangeShift(r, -k) = r
<1>1. r = UnitRange(r.start, r.stop) /\ r.start \in Bounds /\ r.stop \in Bounds
  BY DEF Ranges
<1>2. \A x \in Int : x + (-k) = x
  OBVIOUS
<1>3. Plus(r.start, -k) = r.start /\ Plus(r.stop, -k) = r.stop
  BY <1>1, <1>2 DEF Plus, Bounds
<1> QED BY <1>1, <1>3 DEF RangeShift

(* A shift by half cells, or a relocation, adds its offset to the position *)
(* on its dimension: halves count from a staggered index half a cell below *)
(* the index of its base.                                                  *)
LEMMA ImageIsOffset ==
  ASSUME NEW c, IsConn(c), ~IsGather(c), NEW p, p[c.dim] \in Int
  PROVE  /\ Offset(c) \in Int
         /\ Image(c, p) = p[c.dim] + Offset(c)
<1>1. CASE c.kind = "relocation"
  BY <1>1 DEF Offset, Image
<1>2. CASE c.kind = "shift"
  <2> DEFINE x == p[c.dim]
             k == c.halves
             m == k \div 2
  <2>1. k \in Int /\ m \in Int /\ (k = 2 * m \/ k = 2 * m + 1) /\ (k % 2 = 1 <=> k = 2 * m + 1)
    BY <1>2 DEF IsConn
  <2>2. Offset(c) = m + (IF k % 2 = 1 /\ c.dim \notin DOMAIN Base THEN 1 ELSE 0)
    BY <1>2 DEF Offset
  <2>3. Image(c, p) = IndexAt(Codomain(c), Position(c.dim, x) + k)
    BY <1>2 DEF Image
  <2>4. \A y \in Int : (2 * y) \div 2 = y /\ (2 * y + 2) \div 2 = y + 1
    OBVIOUS
  <2>5. CASE k % 2 # 1
    <3>1. Codomain(c) = c.dim /\ k = 2 * m /\ Offset(c) = m
      BY <1>2, <2>1, <2>2, <2>5 DEF Codomain
    <3>2. x + m \in Int /\ (2 * (x + m)) \div 2 = x + m
      BY <2>1, <2>4
    <3>3. CASE c.dim \in DOMAIN Base
      <4>1. Image(c, p) = ((2 * x - 1 + k) + 1) \div 2
        BY <2>3, <3>1, <3>3 DEF IndexAt, Position
      <4>2. (2 * x - 1 + k) + 1 = 2 * (x + m)
        BY <2>1, <3>1
      <4> QED BY <2>1, <3>1, <3>2, <4>1, <4>2
    <3>4. CASE c.dim \notin DOMAIN Base
      <4>1. Image(c, p) = (2 * x + k) \div 2
        BY <2>3, <3>1, <3>4 DEF IndexAt, Position
      <4>2. 2 * x + k = 2 * (x + m)
        BY <2>1, <3>1
      <4> QED BY <2>1, <3>1, <3>2, <4>1, <4>2
    <3> QED BY <3>3, <3>4
  <2>6. CASE k % 2 = 1
    <3>1. Codomain(c) = FlipStaggered(c.dim) /\ k = 2 * m + 1
      BY <1>2, <2>1, <2>6 DEF Codomain
    <3>2. CASE c.dim \in DOMAIN Base
      <4>1. Codomain(c) \notin DOMAIN Base
        BY <3>1, <3>2, BaseAssumption DEF FlipStaggered
      <4>2. Image(c, p) = (2 * x - 1 + k) \div 2
        BY <2>3, <3>2, <4>1 DEF IndexAt, Position
      <4>3. 2 * x - 1 + k = 2 * (x + m) /\ x + m \in Int
        BY <2>1, <3>1
      <4>4. (2 * (x + m)) \div 2 = x + m
        BY <2>4, <4>3
      <4>5. Offset(c) = m
        BY <2>1, <2>2, <3>2
      <4> QED BY <2>1, <4>2, <4>3, <4>4, <4>5
    <3>3. CASE c.dim \notin DOMAIN Base
      <4>1. Codomain(c) \in DOMAIN Base
        <5>1. \E h \in DOMAIN Base : Base[h] = c.dim
          BY <1>2, <2>6, <3>3 DEF IsConn
        <5>2. Codomain(c) = CHOOSE h \in DOMAIN Base : Base[h] = c.dim
          BY <3>1, <3>3 DEF FlipStaggered
        <5> QED BY <5>1, <5>2
      <4>2. Image(c, p) = ((2 * x + k) + 1) \div 2
        BY <2>3, <3>3, <4>1 DEF IndexAt, Position
      <4>3. (2 * x + k) + 1 = 2 * (x + m) + 2 /\ x + m \in Int
        BY <2>1, <3>1
      <4>4. (2 * (x + m) + 2) \div 2 = x + m + 1
        BY <2>4, <4>3
      <4>5. Offset(c) = m + 1
        BY <2>2, <2>6, <3>3
      <4> QED BY <2>1, <4>2, <4>3, <4>4, <4>5
    <3> QED BY <3>2, <3>3
  <2> QED BY <2>5, <2>6
<1> QED BY <1>1, <1>2 DEF IsConn, IsGather

Distinct(conns) ==
  \A j, k \in DOMAIN conns : Codomain(conns[j]) = Codomain(conns[k]) => j = k

(* The name of a dimension after the first n connectivities.               *)
LEMMA Renaming ==
  ASSUME NEW conns, IsConns(conns), Distinct(conns), NEW n \in 0 .. Len(conns), NEW e
  PROVE  /\ \A k \in 1 .. n : Codomain(conns[k]) = e => Renamed(conns, n, e) = conns[k].dim
         /\ (\A k \in 1 .. n : Codomain(conns[k]) # e) => Renamed(conns, n, e) = e
<1>1. ASSUME NEW k \in 1 .. n, Codomain(conns[k]) = e PROVE Renamed(conns, n, e) = conns[k].dim
  <2> DEFINE K == CHOOSE j \in 1 .. n : Codomain(conns[j]) = e
  <2>1. K \in 1 .. n /\ Codomain(conns[K]) = e
    BY <1>1, Zenon
  <2>2. Renamed(conns, n, e) = conns[K].dim
    BY <1>1, Zenon DEF Renamed
  <2> HIDE DEF K
  <2>3. k \in DOMAIN conns /\ K \in DOMAIN conns
    BY <2>1 DEF IsConns
  <2>4. K = k
    BY <1>1, <2>1, <2>3 DEF Distinct
  <2> QED BY <2>2, <2>4
<1>2. (\A k \in 1 .. n : Codomain(conns[k]) # e) => Renamed(conns, n, e) = e
  BY Zenon DEF Renamed
<1> QED BY <1>1, <1>2

(* Where a premap reads the field for a point of the result.               *)
Moved(conns) == {Codomain(conns[k]) : k \in DOMAIN conns}
ConnOf(conns, d) == conns[CHOOSE k \in DOMAIN conns : Codomain(conns[k]) = d]
Pulled(g, conns, p) ==
  [d \in Dimensions(g) |-> IF d \in Moved(conns) THEN Image(ConnOf(conns, d), p) ELSE p[d]]

LEMMA ConnOfMoved ==
  ASSUME NEW conns, Distinct(conns), NEW k \in DOMAIN conns
  PROVE  /\ Codomain(conns[k]) \in Moved(conns)
         /\ ConnOf(conns, Codomain(conns[k])) = conns[k]
<1> DEFINE K == CHOOSE j \in DOMAIN conns : Codomain(conns[j]) = Codomain(conns[k])
<1>1. K \in DOMAIN conns /\ Codomain(conns[K]) = Codomain(conns[k])
  BY Zenon
<1>2. ConnOf(conns, Codomain(conns[k])) = conns[K]
  BY Zenon DEF ConnOf
<1> HIDE DEF K
<1>3. K = k
  BY <1>1 DEF Distinct
<1> QED BY <1>2, <1>3 DEF Moved

(* Connectivities that may be applied together: a new dimension that the   *)
(* field has under its new name at that point is refused.                  *)
Translates(g, conns) ==
  /\ IsField(g) /\ IsConns(conns) /\ Distinct(conns)
  /\ \A k \in DOMAIN conns : ~IsGather(conns[k]) /\ Codomain(conns[k]) \in Dimensions(g)
  /\ \A k \in DOMAIN conns : \A e \in Dimensions(g) \ {Codomain(conns[k])} :
       Renamed(conns, k - 1, e) # conns[k].dim

(* After all of them, no two dimensions have the same name.                *)
LEMMA RenamedApart ==
  ASSUME NEW g, NEW conns, Translates(g, conns), NEW d \in Dimensions(g), NEW e \in Dimensions(g),
         Renamed(conns, Len(conns), d) = Renamed(conns, Len(conns), e)
  PROVE  d = e
<1> USE DEF Translates
<1> DEFINE n == Len(conns)
<1>1. n \in Nat /\ DOMAIN conns = 1 .. n
  BY DEF IsConns
<1>2. ASSUME NEW a \in Dimensions(g), NEW b \in Dimensions(g), a # b,
             Renamed(conns, n, a) = Renamed(conns, n, b),
             NEW k \in 1 .. n, Codomain(conns[k]) = a,
             \A j \in 1 .. n : Codomain(conns[j]) = b => j < k
      PROVE  FALSE
  <2>1. Renamed(conns, n, a) = conns[k].dim
    BY <1>1, <1>2, Renaming
  <2>2. k - 1 \in 0 .. n
    BY <1>1
  <2>3. Renamed(conns, k - 1, b) = Renamed(conns, n, b)
    <3>1. CASE \E j \in 1 .. n : Codomain(conns[j]) = b
      <4>1. PICK j \in 1 .. n : Codomain(conns[j]) = b
        BY <3>1
      <4>2. j \in 1 .. k - 1
        BY <1>1, <1>2, <4>1
      <4>3. Renamed(conns, k - 1, b) = conns[j].dim
        BY <2>2, <4>1, <4>2, Renaming
      <4>4. Renamed(conns, n, b) = conns[j].dim
        BY <1>1, <4>1, Renaming
      <4> QED BY <4>3, <4>4
    <3>2. CASE \A j \in 1 .. n : Codomain(conns[j]) # b
      <4>1. \A j \in 1 .. k - 1 : Codomain(conns[j]) # b
        BY <1>1, <3>2
      <4>2. Renamed(conns, k - 1, b) = b
        BY <2>2, <4>1, Renaming
      <4>3. Renamed(conns, n, b) = b
        BY <1>1, <3>2, Renaming
      <4> QED BY <4>2, <4>3
    <3> QED BY <3>1, <3>2
  <2>4. b \in Dimensions(g) \ {Codomain(conns[k])} /\ k \in DOMAIN conns
    BY <1>1, <1>2
  <2> QED BY <1>2, <2>1, <2>3, <2>4
<1> SUFFICES ASSUME d # e PROVE FALSE
  OBVIOUS
<1>3. CASE \E k \in 1 .. n : Codomain(conns[k]) = d
  <2>1. PICK k \in 1 .. n : Codomain(conns[k]) = d
    BY <1>3
  <2>2. CASE \E j \in 1 .. n : Codomain(conns[j]) = e
    <3>1. PICK j \in 1 .. n : Codomain(conns[j]) = e
      BY <2>2
    <3>2. /\ \A i \in 1 .. n : Codomain(conns[i]) = e => i = j
          /\ \A i \in 1 .. n : Codomain(conns[i]) = d => i = k
      BY <1>1, <2>1, <3>1 DEF Distinct
    <3>3. j # k
      BY <2>1, <3>1
    <3>4. j < k \/ k < j
      BY <1>1, <3>3
    <3>5. CASE j < k
      BY <1>2, <2>1, <3>2, <3>5
    <3>6. CASE k < j
      BY <1>2, <3>1, <3>2, <3>6
    <3> QED BY <3>4, <3>5, <3>6
  <2>3. CASE \A j \in 1 .. n : Codomain(conns[j]) # e
    BY <1>2, <2>1, <2>3
  <2> QED BY <2>2, <2>3
<1>4. CASE \A k \in 1 .. n : Codomain(conns[k]) # d
  <2>1. CASE \E j \in 1 .. n : Codomain(conns[j]) = e
    <3>1. PICK j \in 1 .. n : Codomain(conns[j]) = e
      BY <2>1
    <3> QED BY <1>2, <1>4, <3>1
  <2>2. CASE \A j \in 1 .. n : Codomain(conns[j]) # e
    BY <1>1, <1>4, <2>2, Renaming
  <2> QED BY <2>1, <2>2
<1> QED BY <1>3, <1>4

(* premap with translations and relocations (_domain_premap): the buffer   *)
(* stays, the dimensions are renamed and the ranges shifted so that every  *)
(* point of the result reads the field where the connectivities point.     *)
THEOREM TranslationIsExact ==
  ASSUME NEW g, IsField(g), NEW conns, IsConns(conns), Distinct(conns),
         \A k \in DOMAIN conns : ~IsGather(conns[k]) /\ Codomain(conns[k]) \in Dimensions(g),
         IsOk(DomainPremap(g, conns)), NEW h, h = DomainPremap(g, conns).val
  PROVE  /\ IsField(h)
         /\ Dimensions(h) \subseteq Dimensions(g) \cup {conns[k].dim : k \in DOMAIN conns}
         /\ \A p : Integral(Dimensions(h), p) =>
              /\ Integral(Dimensions(g), Pulled(g, conns, p))
              /\ At(h, p) = At(g, Pulled(g, conns, p))
<1> DEFINE D == Dimensions(g)
           to(e) == Renamed(conns, Len(conns), e)
           dims == {to(e) : e \in D}
           from(d) == CHOOSE e \in D : to(e) = d
           moved(e) == {k \in DOMAIN conns : Codomain(conns[k]) = e}
           rng(e) == IF moved(e) = {} THEN g.domain[e]
                     ELSE RangeShift(g.domain[e], -Offset(conns[CHOOSE k \in moved(e) : TRUE]))
           bad == \E k \in DOMAIN conns : \E e \in D \ {Codomain(conns[k])} :
                    Renamed(conns, k - 1, e) = conns[k].dim
           sh == [d \in dims |-> g.arr.shape[from(d)]]
           dom == [d \in dims |-> rng(from(d))]
           b == [shape |-> sh, at |-> [i \in Indices(sh) |-> g.arr.at[[e \in D |-> i[to(e)]]]]]
<1>1. DomainPremap(g, conns) = IF bad THEN Raise("NotImplementedError") ELSE FromArray(b, dom)
  BY Zenon DEF DomainPremap, Array
<1> HIDE DEF bad, b, dom
<1>2. ~bad /\ IsOk(FromArray(b, dom)) /\ h = FromArray(b, dom).val
  BY <1>1, Results
<1>3. Translates(g, conns)
  BY <1>2 DEF Translates, bad
<1>4. \A e \in D : to(e) \in dims
  OBVIOUS
<1>5. ASSUME NEW e \in D PROVE from(to(e)) = e
  <2>1. from(to(e)) \in D /\ to(from(to(e))) = to(e)
    BY Zenon
  <2> HIDE DEF from
  <2> QED BY <1>3, <2>1, RenamedApart
<1>6. /\ IsArray(g.arr) /\ DOMAIN g.arr.shape = D
      /\ \A d \in D : g.domain[d] \in Ranges /\ g.arr.shape[d] \in Nat
  BY FieldFacts
<1> HIDE DEF from, sh
<1>7. /\ sh \in [dims -> Nat] /\ \A e \in D : sh[to(e)] = g.arr.shape[e]
  <2>1. \A e \in D : sh[to(e)] = g.arr.shape[e]
    BY <1>4, <1>5, Zenon DEF sh
  <2>2. \A d \in dims : sh[d] \in Nat
    BY <1>6, <2>1
  <2> QED BY <2>1, <2>2 DEF sh
<1>8. /\ b.shape = sh
      /\ \A i \in Indices(b.shape) : b.at[i] = g.arr.at[[e \in D |-> i[to(e)]]]
      /\ b.at = [i \in Indices(b.shape) |-> b.at[i]]
  BY DEF b
<1>9. ASSUME NEW i \in Indices(b.shape) PROVE [e \in D |-> i[to(e)]] \in Indices(g.arr.shape)
  <2>1. i \in [dims -> Nat] /\ \A d \in dims : i[d] < sh[d]
    BY <1>7, <1>8, IndexTuples
  <2> DEFINE j == [e \in D |-> i[to(e)]]
  <2>2. j \in [D -> Nat] /\ \A e \in D : j[e] < g.arr.shape[e]
    BY <1>4, <1>7, <2>1
  <2>3. g.arr.shape \in [D -> Nat]
    BY <1>6 DEF IsArray
  <2> HIDE DEF j
  <2>4. j \in Indices(g.arr.shape)
    BY <2>2, <2>3, IndexTuples
  <2> QED BY <2>4 DEF j
<1>10. IsArray(b)
  <2>1. \A i \in Indices(b.shape) : b.at[i] \in Int
    BY <1>6, <1>8, <1>9 DEF IsArray
  <2>2. b.shape \in [DOMAIN b.shape -> Nat]
    BY <1>7, <1>8
  <2> QED BY <1>8, <2>1, <2>2 DEF IsArray
<1> DEFINE off == [e \in D |-> IF e \in Moved(conns) THEN Offset(ConnOf(conns, e)) ELSE 0]
<1>11. ASSUME NEW e \in D
       PROVE  \/ e \in Moved(conns) /\ \E k \in DOMAIN conns :
                   /\ Codomain(conns[k]) = e /\ ConnOf(conns, e) = conns[k]
                   /\ to(e) = conns[k].dim
                   /\ rng(e) = RangeShift(g.domain[e], -Offset(conns[k]))
              \/ e \notin Moved(conns) /\ to(e) = e /\ rng(e) = g.domain[e]
  <2>1. CASE e \in Moved(conns)
    <3>1. PICK k \in DOMAIN conns : Codomain(conns[k]) = e
      BY <2>1 DEF Moved
    <3>2. ConnOf(conns, e) = conns[k]
      BY <3>1, ConnOfMoved
    <3>3. to(e) = conns[k].dim
      BY <3>1, Renaming DEF IsConns
    <3>4. moved(e) = {k}
      BY <3>1 DEF Distinct
    <3>5. (CHOOSE j \in moved(e) : TRUE) = k
      BY <3>4, Zenon
    <3>6. rng(e) = RangeShift(g.domain[e], -Offset(conns[k]))
      BY <3>4, <3>5
    <3> QED BY <2>1, <3>1, <3>2, <3>3, <3>6
  <2>2. CASE e \notin Moved(conns)
    <3>1. \A k \in DOMAIN conns : Codomain(conns[k]) # e
      BY <2>2 DEF Moved
    <3>2. to(e) = e
      BY <3>1, Renaming DEF IsConns
    <3>3. moved(e) = {}
      BY <3>1
    <3> QED BY <2>2, <3>2, <3>3
  <2> QED BY <2>1, <2>2
<1>12. \A k \in DOMAIN conns : Offset(conns[k]) \in Int
  <2> SUFFICES ASSUME NEW k \in DOMAIN conns PROVE Offset(conns[k]) \in Int
    OBVIOUS
  <2> DEFINE p == [d \in {conns[k].dim} |-> 0]
  <2>1. p[conns[k].dim] \in Int
    OBVIOUS
  <2> HIDE DEF p
  <2> QED BY <2>1, ImageIsOffset DEF IsConns
<1> HIDE DEF rng
<1>13. ASSUME NEW e \in D
       PROVE  off[e] \in Int /\ rng(e) = RangeShift(g.domain[e], -off[e]) /\ rng(e) \in Ranges
  <2>1. off[e] \in Int
    BY <1>11, <1>12
  <2>2. rng(e) = RangeShift(g.domain[e], -off[e])
    <3>1. CASE e \in Moved(conns)
      BY <1>11, <3>1
    <3>2. CASE e \notin Moved(conns)
      <4>1. off[e] = 0 /\ rng(e) = g.domain[e]
        BY <1>11, <3>2
      <4> HIDE DEF off
      <4> QED BY <1>6, <2>1, <4>1, ShiftByNothing
    <3> QED BY <3>1, <3>2
  <2>3. \A x \in Bounds : Plus(x, -off[e]) \in Bounds
    BY <2>1 DEF Plus, Bounds
  <2>4. g.domain[e].start \in Bounds /\ g.domain[e].stop \in Bounds
    BY <1>6 DEF Ranges
  <2> QED BY <2>1, <2>2, <2>3, <2>4, RangesNormal DEF RangeShift
<1> HIDE DEF off
<1>14. DOMAIN dom = dims /\ \A e \in D : dom[to(e)] = rng(e)
  BY <1>4, <1>5, Zenon DEF dom
<1>15. \A d \in DOMAIN dom : dom[d] \in Ranges
  BY <1>13, <1>14
<1>16. IsField(h) /\ h.domain = dom /\ h.arr = b
  BY <1>2, <1>10, <1>15, FieldMade
<1>17. Dimensions(h) = dims
  BY <1>14, <1>16 DEF Dimensions
<1> DEFINE tau == [e \in D |-> to(e)]
<1>18. Relabels(g, h, tau, off)
  <2>1. \A i : [e \in D |-> i[tau[e]]] = [e \in D |-> i[to(e)]]
    OBVIOUS
  <2>2. /\ DOMAIN tau = D /\ Dimensions(h) = {tau[e] : e \in D}
        /\ \A e \in D : tau[e] = to(e)
    BY <1>17
  <2> HIDE DEF tau, to
  <2> QED BY <1>7, <1>8, <1>13, <1>14, <1>16, <2>1, <2>2 DEF Relabels
<1>19. Dimensions(h) \subseteq D \cup {conns[k].dim : k \in DOMAIN conns}
  BY <1>11, <1>17
<1>20. ASSUME NEW p, Integral(Dimensions(h), p)
       PROVE  /\ Integral(D, Pulled(g, conns, p))
              /\ At(h, p) = At(g, Pulled(g, conns, p))
  <2> DEFINE q == Pulled(g, conns, p)
  <2>1. ASSUME NEW e \in D PROVE q[e] = p[tau[e]] + off[e] /\ q[e] \in Int
    <3>0. p[to(e)] \in Int /\ tau[e] = to(e)
      BY <1>17, <1>20 DEF Integral
    <3>1. CASE e \in Moved(conns)
      <4>1. PICK k \in DOMAIN conns : ConnOf(conns, e) = conns[k] /\ to(e) = conns[k].dim
        BY <1>11, <3>1
      <4>2. q[e] = Image(conns[k], p) /\ off[e] = Offset(conns[k])
        BY <3>1, <4>1 DEF Pulled, off
      <4>3. Image(conns[k], p) = p[to(e)] + Offset(conns[k])
        BY <3>0, <4>1, ImageIsOffset DEF IsConns
      <4> QED BY <1>12, <3>0, <4>2, <4>3
    <3>2. CASE e \notin Moved(conns)
      <4>1. q[e] = p[e] /\ off[e] = 0 /\ to(e) = e
        BY <1>11, <3>2 DEF Pulled, off
      <4> QED BY <3>0, <4>1
    <3> QED BY <3>1, <3>2
  <2>2. Integral(D, q)
    BY <2>1 DEF Integral
  <2> HIDE DEF q, tau
  <2>3. At(h, p) = At(g, q)
    BY <1>18, <1>20, <2>1, RelabelledReads
  <2> QED BY <2>2, <2>3 DEF q
<1> QED BY <1>16, <1>19, <1>20

-----------------------------------------------------------------------------
(* Gathers *)

(* A family of subsets of a finite set has a minimal member: induction     *)
(* over a finite set.                                                      *)
LEMMA MinimalMember ==
  ASSUME NEW S, IsFiniteSet(S), NEW T, T \subseteq SUBSET S, T # {}
  PROVE  \E x \in T : \A y \in T : y \subseteq x => y = x
<1>1. T \subseteq FiniteSubsetsOf(S)
  BY FS_Subset DEF FiniteSubsetsOf
<1>2. IsWellFoundedOn(StrictSubsetOrdering(S), FiniteSubsetsOf(S))
  BY FS_StrictSubsetOrderingWellFounded
<1>3. PICK x \in T : \A y \in T : ~ (<<y, x>> \in StrictSubsetOrdering(S))
  BY <1>1, <1>2, WFMin
<1>4. ASSUME NEW y \in T, y \subseteq x, y # x PROVE FALSE
  <2>1. <<y, x>> \in (SUBSET S) \X (SUBSET S)
    OBVIOUS
  <2>2. <<y, x>> \in StrictSubsetOrdering(S)
    BY <1>4, <2>1 DEF StrictSubsetOrdering
  <2> QED BY <1>3, <2>2
<1> QED BY <1>3, <1>4

(* A function into the bounds takes a largest and a smallest value on a    *)
(* finite set.                                                             *)
LEMMA LargestValue ==
  ASSUME NEW S, IsFiniteSet(S), S # {}, NEW v, \A r \in S : v[r] \in Bounds
  PROVE  /\ \E r \in S : \A s \in S : Le(v[s], v[r])
         /\ \E r \in S : \A s \in S : Le(v[r], v[s])
<1>1. \A a, b, c \in Bounds : Le(a, b) /\ Le(b, c) => Le(a, c)
  BY InfinityAssumption, SMTT(30) DEF Le, Infinity, Bounds
<1>2. \E r \in S : \A s \in S : Le(v[s], v[r])
  <2> DEFINE up(r) == {s \in S : Le(v[r], v[s])}
             T == {up(r) : r \in S}
  <2>1. PICK x \in T : \A y \in T : y \subseteq x => y = x
    <3>1. T \subseteq SUBSET S /\ T # {}
      OBVIOUS
    <3> HIDE DEF T
    <3> QED BY <3>1, MinimalMember
  <2>2. PICK r \in S : x = up(r)
    OBVIOUS
  <2>3. ASSUME NEW s \in S PROVE Le(v[s], v[r])
    <3> SUFFICES ASSUME ~Le(v[s], v[r]) PROVE FALSE
      OBVIOUS
    <3>1. Le(v[r], v[s])
      BY Order
    <3>2. up(s) \subseteq up(r)
      BY <1>1, <3>1
    <3>3. r \in up(r) /\ r \notin up(s)
      BY Order
    <3> QED BY <2>1, <2>2, <3>2, <3>3
  <2> QED BY <2>3
<1>3. \E r \in S : \A s \in S : Le(v[r], v[s])
  <2> DEFINE down(r) == {s \in S : Le(v[s], v[r])}
             T == {down(r) : r \in S}
  <2>1. PICK x \in T : \A y \in T : y \subseteq x => y = x
    <3>1. T \subseteq SUBSET S /\ T # {}
      OBVIOUS
    <3> HIDE DEF T
    <3> QED BY <3>1, MinimalMember
  <2>2. PICK r \in S : x = down(r)
    OBVIOUS
  <2>3. ASSUME NEW s \in S PROVE Le(v[r], v[s])
    <3> SUFFICES ASSUME ~Le(v[r], v[s]) PROVE FALSE
      OBVIOUS
    <3>1. Le(v[s], v[r])
      BY Order
    <3>2. down(s) \subseteq down(r)
      BY <1>1, <3>1
    <3>3. r \in down(r) /\ r \notin down(s)
      BY Order
    <3> QED BY <2>1, <2>2, <3>2, <3>3
  <2> QED BY <2>3
<1> QED BY <1>2, <1>3

(* The smallest and the largest member of a set of positions.              *)
LEMMA MinAndMax ==
  ASSUME NEW n \in Nat, NEW S, S \subseteq 0 .. n, S # {}
  PROVE  /\ Min(S) \in S /\ \A x \in S : Min(S) <= x
         /\ Max(S) \in S /\ \A x \in S : x <= Max(S)
<1> DEFINE v == [x \in S |-> x]
<1>1. IsFiniteSet(S)
  <2>1. IsFiniteSet(0 .. n)
    BY FS_Interval
  <2> QED BY <2>1, FS_Subset
<1>2. \A x \in S : v[x] = x /\ v[x] \in Bounds
  BY DEF Bounds
<1>3. \A x, y \in S : Le(x, y) <=> x <= y
  BY InfinityAssumption DEF Le, Infinity
<1> HIDE DEF v
<1>4. (\E r \in S : \A s \in S : Le(v[s], v[r])) /\ (\E r \in S : \A s \in S : Le(v[r], v[s]))
  BY <1>1, <1>2, LargestValue
<1>5. (\E r \in S : \A s \in S : r >= s) /\ (\E r \in S : \A s \in S : r <= s)
  <2>1. \E r \in S : \A s \in S : s <= r
    <3>1. PICK r \in S : \A s \in S : Le(v[s], v[r])
      BY <1>4
    <3>2. \A s \in S : s <= r
      BY <1>2, <1>3, <3>1
    <3> QED BY <3>2
  <2>2. \E r \in S : \A s \in S : r <= s
    <3>1. PICK r \in S : \A s \in S : Le(v[r], v[s])
      BY <1>4
    <3>2. \A s \in S : r <= s
      BY <1>2, <1>3, <3>1
    <3> QED BY <3>2
  <2>3. \A x, y \in S : x >= y <=> y <= x
    OBVIOUS
  <2> QED BY <2>1, <2>2, <2>3
<1>6. Max(S) \in S /\ \A y \in S : Max(S) >= y
  BY <1>5, Zenon DEF Max
<1>7. Min(S) \in S /\ \A y \in S : Min(S) <= y
  BY <1>5, Zenon DEF Min
<1> QED BY <1>6, <1>7

(* Intersecting a finite set of ranges keeps what all of them hold.        *)
LEMMA IntersectionOfAll ==
  ASSUME NEW R, IsFiniteSet(R), R # {}, R \subseteq Ranges
  PROVE  /\ Intersection(R) \in Ranges
         /\ \A x \in Int : InRange(x, Intersection(R)) <=> \A r \in R : InRange(x, r)
<1> DEFINE A == {r.start : r \in R}
           B == {r.stop : r \in R}
           a == CHOOSE y \in A : \A s \in R : Le(s.start, y)
           b == CHOOSE y \in B : \A s \in R : Le(y, s.stop)
<1>1. \A r \in R : r.start \in Bounds /\ r.stop \in Bounds
  BY DEF Ranges
<1>2. \E y \in A : \A s \in R : Le(s.start, y)
  <2> DEFINE v == [r \in R |-> r.start]
  <2>1. \A r \in R : v[r] = r.start /\ v[r] \in Bounds
    BY <1>1
  <2> HIDE DEF v
  <2>2. \E r \in R : \A s \in R : Le(v[s], v[r])
    BY <2>1, LargestValue
  <2> QED BY <2>1, <2>2
<1>3. \E y \in B : \A s \in R : Le(y, s.stop)
  <2> DEFINE v == [r \in R |-> r.stop]
  <2>1. \A r \in R : v[r] = r.stop /\ v[r] \in Bounds
    BY <1>1
  <2> HIDE DEF v
  <2>2. \E r \in R : \A s \in R : Le(v[r], v[s])
    BY <2>1, LargestValue
  <2> QED BY <2>1, <2>2
<1>4. a \in A /\ \A s \in R : Le(s.start, a)
  BY <1>2, Zenon
<1>5. b \in B /\ \A s \in R : Le(b, s.stop)
  BY <1>3, Zenon
<1>6. Intersection(R) = UnitRange(a, b)
  BY Zenon DEF Intersection
<1> HIDE DEF a, b
<1>7. a \in Bounds /\ b \in Bounds
  BY <1>1, <1>4, <1>5
<1>8. ASSUME NEW x \in Int PROVE InRange(x, Intersection(R)) <=> \A r \in R : InRange(x, r)
  <2>1. InRange(x, Intersection(R)) <=> Le(a, x) /\ Lt(x, b)
    BY <1>6, <1>7, Interval
  <2>2. Le(a, x) <=> \A r \in R : Le(r.start, x)
    BY <1>1, <1>4, <1>7, Chain
  <2>3. Lt(x, b) <=> \A r \in R : Lt(x, r.stop)
    BY <1>1, <1>5, <1>7, Chain
  <2> QED BY <2>1, <2>2, <2>3 DEF InRange
<1> QED BY <1>6, <1>7, <1>8, RangesNormal

(* A table as a field of positions.                                        *)
TableField(c) == [domain |-> c.domain, arr |-> c.table]

(* A table fills its domain, so every point of it has a position of its    *)
(* own in the table.                                                       *)
LEMMA TablePosition ==
  ASSUME NEW c, IsTable(c), NEW p, Integral(DOMAIN c.domain, p)
  PROVE  /\ IsField(TableField(c)) /\ IsArray(c.table) /\ DOMAIN c.table.shape = DOMAIN c.domain
         /\ \A d \in DOMAIN c.domain :
              /\ c.domain[d] \in Ranges /\ c.domain[d].start \in Int /\ c.domain[d].stop \in Int
              /\ c.table.shape[d] \in Nat
              /\ c.table.shape[d] = c.domain[d].stop - c.domain[d].start
              /\ InRange(p[d], c.domain[d]) <=> /\ 0 <= p[d] - c.domain[d].start
                                                /\ p[d] - c.domain[d].start < c.table.shape[d]
         /\ ~Inside(c.domain, p) => At(TableField(c), p) = UNDEF
         /\ Inside(c.domain, p) =>
              /\ [d \in DOMAIN c.domain |-> p[d] - c.domain[d].start] \in Indices(c.table.shape)
              /\ At(TableField(c), p) = c.table.at[[d \in DOMAIN c.domain |-> p[d] - c.domain[d].start]]
              /\ At(TableField(c), p) \in Int
<1> DEFINE t == TableField(c)
           D == DOMAIN c.domain
<1>1. t.domain = c.domain /\ t.arr = c.table /\ IsField(t)
  BY DEF TableField, IsTable
<1> HIDE DEF t
<1>2. /\ IsArray(c.table) /\ DOMAIN c.table.shape = D
      /\ \A d \in D : c.domain[d] \in Ranges /\ c.table.shape[d] \in Nat
  BY <1>1, FieldFacts DEF Dimensions
<1>3. \A d \in D : /\ IsFinite(c.domain[d])
                   /\ c.domain[d].start \in Int /\ c.domain[d].stop \in Int
                   /\ c.table.shape[d] = c.domain[d].stop - c.domain[d].start
  BY <1>2, FiniteRange DEF IsTable, RangeLen
<1>4. \A d \in D : InRange(p[d], c.domain[d]) <=> c.domain[d].start <= p[d] /\ p[d] < c.domain[d].stop
  BY <1>2, <1>3, FiniteMembers DEF Integral
<1>5. \A d \in D : InRange(p[d], c.domain[d]) <=> /\ 0 <= p[d] - c.domain[d].start
                                                  /\ p[d] - c.domain[d].start < c.table.shape[d]
  BY <1>3, <1>4 DEF Integral
<1>6. At(t, p) = IF Inside(c.domain, p) THEN c.table.at[Pos(c.table, c.domain, p)] ELSE UNDEF
  BY <1>1, AtReads DEF Dimensions
<1>7. ASSUME Inside(c.domain, p)
      PROVE  /\ Pos(c.table, c.domain, p) = [d \in D |-> p[d] - c.domain[d].start]
             /\ Pos(c.table, c.domain, p) \in Indices(c.table.shape)
             /\ At(t, p) \in Int
  <2>1. \A d \in D : (IF c.table.shape[d] = 1 THEN 0 ELSE p[d] - c.domain[d].start)
                       = p[d] - c.domain[d].start
    BY <1>3, <1>5, <1>7 DEF Inside
  <2>2. Pos(c.table, c.domain, p) = [d \in D |-> p[d] - c.domain[d].start]
    BY <1>2, <2>1 DEF Pos
  <2>3. At(t, p) \in Int
    BY <1>1, <1>7, AtReads DEF Dimensions
  <2>4. Fits(c.table, c.domain)
    BY <1>1, FieldFacts
  <2> QED BY <1>2, <1>7, <2>2, <2>3, <2>4, PosInBuffer
<1> QED BY <1>1, <1>2, <1>3, <1>5, <1>6, <1>7 DEF t

(* inverse_image: the box of table positions that _hyperslice finds.  Its  *)
(* points point into the range or are skipped neighbours, no other point   *)
(* of the table points into the range.                                     *)
LEMMA BoxIsInverseImage ==
  ASSUME NEW c, IsTable(c), NEW r, HasBox(c, r), NEW inv, inv = InverseImage(c, r)
  PROVE  /\ DOMAIN inv = DOMAIN c.domain
         /\ \A d \in DOMAIN c.domain : inv[d] \in Ranges
         /\ \A p : Integral(DOMAIN c.domain, p) =>
              /\ Inside(inv, p) => /\ Inside(c.domain, p)
                                   /\ \/ InRange(At(TableField(c), p), r)
                                      \/ c.skips /\ At(TableField(c), p) = Skip
              /\ Inside(c.domain, p) /\ ~Inside(inv, p) => ~InRange(At(TableField(c), p), r)
<1> DEFINE D == DOMAIN c.domain
           sel == {i \in DOMAIN c.table.at : InRange(c.table.at[i], r)}
           mn(d) == Min({j[d] : j \in sel})
           mx(d) == Max({j[d] : j \in sel})
           p0 == [d \in D |-> 0]
<1>1. /\ IsArray(c.table) /\ DOMAIN c.table.shape = D
      /\ \A d \in D : /\ c.domain[d].start \in Int /\ c.domain[d].stop \in Int
                      /\ c.table.shape[d] \in Nat
                      /\ c.table.shape[d] = c.domain[d].stop - c.domain[d].start
  <2>1. Integral(D, p0)
    BY DEF Integral
  <2> HIDE DEF p0
  <2> QED BY <2>1, TablePosition
<1>2. /\ inv = [d \in D |-> RangeSlice(c.domain[d], mn(d), mx(d) + 1)]
      /\ sel # {}
      /\ \A i \in DOMAIN c.table.at :
           (\A d \in DOMAIN i : i[d] \in mn(d) .. mx(d)) => i \in sel \/ (c.skips /\ c.table.at[i] = Skip)
  BY Zenon DEF InverseImage, HasBox
<1>3. DOMAIN c.table.at = Indices(c.table.shape) /\ c.table.shape \in [D -> Nat]
  BY <1>1 DEF IsArray
<1>4. \A i \in Indices(c.table.shape) : i \in [D -> Nat] /\ \A d \in D : i[d] < c.table.shape[d]
  BY <1>3, IndexTuples
<1>5. ASSUME NEW d \in D
      PROVE  /\ mn(d) \in Int /\ mx(d) \in Int
             /\ 0 <= mn(d) /\ mx(d) < c.table.shape[d]
             /\ \A i \in sel : mn(d) <= i[d] /\ i[d] <= mx(d)
  <2> DEFINE S == {j[d] : j \in sel}
  <2>1. c.table.shape[d] \in Nat /\ \A j \in sel : j[d] \in Nat /\ j[d] < c.table.shape[d]
    BY <1>1, <1>3, <1>4
  <2>2. S # {} /\ \A j \in sel : j[d] \in S
    BY <1>2
  <2>3. S \subseteq 0 .. c.table.shape[d]
    BY <2>1
  <2>4. \A x \in S : x < c.table.shape[d]
    BY <2>1
  <2> HIDE DEF S, sel
  <2>5. /\ Min(S) \in S /\ \A x \in S : Min(S) <= x
        /\ Max(S) \in S /\ \A x \in S : x <= Max(S)
    BY <2>1, <2>2, <2>3, MinAndMax
  <2>6. mn(d) = Min(S) /\ mx(d) = Max(S)
    BY DEF S
  <2> HIDE DEF mn, mx
  <2>7. /\ mn(d) \in S /\ mx(d) \in S
        /\ \A x \in S : mn(d) <= x /\ x <= mx(d)
    BY <2>5, <2>6
  <2>8. mn(d) \in Int /\ mx(d) \in Int /\ 0 <= mn(d)
    <3>1. mn(d) \in 0 .. c.table.shape[d] /\ mx(d) \in 0 .. c.table.shape[d]
      BY <2>3, <2>7
    <3> QED BY <3>1
  <2>9. mx(d) < c.table.shape[d]
    BY <2>4, <2>7
  <2> QED BY <2>2, <2>7, <2>8, <2>9
<1> HIDE DEF mn, mx, sel
<1>6. DOMAIN inv = D /\ \A d \in D : inv[d] = UnitRange(c.domain[d].start + mn(d), c.domain[d].start + (mx(d) + 1))
  BY <1>2 DEF RangeSlice
<1>7. \A d \in D : inv[d] \in Ranges
  BY <1>1, <1>5, <1>6, RangesNormal DEF Bounds
<1>8. ASSUME NEW p, Integral(D, p), NEW d \in D
      PROVE  InRange(p[d], inv[d]) <=> p[d] - c.domain[d].start \in mn(d) .. mx(d)
  <2> DEFINE lo == c.domain[d].start + mn(d)
             hi == c.domain[d].start + (mx(d) + 1)
  <2>1. lo \in Int /\ hi \in Int /\ p[d] \in Int
    BY <1>1, <1>5, <1>8 DEF Integral
  <2>2. inv[d] = UnitRange(lo, hi)
    BY <1>6
  <2>3. p[d] - c.domain[d].start \in mn(d) .. mx(d) <=> lo <= p[d] /\ p[d] < hi
    BY <1>1, <1>5, <2>1
  <2> HIDE DEF lo, hi
  <2>4. InRange(p[d], inv[d]) <=> Le(lo, p[d]) /\ Lt(p[d], hi)
    BY <2>1, <2>2, Interval DEF Bounds
  <2>5. Le(lo, p[d]) /\ Lt(p[d], hi) <=> lo <= p[d] /\ p[d] < hi
    BY <2>1, InfinityAssumption DEF Le, Lt, Infinity
  <2> QED BY <2>3, <2>4, <2>5
<1>9. ASSUME NEW p, Integral(D, p)
      PROVE  /\ Inside(inv, p) => /\ Inside(c.domain, p)
                                  /\ \/ InRange(At(TableField(c), p), r)
                                     \/ c.skips /\ At(TableField(c), p) = Skip
             /\ Inside(c.domain, p) /\ ~Inside(inv, p) => ~InRange(At(TableField(c), p), r)
  <2> DEFINE j == [d \in D |-> p[d] - c.domain[d].start]
             x == At(TableField(c), p)
  <2>1. /\ \A d \in D : InRange(p[d], c.domain[d]) <=> /\ 0 <= p[d] - c.domain[d].start
                                                       /\ p[d] - c.domain[d].start < c.table.shape[d]
        /\ Inside(c.domain, p) => j \in Indices(c.table.shape) /\ x = c.table.at[j] /\ x \in Int
    BY <1>9, TablePosition
  <2>2. Inside(inv, p) <=> \A d \in D : j[d] \in mn(d) .. mx(d)
    BY <1>6, <1>8, <1>9 DEF Inside, Integral
  <2> HIDE DEF x
  <2>3. ASSUME Inside(inv, p) PROVE Inside(c.domain, p)
    <3>1. ASSUME NEW d \in D PROVE InRange(p[d], c.domain[d])
      <4>1. p[d] - c.domain[d].start \in mn(d) .. mx(d)
        BY <2>2, <2>3
      <4>2. p[d] - c.domain[d].start \in Int /\ c.table.shape[d] \in Nat
        BY <1>1, <1>9 DEF Integral
      <4>3. mn(d) \in Int /\ mx(d) \in Int /\ 0 <= mn(d) /\ mx(d) < c.table.shape[d]
        BY <1>5
      <4>4. 0 <= p[d] - c.domain[d].start /\ p[d] - c.domain[d].start < c.table.shape[d]
        BY <4>1, <4>2, <4>3
      <4> QED BY <2>1, <4>4
    <3> QED BY <1>9, <3>1 DEF Inside, Integral
  <2> HIDE DEF j
  <2>4. ASSUME Inside(inv, p) PROVE InRange(x, r) \/ (c.skips /\ x = Skip)
    <3>1. j \in DOMAIN c.table.at /\ x = c.table.at[j]
      BY <1>3, <2>1, <2>3, <2>4
    <3>2. DOMAIN j = D
      BY DEF j
    <3>3. j \in sel \/ (c.skips /\ c.table.at[j] = Skip)
      BY <1>2, <2>2, <2>4, <3>1, <3>2
    <3>4. ASSUME j \in sel PROVE InRange(c.table.at[j], r)
      BY <3>4 DEF sel
    <3> QED BY <3>1, <3>3, <3>4
  <2>5. ASSUME Inside(c.domain, p), InRange(x, r) PROVE Inside(inv, p)
    <3>1. j \in sel
      BY <1>3, <2>1, <2>5 DEF sel
    <3>2. \A d \in D : j[d] \in Int
      BY <1>1, <1>9 DEF j, Integral
    <3> QED BY <1>5, <2>2, <3>1, <3>2
  <2> QED BY <2>3, <2>4, <2>5 DEF x
<1> QED BY <1>6, <1>7, <1>9

(* A range in a bounded range whose buffer is full: the slice is what it   *)
(* names.                                                                  *)
LEMMA FullAxis ==
  ASSUME NEW whole \in Ranges, IsFinite(whole), NEW r \in Ranges, RangeWithin(r, whole),
         NEW x \in Int, InRange(x, r), NEW s, s = ComputeSlice(r, whole),
         NEW n, n = RangeLen(whole)
  PROVE  /\ r.start \in Int /\ r.stop \in Int /\ whole.start \in Int
         /\ Low(s, n) = r.start - whole.start
         /\ High(s, n) = r.stop - whole.start
         /\ r.start <= x /\ x < r.stop
         /\ InRange(x, whole)
<1>1. whole.start \in Int /\ whole.stop \in Int /\ n \in Nat /\ n = whole.stop - whole.start
  BY FiniteRange DEF RangeLen
<1>2. r.start \in Bounds /\ r.stop \in Bounds
  BY DEF Ranges
<1>3. Le(r.start, x) /\ Lt(x, r.stop) /\ Le(whole.start, r.start) /\ Le(r.stop, whole.stop)
  BY DEF InRange, RangeWithin
<1>4. r.start \in Int /\ r.stop \in Int
  BY <1>1, <1>2, <1>3, InfinityAssumption DEF Le, Lt, Infinity, Bounds
<1>5. /\ r.start <= x /\ x < r.stop /\ whole.start <= r.start /\ r.stop <= whole.stop
  BY <1>1, <1>3, <1>4, InfinityAssumption DEF Le, Lt, Infinity
<1>6. s.lo = r.start - whole.start /\ s.hi = r.stop - whole.start
  BY <1>1, <1>4, InfinityAssumption DEF ComputeSlice, IsFinite, Minus, Infinity
<1>7. s.lo # None /\ s.hi # None
  BY <1>1, <1>4, <1>6, NoneAssumption DEF Bounds
<1>8. Low(s, n) = r.start - whole.start /\ High(s, n) = r.stop - whole.start
  BY <1>1, <1>4, <1>5, <1>6, <1>7 DEF Low, High, Clip
<1>9. InRange(x, whole)
  BY <1>1, <1>5, <1>4, FiniteMembers
<1> QED BY <1>1, <1>4, <1>5, <1>8, <1>9

(* The index array of a gather, read at a point of the new domain, is the  *)
(* table read at that point.                                               *)
LEMMA TableReads ==
  ASSUME NEW c, IsTable(c), NEW dom, \A d \in DOMAIN c.domain : dom[d] \in Ranges,
         IsOk(RestrictTable(c, dom)), NEW b, b = RestrictTable(c, dom).val,
         NEW p, \A d \in DOMAIN c.domain : p[d] \in Int /\ InRange(p[d], dom[d])
  PROVE  /\ Inside(c.domain, p) /\ DOMAIN b.shape = DOMAIN c.domain
         /\ b.at[[d \in DOMAIN b.shape |-> p[d] - dom[d].start]] = At(TableField(c), p)
<1> DEFINE D == DOMAIN c.domain
           sub == [d \in D |-> dom[d]]
           ix == [within |-> sub, at |-> NoIndex]
           res == AbsoluteSubDomain(c.domain, ix)
           s(d) == ComputeSlice(dom[d], c.domain[d])
<1>1. /\ IsField(TableField(c)) /\ IsArray(c.table) /\ DOMAIN c.table.shape = D
      /\ \A d \in D : /\ c.domain[d] \in Ranges /\ c.domain[d].start \in Int
                      /\ c.table.shape[d] \in Nat
      /\ Inside(c.domain, p) =>
              /\ [d \in D |-> p[d] - c.domain[d].start] \in Indices(c.table.shape)
              /\ At(TableField(c), p) = c.table.at[[d \in D |-> p[d] - c.domain[d].start]]
  BY TablePosition DEF Integral
<1>2. \A d \in D : IsFinite(c.domain[d]) /\ c.table.shape[d] = RangeLen(c.domain[d])
  BY DEF IsTable
<1>3. RestrictTable(c, dom) =
        IF sub = c.domain THEN Ok(c.table)
        ELSE IF IsOk(res) THEN Cut(c.table, c.domain, res.val) ELSE res
  BY Zenon DEF RestrictTable, Then
<1>4. CASE sub = c.domain
  <2>1. b = c.table
    BY <1>3, <1>4, Results
  <2>2. \A d \in D : dom[d] = c.domain[d]
    BY <1>4
  <2>3. Inside(c.domain, p)
    BY <2>2 DEF Inside
  <2>4. [d \in DOMAIN b.shape |-> p[d] - dom[d].start] = [d \in D |-> p[d] - c.domain[d].start]
    BY <1>1, <2>1, <2>2
  <2> QED BY <1>1, <2>1, <2>3, <2>4
<1>5. CASE sub # c.domain
  <2>1. DOMAIN sub = D /\ \A d \in D : sub[d] = dom[d]
    OBVIOUS
  <2>2. DOMAIN NoIndex = {}
    BY DEF NoIndex
  <2>3. ix.within = sub /\ ix.at = NoIndex
    OBVIOUS
  <2> HIDE DEF sub, ix
  <2>4. res = IF \/ \E d \in DOMAIN ix.within : ~RangeWithin(ix.within[d], c.domain[d])
                 \/ \E d \in DOMAIN ix.at : ~InRange(ix.at[d], c.domain[d])
              THEN Raise("IndexOutOfBounds")
              ELSE Ok(SubDomain(c.domain, ix.within, ix.at))
    BY DEF AbsoluteSubDomain
  <2> HIDE DEF res
  <2>5. IsOk(res) /\ b = Cut(c.table, c.domain, res.val).val /\ IsOk(Cut(c.table, c.domain, res.val))
    BY <1>3, <1>5
  <2>6. /\ \A d \in D : RangeWithin(dom[d], c.domain[d])
        /\ res.val = SubDomain(c.domain, sub, NoIndex)
    BY <2>1, <2>2, <2>3, <2>4, <2>5, Results
  <2>7. SubDomain(c.domain, sub, NoIndex) = sub
    BY <2>1, <2>2 DEF SubDomain, sub
  <2> DEFINE sl == SlicesFromDomain(c.domain, sub)
  <2>8. DOMAIN sl = D /\ \A d \in D : sl[d] = s(d)
    BY <2>1 DEF SlicesFromDomain
  <2>9. IsOk(Sub(c.table, sl, NoIndex)) /\ b = Sub(c.table, sl, NoIndex).val
    BY <2>5, <2>6, <2>7 DEF Cut, Sub
  <2> HIDE DEF sl, s
  <2>10. b = [shape |-> SubShape(c.table, sl, NoIndex),
              at |-> [i \in Indices(SubShape(c.table, sl, NoIndex)) |->
                        c.table.at[SubAt(c.table, sl, NoIndex, i)]]]
    BY <2>9, SubscriptOk
  <2>11. ASSUME NEW d \in D
         PROVE  /\ dom[d].start \in Int /\ dom[d].stop \in Int
                /\ AxisLow(c.table, sl, d) = dom[d].start - c.domain[d].start
                /\ AxisHigh(c.table, sl, d) = dom[d].stop - c.domain[d].start
                /\ dom[d].start <= p[d] /\ p[d] < dom[d].stop
                /\ InRange(p[d], c.domain[d])
    BY <1>1, <1>2, <2>6, <2>8, FullAxis DEF AxisLow, AxisHigh, s
  <2> DEFINE j == [d \in D |-> p[d] - dom[d].start]
             sh == SubShape(c.table, sl, NoIndex)
  <2>12. sh = [d \in D |-> dom[d].stop - dom[d].start]
    <3>1. \A d \in D : (IF AxisHigh(c.table, sl, d) > AxisLow(c.table, sl, d)
                        THEN AxisHigh(c.table, sl, d) - AxisLow(c.table, sl, d) ELSE 0)
                        = dom[d].stop - dom[d].start
      BY <1>1, <2>11
    <3>2. D \ DOMAIN NoIndex = D
      BY <2>2
    <3> QED BY <1>1, <3>1, <3>2 DEF SubShape
  <2>13. sh \in [D -> Nat]
    BY <2>11, <2>12
  <2>14. j \in [D -> Nat] /\ \A d \in D : j[d] < sh[d]
    BY <2>11, <2>12
  <2> HIDE DEF j, sh
  <2>15. j \in Indices(sh)
    BY <2>13, <2>14, IndexTuples
  <2>16. SubAt(c.table, sl, NoIndex, j) = [d \in D |-> p[d] - c.domain[d].start]
    <3>1. \A d \in D : j[d] + AxisLow(c.table, sl, d) = p[d] - c.domain[d].start
      BY <1>1, <2>11 DEF j
    <3> QED BY <1>1, <2>2, <3>1 DEF SubAt
  <2>17. Inside(c.domain, p)
    BY <2>11 DEF Inside
  <2>18. DOMAIN b.shape = D /\ b.at[j] = c.table.at[SubAt(c.table, sl, NoIndex, j)]
    <3>1. b.shape = sh /\ b.at = [i \in Indices(sh) |-> c.table.at[SubAt(c.table, sl, NoIndex, i)]]
      BY <2>10 DEF sh
    <3> QED BY <2>13, <2>15, <3>1
  <2> QED BY <1>1, <2>16, <2>17, <2>18 DEF j
<1> QED BY <1>4, <1>5

(* A gather that premap accepts.                                           *)
Gathers(g, conns) ==
  /\ IsField(g) /\ IsConns(conns) /\ Distinct(conns)
  /\ \A k \in DOMAIN conns : IsGather(conns[k]) /\ Codomain(conns[k]) \in Dimensions(g)
  /\ \A k \in DOMAIN conns :
       (Removed(conns) \cap (ConnDims(conns[k]) \ {Codomain(conns[k])})) = {}

LEMMA GatherConn ==
  ASSUME NEW g, NEW conns, Gathers(g, conns), NEW k \in DOMAIN conns
  PROVE  /\ IsTable(conns[k]) /\ Codomain(conns[k]) = conns[k].codomain
         /\ conns[k].codomain \in Dimensions(g)
         /\ ConnDims(conns[k]) = DOMAIN conns[k].domain
         /\ \A p : Image(conns[k], p) =
              IF At(TableField(conns[k]), p) = Skip /\ conns[k].skips THEN UNKNOWN
              ELSE At(TableField(conns[k]), p)
<1>1. conns[k].kind = "gather" /\ IsConn(conns[k])
  BY DEF Gathers, IsConns, IsGather
<1>2. IsTable(conns[k])
  BY <1>1 DEF IsConn
<1>3. Codomain(conns[k]) = conns[k].codomain /\ ConnDims(conns[k]) = DOMAIN conns[k].domain
  BY <1>1 DEF Codomain, ConnDims, IsGather
<1>4. ASSUME NEW p
      PROVE  Image(conns[k], p) =
               IF At(TableField(conns[k]), p) = Skip /\ conns[k].skips THEN UNKNOWN
               ELSE At(TableField(conns[k]), p)
  BY <1>1 DEF Image, TableField
<1> QED BY <1>2, <1>3, <1>4 DEF Gathers

(* The dimensions of the result: a codomain that is no dimension of its    *)
(* own connectivity is gone.                                               *)
LEMMA RemovedDims ==
  ASSUME NEW g, NEW conns, Gathers(g, conns), NEW k \in DOMAIN conns
  PROVE  /\ Removed(conns) \subseteq Moved(conns)
         /\ Removed(conns) \cap ConnDims(conns[k]) = {}
<1>1. Removed(conns) \subseteq Moved(conns)
  BY DEF Removed, Moved
<1>2. ASSUME NEW d \in Removed(conns), d \in ConnDims(conns[k]) PROVE FALSE
  <2>1. PICK j \in DOMAIN conns : Codomain(conns[j]) = d /\ Codomain(conns[j]) \notin ConnDims(conns[j])
    BY DEF Removed
  <2>2. d = Codomain(conns[k])
    BY <1>2 DEF Gathers
  <2>3. j = k
    BY <2>1, <2>2 DEF Gathers, Distinct
  <2> QED BY <1>2, <2>1, <2>3
<1> QED BY <1>1, <1>2

InverseOf(g, conns, k) == InverseImage(conns[k], g.domain[conns[k].codomain])

(* _gather_output_domain: a point lies in it when it lies in every inverse *)
(* image and, in the dimensions the field keeps, in the field's domain.    *)
LEMMA GatherDomainReads ==
  ASSUME NEW g, NEW conns, Gathers(g, conns),
         IsOk(GatherDomain(g.domain, conns)), NEW dom, dom = GatherDomain(g.domain, conns).val
  PROVE  /\ DOMAIN dom = (Dimensions(g) \ Removed(conns))
                         \cup UNION {ConnDims(conns[k]) : k \in DOMAIN conns}
         /\ \A k \in DOMAIN conns : HasBox(conns[k], g.domain[conns[k].codomain])
         /\ \A d \in DOMAIN dom :
              /\ dom[d] \in Ranges
              /\ \A x \in Int : InRange(x, dom[d]) <=>
                   /\ \A k \in DOMAIN conns :
                        d \in ConnDims(conns[k]) => InRange(x, InverseOf(g, conns, k)[d])
                   /\ d \in Dimensions(g) => InRange(x, g.domain[d])
<1> DEFINE image(k) == g.domain[conns[k].codomain]
           bad == {k \in DOMAIN conns : ~IsFinite(image(k)) \/ ~HasBox(conns[k], image(k))}
           on(d) == {j \in DOMAIN conns : d \in ConnDims(conns[j])}
           inv(d) == {InverseImage(conns[k], image(k))[d] : k \in on(d)}
           own(d) == IF d \in Dimensions(g) THEN {g.domain[d]} ELSE {}
           E == (Dimensions(g) \ Removed(conns)) \cup UNION {ConnDims(conns[k]) : k \in DOMAIN conns}
<1>1. GatherDomain(g.domain, conns) =
        IF bad # {} THEN Raise(IF IsFinite(image(Min(bad))) THEN "NoBox" ELSE "AssertionError")
        ELSE Ok([d \in E |-> Intersection(inv(d) \cup own(d))])
  BY Zenon DEF GatherDomain, Dimensions
<1>2. bad = {} /\ dom = [d \in E |-> Intersection(inv(d) \cup own(d))]
  <2> HIDE DEF bad, image, E, inv, own
  <2> QED BY <1>1, Results
<1>3. \A k \in DOMAIN conns : HasBox(conns[k], image(k))
  BY <1>2
<1>4. \A k \in DOMAIN conns : \A d \in ConnDims(conns[k]) : InverseImage(conns[k], image(k))[d] \in Ranges
  BY <1>3, GatherConn, BoxIsInverseImage
<1>5. \A d \in Dimensions(g) : g.domain[d] \in Ranges
  BY FieldFacts DEF Gathers
<1>6. ASSUME NEW d \in E
      PROVE  /\ inv(d) \cup own(d) # {} /\ inv(d) \cup own(d) \subseteq Ranges
             /\ IsFiniteSet(inv(d) \cup own(d))
  <2>1. inv(d) \cup own(d) # {}
    <3>1. CASE d \in Dimensions(g)
      BY <3>1
    <3>2. CASE d \notin Dimensions(g)
      <4>1. PICK k \in DOMAIN conns : d \in ConnDims(conns[k])
        BY <3>2
      <4>2. k \in on(d)
        BY <4>1
      <4> QED BY <4>2
    <3> QED BY <3>1, <3>2
  <2>2. inv(d) \subseteq Ranges /\ own(d) \subseteq Ranges
    BY <1>4, <1>5
  <2>3. IsFiniteSet(DOMAIN conns)
    BY FS_Interval DEF Gathers, IsConns
  <2>4. IsFiniteSet(on(d))
    BY <2>3, FS_Subset
  <2>5. IsFiniteSet(inv(d))
    <3> DEFINE m == [k \in on(d) |-> InverseImage(conns[k], image(k))[d]]
    <3>1. m \in [on(d) -> inv(d)] /\ \A r \in inv(d) : \E k \in on(d) : m[k] = r
      BY Zenon
    <3>2. m \in Surjection(on(d), inv(d))
      BY Zenon, <3>1 DEF Surjection
    <3> HIDE DEF on, inv, m
    <3> QED BY <2>4, <3>2, FS_Surjection
  <2>6. IsFiniteSet(own(d))
    BY FS_EmptySet, FS_Singleton
  <2> HIDE DEF inv, own
  <2> QED BY <2>1, <2>2, <2>5, <2>6, FS_Union
<1>7. ASSUME NEW d \in E
      PROVE  /\ dom[d] \in Ranges
             /\ \A x \in Int : InRange(x, dom[d]) <=> \A r \in inv(d) \cup own(d) : InRange(x, r)
  <2> DEFINE R == inv(d) \cup own(d)
  <2>1. dom[d] = Intersection(R)
    BY <1>2
  <2>2. IsFiniteSet(R) /\ R # {} /\ R \subseteq Ranges
    BY <1>6
  <2> HIDE DEF R
  <2>3. /\ dom[d] \in Ranges
        /\ \A x \in Int : InRange(x, dom[d]) <=> \A r \in R : InRange(x, r)
    BY <2>1, <2>2, IntersectionOfAll
  <2> QED BY <2>3 DEF R
<1>8. ASSUME NEW d \in E, NEW x \in Int
      PROVE  InRange(x, dom[d]) <=>
                   /\ \A k \in DOMAIN conns :
                        d \in ConnDims(conns[k]) => InRange(x, InverseOf(g, conns, k)[d])
                   /\ d \in Dimensions(g) => InRange(x, g.domain[d])
  <2>1. InRange(x, dom[d]) <=> (\A r \in inv(d) : InRange(x, r)) /\ (\A r \in own(d) : InRange(x, r))
    BY <1>7
  <2>2. (\A r \in own(d) : InRange(x, r)) <=> (d \in Dimensions(g) => InRange(x, g.domain[d]))
    BY Zenon
  <2>3. (\A r \in inv(d) : InRange(x, r)) <=> 
           \A k \in DOMAIN conns : d \in ConnDims(conns[k]) => InRange(x, InverseOf(g, conns, k)[d])
    BY Zenon DEF InverseOf
  <2> HIDE DEF inv, own
  <2> QED BY <2>1, <2>2, <2>3
<1>9. DOMAIN dom = E
  BY <1>2
<1> HIDE DEF inv, own, on, bad
<1> QED BY <1>3, <1>7, <1>8, <1>9

GatherTables(conns, dom) ==
  {[cod |-> conns[k].codomain, res |-> RestrictTable(conns[k], dom)] : k \in DOMAIN conns}
GatherIndex(g, conns, dom, i, e) ==
  (IF \E t \in GatherTables(conns, dom) : t.cod = e
   THEN LET t == CHOOSE t \in GatherTables(conns, dom) : t.cod = e
        IN  t.res.val.at[[d \in DOMAIN t.res.val.shape |-> i[d]]]
   ELSE i[e] + dom[e].start) - g.domain[e].start
GatherArray(g, conns, dom) ==
  [shape |-> [d \in DOMAIN dom |-> RangeLen(dom[d])],
   at |-> [i \in Indices([d \in DOMAIN dom |-> RangeLen(dom[d])]) |->
             g.arr.at[[e \in DOMAIN g.arr.shape |->
                         Wrap(GatherIndex(g, conns, dom, i, e), g.arr.shape[e])]]]]

GatherRest(g, conns, dom) ==
  IF \E t \in GatherTables(conns, dom) : ~IsOk(t.res)
  THEN (CHOOSE t \in GatherTables(conns, dom) : ~IsOk(t.res)).res
  ELSE IF ~DomainIsFinite(dom) THEN Raise("OpenRange")
  ELSE IF \/ \E e \in DOMAIN g.arr.shape : ~LeftFinite(g.domain[e])
          \/ \E i \in Indices([d \in DOMAIN dom |-> RangeLen(dom[d])]) :
               \E e \in DOMAIN g.arr.shape :
                 ~InArray(GatherIndex(g, conns, dom, i, e), g.arr.shape[e])
  THEN Raise("IndexError")
  ELSE FromArray(GatherArray(g, conns, dom), dom)

LEMMA GatherSteps ==
  ASSUME NEW g, NEW conns
  PROVE  GatherPremap(g, conns) =
           IF IsOk(GatherDomain(g.domain, conns))
           THEN GatherRest(g, conns, GatherDomain(g.domain, conns).val)
           ELSE GatherDomain(g.domain, conns)
BY Zenon DEF GatherPremap, Then, Array, GatherTables, GatherIndex, GatherArray, GatherRest

(* What is checked before the result of a gather is made.                  *)
LEMMA GatherChecks ==
  ASSUME NEW g, NEW conns, IsOk(GatherPremap(g, conns)),
         NEW dom, dom = GatherDomain(g.domain, conns).val
  PROVE  /\ IsOk(GatherDomain(g.domain, conns))
         /\ \A k \in DOMAIN conns : IsOk(RestrictTable(conns[k], dom))
         /\ DomainIsFinite(dom)
         /\ \A e \in DOMAIN g.arr.shape : LeftFinite(g.domain[e])
         /\ \A i \in Indices([d \in DOMAIN dom |-> RangeLen(dom[d])]) : \A e \in DOMAIN g.arr.shape :
              InArray(GatherIndex(g, conns, dom, i, e), g.arr.shape[e])
         /\ GatherPremap(g, conns) = FromArray(GatherArray(g, conns, dom), dom)
<1> DEFINE first == GatherDomain(g.domain, conns)
           tables == GatherTables(conns, dom)
           shape == [d \in DOMAIN dom |-> RangeLen(dom[d])]
           n == g.arr.shape
           failed == \E t \in tables : ~IsOk(t.res)
           short == \/ \E e \in DOMAIN n : ~LeftFinite(g.domain[e])
                    \/ \E i \in Indices(shape) : \E e \in DOMAIN n :
                         ~InArray(GatherIndex(g, conns, dom, i, e), n[e])
           rest == GatherRest(g, conns, dom)
<1>1. GatherPremap(g, conns) = IF IsOk(first) THEN rest ELSE first
  BY GatherSteps
<1>2. failed => ~IsOk((CHOOSE t \in tables : ~IsOk(t.res)).res)
  BY Zenon
<1>3. \A k \in DOMAIN conns : [cod |-> conns[k].codomain, res |-> RestrictTable(conns[k], dom)] \in tables
  BY DEF GatherTables
<1> DEFINE bad == (CHOOSE t \in tables : ~IsOk(t.res)).res
<1>4. rest = IF failed THEN bad
             ELSE IF ~DomainIsFinite(dom) THEN Raise("OpenRange")
             ELSE IF short THEN Raise("IndexError")
             ELSE FromArray(GatherArray(g, conns, dom), dom)
  BY Zenon DEF GatherRest
<1> HIDE DEF rest, first, bad
<1>5. IsOk(first) /\ IsOk(rest) /\ GatherPremap(g, conns) = rest
  BY <1>1
<1>6. ~failed /\ ~short /\ DomainIsFinite(dom) /\ rest = FromArray(GatherArray(g, conns, dom), dom)
  <2> HIDE DEF failed, short
  <2>1. failed => ~IsOk(bad)
    BY <1>2 DEF failed, bad
  <2> QED BY <1>4, <1>5, <2>1, Results
<1>7. ASSUME NEW k \in DOMAIN conns PROVE IsOk(RestrictTable(conns[k], dom))
  <2> DEFINE t == [cod |-> conns[k].codomain, res |-> RestrictTable(conns[k], dom)]
  <2>1. t \in tables /\ t.res = RestrictTable(conns[k], dom)
    BY <1>3
  <2> HIDE DEF t, tables
  <2> QED BY <1>6, <2>1
<1> QED BY <1>5, <1>6, <1>7 DEF first

(* Where a point is read, a skipped neighbour taken at its table's word.   *)
Raw(conns, p, e) ==
  IF e \in Moved(conns) THEN At(TableField(ConnOf(conns, e)), p) ELSE p[e]

Gathered(g, conns, dom) ==
  Gathers(g, conns) /\ IsOk(GatherPremap(g, conns)) /\ dom = GatherDomain(g.domain, conns).val

LEMMA GatherIndexReads ==
  ASSUME NEW g, NEW conns, NEW dom, Gathered(g, conns, dom), NEW p, Inside(dom, p), NEW i,
         i = [d \in DOMAIN dom |-> p[d] - dom[d].start], NEW e \in Dimensions(g)
  PROVE  /\ Raw(conns, p, e) \in Int
         /\ GatherIndex(g, conns, dom, i, e) = Raw(conns, p, e) - g.domain[e].start
         /\ e \notin Moved(conns) => e \in DOMAIN dom
<1> DEFINE tables == GatherTables(conns, dom)
           w(t) == t.res.val.at[[d \in DOMAIN t.res.val.shape |-> i[d]]]
           pick == CHOOSE t \in tables : t.cod = e
<1>0. Gathers(g, conns) /\ IsOk(GatherPremap(g, conns)) /\ dom = GatherDomain(g.domain, conns).val
  BY DEF Gathered
<1>1. /\ IsOk(GatherDomain(g.domain, conns)) /\ DomainIsFinite(dom)
      /\ \A k \in DOMAIN conns : IsOk(RestrictTable(conns[k], dom))
  BY <1>0, GatherChecks
<1>2. /\ DOMAIN dom = (Dimensions(g) \ Removed(conns))
                      \cup UNION {ConnDims(conns[k]) : k \in DOMAIN conns}
      /\ \A d \in DOMAIN dom : dom[d] \in Ranges
  BY <1>0, <1>1, GatherDomainReads
<1>3. GatherIndex(g, conns, dom, i, e) =
        (IF \E t \in tables : t.cod = e THEN w(pick) ELSE i[e] + dom[e].start) - g.domain[e].start
  BY Zenon DEF GatherIndex
<1>4. \A t \in tables : \E k \in DOMAIN conns : /\ t.cod = conns[k].codomain
                                                /\ t.res = RestrictTable(conns[k], dom)
  BY DEF GatherTables
<1>5. ASSUME NEW k \in DOMAIN conns PROVE \E t \in tables : t.cod = conns[k].codomain
  <2> DEFINE t == [cod |-> conns[k].codomain, res |-> RestrictTable(conns[k], dom)]
  <2>1. t \in tables
    BY DEF GatherTables
  <2>2. t.cod = conns[k].codomain
    OBVIOUS
  <2> HIDE DEF t, tables
  <2> QED BY <2>1, <2>2
<1>6. \A k \in DOMAIN conns : conns[k].codomain = Codomain(conns[k])
  BY <1>0, GatherConn
<1>7. (\E t \in tables : t.cod = e) <=> e \in Moved(conns)
  BY <1>4, <1>5, <1>6 DEF Moved
<1>8. (\E t \in tables : t.cod = e) => pick \in tables /\ pick.cod = e
  BY Zenon
<1> HIDE DEF tables, pick
<1>9. CASE e \in Moved(conns)
  <2>1. PICK k \in DOMAIN conns : /\ pick.cod = conns[k].codomain
                                  /\ pick.res = RestrictTable(conns[k], dom)
    BY <1>4, <1>7, <1>8, <1>9
  <2>2. e = Codomain(conns[k])
    BY <1>6, <1>7, <1>8, <1>9, <2>1
  <2>3. ConnOf(conns, e) = conns[k]
    BY <1>0, <2>2, ConnOfMoved DEF Gathers
  <2> DEFINE c == conns[k]
             b == pick.res.val
  <2>4. IsTable(c) /\ DOMAIN c.domain = ConnDims(c)
    BY <1>0, GatherConn
  <2>5. DOMAIN c.domain \subseteq DOMAIN dom
    BY <1>2, <2>4
  <2>6. IsOk(RestrictTable(c, dom)) /\ b = RestrictTable(c, dom).val
    BY <1>1, <2>1
  <2> HIDE DEF c, b
  <2>7. \A d \in DOMAIN c.domain : /\ dom[d] \in Ranges
                                   /\ p[d] \in Int /\ InRange(p[d], dom[d])
    BY <1>2, <2>5 DEF Inside
  <2>8. /\ Inside(c.domain, p) /\ DOMAIN b.shape = DOMAIN c.domain
        /\ b.at[[d \in DOMAIN b.shape |-> p[d] - dom[d].start]] = At(TableField(c), p)
    BY <2>4, <2>6, <2>7, TableReads
  <2>9. [d \in DOMAIN b.shape |-> p[d] - dom[d].start] = [d \in DOMAIN b.shape |-> i[d]]
    BY <2>5, <2>8
  <2>10. w(pick) = b.at[[d \in DOMAIN b.shape |-> i[d]]]
    BY DEF b
  <2>11. At(TableField(c), p) \in Int
    BY <2>4, <2>7, <2>8, TablePosition DEF Integral
  <2>12. Raw(conns, p, e) = At(TableField(c), p)
    BY <1>9, <2>3 DEF Raw, c
  <2> HIDE DEF w
  <2> QED BY <1>3, <1>7, <1>9, <2>8, <2>9, <2>10, <2>11, <2>12
<1>10. CASE e \notin Moved(conns)
  <2>1. e \in DOMAIN dom
    BY <1>2, <1>10 DEF Removed, Moved
  <2>2. p[e] \in Int /\ dom[e].start \in Int
    BY <1>1, <1>2, <2>1, FiniteRange DEF DomainIsFinite, Inside
  <2>3. i[e] + dom[e].start = p[e]
    BY <2>1, <2>2
  <2> QED BY <1>3, <1>7, <1>10, <2>1, <2>2, <2>3 DEF Raw
<1> QED BY <1>9, <1>10

(* A point of a bounded domain, and the position it has in a buffer that   *)
(* fills the domain.                                                       *)
LEMMA FullPosition ==
  ASSUME NEW dom, \A d \in DOMAIN dom : dom[d] \in Ranges /\ IsFinite(dom[d]), NEW p, NEW i,
         i = [d \in DOMAIN dom |-> p[d] - dom[d].start],
         NEW shape, shape = [d \in DOMAIN dom |-> RangeLen(dom[d])]
  PROVE  /\ \A d \in DOMAIN dom : dom[d].start \in Int
         /\ shape \in [DOMAIN dom -> Nat]
         /\ (\A d \in DOMAIN dom : p[d] \in Int) => (Inside(dom, p) <=> i \in Indices(shape))
<1>1. \A d \in DOMAIN dom : dom[d].start \in Int /\ dom[d].stop \in Int /\ RangeLen(dom[d]) \in Nat
  BY FiniteRange
<1>2. shape \in [DOMAIN dom -> Nat] /\ \A d \in DOMAIN dom : shape[d] = dom[d].stop - dom[d].start
  BY <1>1 DEF RangeLen
<1>3. ASSUME \A d \in DOMAIN dom : p[d] \in Int
      PROVE  Inside(dom, p) <=> i \in Indices(shape)
  <2>1. \A d \in DOMAIN dom : InRange(p[d], dom[d]) <=> dom[d].start <= p[d] /\ p[d] < dom[d].stop
    BY <1>3, FiniteMembers
  <2>2. Inside(dom, p) <=> \A d \in DOMAIN dom : dom[d].start <= p[d] /\ p[d] < dom[d].stop
    BY <1>3, <2>1 DEF Inside
  <2>3. i \in Indices(shape) <=> i \in [DOMAIN dom -> Nat] /\ \A d \in DOMAIN dom : i[d] < shape[d]
    BY <1>2, IndexTuples
  <2>4. i \in [DOMAIN dom -> Int] /\ \A d \in DOMAIN dom : i[d] = p[d] - dom[d].start
    BY <1>1, <1>3
  <2>5. i \in [DOMAIN dom -> Nat] <=> \A d \in DOMAIN dom : 0 <= i[d]
    BY <2>4
  <2>6. \A d \in DOMAIN dom : (dom[d].start <= p[d] /\ p[d] < dom[d].stop) <=> (0 <= i[d] /\ i[d] < shape[d])
    BY <1>1, <1>2, <1>3, <2>4
  <2> QED BY <2>2, <2>3, <2>5, <2>6
<1> QED BY <1>1, <1>2, <1>3

LEMMA FullReads ==
  ASSUME NEW dom, \A d \in DOMAIN dom : dom[d] \in Ranges /\ IsFinite(dom[d]),
         NEW a, a.shape = [d \in DOMAIN dom |-> RangeLen(dom[d])], NEW p, Inside(dom, p)
  PROVE  Pos(a, dom, p) = [d \in DOMAIN dom |-> p[d] - dom[d].start]
<1> DEFINE i == [d \in DOMAIN dom |-> p[d] - dom[d].start]
           shape == a.shape
<1>1. i \in Indices(shape) /\ shape \in [DOMAIN dom -> Nat]
  BY FullPosition DEF Inside
<1>2. \A d \in DOMAIN dom : i[d] = p[d] - dom[d].start
  OBVIOUS
<1> HIDE DEF i
<1>3. i \in [DOMAIN dom -> Nat] /\ \A d \in DOMAIN dom : i[d] < shape[d]
  BY <1>1, IndexTuples
<1>4. \A d \in DOMAIN dom : (IF shape[d] = 1 THEN 0 ELSE p[d] - dom[d].start) = i[d]
  BY <1>1, <1>2, <1>3
<1> QED BY <1>1, <1>3, <1>4 DEF Pos, i

LEMMA GatherPosition ==
  ASSUME NEW g, NEW conns, NEW dom, Gathered(g, conns, dom)
  PROVE  \A d \in DOMAIN dom : dom[d] \in Ranges /\ IsFinite(dom[d])
<1>1. Gathers(g, conns) /\ IsOk(GatherPremap(g, conns)) /\ dom = GatherDomain(g.domain, conns).val
  BY DEF Gathered
<1>2. IsOk(GatherDomain(g.domain, conns)) /\ DomainIsFinite(dom)
  BY <1>1, GatherChecks
<1> QED BY <1>1, <1>2, GatherDomainReads DEF DomainIsFinite

(* The buffer of a gather holds integers.                                  *)
LEMMA GatherFills ==
  ASSUME NEW g, NEW conns, NEW dom, Gathered(g, conns, dom),
         NEW a, a = GatherArray(g, conns, dom)
  PROVE  IsArray(a)
<1> DEFINE shape == [d \in DOMAIN dom |-> RangeLen(dom[d])]
           n == g.arr.shape
           src(i) == [e \in DOMAIN n |-> Wrap(GatherIndex(g, conns, dom, i, e), n[e])]
<1>0. /\ Gathers(g, conns) /\ IsOk(GatherPremap(g, conns)) /\ dom = GatherDomain(g.domain, conns).val
      /\ IsField(g)
  BY DEF Gathered, Gathers
<1>1. a = [shape |-> shape, at |-> [i \in Indices(shape) |-> g.arr.at[src(i)]]]
  BY DEF GatherArray
<1>2. /\ IsArray(g.arr) /\ DOMAIN n = Dimensions(g) /\ \A d \in Dimensions(g) : n[d] \in Nat
      /\ n \in [Dimensions(g) -> Nat]
  BY <1>0, FieldFacts DEF IsArray
<1>3. /\ \A d \in DOMAIN dom : dom[d].start \in Int
      /\ shape \in [DOMAIN dom -> Nat]
  <2> DEFINE p == [d \in DOMAIN dom |-> 0]
             i == [d \in DOMAIN dom |-> p[d] - dom[d].start]
  <2> HIDE DEF p
  <2> QED BY GatherPosition, FullPosition
<1>4. ASSUME NEW i \in Indices(shape) PROVE g.arr.at[src(i)] \in Int
  <2> DEFINE p == [d \in DOMAIN dom |-> i[d] + dom[d].start]
  <2>1. i \in [DOMAIN dom -> Nat]
    <3> HIDE DEF shape
    <3> QED BY <1>3, <1>4, IndexTuples
  <2>2. \A d \in DOMAIN dom : p[d] \in Int
    BY <1>3, <2>1
  <2>3. i = [d \in DOMAIN dom |-> p[d] - dom[d].start]
    BY <1>3, <2>1
  <2> HIDE DEF p
  <2>4. Inside(dom, p)
    <3> HIDE DEF shape
    <3>1. shape = [d \in DOMAIN dom |-> RangeLen(dom[d])]
      BY DEF shape
    <3> QED BY <1>4, <2>2, <2>3, <3>1, GatherPosition, FullPosition
  <2>5. ASSUME NEW e \in Dimensions(g)
        PROVE  /\ Wrap(GatherIndex(g, conns, dom, i, e), n[e]) \in Nat
               /\ Wrap(GatherIndex(g, conns, dom, i, e), n[e]) < n[e]
    <3> DEFINE x == GatherIndex(g, conns, dom, i, e)
    <3>1. InArray(x, n[e]) /\ LeftFinite(g.domain[e])
      BY <1>0, <1>2, GatherChecks
    <3>2. Raw(conns, p, e) \in Int /\ x = Raw(conns, p, e) - g.domain[e].start
      BY <2>3, <2>4, GatherIndexReads
    <3>3. g.domain[e] \in Ranges /\ n[e] \in Nat
      BY <1>0, FieldFacts
    <3>4. g.domain[e].start \in Int
      <4>1. g.domain[e].start \in Bounds /\ g.domain[e] = UnitRange(g.domain[e].start, g.domain[e].stop)
        BY <3>3 DEF Ranges
      <4>2. g.domain[e].start # POSITIVE
        BY <4>1, InfinityAssumption DEF UnitRange, Lt, Infinity, Bounds
      <4> QED BY <3>1, <4>1, <4>2 DEF LeftFinite, Bounds, Infinity
    <3>5. x \in Int
      BY <3>2, <3>4
    <3> HIDE DEF x
    <3>6. Wrap(x, n[e]) \in Nat /\ Wrap(x, n[e]) < n[e]
      BY <3>1, <3>3, <3>5 DEF InArray, Wrap
    <3> QED BY <3>6 DEF x
  <2>6. src(i) \in [Dimensions(g) -> Nat] /\ \A e \in Dimensions(g) : src(i)[e] < n[e]
    BY <1>2, <2>5
  <2> HIDE DEF src
  <2>7. src(i) \in Indices(n)
    BY <1>2, <2>6, IndexTuples
  <2> QED BY <1>2, <2>7 DEF IsArray
<1>5. a.shape = shape /\ a.at = [i \in Indices(shape) |-> g.arr.at[src(i)]]
  BY <1>1
<1> HIDE DEF shape, src
<1> QED BY <1>3, <1>4, <1>5 DEF IsArray

(* A gather along a dimension of the field stays in the field's range.     *)
Leaves(g, conns, p, d) ==
  IsGather(ConnOf(conns, d)) /\ d \in DOMAIN p /\ ~InRange(p[d], g.domain[d])

LEMMA GatherBuffer ==
  ASSUME NEW g, NEW conns, NEW dom, Gathered(g, conns, dom), NEW h, h = GatherPremap(g, conns).val
  PROVE  /\ IsField(h) /\ h.domain = dom /\ h.arr = GatherArray(g, conns, dom)
         /\ \A p : Inside(dom, p) =>
              At(h, p) = g.arr.at[[e \in Dimensions(g) |->
                           Wrap(Raw(conns, p, e) - g.domain[e].start, g.arr.shape[e])]]
<1> DEFINE a == GatherArray(g, conns, dom)
           shape == [d \in DOMAIN dom |-> RangeLen(dom[d])]
           n == g.arr.shape
           src(i) == [e \in DOMAIN n |-> Wrap(GatherIndex(g, conns, dom, i, e), n[e])]
<1>0. Gathers(g, conns) /\ IsOk(GatherPremap(g, conns)) /\ dom = GatherDomain(g.domain, conns).val
  BY DEF Gathered
<1>1. /\ IsOk(GatherDomain(g.domain, conns))
      /\ GatherPremap(g, conns) = FromArray(a, dom)
  BY <1>0, GatherChecks
<1>2. \A d \in DOMAIN dom : dom[d] \in Ranges
  BY <1>0, <1>1, GatherDomainReads
<1>3. IsArray(a)
  BY GatherFills
<1>4. a = [shape |-> shape, at |-> [i \in Indices(shape) |-> g.arr.at[src(i)]]]
  BY DEF GatherArray
<1>5. a.shape = shape /\ a.at = [i \in Indices(shape) |-> g.arr.at[src(i)]]
  BY <1>4
<1> HIDE DEF a
<1>6. IsField(h) /\ h.domain = dom /\ h.arr = a
  BY <1>0, <1>1, <1>2, <1>3, FieldMade
<1>7. DOMAIN n = Dimensions(g)
  BY <1>0, FieldFacts DEF Gathers
<1>8. ASSUME NEW p, Inside(dom, p)
      PROVE  At(h, p) = g.arr.at[[e \in Dimensions(g) |->
                           Wrap(Raw(conns, p, e) - g.domain[e].start, n[e])]]
  <2> DEFINE i == [d \in DOMAIN dom |-> p[d] - dom[d].start]
  <2>1. \A d \in DOMAIN dom : p[d] \in Int
    BY <1>8 DEF Inside
  <2>2. /\ \A d \in DOMAIN dom : dom[d].start \in Int
        /\ shape \in [DOMAIN dom -> Nat] /\ i \in Indices(shape)
    BY <1>8, <2>1, GatherPosition, FullPosition
  <2>3. At(h, p) = a.at[Pos(a, dom, p)]
    BY <1>6, <1>8, <2>1, AtReads DEF Dimensions, Integral
  <2>4. Pos(a, dom, p) = i
    <3>1. \A d \in DOMAIN dom : dom[d] \in Ranges /\ IsFinite(dom[d])
      BY GatherPosition
    <3>2. a.shape = [d \in DOMAIN dom |-> RangeLen(dom[d])]
      BY <1>5
    <3> QED BY <1>8, <3>1, <3>2, FullReads
  <2>5. At(h, p) = g.arr.at[src(i)]
    <3> HIDE DEF i, src, shape
    <3> QED BY <1>5, <2>2, <2>3, <2>4
  <2>6. \A e \in Dimensions(g) :
          GatherIndex(g, conns, dom, i, e) = Raw(conns, p, e) - g.domain[e].start
    BY <1>8, GatherIndexReads
  <2> HIDE DEF i
  <2>7. src(i) = [e \in Dimensions(g) |-> Wrap(Raw(conns, p, e) - g.domain[e].start, n[e])]
    BY <1>7, <2>6
  <2> QED BY <2>5, <2>7
<1> QED BY <1>6, <1>8 DEF a

(* premap with tables: the value at a point is the field's value where the *)
(* tables take the point; it is undefined where a table is, or where the   *)
(* point leaves the range of a dimension that is gathered along itself.    *)
(* Nothing is said where a table has a skipped neighbour.                  *)
THEOREM GatherIsExact ==
  ASSUME NEW g, NEW conns, Gathers(g, conns), IsOk(GatherPremap(g, conns)),
         NEW h, h = GatherPremap(g, conns).val
  PROVE  /\ IsField(h)
         /\ Dimensions(h) = (Dimensions(g) \ Removed(conns))
                            \cup UNION {ConnDims(conns[k]) : k \in DOMAIN conns}
         /\ \A p : Integral(Dimensions(h), p) /\ DOMAIN p = Dimensions(h) =>
              LET q == Pulled(g, conns, p)
                  gone == \E d \in Moved(conns) : q[d] = UNDEF \/ Leaves(g, conns, p, d)
              IN  /\ gone => At(h, p) = UNDEF
                  /\ ~gone /\ (\A d \in Moved(conns) : q[d] # UNKNOWN) => At(h, p) = At(g, q)
<1> DEFINE dom == GatherDomain(g.domain, conns).val
<1>1. Gathered(g, conns, dom) /\ IsField(g)
  BY DEF Gathered, Gathers
<1>2. /\ IsField(h) /\ h.domain = dom
      /\ \A p : Inside(dom, p) =>
           At(h, p) = g.arr.at[[e \in Dimensions(g) |->
                        Wrap(Raw(conns, p, e) - g.domain[e].start, g.arr.shape[e])]]
  BY <1>1, GatherBuffer
<1>3. /\ IsOk(GatherDomain(g.domain, conns))
      /\ \A e \in DOMAIN g.arr.shape : LeftFinite(g.domain[e])
      /\ \A i \in Indices([d \in DOMAIN dom |-> RangeLen(dom[d])]) : \A e \in DOMAIN g.arr.shape :
           InArray(GatherIndex(g, conns, dom, i, e), g.arr.shape[e])
  BY GatherChecks
<1>4. /\ DOMAIN dom = (Dimensions(g) \ Removed(conns))
                      \cup UNION {ConnDims(conns[k]) : k \in DOMAIN conns}
      /\ \A k \in DOMAIN conns : HasBox(conns[k], g.domain[conns[k].codomain])
      /\ \A d \in DOMAIN dom :
           \A x \in Int : InRange(x, dom[d]) <=>
             /\ \A k \in DOMAIN conns :
                  d \in ConnDims(conns[k]) => InRange(x, InverseOf(g, conns, k)[d])
             /\ d \in Dimensions(g) => InRange(x, g.domain[d])
  BY <1>3, GatherDomainReads
<1> HIDE DEF dom
<1>5. ASSUME NEW p, Integral(DOMAIN dom, p), DOMAIN p = DOMAIN dom,
             NEW q, q = Pulled(g, conns, p),
             NEW gone, gone = \E d \in Moved(conns) : q[d] = UNDEF \/ Leaves(g, conns, p, d)
      PROVE  /\ gone => At(h, p) = UNDEF
             /\ ~gone /\ (\A d \in Moved(conns) : q[d] # UNKNOWN) => At(h, p) = At(g, q)
  <2>1. ASSUME NEW k \in DOMAIN conns
        PROVE  /\ IsTable(conns[k]) /\ ConnDims(conns[k]) = DOMAIN conns[k].domain
               /\ ConnDims(conns[k]) \subseteq DOMAIN dom
               /\ Codomain(conns[k]) = conns[k].codomain /\ conns[k].codomain \in Dimensions(g)
               /\ ConnOf(conns, conns[k].codomain) = conns[k]
               /\ conns[k].codomain \in Moved(conns)
               /\ Raw(conns, p, conns[k].codomain) = At(TableField(conns[k]), p)
               /\ q[conns[k].codomain] = IF At(TableField(conns[k]), p) = Skip /\ conns[k].skips
                                         THEN UNKNOWN ELSE At(TableField(conns[k]), p)
               /\ Integral(DOMAIN conns[k].domain, p)
    <3>1. /\ IsTable(conns[k]) /\ Codomain(conns[k]) = conns[k].codomain
          /\ conns[k].codomain \in Dimensions(g)
          /\ ConnDims(conns[k]) = DOMAIN conns[k].domain
          /\ Image(conns[k], p) = IF At(TableField(conns[k]), p) = Skip /\ conns[k].skips
                                  THEN UNKNOWN ELSE At(TableField(conns[k]), p)
      BY GatherConn
    <3>2. ConnOf(conns, Codomain(conns[k])) = conns[k] /\ Codomain(conns[k]) \in Moved(conns)
      BY ConnOfMoved DEF Gathers
    <3>3. ConnDims(conns[k]) \subseteq DOMAIN dom
      BY <1>4
    <3>4. q[Codomain(conns[k])] = Image(conns[k], p)
      BY <1>5, <3>1, <3>2 DEF Pulled
    <3> QED BY <1>5, <3>1, <3>2, <3>3, <3>4 DEF Raw, Integral
  <2>2. \A d \in Moved(conns) : \E k \in DOMAIN conns : d = conns[k].codomain
    BY <2>1 DEF Moved
  <2>3. \A d \in Dimensions(g) \ Moved(conns) : q[d] = p[d] /\ Raw(conns, p, d) = p[d] /\ d \in DOMAIN dom
    BY <1>4, <1>5 DEF Pulled, Raw, Removed, Moved
  <2>4. ASSUME NEW k \in DOMAIN conns, NEW inv, inv = InverseOf(g, conns, k),
               NEW x, x = At(TableField(conns[k]), p), NEW r, r = g.domain[conns[k].codomain]
        PROVE  /\ DOMAIN inv = ConnDims(conns[k])
               /\ Inside(inv, p) => x \in Int /\ (InRange(x, r) \/ (conns[k].skips /\ x = Skip))
               /\ x # UNDEF /\ ~Inside(inv, p) => x \in Int /\ ~InRange(x, r)
    <3>1. HasBox(conns[k], r) /\ inv = InverseImage(conns[k], r)
      BY <1>4, <2>4 DEF InverseOf
    <3>2. /\ DOMAIN inv = DOMAIN conns[k].domain
          /\ Inside(inv, p) => Inside(conns[k].domain, p) /\ (InRange(x, r) \/ (conns[k].skips /\ x = Skip))
          /\ Inside(conns[k].domain, p) /\ ~Inside(inv, p) => ~InRange(x, r)
      BY <2>1, <2>4, <3>1, BoxIsInverseImage
    <3>3. /\ Inside(conns[k].domain, p) => x \in Int
          /\ ~Inside(conns[k].domain, p) => x = UNDEF
      BY <2>1, <2>4, TablePosition
    <3> QED BY <2>1, <3>2, <3>3
  <2>5. CASE Inside(dom, p)
    <3>1. \A d \in DOMAIN dom : p[d] \in Int /\ InRange(p[d], dom[d])
      BY <2>5 DEF Inside
    <3>2. \A d \in Dimensions(g) : d \in DOMAIN dom => InRange(p[d], g.domain[d])
      BY <1>4, <3>1
    <3>3. ASSUME NEW k \in DOMAIN conns
          PROVE  /\ At(TableField(conns[k]), p) \in Int
                 /\ \/ InRange(At(TableField(conns[k]), p), g.domain[conns[k].codomain])
                    \/ conns[k].skips /\ At(TableField(conns[k]), p) = Skip
      <4>1. \A d \in ConnDims(conns[k]) : InRange(p[d], InverseOf(g, conns, k)[d]) /\ p[d] \in Int
        BY <1>4, <2>1, <3>1
      <4>2. Inside(InverseOf(g, conns, k), p)
        BY <2>4, <4>1 DEF Inside
      <4> QED BY <2>4, <4>2
    <3>4. ~gone
      <4>1. ASSUME NEW d \in Moved(conns) PROVE q[d] # UNDEF /\ ~Leaves(g, conns, p, d)
        <5>1. PICK k \in DOMAIN conns : d = conns[k].codomain
          BY <2>2
        <5>2. q[d] # UNDEF
          BY <2>1, <3>3, <5>1, ValueAssumption
        <5>3. ~Leaves(g, conns, p, d)
          BY <1>5, <2>1, <3>2, <5>1 DEF Leaves
        <5> QED BY <5>2, <5>3
      <4> QED BY <1>5, <4>1
    <3>5. ASSUME \A d \in Moved(conns) : q[d] # UNKNOWN
          PROVE  At(h, p) = At(g, q)
      <4>1. ASSUME NEW e \in Dimensions(g)
            PROVE  q[e] = Raw(conns, p, e) /\ q[e] \in Int /\ InRange(q[e], g.domain[e])
        <5>1. CASE e \in Moved(conns)
          <6>1. PICK k \in DOMAIN conns : e = conns[k].codomain
            BY <2>2, <5>1
          <6> QED BY <2>1, <3>3, <3>5, <5>1, <6>1
        <5>2. CASE e \notin Moved(conns)
          BY <2>3, <3>1, <3>2, <5>2
        <5> QED BY <5>1, <5>2
      <4>2. Inside(g.domain, q) /\ Integral(Dimensions(g), q)
        BY <4>1 DEF Inside, Integral, Dimensions
      <4>3. At(g, q) = g.arr.at[Pos(g.arr, g.domain, q)]
        BY <1>1, <4>2, AtReads
      <4> DEFINE i == [d \in DOMAIN dom |-> p[d] - dom[d].start]
                 shape == [d \in DOMAIN dom |-> RangeLen(dom[d])]
      <4>4. i \in Indices(shape)
        BY <1>1, <2>5, <3>1, GatherPosition, FullPosition
      <4>5. ASSUME NEW e \in Dimensions(g)
            PROVE  Wrap(Raw(conns, p, e) - g.domain[e].start, g.arr.shape[e])
                     = IF g.arr.shape[e] = 1 THEN 0 ELSE q[e] - g.domain[e].start
        <5> DEFINE x == q[e] - g.domain[e].start
                   m == g.arr.shape[e]
        <5>1. DOMAIN g.arr.shape = Dimensions(g) /\ m \in Nat /\ g.domain[e] \in Ranges
          BY <1>1, FieldFacts
        <5>2. GatherIndex(g, conns, dom, i, e) = x
          BY <1>1, <2>5, <4>1, GatherIndexReads
        <5> HIDE DEF i, shape
        <5>3. InArray(GatherIndex(g, conns, dom, i, e), m) /\ LeftFinite(g.domain[e])
          BY <1>3, <4>4, <5>1 DEF shape
        <5>4. g.domain[e].start \in Int /\ g.domain[e].start <= q[e] /\ q[e] \in Int
          <6>1. Le(g.domain[e].start, q[e]) /\ q[e] \in Int
            BY <4>1 DEF InRange
          <6>2. g.domain[e].start \in Bounds /\ g.domain[e].start # NEGATIVE
            BY <5>1, <5>3 DEF Ranges, LeftFinite
          <6> QED BY <6>1, <6>2, InfinityAssumption DEF Le, Bounds, Infinity
        <5>5. x \in Int /\ 0 <= x
          BY <5>4
        <5>6. InArray(x, m)
          BY <5>2, <5>3
        <5>7. Raw(conns, p, e) - g.domain[e].start = x
          BY <4>1
        <5> HIDE DEF x, m
        <5>8. Wrap(x, m) = IF m = 1 THEN 0 ELSE x
          BY <5>1, <5>5, <5>6 DEF Wrap, InArray
        <5> QED BY <5>7, <5>8 DEF x, m
      <4>6. [e \in Dimensions(g) |-> Wrap(Raw(conns, p, e) - g.domain[e].start, g.arr.shape[e])]
              = Pos(g.arr, g.domain, q)
        <5>1. DOMAIN g.arr.shape = Dimensions(g)
          BY <1>1, FieldFacts
        <5> QED BY <4>5, <5>1 DEF Pos
      <4> QED BY <1>2, <2>5, <4>3, <4>6
    <3> QED BY <3>4, <3>5
  <2>6. CASE ~Inside(dom, p)
    <3>1. At(h, p) = UNDEF
      BY <1>2, <1>5, <2>6, AtReads DEF Dimensions
    <3>2. ASSUME ~gone, \A d \in Moved(conns) : q[d] # UNKNOWN
          PROVE  At(g, q) = UNDEF
      <4>1. \A d \in Moved(conns) : q[d] # UNDEF /\ ~Leaves(g, conns, p, d)
        BY <1>5, <3>2
      <4>2. ASSUME NEW k \in DOMAIN conns
            PROVE  /\ q[conns[k].codomain] = At(TableField(conns[k]), p)
                   /\ q[conns[k].codomain] \in Int
        BY <2>1, <2>4, <3>2, <4>1
      <4>3. Integral(Dimensions(g), q)
        BY <1>5, <2>2, <2>3, <4>2 DEF Integral
      <4>4. PICK d \in DOMAIN dom : ~InRange(p[d], dom[d])
        BY <1>5, <2>6 DEF Inside, Integral
      <4>5. p[d] \in Int
        BY <1>5 DEF Integral
      <4>6. CASE d \in Dimensions(g) /\ ~InRange(p[d], g.domain[d])
        <5>1. d \notin Moved(conns)
          <6> SUFFICES ASSUME d \in Moved(conns) PROVE FALSE
            OBVIOUS
          <6>1. PICK k \in DOMAIN conns : d = conns[k].codomain
            BY <2>2
          <6>2. IsGather(ConnOf(conns, d))
            BY <2>1, <6>1 DEF Gathers
          <6> QED BY <1>5, <4>1, <4>6, <6>2 DEF Leaves
        <5>2. q[d] = p[d]
          BY <2>3, <4>6, <5>1
        <5>3. ~Inside(g.domain, q)
          BY <4>6, <5>2 DEF Inside, Dimensions
        <5> QED BY <1>1, <4>3, <5>3, AtReads
      <4>7. CASE ~(d \in Dimensions(g) /\ ~InRange(p[d], g.domain[d]))
        <5>1. PICK k \in DOMAIN conns : d \in ConnDims(conns[k]) /\ ~InRange(p[d], InverseOf(g, conns, k)[d])
          BY <1>4, <4>4, <4>5, <4>7
        <5>2. ~Inside(InverseOf(g, conns, k), p)
          BY <2>4, <5>1 DEF Inside
        <5>3. ~InRange(q[conns[k].codomain], g.domain[conns[k].codomain])
          BY <2>4, <4>1, <4>2, <5>2, ValueAssumption
        <5>4. ~Inside(g.domain, q)
          BY <2>1, <5>3 DEF Inside, Dimensions
        <5> QED BY <1>1, <4>3, <5>4, AtReads
      <4> QED BY <4>6, <4>7
    <3> QED BY <3>1, <3>2
  <2> QED BY <2>5, <2>6
<1>6. DOMAIN dom = Dimensions(h)
  BY <1>2 DEF Dimensions
<1> QED BY <1>2, <1>4, <1>5, <1>6

(* premap, shifts and tables alike: what it returns is the field read      *)
(* where the connectivities take the point.                                *)
THEOREM PremapIsExact ==
  ASSUME NEW g, IsField(g), NEW conns, IsConns(conns), IsOk(Premap(g, conns)),
         NEW h, h = Premap(g, conns).val
  PROVE  /\ IsField(h)
         /\ Dimensions(h) \subseteq Dimensions(g) \cup UNION {ConnDims(conns[k]) : k \in DOMAIN conns}
         /\ \A p : Integral(Dimensions(h), p) /\ DOMAIN p = Dimensions(h) =>
              LET q == Pulled(g, conns, p)
                  gone == \E d \in Moved(conns) : q[d] = UNDEF \/ Leaves(g, conns, p, d)
              IN  /\ gone => At(h, p) = UNDEF
                  /\ ~gone /\ (\A d \in Moved(conns) : q[d] # UNKNOWN) => At(h, p) = At(g, q)
<1> DEFINE gathers == {k \in DOMAIN conns : IsGather(conns[k])}
           wrong == \/ \E k \in DOMAIN conns : Codomain(conns[k]) \notin Dimensions(g)
                    \/ \E j, k \in DOMAIN conns : j # k /\ Codomain(conns[j]) = Codomain(conns[k])
                    \/ gathers # {} /\ gathers # DOMAIN conns
           chained == \E k \in DOMAIN conns :
                        (Removed(conns) \cap (ConnDims(conns[k]) \ {Codomain(conns[k])})) # {}
<1>1. Premap(g, conns) =
        IF wrong THEN Raise("ValueError")
        ELSE IF gathers = {} THEN DomainPremap(g, conns)
        ELSE IF chained THEN Raise("ValueError") ELSE GatherPremap(g, conns)
  BY Zenon DEF Premap
<1>2. ~wrong /\ (gathers # {} => ~chained)
  <2> HIDE DEF wrong, chained, gathers
  <2> QED BY <1>1, Results
<1>3. /\ \A k \in DOMAIN conns : Codomain(conns[k]) \in Dimensions(g)
      /\ Distinct(conns)
  BY <1>2 DEF Distinct
<1>4. CASE gathers = {}
  <2>1. IsOk(DomainPremap(g, conns)) /\ h = DomainPremap(g, conns).val
    <3> HIDE DEF wrong, chained, gathers
    <3> QED BY <1>1, <1>2, <1>4
  <2>2. \A k \in DOMAIN conns : ~IsGather(conns[k]) /\ Codomain(conns[k]) \in Dimensions(g)
    BY <1>3, <1>4
  <2>3. /\ IsField(h)
        /\ Dimensions(h) \subseteq Dimensions(g) \cup {conns[k].dim : k \in DOMAIN conns}
        /\ \A p : Integral(Dimensions(h), p) =>
              /\ Integral(Dimensions(g), Pulled(g, conns, p))
              /\ At(h, p) = At(g, Pulled(g, conns, p))
    BY <1>3, <2>1, <2>2, TranslationIsExact
  <2>4. {conns[k].dim : k \in DOMAIN conns} \subseteq UNION {ConnDims(conns[k]) : k \in DOMAIN conns}
    <3>1. \A k \in DOMAIN conns : conns[k].dim \in ConnDims(conns[k])
      BY <2>2 DEF ConnDims
    <3> QED BY <3>1
  <2>5. ASSUME NEW p, Integral(Dimensions(h), p), NEW d \in Moved(conns)
        PROVE  Pulled(g, conns, p)[d] # UNDEF /\ ~Leaves(g, conns, p, d)
    <3>1. PICK k \in DOMAIN conns : d = Codomain(conns[k])
      BY DEF Moved
    <3>2. ConnOf(conns, d) = conns[k] /\ d \in Dimensions(g)
      BY <1>3, <3>1, ConnOfMoved
    <3>3. Pulled(g, conns, p)[d] \in Int
      BY <2>3, <2>5, <3>2 DEF Integral
    <3> QED BY <2>2, <3>2, <3>3, ValueAssumption DEF Leaves
  <2> QED BY <2>3, <2>4, <2>5
<1>5. CASE gathers # {}
  <2>1. IsOk(GatherPremap(g, conns)) /\ h = GatherPremap(g, conns).val
    <3> HIDE DEF wrong, chained, gathers
    <3> QED BY <1>1, <1>2, <1>5
  <2>2. Gathers(g, conns)
    BY <1>2, <1>3, <1>5 DEF Gathers
  <2> QED BY <2>1, <2>2, GatherIsExact
<1> QED BY <1>4, <1>5

-----------------------------------------------------------------------------
(* concat_where *)

ConcatDomain(P, d) ==
  [First(P, d).domain EXCEPT ![d] = UnitRange(Start(First(P, d), d), Stop(Final(P, d), d))]
PieceShape(k, dom) == [e \in DOMAIN dom |-> RangeLen(k.domain[e])]
ConcatFull(P, dom) == [k \in P |-> BroadcastTo(k.arr, PieceShape(k, dom))]
Owner(P, d, x) == CHOOSE k \in P : InRange(x, k.domain[d])
ConcatValue(P, d, dom, origin, i) ==
  ConcatFull(P, dom)[Owner(P, d, origin + i[d])].val.at[
    [i EXCEPT ![d] = @ - (Start(Owner(P, d, origin + i[d]), d) - origin)]]
ConcatArray(P, d, dom, origin) ==
  [shape |-> [e \in DOMAIN dom |-> RangeLen(dom[e])],
   at |-> [i \in Indices([e \in DOMAIN dom |-> RangeLen(dom[e])]) |->
             ConcatValue(P, d, dom, origin, i)]]
ConcatLast(P, d, dom, origin) ==
  IF \E k \in P : ~IsOk(ConcatFull(P, dom)[k]) THEN Raise("ShapeError")
  ELSE FromArray(ConcatArray(P, d, dom, origin), dom)

LEMMA ConcatSteps ==
  ASSUME NEW P, NEW d
  PROVE  Concat(P, d) =
    IF \E k \in P : d \notin Dimensions(k) THEN Raise("KeyError")
    ELSE IF \E k, l \in P : Neighbours(k, l, d, P) /\ Lt(Start(l, d), Stop(k, d))
    THEN Raise("ValueError")
    ELSE IF \E k, l \in P : Neighbours(k, l, d, P) /\ Lt(Stop(k, d), Start(l, d))
    THEN Raise("NonContiguousDomain")
    ELSE IF \E k \in P : ~DomainIsFinite(k.domain) THEN Raise("OpenRange")
    ELSE ConcatLast(P, d, ConcatDomain(P, d), Start(First(P, d), d))
BY Zenon DEF Concat, Array, ConcatDomain, PieceShape, ConcatFull, Owner, ConcatValue, ConcatArray, ConcatLast

(* What holds of the pieces when they are joined.                          *)
LEMMA ConcatChecks ==
  ASSUME NEW P, NEW d, IsOk(Concat(P, d)), NEW dom, dom = ConcatDomain(P, d),
         NEW origin, origin = Start(First(P, d), d)
  PROVE  /\ \A k \in P : d \in Dimensions(k) /\ DomainIsFinite(k.domain)
         /\ \A k, l \in P : Neighbours(k, l, d, P) =>
              ~Lt(Start(l, d), Stop(k, d)) /\ ~Lt(Stop(k, d), Start(l, d))
         /\ \A k \in P : IsOk(BroadcastTo(k.arr, PieceShape(k, dom)))
         /\ Concat(P, d) = FromArray(ConcatArray(P, d, dom, origin), dom)
<1> DEFINE e1 == \E k \in P : d \notin Dimensions(k)
           e2 == \E k, l \in P : Neighbours(k, l, d, P) /\ Lt(Start(l, d), Stop(k, d))
           e3 == \E k, l \in P : Neighbours(k, l, d, P) /\ Lt(Stop(k, d), Start(l, d))
           e4 == \E k \in P : ~DomainIsFinite(k.domain)
           e5 == \E k \in P : ~IsOk(ConcatFull(P, dom)[k])
           last == ConcatLast(P, d, dom, origin)
<1>1. Concat(P, d) = IF e1 THEN Raise("KeyError") ELSE IF e2 THEN Raise("ValueError")
                     ELSE IF e3 THEN Raise("NonContiguousDomain")
                     ELSE IF e4 THEN Raise("OpenRange") ELSE last
  BY ConcatSteps, Zenon
<1>2. last = IF e5 THEN Raise("ShapeError") ELSE FromArray(ConcatArray(P, d, dom, origin), dom)
  BY DEF ConcatLast
<1>3. /\ ~e1 /\ ~e2 /\ ~e3 /\ ~e4 /\ ~e5
      /\ Concat(P, d) = FromArray(ConcatArray(P, d, dom, origin), dom)
  <2> HIDE DEF e1, e2, e3, e4, e5, last
  <2> QED BY <1>1, <1>2, Results
<1>4. \A k \in P : ConcatFull(P, dom)[k] = BroadcastTo(k.arr, PieceShape(k, dom))
  BY DEF ConcatFull
<1> QED BY <1>3, <1>4

(* Pieces that lie side by side along d and are alike in the others.       *)
SideBySide(P, d, dims, orth) ==
  /\ IsFiniteSet(P) /\ P # {} /\ d \in dims
  /\ \A k \in P : /\ IsField(k) /\ Dimensions(k) = dims /\ ~IsEmpty(k.domain[d])
                  /\ \A e \in dims \ {d} : k.domain[e] = orth[e]
  /\ \A k, l \in P : \A x \in Int : InRange(x, k.domain[d]) /\ InRange(x, l.domain[d]) => k = l

Joined(P, d, dims, orth) == SideBySide(P, d, dims, orth) /\ IsOk(Concat(P, d))

(* Of a finite set of pieces, one starts first and one last.               *)
LEMMA PieceBounds ==
  ASSUME NEW P, NEW d, NEW dims, NEW orth, Joined(P, d, dims, orth), NEW k \in P
  PROVE  /\ Start(k, d) \in Int /\ Stop(k, d) \in Int /\ Start(k, d) < Stop(k, d)
         /\ k.domain[d] \in Ranges /\ IsFinite(k.domain[d])
         /\ \A x \in Int : InRange(x, k.domain[d]) <=> Start(k, d) <= x /\ x < Stop(k, d)
<1>1. /\ IsField(k) /\ d \in Dimensions(k) /\ ~IsEmpty(k.domain[d])
  BY DEF Joined, SideBySide
<1>2. IsFinite(k.domain[d]) /\ k.domain[d] \in Ranges
  BY <1>1, FieldFacts, ConcatChecks DEF Joined, DomainIsFinite, Dimensions
<1>3. Start(k, d) \in Int /\ Stop(k, d) \in Int
  BY <1>2, FiniteRange DEF Start, Stop
<1>4. k.domain[d] = UnitRange(Start(k, d), Stop(k, d))
  BY <1>2 DEF Ranges, Start, Stop
<1>5. Lt(Start(k, d), Stop(k, d))
  BY <1>1, <1>4 DEF UnitRange, IsEmpty
<1>6. Start(k, d) < Stop(k, d)
  BY <1>3, <1>5, InfinityAssumption DEF Lt, Infinity
<1>7. \A x \in Int : InRange(x, k.domain[d]) <=> Start(k, d) <= x /\ x < Stop(k, d)
  BY <1>2, FiniteMembers DEF Start, Stop
<1> QED BY <1>2, <1>3, <1>6, <1>7

LEMMA PieceOrder ==
  ASSUME NEW P, NEW d, NEW dims, NEW orth, Joined(P, d, dims, orth), NEW k \in P, NEW l \in P
  PROVE  /\ Precedes(k, l, d) <=> Start(k, d) < Start(l, d)
         /\ Start(k, d) = Start(l, d) => k = l
         /\ Start(k, d) < Start(l, d) => Stop(k, d) <= Start(l, d)
         /\ Neighbours(k, l, d, P) => Stop(k, d) = Start(l, d)
<1>1. /\ Start(k, d) \in Int /\ Stop(k, d) \in Int /\ Start(k, d) < Stop(k, d)
      /\ \A x \in Int : InRange(x, k.domain[d]) <=> Start(k, d) <= x /\ x < Stop(k, d)
  BY PieceBounds
<1>2. /\ Start(l, d) \in Int /\ Stop(l, d) \in Int /\ Start(l, d) < Stop(l, d)
      /\ \A x \in Int : InRange(x, l.domain[d]) <=> Start(l, d) <= x /\ x < Stop(l, d)
  BY PieceBounds
<1>3. Precedes(k, l, d) <=> Start(k, d) < Start(l, d)
  BY <1>1, <1>2, InfinityAssumption DEF Precedes, Lt, Infinity
<1>4. InRange(Start(l, d), k.domain[d]) => k = l
  BY <1>1, <1>2 DEF Joined, SideBySide
<1>5. Neighbours(k, l, d, P) => Stop(k, d) = Start(l, d)
  <2>1. Neighbours(k, l, d, P) => ~Lt(Start(l, d), Stop(k, d)) /\ ~Lt(Stop(k, d), Start(l, d))
    BY ConcatChecks DEF Joined
  <2> QED BY <1>1, <1>2, <2>1, InfinityAssumption DEF Lt, Infinity
<1> QED BY <1>1, <1>2, <1>3, <1>4, <1>5

LEMMA FirstAndFinal ==
  ASSUME NEW P, NEW d, NEW dims, NEW orth, Joined(P, d, dims, orth)
  PROVE  /\ First(P, d) \in P /\ Final(P, d) \in P
         /\ \A k \in P : /\ Start(First(P, d), d) <= Start(k, d)
                         /\ Start(k, d) <= Start(Final(P, d), d)
<1> DEFINE v == [k \in P |-> Start(k, d)]
<1>1. \A k \in P : v[k] \in Bounds /\ v[k] = Start(k, d) /\ v[k] \in Int
  BY PieceBounds DEF Bounds
<1>2. IsFiniteSet(P) /\ P # {}
  BY DEF Joined, SideBySide
<1> HIDE DEF v
<1>3. /\ \E k \in P : \A l \in P : Le(v[l], v[k])
      /\ \E k \in P : \A l \in P : Le(v[k], v[l])
  BY <1>1, <1>2, LargestValue
<1>4. \A k, l \in P : Le(v[k], v[l]) <=> Start(k, d) <= Start(l, d)
  BY <1>1, InfinityAssumption DEF Le, Infinity
<1>5. \A k, l \in P : Precedes(k, l, d) <=> Start(k, d) < Start(l, d)
  BY PieceOrder
<1>6. \A k, l \in P : Start(k, d) <= Start(l, d) <=> ~Precedes(l, k, d)
  BY <1>1, <1>5
<1>7. \E k \in P : ~\E l \in P : Precedes(l, k, d)
  BY <1>3, <1>4, <1>6
<1>8. \E k \in P : ~\E l \in P : Precedes(k, l, d)
  BY <1>3, <1>4, <1>6
<1>9. First(P, d) \in P /\ ~\E l \in P : Precedes(l, First(P, d), d)
  BY <1>7, Zenon DEF First
<1>10. Final(P, d) \in P /\ ~\E l \in P : Precedes(Final(P, d), l, d)
  BY <1>8, Zenon DEF Final
<1> QED BY <1>6, <1>9, <1>10

(* The pieces cover the range from the first start to the last stop.       *)
LEMMA PiecesCover ==
  ASSUME NEW P, NEW d, NEW dims, NEW orth, Joined(P, d, dims, orth), NEW x \in Int
  PROVE  (\E k \in P : InRange(x, k.domain[d])) <=>
           Start(First(P, d), d) <= x /\ x < Stop(Final(P, d), d)
<1> DEFINE lo == First(P, d)
           hi == Final(P, d)
           below == {k \in P : Start(k, d) <= x}
<1>1. /\ lo \in P /\ hi \in P
      /\ \A k \in P : Start(lo, d) <= Start(k, d) /\ Start(k, d) <= Start(hi, d)
  BY FirstAndFinal
<1>2. \A k \in P : /\ Start(k, d) \in Int /\ Stop(k, d) \in Int /\ Start(k, d) < Stop(k, d)
                   /\ InRange(x, k.domain[d]) <=> Start(k, d) <= x /\ x < Stop(k, d)
  BY PieceBounds
<1>3. \A k, l \in P : /\ Precedes(k, l, d) <=> Start(k, d) < Start(l, d)
                      /\ Start(k, d) = Start(l, d) => k = l
                      /\ Start(k, d) < Start(l, d) => Stop(k, d) <= Start(l, d)
                      /\ Neighbours(k, l, d, P) => Stop(k, d) = Start(l, d)
  BY PieceOrder
<1> HIDE DEF lo, hi
<1>4. ASSUME NEW k \in P, InRange(x, k.domain[d])
      PROVE  Start(lo, d) <= x /\ x < Stop(hi, d)
  BY <1>1, <1>2, <1>3, <1>4
<1>5. ASSUME Start(lo, d) <= x, x < Stop(hi, d)
      PROVE  \E k \in P : InRange(x, k.domain[d])
  <2>1. IsFiniteSet(P)
    BY DEF Joined, SideBySide
  <2> DEFINE v == [k \in P |-> Start(k, d)]
  <2>2. \A k \in P : v[k] = Start(k, d) /\ v[k] \in Bounds
    BY <1>2 DEF Bounds
  <2> HIDE DEF v
  <2>3. \A k, l \in P : Le(v[k], v[l]) <=> Start(k, d) <= Start(l, d)
    BY <1>2, <2>2, InfinityAssumption DEF Le, Infinity
  <2>4. PICK k \in below : \A l \in below : Start(l, d) <= Start(k, d)
    <3>1. lo \in below /\ below \subseteq P
      BY <1>1, <1>5
    <3>2. IsFiniteSet(below) /\ below # {} /\ \A l \in below : v[l] \in Bounds
      BY <2>1, <2>2, <3>1, FS_Subset
    <3> HIDE DEF below
    <3>3. \E k \in below : \A l \in below : Le(v[l], v[k])
      BY <3>2, LargestValue
    <3> QED BY <2>3, <3>1, <3>3
  <2>5. k \in P /\ Start(k, d) <= x
    OBVIOUS
  <2>6. ASSUME ~InRange(x, k.domain[d]) PROVE FALSE
    <3> DEFINE above == {l \in P : Start(k, d) < Start(l, d)}
    <3>1. Stop(k, d) <= x
      BY <1>2, <2>5, <2>6
    <3>2. hi \in above
      BY <1>1, <1>2, <1>3, <1>5, <2>5, <3>1
    <3>3. PICK l \in above : \A m \in above : Start(l, d) <= Start(m, d)
      <4>1. above \subseteq P
        OBVIOUS
      <4>2. IsFiniteSet(above) /\ above # {} /\ \A m \in above : v[m] \in Bounds
        BY <2>1, <2>2, <3>2, <4>1, FS_Subset
      <4> HIDE DEF above
      <4>3. \E l \in above : \A m \in above : Le(v[l], v[m])
        BY <4>2, LargestValue
      <4> QED BY <2>3, <4>1, <4>3
    <3>4. l \in P /\ Start(k, d) < Start(l, d)
      OBVIOUS
    <3>5. Neighbours(k, l, d, P)
      <4>1. Precedes(k, l, d)
        BY <1>3, <2>5, <3>4
      <4>2. ASSUME NEW h \in P, Precedes(k, h, d), Precedes(h, l, d) PROVE FALSE
        <5>1. h \in above /\ Start(h, d) < Start(l, d)
          BY <1>3, <2>5, <3>4, <4>2
        <5> QED BY <1>2, <3>3, <3>4, <4>2, <5>1
      <4> QED BY <4>1, <4>2 DEF Neighbours
    <3>6. Start(l, d) <= x
      BY <1>2, <1>3, <2>5, <3>1, <3>4, <3>5
    <3>7. l \in below
      BY <3>4, <3>6
    <3> QED BY <1>2, <2>4, <2>5, <3>4, <3>7
  <2> QED BY <2>5, <2>6
<1> QED BY <1>4, <1>5 DEF lo, hi

LEMMA BroadcastToOk ==
  ASSUME NEW a, NEW shape, IsOk(BroadcastTo(a, shape)), NEW b, b = BroadcastTo(a, shape).val
  PROVE  /\ \A d \in DOMAIN shape : a.shape[d] \in {1, shape[d]}
         /\ b.shape = shape
         /\ \A i \in Indices(shape) : b.at[i] = a.at[Stretch(a, i)]
<1> DEFINE v == [shape |-> shape, at |-> [i \in Indices(shape) |-> a.at[Stretch(a, i)]]]
           bad == \E d \in DOMAIN shape : a.shape[d] \notin {1, shape[d]}
<1>1. BroadcastTo(a, shape) = IF bad THEN Raise("ShapeError") ELSE Ok(v)
  BY Zenon DEF BroadcastTo, Array
<1>2. ~bad /\ b = v
  <2> HIDE DEF v, bad
  <2> QED BY <1>1, Results
<1> QED BY <1>2

(* The domain of the result, and which points it holds.                    *)
LEMMA JoinedDomain ==
  ASSUME NEW P, NEW d, NEW dims, NEW orth, Joined(P, d, dims, orth),
         NEW dom, dom = ConcatDomain(P, d)
  PROVE  /\ DOMAIN dom = dims
         /\ \A e \in dims : dom[e] \in Ranges /\ IsFinite(dom[e])
         /\ \A k \in P : \A e \in dims \ {d} : dom[e] = k.domain[e]
         /\ dom[d].start = Start(First(P, d), d)
         /\ \A p : Integral(dims, p) => (Inside(dom, p) <=> \E k \in P : Inside(k.domain, p))
<1> DEFINE lo == First(P, d)
           hi == Final(P, d)
<1>1. lo \in P /\ hi \in P /\ Start(lo, d) <= Start(hi, d)
  BY FirstAndFinal
<1>2. /\ Start(lo, d) \in Int /\ Stop(hi, d) \in Int /\ Start(hi, d) \in Int
      /\ Start(hi, d) < Stop(hi, d)
  BY <1>1, PieceBounds
<1>3. \A k \in P : /\ IsField(k) /\ DOMAIN k.domain = dims /\ d \in dims
                   /\ \A e \in dims \ {d} : k.domain[e] = orth[e]
  BY DEF Joined, SideBySide, Dimensions
<1>4. \A k \in P : \A e \in dims : k.domain[e] \in Ranges /\ IsFinite(k.domain[e])
  BY <1>3, FieldFacts, ConcatChecks DEF Joined, DomainIsFinite, Dimensions
<1> HIDE DEF lo, hi
<1>5. dom = [lo.domain EXCEPT ![d] = UnitRange(Start(lo, d), Stop(hi, d))]
  BY DEF ConcatDomain, lo, hi
<1>6. /\ DOMAIN dom = dims /\ dom[d] = UnitRange(Start(lo, d), Stop(hi, d))
      /\ \A e \in dims \ {d} : dom[e] = lo.domain[e]
  BY <1>1, <1>3, <1>5
<1>7. dom[d] = [start |-> Start(lo, d), stop |-> Stop(hi, d)]
  BY <1>1, <1>2, <1>6, InfinityAssumption DEF UnitRange, Lt, Infinity
<1>8. dom[d] \in Ranges
  BY <1>2, <1>6, RangesNormal DEF Bounds
<1>9. IsFinite(dom[d]) /\ dom[d].start = Start(lo, d) /\ dom[d].stop = Stop(hi, d)
  BY <1>2, <1>7, InfinityAssumption DEF IsFinite, LeftFinite, RightFinite
<1>10. \A e \in dims : dom[e] \in Ranges /\ IsFinite(dom[e])
  BY <1>1, <1>4, <1>6, <1>8, <1>9
<1>11. \A k \in P : \A e \in dims \ {d} : dom[e] = k.domain[e]
  BY <1>1, <1>3, <1>6
<1>12. ASSUME NEW p, Integral(dims, p)
       PROVE  Inside(dom, p) <=> \E k \in P : Inside(k.domain, p)
  <2>1. InRange(p[d], dom[d]) <=> \E k \in P : InRange(p[d], k.domain[d])
    <3>1. p[d] \in Int
      BY <1>1, <1>3, <1>12 DEF Integral
    <3>2. InRange(p[d], dom[d]) <=> Start(lo, d) <= p[d] /\ p[d] < Stop(hi, d)
      BY <1>8, <1>9, <3>1, FiniteMembers
    <3> QED BY <3>1, <3>2, PiecesCover DEF lo, hi
  <2>2. Inside(dom, p) <=> InRange(p[d], dom[d]) /\ \A e \in dims \ {d} : InRange(p[e], dom[e])
    BY <1>1, <1>3, <1>6, <1>12 DEF Inside, Integral
  <2>3. ASSUME NEW k \in P
        PROVE  Inside(k.domain, p) <=>
                 InRange(p[d], k.domain[d]) /\ \A e \in dims \ {d} : InRange(p[e], dom[e])
    BY <1>3, <1>11, <1>12 DEF Inside, Integral
  <2> QED BY <2>1, <2>2, <2>3
<1> QED BY <1>6, <1>9, <1>10, <1>11, <1>12 DEF lo

(* The value of the result at a point is that of the piece that owns it.   *)
LEMMA OwnerReads ==
  ASSUME NEW P, NEW d, NEW dims, NEW orth, Joined(P, d, dims, orth),
         NEW dom, dom = ConcatDomain(P, d), NEW origin, origin = Start(First(P, d), d),
         NEW p, Integral(dims, p), Inside(dom, p),
         NEW i, i = [e \in dims |-> p[e] - dom[e].start]
  PROVE  \E k \in P : /\ Inside(k.domain, p) /\ At(k, p) \in Int
                      /\ ConcatValue(P, d, dom, origin, i) = At(k, p)
<1> DEFINE k == Owner(P, d, origin + i[d])
           full == BroadcastTo(k.arr, PieceShape(k, dom))
           j == [i EXCEPT ![d] = @ - (Start(k, d) - origin)]
<1>1. /\ DOMAIN dom = dims /\ dom[d].start = origin
      /\ \A e \in dims : dom[e] \in Ranges /\ IsFinite(dom[e])
      /\ \A l \in P : \A e \in dims \ {d} : dom[e] = l.domain[e]
      /\ \E l \in P : Inside(l.domain, p)
  BY JoinedDomain
<1>2. d \in dims /\ origin \in Int
  BY FirstAndFinal, PieceBounds DEF Joined, SideBySide
<1>3. origin + i[d] = p[d] /\ p[d] \in Int
  BY <1>1, <1>2 DEF Integral
<1>4. \A l \in P : IsField(l) /\ DOMAIN l.domain = dims
  BY DEF Joined, SideBySide, Dimensions
<1>5. \E l \in P : InRange(p[d], l.domain[d])
  BY <1>1, <1>2, <1>4 DEF Inside
<1>6. k \in P /\ InRange(p[d], k.domain[d])
  BY <1>3, <1>5, Zenon DEF Owner
<1>7. ConcatValue(P, d, dom, origin, i) = ConcatFull(P, dom)[k].val.at[j]
  BY DEF ConcatValue
<1> HIDE DEF k
<1>8. Inside(k.domain, p)
  BY <1>1, <1>4, <1>6 DEF Inside, Integral
<1>9. At(k, p) = k.arr.at[Pos(k.arr, k.domain, p)] /\ At(k, p) \in Int
  BY <1>4, <1>6, <1>8, AtReads DEF Dimensions
<1>10. IsOk(full) /\ ConcatFull(P, dom)[k] = full
  BY <1>6, ConcatChecks DEF Joined, ConcatFull
<1>11. \A e \in dims : k.domain[e] \in Ranges /\ IsFinite(k.domain[e])
  <2>1. k.domain[d] \in Ranges /\ IsFinite(k.domain[d])
    BY <1>6, PieceBounds
  <2> QED BY <1>1, <1>6, <2>1
<1>12. j = [e \in DOMAIN k.domain |-> p[e] - k.domain[e].start]
  <2>1. Start(k, d) \in Int /\ k.domain[d].start = Start(k, d)
    BY <1>6, PieceBounds DEF Start
  <2>2. i[d] - (Start(k, d) - origin) = p[d] - k.domain[d].start
    BY <1>1, <1>2, <1>3, <2>1
  <2>3. \A e \in dims \ {d} : i[e] = p[e] - k.domain[e].start
    BY <1>1, <1>6
  <2>4. DOMAIN i = dims /\ DOMAIN k.domain = dims
    BY <1>4, <1>6
  <2> QED BY <1>2, <2>2, <2>3, <2>4
<1>13. PieceShape(k, dom) = [e \in DOMAIN k.domain |-> RangeLen(k.domain[e])]
  BY <1>1, <1>4, <1>6 DEF PieceShape
<1> DEFINE shape == PieceShape(k, dom)
<1>14. j \in Indices(shape)
  <2> HIDE DEF j, shape
  <2>1. shape = [e \in DOMAIN k.domain |-> RangeLen(k.domain[e])]
    BY <1>13 DEF shape
  <2>2. \A e \in DOMAIN k.domain : k.domain[e] \in Ranges /\ IsFinite(k.domain[e]) /\ p[e] \in Int
    BY <1>4, <1>6, <1>11 DEF Integral
  <2> QED BY <1>8, <1>12, <2>1, <2>2, FullPosition
<1>15. full.val.at[j] = k.arr.at[Stretch(k.arr, j)]
  <2> HIDE DEF j
  <2> QED BY <1>10, <1>14, BroadcastToOk
<1>16. Stretch(k.arr, j) = Pos(k.arr, k.domain, p)
  <2>1. DOMAIN k.arr.shape = DOMAIN k.domain
    BY <1>4, <1>6, FieldFacts DEF Dimensions
  <2>2. \A e \in DOMAIN k.domain : j[e] = p[e] - k.domain[e].start
    BY <1>12
  <2> HIDE DEF j
  <2> QED BY <2>1, <2>2 DEF Stretch, Pos
<1> HIDE DEF j, full, shape
<1> QED BY <1>6, <1>7, <1>8, <1>9, <1>10, <1>15, <1>16

(* concatenation: the result is defined where a piece is, and has its      *)
(* value there.                                                            *)
THEOREM ConcatIsExact ==
  ASSUME NEW P, NEW d, NEW dims, NEW orth, Joined(P, d, dims, orth), NEW h, h = Concat(P, d).val
  PROVE  /\ IsField(h) /\ Dimensions(h) = dims
         /\ \A p : Integral(dims, p) =>
              /\ \A k \in P : Inside(k.domain, p) => At(h, p) = At(k, p)
              /\ (\A k \in P : ~Inside(k.domain, p)) => At(h, p) = UNDEF
<1> DEFINE dom == ConcatDomain(P, d)
           origin == Start(First(P, d), d)
           a == ConcatArray(P, d, dom, origin)
           shape == [e \in DOMAIN dom |-> RangeLen(dom[e])]
<1>1. Concat(P, d) = FromArray(a, dom) /\ IsOk(FromArray(a, dom))
  BY ConcatChecks DEF Joined
<1>2. /\ DOMAIN dom = dims
      /\ \A e \in dims : dom[e] \in Ranges /\ IsFinite(dom[e])
      /\ \A p : Integral(dims, p) => (Inside(dom, p) <=> \E k \in P : Inside(k.domain, p))
  BY JoinedDomain
<1>3. a = [shape |-> shape, at |-> [i \in Indices(shape) |-> ConcatValue(P, d, dom, origin, i)]]
  BY DEF ConcatArray
<1>4. a.shape = shape /\ a.at = [i \in Indices(shape) |-> ConcatValue(P, d, dom, origin, i)]
  BY <1>3
<1>5. ASSUME NEW p, Inside(dom, p), NEW i, i = [e \in dims |-> p[e] - dom[e].start]
      PROVE  \E k \in P : /\ Inside(k.domain, p) /\ At(k, p) \in Int
                          /\ ConcatValue(P, d, dom, origin, i) = At(k, p)
  <2>1. Integral(dims, p)
    BY <1>2, <1>5 DEF Inside, Integral
  <2> QED BY <1>5, <2>1, OwnerReads
<1>6. dom = ConcatDomain(P, d)
  OBVIOUS
<1> HIDE DEF dom, origin, a
<1>7. shape \in [dims -> Nat] /\ \A e \in dims : dom[e].start \in Int
  <2> DEFINE p0 == [e \in dims |-> 0]
  <2> HIDE DEF p0
  <2> QED BY <1>2, FullPosition
<1>8. ASSUME NEW i \in Indices(shape) PROVE ConcatValue(P, d, dom, origin, i) \in Int
  <2> DEFINE p == [e \in dims |-> i[e] + dom[e].start]
  <2>1. i \in [dims -> Nat]
    <3> HIDE DEF shape
    <3> QED BY <1>7, <1>8, IndexTuples
  <2>2. \A e \in dims : p[e] \in Int
    BY <1>7, <2>1
  <2>3. i = [e \in dims |-> p[e] - dom[e].start]
    BY <1>7, <2>1
  <2> HIDE DEF p
  <2>4. Inside(dom, p)
    <3> HIDE DEF shape
    <3>1. shape = [e \in DOMAIN dom |-> RangeLen(dom[e])]
      BY DEF shape
    <3> QED BY <1>2, <1>8, <2>2, <2>3, <3>1, FullPosition
  <2> QED BY <1>5, <2>3, <2>4
<1>9. IsArray(a)
  <2> HIDE DEF shape
  <2> QED BY <1>4, <1>7, <1>8 DEF IsArray
<1>10. IsField(h) /\ h.domain = dom /\ h.arr = a
  BY <1>1, <1>2, <1>9, FieldMade
<1>11. ASSUME NEW p, Integral(dims, p), Inside(dom, p)
       PROVE  \E k \in P : Inside(k.domain, p) /\ At(h, p) = At(k, p)
  <2> DEFINE i == [e \in dims |-> p[e] - dom[e].start]
  <2>1. At(h, p) = a.at[Pos(a, dom, p)]
    BY <1>2, <1>10, <1>11, AtReads DEF Dimensions
  <2>2. Pos(a, dom, p) = i /\ i \in Indices(shape)
    <3>1. a.shape = [e \in DOMAIN dom |-> RangeLen(dom[e])]
      BY <1>4
    <3>2. i = [e \in DOMAIN dom |-> p[e] - dom[e].start]
      BY <1>2
    <3>3. Pos(a, dom, p) = i
      BY <1>2, <1>11, <3>1, <3>2, FullReads
    <3>4. i \in Indices(shape)
      BY <1>2, <1>11, <3>2, FullPosition DEF Inside
    <3> QED BY <3>3, <3>4
  <2> HIDE DEF i, shape
  <2>3. At(h, p) = ConcatValue(P, d, dom, origin, i)
    BY <1>4, <2>1, <2>2
  <2> QED BY <1>5, <1>11, <2>3 DEF i
<1>12. ASSUME NEW p, Integral(dims, p)
       PROVE  /\ \A k \in P : Inside(k.domain, p) => At(h, p) = At(k, p)
              /\ (\A k \in P : ~Inside(k.domain, p)) => At(h, p) = UNDEF
  <2>1. ASSUME NEW k \in P, Inside(k.domain, p) PROVE At(h, p) = At(k, p)
    <3>1. PICK l \in P : Inside(l.domain, p) /\ At(h, p) = At(l, p)
      BY <1>2, <1>11, <1>12, <2>1
    <3>2. d \in DOMAIN k.domain /\ d \in DOMAIN l.domain /\ p[d] \in Int
      BY <1>12 DEF Joined, SideBySide, Dimensions, Integral
    <3>3. k = l
      BY <2>1, <3>1, <3>2 DEF Joined, SideBySide, Inside
    <3> QED BY <3>1, <3>3
  <2>2. ASSUME \A k \in P : ~Inside(k.domain, p) PROVE At(h, p) = UNDEF
    <3>1. ~Inside(dom, p)
      BY <1>2, <1>12, <2>2
    <3> QED BY <1>2, <1>10, <1>12, <3>1, AtReads DEF Dimensions
  <2> QED BY <2>1, <2>2
<1> QED BY <1>2, <1>10, <1>12 DEF Dimensions

LEMMA RangeAndLaws ==
  ASSUME NEW r \in Ranges, NEW s \in Ranges
  PROVE  /\ RangeAnd(r, s) = RangeAnd(s, r) /\ RangeAnd(r, s) \in Ranges
         /\ RangeAnd(r, Infinite) = r /\ RangeAnd(Infinite, r) = r
         /\ \A x \in Int : /\ InRange(x, RangeAnd(r, s)) <=> InRange(x, r) /\ InRange(x, s)
                           /\ InRange(x, r) => ~IsEmpty(r)
<1>1. r.start \in Bounds /\ r.stop \in Bounds /\ s.start \in Bounds /\ s.stop \in Bounds
  BY DEF Ranges
<1>2. r = UnitRange(r.start, r.stop)
  BY DEF Ranges
<1>3. \A a, b \in Bounds : /\ Larger(a, b) = Larger(b, a) /\ Smaller(a, b) = Smaller(b, a)
                           /\ Larger(a, b) \in Bounds /\ Smaller(a, b) \in Bounds
  BY InfinityAssumption, SMTT(30) DEF Larger, Smaller, Lt, Infinity, Bounds
<1>4. RangeAnd(r, s) = RangeAnd(s, r)
  BY <1>1, <1>3 DEF RangeAnd
<1>5. RangeAnd(r, s) \in Ranges
  BY <1>1, <1>3, RangesNormal DEF RangeAnd
<1>6. Infinite = [start |-> NEGATIVE, stop |-> POSITIVE]
  BY InfinityAssumption DEF Infinite, UnitRange, Lt, Infinity
<1>7. \A a \in Bounds : Larger(a, NEGATIVE) = a /\ Smaller(a, POSITIVE) = a
  BY InfinityAssumption, SMTT(30) DEF Larger, Smaller, Lt, Infinity, Bounds
<1>8. RangeAnd(r, Infinite) = r
  BY <1>1, <1>2, <1>6, <1>7 DEF RangeAnd
<1>9. RangeAnd(Infinite, r) = r
  <2>1. NEGATIVE \in Bounds /\ POSITIVE \in Bounds
    BY DEF Bounds, Infinity
  <2>2. Larger(NEGATIVE, r.start) = r.start /\ Smaller(POSITIVE, r.stop) = r.stop
    BY <1>1, <1>3, <1>7, <2>1
  <2> QED BY <1>2, <1>6, <2>2 DEF RangeAnd
<1>10. r \in RawRange /\ s \in RawRange
  BY RangesNormal DEF Normal
<1>11. \A x \in Int : InRange(x, RangeAnd(r, s)) <=> InRange(x, r) /\ InRange(x, s)
  BY <1>10, RangeAndExact
<1>12. \A x \in Int : InRange(x, r) => ~IsEmpty(r)
  BY InfinityAssumption DEF InRange, IsEmpty, Le, Lt, Infinity
<1> QED BY <1>4, <1>5, <1>8, <1>9, <1>11, <1>12

(* The domain of t cut to that of k in all of the dimensions but d.        *)
Common(t, k, dims, d) ==
  [e \in dims |-> IF e = d THEN RangeOf(t.domain, e)
                  ELSE RangeAnd(RangeOf(t.domain, e), RangeOf(k.domain, e))]

(* _intersect_fields: the field is cut and keeps its values.               *)
Intersected(t, k, dims, d, b) ==
  /\ IsField(t) /\ IsField(k) /\ dims = Dimensions(t) \cup Dimensions(k)
  /\ IsOk(IntersectField(t, k, dims, d)) /\ b = IntersectField(t, k, dims, d).val
LEMMA IntersectReads ==
  ASSUME NEW t, NEW k, NEW d, NEW dims, NEW b, Intersected(t, k, dims, d, b)
  PROVE  /\ IsField(b) /\ b.domain = Common(t, k, dims, d)
         /\ \A p : Integral(dims, p) =>
              /\ Inside(b.domain, p) <=>
                   /\ Inside(t.domain, p)
                   /\ \A e \in dims \ {d} : InRange(p[e], RangeOf(k.domain, e))
              /\ Inside(b.domain, p) => At(b, p) = At(t, p)
<1>0. /\ IsField(t) /\ IsField(k) /\ dims = Dimensions(t) \cup Dimensions(k)
      /\ IsOk(IntersectField(t, k, dims, d)) /\ b = IntersectField(t, k, dims, d).val
  BY DEF Intersected
<1> USE <1>0
<1> DEFINE h == Broadcast(t, dims)
           A == h.domain
           B == Broadcast(k, dims).domain
           sub == RestrictToIntersection(A, B, {d})
           c == Cut(h.arr, A, sub)
<1>1. /\ IsField(h) /\ Dimensions(h) = dims /\ A = [e \in dims |-> RangeOf(t.domain, e)]
      /\ \A p : Integral(dims, p) => /\ At(h, p) = At(t, p)
                                     /\ Inside(A, p) <=> Inside(t.domain, p)
  BY BroadcastIsExact
<1>2. B = [e \in dims |-> RangeOf(k.domain, e)]
  BY BroadcastIsExact
<1>3. \A e \in dims : RangeOf(t.domain, e) \in Ranges /\ RangeOf(k.domain, e) \in Ranges
  BY FieldFacts, RangesNormal DEF RangeOf, Dimensions
<1> HIDE DEF h, A, B
<1>4. sub = Common(t, k, dims, d)
  <2> DEFINE A1 == Without(A, {d})
             B1 == Without(B, {d})
  <2>1. /\ DOMAIN A1 = dims \ {d} /\ DOMAIN B1 = dims \ {d}
        /\ \A e \in dims \ {d} : A1[e] = RangeOf(t.domain, e) /\ B1[e] = RangeOf(k.domain, e)
    BY <1>1, <1>2 DEF Without
  <2> HIDE DEF A1, B1
  <2>2. \A e \in dims \ {d} : DomainAnd(A1, B1)[e] = RangeAnd(RangeOf(t.domain, e), RangeOf(k.domain, e))
    <3>1. \A e \in dims \ {d} : RangeOf(A1, e) = A1[e] /\ RangeOf(B1, e) = B1[e]
      BY <2>1 DEF RangeOf
    <3>2. \A e \in dims \ {d} : DomainAnd(A1, B1)[e] = RangeAnd(RangeOf(A1, e), RangeOf(B1, e))
      BY <2>1 DEF DomainAnd
    <3> QED BY <2>1, <3>1, <3>2
  <2>3. sub = [e \in DOMAIN A |-> IF e \in {d} THEN A[e] ELSE DomainAnd(A1, B1)[e]]
    BY DEF RestrictToIntersection, A1, B1
  <2>4. \A e \in dims : (IF e \in {d} THEN A[e] ELSE DomainAnd(A1, B1)[e]) = Common(t, k, dims, d)[e]
    BY <1>1, <2>2 DEF Common
  <2> HIDE DEF sub
  <2> QED BY <1>1, <2>3, <2>4 DEF Common
<1> HIDE DEF sub
<1>5. DOMAIN sub = dims /\ \A e \in dims :
        sub[e] = IF e = d THEN RangeOf(t.domain, e)
                 ELSE RangeAnd(RangeOf(t.domain, e), RangeOf(k.domain, e))
  BY <1>4 DEF Common
<1>6. \A e \in dims : sub[e] \in Ranges
  BY <1>3, <1>5, RangeAndLaws
<1>7. IntersectField(t, k, dims, d) = IF IsOk(c) THEN FromArray(c.val, sub) ELSE c
  BY Zenon DEF IntersectField, Then, h, A, B, sub
<1>8. IsOk(c) /\ IsOk(FromArray(c.val, sub)) /\ b = FromArray(c.val, sub).val
  <2> HIDE DEF c
  <2> QED BY <1>7
<1> DEFINE a == c.val
<1>9. /\ IsArray(a) /\ DOMAIN a.shape = dims
      /\ \A p : /\ Inside(sub, p)
                /\ \A e \in dims : RangeWithin(sub[e], A[e]) /\ a.shape[e] # 0
                => /\ Inside(A, p)
                   /\ a.at[Pos(a, sub, p)] = h.arr.at[Pos(h.arr, A, p)]
  <2>1. A = h.domain
    BY DEF A
  <2>2. IsOk(Cut(h.arr, h.domain, sub)) /\ a = Cut(h.arr, h.domain, sub).val
    BY <1>8, <2>1
  <2> HIDE DEF a, c
  <2>3. DOMAIN sub = Dimensions(h) /\ \A e \in DOMAIN sub : sub[e] \in Ranges
    BY <1>1, <1>5, <1>6
  <2>4. /\ IsArray(a) /\ DOMAIN a.shape = DOMAIN sub
        /\ \A p : /\ Inside(sub, p)
                  /\ \A e \in DOMAIN sub : RangeWithin(sub[e], h.domain[e]) /\ a.shape[e] # 0
                  => /\ Inside(h.domain, p) /\ Fits(a, sub)
                     /\ a.at[Pos(a, sub, p)] = h.arr.at[Pos(h.arr, h.domain, p)]
    <3>1. IsField(h)
      BY <1>1
    <3> QED BY <2>2, <2>3, <3>1, CutReads
  <2> QED BY <1>5, <2>1, <2>4
<1> HIDE DEF a, c
<1>10. IsField(b) /\ b.domain = sub /\ b.arr = a /\ Fits(a, sub)
  BY <1>5, <1>6, <1>8, <1>9, FieldMade DEF a
<1>11. ASSUME NEW p, Integral(dims, p)
       PROVE  /\ Inside(sub, p) <=> /\ Inside(t.domain, p)
                                    /\ \A e \in dims \ {d} : InRange(p[e], RangeOf(k.domain, e))
              /\ Inside(sub, p) => At(b, p) = At(t, p)
  <2>1. \A e \in dims : p[e] \in Int /\ A[e] = RangeOf(t.domain, e)
    BY <1>1, <1>11 DEF Integral
  <2>2. \A e \in dims \ {d} : InRange(p[e], sub[e]) <=>
          InRange(p[e], A[e]) /\ InRange(p[e], RangeOf(k.domain, e))
    BY <1>3, <1>5, <2>1, RangeAndLaws
  <2>3. d \in dims => sub[d] = A[d]
    BY <1>5, <2>1
  <2>4. Inside(sub, p) <=> /\ Inside(A, p)
                           /\ \A e \in dims \ {d} : InRange(p[e], RangeOf(k.domain, e))
    <3>1. DOMAIN A = dims
      BY <1>1
    <3> QED BY <1>5, <2>1, <2>2, <2>3, <3>1 DEF Inside
  <2>5. ASSUME Inside(sub, p) PROVE At(b, p) = At(t, p)
    <3>1. ASSUME NEW e \in dims PROVE RangeWithin(sub[e], A[e])
      <4>1. CASE e = d
        <5>1. sub[e] = A[e] /\ A[e].start \in Bounds /\ A[e].stop \in Bounds
          BY <1>3, <2>1, <2>3, <4>1 DEF Ranges
        <5> QED BY <5>1, Order DEF RangeWithin
      <4>2. CASE e # d
        <5>1. sub[e] = RangeAnd(A[e], RangeOf(k.domain, e)) /\ InRange(p[e], sub[e])
          BY <1>5, <2>1, <2>5, <4>2 DEF Inside
        <5> QED BY <1>3, <2>1, <5>1, AndWithin
      <4> QED BY <4>1, <4>2
    <3>2. ASSUME NEW e \in dims PROVE a.shape[e] # 0
      <4> SUFFICES ASSUME a.shape[e] = 0 PROVE FALSE
        OBVIOUS
      <4>1. IsFinite(sub[e]) /\ RangeLen(sub[e]) = 0 /\ InRange(p[e], sub[e]) /\ sub[e] \in Ranges
        BY <1>5, <1>6, <1>10, <2>5 DEF Fits, Inside
      <4>2. sub[e].start <= p[e] /\ p[e] < sub[e].stop /\ sub[e].start \in Int /\ sub[e].stop \in Int
        BY <2>1, <4>1, FiniteMembers, FiniteRange
      <4> QED BY <2>1, <4>1, <4>2 DEF RangeLen
    <3>3. Inside(A, p) /\ a.at[Pos(a, sub, p)] = h.arr.at[Pos(h.arr, A, p)]
      BY <1>9, <2>5, <3>1, <3>2
    <3>4. At(b, p) = a.at[Pos(a, sub, p)]
      BY <1>5, <1>10, <1>11, <2>5, AtReads DEF Dimensions
    <3>5. At(h, p) = h.arr.at[Pos(h.arr, A, p)]
      BY <1>1, <1>11, <3>3, AtReads DEF A
    <3> QED BY <1>1, <1>11, <3>3, <3>4, <3>5
  <2> QED BY <1>1, <1>11, <2>4, <2>5
<1> QED BY <1>4, <1>10, <1>11

(* A piece of a field along d.                                             *)
PieceOf(g, d, r, q) ==
  /\ IsField(q) /\ Dimensions(q) = Dimensions(g)
  /\ \A e \in Dimensions(g) : /\ q.domain[e] = IF e = d THEN RangeAnd(g.domain[e], r) ELSE g.domain[e]
                              /\ ~IsEmpty(q.domain[e])
  /\ \A p : Integral(Dimensions(g), p) =>
       /\ Inside(q.domain, p) <=> /\ Inside(g.domain, p)
                                  /\ d \in Dimensions(g) => InRange(p[d], r)
       /\ Inside(q.domain, p) => At(q, p) = At(g, p)

CutDomain(g, d, r) == DomainAnd(g.domain, [e \in {d} |-> r])
CutPiece(g, d, r) == RestrictAbsolute(g, [within |-> CutDomain(g, d, r), at |-> NoIndex])

LEMMA CutDomainRanges ==
  ASSUME NEW g, IsField(g), NEW d, NEW r \in Ranges
  PROVE  /\ DOMAIN CutDomain(g, d, r) = Dimensions(g) \cup {d}
         /\ \A e \in Dimensions(g) \cup {d} :
              CutDomain(g, d, r)[e] = IF e = d THEN RangeAnd(RangeOf(g.domain, e), r) ELSE g.domain[e]
         /\ \A e \in Dimensions(g) \cup {d} : CutDomain(g, d, r)[e] \in Ranges
<1> DEFINE B == [e \in {d} |-> r]
<1>1. DOMAIN B = {d} /\ B[d] = r /\ \A e \in DOMAIN B : B[e] \in Ranges
  OBVIOUS
<1>2. \A e \in DOMAIN g.domain : g.domain[e] \in Ranges
  BY FieldFacts DEF Dimensions
<1>3. CutDomain(g, d, r) = DomainAnd(g.domain, B)
  BY DEF CutDomain
<1> HIDE DEF B
<1>4. /\ DOMAIN DomainAnd(g.domain, B) = DOMAIN g.domain \cup {d}
      /\ \A e \in DOMAIN g.domain \cup {d} :
           /\ RangeOf(g.domain, e) \in Ranges
           /\ DomainAnd(g.domain, B)[e] = RangeAnd(RangeOf(g.domain, e), RangeOf(B, e))
           /\ DomainAnd(g.domain, B)[e] \in Ranges
  BY <1>1, <1>2, DomainAndRanges
<1>5. ASSUME NEW e \in DOMAIN g.domain \cup {d}
      PROVE  RangeAnd(RangeOf(g.domain, e), RangeOf(B, e)) =
               IF e = d THEN RangeAnd(RangeOf(g.domain, e), r) ELSE g.domain[e]
  <2>1. CASE e = d
    BY <1>1, <2>1 DEF RangeOf
  <2>2. CASE e # d
    <3>1. RangeOf(B, e) = Infinite /\ RangeOf(g.domain, e) = g.domain[e] /\ g.domain[e] \in Ranges
      BY <1>1, <1>2, <2>2 DEF RangeOf
    <3> QED BY <2>2, <3>1, RangeAndLaws
  <2> QED BY <2>1, <2>2
<1> QED BY <1>3, <1>4, <1>5 DEF Dimensions

LEMMA CutIsPiece ==
  ASSUME NEW g, IsField(g), NEW d, NEW r \in Ranges,
         ~DomainIsEmpty(CutDomain(g, d, r)), IsOk(CutPiece(g, d, r))
  PROVE  PieceOf(g, d, r, CutPiece(g, d, r).val)
<1> DEFINE dom == CutDomain(g, d, r)
           ix == [within |-> dom, at |-> NoIndex]
           q == CutPiece(g, d, r).val
           D == Dimensions(g)
<1>1. /\ DOMAIN dom = D \cup {d}
      /\ \A e \in D \cup {d} : dom[e] = IF e = d THEN RangeAnd(RangeOf(g.domain, e), r) ELSE g.domain[e]
      /\ \A e \in D \cup {d} : dom[e] \in Ranges
  BY CutDomainRanges
<1>2. \A e \in D : g.domain[e] \in Ranges /\ RangeOf(g.domain, e) = g.domain[e]
  BY FieldFacts DEF RangeOf, Dimensions
<1>3. \A e \in D \cup {d} : ~IsEmpty(dom[e])
  BY <1>1 DEF DomainIsEmpty
<1>4. q = RestrictAbsolute(g, ix).val /\ IsOk(RestrictAbsolute(g, ix))
  BY DEF CutPiece
<1> HIDE DEF dom, q
<1>5. ix.within = dom /\ ix.at = NoIndex /\ DOMAIN NoIndex = {}
  BY DEF NoIndex
<1> HIDE DEF ix
<1>6. IsIndex(ix)
  BY <1>1, <1>5 DEF IsIndex
<1>7. /\ IsField(q) /\ Dimensions(q) = Dimensions(g) \ DOMAIN ix.at
      /\ \A e \in Dimensions(q) :
              q.domain[e] = IF e \in DOMAIN ix.within THEN ix.within[e] ELSE g.domain[e]
      /\ \A p : Integral(Dimensions(q), p) =>
              At(q, p) =
                IF \E e \in DOMAIN ix.within \cap Dimensions(q) : ~InRange(p[e], ix.within[e])
                THEN UNDEF
                ELSE At(g, [e \in Dimensions(g) |-> IF e \in DOMAIN ix.at THEN ix.at[e] ELSE p[e]])
  BY <1>4, <1>6, RestrictIsExact
<1>8. Dimensions(q) = D /\ \A e \in D : q.domain[e] = dom[e]
  BY <1>1, <1>5, <1>7
<1>9. ASSUME NEW p, Integral(D, p)
      PROVE  /\ Inside(q.domain, p) <=> /\ Inside(g.domain, p)
                                        /\ d \in D => InRange(p[d], r)
             /\ Inside(q.domain, p) => At(q, p) = At(g, p)
  <2>1. \A e \in D : p[e] \in Int
    BY <1>9 DEF Integral
  <2>2. d \in D => (InRange(p[d], dom[d]) <=> InRange(p[d], g.domain[d]) /\ InRange(p[d], r))
    BY <1>1, <1>2, <2>1, RangeAndLaws
  <2>3. Inside(q.domain, p) <=> /\ Inside(g.domain, p)
                                /\ d \in D => InRange(p[d], r)
    BY <1>1, <1>8, <2>1, <2>2 DEF Inside, Dimensions
  <2>4. ASSUME Inside(q.domain, p) PROVE At(q, p) = At(g, p)
    <3> DEFINE p1 == [e \in D |-> IF e \in DOMAIN ix.at THEN ix.at[e] ELSE p[e]]
    <3>1. \A e \in D : InRange(p[e], dom[e])
      BY <1>8, <2>4 DEF Inside, Dimensions
    <3>2. At(q, p) = At(g, p1)
      BY <1>5, <1>7, <1>8, <1>9, <3>1
    <3>3. \A e \in D : p1[e] = p[e]
      BY <1>5
    <3> HIDE DEF p1
    <3> QED BY <3>2, <3>3, AtLocal
  <2> QED BY <2>3, <2>4
<1>10. \A e \in D : /\ q.domain[e] = IF e = d THEN RangeAnd(g.domain[e], r) ELSE g.domain[e]
                    /\ ~IsEmpty(q.domain[e])
  BY <1>1, <1>2, <1>3, <1>8
<1>11. PieceOf(g, d, r, q)
  BY <1>7, <1>8, <1>9, <1>10 DEF PieceOf
<1> QED BY <1>11 DEF q

CutSet(g, d, r) == IF DomainIsEmpty(CutDomain(g, d, r)) THEN {} ELSE {CutPiece(g, d, r)}
Slices(b, c, d, r0) == CutSet(b, d, r0) \cup UNION {CutSet(c, d, r) : r \in InvertRange(r0)}
JoinSlices(slices, d, dims) ==
  IF \E s \in slices : ~IsOk(s) THEN CHOOSE s \in slices : ~IsOk(s)
  ELSE IF slices = {} THEN Ok(EmptyField(dims))
  ELSE Concat({s.val : s \in slices}, d)

LEMMA ConcatWhereSteps ==
  ASSUME NEW cnd, NEW t, NEW k, NEW d, d = OnlyDim(cnd),
         NEW dims, dims = Dimensions(t) \cup Dimensions(k)
  PROVE  ConcatWhere(cnd, t, k) =
           IF Cardinality(DOMAIN cnd) # 1 THEN Raise("NotImplementedError")
           ELSE IF ~CanPromote(dims) THEN Raise("ValueError")
           ELSE IF IsOk(IntersectField(t, k, dims, d))
                THEN IF IsOk(IntersectField(k, t, dims, d))
                     THEN IF ~CanPromote(dims \cup {d}) THEN Raise("ValueError")
                          ELSE JoinSlices(Slices(IntersectField(t, k, dims, d).val,
                                            IntersectField(k, t, dims, d).val, d, cnd[d]), d, dims)
                     ELSE IntersectField(k, t, dims, d)
                ELSE IntersectField(t, k, dims, d)
<1> DEFINE d0 == OnlyDim(cnd)
           D0 == Dimensions(t) \cup Dimensions(k)
<1>1. ConcatWhere(cnd, t, k) =
           IF Cardinality(DOMAIN cnd) # 1 THEN Raise("NotImplementedError")
           ELSE IF ~CanPromote(D0) THEN Raise("ValueError")
           ELSE IF IsOk(IntersectField(t, k, D0, d0))
                THEN IF IsOk(IntersectField(k, t, D0, d0))
                     THEN IF ~CanPromote(D0 \cup {d0}) THEN Raise("ValueError")
                          ELSE JoinSlices(Slices(IntersectField(t, k, D0, d0).val,
                                            IntersectField(k, t, D0, d0).val, d0, cnd[d0]), d0, D0)
                     ELSE IntersectField(k, t, D0, d0)
                ELSE IntersectField(t, k, D0, d0)
  BY Zenon DEF ConcatWhere, Then, CutSet, Slices, JoinSlices, CutDomain, CutPiece
<1>2. d0 = d /\ D0 = dims
  OBVIOUS
<1> HIDE DEF d0, D0
<1> QED BY <1>1, <1>2

LEMMA EmptyFieldReads ==
  ASSUME NEW dims, NEW h, h = EmptyField(dims)
  PROVE  /\ IsField(h) /\ Dimensions(h) = dims
         /\ \A p : dims # {} /\ Integral(dims, p) => At(h, p) = UNDEF
<1> DEFINE dom == [d \in dims |-> UnitRange(0, 0)]
           shape == [d \in dims |-> 0]
           a == [shape |-> shape, at |-> [i \in Indices(shape) |-> 0]]
<1>1. h = [domain |-> dom, arr |-> a]
  BY Zenon DEF EmptyField, Array
<1>2. h.domain = dom /\ h.arr = a
  BY <1>1
<1>3. UnitRange(0, 0) = [start |-> 0, stop |-> 0]
  BY DEF UnitRange
<1>4. \A d \in dims : /\ dom[d] \in Ranges /\ IsFinite(dom[d]) /\ RangeLen(dom[d]) = 0
                      /\ \A x \in Int : ~InRange(x, dom[d])
  <2>1. UnitRange(0, 0) \in Ranges
    BY RangesNormal DEF Bounds
  <2>2. IsFinite(UnitRange(0, 0)) /\ RangeLen(UnitRange(0, 0)) = 0
    BY <1>3, InfinityAssumption DEF IsFinite, LeftFinite, RightFinite, RangeLen
  <2>3. \A x \in Int : ~InRange(x, UnitRange(0, 0))
    BY <2>1, <2>2, <1>3, FiniteMembers
  <2> QED BY <2>1, <2>2, <2>3
<1>5. a.shape = shape /\ a.at = [i \in Indices(shape) |-> 0]
  OBVIOUS
<1>6. shape \in [dims -> Nat]
  OBVIOUS
<1> HIDE DEF a, shape
<1>7. IsArray(a)
  BY <1>5, <1>6 DEF IsArray
<1>8. DOMAIN a.shape = dims /\ \A d \in dims : a.shape[d] = 0
  BY <1>5 DEF shape
<1> HIDE DEF dom
<1>9. DOMAIN dom = dims
  BY DEF dom
<1>10. FromArray(a, dom) = Ok([domain |-> dom, arr |-> a])
  BY <1>4, <1>8, <1>9 DEF FromArray
<1>11. IsField(h) /\ Dimensions(h) = dims
  BY <1>2, <1>4, <1>7, <1>9, <1>10, Results DEF IsField, Dimensions
<1>12. ASSUME NEW p, dims # {}, Integral(dims, p) PROVE At(h, p) = UNDEF
  <2>1. ~Inside(h.domain, p)
    BY <1>2, <1>4, <1>9, <1>12 DEF Inside, Integral
  <2> QED BY <1>11, <1>12, <2>1, AtReads
<1> QED BY <1>11, <1>12

(* The slices of the two fields, one for the condition and one for each    *)
(* range of its complement.                                                *)
Sliced(b, c, d, r0, dims) ==
  /\ IsField(b) /\ IsField(c) /\ Dimensions(b) = dims /\ Dimensions(c) = dims
  /\ r0 \in Ranges
  /\ \A e \in dims \ {d} : b.domain[e] = c.domain[e]
  /\ IsOk(JoinSlices(Slices(b, c, d, r0), d, dims))

LEMMA InverseRanges ==
  ASSUME NEW r0 \in Ranges
  PROVE  /\ InvertRange(r0) \subseteq Ranges
         /\ InvertRange(r0) \subseteq {Infinite, UnitRange(NEGATIVE, r0.start), UnitRange(r0.stop, POSITIVE)}
         /\ \E r \in {r0} \cup InvertRange(r0) : ~IsEmpty(r)
         /\ \A x \in Int : InRange(x, r0) <=> ~\E s \in InvertRange(r0) : InRange(x, s)
         /\ \A x \in Int : \A s, t \in InvertRange(r0) : InRange(x, s) /\ InRange(x, t) => s = t
<1>1. InvertRange(r0) \subseteq {Infinite, UnitRange(NEGATIVE, r0.start), UnitRange(r0.stop, POSITIVE)}
  BY DEF InvertRange
<1>2. r0.start \in Bounds /\ r0.stop \in Bounds /\ NEGATIVE \in Bounds /\ POSITIVE \in Bounds
  BY DEF Ranges, Bounds, Infinity
<1>3. /\ Infinite \in Ranges /\ UnitRange(NEGATIVE, r0.start) \in Ranges
      /\ UnitRange(r0.stop, POSITIVE) \in Ranges
  BY <1>2, RangesNormal
<1>4. \E r \in {r0} \cup InvertRange(r0) : ~IsEmpty(r)
  <2>1. CASE ~IsEmpty(r0)
    BY <2>1
  <2>2. CASE IsEmpty(r0)
    <3>1. Infinite \in InvertRange(r0)
      BY <2>2 DEF InvertRange
    <3>2. ~IsEmpty(Infinite)
      BY InfinityAssumption DEF IsEmpty, Infinite, UnitRange, Lt, Infinity
    <3> QED BY <3>1, <3>2
  <2> QED BY <2>1, <2>2
<1>5. Normal(r0)
  BY RangesNormal
<1> QED BY <1>1, <1>3, <1>4, <1>5, InverseIsComplement

(* Where a slice comes from.                                               *)
FromSlice(b, c, d, r0, q) ==
  \/ ~DomainIsEmpty(CutDomain(b, d, r0)) /\ q = CutPiece(b, d, r0).val /\ PieceOf(b, d, r0, q)
  \/ \E r \in InvertRange(r0) : /\ ~DomainIsEmpty(CutDomain(c, d, r)) /\ q = CutPiece(c, d, r).val
                                /\ PieceOf(c, d, r, q)

LEMMA SlicesArePieces ==
  ASSUME NEW b, NEW c, NEW d, NEW r0, NEW dims, Sliced(b, c, d, r0, dims),
         NEW P, P = {s.val : s \in Slices(b, c, d, r0)}
  PROVE  /\ \A q \in P : FromSlice(b, c, d, r0, q)
         /\ ~DomainIsEmpty(CutDomain(b, d, r0)) =>
              CutPiece(b, d, r0).val \in P /\ PieceOf(b, d, r0, CutPiece(b, d, r0).val)
         /\ \A r \in InvertRange(r0) : ~DomainIsEmpty(CutDomain(c, d, r)) =>
              CutPiece(c, d, r).val \in P /\ PieceOf(c, d, r, CutPiece(c, d, r).val)
         /\ IsFiniteSet(P)
         /\ JoinSlices(Slices(b, c, d, r0), d, dims) =
              IF Slices(b, c, d, r0) = {} THEN Ok(EmptyField(dims)) ELSE Concat(P, d)
         /\ Slices(b, c, d, r0) = {} <=> P = {}
<1> DEFINE S == Slices(b, c, d, r0)
           bad == CHOOSE s \in S : ~IsOk(s)
<1>0. IsField(b) /\ IsField(c) /\ r0 \in Ranges /\ InvertRange(r0) \subseteq Ranges
  BY InverseRanges DEF Sliced
<1>1. JoinSlices(S, d, dims) = IF \E s \in S : ~IsOk(s) THEN bad
                               ELSE IF S = {} THEN Ok(EmptyField(dims)) ELSE Concat(P, d)
  BY Zenon DEF JoinSlices
<1>2. (\E s \in S : ~IsOk(s)) => ~IsOk(bad)
  BY Zenon
<1>3. IsOk(JoinSlices(S, d, dims))
  BY DEF Sliced
<1> HIDE DEF S, bad
<1>4. /\ \A s \in S : IsOk(s)
      /\ JoinSlices(S, d, dims) = IF S = {} THEN Ok(EmptyField(dims)) ELSE Concat(P, d)
  BY <1>1, <1>2, <1>3
<1>5. \A s \in S : \/ ~DomainIsEmpty(CutDomain(b, d, r0)) /\ s = CutPiece(b, d, r0)
                   \/ \E r \in InvertRange(r0) : ~DomainIsEmpty(CutDomain(c, d, r)) /\ s = CutPiece(c, d, r)
  BY DEF S, Slices, CutSet
<1>6. ~DomainIsEmpty(CutDomain(b, d, r0)) => CutPiece(b, d, r0) \in S
  BY DEF S, Slices, CutSet
<1>7. ASSUME NEW r \in InvertRange(r0), ~DomainIsEmpty(CutDomain(c, d, r)) PROVE CutPiece(c, d, r) \in S
  <2>1. CutPiece(c, d, r) \in CutSet(c, d, r)
    BY <1>7 DEF CutSet
  <2> QED BY <2>1 DEF S, Slices
<1>8. P = {s.val : s \in S}
  BY DEF S
<1>9. ~DomainIsEmpty(CutDomain(b, d, r0)) =>
        CutPiece(b, d, r0).val \in P /\ PieceOf(b, d, r0, CutPiece(b, d, r0).val)
  BY <1>0, <1>4, <1>6, <1>8, CutIsPiece
<1>10. \A r \in InvertRange(r0) : ~DomainIsEmpty(CutDomain(c, d, r)) =>
         CutPiece(c, d, r).val \in P /\ PieceOf(c, d, r, CutPiece(c, d, r).val)
  BY <1>0, <1>4, <1>7, <1>8, CutIsPiece
<1>11. ASSUME NEW q \in P PROVE FromSlice(b, c, d, r0, q)
  <2>1. PICK s \in S : q = s.val
    BY <1>8
  <2> QED BY <1>5, <1>9, <1>10, <2>1 DEF FromSlice
<1>12. IsFiniteSet(P)
  <2> DEFINE r1 == Infinite
             r2 == UnitRange(NEGATIVE, r0.start)
             r3 == UnitRange(r0.stop, POSITIVE)
             v(r) == CutPiece(c, d, r).val
             A1 == {CutPiece(b, d, r0).val, v(r1)}
             A2 == {v(r2), v(r3)}
  <2>1. InvertRange(r0) \subseteq {r1, r2, r3}
    BY <1>0, InverseRanges
  <2>2. P \subseteq A1 \cup A2
    <3>1. ASSUME NEW q \in P PROVE q \in A1 \cup A2
      <4>1. CASE q = CutPiece(b, d, r0).val
        BY <4>1
      <4>2. CASE \E r \in InvertRange(r0) : q = v(r)
        <5> HIDE DEF r1, r2, r3, v
        <5> QED BY <2>1, <4>2
      <4> QED BY <1>11, <4>1, <4>2 DEF FromSlice
    <3> QED BY <3>1
  <2> HIDE DEF r1, r2, r3, v
  <2>3. IsFiniteSet(A1) /\ IsFiniteSet(A2)
    <3>1. \A x, y : IsFiniteSet({x, y})
      <4> TAKE x, y
      <4>1. IsFiniteSet({x}) /\ IsFiniteSet({y})
        BY FS_Singleton
      <4>2. IsFiniteSet({x} \cup {y})
        BY <4>1, FS_Union
      <4>3. {x} \cup {y} = {x, y}
        OBVIOUS
      <4> QED BY <4>2, <4>3
    <3> QED BY <3>1
  <2> HIDE DEF A1, A2
  <2>4. IsFiniteSet(A1 \cup A2)
    BY <2>3, FS_Union
  <2> QED BY <2>2, <2>4, FS_Subset
<1>13. S = {} <=> P = {}
  BY <1>8
<1> QED BY <1>4, <1>9, <1>10, <1>11, <1>12, <1>13 DEF S

(* The pieces of the two fields do not overlap.                            *)
LEMMA SlicesSideBySide ==
  ASSUME NEW b, NEW c, NEW d, NEW r0, NEW dims, Sliced(b, c, d, r0, dims),
         NEW P, P = {s.val : s \in Slices(b, c, d, r0)}, P # {}, d \in dims
  PROVE  SideBySide(P, d, dims, b.domain)
<1>1. /\ IsField(b) /\ IsField(c) /\ Dimensions(b) = dims /\ Dimensions(c) = dims
      /\ r0 \in Ranges
      /\ \A e \in dims \ {d} : b.domain[e] = c.domain[e]
  BY DEF Sliced
<1>2. (\A q \in P : FromSlice(b, c, d, r0, q)) /\ IsFiniteSet(P)
  BY SlicesArePieces
<1>3. ASSUME NEW q \in P
      PROVE  /\ IsField(q) /\ Dimensions(q) = dims /\ ~IsEmpty(q.domain[d])
             /\ \A e \in dims \ {d} : q.domain[e] = b.domain[e]
  BY <1>1, <1>2 DEF FromSlice, PieceOf
<1>4. /\ InvertRange(r0) \subseteq Ranges
      /\ \A x \in Int : InRange(x, r0) <=> ~\E s \in InvertRange(r0) : InRange(x, s)
      /\ \A x \in Int : \A s, t \in InvertRange(r0) : InRange(x, s) /\ InRange(x, t) => s = t
  BY <1>1, InverseRanges
<1>5. b.domain[d] \in Ranges /\ c.domain[d] \in Ranges
  BY <1>1, FieldFacts
<1>6. ASSUME NEW q \in P, NEW x \in Int, InRange(x, q.domain[d])
      PROVE  \/ q = CutPiece(b, d, r0).val /\ InRange(x, r0)
             \/ \E r \in InvertRange(r0) : q = CutPiece(c, d, r).val /\ InRange(x, r)
  <2>1. CASE q = CutPiece(b, d, r0).val /\ PieceOf(b, d, r0, q)
    <3>1. q.domain[d] = RangeAnd(b.domain[d], r0)
      BY <1>1, <2>1 DEF PieceOf
    <3> QED BY <1>1, <1>5, <1>6, <2>1, <3>1, RangeAndLaws
  <2>2. ASSUME NEW r \in InvertRange(r0), q = CutPiece(c, d, r).val, PieceOf(c, d, r, q)
        PROVE  InRange(x, r)
    <3>1. q.domain[d] = RangeAnd(c.domain[d], r) /\ r \in Ranges
      BY <1>1, <1>4, <2>2 DEF PieceOf
    <3> QED BY <1>5, <1>6, <3>1, RangeAndLaws
  <2> QED BY <1>2, <2>1, <2>2 DEF FromSlice
<1>7. ASSUME NEW q \in P, NEW l \in P, NEW x \in Int, InRange(x, q.domain[d]), InRange(x, l.domain[d])
      PROVE  q = l
  BY <1>4, <1>6, <1>7
<1> QED BY <1>2, <1>3, <1>7 DEF SideBySide

LEMMA SlicesRead ==
  ASSUME NEW b, NEW c, NEW d, NEW r0, NEW dims, Sliced(b, c, d, r0, dims),
         NEW h, h = JoinSlices(Slices(b, c, d, r0), d, dims).val
  PROVE  /\ IsField(h) /\ Dimensions(h) = dims
         /\ d \in dims => \A p : Integral(dims, p) =>
              At(h, p) = IF InRange(p[d], r0)
                         THEN IF Inside(b.domain, p) THEN At(b, p) ELSE UNDEF
                         ELSE IF Inside(c.domain, p) THEN At(c, p) ELSE UNDEF
         /\ d \notin dims => \A p : Integral(dims, p) =>
              At(h, p) = UNDEF /\ \E e \in dims : ~InRange(p[e], b.domain[e])
<1> DEFINE S == Slices(b, c, d, r0)
           P == {s.val : s \in S}
<1>1. /\ IsField(b) /\ IsField(c) /\ Dimensions(b) = dims /\ Dimensions(c) = dims
      /\ r0 \in Ranges
      /\ \A e \in dims \ {d} : b.domain[e] = c.domain[e]
      /\ IsOk(JoinSlices(S, d, dims))
  BY DEF Sliced
<1>2. /\ \A q \in P : FromSlice(b, c, d, r0, q)
      /\ ~DomainIsEmpty(CutDomain(b, d, r0)) =>
              CutPiece(b, d, r0).val \in P /\ PieceOf(b, d, r0, CutPiece(b, d, r0).val)
      /\ \A r \in InvertRange(r0) : ~DomainIsEmpty(CutDomain(c, d, r)) =>
              CutPiece(c, d, r).val \in P /\ PieceOf(c, d, r, CutPiece(c, d, r).val)
      /\ JoinSlices(S, d, dims) = IF S = {} THEN Ok(EmptyField(dims)) ELSE Concat(P, d)
      /\ S = {} <=> P = {}
  BY SlicesArePieces
<1>3. /\ InvertRange(r0) \subseteq Ranges
      /\ \E r \in {r0} \cup InvertRange(r0) : ~IsEmpty(r)
      /\ \A x \in Int : InRange(x, r0) <=> ~\E s \in InvertRange(r0) : InRange(x, s)
  BY <1>1, InverseRanges
<1>4. d \in dims /\ P # {} => SideBySide(P, d, dims, b.domain)
  BY SlicesSideBySide
<1> HIDE DEF S, P
<1>5. CASE d \in dims
  <2>1. /\ IsField(h) /\ Dimensions(h) = dims
        /\ \A p : Integral(dims, p) =>
              /\ \A q \in P : Inside(q.domain, p) => At(h, p) = At(q, p)
              /\ (\A q \in P : ~Inside(q.domain, p)) => At(h, p) = UNDEF
    <3>1. CASE S = {}
      <4>1. h = EmptyField(dims) /\ P = {}
        BY <1>2, <3>1, Results DEF S
      <4> QED BY <1>5, <4>1, EmptyFieldReads
    <3>2. CASE S # {}
      <4>1. h = Concat(P, d).val /\ IsOk(Concat(P, d)) /\ P # {}
        BY <1>1, <1>2, <3>2 DEF S
      <4>2. Joined(P, d, dims, b.domain)
        BY <1>4, <1>5, <4>1 DEF Joined
      <4> QED BY <4>1, <4>2, ConcatIsExact
    <3> QED BY <3>1, <3>2
  <2>2. ASSUME NEW g, IsField(g), Dimensions(g) = dims, NEW r \in Ranges,
               NEW p, Integral(dims, p), Inside(g.domain, p), InRange(p[d], r)
        PROVE  ~DomainIsEmpty(CutDomain(g, d, r))
    <3>1. /\ DOMAIN CutDomain(g, d, r) = dims
          /\ \A e \in dims : CutDomain(g, d, r)[e] = IF e = d THEN RangeAnd(RangeOf(g.domain, e), r)
                                                     ELSE g.domain[e]
          /\ \A e \in dims : CutDomain(g, d, r)[e] \in Ranges
      <4>1. IsField(g) /\ r \in Ranges
        BY <2>2
      <4>2. /\ DOMAIN CutDomain(g, d, r) = Dimensions(g) \cup {d}
            /\ \A e \in Dimensions(g) \cup {d} :
                 CutDomain(g, d, r)[e] = IF e = d THEN RangeAnd(RangeOf(g.domain, e), r)
                                         ELSE g.domain[e]
            /\ \A e \in Dimensions(g) \cup {d} : CutDomain(g, d, r)[e] \in Ranges
        BY <4>1, CutDomainRanges
      <4>3. Dimensions(g) \cup {d} = dims
        BY <1>5, <2>2
      <4> QED BY <4>2, <4>3
    <3>2. \A e \in dims : g.domain[e] \in Ranges /\ RangeOf(g.domain, e) = g.domain[e]
      BY <2>2, FieldFacts DEF RangeOf, Dimensions
    <3>3. \A e \in dims : p[e] \in Int /\ InRange(p[e], g.domain[e])
      BY <2>2 DEF Inside, Dimensions
    <3>4. \A e \in dims : InRange(p[e], CutDomain(g, d, r)[e])
      BY <2>2, <3>1, <3>2, <3>3, RangeAndLaws
    <3> QED BY <3>1, <3>3, <3>4, RangeAndLaws DEF DomainIsEmpty
  <2>3. ASSUME NEW p, Integral(dims, p), InRange(p[d], r0)
        PROVE  At(h, p) = IF Inside(b.domain, p) THEN At(b, p) ELSE UNDEF
    <3>1. p[d] \in Int
      BY <1>5, <2>3 DEF Integral
    <3>2. CASE Inside(b.domain, p)
      <4> DEFINE q == CutPiece(b, d, r0).val
      <4>1. q \in P /\ PieceOf(b, d, r0, q)
        BY <1>1, <1>2, <2>2, <2>3, <3>2
      <4>2. Inside(q.domain, p) /\ At(q, p) = At(b, p)
        BY <1>1, <2>3, <3>2, <4>1 DEF PieceOf
      <4> HIDE DEF q
      <4> QED BY <2>1, <2>3, <3>2, <4>1, <4>2
    <3>3. CASE ~Inside(b.domain, p)
      <4>1. ASSUME NEW q \in P, Inside(q.domain, p) PROVE FALSE
        <5>1. CASE PieceOf(b, d, r0, q)
          BY <1>1, <2>3, <3>3, <4>1, <5>1 DEF PieceOf
        <5>2. ASSUME NEW r \in InvertRange(r0), PieceOf(c, d, r, q) PROVE FALSE
          <6>1. InRange(p[d], r)
            BY <1>1, <1>5, <2>3, <4>1, <5>2 DEF PieceOf
          <6> QED BY <1>3, <2>3, <3>1, <6>1
        <5> QED BY <1>2, <5>1, <5>2 DEF FromSlice
      <4> QED BY <2>1, <2>3, <3>3, <4>1
    <3> QED BY <3>2, <3>3
  <2>4. ASSUME NEW p, Integral(dims, p), ~InRange(p[d], r0)
        PROVE  At(h, p) = IF Inside(c.domain, p) THEN At(c, p) ELSE UNDEF
    <3>1. p[d] \in Int
      BY <1>5, <2>4 DEF Integral
    <3>2. CASE Inside(c.domain, p)
      <4>1. PICK r \in InvertRange(r0) : InRange(p[d], r)
        BY <1>3, <2>4, <3>1
      <4> DEFINE q == CutPiece(c, d, r).val
      <4>2. q \in P /\ PieceOf(c, d, r, q)
        BY <1>1, <1>2, <1>3, <2>2, <2>4, <3>2, <4>1
      <4>3. Inside(q.domain, p) /\ At(q, p) = At(c, p)
        BY <1>1, <2>4, <3>2, <4>1, <4>2 DEF PieceOf
      <4> HIDE DEF q
      <4> QED BY <2>1, <2>4, <3>2, <4>2, <4>3
    <3>3. CASE ~Inside(c.domain, p)
      <4>1. ASSUME NEW q \in P, Inside(q.domain, p) PROVE FALSE
        <5>1. CASE PieceOf(b, d, r0, q)
          BY <1>1, <1>5, <2>4, <4>1, <5>1 DEF PieceOf
        <5>2. ASSUME NEW r \in InvertRange(r0), PieceOf(c, d, r, q) PROVE FALSE
          BY <1>1, <2>4, <3>3, <4>1, <5>2 DEF PieceOf
        <5> QED BY <1>2, <5>1, <5>2 DEF FromSlice
      <4> QED BY <2>1, <2>4, <3>3, <4>1
    <3> QED BY <3>2, <3>3
  <2> QED BY <1>5, <2>1, <2>3, <2>4
<1>6. CASE d \notin dims
  <2>1. S = {}
    <3> SUFFICES ASSUME S # {} PROVE FALSE
      OBVIOUS
    <3>1. IsOk(Concat(P, d)) /\ P # {}
      BY <1>1, <1>2
    <3>2. PICK q \in P : TRUE
      BY <3>1
    <3>3. d \in Dimensions(q)
      BY <3>1, ConcatChecks
    <3>4. Dimensions(q) = dims
      BY <1>1, <1>2 DEF FromSlice, PieceOf
    <3> QED BY <1>6, <3>3, <3>4
  <2>2. h = EmptyField(dims) /\ P = {}
    BY <1>2, <2>1, Results DEF S
  <2>3. ASSUME NEW g, IsField(g), Dimensions(g) = dims, NEW r \in Ranges, ~IsEmpty(r),
               DomainIsEmpty(CutDomain(g, d, r))
        PROVE  \E e \in dims : IsEmpty(g.domain[e]) /\ g.domain[e] \in Ranges
    <3>1. /\ DOMAIN CutDomain(g, d, r) = dims \cup {d}
          /\ \A e \in dims \cup {d} : CutDomain(g, d, r)[e] = IF e = d THEN RangeAnd(RangeOf(g.domain, e), r)
                                                             ELSE g.domain[e]
      <4>1. IsField(g) /\ r \in Ranges
        BY <2>3
      <4>2. /\ DOMAIN CutDomain(g, d, r) = Dimensions(g) \cup {d}
            /\ \A e \in Dimensions(g) \cup {d} :
                 CutDomain(g, d, r)[e] = IF e = d THEN RangeAnd(RangeOf(g.domain, e), r)
                                         ELSE g.domain[e]
            /\ \A e \in Dimensions(g) \cup {d} : CutDomain(g, d, r)[e] \in Ranges
        BY <4>1, CutDomainRanges
      <4>3. Dimensions(g) = dims
        BY <2>3
      <4> QED BY <4>2, <4>3
    <3>2. RangeOf(g.domain, d) = Infinite
      BY <1>6, <2>3 DEF RangeOf, Dimensions
    <3>3. CutDomain(g, d, r)[d] = r
      BY <3>1, <3>2, RangeAndLaws
    <3>4. PICK e \in dims : IsEmpty(CutDomain(g, d, r)[e])
      BY <2>3, <3>1, <3>3 DEF DomainIsEmpty
    <3> QED BY <1>6, <2>3, <3>1, <3>4, FieldFacts
  <2>4. \E e \in dims : IsEmpty(b.domain[e]) /\ b.domain[e] \in Ranges
    <3>1. CASE ~IsEmpty(r0)
      BY <1>1, <1>2, <2>2, <2>3, <3>1
    <3>2. ASSUME NEW r \in InvertRange(r0), ~IsEmpty(r)
          PROVE  \E e \in dims : IsEmpty(b.domain[e]) /\ b.domain[e] \in Ranges
      <4>1. r \in Ranges /\ DomainIsEmpty(CutDomain(c, d, r))
        BY <1>2, <1>3, <2>2
      <4>2. \E e \in dims : IsEmpty(c.domain[e]) /\ c.domain[e] \in Ranges
        BY <1>1, <2>3, <3>2, <4>1
      <4> QED BY <1>1, <1>6, <4>2
    <3> QED BY <1>3, <3>1, <3>2
  <2>5. ASSUME NEW p, Integral(dims, p) PROVE \E e \in dims : ~InRange(p[e], b.domain[e])
    BY <2>4, <2>5, RangeAndLaws DEF Integral
  <2>6. dims # {}
    BY <2>4
  <2> QED BY <1>6, <2>2, <2>5, <2>6, EmptyFieldReads
<1> QED BY <1>5, <1>6

(* The points where both operands of concat_where are, but for the         *)
(* dimension of the condition.                                             *)
Orthogonal(t, k, d, p) ==
  \A e \in (Dimensions(t) \cup Dimensions(k)) \ {d} :
    InRange(p[e], RangeOf(t.domain, e)) /\ InRange(p[e], RangeOf(k.domain, e))

(* concat_where: the result is the one field where the condition holds     *)
(* and the other where it does not, on the common range of the other       *)
(* dimensions.                                                             *)
THEOREM ConcatWhereIsExact ==
  ASSUME NEW t, IsField(t), NEW k, IsField(k), NEW cnd, IsFiniteSet(DOMAIN cnd),
         \A e \in DOMAIN cnd : cnd[e] \in Ranges, IsOk(ConcatWhere(cnd, t, k)),
         NEW h, h = ConcatWhere(cnd, t, k).val, NEW d, d = OnlyDim(cnd)
  PROVE  /\ IsField(h) /\ Dimensions(h) = Dimensions(t) \cup Dimensions(k)
         /\ \A p : Integral(Dimensions(h), p) =>
              At(h, p) = IF ~Orthogonal(t, k, d, p) THEN UNDEF
                         ELSE IF InRange(p[d], cnd[d]) THEN At(t, p) ELSE At(k, p)
<1> DEFINE dims == Dimensions(t) \cup Dimensions(k)
           ib == IntersectField(t, k, dims, d)
           ic == IntersectField(k, t, dims, d)
           b == ib.val
           c == ic.val
           join == JoinSlices(Slices(b, c, d, cnd[d]), d, dims)
<1>1. ConcatWhere(cnd, t, k) =
        IF Cardinality(DOMAIN cnd) # 1 THEN Raise("NotImplementedError")
        ELSE IF ~CanPromote(dims) THEN Raise("ValueError")
        ELSE IF IsOk(ib)
             THEN IF IsOk(ic)
                  THEN IF ~CanPromote(dims \cup {d}) THEN Raise("ValueError") ELSE join
                  ELSE ic
             ELSE ib
  BY ConcatWhereSteps
<1>2. Cardinality(DOMAIN cnd) = 1 /\ IsOk(ib) /\ IsOk(ic) /\ IsOk(join) /\ h = join.val
  <2> HIDE DEF ib, ic, join
  <2> QED BY <1>1, Results
<1>3. d \in DOMAIN cnd /\ cnd[d] \in Ranges
  <2>1. PICK x : DOMAIN cnd = {x}
    BY <1>2, FS_Singleton
  <2>2. d \in DOMAIN cnd
    BY <2>1, Zenon DEF OnlyDim
  <2> QED BY <2>2
<1>4. /\ IsField(b) /\ b.domain = Common(t, k, dims, d)
      /\ \A p : Integral(dims, p) =>
              /\ Inside(b.domain, p) <=>
                   /\ Inside(t.domain, p)
                   /\ \A e \in dims \ {d} : InRange(p[e], RangeOf(k.domain, e))
              /\ Inside(b.domain, p) => At(b, p) = At(t, p)
  <2>1. dims = Dimensions(t) \cup Dimensions(k)
    OBVIOUS
  <2>2. IsOk(IntersectField(t, k, dims, d)) /\ b = IntersectField(t, k, dims, d).val
    BY <1>2
  <2>3. IsField(t) /\ IsField(k)
    OBVIOUS
  <2>4. Intersected(t, k, dims, d, b)
    BY <2>1, <2>2, <2>3 DEF Intersected
  <2> HIDE DEF dims, b, ib
  <2> QED BY <2>4, IntersectReads
<1>5. /\ IsField(c) /\ c.domain = Common(k, t, dims, d)
      /\ \A p : Integral(dims, p) =>
              /\ Inside(c.domain, p) <=>
                   /\ Inside(k.domain, p)
                   /\ \A e \in dims \ {d} : InRange(p[e], RangeOf(t.domain, e))
              /\ Inside(c.domain, p) => At(c, p) = At(k, p)
  <2>1. dims = Dimensions(k) \cup Dimensions(t)
    OBVIOUS
  <2>2. IsOk(IntersectField(k, t, dims, d)) /\ c = IntersectField(k, t, dims, d).val
    BY <1>2
  <2>3. IsField(t) /\ IsField(k)
    OBVIOUS
  <2>4. Intersected(k, t, dims, d, c)
    BY <2>1, <2>2, <2>3 DEF Intersected
  <2> HIDE DEF dims, c, ic
  <2> QED BY <2>4, IntersectReads
<1>6. \A e \in dims : RangeOf(t.domain, e) \in Ranges /\ RangeOf(k.domain, e) \in Ranges
  BY FieldFacts, RangesNormal DEF RangeOf, Dimensions
<1>7. \A e \in dims \ {d} : b.domain[e] = RangeAnd(RangeOf(t.domain, e), RangeOf(k.domain, e))
  BY <1>4 DEF Common
<1>8. \A e \in dims \ {d} : c.domain[e] = RangeAnd(RangeOf(k.domain, e), RangeOf(t.domain, e))
  BY <1>5 DEF Common
<1> HIDE DEF ib, ic, b, c
<1>9. Dimensions(b) = dims /\ Dimensions(c) = dims
  BY <1>4, <1>5 DEF Common, Dimensions
<1>10. \A e \in dims \ {d} : b.domain[e] = c.domain[e]
  BY <1>6, <1>7, <1>8, RangeAndLaws
<1>11. Sliced(b, c, d, cnd[d], dims)
  BY <1>2, <1>3, <1>4, <1>5, <1>9, <1>10 DEF Sliced
<1>12. /\ IsField(h) /\ Dimensions(h) = dims
       /\ d \in dims => \A p : Integral(dims, p) =>
              At(h, p) = IF InRange(p[d], cnd[d])
                         THEN IF Inside(b.domain, p) THEN At(b, p) ELSE UNDEF
                         ELSE IF Inside(c.domain, p) THEN At(c, p) ELSE UNDEF
       /\ d \notin dims => \A p : Integral(dims, p) =>
              At(h, p) = UNDEF /\ \E e \in dims : ~InRange(p[e], b.domain[e])
  BY <1>2, <1>11, SlicesRead
<1>13. ASSUME NEW p, Integral(dims, p)
       PROVE  At(h, p) = IF ~Orthogonal(t, k, d, p) THEN UNDEF
                         ELSE IF InRange(p[d], cnd[d]) THEN At(t, p) ELSE At(k, p)
  <2>1. \A e \in dims : p[e] \in Int
    BY <1>13 DEF Integral
  <2>2. \A e \in dims \ {d} : InRange(p[e], b.domain[e]) <=>
          InRange(p[e], RangeOf(t.domain, e)) /\ InRange(p[e], RangeOf(k.domain, e))
    BY <1>6, <1>7, <2>1, RangeAndLaws
  <2>3. Orthogonal(t, k, d, p) <=> \A e \in dims \ {d} : InRange(p[e], b.domain[e])
    BY <2>2 DEF Orthogonal
  <2>4. CASE d \notin dims
    BY <1>12, <1>13, <2>3, <2>4
  <2>5. CASE d \in dims
    <3>1. ASSUME Orthogonal(t, k, d, p)
          PROVE  /\ Inside(b.domain, p) <=> Inside(t.domain, p)
                 /\ Inside(c.domain, p) <=> Inside(k.domain, p)
      BY <1>4, <1>5, <1>13, <3>1 DEF Orthogonal
    <3>2. ASSUME ~Orthogonal(t, k, d, p) PROVE ~Inside(b.domain, p) /\ ~Inside(c.domain, p)
      BY <1>9, <1>10, <2>3, <3>2 DEF Inside, Dimensions
    <3>3. /\ ~Inside(t.domain, p) => At(t, p) = UNDEF
          /\ ~Inside(k.domain, p) => At(k, p) = UNDEF
      BY <2>1, AtReads DEF Integral
    <3>4. At(h, p) = IF InRange(p[d], cnd[d])
                         THEN IF Inside(b.domain, p) THEN At(b, p) ELSE UNDEF
                         ELSE IF Inside(c.domain, p) THEN At(c, p) ELSE UNDEF
      BY <1>12, <1>13, <2>5
    <3>5. /\ Inside(b.domain, p) => At(b, p) = At(t, p)
          /\ Inside(c.domain, p) => At(c, p) = At(k, p)
      BY <1>4, <1>5, <1>13
    <3> QED BY <3>1, <3>2, <3>3, <3>4, <3>5
  <2> QED BY <2>4, <2>5
<1> QED BY <1>12, <1>13

-----------------------------------------------------------------------------
(* Sums over a finite set of indices.                                      *)

Picked(s) == CHOOSE x \in s : TRUE

(* A table of the sums of F over the subsets of S.                         *)
Unrolled(F, S, it) ==
  [s \in SUBSET S |-> IF s = {} THEN 0 ELSE F[Picked(s)] + it[s \ {Picked(s)}]]
SumTable(F, S, it) == it = Unrolled(F, S, it)

LEMMA SumUnfolds ==
  ASSUME NEW F
  PROVE  SumFunction(F) = (CHOOSE it : SumTable(F, DOMAIN F, it))[DOMAIN F]
BY Zenon DEF SumFunction, SumFunctionOnSet, FoldFunctionOnSet, MapThenFoldSet,
             SumTable, Unrolled, Picked

LEMMA SumTableReads ==
  ASSUME NEW F, NEW S, NEW it, SumTable(F, S, it), NEW s \in SUBSET S
  PROVE  /\ s = {} => it[s] = 0
         /\ s # {} => /\ Picked(s) \in s
                      /\ it[s] = F[Picked(s)] + it[s \ {Picked(s)}]
<1>1. s # {} => Picked(s) \in s
  BY Zenon DEF Picked
<1>2. it = Unrolled(F, S, it)
  BY DEF SumTable
<1>3. it[s] = IF s = {} THEN 0 ELSE F[Picked(s)] + it[s \ {Picked(s)}]
  <2>1. Unrolled(F, S, it)[s] = IF s = {} THEN 0 ELSE F[Picked(s)] + it[s \ {Picked(s)}]
    BY Zenon DEF Unrolled
  <2> QED BY <1>2, <2>1, Zenon
<1> QED BY <1>1, <1>3

(* Two tables agree where both are defined.                                *)
LEMMA SumTablesAgree ==
  ASSUME NEW F, NEW A, NEW B, NEW it, NEW jt, SumTable(F, A, it), SumTable(F, B, jt),
         NEW S, IsFiniteSet(S), S \subseteq A, S \subseteq B
  PROVE  it[S] = jt[S]
<1> DEFINE T == {s \in SUBSET S : it[s] # jt[s]}
<1> SUFFICES ASSUME it[S] # jt[S] PROVE FALSE
  OBVIOUS
<1>1. T \subseteq SUBSET S /\ T # {}
  OBVIOUS
<1>2. PICK s \in T : \A y \in T : y \subseteq s => y = s
  <2> HIDE DEF T
  <2> QED BY <1>1, MinimalMember
<1>3. s \in SUBSET A /\ s \in SUBSET B /\ s \in SUBSET S
  OBVIOUS
<1>4. s # {}
  BY <1>3, SumTableReads
<1>5. /\ Picked(s) \in s
      /\ it[s] = F[Picked(s)] + it[s \ {Picked(s)}]
      /\ jt[s] = F[Picked(s)] + jt[s \ {Picked(s)}]
  BY <1>3, <1>4, SumTableReads
<1>6. s \ {Picked(s)} \notin T
  BY <1>2, <1>5
<1>7. it[s \ {Picked(s)}] = jt[s \ {Picked(s)}]
  BY <1>3, <1>6
<1>8. it[s] # jt[s]
  OBVIOUS
<1> QED BY <1>5, <1>7, <1>8

LEMMA SumTableExists ==
  ASSUME NEW F, NEW D, IsFiniteSet(D)
  PROVE  \E it : SumTable(F, D, it)
<1> DEFINE T == {S \in SUBSET D : ~\E it : SumTable(F, S, it)}
<1> SUFFICES ASSUME ~\E it : SumTable(F, D, it) PROVE FALSE
  OBVIOUS
<1>1. T \subseteq SUBSET D /\ T # {}
  OBVIOUS
<1>2. PICK S \in T : \A y \in T : y \subseteq S => y = S
  <2> HIDE DEF T
  <2> QED BY <1>1, MinimalMember
<1>3. S \subseteq D /\ ~\E it : SumTable(F, S, it)
  OBVIOUS
<1> DEFINE tab(u) == CHOOSE it : SumTable(F, u, it)
           it == [s \in SUBSET S |-> IF s = {} THEN 0
                                     ELSE F[Picked(s)] + tab(s \ {Picked(s)})[s \ {Picked(s)}]]
<1>4. ASSUME NEW u, u \subseteq S, u # S PROVE SumTable(F, u, tab(u))
  <2>1. \E jt : SumTable(F, u, jt)
    BY <1>2, <1>3, <1>4
  <2> QED BY <2>1, Zenon
<1>5. ASSUME NEW u \in SUBSET S, u # S PROVE it[u] = tab(u)[u]
  <2>1. SumTable(F, u, tab(u)) /\ u \in SUBSET u
    BY <1>4, <1>5
  <2>2. CASE u = {}
    <3>1. it[u] = 0
      BY <2>2, Zenon
    <3>2. tab(u)[u] = 0
      <4> HIDE DEF tab
      <4> QED BY <2>1, <2>2, SumTableReads
    <3> QED BY <3>1, <3>2
  <2>3. CASE u # {}
    <3> DEFINE w == u \ {Picked(u)}
    <3>1. it[u] = F[Picked(u)] + tab(w)[w]
      BY <2>3, Zenon
    <3> HIDE DEF tab
    <3>2. tab(u)[u] = F[Picked(u)] + tab(u)[w]
      BY <2>1, <2>3, SumTableReads
    <3>3. w \subseteq S /\ w # S /\ w \subseteq u /\ w \subseteq w
      BY <1>5
    <3>4. SumTable(F, w, tab(w))
      BY <1>4, <3>3
    <3>5. IsFiniteSet(w)
      BY <1>3, <3>3, FS_Subset
    <3>6. tab(u)[w] = tab(w)[w]
      <4> HIDE DEF w
      <4> QED BY <2>1, <3>3, <3>4, <3>5, SumTablesAgree
    <3> HIDE DEF it, w
    <3> QED BY <3>1, <3>2, <3>6
  <2> QED BY <2>2, <2>3
<1>6. ASSUME NEW s \in SUBSET S, s # {}
      PROVE  it[s \ {Picked(s)}] = tab(s \ {Picked(s)})[s \ {Picked(s)}]
  <2>1. Picked(s) \in s
    BY <1>6, Zenon DEF Picked
  <2>2. s \ {Picked(s)} \in SUBSET S /\ s \ {Picked(s)} # S
    BY <2>1
  <2> HIDE DEF it, tab
  <2> QED BY <1>5, <2>2
<1>7. it = Unrolled(F, S, it)
  <2>1. \A s \in SUBSET S : (IF s = {} THEN 0 ELSE F[Picked(s)] + tab(s \ {Picked(s)})[s \ {Picked(s)}])
                              = (IF s = {} THEN 0 ELSE F[Picked(s)] + it[s \ {Picked(s)}])
    <3> HIDE DEF it, tab
    <3> QED BY <1>6
  <2>2. it = [s \in SUBSET S |-> IF s = {} THEN 0
                                     ELSE F[Picked(s)] + tab(s \ {Picked(s)})[s \ {Picked(s)}]]
    OBVIOUS
  <2>3. Unrolled(F, S, it) = [s \in SUBSET S |-> IF s = {} THEN 0 ELSE F[Picked(s)] + it[s \ {Picked(s)}]]
    BY Zenon DEF Unrolled
  <2> HIDE DEF it, tab
  <2> QED BY <2>1, <2>2, <2>3
<1> HIDE DEF it
<1>8. SumTable(F, S, it)
  BY <1>7 DEF SumTable
<1> QED BY <1>3, <1>8

(* The sum of integers over a finite set: any index may be taken out       *)
(* first.                                                                  *)
SumLaws(F, it) ==
  /\ SumFunction(F) = it[DOMAIN F]
  /\ it[{}] = 0
  /\ \A s \in SUBSET DOMAIN F : it[s] \in Int
  /\ \A s \in SUBSET DOMAIN F : \A x \in s : it[s] = F[x] + it[s \ {x}]
LEMMA SumOfIntegers ==
  ASSUME NEW F, IsFiniteSet(DOMAIN F), \A x \in DOMAIN F : F[x] \in Int
  PROVE  \E it : SumLaws(F, it)
<1> DEFINE D == DOMAIN F
           it == CHOOSE jt : SumTable(F, D, jt)
<1>1. SumFunction(F) = it[D]
  BY SumUnfolds, Zenon
<1>2. SumTable(F, D, it)
  <2>1. \E jt : SumTable(F, D, jt)
    BY SumTableExists
  <2> QED BY <2>1, Zenon
<1> HIDE DEF it
<1>3. \A s \in SUBSET D : /\ s = {} => it[s] = 0
                          /\ s # {} => /\ Picked(s) \in s
                                       /\ it[s] = F[Picked(s)] + it[s \ {Picked(s)}]
  BY <1>2, SumTableReads
<1>4. \A s \in SUBSET D : it[s] \in Int
  <2> DEFINE T == {s \in SUBSET D : it[s] \notin Int}
  <2> SUFFICES ASSUME T # {} PROVE FALSE
    OBVIOUS
  <2>1. PICK s \in T : \A y \in T : y \subseteq s => y = s
    <3>1. T \subseteq SUBSET D
      OBVIOUS
    <3> HIDE DEF T
    <3> QED BY <3>1, MinimalMember
  <2>2. s \in SUBSET D /\ it[s] \notin Int
    OBVIOUS
  <2>3. s # {}
    <3> SUFFICES ASSUME s = {} PROVE FALSE
      OBVIOUS
    <3>1. it[s] = 0
      BY <1>3, <2>2
    <3> QED BY <2>2, <3>1
  <2>4. s \ {Picked(s)} \in SUBSET D /\ s \ {Picked(s)} # s /\ Picked(s) \in D
    BY <1>3, <2>2, <2>3
  <2>5. it[s \ {Picked(s)}] \in Int
    BY <2>1, <2>4
  <2> QED BY <1>3, <2>2, <2>3, <2>4, <2>5
<1>5. \A s \in SUBSET D : \A x \in s : it[s] = F[x] + it[s \ {x}]
  <2> DEFINE T == {s \in SUBSET D : \E x \in s : it[s] # F[x] + it[s \ {x}]}
  <2> SUFFICES ASSUME T # {} PROVE FALSE
    OBVIOUS
  <2>1. PICK s \in T : \A y \in T : y \subseteq s => y = s
    <3>1. T \subseteq SUBSET D
      OBVIOUS
    <3> HIDE DEF T
    <3> QED BY <3>1, MinimalMember
  <2>2. PICK x \in s : it[s] # F[x] + it[s \ {x}]
    BY <2>1
  <2>3. s \in SUBSET D /\ s # {}
    BY <2>1, <2>2
  <2> DEFINE c == Picked(s)
             sc == s \ {c}
             sx == s \ {x}
             w  == sc \ {x}
  <2>4. c \in s /\ it[s] = F[c] + it[sc]
    BY <1>3, <2>3
  <2>5. c # x
    BY <2>2, <2>4
  <2>6. sc \in SUBSET D /\ sc \notin T /\ x \in sc
    BY <2>1, <2>3, <2>4, <2>5
  <2>7. sx \in SUBSET D /\ sx \notin T /\ c \in sx
    BY <2>1, <2>2, <2>3, <2>4, <2>5
  <2>8. it[sc] = F[x] + it[w]
    BY <2>6
  <2>9. it[sx] = F[c] + it[w]
    <3>1. it[sx] = F[c] + it[sx \ {c}]
      BY <2>7
    <3>2. sx \ {c} = w
      OBVIOUS
    <3> QED BY <3>1, <3>2
  <2>10. /\ F[c] \in Int /\ F[x] \in Int /\ it[w] \in Int
    BY <1>4, <2>3, <2>4, <2>6
  <2>11. it[s] # F[x] + it[sx]
    BY <2>2
  <2> HIDE DEF c, sc, sx, w
  <2> QED BY <2>4, <2>8, <2>9, <2>10, <2>11
<1>6. it[{}] = 0
  BY <1>3
<1>7. SumLaws(F, it)
  BY <1>1, <1>4, <1>5, <1>6 DEF SumLaws
<1> QED BY <1>7

LEMMA SumIsInteger ==
  ASSUME NEW F, IsFiniteSet(DOMAIN F), \A x \in DOMAIN F : F[x] \in Int
  PROVE  SumFunction(F) \in Int
<1>1. PICK it : SumLaws(F, it)
  BY SumOfIntegers
<1> QED BY <1>1 DEF SumLaws

(* Indices may be shifted, and terms that are 0 left out.                  *)
LEMMA SumShifted ==
  ASSUME NEW F, IsFiniteSet(DOMAIN F), \A x \in DOMAIN F : F[x] \in Int,
         NEW G, IsFiniteSet(DOMAIN G), \A y \in DOMAIN G : G[y] \in Int,
         NEW a \in Int, DOMAIN F \subseteq Int, DOMAIN G \subseteq Int,
         \A y \in DOMAIN G : y - a \in DOMAIN F,
         \A x \in DOMAIN F : F[x] = IF x + a \in DOMAIN G THEN G[x + a] ELSE 0
  PROVE  SumFunction(F) = SumFunction(G)
<1> DEFINE D == DOMAIN F
           E == DOMAIN G
           to(s) == {y \in E : y - a \in s}
<1>1. PICK it : SumLaws(F, it)
  BY SumOfIntegers
<1>2. PICK jt : SumLaws(G, jt)
  BY SumOfIntegers
<1>3. /\ it[{}] = 0
      /\ \A s \in SUBSET D : it[s] \in Int
      /\ \A s \in SUBSET D : \A x \in s : it[s] = F[x] + it[s \ {x}]
      /\ SumFunction(F) = it[D]
  BY <1>1 DEF SumLaws
<1>4. /\ jt[{}] = 0
      /\ \A s \in SUBSET E : jt[s] \in Int
      /\ \A s \in SUBSET E : \A y \in s : jt[s] = G[y] + jt[s \ {y}]
      /\ SumFunction(G) = jt[E]
  BY <1>2 DEF SumLaws
<1>5. \A s \in SUBSET D : it[s] = jt[to(s)]
  <2> DEFINE T == {s \in SUBSET D : it[s] # jt[to(s)]}
  <2> SUFFICES ASSUME T # {} PROVE FALSE
    OBVIOUS
  <2>1. PICK s \in T : \A y \in T : y \subseteq s => y = s
    <3>1. T \subseteq SUBSET D
      OBVIOUS
    <3> HIDE DEF T
    <3> QED BY <3>1, MinimalMember
  <2>2. s \in SUBSET D /\ it[s] # jt[to(s)]
    OBVIOUS
  <2>3. s # {}
    <3> SUFFICES ASSUME s = {} PROVE FALSE
      OBVIOUS
    <3>1. to(s) = {}
      OBVIOUS
    <3>2. it[s] = 0 /\ jt[to(s)] = 0
      BY <1>3, <1>4, <3>1
    <3> QED BY <2>2, <3>2
  <2>4. PICK x \in s : TRUE
    BY <2>3
  <2> DEFINE w == s \ {x}
  <2>5. w \in SUBSET D /\ w \notin T /\ x \in D /\ x \in Int
    BY <2>1, <2>2, <2>4
  <2>6. it[w] = jt[to(w)]
    BY <2>5
  <2>7. it[s] = F[x] + it[w]
    BY <1>3, <2>2, <2>4
  <2>8. jt[to(w)] \in Int
    BY <1>4
  <2>9. CASE x + a \in E
    <3>1. x + a \in to(s)
      <4>1. (x + a) - a = x
        BY <2>5
      <4> QED BY <2>4, <2>9, <4>1
    <3>2. to(s) \ {x + a} = to(w)
      <4>1. \A y \in E : y \in Int /\ (y = x + a <=> y - a = x)
        BY <2>5
      <4> QED BY <4>1
    <3>3. to(s) \in SUBSET E
      OBVIOUS
    <3> DEFINE ts == to(s)
               tw == to(w)
    <3>4. jt[ts] = G[x + a] + jt[ts \ {x + a}]
      <4> HIDE DEF to
      <4> QED BY <1>4, <3>1, <3>3
    <3>5. F[x] = G[x + a]
      BY <2>5, <2>9
    <3> HIDE DEF to, w
    <3> QED BY <2>2, <2>6, <2>7, <3>2, <3>4, <3>5
  <2>10. CASE x + a \notin E
    <3>1. to(s) = to(w)
      <4>1. \A y \in E : y \in Int /\ y - a # x
        BY <2>5, <2>10
      <4> QED BY <4>1
    <3>2. F[x] = 0
      BY <2>5, <2>10
    <3> HIDE DEF to, w
    <3> QED BY <2>2, <2>6, <2>7, <2>8, <3>1, <3>2
  <2> QED BY <2>9, <2>10
<1>6. to(D) = E
  OBVIOUS
<1> QED BY <1>3, <1>4, <1>5, <1>6

-----------------------------------------------------------------------------
(* Reductions *)

(* The field with 0 at the skipped positions of the table.                 *)
Mask(a, b) ==
  [shape |-> ElemShape(a, b),
   at |-> [i \in Indices(ElemShape(a, b)) |->
             IF a.at[Stretch(a, i)] = Skip THEN 0 ELSE b.at[Stretch(b, i)]]]
Row(m, dims, axis, i) ==
  [l \in 0 .. m.shape[axis] - 1 |-> m.at[[d \in dims |-> IF d = axis THEN l ELSE i[d]]]]
RowSums(m, dims, axis) ==
  [shape |-> [d \in dims \ {axis} |-> m.shape[d]],
   at |-> [i \in Indices([d \in dims \ {axis} |-> m.shape[d]]) |->
             SumFunction(Row(m, dims, axis, i))]]

OtherDim(c, axis) == CHOOSE d \in DOMAIN c.domain : d # axis
SumParts(g, axis, c, a, m, s) ==
  /\ IsOk(NeighborSum(g, axis, c))
  /\ a = NewAxes(c.table, Dimensions(g)) /\ m = Mask(a, g.arr)
  /\ s = RowSums(m, Dimensions(g), axis)
SumChecks(g, axis, c, a, s) ==
  /\ axis \in Dimensions(g)
  /\ OtherDim(c, axis) \in Dimensions(g)
  /\ \A d \in DOMAIN a.shape : a.shape[d] = g.arr.shape[d] \/ a.shape[d] = 1 \/ g.arr.shape[d] = 1
  /\ IsOk(FromArray(s, Without(g.domain, {axis})))
  /\ NeighborSum(g, axis, c).val = FromArray(s, Without(g.domain, {axis})).val
LEMMA NeighborSumSteps ==
  ASSUME NEW g, NEW axis, NEW c, NEW a, NEW m, NEW s, SumParts(g, axis, c, a, m, s)
  PROVE  SumChecks(g, axis, c, a, s)
<1> DEFINE v == CHOOSE d \in DOMAIN c.domain : d # axis
           rest == Without(g.domain, {axis})
           b == g.arr
           clash == \E d \in DOMAIN a.shape :
                      a.shape[d] # b.shape[d] /\ 1 \notin {a.shape[d], b.shape[d]}
           rm == IF clash THEN Raise("ShapeError") ELSE Ok(m)
           Sums(x) == [shape |-> [d \in DOMAIN rest |-> x.shape[d]],
                       at |-> [i \in Indices([d \in DOMAIN rest |-> x.shape[d]]) |->
                                 SumFunction([l \in 0 .. x.shape[axis] - 1 |->
                                   x.at[[d \in Dimensions(g) |-> IF d = axis THEN l ELSE i[d]]]])]]
<1>1. NeighborSum(g, axis, c) =
        IF axis \notin Dimensions(g) \/ axis \notin Local THEN Raise("ValueError")
        ELSE IF Cardinality(Dimensions(g) \cap Local) > 1 THEN Raise("NotImplementedError")
        ELSE IF v \notin Dimensions(g) THEN Raise("AssertionError")
        ELSE IF IsOk(rm) THEN FromArray(Sums(rm.val), rest) ELSE rm
  BY ZenonT(60) DEF SumParts, NeighborSum, Then, Elementwise, Array, Mask, ElemShape
<1>2. DOMAIN rest = Dimensions(g) \ {axis}
  BY DEF Without, Dimensions
<1>3. Sums(m) = s
  BY <1>2, Zenon DEF SumParts, RowSums, Row
<1> HIDE DEF v, rest, Sums, clash
<1>4. /\ axis \in Dimensions(g) /\ v \in Dimensions(g) /\ ~clash
      /\ IsOk(FromArray(s, rest)) /\ NeighborSum(g, axis, c).val = FromArray(s, rest).val
  BY <1>1, <1>3, Results DEF SumParts
<1>5. v = OtherDim(c, axis)
  BY Zenon DEF v, OtherDim
<1> QED BY <1>4, <1>5 DEF rest, clash, SumChecks

(* The arrays of a sum: the table is stretched to the field.               *)
LEMMA MaskIsArray ==
  ASSUME NEW a, NEW b, IsArray(a), IsArray(b), DOMAIN a.shape = DOMAIN b.shape, Stretches(a, b),
         NEW m, m = Mask(a, b)
  PROVE  /\ IsArray(m) /\ m.shape = ElemShape(a, b)
         /\ \A i \in Indices(m.shape) :
              m.at[i] = IF a.at[Stretch(a, i)] = Skip THEN 0 ELSE b.at[Stretch(b, i)]
<1>1. m = [shape |-> ElemShape(a, b),
           at |-> [i \in Indices(ElemShape(a, b)) |->
                     IF a.at[Stretch(a, i)] = Skip THEN 0 ELSE b.at[Stretch(b, i)]]]
  BY DEF Mask
<1>2. /\ m.shape = ElemShape(a, b)
      /\ m.at = [i \in Indices(m.shape) |->
                   IF a.at[Stretch(a, i)] = Skip THEN 0 ELSE b.at[Stretch(b, i)]]
  BY <1>1
<1> HIDE DEF Mask
<1>3. /\ ElemShape(a, b) \in [DOMAIN a.shape -> Nat]
      /\ \A i \in Indices(ElemShape(a, b)) : /\ Stretch(a, i) \in Indices(a.shape)
                                             /\ Stretch(b, i) \in Indices(b.shape)
  BY StretchedIndex
<1>4. \A i \in Indices(m.shape) :
        m.at[i] = IF a.at[Stretch(a, i)] = Skip THEN 0 ELSE b.at[Stretch(b, i)]
  BY <1>2
<1>5. \A i \in Indices(m.shape) : m.at[i] \in Int
  BY <1>2, <1>3, <1>4 DEF IsArray
<1>6. m.shape \in [DOMAIN m.shape -> Nat]
  BY <1>2, <1>3
<1> QED BY <1>2, <1>4, <1>5, <1>6 DEF IsArray

RowsOf(m, dims, axis, s) ==
  IsArray(m) /\ dims = DOMAIN m.shape /\ axis \in dims /\ s = RowSums(m, dims, axis)
LEMMA RowReads ==
  ASSUME NEW m, NEW dims, NEW axis, NEW s, RowsOf(m, dims, axis, s)
  PROVE  /\ IsArray(s) /\ DOMAIN s.shape = dims \ {axis}
         /\ \A d \in dims \ {axis} : s.shape[d] = m.shape[d]
         /\ \A i \in Indices(s.shape) :
              /\ s.at[i] = SumFunction(Row(m, dims, axis, i))
              /\ \A l \in 0 .. m.shape[axis] - 1 : Row(m, dims, axis, i)[l] \in Int
<1> USE DEF RowsOf
<1> DEFINE sh == [d \in dims \ {axis} |-> m.shape[d]]
<1>1. s = [shape |-> sh, at |-> [i \in Indices(sh) |-> SumFunction(Row(m, dims, axis, i))]]
  BY DEF RowSums
<1>2. s.shape = sh /\ s.at = [i \in Indices(sh) |-> SumFunction(Row(m, dims, axis, i))]
  BY <1>1
<1>3. m.shape \in [dims -> Nat] /\ m.at \in [Indices(m.shape) -> Int]
  BY DEF IsArray
<1>4. sh \in [dims \ {axis} -> Nat] /\ \A d \in dims \ {axis} : sh[d] = m.shape[d]
  BY <1>3
<1> HIDE DEF sh
<1>5. ASSUME NEW i \in Indices(sh), NEW l \in 0 .. m.shape[axis] - 1
      PROVE  Row(m, dims, axis, i)[l] \in Int
  <2> DEFINE j == [d \in dims |-> IF d = axis THEN l ELSE i[d]]
  <2>1. i \in [dims \ {axis} -> Nat] /\ \A d \in dims \ {axis} : i[d] < sh[d]
    BY <1>4, IndexTuples
  <2>2. j \in [dims -> Nat] /\ \A d \in dims : j[d] < m.shape[d]
    BY <1>3, <1>4, <2>1
  <2>3. Row(m, dims, axis, i)[l] = m.at[j]
    BY DEF Row
  <2> HIDE DEF j
  <2>4. j \in Indices(m.shape)
    BY <1>3, <2>2, IndexTuples
  <2> QED BY <1>3, <2>3, <2>4
<1>6. ASSUME NEW i \in Indices(sh) PROVE SumFunction(Row(m, dims, axis, i)) \in Int
  <2> DEFINE F == Row(m, dims, axis, i)
  <2>1. DOMAIN F = 0 .. m.shape[axis] - 1
    BY DEF Row
  <2>2. m.shape[axis] - 1 \in Int
    BY <1>3
  <2>3. IsFiniteSet(DOMAIN F)
    BY <2>1, <2>2, FS_Interval
  <2>4. \A x \in DOMAIN F : F[x] \in Int
    BY <1>5, <2>1
  <2> HIDE DEF F
  <2>5. SumFunction(F) \in Int
    BY <2>3, <2>4, SumIsInteger
  <2> QED BY <2>5 DEF F
<1>7. IsArray(s)
  <2>1. \A i \in Indices(s.shape) : s.at[i] \in Int
    BY <1>2, <1>6
  <2>2. s.at = [i \in Indices(s.shape) |-> s.at[i]]
    BY <1>2
  <2>3. s.shape \in [DOMAIN s.shape -> Nat]
    BY <1>2, <1>4
  <2> QED BY <2>1, <2>2, <2>3 DEF IsArray
<1> QED BY <1>2, <1>4, <1>5, <1>7

(* The field is where the table is, along the dimensions of the table.     *)
Covers(g, c) == \A d \in DOMAIN c.domain : g.domain[d] = c.domain[d]
Along(p, dims, axis, l) == [d \in dims |-> IF d = axis THEN l ELSE p[d]]
Masked(g, c, q) == IF At(TableField(c), q) = Skip THEN 0 ELSE At(g, q)

(* The masked field at a point of the field.                               *)
MaskOf(g, c, a, m) ==
  /\ IsField(g) /\ IsTable(c) /\ DOMAIN c.domain \subseteq Dimensions(g) /\ Covers(g, c)
  /\ a = NewAxes(c.table, Dimensions(g)) /\ m = Mask(a, g.arr) /\ Stretches(a, g.arr)
LEMMA MaskReads ==
  ASSUME NEW g, NEW c, NEW a, NEW m, MaskOf(g, c, a, m)
  PROVE  /\ Fits(m, g.domain)
         /\ \A d \in DOMAIN c.domain : m.shape[d] = RangeLen(g.domain[d]) /\ IsFinite(g.domain[d])
         /\ \A q : Inside(g.domain, q) => /\ m.at[Pos(m, g.domain, q)] = Masked(g, c, q)
                                          /\ Masked(g, c, q) \in Int
<1> DEFINE D == Dimensions(g)
           E == DOMAIN c.domain
<1>1. /\ IsField(g) /\ IsTable(c) /\ E \subseteq D
      /\ \A d \in E : g.domain[d] = c.domain[d]
      /\ a = NewAxes(c.table, D) /\ m = Mask(a, g.arr) /\ Stretches(a, g.arr)
  BY DEF MaskOf, Covers
<1>2. /\ IsField(TableField(c))
      /\ \A d \in E : IsFinite(c.domain[d]) /\ c.table.shape[d] = RangeLen(c.domain[d])
  BY <1>1 DEF IsTable, TableField
<1>3. TableField(c).domain = c.domain /\ TableField(c).arr = c.table /\ Dimensions(TableField(c)) = E
  BY DEF TableField, Dimensions
<1>4. /\ IsArray(c.table) /\ DOMAIN c.table.shape = E
      /\ \A d \in E : c.table.shape[d] \in Nat
  BY <1>2, <1>3, FieldFacts
<1>5. /\ IsArray(g.arr) /\ DOMAIN g.arr.shape = D /\ Fits(g.arr, g.domain)
      /\ \A d \in D : g.domain[d] \in Ranges /\ g.arr.shape[d] \in Nat
  BY <1>1, FieldFacts
<1>6. /\ IsArray(a) /\ DOMAIN a.shape = D
      /\ \A d \in D : a.shape[d] = IF d \in E THEN c.table.shape[d] ELSE 1
      /\ \A i \in Indices(a.shape) : a.at[i] = c.table.at[[d \in E |-> i[d]]]
  <2>1. /\ IsArray(a) /\ DOMAIN a.shape = D
        /\ \A d \in D : a.shape[d] = IF d \in DOMAIN c.table.shape THEN c.table.shape[d] ELSE 1
        /\ \A i \in Indices(a.shape) : /\ [d \in DOMAIN c.table.shape |-> i[d]] \in Indices(c.table.shape)
                                       /\ a.at[i] = c.table.at[[d \in DOMAIN c.table.shape |-> i[d]]]
    <3>1. DOMAIN c.table.shape \subseteq D
      BY <1>1, <1>4
    <3> HIDE DEF D
    <3> QED BY <1>1, <1>4, <3>1, NewAxesArray
  <2> QED BY <1>4, <2>1
<1>7. /\ IsArray(m) /\ m.shape = ElemShape(a, g.arr)
      /\ \A i \in Indices(m.shape) :
           m.at[i] = IF a.at[Stretch(a, i)] = Skip THEN 0 ELSE g.arr.at[Stretch(g.arr, i)]
  BY <1>1, <1>5, <1>6, MaskIsArray
<1>8. /\ DOMAIN m.shape = D
      /\ \A d \in D : m.shape[d] = IF a.shape[d] = 1 THEN g.arr.shape[d] ELSE a.shape[d]
  BY <1>6, <1>7 DEF ElemShape
<1>9. \A d \in D : g.arr.shape[d] # 1 => IsFinite(g.domain[d]) /\ RangeLen(g.domain[d]) = g.arr.shape[d]
  BY <1>5 DEF Fits, Dimensions
<1>10. \A d \in E : m.shape[d] = RangeLen(g.domain[d]) /\ IsFinite(g.domain[d])
  BY <1>1, <1>2, <1>6, <1>8, <1>9
<1>11. Fits(m, g.domain)
  <2>1. \A d \in D \ E : m.shape[d] = g.arr.shape[d]
    BY <1>6, <1>8
  <2> QED BY <1>5, <1>9, <1>10, <2>1 DEF Fits, Dimensions
<1>12. ASSUME NEW q, Inside(g.domain, q)
       PROVE  /\ m.at[Pos(m, g.domain, q)] = Masked(g, c, q)
              /\ Masked(g, c, q) \in Int
  <2> DEFINE i == Pos(m, g.domain, q)
  <2>1. Stretched(a, g.arr, m, g.domain, q)
    BY <1>1, <1>5, <1>6, <1>7, <1>11, <1>12 DEF Stretched, Dimensions
  <2>2. Stretch(a, i) = Pos(a, g.domain, q) /\ Stretch(g.arr, i) = Pos(g.arr, g.domain, q)
    BY <2>1, StretchedPosition
  <2>3. i \in Indices(m.shape)
    BY <1>5, <1>7, <1>8, <1>11, <1>12, PosInBuffer DEF Dimensions
  <2>4. Stretch(a, i) \in Indices(a.shape)
    BY <1>1, <1>5, <1>6, <1>7, <2>3, StretchedIndex
  <2> HIDE DEF i
  <2>5. m.at[i] = IF a.at[Pos(a, g.domain, q)] = Skip THEN 0 ELSE g.arr.at[Pos(g.arr, g.domain, q)]
    BY <1>7, <2>2, <2>3
  <2>6. [d \in E |-> Pos(a, g.domain, q)[d]] = Pos(c.table, c.domain, q)
    <3>1. \A d \in E : Pos(a, g.domain, q)[d] = IF c.table.shape[d] = 1 THEN 0
                                                ELSE q[d] - c.domain[d].start
      BY <1>1, <1>6 DEF Pos
    <3> QED BY <1>4, <3>1 DEF Pos
  <2>7. a.at[Pos(a, g.domain, q)] = c.table.at[Pos(c.table, c.domain, q)]
    BY <1>6, <2>2, <2>4, <2>6
  <2>8. Integral(D, q) /\ Inside(c.domain, q) /\ Integral(E, q)
    BY <1>1, <1>12 DEF Inside, Integral, Dimensions
  <2>9. At(g, q) = g.arr.at[Pos(g.arr, g.domain, q)] /\ At(g, q) \in Int
    BY <1>1, <1>12, <2>8, AtReads
  <2>10. At(TableField(c), q) = c.table.at[Pos(c.table, c.domain, q)]
    BY <1>2, <1>3, <2>8, AtReads
  <2> QED BY <2>5, <2>7, <2>9, <2>10 DEF Masked, i
<1> QED BY <1>10, <1>11, <1>12

(* neighbor_sum over a field that covers the table of the offset provider: *)
(* at each point, the sum of the values of its neighbours that are not     *)
(* skipped.  It is a field whatever the operand.                           *)
THEOREM NeighborSumIsExact ==
  ASSUME NEW g, IsField(g), NEW axis, NEW c, IsNeighborTable(c, axis),
         IsOk(NeighborSum(g, axis, c)), NEW h, h = NeighborSum(g, axis, c).val
  PROVE  /\ IsField(h) /\ Dimensions(h) = Dimensions(g) \ {axis} /\ axis \in Dimensions(g)
         /\ Covers(g, c) => \A p : Integral(Dimensions(h), p) =>
              At(h, p) = IF \E d \in Dimensions(h) : ~InRange(p[d], g.domain[d]) THEN UNDEF
                         ELSE SumFunction([l \in g.domain[axis].start .. g.domain[axis].stop - 1 |->
                                             Masked(g, c, Along(p, Dimensions(g), axis, l))])
<1> DEFINE D == Dimensions(g)
           E == DOMAIN c.domain
           a == NewAxes(c.table, D)
           m == Mask(a, g.arr)
           s == RowSums(m, D, axis)
           rest == Without(g.domain, {axis})
<1>1. /\ axis \in D
      /\ OtherDim(c, axis) \in D
      /\ \A d \in DOMAIN a.shape : a.shape[d] = g.arr.shape[d] \/ a.shape[d] = 1 \/ g.arr.shape[d] = 1
      /\ IsOk(FromArray(s, rest)) /\ h = FromArray(s, rest).val
  <2>1. SumParts(g, axis, c, a, m, s)
    BY Zenon DEF SumParts
  <2> HIDE DEF a, m, s
  <2>2. SumChecks(g, axis, c, a, s)
    BY <2>1, NeighborSumSteps, Zenon
  <2> QED BY <2>2, Zenon DEF SumChecks
<1>2. IsTable(c) /\ axis \in E
  BY DEF IsNeighborTable
<1>3. E \subseteq D
  <2>1. PICK v \in E \ {axis} : E = {axis, v}
    BY DEF IsNeighborTable
  <2>2. OtherDim(c, axis) = v
    BY <2>1 DEF OtherDim
  <2> QED BY <1>1, <2>1, <2>2
<1>4. Stretches(a, g.arr)
  BY <1>1 DEF Stretches
<1>5. IsArray(g.arr) /\ DOMAIN g.arr.shape = D /\ \A d \in D : g.domain[d] \in Ranges
  BY FieldFacts
<1>6. IsArray(a) /\ DOMAIN a.shape = D
  <2>1. IsField(TableField(c)) /\ Dimensions(TableField(c)) = E /\ TableField(c).arr = c.table
    BY <1>2 DEF IsTable, TableField, Dimensions
  <2>2. IsArray(c.table) /\ DOMAIN c.table.shape = E
    BY <2>1, FieldFacts
  <2>3. DOMAIN c.table.shape \subseteq D
    BY <1>3, <2>2
  <2>4. a = NewAxes(c.table, D)
    OBVIOUS
  <2> HIDE DEF a, D
  <2> QED BY <2>2, <2>3, <2>4, NewAxesArray
<1>7. /\ m = Mask(a, g.arr) /\ s = RowSums(m, D, axis) /\ a = NewAxes(c.table, D)
      /\ DOMAIN rest = D \ {axis} /\ \A d \in D \ {axis} : rest[d] = g.domain[d]
  BY DEF Without, Dimensions
<1> HIDE DEF a, m, s, rest
<1>8. IsArray(m) /\ m.shape = ElemShape(a, g.arr)
  BY <1>4, <1>5, <1>6, <1>7, MaskIsArray
<1>9. DOMAIN m.shape = D
  BY <1>6, <1>8 DEF ElemShape
<1>10. /\ IsArray(s) /\ DOMAIN s.shape = D \ {axis}
       /\ \A d \in D \ {axis} : s.shape[d] = m.shape[d]
       /\ \A i \in Indices(s.shape) :
            /\ s.at[i] = SumFunction(Row(m, D, axis, i))
            /\ \A l \in 0 .. m.shape[axis] - 1 : Row(m, D, axis, i)[l] \in Int
  <2>1. RowsOf(m, D, axis, s)
    BY <1>1, <1>7, <1>8, <1>9 DEF RowsOf
  <2> HIDE DEF D
  <2> QED BY <2>1, RowReads
<1>11. \A d \in DOMAIN rest : rest[d] \in Ranges
  BY <1>5, <1>7
<1>12. /\ IsField(h) /\ h.domain = rest /\ h.arr = s /\ Fits(s, rest)
  BY <1>1, <1>10, <1>11, FieldMade
<1>13. Dimensions(h) = D \ {axis}
  BY <1>7, <1>12 DEF Dimensions
<1>14. ASSUME Covers(g, c), NEW p, Integral(D \ {axis}, p),
              \A d \in D \ {axis} : InRange(p[d], g.domain[d])
       PROVE  At(h, p) = SumFunction([l \in g.domain[axis].start .. g.domain[axis].stop - 1 |->
                                        Masked(g, c, Along(p, D, axis, l))])
  <2> DEFINE start == g.domain[axis].start
             stop  == g.domain[axis].stop
             i == Pos(s, rest, p)
             F == Row(m, D, axis, i)
             G == [l \in start .. stop - 1 |-> Masked(g, c, Along(p, D, axis, l))]
  <2>1. MaskOf(g, c, a, m)
    BY <1>2, <1>3, <1>4, <1>7, <1>14 DEF MaskOf
  <2>2. /\ Fits(m, g.domain)
        /\ m.shape[axis] = RangeLen(g.domain[axis]) /\ IsFinite(g.domain[axis])
        /\ \A q : Inside(g.domain, q) => /\ m.at[Pos(m, g.domain, q)] = Masked(g, c, q)
                                         /\ Masked(g, c, q) \in Int
    BY <1>2, <2>1, MaskReads
  <2>3. start \in Int /\ stop \in Int /\ m.shape[axis] = stop - start /\ m.shape[axis] \in Nat
    BY <1>1, <1>5, <2>2, FiniteRange DEF RangeLen
  <2>4. Inside(rest, p)
    BY <1>7, <1>14 DEF Inside, Integral
  <2>5. At(h, p) = s.at[i]
    BY <1>12, <1>13, <1>14, <2>4, AtReads
  <2>6. i \in Indices(s.shape)
    BY <1>7, <1>10, <1>11, <1>12, <2>4, PosInBuffer
  <2>7. s.at[i] = SumFunction(F) /\ \A l \in 0 .. m.shape[axis] - 1 : F[l] \in Int
    <3> HIDE DEF i
    <3> QED BY <1>10, <2>6
  <2>8. DOMAIN F = 0 .. m.shape[axis] - 1 /\ DOMAIN G = start .. stop - 1
    BY DEF Row
  <2>9. ASSUME NEW l \in start .. stop - 1
        PROVE  G[l] \in Int /\ F[l - start] = G[l]
    <3> DEFINE q == Along(p, D, axis, l)
    <3>1. G[l] = Masked(g, c, q)
      OBVIOUS
    <3>2. l \in Int /\ l - start \in 0 .. m.shape[axis] - 1
      BY <2>3
    <3>3. InRange(l, g.domain[axis])
      BY <1>1, <1>5, <2>2, <2>3, <2>9, FiniteMembers
    <3>4. /\ DOMAIN q = D /\ q[axis] = l
          /\ \A d \in D \ {axis} : q[d] = p[d]
      BY <1>1 DEF Along
    <3>5. Inside(g.domain, q)
      <4> HIDE DEF q
      <4> QED BY <1>14, <3>2, <3>3, <3>4 DEF Inside, Integral, Dimensions
    <3>6. F[l - start] = m.at[[d \in D |-> IF d = axis THEN l - start ELSE i[d]]]
      BY <3>2 DEF Row
    <3>7. \A d \in D : Pos(m, g.domain, q)[d] = IF d = axis THEN l - start ELSE i[d]
      <4>1. \A d \in D : Pos(m, g.domain, q)[d] = IF m.shape[d] = 1 THEN 0 ELSE q[d] - g.domain[d].start
        BY <1>9 DEF Pos
      <4>2. \A d \in D \ {axis} : i[d] = IF s.shape[d] = 1 THEN 0 ELSE p[d] - rest[d].start
        BY <1>10 DEF Pos
      <4>3. m.shape[axis] = 1 => l - start = 0
        BY <2>3, <3>2
      <4> HIDE DEF i, q, start
      <4>4. \A d \in D \ {axis} : Pos(m, g.domain, q)[d] = i[d]
        BY <1>7, <1>10, <3>4, <4>1, <4>2
      <4>5. Pos(m, g.domain, q)[axis] = l - start
        BY <1>1, <3>4, <4>1, <4>3 DEF start
      <4> QED BY <4>4, <4>5
    <3>8. Pos(m, g.domain, q) = [d \in D |-> IF d = axis THEN l - start ELSE i[d]]
      <4>1. Pos(m, g.domain, q) = [d \in D |-> Pos(m, g.domain, q)[d]]
        BY <1>9 DEF Pos
      <4> HIDE DEF i, q, start
      <4> QED BY <3>7, <4>1
    <3> HIDE DEF q, F, G, i, start
    <3> QED BY <2>2, <3>1, <3>5, <3>6, <3>8
  <2> HIDE DEF F, G, start, stop, i
  <2>10. IsFiniteSet(DOMAIN F) /\ IsFiniteSet(DOMAIN G)
    <3>1. m.shape[axis] - 1 \in Int /\ stop - 1 \in Int /\ 0 \in Int
      BY <2>3
    <3> QED BY <2>3, <2>8, <3>1, FS_Interval
  <2>11. /\ \A x \in DOMAIN F : F[x] \in Int
         /\ \A y \in DOMAIN G : G[y] \in Int
         /\ DOMAIN F \subseteq Int /\ DOMAIN G \subseteq Int
    BY <2>3, <2>7, <2>8, <2>9
  <2>12. \A y \in DOMAIN G : y - start \in DOMAIN F
    BY <2>3, <2>8
  <2>13. \A x \in DOMAIN F : F[x] = IF x + start \in DOMAIN G THEN G[x + start] ELSE 0
    <3> SUFFICES ASSUME NEW x \in DOMAIN F PROVE F[x] = IF x + start \in DOMAIN G THEN G[x + start] ELSE 0
      OBVIOUS
    <3>1. x \in Int /\ x + start \in start .. stop - 1 /\ (x + start) - start = x
      BY <2>3, <2>8
    <3>2. F[(x + start) - start] = G[x + start]
      BY <2>9, <3>1
    <3> QED BY <2>8, <3>1, <3>2
  <2>14. SumFunction(F) = SumFunction(G)
    BY <2>3, <2>10, <2>11, <2>12, <2>13, SumShifted
  <2> QED BY <2>5, <2>7, <2>14 DEF G, start, stop
<1>15. ASSUME NEW p, Integral(D \ {axis}, p), \E d \in D \ {axis} : ~InRange(p[d], g.domain[d])
       PROVE  At(h, p) = UNDEF
  <2>1. ~Inside(rest, p)
    BY <1>7, <1>15 DEF Inside
  <2> QED BY <1>12, <1>13, <1>15, <2>1, AtReads
<1> QED BY <1>1, <1>12, <1>13, <1>14, <1>15

-----------------------------------------------------------------------------
(* Field programs: the field is what its operations mean, after any        *)
(* number of them.                                                         *)

LEMMA PointFacts ==
  ASSUME NEW dims, dims \subseteq DOMAIN Window, NEW p \in Points(dims)
  PROVE  /\ DOMAIN p = dims /\ Integral(dims, p)
         /\ \A d \in dims : p[d] \in Window[d]
<1>1. Points(dims) = {q \in [dims -> UNION {Window[d] : d \in dims}] :
                        \A d \in dims : q[d] \in Window[d]}
  BY DEF Points, PointTable
<1> QED BY <1>1, WindowAssumption DEF Integral

(* The reference is right wherever it is known.                            *)
Reads(g, r) == \A p \in Points(Dimensions(g)) : r[p] # UNKNOWN => At(g, p) = r[p]
Typed == IsField(f) /\ Dimensions(f) \subseteq DOMAIN Window
Sound == Typed /\ Reads(f, ref)

LEMMA KnownReads ==
  ASSUME Sound, NEW q, Known(q) # UNKNOWN
  PROVE  Known(q) = At(f, q) /\ q \in Points(Dimensions(f)) /\ Integral(Dimensions(f), q)
<1>1. q \in Points(Dimensions(f)) /\ Known(q) = ref[q]
  BY DEF Known
<1> QED BY <1>1, PointFacts DEF Sound, Typed, Reads

LEMMA PremapSteps ==
  ASSUME Typed, NEW conns \in Premaps, IsOk(Premap(f, conns)), NEW h, h = Premap(f, conns).val
  PROVE  /\ IsField(h) /\ Dimensions(h) \subseteq DOMAIN Window
         /\ Sound => \A p \in Points(Dimensions(h)) :
              PremapMeaning(conns, p) # UNKNOWN => At(h, p) = PremapMeaning(conns, p)
<1>1. IsConns(conns) /\ IsField(f)
  BY PremapAssumption DEF Typed
<1>2. /\ IsField(h)
      /\ Dimensions(h) \subseteq Dimensions(f) \cup UNION {ConnDims(conns[k]) : k \in DOMAIN conns}
      /\ \A p : Integral(Dimensions(h), p) /\ DOMAIN p = Dimensions(h) =>
           LET q == Pulled(f, conns, p)
               gone == \E d \in Moved(conns) : q[d] = UNDEF \/ Leaves(f, conns, p, d)
           IN  /\ gone => At(h, p) = UNDEF
               /\ ~gone /\ (\A d \in Moved(conns) : q[d] # UNKNOWN) => At(h, p) = At(f, q)
  BY <1>1, PremapIsExact
<1>3. \A k \in DOMAIN conns : ConnDims(conns[k]) \subseteq DOMAIN Window
  BY <1>1 DEF IsConns, IsConn, IsTable, ConnDims, IsGather
<1>4. Dimensions(h) \subseteq DOMAIN Window
  BY <1>2, <1>3 DEF Typed
<1>5. ASSUME Sound, NEW p \in Points(Dimensions(h)), PremapMeaning(conns, p) # UNKNOWN
      PROVE  At(h, p) = PremapMeaning(conns, p)
  <2> DEFINE q == Pulled(f, conns, p)
             gone == \E d \in Moved(conns) : q[d] = UNDEF \/ Leaves(f, conns, p, d)
             hazy == \E d \in Moved(conns) : q[d] = UNKNOWN
  <2>1. PremapMeaning(conns, p) = IF gone THEN UNDEF ELSE IF hazy THEN UNKNOWN ELSE Known(q)
    BY Zenon DEF PremapMeaning, Pulled, Moved, ConnOf, Leaves
  <2>2. Integral(Dimensions(h), p) /\ DOMAIN p = Dimensions(h)
    BY <1>4, PointFacts
  <2>3. /\ gone => At(h, p) = UNDEF
        /\ ~gone /\ ~hazy => At(h, p) = At(f, q)
    BY <1>2, <2>2
  <2> HIDE DEF gone, hazy, q
  <2>4. CASE gone
    BY <2>1, <2>3, <2>4
  <2>5. CASE ~gone
    <3>1. ~hazy /\ PremapMeaning(conns, p) = Known(q) /\ Known(q) # UNKNOWN
      BY <1>5, <2>1, <2>5
    <3>2. Known(q) = At(f, q)
      BY <3>1, <1>5, KnownReads
    <3> QED BY <2>3, <2>5, <3>1, <3>2
  <2> QED BY <2>4, <2>5
<1> QED BY <1>2, <1>4, <1>5

LEMMA RestrictSteps ==
  ASSUME Typed, NEW ix \in Indexes, IsOk(RestrictAbsolute(f, ix)),
         NEW h, h = RestrictAbsolute(f, ix).val
  PROVE  /\ IsField(h) /\ Dimensions(h) \subseteq DOMAIN Window
         /\ Sound => \A p \in Points(Dimensions(h)) :
              RestrictMeaning(ix.within, ix.at, p) # UNKNOWN
                => At(h, p) = RestrictMeaning(ix.within, ix.at, p)
<1>1. IsIndex(ix) /\ IsField(f)
  BY IndexAssumption DEF Typed
<1>2. /\ IsField(h) /\ Dimensions(h) = Dimensions(f) \ DOMAIN ix.at
      /\ \A p : Integral(Dimensions(h), p) =>
           At(h, p) =
             IF \E d \in DOMAIN ix.within \cap Dimensions(h) : ~InRange(p[d], ix.within[d])
             THEN UNDEF
             ELSE At(f, [d \in Dimensions(f) |-> IF d \in DOMAIN ix.at THEN ix.at[d] ELSE p[d]])
  BY <1>1, RestrictIsExact
<1>3. Dimensions(h) \subseteq DOMAIN Window
  BY <1>2 DEF Typed
<1>4. ASSUME Sound, NEW p \in Points(Dimensions(h)), RestrictMeaning(ix.within, ix.at, p) # UNKNOWN
      PROVE  At(h, p) = RestrictMeaning(ix.within, ix.at, p)
  <2> DEFINE q == [d \in Dimensions(f) |-> IF d \in DOMAIN ix.at THEN ix.at[d] ELSE p[d]]
             gone == \E d \in DOMAIN ix.within \cap Dimensions(h) : ~InRange(p[d], ix.within[d])
  <2>1. Integral(Dimensions(h), p) /\ DOMAIN p = Dimensions(h)
    BY <1>3, PointFacts
  <2>2. RestrictMeaning(ix.within, ix.at, p) = IF gone THEN UNDEF ELSE Known(q)
    BY <2>1, Zenon DEF RestrictMeaning
  <2>3. At(h, p) = IF gone THEN UNDEF ELSE At(f, q)
    BY <1>2, <2>1
  <2> HIDE DEF q, gone
  <2> QED BY <1>4, <2>2, <2>3, KnownReads
<1> QED BY <1>2, <1>3, <1>4

(* The ranges and positions that a relative index means.                   *)
RelativeWithin(ix) == [d \in DOMAIN ix.within |-> SliceMeaning(f.domain[d], ix.within[d])]
RelativeAt(ix) == [d \in DOMAIN ix.at |-> Counted(f.domain[d], ix.at[d])]
LEMMA RelativeSteps ==
  ASSUME Typed, NEW ix \in RelativeIxs, IsOk(RestrictRelative(f, ix)),
         \A d \in DOMAIN ix.within \cup DOMAIN ix.at : d \in Dimensions(f) /\ IsFinite(f.domain[d]),
         NEW h, h = RestrictRelative(f, ix).val
  PROVE  /\ IsField(h) /\ Dimensions(h) \subseteq DOMAIN Window
         /\ Sound => \A p \in Points(Dimensions(h)) :
              RestrictMeaning(RelativeWithin(ix), RelativeAt(ix), p) # UNKNOWN
                => At(h, p) = RestrictMeaning(RelativeWithin(ix), RelativeAt(ix), p)
<1>1. IsField(f) /\ IsRelative(ix, f.domain)
  BY IndexAssumption DEF Typed, IsRelative, IsRelativeIndex, Dimensions
<1>2. /\ IsField(h) /\ Dimensions(h) = Dimensions(f) \ DOMAIN ix.at
      /\ \A p : Integral(Dimensions(h), p) =>
           At(h, p) =
             IF \E d \in DOMAIN ix.within :
                  ~InRange(p[d], SliceMeaning(f.domain[d], ix.within[d]))
             THEN UNDEF
             ELSE At(f, [d \in Dimensions(f) |->
                           IF d \in DOMAIN ix.at THEN Counted(f.domain[d], ix.at[d]) ELSE p[d]])
  BY <1>1, RelativeIsExact
<1>3. Dimensions(h) \subseteq DOMAIN Window /\ DOMAIN ix.within \subseteq Dimensions(h)
  BY <1>1, <1>2 DEF Typed, IsRelative
<1>4. ASSUME Sound, NEW p \in Points(Dimensions(h)),
             RestrictMeaning(RelativeWithin(ix), RelativeAt(ix), p) # UNKNOWN
      PROVE  At(h, p) = RestrictMeaning(RelativeWithin(ix), RelativeAt(ix), p)
  <2> DEFINE q == [d \in Dimensions(f) |->
                     IF d \in DOMAIN ix.at THEN Counted(f.domain[d], ix.at[d]) ELSE p[d]]
             w == RelativeWithin(ix)
             a == RelativeAt(ix)
             gone == \E d \in DOMAIN w \cap DOMAIN p : ~InRange(p[d], w[d])
  <2>1. Integral(Dimensions(h), p) /\ DOMAIN p = Dimensions(h)
    BY <1>3, PointFacts
  <2>2. /\ DOMAIN w = DOMAIN ix.within /\ DOMAIN a = DOMAIN ix.at
        /\ \A d \in DOMAIN ix.within : w[d] = SliceMeaning(f.domain[d], ix.within[d])
        /\ \A d \in DOMAIN ix.at : a[d] = Counted(f.domain[d], ix.at[d])
    BY DEF RelativeWithin, RelativeAt
  <2> HIDE DEF w, a
  <2>3. [d \in Dimensions(f) |-> IF d \in DOMAIN a THEN a[d] ELSE p[d]] = q
    BY <2>2
  <2>4. RestrictMeaning(w, a, p) = IF gone THEN UNDEF ELSE Known(q)
    BY <2>3, Zenon DEF RestrictMeaning
  <2>5. gone <=> \E d \in DOMAIN ix.within :
                   ~InRange(p[d], SliceMeaning(f.domain[d], ix.within[d]))
    BY <1>3, <2>1, <2>2
  <2>6. At(h, p) = IF gone THEN UNDEF ELSE At(f, q)
    BY <1>2, <2>1, <2>5
  <2>7. RestrictMeaning(w, a, p) # UNKNOWN
    BY <1>4 DEF w, a
  <2> HIDE DEF q, gone
  <2>8. At(h, p) = RestrictMeaning(w, a, p)
    BY <2>4, <2>6, <2>7, <1>4, KnownReads
  <2> QED BY <2>8 DEF w, a
<1> QED BY <1>2, <1>3, <1>4

(* The field at the part of a point it depends on.                         *)
LEMMA ProjectReads ==
  ASSUME Sound, NEW p, Known(Project(p, Dimensions(f))) # UNKNOWN
  PROVE  Known(Project(p, Dimensions(f))) = At(f, p)
<1> DEFINE q == Project(p, Dimensions(f))
<1>1. IsField(f) /\ \A d \in Dimensions(f) : q[d] = p[d]
  BY DEF Project, Sound, Typed
<1> HIDE DEF q
<1>2. At(f, q) = At(f, p)
  BY <1>1, AtLocal
<1>3. Known(q) # UNKNOWN => Known(q) = At(f, q)
  BY KnownReads
<1> QED BY <1>2, <1>3 DEF q

LEMMA BroadcastSteps ==
  ASSUME Typed, NEW g \in Others, NEW dims, dims = Dimensions(f) \cup Dimensions(g),
         NEW h, h = Broadcast(f, dims)
  PROVE  /\ IsField(h) /\ Dimensions(h) \subseteq DOMAIN Window
         /\ Sound => \A p \in Points(Dimensions(h)) :
              Known(Project(p, Dimensions(f))) # UNKNOWN => At(h, p) = Known(Project(p, Dimensions(f)))
<1>1. IsField(f) /\ Dimensions(f) \subseteq dims /\ dims \subseteq DOMAIN Window
  BY OperandAssumption DEF Typed
<1>2. /\ IsField(h) /\ Dimensions(h) = dims
      /\ \A p : Integral(dims, p) => At(h, p) = At(f, p)
  <2>1. /\ IsField(h) /\ Dimensions(h) = dims
        /\ h.domain = [d \in dims |-> RangeOf(f.domain, d)]
        /\ h.arr = NewAxes(f.arr, dims)
        /\ \A p : Integral(dims, p) =>
             /\ At(h, p) = At(f, p)
             /\ Inside(h.domain, p) <=> Inside(f.domain, p)
    BY <1>1, BroadcastIsExact
  <2> QED BY <2>1
<1>3. ASSUME Sound, NEW p \in Points(Dimensions(h)), Known(Project(p, Dimensions(f))) # UNKNOWN
      PROVE  At(h, p) = Known(Project(p, Dimensions(f)))
  <2>1. Integral(dims, p)
    BY <1>1, <1>2, PointFacts
  <2> QED BY <1>2, <1>3, <2>1, <1>3, ProjectReads
<1> QED BY <1>1, <1>2, <1>3

LEMMA BuiltinSteps ==
  ASSUME Typed, NEW g \in Others, IsOk(Builtin(f, g)), NEW h, h = Builtin(f, g).val
  PROVE  /\ IsField(h) /\ Dimensions(h) \subseteq DOMAIN Window
         /\ Sound => \A p \in Points(Dimensions(h)) :
              CombineMeaning(g, p) # UNKNOWN => At(h, p) = CombineMeaning(g, p)
<1>1. IsField(f) /\ IsField(g) /\ Dimensions(f) \cup Dimensions(g) \subseteq DOMAIN Window
  BY OperandAssumption DEF Typed
<1>2. /\ IsField(h) /\ Dimensions(h) = Dimensions(f) \cup Dimensions(g)
      /\ \A p : Integral(Dimensions(h), p) =>
           At(h, p) = IF Inside(f.domain, p) /\ Inside(g.domain, p)
                      THEN Combine(At(f, p), At(g, p)) ELSE UNDEF
  BY <1>1, BuiltinIsExact
<1>3. ASSUME Sound, NEW p \in Points(Dimensions(h)), CombineMeaning(g, p) # UNKNOWN
      PROVE  At(h, p) = CombineMeaning(g, p)
  <2> DEFINE x == Known(Project(p, Dimensions(f)))
             y == At(g, p)
  <2>1. Integral(Dimensions(h), p)
    BY <1>1, <1>2, PointFacts
  <2>2. Integral(Dimensions(f), p) /\ Integral(Dimensions(g), p)
    BY <1>2, <2>1 DEF Integral
  <2>3. /\ Inside(f.domain, p) => At(f, p) \in Int
        /\ ~Inside(f.domain, p) => At(f, p) = UNDEF
        /\ Inside(g.domain, p) => y \in Int
        /\ ~Inside(g.domain, p) => y = UNDEF
    BY <1>1, <2>2, AtReads
  <2>4. x # UNKNOWN => x = At(f, p)
    BY <1>3, ProjectReads
  <2>5. CombineMeaning(g, p) = IF UNDEF \in {x, y} THEN UNDEF
                               ELSE IF x = UNKNOWN THEN UNKNOWN ELSE Combine(x, y)
    BY Zenon DEF CombineMeaning
  <2>6. At(h, p) = IF Inside(f.domain, p) /\ Inside(g.domain, p)
                   THEN Combine(At(f, p), y) ELSE UNDEF
    BY <1>2, <2>1
  <2> HIDE DEF x, y
  <2> QED BY <1>3, <2>3, <2>4, <2>5, <2>6, ValueAssumption
<1> QED BY <1>1, <1>2, <1>3

LEMMA OrthogonalPoints ==
  ASSUME NEW g, IsField(g), NEW k, IsField(k), NEW d, NEW p,
         Integral(Dimensions(g) \cup Dimensions(k), p),
         NEW orth, orth = DomainAnd(Without(g.domain, {d}), Without(k.domain, {d}))
  PROVE  /\ (\E e \in DOMAIN orth : ~InRange(p[e], orth[e])) <=> ~Orthogonal(g, k, d, p)
         /\ Orthogonal(g, k, d, p) <=> Orthogonal(k, g, d, p)
<1> DEFINE D == (Dimensions(g) \cup Dimensions(k)) \ {d}
           A == Without(g.domain, {d})
           B == Without(k.domain, {d})
<1>1. DOMAIN A = Dimensions(g) \ {d} /\ DOMAIN B = Dimensions(k) \ {d}
  BY DEF Without, Dimensions
<1>2. \A e \in D : RangeOf(A, e) = RangeOf(g.domain, e) /\ RangeOf(B, e) = RangeOf(k.domain, e)
  BY <1>1 DEF RangeOf, Without, Dimensions
<1>3. DOMAIN orth = D /\ \A e \in D : orth[e] = RangeAnd(RangeOf(A, e), RangeOf(B, e))
  BY <1>1 DEF DomainAnd
<1>4. \A e \in D : RangeOf(g.domain, e) \in Ranges /\ RangeOf(k.domain, e) \in Ranges
  BY FieldFacts, RangesNormal DEF RangeOf, Dimensions
<1>5. \A e \in D : p[e] \in Int
  BY DEF Integral
<1>6. \A e \in D : InRange(p[e], orth[e]) <=>
        InRange(p[e], RangeOf(g.domain, e)) /\ InRange(p[e], RangeOf(k.domain, e))
  <2> HIDE DEF D, A, B
  <2> QED BY <1>2, <1>3, <1>4, <1>5, RangeAndLaws
<1>7. (\E e \in DOMAIN orth : ~InRange(p[e], orth[e])) <=> ~Orthogonal(g, k, d, p)
  BY <1>3, <1>6 DEF Orthogonal
<1>8. Orthogonal(g, k, d, p) <=> Orthogonal(k, g, d, p)
  BY Zenon DEF Orthogonal
<1> QED BY <1>7, <1>8

(* concat_where with the operand that is chosen where the condition holds  *)
(* and the other.                                                          *)
LEMMA ConcatWhereReads ==
  ASSUME NEW t, IsField(t), NEW k, IsField(k), NEW c \in Conditions, IsOk(ConcatWhere(c, t, k)),
         NEW h, h = ConcatWhere(c, t, k).val, NEW d, d = OnlyDim(c)
  PROVE  /\ IsField(h) /\ Dimensions(h) = Dimensions(t) \cup Dimensions(k)
         /\ \A p : Integral(Dimensions(h), p) =>
              At(h, p) = IF ~Orthogonal(t, k, d, p) THEN UNDEF
                         ELSE IF InRange(p[d], c[d]) THEN At(t, p) ELSE At(k, p)
<1>1. IsFiniteSet(DOMAIN c) /\ \A e \in DOMAIN c : c[e] \in Ranges
  BY ConditionsAssumption
<1> QED BY <1>1, ConcatWhereIsExact

LEMMA ConcatWhereMeant ==
  ASSUME Typed, NEW g \in Others, NEW c \in Conditions, NEW first \in BOOLEAN,
         NEW res, res = IF first THEN ConcatWhere(c, f, g) ELSE ConcatWhere(c, g, f),
         IsOk(res), NEW h, h = res.val
  PROVE  /\ IsField(h) /\ Dimensions(h) \subseteq DOMAIN Window
         /\ Sound => \A p \in Points(Dimensions(h)) :
              Chosen(c, g, first, p) # UNKNOWN => At(h, p) = Chosen(c, g, first, p)
<1> DEFINE d == OnlyDim(c)
           D == Dimensions(f) \cup Dimensions(g)
<1>1. IsField(f) /\ IsField(g) /\ D \subseteq DOMAIN Window
  BY OperandAssumption DEF Typed
<1>2. /\ IsField(h) /\ Dimensions(h) = D
      /\ \A p : Integral(D, p) =>
           At(h, p) = IF ~Orthogonal(f, g, d, p) THEN UNDEF
                      ELSE IF InRange(p[d], c[d]) <=> first THEN At(f, p) ELSE At(g, p)
  <2>1. CASE first
    <3>1. IsOk(ConcatWhere(c, f, g)) /\ h = ConcatWhere(c, f, g).val
      BY <2>1
    <3>2. /\ IsField(h) /\ Dimensions(h) = Dimensions(f) \cup Dimensions(g)
          /\ \A p : Integral(Dimensions(h), p) =>
               At(h, p) = IF ~Orthogonal(f, g, d, p) THEN UNDEF
                          ELSE IF InRange(p[d], c[d]) THEN At(f, p) ELSE At(g, p)
      BY <1>1, <3>1, ConcatWhereReads
    <3> HIDE DEF d
    <3> QED BY <2>1, <3>2
  <2>2. CASE ~first
    <3>1. IsOk(ConcatWhere(c, g, f)) /\ h = ConcatWhere(c, g, f).val
      BY <2>2
    <3>2. /\ IsField(h) /\ Dimensions(h) = Dimensions(g) \cup Dimensions(f)
          /\ \A p : Integral(Dimensions(h), p) =>
               At(h, p) = IF ~Orthogonal(g, f, d, p) THEN UNDEF
                          ELSE IF InRange(p[d], c[d]) THEN At(g, p) ELSE At(f, p)
      BY <1>1, <3>1, ConcatWhereReads
    <3>3. \A p : Integral(D, p) => (Orthogonal(f, g, d, p) <=> Orthogonal(g, f, d, p))
      BY <1>1, OrthogonalPoints
    <3>4. Dimensions(h) = D
      BY <3>2
    <3> HIDE DEF d, D
    <3> QED BY <2>2, <3>2, <3>3, <3>4
  <2> QED BY <2>1, <2>2
<1>3. ASSUME Sound, NEW p \in Points(Dimensions(h)), Chosen(c, g, first, p) # UNKNOWN
      PROVE  At(h, p) = Chosen(c, g, first, p)
  <2> DEFINE orth == DomainAnd(Without(f.domain, {d}), Without(g.domain, {d}))
             off == \E e \in DOMAIN orth : ~InRange(p[e], orth[e])
             x == Known(Project(p, Dimensions(f)))
  <2>1. Integral(D, p)
    BY <1>1, <1>2, PointFacts
  <2>2. Chosen(c, g, first, p) =
          IF off THEN UNDEF ELSE IF InRange(p[d], c[d]) = first THEN x ELSE At(g, p)
    BY Zenon DEF Chosen
  <2>3. InRange(p[d], c[d]) \in BOOLEAN
    BY DEF InRange
  <2>4. (InRange(p[d], c[d]) = first) <=> (InRange(p[d], c[d]) <=> first)
    BY <2>3, Zenon
  <2>5. x # UNKNOWN => x = At(f, p)
    BY <1>3, ProjectReads
  <2>6. off <=> ~Orthogonal(f, g, d, p)
    BY <1>1, <2>1, OrthogonalPoints
  <2>7. At(h, p) = IF ~Orthogonal(f, g, d, p) THEN UNDEF
                   ELSE IF InRange(p[d], c[d]) <=> first THEN At(f, p) ELSE At(g, p)
    BY <1>2, <2>1
  <2> HIDE DEF off, x, d
  <2> QED BY <1>3, <2>2, <2>4, <2>5, <2>6, <2>7
<1> QED BY <1>1, <1>2, <1>3

LEMMA SetItemSteps ==
  ASSUME Typed, NEW g \in Others, Dimensions(g) = Dimensions(f), IsOk(SetItem(f, g.domain, g)),
         NEW h, h = SetItem(f, g.domain, g).val
  PROVE  /\ IsField(h) /\ Dimensions(h) \subseteq DOMAIN Window
         /\ Sound /\ ~Partial(f, g) => \A p \in Points(Dimensions(h)) :
              LET r == IF At(g, p) = UNDEF THEN ref[p] ELSE At(g, p)
              IN  r # UNKNOWN => At(h, p) = r
<1>1. IsField(f) /\ IsField(g) /\ Dimensions(f) \subseteq DOMAIN Window
  BY OperandAssumption DEF Typed
<1>2. /\ IsField(h) /\ h.domain = f.domain
      /\ ~Partial(f, g) =>
           \A p : Integral(Dimensions(f), p) =>
             At(h, p) = IF Inside(g.domain, p) THEN At(g, p) ELSE At(f, p)
  BY <1>1, SetItemIsExact
<1>3. Dimensions(h) = Dimensions(f)
  BY <1>2 DEF Dimensions
<1>4. ASSUME Sound, ~Partial(f, g), NEW p \in Points(Dimensions(h)), NEW r,
             r = (IF At(g, p) = UNDEF THEN ref[p] ELSE At(g, p)), r # UNKNOWN
      PROVE  At(h, p) = r
  <2>1. Integral(Dimensions(f), p)
    BY <1>1, <1>3, PointFacts
  <2>2. /\ Inside(g.domain, p) => At(g, p) \in Int
        /\ ~Inside(g.domain, p) => At(g, p) = UNDEF
    BY <1>1, <2>1, AtReads
  <2>3. At(h, p) = IF Inside(g.domain, p) THEN At(g, p) ELSE At(f, p)
    BY <1>2, <1>4, <2>1
  <2>4. ref[p] # UNKNOWN => ref[p] = At(f, p)
    BY <1>3, <1>4 DEF Sound, Reads
  <2> QED BY <1>4, <2>2, <2>3, <2>4, ValueAssumption
<1> QED BY <1>1, <1>2, <1>3, <1>4

(* A point of the result and a neighbour make a point of the field.        *)
LEMMA AlongIsPoint ==
  ASSUME NEW dims, dims \subseteq DOMAIN Window, NEW axis \in dims,
         NEW p \in Points(dims \ {axis}), NEW l \in Window[axis],
         NEW q, q = Along(p, dims, axis, l)
  PROVE  q \in Points(dims)
<1>1. \A d \in dims \ {axis} : p[d] \in Window[d]
  BY PointFacts
<1>2. q \in [dims -> UNION {Window[d] : d \in dims}] /\ \A d \in dims : q[d] \in Window[d]
  BY <1>1 DEF Along
<1>3. Points(dims) = {r \in [dims -> UNION {Window[d] : d \in dims}] :
                        \A d \in dims : r[d] \in Window[d]}
  BY DEF Points, PointTable
<1> QED BY <1>2, <1>3

(* The neighbours that are summed: the reference has a value there, and    *)
(* the table does not skip them.                                           *)
Summed(p) ==
  {l \in Window[Axis] : /\ ref[Along(p, Dimensions(f), Axis, l)] # UNDEF
                        /\ At(TableField(Table), Along(p, Dimensions(f), Axis, l)) # Skip}

LEMMA SumMeant ==
  ASSUME Typed, IsOk(NeighborSum(f, Axis, Table)), NEW h, h = NeighborSum(f, Axis, Table).val
  PROVE  /\ IsField(h) /\ Dimensions(h) \subseteq DOMAIN Window
         /\ Sound /\ Aligned => \A p \in Points(Dimensions(h)) :
              SumMeaning(p) # UNKNOWN => At(h, p) = SumMeaning(p)
<1> DEFINE D == Dimensions(f)
           start == f.domain[Axis].start
           stop  == f.domain[Axis].stop
           at(p, l) == Along(p, D, Axis, l)
<1>1. /\ IsField(f) /\ D \subseteq DOMAIN Window
      /\ IsNeighborTable(Table, Axis)
  BY TableAssumption DEF Typed
<1>2. /\ IsField(h) /\ Dimensions(h) = D \ {Axis} /\ Axis \in D
      /\ Covers(f, Table) => \A p : Integral(Dimensions(h), p) =>
           At(h, p) = IF \E d \in Dimensions(h) : ~InRange(p[d], f.domain[d]) THEN UNDEF
                      ELSE SumFunction([l \in f.domain[Axis].start .. f.domain[Axis].stop - 1 |->
                                          Masked(f, Table, Along(p, Dimensions(f), Axis, l))])
  BY <1>1, NeighborSumIsExact
<1>3. Dimensions(h) \subseteq DOMAIN Window
  BY <1>1, <1>2
<1>4. ASSUME Sound, Aligned, NEW p \in Points(D \ {Axis}), SumMeaning(p) # UNKNOWN
      PROVE  At(h, p) = SumMeaning(p)
  <2> DEFINE F == [l \in start .. stop - 1 |-> Masked(f, Table, at(p, l))]
             G == [l \in Summed(p) |-> ref[at(p, l)]]
             beyond == \E d \in DOMAIN p : ~InRange(p[d], f.domain[d])
             hazy == \E l \in Summed(p) : ref[at(p, l)] = UNKNOWN
  <2>1. Integral(D \ {Axis}, p) /\ DOMAIN p = D \ {Axis}
    BY <1>1, PointFacts
  <2>2. SumMeaning(p) = IF beyond THEN UNDEF ELSE IF hazy THEN UNKNOWN ELSE SumFunction(G)
    BY Zenon DEF SumMeaning, Summed, Along, TableField
  <2>3. Covers(f, Table)
    BY <1>4 DEF Aligned, Covers
  <2>4. At(h, p) = IF beyond THEN UNDEF ELSE SumFunction(F)
    BY <1>2, <2>1, <2>3
  <2>5. CASE beyond
    BY <2>2, <2>4, <2>5
  <2>6. CASE ~beyond
    <3>1. ~hazy /\ SumMeaning(p) = SumFunction(G)
      <4> HIDE DEF beyond, hazy, G
      <4> QED BY <1>4, <2>2, <2>6
    <3>2. /\ f.domain[Axis] \in Ranges /\ IsFinite(f.domain[Axis])
          /\ f.domain[Axis] = Table.domain[Axis]
      BY <1>1, <1>2, <1>4, FieldFacts DEF Aligned, IsNeighborTable, IsTable
    <3>3. start \in Int /\ stop \in Int
      BY <3>2, FiniteRange
    <3>4. ASSUME NEW l \in Window[Axis] PROVE l \in Int /\ at(p, l) \in Points(D)
      BY <1>1, <1>2, AlongIsPoint, WindowAssumption, TableAssumption
    <3>5. \A l \in start .. stop - 1 : l \in Window[Axis]
      BY <3>2, TableAssumption
    <3>6. ASSUME NEW l \in Window[Axis]
          PROVE  /\ l \in start .. stop - 1 <=> Inside(f.domain, at(p, l))
                 /\ Inside(f.domain, at(p, l)) => At(f, at(p, l)) \in Int
                 /\ ~Inside(f.domain, at(p, l)) => At(f, at(p, l)) = UNDEF
      <4> DEFINE q == at(p, l)
      <4>1. q[Axis] = l /\ \A d \in D \ {Axis} : q[d] = p[d]
        BY <1>2 DEF Along
      <4>2. l \in Int /\ Integral(D, q)
        BY <1>1, <3>4, <3>6, PointFacts
      <4> HIDE DEF q
      <4>3. InRange(l, f.domain[Axis]) <=> l \in start .. stop - 1
        BY <3>2, <3>3, <4>2, FiniteMembers
      <4>4. Inside(f.domain, q) <=> InRange(l, f.domain[Axis])
        BY <1>2, <2>1, <2>6, <4>1, <4>2 DEF Inside, Integral, Dimensions
      <4>5. /\ Inside(f.domain, q) => At(f, q) \in Int
            /\ ~Inside(f.domain, q) => At(f, q) = UNDEF
        BY <1>1, <4>2, AtReads
      <4> QED BY <4>3, <4>4, <4>5 DEF q
    <3>7. ASSUME NEW l \in Window[Axis] PROVE ref[at(p, l)] # UNKNOWN => At(f, at(p, l)) = ref[at(p, l)]
      BY <1>4, <3>4, <3>7 DEF Sound, Reads
    <3> HIDE DEF at
    <3>8. ASSUME NEW l \in Summed(p)
          PROVE  /\ l \in start .. stop - 1 /\ l \in Int
                 /\ ref[at(p, l)] \in Int /\ Masked(f, Table, at(p, l)) = ref[at(p, l)]
      <4>1. /\ l \in Window[Axis] /\ ref[at(p, l)] # UNDEF /\ ref[at(p, l)] # UNKNOWN
            /\ At(TableField(Table), at(p, l)) # Skip
        BY <3>1, <3>8 DEF Summed, at
      <4>2. At(f, at(p, l)) = ref[at(p, l)]
        BY <3>7, <4>1
      <4> QED BY <3>4, <3>6, <4>1, <4>2 DEF Masked
    <3>9. ASSUME NEW l \in start .. stop - 1
          PROVE  /\ Masked(f, Table, at(p, l)) \in Int
                 /\ l \notin Summed(p) => Masked(f, Table, at(p, l)) = 0
      <4>1. l \in Window[Axis] /\ At(f, at(p, l)) \in Int
        BY <3>5, <3>6
      <4>2. ref[at(p, l)] # UNDEF
        BY <3>7, <4>1, ValueAssumption
      <4>3. l \notin Summed(p) => At(TableField(Table), at(p, l)) = Skip
        BY <4>1, <4>2 DEF Summed, at
      <4> QED BY <4>1, <4>3 DEF Masked
    <3>10. /\ DOMAIN F = start .. stop - 1 /\ DOMAIN G = Summed(p)
           /\ \A l \in DOMAIN F : F[l] = Masked(f, Table, at(p, l))
           /\ \A l \in DOMAIN G : G[l] = ref[at(p, l)]
      OBVIOUS
    <3> HIDE DEF F, G, start, stop
    <3>11. IsFiniteSet(DOMAIN F) /\ IsFiniteSet(DOMAIN G)
      <4>1. IsFiniteSet(start .. stop - 1)
        <5>1. stop - 1 \in Int
          BY <3>3
        <5> QED BY <3>3, <5>1, FS_Interval
      <4>2. Summed(p) \subseteq start .. stop - 1
        BY <3>8
      <4> QED BY <3>10, <4>1, <4>2, FS_Subset
    <3>12. /\ \A x \in DOMAIN F : F[x] \in Int
           /\ \A y \in DOMAIN G : G[y] \in Int
           /\ DOMAIN F \subseteq Int /\ DOMAIN G \subseteq Int
      BY <3>3, <3>8, <3>9, <3>10
    <3>13. \A y \in DOMAIN G : y - 0 \in DOMAIN F
      BY <3>8, <3>10
    <3>14. \A x \in DOMAIN F : F[x] = IF x + 0 \in DOMAIN G THEN G[x + 0] ELSE 0
      <4> SUFFICES ASSUME NEW x \in DOMAIN F
                   PROVE  F[x] = IF x + 0 \in DOMAIN G THEN G[x + 0] ELSE 0
        OBVIOUS
      <4>1. x + 0 = x
        BY <3>12
      <4>2. F[x] = IF x \in DOMAIN G THEN G[x] ELSE 0
        BY <3>8, <3>9, <3>10
      <4> QED BY <4>1, <4>2
    <3>15. SumFunction(F) = SumFunction(G)
      <4>1. 0 \in Int
        OBVIOUS
      <4> QED BY <3>11, <3>12, <3>13, <3>14, <4>1, SumShifted
    <3> QED BY <2>4, <2>6, <3>1, <3>15
  <2> QED BY <2>5, <2>6
<1> QED BY <1>2, <1>3, <1>4

(* The inductive invariant of field programs.                              *)
ProgramInv == TypeOK /\ Denotes /\ IInv

LEMMA InitProgramInv == Init => ProgramInv
<1> SUFFICES ASSUME Init PROVE ProgramInv
  OBVIOUS
<1>1. IInv
  BY InitIInv DEF Init
<1>2. IsField(f) /\ Dimensions(f) \subseteq DOMAIN Window
  BY OperandAssumption DEF Init
<1>3. steps \in 0 .. MaxOps
  BY OpsAssumption DEF Init
<1>4. Denotes
  BY DEF Init, Denotes
<1> QED BY <1>1, <1>2, <1>3, <1>4 DEF ProgramInv, TypeOK, IInv

(* What the steps of a field program have in common: the field and its     *)
(* reference stay, or are replaced together.                               *)
Replaced ==
  IsField(f') /\ Dimensions(f') \subseteq DOMAIN Window /\ (excused' = {} => Reads(f', ref'))
Stepped ==
  /\ steps < MaxOps /\ steps' = steps + 1 /\ UNCHANGED condVars
  /\ excused' = {} => excused = {}
  /\ UNCHANGED <<f, ref>> \/ Replaced

LEMMA SteppedKeeps == ProgramInv /\ Stepped => ProgramInv'
<1> SUFFICES ASSUME ProgramInv, Stepped PROVE ProgramInv'
  OBVIOUS
<1>1. IInv'
  <2>1. IInv /\ [CondNext]_condVars
    BY DEF ProgramInv, Stepped
  <2> QED BY <2>1, NextIInv
<1>2. steps' \in 0 .. MaxOps
  BY OpsAssumption DEF ProgramInv, TypeOK, Stepped
<1>3. CASE UNCHANGED <<f, ref>>
  <2>1. IsField(f)' /\ (Dimensions(f) \subseteq DOMAIN Window)'
    BY <1>3 DEF ProgramInv, TypeOK
  <2>2. Denotes'
    BY <1>3 DEF ProgramInv, Denotes, Stepped
  <2> QED BY <1>1, <1>2, <2>1, <2>2 DEF ProgramInv, TypeOK, IInv
<1>4. CASE Replaced
  <2>1. Denotes'
    BY <1>4 DEF Replaced, Reads, Denotes
  <2> QED BY <1>1, <1>2, <1>4, <2>1 DEF ProgramInv, TypeOK, IInv, Replaced
<1> QED BY <1>3, <1>4 DEF Stepped

LEMMA InvIsSound == ProgramInv => Typed /\ (excused = {} => Sound)
BY DEF ProgramInv, TypeOK, Denotes, Typed, Sound, Reads

LEMMA PremapKeeps == ProgramInv /\ DoPremap => Stepped
<1> SUFFICES ASSUME ProgramInv, NEW conns \in Premaps,
                    Apply([name |-> "premap", conns |-> conns], Premap(f, conns),
                          LAMBDA p : PremapMeaning(conns, p)),
                    UNCHANGED excused
             PROVE  Stepped
  BY DEF DoPremap
<1> DEFINE res == Premap(f, conns)
<1>1. /\ steps < MaxOps /\ steps' = steps + 1 /\ UNCHANGED condVars
      /\ IF IsOk(res)
         THEN /\ f' = res.val
              /\ ref' = [p \in Points(DOMAIN res.val.domain) |-> PremapMeaning(conns, p)]
         ELSE UNCHANGED <<f, ref>>
  BY Zenon DEF Apply
<1>2. CASE ~IsOk(res)
  BY <1>1, <1>2 DEF Stepped
<1>3. CASE IsOk(res)
  <2>1. f' = res.val /\ ref' = [p \in Points(Dimensions(f')) |-> PremapMeaning(conns, p)]
    BY <1>1, <1>3 DEF Dimensions
  <2>2. Typed /\ (excused = {} => Sound)
    BY InvIsSound
  <2> HIDE DEF res
  <2>3. /\ IsField(f') /\ Dimensions(f') \subseteq DOMAIN Window
        /\ Sound => \A p \in Points(Dimensions(f')) :
             PremapMeaning(conns, p) # UNKNOWN => At(f', p) = PremapMeaning(conns, p)
    BY <1>3, <2>1, <2>2, PremapSteps DEF res
  <2>4. Sound => Reads(f', ref')
    BY <2>1, <2>3 DEF Reads
  <2> QED BY <1>1, <2>2, <2>3, <2>4 DEF Stepped, Replaced
<1> QED BY <1>2, <1>3

LEMMA RestrictKeeps == ProgramInv /\ DoRestrict => Stepped
<1> SUFFICES ASSUME ProgramInv, NEW ix \in Indexes,
                    Apply([name |-> "restrict", ix |-> ix], RestrictAbsolute(f, ix), LAMBDA p : RestrictMeaning(ix.within, ix.at, p)),
                    UNCHANGED excused
             PROVE  Stepped
  BY DEF DoRestrict
<1> DEFINE res == RestrictAbsolute(f, ix)
<1>1. /\ steps < MaxOps /\ steps' = steps + 1 /\ UNCHANGED condVars
      /\ IF IsOk(res)
         THEN /\ f' = res.val
              /\ ref' = [p \in Points(DOMAIN res.val.domain) |-> RestrictMeaning(ix.within, ix.at, p)]
         ELSE UNCHANGED <<f, ref>>
  BY Zenon DEF Apply
<1>2. excused' = {} => excused = {}
  OBVIOUS
<1>3. CASE ~IsOk(res)
  BY <1>1, <1>2, <1>3 DEF Stepped
<1>4. CASE IsOk(res)
  <2>1. f' = res.val /\ ref' = [p \in Points(Dimensions(f')) |-> RestrictMeaning(ix.within, ix.at, p)]
    BY <1>1, <1>4 DEF Dimensions
  <2>2. Typed /\ (excused = {} => Sound)
    BY InvIsSound
  <2> HIDE DEF res
  <2>3. /\ IsField(f') /\ Dimensions(f') \subseteq DOMAIN Window
        /\ Sound => \A p \in Points(Dimensions(f')) :
             RestrictMeaning(ix.within, ix.at, p) # UNKNOWN => At(f', p) = RestrictMeaning(ix.within, ix.at, p)
    BY <1>4, <2>1, <2>2, RestrictSteps DEF res
  <2>4. Sound => Reads(f', ref')
    BY <2>1, <2>3 DEF Reads
  <2> QED BY <1>1, <1>2, <2>2, <2>3, <2>4 DEF Stepped, Replaced
<1> QED BY <1>3, <1>4

LEMMA RelativeKeeps == ProgramInv /\ DoRestrictRelative => Stepped
<1> SUFFICES ASSUME ProgramInv, NEW ix \in RelativeIxs,
                    \A d \in DOMAIN ix.within \cup DOMAIN ix.at :
                      d \in Dimensions(f) /\ IsFinite(f.domain[d]),
                    Apply([name |-> "relative", ix |-> ix], RestrictRelative(f, ix),
                          LAMBDA p : RestrictMeaning(RelativeWithin(ix), RelativeAt(ix), p)),
                    UNCHANGED excused
             PROVE  Stepped
  BY Zenon DEF DoRestrictRelative, RelativeWithin, RelativeAt, SliceMeaning
<1> DEFINE res == RestrictRelative(f, ix)
<1>1. /\ steps < MaxOps /\ steps' = steps + 1 /\ UNCHANGED condVars
      /\ IF IsOk(res)
         THEN /\ f' = res.val
              /\ ref' = [p \in Points(DOMAIN res.val.domain) |-> RestrictMeaning(RelativeWithin(ix), RelativeAt(ix), p)]
         ELSE UNCHANGED <<f, ref>>
  BY Zenon DEF Apply
<1>2. excused' = {} => excused = {}
  OBVIOUS
<1>3. CASE ~IsOk(res)
  BY <1>1, <1>2, <1>3 DEF Stepped
<1>4. CASE IsOk(res)
  <2>1. f' = res.val /\ ref' = [p \in Points(Dimensions(f')) |-> RestrictMeaning(RelativeWithin(ix), RelativeAt(ix), p)]
    BY <1>1, <1>4 DEF Dimensions
  <2>2. Typed /\ (excused = {} => Sound)
    BY InvIsSound
  <2> HIDE DEF res
  <2>3. /\ IsField(f') /\ Dimensions(f') \subseteq DOMAIN Window
        /\ Sound => \A p \in Points(Dimensions(f')) :
             RestrictMeaning(RelativeWithin(ix), RelativeAt(ix), p) # UNKNOWN => At(f', p) = RestrictMeaning(RelativeWithin(ix), RelativeAt(ix), p)
    BY <1>4, <2>1, <2>2, RelativeSteps DEF res
  <2>4. Sound => Reads(f', ref')
    BY <2>1, <2>3 DEF Reads
  <2> QED BY <1>1, <1>2, <2>2, <2>3, <2>4 DEF Stepped, Replaced
<1> QED BY <1>3, <1>4

LEMMA BroadcastKeeps == ProgramInv /\ DoBroadcast => Stepped
<1> SUFFICES ASSUME ProgramInv, NEW g \in Others, NEW dims, dims = Dimensions(f) \cup Dimensions(g),
                    Apply([name |-> "broadcast"], Ok(Broadcast(f, dims)),
                          LAMBDA p : Known(Project(p, Dimensions(f)))),
                    UNCHANGED excused
             PROVE  Stepped
  BY DEF DoBroadcast
<1> DEFINE res == Ok(Broadcast(f, dims))
<1>1. /\ steps < MaxOps /\ steps' = steps + 1 /\ UNCHANGED condVars
      /\ IF IsOk(res)
         THEN /\ f' = res.val
              /\ ref' = [p \in Points(DOMAIN res.val.domain) |-> Known(Project(p, Dimensions(f)))]
         ELSE UNCHANGED <<f, ref>>
  BY Zenon DEF Apply
<1>2. excused' = {} => excused = {}
  OBVIOUS
<1>3. CASE ~IsOk(res)
  BY <1>1, <1>2, <1>3 DEF Stepped
<1>4. CASE IsOk(res)
  <2>1. f' = res.val /\ ref' = [p \in Points(Dimensions(f')) |-> Known(Project(p, Dimensions(f)))]
    BY <1>1, <1>4 DEF Dimensions
  <2>2. Typed /\ (excused = {} => Sound)
    BY InvIsSound
  <2> HIDE DEF res
  <2>3. /\ IsField(f') /\ Dimensions(f') \subseteq DOMAIN Window
        /\ Sound => \A p \in Points(Dimensions(f')) :
             Known(Project(p, Dimensions(f))) # UNKNOWN => At(f', p) = Known(Project(p, Dimensions(f)))
    BY <1>4, <2>1, <2>2, Results, BroadcastSteps DEF res
  <2>4. Sound => Reads(f', ref')
    BY <2>1, <2>3 DEF Reads
  <2> QED BY <1>1, <1>2, <2>2, <2>3, <2>4 DEF Stepped, Replaced
<1> QED BY <1>3, <1>4

LEMMA BuiltinKeeps == ProgramInv /\ DoBuiltin => Stepped
<1> SUFFICES ASSUME ProgramInv, NEW g \in Others,
                    Apply([name |-> "builtin", other |-> g], Builtin(f, g), LAMBDA p : CombineMeaning(g, p)),
                    UNCHANGED excused
             PROVE  Stepped
  BY DEF DoBuiltin
<1> DEFINE res == Builtin(f, g)
<1>1. /\ steps < MaxOps /\ steps' = steps + 1 /\ UNCHANGED condVars
      /\ IF IsOk(res)
         THEN /\ f' = res.val
              /\ ref' = [p \in Points(DOMAIN res.val.domain) |-> CombineMeaning(g, p)]
         ELSE UNCHANGED <<f, ref>>
  BY Zenon DEF Apply
<1>2. excused' = {} => excused = {}
  OBVIOUS
<1>3. CASE ~IsOk(res)
  BY <1>1, <1>2, <1>3 DEF Stepped
<1>4. CASE IsOk(res)
  <2>1. f' = res.val /\ ref' = [p \in Points(Dimensions(f')) |-> CombineMeaning(g, p)]
    BY <1>1, <1>4 DEF Dimensions
  <2>2. Typed /\ (excused = {} => Sound)
    BY InvIsSound
  <2> HIDE DEF res
  <2>3. /\ IsField(f') /\ Dimensions(f') \subseteq DOMAIN Window
        /\ Sound => \A p \in Points(Dimensions(f')) :
             CombineMeaning(g, p) # UNKNOWN => At(f', p) = CombineMeaning(g, p)
    BY <1>4, <2>1, <2>2, BuiltinSteps DEF res
  <2>4. Sound => Reads(f', ref')
    BY <2>1, <2>3 DEF Reads
  <2> QED BY <1>1, <1>2, <2>2, <2>3, <2>4 DEF Stepped, Replaced
<1> QED BY <1>3, <1>4

LEMMA ConcatWhereKeeps == ProgramInv /\ DoConcatWhere => Stepped
<1> SUFFICES ASSUME ProgramInv, NEW g \in Others, NEW c \in Conditions, NEW first \in BOOLEAN,
                    Apply([name |-> "concat_where", other |-> g, cond |-> c, first |-> first], IF first THEN ConcatWhere(c, f, g) ELSE ConcatWhere(c, g, f), LAMBDA p : Chosen(c, g, first, p)),
                    UNCHANGED excused
             PROVE  Stepped
  BY DEF DoConcatWhere
<1> DEFINE res == IF first THEN ConcatWhere(c, f, g) ELSE ConcatWhere(c, g, f)
<1>1. /\ steps < MaxOps /\ steps' = steps + 1 /\ UNCHANGED condVars
      /\ IF IsOk(res)
         THEN /\ f' = res.val
              /\ ref' = [p \in Points(DOMAIN res.val.domain) |-> Chosen(c, g, first, p)]
         ELSE UNCHANGED <<f, ref>>
  BY Zenon DEF Apply
<1>2. excused' = {} => excused = {}
  OBVIOUS
<1>3. CASE ~IsOk(res)
  BY <1>1, <1>2, <1>3 DEF Stepped
<1>4. CASE IsOk(res)
  <2>1. f' = res.val /\ ref' = [p \in Points(Dimensions(f')) |-> Chosen(c, g, first, p)]
    BY <1>1, <1>4 DEF Dimensions
  <2>2. Typed /\ (excused = {} => Sound)
    BY InvIsSound
  <2> HIDE DEF res
  <2>3. /\ IsField(f') /\ Dimensions(f') \subseteq DOMAIN Window
        /\ Sound => \A p \in Points(Dimensions(f')) :
             Chosen(c, g, first, p) # UNKNOWN => At(f', p) = Chosen(c, g, first, p)
    BY <1>4, <2>1, <2>2, ConcatWhereMeant DEF res
  <2>4. Sound => Reads(f', ref')
    BY <2>1, <2>3 DEF Reads
  <2> QED BY <1>1, <1>2, <2>2, <2>3, <2>4 DEF Stepped, Replaced
<1> QED BY <1>3, <1>4

LEMMA NeighborSumKeeps == ProgramInv /\ DoNeighborSum => Stepped
<1> SUFFICES ASSUME ProgramInv,
                    Apply([name |-> "neighbor_sum"], NeighborSum(f, Axis, Table), SumMeaning),
                    excused' = IF Aligned THEN excused ELSE excused \cup {"sum"}
             PROVE  Stepped
  BY DEF DoNeighborSum
<1> DEFINE res == NeighborSum(f, Axis, Table)
<1>1. /\ steps < MaxOps /\ steps' = steps + 1 /\ UNCHANGED condVars
      /\ IF IsOk(res)
         THEN /\ f' = res.val
              /\ ref' = [p \in Points(DOMAIN res.val.domain) |-> SumMeaning(p)]
         ELSE UNCHANGED <<f, ref>>
  BY Zenon DEF Apply
<1>2. excused' = {} => excused = {} /\ Aligned
  OBVIOUS
<1>3. CASE ~IsOk(res)
  BY <1>1, <1>2, <1>3 DEF Stepped
<1>4. CASE IsOk(res)
  <2>1. f' = res.val /\ ref' = [p \in Points(Dimensions(f')) |-> SumMeaning(p)]
    BY <1>1, <1>4 DEF Dimensions
  <2>2. Typed /\ (excused = {} => Sound)
    BY InvIsSound
  <2> HIDE DEF res
  <2>3. /\ IsField(f') /\ Dimensions(f') \subseteq DOMAIN Window
        /\ Sound /\ Aligned => \A p \in Points(Dimensions(f')) :
             SumMeaning(p) # UNKNOWN => At(f', p) = SumMeaning(p)
    BY <1>4, <2>1, <2>2, SumMeant DEF res
  <2>4. Sound /\ Aligned => Reads(f', ref')
    BY <2>1, <2>3 DEF Reads
  <2> QED BY <1>1, <1>2, <2>2, <2>3, <2>4 DEF Stepped, Replaced
<1> QED BY <1>3, <1>4

LEMMA SetItemKeeps == ProgramInv /\ DoSetItem => Stepped
<1> SUFFICES ASSUME ProgramInv, NEW g \in Others, Dimensions(g) = Dimensions(f),
                    Apply([name |-> "setitem", other |-> g], SetItem(f, g.domain, g),
                          LAMBDA p : IF At(g, p) = UNDEF THEN ref[p] ELSE At(g, p)),
                    excused' = IF Partial(f, g) THEN excused \cup {"write"} ELSE excused
             PROVE  Stepped
  BY DEF DoSetItem, Partial
<1> DEFINE res == SetItem(f, g.domain, g)
<1>1. /\ steps < MaxOps /\ steps' = steps + 1 /\ UNCHANGED condVars
      /\ IF IsOk(res)
         THEN /\ f' = res.val
              /\ ref' = [p \in Points(DOMAIN res.val.domain) |-> (IF At(g, p) = UNDEF THEN ref[p] ELSE At(g, p))]
         ELSE UNCHANGED <<f, ref>>
  BY Zenon DEF Apply
<1>2. excused' = {} => excused = {} /\ ~Partial(f, g)
  OBVIOUS
<1>3. CASE ~IsOk(res)
  BY <1>1, <1>2, <1>3 DEF Stepped
<1>4. CASE IsOk(res)
  <2>1. f' = res.val /\ ref' = [p \in Points(Dimensions(f')) |-> (IF At(g, p) = UNDEF THEN ref[p] ELSE At(g, p))]
    BY <1>1, <1>4 DEF Dimensions
  <2>2. Typed /\ (excused = {} => Sound)
    BY InvIsSound
  <2> HIDE DEF res
  <2>3. /\ IsField(f') /\ Dimensions(f') \subseteq DOMAIN Window
        /\ Sound /\ ~Partial(f, g) => \A p \in Points(Dimensions(f')) :
             (IF At(g, p) = UNDEF THEN ref[p] ELSE At(g, p)) # UNKNOWN => At(f', p) = (IF At(g, p) = UNDEF THEN ref[p] ELSE At(g, p))
    BY <1>4, <2>1, <2>2, SetItemSteps DEF res
  <2>4. Sound /\ ~Partial(f, g) => Reads(f', ref')
    BY <2>1, <2>3 DEF Reads
  <2> QED BY <1>1, <1>2, <2>2, <2>3, <2>4 DEF Stepped, Replaced
<1> QED BY <1>3, <1>4

LEMMA NextProgramInv == ProgramInv /\ [Next]_vars => ProgramInv'
<1> SUFFICES ASSUME ProgramInv, [Next]_vars PROVE ProgramInv'
  OBVIOUS
<1>1. CASE DoPremap \/ DoRestrict \/ DoRestrictRelative \/ DoBroadcast
  BY <1>1, PremapKeeps, RestrictKeeps, RelativeKeeps, BroadcastKeeps, SteppedKeeps
<1>2. CASE DoBuiltin \/ DoConcatWhere \/ DoNeighborSum \/ DoSetItem
  BY <1>2, BuiltinKeeps, ConcatWhereKeeps, NeighborSumKeeps, SetItemKeeps, SteppedKeeps
<1>3. ASSUME [CondNext]_condVars, UNCHANGED <<f, ref, steps, excused>> PROVE ProgramInv'
  <2>1. IInv'
    BY <1>3, NextIInv DEF ProgramInv
  <2>2. Denotes'
    BY <1>3 DEF ProgramInv, Denotes
  <2>3. IsField(f)' /\ (Dimensions(f) \subseteq DOMAIN Window)' /\ (steps \in 0 .. MaxOps)'
    BY <1>3 DEF ProgramInv, TypeOK
  <2> QED BY <2>1, <2>2, <2>3 DEF ProgramInv, TypeOK, IInv
<1>4. CASE BuildCondition
  BY <1>3, <1>4 DEF BuildCondition
<1>5. CASE UNCHANGED vars
  BY <1>3, <1>5 DEF vars
<1> QED BY <1>1, <1>2, <1>4, <1>5 DEF Next

(* Every field that embedded execution reaches passes the assertions of    *)
(* from_array and has normalised ranges, for every set of fields,          *)
(* connectivities and indexes and every number of operations.              *)
THEOREM FieldsWellFormed == Spec => []TypeOK
<1>1. ProgramInv => TypeOK
  BY DEF ProgramInv
<1> QED BY InitProgramInv, NextProgramInv, <1>1, PTL DEF Spec

(* The buffers, slices and offsets of next/embedded compute what the field *)
(* operations mean: whatever sequence of shifts, relocations, gathers,     *)
(* restrictions, broadcasts, pointwise operations, concat_where,           *)
(* reductions and assignments was applied, in windows of every size.       *)
THEOREM FieldsDenote == Spec => []Denotes
<1>1. ProgramInv => Denotes
  BY DEF ProgramInv
<1> QED BY InitProgramInv, NextProgramInv, <1>1, PTL DEF Spec

(* The conditions of a program select the points their operators say,      *)
(* beside the field programs.                                              *)
THEOREM ProgramConditionsAreExact == Spec => []ConditionHolds
<1>1. ProgramInv => ConditionHolds
  BY DEF ProgramInv, IInv
<1> QED BY InitProgramInv, NextProgramInv, <1>1, PTL DEF Spec
=============================================================================
