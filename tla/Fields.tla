------------------------------- MODULE Fields -------------------------------
(***************************************************************************)
(* The operations of embedded array fields (next/embedded/common.py,       *)
(* next/embedded/nd_array_field.py).  A field is a domain and a 0-based    *)
(* array with an axis per dimension; an axis of one element stands for its *)
(* whole range.  Arrays have named axes, so transpositions are abstracted. *)
(***************************************************************************)
EXTENDS Domains, Arrays, FiniteSetsExt, SequencesExt

CONSTANTS
  Local,      \* the local dimensions (neighbours)
  Base        \* of each staggered dimension, the dimension it belongs to

ASSUME NoneAssumption == None \notin Bounds

Dimensions(f) == DOMAIN f.domain
IsInt(x) == x \notin Infinity \cup {None}

(* promote_dims refuses two local dimensions, and a dimension together     *)
(* with its staggered counterpart.                                         *)
AsNonStaggered(d) == IF d \in DOMAIN Base THEN Base[d] ELSE d
CanPromote(dims) ==
  /\ Cardinality(dims \cap Local) <= 1
  /\ \A d, e \in dims : AsNonStaggered(d) = AsNonStaggered(e) => d = e

(* The assertions of from_array; an open range has no length to compare.   *)
FromArray(a, dom) ==
  IF DOMAIN a.shape # DOMAIN dom THEN Raise("AssertionError")
  ELSE IF \E d \in DOMAIN dom : a.shape[d] # 1 /\ ~IsFinite(dom[d])
  THEN Raise("OpenRange")
  ELSE IF \E d \in DOMAIN dom : a.shape[d] # 1 /\ RangeLen(dom[d]) # a.shape[d]
  THEN Raise("AssertionError")
  ELSE Ok([domain |-> dom, arr |-> a])

(* A field of integers whose ranges are normalised.                        *)
IsField(f) ==
  /\ \A d \in Dimensions(f) : f.domain[d] \in Ranges
  /\ IsArray(f.arr)
  /\ IsOk(FromArray(f.arr, f.domain))

-----------------------------------------------------------------------------
(* restrict.  An index gives ranges ("within") to some dimensions and      *)
(* integers ("at") to others.                                              *)

On(ix, dom) == [within |-> [d \in DOMAIN ix.within \cap DOMAIN dom |-> ix.within[d]],
                at     |-> [d \in DOMAIN ix.at \cap DOMAIN dom |-> ix.at[d]]]

SubDomain(dom, within, at) ==
  [d \in DOMAIN dom \ DOMAIN at |-> IF d \in DOMAIN within THEN within[d] ELSE dom[d]]

AbsoluteSubDomain(dom, ix) ==
  IF \/ \E d \in DOMAIN ix.within : ~RangeWithin(ix.within[d], dom[d])
     \/ \E d \in DOMAIN ix.at : ~InRange(ix.at[d], dom[d])
  THEN Raise("IndexOutOfBounds")
  ELSE Ok(SubDomain(dom, ix.within, ix.at))

(* The slice of the buffer of a range that corresponds to a range in it.   *)
ComputeSlice(r, whole) ==
  [lo |-> IF LeftFinite(whole) THEN Minus(r.start, whole.start) ELSE None,
   hi |-> IF RightFinite(whole) THEN Minus(r.stop, whole.start) ELSE None]

SlicesFromDomain(dom, sub) ==
  [d \in DOMAIN sub \cap DOMAIN dom |-> ComputeSlice(sub[d], dom[d])]

NoIndex == [d \in {} |-> 0]

Cut(a, dom, sub) == Subscript(a, SlicesFromDomain(dom, sub), NoIndex, IsInt)

RestrictAbsolute(f, index) ==
  LET ix == On(index, f.domain) IN
  Then(AbsoluteSubDomain(f.domain, ix), LAMBDA sub :
    IF DOMAIN ix.at # {} /\ ~DomainIsFinite(f.domain) THEN Raise("AssertionError")
    ELSE Then(Subscript(f.arr, SlicesFromDomain(f.domain, ix.within),
                        [d \in DOMAIN ix.at |-> ix.at[d] - f.domain[d].start], IsInt),
              LAMBDA a : FromArray(a, sub)))

(* A relative slice of a finite range: a stop of 0 counts as an omitted    *)
(* one (`slice_obj.stop or len(input_range)`).                             *)
SliceRange(r, s) ==
  LET start == IF s.lo = None THEN r.start
               ELSE (IF s.lo >= 0 THEN r.start ELSE r.stop) + s.lo
      stop  == IF s.hi \in {None, 0} THEN r.start + RangeLen(r)
               ELSE (IF s.hi > 0 THEN r.start ELSE r.stop) + s.hi
  IN  IF start < r.start \/ stop > r.stop THEN Raise("IndexOutOfBounds")
      ELSE Ok(UnitRange(start, stop))

RelativeSubDomain(dom, ix) ==
  LET position(d) == (IF ix.at[d] >= 0 THEN dom[d].start ELSE dom[d].stop) + ix.at[d]
      sliced == [d \in DOMAIN ix.within |-> SliceRange(dom[d], ix.within[d])]
  IN  IF \/ \E d \in DOMAIN sliced : ~IsOk(sliced[d])
         \/ \E d \in DOMAIN ix.at : ~InRange(position(d), dom[d])
      THEN Raise("IndexOutOfBounds")
      ELSE Ok(SubDomain(dom, [d \in DOMAIN sliced |-> sliced[d].val], ix.at))

(* The buffer is indexed with the relative index itself.                   *)
RestrictRelative(f, ix) ==
  Then(RelativeSubDomain(f.domain, ix), LAMBDA sub :
    Then(Subscript(f.arr, ix.within, ix.at, IsInt), LAMBDA a : FromArray(a, sub)))

(* f[within] = value for a field: the domains must agree; the slice of the *)
(* buffer is overwritten with the value's buffer, broadcast.               *)
SetItem(f, within, value) ==
  Then(AbsoluteSubDomain(f.domain, [within |-> within, at |-> NoIndex]), LAMBDA sub :
    IF value.domain # sub THEN Raise("ValueError")
    ELSE Then(Cut(f.arr, f.domain, within), LAMBDA target :
      Then(BroadcastTo(value.arr, target.shape), LAMBDA v :
        LET s == SlicesFromDomain(f.domain, within)
            n == f.arr.shape
            lo(d) == IF d \in DOMAIN s THEN Low(s[d], n[d]) ELSE 0
            written(i) == \A d \in DOMAIN n : lo(d) <= i[d] /\ i[d] < lo(d) + target.shape[d]
        IN  Ok([domain |-> f.domain, arr |-> Array(n, LAMBDA i :
                  IF written(i) THEN v.at[[d \in DOMAIN n |-> i[d] - lo(d)]]
                                ELSE f.arr.at[i])]))))

-----------------------------------------------------------------------------
(* Pointwise operations and concat_where *)

Broadcast(f, dims) ==
  [domain |-> [d \in dims |-> RangeOf(f.domain, d)], arr |-> NewAxes(f.arr, dims)]

(* An operand of a pointwise operation, cut to the common domain.          *)
Operand(f, dom) ==
  IF f.domain = dom THEN Ok(f.arr)
  ELSE LET g == Broadcast(f, DOMAIN dom) IN Cut(g.arr, g.domain, dom)

(* A builtin of two operands; Combine tells them apart.                    *)
Combine(x, y) == 3 * x + y
Builtin(f, g) ==
  LET dom == DomainAnd(f.domain, g.domain) IN
  IF ~CanPromote(DOMAIN dom) THEN Raise("ValueError")
  ELSE Then(Operand(f, dom), LAMBDA a :
    Then(Operand(g, dom), LAMBDA b :
      Then(Elementwise(a, b, Combine), LAMBDA c : FromArray(c, dom))))

(* f cut to its intersection with g in all dimensions but the ignored one. *)
IntersectField(f, g, dims, ignored) ==
  LET h   == Broadcast(f, dims)
      sub == RestrictToIntersection(h.domain, Broadcast(g, dims).domain, {ignored})
  IN  Then(Cut(h.arr, h.domain, sub), LAMBDA a : FromArray(a, sub))

(* The pieces lie side by side in the order of their starts.               *)
Start(f, d) == f.domain[d].start
Stop(f, d)  == f.domain[d].stop
Precedes(f, g, d) == Lt(Start(f, d), Start(g, d))
Neighbours(f, g, d, pieces) ==
  Precedes(f, g, d) /\ ~\E h \in pieces : Precedes(f, h, d) /\ Precedes(h, g, d)
First(pieces, d) == CHOOSE f \in pieces : ~\E g \in pieces : Precedes(g, f, d)
Final(pieces, d) == CHOOSE f \in pieces : ~\E g \in pieces : Precedes(f, g, d)

Concat(pieces, d) ==
  IF \E f \in pieces : d \notin Dimensions(f) THEN Raise("KeyError")
  ELSE IF \E f, g \in pieces : Neighbours(f, g, d, pieces) /\ Lt(Start(g, d), Stop(f, d))
  THEN Raise("ValueError")
  ELSE IF \E f, g \in pieces : Neighbours(f, g, d, pieces) /\ Lt(Stop(f, d), Start(g, d))
  THEN Raise("NonContiguousDomain")
  ELSE IF \E f \in pieces : ~DomainIsFinite(f.domain) THEN Raise("OpenRange")
  ELSE LET first  == First(pieces, d)
           origin == Start(first, d)
           dom    == [first.domain EXCEPT ![d] = UnitRange(origin, Stop(Final(pieces, d), d))]
           shape  == [e \in DOMAIN dom |-> RangeLen(dom[e])]
           full == [f \in pieces |->
                      BroadcastTo(f.arr, [e \in DOMAIN dom |-> RangeLen(f.domain[e])])]
           owner(i) == CHOOSE f \in pieces : InRange(origin + i[d], f.domain[d])
       IN  IF \E f \in pieces : ~IsOk(full[f]) THEN Raise("ShapeError")
           ELSE FromArray(Array(shape, LAMBDA i :
                  LET f == owner(i)
                  IN  full[f].val.at[[i EXCEPT ![d] = @ - (Start(f, d) - origin)]]), dom)

EmptyField(dims) ==
  [domain |-> [d \in dims |-> UnitRange(0, 0)], arr |-> Array([d \in dims |-> 0], LAMBDA i : 0)]

(* The dimensions of the fields, and then the one of the condition, must   *)
(* go together.                                                            *)
ConcatWhere(cond, t, f) ==
  LET d == OnlyDim(cond)
      dims == Dimensions(t) \cup Dimensions(f)
  IN
  IF Cardinality(DOMAIN cond) # 1 THEN Raise("NotImplementedError")
  ELSE IF ~CanPromote(dims) THEN Raise("ValueError")
  ELSE Then(IntersectField(t, f, dims, d), LAMBDA tb :
    Then(IntersectField(f, t, dims, d), LAMBDA fb :
      IF ~CanPromote(dims \cup {d}) THEN Raise("ValueError") ELSE
      LET cut(g, r) ==
            LET dom == DomainAnd(g.domain, [e \in {d} |-> r])
            IN  IF DomainIsEmpty(dom) THEN {}
                ELSE {RestrictAbsolute(g, [within |-> dom, at |-> NoIndex])}
          slices == cut(tb, cond[d]) \cup UNION {cut(fb, r) : r \in InvertRange(cond[d])}
      IN  IF \E s \in slices : ~IsOk(s) THEN CHOOSE s \in slices : ~IsOk(s)
          ELSE IF slices = {} THEN Ok(EmptyField(dims))
          ELSE Concat({s.val : s \in slices}, d)))

-----------------------------------------------------------------------------
(* premap.  A connectivity is a shift by half cells, a relocation to       *)
(* another dimension, or a table (gather).                                 *)

FlipStaggered(d) == IF d \in DOMAIN Base THEN Base[d]
                    ELSE CHOOSE h \in DOMAIN Base : Base[h] = d

(* connectivity_for_cartesian_shift: a staggered index lies half a cell    *)
(* below the index of its base.                                            *)
OffsetFloor(c) == IF c.kind = "relocation" THEN 0 ELSE c.halves \div 2
Offset(c) == CASE c.kind = "relocation" -> 0
               [] c.kind = "shift" ->
                    c.halves \div 2 + (IF c.halves % 2 = 1 /\ c.dim \notin DOMAIN Base
                                       THEN 1 ELSE 0)
Codomain(c) == IF c.kind = "shift" /\ c.halves % 2 = 1 THEN FlipStaggered(c.dim)
               ELSE IF c.kind = "shift" THEN c.dim ELSE c.codomain
IsGather(c) == c.kind = "gather"
ConnDims(c) == IF IsGather(c) THEN DOMAIN c.domain ELSE {c.dim}

(* What a dimension of the field is called after the first n connectivities. *)
Renamed(conns, n, e) ==
  IF \E k \in 1 .. n : Codomain(conns[k]) = e
  THEN conns[CHOOSE k \in 1 .. n : Codomain(conns[k]) = e].dim ELSE e

(* A translation relabels the domain, connectivity by connectivity, and    *)
(* keeps the buffer.  A new dimension must not be there already.           *)
DomainPremap(f, conns) ==
  LET to(e) == Renamed(conns, Len(conns), e)
      dims  == {to(e) : e \in Dimensions(f)}
      from(d) == CHOOSE e \in Dimensions(f) : to(e) = d
      moved(e) == {k \in DOMAIN conns : Codomain(conns[k]) = e}
      rng(e) == IF moved(e) = {} THEN f.domain[e]
                ELSE RangeShift(f.domain[e], -Offset(conns[CHOOSE k \in moved(e) : TRUE]))
  IN  IF \E k \in DOMAIN conns : \E e \in Dimensions(f) \ {Codomain(conns[k])} :
           Renamed(conns, k - 1, e) = conns[k].dim
      THEN Raise("NotImplementedError")
      ELSE FromArray(Array([d \in dims |-> f.arr.shape[from(d)]],
                           LAMBDA i : f.arr.at[[e \in Dimensions(f) |-> i[to(e)]]]),
                     [d \in dims |-> rng(from(d))])

(* The smallest box of table positions that holds all the ones that point  *)
(* into the range, if the rest of it is skipped positions.                 *)
Skip == -1
HasBox(c, r) ==
  LET sel == {i \in DOMAIN c.table.at : InRange(c.table.at[i], r)}
  IN  sel # {} /\ \A i \in DOMAIN c.table.at :
        (\A d \in DOMAIN i : i[d] \in Min({j[d] : j \in sel}) .. Max({j[d] : j \in sel}))
          => i \in sel \/ (c.skips /\ c.table.at[i] = Skip)

InverseImage(c, r) ==
  LET sel == {i \in DOMAIN c.table.at : InRange(c.table.at[i], r)}
  IN  [d \in DOMAIN c.domain |->
         RangeSlice(c.domain[d], Min({j[d] : j \in sel}), Max({j[d] : j \in sel}) + 1)]

(* The domain of a gather: each codomain is replaced by the dimensions of  *)
(* its connectivity, dimensions they share are intersected.  The first     *)
(* connectivity without an inverse image raises.                           *)
Removed(conns) == {Codomain(conns[k]) : k \in {j \in DOMAIN conns :
                                           Codomain(conns[j]) \notin ConnDims(conns[j])}}
GatherDomain(fdom, conns) ==
  LET image(k) == fdom[conns[k].codomain]
      bad == {k \in DOMAIN conns : ~IsFinite(image(k)) \/ ~HasBox(conns[k], image(k))}
      ranges(d) == {InverseImage(conns[k], image(k))[d] :
                      k \in {j \in DOMAIN conns : d \in ConnDims(conns[j])}}
                   \cup (IF d \in DOMAIN fdom THEN {fdom[d]} ELSE {})
  IN  IF bad # {}
      THEN Raise(IF IsFinite(image(Min(bad))) THEN "NoBox" ELSE "AssertionError")
      ELSE Ok([d \in (DOMAIN fdom \ Removed(conns))
                      \cup UNION {ConnDims(conns[k]) : k \in DOMAIN conns} |->
                 Intersection(ranges(d))])

(* The index array of a connectivity over the new domain.                  *)
RestrictTable(c, dom) ==
  LET sub == [d \in DOMAIN c.domain |-> dom[d]]
  IN  IF sub = c.domain THEN Ok(c.table)
      ELSE Then(AbsoluteSubDomain(c.domain, [within |-> sub, at |-> NoIndex]),
                LAMBDA s : Cut(c.table, c.domain, s))

GatherPremap(f, conns) ==
  Then(GatherDomain(f.domain, conns), LAMBDA dom :
    LET tables == {[cod |-> conns[k].codomain, res |-> RestrictTable(conns[k], dom)] :
                     k \in DOMAIN conns}
        shape == [d \in DOMAIN dom |-> RangeLen(dom[d])]
        n == f.arr.shape
        (* the index arrays, shifted to the buffer of the field *)
        index(i, e) ==
          (IF \E t \in tables : t.cod = e
           THEN LET t == CHOOSE t \in tables : t.cod = e
                IN  t.res.val.at[[d \in DOMAIN t.res.val.shape |-> i[d]]]
           ELSE i[e] + dom[e].start) - f.domain[e].start
    IN  IF \E t \in tables : ~IsOk(t.res)
        THEN (CHOOSE t \in tables : ~IsOk(t.res)).res
        ELSE IF ~DomainIsFinite(dom) THEN Raise("OpenRange")
        ELSE IF \/ \E e \in DOMAIN n : ~LeftFinite(f.domain[e])
                \/ \E i \in Indices(shape) : \E e \in DOMAIN n : ~InArray(index(i, e), n[e])
        THEN Raise("IndexError")
        ELSE FromArray(Array(shape, LAMBDA i :
               f.arr.at[[e \in DOMAIN n |-> Wrap(index(i, e), n[e])]]), dom))

(* The checks of premap, then the one or the other implementation.         *)
Premap(f, conns) ==
  LET gathers == {k \in DOMAIN conns : IsGather(conns[k])} IN
  IF \/ \E k \in DOMAIN conns : Codomain(conns[k]) \notin Dimensions(f)
     \/ \E j, k \in DOMAIN conns : j # k /\ Codomain(conns[j]) = Codomain(conns[k])
     \/ gathers # {} /\ gathers # DOMAIN conns
  THEN Raise("ValueError")
  ELSE IF gathers = {} THEN DomainPremap(f, conns)
  ELSE IF \E k \in DOMAIN conns :
            (Removed(conns) \cap (ConnDims(conns[k]) \ {Codomain(conns[k])})) # {}
  THEN Raise("ValueError")
  ELSE GatherPremap(f, conns)

-----------------------------------------------------------------------------
(* neighbor_sum: the values at skipped positions of the table count as 0.  *)
(* The table of the offset provider is taken whole.                        *)
NeighborSum(f, axis, c) ==
  LET v    == CHOOSE d \in DOMAIN c.domain : d # axis
      rest == Without(f.domain, {axis})
  IN
  IF axis \notin Dimensions(f) \/ axis \notin Local THEN Raise("ValueError")
  ELSE IF Cardinality(Dimensions(f) \cap Local) > 1 THEN Raise("NotImplementedError")
  ELSE IF v \notin Dimensions(f) THEN Raise("AssertionError")
  ELSE Then(Elementwise(NewAxes(c.table, Dimensions(f)), f.arr,
                        LAMBDA t, x : IF t = Skip THEN 0 ELSE x), LAMBDA m :
    FromArray(Array([d \in DOMAIN rest |-> m.shape[d]], LAMBDA i :
      SumFunction([l \in 0 .. m.shape[axis] - 1 |->
                     m.at[[d \in Dimensions(f) |-> IF d = axis THEN l ELSE i[d]]]])), rest))
=============================================================================
