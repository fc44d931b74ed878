--------------------------- MODULE EmbeddedFields ---------------------------
(***************************************************************************)
(* A field program in embedded execution: one field taken through a        *)
(* sequence of operations of Fields; or a condition program: a domain      *)
(* built with the operators of dimensions and domains, as the conditions   *)
(* of concat_where are.  Beside the field, ref is what it                  *)
(* should be: its value at each point of a window, computed from the       *)
(* mathematical meaning of the operations, without buffers, slices or      *)
(* offsets.  An operation that raises leaves the field as it was.          *)
(***************************************************************************)
EXTENDS Fields, Conditions

CONSTANTS
  Sources,      \* the fields a program starts with
  Others,       \* second operands
  Premaps,      \* tuples of connectivities to premap with
  Indexes,      \* absolute indexes
  RelativeIxs,  \* relative indexes
  Table, Axis,  \* the neighbour table of the offset provider, its local dimension
  Conditions,   \* conditions of concat_where
  MaxOps,       \* bound on the operations of a program
  MaxDims,      \* bound on the dimensions of a field
  UNDEF,        \* no value: outside the domain
  UNKNOWN       \* not determined: outside the window, or a skipped neighbour

(* A table fills its domain (as_connectivity allocates it over the whole   *)
(* domain); a half shift needs the other dimension of the pair.            *)
IsTable(c) ==
  /\ IsField([domain |-> c.domain, arr |-> c.table])
  /\ c.skips \in BOOLEAN
  /\ \A d \in DOMAIN c.domain : /\ d \in DOMAIN Window /\ IsFinite(c.domain[d])
                                /\ c.table.shape[d] = RangeLen(c.domain[d])
IsConn(c) ==
  \/ /\ c.kind = "shift" /\ c.halves \in Int /\ c.dim \in DOMAIN Window
     /\ c.halves % 2 = 1 => c.dim \in DOMAIN Base \/ \E h \in DOMAIN Base : Base[h] = c.dim
  \/ c.kind = "relocation" /\ c.dim \in DOMAIN Window
  \/ c.kind = "gather" /\ IsTable(c)
IsConns(conns) ==
  /\ Len(conns) \in Nat /\ DOMAIN conns = 1 .. Len(conns)
  /\ \A k \in DOMAIN conns : IsConn(conns[k])

(* An index gives a dimension a range or a position, not both.             *)
IsIndex(ix) ==
  /\ \A d \in DOMAIN ix.within : ix.within[d] \in Ranges
  /\ \A d \in DOMAIN ix.at : ix.at[d] \in Int
  /\ DOMAIN ix.within \cap DOMAIN ix.at = {}
IsRelativeIndex(ix) ==
  /\ \A d \in DOMAIN ix.within : \A x \in {ix.within[d].lo, ix.within[d].hi} : x \in Int \/ x = None
  /\ \A d \in DOMAIN ix.at : ix.at[d] \in Int
  /\ DOMAIN ix.within \cap DOMAIN ix.at = {}

(* The table of the offset provider: vertices and their neighbours.        *)
IsNeighborTable(c, axis) ==
  /\ IsTable(c)
  /\ \E v \in DOMAIN c.domain \ {axis} : DOMAIN c.domain = {axis, v}

ASSUME ValueAssumption == UNDEF \notin Int /\ UNKNOWN \notin Int /\ UNDEF # UNKNOWN
ASSUME BaseAssumption == \A h \in DOMAIN Base : Base[h] \notin DOMAIN Base
ASSUME WindowAssumption == \A d \in DOMAIN Window : Window[d] \subseteq Int
ASSUME OperandAssumption ==
  \A g \in Sources \cup Others : IsField(g) /\ Dimensions(g) \subseteq DOMAIN Window
ASSUME PremapAssumption == \A conns \in Premaps : IsConns(conns)
ASSUME IndexAssumption ==
  /\ \A ix \in Indexes : IsIndex(ix)
  /\ \A ix \in RelativeIxs : IsRelativeIndex(ix)
ASSUME ConditionsAssumption ==
  \A c \in Conditions : IsFiniteSet(DOMAIN c) /\ \A d \in DOMAIN c : c[d] \in Ranges
ASSUME TableAssumption ==
  /\ IsNeighborTable(Table, Axis)
  /\ Axis \in DOMAIN Window
  /\ \A l \in Table.domain[Axis].start .. Table.domain[Axis].stop - 1 : l \in Window[Axis]
ASSUME OpsAssumption == MaxOps \in Nat

VARIABLES
  f, ref,          \* the field, and what it should be
  out,             \* the last operation and its error, if it raised one
  steps,
  excused          \* history: which known limits the program has met

vars == <<f, ref, out, steps, excused, condVars>>

(* The value of a field at a point.                                        *)
At(g, p) ==
  IF \E d \in Dimensions(g) : ~InRange(p[d], g.domain[d]) THEN UNDEF
  ELSE g.arr.at[[d \in Dimensions(g) |->
                   IF g.arr.shape[d] = 1 THEN 0 ELSE p[d] - g.domain[d].start]]

Known(p) == IF p \in Points(Dimensions(f)) THEN ref[p] ELSE UNKNOWN
Project(p, dims) == [d \in dims |-> p[d]]

Fine == [op |-> [name |-> "done"], err |-> "none"]

Init ==
  /\ f \in Sources
  /\ ref = [p \in Points(Dimensions(f)) |-> At(f, p)]
  /\ CondInit
  /\ out = Fine
  /\ steps = 0
  /\ excused = {}

-----------------------------------------------------------------------------
(* Steps: what an operation returns, and what it means.                    *)

Apply(op, res, Meaning(_)) ==
  /\ steps < MaxOps
  /\ steps' = steps + 1
  /\ condSteps = 0
  /\ IsOk(res) => Cardinality(Dimensions(res.val)) <= MaxDims
  /\ out' = IF IsOk(res) THEN Fine ELSE [op |-> op, err |-> res.err]
  /\ IF IsOk(res)
     THEN /\ f' = res.val
          /\ ref' = [p \in Points(DOMAIN res.val.domain) |-> Meaning(p)]
     ELSE UNCHANGED <<f, ref>>
  /\ UNCHANGED condVars

(* The position of an index on the axis, in half cells.                    *)
Position(d, i) == IF d \in DOMAIN Base THEN 2 * i - 1 ELSE 2 * i
IndexAt(d, x)  == IF d \in DOMAIN Base THEN (x + 1) \div 2 ELSE x \div 2

(* Where a connectivity takes a point, or UNDEF outside its domain, or     *)
(* UNKNOWN at a skipped neighbour.                                         *)
Image(c, p) ==
  CASE c.kind = "shift" -> IndexAt(Codomain(c), Position(c.dim, p[c.dim]) + c.halves)
    [] c.kind = "relocation" -> p[c.dim]
    [] c.kind = "gather" ->
         LET t == [domain |-> c.domain, arr |-> c.table]
             x == At(t, p)
         IN  IF x = Skip /\ c.skips THEN UNKNOWN ELSE x

(* A gather along a dimension of the field stays in the field's range (the *)
(* docstring of _gather_output_domain).                                    *)
PremapMeaning(conns, p) ==
  LET moved == {Codomain(conns[k]) : k \in DOMAIN conns}
      conn(d) == CHOOSE k \in DOMAIN conns : Codomain(conns[k]) = d
      q == [d \in Dimensions(f) |-> IF d \in moved THEN Image(conns[conn(d)], p) ELSE p[d]]
      outside(d) == IsGather(conns[conn(d)]) /\ d \in DOMAIN p /\ ~InRange(p[d], f.domain[d])
  IN  IF \E d \in moved : q[d] = UNDEF \/ outside(d) THEN UNDEF
      ELSE IF \E d \in moved : q[d] = UNKNOWN THEN UNKNOWN
      ELSE Known(q)

DoPremap == \E conns \in Premaps :
  /\ Apply([name |-> "premap", conns |-> conns], Premap(f, conns),
           LAMBDA p : PremapMeaning(conns, p))
  /\ UNCHANGED excused

RestrictMeaning(within, at, p) ==
  IF \E d \in DOMAIN within \cap DOMAIN p : ~InRange(p[d], within[d]) THEN UNDEF
  ELSE Known([d \in Dimensions(f) |-> IF d \in DOMAIN at THEN at[d] ELSE p[d]])

DoRestrict == \E ix \in Indexes :
  /\ Apply([name |-> "restrict", ix |-> ix], RestrictAbsolute(f, ix),
           LAMBDA p : RestrictMeaning(ix.within, ix.at, p))
  /\ UNCHANGED excused

(* Relative indexes count from the first element, negative ones from the   *)
(* end; they are given for bounded dimensions of the field.                *)
Counted(r, x) == r.start + (IF x < 0 THEN x + RangeLen(r) ELSE x)
DoRestrictRelative == \E ix \in RelativeIxs :
  /\ \A d \in DOMAIN ix.within \cup DOMAIN ix.at : d \in Dimensions(f) /\ IsFinite(f.domain[d])
  /\ LET within == [d \in DOMAIN ix.within |->
                      LET r == f.domain[d]  s == ix.within[d]
                      IN  UnitRange(IF s.lo = None THEN r.start ELSE Counted(r, s.lo),
                                    IF s.hi = None THEN r.stop ELSE Counted(r, s.hi))]
         at == [d \in DOMAIN ix.at |-> Counted(f.domain[d], ix.at[d])]
     IN  Apply([name |-> "relative", ix |-> ix], RestrictRelative(f, ix),
               LAMBDA p : RestrictMeaning(within, at, p))
  /\ UNCHANGED excused

DoBroadcast == \E dims \in {Dimensions(f) \cup Dimensions(g) : g \in Others} :
  /\ CanPromote(dims)
  /\ Apply([name |-> "broadcast"], Ok(Broadcast(f, dims)),
           LAMBDA p : Known(Project(p, Dimensions(f))))
  /\ UNCHANGED excused

CombineMeaning(g, p) ==
  LET x == Known(Project(p, Dimensions(f)))  y == At(g, p)
  IN  IF UNDEF \in {x, y} THEN UNDEF ELSE IF x = UNKNOWN THEN UNKNOWN ELSE Combine(x, y)

DoBuiltin == \E g \in Others :
  /\ Apply([name |-> "builtin", other |-> g], Builtin(f, g),
           LAMBDA p : CombineMeaning(g, p))
  /\ UNCHANGED excused

(* The field is where the condition holds, or where it does not.           *)
Chosen(c, g, first, p) ==
  LET d == OnlyDim(c)
      orthogonal == DomainAnd(Without(f.domain, {d}), Without(g.domain, {d}))
  IN  IF \E e \in DOMAIN orthogonal : ~InRange(p[e], orthogonal[e]) THEN UNDEF
      ELSE IF InRange(p[d], c[d]) = first THEN Known(Project(p, Dimensions(f)))
      ELSE At(g, p)

DoConcatWhere == \E g \in Others, c \in Conditions, first \in BOOLEAN :
  /\ Apply([name |-> "concat_where", other |-> g, cond |-> c, first |-> first],
           IF first THEN ConcatWhere(c, f, g) ELSE ConcatWhere(c, g, f),
           LAMBDA p : Chosen(c, g, first, p))
  /\ UNCHANGED excused

(* Reductions read the whole table: the field must cover it.               *)
Aligned == /\ DOMAIN Table.domain \subseteq Dimensions(f)
           /\ \A d \in DOMAIN Table.domain : f.domain[d] = Table.domain[d]
SumMeaning(p) ==
  LET at(l)  == [d \in Dimensions(f) |-> IF d = Axis THEN l ELSE p[d]]
      row(l) == At([domain |-> Table.domain, arr |-> Table.table], at(l))
      terms  == {l \in Window[Axis] : ref[at(l)] # UNDEF /\ row(l) # Skip}
  IN  IF \E d \in DOMAIN p : ~InRange(p[d], f.domain[d]) THEN UNDEF
      ELSE IF \E l \in terms : ref[at(l)] = UNKNOWN THEN UNKNOWN
      ELSE SumFunction([l \in terms |-> ref[at(l)]])

DoNeighborSum ==
  /\ Axis \in Dimensions(f)
  /\ Apply([name |-> "neighbor_sum"], NeighborSum(f, Axis, Table), SumMeaning)
  /\ excused' = IF Aligned THEN excused ELSE excused \cup {"sum"}

(* A write reaches a whole axis of one element.                            *)
Single(g, d) == g.arr.shape[d] = 1 /\ (~IsFinite(g.domain[d]) \/ RangeLen(g.domain[d]) # 1)
DoSetItem == \E g \in Others :
  /\ Dimensions(g) = Dimensions(f)
  /\ Apply([name |-> "setitem", other |-> g], SetItem(f, g.domain, g),
           LAMBDA p : IF At(g, p) = UNDEF THEN ref[p] ELSE At(g, p))
  /\ excused' = IF \E d \in Dimensions(f) : Single(f, d) /\ g.domain[d] # f.domain[d]
                THEN excused \cup {"write"} ELSE excused

(* A condition program instead of a field program.                         *)
BuildCondition == steps = 0 /\ CondNext /\ UNCHANGED <<f, ref, out, steps, excused>>

Next == \/ DoPremap \/ DoRestrict \/ DoRestrictRelative \/ DoBroadcast \/ DoBuiltin
        \/ DoConcatWhere \/ DoNeighborSum \/ DoSetItem
        \/ BuildCondition

Spec == Init /\ [][Next]_vars

-----------------------------------------------------------------------------
(* Properties *)

(* Every field a program reaches passes the assertions of from_array       *)
(* (nd_array_field.py), and its ranges are normalised: (0, 0) is the only  *)
(* empty range.                                                            *)
TypeOK ==
  /\ IsField(f)
  /\ Dimensions(f) \subseteq DOMAIN Window
  /\ steps \in 0 .. MaxOps
  /\ CondTypeOK

(* After any sequence of shifts (whole and half cells), relocations,       *)
(* gathers, restrictions, broadcasts, pointwise operations, concat_where,  *)
(* reductions and assignments, the buffer of the field read through its    *)
(* domain is what the operations mean, and the field is defined exactly    *)
(* where that is.  Excused: a reduction over a field that does not cover   *)
(* the table, and an assignment to part of a broadcast axis.               *)
Denotes ==
  excused = {} =>
    \A p \in Points(Dimensions(f)) : ref[p] # UNKNOWN => At(f, p) = ref[p]

-----------------------------------------------------------------------------
(* Errors: an operation raises only for a reason in what was asked.        *)

Operands == {f} \cup IF "other" \in DOMAIN out.op THEN {out.op.other} ELSE {}
AllDims  == UNION {Dimensions(g) : g \in Operands}

Open(r)  == ~IsFinite(r)

(* An axis of one element whose range is bounded on a side: the slices and *)
(* positions that _compute_slice makes for it miss the element.            *)
StretchedAxis(g, d) == Single(g, d) /\ (LeftFinite(g.domain[d]) \/ RightFinite(g.domain[d]))
MissesElement(dims, err) ==
  /\ err \in {"AssertionError", "OpenRange", "ShapeError", "IndexError"}
  /\ \E g \in Operands : \E d \in Dimensions(g) \cap dims : StretchedAxis(g, d)
Trimmed == {d \in AllDims : \E g, h \in Operands : RangeOf(g.domain, d) # RangeOf(h.domain, d)}

(* Between two values along a dimension there is a point without one.      *)
Gap(d, V(_)) ==
  \E p \in Points(AllDims) :
    /\ V(p) = UNDEF
    /\ \E x \in Window[d] : x < p[d] /\ V([p EXCEPT ![d] = x]) # UNDEF
    /\ \E z \in Window[d] : p[d] < z /\ V([p EXCEPT ![d] = z]) # UNDEF

(* No box of table positions holds all that point into the range and none  *)
(* that points elsewhere.                                                  *)
NoBoxFits(c) ==
  LET pos == DOMAIN c.table.at
      into == {i \in pos : InRange(c.table.at[i], f.domain[c.codomain])}
      free == {i \in pos : c.skips /\ c.table.at[i] = Skip}
  IN  ~\E a, b \in pos :
        LET box == {i \in pos : \A d \in DOMAIN i : a[d] <= i[d] /\ i[d] <= b[d]}
        IN  into # {} /\ into \subseteq box /\ box \subseteq into \cup free

(* What the docstring of premap asks of its connectivities.                *)
Compatible(conns) ==
  LET cods == {Codomain(conns[k]) : k \in DOMAIN conns} IN
  /\ cods \subseteq Dimensions(f) /\ Cardinality(cods) = Len(conns)
  /\ \A j, k \in DOMAIN conns : IsGather(conns[j]) = IsGather(conns[k])
  /\ \A k \in DOMAIN conns : IsGather(conns[k]) =>
       ConnDims(conns[k]) \cap Removed(conns) \subseteq {Codomain(conns[k])}

(* A skipped neighbour falls before the buffer of the field.               *)
SkipsBuffer(c) ==
  c.skips /\ LET r == f.domain[c.codomain] IN ~InArray(Skip - r.start, RangeLen(r))

PremapReason(conns, err) ==
  LET gathers == \E k \in DOMAIN conns : IsGather(conns[k])
      dims == UNION {ConnDims(conns[k]) : k \in DOMAIN conns}
              \cup (Dimensions(f) \ Removed(conns)) IN
  \/ err = "ValueError" /\ ~Compatible(conns)
  \/ err = "NotImplementedError" /\ \E k \in DOMAIN conns :
       conns[k].dim \in Dimensions(f) \ {Codomain(conns[k])}
  \/ err = "NoBox" /\ \E k \in DOMAIN conns : NoBoxFits(conns[k])
  \/ err = "IndexOutOfBounds"
       /\ \A p \in Points(dims) : PremapMeaning(conns, p) \in {UNDEF, UNKNOWN}
  \/ /\ err \in {"AssertionError", "OpenRange", "IndexError"}
     /\ gathers /\ \E e \in Dimensions(f) : Open(f.domain[e])
  \/ gathers /\ MissesElement(Dimensions(f), err)
  \/ err = "IndexError" /\ \E k \in DOMAIN conns : SkipsBuffer(conns[k])

AsksOutside(ix) ==
  \E d \in Dimensions(f) :
    \/ /\ d \in DOMAIN ix.within
       /\ \/ IsFinite(f.domain[d]) /\ Open(ix.within[d])
          \/ \E x \in Window[d] : InRange(x, ix.within[d]) /\ ~InRange(x, f.domain[d])
    \/ d \in DOMAIN ix.at /\ ~InRange(ix.at[d], f.domain[d])
RestrictReason(ix, err) ==
  \/ err = "IndexOutOfBounds" /\ AsksOutside(ix)
  \/ /\ err = "AssertionError" /\ DOMAIN ix.at \cap Dimensions(f) # {}
     /\ \E e \in Dimensions(f) : Open(f.domain[e])
  \/ MissesElement(DOMAIN ix.within \cup DOMAIN ix.at, err)

RelativeReason(ix, err) ==
  LET len(d) == RangeLen(f.domain[d]) IN
  \/ /\ err = "IndexOutOfBounds"
     /\ \/ \E d \in DOMAIN ix.within : \E x \in {ix.within[d].lo, ix.within[d].hi} \ {None} :
             ~(-len(d) <= x /\ x <= len(d))
        \/ \E d \in DOMAIN ix.at : ~InArray(ix.at[d], len(d))
  \/ err = "AssertionError" /\ \E d \in DOMAIN ix.within : ix.within[d].hi = 0
  \/ MissesElement(DOMAIN ix.within \cup DOMAIN ix.at, err)

BuiltinReason(err) ==
  \/ err = "ValueError" /\ ~CanPromote(AllDims)
  \/ MissesElement(Trimmed, err)

ConcatReason(op, err) ==
  LET d == OnlyDim(op.cond) IN
  \/ err = "NotImplementedError" /\ Cardinality(DOMAIN op.cond) # 1
  \/ err = "ValueError" /\ ~CanPromote(AllDims \cup {d})
  \/ err = "KeyError" /\ d \notin AllDims
  \/ err = "NonContiguousDomain" /\ Gap(d, LAMBDA p : Chosen(op.cond, op.other, op.first, p))
  \/ err = "OpenRange" /\ \/ \E g \in Operands : Open(RangeOf(g.domain, d))
                          \/ \E e \in AllDims : \A g \in Operands : Open(RangeOf(g.domain, e))
  \/ MissesElement(Trimmed, err)

SumReason(err) ==
  \/ err = "NotImplementedError" /\ Cardinality(Dimensions(f) \cap Local) > 1
  \/ \E d \in DOMAIN Table.domain :
       IF d \notin Dimensions(f) THEN err = "AssertionError"
       ELSE IF Open(f.domain[d]) THEN err = "OpenRange"
       ELSE /\ err \in {"ShapeError", "AssertionError"}
            /\ RangeLen(f.domain[d]) # RangeLen(Table.domain[d])

SetItemReason(g, err) ==
  \/ err = "IndexOutOfBounds" /\ AsksOutside([within |-> g.domain, at |-> NoIndex])
  \/ err = "ShapeError" /\ \E d \in Dimensions(f) : Single(f, d) /\ g.domain[d] # f.domain[d]

(* An operation of next/embedded raises only for a reason that can be read *)
(* off the meaning of what was asked: connectivities or dimensions that do *)
(* not go together, a table whose image fits no box or of which nothing is *)
(* left, an index outside the field, a real hole in the result of          *)
(* concat_where, an open range that has to be stored, gathered from or     *)
(* indexed by position, a reduction that does not cover the table.  Beside *)
(* these the code has three limits that explain errors:                    *)
(*   - an axis of one element that stands for a range and is cut, gathered *)
(*     from or assigned to in part (_compute_slice, _identity_index_array);*)
(*   - a relative slice with stop 0, which counts as no stop: the domain   *)
(*     and the buffer disagree in from_array (_slice_range);               *)
(*   - a skipped neighbour that falls before the buffer (_gather_premap),  *)
(*     which the comment in premap rules out: see SkippedWrapsAround.      *)
ErrorHasReason ==
  LET op == out.op  err == out.err IN
  err # "none" =>
    CASE op.name = "premap"       -> PremapReason(op.conns, err)
      [] op.name = "restrict"     -> RestrictReason(op.ix, err)
      [] op.name = "relative"     -> RelativeReason(op.ix, err)
      [] op.name = "builtin"      -> BuiltinReason(err)
      [] op.name = "concat_where" -> ConcatReason(op, err)
      [] op.name = "neighbor_sum" -> SumReason(err)
      [] op.name = "setitem"      -> SetItemReason(op.other, err)
      [] OTHER -> FALSE

(* A skipped neighbour never makes a gather fail: the comment in premap    *)
(* says "if we assume the indexed array has at least one element, we wrap  *)
(* around without out of bounds access".                                   *)
SkippedWrapsAround ==
  out.op.name = "premap" /\ out.err = "IndexError" =>
    \E d \in Dimensions(f) : Single(f, d)
=============================================================================
