------------------------------- MODULE Arrays -------------------------------
(***************************************************************************)
(* What the embedded fields use of NumPy: arrays with named axes, slicing, *)
(* integer indexing, broadcasting.  An operation returns Ok(value) or      *)
(* Raise(exception).                                                       *)
(***************************************************************************)
EXTENDS Integers

CONSTANT None              \* an omitted bound of a slice

Ok(v)       == [err |-> "none", val |-> v]
Raise(e)    == [err |-> e]
IsOk(r)     == r.err = "none"
Then(r, F(_)) == IF IsOk(r) THEN F(r.val) ELSE r

(* The index tuples of a shape; an array holds a value for each.           *)
Indices(shape) ==
  {i \in [DOMAIN shape -> UNION {0 .. shape[d] - 1 : d \in DOMAIN shape}] :
     \A d \in DOMAIN shape : i[d] < shape[d]}

Array(shape, V(_)) == [shape |-> shape, at |-> [i \in Indices(shape) |-> V(i)]]

IsArray(a) ==
  /\ a.shape \in [DOMAIN a.shape -> Nat]
  /\ a.at \in [Indices(a.shape) -> Int]

(* slice(lo, hi) on an axis of n elements: negative bounds count from the  *)
(* end, bounds outside are clipped.                                        *)
Clip(x, n) == LET y == IF x < 0 THEN x + n ELSE x
              IN  IF y < 0 THEN 0 ELSE IF y > n THEN n ELSE y
Low(s, n)  == IF s.lo = None THEN 0 ELSE Clip(s.lo, n)
High(s, n) == IF s.hi = None THEN n ELSE Clip(s.hi, n)

Wrap(x, n)  == IF x < 0 THEN x + n ELSE x
InArray(x, n) == -n <= x /\ x < n

(* a[...] with slices for some axes and integers for others.  A bound that *)
(* is neither an integer nor omitted is a TypeError.                       *)
Subscript(a, slices, ints, IsInt(_)) ==
  IF \E d \in DOMAIN slices : \E x \in {slices[d].lo, slices[d].hi} : ~IsInt(x) /\ x # None
  THEN Raise("TypeError")
  ELSE IF \E d \in DOMAIN ints : ~InArray(ints[d], a.shape[d])
  THEN Raise("IndexError")
  ELSE LET n == a.shape
           lo(d) == IF d \in DOMAIN slices THEN Low(slices[d], n[d]) ELSE 0
           hi(d) == IF d \in DOMAIN slices THEN High(slices[d], n[d]) ELSE n[d]
           shape == [d \in DOMAIN n \ DOMAIN ints |->
                       IF hi(d) > lo(d) THEN hi(d) - lo(d) ELSE 0]
       IN  Ok(Array(shape, LAMBDA i :
                a.at[[d \in DOMAIN n |->
                        IF d \in DOMAIN ints THEN Wrap(ints[d], n[d]) ELSE i[d] + lo(d)]]))

(* The index an axis is read at when it is broadcast.                      *)
Stretch(a, i) == [d \in DOMAIN a.shape |-> IF a.shape[d] = 1 THEN 0 ELSE i[d]]

BroadcastTo(a, shape) ==
  IF \E d \in DOMAIN shape : a.shape[d] \notin {1, shape[d]}
  THEN Raise("ShapeError")
  ELSE Ok(Array(shape, LAMBDA i : a.at[Stretch(a, i)]))

NewAxes(a, dims) ==
  Array([d \in dims |-> IF d \in DOMAIN a.shape THEN a.shape[d] ELSE 1],
        LAMBDA i : a.at[[d \in DOMAIN a.shape |-> i[d]]])

Elementwise(a, b, Op(_, _)) ==
  IF \E d \in DOMAIN a.shape : a.shape[d] # b.shape[d] /\ 1 \notin {a.shape[d], b.shape[d]}
  THEN Raise("ShapeError")
  ELSE LET shape == [d \in DOMAIN a.shape |->
                       IF a.shape[d] = 1 THEN b.shape[d] ELSE a.shape[d]]
       IN  Ok(Array(shape, LAMBDA i : Op(a.at[Stretch(a, i)], b.at[Stretch(b, i)])))
=============================================================================
