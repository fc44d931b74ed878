----------------------------- MODULE Conditions -----------------------------
(***************************************************************************)
(* The conditions of concat_where: a domain built from comparisons of      *)
(* dimensions with integers, & and | (next/common.py).  condRef is the set *)
(* of points of a window where the condition should hold.                  *)
(***************************************************************************)
EXTENDS Domains

CONSTANTS
  Window,       \* of each dimension, the positions that are compared
  Cuts,         \* values that dimensions are compared with
  CutDims,      \* the dimensions compared
  MaxCond       \* bound on the operators of a condition

ASSUME ConditionAssumption ==
  /\ Cuts \subseteq Int
  /\ CutDims \subseteq DOMAIN Window
  /\ \A d \in CutDims : Window[d] \subseteq Int
  /\ MaxCond \in Nat

VARIABLES
  cond, condRef,   \* the condition, and the points where it should hold
  condSteps,       \* operators applied so far
  nested           \* history: a union of nested ranges was taken

condVars == <<cond, condRef, condSteps, nested>>

PointTable ==
  [dims \in SUBSET DOMAIN Window |->
     {p \in [dims -> UNION {Window[d] : d \in dims}] : \A d \in dims : p[d] \in Window[d]}]
Points(dims) == PointTable[dims]
CondPoints  == Points(CutDims)
PointsOf(A) == {p \in CondPoints : \A d \in DOMAIN A : InRange(p[d], A[d])}

Everywhere == [d \in {} |-> Infinite]

(* What a comparison means.                                                *)
Holds(op, x, v) ==
  CASE op = "lt" -> x < v
    [] op = "le" -> x <= v
    [] op = "gt" -> x > v
    [] op = "ge" -> x >= v
    [] op = "eq" -> x = v
WhereHolds(d, op, v) == {p \in CondPoints : Holds(op, p[d], v)}

CondInit ==
  /\ cond = Everywhere
  /\ condRef = CondPoints
  /\ condSteps = 0
  /\ nested = FALSE

DoCompare(d, op, v) ==
  /\ condSteps = 0 /\ MaxCond > 0
  /\ condSteps' = 1
  /\ cond' = Compare(d, op, v)
  /\ condRef' = WhereHolds(d, op, v)
  /\ UNCHANGED nested

DoAnd(d, op, v) ==
  /\ condSteps > 0 /\ condSteps < MaxCond
  /\ condSteps' = condSteps + 1
  /\ cond' = DomainAnd(cond, Compare(d, op, v))
  /\ condRef' = condRef \cap WhereHolds(d, op, v)
  /\ UNCHANGED nested

(* The second range ends inside the first.                                 *)
Nested(A, B) ==
  \E d \in DOMAIN A \cap DOMAIN B :
    Lt(SecondOf(A, B, d).stop, FirstOf(A, B, d).stop)

(* A union that is refused leaves the condition as it was.                 *)
DoOr(d, op, v) ==
  LET B == Compare(d, op, v) IN
  /\ condSteps > 0 /\ condSteps < MaxCond
  /\ CanUnite(cond, B)
  /\ condSteps' = condSteps + 1
  /\ cond' = DomainOr(cond, B)
  /\ condRef' = condRef \cup WhereHolds(d, op, v)
  /\ nested' = (nested \/ Nested(cond, B))

CondNext == \E d \in CutDims, op \in Comparisons, v \in Cuts :
              DoCompare(d, op, v) \/ DoAnd(d, op, v) \/ DoOr(d, op, v)

CondSpec == CondInit /\ [][CondNext]_condVars

-----------------------------------------------------------------------------
(* The ranges of a condition are normalised: (0, 0) is the only empty one  *)
(* (UnitRange.__init__).                                                   *)
CondTypeOK ==
  /\ DOMAIN cond \subseteq CutDims
  /\ \A d \in DOMAIN cond : cond[d] \in [start : Bounds, stop : Bounds]
                            /\ cond[d] = UnitRange(cond[d].start, cond[d].stop)
  /\ condRef \subseteq CondPoints
  /\ condSteps \in 0 .. MaxCond
  /\ nested \in BOOLEAN

(* A condition built with comparisons, & and | selects exactly the points  *)
(* its operators say (Domain.__and__, Domain.__or__ and the comparisons of *)
(* Dimension), as long as no union of nested ranges was taken.             *)
ConditionHolds == ~nested => PointsOf(cond) = condRef

(* The docstring of Domain.__or__ names no such limit: "Union of           *)
(* `Domain`s, currently limited to 1D overlapping or adjacent domains."    *)
UnionIsExact == PointsOf(cond) = condRef
=============================================================================
