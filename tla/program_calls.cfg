SPECIFICATION Spec
CONSTANTS
  None = None  Missing = Missing  t1 = t1  t2 = t2
  Threads = {t1, t2}
  KindsOf <- Mixed
  Users = {u1, u2}
  Pools = {p1}
  Variants = {v1}
SYMMETRY Alike
INVARIANTS TypeOK SampledOnce KeyIsUnset RangesAreClosed
  TakenKeyHasCause InsideIsProfiled
PROPERTY ErrorIsKept
