SPECIFICATION Spec
CONSTANTS
  t1 = t1  t2 = t2  p1 = p1  p2 = p2  v1 = v1  v2 = v2
  None = None
  Threads = {t1, t2}
  Pools = {p1, p2}
  Variants = {v1, v2}
  PoolOf <- TwoPools
  Futures = {f1, f2}
  Runners = {r1, r2}
  Modes = {"thread"}
  Callable <- Disjoint
  Waiters = {t2}
INVARIANT NoStaleRunner
