SPECIFICATION FairSpec
CONSTANTS
  t1 = t1  t2 = t2  p1 = p1  p2 = p2  v1 = v1  v2 = v2
  None = None
  Threads = {t1, t2}
  Pools = {p1}
  Variants = {v1}
  PoolOf <- OneVariant
  Futures = {f1, f2}
  Runners = {r1}
  Modes = {"thread", "process"}
  Callable <- OnlyOne
  Waiters = {t2}
INVARIANTS WaitIsBarrier TrackedUntilDone NoSpuriousError
PROPERTY WaitReturns
