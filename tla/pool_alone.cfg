SPECIFICATION Spec
CONSTANTS
  t1 = t1  t2 = t2  p1 = p1  p2 = p2  v1 = v1  v2 = v2
  None = None
  Threads = {t1}
  Pools = {p1}
  Variants = {v1, v2}
  PoolOf <- SamePool
  Futures = {f1, f2, f3}
  Runners = {r1, r2}
  Modes = {"serial", "thread", "process"}
  Callable <- Alone
  Waiters = {t1}
SYMMETRY Identities
INVARIANTS TypeOK NoSilentFailure NoSpuriousError
  NoStaleRunner CollectedIsRaised
PROPERTIES RaisedOnce FailureSurfaces
