SPECIFICATION FairSpec
CONSTANTS
  None = None
  Clients = {c1, c2, c3}
  Keys = {k1, k2}
  Deleters = {c3}
  Fragile = {k2}
INVARIANTS TypeOK HitWhenGood NoForeignError
PROPERTIES SomeoneReturns ImplementsArtifactCache
