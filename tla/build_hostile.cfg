SPECIFICATION FairSpec
CONSTANTS
  None = None
  Clients = {c1, c2}
  Programs = {p1, p2}
  Forcing = {c1}
  Renewing = {c2}
  Exposed = {p1}
INVARIANTS TypeOK CommitMarker NeverPoisoned LoadsWhole
PROPERTIES SomeoneReturns ImplementsArtifactCache
