SPECIFICATION Spec
CONSTANTS
  None = None
  Clients = {c1, c2}
  Stencils = {s1}
PROPERTY InfoIsCompared
