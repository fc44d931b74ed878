SPECIFICATION Spec
CONSTANTS
  None = None
  Clients = {c1, c2, c3}
  Programs = {p1, p2}
SYMMETRY Symmetric
INVARIANTS TypeOK MarkedIsWhole LoadsWhole
