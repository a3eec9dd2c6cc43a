\* The server, wipe included.  A root and its leaf, two reference names.
CONSTANTS
  a = a
  r = r
  None = None
  Keys <- Pair
  Children <- PairChildren
  Names = {n1, n2}
  Clients = {c1, c2}
  HasWipe = TRUE
SPECIFICATION Spec
INVARIANT CountedOnStays
PROPERTY CSSpec
SYMMETRY Symmetry
