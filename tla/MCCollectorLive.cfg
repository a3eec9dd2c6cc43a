\* Liveness on the server, wipe included, and the inductive invariant.  One object:
\* what is in the store does not matter for who waits for whom.
CONSTANTS
  a = a
  r = r
  None = None
  Keys <- Single
  Children <- SingleChildren
  Names = {n1}
  Clients = {c1, c2}
  HasWipe = TRUE
SPECIFICATION LiveSpec
INVARIANT IInv
PROPERTY NobodyStarves
