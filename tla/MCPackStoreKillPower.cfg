\* A kill, a restart, and then a power loss: an acknowledged object is lost.
CONSTANTS
  Keys = {k1, k2}
  Clients = {c1}
  MaxFiles = 2
  SegmentSize = 2
  Regimes <- KillThenPower
  GC = GC
  None = None
SPECIFICATION Spec
INVARIANT AckedStaysReadable
SYMMETRY Symmetry
