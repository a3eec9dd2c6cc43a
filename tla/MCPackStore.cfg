\* Power losses, kills and failing system calls.
CONSTANTS
  Keys = {k1, k2}
  Clients = {c1, c2}
  MaxFiles = 2
  SegmentSize = 2
  Regimes <- PowerOrKill
  GC = GC
  None = None
SPECIFICATION Spec
INVARIANTS AckedStaysReadable FilesAreSound
PROPERTY NothingVanishes
SYMMETRY Symmetry
