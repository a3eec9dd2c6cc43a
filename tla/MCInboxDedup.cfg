\* One body uploaded for two roots, no faults.
CONSTANTS
  Bodies = {b1}
  Bad = {}
  Roots = {r1, r2}
  Clients = {c1, c2}
  Workers = {w1}
  MaxWork = 1
  Faults = {}
  None = None
SPECIFICATION Spec
INVARIANT WaitCoversAcked
