\* Inbox: a good and a bad pack of one root, with kills.  References: two
\* requests that write different names, beside collections and wipes.
CONSTANTS
  Bodies = {b1, b2}
  Bad = {b2}
  Roots = {r1}
  Clients = {c1, c2}
  Workers = {w1}
  MaxWork = 1
  Faults = {"kill"}
  None = None
  q1 = q1
  q2 = q2
  n1 = n1
  n2 = n2
  Names = {n1, n2}
  Signers = {s1, s2}
  Times = {1, 2}
  TreeRoots = {t1}
  Putters = {q1, q2}
  NameOf <- Distinct
  NoRecord = NoRecord
SPECIFICATION ServerSpec
INVARIANTS WaitSound NoDangling
PROPERTIES NobodyWaits OwnershipKept
