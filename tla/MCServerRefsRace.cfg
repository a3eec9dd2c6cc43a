\* Two requests that write the same name.
CONSTANTS
  c1 = c1
  c2 = c2
  n1 = n1
  Names = {n1}
  Signers = {s1, s2}
  Times = {1, 2}
  TreeRoots = {r1, r2}
  Putters = {c1, c2}
  NameOf <- Shared
  NoRecord = NoRecord
SPECIFICATION RefsSpec
PROPERTY OwnershipKept
