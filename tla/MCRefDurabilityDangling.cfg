\* One name, one upload and one PUT; objects may be visible before they are durable.
CONSTANTS
  a = a
  b = b
  Keys <- Pair
  Children <- PairChildren
  RefNames = {n1}
  Uploaders = {u1, u2}
  NoTree = NoTree
SPECIFICATION DurSpec
INVARIANT NoDangling
