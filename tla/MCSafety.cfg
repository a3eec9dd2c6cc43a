\* Up to seven entries in runs of two or three; up to three records in a
\* segment; up to two in a pack; six paths; two loads in flight; two requests,
\* each signed once and delivered any number of times, while the operator edits
\* the allowlist; one body, uploaded twice; uploads and PUTs of two names.
CONSTANTS
  Names = {1, 2, 3, 4, 5, 6, 7}
  Chunks <- TwoChunks
  MinRun = 2
  MaxRun = 3
  MaxItems = 7
  LastBytes = {0, 1}
  Rests = {1, 2}
  Slens = {0, 1}
  MaxEntries = 3
  U64 = 50
  MaxU32 = 3
  Offsets = {0, 1, 3, 12, 26, 49}
  HeaderSize = 1
  FanoutSize = 1
  IndexEntrySize = 2
  FilterSize = 1
  TrailerSize = 2
  CrcTail = 1
  RecHeaderSize = 1
  Types = {0, 5}
  ValidTypes = {0}
  Radix = 2
  MaxLengthSize = 2
  Lengths = {0, 1, 2, 3}
  MaxPayload = 3
  Packed <- PackedLength
  MaxObjects = 2
  Parent <- TreeParent
  Kind <- TreeKind
  Modes = {"rwx", "r-x", "r--"}
  Dirs <- Directories
  Regular <- Plain
  Listing <- DirListing
  RefLists <- References
  Matching = {"d2", "f1"}
  MaxInFlight = 2
  MaxDepth = 3
  Identities <- OperatorAndCI
  Requests <- TwoRequests
  Lines <- TwoLines
  Handlers = {c1, c2}
  Window = 1
  Skew = 0
  Stall = 1
  MaxTime = 3
  MaxChanges = 2
  Nil = Nil
  Bodies = {b1}
  Bad = {}
  Roots = {r1}
  Clients = {c1, c2}
  Workers = {w1, w2}
  MaxWork = 1
  Faults = {"power", "kill", "io"}
  None = None
  a = a
  b = b
  Keys <- Pair
  Children <- PairChildren
  RefNames = {w1, w2}
  Uploaders = {c1, c2}
  NoTree = NoTree
SPECIFICATION SafetySpec
INVARIANTS TreeSound ReadsBack FooterSound PackSound ExtractSound BrowseSound
           AtMostOnce AckedEditsHold GroupsExact AddedNeverLost AckedTreesSurvive
PROPERTIES  ServedWithAuthority
SYMMETRY Symmetry
CHECK_DEADLOCK FALSE
