\* Two segments, two walkers and two Removes; two opens of two files; a tree of
\* six nodes and a pool of two; two starts on one store; two remotes; a
\* copy that passes the point where bytes times time.Second overflow.
CONSTANTS
  Segs = {s1, s2}
  Walkers = {w1, w2}
  Removers = {d1, d2}
  f1 = f1
  f2 = f2
  Files = {f1, f2}
  Size <- FileSize
  Handles = {h1, h2}
  Fds = {m1, m2, m3, m4}
  MaxIdle = 2
  MaxFile = 0
  NoFd = NoFd
  Nodes = {1, 2, 3, 4, 5, 6}
  Root = 1
  Kids <- IngestTree
  Jobs = 2
  Buffer = 1
  Processes = {p1, p2}
  Programs = {"daemon", "serve"}
  MaxRequests = 1
  MaxStarts = 2
  Nobody = Nobody
  RemoteNames = {o1, o2}
  Configs = {u1, u2}
  Callers = {k1, k2}
  MaxEdits = 3
  NoConfig = NoConfig
  Rates = {1, 2, 3}
  Second = 4
  Half = 40
  Records = {1, 2, 3}
  MaxTicks = 20
SPECIFICATION ProcessesSpec
INVARIANTS MapsSafe CacheSound ResultIsTrue NoUseAfterClose ServesAlone
           RegistrySound CapHolds
PROPERTIES MapsAreLeased  GateOpens IngestReturns Stops
CHECK_DEADLOCK FALSE
