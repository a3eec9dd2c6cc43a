\* A server and a daemon, or two servers, started on one fresh store.
CONSTANTS
  Processes = {p1, p2}
  Programs = {"daemon", "serve"}
  MaxRequests = 1
  MaxStarts = 2
  Nobody = Nobody
SPECIFICATION LifeSpec
INVARIANT IdentityNeverOverwritten
CHECK_DEADLOCK FALSE
