SPECIFICATION Spec
CONSTANTS
  THREADCNT = 1
  setsize = 5
  Fds = {1}
  MaxRequests = 1
  Hangups = {}
  Stoppers = {}
  Failures = FALSE
  None = None
INVARIANT NoRace
CHECK_DEADLOCK FALSE
