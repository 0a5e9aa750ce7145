SPECIFICATION Spec
CONSTANTS
  THREADCNT = 1
  setsize = 5
  Fds = {1, 2}
  MaxRequests = 2
  Hangups = {1, 2}
  Stoppers = {1, 2}
  Failures = FALSE
  None = None
INVARIANT TypeOK
PROPERTY RequestExecuted
PROPERTY HangupFreed
PROPERTY ShutdownExits
CHECK_DEADLOCK FALSE
