SPECIFICATION Spec
CONSTANTS
  THREADCNT = 2
  setsize = 3
  Fds = {1, 2, 3, 4}
  MaxRequests = 1
  Hangups = {1, 2}
  Stoppers = {1}
  Failures = TRUE
  None = None
INVARIANT OneOwner
INVARIANT EventIffConn
INVARIANT CountIsSize
INVARIANT FreedOnlyByShutdown
INVARIANT DealtInTurn
CHECK_DEADLOCK FALSE
