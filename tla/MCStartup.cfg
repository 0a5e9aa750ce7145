SPECIFICATION Spec
CONSTANT THREADCNT = 3
INVARIANT TypeOK
INVARIANT SharedOutUnlessOverwritten
PROPERTY AllWorkersRun
CHECK_DEADLOCK FALSE
