CONSTANTS
  INIT_BUFFER_SIZE = 20
  READ_GRANULARITY = 20
  ARGUMENTCNT = 5
  ARGROWS = 5
  PADDING = 1
  BEHIND = 2
  Junk <- AnyJunk
  Requests <- SessionRequests
  MaxSent = 3
  Window = 1
  Fragmented = FALSE
SPECIFICATION Spec
INVARIANT DroppedOnlyIfTooLong
PROPERTIES ImplementsSession RequestsExecuted
CHECK_DEADLOCK FALSE
