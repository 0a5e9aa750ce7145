CONSTANTS
  INIT_BUFFER_SIZE = 20
  READ_GRANULARITY = 20
  ARGUMENTCNT = 5
  ARGROWS = 5
  PADDING = 1
  BEHIND = 2
  Junk <- AnyJunk
  Requests <- ShortRequests
  MaxSent = 2
  Window = 1
  Fragmented = TRUE
SPECIFICATION Spec
INVARIANT ParseInBuffer
CHECK_DEADLOCK FALSE
