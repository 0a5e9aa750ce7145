CONSTANTS
  INIT_BUFFER_SIZE = 20
  READ_GRANULARITY = 20
  ARGUMENTCNT = 5
  ARGROWS = 5
  PADDING = 1
  BEHIND = 1
  Junk <- AnyJunk
  Requests <- StreamRequests
  MaxSent = 2
  Window = 2
  Fragmented = TRUE
SPECIFICATION Spec
INVARIANTS TypeOK ReadWindow CarryIsMessage ArgumentInBuffer
CHECK_DEADLOCK FALSE
