SPECIFICATION Spec
CONSTANTS
  Workers = {w1, w2}
  Keys = {key, k1}
  Vals = {seed, v1}
  SeedKey = key
  SeedVal = seed
  Absent = Absent
  None = None
  Missing = TRUE
  Shutdowns = TRUE
INVARIANT TypeOK
INVARIANT SetReadsOwnWrite
PROPERTY ImplementsKVStore
PROPERTY CommandFinishes
CHECK_DEADLOCK FALSE
