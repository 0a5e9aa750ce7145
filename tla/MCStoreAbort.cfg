SPECIFICATION Spec
CONSTANTS
  Workers = {w1}
  Keys = {key, k1}
  Vals = {seed, v1}
  SeedKey = key
  SeedVal = seed
  Absent = Absent
  None = None
  Missing = TRUE
  Shutdowns = FALSE
INVARIANT GetSurvives
