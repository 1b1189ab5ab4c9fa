SPECIFICATION Spec
CONSTANTS
  a1 = a1
  a2 = a2
  p1 = p1
  plain = plain
  revocable = revocable
  schema = schema
  definition1 = definition1
  definition2 = definition2
  None = None
  Caller = {i1, i2}
  MaxCalls = 3
  MaxCrashes = 2
  Attribute = {a1, a2}
  Predicate = {p1}
  Cred = {plain, revocable}
  Fits <- AllFit
  Revocable = {revocable}
  Source <- SourceOf
  RetryTimes = 5
INVARIANTS LookupsAreRetried
CHECK_DEADLOCK FALSE
