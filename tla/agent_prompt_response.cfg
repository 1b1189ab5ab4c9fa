SPECIFICATION FairSpec
CONSTANTS
  c1 = c1
  c2 = c2
  k1 = k1
  k2 = k2
  None = None
  Connection = {c1}
  VerKey = {k1}
  KeyOf <- OneKey
  Timeout = 1
  Env = {"prompt_response"}
  MaxReplies = 1
  MaxAppPings = 0
  MaxStrays = 0
  MaxTime = 2
PROPERTIES ResponseCompletes
CHECK_DEADLOCK FALSE
