SPECIFICATION FairSpec
CONSTANTS
  c1 = c1
  c2 = c2
  k1 = k1
  k2 = k2
  None = None
  Connection = {c1, c2}
  VerKey = {k1, k2}
  KeyOf <- TwoKeys
  Timeout = 1
  Env = {}
  MaxReplies = 1
  MaxAppPings = 0
  MaxStrays = 0
  MaxTime = 3
PROPERTIES ResponseCompletes SilentPeerIsAbandoned
CHECK_DEADLOCK FALSE
