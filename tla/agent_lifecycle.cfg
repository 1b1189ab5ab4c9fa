SPECIFICATION Spec
CONSTANTS
  c1 = c1
  c2 = c2
  k1 = k1
  k2 = k2
  None = None
  Connection = {c1, c2}
  VerKey = {k1}
  KeyOf <- SharedKey
  Timeout = 0
  Env = {"prompt_response", "send_fails"}
  MaxReplies = 1
  MaxAppPings = 1
  MaxStrays = 0
  MaxTime = 1
INVARIANTS SilentPeersAreTracked
PROPERTIES LifecycleSpec CompletedStaysFound
SYMMETRY Exchange
CHECK_DEADLOCK FALSE
