SPECIFICATION Spec
CONSTANTS
  c1 = c1
  c2 = c2
  k1 = k1
  k2 = k2
  None = None
  Connection = {c1}
  VerKey = {k1}
  KeyOf <- OneKey
  Timeout = 1
  Env = {"prompt_response", "early_ping", "send_lost", "send_fails"}
  MaxReplies = 2
  MaxAppPings = 2
  MaxStrays = 1
  MaxTime = 2
INVARIANTS TypeOK CompleteOnlyAfterResponse ResponsesAreKept
PROPERTIES CompletedOnce DeathHasCause OnlyLateRecordsMislead
CHECK_DEADLOCK FALSE
