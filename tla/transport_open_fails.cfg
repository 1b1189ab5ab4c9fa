SPECIFICATION FairSpec
CONSTANTS
  t1 = t1
  t2 = t2
  t3 = t3
  e1 = e1
  mail = mail
  None = None
  Call = {t1, t2}
  Endpoint = {e1}
  WsEndpoint = {e1}
  EndpointOf <- Pair
  Env = {"open_fails"}
  MaxMessages <- OneEach
PROPERTIES OpeningEnds
CHECK_DEADLOCK FALSE
