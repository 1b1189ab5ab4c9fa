SPECIFICATION FairSpec
CONSTANTS
  t1 = t1
  t2 = t2
  t3 = t3
  e1 = e1
  mail = mail
  None = None
  Call = {t1, t2}
  Endpoint = {e1}
  WsEndpoint = {e1}
  EndpointOf <- Pair
  Env = {"prompt_failure"}
  MaxMessages <- OneEach
PROPERTIES LostSendsThrow
CHECK_DEADLOCK FALSE
