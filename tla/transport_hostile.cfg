SPECIFICATION FairSpec
CONSTANTS
  t1 = t1
  t2 = t2
  t3 = t3
  e1 = e1
  mail = mail
  None = None
  Call = {t1, t2, t3}
  Endpoint = {e1, mail}
  WsEndpoint = {e1}
  EndpointOf <- Three
  Env = {"concurrent", "open_fails", "prompt_failure", "link_fails", "peer_closes"}
  MaxMessages <- TwoAndOne
INVARIANTS TypeOK
PROPERTIES ContractSpec SentIsTaken LossIsNoticed SocketsAreReused
CHECK_DEADLOCK FALSE
