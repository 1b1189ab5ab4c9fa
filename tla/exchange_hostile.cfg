SPECIFICATION FairSpec
CONSTANTS
  o1 = o1
  o2 = o2
  r1 = r1
  None = None
  Offer = {o1, o2}
  Request = {r1}
  Needs <- First
  MaxRepeats = 2
INVARIANTS TypeOK ListenerSurvives RecordsAreOpenRequests
PROPERTIES ContractSpec ExchangesEnd
CHECK_DEADLOCK FALSE
