SPECIFICATION Spec
CONSTANTS
  c1 = c1
  c2 = c2
  c3 = c3
  Call = {c1, c2, c3}
  Width = 2
  None = None
SYMMETRY Symmetry
INVARIANTS TypeOK CallbacksAreExpected EntriesAreInUse AnswersAreKept
PROPERTIES ContractSpec
CHECK_DEADLOCK FALSE
