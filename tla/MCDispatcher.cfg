SPECIFICATION ServiceSpec
CONSTANTS
  Thread = {t1, t2, t3}
  Slots = 2
  None = none
INVARIANTS
  SlotsConserved
  ReceiptIsOwn
PROPERTIES
  RequestAnswered
