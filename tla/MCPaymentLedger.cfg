SPECIFICATION LedgerSpec
CONSTANTS
  w1 = w1  w2 = w2
  e1 = e1
  Workers <- MCWorkers
  Employees <- MCEmployees
  Parts = 1
  Entered = {"posted_pending", "paid"}
  PartAmount = 2
  PaymentAmounts = {2}
  MaxRecords = 2
  MaxAdjustments = 2
  MaxVersion = 2
  MaxCharges = 1
  MaxCrashes = 1
INVARIANTS
  LedgerTypeOK
  BooksBalance
PROPERTIES
  
  DueIsAsked
  
CHECK_DEADLOCK FALSE
