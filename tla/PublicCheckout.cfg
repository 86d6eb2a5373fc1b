CONSTANTS
  Trips = {t1}
  Routes = {kyiv_lviv}
  RouteOf <- Route
  BankTrips = {t1}
  Prices = {1, 2}
  SeatChoices = {2}
  Values = {ivan}
  Phones = {p1}
  Fields = {f1}
  None = None
  Storage = TRUE
  HoldTime = 1
  ReceiptTime = 1
  MaxTime = 1
  MaxRequests = 2
  MaxVisits = 2
  MaxChanges = 1
SPECIFICATION LiveSpec
INVARIANTS ConsentCoversDetails RetryBooksOnce ReceiptSurvives
PROPERTIES OutcomeShown
CHECK_DEADLOCK FALSE
