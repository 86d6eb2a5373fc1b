SPECIFICATION Spec
CONSTANTS
  b1 = b1
  b2 = b2
  c1 = c1
  c2 = c2
  uah = uah
  eur = eur
  Bookings = {b1, b2}
  None = None
  Crews = {c1}
  Departures = {1}
  MaxSeats = 1
  Fare = 2
  HoldLength = 1
  MaxTime = 1
  MaxVersion = 1
  MaxRevision = 0
  ManualMoves <- Moves
  Entries = {2}
  Currencies = {uah, eur}
  TripCurrency = uah
SYMMETRY Symmetry
CHECK_DEADLOCK FALSE
INVARIANTS
  CashEnteredOnce
PROPERTIES
  CashBalancesAtCompletion
