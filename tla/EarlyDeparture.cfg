SPECIFICATION Spec
CONSTANTS
  b1 = b1
  b2 = b2
  c1 = c1
  c2 = c2
  uah = uah
  eur = eur
  Bookings = {b1}
  None = None
  Crews = {c1, c2}
  Departures = {1}
  MaxSeats = 2
  Fare = 1
  HoldLength = 1
  MaxTime = 1
  MaxVersion = 2
  MaxRevision = 2
  ManualMoves <- MovesBack
  Entries = {1}
  Currencies = {uah}
  TripCurrency = uah
SYMMETRY CrewSymmetry
CHECK_DEADLOCK FALSE
PROPERTY EarlyDepartureAuthorised
