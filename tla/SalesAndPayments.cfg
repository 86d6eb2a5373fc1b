SPECIFICATION Spec
CONSTANTS
  None = None
  Clients = {c1, c2}
  Bookings = {b1, b2}
  Customers = {u1, u2}
  Keys = {k1}
  MaxSeats = 2
  VehicleCapacity = 2
  HoldLength = 1
  MaxTime = 2
  Departures <- SomeDepartures
  Ops <- SalesAndPayments
  ManualMoves <- PaymentStatuses
  TripMoves <- StaffMoves
SYMMETRY Symmetry
INVARIANTS NoOversell RequestBooksOnce PaidMeansConfirmed
PROPERTIES NoLateConfirmation
