CONSTANTS
  None = None
  office = office
  wallet = wallet
  anna = anna
  booking = booking
  Desks = {office, wallet}
  Drivers = {anna}
  Owner <- MCOwner
  Keys = {k1, k2}
  Bookings = {booking}
  Carrier <- MCCarrier
  Price = 1
  Orders <- MCOrders
  Rates <- MCRates
  Opening = 1
  MaxRequests = 3
SPECIFICATION Spec
INVARIANTS CashCovered HandoversSettleOnce AnswerIsTrue
CHECK_DEADLOCK FALSE
