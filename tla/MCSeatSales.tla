----------------------------- MODULE MCSeatSales -----------------------------
\* Model values and bounds for the runs of SeatSales.
EXTENDS SeatSales, TLC

SomeDepartures == {3}
TwoDepartures == {1, 3}

\* Statuses that staff set by hand: some keep or give up seats, some take them
\* uncounted, some take back what a payment said.
StaffStatuses ==
  {<<s, "passenger_arrived">> : s \in {"cash_on_boarding", "confirmed"}}
  \cup {<<s, "no_show">> : s \in {"cash_on_boarding", "confirmed"}}
  \cup {<<s, "cancelled">> : s \in {"awaiting_payment", "cash_on_boarding",
                                    "confirmed", "passenger_arrived"}}
  \cup {<<"awaiting_payment", "cash_on_boarding">>}

\* While payments are under way, a paid booking is set back.
PaymentStatuses == {<<"confirmed", "awaiting_payment">>}

\* Handlers in the groups that the runs put together.
Channels == {"publicCreateBooking", "botCreateBooking", "createBooking"}
Payments == {"confirmBookingPayment", "syncBank", "chooseCashBooking",
             "setTelegramPaymentMethod"}
Changes == {"updateBooking", "cancelTelegramBooking", "bookingPassengers"}
TripEdits == {"updateTrip", "changeTripStatus"}

SalesAndPayments == Channels \cup Payments \cup {"updateBooking"}
SalesAndChanges == {"publicCreateBooking", "createBooking"} \cup Changes
SalesAndTrip == {"publicCreateBooking", "confirmBookingPayment", "bookingPassengers",
                 "cancelTelegramBooking"} \cup TripEdits

LateCommitOps == {"publicCreateBooking", "createBooking", "confirmBookingPayment"}

StaffMoves == {"boarding", "assigned", "in_progress", "completed", "cancelled"}

Symmetry == Permutations(Clients) \cup Permutations(Customers) \cup Permutations(Bookings)
=============================================================================
