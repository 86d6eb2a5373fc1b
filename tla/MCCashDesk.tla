---------------------------- MODULE MCCashDesk -----------------------------
\* Model values and bounds for the run of CashDesk: the company's cash and the wallet of
\* one driver, and each kind of operation with the smallest amounts that can run short.
EXTENDS CashDesk

CONSTANTS office, wallet, anna, booking

MCOwner == [c \in Desks |-> IF c = wallet THEN anna ELSE None]
MCCarrier == [b \in Bookings |-> anna]
MCRates == {[k \in Kinds |-> 5000]}

Order(action, amount) ==
  [action |-> action, amount |-> amount, driver |-> None, source |-> "cash",
   kind |-> "income", item |-> None]
Driver(order) == [order EXCEPT !.driver = anna]

MCOrders ==
  {Order("expense", 1), Order("expense", 2), [Order("take", 1) EXCEPT !.item = booking]}
  \cup {Driver(Order(a, 1)) : a \in {"request_handover", "collection", "payout", "accrual",
                                     "tax_payment"}}
============================================================================
