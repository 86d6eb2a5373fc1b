----------------------------- MODULE TripProofs -----------------------------
(***************************************************************************)
(* Theorems of TripLifecycle for any number of bookings, crews and seats   *)
(* and any tariff.                                                         *)
(*   TripTypeCorrect       every reachable state is well formed, and no    *)
(*                         booking was charged more than its price;        *)
(*   DepartureIsAuthorised a trip leaves early only with everybody on      *)
(*                         board or under an approval that still holds;    *)
(*   CashBalances          a completed trip's cash is what its bookings    *)
(*                         cost;                                           *)
(*   CashIsEnteredOnce     the entries of a booking add up to the cash     *)
(*                         that its check-in shows.                        *)
(* A command checks in one step and writes in another, and holds are       *)
(* resolved in between; the invariant says that what it checked is still   *)
(* true, and that an approval can be told from everything that changed     *)
(* after it.  The last rests on lemmas about sums: the fold that adds up a *)
(* set takes its elements in an order nobody knows, and a minimal          *)
(* counterexample among the subsets shows that no order matters.           *)
(***************************************************************************)
EXTENDS TripLifecycle, FiniteSetTheorems, TLAPS

\* Statuses and their phases.
LEMMA BookingPhases ==
  /\ \A s : BookingPhase(s) = "awaiting_payment" <=> s = "awaiting_payment"
  /\ \A s : BookingPhase(s) \in {"pending", "confirmed"}
              => s \in BookingStatus /\ s # "awaiting_payment"
  /\ BookingPhase("none") = "none"
  BY DEF BookingPhase, BookingStatus

\* Which column of the board a status is in.
LEMMA TripPhases ==
  /\ TripPhase("in_progress") = "in_progress" /\ TripPhase("completed") = "completed"
  /\ TripPhase("cancelled") = "cancelled"
  /\ TripPhase("boarding") = "assigned" /\ TripPhase("assigned") = "assigned"
  BY DEF TripPhase

\* A row of the trip in its type.
LEMMA RowFields ==
  ASSUME TypeOK, NEW b \in Bookings
  PROVE  /\ bookings[b] \in BookingRow /\ checkins[b] \in Checkin
         /\ bookings[b].status \in BookingStatus \cup {"none"}
         /\ bookings[b].seats \in 0..MaxSeats /\ bookings[b].version \in Nat
         /\ bookings[b].hold \in Nat \cup {NoHold}
         /\ checkins[b].marks \in [SeatNumber -> Mark] /\ checkins[b].cash \in Nat
  BY DEF TypeOK, BookingRow, Checkin

\* More seats never cost less.
LEMMA PriceGrows ==
  ASSUME NEW m \in Nat, NEW n \in Nat, m <= n
  PROVE  Fare * m \in Nat /\ Fare * m <= Fare * n
<1>1. Fare \in Nat
  BY LifecycleAssumption
<1>2. PICK k \in Nat : n = m + k
  <2>1. n - m \in Nat /\ n = m + (n - m)
    OBVIOUS
  <2> QED
    BY <2>1
<1>3. Fare * n = Fare * m + Fare * k /\ Fare * k \in Nat /\ Fare * m \in Nat
  BY <1>1, <1>2
<1> QED
  BY <1>3

\* A booking's price is an amount.
LEMMA PriceTyped ==
  ASSUME TypeOK, NEW b \in Bookings
  PROVE  PriceOf(b) \in Nat
<1>1. bookings[b].seats \in Nat
  BY RowFields
<1>2. Fare * bookings[b].seats \in Nat
  BY <1>1, PriceGrows
<1> QED
  BY <1>2 DEF PriceOf, Price

-----------------------------------------------------------------------------
\* Bookings.

\* What a step does to one booking: its status and price never go back to nothing,
\* and its version grows unless the booking is new.
Touched(b, row) ==
  /\ row \in BookingRow /\ row.status # "none" /\ row.seats > 0
  /\ row.seats >= bookings[b].seats
  /\ \/ bookings[b].status = "none" /\ row.version = 0
     \/ row.version = bookings[b].version + 1
  /\ bookings' = [bookings EXCEPT ![b] = row]

\* What the handlers of single bookings leave alone.
BookingOnly == UNCHANGED <<clock, trip, checkins, ledger, command>>

\* A sale writes a new booking.
LEMMA SaleTouches ==
  ASSUME TypeOK, NEW b \in Bookings, Sale(b)
  PROVE  BookingOnly /\ \E row : Touched(b, row)
<1>1. BookingOnly /\ bookings[b].status = "none" /\ bookings[b].seats = 0
  BY DEF Sale, BookingOnly, Alone, TypeOK, EmptyRow
<1>2. PICK n \in 1..MaxSeats :
        \/ bookings' = [bookings EXCEPT ![b] =
                          NewRow("cash_on_boarding", NoHold, "none", "cash", n)]
        \/ \E wish \in {"bank_transfer", "none"} :
             bookings' = [bookings EXCEPT ![b] =
               NewRow("awaiting_payment", clock + HoldLength, "bank_transfer", wish, n)]
  BY DEF Sale
<1>3. clock + HoldLength \in Nat
  BY LifecycleAssumption DEF TypeOK
<1>4. ASSUME NEW s \in {"cash_on_boarding", "awaiting_payment"},
             NEW h \in Nat \cup {NoHold}, NEW m \in {"none", "bank_transfer"},
             NEW wish \in {"cash", "bank_transfer", "none"},
             bookings' = [bookings EXCEPT ![b] = NewRow(s, h, m, wish, n)]
      PROVE  \E row : Touched(b, row)
  <2> DEFINE row == NewRow(s, h, m, wish, n)
  <2>1. n \in 0..MaxSeats /\ n > 0
    BY LifecycleAssumption
  <2>2. row \in BookingRow /\ row.status # "none" /\ row.seats = n /\ row.version = 0
    BY <2>1 DEF BookingRow, BookingStatus, NewRow
  <2>3. bookings' = [bookings EXCEPT ![b] = row]
    BY <1>4
  <2> HIDE DEF row
  <2>4. Touched(b, row)
    BY <1>1, <2>1, <2>2, <2>3 DEF Touched
  <2> QED
    BY <2>4
<1>5. \E row : Touched(b, row)
  <2>1. CASE bookings' = [bookings EXCEPT ![b] =
                            NewRow("cash_on_boarding", NoHold, "none", "cash", n)]
    BY <1>4, <2>1
  <2>2. CASE \E wish \in {"bank_transfer", "none"} :
               bookings' = [bookings EXCEPT ![b] =
                 NewRow("awaiting_payment", clock + HoldLength, "bank_transfer", wish, n)]
    BY <1>3, <1>4, <2>2
  <2> QED
    BY <1>2, <2>1, <2>2
<1> QED
  BY <1>1, <1>5

\* A handler of one existing booking gives it a later version.
LEMMA UpdateTouches ==
  ASSUME TypeOK, NEW b \in Bookings, NEW row \in BookingRow,
         row.status # "none", bookings[b].status # "none",
         row.seats >= bookings[b].seats, row.version = bookings[b].version,
         bookings' = Update(b, row)
  PROVE  /\ Touched(b, [row EXCEPT !.version = row.version + 1])
<1> DEFINE new == [row EXCEPT !.version = row.version + 1]
<1>1. new \in BookingRow /\ new.status = row.status /\ new.seats = row.seats
      /\ new.version = row.version + 1
  BY DEF BookingRow
<1>2. bookings[b].seats > 0 /\ bookings[b].seats \in Int /\ row.seats \in Int
  BY RowFields DEF TypeOK, BookingRow
<1>3. bookings' = [bookings EXCEPT ![b] = new]
  BY DEF Update
<1> QED
  BY <1>1, <1>2, <1>3 DEF Touched

\* The handlers that resolve a hold, edit a booking or add a passenger.
LEMMA ChangeTouches ==
  ASSUME TypeOK, NEW b \in Bookings,
         \/ ConfirmPayment(b) \/ ChooseCashBooking(b) \/ ExpireBookingHolds(b)
         \/ UpdateBooking(b) \/ EditPassenger(b) \/ AddPassenger(b)
  PROVE  BookingOnly /\ \E row : Touched(b, row)
<1> DEFINE old == bookings[b]
<1>1. old \in BookingRow
  BY RowFields
<1>2. BookingOnly
  BY DEF BookingOnly, ConfirmPayment, ChooseCashBooking, ExpireBookingHolds, UpdateBooking,
     EditPassenger, AddPassenger, Alone, Beside
<1> DEFINE Later(row) ==
             /\ row \in BookingRow /\ row.status # "none"
             /\ row.seats >= old.seats /\ row.version = old.version
             /\ bookings' = Update(b, row)
<1>3. old.status # "none"
  BY BookingPhases, LifecycleAssumption DEF ConfirmPayment, ChooseCashBooking, ExpireBookingHolds,
     UpdateBooking, EditPassenger, AddPassenger, LiveHold, Is, BookingStatus
<1> SUFFICES \E row : Later(row)
  BY <1>2, <1>3, UpdateTouches
<1>4. CASE ConfirmPayment(b)
  <2> DEFINE row == [old EXCEPT !.status = "confirmed", !.hold = NoHold, !.paid = TRUE]
  <2>1. bookings' = Update(b, row)
    BY <1>4 DEF ConfirmPayment
  <2>2. /\ row \in BookingRow /\ row.status # "none"
        /\ row.seats = old.seats /\ row.version = old.version
    BY <1>1 DEF BookingRow, BookingStatus
  <2> HIDE DEF row
  <2>3. Later(row)
    BY <1>1, <2>1, <2>2 DEF BookingRow
  <2> QED
    BY <2>3
<1>5. CASE ChooseCashBooking(b)
  <2> DEFINE row == [old EXCEPT !.status = "cash_on_boarding", !.hold = NoHold,
                                !.method = "cash"]
  <2>1. bookings' = Update(b, row)
    BY <1>5 DEF ChooseCashBooking
  <2>2. /\ row \in BookingRow /\ row.status # "none"
        /\ row.seats = old.seats /\ row.version = old.version
    BY <1>1 DEF BookingRow, BookingStatus
  <2> HIDE DEF row
  <2>3. Later(row)
    BY <1>1, <2>1, <2>2 DEF BookingRow
  <2> QED
    BY <2>3
<1>6. CASE ExpireBookingHolds(b)
  <2> DEFINE row == [old EXCEPT !.status = "expired"]
  <2>1. bookings' = Update(b, row)
    BY <1>6 DEF ExpireBookingHolds
  <2>2. /\ row \in BookingRow /\ row.status # "none"
        /\ row.seats = old.seats /\ row.version = old.version
    BY <1>1 DEF BookingRow, BookingStatus
  <2> HIDE DEF row
  <2>3. Later(row)
    BY <1>1, <2>1, <2>2 DEF BookingRow
  <2> QED
    BY <2>3
<1>7. CASE UpdateBooking(b)
  <2>1. PICK s \in BookingStatus :
          \/ bookings' = Update(b, [old EXCEPT !.status = s, !.hold = NoHold])
          \/ bookings' = Update(b, [old EXCEPT !.status = s])
    BY <1>7 DEF UpdateBooking
  <2> DEFINE one == [old EXCEPT !.status = s, !.hold = NoHold]
             two == [old EXCEPT !.status = s]
  <2>2. bookings' = Update(b, one) \/ bookings' = Update(b, two)
    BY <2>1
  <2>3. /\ one \in BookingRow /\ one.status # "none"
        /\ one.seats = old.seats /\ one.version = old.version
        /\ two \in BookingRow /\ two.status # "none"
        /\ two.seats = old.seats /\ two.version = old.version
    BY <1>1 DEF BookingRow, BookingStatus
  <2> HIDE DEF one, two
  <2>4. Later(one) \/ Later(two)
    BY <1>1, <2>2, <2>3 DEF BookingRow
  <2> QED
    BY <2>4
<1>8. CASE EditPassenger(b)
  <2>1. Later(old)
    BY <1>1, <1>3, <1>8 DEF EditPassenger, BookingRow
  <2> QED
    BY <2>1
<1>9. CASE AddPassenger(b)
  <2> DEFINE row == [old EXCEPT !.seats = @ + 1]
  <2>1. old.seats \in 0..MaxSeats /\ MaxSeats \in Nat
    BY RowFields, LifecycleAssumption
  <2>2. old.seats + 1 \in 0..MaxSeats
    BY <1>9, <2>1 DEF AddPassenger
  <2>3. bookings' = Update(b, row)
    BY <1>9 DEF AddPassenger
  <2>4. /\ row \in BookingRow /\ row.status = old.status
        /\ row.seats = old.seats + 1 /\ row.version = old.version
    BY <1>1, <2>2 DEF BookingRow
  <2> HIDE DEF row
  <2>5. Later(row)
    BY <1>3, <2>1, <2>3, <2>4
  <2> QED
    BY <2>5
<1> QED
  BY <1>4, <1>5, <1>6, <1>7, <1>8, <1>9

\* A step on one booking that leaves its check-in alone keeps the types.
LEMMA TouchedTyped ==
  ASSUME TypeOK, NEW b \in Bookings, NEW row, Touched(b, row), BookingOnly,
         HistoryTyped'
  PROVE  TypeOK'
<1>1. /\ bookings' \in [Bookings -> BookingRow] /\ bookings'[b] = row
      /\ \A d \in Bookings : d # b => bookings'[d] = bookings[d]
  BY DEF Touched, TypeOK
<1>2. checkins[b].cash <= Price(row)
  <2>1. bookings[b].seats \in Nat /\ row.seats \in Nat /\ bookings[b].seats <= row.seats
    BY RowFields, LifecycleAssumption DEF Touched, BookingRow
  <2>2. Fare * bookings[b].seats <= Fare * row.seats /\ Fare * bookings[b].seats \in Nat
        /\ Fare * row.seats \in Nat
    BY <2>1, PriceGrows
  <2>3. checkins[b].cash <= Fare * bookings[b].seats /\ checkins[b].cash \in Nat
    BY RowFields DEF TypeOK, PriceOf, Price
  <2> QED
    BY <2>2, <2>3 DEF Price
<1>3. \A d \in Bookings : /\ checkins'[d] = checkins[d]
                          /\ checkins'[d].cash <= PriceOf(d)'
  BY <1>1, <1>2 DEF TypeOK, BookingOnly, PriceOf
<1>4. \A d \in Bookings : IF bookings'[d].status = "none"
                          THEN bookings'[d] = EmptyRow /\ checkins'[d] = NoCheckin
                          ELSE bookings'[d].seats > 0
  BY <1>1, <1>3 DEF TypeOK, Touched
<1> QED
  BY <1>1, <1>3, <1>4 DEF TypeOK, BookingOnly

-----------------------------------------------------------------------------
\* Attendance and cash.

\* A mark changes one check-in and at most the stage of the trip.
LEMMA MarkLeaves ==
  ASSUME TypeOK, NEW b \in Bookings, MarkPassenger(b)
  PROVE  /\ UNCHANGED <<clock, bookings, ledger, command>>
         /\ command = Free /\ bookings[b].status \notin {"none", "awaiting_payment"}
         /\ trip' = trip \/ trip' = [trip EXCEPT !.status = "boarding"]
         /\ \E row \in Checkin : /\ row.cash = checkins[b].cash
                                 /\ checkins' = [checkins EXCEPT ![b] = row]
<1>1. bookings[b].status \notin {"none", "awaiting_payment"}
  BY BookingPhases DEF MarkPassenger, Checkable, Is
<1>2. PICK i \in Seats(b), m \in Mark :
        LET marks == [checkins[b].marks EXCEPT ![i] = m]
        IN  /\ checkins' = [checkins EXCEPT ![b].exists = TRUE, ![b].marks = marks]
            /\ trip' = IF m = "boarded" /\ TripPhase(trip.status) # "in_progress"
                       THEN [trip EXCEPT !.status = "boarding"] ELSE trip
  BY DEF MarkPassenger
<1> DEFINE row == [checkins[b] EXCEPT !.exists = TRUE,
                                      !.marks = [checkins[b].marks EXCEPT ![i] = m]]
<1>3. row \in Checkin /\ row.cash = checkins[b].cash
  BY RowFields DEF Checkin
<1>4. checkins' = [checkins EXCEPT ![b] = row]
  BY <1>2, RowFields DEF TypeOK, Checkin
<1> QED
  BY <1>1, <1>2, <1>3, <1>4 DEF MarkPassenger, Checkable, Alone

\* Cash changes one check-in, enters the difference and may confirm the booking.
LEMMA CashLeaves ==
  ASSUME TypeOK, NEW b \in Bookings, TakeCash(b)
  PROVE  /\ UNCHANGED <<clock, trip, command>>
         /\ command = Free /\ bookings[b].status \notin {"none", "awaiting_payment"}
         /\ \A r \in ledger' : r \in ledger \/ (r.source = b /\ r.amount > 0)
         /\ \E row \in Checkin : /\ row.cash <= PriceOf(b)
                                 /\ checkins' = [checkins EXCEPT ![b] = row]
         /\ \/ bookings' = bookings
            \/ \E row : Touched(b, row) /\ row.seats = bookings[b].seats
                                        /\ row.status # "awaiting_payment"
<1>1. bookings[b].status \notin {"none", "awaiting_payment"}
  BY BookingPhases DEF TakeCash, Checkable, Is
<1>2. PICK target \in 1..PriceOf(b) :
        /\ target >= checkins[b].cash
        /\ ledger' = ledger \cup Receipt(b, target)
        /\ checkins' = [checkins EXCEPT ![b].exists = TRUE, ![b].cash = target]
        /\ bookings' = IF target = PriceOf(b) /\ bookings[b].status = "cash_on_boarding"
                       THEN Update(b, [bookings[b] EXCEPT !.status = "confirmed"])
                       ELSE bookings
  BY DEF TakeCash
<1>3. \A r \in ledger' : r \in ledger \/ (r.source = b /\ r.amount > 0)
  BY <1>2, RowFields DEF Receipt, Entry
<1> DEFINE row == [checkins[b] EXCEPT !.exists = TRUE, !.cash = target]
<1>4. PriceOf(b) \in Nat
  BY PriceTyped
<1>5. row \in Checkin /\ row.cash <= PriceOf(b)
  <2>1. target \in Nat /\ target <= PriceOf(b) /\ checkins[b] \in Checkin
    BY <1>2, <1>4, RowFields
  <2> QED
    BY <2>1 DEF Checkin
<1>6. checkins' = [checkins EXCEPT ![b] = row]
  BY <1>2, RowFields DEF TypeOK, Checkin
<1> DEFINE new == [bookings[b] EXCEPT !.status = "confirmed"]
<1>7. /\ new \in BookingRow /\ new.status = "confirmed"
      /\ new.seats = bookings[b].seats /\ new.version = bookings[b].version
  BY RowFields DEF BookingRow, BookingStatus
<1>8. CASE bookings' = Update(b, new)
  <2> HIDE DEF new
  <2>1. new.seats >= bookings[b].seats
    BY <1>7, RowFields
  <2>2. Touched(b, [new EXCEPT !.version = new.version + 1])
    BY <1>1, <1>7, <1>8, <2>1, UpdateTouches
  <2>3. /\ [new EXCEPT !.version = new.version + 1].seats = bookings[b].seats
        /\ [new EXCEPT !.version = new.version + 1].status = "confirmed"
    BY <1>7 DEF BookingRow
  <2> HIDE DEF row
  <2> QED
    BY <1>1, <1>3, <1>5, <1>6, <2>2, <2>3 DEF TakeCash, Checkable, Alone
<1>9. CASE bookings' = bookings
  <2> HIDE DEF row
  <2> QED
    BY <1>1, <1>3, <1>5, <1>6, <1>9 DEF TakeCash, Checkable, Alone
<1> QED
  BY <1>2, <1>8, <1>9

\* Marks and cash keep the types.
LEMMA CheckinTyped ==
  ASSUME TypeOK, NEW b \in Bookings, MarkPassenger(b) \/ TakeCash(b), HistoryTyped'
  PROVE  TypeOK'
<1>1. CASE MarkPassenger(b)
  <2>1. PICK row \in Checkin : /\ row.cash = checkins[b].cash
                               /\ checkins' = [checkins EXCEPT ![b] = row]
    BY <1>1, MarkLeaves
  <2>2. /\ UNCHANGED <<clock, bookings, ledger, command>>
        /\ bookings[b].status # "none"
        /\ trip' = trip \/ trip' = [trip EXCEPT !.status = "boarding"]
    BY <1>1, MarkLeaves
  <2>3. /\ checkins' \in [Bookings -> Checkin] /\ checkins'[b] = row
        /\ \A d \in Bookings : d # b => checkins'[d] = checkins[d]
    BY <2>1 DEF TypeOK
  <2>4. trip' \in [status : TripStatus, crew : Crews, starts : Departures,
                   revision : 0..MaxRevision, approval : Approval \cup {NoApproval}]
    BY <2>2 DEF TypeOK, TripStatus
  <2>5. \A d \in Bookings : /\ checkins'[d].cash <= PriceOf(d)'
                            /\ IF bookings'[d].status = "none"
                               THEN bookings'[d] = EmptyRow /\ checkins'[d] = NoCheckin
                               ELSE bookings'[d].seats > 0
    BY <2>1, <2>2, <2>3 DEF TypeOK, PriceOf
  <2> QED
    BY <2>2, <2>3, <2>4, <2>5 DEF TypeOK
<1>2. CASE TakeCash(b)
  <2>1. PICK row \in Checkin : /\ row.cash <= PriceOf(b)
                               /\ checkins' = [checkins EXCEPT ![b] = row]
    BY <1>2, CashLeaves
  <2>2. /\ UNCHANGED <<clock, trip, command>>
        /\ bookings[b].status # "none"
        /\ \A r \in ledger' : r \in ledger \/ (r.source = b /\ r.amount > 0)
    BY <1>2, CashLeaves
  <2>3. /\ checkins' \in [Bookings -> Checkin] /\ checkins'[b] = row
        /\ \A d \in Bookings : d # b => checkins'[d] = checkins[d]
    BY <2>1 DEF TypeOK
  <2>4. /\ bookings' \in [Bookings -> BookingRow]
        /\ bookings'[b].status # "none" /\ bookings'[b].seats = bookings[b].seats
        /\ bookings'[b].seats > 0
        /\ \A d \in Bookings : d # b => bookings'[d] = bookings[d]
    <3>1. CASE bookings' = bookings
      BY <2>2, <3>1 DEF TypeOK
    <3>2. CASE \E new : Touched(b, new) /\ new.seats = bookings[b].seats
      BY <2>2, <3>2 DEF TypeOK, Touched
    <3> QED
      BY <1>2, <3>1, <3>2, CashLeaves
  <2>5. \A d \in Bookings : /\ checkins'[d].cash <= PriceOf(d)'
                            /\ IF bookings'[d].status = "none"
                               THEN bookings'[d] = EmptyRow /\ checkins'[d] = NoCheckin
                               ELSE bookings'[d].seats > 0
    BY <2>1, <2>2, <2>3, <2>4 DEF TypeOK, PriceOf, Price
  <2> QED
    BY <2>2, <2>3, <2>4, <2>5 DEF TypeOK
<1> QED
  BY <1>1, <1>2

-----------------------------------------------------------------------------
\* Commands of several statements.

\* The whole receipt writes what it found, checks in who was not, and confirms the
\* bookings that it paid for.
LEMMA ReceiptLeaves ==
  ASSUME TypeOK, RecordReceipt
  PROVE  /\ UNCHANGED <<clock, trip>> /\ command.op = "receipt" /\ command' = Free
         /\ \A r \in ledger' : r \in ledger \/ (r.source = None /\ r.amount > 0)
         /\ checkins' \in [Bookings -> Checkin] /\ bookings' \in [Bookings -> BookingRow]
         /\ \A b \in Bookings :
              \/ checkins'[b] = checkins[b]
              \/ /\ bookings[b].status \notin {"none", "awaiting_payment"}
                 /\ checkins'[b].cash = PriceOf(b)
         /\ \A b \in Bookings :
              \/ bookings'[b] = bookings[b]
              \/ /\ bookings[b].status = "cash_on_boarding"
                 /\ bookings'[b].status = "confirmed"
                 /\ bookings'[b].seats = bookings[b].seats
                 /\ bookings'[b].version = bookings[b].version + 1
<1> DEFINE seeded == CashBookings \ Checked
           row(b) == [exists |-> TRUE, cash |-> PriceOf(b),
                      marks |-> [i \in SeatNumber |->
                                   IF i \in Seats(b) THEN "boarded" ELSE "waiting"]]
           checked == [b \in Bookings |-> IF b \in seeded THEN row(b) ELSE checkins[b]]
           new(b) == [bookings[b] EXCEPT !.status = "confirmed", !.version = @ + 1]
<1>1. /\ UNCHANGED <<clock, trip>> /\ command.op = "receipt" /\ command' = Free
      /\ checkins' = checked
      /\ ledger' = ledger \cup {Entry(None, TripCurrency, 0, command.amount)}
         \/ ledger' = ledger
  BY DEF RecordReceipt
<1>2. PICK settled \in SUBSET {b \in Bookings : bookings[b].status = "cash_on_boarding"} :
        bookings' = [b \in Bookings |-> IF b \in settled THEN new(b) ELSE bookings[b]]
  <2>1. \E c : bookings' = [b \in Bookings |->
                   IF b \in {d \in Bookings : /\ bookings[d].status = "cash_on_boarding"
                                              /\ c[d].cash >= PriceOf(d)}
                   THEN new(b) ELSE bookings[b]]
    BY DEF RecordReceipt
  <2> QED
    BY <2>1
<1>3. \A b \in Bookings : row(b) \in Checkin /\ row(b).cash = PriceOf(b)
  BY PriceTyped DEF Checkin, Mark
<1>4. \A b \in seeded : bookings[b].status \notin {"none", "awaiting_payment"}
  BY BookingPhases DEF CashBookings, Is
<1>5. \A b \in Bookings : /\ new(b) \in BookingRow /\ new(b).status = "confirmed"
                          /\ new(b).seats = bookings[b].seats
                          /\ new(b).version = bookings[b].version + 1
  <2> SUFFICES ASSUME NEW b \in Bookings
               PROVE  /\ new(b) \in BookingRow /\ new(b).status = "confirmed"
                      /\ new(b).seats = bookings[b].seats
                      /\ new(b).version = bookings[b].version + 1
    OBVIOUS
  <2>1. bookings[b] \in BookingRow /\ bookings[b].version + 1 \in Nat
    BY RowFields
  <2> QED
    BY <2>1 DEF BookingRow, BookingStatus
<1>6. \A r \in ledger' : r \in ledger \/ (r.source = None /\ r.amount > 0)
  BY <1>1 DEF TypeOK, Entry
<1> HIDE DEF row, new
<1>7. checkins' \in [Bookings -> Checkin] /\ bookings' \in [Bookings -> BookingRow]
  BY <1>1, <1>2, <1>3, <1>5, RowFields
<1>8. \A b \in Bookings :
        \/ checkins'[b] = checkins[b]
        \/ /\ bookings[b].status \notin {"none", "awaiting_payment"}
           /\ checkins'[b].cash = PriceOf(b)
  BY <1>1, <1>3, <1>4
<1>9. \A b \in Bookings :
        \/ bookings'[b] = bookings[b]
        \/ /\ bookings[b].status = "cash_on_boarding"
           /\ bookings'[b].status = "confirmed"
           /\ bookings'[b].seats = bookings[b].seats
           /\ bookings'[b].version = bookings[b].version + 1
  BY <1>2, <1>5
<1> QED
  BY <1>1, <1>6, <1>7, <1>8, <1>9

\* Completion closes the confirmed bookings.
LEMMA CompletionLeaves ==
  ASSUME TypeOK, RecordCompletion
  PROVE  /\ UNCHANGED <<clock, checkins, ledger>>
         /\ command.op = "complete" /\ command' = Free
         /\ trip' = [trip EXCEPT !.status = "completed"]
         /\ bookings' \in [Bookings -> BookingRow]
         /\ \A b \in Bookings :
              IF Is(b, "confirmed")
              THEN /\ bookings'[b].status =
                        IF b \in command.absent THEN "cancelled" ELSE "completed"
                   /\ bookings'[b].seats = bookings[b].seats
                   /\ bookings'[b].version = bookings[b].version + 1
              ELSE bookings'[b] = bookings[b]
<1> DEFINE new(b) == [bookings[b] EXCEPT !.version = @ + 1,
                        !.status = IF b \in command.absent THEN "cancelled" ELSE "completed"]
<1>1. \A b \in Bookings : /\ new(b) \in BookingRow
                          /\ new(b).status =
                               IF b \in command.absent THEN "cancelled" ELSE "completed"
                          /\ new(b).seats = bookings[b].seats
                          /\ new(b).version = bookings[b].version + 1
  <2> SUFFICES ASSUME NEW b \in Bookings
               PROVE  /\ new(b) \in BookingRow
                      /\ new(b).status =
                           IF b \in command.absent THEN "cancelled" ELSE "completed"
                      /\ new(b).seats = bookings[b].seats
                      /\ new(b).version = bookings[b].version + 1
    OBVIOUS
  <2>1. bookings[b] \in BookingRow /\ bookings[b].version + 1 \in Nat
    BY RowFields
  <2>2. CASE b \in command.absent
    BY <2>1, <2>2 DEF BookingRow, BookingStatus
  <2>3. CASE b \notin command.absent
    BY <2>1, <2>3 DEF BookingRow, BookingStatus
  <2> QED
    BY <2>2, <2>3
<1>2. bookings' = [b \in Bookings |-> IF Is(b, "confirmed") THEN new(b) ELSE bookings[b]]
  BY DEF RecordCompletion
<1> HIDE DEF new
<1>3. bookings' \in [Bookings -> BookingRow]
  BY <1>1, <1>2, RowFields
<1> QED
  BY <1>1, <1>2, <1>3 DEF RecordCompletion

-----------------------------------------------------------------------------
\* Types.

\* The key of an approval is of its type.
LEMMA KeyTyped == TypeOK => ManifestKey \in Approval
<1> SUFFICES ASSUME TypeOK PROVE ManifestKey \in Approval
  OBVIOUS
<1>1. \A b \in Bookings :
        <<bookings[b].seats, bookings[b].status, bookings[b].version, bookings[b].hold>>
          \in Nat \X (BookingStatus \cup {"none"}) \X Nat \X (Nat \cup {NoHold})
  <2> SUFFICES ASSUME NEW b \in Bookings
               PROVE  /\ bookings[b].seats \in Nat
                      /\ bookings[b].status \in BookingStatus \cup {"none"}
                      /\ bookings[b].version \in Nat
                      /\ bookings[b].hold \in Nat \cup {NoHold}
    OBVIOUS
  <2> QED
    BY RowFields
<1>2. trip.revision \in Nat /\ trip.crew \in Crews /\ trip.starts \in Departures
  BY DEF TypeOK
<1> QED
  BY <1>1, <1>2 DEF ManifestKey, Approval

\* Handlers of the trip and of commands that touch neither bookings nor check-ins.
TripSteps ==
  \/ ConfirmDriverCashReceived \/ RecordDriverCash
  \/ UpdateTrip \/ ApproveEarlyDeparture \/ ChangeStage
  \/ Depart \/ RecordDeparture \/ Complete \/ CountCash \/ Rollback \/ Tick

\* They keep the types.
LEMMA TripStepTyped ==
  ASSUME TypeOK, TripSteps, HistoryTyped'
  PROVE  TypeOK'
<1> DEFINE TripRow == [status : TripStatus, crew : Crews, starts : Departures,
                       revision : 0..MaxRevision, approval : Approval \cup {NoApproval}]
<1>1. UNCHANGED <<bookings, checkins>>
  BY DEF TripSteps, ConfirmDriverCashReceived, RecordDriverCash, UpdateTrip,
     ApproveEarlyDeparture, ChangeStage, Depart, RecordDeparture, Complete, CountCash,
     Rollback, Tick
<1>2. clock' \in 0..MaxTime
  <2>1. CASE Tick
    BY <2>1, LifecycleAssumption DEF TypeOK, Tick
  <2>2. CASE ~Tick
    <3>1. clock' = clock
      BY <2>2 DEF TripSteps, ConfirmDriverCashReceived, RecordDriverCash,
         UpdateTrip, ApproveEarlyDeparture, ChangeStage, Depart, RecordDeparture, Complete,
         CountCash, Rollback, Alone
    <3> QED
      BY <3>1 DEF TypeOK
  <2> QED
    BY <2>1, <2>2
<1>3. \A r \in ledger' : r.source \in Bookings \cup {None} /\ r.amount > 0
  <2>1. CASE RecordDriverCash
    <3>1. PICK n \in Entries, currency \in Currencies :
            ledger' = ledger \cup {Entry(None, currency, 0, n)}
      BY <2>1 DEF RecordDriverCash
    <3>2. n > 0
      BY LifecycleAssumption
    <3> QED
      BY <3>1, <3>2 DEF TypeOK, Entry
  <2>2. CASE ~RecordDriverCash
    <3>1. ledger' = ledger
      BY <2>2 DEF TripSteps, ConfirmDriverCashReceived, UpdateTrip,
         ApproveEarlyDeparture, ChangeStage, Depart, RecordDeparture, Complete, CountCash,
         Rollback, Tick
    <3> QED
      BY <3>1 DEF TypeOK
  <2> QED
    BY <2>1, <2>2
<1>4. trip' \in TripRow
  <2>1. trip \in TripRow
    BY DEF TypeOK
  <2>2. CASE UpdateTrip
    <3>1. PICK crew \in Crews, d \in Departures :
            trip' = [trip EXCEPT !.crew = crew, !.starts = d, !.revision = @ + 1]
      BY <2>2 DEF UpdateTrip
    <3>2. trip.revision + 1 \in 0..MaxRevision
      BY <2>1, <2>2, LifecycleAssumption DEF UpdateTrip
    <3> QED
      BY <2>1, <3>1, <3>2
  <2>3. CASE ApproveEarlyDeparture
    BY <2>1, <2>3, KeyTyped DEF ApproveEarlyDeparture
  <2>4. CASE ChangeStage \/ RecordDeparture
    BY <2>1, <2>4 DEF ChangeStage, RecordDeparture, TripStatus
  <2>5. CASE ~(UpdateTrip \/ ApproveEarlyDeparture \/ ChangeStage \/ RecordDeparture)
    <3>1. trip' = trip
      BY <2>5 DEF TripSteps, ConfirmDriverCashReceived, RecordDriverCash, Depart, Complete,
         CountCash, Rollback, Tick
    <3> QED
      BY <2>1, <3>1
  <2> QED
    BY <2>2, <2>3, <2>4, <2>5
<1>5. /\ command'.op \in Operation
      /\ command'.absent \subseteq Bookings
      /\ command'.op = "receipt" => command'.amount > 0
  <2>1. CASE ConfirmDriverCashReceived \/ Depart
    BY <2>1 DEF ConfirmDriverCashReceived, Depart, Lock, Operation
  <2>2. CASE Complete
    BY <2>2 DEF Complete, Lock, Absentees, Checked, Operation
  <2>3. CASE RecordDeparture \/ Rollback
    BY <2>3 DEF RecordDeparture, Rollback, Free, Operation
  <2>4. CASE CountCash
    BY <2>4 DEF CountCash, Lock, TypeOK, Operation
  <2>5. CASE command' = command
    BY <2>5 DEF TypeOK
  <2> QED
    BY <2>1, <2>2, <2>3, <2>4, <2>5 DEF TripSteps, RecordDriverCash, UpdateTrip,
       ApproveEarlyDeparture, ChangeStage, Tick, Alone
<1>6. \A b \in Bookings : PriceOf(b)' = PriceOf(b)
  BY <1>1 DEF PriceOf
<1> QED
  BY <1>1, <1>2, <1>3, <1>4, <1>5, <1>6 DEF TypeOK

\* The receipt of a whole trip and the completion keep the types.
LEMMA WholeTripTyped ==
  ASSUME TypeOK, RecordReceipt \/ RecordCompletion, HistoryTyped'
  PROVE  TypeOK'
<1>1. Free.op = "none" /\ Free.absent = {}
  BY DEF Free
<1>2. CASE RecordReceipt
  <2>1. /\ UNCHANGED <<clock, trip>> /\ command' = Free
        /\ \A r \in ledger' : r \in ledger \/ (r.source = None /\ r.amount > 0)
        /\ checkins' \in [Bookings -> Checkin] /\ bookings' \in [Bookings -> BookingRow]
    BY <1>2, ReceiptLeaves
  <2>2. ASSUME NEW b \in Bookings
        PROVE  /\ checkins'[b].cash <= PriceOf(b)'
               /\ IF bookings'[b].status = "none"
                  THEN bookings'[b] = EmptyRow /\ checkins'[b] = NoCheckin
                  ELSE bookings'[b].seats > 0
    <3>1. /\ \/ checkins'[b] = checkins[b]
             \/ /\ bookings[b].status \notin {"none", "awaiting_payment"}
                /\ checkins'[b].cash = PriceOf(b)
          /\ \/ bookings'[b] = bookings[b]
             \/ /\ bookings[b].status = "cash_on_boarding"
                /\ bookings'[b].status = "confirmed"
                /\ bookings'[b].seats = bookings[b].seats
      BY <1>2, ReceiptLeaves
    <3>2. PriceOf(b)' = PriceOf(b) /\ PriceOf(b) \in Nat
      BY <3>1, PriceTyped DEF PriceOf, Price
    <3>3. checkins[b].cash <= PriceOf(b)
      BY DEF TypeOK
    <3>4. IF bookings[b].status = "none"
          THEN bookings[b] = EmptyRow /\ checkins[b] = NoCheckin
          ELSE bookings[b].seats > 0
      BY DEF TypeOK
    <3>5. checkins'[b].cash <= PriceOf(b)'
      BY <3>1, <3>2, <3>3
    <3>6. CASE bookings[b].status = "none"
      BY <3>1, <3>4, <3>5, <3>6
    <3>7. CASE bookings[b].status # "none"
      BY <3>1, <3>4, <3>5, <3>7
    <3> QED
      BY <3>6, <3>7
  <2> QED
    BY <1>1, <2>1, <2>2 DEF TypeOK, Operation
<1>3. CASE RecordCompletion
  <2>1. /\ UNCHANGED <<clock, checkins, ledger>> /\ command' = Free
        /\ trip' = [trip EXCEPT !.status = "completed"]
        /\ bookings' \in [Bookings -> BookingRow]
    BY <1>3, CompletionLeaves
  <2>2. trip' \in [status : TripStatus, crew : Crews, starts : Departures,
                   revision : 0..MaxRevision, approval : Approval \cup {NoApproval}]
    BY <2>1 DEF TypeOK, TripStatus
  <2>3. ASSUME NEW b \in Bookings
        PROVE  /\ checkins'[b].cash <= PriceOf(b)'
               /\ IF bookings'[b].status = "none"
                  THEN bookings'[b] = EmptyRow /\ checkins'[b] = NoCheckin
                  ELSE bookings'[b].seats > 0
    <3>1. CASE Is(b, "confirmed")
      <4>1. /\ bookings'[b].status # "none" /\ bookings'[b].seats = bookings[b].seats
        BY <1>3, <3>1, CompletionLeaves
      <4>2. bookings[b].status # "none"
        BY <3>1, BookingPhases DEF Is
      <4> QED
        BY <2>1, <4>1, <4>2 DEF TypeOK, PriceOf, Price
    <3>2. CASE ~Is(b, "confirmed")
      <4>1. bookings'[b] = bookings[b]
        BY <1>3, <3>2, CompletionLeaves
      <4> QED
        BY <2>1, <4>1 DEF TypeOK, PriceOf
    <3> QED
      BY <3>1, <3>2
  <2> QED
    BY <1>1, <2>1, <2>2, <2>3 DEF TypeOK, Operation
<1> QED
  BY <1>2, <1>3

\* Every step keeps the types.
LEMMA TypeStep == TypeOK /\ [Next]_vars => TypeOK'
<1> SUFFICES ASSUME TypeOK, Next PROVE TypeOK'
  BY DEF TypeOK, HistoryTyped, vars, PriceOf
<1>1. HistoryTyped'
  <2>1. {<<b, command.op>> : b \in {d \in Bookings : bookings'[d] # bookings[d]}}
          \subseteq Bookings \X Operation
    BY DEF TypeOK
  <2> QED
    BY <2>1 DEF Next, Remember, TypeOK, HistoryTyped
<1>2. ASSUME NEW b \in Bookings,
             \/ Sale(b) \/ ConfirmPayment(b) \/ ChooseCashBooking(b) \/ ExpireBookingHolds(b)
             \/ UpdateBooking(b) \/ EditPassenger(b) \/ AddPassenger(b)
      PROVE  TypeOK'
  <2>1. BookingOnly
    BY <1>2, SaleTouches, ChangeTouches
  <2>2. PICK row : Touched(b, row)
    BY <1>2, SaleTouches, ChangeTouches
  <2> QED
    BY <1>1, <2>1, <2>2, TouchedTyped
<1>3. ASSUME NEW b \in Bookings, MarkPassenger(b) \/ TakeCash(b)
      PROVE  TypeOK'
  BY <1>1, <1>3, CheckinTyped
<1> QED
  BY <1>1, <1>2, <1>3, TripStepTyped, WholeTripTyped DEF Next, Step, TripSteps

\* Initially everything is typed.
LEMMA StartTyped == Init => TypeOK
<1> SUFFICES ASSUME Init PROVE TypeOK
  OBVIOUS
<1>1. \A b \in Bookings : bookings[b] = EmptyRow /\ checkins[b] = NoCheckin
  BY DEF Init
<1>2. EmptyRow \in BookingRow /\ NoCheckin \in Checkin /\ EmptyRow.status = "none"
  BY LifecycleAssumption DEF EmptyRow, BookingRow, NoCheckin, Checkin, Mark, NoHold
<1>3. Fare * 0 = 0 /\ EmptyRow.seats = 0 /\ NoCheckin.cash = 0
  BY LifecycleAssumption DEF EmptyRow, NoCheckin
<1>4. \A b \in Bookings : checkins[b].cash <= PriceOf(b)
  BY <1>1, <1>3 DEF PriceOf, Price
<1>5. trip \in [status : TripStatus, crew : Crews, starts : Departures,
                revision : 0..MaxRevision, approval : Approval \cup {NoApproval}]
  BY LifecycleAssumption DEF Init, TripStatus
<1>6. bookings \in [Bookings -> BookingRow] /\ checkins \in [Bookings -> Checkin]
  BY <1>2 DEF Init
<1>7. command.op = "none" /\ command.absent = {}
  BY DEF Init, Free
<1>8. clock \in 0..MaxTime
  BY LifecycleAssumption DEF Init
<1>9. ledger = {} /\ altered = FALSE /\ resolved = {} /\ command.op # "receipt"
  BY <1>7 DEF Init
<1>10. \A b \in Bookings : bookings[b].status = "none"
  BY <1>1, <1>2
<1> QED
  BY <1>1, <1>4, <1>5, <1>6, <1>7, <1>8, <1>9, <1>10 DEF TypeOK, HistoryTyped, Operation

\* Every reachable state is well formed, and no booking was charged more than its
\* seats cost (TypeOK of TripLifecycle).
THEOREM TripTypeCorrect == Spec => []TypeOK
  BY StartTyped, TypeStep, PTL DEF Spec

-----------------------------------------------------------------------------
\* An approval and what changes after it.

\* A step changes a booking only for good: it becomes known, or its version grows.
Grown(b) ==
  \/ bookings'[b] = bookings[b]
  \/ /\ bookings'[b].status # "none" /\ bookings'[b].version >= bookings[b].version
     /\ bookings[b].status = "none" \/ bookings'[b].version > bookings[b].version

\* Every step: a row that changes gets a new version.
LEMMA RowsGrow ==
  ASSUME TypeOK, Step
  PROVE  \A b \in Bookings : Grown(b)
<1>1. ASSUME NEW b \in Bookings, NEW row, Touched(b, row)
      PROVE  \A d \in Bookings : Grown(d)
  <2>1. bookings'[b] = row /\ \A d \in Bookings : d # b => bookings'[d] = bookings[d]
    BY <1>1 DEF Touched, TypeOK
  <2>2. bookings[b].version \in Nat
    BY RowFields
  <2>3. bookings[b].status = "none" => bookings[b].version = 0
    BY DEF TypeOK, EmptyRow
  <2> QED
    BY <1>1, <2>1, <2>2, <2>3 DEF Touched, Grown
<1>2. ASSUME NEW b \in Bookings,
             \/ Sale(b) \/ ConfirmPayment(b) \/ ChooseCashBooking(b) \/ ExpireBookingHolds(b)
             \/ UpdateBooking(b) \/ EditPassenger(b) \/ AddPassenger(b)
      PROVE  \A d \in Bookings : Grown(d)
  <2>1. PICK row : Touched(b, row)
    BY <1>2, SaleTouches, ChangeTouches
  <2> QED
    BY <1>1, <2>1
<1>3. ASSUME NEW b \in Bookings, TakeCash(b)
      PROVE  \A d \in Bookings : Grown(d)
  <2>1. CASE bookings' = bookings
    BY <2>1 DEF Grown
  <2>2. CASE \E row : Touched(b, row)
    BY <1>1, <2>2
  <2> QED
    BY <1>3, <2>1, <2>2, CashLeaves
<1>4. ASSUME NEW b \in Bookings, MarkPassenger(b)
      PROVE  \A d \in Bookings : Grown(d)
  BY <1>4 DEF MarkPassenger, Grown
<1>5. CASE RecordReceipt
  <2> SUFFICES ASSUME NEW b \in Bookings PROVE Grown(b)
    OBVIOUS
  <2>1. \/ bookings'[b] = bookings[b]
        \/ /\ bookings'[b].status = "confirmed"
           /\ bookings'[b].version = bookings[b].version + 1
    BY <1>5, ReceiptLeaves
  <2> QED
    BY <2>1, RowFields DEF Grown
<1>6. CASE RecordCompletion
  <2> SUFFICES ASSUME NEW b \in Bookings PROVE Grown(b)
    OBVIOUS
  <2>1. \/ bookings'[b] = bookings[b]
        \/ /\ bookings'[b].status # "none"
           /\ bookings'[b].version = bookings[b].version + 1
    BY <1>6, CompletionLeaves
  <2> QED
    BY <2>1, RowFields DEF Grown
<1>7. CASE TripSteps
  BY <1>7 DEF Grown, TripSteps, ConfirmDriverCashReceived, RecordDriverCash, UpdateTrip,
     ApproveEarlyDeparture, ChangeStage, Depart, RecordDeparture, Complete, CountCash,
     Rollback, Tick
<1> QED
  BY <1>2, <1>3, <1>4, <1>5, <1>6, <1>7 DEF Step, TripSteps

\* Only an approval writes the approval, and a new plan has a new revision.
PlanGrown ==
  /\ trip'.approval = trip.approval
  /\ \/ /\ trip'.revision = trip.revision
        /\ <<trip'.crew, trip'.starts>> = <<trip.crew, trip.starts>>
     \/ trip'.revision = trip.revision + 1

\* Every step but the approval: a plan that changes gets a new revision.
LEMMA PlanGrows ==
  ASSUME TypeOK, Step
  PROVE  ApproveEarlyDeparture \/ PlanGrown
<1> DEFINE TripRow == [status : TripStatus, crew : Crews, starts : Departures,
                       revision : 0..MaxRevision, approval : Approval \cup {NoApproval}]
<1>1. trip \in TripRow
  BY DEF TypeOK
<1>2. CASE trip' = trip \/ \E s : trip' = [trip EXCEPT !.status = s]
  BY <1>1, <1>2 DEF PlanGrown
<1>3. CASE UpdateTrip
  <2>1. PICK crew \in Crews, d \in Departures :
          trip' = [trip EXCEPT !.crew = crew, !.starts = d, !.revision = @ + 1]
    BY <1>3 DEF UpdateTrip
  <2> QED
    BY <1>1, <2>1 DEF PlanGrown
<1>4. ASSUME NEW b \in Bookings,
             \/ Sale(b) \/ ConfirmPayment(b) \/ ChooseCashBooking(b) \/ ExpireBookingHolds(b)
             \/ UpdateBooking(b) \/ EditPassenger(b) \/ AddPassenger(b)
             \/ MarkPassenger(b) \/ TakeCash(b)
      PROVE  trip' = trip \/ \E s : trip' = [trip EXCEPT !.status = s]
  <2>1. CASE MarkPassenger(b) \/ TakeCash(b)
    BY <2>1, MarkLeaves, CashLeaves
  <2>2. CASE ~(MarkPassenger(b) \/ TakeCash(b))
    BY <1>4, <2>2, SaleTouches, ChangeTouches DEF BookingOnly
  <2> QED
    BY <2>1, <2>2
<1>5. CASE RecordReceipt \/ RecordCompletion \/ ChangeStage \/ RecordDeparture
  <2>1. trip' = trip \/ \E s : trip' = [trip EXCEPT !.status = s]
    BY <1>5 DEF RecordReceipt, RecordCompletion, ChangeStage, RecordDeparture
  <2> QED
    BY <1>2, <2>1
<1>6. CASE \/ ConfirmDriverCashReceived \/ RecordDriverCash \/ Depart \/ Complete
           \/ CountCash \/ Rollback \/ Tick
  <2>1. trip' = trip
    BY <1>6 DEF ConfirmDriverCashReceived, RecordDriverCash, Depart, Complete, CountCash,
       Rollback, Tick
  <2> QED
    BY <1>2, <2>1
<1> QED
  BY <1>2, <1>3, <1>4, <1>5, <1>6 DEF Step

\* What changes after an approval leaves a trace in the key.
LEMMA TraceStep ==
  ASSUME TypeOK, TypeOK', ApprovalTraced, Next
  PROVE  ApprovalTraced'
<1>1. CASE ApproveEarlyDeparture
  <2>1. /\ trip' = [trip EXCEPT !.approval = ManifestKey] /\ UNCHANGED bookings
        /\ trip.approval # ManifestKey
    BY <1>1 DEF ApproveEarlyDeparture, EarlyDepartureApproved
  <2>2. trip'.approval = ManifestKey /\ trip'.revision = trip.revision
    BY <2>1 DEF TypeOK
  <2>3. ~altered' /\ Joined' = {}
    <3>1. command' = Free
      BY <1>1 DEF ApproveEarlyDeparture, Alone
    <3>2. resolved' = {} /\ ~altered'
      BY <2>1, <2>2, <3>1 DEF Next, Remember
    <3> QED
      BY <3>2 DEF Joined
  <2>4. /\ ManifestKey.revision = trip.revision
        /\ \A b \in Bookings : /\ ManifestKey.rows[b][3] = bookings[b].version
                               /\ ManifestKey.rows[b][2] = bookings[b].status
    BY DEF ManifestKey
  <2>5. trip.revision \in Nat /\ \A b \in Bookings : bookings[b].version \in Nat
    BY RowFields DEF TypeOK
  <2> QED
    BY <2>1, <2>2, <2>3, <2>4, <2>5 DEF ApprovalTraced
<1>2. CASE PlanGrown
  <2> DEFINE key == trip.approval
  <2>1. trip'.approval = key
    BY <1>2 DEF PlanGrown
  <2> SUFFICES ASSUME key # NoApproval
               PROVE  /\ key.revision <= trip'.revision
                      /\ \A b \in Bookings :
                           /\ key.rows[b][3] <= bookings'[b].version
                           /\ (key.rows[b][2] # "none" => bookings'[b].status # "none")
                      /\ altered' => \/ key.revision < trip'.revision
                                     \/ \E b \in Bookings : ~Unchanged(key, b)'
                      /\ \A b \in Joined' : ~Unchanged(key, b)'
    BY <2>1 DEF ApprovalTraced
  <2>2. /\ key.revision \in Nat /\ trip.revision \in Nat
        /\ \A b \in Bookings : key.rows[b][3] \in Nat
    BY DEF TypeOK, Approval
  <2>3. /\ key.revision <= trip.revision
        /\ \A b \in Bookings :
             /\ key.rows[b][3] <= bookings[b].version
             /\ (key.rows[b][2] # "none" => bookings[b].status # "none")
        /\ altered => \/ key.revision < trip.revision
                      \/ \E b \in Bookings : ~Unchanged(key, b)
        /\ \A b \in Joined : b \in Bookings /\ ~Unchanged(key, b)
    BY DEF ApprovalTraced, Joined, TypeOK, HistoryTyped
  <2>4. key.revision <= trip'.revision
    BY <1>2, <2>2, <2>3 DEF PlanGrown
  <2>5. \A b \in Bookings : Grown(b)
    BY RowsGrow DEF Next
  <2>6. \A b \in Bookings : bookings[b].version \in Nat /\ bookings'[b].version \in Nat
    BY DEF TypeOK, BookingRow
  <2>7. ASSUME NEW b \in Bookings
        PROVE  /\ key.rows[b][3] <= bookings'[b].version
               /\ (key.rows[b][2] # "none" => bookings'[b].status # "none")
    BY <2>2, <2>3, <2>5, <2>6 DEF Grown
  <2>8. ASSUME NEW b \in Bookings, ~Unchanged(key, b)
        PROVE  ~Unchanged(key, b)'
    <3>1. \/ key.rows[b][3] < bookings[b].version
          \/ key.rows[b][2] = "none" /\ bookings[b].status # "none"
      BY <2>2, <2>3, <2>6, <2>8 DEF Unchanged
    <3>2. \/ key.rows[b][3] < bookings'[b].version
          \/ key.rows[b][2] = "none" /\ bookings'[b].status # "none"
      BY <2>2, <2>5, <2>6, <3>1 DEF Grown
    <3>3. key.rows[b][3] # bookings'[b].version
          \/ (key.rows[b][2] = "none" /\ bookings'[b].status # "none")
      BY <2>2, <2>6, <3>2
    <3> QED
      BY <2>1, <3>3 DEF Unchanged
  <2>9. ASSUME NEW b \in Bookings, bookings'[b] # bookings[b]
        PROVE  ~Unchanged(key, b)'
    <3>1. /\ bookings'[b].status # "none"
          /\ bookings[b].status = "none" \/ bookings'[b].version > bookings[b].version
      BY <2>5, <2>9 DEF Grown
    <3>2. \/ key.rows[b][2] = "none"
          \/ bookings'[b].version > key.rows[b][3]
      BY <2>2, <2>3, <2>6, <3>1
    <3>3. key.rows[b][2] = "none" \/ key.rows[b][3] # bookings'[b].version
      BY <2>2, <2>6, <3>2
    <3> QED
      BY <2>1, <3>1, <3>3 DEF Unchanged
  <2>10. ASSUME altered'
         PROVE  \/ key.revision < trip'.revision
                \/ \E b \in Bookings : ~Unchanged(key, b)'
    <3>1. \/ altered \/ bookings' # bookings \/ resolved # {}
          \/ <<trip'.crew, trip'.starts>> # <<trip.crew, trip.starts>>
      BY <2>10 DEF Next, Remember
    <3>2. CASE altered
      BY <1>2, <2>2, <2>3, <2>8, <3>2 DEF PlanGrown
    <3>3. CASE bookings' # bookings
      <4>1. \E b \in Bookings : bookings'[b] # bookings[b]
        BY <3>3 DEF TypeOK
      <4> QED
        BY <2>9, <4>1
    <3>4. CASE <<trip'.crew, trip'.starts>> # <<trip.crew, trip.starts>>
      BY <1>2, <2>2, <2>3, <3>4 DEF PlanGrown
    <3>5. CASE resolved # {}
      <4>1. Joined # {}
        BY <3>5 DEF Joined
      <4> QED
        BY <2>3, <2>8, <4>1
    <3> QED
      BY <3>1, <3>2, <3>3, <3>4, <3>5
  <2>11. ASSUME NEW b \in Joined'
         PROVE  ~Unchanged(key, b)'
    <3>1. b \in Joined \/ (b \in Bookings /\ bookings'[b] # bookings[b])
      BY <2>11 DEF Next, Remember, Joined
    <3> QED
      BY <2>3, <2>8, <2>9, <3>1
  <2> QED
    BY <2>4, <2>7, <2>10, <2>11
<1> QED
  BY <1>1, <1>2, PlanGrows DEF Next

\* An approval that fits the trip as it is covers everything that is to be covered.
LEMMA ApprovalFits ==
  ASSUME TypeOK, ApprovalTraced, trip.approval = ManifestKey
  PROVE  trip.approval # NoApproval /\ ~altered
<1>1. ManifestKey # NoApproval
  <2>1. ManifestKey.plan = <<trip.crew, trip.starts>> /\ NoApproval.plan = <<>>
    BY DEF ManifestKey, NoApproval
  <2>2. <<trip.crew, trip.starts>> # <<>>
    OBVIOUS
  <2> QED
    BY <2>1, <2>2
<1>2. \A b \in Bookings : Unchanged(trip.approval, b)
  BY DEF Unchanged, ManifestKey
<1>3. trip.approval.revision = trip.revision /\ trip.revision \in Nat
  BY DEF ManifestKey, TypeOK
<1> QED
  BY <1>1, <1>2, <1>3 DEF ApprovalTraced

-----------------------------------------------------------------------------
\* Commands.

\* A hold is resolved.
Resolved(b) == ConfirmPayment(b) \/ ChooseCashBooking(b) \/ ExpireBookingHolds(b)

\* While a command holds the lock between its statements, only the command, the clock
\* and the handlers that resolve holds move.
LEMMA CommandAlone ==
  ASSUME Step, command # Free
  PROVE  \/ RecordReceipt \/ RecordDeparture \/ RecordCompletion
         \/ CountCash \/ Rollback \/ Tick
         \/ \E b \in Bookings : Resolved(b)
  BY DEF Step, Sale, UpdateBooking,
     EditPassenger, AddPassenger, MarkPassenger, TakeCash, Checkable, Alone, Resolved,
     ConfirmDriverCashReceived, RecordDriverCash, UpdateTrip, ApproveEarlyDeparture,
     ChangeStage, Depart, Complete

\* Where the command stays as it is, little else moves.
LEMMA CommandWaits ==
  ASSUME Step, command' = command, command.op \in {"depart", "count", "complete"}
  PROVE  Tick \/ \E b \in Bookings : Resolved(b)
<1>1. command # Free /\ Free.op = "none"
  BY DEF Free
<1>2. CASE RecordReceipt \/ RecordDeparture \/ RecordCompletion \/ Rollback
  BY <1>1, <1>2 DEF RecordReceipt, RecordDeparture, RecordCompletion, Rollback
<1>3. CASE CountCash
  <2>1. command.op = "count" /\ command'.op = "complete"
    BY <1>3 DEF CountCash, Lock
  <2> QED
    BY <2>1
<1> QED
  BY <1>1, <1>2, <1>3, CommandAlone

\* What it means to resolve a hold: a booking that waited gets a new row of as many
\* seats, which occupies none that it did not occupy, and the history notes it.
LEMMA HoldResolved ==
  ASSUME TypeOK, Next, NEW b \in Bookings, Resolved(b), command # Free
  PROVE  /\ BookingOnly
         /\ bookings[b].status = "awaiting_payment"
         /\ bookings'[b].seats = bookings[b].seats
         /\ \A d \in Bookings : d # b => bookings'[d] = bookings[d]
         /\ b \in Active' => b \in Active
         /\ resolved' = resolved \cup {<<b, command.op>>}
         /\ altered' <=> altered
<1>1. BookingOnly /\ \E row : Touched(b, row)
  BY ChangeTouches DEF Resolved
<1> DEFINE old == bookings[b]
<1>2. old \in BookingRow /\ old.version \in Nat /\ bookings \in [Bookings -> BookingRow]
  BY RowFields DEF TypeOK
<1>3. old.status = "awaiting_payment"
  BY DEF Resolved, ConfirmPayment, ChooseCashBooking, ExpireBookingHolds, LiveHold
<1>4. PICK row : Touched(b, row)
  BY <1>1
<1>5. /\ bookings'[b] = row /\ \A d \in Bookings : d # b => bookings'[d] = bookings[d]
      /\ row.version = old.version + 1
  BY <1>2, <1>3, <1>4 DEF Touched
<1>6. bookings'[b] # bookings[b]
  BY <1>2, <1>5
<1>7. ASSUME ConfirmPayment(b) \/ ChooseCashBooking(b)
      PROVE  bookings'[b].seats = old.seats /\ (b \in Active' => b \in Active)
  <2>1. b \in Active
    BY <1>3, <1>7, BookingPhases
       DEF ConfirmPayment, ChooseCashBooking, LiveHold, Active, Occupies
  <2>2. bookings'[b].seats = old.seats
    <3> DEFINE one == [old EXCEPT !.status = "confirmed", !.hold = NoHold, !.paid = TRUE]
               two == [old EXCEPT !.status = "cash_on_boarding", !.hold = NoHold,
                                  !.method = "cash"]
    <3>1. /\ one.seats = old.seats /\ one \in BookingRow
          /\ two.seats = old.seats /\ two \in BookingRow
      BY <1>2 DEF BookingRow, BookingStatus
    <3>2. bookings' = Update(b, one) \/ bookings' = Update(b, two)
      BY <1>7 DEF ConfirmPayment, ChooseCashBooking
    <3> HIDE DEF one, two
    <3>3. ASSUME NEW new \in BookingRow, bookings' = Update(b, new)
          PROVE  bookings'[b].seats = new.seats
      BY <1>2, <3>3 DEF Update, BookingRow
    <3> QED
      BY <3>1, <3>2, <3>3
  <2> QED
    BY <2>1, <2>2
<1>8. ASSUME ExpireBookingHolds(b)
      PROVE  bookings'[b].seats = old.seats /\ (b \in Active' => b \in Active)
  <2> DEFINE one == [old EXCEPT !.status = "expired"]
  <2>1. one.seats = old.seats /\ one.status = "expired" /\ one \in BookingRow
    BY <1>2 DEF BookingRow, BookingStatus
  <2>2. bookings' = Update(b, one)
    BY <1>8 DEF ExpireBookingHolds
  <2> HIDE DEF one
  <2>3. bookings'[b].seats = old.seats /\ bookings'[b].status = "expired"
    BY <1>2, <2>1, <2>2 DEF Update, BookingRow
  <2>4. b \notin Active'
    BY <2>3 DEF Active, Occupies, BookingPhase
  <2> QED
    BY <2>3, <2>4
<1>9. bookings'[b].seats = old.seats /\ (b \in Active' => b \in Active)
  BY <1>7, <1>8 DEF Resolved
<1>10. {d \in Bookings : bookings'[d] # bookings[d]} = {b}
  BY <1>5, <1>6
<1>11. command' = command /\ command' # Free /\ trip' = trip
  BY <1>1 DEF BookingOnly
<1>12. resolved' = resolved \cup {<<d, command.op>> : d \in {b}}
  BY <1>10, <1>11 DEF Next, Remember
<1>13. altered' <=> altered
  BY <1>11 DEF Next, Remember
<1> QED
  BY <1>1, <1>3, <1>5, <1>9, <1>12, <1>13

\* Whose hold was resolved is known ever after.
LEMMA JoinedGrows ==
  ASSUME NEW b, NEW op, resolved' = resolved \cup {<<b, op>>}
  PROVE  /\ Joined' = Joined \cup {b}
         /\ op = "complete" => JoinedLate' = JoinedLate \cup {b}
<1>1. \A q : q \in resolved' <=> q \in resolved \/ q = <<b, op>>
  OBVIOUS
<1>2. <<b, op>>[1] = b /\ <<b, op>>[2] = op
  OBVIOUS
<1>3. \A d : d \in Joined' <=> d \in Joined \cup {b}
  BY <1>1, <1>2 DEF Joined
<1>4. op = "complete" => \A d : d \in JoinedLate' <=> d \in JoinedLate \cup {b}
  BY <1>1, <1>2 DEF JoinedLate
<1> QED
  BY <1>3, <1>4

\* The command that a step leaves behind, if it is another one than before.
LEMMA CommandBegins ==
  ASSUME Step
  PROVE  /\ command'.op = "depart" => Depart \/ command' = command
         /\ command'.op = "count" => Complete \/ command' = command
         /\ command'.op = "complete" => CountCash \/ command' = command
<1>1. Free.op = "none"
  BY DEF Free
<1>2. CASE RecordReceipt \/ RecordDeparture \/ RecordCompletion \/ Rollback
  BY <1>1, <1>2 DEF RecordReceipt, RecordDeparture, RecordCompletion, Rollback
<1>3. CASE ConfirmDriverCashReceived \/ Depart \/ Complete \/ CountCash
  BY <1>3 DEF ConfirmDriverCashReceived, Depart, Complete, CountCash, Lock
<1>4. CASE ~(\/ RecordReceipt \/ RecordDeparture \/ RecordCompletion \/ Rollback
             \/ ConfirmDriverCashReceived \/ Depart \/ Complete \/ CountCash)
  <2>1. command' = command
    BY <1>4 DEF Step, Sale, ConfirmPayment, ChooseCashBooking, ExpireBookingHolds,
       UpdateBooking, EditPassenger, AddPassenger, MarkPassenger, TakeCash, Checkable, Alone,
       Beside, RecordDriverCash, UpdateTrip, ApproveEarlyDeparture, ChangeStage, Tick
  <2> QED
    BY <2>1
<1> QED
  BY <1>2, <1>3, <1>4

\* The history keeps to the command.
LEMMA HistoryStep ==
  ASSUME TypeOK, HistoryKept, Next
  PROVE  HistoryKept'
<1>1. command' = Free => resolved' = {}
  BY DEF Next, Remember
<1>2. ASSUME command'.op # "complete", NEW q \in resolved', q[2] = "complete"
      PROVE  FALSE
  <2>1. command' # Free
    BY <1>1, <1>2
  <2>2. command.op # "complete"
    <3>1. ASSUME command.op = "complete" PROVE command' = Free \/ command' = command
      <4>1. command # Free /\ command.op \notin {"none", "receipt", "depart", "count"}
        BY <3>1 DEF Free
      <4> QED
        BY <4>1, CommandAlone, ChangeTouches DEF Next, RecordReceipt, RecordDeparture,
           RecordCompletion, CountCash, Rollback, Tick, Resolved, BookingOnly
    <3> QED
      BY <1>2, <2>1, <3>1
  <2>3. q \notin resolved
    BY <1>2, <2>2 DEF HistoryKept, JoinedLate
  <2>4. PICK b : q = <<b, command.op>>
    BY <1>2, <2>1, <2>3 DEF Next, Remember
  <2> QED
    BY <1>2, <2>2, <2>4
<1> QED
  BY <1>1, <1>2 DEF HistoryKept, JoinedLate

\* Everybody with a seat on board means everybody of the party that has one now.
LEMMA BoardedIsEverybody ==
  ASSUME TypeOK, AllPassengersBoarded
  PROVE  EverybodyOnBoard
<1>1. PICK b \in Active : TRUE
  BY DEF AllPassengersBoarded
<1>2. b \in Bookings /\ bookings[b].status # "none" /\ Marked(b, {"boarded"})
  BY <1>1, BookingPhases DEF Active, Occupies, AllPassengersBoarded
<1>3. bookings[b].seats > 0
  BY <1>2 DEF TypeOK
<1> QED
  BY <1>2, <1>3 DEF EverybodyOnBoard, AllPassengersBoarded

\* Neither time nor a resolved hold brings anybody to the party.
LEMMA BoardedStays ==
  ASSUME TypeOK, EverybodyOnBoard, UNCHANGED checkins, Active' \subseteq Active,
         \A b \in Bookings : bookings'[b].seats = bookings[b].seats
  PROVE  EverybodyOnBoard'
<1>1. \A b \in Bookings : Marked(b, {"boarded"})' <=> Marked(b, {"boarded"})
  BY DEF Marked, Seats
<1>2. Active \subseteq Bookings
  BY DEF Active
<1> QED
  BY <1>1, <1>2 DEF EverybodyOnBoard

\* Time takes seats away from holds and gives none.
LEMMA TickFrees ==
  ASSUME TypeOK, Tick
  PROVE  Active' \subseteq Active
<1>1. UNCHANGED <<trip, bookings, checkins>> /\ clock' = clock + 1 /\ clock \in Int
  BY DEF Tick, TypeOK
<1> SUFFICES ASSUME NEW b \in Active' PROVE b \in Active
  OBVIOUS
<1>2. b \in Bookings /\ Occupies(bookings[b], clock + 1)
  BY <1>1 DEF Active
<1>3. bookings[b].hold \in Int
  BY <1>2, RowFields DEF NoHold
<1> QED
  BY <1>1, <1>2, <1>3 DEF Active, Occupies, HoldLive

\* What a departure found is true until it is written, but for the holds beside it.
LEMMA DepartureStep ==
  ASSUME TypeOK, HistoryKept, ApprovalTraced, DepartureChecked, Next
  PROVE  DepartureChecked'
<1> DEFINE Covered ==
             /\ trip.approval # NoApproval /\ ~altered
             /\ \A b \in Bookings : trip.approval.rows[b][2] =
                  IF b \in Joined THEN "awaiting_payment" ELSE bookings[b].status
<1> SUFFICES ASSUME command'.op = "depart", BeforeDeparture'
             PROVE  EverybodyOnBoard' \/ Covered'
  BY DEF DepartureChecked
<1>1. CASE Depart
  <2>1. UNCHANGED <<clock, trip, bookings, checkins>> /\ command = Free /\ command' # Free
    BY <1>1 DEF Depart, Lock, Free
  <2>2. BeforeDeparture /\ (altered' <=> altered)
    BY <2>1 DEF BeforeDeparture, Next, Remember, TypeOK, HistoryTyped
  <2>3. Joined' = {}
    <3>1. {d \in Bookings : bookings'[d] # bookings[d]} = {}
      BY <2>1
    <3>2. resolved' = {}
      BY <2>1, <3>1 DEF Next, Remember, HistoryKept
    <3> QED
      BY <3>2 DEF Joined
  <2>4. CASE AllPassengersBoarded
    <3>1. Active' = Active
      BY <2>1 DEF Active
    <3> QED
      BY <2>1, <2>4, <3>1, BoardedIsEverybody, BoardedStays
  <2>5. CASE EarlyDepartureApproved
    <3>1. trip.approval # NoApproval /\ ~altered /\ trip.approval = ManifestKey
      BY <2>5, ApprovalFits DEF EarlyDepartureApproved
    <3>2. \A b \in Bookings : trip.approval.rows[b][2] = bookings[b].status
      BY <3>1 DEF ManifestKey
    <3> QED
      BY <2>1, <2>2, <2>3, <3>1, <3>2
  <2> QED
    BY <1>1, <2>2, <2>4, <2>5 DEF Depart
<1>2. CASE command' = command
  <2>1. command.op = "depart" /\ command # Free /\ command' # Free
    BY <1>2 DEF Free
  <2>2. CASE Tick
    <3>1. UNCHANGED <<trip, bookings, checkins>> /\ clock' = clock + 1
      BY <2>2 DEF Tick
    <3>2. BeforeDeparture
      <4>1. clock \in Int /\ trip.starts \in Int
        <5>1. trip.starts \in Departures /\ Departures \subseteq Nat /\ clock \in Int
          BY LifecycleAssumption DEF TypeOK
        <5>2. trip.starts \in Nat
          BY <5>1
        <5> QED
          BY <5>1, <5>2
      <4>2. clock + 1 < trip.starts /\ TripPhase(trip.status) \in {"planned", "assigned"}
        BY <3>1 DEF BeforeDeparture
      <4> QED
        BY <4>1, <4>2 DEF BeforeDeparture
    <3>3. EverybodyOnBoard \/ Covered
      BY <2>1, <3>2 DEF DepartureChecked
    <3>4. EverybodyOnBoard => EverybodyOnBoard'
      BY <2>2, <3>1, BoardedStays, TickFrees
    <3>5. UNCHANGED <<Joined, altered>>
      <4>1. {d \in Bookings : bookings'[d] # bookings[d]} = {}
        BY <3>1
      <4>2. resolved' = resolved
        BY <2>1, <4>1 DEF Next, Remember
      <4> QED
        BY <2>1, <3>1, <4>2 DEF Next, Remember, Joined, TypeOK, HistoryTyped
    <3> QED
      BY <3>1, <3>3, <3>4, <3>5
  <2>3. ASSUME NEW b \in Bookings, Resolved(b)
        PROVE  EverybodyOnBoard' \/ Covered'
    <3>1. /\ UNCHANGED <<clock, trip, checkins>>
          /\ bookings[b].status = "awaiting_payment"
          /\ bookings'[b].seats = bookings[b].seats
          /\ \A d \in Bookings : d # b => bookings'[d] = bookings[d]
          /\ b \in Active' => b \in Active
          /\ resolved' = resolved \cup {<<b, command.op>>}
          /\ altered' <=> altered
      BY <2>1, <2>3, HoldResolved DEF BookingOnly
    <3>2. BeforeDeparture
      BY <3>1 DEF BeforeDeparture
    <3>3. EverybodyOnBoard \/ Covered
      BY <2>1, <3>2 DEF DepartureChecked
    <3>4. Active' \subseteq Active
      BY <3>1 DEF Active
    <3>5. EverybodyOnBoard => EverybodyOnBoard'
      BY <3>1, <3>4, BoardedStays
    <3>6. Joined' = Joined \cup {b}
      BY <3>1, JoinedGrows
    <3>7. ASSUME Covered PROVE Covered'
      <4>1. \A d \in Bookings : trip.approval.rows[d][2] =
              IF d \in Joined' THEN "awaiting_payment" ELSE bookings'[d].status
        BY <3>1, <3>6, <3>7
      <4> QED
        BY <3>1, <3>7, <4>1
    <3> QED
      BY <3>3, <3>5, <3>7
  <2> QED
    BY <1>2, <2>1, <2>2, <2>3, CommandWaits DEF Next
<1> QED
  BY <1>1, <1>2, CommandBegins DEF Next

\* Who was missing at the roll call was marked, whoever joined later.
LEMMA RollStep ==
  ASSUME TypeOK, RollCalled, Next
  PROVE  RollCalled'
<1> DEFINE Decided(b) == Is(b, "confirmed") => Marked(b, {"boarded", "absent"})
<1> SUFFICES ASSUME command'.op \in {"count", "complete"}, Checked' # {},
                    NEW b \in Bookings \ Joined'
             PROVE  Decided(b)'
  BY DEF RollCalled
<1>1. CASE Complete
  <2>1. UNCHANGED <<bookings, checkins>> /\ AttendanceResolved
    BY <1>1 DEF Complete
  <2>2. Checked # {}
    BY <2>1 DEF Checked
  <2>3. Decided(b)
    BY <2>1, <2>2 DEF AttendanceResolved
  <2> QED
    BY <2>1, <2>3 DEF Is, Marked, Seats
<1>2. CASE CountCash \/ command' = command
  <2>1. /\ command.op \in {"count", "complete"} /\ command # Free /\ command' # Free
    BY <1>2 DEF CountCash, Lock, Free
  <2>2. Joined \subseteq Joined'
    BY <2>1 DEF Next, Remember, Joined
  <2>3. /\ checkins' = checkins
        /\ bookings'[b] = bookings[b]
    <3>1. CASE CountCash \/ Tick
      BY <3>1 DEF CountCash, Tick
    <3>2. ASSUME NEW d \in Bookings, Resolved(d)
          PROVE  checkins' = checkins /\ bookings'[b] = bookings[b]
      <4>1. /\ BookingOnly /\ resolved' = resolved \cup {<<d, command.op>>}
            /\ \A e \in Bookings : e # d => bookings'[e] = bookings[e]
        BY <2>1, <3>2, HoldResolved
      <4>2. b # d
        BY <4>1, JoinedGrows
      <4> QED
        BY <4>1, <4>2 DEF BookingOnly
    <3> QED
      BY <1>2, <2>1, <3>1, <3>2, CommandWaits DEF Next
  <2>4. Checked # {} /\ b \notin Joined
    BY <2>2, <2>3 DEF Checked
  <2>5. Decided(b)
    BY <2>1, <2>4 DEF RollCalled
  <2> QED
    BY <2>3, <2>5 DEF Is, Marked, Seats
<1> QED
  BY <1>1, <1>2, CommandBegins DEF Next

-----------------------------------------------------------------------------
\* The theorems.

\* Only the command records a departure.
LEMMA DepartureIsRecorded ==
  ASSUME TypeOK, Step, TripPhase(trip.status) \in {"planned", "assigned"},
         trip'.status = "in_progress"
  PROVE  RecordDeparture
<1>1. trip'.status # trip.status /\ trip.status \in TripStatus
  BY TripPhases DEF TypeOK
<1>2. \A s : trip' = [trip EXCEPT !.status = s] => trip'.status = s
  BY DEF TypeOK
<1>3. ASSUME NEW b \in Bookings,
             \/ Sale(b) \/ ConfirmPayment(b) \/ ChooseCashBooking(b) \/ ExpireBookingHolds(b)
             \/ UpdateBooking(b) \/ EditPassenger(b) \/ AddPassenger(b)
             \/ MarkPassenger(b) \/ TakeCash(b)
      PROVE  FALSE
  <2>1. CASE MarkPassenger(b) \/ TakeCash(b)
    BY <1>1, <1>2, <2>1, MarkLeaves, CashLeaves
  <2>2. CASE ~(MarkPassenger(b) \/ TakeCash(b))
    BY <1>1, <1>3, <2>2, SaleTouches, ChangeTouches DEF BookingOnly
  <2> QED
    BY <2>1, <2>2
<1>4. CASE ChangeStage \/ RecordCompletion
  BY <1>1, <1>2, <1>4 DEF ChangeStage, RecordCompletion
<1>5. CASE UpdateTrip \/ ApproveEarlyDeparture
  <2>1. trip'.status = trip.status
    BY <1>5 DEF UpdateTrip, ApproveEarlyDeparture, TypeOK
  <2> QED
    BY <1>1, <2>1
<1>6. CASE \/ ConfirmDriverCashReceived \/ RecordReceipt \/ RecordDriverCash \/ Depart
           \/ Complete \/ CountCash \/ Rollback \/ Tick
  <2>1. trip' = trip
    BY <1>6 DEF ConfirmDriverCashReceived, RecordReceipt, RecordDriverCash, Depart, Complete,
       CountCash, Rollback, Tick
  <2> QED
    BY <1>1, <2>1
<1> QED
  BY <1>3, <1>4, <1>5, <1>6 DEF Step

\* A trip leaves before its time only with everybody on board, or under an approval
\* since which neither the plan nor a booking has changed, whatever customers, bank and
\* clock do between the statements of the command; a hold that they resolve then is of
\* a booking that the approval knew to await its payment (changeTripStatus and
\* trip_departure_manifest_key).
THEOREM DepartureIsAuthorised == Spec => EarlyDepartureAuthorised
<1> DEFINE Inv == TypeOK /\ HistoryKept /\ ApprovalTraced /\ DepartureChecked
<1>1. Init => Inv
  <2> SUFFICES ASSUME Init PROVE Inv
    OBVIOUS
  <2>1. resolved = {} /\ command.op = "none" /\ trip.approval = NoApproval
    BY DEF Init, Free
  <2> QED
    BY <2>1, StartTyped DEF HistoryKept, ApprovalTraced, DepartureChecked, JoinedLate
<1>2. Inv /\ [Next]_vars => Inv'
  <2> SUFFICES ASSUME Inv, [Next]_vars PROVE Inv'
    OBVIOUS
  <2>1. TypeOK'
    BY TypeStep
  <2>2. CASE Next
    BY <2>1, <2>2, HistoryStep, TraceStep, DepartureStep
  <2>3. CASE UNCHANGED vars
    BY <2>1, <2>3 DEF vars, HistoryKept, ApprovalTraced, Unchanged, DepartureChecked,
       BeforeDeparture, EverybodyOnBoard, Active, Marked, Seats, Joined, JoinedLate
  <2> QED
    BY <2>2, <2>3
<1>3. Inv /\ [Next]_vars =>
        [TripPhase(trip.status) \in {"planned", "assigned"}
           /\ trip'.status = "in_progress" /\ clock < trip.starts =>
             \/ EverybodyOnBoard
             \/ /\ trip.approval # NoApproval /\ ~altered
                /\ \A b \in Joined : trip.approval.rows[b][2] = "awaiting_payment"]_vars
  <2> SUFFICES ASSUME Inv, Next, TripPhase(trip.status) \in {"planned", "assigned"},
                      trip'.status = "in_progress", clock < trip.starts
               PROVE  \/ EverybodyOnBoard
                      \/ /\ trip.approval # NoApproval /\ ~altered
                         /\ \A b \in Joined :
                              trip.approval.rows[b][2] = "awaiting_payment"
    OBVIOUS
  <2>1. command.op = "depart"
    BY DepartureIsRecorded DEF Next, RecordDeparture
  <2>2. Joined \subseteq Bookings
    BY DEF Joined, TypeOK, HistoryTyped
  <2> QED
    BY <2>1, <2>2 DEF DepartureChecked, BeforeDeparture
<1> QED
  BY <1>1, <1>2, <1>3, PTL DEF Spec, EarlyDepartureAuthorised

\* Only the command records a completion.
LEMMA CompletionIsRecorded ==
  ASSUME TypeOK, Step, trip.status # "completed", trip'.status = "completed"
  PROVE  RecordCompletion
<1>1. \A s : trip' = [trip EXCEPT !.status = s] => trip'.status = s
  BY DEF TypeOK
<1>2. ASSUME NEW b \in Bookings,
             \/ Sale(b) \/ ConfirmPayment(b) \/ ChooseCashBooking(b) \/ ExpireBookingHolds(b)
             \/ UpdateBooking(b) \/ EditPassenger(b) \/ AddPassenger(b)
             \/ MarkPassenger(b) \/ TakeCash(b)
      PROVE  FALSE
  <2>1. CASE MarkPassenger(b) \/ TakeCash(b)
    BY <1>1, <2>1, MarkLeaves, CashLeaves
  <2>2. CASE ~(MarkPassenger(b) \/ TakeCash(b))
    BY <1>2, <2>2, SaleTouches, ChangeTouches DEF BookingOnly
  <2> QED
    BY <2>1, <2>2
<1>3. CASE ChangeStage \/ RecordDeparture
  BY <1>1, <1>3 DEF ChangeStage, RecordDeparture
<1>4. CASE UpdateTrip \/ ApproveEarlyDeparture
  <2>1. trip'.status = trip.status
    BY <1>4 DEF UpdateTrip, ApproveEarlyDeparture, TypeOK
  <2> QED
    BY <2>1
<1>5. CASE \/ ConfirmDriverCashReceived \/ RecordReceipt \/ RecordDriverCash \/ Depart
           \/ Complete \/ CountCash \/ Rollback \/ Tick
  BY <1>5 DEF ConfirmDriverCashReceived, RecordReceipt, RecordDriverCash, Depart, Complete,
     CountCash, Rollback, Tick
<1> QED
  BY <1>2, <1>3, <1>4, <1>5 DEF Step

-----------------------------------------------------------------------------
\* Sums. The value of an element is w[x].

\* A set of finite sets has one with no other of them inside it.
LEMMA Smallest ==
  ASSUME NEW S, IsFiniteSet(S), NEW C \in SUBSET SUBSET S, C # {}
  PROVE  \E T \in C : \A U \in C : U \subseteq T => U = T
<1>1. FiniteSubsetsOf(S) = SUBSET S
  BY FS_FiniteSubsetsOfFinite
<1>2. IsWellFoundedOn(StrictSubsetOrdering(S), FiniteSubsetsOf(S))
  BY FS_StrictSubsetOrderingWellFounded
<1>3. PICK T \in C : \A U \in C : ~ (<<U, T>> \in StrictSubsetOrdering(S))
  BY <1>1, <1>2, WFMin
<1>4. \A U \in C : U \in SUBSET S /\ T \in SUBSET S
  OBVIOUS
<1>5. ASSUME NEW U \in C, U \subseteq T, U # T
      PROVE  FALSE
  <2>1. <<U, T>> \in (SUBSET S) \X (SUBSET S) /\ <<U, T>>[1] = U /\ <<U, T>>[2] = T
    BY <1>4
  <2>2. <<U, T>> \in StrictSubsetOrdering(S)
    BY <1>5, <2>1 DEF StrictSubsetOrdering
  <2> QED
    BY <1>3, <2>2
<1> QED
  BY <1>5

\* A set of numbers has a least one.
LEMMA Least ==
  ASSUME NEW S \in SUBSET Nat, S # {}
  PROVE  \E x \in S : \A y \in S : x <= y
<1> DEFINE R == {ss \in Nat \X Nat : ss[1] < ss[2]}
<1>1. IsWellFoundedOn(R, Nat)
  BY NatLessThanWellFounded DEF OpToRel
<1>2. PICK x \in S : \A y \in S : ~ (<<y, x>> \in R)
  <2> HIDE DEF R
  <2> QED
    BY <1>1, WFMin
<1>3. \A y \in S : <<y, x>> \in Nat \X Nat /\ <<y, x>>[1] = y /\ <<y, x>>[2] = x
  OBVIOUS
<1>4. \A y \in S : ~ (y < x)
  BY <1>2, <1>3
<1> QED
  BY <1>4

\* Finitely many elements, each worth an amount.
Amounts(w, S) == IsFiniteSet(S) /\ \A r \in S : w[r] \in Nat

\* One more element of a set.
More(w, f, s) == LET r == CHOOSE r \in s : TRUE IN w[r] + f[s \ {r}]

\* A function that adds up the sets of D, one element after the other.
AddsUp(w, f, D) == f = [s \in D |-> IF s = {} THEN 0 ELSE More(w, f, s)]

\* The element taken first is one of the set.
LEMMA First ==
  ASSUME NEW s, s # {}
  PROVE  (CHOOSE r \in s : TRUE) \in s
  OBVIOUS

\* Every set of at most n elements adds up.
LEMMA SomeAddUp ==
  ASSUME NEW w, NEW S, Amounts(w, S), NEW n \in Nat
  PROVE  \E f : AddsUp(w, f, {s \in SUBSET S : Cardinality(s) <= n})
<1> DEFINE D(m) == {s \in SUBSET S : Cardinality(s) <= m}
           Bad == {m \in Nat : ~ \E f : AddsUp(w, f, D(m))}
<1>0. \A s \in SUBSET S : IsFiniteSet(s) /\ Cardinality(s) \in Nat
  BY FS_Subset, FS_CardinalityType DEF Amounts
<1>1. Bad = {}
  <2> SUFFICES ASSUME Bad # {} PROVE FALSE
    OBVIOUS
  <2>1. PICK m \in Bad : \A k \in Bad : m <= k
    BY Least
  <2>2. CASE m = 0
    <3>1. \A s \in D(m) : s = {}
      BY <1>0, <2>2, FS_EmptySet
    <3> DEFINE f == [s \in D(m) |-> 0]
    <3>2. AddsUp(w, f, D(m))
      BY <3>1 DEF AddsUp
    <3> QED
      BY <2>1, <3>2
  <2>3. CASE m # 0
    <3>1. m - 1 \in Nat /\ ~ (m <= m - 1)
      BY <2>3
    <3>2. m - 1 \notin Bad
      BY <2>1, <3>1
    <3>3. PICK f : AddsUp(w, f, D(m - 1))
      BY <3>1, <3>2
    <3> DEFINE g == [s \in D(m) |-> IF s = {} THEN 0 ELSE More(w, f, s)]
    <3>4. ASSUME NEW s \in D(m - 1)
          PROVE  s \in D(m) /\ g[s] = f[s]
      <4>1. s \in D(m)
        BY <1>0, <3>1
      <4>2. f[s] = IF s = {} THEN 0 ELSE More(w, f, s)
        BY <3>3 DEF AddsUp
      <4> QED
        BY <4>1, <4>2
    <3>5. ASSUME NEW s \in D(m), s # {}
          PROVE  More(w, g, s) = More(w, f, s)
      <4>1. PICK r : r = (CHOOSE q \in s : TRUE)
        OBVIOUS
      <4>2. r \in s
        BY <3>5, <4>1, First
      <4>3. s \ {r} \in SUBSET S /\ Cardinality(s \ {r}) = Cardinality(s) - 1
        BY <1>0, <4>2, FS_RemoveElement
      <4>4. s \ {r} \in D(m - 1)
        BY <1>0, <4>3, <3>1
      <4>5. g[s \ {r}] = f[s \ {r}]
        BY <3>4, <4>4
      <4> HIDE DEF g
      <4> QED
        BY <4>1, <4>5 DEF More
    <3>6. AddsUp(w, g, D(m))
      <4>1. \A s \in D(m) : (IF s = {} THEN 0 ELSE More(w, f, s))
                              = (IF s = {} THEN 0 ELSE More(w, g, s))
        BY <3>5
      <4>2. g = [s \in D(m) |-> IF s = {} THEN 0 ELSE More(w, g, s)]
        BY <4>1
      <4> QED
        BY <4>2 DEF AddsUp
    <3>7. \E h : AddsUp(w, h, D(m))
      BY <3>6
    <3> QED
      BY <2>1, <3>7
  <2> QED
    BY <2>2, <2>3
<1> QED
  BY <1>1

\* A function that adds up all subsets of S.
Sums(w, f, S) == Amounts(w, S) /\ AddsUp(w, f, SUBSET S)

\* Sums are amounts.
LEMMA SumIsAmount ==
  ASSUME NEW w, NEW S, NEW f, Sums(w, f, S), NEW T \in SUBSET S
  PROVE  f[T] \in Nat
<1> DEFINE Bad == {U \in SUBSET S : f[U] \notin Nat}
<1>1. Bad = {}
  <2> SUFFICES ASSUME Bad # {} PROVE FALSE
    OBVIOUS
  <2>0. Bad \in SUBSET SUBSET S /\ IsFiniteSet(S)
    BY DEF Amounts, Sums
  <2>1. PICK U \in Bad : \A V \in Bad : V \subseteq U => V = U
    <3> HIDE DEF Bad
    <3> QED
      BY <2>0, Smallest
  <2>2. f[U] = IF U = {} THEN 0 ELSE More(w, f, U)
    BY DEF AddsUp, Sums
  <2>3. U # {}
    BY <2>2
  <2>4. PICK r : r = (CHOOSE q \in U : TRUE)
    OBVIOUS
  <2>5. r \in U
    BY <2>3, <2>4, First
  <2>6. U \ {r} \in SUBSET S /\ U \ {r} \subseteq U /\ U \ {r} # U
    BY <2>5
  <2>7. f[U \ {r}] \in Nat
    BY <2>1, <2>6
  <2>8. f[U] = w[r] + f[U \ {r}]
    BY <2>2, <2>3, <2>4 DEF More
  <2>9. w[r] \in Nat
    BY <2>5 DEF Amounts, Sums
  <2> QED
    BY <2>7, <2>8, <2>9
<1> QED
  BY <1>1

\* Whichever element is taken first.
LEMMA AnyFirst ==
  ASSUME NEW w, NEW S, NEW f, Sums(w, f, S),
         NEW T \in SUBSET S, NEW x \in T
  PROVE  f[T] = w[x] + f[T \ {x}]
<1> DEFINE Bad == {U \in SUBSET S : \E y \in U : f[U] # w[y] + f[U \ {y}]}
<1>1. Bad = {}
  <2> SUFFICES ASSUME Bad # {} PROVE FALSE
    OBVIOUS
  <2>0. Bad \in SUBSET SUBSET S /\ IsFiniteSet(S)
    BY DEF Amounts, Sums
  <2>1. PICK U \in Bad : \A V \in Bad : V \subseteq U => V = U
    <3> HIDE DEF Bad
    <3> QED
      BY <2>0, Smallest
  <2>2. PICK y \in U : f[U] # w[y] + f[U \ {y}]
    OBVIOUS
  <2>3. f[U] = More(w, f, U)
    BY DEF AddsUp, Sums
  <2>4. PICK r : r = (CHOOSE q \in U : TRUE)
    OBVIOUS
  <2>5. r \in U
    BY <2>4, First
  <2>6. f[U] = w[r] + f[U \ {r}]
    BY <2>3, <2>4 DEF More
  <2>7. r # y
    BY <2>2, <2>6
  <2>8. U \ {r} \in SUBSET S /\ U \ {r} \notin Bad
    BY <2>1, <2>5
  <2>9. U \ {y} \in SUBSET S /\ U \ {y} \notin Bad
    BY <2>1
  <2>10. f[U \ {r}] = w[y] + f[(U \ {r}) \ {y}]
    BY <2>7, <2>8
  <2>11. f[U \ {y}] = w[r] + f[(U \ {y}) \ {r}]
    BY <2>5, <2>7, <2>9
  <2>12. (U \ {y}) \ {r} = (U \ {r}) \ {y}
    OBVIOUS
  <2>13. f[(U \ {r}) \ {y}] \in Nat
    <3>1. (U \ {r}) \ {y} \in SUBSET S
      OBVIOUS
    <3> QED
      BY <3>1, SumIsAmount
  <2>14. w[r] \in Nat /\ w[y] \in Nat
    BY <2>5 DEF Amounts, Sums
  <2>15. PICK k \in Nat : k = f[(U \ {r}) \ {y}]
    BY <2>13
  <2>16. f[U] = w[r] + (w[y] + k) /\ f[U \ {y}] = w[r] + k
    BY <2>6, <2>10, <2>11, <2>12, <2>15
  <2>17. \A a, c \in Nat : a + (c + k) = c + (a + k)
    OBVIOUS
  <2>18. f[U] = w[y] + f[U \ {y}]
    BY <2>14, <2>16, <2>17
  <2> QED
    BY <2>2, <2>18
<1> QED
  BY <1>1

\* A set adds up to the same wherever it is added up.
LEMMA SameSum ==
  ASSUME NEW w, NEW S, NEW f, Sums(w, f, S), NEW W, NEW g, Sums(w, g, W), S \subseteq W,
         NEW T \in SUBSET S
  PROVE  f[T] = g[T]
<1>0. Amounts(w, S) /\ Amounts(w, W) /\ AddsUp(w, f, SUBSET S) /\ AddsUp(w, g, SUBSET W)
  BY DEF Sums
<1> DEFINE Bad == {U \in SUBSET S : f[U] # g[U]}
<1>1. Bad = {}
  <2> SUFFICES ASSUME Bad # {} PROVE FALSE
    OBVIOUS
  <2>0. Bad \in SUBSET SUBSET S /\ IsFiniteSet(S)
    BY <1>0 DEF Amounts
  <2>1. PICK U \in Bad : \A V \in Bad : V \subseteq U => V = U
    <3> HIDE DEF Bad
    <3> QED
      BY <2>0, Smallest
  <2>2. U \in SUBSET S /\ U \in SUBSET W
    OBVIOUS
  <2>3. /\ f[U] = IF U = {} THEN 0 ELSE More(w, f, U)
        /\ g[U] = IF U = {} THEN 0 ELSE More(w, g, U)
    BY <1>0, <2>2 DEF AddsUp
  <2>4. U # {} /\ More(w, f, U) # More(w, g, U)
    BY <2>3
  <2>5. PICK r : r = (CHOOSE q \in U : TRUE)
    OBVIOUS
  <2>6. r \in U
    BY <2>4, <2>5, First
  <2>7. U \ {r} \in SUBSET S /\ U \ {r} \notin Bad
    BY <2>1, <2>6
  <2>8. f[U \ {r}] = g[U \ {r}]
    BY <2>7
  <2> QED
    BY <2>4, <2>5, <2>8 DEF More
<1> QED
  BY <1>1

\* A finite set of amounts has a sum.
LEMMA SumExists ==
  ASSUME NEW w, NEW S, Amounts(w, S)
  PROVE  \E f : Sums(w, f, S)
<1>1. Cardinality(S) \in Nat
  BY FS_CardinalityType DEF Amounts
<1>2. SUBSET S = {s \in SUBSET S : Cardinality(s) <= Cardinality(S)}
  BY FS_Subset DEF Amounts
<1>3. \A n \in Nat : \E f : AddsUp(w, f, {s \in SUBSET S : Cardinality(s) <= n})
  BY SomeAddUp
<1>4. \E f : AddsUp(w, f, {s \in SUBSET S : Cardinality(s) <= Cardinality(S)})
  BY <1>1, <1>3
<1> QED
  BY <1>2, <1>4 DEF Sums

\* What receipts add up to is their sum.
LEMMA EnteredIs ==
  ASSUME NEW w, NEW S, Amounts(w, S), \A r \in S : w[r] = r.amount
  PROVE  \E f : Sums(w, f, S) /\ Entered(S) = f[S]
<1> DEFINE Adds(f) == f = [s \in SUBSET S |->
                              IF s = {} THEN 0
                              ELSE LET r == CHOOSE r \in s : TRUE
                                   IN  r.amount + f[s \ {r}]]
           sum == CHOOSE f : Adds(f)
<1>1. ASSUME NEW f, NEW s \in SUBSET S, s # {}
      PROVE  More(w, f, s) = LET r == CHOOSE r \in s : TRUE IN r.amount + f[s \ {r}]
  <2>1. (CHOOSE r \in s : TRUE) \in S
    BY <1>1, First
  <2> QED
    BY <2>1 DEF More
<1>2. ASSUME NEW f
      PROVE  Adds(f) <=> AddsUp(w, f, SUBSET S)
  <2>1. \A s \in SUBSET S :
          (IF s = {} THEN 0 ELSE More(w, f, s))
            = (IF s = {} THEN 0
               ELSE LET r == CHOOSE r \in s : TRUE IN r.amount + f[s \ {r}])
    BY <1>1
  <2>2. [s \in SUBSET S |-> IF s = {} THEN 0 ELSE More(w, f, s)]
          = [s \in SUBSET S |-> IF s = {} THEN 0
               ELSE LET r == CHOOSE r \in s : TRUE IN r.amount + f[s \ {r}]]
    BY <2>1
  <2> QED
    BY <2>2 DEF AddsUp
<1>3. \E f : Adds(f)
  <2>1. \E f : AddsUp(w, f, SUBSET S)
    BY SumExists DEF Sums
  <2> HIDE DEF Adds
  <2> QED
    BY <1>2, <2>1
<1>4. Adds(sum)
  <2> HIDE DEF Adds
  <2> QED
    BY <1>3
<1>5. Entered(S) = sum[S]
  BY DEF Entered, MapThenSumSet, MapThenFoldSet
<1> QED
  BY <1>2, <1>4, <1>5 DEF Sums

\* What bookings cost is their sum.
LEMMA FaresAre ==
  ASSUME NEW rows, NEW S, Amounts([b \in S |-> Price(rows[b])], S)
  PROVE  Fares(rows, S) \in Nat
<1> DEFINE Adds(f) == f = [s \in SUBSET S |->
                              IF s = {} THEN 0
                              ELSE LET b == CHOOSE b \in s : TRUE
                                   IN  Price(rows[b]) + f[s \ {b}]]
           sum == CHOOSE f : Adds(f)
<1> PICK w : w = [b \in S |-> Price(rows[b])]
  OBVIOUS
<1>1. ASSUME NEW f, NEW s \in SUBSET S, s # {}
      PROVE  More(w, f, s) = LET b == CHOOSE b \in s : TRUE IN Price(rows[b]) + f[s \ {b}]
  <2>1. (CHOOSE b \in s : TRUE) \in S
    BY <1>1, First
  <2> QED
    BY <2>1 DEF More
<1>2. ASSUME NEW f
      PROVE  Adds(f) <=> AddsUp(w, f, SUBSET S)
  <2>1. \A s \in SUBSET S :
          (IF s = {} THEN 0 ELSE More(w, f, s))
            = (IF s = {} THEN 0
               ELSE LET b == CHOOSE b \in s : TRUE IN Price(rows[b]) + f[s \ {b}])
    BY <1>1
  <2>2. [s \in SUBSET S |-> IF s = {} THEN 0 ELSE More(w, f, s)]
          = [s \in SUBSET S |-> IF s = {} THEN 0
               ELSE LET b == CHOOSE b \in s : TRUE IN Price(rows[b]) + f[s \ {b}]]
    BY <2>1
  <2> QED
    BY <2>2 DEF AddsUp
<1>3. \E f : Adds(f)
  <2>1. \E f : AddsUp(w, f, SUBSET S)
    BY SumExists DEF Sums
  <2> HIDE DEF Adds
  <2> QED
    BY <1>2, <2>1
<1>4. Adds(sum)
  <2> HIDE DEF Adds
  <2> QED
    BY <1>3
<1>5. Fares(rows, S) = sum[S]
  BY DEF Fares, MapThenSumSet, MapThenFoldSet
<1>6. Sums(w, sum, S) /\ S \in SUBSET S
  BY <1>2, <1>4 DEF Sums
<1> HIDE DEF sum
<1>7. sum[S] \in Nat
  BY <1>6, SumIsAmount
<1> QED
  BY <1>5, <1>7

\* Receipts whose amounts are numbers.
Numbered(S) == IsFiniteSet(S) /\ \A r \in S : r.amount \in Nat

\* No receipts, no cash.
LEMMA NothingEntered == Entered({}) = 0
<1> PICK w : w = [r \in {} |-> r.amount]
  OBVIOUS
<1>1. Amounts(w, {})
  BY FS_EmptySet DEF Amounts
<1>2. PICK f : Sums(w, f, {}) /\ Entered({}) = f[{}]
  BY <1>1, EnteredIs
<1>3. {} \in SUBSET {}
  OBVIOUS
<1>4. f[{}] = IF {} = {} THEN 0 ELSE More(w, f, {})
  BY <1>2, <1>3 DEF AddsUp, Sums
<1> QED
  BY <1>2, <1>4

\* A new receipt adds its amount.
LEMMA EnteredGrows ==
  ASSUME NEW S, Numbered(S), NEW r, r \notin S, r.amount \in Nat
  PROVE  /\ Entered(S) \in Nat
         /\ Entered(S \cup {r}) = Entered(S) + r.amount
<1> PICK W : W = S \cup {r}
  OBVIOUS
<1> PICK w : w = [x \in W |-> x.amount]
  OBVIOUS
<1>0. \A x \in W : w[x] = x.amount
  OBVIOUS
<1>1. Amounts(w, S) /\ Amounts(w, W)
  BY <1>0, FS_AddElement DEF Amounts, Numbered
<1>2. PICK f : Sums(w, f, S) /\ Entered(S) = f[S]
  BY <1>0, <1>1, EnteredIs
<1>3. PICK g : Sums(w, g, W) /\ Entered(W) = g[W]
  BY <1>0, <1>1, EnteredIs
<1>4. W \in SUBSET W /\ r \in W /\ W \ {r} = S /\ S \subseteq W /\ S \in SUBSET S
  OBVIOUS
<1>5. g[W] = w[r] + g[W \ {r}]
  BY <1>3, <1>4, AnyFirst
<1>6. f[S] = g[S]
  BY <1>2, <1>3, <1>4, SameSum
<1>7. f[S] \in Nat
  BY <1>2, <1>4, SumIsAmount
<1>8. Entered(W) = Entered(S) + r.amount
  <2>1. PICK k \in Nat : k = f[S]
    BY <1>7
  <2>2. Entered(W) = w[r] + k /\ Entered(S) = k
    BY <1>2, <1>3, <1>4, <1>5, <1>6, <2>1
  <2>3. w[r] = r.amount
    BY <1>0, <1>4
  <2> QED
    BY <2>2, <2>3
<1> QED
  BY <1>2, <1>7, <1>8

\* Receipts add up to an amount.
LEMMA EnteredTyped ==
  ASSUME NEW S, Numbered(S)
  PROVE  Entered(S) \in Nat
<1> PICK w : w = [x \in S |-> x.amount]
  OBVIOUS
<1>0. \A x \in S : w[x] = x.amount
  OBVIOUS
<1>1. Amounts(w, S)
  BY <1>0 DEF Amounts, Numbered
<1>2. PICK f : Sums(w, f, S) /\ Entered(S) = f[S]
  BY <1>0, <1>1, EnteredIs
<1>3. S \in SUBSET S
  OBVIOUS
<1> QED
  BY <1>2, <1>3, SumIsAmount

-----------------------------------------------------------------------------
\* A completed trip's cash.

\* Bookings that cost the same cost as much together.
LEMMA FaresAgree ==
  ASSUME NEW rows, NEW new, NEW S, \A b \in S : new[b] = rows[b]
  PROVE  Fares(new, S) = Fares(rows, S)
<1> DEFINE Adds(r, f) == f = [s \in SUBSET S |->
                              IF s = {} THEN 0
                              ELSE LET b == CHOOSE b \in s : TRUE
                                   IN  Price(r[b]) + f[s \ {b}]]
<1>1. ASSUME NEW f, NEW s \in SUBSET S
      PROVE  (IF s = {} THEN 0 ELSE LET b == CHOOSE b \in s : TRUE
                                    IN  Price(rows[b]) + f[s \ {b}])
               = (IF s = {} THEN 0 ELSE LET b == CHOOSE b \in s : TRUE
                                        IN  Price(new[b]) + f[s \ {b}])
  <2>1. s # {} => (CHOOSE b \in s : TRUE) \in S
    BY First
  <2> QED
    BY <2>1
<1>2. \A f : Adds(rows, f) <=> Adds(new, f)
  BY <1>1
<1>3. (CHOOSE f : Adds(rows, f)) = (CHOOSE f : Adds(new, f))
  <2> HIDE DEF Adds
  <2> QED
    BY <1>2
<1>4. /\ Fares(rows, S) = (CHOOSE f : Adds(rows, f))[S]
      /\ Fares(new, S) = (CHOOSE f : Adds(new, f))[S]
  BY DEF Fares, MapThenSumSet, MapThenFoldSet
<1> QED
  BY <1>3, <1>4

\* What a completion counted is true until it is written, but for the bookings whose
\* hold was resolved after the count.
LEMMA CountStep ==
  ASSUME TypeOK, HistoryKept, CashCounted, Next
  PROVE  CashCounted'
<1> DEFINE Counted == CashBookings \ (command.absent \cup JoinedLate)
<1> SUFFICES ASSUME command'.op = "complete"
             PROVE  Entered(ledger') = Fares(bookings', Counted')
  BY DEF CashCounted, Collected
<1>1. CASE CountCash
  <2>1. /\ Entered(ledger) = Fares(bookings, CashBookings \ command.absent)
        /\ command'.absent = command.absent /\ UNCHANGED <<bookings, ledger>>
        /\ command.op = "count" /\ command' # Free
    BY <1>1 DEF CountCash, CashAgrees, Collected, Lock, Free
  <2>2. CashBookings' = CashBookings
    BY <2>1 DEF CashBookings, Is, OnBank
  <2>3. JoinedLate' = {}
    <3>1. {d \in Bookings : bookings'[d] # bookings[d]} = {}
      BY <2>1
    <3>2. resolved' = resolved
      BY <2>1, <3>1 DEF Next, Remember
    <3> QED
      BY <2>1, <3>2 DEF HistoryKept, JoinedLate
  <2>4. Counted' = CashBookings \ command.absent
    BY <2>1, <2>2, <2>3
  <2> HIDE DEF Counted
  <2> QED
    BY <2>1, <2>4
<1>2. CASE command' = command
  <2>1. command.op = "complete" /\ command # Free /\ command' # Free
    BY <1>2 DEF Free
  <2>2. Entered(ledger) = Fares(bookings, Counted)
    BY <2>1 DEF CashCounted, Collected
  <2>3. CASE Tick
    <3>1. UNCHANGED <<bookings, ledger>>
      BY <2>3 DEF Tick
    <3>2. CashBookings' = CashBookings
      BY <3>1 DEF CashBookings, Is, OnBank
    <3>3. JoinedLate' = JoinedLate
      <4>1. {d \in Bookings : bookings'[d] # bookings[d]} = {}
        BY <3>1
      <4>2. resolved' = resolved
        BY <2>1, <4>1 DEF Next, Remember
      <4> QED
        BY <4>2 DEF JoinedLate
    <3>4. Counted' = Counted
      BY <1>2, <3>2, <3>3
    <3> HIDE DEF Counted
    <3> QED
      BY <2>2, <3>1, <3>4
  <2>4. ASSUME NEW b \in Bookings, Resolved(b)
        PROVE  Entered(ledger') = Fares(bookings', Counted')
    <3>1. /\ ledger' = ledger
          /\ bookings[b].status = "awaiting_payment"
          /\ \A d \in Bookings : d # b => bookings'[d] = bookings[d]
          /\ resolved' = resolved \cup {<<b, command.op>>}
      BY <2>1, <2>4, HoldResolved DEF BookingOnly
    <3>2. JoinedLate' = JoinedLate \cup {b}
      BY <2>1, <3>1, JoinedGrows
    <3>3. b \notin CashBookings
      BY <3>1, BookingPhases DEF CashBookings, Is
    <3>4. \A d \in Bookings : d # b => (d \in CashBookings' <=> d \in CashBookings)
      BY <3>1 DEF CashBookings, Is, OnBank
    <3>5. Counted' = Counted
      BY <1>2, <3>2, <3>3, <3>4 DEF CashBookings
    <3>6. \A d \in Counted : bookings'[d] = bookings[d]
      BY <3>1, <3>3 DEF CashBookings
    <3>7. PICK S : S = Counted
      OBVIOUS
    <3>8. PICK rows, new : rows = bookings /\ new = bookings'
      OBVIOUS
    <3>9. Fares(new, S) = Fares(rows, S)
      BY <3>6, <3>7, <3>8, FaresAgree
    <3> HIDE DEF Counted
    <3> QED
      BY <2>2, <3>1, <3>5, <3>7, <3>8, <3>9
  <2> QED
    BY <1>2, <2>1, <2>3, <2>4, CommandWaits DEF Next
<1> QED
  BY <1>1, <1>2, CommandBegins DEF Next

\* When a trip is completed, the cash in the ledger is what the bookings that travel
\* for cash cost, and once anybody was checked in each of them was marked, whatever
\* customers, bank and clock do between the statements of the command; only bookings
\* whose hold was resolved beside it are excepted, those that the code lets through
\* (changeTripStatus).
THEOREM CashBalances == Spec => CashBalancesAtCompletion
<1> DEFINE Inv == TypeOK /\ HistoryKept /\ RollCalled /\ CashCounted
           Travelled == {b \in Bookings : Is(b, "confirmed")
                                            /\ bookings'[b].status = "completed"}
           Balanced ==
             trip.status # "completed" /\ trip'.status = "completed" =>
               /\ Collected = Fares(bookings, (Travelled \cap CashBookings) \ JoinedLate)
               /\ Checked # {} =>
                    \A b \in Travelled \ Joined : Marked(b, {"boarded", "absent"})
<1>1. Init => Inv
  <2> SUFFICES ASSUME Init PROVE Inv
    OBVIOUS
  <2>1. resolved = {} /\ command.op = "none"
    BY DEF Init, Free
  <2> QED
    BY <2>1, StartTyped DEF HistoryKept, RollCalled, CashCounted, JoinedLate
<1>2. Inv /\ [Next]_vars => Inv'
  <2> SUFFICES ASSUME Inv, [Next]_vars PROVE Inv'
    OBVIOUS
  <2>1. TypeOK'
    BY TypeStep
  <2>2. CASE Next
    BY <2>1, <2>2, HistoryStep, RollStep, CountStep
  <2>3. CASE UNCHANGED vars
    BY <2>1, <2>3 DEF vars, HistoryKept, RollCalled, CashCounted, Collected, CashBookings,
       Is, OnBank, Joined, JoinedLate, Checked, Marked, Seats
  <2> QED
    BY <2>2, <2>3
<1>3. Inv /\ [Next]_vars => [Balanced]_vars
  <2> SUFFICES ASSUME Inv, Next, trip.status # "completed", trip'.status = "completed"
               PROVE  /\ Collected = Fares(bookings,
                                      (Travelled \cap CashBookings) \ JoinedLate)
                      /\ Checked # {} =>
                           \A b \in Travelled \ Joined : Marked(b, {"boarded", "absent"})
    OBVIOUS
  <2>1. RecordCompletion
    BY CompletionIsRecorded DEF Next
  <2>2. Collected = Fares(bookings, CashBookings \ (command.absent \cup JoinedLate))
    BY <2>1 DEF CashCounted, RecordCompletion
  <2>3. \A b \in Bookings : Is(b, "confirmed") => bookings'[b].status =
          IF b \in command.absent THEN "cancelled" ELSE "completed"
    BY <2>1, CompletionLeaves
  <2>4. (Travelled \cap CashBookings) \ JoinedLate
          = CashBookings \ (command.absent \cup JoinedLate)
    BY <2>3 DEF CashBookings
  <2>5. \A b \in Travelled \ Joined : b \in Bookings \ Joined /\ Is(b, "confirmed")
    OBVIOUS
  <2>6. Checked # {} =>
          \A b \in Bookings \ Joined : Is(b, "confirmed") => Marked(b, {"boarded", "absent"})
    BY <2>1 DEF RollCalled, RecordCompletion
  <2> HIDE DEF Travelled
  <2> QED
    BY <2>2, <2>4, <2>5, <2>6
<1> QED
  BY <1>1, <1>2, <1>3, PTL DEF Spec, CashBalancesAtCompletion

-----------------------------------------------------------------------------
\* The cash of a booking is entered once.

\* The entries of one booking.
Own(b) == {r \in ledger : r.source = b}

\* The check-ins that a step may leave: nobody's cash or check-in is taken back.
NoneTakenBack ==
  \A b \in Bookings : /\ checkins'[b].cash \in Nat /\ checkins'[b].cash >= checkins[b].cash
                      /\ checkins'[b].exists \/ checkins'[b] = checkins[b]

\* A whole receipt is entered with the sum that it found.
SumFound == command'.op = "receipt" => command'.amount \in Nat

\* Without a new entry the cash of a booking changes only beside a whole receipt.
LEMMA LedgerStays ==
  ASSUME TypeOK, CashTraced, CashEnteredOnce, NoneTakenBack, SumFound, ledger' = ledger,
         WholeReceipts # {} \/ \A b \in Bookings : checkins'[b].cash = checkins[b].cash
  PROVE  CashTraced' /\ CashEnteredOnce'
<1>1. \A b \in Bookings : checkins[b].cash \in Nat
  BY RowFields
<1>2. ASSUME NEW r \in ledger', NEW b \in Bookings, r.source = b
      PROVE  r.target <= checkins'[b].cash
  <2>1. r.target \in Nat /\ r.target <= checkins[b].cash
    BY <1>2 DEF CashTraced
  <2> QED
    BY <1>1, <2>1 DEF NoneTakenBack
<1>3. CashTraced'
  <2>1. \A b \in Bookings : ~checkins'[b].exists => checkins'[b].cash = 0
    BY DEF CashTraced, NoneTakenBack
  <2>2. IsFiniteSet(ledger') /\ \A r \in ledger' : {r.target, r.amount} \subseteq Nat
    BY DEF CashTraced
  <2>3. command'.op = "receipt" => command'.amount \in Nat
    BY DEF SumFound
  <2> QED
    BY <1>2, <2>1, <2>2, <2>3 DEF CashTraced
<1>4. \A b \in Bookings : Numbered(Own(b))
  BY FS_Subset DEF Numbered, Own, CashTraced
<1>5. ASSUME NEW b \in Bookings
      PROVE  IF WholeReceipts' = {} THEN Entered(Own(b))' = checkins'[b].cash
                                    ELSE Entered(Own(b))' <= checkins'[b].cash
  <2>1. Own(b)' = Own(b) /\ WholeReceipts' = WholeReceipts
    BY DEF Own, WholeReceipts
  <2>2. PICK n \in Nat : n = Entered(Own(b))
    BY <1>4, EnteredTyped
  <2>3. Entered(Own(b))' = n
    BY <2>1, <2>2
  <2>4. IF WholeReceipts = {} THEN n = checkins[b].cash ELSE n <= checkins[b].cash
    BY <2>2 DEF CashEnteredOnce, Own
  <2> QED
    BY <1>1, <2>1, <2>3, <2>4 DEF NoneTakenBack
<1> QED
  BY <1>3, <1>5 DEF CashEnteredOnce, Own

\* A receipt of the whole trip is no booking's own.
LEMMA WholeAdds ==
  ASSUME TypeOK, CashTraced, CashEnteredOnce, NoneTakenBack, SumFound, NEW n \in Nat,
         NEW currency, ledger' = ledger \cup {Entry(None, currency, 0, n)}
  PROVE  CashTraced' /\ CashEnteredOnce'
<1> DEFINE new == Entry(None, currency, 0, n)
<1>0. new.source = None /\ new.target = 0 /\ new.amount = n /\ new \in ledger'
  BY DEF Entry
<1> HIDE DEF new
<1>1. \A b \in Bookings : checkins[b].cash \in Nat /\ None # b
  BY RowFields, LifecycleAssumption
<1>2. ASSUME NEW r \in ledger', NEW b \in Bookings, r.source = b
      PROVE  r.target <= checkins'[b].cash
  <2>1. r \in ledger
    BY <1>0, <1>1, <1>2 DEF new
  <2>2. r.target \in Nat /\ r.target <= checkins[b].cash
    BY <1>2, <2>1 DEF CashTraced
  <2> QED
    BY <1>1, <2>2 DEF NoneTakenBack
<1>3. IsFiniteSet(ledger')
  BY FS_AddElement DEF CashTraced
<1>4. \A r \in ledger' : {r.target, r.amount} \subseteq Nat
  BY <1>0 DEF CashTraced, new
<1>5. CashTraced'
  <2>1. \A b \in Bookings : ~checkins'[b].exists => checkins'[b].cash = 0
    BY DEF CashTraced, NoneTakenBack
  <2>2. IsFiniteSet(ledger') /\ \A r \in ledger' : {r.target, r.amount} \subseteq Nat
    BY <1>3, <1>4 DEF CashTraced
  <2>3. command'.op = "receipt" => command'.amount \in Nat
    BY DEF SumFound
  <2> QED
    BY <1>2, <2>1, <2>2, <2>3 DEF CashTraced
<1>6. \A b \in Bookings : Numbered(Own(b))
  BY FS_Subset DEF Numbered, Own, CashTraced
<1>7. WholeReceipts' # {}
  BY <1>0 DEF WholeReceipts
<1>8. ASSUME NEW b \in Bookings
      PROVE  Entered(Own(b))' <= checkins'[b].cash
  <2>1. Own(b)' = Own(b)
    BY <1>0, <1>1 DEF Own, new
  <2>2. PICK k \in Nat : k = Entered(Own(b))
    BY <1>6, EnteredTyped
  <2>3. Entered(Own(b))' = k
    BY <2>1, <2>2
  <2>4. k <= checkins[b].cash
    BY <1>1, <2>2 DEF CashEnteredOnce, Own
  <2> QED
    BY <1>1, <2>3, <2>4 DEF NoneTakenBack
<1> QED
  BY <1>5, <1>7, <1>8 DEF CashEnteredOnce, Own

\* Cash of a booking enters the difference from what its check-in showed.
LEMMA CashAdds ==
  ASSUME TypeOK, CashTraced, CashEnteredOnce, NEW b \in Bookings, TakeCash(b)
  PROVE  CashTraced' /\ CashEnteredOnce'
<1>1. PICK target \in 1..PriceOf(b) :
        /\ target >= checkins[b].cash
        /\ ledger' = ledger \cup Receipt(b, target)
        /\ checkins' = [checkins EXCEPT ![b].exists = TRUE, ![b].cash = target]
  BY DEF TakeCash
<1>2. /\ \A d \in Bookings : checkins[d] \in Checkin /\ checkins[d].cash \in Nat /\ None # d
      /\ checkins \in [Bookings -> Checkin] /\ target \in Nat
  BY RowFields, PriceTyped, LifecycleAssumption DEF TypeOK
<1>3. /\ checkins'[b].exists /\ checkins'[b].cash = target
      /\ \A d \in Bookings : d # b => checkins'[d] = checkins[d]
  BY <1>1, <1>2 DEF Checkin
<1>0. SumFound
  BY DEF TakeCash, Checkable, Alone, Free, SumFound
<1>4. NoneTakenBack
  BY <1>1, <1>2, <1>3 DEF NoneTakenBack
<1>5. CASE target = checkins[b].cash
  <2>1. ledger' = ledger
    BY <1>1, <1>5 DEF Receipt, Entry
  <2>2. \A d \in Bookings : checkins'[d].cash = checkins[d].cash
    BY <1>3, <1>5
  <2> QED
    BY <1>0, <1>4, <2>1, <2>2, LedgerStays
<1>6. CASE target # checkins[b].cash
  <2> DEFINE new == Entry(b, TripCurrency, target, target - checkins[b].cash)
  <2>1. /\ ledger' = ledger \cup {new} /\ new.source = b /\ new.target = target
        /\ new.amount = target - checkins[b].cash
    BY <1>1, <1>6 DEF Receipt, Entry
  <2> HIDE DEF new
  <2>2. target > checkins[b].cash /\ new.amount \in Nat
    BY <1>1, <1>2, <1>6, <2>1
  <2>3. new \notin ledger
    BY <1>2, <2>1, <2>2 DEF CashTraced
  <2>4. ASSUME NEW r \in ledger', NEW d \in Bookings, r.source = d
        PROVE  r.target <= checkins'[d].cash
    <3>1. CASE r = new
      BY <1>2, <1>3, <2>1, <2>4, <3>1
    <3>2. CASE r \in ledger
      <4>1. r.target \in Nat /\ r.target <= checkins[d].cash
        BY <2>4, <3>2 DEF CashTraced
      <4> QED
        BY <1>2, <1>4, <4>1 DEF NoneTakenBack
    <3> QED
      BY <2>1, <3>1, <3>2
  <2>5. IsFiniteSet(ledger')
    BY <2>1, FS_AddElement DEF CashTraced
  <2>6. \A r \in ledger' : {r.target, r.amount} \subseteq Nat
    BY <1>2, <2>1, <2>2 DEF CashTraced
  <2>7. CashTraced'
    <3>1. \A d \in Bookings : ~checkins'[d].exists => checkins'[d].cash = 0
      BY <1>4 DEF CashTraced, NoneTakenBack
    <3>2. IsFiniteSet(ledger') /\ \A r \in ledger' : {r.target, r.amount} \subseteq Nat
      BY <2>5, <2>6 DEF CashTraced
    <3>3. command'.op = "receipt" => command'.amount \in Nat
      BY <1>0 DEF SumFound
    <3> QED
      BY <2>4, <3>1, <3>2, <3>3 DEF CashTraced
  <2>8. \A d \in Bookings : Numbered(Own(d))
    BY FS_Subset DEF Numbered, Own, CashTraced
  <2>9. WholeReceipts' = WholeReceipts
    BY <1>2, <2>1 DEF WholeReceipts
  <2>10. \A d \in Bookings : d # b => Own(d)' = Own(d)
    BY <2>1 DEF Own
  <2>11. Own(b)' = Own(b) \cup {new} /\ new \notin Own(b)
    BY <2>1, <2>3 DEF Own
  <2>12. ASSUME NEW d \in Bookings
         PROVE  IF WholeReceipts' = {} THEN Entered(Own(d))' = checkins'[d].cash
                                       ELSE Entered(Own(d))' <= checkins'[d].cash
    <3>1. PICK n \in Nat : n = Entered(Own(d))
      BY <2>8, EnteredTyped
    <3>2. IF WholeReceipts = {} THEN n = checkins[d].cash ELSE n <= checkins[d].cash
      BY <3>1 DEF CashEnteredOnce, Own
    <3>3. CASE d # b
      <4>1. Entered(Own(d))' = n
        BY <2>10, <3>1, <3>3
      <4> QED
        BY <1>3, <2>9, <3>2, <3>3, <4>1
    <3>4. CASE d = b
      <4>1. PICK S : S = Own(b)
        OBVIOUS
      <4>2. PICK r : r = new
        OBVIOUS
      <4>3. Numbered(S) /\ r \notin S /\ r.amount \in Nat
        BY <2>2, <2>8, <2>11, <4>1, <4>2
      <4>4. Entered(S \cup {r}) = Entered(S) + r.amount
        BY <4>3, EnteredGrows
      <4>5. Entered(Own(b))' = n + new.amount
        BY <2>11, <3>1, <3>4, <4>1, <4>2, <4>4
      <4>6. PICK c \in Nat : c = checkins[b].cash
        BY <1>2
      <4>7. n = c => n + (target - c) = target
        BY <1>2
      <4>8. n <= c => n + (target - c) <= target
        BY <1>2
      <4> QED
        BY <1>3, <2>1, <2>9, <3>2, <3>4, <4>5, <4>6, <4>7, <4>8
    <3> QED
      BY <3>3, <3>4
  <2> QED
    BY <2>7, <2>12 DEF CashEnteredOnce, Own
<1> QED
  BY <1>5, <1>6

\* The receipt of a whole trip checks in who was not, and only them.
LEMMA ReceiptAdds ==
  ASSUME TypeOK, CashTraced, CashEnteredOnce, RecordReceipt
  PROVE  CashTraced' /\ CashEnteredOnce'
<1> DEFINE row(b) == [exists |-> TRUE, cash |-> PriceOf(b),
                      marks |-> [i \in SeatNumber |->
                                   IF i \in Seats(b) THEN "boarded" ELSE "waiting"]]
<1>1. /\ checkins' = [b \in Bookings |->
                        IF b \in CashBookings \ Checked THEN row(b) ELSE checkins[b]]
      /\ \/ WholeReceipts # {} /\ ledger' = ledger
         \/ ledger' = ledger \cup {Entry(None, TripCurrency, 0, command.amount)}
      /\ command.op = "receipt"
  BY DEF RecordReceipt, WholeReceiptsIn
<1>2. \A b \in Bookings : row(b).exists /\ row(b).cash = PriceOf(b)
  OBVIOUS
<1> HIDE DEF row
<1>3. ASSUME NEW b \in Bookings
      PROVE  /\ checkins'[b].cash \in Nat /\ checkins'[b].cash >= checkins[b].cash
             /\ checkins'[b].exists \/ checkins'[b] = checkins[b]
  <2>1. checkins[b].cash \in Nat /\ PriceOf(b) \in Nat
    BY RowFields, PriceTyped
  <2>2. CASE b \in CashBookings \ Checked
    <3>1. checkins[b].cash = 0
      BY <2>2 DEF Checked, CashTraced
    <3>2. checkins'[b] = row(b)
      BY <1>1, <2>2
    <3> QED
      BY <1>2, <2>1, <3>1, <3>2
  <2>3. CASE b \notin CashBookings \ Checked
    <3>1. checkins'[b] = checkins[b]
      BY <1>1, <2>3
    <3> QED
      BY <2>1, <3>1
  <2> QED
    BY <2>2, <2>3
<1>4. NoneTakenBack
  BY <1>3 DEF NoneTakenBack
<1>0. SumFound
  BY DEF RecordReceipt, Free, SumFound
<1>5. CASE WholeReceipts # {} /\ ledger' = ledger
  BY <1>0, <1>4, <1>5, LedgerStays
<1>6. CASE ledger' = ledger \cup {Entry(None, TripCurrency, 0, command.amount)}
  <2>1. command.amount \in Nat
    BY <1>1 DEF CashTraced
  <2>2. PICK n \in Nat : n = command.amount
    BY <2>1
  <2> QED
    BY <1>0, <1>4, <1>6, <2>2, WholeAdds
<1> QED
  BY <1>1, <1>5, <1>6

\* What the cash bookings of a trip cost is an amount.
LEMMA CashFaresTyped ==
  ASSUME TypeOK
  PROVE  Fares(bookings, CashBookings) \in Nat
<1>1. \A b \in CashBookings : Price(bookings[b]) \in Nat
  BY PriceTyped DEF CashBookings, PriceOf
<1>2. IsFiniteSet(CashBookings)
  BY LifecycleAssumption, FS_Subset DEF CashBookings
<1>3. PICK S : S = CashBookings
  OBVIOUS
<1>4. PICK rows : rows = bookings
  OBVIOUS
<1>5. Amounts([b \in S |-> Price(rows[b])], S)
  BY <1>1, <1>2, <1>3, <1>4 DEF Amounts
<1>6. Fares(rows, S) \in Nat
  BY <1>5, FaresAre
<1> QED
  BY <1>3, <1>4, <1>6

\* Every other step leaves the ledger and the check-ins' cash alone.
LEMMA CashStep ==
  TypeOK /\ CashTraced /\ CashEnteredOnce /\ [Next]_vars => CashTraced' /\ CashEnteredOnce'
<1> SUFFICES ASSUME TypeOK, CashTraced, CashEnteredOnce, [Next]_vars
             PROVE  CashTraced' /\ CashEnteredOnce'
  OBVIOUS
<1>1. \A b \in Bookings : checkins[b].cash \in Nat
  BY RowFields
<1>2. ASSUME UNCHANGED <<checkins, ledger>>, SumFound
      PROVE  CashTraced' /\ CashEnteredOnce'
  <2>1. NoneTakenBack
    BY <1>1, <1>2 DEF NoneTakenBack
  <2> QED
    BY <1>2, <2>1, LedgerStays
<1>3. command' = command => SumFound
  BY DEF SumFound, CashTraced
<1>4. ASSUME NEW b \in Bookings,
             \/ Sale(b) \/ ConfirmPayment(b) \/ ChooseCashBooking(b) \/ ExpireBookingHolds(b)
             \/ UpdateBooking(b) \/ EditPassenger(b) \/ AddPassenger(b)
      PROVE  CashTraced' /\ CashEnteredOnce'
  <2>1. BookingOnly
    BY <1>4, SaleTouches, ChangeTouches
  <2> QED
    BY <1>2, <1>3, <2>1 DEF BookingOnly
<1>5. ASSUME NEW b \in Bookings, MarkPassenger(b)
      PROVE  CashTraced' /\ CashEnteredOnce'
  <2>1. UNCHANGED <<ledger, command>>
    BY <1>5, MarkLeaves
  <2>2. PICK row \in Checkin : /\ row.cash = checkins[b].cash
                               /\ checkins' = [checkins EXCEPT ![b] = row]
    BY <1>5, MarkLeaves
  <2>3. PICK i \in Seats(b), m \in Mark :
          checkins' = [checkins EXCEPT ![b].exists = TRUE,
                                       ![b].marks = [checkins[b].marks EXCEPT ![i] = m]]
    BY <1>5 DEF MarkPassenger
  <2>4. checkins'[b].exists
    BY <2>3, RowFields DEF TypeOK, Checkin
  <2>5. \A d \in Bookings : /\ checkins'[d].cash = checkins[d].cash
                            /\ d # b => checkins'[d] = checkins[d]
    BY <2>2 DEF TypeOK
  <2>6. NoneTakenBack
    BY <1>1, <2>4, <2>5 DEF NoneTakenBack
  <2> QED
    BY <1>3, <2>1, <2>5, <2>6, LedgerStays
<1>6. ASSUME ConfirmDriverCashReceived
      PROVE  CashTraced' /\ CashEnteredOnce'
  <2>1. SumFound
    BY <1>6, CashFaresTyped DEF ConfirmDriverCashReceived, Lock, SumFound
  <2> QED
    BY <1>2, <1>6, <2>1 DEF ConfirmDriverCashReceived
<1>7. ASSUME RecordDriverCash
      PROVE  CashTraced' /\ CashEnteredOnce'
  <2>1. PICK n \in Entries, currency \in Currencies :
          ledger' = ledger \cup {Entry(None, currency, 0, n)}
    BY <1>7 DEF RecordDriverCash
  <2>2. checkins' = checkins /\ command' = command
    BY <1>7 DEF RecordDriverCash, Alone
  <2>3. NoneTakenBack
    BY <1>1, <2>2 DEF NoneTakenBack
  <2>4. n \in Nat
    BY LifecycleAssumption
  <2> QED
    BY <1>3, <2>1, <2>2, <2>3, <2>4, WholeAdds
<1>8. CASE UpdateTrip \/ ApproveEarlyDeparture \/ ChangeStage \/ Tick
  BY <1>2, <1>3, <1>8 DEF UpdateTrip, ApproveEarlyDeparture, ChangeStage, Tick, Alone
<1>9. CASE Depart \/ RecordDeparture \/ Complete \/ CountCash \/ RecordCompletion \/ Rollback
  <2>1. UNCHANGED <<checkins, ledger>>
    BY <1>9 DEF Depart, RecordDeparture, Complete, CountCash, RecordCompletion, Rollback
  <2>2. Depart \/ Complete \/ CountCash => command'.op # "receipt"
    BY DEF Depart, Complete, CountCash, Lock
  <2>3. RecordDeparture \/ RecordCompletion \/ Rollback => command' = Free
    BY CompletionLeaves DEF RecordDeparture, Rollback
  <2>4. Free.op # "receipt"
    BY DEF Free
  <2> QED
    BY <1>2, <1>9, <2>1, <2>2, <2>3, <2>4 DEF SumFound
<1>10. CASE UNCHANGED vars
  BY <1>2, <1>3, <1>10 DEF vars
<1> QED
  BY <1>4, <1>5, <1>6, <1>7, <1>8, <1>9, <1>10, CashAdds, ReceiptAdds DEF Next, Step

\* Initially nobody paid.
LEMMA CashStarts == Init => CashTraced /\ CashEnteredOnce
<1> SUFFICES ASSUME Init PROVE CashTraced /\ CashEnteredOnce
  OBVIOUS
<1>1. /\ ledger = {} /\ command.op # "receipt"
      /\ \A b \in Bookings : checkins[b].cash = 0
  BY DEF Init, Free, NoCheckin
<1>2. CashTraced
  BY <1>1, FS_EmptySet DEF CashTraced
<1>3. WholeReceipts = {} /\ \A b \in Bookings : Own(b) = {}
  BY <1>1 DEF WholeReceipts, Own
<1>4. \A b \in Bookings : Entered(Own(b)) = 0
  BY <1>3, NothingEntered
<1> QED
  BY <1>1, <1>2, <1>3, <1>4 DEF CashEnteredOnce, Own

\* Whatever totals drivers and owners submit and repeat, and however a booking changes
\* meanwhile, what the ledger has of a booking is what its check-in shows, or less where
\* a receipt of the whole trip paid for more (CashEnteredOnce of TripLifecycle).
THEOREM CashIsEnteredOnce == Spec => []CashEnteredOnce
<1>1. Init => TypeOK /\ CashTraced /\ CashEnteredOnce
  BY StartTyped, CashStarts
<1>2. TypeOK /\ CashTraced /\ CashEnteredOnce /\ [Next]_vars
        => (TypeOK /\ CashTraced /\ CashEnteredOnce)'
  BY TypeStep, CashStep
<1> QED
  BY <1>1, <1>2, PTL DEF Spec
=============================================================================
