------------------------------ MODULE SeatSales ------------------------------
(***************************************************************************)
(* Selling the seats of one trip.  The Go API, the Telegram bot and the    *)
(* background jobs change the same rows of "trips", "bookings" and         *)
(* "payments" in concurrent PostgreSQL transactions (READ COMMITTED).      *)
(*                                                                         *)
(* A transaction is a client with a program counter:                       *)
(*   Begin   fixes now() for the whole transaction;                        *)
(*   Lock... takes the row locks of the handler, in the handler's order;   *)
(*   one action per handler reads the committed rows, decides, and stages  *)
(*           the row images it writes (invisible to everybody else);       *)
(*   Commit  installs them and releases the locks.                         *)
(* Rollback stands for every early return (400, 404, 409, 500), a lost     *)
(* connection, a crash of the process and PostgreSQL's choice of a         *)
(* deadlock victim: all of them leave the rows as they were.               *)
(*                                                                         *)
(* Two clocks matter.  now() in SQL is tx[c].now, the start of the         *)
(* transaction; time.Now() in Go is clock, read when the handler runs.     *)
(***************************************************************************)
EXTENDS BookingRules, FiniteSets

CONSTANTS
  Clients,          \* database sessions
  Bookings,         \* row identifiers of the trip's bookings
  Customers,
  Keys,             \* request keys of the public checkout
  None,             \* absence of a booking, customer or key
  MaxSeats,         \* seats in one booking (20 in the code)
  VehicleCapacity,
  Departures,       \* possible trips.starts_at
  HoldLength,       \* the 30 minutes of a bank-transfer hold
  MaxTime,          \* bound of the clock
  Ops,              \* handlers that may run
  ManualMoves,      \* <<from, to>>: statuses that dispatchers choose by hand
  TripMoves         \* trip statuses that staff choose

AllOps ==
  {"publicCreateBooking", "botCreateBooking", "createBooking",
   "updateBooking", "cancelTelegramBooking", "bookingPassengers",
   "confirmBookingPayment", "syncBank", "chooseCashBooking",
   "setTelegramPaymentMethod", "updateTrip", "changeTripStatus"}

\* The handlers that change one existing booking.
BookingChanges ==
  {"updateBooking", "cancelTelegramBooking", "bookingPassengers",
   "confirmBookingPayment", "syncBank", "chooseCashBooking",
   "setTelegramPaymentMethod"}

ASSUME SalesAssumption ==
  /\ IsFiniteSet(Bookings)
  /\ None \notin Bookings \cup Customers \cup Keys
  /\ MaxSeats \in Nat \ {0}
  /\ VehicleCapacity \in Nat \ {0}
  /\ Departures \subseteq Nat /\ Departures # {}
  /\ HoldLength \in Nat \ {0}
  /\ MaxTime \in Nat
  /\ Ops \subseteq AllOps
  /\ ManualMoves \subseteq BookingStatus \X BookingStatus
  /\ TripMoves \subseteq TripStatus

VARIABLES
  clock,      \* wall-clock time
  trip,       \* the row of trips
  bookings,   \* the rows of bookings, each with its row of payments
  requests,   \* public_booking_requests: request key -> booking
  tx,         \* the open transaction of each client
  \* History, which no handler reads:
  lapsed,     \* holds that ended between a handler's re-check and its commit
  revived,    \* bookings that were given seats which nobody counted
  setBack     \* bookings that staff gave by hand a status that says "not paid"

history == <<lapsed, revived, setBack>>
vars == <<clock, trip, bookings, requests, tx, history>>

-----------------------------------------------------------------------------
\* Rows. "payment" and "method" are the booking's row of payments ("none":
\* no row, or no method chosen yet); "key" records which checkout request
\* created the booking.

PaymentStatus == {"none", "pending", "paid", "cancelled"}
PaymentMethod == {"none", "cash", "bank_transfer"}

BookingRow ==
  [status   : BookingStatus \cup {"none"},
   customer : Customers \cup {None},
   seats    : 0..MaxSeats,
   hold     : Nat \cup {NoHold},
   payment  : PaymentStatus,
   method   : PaymentMethod,
   key      : Keys \cup {None}]

TripRow == [status : TripStatus, capacity : 0..VehicleCapacity, departs : Nat]

EmptyRow ==
  [status |-> "none", customer |-> None, seats |-> 0, hold |-> NoHold,
   payment |-> "none", method |-> "none", key |-> None]

BlankTrip == [status |-> "draft", capacity |-> 0, departs |-> 0]

Expired(row) == [row EXCEPT !.status = "expired"]

\* UPDATE payments SET status='cancelled' WHERE status IN ('pending',...)
CancelPayment(row) ==
  [row EXCEPT !.payment = IF @ = "pending" THEN "cancelled" ELSE @]

\* The seats that rows hold at time t, one element per booked seat, so that
\* the cardinality is the sum(seats) of the queries.
SeatsHeld(rows, t) ==
  {p \in Bookings \X (1..MaxSeats) :
     Occupies(rows[p[1]], t) /\ p[2] <= rows[p[1]].seats}

SeatsHeldOrTravelled(rows, t) ==
  {p \in Bookings \X (1..MaxSeats) :
     OccupiesOrTravelled(rows[p[1]], t) /\ p[2] <= rows[p[1]].seats}

-----------------------------------------------------------------------------
\* Transactions.

NoWrites == [b \in {} |-> EmptyRow]

\* A transaction that writes the rows S.
Transaction(S) ==
  [pc      : {"idle", "key", "due", "trip", "booking", "decide", "staged"},
   op      : AllOps \cup {"none"},
   now     : Nat,
   booking : Bookings \cup {None},
   key     : Keys \cup {None},
   seen    : 0..MaxSeats,
   locks   : SUBSET Bookings,
   hasTrip : BOOLEAN,
   trip    : TripRow,
   writes  : [S -> BookingRow]]

Idle ==
  [pc |-> "idle", op |-> "none", now |-> 0, booking |-> None, key |-> None,
   seen |-> 0, locks |-> {}, hasTrip |-> FALSE, trip |-> BlankTrip,
   writes |-> NoWrites]

FirstLock(op) ==
  CASE op = "publicCreateBooking" -> "key"
    [] op = "botCreateBooking" -> "due"
    [] op \in {"createBooking", "bookingPassengers", "updateTrip",
               "changeTripStatus"} -> "trip"
    [] OTHER -> "booking"

\* bookingPassengers locks the trip and then the booking; updateBooking and
\* cancelTelegramBooking lock them the other way round (FOR UPDATE OF b, t).
LockAfter(op, lock) ==
  CASE lock \in {"key", "due"} -> "trip"
    [] lock = "trip" /\ op = "bookingPassengers" -> "booking"
    [] lock = "booking" /\ op \in {"updateBooking", "cancelTelegramBooking"} -> "trip"
    [] OTHER -> "decide"

Unlocked(c, rows) == \A d \in Clients \ {c} : tx[d].locks \cap rows = {}

Open(c, op, b, k, seen) ==
  /\ op \in Ops
  /\ tx[c].pc = "idle"
  /\ tx' = [tx EXCEPT ![c] =
              [Idle EXCEPT !.pc = FirstLock(op), !.op = op, !.now = clock,
                           !.booking = b, !.key = k, !.seen = seen]]
  /\ UNCHANGED <<clock, trip, bookings, requests, history>>

BeginSale(c) ==
  \/ \E op \in {"botCreateBooking", "createBooking"} : Open(c, op, None, None, 0)
  \/ \E k \in Keys : Open(c, "publicCreateBooking", None, k, 0)

\* A line of a bank statement and the Telegram buttons reach a booking through
\* its payment: the query before the lock already requires a live hold.
PayableAt(b, t) ==
  /\ bookings[b].status = "awaiting_payment"
  /\ HoldLive(bookings[b], t)
  /\ bookings[b].payment = "pending"

MatchedAt(b, t) == PayableAt(b, t) /\ bookings[b].method = "bank_transfer"

\* syncBank holds the tenant's advisory lock and begins with the first line of the
\* statement that names a booking; the lines before it change no row.
BeginBookingChange(c) ==
  \E b \in {d \in Bookings : bookings[d].status # "none"} :
    \/ \E op \in {"updateBooking", "cancelTelegramBooking", "confirmBookingPayment"} :
         Open(c, op, b, None, 0)
    \/ Open(c, "bookingPassengers", b, None, bookings[b].seats)
    \/ /\ MatchedAt(b, clock) /\ \A d \in Clients : tx[d].op # "syncBank"
       /\ Open(c, "syncBank", b, None, 0)
    \/ PayableAt(b, clock)
         /\ \E op \in {"chooseCashBooking", "setTelegramPaymentMethod"} :
              Open(c, op, b, None, 0)

BeginTripChange(c) ==
  \E op \in {"updateTrip", "changeTripStatus"} : Open(c, op, None, None, 0)

\* SELECT ... FROM trips ... FOR UPDATE: waits, then reads the committed row.
LockTrip(c) ==
  /\ tx[c].pc = "trip"
  /\ \A d \in Clients : ~tx[d].hasTrip
  /\ tx' = [tx EXCEPT ![c].hasTrip = TRUE, ![c].trip = trip,
                      ![c].pc = LockAfter(tx[c].op, "trip")]
  /\ UNCHANGED <<clock, trip, bookings, requests, history>>

\* SELECT ... FROM bookings ... FOR UPDATE
LockBooking(c) ==
  /\ tx[c].pc = "booking"
  /\ Unlocked(c, {tx[c].booking})
  /\ tx' = [tx EXCEPT ![c].locks = @ \cup {tx[c].booking},
                      ![c].pc = LockAfter(tx[c].op, "booking")]
  /\ UNCHANGED <<clock, trip, bookings, requests, history>>

\* pg_advisory_xact_lock on the request key
LockKey(c) ==
  /\ tx[c].pc = "key"
  /\ \A d \in Clients \ {c} : tx[d].key = tx[c].key => tx[d].pc = "key"
  /\ tx' = [tx EXCEPT ![c].pc = LockAfter(tx[c].op, "key")]
  /\ UNCHANGED <<clock, trip, bookings, requests, history>>

\* expireBookingHoldsWith inside createBooking of the bot: its UPDATE waits
\* for rows that others have locked and expires what is still due.
DueRows(t) ==
  {b \in Bookings : bookings[b].status = "awaiting_payment" /\ HoldDue(bookings[b], t)}

LockDueRows(c) ==
  /\ tx[c].pc = "due"
  /\ Unlocked(c, DueRows(tx[c].now))
  /\ tx' = [tx EXCEPT
              ![c].locks = @ \cup DueRows(tx[c].now),
              ![c].writes = [b \in DueRows(tx[c].now) |->
                               Expired(CancelPayment(bookings[b]))],
              ![c].pc = LockAfter(tx[c].op, "due")]
  /\ UNCHANGED <<clock, trip, bookings, requests, history>>

Deciding(c, op) == tx[c].pc = "decide" /\ tx[c].op = op

\* An UPDATE of rows that another session has locked waits for it.
Stage(c, b, newTrip, writes) ==
  /\ Unlocked(c, DOMAIN writes)
  /\ tx' = [tx EXCEPT ![c].pc = "staged", ![c].booking = b, ![c].trip = newTrip,
                      ![c].writes = writes, ![c].locks = @ \cup DOMAIN writes]
  /\ UNCHANGED <<clock, trip, bookings, requests, history>>

StageBooking(c, row) ==
  Stage(c, tx[c].booking, tx[c].trip, [b \in {tx[c].booking} |-> row])

\* The rows as client c sees them: the committed ones under its own writes.
Seen(c) ==
  [b \in Bookings |-> IF b \in DOMAIN tx[c].writes THEN tx[c].writes[b]
                                                   ELSE bookings[b]]

\* Rows that hold seats after the commit of c and held none before it, although no
\* sale counted them: a hold that lapsed meanwhile, or a status set by hand.
Uncounted(c) ==
  {b \in DOMAIN tx[c].writes : /\ bookings[b].status # "none"
                              /\ ~Occupies(bookings[b], clock)
                              /\ Occupies(tx[c].writes[b], clock)}

UnpaidStatus == {"awaiting_payment", "cash_on_boarding", "expired"}

SetBackBy(c) ==
  {b \in DOMAIN tx[c].writes : /\ tx[c].op = "updateBooking"
                              /\ tx[c].writes[b].status \in UnpaidStatus}

Commit(c) ==
  /\ tx[c].pc = "staged"
  /\ bookings' = Seen(c)
  /\ trip' = IF tx[c].hasTrip THEN tx[c].trip ELSE trip
  /\ requests' = IF tx[c].key = None THEN requests
                 ELSE [requests EXCEPT ![tx[c].key] = tx[c].booking]
  /\ tx' = [tx EXCEPT ![c] = Idle]
  /\ lapsed' = lapsed \ tx[c].locks
  /\ revived' = revived \cup Uncounted(c)
  /\ setBack' = setBack \cup SetBackBy(c)
  /\ UNCHANGED clock

\* Mutant of Rollback: a rejected request leaves its transaction open.
RollbackAfterErrors(c) ==
  /\ tx[c].pc \notin {"idle", "decide"}
  /\ tx' = [tx EXCEPT ![c] = Idle]
  /\ lapsed' = lapsed \ tx[c].locks
  /\ UNCHANGED <<clock, trip, bookings, requests, revived, setBack>>

Rollback(c) ==
  /\ tx[c].pc # "idle"
  /\ tx' = [tx EXCEPT ![c] = Idle]
  /\ lapsed' = lapsed \ tx[c].locks
  /\ UNCHANGED <<clock, trip, bookings, requests, revived, setBack>>
-----------------------------------------------------------------------------
\* The decision of a sale. Both clocks appear: what is on sale and what is
\* occupied is judged at now(), the start of the transaction.

\* SalePredicate, as far as the trip's own row goes. Its other conditions
\* (kind, active route and vehicle, availability blocks) can only reject.
OnSale(t, when) == TripPhase(t.status) \in {"planned", "assigned"} /\ t.departs > when

\* canCreateBookingForTripStatus: the dispatcher may also sell after departure time.
OnSaleToDispatcher(t) == TripPhase(t.status) \in {"planned", "assigned"}

\* Mutant of Fits: counts bookings instead of seats.
FitsByBookings(c, n) ==
  Cardinality({b \in Bookings : Occupies(Seen(c)[b], tx[c].now)}) + n <= tx[c].trip.capacity

Fits(c, n) == Cardinality(SeatsHeld(Seen(c), tx[c].now)) + n <= tx[c].trip.capacity

\* Mutant of HasActiveBooking: the statuses of the unique index.
HasIndexedBooking(c, cust) ==
  \E b \in Bookings : Seen(c)[b].customer = cust /\ UniquelyActive(Seen(c)[b].status)

\* EXISTS(... phase IN ('pending','confirmed') OR a live hold ...)
HasActiveBooking(c, cust) ==
  \E b \in Bookings : Seen(c)[b].customer = cust /\ Occupies(Seen(c)[b], tx[c].now)

\* bookings_one_active_per_customer_trip_idx: true when INSERT or UPDATE of
\* the row b fails, "own" being the rows this transaction takes out of it.
IndexTaken(c, cust, own) ==
  \E b \in Bookings \ own : Seen(c)[b].customer = cust /\ UniquelyActive(Seen(c)[b].status)

NewRow(status, cust, n, hold, payment, method, k) ==
  [status |-> status, customer |-> cust, seats |-> n, hold |-> hold,
   payment |-> payment, method |-> method, key |-> k]

\* INSERT of a booking together with the rows expired in the same transaction.
Insert(c, row, expired) ==
  \E b \in {d \in Bookings : bookings[d].status = "none"} :
    Stage(c, b, tx[c].trip,
          [d \in DOMAIN expired \cup {b} |-> IF d = b THEN row ELSE expired[d]])

\* Mutant of KeyUnused: a retry after the booking was closed books again.
KeyUnusedByLiveBooking(c) ==
  requests[tx[c].key] \in {None} \cup {b \in Bookings : TerminalBooking(bookings[b].status)}

\* Looked up under the advisory lock, and asked again by the primary key of
\* public_booking_requests. A key that has a booking is answered with it (or with
\* 409 when the payload differs): nothing changes, so that ends in Rollback here.
KeyUnused(c) == requests[tx[c].key] = None

PublicCreateBooking(c) ==
  /\ Deciding(c, "publicCreateBooking")
  /\ KeyUnused(c)
  /\ OnSale(tx[c].trip, tx[c].now)
  /\ \E cust \in Customers, n \in 1..MaxSeats, method \in {"cash", "bank_transfer"} :
       LET due == {b \in DueRows(tx[c].now) : bookings[b].customer = cust}
           row == IF method = "bank_transfer"
                  THEN NewRow("awaiting_payment", cust, n, clock + HoldLength,
                              "pending", "bank_transfer", tx[c].key)
                  ELSE NewRow("cash_on_boarding", cust, n, NoHold,
                              "none", "none", tx[c].key)
       IN  /\ Fits(c, n)
           /\ ~HasActiveBooking(c, cust)
           /\ ~IndexTaken(c, cust, due)
           /\ Insert(c, row, [b \in due |-> Expired(bookings[b])])

BotAlreadyBooked(c, cust) ==
  \E b \in Bookings : /\ Seen(c)[b].customer = cust
                      /\ BookingPhase(Seen(c)[b].status)
                           \in {"pending", "awaiting_payment", "confirmed"}

BotCreateBooking(c) ==
  /\ Deciding(c, "botCreateBooking")
  /\ OnSale(tx[c].trip, tx[c].now)
  /\ \E cust \in Customers, n \in 1..MaxSeats :
       /\ ~BotAlreadyBooked(c, cust)
       /\ Fits(c, n)
       /\ ~IndexTaken(c, cust, {})
       /\ Insert(c, NewRow("awaiting_payment", cust, n, tx[c].now + HoldLength,
                           "pending", "none", None), tx[c].writes)

CreateBooking(c) ==
  /\ Deciding(c, "createBooking")
  /\ OnSaleToDispatcher(tx[c].trip)
  /\ \E cust \in Customers, n \in 1..MaxSeats :
       /\ ~HasActiveBooking(c, cust)
       /\ Fits(c, n)
       /\ ~IndexTaken(c, cust, {})
       /\ Insert(c, NewRow("cash_on_boarding", cust, n, NoHold, "none", "none", None),
                 NoWrites)

-----------------------------------------------------------------------------
\* Changes of one booking. The row is read again under its lock.

Locked(c) == bookings[tx[c].booking]

\* Mutant of HoldStillLive: trusts the sweep to have expired what is due.
NotYetSwept(c) == Locked(c).status = "awaiting_payment"

HoldStillLive(c) ==
  Locked(c).status = "awaiting_payment" /\ HoldLive(Locked(c), clock)

\* A staff member sets a status by hand. Cancelling also settles the payment and
\* drops the hold; any other status is written as it is, whatever the seats.
UpdateBooking(c) ==
  /\ Deciding(c, "updateBooking")
  /\ ~TerminalBooking(Locked(c).status)
  /\ \E s \in BookingStatus \ {Locked(c).status} :
       /\ <<Locked(c).status, s>> \in ManualMoves
       /\ \/ /\ BookingPhase(s) # "cancelled"
             /\ UniquelyActive(s) => ~IndexTaken(c, Locked(c).customer, {tx[c].booking})
             /\ StageBooking(c, [Locked(c) EXCEPT !.status = s])
          \/ /\ BookingPhase(s) = "cancelled"
             /\ tx[c].trip.status \notin {"in_progress", "completed"}
             /\ StageBooking(c, [CancelPayment(Locked(c)) EXCEPT !.status = s, !.hold = NoHold])

\* Mutant of CancelTelegramBooking: the button's earlier check is not repeated.
CancelAsShown(c) ==
  /\ Deciding(c, "cancelTelegramBooking")
  /\ StageBooking(c, [CancelPayment(Locked(c)) EXCEPT !.status = "cancelled", !.hold = NoHold])

CancelTelegramBooking(c) ==
  /\ Deciding(c, "cancelTelegramBooking")
  /\ tx[c].trip.status \in {"new", "assigned"}
  /\ tx[c].trip.departs > clock
  /\ UniquelyActive(Locked(c).status)
  /\ StageBooking(c, [CancelPayment(Locked(c)) EXCEPT !.status = "cancelled", !.hold = NoHold])

Confirmed(row) ==
  [row EXCEPT !.status = "confirmed", !.hold = NoHold, !.payment = "paid"]

ConfirmBookingPayment(c) ==
  /\ Deciding(c, "confirmBookingPayment")
  /\ HoldStillLive(c)
  /\ Locked(c).payment = "pending" /\ Locked(c).method = "bank_transfer"
  /\ StageBooking(c, Confirmed(Locked(c)))

\* The lines of a statement are one transaction: a booking that a line confirms is
\* written next to those that the lines before it confirmed.
StageLine(c, row) ==
  Stage(c, tx[c].booking, tx[c].trip,
        [b \in DOMAIN tx[c].writes \cup {tx[c].booking} |->
           IF b = tx[c].booking THEN row ELSE tx[c].writes[b]])

\* Mutant of MatchBankPayment: only the payment is read again under the lock.
MatchPendingPayment(c) ==
  /\ Deciding(c, "syncBank")
  /\ Locked(c).payment = "pending"
  /\ StageLine(c, Confirmed(Locked(c)))

\* The line was matched before the lock; the method is not read again. A line that
\* comes too late leaves its booking alone and the statement goes on.
MatchBankPayment(c) ==
  /\ Deciding(c, "syncBank")
  /\ \/ /\ HoldStillLive(c) /\ Locked(c).payment = "pending"
        /\ StageLine(c, Confirmed(Locked(c)))
     \/ /\ ~(HoldStillLive(c) /\ Locked(c).payment = "pending")
        /\ Stage(c, tx[c].booking, tx[c].trip, tx[c].writes)

\* The statement's next line that names a booking, in the same transaction: it waits
\* for that booking's lock while it holds those of the bookings before it.
NextLine(c) ==
  /\ tx[c].op = "syncBank" /\ tx[c].pc = "staged"
  /\ \E b \in Bookings \ tx[c].locks :
       /\ MatchedAt(b, tx[c].now)
       /\ tx' = [tx EXCEPT ![c].pc = "booking", ![c].booking = b]
  /\ UNCHANGED <<clock, trip, bookings, requests, history>>

ChooseCashBooking(c) ==
  /\ Deciding(c, "chooseCashBooking")
  /\ HoldStillLive(c) /\ HoldLive(Locked(c), tx[c].now)
  /\ Locked(c).payment = "pending"
  /\ StageBooking(c, [Locked(c) EXCEPT !.status = "cash_on_boarding", !.hold = NoHold,
                                       !.method = "cash"])

SetTelegramPaymentMethod(c) ==
  /\ Deciding(c, "setTelegramPaymentMethod")
  /\ HoldStillLive(c)
  /\ Locked(c).payment = "pending"
  /\ StageBooking(c, [Locked(c) EXCEPT !.method = "bank_transfer"])

\* Mutant of AddPassenger: the free seat is taken on trust.
AddPassengerOnTrust(c) ==
  /\ Deciding(c, "bookingPassengers")
  /\ ~TerminalBooking(Locked(c).status)
  /\ ~TerminalTrip(tx[c].trip.status)
  /\ BookingPhase(Locked(c).status) = "awaiting_payment" => HoldLive(Locked(c), clock)
  /\ Locked(c).seats < MaxSeats
  /\ Locked(c).payment # "pending" /\ Locked(c).method # "bank_transfer"
  /\ Locked(c).seats = tx[c].seen
  /\ StageBooking(c, [Locked(c) EXCEPT !.seats = @ + 1])

\* POST: one more seat, on a trip priced per passenger.
AddPassenger(c) ==
  /\ Deciding(c, "bookingPassengers")
  /\ ~TerminalBooking(Locked(c).status)
  /\ ~TerminalTrip(tx[c].trip.status)
  /\ BookingPhase(Locked(c).status) = "awaiting_payment" => HoldLive(Locked(c), clock)
  /\ Locked(c).seats < MaxSeats
  /\ Cardinality(SeatsHeldOrTravelled(bookings, tx[c].now)) < tx[c].trip.capacity
  /\ Locked(c).payment # "pending"
  /\ Locked(c).method # "bank_transfer"
  /\ Locked(c).seats = tx[c].seen
  /\ StageBooking(c, [Locked(c) EXCEPT !.seats = @ + 1])

-----------------------------------------------------------------------------
\* Changes of the trip.

\* Mutant of UpdateTrip: only the vehicle limits the capacity.
UpdateTripToVehicle(c) ==
  /\ Deciding(c, "updateTrip")
  /\ \E n \in 1..VehicleCapacity, d \in Departures :
       Stage(c, None, [tx[c].trip EXCEPT !.capacity = n, !.departs = d], NoWrites)

\* A developer may edit a trip in any phase, so the phase is no guard. Capacity
\* stays within the vehicle and never falls below the seats already taken.
UpdateTrip(c) ==
  /\ Deciding(c, "updateTrip")
  /\ \E n \in 1..VehicleCapacity, d \in Departures :
       /\ Cardinality(SeatsHeldOrTravelled(bookings, tx[c].now)) <= n
       /\ Stage(c, None, [tx[c].trip EXCEPT !.capacity = n, !.departs = d], NoWrites)

\* Mutant of CompletionWrites: closes every booking of the trip.
CompleteEveryBooking(c, absent) ==
  [b \in {d \in Bookings : bookings[d].status # "none"} |->
     [bookings[b] EXCEPT !.status = IF b \in absent THEN "cancelled" ELSE "completed"]]

\* Completion closes every confirmed booking; the unpaid ones whose passengers
\* were all absent are cancelled. Check-ins, cash and early-departure approval
\* can only reject, or choose who was absent: TripLifecycle has them.
CompletionWrites(c, absent) ==
  [b \in {d \in Bookings : BookingPhase(bookings[d].status) = "confirmed"} |->
     [bookings[b] EXCEPT !.status = IF b \in absent THEN "cancelled" ELSE "completed"]]

ChangeTripStatus(c) ==
  /\ Deciding(c, "changeTripStatus")
  /\ ~TerminalTrip(tx[c].trip.status)
  /\ \E s \in TripMoves \ {tx[c].trip.status} :
       LET from == TripPhase(tx[c].trip.status)
           next == [tx[c].trip EXCEPT !.status = s]
       IN  /\ from # TripPhase(s) => <<from, TripPhase(s)>> \in AllowedTripTransitions
           /\ s \in {"boarding", "in_progress"} =>
                Cardinality(SeatsHeldOrTravelled(bookings, tx[c].now)) <= VehicleCapacity
           /\ IF s = "completed"
              THEN \E absent \in SUBSET {b \in Bookings : bookings[b].payment # "paid"} :
                     Stage(c, None, next, CompletionWrites(c, absent))
              ELSE Stage(c, None, next, NoWrites)

-----------------------------------------------------------------------------
\* Statements that commit on their own, and time.

\* Mutant of ExpireBookingHolds: the bot sweeps the holds of its own channel only.
ExpireTelegramHolds ==
  LET due == {b \in DueRows(clock) : bookings[b].key = None}
  IN  /\ due # {}
      /\ \A c \in Clients : tx[c].locks \cap due = {}
      /\ bookings' = [b \in Bookings |-> IF b \in due
                                         THEN Expired(CancelPayment(bookings[b]))
                                         ELSE bookings[b]]
      /\ UNCHANGED <<clock, trip, requests, tx, history>>

\* The bot's loop: expires due holds and cancels their pending payments.
ExpireBookingHolds ==
  /\ DueRows(clock) # {}
  /\ \A c \in Clients : tx[c].locks \cap DueRows(clock) = {}
  /\ bookings' = [b \in Bookings |-> IF b \in DueRows(clock)
                                     THEN Expired(CancelPayment(bookings[b]))
                                     ELSE bookings[b]]
  /\ UNCHANGED <<clock, trip, requests, tx, history>>

\* The CRM's booking list expires due holds too, without their payments.
ListBookings ==
  /\ DueRows(clock) # {}
  /\ \A c \in Clients : tx[c].locks \cap DueRows(clock) = {}
  /\ bookings' = [b \in Bookings |-> IF b \in DueRows(clock)
                                     THEN Expired(bookings[b]) ELSE bookings[b]]
  /\ UNCHANGED <<clock, trip, requests, tx, history>>

\* Handlers that turn a live hold into a seat without holding the trip's lock: they
\* have checked the hold of what they write, and have yet to commit it.
ResolvesHold(c, b) ==
  /\ tx[c].op \in {"confirmBookingPayment", "syncBank", "chooseCashBooking"}
  /\ b \in DOMAIN tx[c].writes

Lapsing ==
  {b \in Bookings : HoldLive(bookings[b], clock) /\ ~HoldLive(bookings[b], clock + 1)
                      /\ \E c \in Clients : ResolvesHold(c, b)}

Tick ==
  /\ clock < MaxTime
  /\ clock' = clock + 1
  /\ lapsed' = lapsed \cup Lapsing
  /\ UNCHANGED <<trip, bookings, requests, tx, revived, setBack>>

-----------------------------------------------------------------------------
Decide(c) ==
  \/ PublicCreateBooking(c) \/ BotCreateBooking(c) \/ CreateBooking(c)
  \/ UpdateBooking(c) \/ CancelTelegramBooking(c) \/ AddPassenger(c)
  \/ ConfirmBookingPayment(c) \/ MatchBankPayment(c)
  \/ ChooseCashBooking(c) \/ SetTelegramPaymentMethod(c)
  \/ UpdateTrip(c) \/ ChangeTripStatus(c)

Init ==
  /\ clock = 0
  /\ trip \in {[status |-> "new", capacity |-> VehicleCapacity, departs |-> d] :
                 d \in Departures}
  /\ bookings = [b \in Bookings |-> EmptyRow]
  /\ requests = [k \in Keys |-> None]
  /\ tx = [c \in Clients |-> Idle]
  /\ lapsed = {} /\ revived = {} /\ setBack = {}

Next ==
  \/ \E c \in Clients :
       \/ BeginSale(c) \/ BeginBookingChange(c) \/ BeginTripChange(c)
       \/ LockTrip(c) \/ LockBooking(c) \/ LockKey(c) \/ LockDueRows(c)
       \/ Decide(c)
       \/ NextLine(c)
       \/ Commit(c)
       \/ Rollback(c)
  \/ ExpireBookingHolds
  \/ ListBookings
  \/ Tick

Spec == Init /\ [][Next]_vars

-----------------------------------------------------------------------------
\* Fairness, for the liveness property only. The clock and the bot's loop run;
\* a statement waiting for a row lock is queued by PostgreSQL and gets its turn,
\* so a session with something to do does it (or fails) eventually; the deadlock
\* detector breaks a cycle of two sessions that lock a trip and one of its
\* bookings in opposite orders. Nobody is obliged to begin anything.

Proceed(c) ==
  \/ LockTrip(c) \/ LockBooking(c) \/ LockKey(c) \/ LockDueRows(c)
  \/ Decide(c)
  \/ Commit(c)
  \/ tx[c].pc = "decide" /\ Rollback(c)

DeadlockVictim(c) ==
  /\ \E d \in Clients : /\ tx[c].pc = "trip" /\ tx[d].hasTrip
                        /\ tx[d].pc = "booking" /\ tx[d].booking \in tx[c].locks
  /\ Rollback(c)

Fairness ==
  /\ WF_vars(Tick)
  /\ SF_vars(ExpireBookingHolds)
  /\ \A c \in Clients : SF_vars(Proceed(c)) /\ WF_vars(DeadlockVictim(c))

FairSpec == Spec /\ Fairness

-----------------------------------------------------------------------------
(***************************************************************************)
(* Properties.                                                             *)
(***************************************************************************)

\* A transaction in any of its states: it writes only rows that it has locked,
\* and the change of a booking names its row.
WellFormed(t) ==
  /\ \E S \in SUBSET t.locks : t \in Transaction(S)
  /\ t.pc = "booking" => t.op \in BookingChanges
  /\ t.op \in BookingChanges => t.booking \in Bookings

\* Every row and every open transaction is well formed, and no transaction began
\* in the future.
TypeOK ==
  /\ clock \in 0..MaxTime
  /\ trip \in TripRow
  /\ bookings \in [Bookings -> BookingRow]
  /\ requests \in [Keys -> Bookings \cup {None}]
  /\ tx = [c \in Clients |-> tx[c]]
  /\ \A c \in Clients : WellFormed(tx[c]) /\ tx[c].now <= clock
  /\ lapsed \subseteq Bookings /\ revived \subseteq Bookings /\ setBack \subseteq Bookings

\* What the sale's comments and README promise: the seats held by pending, confirmed
\* and unexpired awaiting bookings never exceed the capacity of the trip.
SeatsWithinCapacity == Cardinality(SeatsHeld(bookings, clock)) <= trip.capacity

\* What the code keeps of it, whichever channel sold the seats, whatever was confirmed,
\* cancelled, extended or resized at the same time: the bookings whose seats were
\* counted fit into the trip, so that it is overbooked by revived bookings only.
SeatsOf(S, rows, t) == {p \in SeatsHeld(rows, t) : p[1] \in S}

NoOversell ==
  Cardinality(SeatsOf(Bookings \ revived, bookings, clock)) <= trip.capacity

\* A customer never has two bookings of the trip that both hold seats, although
\* the unique index does not know "passenger_arrived" and the checks of the
\* three channels differ; revived bookings apart, which nobody checks.
OneActive(S, rows, t) ==
  \A a, b \in S :
    /\ a # b /\ rows[a].customer = rows[b].customer
    /\ Occupies(rows[a], t)
    => ~Occupies(rows[b], t)

OneActiveBooking == OneActive(Bookings \ revived, bookings, clock)

\* A checkout that is retried with the same request key, even concurrently or
\* after its booking was cancelled or had expired, never books a second time.
RequestBooksOnce ==
  \A a, b \in Bookings :
    bookings[a].key # None /\ bookings[a].key = bookings[b].key => a = b

\* Money and status agree: a paid transfer belongs to a booking that was confirmed by
\* it, and keeps no hold that a sweep could end; it never belongs to one that still
\* waits, whose hold ran out or whose customer switched to cash before the statement
\* line arrived, unless staff set that status by hand.
PaidByTransfer(row) ==
  row.payment = "paid" => row.method = "bank_transfer" /\ row.hold = NoHold

PaidConfirms(row) == row.payment = "paid" => row.status \notin UnpaidStatus

PaidMeansConfirmed ==
  \A b \in Bookings :
    PaidByTransfer(bookings[b]) /\ (b \notin setBack => PaidConfirms(bookings[b]))

\* A booking leaves "awaiting payment" for a seat-holding status only while its hold
\* still lasts: no confirmation and no switch to cash revives an expired hold, except
\* one whose hold ended between the re-check under the row's lock and the commit.
SetByHand(b) ==
  \E c \in Clients : tx[c].op = "updateBooking" /\ b \in DOMAIN tx[c].writes

NoLateConfirmation ==
  [][\A b \in Bookings :
       /\ bookings[b].status = "awaiting_payment"
       /\ BookingPhase(bookings'[b].status) \in {"pending", "confirmed"}
       => HoldLive(bookings[b], clock) \/ b \in lapsed \/ SetByHand(b)]_vars

\* Once a booking is cancelled, expired, completed or a no-show, no pending
\* transaction, sweep or statement line changes its row or its payment again.
TerminalIsFinal ==
  [][\A b \in Bookings :
       TerminalBooking(bookings[b].status) => bookings'[b] = bookings[b]]_vars

\* Every hold with an end is resolved: while the clock and the bot's loop run, a
\* booking does not wait for its payment for ever.
Holding(b) ==
  /\ bookings[b].status = "awaiting_payment"
  /\ bookings[b].hold # NoHold /\ bookings[b].hold <= MaxTime

HoldsEnd == \A b \in Bookings : []<>~Holding(b)

\* Every handler ends: waiting for a row, an advisory key or another handler's
\* commit does not block a session for ever, although updateBooking and the bot's
\* cancellation lock booking and trip in the opposite order to bookingPassengers.
Busy(c) == tx[c].pc # "idle"

HandlersEnd == \A c \in Clients : []<>~Busy(c)

\* Sales implement the abstract allocation of seats: a booking's seats are granted
\* once, within the capacity, and after their release come back only by a revival.
Alloc == INSTANCE SeatAllocator WITH
  capacity <- trip.capacity,
  held <- [b \in Bookings |-> IF Occupies(bookings[b], clock) THEN bookings[b].seats ELSE 0],
  gone <- {b \in Bookings : bookings[b].status # "none" /\ ~Occupies(bookings[b], clock)},
  revived <- revived

ImplementsSeatAllocator == Alloc!Spec

-----------------------------------------------------------------------------
\* The inductive invariant behind NoOversell.

WithoutTrip == {"confirmBookingPayment", "syncBank", "chooseCashBooking",
                "setTelegramPaymentMethod"}

\* Locks exclude each other, and a handler that decides about seats has the trip.
Disciplined(t) ==
  /\ t.pc = "idle" => t.locks = {} /\ ~t.hasTrip
  /\ t.pc = "due" => t.op = "botCreateBooking"
  /\ t.op \in WithoutTrip => ~t.hasTrip /\ t.pc \notin {"key", "due", "trip"}
  /\ t.pc \in {"decide", "staged"} => t.hasTrip \/ t.op \in WithoutTrip
  /\ t.pc = "booking" => \/ t.hasTrip
                         \/ t.op \in WithoutTrip
                         \/ t.op \in {"updateBooking", "cancelTelegramBooking"}

Apart(t, u) == t.locks \cap u.locks = {} /\ ~(t.hasTrip /\ u.hasTrip)

LocksExclude ==
  \A c \in Clients :
    Disciplined(tx[c]) /\ \A d \in Clients \ {c} : Apart(tx[c], tx[d])

\* What a transaction has read under the trip's lock is still true, and only the
\* bot's sweep and a statement's earlier lines are written before the decision.
ReadsTrue(t) ==
  t.pc # "staged" =>
    /\ t.hasTrip => t.trip = trip
    /\ t.op \notin {"botCreateBooking", "syncBank"} => DOMAIN t.writes = {}

ReadsStayTrue == \A c \in Clients : ReadsTrue(tx[c])

\* Rows whose seats somebody has counted: new ones, and those that hold them already.
Counted ==
  {b \in Bookings \ revived : bookings[b].status = "none" \/ Occupies(bookings[b], clock)}

\* Whatever is staged fits: with the trip's lock, the counted seats of the whole trip
\* as the transaction leaves it; without it, no row is new or gets more seats.
WholeTripFits(c) == Cardinality(SeatsOf(Counted, Seen(c), clock)) <= tx[c].trip.capacity

NoRowGains(c) ==
  \A b \in DOMAIN tx[c].writes :
    /\ bookings[b].status # "none" /\ tx[c].writes[b].status # "none"
    /\ tx[c].writes[b].seats = bookings[b].seats

StagedFit(c) ==
  /\ tx[c].op \in WithoutTrip => NoRowGains(c)
  /\ tx[c].pc = "staged" /\ tx[c].hasTrip => WholeTripFits(c)

StagedFits == \A c \in Clients : StagedFit(c)

SeatInvariant == TypeOK /\ LocksExclude /\ ReadsStayTrue /\ StagedFits /\ NoOversell

-----------------------------------------------------------------------------
\* The inductive invariants behind the other properties. All of them say what a
\* transaction may write over the rows as they are when it commits, which nobody
\* else changes meanwhile because the rows are locked.

Sales == {"publicCreateBooking", "botCreateBooking", "createBooking"}

LocksApart == \A c \in Clients : \A d \in Clients \ {c} : tx[c].locks \cap tx[d].locks = {}

\* A row that is written is not over, and goes on as the same booking.
Follows(old, new) ==
  /\ ~TerminalBooking(old.status)
  /\ new.status # "none"
  /\ old.status # "none" => new.key = old.key /\ new.customer = old.customer

\* Written before the decision are only holds that had run out and the bookings that
\* a statement's earlier lines confirm.
DueWrite(c, b) ==
  /\ bookings[b].status = "awaiting_payment" /\ HoldDue(bookings[b], tx[c].now)
  /\ tx[c].writes[b] = Expired(CancelPayment(bookings[b]))

\* A line of a statement confirms a booking that waits for its payment.
LineWrite(c, b) ==
  /\ bookings[b].status = "awaiting_payment" /\ bookings[b].payment = "pending"
  /\ tx[c].writes[b] = Confirmed(bookings[b])

RowsSound(c) ==
  /\ tx[c].op \in BookingChanges => tx[c].pc # "due" /\ Locked(c).status # "none"
  /\ \A b \in DOMAIN tx[c].writes :
       /\ Follows(bookings[b], tx[c].writes[b])
       /\ tx[c].op = "syncBank" => LineWrite(c, b)
       /\ tx[c].pc # "staged" /\ tx[c].op # "syncBank" => DueWrite(c, b)

RowsInvariant == TypeOK /\ LocksApart /\ \A c \in Clients : RowsSound(c)

\* A request key that has a booking is recorded with it; of two sessions with the
\* same key, one still waits for the advisory lock.
KeysRecorded ==
  \A b \in Bookings : bookings[b].key # None => requests[bookings[b].key] = b

KeysApart ==
  \A c \in Clients : \A d \in Clients \ {c} :
    tx[c].key # None /\ tx[c].key = tx[d].key => "key" \in {tx[c].pc, tx[d].pc}

KeySound(c) ==
  /\ tx[c].op # "publicCreateBooking" => tx[c].key = None
  /\ tx[c].pc = "staged" =>
       /\ tx[c].key # None => requests[tx[c].key] = None
       /\ \A b \in DOMAIN tx[c].writes :
            bookings[b].status = "none" =>
              b = tx[c].booking /\ tx[c].writes[b].key = tx[c].key

KeyInvariant ==
  RowsInvariant /\ KeysRecorded /\ KeysApart /\ \A c \in Clients : KeySound(c)

\* A booking that keeps its hold keeps its method, or goes over to the transfer: a
\* statement's line that was matched with a transfer finds one when it has the lock.
KeepsHold(old, new) ==
  new.hold # NoHold /\ old.status # "none" => new.method \in {old.method, "bank_transfer"}
                                              /\ old.hold # NoHold

PaymentSound(c) ==
  /\ tx[c].op = "syncBank" /\ Locked(c).hold # NoHold => Locked(c).method = "bank_transfer"
  /\ \A b \in DOMAIN tx[c].writes :
       /\ PaidByTransfer(tx[c].writes[b])
       /\ b \notin setBack \cup SetBackBy(c) => PaidConfirms(tx[c].writes[b])
       /\ KeepsHold(bookings[b], tx[c].writes[b])

PaymentInvariant ==
  RowsInvariant /\ PaidMeansConfirmed /\ \A c \in Clients : PaymentSound(c)

\* What each kind of handler may do to the seats: a sale writes one new booking next
\* to holds that hold nothing any more, an added passenger takes one seat more, an
\* edited trip writes no row, a completed trip ends bookings, and everybody else
\* leaves a booking its number of seats.
NewSale(c, b) == tx[c].op \in Sales /\ b = tx[c].booking /\ bookings[b].status = "none"

LapsedHold(c, b) ==
  /\ tx[c].op \in Sales /\ bookings[b].status # "none"
  /\ ~Occupies(bookings[b], clock) /\ ~Occupies(tx[c].writes[b], clock)

OneMoreSeat(c, b) ==
  /\ tx[c].op = "bookingPassengers" /\ b = tx[c].booking
  /\ tx[c].writes[b] = [bookings[b] EXCEPT !.seats = @ + 1]

SameSeats(c, b) ==
  /\ tx[c].op \notin Sales \cup {"bookingPassengers"}
  /\ bookings[b].status # "none" /\ tx[c].writes[b].seats = bookings[b].seats
  /\ tx[c].op = "changeTripStatus" => TerminalBooking(tx[c].writes[b].status)
  /\ tx[c].op \notin {"changeTripStatus", "syncBank"} => b = tx[c].booking

Shaped(c) ==
  tx[c].pc = "staged" =>
    /\ tx[c].op = "updateTrip" => DOMAIN tx[c].writes = {}
    /\ tx[c].hasTrip /\ tx[c].op # "updateTrip" => tx[c].trip.capacity = trip.capacity
    /\ \A b \in DOMAIN tx[c].writes :
         /\ tx[c].writes[b].seats >= 1
         /\ NewSale(c, b) \/ LapsedHold(c, b) \/ OneMoreSeat(c, b) \/ SameSeats(c, b)

ShapeInvariant ==
  /\ SeatInvariant /\ RowsInvariant
  /\ \A b \in Bookings : bookings[b].status # "none" => bookings[b].seats >= 1
  /\ \A c \in Clients : Shaped(c)

\* With the trip's lock a transaction leaves every customer one active booking among
\* those that were counted.
ActiveInvariant ==
  /\ ShapeInvariant /\ OneActiveBooking
  /\ \A c \in Clients :
       tx[c].pc = "staged" /\ tx[c].hasTrip => OneActive(Counted, Seen(c), clock)

\* A handler that resolves a hold has found it live: either it still is, or it ended
\* after that check.
Checked(c, b) ==
  ResolvesHold(c, b) => HoldLive(bookings[b], clock) \/ b \in lapsed

\* Whoever else writes a row that waits for its payment does not give it a seat.
Resolves(c, b) ==
  /\ bookings[b].status = "awaiting_payment"
  /\ BookingPhase(tx[c].writes[b].status) \in {"pending", "confirmed"}
  => ResolvesHold(c, b) \/ tx[c].op = "updateBooking"

HoldInvariant ==
  /\ RowsInvariant
  /\ \A c \in Clients : \A b \in DOMAIN tx[c].writes : Checked(c, b) /\ Resolves(c, b)

=============================================================================
