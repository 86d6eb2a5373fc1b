--------------------------- MODULE TripLifecycle ---------------------------
(***************************************************************************)
(* One trip from sale to completion: attendance marks, cash, the approval  *)
(* of an early departure, and the status commands that read all of it.     *)
(*                                                                         *)
(* Every handler that changes the trip, its check-ins or its cash locks    *)
(* the row of the trip first (recordDriverCash the driver's row, which the *)
(* status commands and receipts lock too), so those handlers run one after *)
(* the other.  The handlers that resolve a payment hold take no lock that  *)
(* they know of, and every statement of a READ COMMITTED transaction sees  *)
(* what committed before it: the commands that read in several statements  *)
(* are therefore several steps here, and "command" is the one that holds   *)
(* the trip's lock between its steps.                                      *)
(***************************************************************************)
EXTENDS BookingRules, FiniteSets, FiniteSetsExt

CONSTANTS
  Bookings,        \* row identifiers of the trip's bookings
  None,            \* the source of a receipt for the whole trip
  Crews,           \* a driver with a vehicle
  Departures,      \* possible trips.starts_at
  MaxSeats,
  Fare,            \* price of a seat, in the smallest amount of cash
  HoldLength,
  MaxTime,         \* bound of the clock
  MaxVersion,      \* bound of the changes of one booking
  MaxRevision,     \* bound of the changes of the departure plan
  ManualMoves,     \* <<from, to>>: statuses that dispatchers choose by hand
  Entries,         \* the amounts that managers enter for a trip
  Currencies,      \* of cash
  TripCurrency     \* the trip's, and of every booking on it

Mark == {"waiting", "boarded", "absent"}
SeatNumber == 0..(MaxSeats - 1)

ASSUME LifecycleAssumption ==
  /\ IsFiniteSet(Bookings) /\ None \notin Bookings
  /\ Departures \subseteq Nat
  /\ {MaxSeats, Fare, HoldLength} \subseteq Nat \ {0}
  /\ {MaxTime, MaxVersion, MaxRevision} \subseteq Nat
  /\ ManualMoves \subseteq BookingStatus \X BookingStatus
  /\ Entries \subseteq Nat \ {0} /\ TripCurrency \in Currencies

VARIABLES
  clock,
  trip,        \* the row of trips, with its approval of an early departure
  bookings,    \* the rows of bookings, each with its payment
  checkins,    \* driver_booking_checkins; every booking has at most one
  ledger,      \* the cash_collected rows of driver_cash_ledger
  command,     \* the command that holds the trip's lock between two statements
  altered,     \* history: the plan or a booking changed since the approval
  resolved     \* history: <<booking, op>> of holds resolved beside the command,
               \* which stood at op; it turns into altered when the command ends

vars == <<clock, trip, bookings, checkins, ledger, command, altered, resolved>>

-----------------------------------------------------------------------------
\* Rows. "version" stands for updated_at, "wish" for payment_method in custom_data.

EmptyRow ==
  [status |-> "none", seats |-> 0, hold |-> NoHold, method |-> "none",
   paid |-> FALSE, wish |-> "none", version |-> 0]

NoCheckin == [exists |-> FALSE, marks |-> [i \in SeatNumber |-> "waiting"], cash |-> 0]

Price(row) == Fare * row.seats

Update(b, row) == [bookings EXCEPT ![b] = [row EXCEPT !.version = @ + 1]]

Is(b, phase) == BookingPhase(bookings[b].status) = phase

OnBank(b) == bookings[b].method = "bank_transfer"

Active == {b \in Bookings : Occupies(bookings[b], clock)}

Seats(b) == 0..(bookings[b].seats - 1)

\* Mutant of Marked: the mark of the first passenger stands for the party.
FirstMarked(b, marks) == checkins[b].marks[0] \in marks

Marked(b, marks) == \A i \in Seats(b) : checkins[b].marks[i] \in marks

PriceOf(b) == Price(bookings[b])

\* What a set of bookings costs, and what a set of receipts adds up to.
Fares(rows, S) == MapThenSumSet(LAMBDA b : Price(rows[b]), S)

\* The sums of the code add amounts of any currency.
Entered(receipts) == MapThenSumSet(LAMBDA r : r.amount, receipts)

Collected == Entered(ledger)

\* Confirmed bookings that no bank transfer pays.
CashBookings == {b \in Bookings : Is(b, "confirmed") /\ ~OnBank(b)}

-----------------------------------------------------------------------------
\* The key that binds an approval to the plan and to the passengers.

NoApproval == [revision |-> 0, plan |-> <<>>, rows |-> <<>>]

\* Mutant of ManifestKey: the plan without its revision.
KeyWithoutRevision ==
  [revision |-> 0,
   plan |-> <<trip.crew, trip.starts>>,
   rows |-> [b \in Bookings |-> <<bookings[b].seats, bookings[b].status,
                                  bookings[b].version, bookings[b].hold>>]]

\* trip_departure_manifest_key
ManifestKey ==
  [revision |-> trip.revision,
   plan |-> <<trip.crew, trip.starts>>,
   rows |-> [b \in Bookings |-> <<bookings[b].seats, bookings[b].status,
                                  bookings[b].version, bookings[b].hold>>]]

BeforeDeparture ==
  clock < trip.starts /\ TripPhase(trip.status) \in {"planned", "assigned"}

EarlyDepartureApproved == BeforeDeparture /\ trip.approval = ManifestKey

AllPassengersBoarded == Active # {} /\ \A b \in Active : Marked(b, {"boarded"})

-----------------------------------------------------------------------------
\* The trip's lock.

Free == [op |-> "none", absent |-> {}, amount |-> 0]

Lock(op, absent, amount) ==
  command' = [op |-> op, absent |-> absent, amount |-> amount]

\* A handler that takes the lock, does its work and commits in one step.
Alone == command = Free /\ UNCHANGED <<clock, command>>

\* A handler without the lock: it may commit between a command's statements.
Beside == UNCHANGED <<clock, command>>

\* Early returns of a command between its statements: 409, a lost connection.
Rollback ==
  /\ command # Free
  /\ command' = Free
  /\ UNCHANGED <<clock, trip, bookings, checkins, ledger>>

-----------------------------------------------------------------------------
\* Bookings come and change. SeatSales has the sales channels in full; here
\* are the rows they leave. The public checkout stores the chosen method.

NewRow(status, hold, method, wish, n) ==
  [status |-> status, seats |-> n, hold |-> hold, method |-> method,
   paid |-> FALSE, wish |-> wish, version |-> 0]

Sale(b) ==
  /\ Alone
  /\ bookings[b].status = "none"
  /\ TripPhase(trip.status) \in {"planned", "assigned"}
  /\ \E n \in 1..MaxSeats :
       \/ bookings' = [bookings EXCEPT ![b] =
                         NewRow("cash_on_boarding", NoHold, "none", "cash", n)]
       \/ /\ trip.starts > clock
          /\ \E wish \in {"bank_transfer", "none"} :
               bookings' = [bookings EXCEPT ![b] =
                  NewRow("awaiting_payment", clock + HoldLength, "bank_transfer", wish, n)]
  /\ UNCHANGED <<trip, checkins, ledger>>

LiveHold(b) == bookings[b].status = "awaiting_payment" /\ HoldLive(bookings[b], clock)

\* confirmBookingPayment and matchBankPayment
ConfirmPayment(b) ==
  /\ Beside
  /\ LiveHold(b) /\ OnBank(b)
  /\ bookings' = Update(b, [bookings[b] EXCEPT !.status = "confirmed", !.hold = NoHold,
                                               !.paid = TRUE])
  /\ UNCHANGED <<trip, checkins, ledger>>

\* The customer's wish in custom_data stays what it was.
ChooseCashBooking(b) ==
  /\ Beside
  /\ LiveHold(b)
  /\ bookings' = Update(b, [bookings[b] EXCEPT !.status = "cash_on_boarding",
                                               !.hold = NoHold, !.method = "cash"])
  /\ UNCHANGED <<trip, checkins, ledger>>

ExpireBookingHolds(b) ==
  /\ Beside
  /\ bookings[b].status = "awaiting_payment" /\ HoldDue(bookings[b], clock)
  /\ bookings' = Update(b, [bookings[b] EXCEPT !.status = "expired"])
  /\ UNCHANGED <<trip, checkins, ledger>>

\* A status by hand; cancelling is blocked once the trip is under way.
UpdateBooking(b) ==
  /\ Alone
  /\ bookings[b].version < MaxVersion
  /\ ~TerminalBooking(bookings[b].status)
  /\ \E s \in BookingStatus :
       /\ <<bookings[b].status, s>> \in ManualMoves
       /\ IF BookingPhase(s) = "cancelled"
          THEN /\ TripPhase(trip.status) \notin {"in_progress", "completed"}
               /\ bookings' = Update(b, [bookings[b] EXCEPT !.status = s, !.hold = NoHold])
          ELSE bookings' = Update(b, [bookings[b] EXCEPT !.status = s])
  /\ UNCHANGED <<trip, checkins, ledger>>

\* bookingPassengers: PATCH edits a passenger, POST adds a seat at the same fare.
EditPassenger(b) ==
  /\ Alone
  /\ bookings[b].status # "none" /\ bookings[b].version < MaxVersion
  /\ bookings' = Update(b, bookings[b])
  /\ UNCHANGED <<trip, checkins, ledger>>

AddPassenger(b) ==
  /\ Alone
  /\ bookings[b].version < MaxVersion
  /\ Is(b, "pending") \/ Is(b, "confirmed")
  /\ ~TerminalTrip(trip.status)
  /\ bookings[b].seats < MaxSeats
  /\ bookings[b].method = "none" /\ bookings[b].wish # "bank_transfer"
  /\ bookings' = Update(b, [bookings[b] EXCEPT !.seats = @ + 1])
  /\ UNCHANGED <<trip, checkins, ledger>>

-----------------------------------------------------------------------------
\* Attendance and cash of one booking (driverCheckin).

Checkable(b) ==
  /\ Alone
  /\ TripPhase(trip.status) \in {"planned", "assigned", "in_progress"}
  /\ Is(b, "confirmed")

AllAbsent(b, marks) == \A i \in Seats(b) : marks[i] = "absent"

\* The first passenger on board moves the trip to boarding.
MarkPassenger(b) ==
  /\ Checkable(b)
  /\ \E i \in Seats(b), m \in Mark :
       LET marks == [checkins[b].marks EXCEPT ![i] = m]
       IN  /\ AllAbsent(b, marks) => checkins[b].cash = 0
           /\ checkins' = [checkins EXCEPT ![b].exists = TRUE, ![b].marks = marks]
           /\ trip' = IF m = "boarded" /\ TripPhase(trip.status) # "in_progress"
                      THEN [trip EXCEPT !.status = "boarding"] ELSE trip
  /\ UNCHANGED <<bookings, ledger>>

\* A row of the ledger.
Entry(source, currency, target, amount) ==
  [source |-> source, currency |-> currency, target |-> target, amount |-> amount]

\* Mutant of Receipt: one entry per booking, so later instalments are not entered.
FirstReceipt(b, target) ==
  IF checkins[b].cash > 0 THEN {}
  ELSE {Entry(b, TripCurrency, target, target - checkins[b].cash)}

Receipt(b, target) ==
  IF target = checkins[b].cash THEN {}
  ELSE {Entry(b, TripCurrency, target, target - checkins[b].cash)}

\* The owner collects without an attendance mark, a driver from who boarded. A
\* full receipt confirms the booking.
TakeCash(b) ==
  /\ Checkable(b)
  /\ ~OnBank(b) /\ bookings[b].wish # "bank_transfer"
  /\ \E target \in 1..PriceOf(b), owner \in BOOLEAN :
       /\ target >= checkins[b].cash
       /\ owner \/ \E i \in SeatNumber : checkins[b].marks[i] = "boarded"
       /\ ledger' = ledger \cup Receipt(b, target)
       /\ checkins' = [checkins EXCEPT ![b].exists = TRUE, ![b].cash = target]
       /\ bookings' = IF target = PriceOf(b) /\ bookings[b].status = "cash_on_boarding"
                      THEN Update(b, [bookings[b] EXCEPT !.status = "confirmed"])
                      ELSE bookings
  /\ UNCHANGED trip

-----------------------------------------------------------------------------
\* The older receipt of a whole trip (confirmDriverCashReceived), in the two
\* groups of statements before and after the sum, and the manager's entry.

WholeReceipts == {r \in ledger : r.source = None}

WholeReceiptsIn(currency) == {r \in WholeReceipts : r.currency = currency}

Checked == {b \in Bookings : checkins[b].exists}

\* A trip whose payments are noted passenger by passenger has no whole receipt.
NoSeparateReceipts == Checked = {} \/ WholeReceipts # {}

ConfirmDriverCashReceived ==
  /\ command = Free
  /\ TripPhase(trip.status) = "in_progress"
  /\ NoSeparateReceipts
  /\ Fares(bookings, CashBookings) > 0
  /\ Lock("receipt", {}, Fares(bookings, CashBookings))
  /\ UNCHANGED <<clock, trip, bookings, checkins, ledger>>

\* The comparison with an earlier receipt reads whichever of the trip's rows in its
\* currency comes first, those of single bookings included.
RecordReceipt ==
  LET seeded == CashBookings \ Checked
      checked == [b \in Bookings |->
                    IF b \in seeded
                    THEN [exists |-> TRUE, cash |-> PriceOf(b),
                          marks |-> [i \in SeatNumber |->
                                       IF i \in Seats(b) THEN "boarded" ELSE "waiting"]]
                    ELSE checkins[b]]
      settled == {b \in Bookings : /\ bookings[b].status = "cash_on_boarding"
                                   /\ checked[b].cash >= PriceOf(b)}
  IN  /\ command.op = "receipt"
      /\ IF WholeReceiptsIn(TripCurrency) = {}
         THEN ledger' = ledger \cup {Entry(None, TripCurrency, 0, command.amount)}
         ELSE /\ \E r \in ledger : r.currency = TripCurrency /\ r.amount = command.amount
              /\ UNCHANGED ledger
      /\ checkins' = checked
      /\ bookings' = [b \in Bookings |->
                        IF b \in settled
                        THEN [bookings[b] EXCEPT !.status = "confirmed",
                                                 !.version = @ + 1]
                        ELSE bookings[b]]
      /\ command' = Free
      /\ UNCHANGED <<clock, trip>>

\* A manager's cash_collected entry for the trip, in a currency and phase of the
\* manager's choice: one per currency, by the unique index on receipts without a
\* source key.
RecordDriverCash ==
  /\ Alone
  /\ \E n \in Entries, currency \in Currencies :
       /\ WholeReceiptsIn(currency) = {}
       /\ ledger' = ledger \cup {Entry(None, currency, 0, n)}
  /\ UNCHANGED <<trip, bookings, checkins>>

-----------------------------------------------------------------------------
\* The plan and the approval.

UpdateTrip ==
  /\ Alone
  /\ TripPhase(trip.status) \in {"planned", "assigned"}
  /\ trip.revision < MaxRevision
  /\ \E crew \in Crews, d \in Departures :
       /\ <<crew, d>> # <<trip.crew, trip.starts>>
       /\ trip' = [trip EXCEPT !.crew = crew, !.starts = d, !.revision = @ + 1]
  /\ UNCHANGED <<bookings, checkins, ledger>>

ApproveEarlyDeparture ==
  /\ Alone
  /\ BeforeDeparture
  /\ ~EarlyDepartureApproved
  /\ trip' = [trip EXCEPT !.approval = ManifestKey]
  /\ UNCHANGED <<bookings, checkins, ledger>>

-----------------------------------------------------------------------------
\* Status commands (changeTripStatus). Readiness of driver and vehicle can only
\* reject.

Allowed(s) ==
  /\ ~TerminalTrip(trip.status) /\ s # trip.status
  /\ TripPhase(trip.status) # TripPhase(s) =>
       <<TripPhase(trip.status), TripPhase(s)>> \in AllowedTripTransitions

ChangeStage ==
  /\ Alone
  /\ \E s \in {"assigned", "boarding", "cancelled"} :
       Allowed(s) /\ trip' = [trip EXCEPT !.status = s]
  /\ UNCHANGED <<bookings, checkins, ledger>>

\* A driver must also have decided about everybody; staff need not, and their
\* commands include the driver's.
Depart ==
  /\ command = Free
  /\ Allowed("in_progress")
  /\ BeforeDeparture => AllPassengersBoarded \/ EarlyDepartureApproved
  /\ Lock("depart", {}, 0)
  /\ UNCHANGED <<clock, trip, bookings, checkins, ledger>>

RecordDeparture ==
  /\ command.op = "depart"
  /\ trip' = [trip EXCEPT !.status = "in_progress"]
  /\ command' = Free
  /\ UNCHANGED <<clock, bookings, checkins, ledger>>

\* Once anybody has been checked in, every confirmed passenger must be.
AttendanceResolved ==
  Checked # {} =>
    \A b \in Bookings : Is(b, "confirmed") => Marked(b, {"boarded", "absent"})

\* No-shows who paid nothing.
Absentees ==
  {b \in Checked : /\ Is(b, "confirmed") /\ ~bookings[b].paid
                   /\ checkins[b].cash = 0 /\ AllAbsent(b, checkins[b].marks)}

Complete ==
  /\ command = Free
  /\ Allowed("completed")
  /\ AttendanceResolved
  /\ Lock("count", Absentees, 0)
  /\ UNCHANGED <<clock, trip, bookings, checkins, ledger>>

\* Mutant of CashAgrees: enough cash is good enough.
CashSuffices(due) == due <= Collected

CashAgrees(due) == due = Collected

CountCash ==
  /\ command.op = "count"
  /\ CashAgrees(Fares(bookings, CashBookings \ command.absent))
  /\ Lock("complete", command.absent, 0)
  /\ UNCHANGED <<clock, trip, bookings, checkins, ledger>>

RecordCompletion ==
  /\ command.op = "complete"
  /\ trip' = [trip EXCEPT !.status = "completed"]
  /\ bookings' = [b \in Bookings |->
       IF Is(b, "confirmed")
       THEN [bookings[b] EXCEPT !.version = @ + 1,
               !.status = IF b \in command.absent THEN "cancelled" ELSE "completed"]
       ELSE bookings[b]]
  /\ command' = Free
  /\ UNCHANGED <<clock, checkins, ledger>>

-----------------------------------------------------------------------------
Tick ==
  /\ clock < MaxTime
  /\ clock' = clock + 1
  /\ UNCHANGED <<trip, bookings, checkins, ledger, command>>

Init ==
  /\ clock = 0
  /\ trip \in {[status |-> "new", crew |-> c, starts |-> d, revision |-> 0,
                approval |-> NoApproval] : c \in Crews, d \in Departures}
  /\ bookings = [b \in Bookings |-> EmptyRow]
  /\ checkins = [b \in Bookings |-> NoCheckin]
  /\ ledger = {}
  /\ command = Free
  /\ altered = FALSE
  /\ resolved = {}

Step ==
  \/ \E b \in Bookings :
       \/ Sale(b) \/ ConfirmPayment(b) \/ ChooseCashBooking(b) \/ ExpireBookingHolds(b)
       \/ UpdateBooking(b) \/ EditPassenger(b) \/ AddPassenger(b)
       \/ MarkPassenger(b) \/ TakeCash(b)
  \/ ConfirmDriverCashReceived \/ RecordReceipt \/ RecordDriverCash
  \/ UpdateTrip \/ ApproveEarlyDeparture \/ ChangeStage
  \/ Depart \/ RecordDeparture
  \/ Complete \/ CountCash \/ RecordCompletion
  \/ Rollback
  \/ Tick

\* altered forgets at an approval and notes every later change, that of a hold
\* resolved beside a command when the command ends; resolved notes those until then.
Remember ==
  /\ resolved' = IF command' = Free THEN {}
                 ELSE resolved \cup {<<b, command.op>> : b \in {d \in Bookings :
                                        bookings'[d] # bookings[d]}}
  /\ altered' = /\ trip'.approval = trip.approval
                /\ \/ altered
                   \/ <<trip'.crew, trip'.starts>> # <<trip.crew, trip.starts>>
                   \/ command' = Free /\ (bookings' # bookings \/ resolved # {})

Next == Step /\ Remember

Spec == Init /\ [][Next]_vars

-----------------------------------------------------------------------------
(***************************************************************************)
(* Properties.                                                             *)
(***************************************************************************)

BookingRow ==
  [status : BookingStatus \cup {"none"}, seats : 0..MaxSeats, hold : Nat \cup {NoHold},
   method : {"none", "cash", "bank_transfer"}, paid : BOOLEAN,
   wish : {"none", "cash", "bank_transfer"}, version : Nat]

Checkin == [exists : BOOLEAN, marks : [SeatNumber -> Mark], cash : Nat]

Approval ==
  [revision : Nat, plan : Crews \X Departures,
   rows : [Bookings -> Nat \X (BookingStatus \cup {"none"}) \X Nat \X (Nat \cup {NoHold})]]

Operation == {"none", "receipt", "depart", "count", "complete"}

HistoryTyped == altered \in BOOLEAN /\ resolved \subseteq Bookings \X Operation

\* Every row is well formed, and no booking was charged more than its seats cost.
TypeOK ==
  /\ clock \in 0..MaxTime
  /\ trip \in [status : TripStatus, crew : Crews, starts : Departures,
               revision : 0..MaxRevision, approval : Approval \cup {NoApproval}]
  /\ bookings \in [Bookings -> BookingRow]
  /\ checkins \in [Bookings -> Checkin]
  /\ \A b \in Bookings : IF bookings[b].status = "none"
                         THEN bookings[b] = EmptyRow /\ checkins[b] = NoCheckin
                         ELSE bookings[b].seats > 0
  /\ \A b \in Bookings : checkins[b].cash <= PriceOf(b)
  /\ \A r \in ledger : r.source \in Bookings \cup {None} /\ r.amount > 0
  /\ command.op \in Operation
  /\ command.absent \subseteq Bookings
  /\ command.op = "receipt" => command.amount > 0
  /\ HistoryTyped

\* The cash of a booking is entered once: what its own entries add up to is what
\* its check-in shows, whatever totals were submitted and repeated, and however
\* the booking changed meanwhile; a receipt of the whole trip may have paid for
\* more, never for less.
CashEnteredOnce ==
  \A b \in Bookings :
    LET own == Entered({r \in ledger : r.source = b})
    IN  IF WholeReceipts = {} THEN own = checkins[b].cash ELSE own <= checkins[b].cash

\* Bookings whose hold was resolved beside the command that now commits, and those
\* resolved after it had counted the cash.
Joined == {p[1] : p \in resolved}

JoinedLate == {p[1] : p \in {q \in resolved : q[2] = "complete"}}

\* When a trip is completed, the cash in the ledger is the price of the bookings
\* completed for cash, and once anybody was checked in each of them was marked. The
\* code lets a payment hold be resolved beside the command: a customer who chooses
\* cash after the sum travels uncounted, one whose hold is resolved after the roll
\* call unmarked. Nobody else escapes either, whoever pays, expires or chooses cash
\* between the statements.
CashBalancesAtCompletion ==
  [][trip.status # "completed" /\ trip'.status = "completed" =>
       LET travelled == {b \in Bookings : Is(b, "confirmed")
                                            /\ bookings'[b].status = "completed"}
       IN  /\ Collected = Fares(bookings, (travelled \cap CashBookings) \ JoinedLate)
           /\ Checked # {} =>
                \A b \in travelled \ Joined : Marked(b, {"boarded", "absent"})]_vars

\* Somebody is on board, and so is everybody who has a seat by now: a hold that ran
\* out in the meantime has none.
EverybodyOnBoard ==
  /\ \A b \in Active : Marked(b, {"boarded"})
  /\ \E b \in Bookings : bookings[b].seats > 0 /\ Marked(b, {"boarded"})

\* A trip leaves before its time only with everybody on board, or with an approval
\* since which neither the plan nor a booking has changed, not even to and fro, but
\* for holds resolved while the departure was being recorded: those are of bookings
\* that the approval knew to await their payment.
EarlyDepartureAuthorised ==
  [][TripPhase(trip.status) \in {"planned", "assigned"}
     /\ trip'.status = "in_progress" /\ clock < trip.starts =>
       \/ EverybodyOnBoard
       \/ /\ trip.approval # NoApproval /\ ~altered
          /\ \A b \in Joined : trip.approval.rows[b][2] = "awaiting_payment"]_vars

-----------------------------------------------------------------------------
(***************************************************************************)
(* The inductive invariant behind the two action properties.               *)
(***************************************************************************)

\* Holds are noted while a command runs, late ones while its cash is counted.
HistoryKept ==
  /\ command = Free => resolved = {}
  /\ command.op # "complete" => JoinedLate = {}

\* An approval is never ahead of the rows, and whatever changed after it left a
\* trace in the key: a later revision, a later version, or a booking that was new.
Unchanged(approval, b) ==
  /\ approval.rows[b][3] = bookings[b].version
  /\ (approval.rows[b][2] = "none" => bookings[b].status = "none")

ApprovalTraced ==
  trip.approval # NoApproval =>
    /\ trip.approval.revision <= trip.revision
    /\ \A b \in Bookings :
         /\ trip.approval.rows[b][3] <= bookings[b].version
         /\ (trip.approval.rows[b][2] # "none" => bookings[b].status # "none")
    /\ altered => \/ trip.approval.revision < trip.revision
                  \/ \E b \in Bookings : ~Unchanged(trip.approval, b)
    /\ \A b \in Joined : ~Unchanged(trip.approval, b)

\* What a command found stays true until it commits, but for the holds resolved
\* beside it.
DepartureChecked ==
  command.op = "depart" /\ BeforeDeparture =>
    \/ EverybodyOnBoard
    \/ /\ trip.approval # NoApproval /\ ~altered
       /\ \A b \in Bookings : trip.approval.rows[b][2] =
            IF b \in Joined THEN "awaiting_payment" ELSE bookings[b].status

RollCalled ==
  command.op \in {"count", "complete"} /\ Checked # {} =>
    \A b \in Bookings \ Joined :
      Is(b, "confirmed") => Marked(b, {"boarded", "absent"})

CashCounted ==
  command.op = "complete" =>
    Collected = Fares(bookings, CashBookings \ (command.absent \cup JoinedLate))

\* An entry of a booking was for a total that its check-in shows or has passed, so
\* that a new entry is never one that the ledger has; who was not checked in paid
\* nothing.
CashTraced ==
  /\ IsFiniteSet(ledger)
  /\ \A r \in ledger : {r.target, r.amount} \subseteq Nat
  /\ \A r \in ledger, b \in Bookings : r.source = b => r.target <= checkins[b].cash
  /\ \A b \in Bookings : ~checkins[b].exists => checkins[b].cash = 0
  /\ command.op = "receipt" => command.amount \in Nat

LifecycleInvariant ==
  /\ TypeOK
  /\ HistoryKept
  /\ ApprovalTraced
  /\ DepartureChecked
  /\ RollCalled
  /\ CashCounted
  /\ CashTraced
=============================================================================
