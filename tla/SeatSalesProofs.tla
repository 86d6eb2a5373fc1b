--------------------------- MODULE SeatSalesProofs ---------------------------
(***************************************************************************)
(* Theorems of SeatSales for any number of sessions, bookings, customers,  *)
(* request keys and seats.                                                 *)
(*   TypeCorrect        every reachable state is well formed;              *)
(*   NeverOversold      the seats that were counted never exceed the       *)
(*                      capacity: only revived bookings overbook a trip;   *)
(*   RowsStaySound      every row image that waits for its commit follows  *)
(*                      from the committed row, which is not over;         *)
(*   TerminalStaysFinal so a booking that is over never changes again;     *)
(*   KeysBookOnce       a request key never books twice;                   *)
(*   PaymentsConfirm    a paid transfer belongs to a confirmed booking,    *)
(*                      unless staff set it an unpaid status by hand;      *)
(*   NoLateConfirmations, OneBookingPerCustomer and                        *)
(*   SalesImplementAllocator  what the sale of a trip promises as a whole. *)
(* None assumes anything of the order of commits or of what staff do by    *)
(* hand: the history variables lapsed, revived and setBack say exactly     *)
(* what the code leaves open.                                              *)
(* The seats rest on SeatInvariant: what a transaction has staged still    *)
(* fits when it commits, because it holds the trip's row lock or gives no  *)
(* counted row a seat more.  The rest goes through four lemmas that say    *)
(* once what each group of handlers stages (SaleStages, ChangeStages,      *)
(* LineStages, TripStages).                                                *)
(***************************************************************************)
EXTENDS SeatSales, FiniteSetTheorems, TLAPS

-----------------------------------------------------------------------------
\* Counting seats.

\* The seats of any rows at any time form a finite set.
LEMMA HeldFinite ==
  ASSUME NEW rows, NEW t
  PROVE  /\ IsFiniteSet(SeatsHeld(rows, t))
         /\ Cardinality(SeatsHeld(rows, t)) \in Nat
<1>1. IsFiniteSet(1..MaxSeats)
  BY SalesAssumption, FS_Interval
<1>2. IsFiniteSet(Bookings \X (1..MaxSeats))
  BY <1>1, SalesAssumption, FS_Product
<1>3. SeatsHeld(rows, t) \subseteq Bookings \X (1..MaxSeats)
  BY DEF SeatsHeld
<1> QED
  BY <1>2, <1>3, FS_Subset, FS_CardinalityType

\* So do the seats that the trip's own handlers count.
LEMMA HeldOrTravelledFinite ==
  ASSUME NEW rows, NEW t
  PROVE  /\ IsFiniteSet(SeatsHeldOrTravelled(rows, t))
         /\ Cardinality(SeatsHeldOrTravelled(rows, t)) \in Nat
<1>1. IsFiniteSet(1..MaxSeats)
  BY SalesAssumption, FS_Interval
<1>2. IsFiniteSet(Bookings \X (1..MaxSeats))
  BY <1>1, SalesAssumption, FS_Product
<1>3. SeatsHeldOrTravelled(rows, t) \subseteq Bookings \X (1..MaxSeats)
  BY DEF SeatsHeldOrTravelled
<1> QED
  BY <1>2, <1>3, FS_Subset, FS_CardinalityType

\* Row r holds at t1 no seat that row s does not hold at t2.
NoMore(r, t1, s, t2) ==
  Occupies(r, t1) => Occupies(s, t2) /\ r.seats = s.seats

\* If no row gains a seat, the seats held do not grow.
LEMMA HeldMonotone ==
  ASSUME NEW r, NEW t1, NEW s, NEW t2,
         \A b \in Bookings : NoMore(r[b], t1, s[b], t2)
  PROVE  Cardinality(SeatsHeld(r, t1)) <= Cardinality(SeatsHeld(s, t2))
<1>1. SeatsHeld(r, t1) \subseteq SeatsHeld(s, t2)
  BY DEF SeatsHeld, NoMore
<1> QED
  BY <1>1, HeldFinite, FS_Subset

\* The seats of some bookings are among the seats held.
LEMMA SomeHeld ==
  ASSUME NEW S, NEW rows, NEW t
  PROVE  /\ IsFiniteSet(SeatsOf(S, rows, t))
         /\ Cardinality(SeatsOf(S, rows, t)) \in Nat
         /\ Cardinality(SeatsOf(S, rows, t)) <= Cardinality(SeatsHeld(rows, t))
<1>1. SeatsOf(S, rows, t) \subseteq SeatsHeld(rows, t)
  BY DEF SeatsOf
<1> QED
  BY <1>1, HeldFinite, FS_Subset, FS_CardinalityType

\* If no booking of S gains a seat over its row among those of T, the seats of S are
\* no more than those of T.
LEMMA SomeMonotone ==
  ASSUME NEW S, NEW r, NEW t1, NEW T, NEW s, NEW t2,
         \A b \in S \cap Bookings : Occupies(r[b], t1) =>
           b \in T /\ Occupies(s[b], t2) /\ r[b].seats = s[b].seats
  PROVE  Cardinality(SeatsOf(S, r, t1)) <= Cardinality(SeatsOf(T, s, t2))
<1>1. SeatsOf(S, r, t1) \subseteq SeatsOf(T, s, t2)
  BY DEF SeatsOf, SeatsHeld
<1> QED
  BY <1>1, SomeHeld, FS_Subset

\* A new booking of n seats adds at most n.
LEMMA HeldAfterSale ==
  ASSUME NEW r, NEW t1, NEW s, NEW t2,
         NEW b \in Bookings, NEW n \in 1..MaxSeats,
         r[b].seats = n,
         \A d \in Bookings \ {b} : NoMore(r[d], t1, s[d], t2)
  PROVE  Cardinality(SeatsHeld(r, t1)) <= Cardinality(SeatsHeld(s, t2)) + n
<1> DEFINE New == {b} \X (1..n)
<1>1. /\ IsFiniteSet({b}) /\ Cardinality({b}) = 1
  BY FS_Singleton
<1>2. n \in Nat /\ n >= 1
  BY SalesAssumption
<1>3. /\ IsFiniteSet(1..n) /\ Cardinality(1..n) = n
  BY <1>2, FS_Interval
<1>4. /\ IsFiniteSet(New) /\ Cardinality(New) = n
  <2>1. IsFiniteSet(New) /\ Cardinality(New) = Cardinality({b}) * Cardinality(1..n)
    BY <1>1, <1>3, FS_Product, Zenon
  <2> QED
    BY <2>1, <1>1, <1>2, <1>3
<1>5. SeatsHeld(r, t1) \subseteq SeatsHeld(s, t2) \cup New
  <2> SUFFICES ASSUME NEW p \in SeatsHeld(r, t1)
               PROVE  p \in SeatsHeld(s, t2) \cup New
    OBVIOUS
  <2>1. /\ p = <<p[1], p[2]>> /\ p[1] \in Bookings /\ p[2] \in 1..MaxSeats
        /\ Occupies(r[p[1]], t1) /\ p[2] <= r[p[1]].seats
    BY DEF SeatsHeld
  <2>2. CASE p[1] = b
    BY <2>1, <2>2, SalesAssumption
  <2>3. CASE p[1] # b
    BY <2>1, <2>3 DEF SeatsHeld, NoMore
  <2> QED
    BY <2>2, <2>3
<1>6. /\ IsFiniteSet(SeatsHeld(s, t2) \cup New)
      /\ Cardinality(SeatsHeld(s, t2) \cup New)
           = Cardinality(SeatsHeld(s, t2)) + n - Cardinality(SeatsHeld(s, t2) \cap New)
  <2> DEFINE H == SeatsHeld(s, t2)
  <2>1. /\ IsFiniteSet(H \cup New)
        /\ Cardinality(H \cup New) = Cardinality(H) + Cardinality(New) - Cardinality(H \cap New)
    BY <1>4, HeldFinite, FS_Union, Zenon
  <2> QED
    BY <2>1, <1>4
<1>7. Cardinality(SeatsHeld(s, t2) \cap New) \in Nat
  BY <1>4, FS_Intersection, FS_CardinalityType
<1>8. Cardinality(SeatsHeld(r, t1)) <= Cardinality(SeatsHeld(s, t2) \cup New)
  BY <1>5, <1>6, FS_Subset
<1> QED
  BY <1>2, <1>6, <1>7, <1>8, HeldFinite

\* One more seat in a booking adds at most one.
LEMMA HeldAfterSeat ==
  ASSUME NEW r, NEW s, NEW t1, NEW t2, NEW b \in Bookings,
         s[b].seats \in Nat, r[b].seats = s[b].seats + 1,
         Occupies(r[b], t1) => Occupies(s[b], t2),
         \A d \in Bookings \ {b} : NoMore(r[d], t1, s[d], t2)
  PROVE  Cardinality(SeatsHeld(r, t1)) <= Cardinality(SeatsHeld(s, t2)) + 1
<1> DEFINE seat == <<b, r[b].seats>>
<1>1. SeatsHeld(r, t1) \subseteq SeatsHeld(s, t2) \cup {seat}
  <2> SUFFICES ASSUME NEW p \in SeatsHeld(r, t1)
               PROVE  p \in SeatsHeld(s, t2) \cup {seat}
    OBVIOUS
  <2>1. /\ p = <<p[1], p[2]>> /\ p[1] \in Bookings /\ p[2] \in 1..MaxSeats
        /\ Occupies(r[p[1]], t1) /\ p[2] <= r[p[1]].seats
    BY DEF SeatsHeld
  <2>2. CASE p[1] = b
    <3>1. CASE p[2] = r[b].seats
      BY <2>1, <2>2, <3>1
    <3>2. CASE p[2] # r[b].seats
      <4>1. p[2] <= s[b].seats
        BY <2>1, <2>2, <3>2, SalesAssumption
      <4> QED
        BY <2>1, <2>2, <4>1 DEF SeatsHeld
    <3> QED
      BY <3>1, <3>2
  <2>3. CASE p[1] # b
    BY <2>1, <2>3 DEF SeatsHeld, NoMore
  <2> QED
    BY <2>2, <2>3
<1>2. /\ IsFiniteSet(SeatsHeld(s, t2) \cup {seat})
      /\ Cardinality(SeatsHeld(s, t2) \cup {seat}) <= Cardinality(SeatsHeld(s, t2)) + 1
  <2> DEFINE H == SeatsHeld(s, t2)
  <2>1. /\ IsFiniteSet(H \cup {seat})
        /\ Cardinality(H \cup {seat})
             = IF seat \in H THEN Cardinality(H) ELSE Cardinality(H) + 1
    BY HeldFinite, FS_AddElement, Zenon
  <2>2. Cardinality(H) \in Nat
    BY HeldFinite
  <2> QED
    BY <2>1, <2>2
<1>3. Cardinality(SeatsHeld(r, t1)) <= Cardinality(SeatsHeld(s, t2) \cup {seat})
  BY <1>1, <1>2, FS_Subset
<1> QED
  BY <1>2, <1>3, HeldFinite, FS_CardinalityType

-----------------------------------------------------------------------------
\* Type correctness.

\* Statuses and rows that the handlers write.
LEMMA EmptyTyped == EmptyRow \in BookingRow /\ BlankTrip \in TripRow
BY SalesAssumption DEF EmptyRow, BookingRow, BlankTrip, TripRow, PaymentStatus,
   PaymentMethod, BookingStatus, TripStatus, NoHold

\* A session with no open transaction is well formed.
LEMMA IdleTyped == WellFormed(Idle) /\ Idle.now = 0
<1>1. NoWrites \in [{} -> BookingRow]
  BY DEF NoWrites
<1>2. Idle \in Transaction({})
  BY <1>1, EmptyTyped, SalesAssumption DEF Idle, Transaction
<1>3. Idle.locks = {} /\ Idle.pc = "idle" /\ Idle.op = "none" /\ Idle.now = 0
  BY DEF Idle
<1> QED
  BY <1>2, <1>3 DEF WellFormed, BookingChanges

\* A step of one session keeps the types when its new record is well formed.
LEMMA TypeOfOneSession ==
  ASSUME TypeOK, NEW c \in Clients, NEW r,
         UNCHANGED <<clock, trip, bookings, requests, history>>,
         tx' = [tx EXCEPT ![c] = r],
         WellFormed(r), r.now <= clock
  PROVE  TypeOK'
<1>1. tx' = [d \in Clients |-> tx'[d]]
  BY DEF TypeOK
<1>2. \A d \in Clients : tx'[d] = IF d = c THEN r ELSE tx[d]
  BY DEF TypeOK
<1>3. \A d \in Clients : WellFormed(tx'[d]) /\ tx'[d].now <= clock'
  BY <1>2 DEF TypeOK
<1> QED
  BY <1>1, <1>3 DEF TypeOK, history

\* Fields of a well-formed transaction.
LEMMA TransactionFields ==
  ASSUME TypeOK, NEW c \in Clients
  PROVE  /\ tx[c].now \in Nat /\ tx[c].now <= clock
         /\ tx[c].booking \in Bookings \cup {None}
         /\ tx[c].key \in Keys \cup {None}
         /\ tx[c].seen \in 0..MaxSeats
         /\ tx[c].locks \in SUBSET Bookings
         /\ tx[c].hasTrip \in BOOLEAN
         /\ tx[c].trip \in TripRow
         /\ DOMAIN tx[c].writes \subseteq tx[c].locks
         /\ tx[c].writes \in [DOMAIN tx[c].writes -> BookingRow]
         /\ tx[c].op \in AllOps \cup {"none"}
         /\ tx[c].op \in BookingChanges =>
              tx[c].booking \in Bookings /\ Locked(c) \in BookingRow
<1>1. PICK S \in SUBSET tx[c].locks : tx[c] \in Transaction(S)
  BY DEF TypeOK, WellFormed
<1>2. tx[c].writes \in [S -> BookingRow] /\ DOMAIN tx[c].writes = S
  BY <1>1 DEF Transaction
<1>3. tx[c].op \in BookingChanges =>
        tx[c].booking \in Bookings /\ Locked(c) \in BookingRow
  BY DEF TypeOK, WellFormed, Locked
<1> QED
  BY <1>1, <1>2, <1>3 DEF TypeOK, Transaction

\* Every decision stages its row images in the same way.
LEMMA TypeOfStage ==
  ASSUME TypeOK, NEW c \in Clients,
         NEW b \in Bookings \cup {None}, NEW t \in TripRow,
         NEW S \in SUBSET Bookings, NEW w \in [S -> BookingRow],
         tx[c].op \in BookingChanges => b \in Bookings,
         Stage(c, b, t, w)
  PROVE  TypeOK'
<1> DEFINE r == [tx[c] EXCEPT !.pc = "staged", !.booking = b, !.trip = t,
                              !.writes = w, !.locks = @ \cup S]
<1>1. DOMAIN w = S
  OBVIOUS
<1>2. tx' = [tx EXCEPT ![c] = r] /\ UNCHANGED <<clock, trip, bookings, requests, history>>
  BY <1>1 DEF Stage, TypeOK
<1>3. PICK R \in SUBSET tx[c].locks : tx[c] \in Transaction(R)
  BY DEF TypeOK, WellFormed
<1>4. r \in Transaction(S)
  BY <1>3 DEF Transaction
<1>5. /\ r.locks = tx[c].locks \cup S /\ r.pc = "staged" /\ r.op = tx[c].op
      /\ r.booking = b /\ r.now = tx[c].now
  BY <1>3 DEF Transaction
<1>6. WellFormed(r)
  BY <1>4, <1>5 DEF WellFormed
<1> HIDE DEF r
<1> QED
  BY <1>2, <1>5, <1>6, TypeOfOneSession, TransactionFields

\* Beginning and locking.
LEMMA TypeOfOpen ==
  ASSUME TypeOK, NEW c \in Clients, NEW op \in AllOps,
         NEW b \in Bookings \cup {None}, NEW k \in Keys \cup {None},
         NEW n \in 0..MaxSeats,
         op \in BookingChanges => b \in Bookings,
         Open(c, op, b, k, n)
  PROVE  TypeOK'
<1> DEFINE r == [Idle EXCEPT !.pc = FirstLock(op), !.op = op, !.now = clock,
                             !.booking = b, !.key = k, !.seen = n]
<1>1. clock \in Nat
  BY SalesAssumption DEF TypeOK
<1>2. /\ FirstLock(op) \in {"idle", "key", "due", "trip", "booking", "decide", "staged"}
      /\ FirstLock(op) = "booking" => op \in BookingChanges
  BY DEF FirstLock, AllOps, BookingChanges
<1>3. NoWrites \in [{} -> BookingRow]
  BY DEF NoWrites
<1>4. r \in Transaction({}) /\ r.locks = {} /\ r.now = clock
      /\ r.pc = FirstLock(op) /\ r.op = op /\ r.booking = b
  BY <1>1, <1>2, <1>3, EmptyTyped DEF Idle, Transaction
<1>5. WellFormed(r)
  BY <1>2, <1>4 DEF WellFormed
<1>6. r.now <= clock
  BY <1>1, <1>4
<1>7. tx' = [tx EXCEPT ![c] = r] /\ UNCHANGED <<clock, trip, bookings, requests, history>>
  BY DEF Open
<1> HIDE DEF r
<1> QED
  BY <1>5, <1>6, <1>7, TypeOfOneSession

\* Every handler begins with a known operation and, when it changes a booking, its row.
LEMMA TypeOfBegin ==
  ASSUME TypeOK, NEW c \in Clients,
         BeginSale(c) \/ BeginBookingChange(c) \/ BeginTripChange(c)
  PROVE  TypeOK'
<1>1. 0 \in 0..MaxSeats
  BY SalesAssumption
<1>2. CASE BeginSale(c)
  <2>1. CASE \E op \in {"botCreateBooking", "createBooking"} : Open(c, op, None, None, 0)
    BY <1>1, <2>1, TypeOfOpen DEF AllOps, BookingChanges
  <2>2. CASE \E k \in Keys : Open(c, "publicCreateBooking", None, k, 0)
    BY <1>1, <2>2, TypeOfOpen DEF AllOps, BookingChanges
  <2> QED
    BY <1>2, <2>1, <2>2 DEF BeginSale
<1>3. CASE BeginBookingChange(c)
  <2>1. PICK b \in Bookings :
          \/ \E op \in BookingChanges : Open(c, op, b, None, 0)
          \/ Open(c, "bookingPassengers", b, None, bookings[b].seats)
    BY <1>3 DEF BeginBookingChange, BookingChanges
  <2>2. bookings[b].seats \in 0..MaxSeats
    BY DEF TypeOK, BookingRow
  <2>3. /\ BookingChanges \subseteq AllOps /\ "bookingPassengers" \in AllOps
        /\ "publicCreateBooking" \notin BookingChanges
    BY DEF BookingChanges, AllOps
  <2>4. CASE \E op \in BookingChanges : Open(c, op, b, None, 0)
    <3>1. PICK op \in BookingChanges : Open(c, op, b, None, 0)
      BY <2>4
    <3> QED
      BY <1>1, <2>3, <3>1, TypeOfOpen
  <2>5. CASE Open(c, "bookingPassengers", b, None, bookings[b].seats)
    BY <2>2, <2>3, <2>5, TypeOfOpen
  <2> QED
    BY <2>1, <2>4, <2>5
<1>4. CASE BeginTripChange(c)
  BY <1>1, <1>4, TypeOfOpen DEF BeginTripChange, AllOps, BookingChanges
<1> QED
  BY <1>2, <1>3, <1>4

\* An expired row is a row.
LEMMA DueTyped ==
  ASSUME TypeOK, NEW b \in Bookings
  PROVE  /\ Expired(bookings[b]) \in BookingRow
         /\ Expired(CancelPayment(bookings[b])) \in BookingRow
<1>1. bookings[b] \in BookingRow
  BY DEF TypeOK
<1>2. "expired" \in BookingStatus /\ "cancelled" \in PaymentStatus
  BY DEF BookingStatus, PaymentStatus
<1> QED
  BY <1>1, <1>2 DEF Expired, CancelPayment, BookingRow

\* Taking a lock keeps the types.
LEMMA TypeOfLock ==
  ASSUME TypeOK, NEW c \in Clients,
         LockTrip(c) \/ LockBooking(c) \/ LockKey(c) \/ LockDueRows(c)
  PROVE  TypeOK'
<1> DEFINE next(lock) == LockAfter(tx[c].op, lock)
<1>1. PICK S \in SUBSET tx[c].locks : tx[c] \in Transaction(S)
  BY DEF TypeOK, WellFormed
<1>2. /\ tx[c].pc = "booking" => tx[c].op \in BookingChanges
      /\ tx[c].op \in BookingChanges => tx[c].booking \in Bookings
  BY DEF TypeOK, WellFormed
<1>3. \A lock \in {"key", "due", "trip", "booking"} :
        /\ next(lock) \in {"trip", "booking", "decide"}
        /\ next(lock) = "booking" => tx[c].op \in BookingChanges
  BY DEF LockAfter, BookingChanges
<1>4. trip \in TripRow
  BY DEF TypeOK
<1>5. CASE LockTrip(c)
  <2> DEFINE r == [tx[c] EXCEPT !.hasTrip = TRUE, !.trip = trip, !.pc = next("trip")]
  <2>1. tx' = [tx EXCEPT ![c] = r] /\ UNCHANGED <<clock, trip, bookings, requests, history>>
    BY <1>5 DEF LockTrip, TypeOK
  <2>2. r \in Transaction(S) /\ r.locks = tx[c].locks /\ r.now = tx[c].now
        /\ r.op = tx[c].op /\ r.booking = tx[c].booking /\ r.pc = next("trip")
    BY <1>1, <1>3, <1>4 DEF Transaction
  <2>3. WellFormed(r)
    BY <1>2, <1>3, <2>2 DEF WellFormed
  <2> HIDE DEF r
  <2> QED
    BY <2>1, <2>2, <2>3, TypeOfOneSession, TransactionFields
<1>6. CASE LockBooking(c)
  <2> DEFINE r == [tx[c] EXCEPT !.locks = @ \cup {tx[c].booking}, !.pc = next("booking")]
  <2>1. tx' = [tx EXCEPT ![c] = r] /\ UNCHANGED <<clock, trip, bookings, requests, history>>
    BY <1>6 DEF LockBooking, TypeOK
  <2>2. tx[c].booking \in Bookings
    BY <1>2, <1>6 DEF LockBooking
  <2>3. r \in Transaction(S) /\ r.locks = tx[c].locks \cup {tx[c].booking}
        /\ r.now = tx[c].now
        /\ r.op = tx[c].op /\ r.booking = tx[c].booking /\ r.pc = next("booking")
    BY <1>1, <1>3, <2>2 DEF Transaction
  <2>4. WellFormed(r)
    BY <1>2, <1>3, <2>3 DEF WellFormed
  <2> HIDE DEF r
  <2> QED
    BY <2>1, <2>3, <2>4, TypeOfOneSession, TransactionFields
<1>7. CASE LockKey(c)
  <2> DEFINE r == [tx[c] EXCEPT !.pc = next("key")]
  <2>1. tx' = [tx EXCEPT ![c] = r] /\ UNCHANGED <<clock, trip, bookings, requests, history>>
    BY <1>7 DEF LockKey, TypeOK
  <2>2. r \in Transaction(S) /\ r.locks = tx[c].locks /\ r.now = tx[c].now
        /\ r.op = tx[c].op /\ r.booking = tx[c].booking /\ r.pc = next("key")
    BY <1>1, <1>3 DEF Transaction
  <2>3. WellFormed(r)
    BY <1>2, <1>3, <2>2 DEF WellFormed
  <2> HIDE DEF r
  <2> QED
    BY <2>1, <2>2, <2>3, TypeOfOneSession, TransactionFields
<1>8. CASE LockDueRows(c)
  <2> DEFINE due == DueRows(tx[c].now)
             w == [b \in due |-> Expired(CancelPayment(bookings[b]))]
             r == [tx[c] EXCEPT !.locks = @ \cup due, !.writes = w, !.pc = next("due")]
  <2>1. tx' = [tx EXCEPT ![c] = r] /\ UNCHANGED <<clock, trip, bookings, requests, history>>
    BY <1>8 DEF LockDueRows, TypeOK
  <2>2. due \in SUBSET Bookings
    BY DEF DueRows
  <2>3. w \in [due -> BookingRow]
    BY <2>2, DueTyped
  <2> HIDE DEF w, due
  <2>4. r \in Transaction(due) /\ r.locks = tx[c].locks \cup due /\ r.now = tx[c].now
        /\ r.op = tx[c].op /\ r.booking = tx[c].booking /\ r.pc = next("due")
    BY <1>1, <1>3, <2>2, <2>3 DEF Transaction
  <2>5. WellFormed(r)
    BY <1>2, <1>3, <2>4 DEF WellFormed
  <2> HIDE DEF r
  <2> QED
    BY <2>1, <2>4, <2>5, TypeOfOneSession, TransactionFields
<1> QED
  BY <1>5, <1>6, <1>7, <1>8

\* Decisions.
LEMMA TypeOfStageBooking ==
  ASSUME TypeOK, NEW c \in Clients, NEW row \in BookingRow,
         tx[c].op \in BookingChanges, StageBooking(c, row)
  PROVE  TypeOK'
<1> DEFINE b == tx[c].booking
           w == [d \in {b} |-> row]
<1>1. b \in Bookings /\ tx[c].trip \in TripRow
  BY TransactionFields
<1>2. {b} \in SUBSET Bookings /\ w \in [{b} -> BookingRow]
  BY <1>1
<1>3. Stage(c, b, tx[c].trip, w)
  BY DEF StageBooking
<1> HIDE DEF w, b
<1> QED
  BY <1>1, <1>2, <1>3, TypeOfStage

\* The staged insert of a booking keeps the types.
LEMMA TypeOfInsert ==
  ASSUME TypeOK, NEW c \in Clients, NEW row \in BookingRow,
         NEW S \in SUBSET Bookings, NEW e \in [S -> BookingRow],
         tx[c].op \notin BookingChanges, Insert(c, row, e)
  PROVE  TypeOK'
<1>1. PICK b \in Bookings :
        Stage(c, b, tx[c].trip, [d \in S \cup {b} |-> IF d = b THEN row ELSE e[d]])
  BY DEF Insert
<1> DEFINE w == [d \in S \cup {b} |-> IF d = b THEN row ELSE e[d]]
<1>2. S \cup {b} \in SUBSET Bookings /\ w \in [S \cup {b} -> BookingRow]
  OBVIOUS
<1>3. tx[c].trip \in TripRow
  BY TransactionFields
<1>4. Stage(c, b, tx[c].trip, w)
  BY <1>1
<1> HIDE DEF w
<1> QED
  BY <1>2, <1>3, <1>4, TypeOfStage

\* The three sales channels keep the types.
LEMMA TypeOfSale ==
  ASSUME TypeOK, NEW c \in Clients,
         PublicCreateBooking(c) \/ BotCreateBooking(c) \/ CreateBooking(c)
  PROVE  TypeOK'
<1>1. /\ clock \in Nat /\ tx[c].now \in Nat /\ HoldLength \in Nat
      /\ tx[c].key \in Keys \cup {None}
  BY SalesAssumption, TransactionFields DEF TypeOK
<1>2. tx[c].op \notin BookingChanges
  BY DEF PublicCreateBooking, BotCreateBooking, CreateBooking, Deciding, BookingChanges
<1>3. \A cust \in Customers, n \in 1..MaxSeats, k \in Keys \cup {None},
         hold \in Nat \cup {NoHold}, s \in {"awaiting_payment", "cash_on_boarding"},
         p \in {"none", "pending"}, m \in PaymentMethod :
        NewRow(s, cust, n, hold, p, m, k) \in BookingRow
  BY SalesAssumption DEF NewRow, BookingRow, BookingStatus, PaymentStatus
<1>4. CASE PublicCreateBooking(c)
  <2>1. PICK cust \in Customers, n \in 1..MaxSeats, method \in {"cash", "bank_transfer"} :
          LET due == {b \in DueRows(tx[c].now) : bookings[b].customer = cust}
              row == IF method = "bank_transfer"
                     THEN NewRow("awaiting_payment", cust, n, clock + HoldLength,
                                 "pending", "bank_transfer", tx[c].key)
                     ELSE NewRow("cash_on_boarding", cust, n, NoHold,
                                 "none", "none", tx[c].key)
          IN  Insert(c, row, [b \in due |-> Expired(bookings[b])])
    BY <1>4 DEF PublicCreateBooking
  <2> DEFINE due == {b \in DueRows(tx[c].now) : bookings[b].customer = cust}
             e == [b \in due |-> Expired(bookings[b])]
             row == IF method = "bank_transfer"
                    THEN NewRow("awaiting_payment", cust, n, clock + HoldLength,
                                "pending", "bank_transfer", tx[c].key)
                    ELSE NewRow("cash_on_boarding", cust, n, NoHold,
                                "none", "none", tx[c].key)
  <2>2. due \in SUBSET Bookings
    BY DEF DueRows
  <2>3. e \in [due -> BookingRow]
    BY <2>2, DueTyped
  <2>4. row \in BookingRow
    <3>1. /\ clock + HoldLength \in Nat
          /\ "none" \in PaymentMethod /\ "bank_transfer" \in PaymentMethod
      BY <1>1 DEF PaymentMethod
    <3> QED
      BY <1>1, <1>3, <3>1
  <2>5. Insert(c, row, e)
    BY <2>1
  <2> HIDE DEF row, due, e
  <2> QED
    BY <1>2, <2>2, <2>3, <2>4, <2>5, TypeOfInsert
<1>5. CASE BotCreateBooking(c)
  <2>1. PICK cust \in Customers, n \in 1..MaxSeats :
          Insert(c, NewRow("awaiting_payment", cust, n, tx[c].now + HoldLength,
                           "pending", "none", None), tx[c].writes)
    BY <1>5 DEF BotCreateBooking
  <2> DEFINE row == NewRow("awaiting_payment", cust, n, tx[c].now + HoldLength,
                           "pending", "none", None)
  <2>2. row \in BookingRow
    <3>1. tx[c].now + HoldLength \in Nat /\ "none" \in PaymentMethod
      BY <1>1 DEF PaymentMethod
    <3> QED
      BY <1>3, <3>1
  <2>3. DOMAIN tx[c].writes \in SUBSET Bookings
        /\ tx[c].writes \in [DOMAIN tx[c].writes -> BookingRow]
    BY TransactionFields
  <2>4. Insert(c, row, tx[c].writes)
    BY <2>1
  <2> HIDE DEF row
  <2> QED
    BY <1>2, <2>2, <2>3, <2>4, TypeOfInsert
<1>6. CASE CreateBooking(c)
  <2>1. PICK cust \in Customers, n \in 1..MaxSeats :
          Insert(c, NewRow("cash_on_boarding", cust, n, NoHold, "none", "none", None), NoWrites)
    BY <1>6 DEF CreateBooking
  <2> DEFINE row == NewRow("cash_on_boarding", cust, n, NoHold, "none", "none", None)
  <2>2. row \in BookingRow
    BY <1>3 DEF PaymentMethod
  <2>3. {} \in SUBSET Bookings /\ NoWrites \in [{} -> BookingRow]
    BY DEF NoWrites
  <2>4. Insert(c, row, NoWrites)
    BY <2>1
  <2> HIDE DEF row
  <2> QED
    BY <1>2, <2>2, <2>3, <2>4, TypeOfInsert
<1> QED
  BY <1>4, <1>5, <1>6

\* A row keeps its type under the changes that the handlers make.
LEMMA ChangeTyped ==
  ASSUME NEW row \in BookingRow
  PROVE  /\ \A s \in BookingStatus : [row EXCEPT !.status = s] \in BookingRow
         /\ \A s \in BookingStatus :
              [CancelPayment(row) EXCEPT !.status = s, !.hold = NoHold] \in BookingRow
         /\ Confirmed(row) \in BookingRow
         /\ [row EXCEPT !.status = "cash_on_boarding", !.hold = NoHold,
                        !.method = "cash"] \in BookingRow
         /\ [row EXCEPT !.method = "bank_transfer"] \in BookingRow
         /\ row.seats < MaxSeats => [row EXCEPT !.seats = @ + 1] \in BookingRow
<1>1. /\ {"confirmed", "cash_on_boarding"} \subseteq BookingStatus
      /\ {"paid", "cancelled"} \subseteq PaymentStatus
      /\ {"cash", "bank_transfer"} \subseteq PaymentMethod
  BY DEF BookingStatus, PaymentStatus, PaymentMethod
<1>2. row.seats < MaxSeats => row.seats + 1 \in 0..MaxSeats
  BY SalesAssumption DEF BookingRow
<1>3. CancelPayment(row) \in BookingRow
  BY <1>1 DEF BookingRow, CancelPayment
<1>4. \A r \in BookingRow, s \in BookingStatus :
        /\ [r EXCEPT !.status = s] \in BookingRow
        /\ [r EXCEPT !.status = s, !.hold = NoHold] \in BookingRow
  BY DEF BookingRow
<1>5. Confirmed(row) \in BookingRow
  BY <1>1 DEF BookingRow, Confirmed
<1>6. [row EXCEPT !.status = "cash_on_boarding", !.hold = NoHold,
                  !.method = "cash"] \in BookingRow
  BY <1>1 DEF BookingRow
<1>7. [row EXCEPT !.method = "bank_transfer"] \in BookingRow
  BY <1>1 DEF BookingRow
<1>8. row.seats < MaxSeats => [row EXCEPT !.seats = @ + 1] \in BookingRow
  BY <1>2 DEF BookingRow
<1> QED
  BY <1>3, <1>4, <1>5, <1>6, <1>7, <1>8

\* A line of a statement is staged next to the lines before it.
LEMMA TypeOfLine ==
  ASSUME TypeOK, NEW c \in Clients, MatchBankPayment(c)
  PROVE  TypeOK'
<1> DEFINE b == tx[c].booking
           W == DOMAIN tx[c].writes
           row == Confirmed(Locked(c))
           w == [d \in W \cup {b} |-> IF d = b THEN row ELSE tx[c].writes[d]]
<1>1. tx[c].op \in BookingChanges
  BY DEF MatchBankPayment, Deciding, BookingChanges
<1>2. b \in Bookings /\ tx[c].trip \in TripRow /\ Locked(c) \in BookingRow
  BY <1>1, TransactionFields
<1>3. W \in SUBSET Bookings /\ tx[c].writes \in [W -> BookingRow]
  BY TransactionFields
<1>4. CASE Stage(c, b, tx[c].trip, tx[c].writes)
  BY <1>2, <1>3, <1>4, TypeOfStage
<1>5. CASE StageLine(c, row)
  <2>1. row \in BookingRow
    BY <1>2, ChangeTyped
  <2>2. W \cup {b} \in SUBSET Bookings /\ w \in [W \cup {b} -> BookingRow]
    BY <1>2, <1>3, <2>1
  <2>3. Stage(c, b, tx[c].trip, w)
    BY <1>5 DEF StageLine
  <2> HIDE DEF w, W, b
  <2> QED
    BY <1>2, <2>2, <2>3, TypeOfStage DEF b
<1> QED
  BY <1>4, <1>5 DEF MatchBankPayment

\* The handlers that change one booking keep the types.
LEMMA TypeOfBookingChange ==
  ASSUME TypeOK, NEW c \in Clients,
         \/ UpdateBooking(c) \/ CancelTelegramBooking(c) \/ AddPassenger(c)
         \/ ConfirmBookingPayment(c) \/ MatchBankPayment(c)
         \/ ChooseCashBooking(c) \/ SetTelegramPaymentMethod(c)
  PROVE  TypeOK'
<1>1. tx[c].op \in BookingChanges
  BY DEF UpdateBooking, CancelTelegramBooking, AddPassenger, ConfirmBookingPayment,
         MatchBankPayment, ChooseCashBooking, SetTelegramPaymentMethod, Deciding,
         BookingChanges
<1>2. Locked(c) \in BookingRow
  BY <1>1, TransactionFields
<1>3. CASE UpdateBooking(c)
  BY <1>1, <1>2, <1>3, ChangeTyped, TypeOfStageBooking DEF UpdateBooking
<1>4. CASE CancelTelegramBooking(c)
  <2>1. "cancelled" \in BookingStatus
    BY DEF BookingStatus
  <2> QED
    BY <1>1, <1>2, <1>4, <2>1, ChangeTyped, TypeOfStageBooking DEF CancelTelegramBooking
<1>5. CASE AddPassenger(c)
  BY <1>1, <1>2, <1>5, ChangeTyped, TypeOfStageBooking DEF AddPassenger
<1>6. CASE ConfirmBookingPayment(c)
  BY <1>1, <1>2, <1>6, ChangeTyped, TypeOfStageBooking DEF ConfirmBookingPayment
<1>8. CASE MatchBankPayment(c)
  BY <1>8, TypeOfLine
<1>7. CASE ChooseCashBooking(c) \/ SetTelegramPaymentMethod(c)
  BY <1>1, <1>2, <1>7, ChangeTyped, TypeOfStageBooking
     DEF ChooseCashBooking, SetTelegramPaymentMethod
<1> QED
  BY <1>3, <1>4, <1>5, <1>6, <1>7, <1>8

\* The handlers that change the trip keep the types.
LEMMA TypeOfTripChange ==
  ASSUME TypeOK, NEW c \in Clients, UpdateTrip(c) \/ ChangeTripStatus(c)
  PROVE  TypeOK'
<1>1. tx[c].op \notin BookingChanges /\ tx[c].trip \in TripRow
  BY TransactionFields DEF UpdateTrip, ChangeTripStatus, Deciding, BookingChanges
<1>2. {} \in SUBSET Bookings /\ NoWrites \in [{} -> BookingRow]
  BY DEF NoWrites
<1>3. CASE UpdateTrip(c)
  <2>1. PICK n \in 1..VehicleCapacity, d \in Departures :
          Stage(c, None, [tx[c].trip EXCEPT !.capacity = n, !.departs = d], NoWrites)
    BY <1>3 DEF UpdateTrip
  <2>2. [tx[c].trip EXCEPT !.capacity = n, !.departs = d] \in TripRow
    <3>1. n \in 0..VehicleCapacity /\ d \in Nat
      BY SalesAssumption
    <3> QED
      BY <1>1, <3>1 DEF TripRow
  <2> QED
    BY <1>1, <1>2, <2>1, <2>2, TypeOfStage
<1>4. CASE ChangeTripStatus(c)
  <2>1. PICK s \in TripMoves :
          LET next == [tx[c].trip EXCEPT !.status = s]
          IN  \/ \E absent \in SUBSET Bookings :
                   Stage(c, None, next, CompletionWrites(c, absent))
              \/ Stage(c, None, next, NoWrites)
    BY <1>4 DEF ChangeTripStatus
  <2> DEFINE next == [tx[c].trip EXCEPT !.status = s]
  <2>2. next \in TripRow
    BY <1>1, SalesAssumption DEF TripRow
  <2>3. CASE Stage(c, None, next, NoWrites)
    BY <1>1, <1>2, <2>2, <2>3, TypeOfStage
  <2>4. CASE \E absent \in SUBSET Bookings :
               Stage(c, None, next, CompletionWrites(c, absent))
    <3>1. PICK absent \in SUBSET Bookings :
            Stage(c, None, next, CompletionWrites(c, absent))
      BY <2>4
    <3> DEFINE S == {d \in Bookings : BookingPhase(bookings[d].status) = "confirmed"}
    <3>2. \A b \in Bookings, t \in {"cancelled", "completed"} :
            [bookings[b] EXCEPT !.status = t] \in BookingRow
      BY ChangeTyped DEF TypeOK, BookingStatus
    <3>3. CompletionWrites(c, absent) \in [S -> BookingRow]
      BY <3>2 DEF CompletionWrites
    <3>4. S \in SUBSET Bookings
      OBVIOUS
    <3> HIDE DEF S
    <3> QED
      BY <1>1, <2>2, <3>1, <3>3, <3>4, TypeOfStage
  <2> QED
    BY <2>1, <2>3, <2>4
<1> QED
  BY <1>3, <1>4

\* The rows as a session sees them are rows.
LEMMA SeenTyped ==
  ASSUME TypeOK, NEW c \in Clients
  PROVE  Seen(c) \in [Bookings -> BookingRow]
BY TransactionFields DEF TypeOK, Seen

\* Commit and rollback keep the types.
LEMMA TypeOfEnd ==
  ASSUME TypeOK, NEW c \in Clients, Commit(c) \/ Rollback(c)
  PROVE  TypeOK'
<1>1. /\ clock' = clock /\ clock \in Nat
      /\ tx' = [tx EXCEPT ![c] = Idle]
  BY SalesAssumption DEF TypeOK, Commit, Rollback
<1>2. tx' = [d \in Clients |-> tx'[d]]
  BY <1>1 DEF TypeOK
<1>3. \A d \in Clients : tx'[d] = IF d = c THEN Idle ELSE tx[d]
  BY <1>1 DEF TypeOK
<1>4. \A d \in Clients : WellFormed(tx'[d]) /\ tx'[d].now <= clock'
  BY <1>1, <1>3, IdleTyped DEF TypeOK
<1>5. /\ trip' \in TripRow
      /\ bookings' \in [Bookings -> BookingRow]
      /\ requests' \in [Keys -> Bookings \cup {None}]
  <2>1. CASE Commit(c)
    BY <2>1, SeenTyped, TransactionFields DEF TypeOK, Commit
  <2>2. CASE Rollback(c)
    BY <2>2 DEF TypeOK, Rollback
  <2> QED
    BY <2>1, <2>2
<1>6. lapsed' \subseteq Bookings /\ revived' \subseteq Bookings /\ setBack' \subseteq Bookings
  <2>1. DOMAIN tx[c].writes \subseteq Bookings
    BY TransactionFields
  <2> QED
    BY <2>1 DEF TypeOK, Commit, Rollback, Uncounted, SetBackBy
<1> QED
  BY <1>1, <1>2, <1>4, <1>5, <1>6 DEF TypeOK

\* The sweeps of expired holds keep the types.
LEMMA TypeOfSweep ==
  ASSUME TypeOK, ExpireBookingHolds \/ ListBookings
  PROVE  TypeOK'
<1>1. bookings' \in [Bookings -> BookingRow]
  BY DueTyped DEF TypeOK, ExpireBookingHolds, ListBookings
<1>2. UNCHANGED <<clock, trip, requests, tx, history>>
  BY DEF ExpireBookingHolds, ListBookings
<1> QED
  BY <1>1, <1>2 DEF TypeOK, WellFormed, history

\* Time keeps the types.
LEMMA TypeOfTick ==
  ASSUME TypeOK, Tick
  PROVE  TypeOK'
<1>1. clock' \in 0..MaxTime /\ clock < clock' /\ clock \in Int
  BY SalesAssumption DEF TypeOK, Tick
<1>2. \A c \in Clients : tx[c].now \in Nat /\ tx[c].now <= clock'
  BY <1>1, TransactionFields
<1>3. UNCHANGED <<trip, bookings, requests, tx, revived, setBack>>
  BY DEF Tick
<1>4. lapsed' \subseteq Bookings
  BY DEF TypeOK, Tick, Lapsing
<1> QED
  BY <1>1, <1>2, <1>3, <1>4 DEF TypeOK, WellFormed

\* The next line of a statement keeps the types.
LEMMA TypeOfNextLine ==
  ASSUME TypeOK, NEW c \in Clients, NextLine(c)
  PROVE  TypeOK'
<1>1. PICK b \in Bookings : tx' = [tx EXCEPT ![c].pc = "booking", ![c].booking = b]
  BY DEF NextLine
<1>2. PICK S \in SUBSET tx[c].locks : tx[c] \in Transaction(S)
  BY DEF TypeOK, WellFormed
<1> DEFINE r == [tx[c] EXCEPT !.pc = "booking", !.booking = b]
<1>3. /\ tx' = [tx EXCEPT ![c] = r]
      /\ UNCHANGED <<clock, trip, bookings, requests, history>>
  BY <1>1 DEF TypeOK, NextLine
<1>4. /\ r \in Transaction(S) /\ r.locks = tx[c].locks /\ r.now = tx[c].now
      /\ r.op = "syncBank" /\ r.booking = b
  BY <1>2 DEF Transaction, NextLine
<1>5. WellFormed(r)
  BY <1>4 DEF WellFormed, BookingChanges
<1> HIDE DEF r
<1> QED
  BY <1>3, <1>4, <1>5, TypeOfOneSession, TransactionFields

\* The empty trip is well formed.
LEMMA TypeInit == Init => TypeOK
<1> SUFFICES ASSUME Init PROVE TypeOK
  OBVIOUS
<1>1. /\ clock = 0 /\ 0 \in 0..MaxTime
      /\ tx = [c \in Clients |-> Idle]
  BY SalesAssumption DEF Init
<1>2. trip \in TripRow
  BY SalesAssumption DEF Init, TripRow, TripStatus
<1>3. bookings \in [Bookings -> BookingRow]
  BY EmptyTyped DEF Init
<1>4. requests \in [Keys -> Bookings \cup {None}]
  BY DEF Init
<1>5. \A c \in Clients : tx[c] = Idle
  BY <1>1
<1>6. \A c \in Clients : WellFormed(tx[c]) /\ tx[c].now <= clock
  BY <1>1, <1>5, IdleTyped
<1>7. lapsed = {} /\ revived = {} /\ setBack = {}
  BY DEF Init
<1> QED
  BY <1>1, <1>2, <1>3, <1>4, <1>6, <1>7 DEF TypeOK

\* Type correctness is inductive.
LEMMA TypeNext == TypeOK /\ [Next]_vars => TypeOK'
<1> SUFFICES ASSUME TypeOK, [Next]_vars PROVE TypeOK'
  OBVIOUS
<1>1. CASE UNCHANGED vars
  BY <1>1 DEF vars, history, TypeOK, WellFormed
<1>2. ASSUME NEW c \in Clients,
             BeginSale(c) \/ BeginBookingChange(c) \/ BeginTripChange(c)
      PROVE  TypeOK'
  BY <1>2, TypeOfBegin
<1>3. ASSUME NEW c \in Clients,
             LockTrip(c) \/ LockBooking(c) \/ LockKey(c) \/ LockDueRows(c)
      PROVE  TypeOK'
  BY <1>3, TypeOfLock
<1>4. ASSUME NEW c \in Clients, Decide(c)
      PROVE  TypeOK'
  BY <1>4, TypeOfSale, TypeOfBookingChange, TypeOfTripChange DEF Decide
<1>5. ASSUME NEW c \in Clients, Commit(c) \/ Rollback(c)
      PROVE  TypeOK'
  BY <1>5, TypeOfEnd
<1>6. CASE ExpireBookingHolds \/ ListBookings
  BY <1>6, TypeOfSweep
<1>7. CASE Tick
  BY <1>7, TypeOfTick
<1>8. ASSUME NEW c \in Clients, NextLine(c)
      PROVE  TypeOK'
  BY <1>8, TypeOfNextLine
<1> QED
  BY <1>1, <1>2, <1>3, <1>4, <1>5, <1>6, <1>7, <1>8 DEF Next

\* Every row and every open transaction stays well formed, whatever handlers
\* run, commit or fail, in any order.
THEOREM TypeCorrect == Spec => []TypeOK
BY TypeInit, TypeNext, PTL DEF Spec

-----------------------------------------------------------------------------
\* Seats are never sold twice. First, what a single session can change.

\* A row that holds its seats held them at any earlier time too.
LEMMA OccupiesEarlier ==
  ASSUME NEW row \in BookingRow, NEW t1 \in Int, NEW t2 \in Int, t1 <= t2,
         Occupies(row, t2)
  PROVE  Occupies(row, t1)
<1>1. row.hold \in Int
  BY DEF BookingRow, NoHold
<1> QED
  BY <1>1 DEF Occupies, HoldLive

\* A step that leaves the rows alone cannot disturb the other sessions.
LEMMA SeatsOfOneSession ==
  ASSUME SeatInvariant, TypeOK', NEW c \in Clients, NEW r,
         UNCHANGED <<clock, trip, bookings, requests, history>>,
         tx' = [tx EXCEPT ![c] = r],
         Disciplined(r), ReadsTrue(r),
         \A d \in Clients \ {c} : Apart(r, tx[d]),
         StagedFit(c)'
  PROVE  SeatInvariant'
<1>1. \A d \in Clients : tx'[d] = IF d = c THEN r ELSE tx[d]
  BY DEF SeatInvariant, TypeOK
<1>2. LocksExclude'
  <2> SUFFICES ASSUME NEW a \in Clients
               PROVE  /\ Disciplined(tx'[a])
                      /\ \A d \in Clients \ {a} : Apart(tx'[a], tx'[d])
    BY DEF LocksExclude
  <2>1. Disciplined(tx'[a])
    BY <1>1 DEF SeatInvariant, LocksExclude
  <2>2. ASSUME NEW d \in Clients \ {a}
        PROVE  Apart(tx'[a], tx'[d])
    <3>1. CASE a = c
      BY <1>1, <3>1
    <3>2. CASE d = c
      <4>1. Apart(r, tx[a]) /\ tx'[a] = tx[a] /\ tx'[d] = r
        BY <1>1, <2>2, <3>2
      <4> QED
        BY <4>1 DEF Apart
    <3>3. CASE a # c /\ d # c
      BY <1>1, <2>2, <3>3 DEF SeatInvariant, LocksExclude
    <3> QED
      BY <3>1, <3>2, <3>3
  <2> QED
    BY <2>1, <2>2
<1>3. ReadsStayTrue'
  BY <1>1 DEF SeatInvariant, ReadsStayTrue, ReadsTrue
<1>4. StagedFits'
  <2> SUFFICES ASSUME NEW d \in Clients, d # c PROVE StagedFit(d)'
    BY DEF StagedFits
  <2>1. StagedFit(d)
    BY DEF SeatInvariant, StagedFits
  <2>2. tx'[d] = tx[d]
    BY <1>1
  <2>3. Seen(d)' = Seen(d) /\ Counted' = Counted
    BY <2>2 DEF Seen, Counted, history
  <2> QED
    BY <2>1, <2>2, <2>3 DEF StagedFit, WholeTripFits, NoRowGains
<1>5. NoOversell'
  BY DEF SeatInvariant, NoOversell, history
<1> QED
  BY <1>2, <1>3, <1>4, <1>5 DEF SeatInvariant

\* A session without a transaction gets in nobody's way.
LEMMA IdleApart ==
  ASSUME NEW u
  PROVE  Disciplined(Idle) /\ ReadsTrue(Idle) /\ Apart(Idle, u)
<1>1. DOMAIN NoWrites = {}
  BY DEF NoWrites
<1> QED
  BY <1>1 DEF Idle, Disciplined, ReadsTrue, Apart

\* Beginning a transaction takes no lock.
LEMMA SeatsOfOpen ==
  ASSUME SeatInvariant, TypeOK', NEW c \in Clients, NEW op, NEW b, NEW k, NEW n,
         op \in AllOps, Open(c, op, b, k, n)
  PROVE  SeatInvariant'
<1> DEFINE r == [Idle EXCEPT !.pc = FirstLock(op), !.op = op, !.now = clock,
                             !.booking = b, !.key = k, !.seen = n]
<1>1. /\ r.pc = FirstLock(op) /\ r.op = op /\ r.locks = {} /\ r.hasTrip = FALSE
      /\ r.writes = NoWrites
  BY DEF Idle
<1>2. tx' = [tx EXCEPT ![c] = r] /\ UNCHANGED <<clock, trip, bookings, requests, history>>
  BY DEF Open
<1>3. DOMAIN NoWrites = {}
  BY DEF NoWrites
<1> HIDE DEF r
<1>4. /\ FirstLock(op) \in {"key", "due", "trip", "booking"}
      /\ FirstLock(op) = "due" => op = "botCreateBooking"
      /\ FirstLock(op) = "booking" =>
           \/ op \in WithoutTrip
           \/ op \in {"updateBooking", "cancelTelegramBooking"}
      /\ op \in WithoutTrip => FirstLock(op) = "booking"
  BY DEF FirstLock, AllOps, WithoutTrip
<1>5. Disciplined(r)
  BY <1>1, <1>4 DEF Disciplined
<1>6. ReadsTrue(r)
  BY <1>1, <1>3 DEF ReadsTrue
<1>7. \A d \in Clients \ {c} : Apart(r, tx[d])
  BY <1>1 DEF Apart
<1>8. StagedFit(c)'
  <2>1. tx'[c] = r
    BY <1>2 DEF SeatInvariant, TypeOK
  <2> QED
    BY <1>1, <1>3, <1>4, <2>1 DEF StagedFit, NoRowGains
<1> QED
  BY <1>2, <1>5, <1>6, <1>7, <1>8, SeatsOfOneSession

\* Beginning any handler preserves the invariant.
LEMMA SeatsOfBegin ==
  ASSUME SeatInvariant, TypeOK', NEW c \in Clients,
         BeginSale(c) \/ BeginBookingChange(c) \/ BeginTripChange(c)
  PROVE  SeatInvariant'
<1>1. PICK op \in AllOps : \E b, k, n : Open(c, op, b, k, n)
  <2>1. CASE BeginSale(c)
    BY <2>1 DEF BeginSale, AllOps
  <2>2. CASE BeginBookingChange(c)
    BY <2>2 DEF BeginBookingChange, AllOps
  <2>3. CASE BeginTripChange(c)
    BY <2>3 DEF BeginTripChange, AllOps
  <2> QED
    BY <2>1, <2>2, <2>3
<1> QED
  BY <1>1, SeatsOfOpen

\* Taking a lock preserves the invariant: a lock that is taken is nobody else's, and
\* the trip is read under its own lock.
LEMMA SeatsOfLock ==
  ASSUME SeatInvariant, TypeOK', NEW c \in Clients,
         LockTrip(c) \/ LockBooking(c) \/ LockKey(c) \/ LockDueRows(c)
  PROVE  SeatInvariant'
<1> DEFINE next(lock) == LockAfter(tx[c].op, lock)
<1>1. PICK S \in SUBSET tx[c].locks : tx[c] \in Transaction(S)
  BY DEF SeatInvariant, TypeOK, WellFormed
<1>2. /\ Disciplined(tx[c]) /\ ReadsTrue(tx[c])
      /\ \A d \in Clients \ {c} : Apart(tx[c], tx[d])
      /\ StagedFit(c) /\ bookings' = bookings
  BY DEF SeatInvariant, LocksExclude, ReadsStayTrue, StagedFits, LockTrip, LockBooking,
         LockKey, LockDueRows
<1>3. /\ next("key") = "trip" /\ next("due") = "trip"
      /\ next("trip") = IF tx[c].op = "bookingPassengers" THEN "booking" ELSE "decide"
      /\ next("booking") = IF tx[c].op \in {"updateBooking", "cancelTelegramBooking"}
                           THEN "trip" ELSE "decide"
  BY DEF LockAfter
<1>4. tx' = [tx EXCEPT ![c] = tx'[c]] /\ UNCHANGED <<clock, trip, bookings, requests, history>>
  BY DEF SeatInvariant, TypeOK, LockTrip, LockBooking, LockKey, LockDueRows
<1>5. CASE LockTrip(c)
  <2>1. /\ tx[c].pc = "trip"
        /\ tx'[c] = [tx[c] EXCEPT !.hasTrip = TRUE, !.trip = trip, !.pc = next("trip")]
    BY <1>5 DEF LockTrip, SeatInvariant, TypeOK
  <2>2. /\ tx'[c].pc = next("trip") /\ tx'[c].hasTrip = TRUE /\ tx'[c].trip = trip
        /\ tx'[c].op = tx[c].op /\ tx'[c].locks = tx[c].locks
        /\ tx'[c].writes = tx[c].writes
    BY <1>1, <2>1 DEF Transaction
  <2>3. Disciplined(tx'[c]) /\ ReadsTrue(tx'[c]) /\ StagedFit(c)'
    BY <1>2, <1>3, <2>1, <2>2 DEF Disciplined, ReadsTrue, StagedFit, NoRowGains, WithoutTrip
  <2>4. \A d \in Clients \ {c} : Apart(tx'[c], tx[d])
    BY <1>2, <1>5, <2>2 DEF Apart, LockTrip
  <2> QED
    BY <1>4, <2>3, <2>4, SeatsOfOneSession
<1>6. CASE LockBooking(c)
  <2>1. /\ tx[c].pc = "booking" /\ Unlocked(c, {tx[c].booking})
        /\ tx'[c] = [tx[c] EXCEPT !.locks = @ \cup {tx[c].booking}, !.pc = next("booking")]
    BY <1>6 DEF LockBooking, SeatInvariant, TypeOK
  <2>2. /\ tx'[c].pc = next("booking") /\ tx'[c].hasTrip = tx[c].hasTrip
        /\ tx'[c].trip = tx[c].trip /\ tx'[c].op = tx[c].op
        /\ tx'[c].locks = tx[c].locks \cup {tx[c].booking}
        /\ tx'[c].writes = tx[c].writes
    BY <1>1, <2>1 DEF Transaction
  <2>3. Disciplined(tx'[c]) /\ ReadsTrue(tx'[c]) /\ StagedFit(c)'
    BY <1>2, <1>3, <2>1, <2>2 DEF Disciplined, ReadsTrue, StagedFit, NoRowGains, WithoutTrip
  <2>4. \A d \in Clients \ {c} : Apart(tx'[c], tx[d])
    BY <1>2, <2>1, <2>2 DEF Apart, Unlocked
  <2> QED
    BY <1>4, <2>3, <2>4, SeatsOfOneSession
<1>7. CASE LockKey(c)
  <2>1. tx[c].pc = "key" /\ tx'[c] = [tx[c] EXCEPT !.pc = next("key")]
    BY <1>7 DEF LockKey, SeatInvariant, TypeOK
  <2>2. /\ tx'[c].pc = next("key") /\ tx'[c].hasTrip = tx[c].hasTrip
        /\ tx'[c].trip = tx[c].trip /\ tx'[c].op = tx[c].op
        /\ tx'[c].locks = tx[c].locks /\ tx'[c].writes = tx[c].writes
    BY <1>1, <2>1 DEF Transaction
  <2>3. Disciplined(tx'[c]) /\ ReadsTrue(tx'[c]) /\ StagedFit(c)'
    BY <1>2, <1>3, <2>1, <2>2 DEF Disciplined, ReadsTrue, StagedFit, NoRowGains, WithoutTrip
  <2>4. \A d \in Clients \ {c} : Apart(tx'[c], tx[d])
    BY <1>2, <2>2 DEF Apart
  <2> QED
    BY <1>4, <2>3, <2>4, SeatsOfOneSession
<1>8. CASE LockDueRows(c)
  <2> DEFINE due == DueRows(tx[c].now)
  <2>1. PICK w : /\ tx[c].pc = "due" /\ Unlocked(c, due)
                 /\ tx'[c] = [tx[c] EXCEPT !.locks = @ \cup due, !.writes = w,
                                           !.pc = next("due")]
    BY <1>8 DEF LockDueRows, SeatInvariant, TypeOK
  <2> HIDE DEF due
  <2>2. /\ tx'[c].pc = next("due") /\ tx'[c].hasTrip = tx[c].hasTrip
        /\ tx'[c].trip = tx[c].trip /\ tx'[c].op = tx[c].op
        /\ tx'[c].locks = tx[c].locks \cup due
    BY <1>1, <2>1 DEF Transaction
  <2>3. Disciplined(tx'[c]) /\ ReadsTrue(tx'[c]) /\ StagedFit(c)'
    BY <1>2, <1>3, <2>1, <2>2 DEF Disciplined, ReadsTrue, StagedFit, NoRowGains, WithoutTrip
  <2>4. \A d \in Clients \ {c} : Apart(tx'[c], tx[d])
    BY <1>2, <2>1, <2>2 DEF Apart, Unlocked
  <2> QED
    BY <1>4, <2>3, <2>4, SeatsOfOneSession
<1> QED
  BY <1>5, <1>6, <1>7, <1>8

\* The rows as they will be when the row images w are installed.
Under(w) == [b \in Bookings |-> IF b \in DOMAIN w THEN w[b] ELSE bookings[b]]

\* A decision only has to show that what it stages fits.
LEMMA SeatsOfStage ==
  ASSUME SeatInvariant, TypeOK', NEW c \in Clients, NEW b, NEW t, NEW w,
         tx[c].pc = "decide", Stage(c, b, t, w),
         StagedFit(c)'
  PROVE  SeatInvariant'
<1>1. PICK S \in SUBSET tx[c].locks : tx[c] \in Transaction(S)
  BY DEF SeatInvariant, TypeOK, WellFormed
<1>2. /\ Disciplined(tx[c])
      /\ \A d \in Clients \ {c} : Apart(tx[c], tx[d])
  BY DEF SeatInvariant, LocksExclude
<1>3. /\ tx' = [tx EXCEPT ![c] = tx'[c]] /\ UNCHANGED <<clock, trip, bookings, requests, history>>
      /\ tx'[c] = [tx[c] EXCEPT !.pc = "staged", !.booking = b, !.trip = t,
                                !.writes = w, !.locks = @ \cup DOMAIN w]
      /\ Unlocked(c, DOMAIN w)
  BY DEF SeatInvariant, TypeOK, Stage
<1>4. /\ tx'[c].pc = "staged" /\ tx'[c].hasTrip = tx[c].hasTrip /\ tx'[c].op = tx[c].op
      /\ tx'[c].locks = tx[c].locks \cup DOMAIN w
  BY <1>1, <1>3 DEF Transaction
<1>5. Disciplined(tx'[c]) /\ ReadsTrue(tx'[c])
  BY <1>2, <1>4 DEF Disciplined, ReadsTrue
<1>6. \A d \in Clients \ {c} : Apart(tx'[c], tx[d])
  BY <1>2, <1>3, <1>4 DEF Apart, Unlocked
<1> QED
  BY <1>3, <1>5, <1>6, SeatsOfOneSession

\* What a decision leaves in its session.
LEMMA StagedFields ==
  ASSUME SeatInvariant, NEW c \in Clients, NEW b, NEW t, NEW w, Stage(c, b, t, w)
  PROVE  /\ tx'[c].writes = w /\ tx'[c].trip = t /\ tx'[c].hasTrip = tx[c].hasTrip
         /\ tx'[c].pc = "staged" /\ tx'[c].op = tx[c].op
         /\ bookings' = bookings /\ clock' = clock /\ Counted' = Counted
         /\ Seen(c)' = Under(w)
<1>1. PICK S \in SUBSET tx[c].locks : tx[c] \in Transaction(S)
  BY DEF SeatInvariant, TypeOK, WellFormed
<1>2. /\ UNCHANGED <<clock, trip, bookings, requests, history>>
      /\ tx'[c] = [tx[c] EXCEPT !.pc = "staged", !.booking = b, !.trip = t,
                                !.writes = w, !.locks = @ \cup DOMAIN w]
  BY DEF SeatInvariant, TypeOK, Stage
<1>3. /\ tx'[c].writes = w /\ tx'[c].trip = t /\ tx'[c].hasTrip = tx[c].hasTrip
      /\ tx'[c].pc = "staged" /\ tx'[c].op = tx[c].op
  BY <1>1, <1>2 DEF Transaction
<1>4. Seen(c)' = Under(w) /\ Counted' = Counted
  BY <1>2, <1>3 DEF Seen, Under, Counted, history
<1> QED
  BY <1>2, <1>3, <1>4

\* Under the trip's lock it is enough that the whole trip fits.
LEMMA SeatsOfStageWithTrip ==
  ASSUME SeatInvariant, TypeOK', NEW c \in Clients, NEW b, NEW t \in TripRow, NEW w,
         tx[c].pc = "decide", tx[c].op \notin WithoutTrip, Stage(c, b, t, w),
         Cardinality(SeatsHeld(Under(w), clock)) <= t.capacity
  PROVE  SeatInvariant'
<1>1. Cardinality(SeatsOf(Counted, Under(w), clock)) <= t.capacity
  <2>1. t.capacity \in Int
    BY SalesAssumption DEF TripRow
  <2> QED
    BY <2>1, SomeHeld, HeldFinite
<1>2. WholeTripFits(c)'
  BY <1>1, StagedFields DEF WholeTripFits
<1>3. StagedFit(c)'
  BY <1>2, StagedFields DEF StagedFit
<1> QED
  BY <1>3, SeatsOfStage

\* Changes of existing rows that keep their numbers of seats, with the trip's lock or
\* without it: no counted row gains a seat.
LEMMA SeatsOfQuietStage ==
  ASSUME SeatInvariant, TypeOK', NEW c \in Clients, NEW b, NEW t, NEW w,
         tx[c].pc = "decide", Stage(c, b, t, w),
         t.capacity = tx[c].trip.capacity,
         \A d \in DOMAIN w : /\ bookings[d].status # "none" /\ w[d].status # "none"
                             /\ w[d].seats = bookings[d].seats
  PROVE  SeatInvariant'
<1>1. NoRowGains(c)'
  BY StagedFields DEF NoRowGains
<1>2. CASE tx[c].hasTrip
  <2>1. Cardinality(SeatsOf(Counted, Under(w), clock))
          <= Cardinality(SeatsOf(Bookings \ revived, bookings, clock))
    <3>1. \A d \in Counted \cap Bookings : Occupies(Under(w)[d], clock) =>
            /\ d \in Bookings \ revived /\ Occupies(bookings[d], clock)
            /\ Under(w)[d].seats = bookings[d].seats
      BY DEF Counted, Under
    <3> QED
      BY <3>1, SomeMonotone
  <2>2. Cardinality(SeatsOf(Bookings \ revived, bookings, clock)) <= t.capacity
    BY <1>2 DEF SeatInvariant, ReadsStayTrue, ReadsTrue, NoOversell
  <2>3. t.capacity \in Int
    BY TransactionFields, SalesAssumption DEF SeatInvariant, TripRow
  <2>4. Cardinality(SeatsOf(Counted, Under(w), clock)) <= t.capacity
    BY <2>1, <2>2, <2>3, SomeHeld
  <2>5. WholeTripFits(c)'
    BY <2>4, StagedFields DEF WholeTripFits
  <2>6. StagedFit(c)'
    BY <1>1, <2>5 DEF StagedFit
  <2> QED
    BY <2>6, SeatsOfStage
<1>3. CASE ~tx[c].hasTrip
  <2>1. StagedFit(c)'
    BY <1>1, <1>3, StagedFields DEF StagedFit
  <2> QED
    BY <2>1, SeatsOfStage
<1> QED
  BY <1>2, <1>3

\* A change of one booking that keeps its number of seats.
LEMMA SeatsOfChange ==
  ASSUME SeatInvariant, TypeOK', NEW c \in Clients, NEW row,
         tx[c].pc = "decide", StageBooking(c, row),
         Locked(c).status # "none", row.status # "none", row.seats = Locked(c).seats
  PROVE  SeatInvariant'
<1> DEFINE b == tx[c].booking
           w == [d \in {b} |-> row]
<1>1. Stage(c, b, tx[c].trip, w)
  BY DEF StageBooking
<1>2. \A d \in DOMAIN w : /\ bookings[d].status # "none" /\ w[d].status # "none"
                          /\ w[d].seats = bookings[d].seats
  BY DEF Locked
<1> HIDE DEF w, b
<1> QED
  BY <1>1, <1>2, SeatsOfQuietStage

\* A statement's line confirms a row next to those of the lines before it.
LEMMA SeatsOfLine ==
  ASSUME SeatInvariant, TypeOK', NEW c \in Clients, MatchBankPayment(c)
  PROVE  SeatInvariant'
<1> DEFINE b == tx[c].booking
           W == DOMAIN tx[c].writes
           row == Confirmed(Locked(c))
           w == [d \in W \cup {b} |-> IF d = b THEN row ELSE tx[c].writes[d]]
<1>1. tx[c].pc = "decide" /\ tx[c].op \in WithoutTrip /\ tx[c].op \in BookingChanges
  BY DEF MatchBankPayment, Deciding, WithoutTrip, BookingChanges
<1>2. \A d \in W : /\ bookings[d].status # "none" /\ tx[c].writes[d].status # "none"
                   /\ tx[c].writes[d].seats = bookings[d].seats
  BY <1>1 DEF SeatInvariant, StagedFits, StagedFit, NoRowGains
<1>3. CASE Stage(c, b, tx[c].trip, tx[c].writes)
  BY <1>1, <1>2, <1>3, SeatsOfQuietStage
<1>4. CASE StageLine(c, row) /\ HoldStillLive(c)
  <2>1. Locked(c) \in BookingRow
    BY <1>1, TransactionFields DEF SeatInvariant
  <2>2. /\ row.seats = bookings[b].seats /\ row.status # "none"
        /\ bookings[b].status # "none"
    BY <1>4, <2>1 DEF Confirmed, BookingRow, HoldStillLive, Locked
  <2>3. Stage(c, b, tx[c].trip, w)
    BY <1>4 DEF StageLine
  <2> HIDE DEF row
  <2>4. \A d \in DOMAIN w : /\ bookings[d].status # "none" /\ w[d].status # "none"
                            /\ w[d].seats = bookings[d].seats
    BY <1>2, <2>2
  <2> HIDE DEF w, W, b
  <2> QED
    BY <1>1, <2>3, <2>4, SeatsOfQuietStage
<1> QED
  BY <1>3, <1>4 DEF MatchBankPayment

\* Staff changes, cancellations and payments keep a booking's number of seats.
LEMMA SeatsOfBookingChange ==
  ASSUME SeatInvariant, TypeOK', NEW c \in Clients,
         \/ UpdateBooking(c) \/ CancelTelegramBooking(c)
         \/ ConfirmBookingPayment(c) \/ MatchBankPayment(c)
         \/ ChooseCashBooking(c) \/ SetTelegramPaymentMethod(c)
  PROVE  SeatInvariant'
<1>1. tx[c].op \in BookingChanges /\ tx[c].pc = "decide"
  BY DEF UpdateBooking, CancelTelegramBooking, ConfirmBookingPayment,
         MatchBankPayment, ChooseCashBooking, SetTelegramPaymentMethod, Deciding,
         BookingChanges
<1>2. Locked(c) \in BookingRow
  BY <1>1, TransactionFields DEF SeatInvariant
<1>3. ASSUME NEW s
      PROVE  /\ [Locked(c) EXCEPT !.status = s].seats = Locked(c).seats
             /\ [Locked(c) EXCEPT !.status = s].status = s
             /\ [CancelPayment(Locked(c)) EXCEPT !.status = s, !.hold = NoHold].seats
                  = Locked(c).seats
             /\ [CancelPayment(Locked(c)) EXCEPT !.status = s, !.hold = NoHold].status = s
  BY <1>2 DEF CancelPayment, BookingRow
<1>4. CASE UpdateBooking(c)
  <2>1. PICK s \in BookingStatus :
          /\ <<Locked(c).status, s>> \in ManualMoves
          /\ \/ StageBooking(c, [Locked(c) EXCEPT !.status = s])
             \/ StageBooking(c, [CancelPayment(Locked(c)) EXCEPT !.status = s,
                                                                 !.hold = NoHold])
    BY <1>4 DEF UpdateBooking
  <2>2. Locked(c).status # "none" /\ s # "none"
    BY <2>1, SalesAssumption DEF BookingStatus
  <2> QED
    BY <1>1, <1>3, <2>1, <2>2, SeatsOfChange
<1>5. CASE CancelTelegramBooking(c)
  <2>1. Locked(c).status # "none"
    BY <1>5 DEF CancelTelegramBooking, UniquelyActive
  <2>2. PICK row : row = [CancelPayment(Locked(c)) EXCEPT !.status = "cancelled",
                                                          !.hold = NoHold]
    OBVIOUS
  <2>3. StageBooking(c, row)
    BY <1>5, <2>2 DEF CancelTelegramBooking
  <2>4. row.seats = Locked(c).seats /\ row.status # "none"
    BY <1>3, <2>2
  <2> QED
    BY <1>1, <2>1, <2>3, <2>4, SeatsOfChange
<1>6. HoldStillLive(c) => Locked(c).status # "none"
  BY DEF HoldStillLive
<1>7. CASE ConfirmBookingPayment(c)
  <2>1. Confirmed(Locked(c)).seats = Locked(c).seats /\ Confirmed(Locked(c)).status # "none"
    BY <1>2 DEF Confirmed, BookingRow
  <2> QED
    BY <1>1, <1>6, <1>7, <2>1, SeatsOfChange DEF ConfirmBookingPayment
<1>8. CASE MatchBankPayment(c)
  BY <1>8, SeatsOfLine
<1>9. CASE ChooseCashBooking(c)
  <2> DEFINE row == [Locked(c) EXCEPT !.status = "cash_on_boarding", !.hold = NoHold,
                                      !.method = "cash"]
  <2>1. row.seats = Locked(c).seats /\ (HoldStillLive(c) => row.status # "none")
    BY <1>2 DEF BookingRow, HoldStillLive
  <2>2. StageBooking(c, row) /\ HoldStillLive(c)
    BY <1>9 DEF ChooseCashBooking
  <2> HIDE DEF row
  <2> QED
    BY <1>1, <1>6, <2>1, <2>2, SeatsOfChange
<1>10. CASE SetTelegramPaymentMethod(c)
  <2> DEFINE row == [Locked(c) EXCEPT !.method = "bank_transfer"]
  <2>1. row.seats = Locked(c).seats /\ (HoldStillLive(c) => row.status # "none")
    BY <1>2 DEF BookingRow, HoldStillLive
  <2>2. StageBooking(c, row) /\ HoldStillLive(c)
    BY <1>10 DEF SetTelegramPaymentMethod
  <2> HIDE DEF row
  <2> QED
    BY <1>1, <1>6, <2>1, <2>2, SeatsOfChange
<1> QED
  BY <1>4, <1>5, <1>7, <1>8, <1>9, <1>10

\* The seats the queries count include those of SeatsHeld.
LEMMA HeldWithinTravelled ==
  ASSUME NEW rows, NEW t
  PROVE  Cardinality(SeatsHeld(rows, t)) <= Cardinality(SeatsHeldOrTravelled(rows, t))
<1>1. SeatsHeld(rows, t) \subseteq SeatsHeldOrTravelled(rows, t)
  BY DEF SeatsHeld, SeatsHeldOrTravelled, OccupiesOrTravelled
<1> QED
  BY <1>1, HeldOrTravelledFinite, FS_Subset

\* Time only frees seats.
LEMMA HeldEarlier ==
  ASSUME NEW rows \in [Bookings -> BookingRow], NEW t1 \in Int, NEW t2 \in Int, t1 <= t2
  PROVE  Cardinality(SeatsHeld(rows, t2)) <= Cardinality(SeatsHeld(rows, t1))
<1>1. \A b \in Bookings : NoMore(rows[b], t2, rows[b], t1)
  BY OccupiesEarlier DEF NoMore
<1> QED
  BY <1>1, HeldMonotone

\* An added passenger fits next to the seats held or travelled.
LEMMA SeatsOfAddPassenger ==
  ASSUME SeatInvariant, TypeOK', NEW c \in Clients, AddPassenger(c)
  PROVE  SeatInvariant'
<1> DEFINE b == tx[c].booking
           row == [Locked(c) EXCEPT !.seats = @ + 1]
           w == [d \in {b} |-> row]
           held == Cardinality(SeatsHeld(bookings, tx[c].now))
<1>1. /\ tx[c].op = "bookingPassengers" /\ tx[c].pc = "decide"
      /\ Stage(c, b, tx[c].trip, w)
      /\ Cardinality(SeatsHeldOrTravelled(bookings, tx[c].now)) < tx[c].trip.capacity
  BY DEF AddPassenger, Deciding, StageBooking
<1>2. b \in Bookings /\ Locked(c) \in BookingRow
  BY <1>1, TransactionFields DEF SeatInvariant, BookingChanges
<1>3. /\ tx[c].now \in Int /\ clock \in Int /\ tx[c].now <= clock
      /\ tx[c].trip.capacity \in Int
  BY TransactionFields, SalesAssumption DEF SeatInvariant, TypeOK, TripRow
<1>4. bookings[b].seats \in Nat /\ row.seats = bookings[b].seats + 1
      /\ row.status = bookings[b].status /\ row.hold = bookings[b].hold
  BY <1>2, SalesAssumption DEF BookingRow, Locked
<1>5. bookings \in [Bookings -> BookingRow]
  BY DEF SeatInvariant, TypeOK
<1> HIDE DEF row
<1>6. Occupies(Under(w)[b], clock) => Occupies(bookings[b], tx[c].now)
  <2>1. Under(w)[b] = row
    BY <1>2 DEF Under
  <2>2. Occupies(row, clock) => Occupies(bookings[b], clock)
    BY <1>4 DEF Occupies, HoldLive
  <2> QED
    BY <1>2, <1>3, <1>5, <2>1, <2>2, OccupiesEarlier
<1>7. \A d \in Bookings \ {b} : NoMore(Under(w)[d], clock, bookings[d], tx[c].now)
  BY <1>3, <1>5, OccupiesEarlier DEF Under, NoMore
<1>8. Under(w)[b].seats = bookings[b].seats + 1
  BY <1>2, <1>4 DEF Under
<1>9. Cardinality(SeatsHeld(Under(w), clock)) <= held + 1
  BY <1>2, <1>4, <1>6, <1>7, <1>8, HeldAfterSeat
<1>10. held < tx[c].trip.capacity
  BY <1>1, <1>3, HeldWithinTravelled, HeldFinite, HeldOrTravelledFinite
<1>11. Cardinality(SeatsHeld(Under(w), clock)) <= tx[c].trip.capacity
  BY <1>3, <1>9, <1>10, HeldFinite
<1>12. tx[c].op \notin WithoutTrip /\ tx[c].trip \in TripRow
  BY <1>1, TransactionFields DEF WithoutTrip, SeatInvariant
<1> HIDE DEF w, b
<1> QED
  BY <1>1, <1>11, <1>12, SeatsOfStageWithTrip

\* Every channel inserts one booking of n seats that fit, next to rows that it expires.
LEMMA SeatsOfInsert ==
  ASSUME SeatInvariant, TypeOK', NEW c \in Clients, NEW row, NEW e, NEW n \in 1..MaxSeats,
         tx[c].pc = "decide", tx[c].op \notin WithoutTrip,
         row.seats = n, Fits(c, n), Insert(c, row, e),
         \A d \in Bookings : NoMore(Under(e)[d], clock, Seen(c)[d], clock)
  PROVE  SeatInvariant'
<1>1. PICK b \in Bookings :
        Stage(c, b, tx[c].trip, [d \in DOMAIN e \cup {b} |-> IF d = b THEN row ELSE e[d]])
  BY DEF Insert
<1> DEFINE w == [d \in DOMAIN e \cup {b} |-> IF d = b THEN row ELSE e[d]]
<1>2. /\ tx[c].now \in Int /\ clock \in Int /\ tx[c].now <= clock
      /\ tx[c].trip.capacity \in Int /\ n \in Int
  BY TransactionFields, SalesAssumption DEF SeatInvariant, TypeOK, TripRow
<1>3. Seen(c) \in [Bookings -> BookingRow]
  BY SeenTyped DEF SeatInvariant
<1>4. Under(w)[b].seats = n
  BY DEF Under
<1>5. \A d \in Bookings \ {b} : Under(w)[d] = Under(e)[d]
  BY DEF Under
<1>6. \A d \in Bookings \ {b} : NoMore(Under(w)[d], clock, Seen(c)[d], tx[c].now)
  BY <1>2, <1>3, <1>5, OccupiesEarlier DEF NoMore
<1> HIDE DEF w
<1>7. Cardinality(SeatsHeld(Under(w), clock))
        <= Cardinality(SeatsHeld(Seen(c), tx[c].now)) + n
  BY <1>4, <1>6, HeldAfterSale
<1>8. Cardinality(SeatsHeld(Under(w), clock)) <= tx[c].trip.capacity
  BY <1>2, <1>7, HeldFinite DEF Fits
<1>9. Stage(c, b, tx[c].trip, w)
  BY <1>1 DEF w
<1>10. tx[c].trip \in TripRow
  BY TransactionFields DEF SeatInvariant
<1> QED
  BY <1>8, <1>9, <1>10, SeatsOfStageWithTrip

\* The three channels count the seats of the rows they see.
LEMMA SeatsOfSale ==
  ASSUME SeatInvariant, TypeOK', NEW c \in Clients,
         PublicCreateBooking(c) \/ BotCreateBooking(c) \/ CreateBooking(c)
  PROVE  SeatInvariant'
<1>1. tx[c].pc = "decide" /\ tx[c].op \notin WithoutTrip
  BY DEF PublicCreateBooking, BotCreateBooking, CreateBooking, Deciding, WithoutTrip
<1>2. tx[c].op # "botCreateBooking" => Seen(c) = [b \in Bookings |-> bookings[b]]
  BY <1>1 DEF SeatInvariant, ReadsStayTrue, ReadsTrue, Seen, WithoutTrip
<1>3. \A r \in BookingRow : \A t : ~Occupies(Expired(r), t)
  BY DEF Expired, BookingRow, Occupies, BookingPhase
<1>4. CASE PublicCreateBooking(c)
  <2>1. PICK cust \in Customers, n \in 1..MaxSeats, method \in {"cash", "bank_transfer"} :
          LET due == {b \in DueRows(tx[c].now) : bookings[b].customer = cust}
              row == IF method = "bank_transfer"
                     THEN NewRow("awaiting_payment", cust, n, clock + HoldLength,
                                 "pending", "bank_transfer", tx[c].key)
                     ELSE NewRow("cash_on_boarding", cust, n, NoHold,
                                 "none", "none", tx[c].key)
          IN  Fits(c, n) /\ Insert(c, row, [b \in due |-> Expired(bookings[b])])
    BY <1>4 DEF PublicCreateBooking
  <2> DEFINE due == {b \in DueRows(tx[c].now) : bookings[b].customer = cust}
             e == [b \in due |-> Expired(bookings[b])]
             row == IF method = "bank_transfer"
                    THEN NewRow("awaiting_payment", cust, n, clock + HoldLength,
                                "pending", "bank_transfer", tx[c].key)
                    ELSE NewRow("cash_on_boarding", cust, n, NoHold,
                                "none", "none", tx[c].key)
  <2>2. row.seats = n
    BY DEF NewRow
  <2>3. Fits(c, n) /\ Insert(c, row, e)
    BY <2>1
  <2>4. tx[c].op # "botCreateBooking"
    BY <1>4 DEF PublicCreateBooking, Deciding
  <2>5. \A d \in Bookings : NoMore(Under(e)[d], clock, Seen(c)[d], clock)
    <3> SUFFICES ASSUME NEW d \in Bookings
                 PROVE  NoMore(Under(e)[d], clock, Seen(c)[d], clock)
      OBVIOUS
    <3>1. Seen(c)[d] = bookings[d]
      BY <1>2, <2>4
    <3>2. CASE d \in due
      <4>1. Under(e)[d] = Expired(bookings[d])
        BY <3>2 DEF Under
      <4>2. bookings[d] \in BookingRow
        BY DEF SeatInvariant, TypeOK
      <4> QED
        BY <1>3, <4>1, <4>2 DEF NoMore
    <3>3. CASE d \notin due
      BY <3>1, <3>3 DEF Under, NoMore
    <3> QED
      BY <3>2, <3>3
  <2> HIDE DEF row, due, e
  <2> QED
    BY <1>1, <2>2, <2>3, <2>5, SeatsOfInsert
<1>5. CASE BotCreateBooking(c)
  <2>1. PICK cust \in Customers, n \in 1..MaxSeats :
          /\ Fits(c, n)
          /\ Insert(c, NewRow("awaiting_payment", cust, n, tx[c].now + HoldLength,
                              "pending", "none", None), tx[c].writes)
    BY <1>5 DEF BotCreateBooking
  <2> DEFINE row == NewRow("awaiting_payment", cust, n, tx[c].now + HoldLength,
                           "pending", "none", None)
  <2>2. row.seats = n
    BY DEF NewRow
  <2>3. \A d \in Bookings : NoMore(Under(tx[c].writes)[d], clock, Seen(c)[d], clock)
    BY DEF NoMore, Under, Seen
  <2>4. Fits(c, n) /\ Insert(c, row, tx[c].writes)
    BY <2>1
  <2> HIDE DEF row
  <2> QED
    BY <1>1, <2>2, <2>3, <2>4, SeatsOfInsert
<1>6. CASE CreateBooking(c)
  <2>1. PICK cust \in Customers, n \in 1..MaxSeats :
          /\ Fits(c, n)
          /\ Insert(c, NewRow("cash_on_boarding", cust, n, NoHold, "none", "none", None),
                    NoWrites)
    BY <1>6 DEF CreateBooking
  <2> DEFINE row == NewRow("cash_on_boarding", cust, n, NoHold, "none", "none", None)
  <2>2. row.seats = n
    BY DEF NewRow
  <2>3. tx[c].op # "botCreateBooking"
    BY <1>6 DEF CreateBooking, Deciding
  <2>4. \A d \in Bookings : NoMore(Under(NoWrites)[d], clock, Seen(c)[d], clock)
    BY <1>2, <2>3 DEF NoMore, Under, NoWrites
  <2>5. Fits(c, n) /\ Insert(c, row, NoWrites)
    BY <2>1
  <2> HIDE DEF row
  <2> QED
    BY <1>1, <2>2, <2>4, <2>5, SeatsOfInsert
<1> QED
  BY <1>4, <1>5, <1>6

\* An edited or completed trip keeps room for the seats that are held.
LEMMA SeatsOfTripChange ==
  ASSUME SeatInvariant, TypeOK', NEW c \in Clients, UpdateTrip(c) \/ ChangeTripStatus(c)
  PROVE  SeatInvariant'
<1>1. tx[c].pc = "decide" /\ tx[c].op \notin WithoutTrip
  BY DEF UpdateTrip, ChangeTripStatus, Deciding, WithoutTrip
<1>2. /\ tx[c].now \in Int /\ clock \in Int /\ tx[c].now <= clock
      /\ tx[c].trip \in TripRow /\ tx[c].trip.capacity \in Int
      /\ bookings \in [Bookings -> BookingRow]
  BY TransactionFields, SalesAssumption DEF SeatInvariant, TypeOK, TripRow
<1>3. Under(NoWrites) = bookings /\ DOMAIN NoWrites = {}
  BY <1>2 DEF Under, NoWrites
<1>4. CASE UpdateTrip(c)
  <2>1. PICK n \in 1..VehicleCapacity, d \in Departures :
          /\ Cardinality(SeatsHeldOrTravelled(bookings, tx[c].now)) <= n
          /\ Stage(c, None, [tx[c].trip EXCEPT !.capacity = n, !.departs = d], NoWrites)
    BY <1>4 DEF UpdateTrip
  <2> DEFINE next == [tx[c].trip EXCEPT !.capacity = n, !.departs = d]
  <2>2. next.capacity = n /\ n \in Int /\ next \in TripRow
    <3>1. n \in 0..VehicleCapacity /\ n \in Int /\ d \in Nat
      BY SalesAssumption
    <3>2. [tx[c].trip EXCEPT !.capacity = n, !.departs = d] \in TripRow
      BY ONLY <1>2, <3>1 DEF TripRow
    <3> QED
      BY <1>2, <3>1, <3>2 DEF TripRow
  <2>3. Cardinality(SeatsHeld(bookings, clock)) <= n
    BY <1>2, <2>1, <2>2, HeldEarlier, HeldWithinTravelled, HeldFinite, HeldOrTravelledFinite
  <2>4. Stage(c, None, next, NoWrites)
    BY <2>1
  <2> HIDE DEF next
  <2> QED
    BY <1>1, <1>3, <2>2, <2>3, <2>4, SeatsOfStageWithTrip
<1>5. CASE ChangeTripStatus(c)
  <2>1. PICK s \in TripMoves :
          LET next == [tx[c].trip EXCEPT !.status = s]
          IN  \/ \E absent \in SUBSET Bookings :
                   Stage(c, None, next, CompletionWrites(c, absent))
              \/ Stage(c, None, next, NoWrites)
    BY <1>5 DEF ChangeTripStatus
  <2> DEFINE next == [tx[c].trip EXCEPT !.status = s]
  <2>2. next.capacity = tx[c].trip.capacity
    BY <1>2 DEF TripRow
  <2> HIDE DEF next
  <2>3. CASE Stage(c, None, next, NoWrites)
    BY <1>1, <1>3, <2>2, <2>3, SeatsOfQuietStage
  <2>4. CASE \E absent \in SUBSET Bookings :
               Stage(c, None, next, CompletionWrites(c, absent))
    <3>1. PICK absent \in SUBSET Bookings :
            Stage(c, None, next, CompletionWrites(c, absent))
      BY <2>4
    <3> DEFINE w == CompletionWrites(c, absent)
    <3>2. \A d \in DOMAIN w : /\ bookings[d].status # "none" /\ w[d].status # "none"
                              /\ w[d].seats = bookings[d].seats
      BY <1>2 DEF CompletionWrites, BookingPhase, BookingRow
    <3> HIDE DEF w
    <3> QED
      BY <1>1, <2>2, <3>1, <3>2, SeatsOfQuietStage DEF w
  <2> QED
    BY <2>1, <2>3, <2>4 DEF next
<1> QED
  BY <1>4, <1>5

-----------------------------------------------------------------------------
\* Second, what a change of the rows does to the sessions that have staged theirs.

\* Rows that a session has locked do not change: what it staged without the trip
\* is as harmless as before.
LEMMA StillNoGain ==
  ASSUME SeatInvariant, NEW d \in Clients, tx'[d] = tx[d],
         \A b \in tx[d].locks : bookings'[b] = bookings[b]
  PROVE  tx[d].op \in WithoutTrip => NoRowGains(d)'
<1>1. StagedFit(d)
  BY DEF SeatInvariant, StagedFits
<1>2. DOMAIN tx[d].writes \subseteq tx[d].locks
  BY TransactionFields DEF SeatInvariant
<1> QED
  BY <1>1, <1>2 DEF StagedFit, NoRowGains

\* When no other row gains a counted seat, a staged trip fits as before.
LEMMA StillFits ==
  ASSUME SeatInvariant, NEW d \in Clients, tx'[d] = tx[d],
         clock \in Int, clock' \in Int, clock <= clock',
         bookings' \in [Bookings -> BookingRow], bookings \in [Bookings -> BookingRow],
         \A b \in Bookings : b \in Counted' => b \in Counted,
         \A b \in tx[d].locks : bookings'[b] = bookings[b],
         \A b \in Counted' : Occupies(bookings'[b], clock') =>
           Occupies(bookings[b], clock) /\ bookings'[b].seats = bookings[b].seats
  PROVE  tx[d].pc = "staged" /\ tx[d].hasTrip => WholeTripFits(d)'
<1> SUFFICES ASSUME tx[d].pc = "staged", tx[d].hasTrip PROVE WholeTripFits(d)'
  OBVIOUS
<1>1. WholeTripFits(d)
  BY DEF SeatInvariant, StagedFits, StagedFit
<1> DEFINE S == Seen(d)
           N == [b \in Bookings |-> IF b \in DOMAIN tx[d].writes THEN tx[d].writes[b]
                                                               ELSE bookings'[b]]
           C == Counted'
<1>2. Seen(d)' = N
  BY DEF Seen
<1>3. \A b \in C \cap Bookings : Occupies(N[b], clock') =>
        b \in Counted /\ Occupies(S[b], clock) /\ N[b].seats = S[b].seats
  <2> SUFFICES ASSUME NEW b \in C, b \in Bookings, Occupies(N[b], clock')
               PROVE  b \in Counted /\ Occupies(S[b], clock) /\ N[b].seats = S[b].seats
    OBVIOUS
  <2>1. CASE b \in DOMAIN tx[d].writes
    <3>1. tx[d].writes[b] \in BookingRow /\ N[b] = tx[d].writes[b] /\ S[b] = tx[d].writes[b]
      BY <2>1, TransactionFields DEF SeatInvariant, Seen
    <3> QED
      BY <3>1, OccupiesEarlier
  <2>2. CASE b \notin DOMAIN tx[d].writes
    BY <2>2 DEF Seen
  <2> QED
    BY <2>1, <2>2
<1> HIDE DEF N, S, C
<1>4. Cardinality(SeatsOf(C, N, clock')) <= Cardinality(SeatsOf(Counted, S, clock))
  BY <1>3, SomeMonotone
<1>5. tx[d].trip.capacity \in Int
  BY TransactionFields, SalesAssumption DEF SeatInvariant, TripRow
<1>6. Cardinality(SeatsOf(C, N, clock')) <= tx[d].trip.capacity
  BY <1>1, <1>4, <1>5, SomeHeld DEF WholeTripFits, S
<1> QED
  BY <1>2, <1>6 DEF WholeTripFits, C

\* A commit installs what was staged; the others are disjoint from it.
LEMMA SeatsOfCommit ==
  ASSUME SeatInvariant, TypeOK', NEW c \in Clients, Commit(c)
  PROVE  SeatInvariant'
<1>1. /\ tx[c].pc = "staged" /\ clock' = clock /\ bookings' = Seen(c)
      /\ trip' = IF tx[c].hasTrip THEN tx[c].trip ELSE trip
      /\ tx' = [tx EXCEPT ![c] = Idle] /\ revived' = revived \cup Uncounted(c)
  BY DEF Commit
<1>2. \A d \in Clients : tx'[d] = IF d = c THEN Idle ELSE tx[d]
  BY <1>1 DEF SeatInvariant, TypeOK
<1>3. \A d \in Clients \ {c} :
        /\ Disciplined(tx[d]) /\ ReadsTrue(tx[d])
        /\ tx[c].locks \cap tx[d].locks = {} /\ ~(tx[c].hasTrip /\ tx[d].hasTrip)
  BY DEF SeatInvariant, LocksExclude, Apart, ReadsStayTrue
<1>4. /\ DOMAIN tx[c].writes \subseteq tx[c].locks
      /\ \A d \in Clients : tx[d].locks \subseteq Bookings
  BY TransactionFields DEF SeatInvariant
<1>5. \A d \in Clients \ {c} : \A b \in tx[d].locks : bookings'[b] = bookings[b]
  BY <1>1, <1>3, <1>4 DEF Seen
<1>6. LocksExclude'
  <2> SUFFICES ASSUME NEW a \in Clients
               PROVE  /\ Disciplined(tx'[a])
                      /\ \A d \in Clients \ {a} : Apart(tx'[a], tx'[d])
    BY DEF LocksExclude
  <2>1. Disciplined(tx'[a])
    BY <1>2, <1>3, IdleApart
  <2>2. ASSUME NEW d \in Clients \ {a}
        PROVE  Apart(tx'[a], tx'[d])
    <3>1. CASE a = c
      BY <1>2, <3>1, IdleApart
    <3>2. CASE d = c
      <4>1. Apart(Idle, tx[a]) /\ tx'[a] = tx[a] /\ tx'[d] = Idle
        BY <1>2, <2>2, <3>2, IdleApart
      <4> QED
        BY <4>1 DEF Apart
    <3>3. CASE a # c /\ d # c
      BY <1>2, <2>2, <3>3 DEF SeatInvariant, LocksExclude
    <3> QED
      BY <3>1, <3>2, <3>3
  <2> QED
    BY <2>1, <2>2
<1>7. ReadsStayTrue'
  <2> SUFFICES ASSUME NEW d \in Clients PROVE ReadsTrue(tx[d])'
    BY DEF ReadsStayTrue
  <2>1. CASE d = c
    BY <1>2, <2>1 DEF ReadsTrue, Idle, NoWrites
  <2>2. CASE d # c
    BY <1>1, <1>2, <1>3, <2>2 DEF ReadsTrue
  <2> QED
    BY <2>1, <2>2
<1>8. \A b \in Bookings \ revived' : Occupies(bookings'[b], clock) => b \in Counted
  BY <1>1 DEF Seen, Uncounted, Counted
<1>9. CASE tx[c].hasTrip
  <2>1. WholeTripFits(c)
    BY <1>1, <1>9 DEF SeatInvariant, StagedFits, StagedFit
  <2>2. NoOversell'
    <3> DEFINE S == Bookings \ revived'
               new == bookings'
    <3>1. Cardinality(SeatsOf(S, new, clock)) <= Cardinality(SeatsOf(Counted, Seen(c), clock))
      BY <1>1, <1>8, SomeMonotone
    <3>2. tx[c].trip.capacity \in Int
      BY TransactionFields, SalesAssumption DEF SeatInvariant, TripRow
    <3>3. Cardinality(SeatsOf(S, new, clock)) <= tx[c].trip.capacity
      BY <2>1, <3>1, <3>2, SomeHeld DEF WholeTripFits
    <3> QED
      BY <1>1, <1>9, <3>3 DEF NoOversell
  <2>3. StagedFits'
    <3> SUFFICES ASSUME NEW d \in Clients PROVE StagedFit(d)'
      BY DEF StagedFits
    <3>1. CASE d = c
      BY <1>2, <3>1 DEF StagedFit, Idle, WithoutTrip
    <3>2. CASE d # c
      <4>1. tx'[d] = tx[d] /\ ~tx[d].hasTrip /\ \A b \in tx[d].locks : bookings'[b] = bookings[b]
        BY <1>2, <1>3, <1>5, <1>9, <3>2
      <4> QED
        BY <4>1, StillNoGain DEF StagedFit
    <3> QED
      BY <3>1, <3>2
  <2> QED
    BY <1>6, <1>7, <2>2, <2>3 DEF SeatInvariant
<1>10. CASE ~tx[c].hasTrip
  <2>1. NoRowGains(c)
    BY <1>1, <1>10 DEF SeatInvariant, StagedFits, StagedFit, LocksExclude, Disciplined
  <2>2. \A b \in Bookings : /\ bookings'[b].seats = bookings[b].seats
                            /\ bookings'[b].status = "none" => bookings'[b] = bookings[b]
    BY <1>1, <2>1 DEF NoRowGains, Seen
  <2>3. \A b \in Bookings \ revived' : Occupies(bookings'[b], clock) =>
          b \in Bookings \ revived /\ Occupies(bookings[b], clock)
    BY <1>1, <2>1 DEF Seen, Uncounted, NoRowGains
  <2>4. trip' = trip /\ trip.capacity \in Int
    BY <1>1, <1>10, SalesAssumption DEF SeatInvariant, TypeOK, TripRow
  <2>5. NoOversell'
    <3> DEFINE S == Bookings \ revived'
               new == bookings'
    <3>1. Cardinality(SeatsOf(S, new, clock))
            <= Cardinality(SeatsOf(Bookings \ revived, bookings, clock))
      BY <2>2, <2>3, SomeMonotone
    <3>2. Cardinality(SeatsOf(S, new, clock)) <= trip.capacity
      BY <2>4, <3>1, SomeHeld DEF SeatInvariant, NoOversell
    <3> QED
      BY <1>1, <2>4, <3>2 DEF NoOversell
  <2>6. StagedFits'
    <3> SUFFICES ASSUME NEW d \in Clients PROVE StagedFit(d)'
      BY DEF StagedFits
    <3>1. CASE d = c
      BY <1>2, <3>1 DEF StagedFit, Idle, WithoutTrip
    <3>2. CASE d # c
      <4>1. tx'[d] = tx[d] /\ \A b \in tx[d].locks : bookings'[b] = bookings[b]
        BY <1>2, <1>5, <3>2
      <4>2. \A b \in Counted' : b \in Counted
        BY <1>1, <2>2, <2>3 DEF Counted
      <4>3. \A b \in Counted' : Occupies(bookings'[b], clock') =>
              Occupies(bookings[b], clock) /\ bookings'[b].seats = bookings[b].seats
        BY <1>1, <2>2, <2>3 DEF Counted
      <4>4. /\ clock \in Int /\ clock' \in Int /\ clock <= clock'
            /\ bookings \in [Bookings -> BookingRow] /\ bookings' \in [Bookings -> BookingRow]
        BY <1>1, SalesAssumption DEF SeatInvariant, TypeOK
      <4>5. tx[d].pc = "staged" /\ tx[d].hasTrip => WholeTripFits(d)'
        BY <4>1, <4>2, <4>3, <4>4, StillFits
      <4> QED
        BY <4>1, <4>5, StillNoGain DEF StagedFit
    <3> QED
      BY <3>1, <3>2
  <2> QED
    BY <1>6, <1>7, <2>5, <2>6 DEF SeatInvariant
<1> QED
  BY <1>9, <1>10

\* A rollback leaves the rows as they were.
LEMMA SeatsOfRollback ==
  ASSUME SeatInvariant, TypeOK', NEW c \in Clients, Rollback(c)
  PROVE  SeatInvariant'
<1>1. /\ tx' = [tx EXCEPT ![c] = Idle]
      /\ UNCHANGED <<clock, trip, bookings, requests, revived, setBack>>
  BY DEF Rollback
<1>2. \A d \in Clients : tx'[d] = IF d = c THEN Idle ELSE tx[d]
  BY <1>1 DEF SeatInvariant, TypeOK
<1>3. LocksExclude'
  BY <1>2, IdleApart DEF SeatInvariant, LocksExclude, Apart
<1>4. ReadsStayTrue'
  BY <1>1, <1>2, IdleApart DEF SeatInvariant, ReadsStayTrue, ReadsTrue
<1>5. StagedFits'
  <2> SUFFICES ASSUME NEW d \in Clients PROVE StagedFit(d)'
    BY DEF StagedFits
  <2>1. CASE d = c
    BY <1>2, <2>1 DEF StagedFit, Idle, WithoutTrip
  <2>2. CASE d # c
    <3>1. tx'[d] = tx[d] /\ Seen(d)' = Seen(d) /\ Counted' = Counted
      BY <1>1, <1>2, <2>2 DEF Seen, Counted
    <3> QED
      BY <1>1, <3>1 DEF SeatInvariant, StagedFits, StagedFit, WholeTripFits, NoRowGains
  <2> QED
    BY <2>1, <2>2
<1>6. NoOversell'
  BY <1>1 DEF SeatInvariant, NoOversell
<1> QED
  BY <1>3, <1>4, <1>5, <1>6 DEF SeatInvariant

\* A sweep only releases seats, and only of unlocked rows.
LEMMA SeatsOfSweep ==
  ASSUME SeatInvariant, TypeOK', ExpireBookingHolds \/ ListBookings
  PROVE  SeatInvariant'
<1>1. /\ UNCHANGED <<clock, trip, requests, tx, history>>
      /\ \A c \in Clients : tx[c].locks \cap DueRows(clock) = {}
      /\ \A b \in Bookings :
           bookings'[b] = bookings[b] \/ (/\ b \in DueRows(clock)
                                          /\ bookings'[b].status = "expired")
  <2>1. \A r \in BookingRow :
          Expired(r).status = "expired" /\ Expired(CancelPayment(r)).status = "expired"
    BY DEF Expired, CancelPayment, BookingRow
  <2> QED
    BY <2>1 DEF ExpireBookingHolds, ListBookings, SeatInvariant, TypeOK
<1>2. \A b \in Bookings : Occupies(bookings'[b], clock) => bookings'[b] = bookings[b]
  BY <1>1 DEF Occupies, BookingPhase
<1>3. \A d \in Clients : \A b \in tx[d].locks : bookings'[b] = bookings[b]
  <2>1. \A d \in Clients : tx[d].locks \subseteq Bookings
    BY TransactionFields DEF SeatInvariant
  <2> QED
    BY <1>1, <2>1
<1>4. trip.capacity \in Int
  BY SalesAssumption DEF SeatInvariant, TypeOK, TripRow
<1>5. NoOversell'
  <2> DEFINE new == bookings'
  <2>1. Cardinality(SeatsOf(Bookings \ revived, new, clock))
          <= Cardinality(SeatsOf(Bookings \ revived, bookings, clock))
    BY <1>2, SomeMonotone
  <2>2. Cardinality(SeatsOf(Bookings \ revived, new, clock)) <= trip.capacity
    BY <1>4, <2>1, SomeHeld DEF SeatInvariant, NoOversell
  <2> QED
    BY <1>1, <2>2 DEF NoOversell, history
<1>6. StagedFits'
  <2> SUFFICES ASSUME NEW d \in Clients PROVE StagedFit(d)'
    BY DEF StagedFits
  <2>1. tx'[d] = tx[d] /\ \A b \in tx[d].locks : bookings'[b] = bookings[b]
    BY <1>1, <1>3
  <2>2. \A b \in Counted' : b \in Counted
    BY <1>1, <1>2 DEF Counted, history
  <2>3. \A b \in Counted' : Occupies(bookings'[b], clock') =>
          Occupies(bookings[b], clock) /\ bookings'[b].seats = bookings[b].seats
    BY <1>1, <1>2 DEF Counted
  <2>4. /\ clock \in Int /\ clock' \in Int /\ clock <= clock'
        /\ bookings \in [Bookings -> BookingRow] /\ bookings' \in [Bookings -> BookingRow]
    BY <1>1, SalesAssumption DEF SeatInvariant, TypeOK
  <2>5. tx[d].pc = "staged" /\ tx[d].hasTrip => WholeTripFits(d)'
    BY <2>1, <2>2, <2>3, <2>4, StillFits
  <2> QED
    BY <2>1, <2>5, StillNoGain DEF StagedFit
<1>7. LocksExclude' /\ ReadsStayTrue'
  BY <1>1 DEF SeatInvariant, LocksExclude, ReadsStayTrue, ReadsTrue
<1> QED
  BY <1>5, <1>6, <1>7 DEF SeatInvariant

\* Time only releases seats.
LEMMA SeatsOfTick ==
  ASSUME SeatInvariant, TypeOK', Tick
  PROVE  SeatInvariant'
<1>1. /\ UNCHANGED <<trip, bookings, requests, tx, revived, setBack>>
      /\ clock \in Int /\ clock' \in Int /\ clock <= clock'
  BY SalesAssumption DEF SeatInvariant, TypeOK, Tick
<1>2. trip.capacity \in Int /\ bookings \in [Bookings -> BookingRow]
  BY SalesAssumption DEF SeatInvariant, TypeOK, TripRow
<1>3. \A b \in Bookings : Occupies(bookings[b], clock') => Occupies(bookings[b], clock)
  BY <1>1, <1>2, OccupiesEarlier
<1>4. NoOversell'
  <2> DEFINE later == clock'
  <2>1. Cardinality(SeatsOf(Bookings \ revived, bookings, later))
          <= Cardinality(SeatsOf(Bookings \ revived, bookings, clock))
    BY <1>3, SomeMonotone
  <2>2. Cardinality(SeatsOf(Bookings \ revived, bookings, later)) <= trip.capacity
    BY <1>2, <2>1, SomeHeld DEF SeatInvariant, NoOversell
  <2> QED
    BY <1>1, <2>2 DEF NoOversell
<1>5. StagedFits'
  <2> SUFFICES ASSUME NEW d \in Clients PROVE StagedFit(d)'
    BY DEF StagedFits
  <2>1. tx'[d] = tx[d] /\ \A b \in tx[d].locks : bookings'[b] = bookings[b]
    BY <1>1
  <2>2. \A b \in Counted' : b \in Counted
    BY <1>1, <1>3 DEF Counted
  <2>3. \A b \in Counted' : Occupies(bookings'[b], clock') =>
          Occupies(bookings[b], clock) /\ bookings'[b].seats = bookings[b].seats
    BY <1>1, <1>3 DEF Counted
  <2>4. bookings' \in [Bookings -> BookingRow]
    BY <1>1, <1>2
  <2>5. tx[d].pc = "staged" /\ tx[d].hasTrip => WholeTripFits(d)'
    BY <1>1, <1>2, <2>1, <2>2, <2>3, <2>4, StillFits
  <2> QED
    BY <2>1, <2>5, StillNoGain DEF StagedFit
<1>6. LocksExclude' /\ ReadsStayTrue'
  BY <1>1 DEF SeatInvariant, LocksExclude, ReadsStayTrue, ReadsTrue
<1> QED
  BY <1>4, <1>5, <1>6 DEF SeatInvariant

\* A statement goes on to its next line without another lock.
LEMMA SeatsOfNextLine ==
  ASSUME SeatInvariant, TypeOK', NEW c \in Clients, NextLine(c)
  PROVE  SeatInvariant'
<1>1. PICK b \in Bookings : tx' = [tx EXCEPT ![c].pc = "booking", ![c].booking = b]
  BY DEF NextLine
<1>2. PICK S \in SUBSET tx[c].locks : tx[c] \in Transaction(S)
  BY DEF SeatInvariant, TypeOK, WellFormed
<1>3. /\ tx' = [tx EXCEPT ![c] = tx'[c]]
      /\ UNCHANGED <<clock, trip, bookings, requests, history>>
      /\ tx'[c] = [tx[c] EXCEPT !.pc = "booking", !.booking = b]
      /\ tx[c].op = "syncBank" /\ tx[c].pc = "staged"
  BY <1>1 DEF SeatInvariant, TypeOK, NextLine
<1>4. /\ tx'[c].pc = "booking" /\ tx'[c].hasTrip = tx[c].hasTrip /\ tx'[c].op = tx[c].op
      /\ tx'[c].locks = tx[c].locks /\ tx'[c].writes = tx[c].writes
  BY <1>2, <1>3 DEF Transaction
<1>5. Disciplined(tx'[c]) /\ \A d \in Clients \ {c} : Apart(tx'[c], tx[d])
  BY <1>3, <1>4 DEF SeatInvariant, LocksExclude, Disciplined, Apart, WithoutTrip
<1>6. ReadsTrue(tx'[c])
  BY <1>3, <1>4 DEF SeatInvariant, LocksExclude, Disciplined, WithoutTrip, ReadsTrue
<1>7. StagedFit(c)'
  BY <1>3, <1>4 DEF SeatInvariant, StagedFits, StagedFit, NoRowGains
<1> QED
  BY <1>3, <1>5, <1>6, <1>7, SeatsOfOneSession

\* Initially nothing is held and nobody has a lock.
LEMMA SeatInit == Init => SeatInvariant
<1> SUFFICES ASSUME Init PROVE SeatInvariant
  OBVIOUS
<1>1. TypeOK
  BY TypeInit
<1>2. \A c \in Clients : tx[c] = Idle
  BY DEF Init
<1>3. LocksExclude /\ ReadsStayTrue /\ StagedFits
  <2>1. LocksExclude
    BY <1>2, IdleApart DEF LocksExclude
  <2>2. ReadsStayTrue
    BY <1>2, IdleApart DEF ReadsStayTrue
  <2>3. \A c \in Clients : tx[c].pc = "idle" /\ tx[c].op = "none"
    BY <1>2 DEF Idle
  <2> QED
    BY <2>1, <2>2, <2>3 DEF StagedFits, StagedFit, WithoutTrip
<1>4. NoOversell
  <2>1. \A b \in Bookings : ~Occupies(bookings[b], clock)
    BY DEF Init, EmptyRow, Occupies, BookingPhase
  <2>2. SeatsOf(Bookings \ revived, bookings, clock) = {}
    BY <2>1 DEF SeatsOf, SeatsHeld
  <2>3. trip.capacity \in Nat
    BY SalesAssumption DEF Init
  <2> QED
    BY <2>2, <2>3, FS_EmptySet DEF NoOversell
<1> QED
  BY <1>1, <1>3, <1>4 DEF SeatInvariant

\* The seat invariant is inductive.
LEMMA SeatNext ==
  ASSUME SeatInvariant, [Next]_vars
  PROVE  SeatInvariant'
<1>1. TypeOK'
  BY TypeNext DEF SeatInvariant
<1>2. CASE UNCHANGED vars
  BY <1>2 DEF vars, history, SeatInvariant, TypeOK, WellFormed, LocksExclude, ReadsStayTrue,
     ReadsTrue, StagedFits, StagedFit, WholeTripFits, NoRowGains, Seen, Counted, NoOversell
<1>3. ASSUME NEW c \in Clients,
             BeginSale(c) \/ BeginBookingChange(c) \/ BeginTripChange(c)
      PROVE  SeatInvariant'
  BY <1>1, <1>3, SeatsOfBegin
<1>4. ASSUME NEW c \in Clients,
             LockTrip(c) \/ LockBooking(c) \/ LockKey(c) \/ LockDueRows(c)
      PROVE  SeatInvariant'
  BY <1>1, <1>4, SeatsOfLock
<1>5. ASSUME NEW c \in Clients, Decide(c)
      PROVE  SeatInvariant'
  BY <1>1, <1>5, SeatsOfSale, SeatsOfBookingChange, SeatsOfAddPassenger, SeatsOfTripChange
     DEF Decide
<1>6. ASSUME NEW c \in Clients, NextLine(c) \/ Commit(c) \/ Rollback(c)
      PROVE  SeatInvariant'
  BY <1>1, <1>6, SeatsOfNextLine, SeatsOfCommit, SeatsOfRollback
<1>7. CASE ExpireBookingHolds \/ ListBookings
  BY <1>1, <1>7, SeatsOfSweep
<1>8. CASE Tick
  BY <1>1, <1>8, SeatsOfTick
<1> QED
  BY <1>2, <1>3, <1>4, <1>5, <1>6, <1>7, <1>8 DEF Next

\* However sales, payments, cancellations, edits of the trip and sweeps interleave,
\* and whatever staff set by hand, the bookings whose seats were counted fit into the
\* trip: it is overbooked by no more than the seats of revived bookings.
THEOREM NeverOversold == Spec => []NoOversell
<1>1. Init => SeatInvariant
  BY SeatInit
<1>2. SeatInvariant /\ [Next]_vars => SeatInvariant'
  BY SeatNext
<1>3. SeatInvariant => NoOversell
  BY DEF SeatInvariant
<1> QED
  BY <1>1, <1>2, <1>3, PTL DEF Spec


-----------------------------------------------------------------------------
\* What the handlers stage.

\* Session c sells row b as "row", next to the lapsed holds e that it expires.
Sold(c, b, row, e) ==
  /\ tx[c].pc = "decide" /\ tx[c].op \in Sales
  /\ bookings[b].status = "none"
  /\ Stage(c, b, tx[c].trip, [d \in DOMAIN e \cup {b} |-> IF d = b THEN row ELSE e[d]])
  /\ row.status \in {"awaiting_payment", "cash_on_boarding"}
  /\ row.seats \in 1..MaxSeats /\ row.payment # "paid"
  /\ row.key = IF tx[c].op = "publicCreateBooking" THEN tx[c].key ELSE None
  /\ tx[c].op = "publicCreateBooking" => KeyUnused(c)
  /\ \A d \in Bookings :
       Seen(c)[d].customer = row.customer => ~Occupies(Seen(c)[d], tx[c].now)
  /\ DOMAIN e \subseteq Bookings
  /\ \A d \in DOMAIN e :
       /\ bookings[d].status = "awaiting_payment" /\ HoldDue(bookings[d], tx[c].now)
       /\ e[d] \in BookingRow /\ e[d].status = "expired"
       /\ e[d].seats = bookings[d].seats /\ e[d].customer = bookings[d].customer
       /\ e[d].key = bookings[d].key
       /\ e[d].hold = bookings[d].hold /\ e[d].method = bookings[d].method
       /\ e[d].payment = "paid" => bookings[d].payment = "paid"

\* Session c changes its booking into "row".
Changed(c, row) ==
  LET old == Locked(c) IN
  /\ tx[c].pc = "decide" /\ tx[c].op \in BookingChanges /\ StageBooking(c, row)
  /\ row.key = old.key /\ row.customer = old.customer
  /\ tx[c].op # "bookingPassengers" => row.seats = old.seats
  /\ row.hold \in {old.hold, NoHold}
  /\ \/ /\ tx[c].op = "updateBooking"
        /\ ~TerminalBooking(old.status) /\ <<old.status, row.status>> \in ManualMoves
        /\ row.status # old.status /\ row.method = old.method
        /\ row.payment \in {old.payment, "cancelled"}
        /\ BookingPhase(row.status) # "cancelled" => row.hold = old.hold
     \/ /\ tx[c].op = "cancelTelegramBooking"
        /\ UniquelyActive(old.status) /\ row.status = "cancelled"
        /\ row.method = old.method /\ row.payment \in {old.payment, "cancelled"}
     \/ /\ tx[c].op = "confirmBookingPayment"
        /\ HoldStillLive(c) /\ row.status = "confirmed" /\ row.hold = NoHold
        /\ row.method = "bank_transfer" /\ old.method = "bank_transfer"
     \/ /\ tx[c].op = "chooseCashBooking" /\ row.hold = NoHold
        /\ HoldStillLive(c) /\ row.status = "cash_on_boarding" /\ row.payment = "pending"
     \/ /\ tx[c].op = "setTelegramPaymentMethod"
        /\ HoldStillLive(c) /\ row.status = old.status /\ row.hold = old.hold
        /\ row.method = "bank_transfer" /\ row.payment = "pending"
     \/ /\ tx[c].op = "bookingPassengers"
        /\ ~TerminalBooking(old.status) /\ row = [old EXCEPT !.seats = @ + 1]
        /\ row.status = old.status /\ row.hold = old.hold /\ row.seats = old.seats + 1
        /\ row.method = old.method /\ row.payment = old.payment

\* The statement of session c goes on with the row images w: bookings that its lines
\* confirm, none but the present one new among them.
Lined(c, w) ==
  /\ tx[c].pc = "decide" /\ tx[c].op = "syncBank"
  /\ Stage(c, tx[c].booking, tx[c].trip, w)
  /\ DOMAIN w \subseteq Bookings
  /\ \A d \in DOMAIN w :
       /\ bookings[d].status = "awaiting_payment" /\ bookings[d].payment = "pending"
       /\ w[d] = Confirmed(bookings[d])
       /\ d \in DOMAIN tx[c].writes \/ (d = tx[c].booking /\ HoldStillLive(c))

\* Session c changes the trip into t and closes the bookings in w.
TripChanged(c, t, w) ==
  /\ tx[c].pc = "decide" /\ tx[c].op \in {"updateTrip", "changeTripStatus"}
  /\ Stage(c, None, t, w)
  /\ tx[c].op = "updateTrip" => DOMAIN w = {}
  /\ tx[c].op = "changeTripStatus" => t.capacity = tx[c].trip.capacity
  /\ DOMAIN w \subseteq Bookings
  /\ \A b \in DOMAIN w :
       /\ BookingPhase(bookings[b].status) = "confirmed"
       /\ w[b].status \in {"cancelled", "completed"}
       /\ w[b].seats = bookings[b].seats /\ w[b].customer = bookings[b].customer
       /\ w[b].key = bookings[b].key /\ w[b].method = bookings[b].method
       /\ w[b].hold = bookings[b].hold
       /\ w[b].payment = bookings[b].payment

\* An expired row differs in its status, and in a payment that is cancelled.
LEMMA ExpiredFields ==
  ASSUME NEW r \in BookingRow, NEW x, x = Expired(r) \/ x = Expired(CancelPayment(r))
  PROVE  /\ x \in BookingRow /\ x.status = "expired"
         /\ x.seats = r.seats /\ x.customer = r.customer /\ x.key = r.key
         /\ x.hold = r.hold /\ x.method = r.method
         /\ x.payment = "paid" => r.payment = "paid"
<1>1. "expired" \in BookingStatus /\ "cancelled" \in PaymentStatus
  BY DEF BookingStatus, PaymentStatus
<1> QED
  BY <1>1 DEF Expired, CancelPayment, BookingRow

\* An insert by one of the channels is a sale in the sense above.
LEMMA InsertIsSale ==
  ASSUME NEW c \in Clients, NEW row, NEW e,
         tx[c].pc = "decide", tx[c].op \in Sales, Insert(c, row, e),
         row.status \in {"awaiting_payment", "cash_on_boarding"},
         row.seats \in 1..MaxSeats, row.payment # "paid",
         row.key = IF tx[c].op = "publicCreateBooking" THEN tx[c].key ELSE None,
         tx[c].op = "publicCreateBooking" => KeyUnused(c),
         \A d \in Bookings :
           Seen(c)[d].customer = row.customer => ~Occupies(Seen(c)[d], tx[c].now),
         DOMAIN e \subseteq Bookings,
         \A d \in DOMAIN e :
           /\ bookings[d] \in BookingRow
           /\ bookings[d].status = "awaiting_payment" /\ HoldDue(bookings[d], tx[c].now)
           /\ e[d] = Expired(bookings[d]) \/ e[d] = Expired(CancelPayment(bookings[d]))
  PROVE  \E b \in Bookings : Sold(c, b, row, e)
<1>1. PICK b \in Bookings :
        /\ bookings[b].status = "none"
        /\ Stage(c, b, tx[c].trip, [d \in DOMAIN e \cup {b} |-> IF d = b THEN row ELSE e[d]])
  BY DEF Insert
<1>2. ASSUME NEW d \in DOMAIN e
      PROVE  /\ e[d] \in BookingRow /\ e[d].status = "expired"
             /\ e[d].seats = bookings[d].seats /\ e[d].customer = bookings[d].customer
             /\ e[d].key = bookings[d].key
             /\ e[d].hold = bookings[d].hold /\ e[d].method = bookings[d].method
             /\ e[d].payment = "paid" => bookings[d].payment = "paid"
  BY ExpiredFields
<1>3. Sold(c, b, row, e)
  BY <1>1, <1>2 DEF Sold
<1> QED
  BY <1>3

\* Each channel sells one new booking to a customer who holds no seats.
LEMMA SaleStages ==
  ASSUME RowsInvariant, NEW c \in Clients,
         PublicCreateBooking(c) \/ BotCreateBooking(c) \/ CreateBooking(c)
  PROVE  \E b, row, e : b \in Bookings /\ Sold(c, b, row, e)
<1>1. /\ TypeOK /\ RowsSound(c)
      /\ \A d \in Bookings : bookings[d] \in BookingRow
  BY DEF RowsInvariant, TypeOK
<1>2. tx[c].pc = "decide" /\ tx[c].op \in Sales
  BY DEF PublicCreateBooking, BotCreateBooking, CreateBooking, Deciding, Sales
<1>3. CASE PublicCreateBooking(c)
  <2>1. PICK cust \in Customers, n \in 1..MaxSeats, method \in {"cash", "bank_transfer"} :
          LET due == {b \in DueRows(tx[c].now) : bookings[b].customer = cust}
              row == IF method = "bank_transfer"
                     THEN NewRow("awaiting_payment", cust, n, clock + HoldLength,
                                 "pending", "bank_transfer", tx[c].key)
                     ELSE NewRow("cash_on_boarding", cust, n, NoHold,
                                 "none", "none", tx[c].key)
          IN  ~HasActiveBooking(c, cust) /\ Insert(c, row, [b \in due |-> Expired(bookings[b])])
    BY <1>3 DEF PublicCreateBooking
  <2> DEFINE due == {b \in DueRows(tx[c].now) : bookings[b].customer = cust}
             e == [b \in due |-> Expired(bookings[b])]
             row == IF method = "bank_transfer"
                    THEN NewRow("awaiting_payment", cust, n, clock + HoldLength,
                                "pending", "bank_transfer", tx[c].key)
                    ELSE NewRow("cash_on_boarding", cust, n, NoHold,
                                "none", "none", tx[c].key)
  <2>2. /\ row.status \in {"awaiting_payment", "cash_on_boarding"} /\ row.seats = n
        /\ row.payment # "paid" /\ row.key = tx[c].key /\ row.customer = cust
    BY DEF NewRow
  <2>3. Insert(c, row, e) /\ ~HasActiveBooking(c, cust)
    BY <2>1
  <2>4. tx[c].op = "publicCreateBooking" /\ KeyUnused(c)
    BY <1>3 DEF PublicCreateBooking, Deciding
  <2>5. \A d \in Bookings : Seen(c)[d].customer = cust => ~Occupies(Seen(c)[d], tx[c].now)
    BY <2>3 DEF HasActiveBooking
  <2>6. /\ DOMAIN e \subseteq Bookings
        /\ \A d \in DOMAIN e :
             /\ bookings[d].status = "awaiting_payment" /\ HoldDue(bookings[d], tx[c].now)
             /\ e[d] = Expired(bookings[d])
    BY DEF DueRows
  <2> HIDE DEF row, e, due
  <2>7. \E b \in Bookings : Sold(c, b, row, e)
    BY <1>1, <1>2, <2>2, <2>3, <2>4, <2>5, <2>6, InsertIsSale
  <2> QED
    BY <2>7
<1>4. CASE BotCreateBooking(c)
  <2>1. PICK cust \in Customers, n \in 1..MaxSeats :
          /\ ~BotAlreadyBooked(c, cust)
          /\ Insert(c, NewRow("awaiting_payment", cust, n, tx[c].now + HoldLength,
                              "pending", "none", None), tx[c].writes)
    BY <1>4 DEF BotCreateBooking
  <2> DEFINE row == NewRow("awaiting_payment", cust, n, tx[c].now + HoldLength,
                           "pending", "none", None)
  <2>2. /\ row.status = "awaiting_payment" /\ row.seats = n
        /\ row.payment # "paid" /\ row.key = None /\ row.customer = cust
    BY DEF NewRow
  <2>3. Insert(c, row, tx[c].writes)
    BY <2>1
  <2>4. tx[c].op # "publicCreateBooking"
    BY <1>4 DEF BotCreateBooking, Deciding
  <2>5. \A d \in Bookings : Seen(c)[d].customer = cust => ~Occupies(Seen(c)[d], tx[c].now)
    BY <2>1 DEF BotAlreadyBooked, Occupies
  <2>6. /\ DOMAIN tx[c].writes \subseteq Bookings
        /\ \A d \in DOMAIN tx[c].writes :
             /\ bookings[d].status = "awaiting_payment" /\ HoldDue(bookings[d], tx[c].now)
             /\ tx[c].writes[d] = Expired(CancelPayment(bookings[d]))
    BY <1>1, <1>2, TransactionFields DEF RowsSound, DueWrite, Sales
  <2> HIDE DEF row
  <2>7. \E b \in Bookings : Sold(c, b, row, tx[c].writes)
    BY <1>1, <1>2, <2>2, <2>3, <2>4, <2>5, <2>6, InsertIsSale
  <2> QED
    BY <2>7
<1>5. CASE CreateBooking(c)
  <2>1. PICK cust \in Customers, n \in 1..MaxSeats :
          /\ ~HasActiveBooking(c, cust)
          /\ Insert(c, NewRow("cash_on_boarding", cust, n, NoHold, "none", "none", None),
                    NoWrites)
    BY <1>5 DEF CreateBooking
  <2> DEFINE row == NewRow("cash_on_boarding", cust, n, NoHold, "none", "none", None)
  <2>2. /\ row.status = "cash_on_boarding" /\ row.seats = n
        /\ row.payment # "paid" /\ row.key = None /\ row.customer = cust
    BY DEF NewRow
  <2>3. Insert(c, row, NoWrites)
    BY <2>1
  <2>4. tx[c].op # "publicCreateBooking"
    BY <1>5 DEF CreateBooking, Deciding
  <2>5. \A d \in Bookings : Seen(c)[d].customer = cust => ~Occupies(Seen(c)[d], tx[c].now)
    BY <2>1 DEF HasActiveBooking
  <2>6. DOMAIN NoWrites = {}
    BY DEF NoWrites
  <2> HIDE DEF row
  <2>7. \E b \in Bookings : Sold(c, b, row, NoWrites)
    BY <1>2, <2>2, <2>3, <2>4, <2>5, <2>6, InsertIsSale
  <2> QED
    BY <2>7
<1> QED
  BY <1>3, <1>4, <1>5

\* What the changes leave in a row's fields.
LEMMA ChangeFields ==
  ASSUME NEW old \in BookingRow
  PROVE  /\ \A s \in BookingStatus :
              LET row == [old EXCEPT !.status = s] IN
              /\ row.status = s /\ row.hold = old.hold /\ row.payment = old.payment
              /\ row.method = old.method /\ row.seats = old.seats
              /\ row.key = old.key /\ row.customer = old.customer
         /\ \A s \in BookingStatus :
              LET row == [CancelPayment(old) EXCEPT !.status = s, !.hold = NoHold] IN
              /\ row.status = s /\ row.payment \in {old.payment, "cancelled"} /\ row.hold = NoHold
              /\ row.method = old.method /\ row.seats = old.seats
              /\ row.key = old.key /\ row.customer = old.customer
         /\ LET row == Confirmed(old) IN
            /\ row.status = "confirmed" /\ row.method = old.method /\ row.seats = old.seats
            /\ row.hold = NoHold /\ row.payment = "paid"
            /\ row.key = old.key /\ row.customer = old.customer
         /\ LET row == [old EXCEPT !.status = "cash_on_boarding", !.hold = NoHold,
                                   !.method = "cash"] IN
            /\ row.status = "cash_on_boarding" /\ row.payment = old.payment /\ row.hold = NoHold
            /\ row.seats = old.seats /\ row.key = old.key /\ row.customer = old.customer
         /\ LET row == [old EXCEPT !.method = "bank_transfer"] IN
            /\ row.status = old.status /\ row.hold = old.hold /\ row.payment = old.payment
            /\ row.method = "bank_transfer" /\ row.seats = old.seats
            /\ row.key = old.key /\ row.customer = old.customer
         /\ LET row == [old EXCEPT !.seats = @ + 1] IN
            /\ row.status = old.status /\ row.hold = old.hold /\ row.payment = old.payment
            /\ row.method = old.method /\ row.seats = old.seats + 1
            /\ row.key = old.key /\ row.customer = old.customer
<1>1. \A s \in BookingStatus :
        LET row == [CancelPayment(old) EXCEPT !.status = s, !.hold = NoHold] IN
        /\ row.status = s /\ row.payment \in {old.payment, "cancelled"} /\ row.hold = NoHold
        /\ row.method = old.method /\ row.seats = old.seats
        /\ row.key = old.key /\ row.customer = old.customer
  BY DEF CancelPayment, BookingRow
<1> QED
  BY <1>1 DEF Confirmed, BookingRow

\* Each handler of one booking reads it under its lock and stages one image of it.
LEMMA ChangeStages ==
  ASSUME TypeOK, NEW c \in Clients,
         \/ UpdateBooking(c) \/ CancelTelegramBooking(c) \/ AddPassenger(c)
         \/ ConfirmBookingPayment(c) \/ ChooseCashBooking(c)
         \/ SetTelegramPaymentMethod(c)
  PROVE  \E row \in BookingRow : Changed(c, row)
<1>1. tx[c].op \in BookingChanges /\ tx[c].pc = "decide"
  BY DEF UpdateBooking, CancelTelegramBooking, AddPassenger, ConfirmBookingPayment,
         ChooseCashBooking, SetTelegramPaymentMethod, Deciding, BookingChanges
<1> DEFINE old == Locked(c)
<1>2. old \in BookingRow
  BY <1>1, TransactionFields
<1>3. CASE UpdateBooking(c)
  <2>1. PICK s \in BookingStatus :
          /\ tx[c].op = "updateBooking" /\ ~TerminalBooking(old.status)
          /\ s # old.status /\ <<old.status, s>> \in ManualMoves
          /\ \/ /\ BookingPhase(s) # "cancelled"
                /\ StageBooking(c, [old EXCEPT !.status = s])
             \/ /\ BookingPhase(s) = "cancelled"
                /\ StageBooking(c, [CancelPayment(old) EXCEPT !.status = s, !.hold = NoHold])
    BY <1>3 DEF UpdateBooking, Deciding
  <2>2. CASE /\ BookingPhase(s) # "cancelled"
             /\ StageBooking(c, [old EXCEPT !.status = s])
    <3> DEFINE row == [old EXCEPT !.status = s]
    <3>1. /\ row.status = s /\ row.hold = old.hold /\ row.payment = old.payment
          /\ row.method = old.method /\ row.seats = old.seats
          /\ row.key = old.key /\ row.customer = old.customer
      BY <1>2, ChangeFields
    <3>2. row \in BookingRow
      BY <1>2, ChangeTyped
    <3>3. StageBooking(c, row)
      BY <2>2
    <3> HIDE DEF row
    <3>4. Changed(c, row)
      BY <1>1, <2>1, <3>1, <3>3 DEF Changed
    <3> QED
      BY <3>2, <3>4
  <2>3. CASE /\ BookingPhase(s) = "cancelled"
             /\ StageBooking(c, [CancelPayment(old) EXCEPT !.status = s, !.hold = NoHold])
    <3> DEFINE row == [CancelPayment(old) EXCEPT !.status = s, !.hold = NoHold]
    <3>1. /\ row.status = s /\ row.payment \in {old.payment, "cancelled"} /\ row.hold = NoHold
          /\ row.method = old.method /\ row.seats = old.seats
          /\ row.key = old.key /\ row.customer = old.customer
      BY <1>2, ChangeFields
    <3>2. row \in BookingRow
      BY <1>2, ChangeTyped
    <3>3. StageBooking(c, row)
      BY <2>3
    <3> HIDE DEF row
    <3>4. Changed(c, row)
      BY <1>1, <2>1, <2>3, <3>1, <3>3 DEF Changed
    <3> QED
      BY <3>2, <3>4
  <2> QED
    BY <2>1, <2>2, <2>3
<1>4. CASE CancelTelegramBooking(c)
  <2> DEFINE row == [CancelPayment(old) EXCEPT !.status = "cancelled", !.hold = NoHold]
  <2>1. "cancelled" \in BookingStatus
    BY DEF BookingStatus
  <2>2. /\ row.status = "cancelled" /\ row.payment \in {old.payment, "cancelled"}
        /\ row.hold = NoHold
        /\ row.method = old.method /\ row.seats = old.seats
        /\ row.key = old.key /\ row.customer = old.customer
    BY <1>2, <2>1, ChangeFields
  <2>3. row \in BookingRow
    BY <1>2, <2>1, ChangeTyped
  <2>4. StageBooking(c, row) /\ UniquelyActive(old.status)
        /\ tx[c].op = "cancelTelegramBooking"
    BY <1>4 DEF CancelTelegramBooking, Deciding
  <2> HIDE DEF row
  <2>5. Changed(c, row)
    BY <1>1, <2>2, <2>4 DEF Changed
  <2> QED
    BY <2>3, <2>5
<1>5. CASE ConfirmBookingPayment(c)
  <2> DEFINE row == Confirmed(old)
  <2>1. /\ row.status = "confirmed" /\ row.method = old.method /\ row.seats = old.seats
        /\ row.hold = NoHold
        /\ row.key = old.key /\ row.customer = old.customer
    BY <1>2, ChangeFields
  <2>2. row \in BookingRow
    BY <1>2, ChangeTyped
  <2>3. /\ StageBooking(c, row) /\ HoldStillLive(c)
        /\ tx[c].op = "confirmBookingPayment" /\ old.method = "bank_transfer"
    BY <1>5 DEF ConfirmBookingPayment, Deciding
  <2> HIDE DEF row
  <2>4. Changed(c, row)
    BY <1>1, <2>1, <2>3 DEF Changed
  <2> QED
    BY <2>2, <2>4
<1>6. CASE ChooseCashBooking(c)
  <2> DEFINE row == [old EXCEPT !.status = "cash_on_boarding", !.hold = NoHold,
                                !.method = "cash"]
  <2>1. /\ row.status = "cash_on_boarding" /\ row.payment = old.payment /\ row.hold = NoHold
        /\ row.seats = old.seats /\ row.key = old.key /\ row.customer = old.customer
    BY <1>2, ChangeFields
  <2>2. row \in BookingRow
    BY <1>2, ChangeTyped
  <2>3. StageBooking(c, row) /\ HoldStillLive(c) /\ old.payment = "pending"
        /\ tx[c].op = "chooseCashBooking"
    BY <1>6 DEF ChooseCashBooking, Deciding
  <2> HIDE DEF row
  <2>4. Changed(c, row)
    BY <1>1, <2>1, <2>3 DEF Changed
  <2> QED
    BY <2>2, <2>4
<1>7. CASE SetTelegramPaymentMethod(c)
  <2> DEFINE row == [old EXCEPT !.method = "bank_transfer"]
  <2>1. /\ row.status = old.status /\ row.hold = old.hold /\ row.payment = old.payment
        /\ row.method = "bank_transfer" /\ row.seats = old.seats
        /\ row.key = old.key /\ row.customer = old.customer
    BY <1>2, ChangeFields
  <2>2. row \in BookingRow
    BY <1>2, ChangeTyped
  <2>3. StageBooking(c, row) /\ HoldStillLive(c) /\ old.payment = "pending"
        /\ tx[c].op = "setTelegramPaymentMethod"
    BY <1>7 DEF SetTelegramPaymentMethod, Deciding
  <2> HIDE DEF row
  <2>4. Changed(c, row)
    BY <1>1, <2>1, <2>3 DEF Changed
  <2> QED
    BY <2>2, <2>4
<1>8. CASE AddPassenger(c)
  <2> DEFINE row == [old EXCEPT !.seats = @ + 1]
  <2>1. /\ row.status = old.status /\ row.hold = old.hold /\ row.payment = old.payment
        /\ row.method = old.method /\ row.seats = old.seats + 1
        /\ row.key = old.key /\ row.customer = old.customer
    BY <1>2, ChangeFields
  <2>2. row \in BookingRow
    BY <1>2, <1>8, ChangeTyped DEF AddPassenger
  <2>3. StageBooking(c, row) /\ ~TerminalBooking(old.status)
        /\ tx[c].op = "bookingPassengers"
    BY <1>8 DEF AddPassenger, Deciding
  <2>4. row = [old EXCEPT !.seats = @ + 1]
    OBVIOUS
  <2> HIDE DEF row
  <2>5. Changed(c, row)
    BY <1>1, <2>1, <2>3, <2>4 DEF Changed
  <2> QED
    BY <2>2, <2>5
<1> QED
  BY <1>3, <1>4, <1>5, <1>6, <1>7, <1>8

\* A line that is matched in time adds its booking to those of the lines before it.
LEMMA LineStages ==
  ASSUME RowsInvariant, NEW c \in Clients, MatchBankPayment(c)
  PROVE  \E w : Lined(c, w)
<1> DEFINE b == tx[c].booking
           W == DOMAIN tx[c].writes
           w == [d \in W \cup {b} |-> IF d = b THEN Confirmed(Locked(c)) ELSE tx[c].writes[d]]
<1>1. tx[c].pc = "decide" /\ tx[c].op = "syncBank" /\ b \in Bookings
  BY TransactionFields DEF MatchBankPayment, Deciding, RowsInvariant, BookingChanges
<1>2. /\ W \subseteq Bookings
      /\ \A d \in W : /\ bookings[d].status = "awaiting_payment"
                      /\ bookings[d].payment = "pending"
                      /\ tx[c].writes[d] = Confirmed(bookings[d])
  BY <1>1, TransactionFields DEF RowsInvariant, RowsSound, LineWrite
<1>3. CASE Stage(c, b, tx[c].trip, tx[c].writes)
  <2>1. Lined(c, tx[c].writes)
    BY <1>1, <1>2, <1>3 DEF Lined
  <2> QED
    BY <2>1
<1>4. CASE StageLine(c, Confirmed(Locked(c))) /\ HoldStillLive(c) /\ Locked(c).payment = "pending"
  <2>1. Stage(c, b, tx[c].trip, w)
    BY <1>4 DEF StageLine
  <2>2. \A d \in DOMAIN w :
          /\ d \in Bookings
          /\ bookings[d].status = "awaiting_payment" /\ bookings[d].payment = "pending"
          /\ w[d] = Confirmed(bookings[d])
          /\ d \in DOMAIN tx[c].writes \/ d = b
    BY <1>1, <1>2, <1>4 DEF HoldStillLive, Locked
  <2> HIDE DEF w
  <2>3. Lined(c, w)
    BY <1>1, <1>4, <2>1, <2>2 DEF Lined
  <2> QED
    BY <2>3
<1> QED
  BY <1>3, <1>4 DEF MatchBankPayment

\* Each handler of the trip keeps the bookings, or closes confirmed ones.
LEMMA TripStages ==
  ASSUME TypeOK, NEW c \in Clients, UpdateTrip(c) \/ ChangeTripStatus(c)
  PROVE  \E t, w : TripChanged(c, t, w)
<1>1. /\ tx[c].pc = "decide" /\ tx[c].trip \in TripRow
      /\ bookings \in [Bookings -> BookingRow] /\ DOMAIN NoWrites = {}
  BY TransactionFields DEF TypeOK, UpdateTrip, ChangeTripStatus, Deciding, NoWrites
<1>2. CASE UpdateTrip(c)
  <2>1. PICK n \in 1..VehicleCapacity, d \in Departures :
          Stage(c, None, [tx[c].trip EXCEPT !.capacity = n, !.departs = d], NoWrites)
    BY <1>2 DEF UpdateTrip
  <2>2. tx[c].op = "updateTrip"
    BY <1>2 DEF UpdateTrip, Deciding
  <2> QED
    BY <1>1, <2>1, <2>2 DEF TripChanged
<1>3. CASE ChangeTripStatus(c)
  <2>1. PICK s \in TripMoves :
          LET next == [tx[c].trip EXCEPT !.status = s]
          IN  \/ \E absent \in SUBSET Bookings :
                   Stage(c, None, next, CompletionWrites(c, absent))
              \/ Stage(c, None, next, NoWrites)
    BY <1>3 DEF ChangeTripStatus
  <2> DEFINE next == [tx[c].trip EXCEPT !.status = s]
  <2>2. next.capacity = tx[c].trip.capacity
    BY <1>1 DEF TripRow
  <2>3. tx[c].op = "changeTripStatus"
    BY <1>3 DEF ChangeTripStatus, Deciding
  <2>4. CASE Stage(c, None, next, NoWrites)
    <3> HIDE DEF next
    <3> QED
      BY <1>1, <2>2, <2>3, <2>4 DEF TripChanged
  <2>5. CASE \E absent \in SUBSET Bookings :
               Stage(c, None, next, CompletionWrites(c, absent))
    <3>1. PICK absent \in SUBSET Bookings :
            Stage(c, None, next, CompletionWrites(c, absent))
      BY <2>5
    <3> DEFINE w == CompletionWrites(c, absent)
    <3>2. /\ DOMAIN w \subseteq Bookings
          /\ \A b \in DOMAIN w :
               /\ BookingPhase(bookings[b].status) = "confirmed"
               /\ w[b] = [bookings[b] EXCEPT !.status = IF b \in absent THEN "cancelled"
                                                                       ELSE "completed"]
      BY DEF CompletionWrites
    <3>3. \A b \in DOMAIN w :
            /\ w[b].status \in {"cancelled", "completed"}
            /\ w[b].seats = bookings[b].seats /\ w[b].customer = bookings[b].customer
            /\ w[b].key = bookings[b].key /\ w[b].method = bookings[b].method
            /\ w[b].hold = bookings[b].hold
            /\ w[b].payment = bookings[b].payment
      BY <1>1, <3>2 DEF BookingRow
    <3> HIDE DEF w, next
    <3>4. Stage(c, None, next, w)
      BY <3>1 DEF w
    <3> QED
      BY <1>1, <2>2, <2>3, <3>2, <3>3, <3>4 DEF TripChanged
  <2> QED
    BY <2>1, <2>4, <2>5
<1> QED
  BY <1>2, <1>3

\* What a decision leaves in the state.
LEMMA StageLeaves ==
  ASSUME TypeOK, NEW c \in Clients, NEW b, NEW t, NEW w, Stage(c, b, t, w)
  PROVE  /\ UNCHANGED <<clock, trip, bookings, requests, history>>
         /\ \A d \in Clients \ {c} : tx'[d] = tx[d]
         /\ tx'[c].pc = "staged" /\ tx'[c].op = tx[c].op /\ tx'[c].now = tx[c].now
         /\ tx'[c].key = tx[c].key /\ tx'[c].hasTrip = tx[c].hasTrip
         /\ tx'[c].booking = b /\ tx'[c].trip = t /\ tx'[c].writes = w
         /\ tx'[c].locks = tx[c].locks \cup DOMAIN w
         /\ Unlocked(c, DOMAIN w)
<1>1. PICK S \in SUBSET tx[c].locks : tx[c] \in Transaction(S)
  BY DEF TypeOK, WellFormed
<1>2. /\ UNCHANGED <<clock, trip, bookings, requests, history>>
      /\ \A d \in Clients \ {c} : tx'[d] = tx[d]
      /\ tx'[c] = [tx[c] EXCEPT !.pc = "staged", !.booking = b, !.trip = t,
                                !.writes = w, !.locks = @ \cup DOMAIN w]
      /\ Unlocked(c, DOMAIN w)
  BY DEF TypeOK, Stage
<1> QED
  BY <1>1, <1>2 DEF Transaction

-----------------------------------------------------------------------------
\* Row images follow from the committed rows.

\* Rows that a session has locked stay as it read them, and no booking disappears:
\* what the session holds stays sound.
LEMMA RowsKept ==
  ASSUME RowsInvariant, NEW d \in Clients, tx'[d] = tx[d],
         \A b \in tx[d].locks : bookings'[b] = bookings[b],
         \A b \in Bookings : bookings[b].status # "none" => bookings'[b].status # "none"
  PROVE  RowsSound(d)'
<1>1. RowsSound(d)
  BY DEF RowsInvariant
<1>2. /\ DOMAIN tx[d].writes \subseteq tx[d].locks
      /\ tx[d].op \in BookingChanges => tx[d].booking \in Bookings
  BY TransactionFields DEF RowsInvariant
<1> QED
  BY <1>1, <1>2 DEF RowsSound, DueWrite, LineWrite, Locked

\* A step of one session that leaves the rows alone.
LEMMA RowsOfOneSession ==
  ASSUME RowsInvariant, TypeOK', NEW c \in Clients,
         bookings' = bookings, \A d \in Clients \ {c} : tx'[d] = tx[d],
         \A d \in Clients \ {c} : tx'[c].locks \cap tx[d].locks = {},
         RowsSound(c)'
  PROVE  RowsInvariant'
<1>1. LocksApart'
  <2> SUFFICES ASSUME NEW a \in Clients, NEW d \in Clients \ {a}
               PROVE  tx'[a].locks \cap tx'[d].locks = {}
    BY DEF LocksApart
  <2>1. tx[a].locks \cap tx[d].locks = {}
    BY DEF RowsInvariant, LocksApart
  <2> QED
    BY <2>1
<1>2. \A d \in Clients \ {c} : RowsSound(d)'
  BY RowsKept
<1> QED
  BY <1>1, <1>2 DEF RowsInvariant

\* The locks of other sessions.
LEMMA OthersApart ==
  ASSUME RowsInvariant, NEW c \in Clients
  PROVE  \A d \in Clients \ {c} : tx[c].locks \cap tx[d].locks = {}
BY DEF RowsInvariant, LocksApart

\* What a beginning leaves: no lock, no row image.
LEMMA OpenLeaves ==
  ASSUME TypeOK, NEW c \in Clients, NEW op, NEW b, NEW k, NEW n, Open(c, op, b, k, n)
  PROVE  /\ UNCHANGED <<clock, trip, bookings, requests, history>>
         /\ tx[c].pc = "idle"
         /\ \A d \in Clients \ {c} : tx'[d] = tx[d]
         /\ tx'[c].pc = FirstLock(op) /\ tx'[c].op = op /\ tx'[c].booking = b
         /\ tx'[c].key = k /\ tx'[c].locks = {} /\ DOMAIN tx'[c].writes = {}
<1>1. /\ UNCHANGED <<clock, trip, bookings, requests, history>> /\ tx[c].pc = "idle"
      /\ \A d \in Clients \ {c} : tx'[d] = tx[d]
      /\ tx'[c] = [Idle EXCEPT !.pc = FirstLock(op), !.op = op, !.now = clock,
                               !.booking = b, !.key = k, !.seen = n]
  BY DEF Open, TypeOK
<1>2. DOMAIN NoWrites = {}
  BY DEF NoWrites
<1> QED
  BY <1>1, <1>2 DEF Idle

\* What handlers begin with: a change of a booking names one that exists, only a
\* checkout has a key, and a transfer is matched with a booking that pays by it.
LEMMA Begins ==
  ASSUME NEW c \in Clients, BeginSale(c) \/ BeginBookingChange(c) \/ BeginTripChange(c)
  PROVE  \E op, b, k, n :
           /\ op \in AllOps /\ Open(c, op, b, k, n)
           /\ op \in BookingChanges => b \in Bookings /\ bookings[b].status # "none"
           /\ op # "publicCreateBooking" => k = None
           /\ op = "syncBank" => bookings[b].method = "bank_transfer"
<1>1. CASE BeginSale(c)
  BY <1>1 DEF BeginSale, AllOps, BookingChanges
<1>2. CASE BeginBookingChange(c)
  BY <1>2 DEF BeginBookingChange, AllOps, MatchedAt
<1>3. CASE BeginTripChange(c)
  BY <1>3 DEF BeginTripChange, AllOps, BookingChanges
<1> QED
  BY <1>1, <1>2, <1>3

\* What taking a lock leaves; only the bot's sweep writes.
LEMMA LockLeaves ==
  ASSUME TypeOK, NEW c \in Clients,
         LockTrip(c) \/ LockBooking(c) \/ LockKey(c) \/ LockDueRows(c)
  PROVE  /\ UNCHANGED <<clock, trip, bookings, requests, history>>
         /\ \A d \in Clients \ {c} : tx'[d] = tx[d]
         /\ tx'[c].pc \in {"trip", "booking", "decide"}
         /\ tx'[c].op = tx[c].op /\ tx'[c].booking = tx[c].booking
         /\ tx'[c].key = tx[c].key /\ tx'[c].now = tx[c].now
         /\ tx[c].pc # "key" \/ LockKey(c)
         /\ tx[c].pc # "staged"
         /\ \E L : tx'[c].locks = tx[c].locks \cup L /\ Unlocked(c, L)
         /\ \/ tx'[c].writes = tx[c].writes
            \/ /\ DOMAIN tx'[c].writes \subseteq Bookings /\ tx[c].pc = "due"
               /\ \A b \in DOMAIN tx'[c].writes :
                    /\ bookings[b].status = "awaiting_payment"
                    /\ HoldDue(bookings[b], tx[c].now)
                    /\ tx'[c].writes[b] = Expired(CancelPayment(bookings[b]))
<1> DEFINE next(lock) == LockAfter(tx[c].op, lock)
<1>1. PICK S \in SUBSET tx[c].locks : tx[c] \in Transaction(S)
  BY DEF TypeOK, WellFormed
<1>2. \A lock \in {"key", "due", "trip", "booking"} : next(lock) \in {"trip", "booking", "decide"}
  BY DEF LockAfter
<1>3. CASE LockTrip(c)
  <2>1. /\ UNCHANGED <<clock, trip, bookings, requests, history>>
        /\ \A d \in Clients \ {c} : tx'[d] = tx[d] /\ tx[c].pc = "trip"
        /\ tx'[c] = [tx[c] EXCEPT !.hasTrip = TRUE, !.trip = trip, !.pc = next("trip")]
        /\ tx[c].pc = "trip"
    BY <1>3 DEF LockTrip, TypeOK
  <2>2. /\ tx'[c].pc = next("trip") /\ tx'[c].op = tx[c].op
        /\ tx'[c].booking = tx[c].booking /\ tx'[c].key = tx[c].key
        /\ tx'[c].now = tx[c].now /\ tx'[c].writes = tx[c].writes
        /\ tx'[c].locks = tx[c].locks \cup {}
    BY <1>1, <2>1 DEF Transaction
  <2>3. Unlocked(c, {})
    BY DEF Unlocked
  <2> QED
    BY <1>2, <2>1, <2>2, <2>3
<1>4. CASE LockBooking(c)
  <2>1. /\ UNCHANGED <<clock, trip, bookings, requests, history>>
        /\ \A d \in Clients \ {c} : tx'[d] = tx[d]
        /\ tx'[c] = [tx[c] EXCEPT !.locks = @ \cup {tx[c].booking}, !.pc = next("booking")]
        /\ tx[c].pc = "booking" /\ Unlocked(c, {tx[c].booking})
    BY <1>4 DEF LockBooking, TypeOK
  <2>2. /\ tx'[c].pc = next("booking") /\ tx'[c].op = tx[c].op
        /\ tx'[c].booking = tx[c].booking /\ tx'[c].key = tx[c].key
        /\ tx'[c].now = tx[c].now /\ tx'[c].writes = tx[c].writes
        /\ tx'[c].locks = tx[c].locks \cup {tx[c].booking}
    BY <1>1, <2>1 DEF Transaction
  <2> QED
    BY <1>2, <2>1, <2>2
<1>5. CASE LockKey(c)
  <2>1. /\ UNCHANGED <<clock, trip, bookings, requests, history>>
        /\ \A d \in Clients \ {c} : tx'[d] = tx[d]
        /\ tx'[c] = [tx[c] EXCEPT !.pc = next("key")] /\ tx[c].pc = "key"
    BY <1>5 DEF LockKey, TypeOK
  <2>2. /\ tx'[c].pc = next("key") /\ tx'[c].op = tx[c].op
        /\ tx'[c].booking = tx[c].booking /\ tx'[c].key = tx[c].key
        /\ tx'[c].now = tx[c].now /\ tx'[c].writes = tx[c].writes
        /\ tx'[c].locks = tx[c].locks \cup {}
    BY <1>1, <2>1 DEF Transaction
  <2>3. Unlocked(c, {})
    BY DEF Unlocked
  <2> QED
    BY <1>2, <1>5, <2>1, <2>2, <2>3
<1>6. CASE LockDueRows(c)
  <2> DEFINE due == DueRows(tx[c].now)
             w == [b \in due |-> Expired(CancelPayment(bookings[b]))]
  <2>1. /\ UNCHANGED <<clock, trip, bookings, requests, history>>
        /\ \A d \in Clients \ {c} : tx'[d] = tx[d]
        /\ tx'[c] = [tx[c] EXCEPT !.locks = @ \cup due, !.writes = w, !.pc = next("due")]
        /\ tx[c].pc = "due" /\ Unlocked(c, due)
    BY <1>6 DEF LockDueRows, TypeOK
  <2>2. /\ DOMAIN w \subseteq Bookings
        /\ \A b \in DOMAIN w : /\ bookings[b].status = "awaiting_payment"
                               /\ HoldDue(bookings[b], tx[c].now)
                               /\ w[b] = Expired(CancelPayment(bookings[b]))
    BY DEF DueRows
  <2> HIDE DEF w, due
  <2>3. /\ tx'[c].pc = next("due") /\ tx'[c].op = tx[c].op
        /\ tx'[c].booking = tx[c].booking /\ tx'[c].key = tx[c].key
        /\ tx'[c].now = tx[c].now /\ tx'[c].writes = w
        /\ tx'[c].locks = tx[c].locks \cup due
    BY <1>1, <2>1 DEF Transaction
  <2> QED
    BY <1>2, <2>1, <2>2, <2>3
<1> QED
  BY <1>3, <1>4, <1>5, <1>6

\* A hold that ran out may be expired.
LEMMA DueFollows ==
  ASSUME NEW old \in BookingRow, NEW new, old.status = "awaiting_payment",
         new.status = "expired", new.key = old.key, new.customer = old.customer
  PROVE  Follows(old, new)
BY DEF Follows, TerminalBooking, BookingPhase

\* Beginning and locking keep the rows sound.
LEMMA RowsOfBegin ==
  ASSUME RowsInvariant, TypeOK', NEW c \in Clients,
         BeginSale(c) \/ BeginBookingChange(c) \/ BeginTripChange(c)
  PROVE  RowsInvariant'
<1>1. TypeOK
  BY DEF RowsInvariant
<1>2. PICK op, b, k, n :
        /\ op \in AllOps /\ Open(c, op, b, k, n)
        /\ op \in BookingChanges => bookings[b].status # "none"
  BY Begins, Zenon
<1>3. /\ bookings' = bookings /\ \A d \in Clients \ {c} : tx'[d] = tx[d]
      /\ tx'[c].op = op /\ tx'[c].booking = b /\ tx'[c].locks = {}
      /\ DOMAIN tx'[c].writes = {} /\ tx'[c].pc = FirstLock(op)
  BY <1>1, <1>2, OpenLeaves
<1>4. op \in BookingChanges => FirstLock(op) # "due"
  BY DEF FirstLock, BookingChanges
<1>5. RowsSound(c)'
  BY <1>2, <1>3, <1>4 DEF RowsSound, Locked
<1> QED
  BY <1>3, <1>5, RowsOfOneSession

\* A lock takes rows nobody else has, and the bot's sweep writes only due ones.
LEMMA RowsOfLock ==
  ASSUME RowsInvariant, TypeOK', NEW c \in Clients,
         LockTrip(c) \/ LockBooking(c) \/ LockKey(c) \/ LockDueRows(c)
  PROVE  RowsInvariant'
<1>1. TypeOK /\ RowsSound(c) /\ \A b \in Bookings : bookings[b] \in BookingRow
  BY DEF RowsInvariant, TypeOK
<1>2. /\ bookings' = bookings /\ \A d \in Clients \ {c} : tx'[d] = tx[d]
      /\ tx'[c].op = tx[c].op /\ tx'[c].booking = tx[c].booking
      /\ tx'[c].now = tx[c].now /\ tx[c].pc # "staged" /\ tx'[c].pc # "due"
  BY <1>1, LockLeaves
<1>3. \/ tx'[c].writes = tx[c].writes
      \/ /\ DOMAIN tx'[c].writes \subseteq Bookings /\ tx[c].pc = "due"
         /\ \A b \in DOMAIN tx'[c].writes :
              /\ bookings[b].status = "awaiting_payment"
              /\ HoldDue(bookings[b], tx[c].now)
              /\ tx'[c].writes[b] = Expired(CancelPayment(bookings[b]))
  BY <1>1, LockLeaves
<1>4. RowsSound(c)'
  <2>1. CASE tx'[c].writes = tx[c].writes
    BY <1>1, <1>2, <2>1 DEF RowsSound, DueWrite, LineWrite, Locked
  <2>2. CASE /\ DOMAIN tx'[c].writes \subseteq Bookings /\ tx[c].pc = "due"
             /\ \A b \in DOMAIN tx'[c].writes :
                  /\ bookings[b].status = "awaiting_payment"
                  /\ HoldDue(bookings[b], tx[c].now)
                  /\ tx'[c].writes[b] = Expired(CancelPayment(bookings[b]))
    <3>1. \A b \in DOMAIN tx'[c].writes : Follows(bookings[b], tx'[c].writes[b])
      BY <1>1, <2>2, ExpiredFields, DueFollows
    <3>2. \A b \in DOMAIN tx'[c].writes : DueWrite(c, b)'
      BY <1>2, <2>2 DEF DueWrite
    <3>3. tx'[c].op \notin BookingChanges /\ tx'[c].op # "syncBank"
      BY <1>1, <1>2, <2>2 DEF RowsSound, BookingChanges
    <3> QED
      BY <1>2, <3>1, <3>2, <3>3 DEF RowsSound
  <2> QED
    BY <1>3, <2>1, <2>2
<1>5. \A d \in Clients \ {c} : tx'[c].locks \cap tx[d].locks = {}
  <2>1. PICK L : tx'[c].locks = tx[c].locks \cup L /\ Unlocked(c, L)
    BY <1>1, LockLeaves
  <2> QED
    BY <2>1, OthersApart DEF Unlocked
<1> QED
  BY <1>2, <1>4, <1>5, RowsOfOneSession

\* A decision keeps them sound when its row images follow.
LEMMA RowsOfStage ==
  ASSUME RowsInvariant, TypeOK', NEW c \in Clients, NEW b, NEW t, NEW w,
         Stage(c, b, t, w),
         tx[c].op \in BookingChanges => b = tx[c].booking,
         tx[c].op # "syncBank" \/ Lined(c, w),
         \A d \in DOMAIN w : Follows(bookings[d], w[d])
  PROVE  RowsInvariant'
<1>1. TypeOK /\ RowsSound(c)
  BY DEF RowsInvariant
<1>2. /\ bookings' = bookings /\ \A d \in Clients \ {c} : tx'[d] = tx[d]
      /\ tx'[c].pc = "staged" /\ tx'[c].op = tx[c].op /\ tx'[c].booking = b
      /\ tx'[c].writes = w
      /\ tx'[c].locks = tx[c].locks \cup DOMAIN w /\ Unlocked(c, DOMAIN w)
  BY <1>1, StageLeaves
<1>3. RowsSound(c)'
  BY <1>1, <1>2 DEF RowsSound, Locked, Lined, LineWrite
<1>4. \A d \in Clients \ {c} : tx'[c].locks \cap tx[d].locks = {}
  BY <1>2, OthersApart DEF Unlocked
<1> QED
  BY <1>2, <1>3, <1>4, RowsOfOneSession

\* The row that a changed booking becomes.
LEMMA ChangeFollows ==
  ASSUME RowsInvariant, NEW c \in Clients, NEW row \in BookingRow, Changed(c, row)
  PROVE  Follows(Locked(c), row)
<1>1. Locked(c).status # "none" /\ Locked(c) \in BookingRow
  BY TransactionFields DEF RowsInvariant, RowsSound, Changed
<1>2. ~TerminalBooking(Locked(c).status)
  BY DEF Changed, HoldStillLive, UniquelyActive, TerminalBooking, BookingPhase
<1>3. row.status # "none"
  BY <1>1, SalesAssumption DEF Changed, BookingStatus
<1> QED
  BY <1>2, <1>3 DEF Follows, Changed

\* Every decision keeps the rows sound.
LEMMA RowsOfDecide ==
  ASSUME RowsInvariant, TypeOK', NEW c \in Clients, Decide(c)
  PROVE  RowsInvariant'
<1>1. TypeOK /\ \A b \in Bookings : bookings[b] \in BookingRow
  BY DEF RowsInvariant, TypeOK
<1>2. CASE PublicCreateBooking(c) \/ BotCreateBooking(c) \/ CreateBooking(c)
  <2>1. PICK b, row, e : b \in Bookings /\ Sold(c, b, row, e)
    BY <1>2, SaleStages
  <2> DEFINE w == [d \in DOMAIN e \cup {b} |-> IF d = b THEN row ELSE e[d]]
  <2>2. Stage(c, b, tx[c].trip, w)
    BY <2>1 DEF Sold
  <2>3. \A d \in DOMAIN w : Follows(bookings[d], w[d])
    <3> SUFFICES ASSUME NEW d \in DOMAIN w PROVE Follows(bookings[d], w[d])
      OBVIOUS
    <3>1. CASE d = b
      <4>1. w[d] = row
        BY <3>1
      <4> QED
        BY <2>1, <3>1, <4>1 DEF Sold, Follows, TerminalBooking, BookingPhase
    <3>2. CASE d # b
      <4>1. w[d] = e[d] /\ d \in DOMAIN e
        BY <3>2
      <4> QED
        BY <1>1, <2>1, <4>1, DueFollows DEF Sold
    <3> QED
      BY <3>1, <3>2
  <2>4. tx[c].op \notin BookingChanges /\ tx[c].op # "syncBank"
    BY <2>1 DEF Sold, Sales, BookingChanges
  <2> HIDE DEF w
  <2> QED
    BY <2>2, <2>3, <2>4, RowsOfStage
<1>3. CASE \/ UpdateBooking(c) \/ CancelTelegramBooking(c) \/ AddPassenger(c)
           \/ ConfirmBookingPayment(c) \/ ChooseCashBooking(c)
           \/ SetTelegramPaymentMethod(c)
  <2>1. PICK row \in BookingRow : Changed(c, row)
    BY <1>1, <1>3, ChangeStages
  <2> DEFINE w == [d \in {tx[c].booking} |-> row]
  <2>2. Stage(c, tx[c].booking, tx[c].trip, w)
    BY <2>1 DEF Changed, StageBooking
  <2>3. \A d \in DOMAIN w : Follows(bookings[d], w[d])
    BY <2>1, ChangeFollows DEF Locked
  <2>4. tx[c].op # "syncBank"
    BY <2>1 DEF Changed
  <2> HIDE DEF w
  <2> QED
    BY <2>2, <2>3, <2>4, RowsOfStage
<1>4. CASE UpdateTrip(c) \/ ChangeTripStatus(c)
  <2>1. PICK t, w : TripChanged(c, t, w)
    BY <1>1, <1>4, TripStages
  <2>2. \A d \in DOMAIN w : Follows(bookings[d], w[d])
    BY <2>1 DEF TripChanged, Follows, TerminalBooking
  <2>3. /\ Stage(c, None, t, w)
        /\ tx[c].op \notin BookingChanges /\ tx[c].op # "syncBank"
    BY <2>1 DEF TripChanged, BookingChanges
  <2> QED
    BY <2>2, <2>3, RowsOfStage
<1>5. CASE MatchBankPayment(c)
  <2>1. PICK w : Lined(c, w)
    BY <1>5, LineStages
  <2>2. \A d \in DOMAIN w : Follows(bookings[d], w[d])
    BY <1>1, <2>1, ChangeFields DEF Lined, Follows, TerminalBooking, BookingPhase
  <2>3. Stage(c, tx[c].booking, tx[c].trip, w)
    BY <2>1 DEF Lined
  <2> QED
    BY <2>1, <2>2, <2>3, RowsOfStage
<1> QED
  BY <1>2, <1>3, <1>4, <1>5 DEF Decide

\* What the next line of a statement leaves: the session waits for another booking.
LEMMA NextLineLeaves ==
  ASSUME TypeOK, NEW c \in Clients, NextLine(c)
  PROVE  /\ UNCHANGED <<clock, trip, bookings, requests, history>>
         /\ \A d \in Clients \ {c} : tx'[d] = tx[d]
         /\ tx[c].op = "syncBank" /\ tx[c].pc = "staged"
         /\ tx'[c].pc = "booking" /\ tx'[c].op = "syncBank" /\ tx'[c].key = tx[c].key
         /\ tx'[c].now = tx[c].now /\ tx'[c].hasTrip = tx[c].hasTrip
         /\ tx'[c].locks = tx[c].locks /\ tx'[c].writes = tx[c].writes
         /\ tx'[c].trip = tx[c].trip
         /\ tx'[c].booking \in Bookings /\ MatchedAt(tx'[c].booking, tx[c].now)
<1>1. PICK S \in SUBSET tx[c].locks : tx[c] \in Transaction(S)
  BY DEF TypeOK, WellFormed
<1>2. PICK b \in Bookings : /\ MatchedAt(b, tx[c].now)
                            /\ tx' = [tx EXCEPT ![c].pc = "booking", ![c].booking = b]
  BY DEF NextLine
<1>3. /\ \A d \in Clients \ {c} : tx'[d] = tx[d]
      /\ tx'[c] = [tx[c] EXCEPT !.pc = "booking", !.booking = b]
      /\ tx[c].op = "syncBank" /\ tx[c].pc = "staged"
      /\ UNCHANGED <<clock, trip, bookings, requests, history>>
  BY <1>2 DEF TypeOK, NextLine
<1>4. /\ tx'[c].pc = "booking" /\ tx'[c].op = "syncBank" /\ tx'[c].key = tx[c].key
      /\ tx'[c].now = tx[c].now /\ tx'[c].hasTrip = tx[c].hasTrip
      /\ tx'[c].locks = tx[c].locks /\ tx'[c].writes = tx[c].writes
      /\ tx'[c].trip = tx[c].trip /\ tx'[c].booking = b
  BY <1>1, <1>3 DEF Transaction
<1> QED
  BY <1>2, <1>3, <1>4

\* The next line of a statement names a booking that exists.
LEMMA RowsOfNextLine ==
  ASSUME RowsInvariant, TypeOK', NEW c \in Clients, NextLine(c)
  PROVE  RowsInvariant'
<1>1. TypeOK /\ RowsSound(c)
  BY DEF RowsInvariant
<1>2. /\ bookings' = bookings /\ \A d \in Clients \ {c} : tx'[d] = tx[d]
      /\ tx[c].op = "syncBank" /\ tx'[c].pc = "booking" /\ tx'[c].op = "syncBank"
      /\ tx'[c].locks = tx[c].locks /\ tx'[c].writes = tx[c].writes
      /\ MatchedAt(tx'[c].booking, tx[c].now)
  BY <1>1, NextLineLeaves
<1>3. RowsSound(c)'
  BY <1>1, <1>2 DEF RowsSound, LineWrite, Locked, MatchedAt, PayableAt
<1>4. \A d \in Clients \ {c} : tx'[c].locks \cap tx[d].locks = {}
  BY <1>2, OthersApart
<1> QED
  BY <1>2, <1>3, <1>4, RowsOfOneSession

\* A commit installs rows that follow, and only rows that the session has locked.
LEMMA CommitLeaves ==
  ASSUME RowsInvariant, NEW c \in Clients, Commit(c)
  PROVE  /\ clock' = clock /\ tx[c].pc = "staged"
         /\ \A d \in Clients \ {c} : tx'[d] = tx[d]
         /\ tx'[c] = Idle
         /\ \A b \in Bookings :
              bookings'[b] = IF b \in DOMAIN tx[c].writes THEN tx[c].writes[b]
                                                          ELSE bookings[b]
         /\ \A b \in DOMAIN tx[c].writes : b \in Bookings /\ Follows(bookings[b], tx[c].writes[b])
         /\ \A d \in Clients \ {c} : \A b \in tx[d].locks : bookings'[b] = bookings[b]
         /\ \A b \in Bookings : bookings[b].status # "none" => bookings'[b].status # "none"
<1>1. /\ clock' = clock /\ tx[c].pc = "staged"
      /\ \A d \in Clients \ {c} : tx'[d] = tx[d]
      /\ tx'[c] = Idle
      /\ \A b \in Bookings :
           bookings'[b] = IF b \in DOMAIN tx[c].writes THEN tx[c].writes[b]
                                                       ELSE bookings[b]
  BY DEF Commit, Seen, RowsInvariant, TypeOK
<1>2. \A b \in DOMAIN tx[c].writes : Follows(bookings[b], tx[c].writes[b])
  BY DEF RowsInvariant, RowsSound
<1>3. /\ DOMAIN tx[c].writes \subseteq tx[c].locks
      /\ \A d \in Clients : tx[d].locks \subseteq Bookings
  BY TransactionFields DEF RowsInvariant
<1>4. \A d \in Clients \ {c} : \A b \in tx[d].locks : bookings'[b] = bookings[b]
  BY <1>1, <1>3, OthersApart
<1>5. \A b \in Bookings : bookings[b].status # "none" => bookings'[b].status # "none"
  BY <1>1, <1>2 DEF Follows
<1> QED
  BY <1>1, <1>2, <1>3, <1>4, <1>5

\* A session without a transaction is sound.
LEMMA IdleSound ==
  ASSUME NEW c \in Clients, tx'[c] = Idle
  PROVE  RowsSound(c)' /\ tx'[c].locks = {}
<1>1. DOMAIN Idle.writes = {} /\ Idle.locks = {} /\ Idle.op \notin BookingChanges
  BY DEF Idle, NoWrites, BookingChanges
<1> QED
  BY <1>1 DEF RowsSound

\* Commit and rollback keep the rows sound.
LEMMA RowsOfEnd ==
  ASSUME RowsInvariant, TypeOK', NEW c \in Clients, Commit(c) \/ Rollback(c)
  PROVE  RowsInvariant'
<1>1. /\ tx'[c] = Idle /\ \A d \in Clients \ {c} : tx'[d] = tx[d]
      /\ \A d \in Clients \ {c} : \A b \in tx[d].locks : bookings'[b] = bookings[b]
      /\ \A b \in Bookings : bookings[b].status # "none" => bookings'[b].status # "none"
  <2>1. CASE Commit(c)
    BY <2>1, CommitLeaves
  <2>2. CASE Rollback(c)
    BY <2>2 DEF Rollback, RowsInvariant, TypeOK
  <2> QED
    BY <2>1, <2>2
<1>2. RowsSound(c)' /\ tx'[c].locks = {}
  BY <1>1, IdleSound
<1>3. \A d \in Clients \ {c} : RowsSound(d)'
  BY <1>1, RowsKept
<1>4. LocksApart'
  BY <1>1, <1>2 DEF RowsInvariant, LocksApart
<1> QED
  BY <1>2, <1>3, <1>4 DEF RowsInvariant

\* What a sweep leaves: it passes by the locked rows.
LEMMA SweepLeaves ==
  ASSUME TypeOK, ExpireBookingHolds \/ ListBookings
  PROVE  /\ UNCHANGED <<clock, trip, requests, tx, history>>
         /\ \A d \in Clients : \A b \in tx[d].locks : bookings'[b] = bookings[b]
         /\ \A b \in Bookings :
              \/ bookings'[b] = bookings[b]
              \/ /\ bookings[b].status = "awaiting_payment" /\ HoldDue(bookings[b], clock)
                 /\ bookings'[b].status = "expired" /\ bookings'[b].key = bookings[b].key
                 /\ bookings'[b].customer = bookings[b].customer
                 /\ bookings'[b].seats = bookings[b].seats
                 /\ bookings'[b].hold = bookings[b].hold
                 /\ bookings'[b].method = bookings[b].method
                 /\ bookings'[b].payment = "paid" => bookings[b].payment = "paid"
<1>1. /\ UNCHANGED <<clock, trip, requests, tx, history>>
      /\ \A d \in Clients : tx[d].locks \cap DueRows(clock) = {}
      /\ \A b \in Bookings :
           IF b \in DueRows(clock)
           THEN \/ bookings'[b] = Expired(CancelPayment(bookings[b]))
                \/ bookings'[b] = Expired(bookings[b])
           ELSE bookings'[b] = bookings[b]
  BY DEF ExpireBookingHolds, ListBookings
<1>2. \A d \in Clients : tx[d].locks \subseteq Bookings
  BY TransactionFields
<1>3. \A b \in Bookings : bookings[b] \in BookingRow
  BY DEF TypeOK
<1> QED
  BY <1>1, <1>2, <1>3, ExpiredFields DEF DueRows

\* A sweep and time keep the rows sound.
LEMMA RowsOfTime ==
  ASSUME RowsInvariant, TypeOK', ExpireBookingHolds \/ ListBookings \/ Tick
  PROVE  RowsInvariant'
<1>1. /\ tx' = tx
      /\ \A d \in Clients : \A b \in tx[d].locks : bookings'[b] = bookings[b]
      /\ \A b \in Bookings : bookings[b].status # "none" => bookings'[b].status # "none"
  <2>1. CASE ExpireBookingHolds \/ ListBookings
    BY <2>1, SweepLeaves DEF RowsInvariant
  <2>2. CASE Tick
    BY <2>2 DEF Tick
  <2> QED
    BY <2>1, <2>2
<1>2. \A d \in Clients : RowsSound(d)'
  BY <1>1, RowsKept
<1> QED
  BY <1>1, <1>2 DEF RowsInvariant, LocksApart

\* Initially nobody has a lock or a row image.
LEMMA RowsInit == Init => RowsInvariant
<1> SUFFICES ASSUME Init PROVE RowsInvariant
  OBVIOUS
<1>1. \A c \in Clients : tx[c] = Idle
  BY DEF Init
<1>2. DOMAIN Idle.writes = {} /\ Idle.locks = {} /\ Idle.op \notin BookingChanges
  BY DEF Idle, NoWrites, BookingChanges
<1> QED
  BY <1>1, <1>2, TypeInit DEF RowsInvariant, LocksApart, RowsSound

\* The row invariant is inductive.
LEMMA RowsNext == RowsInvariant /\ [Next]_vars => RowsInvariant'
<1> SUFFICES ASSUME RowsInvariant, [Next]_vars PROVE RowsInvariant'
  OBVIOUS
<1>1. TypeOK'
  BY TypeNext DEF RowsInvariant
<1>2. CASE UNCHANGED vars
  BY <1>1, <1>2 DEF vars, RowsInvariant, LocksApart, RowsSound, DueWrite, LineWrite, Locked
<1>3. ASSUME NEW c \in Clients,
             BeginSale(c) \/ BeginBookingChange(c) \/ BeginTripChange(c)
      PROVE  RowsInvariant'
  BY <1>1, <1>3, RowsOfBegin
<1>4. ASSUME NEW c \in Clients,
             LockTrip(c) \/ LockBooking(c) \/ LockKey(c) \/ LockDueRows(c)
      PROVE  RowsInvariant'
  BY <1>1, <1>4, RowsOfLock
<1>5. ASSUME NEW c \in Clients, Decide(c)
      PROVE  RowsInvariant'
  BY <1>1, <1>5, RowsOfDecide
<1>6. ASSUME NEW c \in Clients, NextLine(c) \/ Commit(c) \/ Rollback(c)
      PROVE  RowsInvariant'
  BY <1>1, <1>6, RowsOfNextLine, RowsOfEnd
<1>7. CASE ExpireBookingHolds \/ ListBookings \/ Tick
  BY <1>1, <1>7, RowsOfTime
<1> QED
  BY <1>2, <1>3, <1>4, <1>5, <1>6, <1>7 DEF Next

\* Whatever the handlers do, a row image that waits for its commit follows from the
\* committed row: the row is locked, is not over, and goes on as the same booking.
THEOREM RowsStaySound == Spec => []RowsInvariant
BY RowsInit, RowsNext, PTL DEF Spec

\* No step changes a booking that is over.
LEMMA OverStays ==
  ASSUME RowsInvariant, [Next]_vars, NEW b \in Bookings,
         TerminalBooking(bookings[b].status)
  PROVE  bookings'[b] = bookings[b]
<1>1. CASE UNCHANGED vars
  BY <1>1 DEF vars
<1>2. ASSUME NEW c \in Clients, Commit(c)
      PROVE  bookings'[b] = bookings[b]
  BY <1>2, CommitLeaves DEF Follows
<1>3. CASE ExpireBookingHolds \/ ListBookings
  BY <1>3, SweepLeaves DEF RowsInvariant, TerminalBooking, BookingPhase
<1>4. ASSUME NEW c \in Clients,
             \/ BeginSale(c) \/ BeginBookingChange(c) \/ BeginTripChange(c)
             \/ LockTrip(c) \/ LockBooking(c) \/ LockKey(c) \/ LockDueRows(c)
             \/ NextLine(c) \/ Rollback(c)
      PROVE  bookings' = bookings
  BY <1>4 DEF NextLine, BeginSale, BeginBookingChange, BeginTripChange, Open, LockTrip, LockBooking,
     LockKey, LockDueRows, Rollback
<1>5. ASSUME NEW c \in Clients, Decide(c)
      PROVE  bookings' = bookings
  <2>1. TypeOK
    BY DEF RowsInvariant
  <2>2. \E x, t, w : Stage(c, x, t, w)
    <3>1. CASE PublicCreateBooking(c) \/ BotCreateBooking(c) \/ CreateBooking(c)
      BY <3>1, SaleStages DEF Sold
    <3>2. CASE \/ UpdateBooking(c) \/ CancelTelegramBooking(c) \/ AddPassenger(c)
               \/ ConfirmBookingPayment(c) \/ ChooseCashBooking(c)
               \/ SetTelegramPaymentMethod(c)
      BY <2>1, <3>2, ChangeStages DEF Changed, StageBooking
    <3>3. CASE UpdateTrip(c) \/ ChangeTripStatus(c)
      BY <2>1, <3>3, TripStages DEF TripChanged
    <3>4. CASE MatchBankPayment(c)
      BY <3>4, LineStages DEF Lined
    <3> QED
      BY <1>5, <3>1, <3>2, <3>3, <3>4 DEF Decide
  <2> QED
    BY <2>2 DEF Stage
<1>6. CASE Tick
  BY <1>6 DEF Tick
<1> QED
  BY <1>1, <1>2, <1>3, <1>4, <1>5, <1>6 DEF Next

\* Once a booking is cancelled, expired, completed or a no-show, no transaction that
\* is still open, no sweep and no statement line changes its row or its payment.
THEOREM TerminalStaysFinal == Spec => TerminalIsFinal
<1>1. Init => RowsInvariant
  BY RowsInit
<1>2. RowsInvariant /\ [Next]_vars => RowsInvariant'
  BY RowsNext
<1>3. RowsInvariant /\ [Next]_vars =>
        [\A b \in Bookings :
           TerminalBooking(bookings[b].status) => bookings'[b] = bookings[b]]_vars
  BY OverStays
<1> QED
  BY <1>1, <1>2, <1>3, PTL DEF Spec, TerminalIsFinal

-----------------------------------------------------------------------------
\* A request key books once.

\* A session whose record and locked rows stay, while its key stays unused.
LEMMA KeyKept ==
  ASSUME KeyInvariant, NEW d \in Clients, tx'[d] = tx[d],
         \A b \in tx[d].locks : bookings'[b] = bookings[b],
         tx[d].pc = "staged" /\ tx[d].key # None => requests'[tx[d].key] = requests[tx[d].key]
  PROVE  KeySound(d)'
<1>1. KeySound(d)
  BY DEF KeyInvariant
<1>2. DOMAIN tx[d].writes \subseteq tx[d].locks
  BY TransactionFields DEF KeyInvariant, RowsInvariant
<1> QED
  BY <1>1, <1>2 DEF KeySound

\* A step of one session that leaves the rows and the recorded requests alone.
LEMMA KeysOfOneSession ==
  ASSUME KeyInvariant, RowsInvariant', NEW c \in Clients,
         UNCHANGED <<bookings, requests>>, \A d \in Clients \ {c} : tx'[d] = tx[d],
         \A d \in Clients \ {c} :
           tx'[c].key # None /\ tx'[c].key = tx[d].key => "key" \in {tx'[c].pc, tx[d].pc},
         KeySound(c)'
  PROVE  KeyInvariant'
<1>1. KeysApart'
  <2> SUFFICES ASSUME NEW a \in Clients, NEW d \in Clients \ {a},
                      tx'[a].key # None, tx'[a].key = tx'[d].key
               PROVE  "key" \in {tx'[a].pc, tx'[d].pc}
    BY DEF KeysApart
  <2>1. a # c /\ d # c => "key" \in {tx[a].pc, tx[d].pc}
    BY DEF KeyInvariant, KeysApart
  <2> QED
    BY <2>1
<1>2. \A d \in Clients \ {c} : KeySound(d)'
  BY KeyKept
<1>3. KeysRecorded'
  BY DEF KeyInvariant, KeysRecorded
<1> QED
  BY <1>1, <1>2, <1>3 DEF KeyInvariant

\* A sale begins with its key and waits for the advisory lock first.
LEMMA KeysOfBegin ==
  ASSUME KeyInvariant, RowsInvariant', NEW c \in Clients,
         BeginSale(c) \/ BeginBookingChange(c) \/ BeginTripChange(c)
  PROVE  KeyInvariant'
<1>1. TypeOK
  BY DEF KeyInvariant, RowsInvariant
<1>2. PICK op, b, k, n :
        /\ op \in AllOps /\ Open(c, op, b, k, n)
        /\ (op # "publicCreateBooking" => k = None)
  BY Begins, Zenon
<1>3. /\ UNCHANGED <<bookings, requests>> /\ \A d \in Clients \ {c} : tx'[d] = tx[d]
      /\ tx'[c].pc = FirstLock(op) /\ tx'[c].op = op /\ tx'[c].key = k
  BY <1>1, <1>2, OpenLeaves
<1>4. FirstLock(op) # "staged" /\ FirstLock("publicCreateBooking") = "key"
  BY DEF FirstLock
<1>5. KeySound(c)'
  BY <1>2, <1>3, <1>4 DEF KeySound
<1> QED
  BY <1>2, <1>3, <1>4, <1>5, KeysOfOneSession

\* Locking rows changes no key; the advisory lock lets one session of a key past.
LEMMA KeysOfLock ==
  ASSUME KeyInvariant, RowsInvariant', NEW c \in Clients,
         LockTrip(c) \/ LockBooking(c) \/ LockKey(c) \/ LockDueRows(c)
  PROVE  KeyInvariant'
<1>1. TypeOK /\ KeySound(c)
  BY DEF KeyInvariant, RowsInvariant
<1>2. /\ UNCHANGED <<bookings, requests>> /\ \A d \in Clients \ {c} : tx'[d] = tx[d]
      /\ tx'[c].pc \in {"trip", "booking", "decide"}
      /\ tx'[c].op = tx[c].op /\ tx'[c].key = tx[c].key
      /\ tx[c].pc # "key" \/ LockKey(c)
  BY <1>1, LockLeaves
<1>3. KeySound(c)'
  BY <1>1, <1>2 DEF KeySound
<1>4. \A d \in Clients \ {c} :
        tx'[c].key # None /\ tx'[c].key = tx[d].key => tx[d].pc = "key"
  BY <1>2 DEF KeyInvariant, KeysApart, LockKey
<1> QED
  BY <1>2, <1>3, <1>4, KeysOfOneSession

\* The rows that a decision stages, seen by the keys.
LEMMA KeysOfStage ==
  ASSUME KeyInvariant, RowsInvariant', NEW c \in Clients, NEW b, NEW t, NEW w,
         Stage(c, b, t, w), tx[c].pc = "decide",
         tx[c].key # None => requests[tx[c].key] = None,
         \A d \in DOMAIN w : bookings[d].status = "none" => d = b /\ w[d].key = tx[c].key
  PROVE  KeyInvariant'
<1>1. TypeOK /\ KeySound(c)
  BY DEF KeyInvariant, RowsInvariant
<1>2. /\ UNCHANGED <<bookings, requests>> /\ \A d \in Clients \ {c} : tx'[d] = tx[d]
      /\ tx'[c].pc = "staged" /\ tx'[c].op = tx[c].op /\ tx'[c].booking = b
      /\ tx'[c].key = tx[c].key /\ tx'[c].writes = w
  BY <1>1, StageLeaves
<1>3. KeySound(c)'
  BY <1>1, <1>2 DEF KeySound
<1>4. \A d \in Clients \ {c} :
        tx'[c].key # None /\ tx'[c].key = tx[d].key => tx[d].pc = "key"
  BY <1>2 DEF KeyInvariant, KeysApart
<1> QED
  BY <1>2, <1>3, <1>4, KeysOfOneSession

\* Every decision stages a new booking at most for a key that is still unused.
LEMMA KeysOfDecide ==
  ASSUME KeyInvariant, RowsInvariant', NEW c \in Clients, Decide(c)
  PROVE  KeyInvariant'
<1>1. RowsInvariant /\ TypeOK /\ KeySound(c)
  BY DEF KeyInvariant, RowsInvariant
<1>2. CASE PublicCreateBooking(c) \/ BotCreateBooking(c) \/ CreateBooking(c)
  <2>1. PICK b, row, e : b \in Bookings /\ Sold(c, b, row, e)
    BY <1>1, <1>2, SaleStages
  <2> DEFINE w == [d \in DOMAIN e \cup {b} |-> IF d = b THEN row ELSE e[d]]
  <2>2. Stage(c, b, tx[c].trip, w) /\ tx[c].pc = "decide"
    BY <2>1 DEF Sold
  <2>3. row.key = tx[c].key /\ (tx[c].key # None => requests[tx[c].key] = None)
    BY <1>1, <2>1 DEF Sold, KeySound, KeyUnused
  <2>4. \A d \in DOMAIN w : bookings[d].status = "none" => d = b /\ w[d].key = tx[c].key
    BY <2>1, <2>3 DEF Sold
  <2> HIDE DEF w
  <2> QED
    BY <2>2, <2>3, <2>4, KeysOfStage
<1>3. CASE \/ UpdateBooking(c) \/ CancelTelegramBooking(c) \/ AddPassenger(c)
           \/ ConfirmBookingPayment(c) \/ ChooseCashBooking(c)
           \/ SetTelegramPaymentMethod(c)
  <2>1. PICK row \in BookingRow : Changed(c, row)
    BY <1>1, <1>3, ChangeStages
  <2> DEFINE w == [d \in {tx[c].booking} |-> row]
  <2>2. /\ Stage(c, tx[c].booking, tx[c].trip, w)
        /\ tx[c].pc = "decide" /\ tx[c].op \in BookingChanges
    BY <2>1 DEF Changed, StageBooking
  <2>3. tx[c].key = None
    BY <1>1, <2>2 DEF KeySound, BookingChanges
  <2>4. \A d \in DOMAIN w : bookings[d].status # "none"
    BY <1>1, <2>2 DEF RowsInvariant, RowsSound, Locked
  <2> HIDE DEF w
  <2> QED
    BY <2>2, <2>3, <2>4, KeysOfStage
<1>4. CASE UpdateTrip(c) \/ ChangeTripStatus(c)
  <2>1. PICK t, w : TripChanged(c, t, w)
    BY <1>1, <1>4, TripStages
  <2>2. Stage(c, None, t, w) /\ tx[c].pc = "decide" /\ tx[c].key = None
    BY <1>1, <2>1 DEF TripChanged, KeySound
  <2>3. \A d \in DOMAIN w : bookings[d].status # "none"
    BY <2>1 DEF TripChanged, BookingPhase
  <2> QED
    BY <2>2, <2>3, KeysOfStage
<1>5. CASE MatchBankPayment(c)
  <2>1. PICK w : Lined(c, w)
    BY <1>1, <1>5, LineStages
  <2>2. /\ Stage(c, tx[c].booking, tx[c].trip, w) /\ tx[c].pc = "decide"
        /\ tx[c].key = None /\ \A d \in DOMAIN w : bookings[d].status # "none"
    BY <1>1, <2>1 DEF Lined, KeySound
  <2> QED
    BY <2>2, KeysOfStage
<1> QED
  BY <1>2, <1>3, <1>4, <1>5 DEF Decide

\* The next line of a statement has no key either.
LEMMA KeysOfNextLine ==
  ASSUME KeyInvariant, RowsInvariant', NEW c \in Clients, NextLine(c)
  PROVE  KeyInvariant'
<1>1. TypeOK /\ KeySound(c)
  BY DEF KeyInvariant, RowsInvariant
<1>2. /\ UNCHANGED <<bookings, requests>> /\ \A d \in Clients \ {c} : tx'[d] = tx[d]
      /\ tx[c].op = "syncBank" /\ tx'[c].pc = "booking" /\ tx'[c].op = "syncBank"
      /\ tx'[c].key = tx[c].key
  BY <1>1, NextLineLeaves
<1>3. KeySound(c)' /\ tx'[c].key = None
  BY <1>1, <1>2 DEF KeySound
<1> QED
  BY <1>2, <1>3, KeysOfOneSession

\* A commit records the key with the one booking that has it.
LEMMA KeysOfCommit ==
  ASSUME KeyInvariant, RowsInvariant', NEW c \in Clients, Commit(c)
  PROVE  KeyInvariant'
<1>1. /\ RowsInvariant /\ TypeOK /\ KeySound(c) /\ KeysRecorded
      /\ tx[c].key \in Keys \cup {None} /\ requests \in [Keys -> Bookings \cup {None}]
  BY TransactionFields DEF KeyInvariant, RowsInvariant, TypeOK
<1>2. /\ tx[c].pc = "staged"
      /\ \A d \in Clients \ {c} : tx'[d] = tx[d]
      /\ tx'[c] = Idle
      /\ \A b \in Bookings :
           bookings'[b] = IF b \in DOMAIN tx[c].writes THEN tx[c].writes[b]
                                                       ELSE bookings[b]
      /\ \A b \in DOMAIN tx[c].writes : Follows(bookings[b], tx[c].writes[b])
      /\ \A d \in Clients \ {c} : \A b \in tx[d].locks : bookings'[b] = bookings[b]
  BY <1>1, CommitLeaves
<1>3. \A k \in Keys :
        requests'[k] = IF k = tx[c].key THEN tx[c].booking ELSE requests[k]
  BY <1>1, SalesAssumption DEF Commit
<1>4. Idle.key = None /\ Idle.pc = "idle" /\ Idle.op = "none"
  BY DEF Idle
<1>5. KeysRecorded'
  <2> SUFFICES ASSUME NEW b \in Bookings, bookings'[b].key # None
               PROVE  requests'[bookings'[b].key] = b
    BY DEF KeysRecorded
  <2> DEFINE k == bookings'[b].key
  <2>1. k \in Keys
    BY DEF RowsInvariant, TypeOK, BookingRow
  <2>2. CASE bookings[b].key = k
    <3>1. requests[k] = b
      BY <1>1, <2>2 DEF KeysRecorded
    <3>2. k # tx[c].key
      BY <1>1, <1>2, <2>1, <3>1, SalesAssumption DEF KeySound
    <3> QED
      BY <1>3, <2>1, <3>1, <3>2
  <2>3. CASE bookings[b].key # k
    <3>1. /\ b \in DOMAIN tx[c].writes /\ k = tx[c].writes[b].key
          /\ bookings[b].status = "none"
      BY <1>2, <2>3 DEF Follows
    <3>2. b = tx[c].booking /\ k = tx[c].key
      BY <1>1, <1>2, <3>1 DEF KeySound
    <3> QED
      BY <1>3, <2>1, <3>2
  <2> QED
    BY <2>2, <2>3
<1>6. KeysApart'
  BY <1>2, <1>4 DEF KeyInvariant, KeysApart
<1>7. ASSUME NEW d \in Clients PROVE KeySound(d)'
  <2>1. CASE d = c
    BY <1>2, <1>4, <2>1 DEF KeySound
  <2>2. CASE d # c
    <3>1. tx[d].pc = "staged" /\ tx[d].key # None => tx[d].key # tx[c].key
      BY <1>2, <2>2 DEF KeyInvariant, KeysApart
    <3>2. tx[d].key \in Keys \cup {None}
      BY <1>1, TransactionFields
    <3>3. tx[d].pc = "staged" /\ tx[d].key # None =>
            requests'[tx[d].key] = requests[tx[d].key]
      BY <1>3, <3>1, <3>2
    <3> QED
      BY <1>2, <2>2, <3>3, KeyKept
  <2> QED
    BY <2>1, <2>2
<1> QED
  BY <1>5, <1>6, <1>7 DEF KeyInvariant

\* A transaction that is given up forgets its key.
LEMMA KeysOfRollback ==
  ASSUME KeyInvariant, RowsInvariant', NEW c \in Clients, Rollback(c)
  PROVE  KeyInvariant'
<1>1. /\ UNCHANGED <<bookings, requests>> /\ \A d \in Clients \ {c} : tx'[d] = tx[d]
      /\ tx'[c] = Idle
  BY DEF Rollback, KeyInvariant, RowsInvariant, TypeOK
<1>2. Idle.key = None /\ Idle.pc = "idle" /\ Idle.op = "none"
  BY DEF Idle
<1>3. KeySound(c)'
  BY <1>1, <1>2 DEF KeySound
<1> QED
  BY <1>1, <1>2, <1>3, KeysOfOneSession

\* Sweeps and time leave every key where it is.
LEMMA KeysOfTime ==
  ASSUME KeyInvariant, RowsInvariant', ExpireBookingHolds \/ ListBookings \/ Tick
  PROVE  KeyInvariant'
<1>1. /\ tx' = tx /\ requests' = requests
      /\ \A d \in Clients : \A b \in tx[d].locks : bookings'[b] = bookings[b]
      /\ \A b \in Bookings : bookings'[b].key = bookings[b].key
  <2>1. CASE ExpireBookingHolds \/ ListBookings
    BY <2>1, SweepLeaves DEF KeyInvariant, RowsInvariant
  <2>2. CASE Tick
    BY <2>2 DEF Tick
  <2> QED
    BY <2>1, <2>2
<1>2. \A d \in Clients : KeySound(d)'
  BY <1>1, KeyKept
<1> QED
  BY <1>1, <1>2 DEF KeyInvariant, KeysRecorded, KeysApart

\* Initially no key is recorded and none is in use.
LEMMA KeysInit == Init => KeyInvariant
<1> SUFFICES ASSUME Init PROVE KeyInvariant
  OBVIOUS
<1>1. \A c \in Clients : tx[c] = Idle
  BY DEF Init
<1>2. Idle.key = None /\ Idle.pc = "idle" /\ Idle.op = "none"
  BY DEF Idle
<1>3. KeysRecorded
  BY DEF Init, KeysRecorded, EmptyRow
<1> QED
  BY <1>1, <1>2, <1>3, RowsInit DEF KeyInvariant, KeysApart, KeySound

\* The bookkeeping of request keys is inductive.
LEMMA KeysNext == KeyInvariant /\ [Next]_vars => KeyInvariant'
<1> SUFFICES ASSUME KeyInvariant, [Next]_vars PROVE KeyInvariant'
  OBVIOUS
<1>1. RowsInvariant'
  BY RowsNext DEF KeyInvariant
<1>2. CASE UNCHANGED vars
  BY <1>1, <1>2 DEF vars, KeyInvariant, KeysRecorded, KeysApart, KeySound
<1>3. ASSUME NEW c \in Clients,
             BeginSale(c) \/ BeginBookingChange(c) \/ BeginTripChange(c)
      PROVE  KeyInvariant'
  BY <1>1, <1>3, KeysOfBegin
<1>4. ASSUME NEW c \in Clients,
             LockTrip(c) \/ LockBooking(c) \/ LockKey(c) \/ LockDueRows(c)
      PROVE  KeyInvariant'
  BY <1>1, <1>4, KeysOfLock
<1>5. ASSUME NEW c \in Clients, Decide(c)
      PROVE  KeyInvariant'
  BY <1>1, <1>5, KeysOfDecide
<1>6. ASSUME NEW c \in Clients, NextLine(c) \/ Commit(c) \/ Rollback(c)
      PROVE  KeyInvariant'
  BY <1>1, <1>6, KeysOfNextLine, KeysOfCommit, KeysOfRollback
<1>7. CASE ExpireBookingHolds \/ ListBookings \/ Tick
  BY <1>1, <1>7, KeysOfTime
<1> QED
  BY <1>2, <1>3, <1>4, <1>5, <1>6, <1>7 DEF Next

\* A checkout retried with the same request key, also at the same time or after its
\* booking was cancelled or had expired, never books a second time.
THEOREM KeysBookOnce == Spec => []RequestBooksOnce
<1>1. Init => KeyInvariant
  BY KeysInit
<1>2. KeyInvariant /\ [Next]_vars => KeyInvariant'
  BY KeysNext
<1>3. KeyInvariant => RequestBooksOnce
  BY DEF KeyInvariant, KeysRecorded, RequestBooksOnce
<1> QED
  BY <1>1, <1>2, <1>3, PTL DEF Spec

-----------------------------------------------------------------------------
\* Money and status agree.

\* A session whose record and locked rows stay, while the other rows keep their method
\* with their hold.
LEMMA PaymentKept ==
  ASSUME PaymentInvariant, NEW d \in Clients, tx'[d] = tx[d],
         \A b \in tx[d].locks : bookings'[b] = bookings[b],
         \A b \in Bookings : KeepsHold(bookings[b], bookings'[b]),
         setBack \subseteq setBack'
  PROVE  PaymentSound(d)'
<1>1. PaymentSound(d) /\ RowsSound(d) /\ TypeOK
  BY DEF PaymentInvariant, RowsInvariant
<1>2. /\ DOMAIN tx[d].writes \subseteq tx[d].locks
      /\ tx[d].op \in BookingChanges => tx[d].booking \in Bookings
  BY <1>1, TransactionFields
<1>3. tx[d].op = "syncBank" /\ bookings'[tx[d].booking].hold # NoHold =>
        bookings'[tx[d].booking].method = "bank_transfer"
  BY <1>1, <1>2 DEF PaymentSound, RowsSound, KeepsHold, Locked, BookingChanges
<1>4. SetBackBy(d)' = SetBackBy(d)
  BY DEF SetBackBy
<1>5. \A b \in DOMAIN tx[d].writes :
        /\ PaidByTransfer(tx[d].writes[b])
        /\ b \notin setBack' \cup SetBackBy(d) => PaidConfirms(tx[d].writes[b])
        /\ KeepsHold(bookings'[b], tx[d].writes[b])
  BY <1>1, <1>2 DEF PaymentSound
<1> QED
  BY <1>3, <1>4, <1>5 DEF PaymentSound, Locked

\* A step of one session that leaves the rows alone.
LEMMA PaymentsOfOneSession ==
  ASSUME PaymentInvariant, RowsInvariant', NEW c \in Clients,
         bookings' = bookings, setBack' = setBack,
         \A d \in Clients \ {c} : tx'[d] = tx[d],
         PaymentSound(c)'
  PROVE  PaymentInvariant'
<1>1. \A b \in Bookings : KeepsHold(bookings[b], bookings'[b])
  BY DEF KeepsHold
<1>2. \A d \in Clients \ {c} : PaymentSound(d)'
  BY <1>1, PaymentKept
<1> QED
  BY <1>2 DEF PaymentInvariant, PaidMeansConfirmed

\* The payment of the row that session c is about to stage for booking b.
RowPays(c, b, new) ==
  /\ PaidByTransfer(new)
  /\ \/ b \in setBack
     \/ tx[c].op = "updateBooking" /\ new.status \in UnpaidStatus
     \/ PaidConfirms(new)
  /\ KeepsHold(bookings[b], new)

\* A hold that ran out was never paid.
LEMMA DuePays ==
  ASSUME NEW old, NEW new, PaidByTransfer(old), old.hold # NoHold,
         new.payment = "paid" => old.payment = "paid",
         new.hold = old.hold, new.method = old.method
  PROVE  PaidByTransfer(new) /\ PaidConfirms(new) /\ KeepsHold(old, new)
BY DEF PaidByTransfer, PaidConfirms, KeepsHold

\* A statement line is only matched with a booking that pays by transfer.
LEMMA PaymentsOfBegin ==
  ASSUME PaymentInvariant, RowsInvariant', NEW c \in Clients,
         BeginSale(c) \/ BeginBookingChange(c) \/ BeginTripChange(c)
  PROVE  PaymentInvariant'
<1>1. TypeOK
  BY DEF PaymentInvariant, RowsInvariant
<1>2. PICK op, b, k, n :
        /\ op \in AllOps /\ Open(c, op, b, k, n)
        /\ op = "syncBank" => bookings[b].method = "bank_transfer"
  BY Begins, Zenon
<1>3. /\ bookings' = bookings /\ \A d \in Clients \ {c} : tx'[d] = tx[d]
      /\ tx'[c].op = op /\ tx'[c].booking = b /\ DOMAIN tx'[c].writes = {}
      /\ setBack' = setBack
  BY <1>1, <1>2, OpenLeaves DEF history
<1>4. PaymentSound(c)'
  BY <1>2, <1>3 DEF PaymentSound, Locked
<1> QED
  BY <1>3, <1>4, PaymentsOfOneSession

\* So is the statement's next line.
LEMMA PaymentsOfNextLine ==
  ASSUME PaymentInvariant, RowsInvariant', NEW c \in Clients, NextLine(c)
  PROVE  PaymentInvariant'
<1>1. TypeOK /\ PaymentSound(c)
  BY DEF PaymentInvariant, RowsInvariant
<1>2. /\ bookings' = bookings /\ \A d \in Clients \ {c} : tx'[d] = tx[d]
      /\ tx'[c].op = "syncBank" /\ tx[c].op = "syncBank" /\ tx'[c].writes = tx[c].writes
      /\ MatchedAt(tx'[c].booking, tx[c].now) /\ setBack' = setBack
  BY <1>1, NextLineLeaves DEF history
<1>3. PaymentSound(c)'
  BY <1>1, <1>2 DEF PaymentSound, SetBackBy, Locked, MatchedAt
<1> QED
  BY <1>2, <1>3, PaymentsOfOneSession

\* What the bot's sweep writes is unpaid.
LEMMA PaymentsOfLock ==
  ASSUME PaymentInvariant, RowsInvariant', NEW c \in Clients,
         LockTrip(c) \/ LockBooking(c) \/ LockKey(c) \/ LockDueRows(c)
  PROVE  PaymentInvariant'
<1>1. /\ TypeOK /\ PaymentSound(c)
      /\ \A b \in Bookings : bookings[b] \in BookingRow /\ PaidByTransfer(bookings[b])
  BY DEF PaymentInvariant, RowsInvariant, TypeOK, PaidMeansConfirmed
<1>2. /\ bookings' = bookings /\ \A d \in Clients \ {c} : tx'[d] = tx[d]
      /\ tx'[c].op = tx[c].op /\ tx'[c].booking = tx[c].booking /\ setBack' = setBack
  BY <1>1, LockLeaves DEF history
<1>3. \/ tx'[c].writes = tx[c].writes
      \/ /\ DOMAIN tx'[c].writes \subseteq Bookings
         /\ \A b \in DOMAIN tx'[c].writes :
              /\ bookings[b].status = "awaiting_payment"
              /\ HoldDue(bookings[b], tx[c].now)
              /\ tx'[c].writes[b] = Expired(CancelPayment(bookings[b]))
  BY <1>1, LockLeaves
<1>4. CASE tx'[c].writes = tx[c].writes
  <2>1. PaymentSound(c)'
    BY <1>1, <1>2, <1>4 DEF PaymentSound, SetBackBy, Locked
  <2> QED
    BY <1>2, <2>1, PaymentsOfOneSession
<1>5. CASE /\ DOMAIN tx'[c].writes \subseteq Bookings
           /\ \A b \in DOMAIN tx'[c].writes :
                /\ bookings[b].status = "awaiting_payment"
                /\ HoldDue(bookings[b], tx[c].now)
                /\ tx'[c].writes[b] = Expired(CancelPayment(bookings[b]))
  <2>1. \A b \in DOMAIN tx'[c].writes :
          /\ PaidByTransfer(tx'[c].writes[b]) /\ PaidConfirms(tx'[c].writes[b])
          /\ KeepsHold(bookings[b], tx'[c].writes[b])
    BY <1>1, <1>5, ExpiredFields, DuePays DEF HoldDue
  <2>2. PaymentSound(c)'
    BY <1>1, <1>2, <2>1 DEF PaymentSound, Locked
  <2> QED
    BY <1>2, <2>2, PaymentsOfOneSession
<1> QED
  BY <1>3, <1>4, <1>5

\* A decision whose rows agree with their payments.
LEMMA PaymentsOfStage ==
  ASSUME PaymentInvariant, RowsInvariant', NEW c \in Clients, NEW b, NEW t, NEW w,
         Stage(c, b, t, w),
         tx[c].op \in BookingChanges => b = tx[c].booking,
         \A d \in DOMAIN w : RowPays(c, d, w[d])
  PROVE  PaymentInvariant'
<1>1. TypeOK /\ PaymentSound(c)
  BY DEF PaymentInvariant, RowsInvariant
<1>2. /\ bookings' = bookings /\ \A d \in Clients \ {c} : tx'[d] = tx[d]
      /\ tx'[c].op = tx[c].op /\ tx'[c].booking = b /\ tx'[c].writes = w
      /\ setBack' = setBack
  BY <1>1, StageLeaves DEF history
<1>3. \A d \in DOMAIN w : d \notin setBack' \cup SetBackBy(c)' => PaidConfirms(w[d])
  BY <1>2 DEF SetBackBy, RowPays
<1>4. PaymentSound(c)'
  BY <1>1, <1>2, <1>3 DEF PaymentSound, Locked, BookingChanges, RowPays
<1> QED
  BY <1>2, <1>4, PaymentsOfOneSession

\* The row that a changed booking becomes is paid only when it is confirmed.
LEMMA ChangePays ==
  ASSUME PaymentInvariant, NEW c \in Clients,
         NEW row \in BookingRow, Changed(c, row)
  PROVE  RowPays(c, tx[c].booking, row)
<1> DEFINE b == tx[c].booking
<1>1. /\ PaidByTransfer(Locked(c)) /\ (b \notin setBack => PaidConfirms(Locked(c)))
      /\ Locked(c) = bookings[b]
  BY TransactionFields DEF PaymentInvariant, RowsInvariant, PaidMeansConfirmed, Locked, Changed
<1>2. row.hold \in {Locked(c).hold, NoHold}
  BY DEF Changed
<1> HIDE DEF b
<1>3. CASE tx[c].op = "updateBooking"
  BY <1>1, <1>2, <1>3 DEF Changed, RowPays, PaidByTransfer, PaidConfirms, KeepsHold, b
<1>4. CASE tx[c].op = "cancelTelegramBooking"
  BY <1>1, <1>2, <1>4 DEF Changed, RowPays, PaidByTransfer, PaidConfirms, KeepsHold,
     UnpaidStatus, b
<1>5. CASE tx[c].op = "confirmBookingPayment"
  BY <1>1, <1>5 DEF Changed, RowPays, PaidByTransfer, PaidConfirms, KeepsHold,
     UnpaidStatus, b
<1>6. CASE tx[c].op = "chooseCashBooking"
  BY <1>1, <1>6 DEF Changed, RowPays, PaidByTransfer, PaidConfirms, KeepsHold, b
<1>7. CASE tx[c].op = "setTelegramPaymentMethod"
  BY <1>1, <1>7 DEF Changed, RowPays, PaidByTransfer, PaidConfirms, KeepsHold, b
<1>8. CASE tx[c].op = "bookingPassengers"
  BY <1>1, <1>8 DEF Changed, RowPays, PaidByTransfer, PaidConfirms, KeepsHold, b
<1> QED
  BY <1>3, <1>4, <1>5, <1>6, <1>7, <1>8 DEF Changed

\* A statement's line pays by transfer: the method that was matched before the lock is
\* still the booking's, because nobody takes it back from a hold that lasts.
LEMMA LinePays ==
  ASSUME PaymentInvariant, NEW c \in Clients, NEW w, Lined(c, w), NEW d \in DOMAIN w
  PROVE  RowPays(c, d, w[d])
<1>1. /\ w[d] = Confirmed(bookings[d]) /\ d \in Bookings
      /\ d \in DOMAIN tx[c].writes \/ (d = tx[c].booking /\ HoldStillLive(c))
      /\ tx[c].op = "syncBank"
  BY DEF Lined
<1>2. /\ bookings[d] \in BookingRow /\ clock \in Nat /\ PaymentSound(c) /\ RowsSound(c)
  BY <1>1 DEF PaymentInvariant, RowsInvariant, TypeOK
<1>3. /\ w[d].status = "confirmed" /\ w[d].hold = NoHold
      /\ w[d].method = bookings[d].method
  BY <1>1, <1>2, ChangeFields
<1>4. PaidByTransfer(w[d])
  <2>1. CASE d \in DOMAIN tx[c].writes
    BY <1>1, <1>2, <2>1 DEF PaymentSound, RowsSound, LineWrite
  <2>2. CASE d = tx[c].booking /\ HoldStillLive(c)
    <3>1. bookings[d].hold # NoHold
      BY <1>2, <2>2 DEF HoldStillLive, HoldLive, NoHold, Locked
    <3> QED
      BY <1>1, <1>2, <1>3, <2>2, <3>1 DEF PaymentSound, Locked, PaidByTransfer
  <2> QED
    BY <1>1, <2>1, <2>2
<1>5. PaidConfirms(w[d]) /\ KeepsHold(bookings[d], w[d])
  BY <1>3 DEF PaidConfirms, KeepsHold, UnpaidStatus
<1> QED
  BY <1>4, <1>5 DEF RowPays

\* Every decision stages rows that agree with their payments.
LEMMA PaymentsOfDecide ==
  ASSUME PaymentInvariant, RowsInvariant', NEW c \in Clients, Decide(c)
  PROVE  PaymentInvariant'
<1>1. /\ RowsInvariant /\ TypeOK
      /\ \A b \in Bookings : /\ PaidByTransfer(bookings[b])
                             /\ b \notin setBack => PaidConfirms(bookings[b])
  BY DEF PaymentInvariant, RowsInvariant, PaidMeansConfirmed
<1>2. CASE PublicCreateBooking(c) \/ BotCreateBooking(c) \/ CreateBooking(c)
  <2>1. PICK b, row, e : b \in Bookings /\ Sold(c, b, row, e)
    BY <1>1, <1>2, SaleStages
  <2> DEFINE w == [d \in DOMAIN e \cup {b} |-> IF d = b THEN row ELSE e[d]]
  <2>2. Stage(c, b, tx[c].trip, w) /\ tx[c].op \notin BookingChanges
    BY <2>1 DEF Sold, Sales, BookingChanges
  <2>3. \A d \in DOMAIN w : RowPays(c, d, w[d])
    <3> SUFFICES ASSUME NEW d \in DOMAIN w
                 PROVE  RowPays(c, d, w[d])
      OBVIOUS
    <3>1. CASE d = b
      <4>1. w[d] = row
        BY <3>1
      <4> QED
        BY <2>1, <3>1, <4>1 DEF Sold, RowPays, PaidByTransfer, PaidConfirms, KeepsHold
    <3>2. CASE d # b
      <4>1. w[d] = e[d] /\ d \in DOMAIN e
        BY <3>2
      <4>2. /\ PaidByTransfer(bookings[d]) /\ bookings[d].hold # NoHold
            /\ e[d].payment = "paid" => bookings[d].payment = "paid"
            /\ e[d].hold = bookings[d].hold /\ e[d].method = bookings[d].method
        BY <1>1, <2>1, <4>1 DEF Sold, HoldDue
      <4> QED
        BY <4>1, <4>2, DuePays DEF RowPays
    <3> QED
      BY <3>1, <3>2
  <2> HIDE DEF w
  <2> QED
    BY <2>2, <2>3, PaymentsOfStage
<1>3. CASE \/ UpdateBooking(c) \/ CancelTelegramBooking(c) \/ AddPassenger(c)
           \/ ConfirmBookingPayment(c) \/ ChooseCashBooking(c)
           \/ SetTelegramPaymentMethod(c)
  <2>1. PICK row \in BookingRow : Changed(c, row)
    BY <1>1, <1>3, ChangeStages
  <2> DEFINE w == [d \in {tx[c].booking} |-> row]
  <2>2. Stage(c, tx[c].booking, tx[c].trip, w)
    BY <2>1 DEF Changed, StageBooking
  <2>3. \A d \in DOMAIN w : RowPays(c, d, w[d])
    BY <2>1, ChangePays
  <2> HIDE DEF w
  <2> QED
    BY <2>2, <2>3, PaymentsOfStage
<1>4. CASE UpdateTrip(c) \/ ChangeTripStatus(c)
  <2>1. PICK t, w : TripChanged(c, t, w)
    BY <1>1, <1>4, TripStages
  <2>2. \A d \in DOMAIN w : RowPays(c, d, w[d])
    BY <1>1, <2>1 DEF TripChanged, RowPays, PaidByTransfer, PaidConfirms, KeepsHold, UnpaidStatus
  <2>3. Stage(c, None, t, w) /\ tx[c].op \notin BookingChanges
    BY <2>1 DEF TripChanged, BookingChanges
  <2> QED
    BY <2>2, <2>3, PaymentsOfStage
<1>5. CASE MatchBankPayment(c)
  <2>1. PICK w : Lined(c, w)
    BY <1>1, <1>5, LineStages
  <2>2. \A d \in DOMAIN w : RowPays(c, d, w[d])
    BY <2>1, LinePays
  <2>3. Stage(c, tx[c].booking, tx[c].trip, w)
    BY <2>1 DEF Lined
  <2> QED
    BY <2>2, <2>3, PaymentsOfStage
<1> QED
  BY <1>2, <1>3, <1>4, <1>5 DEF Decide

\* A commit installs rows that agree with their payments.
LEMMA PaymentsOfEnd ==
  ASSUME PaymentInvariant, RowsInvariant', NEW c \in Clients, Commit(c) \/ Rollback(c)
  PROVE  PaymentInvariant'
<1>1. /\ tx'[c] = Idle /\ \A d \in Clients \ {c} : tx'[d] = tx[d]
      /\ \A d \in Clients \ {c} : \A b \in tx[d].locks : bookings'[b] = bookings[b]
      /\ \A b \in Bookings : \/ bookings'[b] = bookings[b]
                             \/ /\ b \in DOMAIN tx[c].writes
                                /\ bookings'[b] = tx[c].writes[b]
                                /\ setBack' = setBack \cup SetBackBy(c)
      /\ setBack \subseteq setBack'
  <2>1. CASE Commit(c)
    <3>1. setBack' = setBack \cup SetBackBy(c)
      BY <2>1 DEF Commit
    <3> QED
      BY <2>1, <3>1, CommitLeaves DEF PaymentInvariant
  <2>2. CASE Rollback(c)
    BY <2>2 DEF Rollback, PaymentInvariant, RowsInvariant, TypeOK
  <2> QED
    BY <2>1, <2>2
<1>2. \A b \in Bookings : /\ PaidByTransfer(bookings'[b])
                          /\ b \notin setBack' => PaidConfirms(bookings'[b])
                          /\ KeepsHold(bookings[b], bookings'[b])
  BY <1>1 DEF PaymentInvariant, PaidMeansConfirmed, PaymentSound, KeepsHold
<1>3. PaymentSound(c)'
  <2>1. DOMAIN Idle.writes = {} /\ Idle.op = "none"
    BY DEF Idle, NoWrites
  <2> QED
    BY <1>1, <2>1 DEF PaymentSound
<1>4. \A d \in Clients \ {c} : PaymentSound(d)'
  BY <1>1, <1>2, PaymentKept
<1> QED
  BY <1>2, <1>3, <1>4 DEF PaymentInvariant, PaidMeansConfirmed

\* Sweeps and time pay for nothing.
LEMMA PaymentsOfTime ==
  ASSUME PaymentInvariant, RowsInvariant', ExpireBookingHolds \/ ListBookings \/ Tick
  PROVE  PaymentInvariant'
<1>1. /\ TypeOK
      /\ \A b \in Bookings : /\ PaidByTransfer(bookings[b])
                             /\ b \notin setBack => PaidConfirms(bookings[b])
  BY DEF PaymentInvariant, RowsInvariant, PaidMeansConfirmed
<1>2. /\ tx' = tx /\ setBack' = setBack
      /\ \A d \in Clients : \A b \in tx[d].locks : bookings'[b] = bookings[b]
      /\ \A b \in Bookings :
           \/ bookings'[b] = bookings[b]
           \/ /\ bookings[b].hold # NoHold
              /\ bookings'[b].hold = bookings[b].hold
              /\ bookings'[b].method = bookings[b].method
              /\ bookings'[b].payment = "paid" => bookings[b].payment = "paid"
  <2>1. CASE ExpireBookingHolds \/ ListBookings
    BY <1>1, <2>1, SweepLeaves DEF HoldDue, history
  <2>2. CASE Tick
    BY <2>2 DEF Tick
  <2> QED
    BY <2>1, <2>2
<1>3. \A b \in Bookings : /\ PaidByTransfer(bookings'[b])
                          /\ b \notin setBack => PaidConfirms(bookings'[b])
                          /\ KeepsHold(bookings[b], bookings'[b])
  <2> SUFFICES ASSUME NEW b \in Bookings
               PROVE  /\ PaidByTransfer(bookings'[b])
                      /\ b \notin setBack => PaidConfirms(bookings'[b])
                      /\ KeepsHold(bookings[b], bookings'[b])
    OBVIOUS
  <2>1. CASE bookings'[b] = bookings[b]
    BY <1>1, <2>1 DEF KeepsHold
  <2>2. CASE bookings'[b] # bookings[b]
    BY <1>1, <1>2, <2>2, DuePays
  <2> QED
    BY <2>1, <2>2
<1>4. \A d \in Clients : PaymentSound(d)'
  BY <1>2, <1>3, PaymentKept
<1> QED
  BY <1>2, <1>3, <1>4 DEF PaymentInvariant, PaidMeansConfirmed

\* Initially nothing is paid.
LEMMA PaymentsInit == Init => PaymentInvariant
<1> SUFFICES ASSUME Init PROVE PaymentInvariant
  OBVIOUS
<1>1. \A c \in Clients : tx[c] = Idle
  BY DEF Init
<1>2. DOMAIN Idle.writes = {} /\ Idle.op = "none"
  BY DEF Idle, NoWrites
<1>3. PaidMeansConfirmed
  BY DEF Init, EmptyRow, PaidMeansConfirmed, PaidConfirms, PaidByTransfer
<1> QED
  BY <1>1, <1>2, <1>3, RowsInit DEF PaymentInvariant, PaymentSound

\* The agreement of payments and statuses is inductive.
LEMMA PaymentsNext ==
  ASSUME PaymentInvariant, [Next]_vars
  PROVE  PaymentInvariant'
<1>1. RowsInvariant'
  BY RowsNext DEF PaymentInvariant
<1>2. CASE UNCHANGED vars
  BY <1>1, <1>2 DEF vars, history, PaymentInvariant, PaidMeansConfirmed, PaymentSound,
     SetBackBy, Locked
<1>3. ASSUME NEW c \in Clients,
             BeginSale(c) \/ BeginBookingChange(c) \/ BeginTripChange(c)
      PROVE  PaymentInvariant'
  BY <1>1, <1>3, PaymentsOfBegin
<1>4. ASSUME NEW c \in Clients,
             LockTrip(c) \/ LockBooking(c) \/ LockKey(c) \/ LockDueRows(c)
      PROVE  PaymentInvariant'
  BY <1>1, <1>4, PaymentsOfLock
<1>5. ASSUME NEW c \in Clients, Decide(c)
      PROVE  PaymentInvariant'
  BY <1>1, <1>5, PaymentsOfDecide
<1>6. ASSUME NEW c \in Clients, NextLine(c) \/ Commit(c) \/ Rollback(c)
      PROVE  PaymentInvariant'
  BY <1>1, <1>6, PaymentsOfNextLine, PaymentsOfEnd
<1>7. CASE ExpireBookingHolds \/ ListBookings \/ Tick
  BY <1>1, <1>7, PaymentsOfTime
<1> QED
  BY <1>2, <1>3, <1>4, <1>5, <1>6, <1>7 DEF Next

\* A paid transfer belongs to a booking that it confirmed, never to one that still
\* waits, whose hold ran out or whose customer switched to cash first, and keeps no hold
\* that a sweep could end: only a status that staff set by hand afterwards says
\* otherwise.
THEOREM PaymentsConfirm == Spec => []PaidMeansConfirmed
<1>1. Init => PaymentInvariant
  BY PaymentsInit
<1>2. PaymentInvariant /\ [Next]_vars => PaymentInvariant'
  BY PaymentsNext
<1>3. PaymentInvariant => PaidMeansConfirmed
  BY DEF PaymentInvariant
<1> QED
  BY <1>1, <1>2, <1>3, PTL DEF Spec

-----------------------------------------------------------------------------
(* The sale of a trip as a whole.  The argument is the shape of what a transaction     *)
(* stages: it sells one new booking, adds one seat, edits the trip alone, or leaves    *)
(* bookings that exist their number of seats.                                          *)

\* What a transaction has staged stays locked and still fits, whatever runs meanwhile.
THEOREM SeatsStayInvariant == Spec => []SeatInvariant
BY SeatInit, SeatNext, PTL DEF Spec

-----------------------------------------------------------------------------
\* The shape of what is staged.

\* The row d that session c is about to stage as w[d], with b as its booking.
RowShape(c, b, d, new) ==
  \/ tx[c].op \in Sales /\ d = b /\ bookings[d].status = "none"
  \/ /\ tx[c].op \in Sales /\ bookings[d].status # "none"
     /\ ~Occupies(bookings[d], clock) /\ ~Occupies(new, clock)
  \/ /\ tx[c].op = "bookingPassengers" /\ d = b
     /\ new = [bookings[d] EXCEPT !.seats = @ + 1]
  \/ /\ tx[c].op \notin Sales \cup {"bookingPassengers"}
     /\ bookings[d].status # "none" /\ new.seats = bookings[d].seats
     /\ tx[c].op = "changeTripStatus" => TerminalBooking(new.status)
     /\ tx[c].op \notin {"changeTripStatus", "syncBank"} => d = b

\* A session whose record, locked rows and locked trip stay.
LEMMA ShapeKept ==
  ASSUME ShapeInvariant, NEW d \in Clients, tx'[d] = tx[d], clock' = clock,
         \A b \in tx[d].locks : bookings'[b] = bookings[b],
         tx[d].hasTrip => trip' = trip
  PROVE  Shaped(d)'
<1>1. Shaped(d)
  BY DEF ShapeInvariant
<1>2. DOMAIN tx[d].writes \subseteq tx[d].locks
  BY TransactionFields DEF ShapeInvariant, RowsInvariant
<1>3. ASSUME NEW b \in DOMAIN tx[d].writes
      PROVE  /\ NewSale(d, b) => NewSale(d, b)'
             /\ LapsedHold(d, b) => LapsedHold(d, b)'
             /\ OneMoreSeat(d, b) => OneMoreSeat(d, b)'
             /\ SameSeats(d, b) => SameSeats(d, b)'
  <2>1. bookings'[b] = bookings[b]
    BY <1>2
  <2> QED
    BY <2>1 DEF NewSale, LapsedHold, OneMoreSeat, SameSeats
<1> QED
  BY <1>1, <1>3 DEF Shaped

\* A step of one session that leaves the rows, the trip and the clock alone.
LEMMA ShapeOfOneSession ==
  ASSUME ShapeInvariant, SeatInvariant', RowsInvariant', NEW c \in Clients,
         UNCHANGED <<clock, trip, bookings>>, \A d \in Clients \ {c} : tx'[d] = tx[d],
         Shaped(c)'
  PROVE  ShapeInvariant'
<1>1. \A d \in Clients \ {c} : Shaped(d)'
  BY ShapeKept
<1> QED
  BY <1>1 DEF ShapeInvariant

\* Beginning, locking and rolling back stage nothing.
LEMMA ShapeOfUnstaged ==
  ASSUME ShapeInvariant, SeatInvariant', RowsInvariant', NEW c \in Clients,
         \/ BeginSale(c) \/ BeginBookingChange(c) \/ BeginTripChange(c)
         \/ LockTrip(c) \/ LockBooking(c) \/ LockKey(c) \/ LockDueRows(c)
         \/ NextLine(c) \/ Rollback(c)
  PROVE  /\ UNCHANGED <<clock, trip, bookings>>
         /\ \A d \in Clients \ {c} : tx'[d] = tx[d]
         /\ revived' = revived /\ tx'[c].pc # "staged" /\ ShapeInvariant'
<1>1. TypeOK
  BY DEF ShapeInvariant, RowsInvariant
<1>2. /\ UNCHANGED <<clock, trip, bookings>>
      /\ \A d \in Clients \ {c} : tx'[d] = tx[d]
      /\ revived' = revived /\ tx'[c].pc # "staged"
  <2>1. CASE BeginSale(c) \/ BeginBookingChange(c) \/ BeginTripChange(c)
    <3>1. PICK op, b, k, n : op \in AllOps /\ Open(c, op, b, k, n)
      BY <2>1, Begins, Zenon
    <3>2. FirstLock(op) # "staged"
      BY DEF FirstLock
    <3> QED
      BY <1>1, <3>1, <3>2, OpenLeaves DEF history
  <2>2. CASE LockTrip(c) \/ LockBooking(c) \/ LockKey(c) \/ LockDueRows(c)
    BY <1>1, <2>2, LockLeaves DEF history
  <2>3. CASE NextLine(c)
    BY <1>1, <2>3, NextLineLeaves DEF history
  <2>4. CASE Rollback(c)
    BY <1>1, <2>4 DEF Rollback, TypeOK, Idle
  <2> QED
    BY <2>1, <2>2, <2>3, <2>4
<1>3. Shaped(c)'
  BY <1>2 DEF Shaped
<1> QED
  BY <1>2, <1>3, ShapeOfOneSession

\* A decision that stages rows of the right shape.
LEMMA ShapeOfStage ==
  ASSUME ShapeInvariant, SeatInvariant', RowsInvariant', NEW c \in Clients,
         NEW b, NEW t, NEW w, Stage(c, b, t, w),
         tx[c].op = "updateTrip" => DOMAIN w = {},
         tx[c].hasTrip /\ tx[c].op # "updateTrip" => t.capacity = trip.capacity,
         \A d \in DOMAIN w : w[d].seats >= 1 /\ RowShape(c, b, d, w[d])
  PROVE  ShapeInvariant'
<1>1. TypeOK
  BY DEF ShapeInvariant, RowsInvariant
<1>2. /\ UNCHANGED <<clock, trip, bookings>> /\ \A d \in Clients \ {c} : tx'[d] = tx[d]
      /\ tx'[c].pc = "staged" /\ tx'[c].op = tx[c].op /\ tx'[c].booking = b
      /\ tx'[c].writes = w /\ tx'[c].trip = t /\ tx'[c].hasTrip = tx[c].hasTrip
  BY <1>1, StageLeaves
<1>3. ASSUME NEW d \in DOMAIN w
      PROVE  NewSale(c, d)' \/ LapsedHold(c, d)' \/ OneMoreSeat(c, d)' \/ SameSeats(c, d)'
  BY <1>2, <1>3 DEF RowShape, NewSale, LapsedHold, OneMoreSeat, SameSeats
<1>4. Shaped(c)'
  BY <1>2, <1>3 DEF Shaped
<1> QED
  BY <1>2, <1>4, ShapeOfOneSession

\* A hold that had run out when the transaction began holds nothing now.
LEMMA DueHoldsNothing ==
  ASSUME NEW row \in BookingRow, NEW t1 \in Int, NEW t2 \in Int, t1 <= t2,
         row.status = "awaiting_payment", HoldDue(row, t1)
  PROVE  ~Occupies(row, t2)
<1>1. row.hold \in Int
  BY DEF BookingRow, NoHold
<1> QED
  BY <1>1 DEF HoldDue, HoldLive, Occupies, BookingPhase

\* The trip that a session has read under its lock is the committed one.
LEMMA TripRead ==
  ASSUME ShapeInvariant, NEW c \in Clients, tx[c].pc = "decide", tx[c].hasTrip
  PROVE  tx[c].trip = trip
BY DEF ShapeInvariant, SeatInvariant, ReadsStayTrue, ReadsTrue

\* A changed booking has one seat more, or as many as before.
LEMMA ChangeShape ==
  ASSUME ShapeInvariant, NEW c \in Clients,
         NEW row \in BookingRow, Changed(c, row)
  PROVE  /\ tx[c].booking \in Bookings /\ row.seats >= 1
         /\ RowShape(c, tx[c].booking, tx[c].booking, row)
<1> DEFINE b == tx[c].booking
<1>1. /\ tx[c].op \in BookingChanges /\ tx[c].op \notin Sales \cup {"changeTripStatus"}
      /\ b \in Bookings /\ bookings[b] \in BookingRow /\ Locked(c) = bookings[b]
      /\ bookings[b].status # "none"
  BY TransactionFields DEF ShapeInvariant, RowsInvariant, RowsSound, Changed, Locked,
     BookingChanges, Sales
<1>2. bookings[b].seats >= 1 /\ bookings[b].seats \in Int
  BY <1>1, SalesAssumption DEF ShapeInvariant, BookingRow
<1>3. row.seats >= 1
  BY <1>1, <1>2 DEF Changed
<1>4. CASE tx[c].op = "bookingPassengers"
  BY <1>1, <1>3, <1>4 DEF Changed, RowShape
<1>5. CASE tx[c].op # "bookingPassengers"
  <2>1. row.seats = bookings[b].seats
    BY <1>1, <1>5 DEF Changed
  <2> QED
    BY <1>1, <1>3, <1>5, <2>1 DEF RowShape
<1> QED
  BY <1>4, <1>5

\* A sale writes one new booking next to holds that hold nothing.
LEMMA SaleShape ==
  ASSUME ShapeInvariant, NEW c \in Clients, NEW b \in Bookings, NEW row, NEW e,
         Sold(c, b, row, e), NEW d \in DOMAIN e, d # b
  PROVE  /\ e[d].seats >= 1 /\ RowShape(c, b, d, e[d])
         /\ ~Occupies(bookings[d], clock) /\ ~Occupies(e[d], clock)
<1>1. /\ tx[c].now \in Int /\ clock \in Int /\ tx[c].now <= clock
      /\ d \in Bookings /\ bookings[d] \in BookingRow
  BY TransactionFields, SalesAssumption DEF ShapeInvariant, RowsInvariant, TypeOK, Sold
<1>2. /\ bookings[d].status = "awaiting_payment" /\ HoldDue(bookings[d], tx[c].now)
      /\ e[d].status = "expired" /\ e[d].seats = bookings[d].seats /\ tx[c].op \in Sales
  BY DEF Sold
<1>3. ~Occupies(bookings[d], clock)
  BY <1>1, <1>2, DueHoldsNothing
<1>4. ~Occupies(e[d], clock)
  BY <1>2 DEF Occupies, BookingPhase
<1>5. e[d].seats >= 1
  BY <1>1, <1>2 DEF ShapeInvariant
<1> QED
  BY <1>2, <1>3, <1>4, <1>5 DEF RowShape

\* Every decision stages rows of the right shape.
LEMMA ShapeOfDecide ==
  ASSUME ShapeInvariant, SeatInvariant', RowsInvariant', NEW c \in Clients, Decide(c)
  PROVE  ShapeInvariant'
<1>1. /\ RowsInvariant /\ TypeOK /\ MaxSeats \in Nat
      /\ \A b \in Bookings : bookings[b] \in BookingRow
  BY SalesAssumption DEF ShapeInvariant, RowsInvariant, TypeOK
<1>2. CASE PublicCreateBooking(c) \/ BotCreateBooking(c) \/ CreateBooking(c)
  <2>1. PICK b, row, e : b \in Bookings /\ Sold(c, b, row, e)
    BY <1>1, <1>2, SaleStages
  <2> DEFINE w == [d \in DOMAIN e \cup {b} |-> IF d = b THEN row ELSE e[d]]
  <2>2. /\ Stage(c, b, tx[c].trip, w) /\ tx[c].pc = "decide" /\ tx[c].op \in Sales
        /\ tx[c].op # "updateTrip"
    BY <2>1 DEF Sold, Sales
  <2>3. \A d \in DOMAIN w : w[d].seats >= 1 /\ RowShape(c, b, d, w[d])
    <3> SUFFICES ASSUME NEW d \in DOMAIN w
                 PROVE  w[d].seats >= 1 /\ RowShape(c, b, d, w[d])
      OBVIOUS
    <3>1. CASE d = b
      <4>1. w[d] = row
        BY <3>1
      <4>2. row.seats \in 1..MaxSeats /\ bookings[b].status = "none"
        BY <2>1 DEF Sold
      <4> QED
        BY <1>1, <2>2, <3>1, <4>1, <4>2 DEF RowShape
    <3>2. CASE d # b
      <4>1. w[d] = e[d] /\ d \in DOMAIN e
        BY <3>2
      <4> QED
        BY <2>1, <3>2, <4>1, SaleShape
    <3> QED
      BY <3>1, <3>2
  <2> HIDE DEF w
  <2>4. tx[c].hasTrip => tx[c].trip.capacity = trip.capacity
    BY <2>2, TripRead
  <2> QED
    BY <2>2, <2>3, <2>4, ShapeOfStage
<1>3. CASE \/ UpdateBooking(c) \/ CancelTelegramBooking(c) \/ AddPassenger(c)
           \/ ConfirmBookingPayment(c) \/ ChooseCashBooking(c)
           \/ SetTelegramPaymentMethod(c)
  <2>1. PICK row \in BookingRow : Changed(c, row)
    BY <1>1, <1>3, ChangeStages
  <2> DEFINE w == [d \in {tx[c].booking} |-> row]
  <2>2. /\ Stage(c, tx[c].booking, tx[c].trip, w) /\ tx[c].pc = "decide"
        /\ tx[c].op # "updateTrip"
    BY <2>1 DEF Changed, StageBooking, BookingChanges
  <2>3. \A d \in DOMAIN w : w[d].seats >= 1 /\ RowShape(c, tx[c].booking, d, w[d])
    BY <2>1, ChangeShape
  <2> HIDE DEF w
  <2>4. tx[c].hasTrip => tx[c].trip.capacity = trip.capacity
    BY <2>2, TripRead
  <2> QED
    BY <2>2, <2>3, <2>4, ShapeOfStage
<1>4. CASE UpdateTrip(c) \/ ChangeTripStatus(c)
  <2>1. PICK t, w : TripChanged(c, t, w)
    BY <1>1, <1>4, TripStages
  <2>2. \A d \in DOMAIN w : w[d].seats >= 1 /\ RowShape(c, None, d, w[d])
    <3> SUFFICES ASSUME NEW d \in DOMAIN w
                 PROVE  w[d].seats >= 1 /\ RowShape(c, None, d, w[d])
      OBVIOUS
    <3>1. /\ d \in Bookings /\ BookingPhase(bookings[d].status) = "confirmed"
          /\ w[d].seats = bookings[d].seats /\ tx[c].op = "changeTripStatus"
          /\ w[d].status \in {"cancelled", "completed"}
      BY <2>1 DEF TripChanged
    <3>2. bookings[d].status # "none" /\ TerminalBooking(w[d].status)
      BY <3>1 DEF BookingPhase, TerminalBooking
    <3> QED
      BY <3>1, <3>2 DEF ShapeInvariant, RowShape, Sales
  <2>3. /\ Stage(c, None, t, w) /\ tx[c].pc = "decide"
        /\ tx[c].op = "updateTrip" => DOMAIN w = {}
        /\ tx[c].hasTrip /\ tx[c].op # "updateTrip" => t.capacity = trip.capacity
    BY <2>1, TripRead DEF TripChanged
  <2> QED
    BY <2>2, <2>3, ShapeOfStage
<1>5. CASE MatchBankPayment(c)
  <2>1. PICK w : Lined(c, w)
    BY <1>1, <1>5, LineStages
  <2>2. \A d \in DOMAIN w : w[d].seats >= 1 /\ RowShape(c, tx[c].booking, d, w[d])
    <3> SUFFICES ASSUME NEW d \in DOMAIN w
                 PROVE  w[d].seats >= 1 /\ RowShape(c, tx[c].booking, d, w[d])
      OBVIOUS
    <3>1. /\ tx[c].op = "syncBank" /\ d \in Bookings /\ bookings[d] \in BookingRow
          /\ bookings[d].status # "none" /\ w[d] = Confirmed(bookings[d])
      BY <1>1, <2>1 DEF Lined
    <3>2. w[d].seats = bookings[d].seats
      BY <3>1, ChangeFields
    <3> QED
      BY <3>1, <3>2 DEF ShapeInvariant, RowShape, Sales
  <2>3. /\ Stage(c, tx[c].booking, tx[c].trip, w) /\ tx[c].pc = "decide"
        /\ tx[c].op # "updateTrip"
    BY <2>1 DEF Lined
  <2>4. tx[c].hasTrip => tx[c].trip.capacity = trip.capacity
    BY <2>3, TripRead
  <2> QED
    BY <2>2, <2>3, <2>4, ShapeOfStage
<1> QED
  BY <1>2, <1>3, <1>4, <1>5 DEF Decide

\* A commit leaves the other sessions' rows, and their trip, as they were.
LEMMA ShapeOfCommit ==
  ASSUME ShapeInvariant, SeatInvariant', RowsInvariant', NEW c \in Clients, Commit(c)
  PROVE  ShapeInvariant'
<1>1. RowsInvariant /\ Shaped(c)
  BY DEF ShapeInvariant
<1>2. /\ clock' = clock /\ tx[c].pc = "staged"
      /\ \A d \in Clients \ {c} : tx'[d] = tx[d]
      /\ tx'[c] = Idle
      /\ \A b \in Bookings :
           bookings'[b] = IF b \in DOMAIN tx[c].writes THEN tx[c].writes[b]
                                                       ELSE bookings[b]
      /\ \A d \in Clients \ {c} : \A b \in tx[d].locks : bookings'[b] = bookings[b]
  BY <1>1, CommitLeaves
<1>3. \A d \in Clients \ {c} : tx[d].hasTrip => trip' = trip
  BY DEF Commit, ShapeInvariant, SeatInvariant, LocksExclude, Apart
<1>4. \A d \in Clients \ {c} : Shaped(d)'
  BY <1>2, <1>3, ShapeKept
<1>5. Shaped(c)'
  BY <1>2 DEF Shaped, Idle
<1>6. \A b \in Bookings : bookings'[b].status # "none" => bookings'[b].seats >= 1
  BY <1>1, <1>2 DEF ShapeInvariant, Shaped
<1> QED
  BY <1>4, <1>5, <1>6 DEF ShapeInvariant

\* A sweep passes by what is staged.
LEMMA ShapeOfSweep ==
  ASSUME ShapeInvariant, SeatInvariant', RowsInvariant', ExpireBookingHolds \/ ListBookings
  PROVE  ShapeInvariant'
<1>1. /\ UNCHANGED <<clock, trip, tx>>
      /\ \A d \in Clients : \A b \in tx[d].locks : bookings'[b] = bookings[b]
      /\ \A b \in Bookings :
           \/ bookings'[b] = bookings[b]
           \/ /\ bookings[b].status = "awaiting_payment"
              /\ bookings'[b].seats = bookings[b].seats
  BY SweepLeaves DEF ShapeInvariant, RowsInvariant
<1>2. \A d \in Clients : Shaped(d)'
  BY <1>1, ShapeKept
<1>3. \A b \in Bookings : bookings'[b].status # "none" => bookings'[b].seats >= 1
  BY <1>1 DEF ShapeInvariant
<1> QED
  BY <1>2, <1>3 DEF ShapeInvariant

\* A hold that lapsed stays lapsed, and nothing else of the shape knows the time.
LEMMA ShapeOfTick ==
  ASSUME ShapeInvariant, SeatInvariant', RowsInvariant', Tick
  PROVE  ShapeInvariant'
<1>1. /\ UNCHANGED <<trip, bookings, tx>>
      /\ clock \in Int /\ clock' \in Int /\ clock <= clock'
  BY SalesAssumption DEF ShapeInvariant, SeatInvariant, TypeOK, Tick
<1>2. ASSUME NEW c \in Clients
      PROVE  Shaped(c)'
  <2>1. Shaped(c) /\ TypeOK
    BY DEF ShapeInvariant, SeatInvariant
  <2>2. ASSUME NEW b \in DOMAIN tx[c].writes
        PROVE  /\ NewSale(c, b) => NewSale(c, b)'
               /\ LapsedHold(c, b) => LapsedHold(c, b)'
               /\ OneMoreSeat(c, b) => OneMoreSeat(c, b)'
               /\ SameSeats(c, b) => SameSeats(c, b)'
    <3>1. bookings[b] \in BookingRow /\ tx[c].writes[b] \in BookingRow
      BY <2>1, TransactionFields DEF TypeOK
    <3>2. LapsedHold(c, b) => LapsedHold(c, b)'
      BY <1>1, <3>1, OccupiesEarlier DEF LapsedHold
    <3>3. SameSeats(c, b) => SameSeats(c, b)'
      BY <1>1 DEF SameSeats
    <3> QED
      BY <1>1, <3>2, <3>3 DEF NewSale, OneMoreSeat
  <2> QED
    BY <1>1, <2>1, <2>2 DEF Shaped
<1> QED
  BY <1>1, <1>2 DEF ShapeInvariant

\* Initially nothing is staged.
LEMMA ShapeInit == Init => ShapeInvariant
<1> SUFFICES ASSUME Init PROVE ShapeInvariant
  OBVIOUS
<1>1. \A c \in Clients : tx[c].pc = "idle"
  BY DEF Init, Idle
<1>2. \A b \in Bookings : bookings[b].status = "none"
  BY DEF Init, EmptyRow
<1> QED
  BY <1>1, <1>2, SeatInit, RowsInit DEF ShapeInvariant, Shaped

\* The shape is inductive.
LEMMA ShapeNext ==
  ASSUME ShapeInvariant, [Next]_vars
  PROVE  ShapeInvariant'
<1>1. SeatInvariant' /\ RowsInvariant'
  BY SeatNext, RowsNext DEF ShapeInvariant
<1>2. CASE UNCHANGED vars
  <2>1. UNCHANGED <<clock, trip, bookings, tx>>
    BY <1>2 DEF vars
  <2>2. \A d \in Clients : Shaped(d)'
    BY <2>1, ShapeKept
  <2> QED
    BY <1>1, <2>1, <2>2 DEF ShapeInvariant
<1>3. ASSUME NEW c \in Clients,
             \/ BeginSale(c) \/ BeginBookingChange(c) \/ BeginTripChange(c)
             \/ LockTrip(c) \/ LockBooking(c) \/ LockKey(c) \/ LockDueRows(c)
             \/ NextLine(c) \/ Rollback(c)
      PROVE  ShapeInvariant'
  BY <1>1, <1>3, ShapeOfUnstaged
<1>4. ASSUME NEW c \in Clients, Decide(c)
      PROVE  ShapeInvariant'
  BY <1>1, <1>4, ShapeOfDecide
<1>5. ASSUME NEW c \in Clients, Commit(c)
      PROVE  ShapeInvariant'
  BY <1>1, <1>5, ShapeOfCommit
<1>6. CASE ExpireBookingHolds \/ ListBookings
  BY <1>1, <1>6, ShapeOfSweep
<1>7. CASE Tick
  BY <1>1, <1>7, ShapeOfTick
<1> QED
  BY <1>2, <1>3, <1>4, <1>5, <1>6, <1>7 DEF Next


\* The shape of what is staged stays true of the rows as they are committed later.
THEOREM ShapeStays == Spec => []ShapeInvariant
BY ShapeInit, ShapeNext, PTL DEF Spec

\* Which steps touch the rows of bookings.
LEMMA StepLeaves ==
  ASSUME ShapeInvariant, [Next]_vars
  PROVE  \/ UNCHANGED <<clock, trip, bookings, revived>>
         \/ ExpireBookingHolds \/ ListBookings
         \/ Tick
         \/ \E c \in Clients : Commit(c)
<1>1. TypeOK /\ RowsInvariant /\ SeatInvariant' /\ RowsInvariant'
  BY SeatNext, RowsNext DEF ShapeInvariant, RowsInvariant
<1>2. CASE UNCHANGED vars
  BY <1>2 DEF vars, history
<1>3. ASSUME NEW c \in Clients,
             \/ BeginSale(c) \/ BeginBookingChange(c) \/ BeginTripChange(c)
             \/ LockTrip(c) \/ LockBooking(c) \/ LockKey(c) \/ LockDueRows(c)
             \/ NextLine(c) \/ Rollback(c)
      PROVE  UNCHANGED <<clock, trip, bookings, revived>>
  BY <1>1, <1>3, ShapeOfUnstaged
<1>4. ASSUME NEW c \in Clients, Decide(c)
      PROVE  UNCHANGED <<clock, trip, bookings, revived>>
  <2>1. PICK b, t, w : Stage(c, b, t, w)
    <3>1. CASE PublicCreateBooking(c) \/ BotCreateBooking(c) \/ CreateBooking(c)
      BY <1>1, <3>1, SaleStages DEF Sold
    <3>2. CASE \/ UpdateBooking(c) \/ CancelTelegramBooking(c) \/ AddPassenger(c)
               \/ ConfirmBookingPayment(c) \/ ChooseCashBooking(c)
               \/ SetTelegramPaymentMethod(c)
      BY <1>1, <3>2, ChangeStages DEF Changed, StageBooking
    <3>3. CASE UpdateTrip(c) \/ ChangeTripStatus(c)
      BY <1>1, <3>3, TripStages DEF TripChanged
    <3>4. CASE MatchBankPayment(c)
      BY <1>1, <3>4, LineStages DEF Lined
    <3> QED
      BY <1>4, <3>1, <3>2, <3>3, <3>4 DEF Decide
  <2> QED
    BY <1>1, <2>1, StageLeaves DEF history
<1> QED
  BY <1>2, <1>3, <1>4 DEF Next

-----------------------------------------------------------------------------
\* No expired hold is confirmed, but by a commit that its end overtakes.

\* A session that keeps its record, its rows and what lapsed among them.
LEMMA HoldKept ==
  ASSUME HoldInvariant, NEW d \in Clients, tx'[d] = tx[d], clock' = clock,
         \A b \in tx[d].locks : bookings'[b] = bookings[b] /\ (b \in lapsed => b \in lapsed')
  PROVE  \A b \in DOMAIN tx'[d].writes : Checked(d, b)' /\ Resolves(d, b)'
<1>1. DOMAIN tx[d].writes \subseteq tx[d].locks
  BY TransactionFields DEF HoldInvariant, RowsInvariant
<1> QED
  BY <1>1 DEF HoldInvariant, Checked, Resolves, ResolvesHold

\* A step of one session that leaves the rows, the clock and what lapsed alone.
LEMMA HoldOfOneSession ==
  ASSUME HoldInvariant, RowsInvariant', NEW c \in Clients,
         UNCHANGED <<clock, bookings, lapsed>>, \A d \in Clients \ {c} : tx'[d] = tx[d],
         \A b \in DOMAIN tx'[c].writes : Checked(c, b)' /\ Resolves(c, b)'
  PROVE  HoldInvariant'
<1>1. ASSUME NEW d \in Clients \ {c}
      PROVE  \A b \in DOMAIN tx'[d].writes : Checked(d, b)' /\ Resolves(d, b)'
  BY HoldKept
<1> QED
  BY <1>1 DEF HoldInvariant

\* Beginning, locking and reading the next line give no row a seat.
LEMMA HoldOfUnstaged ==
  ASSUME HoldInvariant, RowsInvariant', NEW c \in Clients,
         \/ BeginSale(c) \/ BeginBookingChange(c) \/ BeginTripChange(c)
         \/ LockTrip(c) \/ LockBooking(c) \/ LockKey(c) \/ LockDueRows(c)
         \/ NextLine(c)
  PROVE  HoldInvariant'
<1>1. TypeOK /\ \A b \in Bookings : bookings[b] \in BookingRow
  BY DEF HoldInvariant, RowsInvariant, TypeOK
<1>2. CASE BeginSale(c) \/ BeginBookingChange(c) \/ BeginTripChange(c)
  <2>1. /\ UNCHANGED <<clock, bookings, lapsed>> /\ \A d \in Clients \ {c} : tx'[d] = tx[d]
        /\ DOMAIN tx'[c].writes = {}
    BY <1>1, <1>2, Begins, OpenLeaves DEF history
  <2> QED
    BY <2>1, HoldOfOneSession
<1>3. CASE LockTrip(c) \/ LockBooking(c) \/ LockKey(c) \/ LockDueRows(c)
  <2>1. /\ UNCHANGED <<clock, bookings, lapsed>> /\ \A d \in Clients \ {c} : tx'[d] = tx[d]
        /\ tx'[c].op = tx[c].op
        /\ \/ tx'[c].writes = tx[c].writes
           \/ /\ DOMAIN tx'[c].writes \subseteq Bookings /\ tx[c].pc = "due"
              /\ \A b \in DOMAIN tx'[c].writes :
                   tx'[c].writes[b] = Expired(CancelPayment(bookings[b]))
    BY <1>1, <1>3, LockLeaves DEF history
  <2>2. CASE tx'[c].writes = tx[c].writes
    BY <2>1, <2>2, HoldOfOneSession DEF HoldInvariant, Checked, Resolves, ResolvesHold
  <2>3. CASE tx'[c].writes # tx[c].writes
    <3>1. tx[c].op \notin BookingChanges
      BY <2>1, <2>3 DEF HoldInvariant, RowsInvariant, RowsSound
    <3>2. ASSUME NEW b \in DOMAIN tx'[c].writes
          PROVE  tx'[c].writes[b].status = "expired"
      BY <1>1, <2>1, <2>3, ExpiredFields
    <3>3. \A b \in DOMAIN tx'[c].writes : Checked(c, b)' /\ Resolves(c, b)'
      BY <2>1, <3>1, <3>2 DEF Checked, Resolves, ResolvesHold, BookingChanges, BookingPhase
    <3> QED
      BY <2>1, <3>3, HoldOfOneSession
  <2> QED
    BY <2>2, <2>3
<1>4. CASE NextLine(c)
  <2>1. /\ UNCHANGED <<clock, bookings, lapsed>> /\ \A d \in Clients \ {c} : tx'[d] = tx[d]
        /\ tx'[c].op = tx[c].op /\ tx'[c].writes = tx[c].writes
    BY <1>1, <1>4, NextLineLeaves DEF history
  <2> QED
    BY <2>1, HoldOfOneSession DEF HoldInvariant, Checked, Resolves, ResolvesHold
<1> QED
  BY <1>2, <1>3, <1>4

\* The row d that session c is about to stage gives a waiting booking a seat only after
\* its hold was found live, or by hand.
RowHolds(c, d, new) ==
  /\ bookings[d].status = "awaiting_payment"
  /\ BookingPhase(new.status) \in {"pending", "confirmed"}
  => tx[c].op \in {"confirmBookingPayment", "syncBank", "chooseCashBooking", "updateBooking"}

LEMMA HoldOfStage ==
  ASSUME HoldInvariant, RowsInvariant', NEW c \in Clients,
         NEW b, NEW t, NEW w, Stage(c, b, t, w),
         \A d \in DOMAIN w :
           /\ RowHolds(c, d, w[d])
           /\ tx[c].op \in {"confirmBookingPayment", "syncBank", "chooseCashBooking"}
                => HoldLive(bookings[d], clock) \/ d \in lapsed
  PROVE  HoldInvariant'
<1>1. /\ UNCHANGED <<clock, bookings, lapsed>> /\ \A d \in Clients \ {c} : tx'[d] = tx[d]
      /\ tx'[c].op = tx[c].op /\ tx'[c].writes = w
  BY StageLeaves DEF HoldInvariant, RowsInvariant, history
<1>2. \A d \in DOMAIN tx'[c].writes : Checked(c, d)' /\ Resolves(c, d)'
  BY <1>1 DEF Checked, Resolves, ResolvesHold, RowHolds
<1> QED
  BY <1>1, <1>2, HoldOfOneSession

\* Every decision that resolves a hold has found it live under the row's lock.
LEMMA HoldOfDecide ==
  ASSUME HoldInvariant, RowsInvariant', NEW c \in Clients, Decide(c)
  PROVE  HoldInvariant'
<1>1. RowsInvariant /\ TypeOK
  BY DEF HoldInvariant, RowsInvariant
<1>2. CASE PublicCreateBooking(c) \/ BotCreateBooking(c) \/ CreateBooking(c)
  <2>1. PICK b, row, e : b \in Bookings /\ Sold(c, b, row, e)
    BY <1>1, <1>2, SaleStages
  <2> DEFINE w == [d \in DOMAIN e \cup {b} |-> IF d = b THEN row ELSE e[d]]
  <2>2. Stage(c, b, tx[c].trip, w) /\ tx[c].op \notin BookingChanges
    BY <2>1 DEF Sold, Sales, BookingChanges
  <2>3. \A d \in DOMAIN w : RowHolds(c, d, w[d])
    <3> SUFFICES ASSUME NEW d \in DOMAIN w
                 PROVE  RowHolds(c, d, w[d])
      OBVIOUS
    <3>1. CASE d = b
      BY <2>1, <3>1 DEF Sold, RowHolds
    <3>2. CASE d # b
      <4>1. w[d] = e[d] /\ e[d].status = "expired"
        BY <2>1, <3>2 DEF Sold
      <4> QED
        BY <4>1 DEF RowHolds, BookingPhase
    <3> QED
      BY <3>1, <3>2
  <2> HIDE DEF w
  <2> QED
    BY <2>2, <2>3, HoldOfStage DEF BookingChanges
<1>3. CASE \/ UpdateBooking(c) \/ CancelTelegramBooking(c) \/ AddPassenger(c)
           \/ ConfirmBookingPayment(c) \/ ChooseCashBooking(c)
           \/ SetTelegramPaymentMethod(c)
  <2>1. PICK row \in BookingRow : Changed(c, row)
    BY <1>1, <1>3, ChangeStages
  <2>2. PICK b : b = tx[c].booking
    OBVIOUS
  <2> DEFINE w == [d \in {b} |-> row]
  <2>3. Stage(c, b, tx[c].trip, w) /\ Locked(c) = bookings[b] /\ DOMAIN w = {b} /\ w[b] = row
    BY <2>1, <2>2 DEF Changed, StageBooking, Locked
  <2>4. RowHolds(c, b, row)
    BY <2>1, <2>3 DEF Changed, RowHolds, BookingPhase
  <2>5. tx[c].op \in {"confirmBookingPayment", "syncBank", "chooseCashBooking"}
          => HoldLive(bookings[b], clock)
    <3>1. tx[c].op # "syncBank"
      BY <2>1 DEF Changed
    <3> QED
      BY <2>1, <2>3, <3>1 DEF Changed, HoldStillLive
  <2> HIDE DEF w
  <2> QED
    BY <2>3, <2>4, <2>5, HoldOfStage
<1>4. CASE UpdateTrip(c) \/ ChangeTripStatus(c)
  <2>1. PICK t, w : TripChanged(c, t, w)
    BY <1>1, <1>4, TripStages
  <2>2. Stage(c, None, t, w) /\ tx[c].op \notin BookingChanges
    BY <2>1 DEF TripChanged, BookingChanges
  <2>3. \A d \in DOMAIN w : RowHolds(c, d, w[d])
    BY <2>1 DEF TripChanged, RowHolds, BookingPhase
  <2> QED
    BY <2>2, <2>3, HoldOfStage DEF BookingChanges
<1>5. CASE MatchBankPayment(c)
  <2>1. PICK w : Lined(c, w)
    BY <1>1, <1>5, LineStages
  <2>2. Stage(c, tx[c].booking, tx[c].trip, w) /\ tx[c].op = "syncBank"
    BY <2>1 DEF Lined
  <2>3. ASSUME NEW d \in DOMAIN w
        PROVE  HoldLive(bookings[d], clock) \/ d \in lapsed
    <3>1. CASE d \in DOMAIN tx[c].writes
      BY <2>2, <3>1 DEF HoldInvariant, Checked, ResolvesHold
    <3>2. CASE d = tx[c].booking /\ HoldStillLive(c)
      BY <3>2 DEF HoldStillLive, Locked
    <3> QED
      BY <2>1, <3>1, <3>2 DEF Lined
  <2> QED
    BY <2>2, <2>3, HoldOfStage DEF RowHolds
<1> QED
  BY <1>2, <1>3, <1>4, <1>5 DEF Decide

\* The end of a transaction forgets only what lapsed among its own rows.
LEMMA HoldOfEnd ==
  ASSUME HoldInvariant, RowsInvariant', NEW c \in Clients, Commit(c) \/ Rollback(c)
  PROVE  HoldInvariant'
<1>1. /\ tx'[c] = Idle /\ \A d \in Clients \ {c} : tx'[d] = tx[d]
      /\ clock' = clock /\ lapsed' = lapsed \ tx[c].locks
      /\ \A d \in Clients \ {c} : \A b \in tx[d].locks : bookings'[b] = bookings[b]
  <2>1. CASE Commit(c)
    BY <2>1, CommitLeaves DEF HoldInvariant, Commit
  <2>2. CASE Rollback(c)
    BY <2>2 DEF Rollback, HoldInvariant, RowsInvariant, TypeOK
  <2> QED
    BY <2>1, <2>2
<1>2. ASSUME NEW d \in Clients \ {c}
      PROVE  \A b \in DOMAIN tx'[d].writes : Checked(d, b)' /\ Resolves(d, b)'
  <2>1. tx[c].locks \cap tx[d].locks = {}
    BY OthersApart DEF HoldInvariant
  <2> QED
    BY <1>1, <2>1, HoldKept
<1>3. DOMAIN tx'[c].writes = {}
  BY <1>1 DEF Idle, NoWrites
<1> QED
  BY <1>2, <1>3 DEF HoldInvariant

\* A sweep passes by the locked rows; when time ends a hold that somebody has checked,
\* it counts as lapsed.
LEMMA HoldOfTime ==
  ASSUME HoldInvariant, RowsInvariant', ExpireBookingHolds \/ ListBookings \/ Tick
  PROVE  HoldInvariant'
<1>1. CASE ExpireBookingHolds \/ ListBookings
  <2>1. /\ UNCHANGED <<clock, tx, lapsed>>
        /\ \A d \in Clients : \A b \in tx[d].locks : bookings'[b] = bookings[b]
    BY <1>1, SweepLeaves DEF HoldInvariant, RowsInvariant, history
  <2>2. ASSUME NEW d \in Clients
        PROVE  \A b \in DOMAIN tx'[d].writes : Checked(d, b)' /\ Resolves(d, b)'
    BY <2>1, HoldKept
  <2> QED
    BY <2>2 DEF HoldInvariant
<1>2. CASE Tick
  <2>1. /\ UNCHANGED <<bookings, tx>> /\ clock' = clock + 1 /\ lapsed' = lapsed \cup Lapsing
    BY <1>2 DEF Tick
  <2>2. ASSUME NEW d \in Clients, NEW b \in DOMAIN tx[d].writes
        PROVE  Checked(d, b)' /\ Resolves(d, b)'
    <3>1. Checked(d, b) /\ Resolves(d, b)
      BY DEF HoldInvariant
    <3>2. b \in Bookings
      BY TransactionFields DEF HoldInvariant, RowsInvariant
    <3> QED
      BY <2>1, <3>1, <3>2 DEF Checked, Resolves, ResolvesHold, Lapsing, HoldLive
  <2> QED
    BY <2>1, <2>2 DEF HoldInvariant
<1> QED
  BY <1>1, <1>2

\* Initially nobody writes anything.
LEMMA HoldInit == Init => HoldInvariant
<1>1. Init => \A c \in Clients : DOMAIN tx[c].writes = {}
  BY DEF Init, Idle, NoWrites
<1> QED
  BY <1>1, RowsInit DEF HoldInvariant

\* Checked holds are live or lapsed, inductively.
LEMMA HoldNext == HoldInvariant /\ [Next]_vars => HoldInvariant'
<1> SUFFICES ASSUME HoldInvariant, [Next]_vars
             PROVE  HoldInvariant'
  OBVIOUS
<1>1. RowsInvariant'
  BY RowsNext DEF HoldInvariant
<1>2. CASE UNCHANGED vars
  <2>1. UNCHANGED <<clock, bookings, tx, lapsed>>
    BY <1>2 DEF vars, history
  <2>2. ASSUME NEW d \in Clients
        PROVE  \A b \in DOMAIN tx'[d].writes : Checked(d, b)' /\ Resolves(d, b)'
    BY <2>1, HoldKept
  <2> QED
    BY <1>1, <2>2 DEF HoldInvariant
<1>3. ASSUME NEW c \in Clients,
             \/ BeginSale(c) \/ BeginBookingChange(c) \/ BeginTripChange(c)
             \/ LockTrip(c) \/ LockBooking(c) \/ LockKey(c) \/ LockDueRows(c)
             \/ NextLine(c)
      PROVE  HoldInvariant'
  BY <1>1, <1>3, HoldOfUnstaged
<1>4. ASSUME NEW c \in Clients, Decide(c)
      PROVE  HoldInvariant'
  BY <1>1, <1>4, HoldOfDecide
<1>5. ASSUME NEW c \in Clients, Commit(c) \/ Rollback(c)
      PROVE  HoldInvariant'
  BY <1>1, <1>5, HoldOfEnd
<1>6. CASE ExpireBookingHolds \/ ListBookings \/ Tick
  BY <1>1, <1>6, HoldOfTime
<1> QED
  BY <1>2, <1>3, <1>4, <1>5, <1>6 DEF Next

\* A booking that waits for its payment is given seats for good only while its hold
\* lasts, although the handlers that do so do not hold the trip; but for a hold that
\* ends after the re-check, and a status set by hand.
THEOREM NoLateConfirmations == Spec => NoLateConfirmation
<1> DEFINE InTime ==
      \A b \in Bookings :
        /\ bookings[b].status = "awaiting_payment"
        /\ BookingPhase(bookings'[b].status) \in {"pending", "confirmed"}
        => HoldLive(bookings[b], clock) \/ b \in lapsed \/ SetByHand(b)
<1>1. ShapeInvariant /\ HoldInvariant /\ [Next]_vars => InTime
  <2> SUFFICES ASSUME ShapeInvariant, HoldInvariant, [Next]_vars, NEW b \in Bookings,
                      bookings[b].status = "awaiting_payment",
                      BookingPhase(bookings'[b].status) \in {"pending", "confirmed"}
               PROVE  HoldLive(bookings[b], clock) \/ b \in lapsed \/ SetByHand(b)
    OBVIOUS
  <2>1. bookings'[b] # bookings[b] /\ bookings'[b].status # "expired"
    BY DEF BookingPhase
  <2>2. ~ExpireBookingHolds /\ ~ListBookings
    BY <2>1, SweepLeaves DEF ShapeInvariant, RowsInvariant
  <2>3. ~Tick
    BY <2>1 DEF Tick
  <2>4. PICK c \in Clients : Commit(c)
    BY <2>1, <2>2, <2>3, StepLeaves
  <2>5. b \in DOMAIN tx[c].writes /\ bookings'[b] = tx[c].writes[b]
    BY <2>1, <2>4, CommitLeaves DEF ShapeInvariant
  <2>6. Checked(c, b) /\ Resolves(c, b)
    BY <2>5 DEF HoldInvariant
  <2> QED
    BY <2>5, <2>6 DEF Checked, Resolves, SetByHand
<1>2. Spec => []HoldInvariant
  BY HoldInit, HoldNext, PTL DEF Spec
<1> QED
  BY <1>1, <1>2, ShapeStays, PTL DEF Spec, NoLateConfirmation


-----------------------------------------------------------------------------
\* No customer holds seats in two bookings, revived ones apart.

\* The row r holds seats at t1 only where s did at t2, for the same customer.
NoNewHolder(r, t1, s, t2) ==
  Occupies(r, t1) => Occupies(s, t2) /\ r.customer = s.customer

\* Rows without new holders have no second active booking of a customer either.
LEMMA OneActiveKept ==
  ASSUME NEW S, NEW R, R \subseteq S, NEW r, NEW t1, NEW s, NEW t2, OneActive(S, s, t2),
         \A b \in R : NoNewHolder(r[b], t1, s[b], t2)
  PROVE  OneActive(R, r, t1)
BY DEF OneActive, NoNewHolder

\* The counted rows that session d sees are as many, or fewer, and gain no holder.
LEMMA ActiveKept ==
  ASSUME ActiveInvariant, NEW d \in Clients, tx'[d] = tx[d], Counted' \subseteq Counted,
         \A b \in Counted' : NoNewHolder(bookings'[b], clock', bookings[b], clock),
         \A b \in DOMAIN tx[d].writes :
           NoNewHolder(tx[d].writes[b], clock', tx[d].writes[b], clock)
  PROVE  (tx[d].pc = "staged" /\ tx[d].hasTrip => OneActive(Counted, Seen(d), clock))'
<1> SUFFICES ASSUME tx[d].pc = "staged", tx[d].hasTrip
             PROVE  OneActive(Counted', Seen(d)', clock')
  OBVIOUS
<1>1. OneActive(Counted, Seen(d), clock)
  BY DEF ActiveInvariant
<1>2. ASSUME NEW b \in Counted'
      PROVE  NoNewHolder(Seen(d)'[b], clock', Seen(d)[b], clock)
  <2>1. b \in Bookings
    BY DEF Counted
  <2> QED
    BY <2>1 DEF Seen
<1> QED
  BY <1>1, <1>2, OneActiveKept

\* A step that gives no counted row a new holder, and stages nothing.
LEMMA ActiveOfRows ==
  ASSUME ActiveInvariant, ShapeInvariant', revived \subseteq revived',
         \A b \in Bookings \ revived' :
           /\ bookings'[b].status = "none" => bookings[b].status = "none"
           /\ NoNewHolder(bookings'[b], clock', bookings[b], clock),
         \A d \in Clients : \/ tx'[d].pc # "staged"
                            \/ /\ tx'[d] = tx[d]
                               /\ \A b \in DOMAIN tx[d].writes :
                                    NoNewHolder(tx[d].writes[b], clock', tx[d].writes[b], clock)
  PROVE  ActiveInvariant'
<1>1. OneActive((Bookings \ revived)', bookings', clock')
  BY OneActiveKept DEF ActiveInvariant, OneActiveBooking
<1>2. /\ Counted' \subseteq Counted
      /\ \A b \in Counted' : NoNewHolder(bookings'[b], clock', bookings[b], clock)
  BY DEF Counted, NoNewHolder
<1>3. ASSUME NEW d \in Clients
      PROVE  (tx[d].pc = "staged" /\ tx[d].hasTrip => OneActive(Counted, Seen(d), clock))'
  BY <1>2, ActiveKept
<1> QED
  BY <1>1, <1>3 DEF ActiveInvariant, OneActiveBooking

\* A decision whose rows leave each customer one active booking.
LEMMA ActiveOfStage ==
  ASSUME ActiveInvariant, ShapeInvariant', NEW c \in Clients,
         NEW b, NEW t, NEW w, Stage(c, b, t, w), OneActive(Counted, Under(w), clock)
  PROVE  ActiveInvariant'
<1>1. TypeOK /\ SeatInvariant
  BY DEF ActiveInvariant, ShapeInvariant, RowsInvariant
<1>2. /\ bookings' = bookings /\ clock' = clock /\ revived' = revived
      /\ \A d \in Clients \ {c} : tx'[d] = tx[d]
  BY <1>1, StageLeaves DEF history
<1>3. Seen(c)' = Under(w)
  BY <1>1, StagedFields
<1>4. OneActiveBooking'
  BY <1>2 DEF ActiveInvariant, OneActiveBooking, OneActive
<1>5. Counted' = Counted
  BY <1>2 DEF Counted
<1>6. ASSUME NEW d \in Clients \ {c}
      PROVE  (tx[d].pc = "staged" /\ tx[d].hasTrip => OneActive(Counted, Seen(d), clock))'
  <2>1. \A x \in Counted' : NoNewHolder(bookings'[x], clock', bookings[x], clock)
    BY <1>2 DEF NoNewHolder
  <2>2. \A x \in DOMAIN tx[d].writes :
          NoNewHolder(tx[d].writes[x], clock', tx[d].writes[x], clock)
    BY <1>2 DEF NoNewHolder
  <2> QED
    BY <1>2, <1>5, <2>1, <2>2, ActiveKept
<1>7. (OneActive(Counted, Seen(c), clock))'
  BY <1>2, <1>3, <1>5
<1> QED
  BY <1>2, <1>4, <1>6, <1>7 DEF ActiveInvariant

\* A sale is made to a customer without an active booking.
LEMMA ActiveOfSale ==
  ASSUME ActiveInvariant, ShapeInvariant', NEW c \in Clients,
         PublicCreateBooking(c) \/ BotCreateBooking(c) \/ CreateBooking(c)
  PROVE  ActiveInvariant'
<1>1. ShapeInvariant /\ RowsInvariant /\ TypeOK
  BY DEF ActiveInvariant, ShapeInvariant, RowsInvariant
<1>2. PICK b, row, e : b \in Bookings /\ Sold(c, b, row, e)
  BY <1>1, SaleStages
<1> DEFINE w == [d \in DOMAIN e \cup {b} |-> IF d = b THEN row ELSE e[d]]
<1>3. Stage(c, b, tx[c].trip, w) /\ tx[c].pc = "decide" /\ DOMAIN e \subseteq Bookings
  BY <1>2 DEF Sold
<1>4. tx[c].now \in Int /\ clock \in Int /\ tx[c].now <= clock
  BY <1>1, TransactionFields, SalesAssumption DEF TypeOK
<1>5. ASSUME NEW d \in Bookings \ {b}, Occupies(Under(w)[d], clock)
      PROVE  Under(w)[d] = bookings[d] /\ bookings[d].customer # row.customer
  <2>1. CASE d \in DOMAIN e
    <3>1. Under(w)[d] = e[d]
      BY <2>1 DEF Under
    <3>2. ~Occupies(e[d], clock)
      BY <1>1, <1>2, <2>1, SaleShape
    <3> QED
      BY <1>5, <3>1, <3>2
  <2>2. CASE d \notin DOMAIN e
    <3>1. Under(w)[d] = bookings[d] /\ bookings[d] \in BookingRow
      BY <1>1, <2>2 DEF Under, TypeOK
    <3>2. Occupies(bookings[d], clock)
      BY <1>5, <3>1
    <3>3. Occupies(bookings[d], tx[c].now)
      BY <1>4, <3>1, <3>2, OccupiesEarlier
    <3>4. d \notin DOMAIN tx[c].writes
      <4> SUFFICES ASSUME d \in DOMAIN tx[c].writes PROVE FALSE
        OBVIOUS
      <4>1. bookings[d].status = "awaiting_payment" /\ HoldDue(bookings[d], tx[c].now)
        BY <1>1, <1>2, <1>3 DEF RowsInvariant, RowsSound, DueWrite, Sold, Sales
      <4> QED
        BY <1>4, <3>1, <3>2, <4>1, DueHoldsNothing
    <3>5. Seen(c)[d] = bookings[d]
      BY <3>4 DEF Seen
    <3> QED
      BY <1>2, <3>1, <3>3, <3>5 DEF Sold
  <2> QED
    BY <2>1, <2>2
<1>6. Under(w)[b] = row
  BY <1>2 DEF Under
<1> HIDE DEF w
<1>7. OneActive(Counted, Under(w), clock)
  BY <1>5, <1>6 DEF OneActive, ActiveInvariant, OneActiveBooking, Counted
<1> QED
  BY <1>3, <1>7, ActiveOfStage

\* Whoever changes bookings that exist makes nobody a new holder among the counted ones.
LEMMA ActiveOfChange ==
  ASSUME ActiveInvariant, ShapeInvariant', NEW c \in Clients,
         NEW b, NEW t, NEW w, Stage(c, b, t, w),
         \A d \in DOMAIN w : /\ bookings[d].status # "none"
                             /\ w[d].customer = bookings[d].customer
  PROVE  ActiveInvariant'
<1>1. ASSUME NEW d \in Counted
      PROVE  NoNewHolder(Under(w)[d], clock, bookings[d], clock)
  BY DEF Counted, Under, NoNewHolder
<1>2. OneActive(Bookings \ revived, bookings, clock) /\ Counted \subseteq Bookings \ revived
  BY DEF ActiveInvariant, OneActiveBooking, Counted
<1>3. OneActive(Counted, Under(w), clock)
  BY <1>1, <1>2, OneActiveKept
<1> QED
  BY <1>3, ActiveOfStage

\* Every decision leaves each customer one active booking.
LEMMA ActiveOfDecide ==
  ASSUME ActiveInvariant, ShapeInvariant', NEW c \in Clients, Decide(c)
  PROVE  ActiveInvariant'
<1>1. ShapeInvariant /\ RowsInvariant /\ TypeOK /\ RowsSound(c)
  BY DEF ActiveInvariant, ShapeInvariant, RowsInvariant
<1>2. CASE PublicCreateBooking(c) \/ BotCreateBooking(c) \/ CreateBooking(c)
  BY <1>2, ActiveOfSale
<1>3. CASE \/ UpdateBooking(c) \/ CancelTelegramBooking(c) \/ AddPassenger(c)
           \/ ConfirmBookingPayment(c) \/ ChooseCashBooking(c)
           \/ SetTelegramPaymentMethod(c)
  <2>1. PICK row \in BookingRow : Changed(c, row)
    BY <1>1, <1>3, ChangeStages
  <2>2. PICK b : b = tx[c].booking
    OBVIOUS
  <2> DEFINE w == [d \in {b} |-> row]
  <2>3. Stage(c, b, tx[c].trip, w) /\ DOMAIN w = {b} /\ w[b] = row
    BY <2>1, <2>2 DEF Changed, StageBooking
  <2>4. row.customer = bookings[b].customer /\ bookings[b].status # "none"
    BY <1>1, <2>1, <2>2 DEF Changed, RowsSound, Locked
  <2> HIDE DEF w
  <2> QED
    BY <2>3, <2>4, ActiveOfChange
<1>4. CASE UpdateTrip(c) \/ ChangeTripStatus(c)
  <2>1. PICK t, w : TripChanged(c, t, w)
    BY <1>1, <1>4, TripStages
  <2>2. \A d \in DOMAIN w : /\ bookings[d].status # "none"
                            /\ w[d].customer = bookings[d].customer
    BY <2>1 DEF TripChanged, BookingPhase
  <2> QED
    BY <2>1, <2>2, ActiveOfChange DEF TripChanged
<1>5. CASE MatchBankPayment(c)
  <2>1. PICK w : Lined(c, w)
    BY <1>1, <1>5, LineStages
  <2>2. ASSUME NEW d \in DOMAIN w
        PROVE  bookings[d].status # "none" /\ w[d].customer = bookings[d].customer
    <3>1. /\ d \in Bookings /\ bookings[d] \in BookingRow
          /\ bookings[d].status = "awaiting_payment" /\ w[d] = Confirmed(bookings[d])
      BY <1>1, <2>1 DEF Lined, TypeOK
    <3> QED
      BY <3>1, ChangeFields
  <2> QED
    BY <2>1, <2>2, ActiveOfChange DEF Lined
<1> QED
  BY <1>2, <1>3, <1>4, <1>5 DEF Decide

\* A commit with the trip's lock was checked as a whole when it was staged; one
\* without it makes nobody a new holder but the bookings that it revives.
LEMMA ActiveOfCommit ==
  ASSUME ActiveInvariant, ShapeInvariant', NEW c \in Clients, Commit(c)
  PROVE  ActiveInvariant'
<1>1. ShapeInvariant /\ RowsInvariant /\ SeatInvariant /\ TypeOK
  BY DEF ActiveInvariant, ShapeInvariant, RowsInvariant
<1>2. /\ clock' = clock /\ tx[c].pc = "staged"
      /\ \A d \in Clients \ {c} : tx'[d] = tx[d]
      /\ tx'[c].pc # "staged"
      /\ \A b \in Bookings :
           bookings'[b] = IF b \in DOMAIN tx[c].writes THEN tx[c].writes[b]
                                                       ELSE bookings[b]
      /\ \A b \in DOMAIN tx[c].writes : b \in Bookings /\ Follows(bookings[b], tx[c].writes[b])
  BY <1>1, CommitLeaves DEF Idle
<1>3. bookings' = Seen(c) /\ revived' = revived \cup Uncounted(c)
  BY DEF Commit
<1>4. ASSUME NEW b \in Bookings \ revived', Occupies(bookings'[b], clock)
      PROVE  b \in Counted
  <2>1. b \in Bookings /\ b \notin revived /\ b \notin Uncounted(c)
    BY <1>3
  <2> QED
    BY <1>2, <1>4, <2>1 DEF Counted, Uncounted
<1>5. CASE tx[c].hasTrip
  <2>1. OneActive(Counted, bookings', clock')
    BY <1>2, <1>3, <1>5 DEF ActiveInvariant
  <2>2. OneActive((Bookings \ revived)', bookings', clock')
    BY <1>2, <1>4, <2>1 DEF OneActive
  <2>3. ASSUME NEW d \in Clients
        PROVE  ~(tx'[d].pc = "staged" /\ tx'[d].hasTrip)
    BY <1>1, <1>2, <1>5 DEF SeatInvariant, LocksExclude, Apart
  <2> QED
    BY <2>2, <2>3 DEF ActiveInvariant, OneActiveBooking
<1>6. CASE ~tx[c].hasTrip
  <2>1. NoRowGains(c)
    BY <1>1, <1>2, <1>6 DEF SeatInvariant, LocksExclude, Disciplined, StagedFits, StagedFit
  <2>2. ASSUME NEW b \in Bookings \ revived'
        PROVE  /\ bookings'[b].status = "none" => bookings[b].status = "none"
               /\ NoNewHolder(bookings'[b], clock', bookings[b], clock)
    <3>1. CASE b \in DOMAIN tx[c].writes
      <4>1. /\ bookings[b].status # "none" /\ tx[c].writes[b].status # "none"
            /\ tx[c].writes[b].customer = bookings[b].customer
        BY <1>2, <2>1, <3>1 DEF NoRowGains, Follows
      <4> QED
        BY <1>2, <1>4, <3>1, <4>1 DEF NoNewHolder, Counted
    <3>2. CASE b \notin DOMAIN tx[c].writes
      BY <1>2, <3>2 DEF NoNewHolder
    <3> QED
      BY <3>1, <3>2
  <2>3. ASSUME NEW d \in Clients \ {c}
        PROVE  \A b \in DOMAIN tx[d].writes :
                 NoNewHolder(tx[d].writes[b], clock', tx[d].writes[b], clock)
    BY <1>2 DEF NoNewHolder
  <2>4. revived \subseteq revived'
    BY <1>3
  <2> QED
    BY <1>2, <2>2, <2>3, <2>4, ActiveOfRows
<1> QED
  BY <1>5, <1>6

\* A sweep and the passing of time only end holds.
LEMMA ActiveOfTime ==
  ASSUME ActiveInvariant, ShapeInvariant', ExpireBookingHolds \/ ListBookings \/ Tick
  PROVE  ActiveInvariant'
<1>1. TypeOK
  BY DEF ActiveInvariant, ShapeInvariant, RowsInvariant
<1>2. CASE ExpireBookingHolds \/ ListBookings
  <2>1. /\ clock' = clock /\ tx' = tx /\ revived' = revived
        /\ \A b \in Bookings : bookings'[b] = bookings[b] \/ bookings'[b].status = "expired"
    BY <1>1, <1>2, SweepLeaves DEF history
  <2>2. \A b \in Bookings :
          /\ bookings'[b].status = "none" => bookings[b].status = "none"
          /\ NoNewHolder(bookings'[b], clock', bookings[b], clock)
    BY <2>1 DEF NoNewHolder, Occupies, BookingPhase
  <2>3. \A d \in Clients : \A b \in DOMAIN tx[d].writes :
          NoNewHolder(tx[d].writes[b], clock', tx[d].writes[b], clock)
    BY <2>1 DEF NoNewHolder
  <2> QED
    BY <2>1, <2>2, <2>3, ActiveOfRows
<1>3. CASE Tick
  <2>1. /\ bookings' = bookings /\ tx' = tx /\ revived' = revived
        /\ clock \in Int /\ clock' \in Int /\ clock <= clock'
    BY <1>1, <1>3, SalesAssumption DEF Tick, TypeOK
  <2>2. ASSUME NEW row \in BookingRow
        PROVE  NoNewHolder(row, clock', row, clock)
    BY <2>1, <2>2, OccupiesEarlier DEF NoNewHolder
  <2>3. \A b \in Bookings : NoNewHolder(bookings'[b], clock', bookings[b], clock)
    BY <1>1, <2>1, <2>2 DEF TypeOK
  <2>4. \A d \in Clients : \A b \in DOMAIN tx[d].writes :
          NoNewHolder(tx[d].writes[b], clock', tx[d].writes[b], clock)
    BY <1>1, <2>2, TransactionFields
  <2> QED
    BY <2>1, <2>3, <2>4, ActiveOfRows
<1> QED
  BY <1>2, <1>3

\* Initially nobody holds a seat.
LEMMA ActiveInit == Init => ActiveInvariant
<1> SUFFICES ASSUME Init PROVE ActiveInvariant
  OBVIOUS
<1>1. \A b \in Bookings : ~Occupies(bookings[b], clock)
  BY DEF Init, EmptyRow, Occupies, BookingPhase
<1>2. \A c \in Clients : tx[c].pc = "idle"
  BY DEF Init, Idle
<1> QED
  BY <1>1, <1>2, ShapeInit DEF ActiveInvariant, OneActiveBooking, OneActive

\* One active booking per customer is inductive with the shape of what is staged.
LEMMA ActiveNext ==
  ASSUME ActiveInvariant, [Next]_vars
  PROVE  ActiveInvariant'
<1>1. ShapeInvariant /\ SeatInvariant' /\ RowsInvariant' /\ ShapeInvariant'
  BY SeatNext, RowsNext, ShapeNext DEF ActiveInvariant, ShapeInvariant
<1>2. CASE UNCHANGED vars
  <2>1. UNCHANGED <<clock, bookings, tx, revived>>
    BY <1>2 DEF vars, history
  <2>2. /\ \A b \in Bookings : NoNewHolder(bookings'[b], clock', bookings[b], clock)
        /\ \A d \in Clients : \A b \in DOMAIN tx[d].writes :
             NoNewHolder(tx[d].writes[b], clock', tx[d].writes[b], clock)
    BY <2>1 DEF NoNewHolder
  <2> QED
    BY <1>1, <2>1, <2>2, ActiveOfRows
<1>3. ASSUME NEW c \in Clients,
             \/ BeginSale(c) \/ BeginBookingChange(c) \/ BeginTripChange(c)
             \/ LockTrip(c) \/ LockBooking(c) \/ LockKey(c) \/ LockDueRows(c)
             \/ NextLine(c) \/ Rollback(c)
      PROVE  ActiveInvariant'
  <2>1. /\ UNCHANGED <<clock, bookings, revived>>
        /\ \A d \in Clients \ {c} : tx'[d] = tx[d]
        /\ tx'[c].pc # "staged"
    BY <1>1, <1>3, ShapeOfUnstaged
  <2>2. /\ \A b \in Bookings : NoNewHolder(bookings'[b], clock', bookings[b], clock)
        /\ \A d \in Clients : \A b \in DOMAIN tx[d].writes :
             NoNewHolder(tx[d].writes[b], clock', tx[d].writes[b], clock)
    BY <2>1 DEF NoNewHolder
  <2> QED
    BY <1>1, <2>1, <2>2, ActiveOfRows
<1>4. ASSUME NEW c \in Clients, Decide(c)
      PROVE  ActiveInvariant'
  BY <1>1, <1>4, ActiveOfDecide
<1>5. ASSUME NEW c \in Clients, Commit(c)
      PROVE  ActiveInvariant'
  BY <1>1, <1>5, ActiveOfCommit
<1>6. CASE ExpireBookingHolds \/ ListBookings \/ Tick
  BY <1>1, <1>6, ActiveOfTime
<1> QED
  BY <1>2, <1>3, <1>4, <1>5, <1>6 DEF Next

\* Whichever channels sell at the same time, and whatever the unique index misses,
\* no customer holds seats in two bookings of the trip that were counted.
THEOREM OneBookingPerCustomer == Spec => []OneActiveBooking
<1>1. ActiveInvariant => OneActiveBooking
  BY DEF ActiveInvariant
<1> QED
  BY <1>1, ActiveInit, ActiveNext, PTL DEF Spec

-----------------------------------------------------------------------------
\* Every step of the sale is a step of the abstract allocator, or a stutter.

\* The allocator's view of rows at time t: the seats of each booking, and the
\* bookings that are over.
Held(rows, t) == [b \in Bookings |-> IF Occupies(rows[b], t) THEN rows[b].seats ELSE 0]

Gone(rows, t) == {b \in Bookings : rows[b].status # "none" /\ ~Occupies(rows[b], t)}

\* Both specifications count alike.
LEMMA CountsAgree ==
  ASSUME NEW S
  PROVE  Alloc!Cardinality(S) = Cardinality(S)
BY Zenon DEF Alloc!Cardinality, Cardinality

\* Both specifications find the same counted seats taken.
LEMMA SeatsAgree ==
  ASSUME NEW rows, NEW t
  PROVE  Alloc!Seats(Held(rows, t)) = SeatsOf(Bookings \ revived, rows, t)
<1>1. ASSUME NEW p \in Bookings \X (1..MaxSeats)
      PROVE  p[2] <= Held(rows, t)[p[1]]
               <=> Occupies(rows[p[1]], t) /\ p[2] <= rows[p[1]].seats
  <2>1. p[1] \in Bookings /\ p[2] \in 1..MaxSeats
    OBVIOUS
  <2>2. ~(p[2] <= 0)
    BY <2>1, SalesAssumption
  <2>3. Held(rows, t)[p[1]] = IF Occupies(rows[p[1]], t) THEN rows[p[1]].seats ELSE 0
    BY <2>1 DEF Held
  <2> QED
    BY <2>2, <2>3
<1> QED
  BY <1>1 DEF Alloc!Seats, SeatsHeld, SeatsOf

\* A row that keeps the seats it held or gives them up, and is not forgotten.
KeepsOrRetires(old, t1, new, t2) ==
  /\ Occupies(new, t2) => Occupies(old, t1) /\ new.seats = old.seats
  /\ old.status # "none" => new.status # "none"

\* Only a row that is in use holds seats.
LEMMA HolderIsUsed ==
  ASSUME NEW row, NEW t, Occupies(row, t)
  PROVE  row.status # "none"
BY DEF Occupies, BookingPhase

\* A step by which rows only keep or give up their seats retires bookings.
LEMMA StepRetires ==
  ASSUME trip'.capacity = trip.capacity, revived' = revived,
         \A b \in Bookings : KeepsOrRetires(bookings[b], clock, bookings'[b], clock')
  PROVE  Alloc!Next
<1>0. PICK S : S = Gone(bookings', clock') \ Gone(bookings, clock)
  OBVIOUS
<1>1. S \in SUBSET Bookings /\ S \cap Gone(bookings, clock) = {}
  BY <1>0 DEF Gone
<1>2. ASSUME NEW b \in Bookings
      PROVE  Held(bookings', clock')[b] = IF b \in S THEN 0 ELSE Held(bookings, clock)[b]
  <2>1. /\ Occupies(bookings'[b], clock') => bookings'[b].status # "none"
        /\ Occupies(bookings[b], clock) => bookings[b].status # "none"
    BY HolderIsUsed
  <2>2. KeepsOrRetires(bookings[b], clock, bookings'[b], clock')
    OBVIOUS
  <2> QED
    BY <1>0, <2>1, <2>2 DEF KeepsOrRetires, Held, Gone
<1>3. Held(bookings', clock')
        = [b \in Bookings |-> IF b \in S THEN 0 ELSE Held(bookings, clock)[b]]
  BY <1>2 DEF Held
<1>4. Gone(bookings', clock') = Gone(bookings, clock) \cup S
  BY <1>0 DEF Gone, KeepsOrRetires
<1>5. Alloc!Retire(S)
  BY <1>1, <1>3, <1>4 DEF Alloc!Retire, Held, Gone
<1> QED
  BY <1>1, <1>5 DEF Alloc!Next

\* A row whose seats stay as many, and which holds them afterwards if it changed.
KeepsOrRevives(old, new, t) ==
  new = old \/ (/\ old.status # "none" /\ new.status # "none"
                /\ new.seats = old.seats /\ Occupies(new, t))

\* A step by which rows only keep or take back their seats revives bookings.
LEMMA StepRevives ==
  ASSUME trip'.capacity = trip.capacity, clock' = clock,
         revived' = revived \cup (Gone(bookings, clock) \ Gone(bookings', clock')),
         \A b \in Bookings : /\ bookings'[b].seats \in 0..MaxSeats
                             /\ bookings'[b].status # "none" => bookings'[b].seats >= 1
                             /\ KeepsOrRevives(bookings[b], bookings'[b], clock)
  PROVE  Alloc!Next
<1>0. PICK S : S = Gone(bookings, clock) \ Gone(bookings', clock')
  OBVIOUS
<1>1. S \in SUBSET Bookings /\ S \subseteq Gone(bookings, clock)
  BY <1>0 DEF Gone
<1>2. ASSUME NEW b \in Bookings
      PROVE  /\ Held(bookings', clock')[b] \in 0..MaxSeats
             /\ IF b \in S THEN Held(bookings', clock')[b] > 0
                          ELSE Held(bookings', clock')[b] = Held(bookings, clock)[b]
  <2>1. /\ Occupies(bookings'[b], clock') => bookings'[b].status # "none"
        /\ Occupies(bookings[b], clock) => bookings[b].status # "none"
    BY HolderIsUsed
  <2>2. /\ KeepsOrRevives(bookings[b], bookings'[b], clock)
        /\ bookings'[b].seats \in 0..MaxSeats /\ bookings'[b].seats \in Nat /\ MaxSeats \in Nat
        /\ bookings'[b].status # "none" => bookings'[b].seats >= 1
    BY SalesAssumption
  <2>3. b \in S => Held(bookings', clock')[b] = bookings'[b].seats /\ bookings'[b].status # "none"
    BY <1>0, <2>1, <2>2 DEF Held, Gone, KeepsOrRevives
  <2>4. b \notin S => Held(bookings', clock')[b] = Held(bookings, clock)[b]
    BY <1>0, <2>1, <2>2 DEF Held, Gone, KeepsOrRevives
  <2>5. Held(bookings', clock')[b] \in 0..MaxSeats
    BY <2>2 DEF Held
  <2> QED
    BY <2>2, <2>3, <2>4, <2>5
<1>3. Held(bookings', clock') \in [Bookings -> 0..MaxSeats]
  BY <1>2 DEF Held
<1>4. Gone(bookings', clock') = Gone(bookings, clock) \ S
  BY <1>0 DEF Gone, KeepsOrRevives
<1>5. Alloc!Revive(S)
  BY <1>0, <1>1, <1>2, <1>3, <1>4, Zenon DEF Alloc!Revive, Held, Gone
<1> QED
  BY <1>1, <1>5 DEF Alloc!Next

\* A new booking within the capacity is granted its seats.
LEMMA StepGrants ==
  ASSUME trip'.capacity = trip.capacity, revived' = revived, NoOversell', NEW b \in Bookings,
         bookings[b].status = "none", Occupies(bookings'[b], clock'),
         bookings'[b].seats \in 1..MaxSeats,
         \A d \in Bookings \ {b} :
           /\ Occupies(bookings'[d], clock') <=> Occupies(bookings[d], clock)
           /\ Occupies(bookings[d], clock) => bookings'[d].seats = bookings[d].seats
           /\ bookings'[d].status # "none" <=> bookings[d].status # "none"
  PROVE  Alloc!Next
<1>1. ~Occupies(bookings[b], clock) /\ bookings'[b].status # "none"
  BY HolderIsUsed
<1>2. b \notin Gone(bookings, clock) /\ Held(bookings, clock)[b] = 0
  BY <1>1 DEF Gone, Held
<1>3. Held(bookings', clock') = [Held(bookings, clock) EXCEPT ![b] = bookings'[b].seats]
  BY DEF Held
<1>4. Gone(bookings', clock') = Gone(bookings, clock)
  BY <1>1 DEF Gone
<1>5. Cardinality(Alloc!Seats(Held(bookings', clock'))) <= trip.capacity
  BY SeatsAgree DEF NoOversell
<1>6. Alloc!Grant(b)
  <2>1. PICK n \in 1..MaxSeats : Held(bookings', clock') = [Held(bookings, clock) EXCEPT ![b] = n]
    BY <1>3
  <2>2. Alloc!Fitting(Held(bookings', clock'), trip.capacity)
    BY <1>5, CountsAgree DEF Alloc!Fitting
  <2> QED
    BY <1>2, <1>4, <2>1, <2>2, Zenon DEF Alloc!Grant, Held, Gone
<1> QED
  BY <1>6 DEF Alloc!Next

\* One more seat of a booking that holds seats.
LEMMA StepAdds ==
  ASSUME trip'.capacity = trip.capacity, revived' = revived, NoOversell', NEW b \in Bookings,
         Occupies(bookings[b], clock), Occupies(bookings'[b], clock'),
         bookings[b].seats \in 1..(MaxSeats - 1),
         bookings'[b].seats = bookings[b].seats + 1,
         clock' = clock, \A d \in Bookings \ {b} : bookings'[d] = bookings[d]
  PROVE  Alloc!Next
<1>1. Held(bookings, clock)[b] \in 1..(MaxSeats - 1)
  BY DEF Held
<1>2. Held(bookings', clock') = [Held(bookings, clock) EXCEPT ![b] = @ + 1]
  BY DEF Held
<1>3. Gone(bookings', clock') = Gone(bookings, clock)
  BY DEF Gone
<1>4. Cardinality(Alloc!Seats(Held(bookings', clock'))) <= trip.capacity
  BY SeatsAgree DEF NoOversell
<1>5. Alloc!AddSeat(b)
  <2>1. Alloc!Fitting(Held(bookings', clock'), trip.capacity)
    BY <1>4, CountsAgree DEF Alloc!Fitting
  <2> QED
    BY <1>1, <1>2, <1>3, <2>1, Zenon DEF Alloc!AddSeat, Held, Gone
<1> QED
  BY <1>5 DEF Alloc!Next

\* An edited trip keeps room for the seats that are held.
LEMMA StepResizes ==
  ASSUME trip'.capacity \in Nat, NoOversell', clock' = clock, revived' = revived,
         \A b \in Bookings : bookings'[b] = bookings[b]
  PROVE  Alloc!Next
<1>1. Held(bookings', clock') = Held(bookings, clock)
  BY DEF Held
<1>2. Gone(bookings', clock') = Gone(bookings, clock)
  BY DEF Gone
<1>3. Cardinality(Alloc!Seats(Held(bookings, clock))) <= trip'.capacity
  BY <1>1, SeatsAgree DEF NoOversell
<1>4. Alloc!Resize
  <2>1. Alloc!Fitting(Held(bookings, clock), trip'.capacity)
    BY <1>3, CountsAgree DEF Alloc!Fitting
  <2> QED
    BY <1>1, <1>2, <2>1, Zenon DEF Alloc!Resize, Held, Gone
<1> QED
  BY <1>4 DEF Alloc!Next


\* What a transaction installs, row by row; only an edited trip changes the capacity,
\* and what it revives are the bookings that were over and are so no longer.
LEMMA CommitInstalls ==
  ASSUME ShapeInvariant, NEW c \in Clients, Commit(c)
  PROVE  /\ clock' = clock
         /\ revived' = revived \cup (Gone(bookings, clock) \ Gone(bookings', clock'))
         /\ tx[c].op # "updateTrip" => trip'.capacity = trip.capacity
         /\ tx[c].op = "updateTrip" => \A b \in Bookings : bookings'[b] = bookings[b]
         /\ \A b \in Bookings :
              \/ bookings'[b] = bookings[b]
              \/ /\ bookings'[b].seats \in 1..MaxSeats /\ bookings'[b].status # "none"
                 /\ b \in DOMAIN tx[c].writes /\ bookings'[b] = tx[c].writes[b]
                 /\ NewSale(c, b) \/ LapsedHold(c, b) \/ OneMoreSeat(c, b) \/ SameSeats(c, b)
<1>1. TypeOK /\ RowsInvariant
  BY DEF ShapeInvariant, RowsInvariant
<1>2. /\ clock' = clock /\ tx[c].pc = "staged" /\ Shaped(c)
      /\ \A b \in Bookings :
           bookings'[b] = IF b \in DOMAIN tx[c].writes THEN tx[c].writes[b]
                                                       ELSE bookings[b]
      /\ \A b \in DOMAIN tx[c].writes : b \in Bookings /\ Follows(bookings[b], tx[c].writes[b])
  BY <1>1, CommitLeaves DEF ShapeInvariant
<1>3. tx[c].op # "updateTrip" => trip'.capacity = trip.capacity
  BY <1>2 DEF Shaped, Commit
<1>4. tx[c].op = "updateTrip" => \A b \in Bookings : bookings'[b] = bookings[b]
  BY <1>2 DEF Shaped
<1>5. ASSUME NEW b \in DOMAIN tx[c].writes
      PROVE  /\ tx[c].writes[b].seats \in 1..MaxSeats /\ tx[c].writes[b].status # "none"
             /\ NewSale(c, b) \/ LapsedHold(c, b) \/ OneMoreSeat(c, b) \/ SameSeats(c, b)
  <2>1. tx[c].writes[b] \in BookingRow
    BY <1>1, TransactionFields
  <2> QED
    BY <1>2, <2>1, SalesAssumption DEF Shaped, Follows, BookingRow
<1>6. Uncounted(c) = Gone(bookings, clock) \ Gone(bookings', clock')
  <2>1. ASSUME NEW b \in Bookings
        PROVE  b \in Uncounted(c) <=> b \in Gone(bookings, clock) /\ b \notin Gone(bookings', clock')
    <3>1. CASE b \in DOMAIN tx[c].writes
      BY <1>2, <1>5, <3>1 DEF Uncounted, Gone
    <3>2. CASE b \notin DOMAIN tx[c].writes
      BY <1>2, <3>2 DEF Uncounted, Gone
    <3> QED
      BY <3>1, <3>2
  <2> QED
    BY <1>2, <2>1 DEF Uncounted, Gone
<1>7. revived' = revived \cup Uncounted(c)
  BY DEF Commit
<1> QED
  BY <1>2, <1>3, <1>4, <1>5, <1>6, <1>7

\* A committed sale grants its seats, or comes so late that it holds none.
LEMMA SaleRefines ==
  ASSUME ShapeInvariant, NoOversell', NEW c \in Clients, Commit(c), tx[c].op \in Sales
  PROVE  Alloc!Next
<1> DEFINE b == tx[c].booking
<1>1. /\ clock' = clock /\ trip'.capacity = trip.capacity
      /\ revived' = revived \cup (Gone(bookings, clock) \ Gone(bookings', clock'))
      /\ \A d \in Bookings :
           \/ bookings'[d] = bookings[d]
           \/ /\ bookings'[d].seats \in 1..MaxSeats /\ bookings'[d].status # "none"
              /\ \/ d = b /\ bookings[d].status = "none"
                 \/ /\ bookings[d].status # "none"
                    /\ ~Occupies(bookings[d], clock) /\ ~Occupies(bookings'[d], clock)
  BY CommitInstalls DEF Sales, NewSale, LapsedHold, OneMoreSeat, SameSeats
<1>0. revived' = revived
  BY <1>1 DEF Gone
<1>2. CASE /\ b \in Bookings /\ bookings[b].status = "none"
           /\ Occupies(bookings'[b], clock)
  <2>1. bookings'[b].seats \in 1..MaxSeats
    BY <1>1, <1>2, HolderIsUsed
  <2>2. \A d \in Bookings \ {b} :
           /\ Occupies(bookings'[d], clock') <=> Occupies(bookings[d], clock)
           /\ Occupies(bookings[d], clock) => bookings'[d].seats = bookings[d].seats
           /\ bookings'[d].status # "none" <=> bookings[d].status # "none"
    BY <1>1
  <2>3. PICK x : x = b
    OBVIOUS
  <2> HIDE DEF b
  <2> QED
    BY <1>0, <1>1, <1>2, <2>1, <2>2, <2>3, StepGrants
<1>3. CASE ~(/\ b \in Bookings /\ bookings[b].status = "none"
             /\ Occupies(bookings'[b], clock))
  <2>1. ASSUME NEW d \in Bookings
        PROVE  KeepsOrRetires(bookings[d], clock, bookings'[d], clock')
    BY <1>1, <1>3 DEF KeepsOrRetires
  <2> QED
    BY <1>0, <1>1, <2>1, StepRetires
<1> QED
  BY <1>2, <1>3

\* A committed passenger is one seat more, unless the booking's hold ran out.
LEMMA SeatRefines ==
  ASSUME ShapeInvariant, NoOversell', NEW c \in Clients, Commit(c),
         tx[c].op = "bookingPassengers"
  PROVE  Alloc!Next
<1> DEFINE b == tx[c].booking
<1>1. /\ clock' = clock /\ trip'.capacity = trip.capacity
      /\ revived' = revived \cup (Gone(bookings, clock) \ Gone(bookings', clock'))
      /\ \A d \in Bookings :
           \/ bookings'[d] = bookings[d]
           \/ /\ bookings'[d].seats \in 1..MaxSeats /\ bookings'[d].status # "none"
              /\ d = b /\ bookings'[d] = [bookings[d] EXCEPT !.seats = @ + 1]
  BY CommitInstalls DEF Sales, NewSale, LapsedHold, OneMoreSeat, SameSeats
<1>2. ASSUME NEW d \in Bookings, bookings'[d] = [bookings[d] EXCEPT !.seats = @ + 1]
      PROVE  /\ bookings'[d].status = bookings[d].status
             /\ bookings'[d].seats = bookings[d].seats + 1
             /\ Occupies(bookings'[d], clock) <=> Occupies(bookings[d], clock)
  <2>1. bookings[d] \in BookingRow
    BY DEF ShapeInvariant, RowsInvariant, TypeOK
  <2>2. /\ bookings'[d].status = bookings[d].status /\ bookings'[d].hold = bookings[d].hold
        /\ bookings'[d].seats = bookings[d].seats + 1
    BY <1>2, <2>1, ChangeFields
  <2> QED
    BY <2>2 DEF Occupies, HoldLive
<1>0. revived' = revived
  BY <1>1, <1>2 DEF Gone
<1>3. CASE b \in Bookings /\ bookings'[b] # bookings[b] /\ Occupies(bookings[b], clock)
  <2>1. bookings'[b] = [bookings[b] EXCEPT !.seats = @ + 1]
    BY <1>1, <1>3
  <2>2. /\ bookings'[b].seats = bookings[b].seats + 1
        /\ Occupies(bookings'[b], clock) /\ bookings[b].status # "none"
    BY <1>2, <1>3, <2>1, HolderIsUsed
  <2>3. bookings[b].seats \in 1..(MaxSeats - 1)
    <3>1. bookings[b].seats >= 1 /\ bookings[b].seats \in Int
      BY <1>3, <2>2, SalesAssumption DEF ShapeInvariant, RowsInvariant, TypeOK, BookingRow
    <3>2. bookings'[b].seats \in 1..MaxSeats
      BY <1>1, <1>3
    <3> QED
      BY <2>2, <3>1, <3>2, SalesAssumption
  <2>4. \A d \in Bookings \ {b} : bookings'[d] = bookings[d]
    BY <1>1
  <2> HIDE DEF b
  <2> QED
    BY <1>0, <1>1, <1>3, <2>2, <2>3, <2>4, StepAdds
<1>4. CASE ~(b \in Bookings /\ bookings'[b] # bookings[b] /\ Occupies(bookings[b], clock))
  <2>1. ASSUME NEW d \in Bookings
        PROVE  KeepsOrRetires(bookings[d], clock, bookings'[d], clock')
    BY <1>1, <1>2, <1>4 DEF KeepsOrRetires
  <2> QED
    BY <1>0, <1>1, <2>1, StepRetires
<1> QED
  BY <1>3, <1>4

\* A completed trip gives seats up; whoever confirms, extends or moves a booking keeps
\* its seats, gives them up, or revives them uncounted.
LEMMA ChangeRefines ==
  ASSUME ShapeInvariant, ShapeInvariant', NEW c \in Clients, Commit(c),
         tx[c].op \notin Sales \cup {"bookingPassengers", "updateTrip"}
  PROVE  Alloc!Next
<1>1. /\ clock' = clock /\ trip'.capacity = trip.capacity
      /\ revived' = revived \cup (Gone(bookings, clock) \ Gone(bookings', clock'))
      /\ \A b \in Bookings :
           \/ bookings'[b] = bookings[b]
           \/ /\ bookings'[b].status # "none"
              /\ b \in DOMAIN tx[c].writes /\ bookings'[b] = tx[c].writes[b]
              /\ SameSeats(c, b)
  BY CommitInstalls DEF NewSale, LapsedHold, OneMoreSeat
<1>2. /\ RowsSound(c) /\ tx[c].pc = "staged"
      /\ \A b \in Bookings : /\ bookings[b] \in BookingRow
                             /\ bookings'[b].seats \in 0..MaxSeats
                             /\ bookings'[b].status # "none" => bookings'[b].seats >= 1
  BY DEF Commit, ShapeInvariant, RowsInvariant, TypeOK, BookingRow
<1>3. ASSUME \A b \in Bookings : KeepsOrRetires(bookings[b], clock, bookings'[b], clock')
      PROVE  Alloc!Next
  <2>1. revived' = revived
    BY <1>1, <1>3 DEF Gone, KeepsOrRetires
  <2> QED
    BY <1>1, <1>3, <2>1, StepRetires
<1>4. ASSUME \A b \in Bookings : KeepsOrRevives(bookings[b], bookings'[b], clock)
      PROVE  Alloc!Next
  BY <1>1, <1>2, <1>4, StepRevives
<1>5. CASE tx[c].op = "changeTripStatus"
  <2>1. ASSUME NEW b \in Bookings
        PROVE  KeepsOrRetires(bookings[b], clock, bookings'[b], clock')
    BY <1>1, <1>5 DEF SameSeats, KeepsOrRetires, TerminalBooking, Occupies
  <2> QED
    BY <1>3, <2>1
<1>6. CASE tx[c].op = "syncBank"
  <2>1. ASSUME NEW b \in Bookings
        PROVE  KeepsOrRevives(bookings[b], bookings'[b], clock)
    <3>1. CASE bookings'[b] = bookings[b]
      BY <3>1 DEF KeepsOrRevives
    <3>2. CASE bookings'[b] # bookings[b]
      <4>1. /\ bookings'[b] = Confirmed(bookings[b]) /\ bookings'[b].status # "none"
            /\ SameSeats(c, b)
        BY <1>1, <1>2, <1>6, <3>2 DEF RowsSound, LineWrite
      <4>2. BookingPhase(bookings'[b].status) = "confirmed"
        BY <1>2, <4>1, ChangeFields DEF BookingPhase
      <4> QED
        BY <1>1, <3>2, <4>1, <4>2 DEF SameSeats, KeepsOrRevives, Occupies
    <3> QED
      BY <3>1, <3>2
  <2> QED
    BY <1>4, <2>1
<1>7. CASE tx[c].op \notin {"changeTripStatus", "syncBank"}
  <2>1. PICK d : d = tx[c].booking
    OBVIOUS
  <2>2. \A b \in Bookings \ {d} : bookings'[b] = bookings[b]
    BY <1>1, <1>7, <2>1 DEF SameSeats
  <2>3. CASE d \in Bookings /\ bookings'[d] # bookings[d] /\ Occupies(bookings'[d], clock)
    <3>1. KeepsOrRevives(bookings[d], bookings'[d], clock)
      BY <1>1, <2>3 DEF SameSeats, KeepsOrRevives
    <3> QED
      BY <1>4, <2>2, <3>1 DEF KeepsOrRevives
  <2>4. CASE ~(d \in Bookings /\ bookings'[d] # bookings[d] /\ Occupies(bookings'[d], clock))
    <3>1. ASSUME NEW b \in Bookings
          PROVE  KeepsOrRetires(bookings[b], clock, bookings'[b], clock')
      BY <1>1, <2>2, <2>4 DEF KeepsOrRetires
    <3> QED
      BY <1>3, <3>1
  <2> QED
    BY <2>3, <2>4
<1> QED
  BY <1>5, <1>6, <1>7

\* A commit is a step of the allocator.
LEMMA CommitRefines ==
  ASSUME ShapeInvariant, ShapeInvariant', NEW c \in Clients, Commit(c)
  PROVE  Alloc!Next
<1>1. NoOversell' /\ trip'.capacity \in Nat
  BY SalesAssumption DEF ShapeInvariant, SeatInvariant, TypeOK, TripRow
<1>2. CASE tx[c].op \in Sales
  BY <1>1, <1>2, SaleRefines
<1>3. CASE tx[c].op = "bookingPassengers"
  BY <1>1, <1>3, SeatRefines
<1>4. CASE tx[c].op = "updateTrip"
  <2>1. /\ clock' = clock /\ \A b \in Bookings : bookings'[b] = bookings[b]
        /\ revived' = revived \cup (Gone(bookings, clock) \ Gone(bookings', clock'))
    BY <1>4, CommitInstalls
  <2>2. revived' = revived
    BY <2>1 DEF Gone
  <2> QED
    BY <1>1, <2>1, <2>2, StepResizes
<1>5. CASE tx[c].op \notin Sales \cup {"bookingPassengers", "updateTrip"}
  BY <1>5, ChangeRefines
<1> QED
  BY <1>2, <1>3, <1>4, <1>5

\* Sweeps and time retire bookings whose hold has run out.
LEMMA TimeRefines ==
  ASSUME ShapeInvariant, ExpireBookingHolds \/ ListBookings \/ Tick
  PROVE  Alloc!Next
<1>1. TypeOK
  BY DEF ShapeInvariant, RowsInvariant
<1>2. CASE ExpireBookingHolds \/ ListBookings
  <2>1. /\ clock' = clock /\ trip' = trip /\ revived' = revived
        /\ \A b \in Bookings :
             bookings'[b] = bookings[b] \/ bookings'[b].status = "expired"
    BY <1>1, <1>2, SweepLeaves DEF history
  <2>2. ASSUME NEW b \in Bookings
        PROVE  KeepsOrRetires(bookings[b], clock, bookings'[b], clock')
    BY <2>1 DEF KeepsOrRetires, Occupies, BookingPhase
  <2> QED
    BY <2>1, <2>2, StepRetires
<1>3. CASE Tick
  <2>1. /\ bookings' = bookings /\ trip' = trip /\ revived' = revived
        /\ clock \in Int /\ clock' \in Int /\ clock <= clock'
    BY <1>1, <1>3, SalesAssumption DEF Tick, TypeOK
  <2>2. ASSUME NEW b \in Bookings
        PROVE  KeepsOrRetires(bookings[b], clock, bookings'[b], clock')
    <3>1. bookings[b] \in BookingRow
      BY <1>1 DEF TypeOK
    <3> QED
      BY <2>1, <3>1, OccupiesEarlier DEF KeepsOrRetires
  <2> QED
    BY <2>1, <2>2, StepRetires
<1> QED
  BY <1>2, <1>3

\* Sales by concurrent transactions, sweeps and the clock do to the seats of a trip
\* only what the abstract allocator may do: a booking is granted its seats once and
\* within the capacity, and after it gave them up holds them again only if it is
\* revived, by a commit that its hold's end overtakes or by hand.
THEOREM SalesImplementAllocator == Spec => ImplementsSeatAllocator
<1>1. Init => Alloc!Init
  <2> SUFFICES ASSUME Init PROVE Alloc!Init
    OBVIOUS
  <2>1. /\ trip.capacity \in Nat /\ revived = {}
        /\ \A b \in Bookings : bookings[b].status = "none" /\ ~Occupies(bookings[b], clock)
    BY SalesAssumption DEF Init, EmptyRow, Occupies, BookingPhase
  <2> QED
    BY <2>1 DEF Alloc!Init
<1>2. ShapeInvariant /\ ShapeInvariant' /\ [Next]_vars => [Alloc!Next]_(Alloc!vars)
  <2> SUFFICES ASSUME ShapeInvariant, ShapeInvariant', [Next]_vars
               PROVE  Alloc!Next \/ UNCHANGED Alloc!vars
    OBVIOUS
  <2>1. CASE UNCHANGED <<clock, trip, bookings, revived>>
    BY <2>1 DEF Alloc!vars
  <2>2. CASE ExpireBookingHolds \/ ListBookings \/ Tick
    BY <2>2, TimeRefines
  <2>3. CASE \E c \in Clients : Commit(c)
    BY <2>3, CommitRefines
  <2> QED
    BY <2>1, <2>2, <2>3, StepLeaves
<1> QED
  BY <1>1, <1>2, ShapeStays, PTL DEF Spec, ImplementsSeatAllocator, Alloc!Spec

=============================================================================
