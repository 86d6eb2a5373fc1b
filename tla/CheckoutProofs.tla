--------------------------- MODULE CheckoutProofs ---------------------------
(***************************************************************************)
(* Theorems of Checkout for any number of trips, passengers, visits and    *)
(* requests, with and without sessionStorage.                              *)
(*   CheckoutTypeCorrect  every reachable state is well formed;            *)
(*   ConsentIsGiven       no request leaves without consent to its details;*)
(*   RetriesBookOnce      details repeated after a lost answer book once;  *)
(*   ReceiptsSurvive      the receipt on the screen is the stored one.     *)
(* They rest on CheckoutInvariant. The wizard's details do not change once *)
(* they are ticked; whatever carries a request key (the wizard, requests   *)
(* under way whether or not the page still waits, the server's rows) has   *)
(* one key per turn of the details; and a key is in one row.               *)
(***************************************************************************)
EXTENDS Checkout, SequenceTheorems, TLAPS

-----------------------------------------------------------------------------
\* Facts about states that satisfy the invariant.

\* The numbers of the model, and what None is not.
LEMMA Constants ==
  /\ HoldTime \in Nat /\ ReceiptTime \in Nat /\ MaxTime \in Nat
  /\ SeatChoices \subseteq Nat \ {0} /\ RouteOf \in [Trips -> Routes]
  /\ None \notin Routes /\ None \notin Nat
  /\ None \notin ConfirmationType /\ None \notin ReceiptType /\ None \notin WizardType
<1>1. {HoldTime, ReceiptTime, MaxTime} \subseteq Nat
  BY CheckoutAssumption
<1>2. HoldTime \in Nat /\ ReceiptTime \in Nat /\ MaxTime \in Nat
  BY <1>1
<1> QED
  BY <1>2, CheckoutAssumption, NoneAssumption

\* The clock and the history counters.
LEMMA Counters ==
  ASSUME TypeOK PROVE now \in Nat /\ sent \in Nat /\ visits \in Nat
<1>1. {now, sent, visits} \subseteq Nat
  BY DEF TypeOK
<1> QED
  BY <1>1

\* A row of the server.
LEMMA RowFields ==
  ASSUME TypeOK
  PROVE  /\ Len(bookings) \in Nat
         /\ bookings \in [Rows -> BookingType]
         /\ \A r \in Rows : bookings[r] \in BookingType
<1>1. bookings \in Seq(BookingType)
  BY DEF TypeOK
<1>2. Len(bookings) \in Nat /\ bookings \in [1 .. Len(bookings) -> BookingType]
  BY <1>1, LenProperties
<1> QED
  BY <1>2 DEF Rows

\* The wizard on the screen.
LEMMA WizardFields ==
  ASSUME TypeOK, checkout # None
  PROVE  /\ checkout \in WizardType
         /\ checkout.people \in Seq(Inputs)
         /\ Len(checkout.people) \in Nat
         /\ checkout.seats \in SeatChoices /\ checkout.seats \in Nat
         /\ checkout.turn \in Nat /\ checkout.visit \in Nat
         /\ checkout.step \in 1 .. 3
         /\ Data(checkout) \in DataType
<1>1. checkout \in WizardType
  BY DEF TypeOK
<1>2. checkout.people \in Seq(Inputs)
  BY <1>1 DEF WizardType
<1>3. Len(checkout.people) \in Nat
  BY <1>2, LenProperties
<1>4. checkout.seats \in SeatChoices /\ checkout.seats \in Nat
  BY <1>1, Constants DEF WizardType
<1>5. Data(checkout) \in DataType
  BY <1>1 DEF WizardType, OfferType, Data, DataType
<1>6. checkout.step \in 1 .. 3 /\ checkout.turn \in Nat /\ checkout.visit \in Nat
  BY <1>1 DEF WizardType
<1> QED
  BY <1>1, <1>2, <1>3, <1>4, <1>5, <1>6

\* While the wizard does not wait, no answer is there; and only in step 2 it waits.
LEMMA NoAnswer ==
  ASSUME TypeOK, checkout # None => checkout.busy = None \/ checkout.step # 2
  PROVE  /\ \A q \in requests : q.reply = None
         /\ checkout # None => checkout.busy = None
<1>1. checkout # None => checkout.busy = None
  BY DEF TypeOK
<1>2. \A q \in requests : q.id \in Nat
  BY DEF TypeOK, RequestType
<1> QED
  BY <1>1, <1>2, Constants DEF TypeOK, Waiting

-----------------------------------------------------------------------------
\* Wizards.

\* A new wizard.
LEMMA NewWizard ==
  ASSUME TypeOK, NEW o \in OfferType, NEW s \in SeatChoices
  PROVE  /\ Wizard(o, s) \in WizardType
         /\ Wizard(o, s).visit = visits + 1 /\ Wizard(o, s).turn = 0
         /\ Wizard(o, s).request = None /\ Wizard(o, s).busy = None
         /\ Wizard(o, s).confirmation = None /\ Wizard(o, s).step = 1
         /\ Wizard(o, s).consent = FALSE
         /\ Wizard(o, s).people = <<None>> /\ Wizard(o, s).seats = s
         /\ Wizard(o, s).offer = o
<1>1. <<None>> \in Seq(Inputs)
  BY DEF Inputs
<1>2. now \in Nat /\ visits + 1 \in Nat
  BY Counters
<1>3. [f \in Fields |-> None] \in [Fields -> Inputs]
  BY DEF Inputs
<1> QED
  BY <1>1, <1>2, <1>3 DEF Wizard, WizardType

\* A wizard with one field changed.
LEMMA WizardExcept ==
  ASSUME NEW w \in WizardType
  PROVE  /\ \A x \in 1 .. 3 : [w EXCEPT !.step = x] \in WizardType
         /\ \A x \in Seq(Inputs) : [w EXCEPT !.people = x] \in WizardType
         /\ \A x \in Phones \cup {None} : [w EXCEPT !.phone = x] \in WizardType
         /\ \A x \in {None, "bank", "cash"} : [w EXCEPT !.method = x] \in WizardType
         /\ \A x \in [Fields -> Inputs] : [w EXCEPT !.custom = x] \in WizardType
         /\ \A x \in BOOLEAN : [w EXCEPT !.consent = x] \in WizardType
         /\ \A x \in {None} \cup Nat : [w EXCEPT !.busy = x] \in WizardType
         /\ \A x \in [data : DataType, key : Nat] : [w EXCEPT !.request = x] \in WizardType
         /\ \A x \in ConfirmationType : [w EXCEPT !.confirmation = x] \in WizardType
         /\ \A x \in Nat : [w EXCEPT !.checkedAt = x] \in WizardType
         /\ \A x \in DataType \cup {None} : [w EXCEPT !.agreed = x] \in WizardType
         /\ \A x \in Nat : [w EXCEPT !.turn = x] \in WizardType
<1>1. \A x \in 1 .. 3 : [w EXCEPT !.step = x] \in WizardType
  BY DEF WizardType
<1>2. \A x \in Seq(Inputs) : [w EXCEPT !.people = x] \in WizardType
  BY DEF WizardType
<1>3. \A x \in Phones \cup {None} : [w EXCEPT !.phone = x] \in WizardType
  BY DEF WizardType
<1>4. \A x \in {None, "bank", "cash"} : [w EXCEPT !.method = x] \in WizardType
  BY DEF WizardType
<1>5. \A x \in [Fields -> Inputs] : [w EXCEPT !.custom = x] \in WizardType
  BY DEF WizardType
<1>6. \A x \in BOOLEAN : [w EXCEPT !.consent = x] \in WizardType
  BY DEF WizardType
<1>7. \A x \in {None} \cup Nat : [w EXCEPT !.busy = x] \in WizardType
  BY DEF WizardType
<1>8. \A x \in [data : DataType, key : Nat] : [w EXCEPT !.request = x] \in WizardType
  <2> DEFINE R == [data : DataType, key : Nat]
  <2> HIDE DEF R
  <2>1. \A x \in R : [w EXCEPT !.request = x] \in
          [visit : Nat, offer : OfferType, seats : SeatChoices, step : 1 .. 3,
           people : Seq(Inputs), phone : Phones \cup {None}, method : {None, "bank", "cash"},
           custom : [Fields -> Inputs], consent : BOOLEAN, busy : {None} \cup Nat,
           request : {None} \cup R, confirmation : {None} \cup ConfirmationType,
           checkedAt : Nat, agreed : DataType \cup {None}, turn : Nat]
    BY DEF WizardType, R
  <2> QED
    BY <2>1 DEF WizardType, R
<1>9. \A x \in ConfirmationType : [w EXCEPT !.confirmation = x] \in WizardType
  BY DEF WizardType
<1>10. \A x \in Nat : [w EXCEPT !.checkedAt = x] \in WizardType
  BY DEF WizardType
<1>11. \A x \in DataType \cup {None} : [w EXCEPT !.agreed = x] \in WizardType
  BY DEF WizardType
<1>12. \A x \in Nat : [w EXCEPT !.turn = x] \in WizardType
  BY DEF WizardType
<1> QED
  BY <1>1, <1>2, <1>3, <1>4, <1>5, <1>6, <1>7, <1>8, <1>9, <1>10, <1>11, <1>12

\* The wizard of a stored receipt.
LEMMA NewReceipt ==
  ASSUME TypeOK, NEW v \in ReceiptType
  PROVE  LET c == RestoredWizard(v) IN
         /\ c \in WizardType
         /\ c.visit = visits + 1 /\ c.turn = 0 /\ c.request = None /\ c.busy = None
         /\ c.confirmation = v.confirmation /\ c.step = 3 /\ c.consent = FALSE
         /\ c.people = <<None>> /\ c.seats = v.confirmation.seats /\ c.offer = v.offer
<1> DEFINE w == Wizard(v.offer, v.confirmation.seats)
           m == IF v.confirmation.payment = None THEN "cash" ELSE "bank"
<1>1. /\ v.offer \in OfferType /\ v.confirmation \in ConfirmationType
      /\ v.confirmation.seats \in SeatChoices
  BY DEF ReceiptType, ConfirmationType
<1>2. /\ w \in WizardType
      /\ w.visit = visits + 1 /\ w.turn = 0 /\ w.request = None /\ w.busy = None
      /\ w.consent = FALSE /\ w.people = <<None>> /\ w.seats = v.confirmation.seats
      /\ w.offer = v.offer
  BY ZenonT(60), <1>1, NewWizard
<1>3. m \in {"bank", "cash"}
  OBVIOUS
<1>4. RestoredWizard(v) = [w EXCEPT !.step = 3, !.confirmation = v.confirmation, !.method = m]
  BY DEF RestoredWizard
<1> DEFINE c == [w EXCEPT !.step = 3, !.confirmation = v.confirmation, !.method = m]
<1> HIDE DEF w, m
<1>5. c \in WizardType
  <2>1. 3 \in 1 .. 3 /\ v.confirmation \in {None} \cup ConfirmationType
        /\ m \in {None, "bank", "cash"}
    BY <1>1, <1>3
  <2> DEFINE c1 == [w EXCEPT !.step = 3]
             c2 == [c1 EXCEPT !.confirmation = v.confirmation]
  <2>2. c1 \in WizardType
    BY <1>2, <2>1, WizardExcept
  <2>3. c2 \in WizardType
    BY <1>1, <2>2, WizardExcept
  <2>4. [c2 EXCEPT !.method = m] \in WizardType
    BY <2>1, <2>3, WizardExcept
  <2> QED
    BY <2>4
<1>6. /\ c.visit = w.visit /\ c.turn = w.turn /\ c.request = w.request /\ c.busy = w.busy
      /\ c.consent = w.consent /\ c.people = w.people /\ c.seats = w.seats
      /\ c.offer = w.offer /\ c.confirmation = v.confirmation /\ c.step = 3
  BY <1>2 DEF WizardType
<1> HIDE DEF c
<1> QED
  BY <1>2, <1>4, <1>5, <1>6 DEF c

\* c is the wizard on the screen with the same visit, turn and last request.
Kept(c) ==
  /\ c \in WizardType /\ Len(c.people) <= c.seats
  /\ c.visit = checkout.visit /\ c.turn = checkout.turn /\ c.request = checkout.request

\* What the fields of step 1 change: never the order, the consent or the receipt.
Detailed(c) ==
  /\ Kept(c) /\ c.step \in {1, 2}
  /\ c.busy = checkout.busy /\ c.confirmation = checkout.confirmation
  /\ c.consent = checkout.consent

\* The passengers' rows: one more, one less, one changed.
LEMMA PeopleTyped ==
  ASSUME NEW s \in Seq(Inputs)
  PROVE  /\ Append(s, None) \in Seq(Inputs) /\ Len(Append(s, None)) = Len(s) + 1
         /\ \A i \in 2 .. Len(s) :
              LET t == SubSeq(s, 1, i - 1) \o SubSeq(s, i + 1, Len(s)) IN
              t \in Seq(Inputs) /\ Len(t) = Len(s) - 1
         /\ \A i \in 1 .. Len(s), v \in Values :
              [s EXCEPT ![i] = v] \in Seq(Inputs) /\ Len([s EXCEPT ![i] = v]) = Len(s)
<1>1. None \in Inputs /\ Values \subseteq Inputs
  BY DEF Inputs
<1>2. Append(s, None) \in Seq(Inputs) /\ Len(Append(s, None)) = Len(s) + 1
  BY <1>1, AppendProperties
<1>3. Len(s) \in Nat /\ \A j \in 1 .. Len(s) : s[j] \in Inputs
  BY LenProperties, ElementOfSeq
<1>4. ASSUME NEW i \in 2 .. Len(s)
      PROVE  LET t == SubSeq(s, 1, i - 1) \o SubSeq(s, i + 1, Len(s)) IN
             t \in Seq(Inputs) /\ Len(t) = Len(s) - 1
  <2> DEFINE a == SubSeq(s, 1, i - 1)
             b == SubSeq(s, i + 1, Len(s))
  <2>1. a \in Seq(Inputs) /\ Len(a) = i - 1
    <3>1. 1 \in Int /\ i - 1 \in Int /\ 1 <= i - 1 /\ \A j \in 1 .. i - 1 : s[j] \in Inputs
      BY <1>3
    <3>2. /\ a \in Seq(Inputs)
          /\ Len(a) = IF 1 <= i - 1 THEN (i - 1) - 1 + 1 ELSE 0
      BY <3>1, SubSeqProperties, Zenon
    <3> QED
      BY <3>1, <3>2
  <2>2. b \in Seq(Inputs) /\ Len(b) = Len(s) - i
    <3>1. i + 1 \in Int /\ Len(s) \in Int /\ \A j \in i + 1 .. Len(s) : s[j] \in Inputs
      BY <1>3
    <3>2. /\ b \in Seq(Inputs)
          /\ Len(b) = IF i + 1 <= Len(s) THEN Len(s) - (i + 1) + 1 ELSE 0
      BY <3>1, SubSeqProperties, Zenon
    <3> QED
      BY <1>3, <3>2
  <2> HIDE DEF a, b
  <2>3. a \o b \in Seq(Inputs) /\ Len(a \o b) = Len(a) + Len(b)
    BY <2>1, <2>2, ConcatProperties
  <2>4. Len(a \o b) = Len(s) - 1
    BY <1>3, <2>1, <2>2, <2>3
  <2> QED
    BY <2>3, <2>4 DEF a, b
<1>5. ASSUME NEW i \in 1 .. Len(s), NEW v \in Values
      PROVE  [s EXCEPT ![i] = v] \in Seq(Inputs) /\ Len([s EXCEPT ![i] = v]) = Len(s)
  BY <1>1, ExceptSeq
<1> QED
  BY <1>2, <1>4, <1>5

\* Step 1 edits the details, or goes on to step 2.
LEMMA DetailsStep ==
  ASSUME TypeOK, Details
  PROVE  checkout # None /\ checkout.step = 1 /\ \E c : Edit(c) /\ Detailed(c)
<1> DEFINE k == checkout
<1>0. checkout # None /\ checkout.step = 1
  BY DEF Details, AddPassenger, Review, RemovePassenger, UpdatePerson, SetPhone, SetField,
         SetMethod, Open
<1>1. /\ k \in WizardType /\ k.people \in Seq(Inputs) /\ Len(k.people) \in Nat
      /\ k.seats \in Nat /\ Len(k.people) <= k.seats
  BY <1>0, WizardFields DEF TypeOK
<1>2. ASSUME NEW x \in Seq(Inputs), Len(x) <= k.seats PROVE Detailed([k EXCEPT !.people = x])
  <2>1. [k EXCEPT !.people = x] \in WizardType
    BY <1>1, WizardExcept
  <2> QED
    BY <1>0, <1>1, <1>2, <2>1 DEF Detailed, Kept, WizardType
<1>3. CASE AddPassenger
  <2>1. Len(k.people) < k.seats /\ Edit([k EXCEPT !.people = Append(k.people, None)])
    BY <1>3 DEF AddPassenger
  <2>2. /\ Append(k.people, None) \in Seq(Inputs)
        /\ Len(Append(k.people, None)) <= k.seats
    BY <1>1, <2>1, PeopleTyped
  <2> QED
    BY <1>0, <1>2, <2>1, <2>2
<1>4. ASSUME NEW i, RemovePassenger(i) PROVE \E c : Edit(c) /\ Detailed(c)
  <2> DEFINE x == SubSeq(k.people, 1, i - 1) \o SubSeq(k.people, i + 1, Len(k.people))
  <2>1. i \in 2 .. Len(k.people) /\ Edit([k EXCEPT !.people = x])
    BY <1>4 DEF RemovePassenger
  <2>2. x \in Seq(Inputs) /\ Len(x) = Len(k.people) - 1
    BY <1>1, <2>1, PeopleTyped
  <2> HIDE DEF x
  <2> QED
    BY <1>1, <1>2, <2>1, <2>2
<1>5. ASSUME NEW i, NEW v \in Values, UpdatePerson(i, v) PROVE \E c : Edit(c) /\ Detailed(c)
  <2> DEFINE x == [k.people EXCEPT ![i] = v]
  <2>1. i \in 1 .. Len(k.people) /\ Edit([k EXCEPT !.people = x])
    BY <1>5 DEF UpdatePerson
  <2>2. x \in Seq(Inputs) /\ Len(x) = Len(k.people)
    BY <1>1, <2>1, PeopleTyped
  <2> HIDE DEF x
  <2> QED
    BY <1>1, <1>2, <2>1, <2>2
<1>6. ASSUME NEW p \in Phones, SetPhone(p) PROVE \E c : Edit(c) /\ Detailed(c)
  <2>1. [k EXCEPT !.phone = p] \in WizardType
    BY <1>1, WizardExcept
  <2>2. Detailed([k EXCEPT !.phone = p])
    BY <1>0, <1>1, <2>1 DEF Detailed, Kept, WizardType
  <2> QED
    BY <1>6, <2>2 DEF SetPhone
<1>7. ASSUME NEW f \in Fields, NEW v \in Values, SetField(f, v)
      PROVE  \E c : Edit(c) /\ Detailed(c)
  <2> DEFINE x == [k.custom EXCEPT ![f] = v]
  <2>1. x \in [Fields -> Inputs]
    BY <1>1 DEF WizardType, Inputs
  <2>2. Edit([k EXCEPT !.custom = x])
    BY <1>7 DEF SetField
  <2> HIDE DEF x
  <2>3. [k EXCEPT !.custom = x] \in WizardType
    BY <1>1, <2>1, WizardExcept
  <2>4. Detailed([k EXCEPT !.custom = x])
    BY <1>0, <1>1, <2>3 DEF Detailed, Kept, WizardType
  <2> QED
    BY <2>2, <2>4
<1>8. ASSUME NEW m \in {"bank", "cash"}, SetMethod(m) PROVE \E c : Edit(c) /\ Detailed(c)
  <2>1. [k EXCEPT !.method = m] \in WizardType
    BY <1>1, WizardExcept
  <2>2. Detailed([k EXCEPT !.method = m])
    BY <1>0, <1>1, <2>1 DEF Detailed, Kept, WizardType
  <2> QED
    BY <1>8, <2>2 DEF SetMethod
<1>9. CASE Review
  <2>1. [k EXCEPT !.step = 2] \in WizardType
    <3>1. 2 \in 1 .. 3
      OBVIOUS
    <3> QED
      BY <1>1, <3>1, WizardExcept, Zenon
  <2>2. Detailed([k EXCEPT !.step = 2])
    BY <1>0, <1>1, <2>1 DEF Detailed, Kept, WizardType
  <2> QED
    BY <1>0, <1>9, <2>2 DEF Review
<1> QED
  BY <1>0, <1>3, <1>4, <1>5, <1>6, <1>7, <1>8, <1>9 DEF Details

-----------------------------------------------------------------------------
\* The server's rows.

\* The key, the wizard and the turn that a row was made for.
Origin(b) == [key |-> b.key, visit |-> b.visit, turn |-> b.turn]

\* Rows keep their origin, and a new one is made for a request under a new key.
RowsGrow ==
  /\ bookings' \in Seq(BookingType)
  /\ Len(bookings') \in {Len(bookings), Len(bookings) + 1}
  /\ \A r \in Rows : Origin(bookings'[r]) = Origin(bookings[r])
  /\ Len(bookings') = Len(bookings) + 1 =>
       \E q \in requests : /\ Origin(bookings'[Len(bookings) + 1]) = Origin(q)
                           /\ \A r \in Rows : bookings[r].key # q.key

\* A row with another status or payment.
LEMMA RowExcept ==
  ASSUME NEW b \in BookingType
  PROVE  /\ \A s \in Statuses :
              LET x == [b EXCEPT !.status = s, !.changes = b.changes + 1] IN
              x \in BookingType /\ Origin(x) = Origin(b)
         /\ \A p \in Payments :
              LET x == [b EXCEPT !.payment = p] IN
              x \in BookingType /\ Origin(x) = Origin(b)
<1>1. b.changes + 1 \in Nat
  BY DEF BookingType
<1>3. ASSUME NEW s \in Statuses, NEW n \in Nat
      PROVE  /\ [b EXCEPT !.status = s, !.changes = n] \in BookingType
             /\ Origin([b EXCEPT !.status = s, !.changes = n]) = Origin(b)
  BY DEF BookingType, Origin
<1>4. \A p \in Payments : LET x == [b EXCEPT !.payment = p] IN
                          x \in BookingType /\ Origin(x) = Origin(b)
  BY DEF BookingType, Origin
<1> QED
  BY <1>1, <1>3, <1>4

\* One row changed, its origin untouched.
LEMMA OneRowChanged ==
  ASSUME TypeOK, NEW r \in Rows, NEW b \in BookingType, Origin(b) = Origin(bookings[r]),
         bookings' = [bookings EXCEPT ![r] = b]
  PROVE  RowsGrow
<1>1. /\ Len(bookings) \in Nat /\ bookings \in [Rows -> BookingType]
      /\ bookings \in Seq(BookingType) /\ r \in 1 .. Len(bookings)
  BY RowFields DEF TypeOK, Rows
<1>2. bookings' \in Seq(BookingType) /\ Len(bookings') = Len(bookings)
  BY <1>1, ExceptSeq
<1>3. \A s \in Rows : Origin(bookings'[s]) = Origin(bookings[s])
  <2>1. bookings'[r] = b /\ \A s \in Rows : s # r => bookings'[s] = bookings[s]
    BY <1>1
  <2> TAKE s \in Rows
  <2>2. CASE s = r
    <3>1. bookings'[s] = b /\ bookings[s] = bookings[r]
      BY <2>1, <2>2
    <3> QED
      BY <3>1 DEF Origin
  <2>3. CASE s # r
    <3>1. bookings'[s] = bookings[s]
      BY <2>1, <2>3
    <3> QED
      BY <3>1 DEF Origin
  <2> QED
    BY <2>2, <2>3
<1>4. Len(bookings') # Len(bookings) + 1
  <2>1. ASSUME NEW n \in Nat PROVE n # n + 1
    OBVIOUS
  <2>2. Len(bookings') = Len(bookings) /\ Len(bookings) \in Nat
    BY <1>1, <1>2
  <2> QED
    BY <2>1, <2>2, Zenon
<1> QED
  BY <1>2, <1>3, <1>4, Zenon DEF RowsGrow

\* Nothing happens to the rows.
LEMMA RowsSame ==
  ASSUME TypeOK, UNCHANGED bookings PROVE RowsGrow
<1>1. Len(bookings) \in Nat /\ bookings \in Seq(BookingType)
  BY RowFields DEF TypeOK
<1> QED
  BY <1>1 DEF RowsGrow

\* A new row at the end, with due holds expired.
LEMMA BookStep ==
  ASSUME TypeOK, NEW q \in requests, Book(q) PROVE RowsGrow
<1> DEFINE n == Len(bookings)
           old == [r \in Rows |->
                     IF /\ bookings[r].data.trip = q.data.trip
                        /\ bookings[r].data.phone = q.data.phone /\ Due(bookings[r])
                     THEN [bookings[r] EXCEPT !.status = "expired", !.changes = @ + 1]
                     ELSE bookings[r]]
           new == NewBooking(q)
<1>0. /\ n \in Nat /\ \A r \in Rows : bookings[r] \in BookingType
      /\ q \in RequestType /\ now \in Nat
  BY RowFields, Counters DEF TypeOK
<1>1. \A r \in Rows : old[r] \in BookingType /\ Origin(old[r]) = Origin(bookings[r])
  <2> TAKE r \in Rows
  <2> DEFINE b == bookings[r]
             x == [b EXCEPT !.status = "expired", !.changes = b.changes + 1]
  <2>1. b \in BookingType
    BY <1>0
  <2>2. x \in BookingType /\ Origin(x) = Origin(b)
    BY <2>1, RowExcept DEF Statuses
  <2>3. old[r] = x \/ old[r] = b
    OBVIOUS
  <2> HIDE DEF old, x, b
  <2> QED
    BY <2>1, <2>2, <2>3 DEF b
<1>2. old \in [1 .. n -> BookingType]
  <2>1. old = [r \in 1 .. n |-> old[r]]
    BY DEF Rows
  <2> HIDE DEF old
  <2> QED
    BY <1>1, <2>1 DEF Rows
<1>3. new \in BookingType /\ Origin(new) = Origin(q)
  <2>1. /\ q.key \in Nat /\ q.visit \in Nat /\ q.turn \in Nat /\ q.data \in DataType
        /\ now + HoldTime \in Nat
    BY <1>0, Constants DEF RequestType
  <2> QED
    BY <2>1 DEF NewBooking, BookingType, Statuses, Payments, Origin
<1>4. bookings' = Append(old, new) /\ \A r \in Rows : bookings[r].key # q.key
  BY DEF Book
<1> HIDE DEF old, new
<1>5. old \in Seq(BookingType) /\ Len(old) = n
  <2>1. old \in Seq(BookingType)
    BY <1>0, <1>2, SeqDef
  <2>2. Len(old) = n
    BY <1>0, <1>2, <2>1, LenProperties
  <2> QED
    BY <2>1, <2>2
<1>6. /\ bookings' \in Seq(BookingType) /\ Len(bookings') = n + 1
      /\ \A r \in 1 .. n : bookings'[r] = old[r]
      /\ bookings'[n + 1] = new
  BY <1>3, <1>4, <1>5, AppendProperties
<1> QED
  BY <1>1, <1>3, <1>4, <1>6 DEF RowsGrow, Rows

\* A request that is repeated changes at most the token.
LEMMA ReplayStep ==
  ASSUME TypeOK, NEW q \in requests, NEW r \in Rows, Replay(q, r) PROVE RowsGrow
<1> DEFINE b == bookings[r]
           x == [b EXCEPT !.token = b.token + 1]
<1>1. b \in BookingType
  BY RowFields
<1>2. x \in BookingType /\ Origin(x) = Origin(b)
  BY <1>1 DEF BookingType, Origin
<1>3. \/ UNCHANGED bookings
      \/ \E y \in {b, x} : bookings' = [bookings EXCEPT ![r] = y]
  BY DEF Replay
<1> HIDE DEF x
<1> QED
  BY <1>1, <1>2, <1>3, OneRowChanged, RowsSame

\* The bank, the sweep and the dispatcher change one row.
LEMMA ChangeStep ==
  ASSUME TypeOK, NEW r \in Rows, NEW s \in {"confirmed", "expired", "cancelled"},
         NEW p \in Payments, ChangeBooking(r, s, p)
  PROVE  RowsGrow
<1> DEFINE b == bookings[r]
           x == [b EXCEPT !.status = s, !.payment = p, !.changes = b.changes + 1]
<1>1. b \in BookingType
  BY RowFields
<1>2. x \in BookingType /\ Origin(x) = Origin(b)
  <2> DEFINE y == [b EXCEPT !.status = s, !.changes = b.changes + 1]
  <2>1. y \in BookingType /\ Origin(y) = Origin(b)
    BY <1>1, RowExcept DEF Statuses
  <2>2. [y EXCEPT !.payment = p] \in BookingType /\ Origin([y EXCEPT !.payment = p]) = Origin(y)
    <3> HIDE DEF y
    <3> QED
      BY <2>1, RowExcept
  <2>3. x = [y EXCEPT !.payment = p]
    BY <1>1 DEF BookingType
  <2> HIDE DEF x, y
  <2> QED
    BY <2>1, <2>2, <2>3
<1>3. bookings' = [bookings EXCEPT ![r] = x]
  BY DEF ChangeBooking
<1> HIDE DEF x
<1> QED
  BY <1>2, <1>3, OneRowChanged

\* Every step: only the API and what changes bookings touch the rows.
LEMMA RowsStep ==
  ASSUME TypeOK, [Next]_vars PROVE RowsGrow
<1>1. CASE SearchPage
  BY <1>1, RowsSame DEF SearchPage, LoadCatalog, CatalogFails, RetryCatalog, SetCriteria,
       Search, SearchAnswer, SearchFails, SelectTrip, ReturnToSearch, LeavePage, server
<1>2. CASE Details
  <2>1. PICK c : Edit(c)
    BY <1>2, DetailsStep
  <2> QED
    BY <2>1, RowsSame DEF Edit, server
<1>3. CASE Order
  BY <1>3, RowsSame DEF Order, ToggleConsent, BackToDetails, Edit, Submit, Confirmed,
       SubmitFails, server
<1>4. CASE Receipt
  BY <1>4, RowsSame DEF Receipt, CheckPayment, ShowStatus, CheckFails, server
<1>5. CASE API
  <2>1. ASSUME NEW q \in requests, PublicCreateBooking(q) PROVE RowsGrow
    <3>1. (\E r \in Rows : Replay(q, r)) \/ Book(q) \/ UNCHANGED bookings
      BY <2>1 DEF PublicCreateBooking, Refuse
    <3> QED
      BY <3>1, ReplayStep, BookStep, RowsSame
  <2>2. CASE PublicPaymentStatus
    BY <2>2, RowsSame DEF PublicPaymentStatus, server
  <2>3. ASSUME NEW t \in Trips, NEW p \in Prices, ChangePrice(t, p) PROVE RowsGrow
    BY <2>3, RowsSame DEF ChangePrice
  <2> QED
    BY <1>5, <2>1, <2>2, <2>3, ChangeStep DEF API, Payments
<1>6. CASE Tick \/ UNCHANGED vars
  BY <1>6, RowsSame DEF Tick, vars, server
<1> QED
  BY <1>1, <1>2, <1>3, <1>4, <1>5, <1>6 DEF Next

-----------------------------------------------------------------------------
\* The page around the wizard, the clock and the counters.

PageTyped ==
  /\ catalog \in {"loading", "failed", "cash", "bank"}
  /\ criteria \in {NoCriteria} \cup CriteriaType
  /\ search \in {None} \cup CriteriaType
  /\ result # None => result.criteria \in CriteriaType
  /\ prices \in [Trips -> Prices]
  /\ now \in Nat /\ sent \in Nat /\ visits \in Nat

\* It keeps its types.
LEMMA PageStep == TypeOK /\ [Next]_vars => PageTyped'
<1> SUFFICES ASSUME TypeOK, [Next]_vars PROVE PageTyped'
  OBVIOUS
<1>0. PageTyped
  BY Counters DEF TypeOK, PageTyped
<1>1. ASSUME NEW m \in {"cash", "bank"}, LoadCatalog(m) PROVE PageTyped'
  <2> DEFINE saved == RestorePublicCheckout(receipt)
             found == [route |-> RouteOf[saved.offer.trip],
                       seats |-> saved.confirmation.seats]
  <2>1. CASE saved = None
    BY <1>0, <1>1, <2>1 DEF LoadCatalog, PageTyped, server
  <2>2. CASE saved # None
    <3>1. saved \in ReceiptType
      BY <2>2 DEF RestorePublicCheckout, TypeOK
    <3>2. found \in CriteriaType
      BY <3>1, Constants DEF ReceiptType, ConfirmationType, OfferType, CriteriaType
    <3>3. /\ catalog' = m /\ visits' = visits + 1 /\ criteria' = found
          /\ result' = [criteria |-> found, offers |-> {}]
          /\ UNCHANGED <<search, prices, now, sent>>
      BY <1>1, <2>2 DEF LoadCatalog, server
    <3> HIDE DEF found
    <3> QED
      BY <1>0, <3>2, <3>3 DEF PageTyped
  <2> QED
    BY <2>1, <2>2
<1>2. ASSUME NEW r \in Routes, NEW n \in SeatChoices, SetCriteria(r, n) PROVE PageTyped'
  BY <1>0, <1>2 DEF SetCriteria, PageTyped, CriteriaType, server
<1>3. CASE Search
  <2>1. criteria \in CriteriaType
    BY <1>0, <1>3 DEF Search, PageTyped, NoCriteria
  <2> QED
    BY <1>0, <1>3, <2>1 DEF Search, PageTyped, server
<1>4. CASE SearchAnswer
  <2>1. search \in CriteriaType /\ result'.criteria = search
    BY <1>0, <1>4 DEF SearchAnswer, PageTyped
  <2> QED
    BY <1>0, <1>4, <2>1 DEF SearchAnswer, PageTyped, server
<1>5. ASSUME NEW o, SelectTrip(o) PROVE PageTyped'
  BY <1>0, <1>5 DEF SelectTrip, PageTyped, server
<1>6. CASE CatalogFails \/ RetryCatalog \/ SearchFails \/ ReturnToSearch \/ LeavePage
  BY <1>0, <1>6 DEF CatalogFails, RetryCatalog, SearchFails, ReturnToSearch, LeavePage,
     PageTyped, server
<1>7. ASSUME NEW c, Edit(c) PROVE PageTyped'
  BY <1>0, <1>7 DEF Edit, PageTyped, server
<1>8. CASE Order
  <2>1. CASE ToggleConsent \/ BackToDetails
    BY <1>7, <2>1 DEF ToggleConsent, BackToDetails
  <2>2. CASE Submit
    BY <1>0, <2>2 DEF Submit, PageTyped, server
  <2>3. ASSUME NEW q \in requests, Confirmed(q) \/ SubmitFails(q) PROVE PageTyped'
    BY <1>0, <2>3 DEF Confirmed, SubmitFails, PageTyped, server
  <2> QED
    BY <1>8, <2>1, <2>2, <2>3 DEF Order
<1>9. CASE Receipt
  BY <1>0, <1>9 DEF Receipt, CheckPayment, ShowStatus, CheckFails, PageTyped, server
<1>10. CASE API
  <2>1. ASSUME NEW t \in Trips, NEW p \in Prices, ChangePrice(t, p) PROVE PageTyped'
    BY <1>0, <2>1 DEF ChangePrice, PageTyped, client
  <2>2. ASSUME NEW r, NEW s, NEW p, ChangeBooking(r, s, p) PROVE PageTyped'
    BY <1>0, <2>2 DEF ChangeBooking, PageTyped, client
  <2>3. ASSUME NEW q, PublicCreateBooking(q) PROVE PageTyped'
    BY <1>0, <2>3 DEF PublicCreateBooking, PageTyped, client
  <2>4. CASE PublicPaymentStatus
    BY <1>0, <2>4 DEF PublicPaymentStatus, PageTyped, server
  <2> QED
    BY <1>10, <2>1, <2>2, <2>3, <2>4 DEF API
<1>11. CASE Tick \/ UNCHANGED vars
  BY <1>0, <1>11 DEF Tick, vars, client, server, PageTyped
<1>12. CASE SearchPage
  BY <1>1, <1>2, <1>3, <1>4, <1>5, <1>6, <1>12 DEF SearchPage
<1>13. CASE Details
  BY <1>7, <1>13, DetailsStep
<1> QED
  BY <1>8, <1>9, <1>10, <1>11, <1>12, <1>13 DEF Next

-----------------------------------------------------------------------------
\* Requests.

\* p is q, perhaps answered.
Follows(p, q) ==
  /\ p.id = q.id /\ p.visit = q.visit /\ p.turn = q.turn /\ p.key = q.key
  /\ p.data = q.data /\ p.agreed = q.agreed

OneId(S) == \A p, q \in S : p.id = q.id => p = q

\* Requests end, or are answered.
RequestsGoOn ==
  /\ requests' \subseteq RequestType /\ OneId(requests')
  /\ \A p \in requests' : \E q \in requests : Follows(p, q)

\* What the public view of a row is.
LEMMA ConfirmationTyped ==
  ASSUME NEW r \in Nat, NEW b \in BookingType
  PROVE  Confirmation(r, b) \in ConfirmationType /\ Confirmation(r, b).reference = r
  BY DEF Confirmation, ConfirmationType, BookingType, DataType

\* Fewer requests.
LEMMA RequestsEnd ==
  ASSUME TypeOK, requests' \subseteq requests PROVE RequestsGoOn
  BY DEF TypeOK, RequestsGoOn, OneId, Follows

\* One request is answered, if the page still waits for it.
LEMMA AnsweredStep ==
  ASSUME TypeOK, NEW q \in requests, UNCHANGED checkout,
         NEW a \in {Refusal} \cup ConfirmationType, Answered(q, a)
  PROVE  /\ RequestsGoOn
         /\ \A p \in requests' : p \in requests \/ p.reply = a
         /\ \A p \in requests' : p.reply # None => checkout' # None /\ checkout'.busy = p.id
         /\ Waiting(q) => \E p \in requests' : p.id = q.id
         /\ \A p \in requests : p # q => p \in requests'
<1> DEFINE x == [q EXCEPT !.reply = a]
<1>0. /\ q \in RequestType /\ requests \subseteq RequestType /\ OneId(requests)
      /\ \A p \in requests : p.reply # None => Waiting(p)
  BY DEF TypeOK, OneId
<1>1. x \in RequestType /\ Follows(x, q) /\ x.reply = a
  BY <1>0 DEF RequestType, Follows
<1>2. requests' = (requests \ {q}) \cup (IF Waiting(q) THEN {x} ELSE {})
  BY DEF Answered
<1> HIDE DEF x
<1>3. requests' \subseteq RequestType
  BY <1>0, <1>1, <1>2
<1>4. \A p \in requests' : p \in requests \ {q} \/ (p = x /\ Waiting(q))
  BY <1>2
<1>5. \A p \in requests' : \E s \in requests : Follows(p, s)
  BY <1>1, <1>4 DEF Follows
<1>6. OneId(requests')
  BY <1>0, <1>1, <1>4 DEF OneId, Follows
<1>7. ASSUME NEW p \in requests', p.reply # None
      PROVE  checkout' # None /\ checkout'.busy = p.id
  <2>1. Waiting(p)
    BY <1>0, <1>1, <1>4, <1>7 DEF Waiting, Follows
  <2> QED
    BY <2>1 DEF Waiting
<1>8. Waiting(q) => \E p \in requests' : p.id = q.id
  BY <1>1, <1>2 DEF Follows
<1> QED
  BY <1>1, <1>2, <1>3, <1>4, <1>5, <1>6, <1>7, <1>8 DEF RequestsGoOn

\* The API's answer to a request.
LEMMA CreateStep ==
  ASSUME TypeOK, NEW q \in requests, PublicCreateBooking(q)
  PROVE  \E a \in {Refusal} \cup ConfirmationType :
           /\ Answered(q, a)
           /\ a # Refusal => a.reference \in 1 .. Len(bookings')
<1>0. Len(bookings) \in Nat /\ \A r \in Rows : bookings[r] \in BookingType
  BY RowFields
<1>1. ASSUME NEW r \in Rows, Replay(q, r)
      PROVE  \E a \in {Refusal} \cup ConfirmationType :
               Answered(q, a) /\ (a # Refusal => a.reference \in 1 .. Len(bookings'))
  <2> DEFINE x == IF bookings[r].payment = None THEN bookings[r]
                  ELSE [bookings[r] EXCEPT !.token = @ + 1]
  <2>1. x \in BookingType
    <3>1. bookings[r] \in BookingType /\ bookings[r].token + 1 \in Nat
      BY <1>0 DEF BookingType
    <3>2. [bookings[r] EXCEPT !.token = bookings[r].token + 1] \in BookingType
      BY <3>1 DEF BookingType
    <3> QED
      BY <3>1, <3>2
  <2>2. CASE bookings' = [bookings EXCEPT ![r] = x] /\ Answered(q, Confirmation(r, x))
    <3>1. r \in Nat /\ r \in 1 .. Len(bookings)
      BY <1>0 DEF Rows
    <3>2. Len(bookings') = Len(bookings)
      BY <2>1, <2>2, <3>1, ExceptSeq DEF TypeOK
    <3> HIDE DEF x
    <3>3. /\ Confirmation(r, x) \in ConfirmationType
          /\ Confirmation(r, x).reference \in 1 .. Len(bookings')
      BY <2>1, <3>1, <3>2, ConfirmationTyped
    <3> QED
      BY <2>2, <3>3
  <2>3. CASE Answered(q, Refusal)
    BY <2>3
  <2> HIDE DEF x
  <2> QED
    BY <1>1, <2>2, <2>3 DEF Replay, x
<1>2. CASE Book(q)
  <2> DEFINE c == Confirmation(Len(bookings) + 1, NewBooking(q))
  <2>1. RowsGrow
    BY <1>2, BookStep
  <2>2. NewBooking(q) \in BookingType
    <3>1. /\ q.key \in Nat /\ q.visit \in Nat /\ q.turn \in Nat /\ q.data \in DataType
          /\ now + HoldTime \in Nat
      BY Constants, Counters DEF TypeOK, RequestType
    <3> QED
      BY <3>1 DEF NewBooking, BookingType, Statuses, Payments
  <2>3. c \in ConfirmationType /\ c.reference = Len(bookings) + 1
    BY <1>0, <2>2, ConfirmationTyped
  <2>4. Len(bookings') = Len(bookings) + 1
    <3> DEFINE old == [r \in Rows |->
                         IF /\ bookings[r].data.trip = q.data.trip
                            /\ bookings[r].data.phone = q.data.phone /\ Due(bookings[r])
                         THEN [bookings[r] EXCEPT !.status = "expired", !.changes = @ + 1]
                         ELSE bookings[r]]
    <3>1. bookings' = Append(old, NewBooking(q))
      BY <1>2 DEF Book
    <3>2. old = [r \in 1 .. Len(bookings) |-> old[r]]
      BY DEF Rows
    <3>3. \A r \in 1 .. Len(bookings) : old[r] \in {old[s] : s \in 1 .. Len(bookings)}
      OBVIOUS
    <3> DEFINE S == {old[s] : s \in 1 .. Len(bookings)} \cup {NewBooking(q)}
    <3>4. old \in [1 .. Len(bookings) -> S]
      BY <3>2
    <3> HIDE DEF old
    <3>5. old \in Seq(S)
      BY <1>0, <3>4, SeqDef
    <3>6. NewBooking(q) \in S
      OBVIOUS
    <3> HIDE DEF S
    <3>7. Len(old) = Len(bookings)
      BY <1>0, <3>4, <3>5, LenProperties
    <3> QED
      BY <3>1, <3>5, <3>6, <3>7, AppendProperties
  <2>5. Answered(q, c)
    BY <1>2 DEF Book
  <2> HIDE DEF c
  <2>6. c.reference \in 1 .. Len(bookings')
    BY <1>0, <2>3, <2>4
  <2> QED
    BY <2>3, <2>5, <2>6
<1>3. CASE Refuse(q)
  BY <1>3 DEF Refuse
<1> QED
  BY <1>1, <1>2, <1>3 DEF PublicCreateBooking

-----------------------------------------------------------------------------
\* The wizard, its requests and the consent.

WizardPart ==
  /\ checkout \in {None} \cup WizardType
  /\ checkout # None =>
       /\ catalog \in {"cash", "bank"}
       /\ Len(checkout.people) <= checkout.seats
       /\ checkout.busy # None => checkout.step = 2 /\ \E q \in requests : Waiting(q)
       /\ checkout.confirmation # None <=> checkout.step = 3
  /\ requests \subseteq RequestType
  /\ \A q \in requests : q.reply # None => Waiting(q)
  /\ OneId(requests)
  /\ ConsentIsCurrent
  /\ ConsentCoversDetails

\* It is part of the invariant.
LEMMA WizardPartHolds == CheckoutInvariant => WizardPart
  BY DEF CheckoutInvariant, TypeOK, WizardPart, OneId

\* The wizard goes: so does its request, and an answer that came.
LEMMA WizardGoes ==
  ASSUME CheckoutInvariant, checkout' = None, requests' \subseteq requests,
         \A q \in requests' : q.reply = None
  PROVE  WizardPart'
  BY WizardPartHolds DEF WizardPart, OneId, ConsentIsCurrent, ConsentCoversDetails

\* A wizard opens. Nothing is being sent for it yet.
LEMMA WizardOpens ==
  ASSUME CheckoutInvariant, checkout = None, UNCHANGED requests,
         NEW c \in WizardType, checkout' = c, catalog' \in {"cash", "bank"},
         Len(c.people) <= c.seats, c.busy = None, ~c.consent,
         c.confirmation # None <=> c.step = 3
  PROVE  WizardPart'
<1>1. \A q \in requests : q.reply = None
  BY NoAnswer DEF CheckoutInvariant
<1> QED
  BY <1>1, WizardPartHolds DEF WizardPart, OneId, ConsentIsCurrent, ConsentCoversDetails

\* The wizard goes on without its request.
LEMMA WizardGoesOn ==
  ASSUME CheckoutInvariant, checkout # None, NEW c \in WizardType, checkout' = c,
         UNCHANGED <<requests, catalog>>,
         Len(c.people) <= c.seats, c.busy = checkout.busy,
         c.step = checkout.step \/ checkout.busy = None,
         c.confirmation # None <=> c.step = 3,
         c.consent => c.step # 1 /\ c.agreed = Data(c)
  PROVE  WizardPart'
<1>1. \A q \in requests : Waiting(q)' <=> Waiting(q)
  BY Constants DEF Waiting
<1>2. c # None
  BY Constants
<1> QED
  BY <1>1, <1>2, WizardPartHolds DEF WizardPart, OneId, ConsentIsCurrent,
     ConsentCoversDetails, Waiting

\* The wizard of an offer, and the one that shows a stored receipt.
LEMMA OpenStep ==
  ASSUME CheckoutInvariant,
         (\E m \in {"cash", "bank"} : LoadCatalog(m))
           \/ (\E t \in Trips, p \in Prices : SelectTrip([trip |-> t, price |-> p]))
  PROVE  WizardPart'
<1>0. TypeOK /\ \A s \in SeatChoices : s \in Nat /\ 1 <= s
  BY Constants DEF CheckoutInvariant
<1>1. Len(<<None>>) = 1
  OBVIOUS
<1>2. ASSUME NEW m \in {"cash", "bank"}, LoadCatalog(m) PROVE WizardPart'
  <2> DEFINE saved == RestorePublicCheckout(receipt)
  <2>1. checkout = None /\ catalog' = m /\ UNCHANGED requests
    BY <1>0, <1>2 DEF LoadCatalog, TypeOK
  <2>2. CASE saved = None
    <3>1. checkout' = None
      BY <1>2, <2>1, <2>2 DEF LoadCatalog
    <3>2. \A q \in requests : q.reply = None
      BY <1>0, <2>1, NoAnswer
    <3> QED
      BY <2>1, <3>1, <3>2, WizardGoes
  <2>3. CASE saved # None
    <3> DEFINE c == RestoredWizard(saved)
    <3>1. saved \in ReceiptType
      BY <1>0, <2>3 DEF RestorePublicCheckout, TypeOK
    <3>2. saved.confirmation \in ConfirmationType /\ saved.confirmation.seats \in SeatChoices
      BY <3>1 DEF ReceiptType, ConfirmationType
    <3>3. /\ c \in WizardType /\ c.busy = None /\ c.confirmation = saved.confirmation
          /\ c.step = 3 /\ c.consent = FALSE /\ c.people = <<None>>
          /\ c.seats = saved.confirmation.seats
      BY <1>0, <3>1, NewReceipt
    <3>4. checkout' = c
      BY <1>2, <2>3 DEF LoadCatalog
    <3> HIDE DEF c
    <3>5. c.confirmation # None
      BY <3>2, <3>3, Constants
    <3>6. Len(c.people) <= c.seats
      BY <1>0, <1>1, <3>2, <3>3
    <3> QED
      BY <2>1, <3>3, <3>4, <3>5, <3>6, WizardOpens
  <2> QED
    BY <2>2, <2>3
<1>3. ASSUME NEW t \in Trips, NEW p \in Prices, SelectTrip([trip |-> t, price |-> p])
      PROVE  WizardPart'
  <2> DEFINE o == [trip |-> t, price |-> p]
             c == Wizard(o, result.criteria.seats)
  <2>1. /\ checkout = None /\ catalog \in {"cash", "bank"} /\ result # None
        /\ checkout' = c /\ UNCHANGED <<requests, catalog>>
    BY <1>3 DEF SelectTrip, Searchable
  <2>2. o \in OfferType /\ result.criteria.seats \in SeatChoices
    BY <1>0, <2>1 DEF TypeOK, OfferType, CriteriaType
  <2>3. /\ c \in WizardType /\ c.busy = None /\ c.confirmation = None /\ c.step = 1
        /\ c.consent = FALSE /\ c.people = <<None>> /\ c.seats = result.criteria.seats
    BY ZenonT(60), <1>0, <2>2, NewWizard
  <2> HIDE DEF c
  <2>4. Len(c.people) <= c.seats
    BY <1>0, <1>1, <2>2, <2>3
  <2>5. /\ UNCHANGED requests /\ catalog' \in {"cash", "bank"}
        /\ ~c.consent /\ (c.confirmation # None <=> c.step = 3)
    BY <2>1, <2>3
  <2> QED
    BY <2>1, <2>3, <2>4, <2>5, WizardOpens
<1> QED
  BY <1>2, <1>3

\* Step 1, the tick, and the way back to step 1, which takes the tick away.
LEMMA EditStep ==
  ASSUME CheckoutInvariant, Details \/ ToggleConsent \/ BackToDetails
  PROVE  /\ WizardPart'
         /\ checkout # None /\ checkout' # None
         /\ \E c : /\ Edit(c) /\ Kept(c) /\ c.step \in {1, 2}
                   /\ c.busy = checkout.busy /\ c.confirmation = checkout.confirmation
         /\ checkout.step \in {1, 2}
<1>0. TypeOK /\ WizardPart /\ ConsentIsCurrent
  BY WizardPartHolds DEF CheckoutInvariant
<1>1. ASSUME checkout # None, checkout.step \in {1, 2}, NEW c, Edit(c), Kept(c),
             c.step \in {1, 2}, c.step = checkout.step \/ checkout.busy = None,
             c.busy = checkout.busy, c.confirmation = checkout.confirmation,
             c.consent => c.step # 1 /\ c.agreed = Data(c)
      PROVE  WizardPart' /\ checkout' # None
  <2>1. c \in WizardType /\ Len(c.people) <= c.seats
    BY <1>1 DEF Kept
  <2>2. checkout' = c /\ UNCHANGED <<requests, catalog>>
    BY <1>1 DEF Edit
  <2>3. c.confirmation # None <=> c.step = 3
    BY <1>0, <1>1 DEF WizardPart
  <2>4. c # None
    BY <2>1, Constants
  <2> QED
    BY <1>1, <2>1, <2>2, <2>3, <2>4, WizardGoesOn
<1>2. CASE Details
  <2>1. PICK c : Edit(c) /\ Detailed(c)
    BY <1>0, <1>2, DetailsStep
  <2>2. checkout # None /\ checkout.step = 1
    BY <1>0, <1>2, DetailsStep
  <2>3. checkout.busy = None
    BY <1>0, <2>2 DEF WizardPart
  <2>4. ~checkout.consent
    BY <1>0, <2>2 DEF ConsentIsCurrent
  <2>5. ~c.consent /\ Kept(c) /\ c.step \in {1, 2} /\ c.busy = checkout.busy
        /\ c.confirmation = checkout.confirmation
    BY <2>1, <2>4 DEF Detailed
  <2> QED
    BY <1>1, <2>1, <2>2, <2>3, <2>5
<1> DEFINE k == checkout
<1>3. k # None => k \in WizardType /\ Len(k.people) <= k.seats
  BY <1>0 DEF WizardPart
<1>4. CASE ToggleConsent
  <2>1. k # None /\ k.step = 2
    BY <1>4 DEF ToggleConsent, Open
  <2> DEFINE a == IF k.consent THEN k.agreed ELSE Data(k)
             c1 == [k EXCEPT !.consent = ~k.consent]
             c == [c1 EXCEPT !.agreed = a]
  <2>2. Edit(c)
    BY <1>4 DEF ToggleConsent
  <2>3. a \in DataType \cup {None}
    <3>1. Data(k) \in DataType /\ k.agreed \in DataType \cup {None}
      BY <1>0, <2>1, WizardFields DEF WizardType
    <3> QED
      BY <3>1
  <2>4. c1 \in WizardType
    <3>1. (~k.consent) \in BOOLEAN
      OBVIOUS
    <3> QED
      BY <1>3, <2>1, <3>1, WizardExcept
  <2> DEFINE d == Data(k)
  <2>5. /\ c1.people = k.people /\ c1.seats = k.seats /\ c1.visit = k.visit
        /\ c1.turn = k.turn /\ c1.request = k.request /\ c1.step = k.step
        /\ c1.busy = k.busy /\ c1.confirmation = k.confirmation
        /\ c1.consent = ~k.consent /\ Data(c1) = Data(k)
    BY <1>3, <2>1 DEF WizardType, Data
  <2>6. a = d \/ k.consent
    OBVIOUS
  <2> HIDE DEF a, c1, d
  <2>7. c \in WizardType
    BY <2>3, <2>4, WizardExcept
  <2>8. /\ c.people = k.people /\ c.seats = k.seats /\ c.visit = k.visit
        /\ c.turn = k.turn /\ c.request = k.request /\ c.step = k.step
        /\ c.busy = k.busy /\ c.confirmation = k.confirmation
        /\ c.consent = ~k.consent /\ c.agreed = a
    BY <2>4, <2>5 DEF WizardType
  <2>9. Data(c) = Data(k)
    <3>1. Data(c) = Data(c1)
      BY <2>4 DEF WizardType, Data
    <3> QED
      BY <2>5, <3>1
  <2> HIDE DEF c
  <2>10. Kept(c)
    BY <1>3, <2>1, <2>7, <2>8 DEF Kept
  <2>11. c.consent => c.agreed = Data(c)
    BY <2>6, <2>8, <2>9 DEF d
  <2>12. c.step = 2
    BY <2>1, <2>8
  <2> QED
    BY <1>1, <2>1, <2>2, <2>8, <2>10, <2>11, <2>12
<1>5. CASE BackToDetails
  <2>1. k # None /\ k.step = 2 /\ k.busy = None
    BY <1>5 DEF BackToDetails, Open
  <2> DEFINE c1 == [k EXCEPT !.step = 1]
             c == [c1 EXCEPT !.consent = FALSE]
  <2>2. Edit(c)
    BY <1>5 DEF BackToDetails
  <2>3. c1 \in WizardType
    <3>1. 1 \in 1 .. 3
      OBVIOUS
    <3> QED
      BY <1>3, <2>1, <3>1, WizardExcept, Zenon
  <2>4. c \in WizardType
    BY <2>3, WizardExcept
  <2>5. /\ c.people = k.people /\ c.seats = k.seats /\ c.visit = k.visit
        /\ c.turn = k.turn /\ c.request = k.request /\ c.step = 1
        /\ c.busy = k.busy /\ c.confirmation = k.confirmation /\ c.consent = FALSE
    BY <1>3, <2>1 DEF WizardType
  <2> HIDE DEF c
  <2>6. Kept(c)
    BY <1>3, <2>1, <2>4, <2>5 DEF Kept
  <2> QED
    BY <1>1, <2>1, <2>2, <2>5, <2>6
<1> QED
  BY <1>2, <1>4, <1>5

\* A request leaves the page under a number of its own: with the last key and in the
\* same turn when the details are the last ones, with a new key in a new turn otherwise.
Submits ==
  \E key \in Nat, turn \in Nat, c \in WizardType, q \in RequestType :
    /\ key = RequestKey(checkout)
    /\ turn = IF Repeated(checkout) THEN checkout.turn ELSE checkout.turn + 1
    /\ checkout' = c /\ requests' = requests \cup {q} /\ sent' = sent + 1
    /\ c.visit = checkout.visit /\ c.turn = turn /\ c.busy = sent + 1
    /\ c.request = [data |-> Data(checkout), key |-> key]
    /\ c.step = 2 /\ c.confirmation = checkout.confirmation
    /\ q.id = sent + 1 /\ q.visit = checkout.visit /\ q.turn = turn
    /\ q.key = key /\ q.reply = None

\* The step that submits.
LEMMA SubmitStep ==
  ASSUME CheckoutInvariant, Submit
  PROVE  WizardPart' /\ checkout # None /\ checkout.step = 2 /\ Submits
<1> DEFINE k == checkout
           key == RequestKey(k)
           turn == IF Repeated(k) THEN k.turn ELSE k.turn + 1
           c1 == [k EXCEPT !.busy = sent + 1]
           c2 == [c1 EXCEPT !.turn = turn]
           c == [c2 EXCEPT !.request = [data |-> Data(k), key |-> key]]
           q == [id |-> sent + 1, visit |-> k.visit, turn |-> turn, key |-> key,
                 data |-> Data(k), reply |-> None, agreed |-> k.agreed]
<1>1. /\ checkout # None /\ k.step = 2 /\ k.consent /\ k.busy = None /\ sent' = sent + 1
      /\ requests' = requests \cup {q} /\ catalog' = catalog
  BY DEF Submit, Open
<1>2. checkout' = c
  BY DEF Submit
<1>3. TypeOK /\ WizardPart /\ Counted /\ ConsentIsCurrent
  BY WizardPartHolds DEF CheckoutInvariant
<1>4. /\ k \in WizardType /\ k.visit \in Nat /\ k.turn \in Nat /\ sent + 1 \in Nat
      /\ Data(k) \in DataType /\ k.agreed = Data(k) /\ sent \in Nat
      /\ Len(k.people) <= k.seats
  BY <1>1, <1>3, WizardFields, Counters DEF ConsentIsCurrent, WizardPart
<1>5. key \in Nat /\ turn \in Nat
  <2>1. k.request # None => k.request.key \in Nat
    BY <1>4 DEF WizardType
  <2> QED
    BY <1>4, <2>1 DEF RequestKey, Repeated
<1>6. [data |-> Data(k), key |-> key] \in [data : DataType, key : Nat]
  BY <1>4, <1>5
<1> DEFINE r == [data |-> Data(k), key |-> key]
<1>7. q \in RequestType
  <2>1. None \in {None, Refusal} \cup ConfirmationType
    OBVIOUS
  <2> HIDE DEF key, turn
  <2> QED
    BY <1>4, <1>5, <2>1 DEF RequestType
<1>8. /\ q.id = sent + 1 /\ q.visit = k.visit /\ q.turn = turn /\ q.key = key
      /\ q.reply = None /\ q.agreed = q.data
  BY <1>4
<1>9. c1 \in WizardType
  BY <1>4, WizardExcept
<1>10. c1.people = k.people /\ c1.seats = k.seats /\ c1.visit = k.visit /\ c1.step = 2
       /\ c1.busy = sent + 1 /\ c1.confirmation = k.confirmation /\ c1.consent = k.consent
       /\ c1.agreed = k.agreed /\ Data(c1) = Data(k)
  BY <1>1, <1>4 DEF WizardType, Data
<1> HIDE DEF c1, key, turn, q, r
<1>11. c2 \in WizardType
  BY <1>5, <1>9, WizardExcept
<1>12. c2.people = c1.people /\ c2.seats = c1.seats /\ c2.visit = c1.visit /\ c2.step = c1.step
       /\ c2.busy = c1.busy /\ c2.confirmation = c1.confirmation /\ c2.consent = c1.consent
       /\ c2.agreed = c1.agreed /\ Data(c2) = Data(c1) /\ c2.turn = turn
  BY <1>9 DEF WizardType, Data
<1> HIDE DEF c2
<1>13. c \in WizardType
  BY <1>6, <1>11, WizardExcept
<1>14. c.people = c2.people /\ c.seats = c2.seats /\ c.visit = c2.visit /\ c.step = c2.step
       /\ c.busy = c2.busy /\ c.confirmation = c2.confirmation /\ c.consent = c2.consent
       /\ c.agreed = c2.agreed /\ Data(c) = Data(c2) /\ c.turn = c2.turn
       /\ c.request = [data |-> Data(k), key |-> key]
  BY <1>11 DEF WizardType, Data
<1> HIDE DEF c
<1>15. \A p \in requests : p.id \in Nat /\ p.id # sent + 1 /\ p.reply = None
  <2>1. \A p \in requests : p.reply = None
    BY <1>1, <1>3, NoAnswer
  <2>2. \A p \in requests : p.id \in Nat /\ p.id <= sent
    BY <1>3 DEF Counted, TypeOK, RequestType
  <2> QED
    BY <1>4, <2>1, <2>2
<1>16. WizardPart'
  <2>1. c # None /\ c.busy = sent + 1 /\ c.step = 2 /\ c.confirmation = None
        /\ Len(c.people) <= c.seats /\ c.agreed = Data(c)
    BY <1>1, <1>3, <1>4, <1>10, <1>12, <1>13, <1>14, Constants DEF WizardPart
  <2>2. q \in requests' /\ checkout' # None /\ checkout'.busy = q.id
    BY <1>1, <1>2, <1>8, <2>1
  <2>3. requests' \subseteq RequestType /\ OneId(requests') /\ ConsentCoversDetails'
        /\ \A p \in requests' : p.reply = None
    BY <1>1, <1>3, <1>7, <1>8, <1>15 DEF WizardPart, OneId, ConsentCoversDetails
  <2>4. catalog' \in {"cash", "bank"}
    BY <1>1, <1>3 DEF WizardPart
  <2>5. \E p \in requests' : checkout' # None /\ checkout'.busy = p.id
    BY <2>2
  <2>6. ConsentIsCurrent'
    BY <1>2, <2>1 DEF ConsentIsCurrent
  <2> QED
    BY <1>2, <1>13, <2>1, <2>3, <2>4, <2>5, <2>6 DEF WizardPart, Waiting, OneId
<1> QED
  <2>1. c.visit = k.visit /\ c.turn = turn /\ c.busy = sent + 1 /\ c.step = 2
        /\ c.confirmation = k.confirmation
    BY <1>10, <1>12, <1>14
  <2> QED
    BY <1>1, <1>2, <1>5, <1>7, <1>8, <1>13, <1>14, <1>16, <2>1 DEF key, turn, Submits

\* The page waits for one request at a time: no other has an answer.
LEMMA OneWaitedFor ==
  ASSUME CheckoutInvariant, NEW q \in requests, Waiting(q)
  PROVE  /\ checkout # None /\ checkout.step = 2
         /\ checkout \in WizardType /\ Len(checkout.people) <= checkout.seats
         /\ \A p \in requests : p # q => p.reply = None
<1>1. checkout # None /\ checkout.busy = q.id /\ q.id \in Nat /\ WizardPart
  BY WizardPartHolds DEF Waiting, WizardPart, RequestType
<1> QED
  BY <1>1, Constants DEF WizardPart, Waiting, OneId

\* The answer is a booking: the receipt is shown.
LEMMA ConfirmStep ==
  ASSUME CheckoutInvariant, NEW q \in requests, Confirmed(q)
  PROVE  /\ WizardPart'
         /\ checkout # None /\ checkout.step = 2
         /\ q.reply \in ConfirmationType /\ q.reply # Refusal
         /\ requests' \subseteq requests
         /\ \E c : /\ checkout' = c /\ Kept(c) /\ receipt' = Saved(c)
                   /\ c.busy = None /\ c.step = 3 /\ c.confirmation = q.reply
<1> DEFINE k == checkout
           c1 == [k EXCEPT !.busy = None]
           c2 == [c1 EXCEPT !.step = 3]
           c3 == [c2 EXCEPT !.confirmation = q.reply]
           c == [c3 EXCEPT !.checkedAt = now]
<1>1. /\ Waiting(q) /\ q.reply \notin {None, Refusal}
      /\ checkout' = c /\ receipt' = Saved(c) /\ requests' = requests \ {q}
      /\ catalog' = catalog
  BY DEF Confirmed
<1>2. WizardPart /\ TypeOK /\ now \in Nat
  BY WizardPartHolds, Counters DEF CheckoutInvariant
<1>3. /\ k # None /\ k.step = 2 /\ k \in WizardType /\ Len(k.people) <= k.seats
      /\ \A p \in requests : p # q => p.reply = None
  BY <1>1, OneWaitedFor
<1>4. q.reply \in ConfirmationType
  BY <1>1, <1>2 DEF WizardPart, RequestType
<1>5. c1 \in WizardType /\ Kept(c1) /\ c1.busy = None
      /\ c1.consent = k.consent /\ c1.agreed = k.agreed /\ Data(c1) = Data(k)
  <2>1. c1 \in WizardType
    BY <1>3, WizardExcept
  <2> QED
    BY <1>3, <2>1 DEF Kept, WizardType, Data
<1> HIDE DEF c1
<1>6. c2 \in WizardType /\ Kept(c2) /\ c2.busy = None /\ c2.step = 3
      /\ c2.consent = k.consent /\ c2.agreed = k.agreed /\ Data(c2) = Data(k)
  <2>1. 3 \in 1 .. 3
    OBVIOUS
  <2>2. c2 \in WizardType
    BY <1>5, <2>1, WizardExcept, Zenon
  <2> QED
    BY <1>5, <2>2 DEF Kept, WizardType, Data
<1> HIDE DEF c2
<1>7. c3 \in WizardType /\ Kept(c3) /\ c3.busy = None /\ c3.step = 3
      /\ c3.confirmation = q.reply
      /\ c3.consent = k.consent /\ c3.agreed = k.agreed /\ Data(c3) = Data(k)
  <2>1. c3 \in WizardType
    BY <1>4, <1>6, WizardExcept
  <2> QED
    BY <1>6, <2>1 DEF Kept, WizardType, Data
<1> HIDE DEF c3
<1>8. c \in WizardType /\ Kept(c) /\ c.busy = None /\ c.step = 3
      /\ c.confirmation = q.reply
      /\ c.consent = k.consent /\ c.agreed = k.agreed /\ Data(c) = Data(k)
  <2>1. c \in WizardType
    BY <1>2, <1>7, WizardExcept
  <2> QED
    BY <1>7, <2>1 DEF Kept, WizardType, Data
<1> HIDE DEF c
<1>9. WizardPart'
  <2>1. c.consent => c.agreed = Data(c)
    BY <1>2, <1>3, <1>8 DEF WizardPart, ConsentIsCurrent
  <2>2. c # None /\ c.confirmation # None
    BY <1>4, <1>8, Constants
  <2>3. \A p \in requests' : p.reply = None
    BY <1>1, <1>3
  <2>4. ConsentIsCurrent'
    BY <1>1, <1>8, <2>1 DEF ConsentIsCurrent
  <2>5. catalog' \in {"cash", "bank"} /\ Len(c.people) <= c.seats
    BY <1>1, <1>2, <1>3, <1>8 DEF WizardPart, Kept
  <2>6. requests' \subseteq RequestType /\ OneId(requests') /\ ConsentCoversDetails'
    BY <1>1, <1>2 DEF WizardPart, OneId, ConsentCoversDetails
  <2> QED
    BY <1>1, <1>8, <2>2, <2>3, <2>4, <2>5, <2>6 DEF WizardPart, OneId
<1> QED
  BY <1>1, <1>3, <1>4, <1>8, <1>9

\* An error on the screen: the request is done with, or goes on without the page.
LEMMA FailStep ==
  ASSUME CheckoutInvariant, NEW q \in requests, SubmitFails(q)
  PROVE  /\ WizardPart'
         /\ checkout # None /\ checkout.step = 2
         /\ requests' \subseteq requests
         /\ \E c : /\ checkout' = c /\ Kept(c) /\ c.busy = None /\ c.step = 2
                   /\ c.confirmation = checkout.confirmation
<1> DEFINE k == checkout
           c == [k EXCEPT !.busy = None]
<1>1. /\ Waiting(q) /\ checkout' = c /\ catalog' = catalog
      /\ \/ requests' = requests \ {q}
         \/ q.reply = None /\ requests' = requests
  BY DEF SubmitFails
<1>2. WizardPart /\ TypeOK
  BY WizardPartHolds DEF CheckoutInvariant
<1>3. /\ k # None /\ k.step = 2 /\ k \in WizardType /\ Len(k.people) <= k.seats
      /\ \A p \in requests : p # q => p.reply = None
  BY <1>1, OneWaitedFor
<1>4. c \in WizardType /\ Kept(c) /\ c.busy = None /\ c.step = 2
      /\ c.confirmation = k.confirmation
      /\ c.consent = k.consent /\ c.agreed = k.agreed /\ Data(c) = Data(k)
  <2>1. c \in WizardType
    BY <1>3, WizardExcept
  <2> QED
    BY <1>3, <2>1 DEF Kept, WizardType, Data
<1> HIDE DEF c
<1>5. \A p \in requests' : p.reply = None
  BY <1>1, <1>3
<1>6. c # None /\ c.confirmation = None /\ Len(c.people) <= c.seats
  BY <1>2, <1>3, <1>4, Constants DEF WizardPart, Kept
<1>7. requests' \subseteq requests
  BY <1>1
<1>8. ConsentIsCurrent'
  BY <1>1, <1>2, <1>3, <1>4 DEF WizardPart, ConsentIsCurrent
<1>9. requests' \subseteq RequestType /\ OneId(requests') /\ ConsentCoversDetails'
      /\ catalog' \in {"cash", "bank"}
  BY <1>1, <1>2, <1>3, <1>7 DEF WizardPart, OneId, ConsentCoversDetails
<1>10. WizardPart'
  BY <1>1, <1>4, <1>5, <1>6, <1>8, <1>9 DEF WizardPart, OneId
<1> QED
  BY <1>1, <1>3, <1>4, <1>7, <1>10

\* A check of the payment starts.
LEMMA CheckStep ==
  ASSUME CheckoutInvariant, CheckPayment
  PROVE  /\ WizardPart'
         /\ checkout # None /\ checkout.step = 3 /\ checkout.busy = None
         /\ checkout.confirmation.payment = "pending"
         /\ \E c : /\ checkout' = c /\ Kept(c) /\ c.busy = None /\ c.step = 3
                   /\ c.confirmation = checkout.confirmation
<1> DEFINE k == checkout
           c == [k EXCEPT !.checkedAt = now]
<1>1. /\ k # None /\ k.step = 3 /\ k.confirmation.payment = "pending" /\ checkout' = c
      /\ UNCHANGED <<requests, catalog>>
  BY DEF CheckPayment, Polling, Open
<1>2. WizardPart /\ TypeOK /\ now \in Nat
  BY WizardPartHolds, Counters DEF CheckoutInvariant
<1>3. k \in WizardType /\ Len(k.people) <= k.seats /\ k.busy = None /\ k.confirmation # None
  BY <1>1, <1>2 DEF WizardPart
<1>4. c \in WizardType /\ Kept(c) /\ c.busy = None /\ c.step = 3
      /\ c.confirmation = k.confirmation
      /\ c.consent = k.consent /\ c.agreed = k.agreed /\ Data(c) = Data(k)
  <2>1. c \in WizardType
    BY <1>2, <1>3, WizardExcept
  <2> QED
    BY <1>1, <1>3, <2>1 DEF Kept, WizardType, Data
<1> HIDE DEF c
<1>5. c.consent => c.step # 1 /\ c.agreed = Data(c)
  BY <1>1, <1>2, <1>4 DEF WizardPart, ConsentIsCurrent
<1>6. Len(c.people) <= c.seats /\ c.busy = checkout.busy /\ c.step = checkout.step
      /\ (c.confirmation # None <=> c.step = 3)
  BY <1>1, <1>3, <1>4 DEF Kept
<1>7. WizardPart'
  BY <1>1, <1>4, <1>5, <1>6, WizardGoesOn
<1> QED
  BY <1>1, <1>3, <1>4, <1>7

\* An answer is shown: the confirmation follows the row.
LEMMA ShowStep ==
  ASSUME CheckoutInvariant, NEW a \in polls, ShowStatus(a)
  PROVE  /\ WizardPart'
         /\ checkout # None /\ checkout.step = 3 /\ a \in StatusType
         /\ \E c : /\ checkout' = c /\ Kept(c) /\ receipt' = Saved(c)
                   /\ c.busy = None /\ c.step = 3
                   /\ c.confirmation \in ConfirmationType
                   /\ c.confirmation.reference = checkout.confirmation.reference
                   /\ c.confirmation.payment = a.payment
<1> DEFINE k == checkout
           d == k.confirmation
           e == [d EXCEPT !.status = a.status, !.payment = a.payment, !.seen = a.seen]
           c == [k EXCEPT !.confirmation = e]
<1>1. WizardPart /\ TypeOK
  BY WizardPartHolds DEF CheckoutInvariant
<1>2. a \in StatusType /\ k # None /\ k.step = 3
  BY <1>1 DEF ShowStatus, TypeOK, Polling, Open
<1>3. k \in WizardType /\ Len(k.people) <= k.seats /\ k.busy = None
      /\ k.confirmation \in ConfirmationType
  BY <1>1, <1>2 DEF WizardPart, WizardType
<1>4. checkout' = c /\ receipt' = Saved(c) /\ UNCHANGED <<requests, catalog>>
  <2>1. checkout' = [checkout EXCEPT !.confirmation.status = a.status,
                                     !.confirmation.payment = a.payment,
                                     !.confirmation.seen = a.seen]
        /\ receipt' = Saved(checkout') /\ UNCHANGED <<requests, catalog>>
    BY DEF ShowStatus, Saved
  <2>2. [checkout EXCEPT !.confirmation.status = a.status,
                         !.confirmation.payment = a.payment,
                         !.confirmation.seen = a.seen] = c
    BY <1>3 DEF WizardType, ConfirmationType
  <2> QED
    BY <2>1, <2>2
<1>5. e \in ConfirmationType /\ e.reference = d.reference /\ e.payment = a.payment
  BY <1>2, <1>3 DEF ConfirmationType, StatusType
<1> HIDE DEF e
<1>6. c \in WizardType /\ Kept(c) /\ c.busy = None /\ c.step = 3 /\ c.confirmation = e
      /\ c.consent = k.consent /\ c.agreed = k.agreed /\ Data(c) = Data(k)
  <2>1. c \in WizardType
    BY <1>3, <1>5, WizardExcept
  <2> QED
    BY <1>2, <1>3, <2>1 DEF Kept, WizardType, Data
<1> HIDE DEF c
<1>7. c.consent => c.step # 1 /\ c.agreed = Data(c)
  BY <1>1, <1>2, <1>6 DEF WizardPart, ConsentIsCurrent
<1>8. Len(c.people) <= c.seats /\ c.busy = checkout.busy /\ c.step = checkout.step
      /\ (c.confirmation # None <=> c.step = 3)
  BY <1>2, <1>3, <1>5, <1>6, Constants DEF Kept
<1>9. WizardPart'
  BY <1>2, <1>4, <1>6, <1>7, <1>8, WizardGoesOn
<1> QED
  BY <1>2, <1>4, <1>5, <1>6, <1>9

\* The wizard is left, or the page is.
LEMMA CloseStep ==
  ASSUME CheckoutInvariant, ReturnToSearch \/ LeavePage
  PROVE  WizardPart' /\ checkout' = None /\ requests' \subseteq requests
<1>1. TypeOK
  BY DEF CheckoutInvariant
<1>2. CASE ReturnToSearch
  <2>1. checkout' = None /\ requests' = requests /\ checkout.busy = None
    BY <1>2 DEF ReturnToSearch
  <2>2. \A q \in requests : q.reply = None
    BY <1>1, <2>1, NoAnswer
  <2> QED
    BY <2>1, <2>2, WizardGoes
<1>3. CASE LeavePage
  BY <1>3, WizardGoes DEF LeavePage
<1> QED
  BY <1>2, <1>3

\* The API answers.
LEMMA AnswerStep ==
  ASSUME CheckoutInvariant, NEW q \in requests, PublicCreateBooking(q)
  PROVE  WizardPart' /\ RequestsGoOn
<1>0. WizardPart /\ TypeOK /\ UNCHANGED <<checkout, catalog>>
  BY WizardPartHolds DEF CheckoutInvariant, PublicCreateBooking, client
<1>1. PICK a \in {Refusal} \cup ConfirmationType : Answered(q, a)
  BY <1>0, CreateStep
<1>2. /\ RequestsGoOn
      /\ \A p \in requests' : p.reply # None => checkout' # None /\ checkout'.busy = p.id
      /\ Waiting(q) => \E p \in requests' : p.id = q.id
      /\ \A p \in requests : p # q => p \in requests'
  BY <1>0, <1>1, AnsweredStep
<1>3. ConsentCoversDetails' /\ ConsentIsCurrent'
  BY <1>0, <1>2 DEF WizardPart, RequestsGoOn, Follows, ConsentCoversDetails, ConsentIsCurrent,
     Data
<1>4. ASSUME checkout # None, checkout.busy # None
      PROVE  \E p \in requests' : checkout' # None /\ checkout'.busy = p.id
  <2>1. PICK p \in requests : Waiting(p)
    BY <1>0, <1>4 DEF WizardPart
  <2>2. \E s \in requests' : s.id = p.id
    BY <1>2, <2>1
  <2> QED
    BY <1>0, <1>4, <2>1, <2>2 DEF Waiting
<1> QED
  BY <1>0, <1>2, <1>3, <1>4 DEF WizardPart, RequestsGoOn, Waiting

\* Steps that leave the wizard and its requests alone, and stay on the page.
LEMMA QuietStep ==
  ASSUME CheckoutInvariant, UNCHANGED <<checkout, requests>>,
         catalog' = catalog \/ catalog \in {"loading", "failed"}
  PROVE  WizardPart'
  BY WizardPartHolds DEF WizardPart, OneId, Waiting, ConsentIsCurrent, ConsentCoversDetails,
     Data

\* The wizard opens, stays, or is gone; or it sends a request.
Opens ==
  /\ checkout = None /\ checkout' # None
  /\ checkout'.visit = visits + 1 /\ checkout'.turn = 0 /\ checkout'.request = None
  /\ checkout'.busy = None
  /\ visits' = visits + 1 /\ UNCHANGED <<requests, sent>>

Stays ==
  /\ checkout # None => checkout' = None \/ (checkout' # None /\ Kept(checkout'))
  /\ checkout = None => checkout' = None
  /\ RequestsGoOn /\ UNCHANGED <<sent, visits>>

\* What opens it.
LEMMA OpenMoves ==
  ASSUME CheckoutInvariant,
         (\E m \in {"cash", "bank"} : LoadCatalog(m))
           \/ (\E t \in Trips, p \in Prices : SelectTrip([trip |-> t, price |-> p]))
  PROVE  Opens \/ Stays
<1>0. TypeOK
  BY DEF CheckoutInvariant
<1>1. ASSUME NEW m \in {"cash", "bank"}, LoadCatalog(m) PROVE Opens \/ Stays
  <2> DEFINE saved == RestorePublicCheckout(receipt)
  <2>1. checkout = None /\ UNCHANGED <<requests, sent>>
    BY <1>0, <1>1 DEF LoadCatalog, TypeOK
  <2>2. CASE saved = None
    <3>1. checkout' = None /\ visits' = visits
      BY <1>1, <2>1, <2>2 DEF LoadCatalog
    <3>2. RequestsGoOn
      BY <1>0, <2>1, RequestsEnd
    <3> QED
      BY <2>1, <3>1, <3>2 DEF Stays
  <2>3. CASE saved # None
    <3>1. saved \in ReceiptType
      BY <1>0, <2>3 DEF RestorePublicCheckout, TypeOK
    <3> DEFINE c == RestoredWizard(saved)
    <3>2. /\ c \in WizardType /\ c.visit = visits + 1 /\ c.turn = 0 /\ c.request = None
          /\ c.busy = None
      BY <1>0, <3>1, NewReceipt
    <3>3. checkout' = c /\ visits' = visits + 1
      BY <1>1, <2>3 DEF LoadCatalog
    <3> HIDE DEF c
    <3> QED
      BY <2>1, <3>2, <3>3, Constants DEF Opens
  <2> QED
    BY <2>2, <2>3
<1>2. ASSUME NEW t \in Trips, NEW p \in Prices, SelectTrip([trip |-> t, price |-> p])
      PROVE  Opens
  <2> DEFINE o == [trip |-> t, price |-> p]
             c == Wizard(o, result.criteria.seats)
  <2>1. /\ checkout = None /\ result # None /\ checkout' = c /\ visits' = visits + 1
        /\ UNCHANGED <<requests, sent>>
    BY <1>2 DEF SelectTrip, Searchable
  <2>2. o \in OfferType /\ result.criteria.seats \in SeatChoices
    BY <1>0, <2>1 DEF TypeOK, OfferType, CriteriaType
  <2>3. /\ c \in WizardType /\ c.visit = visits + 1 /\ c.turn = 0 /\ c.request = None
        /\ c.busy = None
    BY <1>0, <2>2, NewWizard
  <2> HIDE DEF c
  <2> QED
    BY <2>1, <2>3, Constants DEF Opens
<1> QED
  BY <1>1, <1>2

\* Every step: what it does to the wizard, its consent and its requests.
LEMMA WizardStep ==
  ASSUME CheckoutInvariant, [Next]_vars
  PROVE  WizardPart' /\ (Opens \/ Stays \/ (Submits /\ checkout # None /\ UNCHANGED visits))
<1>0. TypeOK
  BY DEF CheckoutInvariant
<1>1. ASSUME UNCHANGED <<checkout, requests, sent, visits>>,
             catalog' = catalog \/ catalog \in {"loading", "failed"}
      PROVE  WizardPart' /\ Stays
  <2>1. WizardPart'
    BY <1>1, QuietStep
  <2>2. RequestsGoOn
    BY <1>0, <1>1, RequestsEnd
  <2>3. checkout # None => Kept(checkout)
    BY <1>0 DEF Kept, TypeOK
  <2> QED
    BY <1>1, <2>1, <2>2, <2>3 DEF Stays
<1>2. ASSUME checkout # None, NEW c, checkout' = c, Kept(c), requests' \subseteq requests,
             UNCHANGED <<sent, visits>>
      PROVE  Stays
  <2>1. RequestsGoOn
    BY <1>0, <1>2, RequestsEnd
  <2>2. c # None
    BY <1>2, Constants DEF Kept
  <2> QED
    BY <1>2, <2>1, <2>2 DEF Stays
<1>3. CASE SearchPage
  <2>1. CASE ReturnToSearch \/ LeavePage
    <3>1. WizardPart' /\ checkout' = None /\ requests' \subseteq requests
      BY <2>1, CloseStep
    <3>2. RequestsGoOn
      BY <1>0, <3>1, RequestsEnd
    <3>3. UNCHANGED <<sent, visits>>
      BY <2>1 DEF ReturnToSearch, LeavePage
    <3> QED
      BY <3>1, <3>2, <3>3 DEF Stays
  <2>2. CASE CatalogFails \/ RetryCatalog
    BY <1>1, <2>2 DEF CatalogFails, RetryCatalog
  <2>3. CASE Search \/ SearchAnswer \/ SearchFails
    BY <1>1, <2>3 DEF Search, SearchAnswer, SearchFails
  <2>4. ASSUME NEW r \in Routes, NEW n \in SeatChoices, SetCriteria(r, n)
        PROVE  WizardPart' /\ Stays
    BY <1>1, <2>4 DEF SetCriteria
  <2> QED
    BY <1>3, <2>1, <2>2, <2>3, <2>4, OpenStep, OpenMoves DEF SearchPage
<1>4. CASE Details \/ ToggleConsent \/ BackToDetails
  <2>1. WizardPart' /\ checkout # None /\ \E c : Edit(c) /\ Kept(c)
    BY <1>4, EditStep
  <2> QED
    BY <1>2, <2>1 DEF Edit
<1>5. CASE Submit
  BY <1>5, SubmitStep DEF Submit
<1>6. ASSUME NEW q \in requests, Confirmed(q) \/ SubmitFails(q) PROVE WizardPart' /\ Stays
  <2>1. WizardPart' /\ checkout # None /\ requests' \subseteq requests
        /\ \E c : checkout' = c /\ Kept(c)
    BY <1>6, ConfirmStep, FailStep
  <2>2. UNCHANGED <<sent, visits>>
    BY <1>6 DEF Confirmed, SubmitFails
  <2> QED
    BY <1>2, <2>1, <2>2
<1>7. CASE CheckPayment
  BY <1>2, <1>7, CheckStep DEF CheckPayment
<1>8. ASSUME NEW a \in polls, ShowStatus(a) PROVE WizardPart' /\ Stays
  <2>1. WizardPart' /\ checkout # None /\ \E c : checkout' = c /\ Kept(c)
    BY <1>8, ShowStep
  <2>2. UNCHANGED <<requests, sent, visits>>
    BY <1>8 DEF ShowStatus
  <2> QED
    BY <1>2, <2>1, <2>2
<1>9. ASSUME NEW a \in polls, CheckFails(a) PROVE WizardPart' /\ Stays
  BY <1>1, <1>9 DEF CheckFails
<1>10. ASSUME NEW q \in requests, PublicCreateBooking(q) PROVE WizardPart' /\ Stays
  <2>1. WizardPart' /\ RequestsGoOn /\ UNCHANGED <<checkout, sent, visits>>
    BY <1>10, AnswerStep DEF PublicCreateBooking, client
  <2>2. checkout # None => Kept(checkout)
    BY <1>0 DEF Kept, TypeOK
  <2> QED
    BY <2>1, <2>2 DEF Stays
<1>11. CASE PublicPaymentStatus
  BY <1>1, <1>11 DEF PublicPaymentStatus
<1>12. ASSUME NEW r \in Rows, NEW s, NEW p, ChangeBooking(r, s, p) PROVE WizardPart' /\ Stays
  BY <1>1, <1>12 DEF ChangeBooking, client
<1>13. ASSUME NEW t, NEW p, ChangePrice(t, p) PROVE WizardPart' /\ Stays
  BY <1>1, <1>13 DEF ChangePrice, client
<1>14. CASE Tick \/ UNCHANGED vars
  BY <1>1, <1>14 DEF Tick, vars, client
<1>15. CASE Order
  BY <1>4, <1>5, <1>6, <1>15 DEF Order
<1>16. CASE Receipt
  BY <1>7, <1>8, <1>9, <1>16 DEF Receipt
<1>17. CASE API
  BY <1>10, <1>11, <1>12, <1>13, <1>17 DEF API
<1> QED
  BY <1>3, <1>4, <1>14, <1>15, <1>16, <1>17 DEF Next

-----------------------------------------------------------------------------
\* Keys.

\* The wizard's last key, as Keyed has it.
LastSent == [visit |-> checkout.visit, turn |-> checkout.turn, key |-> checkout.request.key]

\* What carries a key.
LEMMA Carriers ==
  /\ \A c \in Keyed : \/ c \in requests
                      \/ \E r \in Rows : c = bookings[r]
                      \/ checkout # None /\ checkout.request # None /\ c = LastSent
  /\ requests \subseteq Keyed
  /\ \A r \in Rows : bookings[r] \in Keyed
  /\ checkout # None /\ checkout.request # None => LastSent \in Keyed
  BY DEF Keyed, LastSent

\* Visits, turns and keys are numbers, none ahead of the counters.
LEMMA KeyedBounds ==
  ASSUME CheckoutInvariant
  PROVE  /\ \A c \in Keyed : /\ c.key \in Nat /\ c.visit \in Nat /\ c.turn \in Nat
                             /\ c.key <= sent /\ c.visit <= visits
         /\ sent \in Nat /\ visits \in Nat
         /\ checkout # None => /\ checkout.visit \in Nat /\ checkout.turn \in Nat
                               /\ checkout.visit <= visits
<1>1. TypeOK /\ Counted
  BY DEF CheckoutInvariant
<1>2. checkout # None => checkout \in WizardType
  BY <1>1 DEF TypeOK
<1>3. checkout # None /\ checkout.request # None =>
        /\ LastSent.key \in Nat /\ LastSent.visit \in Nat /\ LastSent.turn \in Nat
        /\ LastSent.key <= sent /\ LastSent.visit <= visits
  BY <1>1, <1>2 DEF LastSent, WizardType, Counted
<1>4. \A q \in requests : /\ q.key \in Nat /\ q.visit \in Nat /\ q.turn \in Nat
                          /\ q.key <= sent /\ q.visit <= visits
  BY <1>1 DEF TypeOK, RequestType, Counted
<1>5. \A r \in Rows : /\ bookings[r].key \in Nat /\ bookings[r].visit \in Nat
                      /\ bookings[r].turn \in Nat
                      /\ bookings[r].key <= sent /\ bookings[r].visit <= visits
  BY <1>1, RowFields DEF BookingType, Counted
<1>6. checkout # None => /\ checkout.visit \in Nat /\ checkout.turn \in Nat
                         /\ checkout.visit <= visits
  BY <1>1, <1>2 DEF WizardType, Counted
<1>7. sent \in Nat /\ visits \in Nat
  BY <1>1, Counters
<1>8. \A c \in Keyed : /\ c.key \in Nat /\ c.visit \in Nat /\ c.turn \in Nat
                       /\ c.key <= sent /\ c.visit <= visits
  BY <1>3, <1>4, <1>5, Carriers
<1> QED
  BY <1>6, <1>7, <1>8

\* Whence a key is carried, named to be primed.
KeysCarried ==
  \A c \in Keyed : \/ c \in requests
                   \/ \E r \in Rows : c = bookings[r]
                   \/ checkout # None /\ checkout.request # None /\ c = LastSent

\* It holds after a step as well.
LEMMA CarriersNext == KeysCarried'
<1>1. KeysCarried
  BY Carriers DEF KeysCarried
<1> QED
  BY <1>1, PTL

\* Rows carry on what rows and requests carried.
LEMMA RowsCarry ==
  ASSUME CheckoutInvariant, RowsGrow, NEW r \in Rows'
  PROVE  \E d \in Keyed : Origin(bookings'[r]) = Origin(d)
<1>1. Len(bookings) \in Nat
  BY RowFields DEF CheckoutInvariant
<1>2. r \in Rows \/ (r = Len(bookings) + 1 /\ Len(bookings') = Len(bookings) + 1)
  BY <1>1 DEF RowsGrow, Rows
<1> QED
  BY <1>2, Carriers DEF RowsGrow

\* Without a new request no key is new.
LEMMA KeysStay ==
  ASSUME CheckoutInvariant, RowsGrow, Opens \/ Stays
  PROVE  \A c \in Keyed' : \E d \in Keyed : Origin(c) = Origin(d)
<1>0. TypeOK
  BY DEF CheckoutInvariant
<1> TAKE c \in Keyed'
<1>1. CASE c \in requests'
  <2>1. RequestsGoOn
    BY <1>0, RequestsEnd DEF Opens, Stays
  <2>2. PICK q \in requests : Follows(c, q)
    BY <1>1, <2>1 DEF RequestsGoOn
  <2> QED
    BY <2>2, Carriers DEF Follows, Origin
<1>2. CASE \E r \in Rows' : c = bookings'[r]
  BY <1>2, RowsCarry
<1>3. CASE checkout' # None /\ checkout'.request # None /\ c = LastSent'
  <2>1. checkout # None /\ Kept(checkout')
    BY <1>3 DEF Opens, Stays
  <2>2. LastSent' = LastSent /\ checkout.request # None
    BY <1>3, <2>1 DEF LastSent, Kept
  <2> QED
    BY <1>3, <2>1, <2>2, Carriers
<1> QED
  BY <1>1, <1>2, <1>3, CarriersNext DEF KeysCarried

\* A new request brings one new key at most, of a new turn.
LEMMA KeysSent ==
  ASSUME CheckoutInvariant, RowsGrow, Submits, checkout # None
  PROVE  \A c \in Keyed' :
           \/ \E d \in Keyed : Origin(c) = Origin(d)
           \/ /\ ~Repeated(checkout)
              /\ c.key = sent + 1 /\ c.visit = checkout.visit /\ c.turn = checkout.turn + 1
<1> TAKE c \in Keyed'
<1>1. PICK key \in Nat, turn \in Nat, w \in WizardType, q \in RequestType :
        /\ key = RequestKey(checkout)
        /\ turn = IF Repeated(checkout) THEN checkout.turn ELSE checkout.turn + 1
        /\ checkout' = w /\ requests' = requests \cup {q}
        /\ w.visit = checkout.visit /\ w.turn = turn
        /\ w.request = [data |-> Data(checkout), key |-> key]
        /\ q.visit = checkout.visit /\ q.turn = turn /\ q.key = key
  BY DEF Submits
<1>2. CASE c \in requests
  BY <1>2, Carriers
<1>3. CASE \E r \in Rows' : c = bookings'[r]
  BY <1>3, RowsCarry
<1>4. CASE c.visit = checkout.visit /\ c.turn = turn /\ c.key = key
  <2>1. CASE Repeated(checkout)
    <3>1. checkout.request # None /\ LastSent.visit = c.visit /\ LastSent.turn = c.turn
          /\ LastSent.key = c.key
      BY <1>1, <1>4, <2>1 DEF LastSent, Repeated, RequestKey
    <3>2. LastSent \in Keyed
      BY <3>1, Carriers
    <3> QED
      BY <3>1, <3>2 DEF Origin
  <2>2. CASE ~Repeated(checkout)
    BY <1>1, <1>4, <2>2 DEF RequestKey
  <2> QED
    BY <2>1, <2>2
<1>5. LastSent'.visit = checkout.visit /\ LastSent'.turn = turn /\ LastSent'.key = key
  BY <1>1 DEF LastSent
<1>6. c \in requests \/ c = q \/ (\E r \in Rows' : c = bookings'[r]) \/ c = LastSent'
  BY <1>1, CarriersNext DEF KeysCarried
<1> QED
  BY <1>1, <1>2, <1>3, <1>4, <1>5, <1>6

\* One key per turn, none ahead of the wizard, and every number within the counters.
LEMMA KeysStep ==
  ASSUME CheckoutInvariant, [Next]_vars
  PROVE  /\ OneKeyPerTurn'
         /\ \A c \in Keyed' : c.key <= sent' /\ c.visit <= visits'
         /\ checkout' # None => checkout'.visit <= visits'
<1>0. TypeOK /\ OneKeyPerTurn
  BY DEF CheckoutInvariant
<1>1. RowsGrow /\ (Opens \/ Stays \/ (Submits /\ checkout # None /\ UNCHANGED visits))
  BY <1>0, RowsStep, WizardStep
<1>2. /\ \A c \in Keyed : /\ c.key \in Nat /\ c.visit \in Nat /\ c.turn \in Nat
                          /\ c.key <= sent /\ c.visit <= visits
      /\ sent \in Nat /\ visits \in Nat
      /\ checkout # None => /\ checkout.visit \in Nat /\ checkout.turn \in Nat
                            /\ checkout.visit <= visits
  BY KeyedBounds
<1>3. \A c, d \in Keyed : c.visit = d.visit /\ c.turn = d.turn => c.key = d.key
  BY <1>0 DEF OneKeyPerTurn
<1>4. \A c \in Keyed : checkout # None /\ c.visit = checkout.visit => c.turn <= checkout.turn
  BY <1>0 DEF OneKeyPerTurn
<1>5. \A c, d : Origin(c) = Origin(d) =>
                  c.key = d.key /\ c.visit = d.visit /\ c.turn = d.turn
  BY DEF Origin
<1>6. CASE Opens \/ Stays
  <2>1. \A c \in Keyed' : \E d \in Keyed : c.key = d.key /\ c.visit = d.visit /\ c.turn = d.turn
    BY <1>1, <1>5, <1>6, KeysStay
  <2>2. /\ sent' = sent /\ visits' \in {visits, visits + 1}
        /\ \/ checkout' = None
           \/ checkout'.visit = visits + 1 /\ visits' = visits + 1
           \/ /\ checkout # None /\ checkout'.visit = checkout.visit
              /\ checkout'.turn = checkout.turn
    BY <1>6 DEF Opens, Stays, Kept
  <2>3. \A c, d \in Keyed' : c.visit = d.visit /\ c.turn = d.turn => c.key = d.key
    <3> SUFFICES ASSUME NEW c \in Keyed', NEW d \in Keyed', c.visit = d.visit, c.turn = d.turn
                 PROVE  c.key = d.key
      OBVIOUS
    <3>1. PICK c0 \in Keyed : c.key = c0.key /\ c.visit = c0.visit /\ c.turn = c0.turn
      BY <2>1
    <3>2. PICK d0 \in Keyed : d.key = d0.key /\ d.visit = d0.visit /\ d.turn = d0.turn
      BY <2>1
    <3> QED
      BY <1>3, <3>1, <3>2
  <2>4. \A c \in Keyed' : /\ c.key <= sent' /\ c.visit <= visits'
                          /\ checkout' # None /\ c.visit = checkout'.visit =>
                               c.turn <= checkout'.turn
    <3> TAKE c \in Keyed'
    <3>1. PICK c0 \in Keyed : c.key = c0.key /\ c.visit = c0.visit /\ c.turn = c0.turn
      BY <2>1
    <3> QED
      BY <1>2, <1>4, <2>2, <3>1
  <2>5. checkout' # None => checkout'.visit <= visits'
    BY <1>2, <2>2
  <2> QED
    BY <2>3, <2>4, <2>5 DEF OneKeyPerTurn
<1>7. CASE Submits /\ checkout # None /\ UNCHANGED visits
  <2> DEFINE New(c) == /\ ~Repeated(checkout)
                       /\ c.key = sent + 1 /\ c.visit = checkout.visit
                       /\ c.turn = checkout.turn + 1
  <2>1. \A c \in Keyed' :
          New(c) \/ \E d \in Keyed : c.key = d.key /\ c.visit = d.visit /\ c.turn = d.turn
    BY <1>1, <1>5, <1>7, KeysSent
  <2>2. /\ sent' = sent + 1 /\ visits' = visits /\ checkout'.visit = checkout.visit
        /\ checkout'.turn = IF Repeated(checkout) THEN checkout.turn ELSE checkout.turn + 1
    BY <1>7 DEF Submits
  <2>3. \A c \in Keyed', d \in Keyed' :
          c.visit = d.visit /\ c.turn = d.turn => c.key = d.key
    <3> SUFFICES ASSUME NEW c \in Keyed', NEW d \in Keyed', c.visit = d.visit, c.turn = d.turn
                 PROVE  c.key = d.key
      OBVIOUS
    <3>1. ASSUME NEW x \in Keyed, x.visit = checkout.visit PROVE x.turn # checkout.turn + 1
      BY <1>2, <1>4, <1>7, <3>1
    <3>2. CASE New(c) /\ New(d)
      BY <3>2
    <3>3. CASE ~New(c) /\ ~New(d)
      <4>1. PICK c0 \in Keyed : c.key = c0.key /\ c.visit = c0.visit /\ c.turn = c0.turn
        BY <2>1, <3>3
      <4>2. PICK d0 \in Keyed : d.key = d0.key /\ d.visit = d0.visit /\ d.turn = d0.turn
        BY <2>1, <3>3
      <4> QED
        BY <1>3, <4>1, <4>2
    <3>4. CASE New(c) /\ ~New(d)
      BY <2>1, <3>1, <3>4
    <3>5. CASE ~New(c) /\ New(d)
      BY <2>1, <3>1, <3>5
    <3> QED
      BY <3>2, <3>3, <3>4, <3>5
  <2>4. \A c \in Keyed' : /\ c.key <= sent' /\ c.visit <= visits'
                          /\ c.visit = checkout'.visit => c.turn <= checkout'.turn
    <3> TAKE c \in Keyed'
    <3>1. CASE New(c)
      BY <1>2, <1>7, <2>2, <3>1
    <3>2. CASE \E d \in Keyed : c.key = d.key /\ c.visit = d.visit /\ c.turn = d.turn
      <4>1. PICK c0 \in Keyed : c.key = c0.key /\ c.visit = c0.visit /\ c.turn = c0.turn
        BY <3>2
      <4> QED
        BY <1>2, <1>4, <1>7, <2>2, <4>1
    <3> QED
      BY <2>1, <3>1, <3>2
  <2>5. checkout'.visit <= visits'
    BY <1>2, <1>7, <2>2
  <2> QED
    BY <2>3, <2>4, <2>5 DEF OneKeyPerTurn
<1> QED
  BY <1>1, <1>6, <1>7

\* A key is in one row: a row is made only for a key that no row has.
LEMMA RowsKeysStep ==
  ASSUME CheckoutInvariant, RowsGrow PROVE OneRowPerKey'
<1>1. Len(bookings) \in Nat /\ OneRowPerKey
  BY RowFields DEF CheckoutInvariant
<1>2. \A r \in Rows : bookings'[r].key = bookings[r].key
  BY DEF RowsGrow, Origin
<1>3. CASE Len(bookings') = Len(bookings)
  BY <1>1, <1>2, <1>3 DEF OneRowPerKey, Rows
<1>4. CASE Len(bookings') = Len(bookings) + 1
  <2>1. PICK q \in requests : /\ Origin(bookings'[Len(bookings) + 1]) = Origin(q)
                              /\ \A r \in Rows : bookings[r].key # q.key
    BY <1>4 DEF RowsGrow
  <2>2. bookings'[Len(bookings) + 1].key = q.key
    BY <2>1 DEF Origin
  <2>3. \A r \in Rows' : r \in Rows \/ r = Len(bookings) + 1
    BY <1>1, <1>4 DEF Rows
  <2> QED
    BY <1>1, <1>2, <2>1, <2>2, <2>3 DEF OneRowPerKey
<1> QED
  BY <1>3, <1>4 DEF RowsGrow

-----------------------------------------------------------------------------
\* References, payment checks and the receipt.

\* An answer names a row.
KnownReplies ==
  \A q \in requests : q.reply \notin {None, Refusal} => q.reply.reference \in Rows

ReceiptPart ==
  /\ receipt \in {None} \cup ReceiptType
  /\ receipt # None => receipt.confirmation.reference \in Rows
  /\ checkout # None /\ checkout.confirmation # None =>
       checkout.confirmation.reference \in Rows
  /\ polls \subseteq {Asked, NotFound} \cup StatusType
  /\ polls # {} => Polling
  /\ ReceiptSurvives

\* It is part of the invariant.
LEMMA ReceiptPartHolds == CheckoutInvariant => ReceiptPart /\ KnownReplies
  BY DEF CheckoutInvariant, TypeOK, Counted, ReceiptPart, KnownReplies

\* Rows do not go.
LEMMA RowsStayRows ==
  ASSUME TypeOK, RowsGrow PROVE Rows \subseteq Rows'
<1>1. Len(bookings) \in Nat
  BY RowFields
<1> QED
  BY <1>1 DEF RowsGrow, Rows

\* Every step: the API answers with the number of a row.
LEMMA RepliesStep ==
  ASSUME CheckoutInvariant, [Next]_vars PROVE KnownReplies'
<1>0. TypeOK /\ KnownReplies /\ Rows \subseteq Rows'
  BY ReceiptPartHolds, RowsStep, RowsStayRows DEF CheckoutInvariant
<1>1. ASSUME \A q \in requests' : q \in requests \/ q.reply = None PROVE KnownReplies'
  BY <1>0, <1>1 DEF KnownReplies
<1>2. ASSUME NEW q \in requests, PublicCreateBooking(q) PROVE KnownReplies'
  <2>1. PICK a \in {Refusal} \cup ConfirmationType :
          Answered(q, a) /\ (a # Refusal => a.reference \in 1 .. Len(bookings'))
    BY <1>0, <1>2, CreateStep
  <2>2. \A p \in requests' : p \in requests \/ p.reply = a
    BY <1>0, <1>2, <2>1, AnsweredStep DEF PublicCreateBooking, client
  <2> QED
    BY <1>0, <2>1, <2>2 DEF KnownReplies, Rows
<1>3. CASE Submit
  <2>1. \E q : requests' = requests \cup {q} /\ q.reply = None
    BY <1>3, SubmitStep DEF Submits
  <2> QED
    BY <1>1, <2>1
<1>4. CASE SearchPage
  BY <1>1, <1>4 DEF SearchPage, LoadCatalog, CatalogFails, RetryCatalog, SetCriteria,
     Search, SearchAnswer, SearchFails, SelectTrip, ReturnToSearch, LeavePage
<1>5. CASE Details \/ ToggleConsent \/ BackToDetails
  <2>1. requests' = requests
    BY <1>5, EditStep DEF Edit
  <2> QED
    BY <1>1, <2>1
<1>6. ASSUME NEW q \in requests, Confirmed(q) \/ SubmitFails(q) PROVE KnownReplies'
  <2>1. requests' \subseteq requests
    BY <1>6, ConfirmStep, FailStep
  <2> QED
    BY <1>1, <2>1
<1>7. CASE Receipt
  <2>1. \A a : ShowStatus(a) => requests' = requests
    BY DEF ShowStatus
  <2>2. requests' = requests
    BY <1>7, <2>1 DEF Receipt, CheckPayment, CheckFails
  <2> QED
    BY <1>1, <2>2
<1>8. CASE PublicPaymentStatus
  BY <1>1, <1>8 DEF PublicPaymentStatus
<1>9. ASSUME NEW r \in Rows, NEW s, NEW p, ChangeBooking(r, s, p) PROVE KnownReplies'
  BY <1>1, <1>9 DEF ChangeBooking
<1>10. ASSUME NEW t, NEW p, ChangePrice(t, p) PROVE KnownReplies'
  BY <1>1, <1>10 DEF ChangePrice
<1>11. CASE Tick \/ UNCHANGED vars
  BY <1>1, <1>11 DEF Tick, vars
<1>12. CASE Order
  BY <1>3, <1>5, <1>6, <1>12 DEF Order
<1>13. CASE API
  BY <1>2, <1>8, <1>9, <1>10, <1>13 DEF API
<1> QED
  BY <1>4, <1>5, <1>7, <1>11, <1>12, <1>13 DEF Next

\* A receipt is stored as it is shown, where the browser stores anything.
LEMMA SavedReceipt ==
  ASSUME TypeOK, NEW c \in WizardType, c.confirmation \in ConfirmationType
  PROVE  /\ Saved(c) \in {None} \cup ReceiptType
         /\ Saved(c) # None => Saved(c).confirmation = c.confirmation
         /\ Storage => Saved(c) # None
<1>1. now \in Nat /\ c.offer \in OfferType
  BY Counters DEF WizardType
<1>2. [savedAt |-> now, offer |-> c.offer, confirmation |-> c.confirmation] \in ReceiptType
  BY <1>1 DEF ReceiptType
<1> QED
  BY <1>2, Constants DEF Saved

\* A receipt is shown.
LEMMA ReceiptShown ==
  ASSUME CheckoutInvariant, NEW c \in WizardType, checkout' = c, c.step = 3,
         c.confirmation \in ConfirmationType, c.confirmation.reference \in Rows',
         receipt' = Saved(c),
         polls' \subseteq {Asked, NotFound} \cup StatusType,
         polls' # {} => c.confirmation.payment = "pending"
  PROVE  ReceiptPart'
<1>1. /\ Saved(c) \in {None} \cup ReceiptType
      /\ Saved(c) # None => Saved(c).confirmation = c.confirmation
      /\ Storage => Saved(c) # None
  BY SavedReceipt DEF CheckoutInvariant
<1>2. c # None
  BY Constants
<1> HIDE DEF Saved
<1>3. /\ receipt' \in {None} \cup ReceiptType
      /\ receipt' # None => receipt'.confirmation = c.confirmation
      /\ Storage => receipt' # None
  BY <1>1
<1>4. Open(3)'
  BY <1>2 DEF Open
<1>5. polls' # {} => Polling'
  BY <1>4 DEF Polling
<1>6. ReceiptSurvives'
  BY <1>3, <1>4 DEF ReceiptSurvives
<1> QED
  BY <1>2, <1>3, <1>5, <1>6 DEF ReceiptPart

\* The receipt stays where it is: on the screen and stored, or nowhere.
LEMMA ReceiptStays ==
  ASSUME CheckoutInvariant, Rows \subseteq Rows', UNCHANGED receipt, now' \in {now, now + 1},
         catalog' = catalog \/ catalog' \in {"loading", "failed"},
         polls' \subseteq {Asked, NotFound} \cup StatusType, polls' # {} => polls # {},
         Open(3) => Open(3)' /\ checkout'.confirmation = checkout.confirmation,
         ~Open(3) => ~Open(3)' /\ (checkout' # None => checkout'.confirmation = None)
  PROVE  ReceiptPart'
<1>1. ReceiptPart /\ TypeOK
  BY ReceiptPartHolds DEF CheckoutInvariant
<1>2. now \in Nat
  BY <1>1, Counters
<1>3. polls' # {} => Polling'
  <2>1. polls # {} => Open(3) /\ checkout.confirmation.payment = "pending"
    BY <1>1 DEF ReceiptPart, Polling
  <2> QED
    BY <2>1 DEF Polling
<1>4. checkout' # None /\ checkout'.confirmation # None =>
        checkout'.confirmation.reference \in Rows'
  <2>1. Open(3) => checkout.confirmation # None /\ checkout # None
    BY <1>1 DEF TypeOK, Open
  <2> QED
    BY <1>1, <2>1 DEF ReceiptPart
<1>5. ReceiptSurvives'
  <2> SUFFICES ASSUME Storage PROVE ReceiptSurvives'
    BY DEF ReceiptSurvives
  <2>1. Open(3)' => receipt' # None /\ receipt'.confirmation = checkout'.confirmation
    BY <1>1 DEF ReceiptPart, ReceiptSurvives
  <2>2. ASSUME catalog' \in {"cash", "bank"}, receipt' # None
        PROVE  Open(3)' \/ now' - receipt'.savedAt > ReceiptTime
    <3>1. Open(3) \/ now - receipt.savedAt > ReceiptTime
      BY <1>1, <2>2 DEF ReceiptPart, ReceiptSurvives
    <3>2. receipt \in ReceiptType
      BY <1>1, <2>2 DEF ReceiptPart
    <3>3. receipt.savedAt \in Nat
      BY <3>2 DEF ReceiptType
    <3> QED
      BY <1>2, <3>1, <3>3, Constants
  <2> QED
    BY <2>1, <2>2 DEF ReceiptSurvives
<1> QED
  BY <1>1, <1>3, <1>4, <1>5 DEF ReceiptPart

\* Every step: the checks, the receipt on the screen and the stored one.
LEMMA ReceiptStep ==
  ASSUME CheckoutInvariant, [Next]_vars PROVE ReceiptPart'
<1>0. /\ TypeOK /\ ReceiptPart /\ KnownReplies /\ RowsGrow /\ Rows \subseteq Rows'
      /\ now \in Nat
  BY ReceiptPartHolds, RowsStep, RowsStayRows, Counters DEF CheckoutInvariant
<1>1. /\ checkout # None => (checkout.confirmation # None <=> checkout.step = 3)
      /\ Open(3) => checkout \in WizardType /\ checkout.confirmation \in ConfirmationType
                    /\ checkout.confirmation.reference \in Rows'
      /\ polls # {} => Open(3)
  <2>1. Open(3) => checkout \in WizardType /\ checkout.confirmation # None
    BY <1>0 DEF TypeOK, Open
  <2> QED
    BY <1>0, <2>1 DEF TypeOK, Open, Polling, WizardType, ReceiptPart
<1>2. ASSUME UNCHANGED <<checkout, receipt>>, now' \in {now, now + 1},
             catalog' = catalog \/ catalog' \in {"loading", "failed"},
             polls' \subseteq {Asked, NotFound} \cup StatusType, polls' # {} => polls # {}
      PROVE  ReceiptPart'
  <2>1. Open(3) => Open(3)' /\ checkout'.confirmation = checkout.confirmation
    BY <1>2 DEF Open
  <2>2. ~Open(3) => ~Open(3)' /\ (checkout' # None => checkout'.confirmation = None)
    BY <1>1, <1>2 DEF Open
  <2> QED
    BY <1>0, <1>2, <2>1, <2>2, ReceiptStays
<1>3. ASSUME UNCHANGED <<checkout, receipt, polls, catalog, now>> PROVE ReceiptPart'
  BY <1>0, <1>2, <1>3 DEF ReceiptPart
<1>4. ASSUME UNCHANGED <<receipt, polls, catalog, now>>, ~Open(3),
             checkout' # None => checkout'.step # 3 /\ checkout'.confirmation = None
      PROVE  ReceiptPart'
  <2>1. ~Open(3)'
    BY <1>4 DEF Open
  <2>2. /\ polls' \subseteq {Asked, NotFound} \cup StatusType
        /\ polls' # {} => polls # {}
        /\ now' \in {now, now + 1}
        /\ catalog' = catalog \/ catalog' \in {"loading", "failed"}
    BY <1>0, <1>4 DEF ReceiptPart
  <2> QED
    BY <1>0, <1>4, <2>1, <2>2, ReceiptStays
<1>5. ASSUME checkout' = None, polls' = {}, receipt' = None \/ catalog' = "loading",
             receipt' \in {None, receipt}
      PROVE  ReceiptPart'
  <2>1. ~Open(3)' /\ ReceiptSurvives'
    BY <1>5 DEF Open, ReceiptSurvives
  <2> QED
    BY <1>0, <1>5, <2>1 DEF ReceiptPart
<1>6. ASSUME NEW m \in {"cash", "bank"}, LoadCatalog(m) PROVE ReceiptPart'
  <2> DEFINE saved == RestorePublicCheckout(receipt)
             c == RestoredWizard(saved)
  <2>1. checkout = None /\ polls = {} /\ UNCHANGED <<polls, now>>
    BY <1>0, <1>6 DEF LoadCatalog, TypeOK, Polling, Open
  <2>2. CASE saved = None
    <3>1. UNCHANGED <<checkout, receipt>>
      BY <1>6, <2>2 DEF LoadCatalog
    <3>2. receipt # None => now - receipt.savedAt > ReceiptTime
      <4>1. receipt # None => receipt.savedAt \in Nat
        BY <1>0 DEF ReceiptPart, ReceiptType
      <4> QED
        BY <1>0, <2>2, <4>1, Constants DEF RestorePublicCheckout
    <3>3. ~Open(3)' /\ (receipt' # None => now' - receipt'.savedAt > ReceiptTime)
      BY <2>1, <3>1, <3>2 DEF Open
    <3>4. ReceiptSurvives'
      BY <3>3 DEF ReceiptSurvives
    <3> QED
      BY <1>0, <2>1, <3>1, <3>4 DEF ReceiptPart
  <2>3. CASE saved # None
    <3>1. saved \in ReceiptType /\ saved = receipt
      BY <1>0, <2>3 DEF RestorePublicCheckout, ReceiptPart
    <3>2. /\ saved.confirmation \in ConfirmationType
          /\ saved.confirmation.reference \in Rows'
      BY <1>0, <2>3, <3>1 DEF ReceiptType, ReceiptPart
    <3>3. c \in WizardType /\ c.confirmation = saved.confirmation /\ c.step = 3
      BY <1>0, <3>1, NewReceipt
    <3>4. checkout' = c /\ receipt' = Saved(c)
      BY <1>6, <2>3 DEF LoadCatalog
    <3> HIDE DEF c
    <3>5. polls' = {}
      BY <2>1
    <3> QED
      BY <3>2, <3>3, <3>4, <3>5, ReceiptShown
  <2> QED
    BY <2>2, <2>3
<1>7. ASSUME NEW o, SelectTrip(o) PROVE ReceiptPart'
  <2>1. UNCHANGED <<receipt, polls, catalog, now>> /\ ~Open(3)
    BY <1>7 DEF SelectTrip, Searchable, Open
  <2>2. checkout'.step = 1 /\ checkout'.confirmation = None
    BY <1>7 DEF SelectTrip, Wizard
  <2> QED
    BY <1>4, <2>1, <2>2
<1>8. CASE ReturnToSearch \/ LeavePage
  BY <1>5, <1>8 DEF ReturnToSearch, LeavePage, ForgetReceipt
<1>9. CASE CatalogFails \/ RetryCatalog
  <2>1. UNCHANGED <<checkout, receipt, polls, now>> /\ catalog' \in {"loading", "failed"}
    BY <1>9 DEF CatalogFails, RetryCatalog
  <2> QED
    BY <1>0, <1>2, <2>1 DEF ReceiptPart
<1>10. CASE Search \/ SearchAnswer \/ SearchFails
  BY <1>3, <1>10 DEF Search, SearchAnswer, SearchFails
<1>11. ASSUME NEW r, NEW n, SetCriteria(r, n) PROVE ReceiptPart'
  BY <1>3, <1>11 DEF SetCriteria
<1>12. CASE SearchPage
  BY <1>6, <1>7, <1>8, <1>9, <1>10, <1>11, <1>12 DEF SearchPage
<1>13. CASE Details \/ ToggleConsent \/ BackToDetails
  <2>1. PICK c : Edit(c) /\ c.step \in {1, 2} /\ c.confirmation = checkout.confirmation
    BY <1>13, EditStep
  <2>2. checkout # None /\ checkout.step \in {1, 2}
    BY <1>13, EditStep
  <2>3. ~Open(3) /\ checkout.confirmation = None
    BY <1>1, <2>2 DEF Open
  <2> QED
    BY <1>4, <2>1, <2>3 DEF Edit
<1>14. CASE Submit
  <2>1. checkout # None /\ checkout.step = 2 /\ checkout'.step = 2
        /\ checkout'.confirmation = checkout.confirmation
    BY <1>14, SubmitStep DEF Submits
  <2>2. ~Open(3) /\ checkout.confirmation = None
    BY <1>1, <2>1 DEF Open
  <2>3. UNCHANGED <<receipt, polls, catalog, now>>
    BY <1>14 DEF Submit
  <2> QED
    BY <1>4, <2>1, <2>2, <2>3
<1>15. ASSUME NEW q \in requests, SubmitFails(q) PROVE ReceiptPart'
  <2>1. PICK c : checkout' = c /\ c.step = 2 /\ c.confirmation = checkout.confirmation
    BY <1>15, FailStep
  <2>2. checkout # None /\ checkout.step = 2
    BY <1>15, FailStep
  <2>3. ~Open(3) /\ checkout.confirmation = None
    BY <1>1, <2>2 DEF Open
  <2>4. UNCHANGED <<receipt, polls, catalog, now>>
    BY <1>15 DEF SubmitFails
  <2> QED
    BY <1>4, <2>1, <2>3, <2>4
<1>16. ASSUME NEW q \in requests, Confirmed(q) PROVE ReceiptPart'
  <2>1. PICK c : /\ checkout' = c /\ Kept(c) /\ receipt' = Saved(c)
                 /\ c.step = 3 /\ c.confirmation = q.reply
    BY <1>16, ConfirmStep
  <2>2. checkout # None /\ checkout.step = 2 /\ q.reply \in ConfirmationType
        /\ q.reply # Refusal
    BY <1>16, ConfirmStep
  <2>3. q.reply.reference \in Rows'
    BY <1>0, <2>2, Constants DEF KnownReplies
  <2>4. polls' = {}
    BY <1>1, <1>16, <2>2 DEF Confirmed, Open
  <2>5. c \in WizardType
    BY <2>1 DEF Kept
  <2> QED
    BY <2>1, <2>2, <2>3, <2>4, <2>5, ReceiptShown
<1>17. CASE CheckPayment
  <2>1. PICK c : checkout' = c /\ Kept(c) /\ c.step = 3
                 /\ c.confirmation = checkout.confirmation
    BY <1>17, CheckStep
  <2>2. checkout # None /\ checkout.step = 3 /\ checkout.confirmation.payment = "pending"
    BY <1>17, CheckStep
  <2>3. c # None /\ c \in WizardType
    BY <2>1, Constants DEF Kept
  <2>4. Open(3) /\ Open(3)' /\ Polling'
    BY <2>1, <2>2, <2>3 DEF Open, Polling
  <2>5. UNCHANGED <<receipt, catalog, now>> /\ polls' = polls \cup {Asked}
    BY <1>17 DEF CheckPayment
  <2>6. ReceiptSurvives'
    <3>1. Storage => receipt # None /\ receipt.confirmation = checkout.confirmation
      BY <1>0, <2>4 DEF ReceiptPart, ReceiptSurvives
    <3> QED
      BY <2>1, <2>4, <2>5, <3>1 DEF ReceiptSurvives
  <2>7. checkout.confirmation.reference \in Rows'
    BY <1>1, <2>4
  <2> QED
    BY <1>0, <2>1, <2>3, <2>4, <2>5, <2>6, <2>7 DEF ReceiptPart
<1>18. ASSUME NEW a \in polls, ShowStatus(a) PROVE ReceiptPart'
  <2>1. PICK c : /\ checkout' = c /\ Kept(c) /\ receipt' = Saved(c)
                 /\ c.step = 3 /\ c.confirmation \in ConfirmationType
                 /\ c.confirmation.reference = checkout.confirmation.reference
                 /\ c.confirmation.payment = a.payment
    BY <1>18, ShowStep
  <2>2. checkout # None /\ checkout.step = 3
    BY <1>18, ShowStep
  <2>3. polls' = IF a.payment = "pending" THEN polls \ {a} ELSE {}
    BY <1>18 DEF ShowStatus
  <2>4. c \in WizardType /\ c.confirmation.reference \in Rows'
    BY <1>1, <2>1, <2>2 DEF Kept, Open
  <2>5. /\ polls' \subseteq {Asked, NotFound} \cup StatusType
        /\ polls' # {} => c.confirmation.payment = "pending"
    BY <1>0, <2>1, <2>3 DEF ReceiptPart
  <2> QED
    BY <2>1, <2>4, <2>5, ReceiptShown
<1>19. ASSUME NEW a \in polls, CheckFails(a) PROVE ReceiptPart'
  <2>1. UNCHANGED <<checkout, receipt, catalog, now>> /\ polls' = polls \ {a}
    BY <1>19 DEF CheckFails
  <2>2. polls' \subseteq {Asked, NotFound} \cup StatusType /\ polls # {}
    BY <1>0, <2>1 DEF ReceiptPart
  <2> QED
    BY <1>2, <2>1, <2>2
<1>20. CASE PublicPaymentStatus
  <2> DEFINE b == bookings[checkout.confirmation.reference]
             answer == IF checkout.confirmation.token = b.token THEN Status(b) ELSE NotFound
  <2>1. Asked \in polls /\ polls' = (polls \ {Asked}) \cup {answer}
        /\ UNCHANGED <<checkout, receipt, catalog, now>>
    BY <1>20 DEF PublicPaymentStatus
  <2>2. b \in BookingType
    <3>1. Open(3)
      BY <1>1, <2>1
    <3>2. checkout.confirmation.reference \in Rows
      BY <1>0, <1>1, <3>1 DEF Open, ReceiptPart
    <3> QED
      BY <1>0, <3>2, RowFields
  <2> HIDE DEF b
  <2>3. Status(b) \in StatusType
    BY <2>2 DEF Status, StatusType, BookingType, Statuses, Payments
  <2>4. answer \in {Asked, NotFound} \cup StatusType
    BY <2>3
  <2> HIDE DEF answer
  <2>5. polls' \subseteq {Asked, NotFound} \cup StatusType /\ polls # {}
    BY <1>0, <2>1, <2>4 DEF ReceiptPart
  <2> QED
    BY <1>2, <2>1, <2>5
<1>21. ASSUME NEW q, PublicCreateBooking(q) PROVE ReceiptPart'
  BY <1>3, <1>21 DEF PublicCreateBooking, client
<1>22. ASSUME NEW r, NEW s, NEW p, ChangeBooking(r, s, p) PROVE ReceiptPart'
  BY <1>3, <1>22 DEF ChangeBooking, client
<1>23. ASSUME NEW t, NEW p, ChangePrice(t, p) PROVE ReceiptPart'
  BY <1>3, <1>23 DEF ChangePrice, client
<1>24. CASE Tick
  <2>1. UNCHANGED <<checkout, receipt, polls, catalog>> /\ now' = now + 1
    BY <1>24 DEF Tick, client
  <2> QED
    BY <1>0, <1>2, <2>1 DEF ReceiptPart
<1>25. CASE UNCHANGED vars
  BY <1>3, <1>25 DEF vars, client
<1>26. CASE Order
  BY <1>13, <1>14, <1>15, <1>16, <1>26 DEF Order
<1>27. CASE Receipt
  BY <1>17, <1>18, <1>19, <1>27 DEF Receipt
<1>28. CASE API
  BY <1>20, <1>21, <1>22, <1>23, <1>28 DEF API
<1> QED
  BY <1>12, <1>13, <1>24, <1>25, <1>26, <1>27, <1>28 DEF Next

-----------------------------------------------------------------------------
\* The theorems.

\* The numbers handed out are within the counters after every step.
LEMMA CountedStep ==
  ASSUME CheckoutInvariant, [Next]_vars PROVE Counted'
<1>1. TypeOK /\ Counted /\ sent \in Nat
  BY Counters DEF CheckoutInvariant
<1>2. /\ WizardPart' /\ ReceiptPart' /\ KnownReplies'
      /\ Opens \/ Stays \/ (Submits /\ checkout # None /\ UNCHANGED visits)
  BY WizardStep, ReceiptStep, RepliesStep
<1>3. /\ \A c \in Keyed' : c.key <= sent' /\ c.visit <= visits'
      /\ checkout' # None => checkout'.visit <= visits'
  BY KeysStep
<1>4. requests' \subseteq Keyed' /\ \A r \in Rows' : bookings'[r] \in Keyed'
  BY DEF Keyed
<1>5. \A q \in requests' : q.id <= sent'
  <2>1. \A q \in requests : q.id \in Nat /\ q.id <= sent
    BY <1>1 DEF TypeOK, RequestType, Counted
  <2>2. CASE Opens
    BY <2>1, <2>2 DEF Opens
  <2>3. CASE Stays
    BY <2>1, <2>3 DEF Stays, RequestsGoOn, Follows
  <2>4. CASE Submits
    <3>1. sent' = sent + 1 /\ \E q : requests' = requests \cup {q} /\ q.id = sent + 1
      BY <2>4 DEF Submits
    <3> QED
      BY <1>1, <2>1, <3>1
  <2> QED
    BY <1>2, <2>2, <2>3, <2>4
<1>6. checkout' # None /\ checkout'.busy # None => checkout'.busy <= sent'
  BY <1>2, <1>5 DEF WizardPart, Waiting
<1>7. checkout' # None /\ checkout'.request # None => checkout'.request.key <= sent'
  <2>1. checkout' # None /\ checkout'.request # None =>
          LastSent' \in Keyed' /\ LastSent'.key = checkout'.request.key
    BY DEF Keyed, LastSent
  <2> QED
    BY <1>3, <2>1
<1> QED
  BY <1>2, <1>3, <1>4, <1>5, <1>6, <1>7 DEF Counted, ReceiptPart, KnownReplies

\* The parts make up the invariant.
LEMMA PartsNext ==
  ASSUME WizardPart', PageTyped', ReceiptPart', bookings' \in Seq(BookingType),
         Counted', OneKeyPerTurn', OneRowPerKey'
  PROVE  CheckoutInvariant'
<1>1. TypeOK'
  BY DEF TypeOK, WizardPart, PageTyped, ReceiptPart, OneId, Waiting
<1> QED
  BY <1>1 DEF CheckoutInvariant, WizardPart, ReceiptPart

\* One step.
LEMMA InvariantStep ==
  ASSUME CheckoutInvariant, [Next]_vars PROVE CheckoutInvariant'
<1>1. TypeOK
  BY DEF CheckoutInvariant
<1>2. RowsGrow
  BY <1>1, RowsStep
<1>3. bookings' \in Seq(BookingType)
  BY <1>2 DEF RowsGrow
<1>4. WizardPart' /\ PageTyped' /\ ReceiptPart'
  BY <1>1, WizardStep, PageStep, ReceiptStep
<1>5. Counted' /\ OneKeyPerTurn' /\ OneRowPerKey'
  BY <1>2, CountedStep, KeysStep, RowsKeysStep
<1> QED
  BY <1>3, <1>4, <1>5, PartsNext

\* The page before the catalogue has come.
LEMMA StartSound == Init => CheckoutInvariant
<1> SUFFICES ASSUME Init PROVE CheckoutInvariant
  OBVIOUS
<1>1. /\ checkout = None /\ receipt = None /\ polls = {} /\ requests = {} /\ bookings = <<>>
      /\ now = 0 /\ sent = 0 /\ visits = 0
  BY DEF Init
<1>2. bookings \in Seq(BookingType) /\ Rows = {}
  BY <1>1 DEF Rows
<1>3. TypeOK
  BY <1>1, <1>2 DEF Init, TypeOK
<1>4. Counted /\ ConsentIsCurrent /\ ConsentCoversDetails /\ OneRowPerKey
  BY <1>1, <1>2 DEF Counted, ConsentIsCurrent, ConsentCoversDetails, OneRowPerKey
<1>5. OneKeyPerTurn
  <2>1. Keyed = {}
    BY <1>1, <1>2 DEF Keyed
  <2> QED
    BY <2>1 DEF OneKeyPerTurn
<1>6. ReceiptSurvives
  BY <1>1 DEF ReceiptSurvives, Open
<1> QED
  BY <1>3, <1>4, <1>5, <1>6 DEF CheckoutInvariant

\* The invariant holds in every reachable state.
LEMMA CheckoutSound == Spec => []CheckoutInvariant
<1>1. CheckoutInvariant /\ [Next]_vars => CheckoutInvariant'
  BY InvariantStep
<1> QED
  BY StartSound, <1>1, PTL DEF Spec

\* Every reachable state is well formed, and the page waits only for a request that is
\* under way, with an identity of its own.
THEOREM CheckoutTypeCorrect == Spec => []TypeOK
<1>1. CheckoutInvariant => TypeOK
  BY DEF CheckoutInvariant
<1> QED
  BY CheckoutSound, <1>1, PTL

\* No booking request leaves the page with details to which the passenger did not agree.
THEOREM ConsentIsGiven == Spec => []ConsentCoversDetails
<1>1. CheckoutInvariant => ConsentCoversDetails
  BY DEF CheckoutInvariant
<1> QED
  BY CheckoutSound, <1>1, PTL

\* A checkout that repeats a request whose answer was lost books once: both rows would
\* have the key of the turn, and a key is in one row.
THEOREM RetriesBookOnce == Spec => []RetryBooksOnce
<1>1. CheckoutInvariant => RetryBooksOnce
  <2> SUFFICES ASSUME CheckoutInvariant, NEW r \in Rows, NEW s \in Rows,
                      bookings[r].visit = bookings[s].visit,
                      bookings[r].turn = bookings[s].turn
               PROVE  r = s
    BY DEF RetryBooksOnce
  <2>1. bookings[r] \in Keyed /\ bookings[s] \in Keyed
    BY Carriers
  <2>2. bookings[r].key = bookings[s].key
    BY <2>1 DEF CheckoutInvariant, OneKeyPerTurn
  <2> QED
    BY <2>2 DEF CheckoutInvariant, OneRowPerKey
<1> QED
  BY CheckoutSound, <1>1, PTL

\* What the receipt shows is what a reload brings back, and a receipt that was left is
\* not stored any more.
THEOREM ReceiptsSurvive == Spec => []ReceiptSurvives
<1>1. CheckoutInvariant => ReceiptSurvives
  BY DEF CheckoutInvariant
<1> QED
  BY CheckoutSound, <1>1, PTL

=============================================================================
