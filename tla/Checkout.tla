------------------------------ MODULE Checkout ------------------------------
(***************************************************************************)
(* A passenger books on the public page: search (public-booking.tsx), the  *)
(* checkout wizard (passenger-checkout.tsx), the receipt kept in           *)
(* sessionStorage (lib/public-checkout-session.ts), the proxy and the API  *)
(* that replays a known request key (public_booking.go).  Answers get      *)
(* lost, requests outlive the page that sent them, the page is reloaded.   *)
(***************************************************************************)
EXTENDS Naturals, Sequences, FiniteSets

CONSTANTS
  Trips, Routes,
  RouteOf,      \* the route of each trip
  BankTrips,    \* trips priced in UAH
  Prices,
  SeatChoices,
  Values,       \* inputs of a passenger that validateCheckout accepts
  Phones,       \* phone numbers it accepts
  Fields,       \* the company's required booking fields
  None,         \* nothing; as an input, anything that is refused
  Storage,      \* does the browser allow sessionStorage?
  HoldTime, ReceiptTime,                      \* 30 minutes, 24 hours
  MaxTime, MaxRequests, MaxVisits, MaxChanges \* bounds

ASSUME CheckoutAssumption ==
  /\ RouteOf \in [Trips -> Routes] /\ BankTrips \subseteq Trips
  /\ None \notin Trips \cup Routes \cup Values \cup Phones
  /\ SeatChoices \subseteq Nat \ {0} /\ Prices \subseteq Nat
  /\ Storage \in BOOLEAN
  /\ {HoldTime, ReceiptTime, MaxTime, MaxRequests, MaxVisits, MaxChanges} \subseteq Nat

VARIABLES
  catalog,    \* "loading", "failed", or the best offered way to pay
  criteria,   \* the search form
  search,     \* the criteria of the search under way, or None
  result,     \* offers with the criteria they were found for, or None
  checkout,   \* the mounted wizard, or None
  receipt,    \* sessionStorage
  polls,      \* payment checks under way
  requests,   \* booking requests under way, waited for or not
  bookings,   \* the server's rows, in the order of insertion
  prices,     \* the server's price of each trip
  now,
  sent, visits    \* history: requests sent, wizards opened

client == <<catalog, criteria, search, result, checkout, receipt, polls>>
server == <<bookings, prices>>
vars == <<client, requests, server, now, sent, visits>>

-----------------------------------------------------------------------------
\* The search page.

NoCriteria == [route |-> None, seats |-> 1]

\* A wizard for an offer: state and refs of PassengerCheckout. "busy" is the
\* request it waits for, "request" the key made for the last details sent; history:
\* "agreed", for which details the consent was ticked last, and "turn", how often the
\* details sent were not the ones sent before.
Wizard(offer, seats) ==
  [visit |-> visits + 1, offer |-> offer, seats |-> seats, step |-> 1,
   people |-> <<None>>, phone |-> None, method |-> None,
   custom |-> [f \in Fields |-> None], consent |-> FALSE,
   busy |-> None, request |-> None, confirmation |-> None, checkedAt |-> now,
   agreed |-> None, turn |-> 0]

\* The wizard that shows a receipt after a reload.
RestoredWizard(saved) ==
  [Wizard(saved.offer, saved.confirmation.seats) EXCEPT
     !.step = 3, !.confirmation = saved.confirmation,
     !.method = IF saved.confirmation.payment = None THEN "cash" ELSE "bank"]

\* Young enough; that it is well formed is left out, only this page writes it.
RestorePublicCheckout(saved) ==
  IF saved # None /\ now - saved.savedAt <= ReceiptTime THEN saved ELSE None

\* The effect that follows every change of the confirmation.
Saved(c) ==
  IF Storage THEN [savedAt |-> now, offer |-> c.offer, confirmation |-> c.confirmation]
  ELSE None

LoadCatalog(method) ==
  /\ catalog = "loading"
  /\ catalog' = method
  /\ LET saved == RestorePublicCheckout(receipt)
         found == [route |-> RouteOf[saved.offer.trip],
                   seats |-> saved.confirmation.seats]
     IN  IF saved = None
         THEN UNCHANGED <<criteria, result, checkout, receipt, visits>>
         ELSE /\ visits < MaxVisits
              /\ visits' = visits + 1
              /\ criteria' = found
              /\ result' = [criteria |-> found, offers |-> {}]
              /\ checkout' = RestoredWizard(saved)
              /\ receipt' = Saved(RestoredWizard(saved))
  /\ UNCHANGED <<search, polls, requests, server, now, sent>>

CatalogFails ==
  /\ catalog = "loading"
  /\ catalog' = "failed"
  /\ UNCHANGED <<criteria, search, result, checkout, receipt, polls, requests, server,
                 now, sent, visits>>

RetryCatalog ==
  /\ catalog = "failed"
  /\ catalog' = "loading"
  /\ UNCHANGED <<criteria, search, result, checkout, receipt, polls, requests, server,
                 now, sent, visits>>

\* The form, shown while no wizard is open. A button of a route fills it too.
\* When MaxVisits is reached no search is explored any more.
Searchable == catalog \in {"cash", "bank"} /\ checkout = None /\ visits < MaxVisits

SetCriteria(route, seats) ==
  /\ Searchable /\ search = None
  /\ criteria' = [route |-> route, seats |-> seats]
  /\ criteria' # criteria
  /\ UNCHANGED <<catalog, search, result, checkout, receipt, polls, requests, server,
                 now, sent, visits>>

Search ==
  /\ Searchable /\ search = None /\ criteria.route # None
  /\ search' = criteria
  /\ UNCHANGED <<catalog, criteria, result, checkout, receipt, polls, requests, server,
                 now, sent, visits>>

\* Trips that are on sale with enough seats: what other passengers take is free.
SearchAnswer ==
  /\ search # None
  /\ search' = None
  /\ \E found \in SUBSET {t \in Trips : RouteOf[t] = search.route} :
       result' = [criteria |-> search,
                  offers |-> {[trip |-> t, price |-> prices[t]] : t \in found}]
  /\ UNCHANGED <<catalog, criteria, checkout, receipt, polls, requests, server,
                 now, sent, visits>>

SearchFails ==
  /\ search # None
  /\ search' = None
  /\ UNCHANGED <<catalog, criteria, result, checkout, receipt, polls, requests, server,
                 now, sent, visits>>

\* While a search runs the list shows placeholders only.
SelectTrip(offer) ==
  /\ Searchable /\ search = None /\ result # None
  /\ offer \in result.offers
  /\ checkout' = Wizard(offer, result.criteria.seats)
  /\ visits' = visits + 1
  /\ UNCHANGED <<catalog, criteria, search, result, receipt, polls, requests, server,
                 now, sent>>

\* Mutant of ForgetReceipt: the stored receipt stays.
KeepReceipt == UNCHANGED receipt

ForgetReceipt == receipt' = None

\* The buttons of step 1 and step 3; step 2 goes back to step 1.
ReturnToSearch ==
  /\ checkout # None /\ checkout.step \in {1, 3} /\ checkout.busy = None
  /\ checkout' = None
  /\ polls' = {}
  /\ ForgetReceipt
  /\ UNCHANGED <<catalog, criteria, search, result, requests, server,
                 now, sent, visits>>

\* Reload, crash, a link to another page: requests under way go on without the page.
LeavePage ==
  /\ catalog # "loading"
  /\ catalog' = "loading"
  /\ criteria' = NoCriteria /\ search' = None /\ result' = None
  /\ checkout' = None /\ polls' = {}
  /\ requests' = {q \in requests : q.reply = None}
  /\ UNCHANGED <<receipt, server, now, sent, visits>>

-----------------------------------------------------------------------------
\* Step 1: the details.

Open(step) == checkout # None /\ checkout.step = step

Edit(c) ==
  /\ checkout' = c
  /\ UNCHANGED <<catalog, criteria, search, result, receipt, polls, requests, server,
                 now, sent, visits>>

AddPassenger ==
  /\ Open(1) /\ Len(checkout.people) < checkout.seats
  /\ Edit([checkout EXCEPT !.people = Append(@, None)])

\* The first passenger is the contact and stays.
RemovePassenger(i) ==
  /\ Open(1) /\ i \in 2 .. Len(checkout.people)
  /\ Edit([checkout EXCEPT !.people = SubSeq(@, 1, i - 1) \o SubSeq(@, i + 1, Len(@))])

UpdatePerson(i, value) ==
  /\ Open(1) /\ i \in 1 .. Len(checkout.people) /\ checkout.people[i] # value
  /\ Edit([checkout EXCEPT !.people[i] = value])

SetPhone(phone) ==
  /\ Open(1) /\ checkout.phone # phone
  /\ Edit([checkout EXCEPT !.phone = phone])

SetField(f, value) ==
  /\ Open(1) /\ checkout.custom[f] # value
  /\ Edit([checkout EXCEPT !.custom[f] = value])

\* A transfer is offered for a price in UAH when the company has set it up.
Offered(trip) == IF trip \in BankTrips THEN {"cash", catalog} ELSE {"cash"}

SetMethod(method) ==
  /\ Open(1) /\ method \in Offered(checkout.offer.trip) /\ checkout.method # method
  /\ Edit([checkout EXCEPT !.method = method])

\* validateCheckout finds no error.
Complete(c) ==
  /\ Len(c.people) = c.seats
  /\ \A i \in 1 .. Len(c.people) : c.people[i] # None
  /\ c.phone # None /\ c.method # None
  /\ \A f \in Fields : c.custom[f] # None

Review ==
  /\ Open(1) /\ Complete(checkout)
  /\ Edit([checkout EXCEPT !.step = 2])

-----------------------------------------------------------------------------
\* Step 2: consent and the request.

\* What is sent, without the consent and the key.
Data(c) ==
  [trip |-> c.offer.trip, price |-> c.offer.price, seats |-> c.seats,
   people |-> c.people, phone |-> c.phone, method |-> c.method, custom |-> c.custom]

ToggleConsent ==
  /\ Open(2)
  /\ Edit([checkout EXCEPT !.consent = ~@,
                           !.agreed = IF checkout.consent THEN @ ELSE Data(checkout)])

\* Mutant of BackToDetails: the tick stays.
BackWithConsent ==
  /\ Open(2) /\ checkout.busy = None
  /\ Edit([checkout EXCEPT !.step = 1])

BackToDetails ==
  /\ Open(2) /\ checkout.busy = None
  /\ Edit([checkout EXCEPT !.step = 1, !.consent = FALSE])

\* Mutant of RequestKey: every click has a key of its own.
FreshKey(c) == sent + 1

Repeated(c) == c.request # None /\ c.request.data = Data(c)

\* The key of the last details sent is used again while the details are the same.
RequestKey(c) == IF Repeated(c) THEN c.request.key ELSE sent + 1

Submit ==
  /\ Open(2) /\ checkout.consent /\ checkout.busy = None
  /\ sent < MaxRequests
  /\ sent' = sent + 1
  /\ LET key  == RequestKey(checkout)
         turn == IF Repeated(checkout) THEN checkout.turn ELSE checkout.turn + 1
     IN  /\ checkout' = [checkout EXCEPT !.busy = sent + 1, !.turn = turn,
                           !.request = [data |-> Data(checkout), key |-> key]]
         /\ requests' = requests \cup
              {[id |-> sent + 1, visit |-> checkout.visit, turn |-> turn, key |-> key,
                data |-> Data(checkout), reply |-> None, agreed |-> checkout.agreed]}
  /\ UNCHANGED <<catalog, criteria, search, result, receipt, polls, server,
                 now, visits>>

\* An error of the API.
Refusal == [reference |-> None]

Waiting(q) == checkout # None /\ checkout.busy = q.id

\* setConfirmation, step 3, and the effect that stores the receipt.
Confirmed(q) ==
  /\ q \in requests /\ Waiting(q) /\ q.reply \notin {None, Refusal}
  /\ LET c == [checkout EXCEPT !.busy = None, !.step = 3, !.confirmation = q.reply,
                               !.checkedAt = now]
     IN  checkout' = c /\ receipt' = Saved(c)
  /\ requests' = requests \ {q}
  /\ UNCHANGED <<catalog, criteria, search, result, polls, server, now, sent, visits>>

\* A refusal, the proxy's 503 after 12 seconds, the page's own 15 seconds, or no
\* network: an error on the screen. What was not answered may still be handled.
SubmitFails(q) ==
  /\ q \in requests /\ Waiting(q)
  /\ checkout' = [checkout EXCEPT !.busy = None]
  /\ \/ requests' = requests \ {q}
     \/ q.reply = None /\ requests' = requests
  /\ UNCHANGED <<catalog, criteria, search, result, receipt, polls, server,
                 now, sent, visits>>

-----------------------------------------------------------------------------
\* The API.

Due(b) == b.status = "awaiting_payment" /\ b.expires <= now

Active(b) ==
  \/ b.status \in {"cash_on_boarding", "confirmed"}
  \/ b.status = "awaiting_payment" /\ ~Due(b)

Rows == 1 .. Len(bookings)

\* The public view of a booking: "seen" says which change of the row it shows.
Confirmation(r, b) ==
  [reference |-> r, status |-> b.status, payment |-> b.payment, token |-> b.token,
   expires |-> b.expires, seats |-> b.data.seats, price |-> b.data.price,
   seen |-> b.changes]

NewBooking(q) ==
  [key |-> q.key, visit |-> q.visit, turn |-> q.turn, data |-> q.data,
   status |-> IF q.data.method = "bank" THEN "awaiting_payment" ELSE "cash_on_boarding",
   payment |-> IF q.data.method = "bank" THEN "pending" ELSE None,
   token |-> 1, expires |-> now + HoldTime, changes |-> 0]

\* The answer reaches the page that waits for it, if there is one.
Answered(q, reply) ==
  requests' = (requests \ {q}) \cup (IF Waiting(q) THEN {[q EXCEPT !.reply = reply]} ELSE {})

\* A known key: the same contents are answered again, with a new payment token.
Replay(q, r) ==
  /\ bookings[r].key = q.key
  /\ IF bookings[r].data = q.data
     THEN LET b == IF bookings[r].payment = None THEN bookings[r]
                   ELSE [bookings[r] EXCEPT !.token = @ + 1]
          IN  bookings' = [bookings EXCEPT ![r] = b] /\ Answered(q, Confirmation(r, b))
     ELSE UNCHANGED bookings /\ Answered(q, Refusal)

\* The price has changed, or the phone has an active booking on the trip.
Refusable(q) ==
  \/ prices[q.data.trip] # q.data.price
  \/ \E r \in Rows : /\ bookings[r].data.trip = q.data.trip
                     /\ bookings[r].data.phone = q.data.phone
                     /\ Active(bookings[r])

\* A new booking; due holds of the same passenger expire with it.
Book(q) ==
  /\ \A r \in Rows : bookings[r].key # q.key
  /\ ~Refusable(q)
  /\ bookings' =
       Append([r \in Rows |->
                 IF /\ bookings[r].data.trip = q.data.trip
                    /\ bookings[r].data.phone = q.data.phone /\ Due(bookings[r])
                 THEN [bookings[r] EXCEPT !.status = "expired", !.changes = @ + 1]
                 ELSE bookings[r]],
              NewBooking(q))
  /\ Answered(q, Confirmation(Len(bookings) + 1, NewBooking(q)))

\* Also: no seats left, not on sale, too many attempts, transfer not set up.
Refuse(q) ==
  /\ \A r \in Rows : bookings[r].key # q.key
  /\ UNCHANGED bookings
  /\ Answered(q, Refusal)

PublicCreateBooking(q) ==
  /\ q \in requests /\ q.reply = None
  /\ (\E r \in Rows : Replay(q, r)) \/ Book(q) \/ Refuse(q)
  /\ UNCHANGED <<client, prices, now, sent, visits>>

\* The bank, the sweep and the dispatcher.
ChangeBooking(r, status, payment) ==
  LET b == bookings[r] IN
  /\ b.changes < MaxChanges
  /\ \/ b.payment = "pending" /\ Active(b) /\ status = "confirmed" /\ payment = "paid"
     \/ Due(b) /\ status = "expired" /\ payment = "cancelled"
     \/ status = "cancelled" /\ payment = b.payment
     \/ Active(b) /\ status = "confirmed" /\ payment = b.payment
  /\ b.status \notin {status, "cancelled", "expired"}
  /\ bookings' = [bookings EXCEPT ![r] = [b EXCEPT !.status = status, !.payment = payment,
                                                   !.changes = @ + 1]]
  /\ UNCHANGED <<client, requests, prices, now, sent, visits>>

ChangePrice(t, price) ==
  /\ prices[t] # price
  /\ prices' = [prices EXCEPT ![t] = price]
  /\ UNCHANGED <<client, requests, bookings, now, sent, visits>>

Tick ==
  /\ now < MaxTime
  /\ now' = now + 1
  /\ UNCHANGED <<client, requests, server, sent, visits>>

-----------------------------------------------------------------------------
\* Step 3: the receipt follows the payment.

\* What the receipt says.
PublicPaymentState(c, time) ==
  CASE c.status \in {"cancelled", "expired"} -> c.status
    [] c.payment = None -> "cash"
    [] c.payment = "paid" -> "paid"
    [] c.status # "awaiting_payment" \/ c.payment = "cancelled" -> "cancelled"
    [] c.expires <= time -> "expired"
    [] OTHER -> "pending"

\* The button, the link and the QR code.
CanPay == Open(3) /\ PublicPaymentState(checkout.confirmation, checkout.checkedAt) = "pending"

\* Mutant of Polling: no checks when the screen no longer offers to pay.
PollingWhilePayable == CanPay

\* The effect runs while the payment is pending.
Polling == Open(3) /\ checkout.confirmation.payment = "pending"

\* A check without an answer, and one that was refused.
Asked == [seen |-> None]
NotFound == [seen |-> None, status |-> None]

NotChecking == polls = {}

\* Every ten seconds, online again, or visible again.
CheckPayment ==
  /\ Polling /\ NotChecking
  /\ polls' = polls \cup {Asked}
  /\ checkout' = [checkout EXCEPT !.checkedAt = now]
  /\ UNCHANGED <<catalog, criteria, search, result, receipt, requests, server,
                 now, sent, visits>>

\* publicPaymentStatus: a due hold is reported as expired before the sweep has come.
Status(b) ==
  IF b.payment # "paid" /\ Due(b)
  THEN [status |-> "expired", payment |-> "cancelled", seen |-> b.changes]
  ELSE [status |-> b.status, payment |-> b.payment, seen |-> b.changes]

\* The token must be the last one handed out.
PublicPaymentStatus ==
  /\ Asked \in polls
  /\ LET b == bookings[checkout.confirmation.reference]
         answer == IF checkout.confirmation.token = b.token THEN Status(b) ELSE NotFound
     IN  polls' = (polls \ {Asked}) \cup {answer}
  /\ UNCHANGED <<catalog, criteria, search, result, checkout, receipt, requests, server,
                 now, sent, visits>>

\* An answer that came; the end of the effect cancels the others.
ShowStatus(answer) ==
  /\ answer \in polls \ {Asked, NotFound}
  /\ LET c == [checkout EXCEPT !.confirmation.status = answer.status,
                               !.confirmation.payment = answer.payment,
                               !.confirmation.seen = answer.seen]
     IN  checkout' = c /\ receipt' = Saved(c)
  /\ polls' = IF answer.payment = "pending" THEN polls \ {answer} ELSE {}
  /\ UNCHANGED <<catalog, criteria, search, result, requests, server,
                 now, sent, visits>>

CheckFails(answer) ==
  /\ answer \in polls
  /\ polls' = polls \ {answer}
  /\ UNCHANGED <<catalog, criteria, search, result, checkout, receipt, requests, server,
                 now, sent, visits>>

-----------------------------------------------------------------------------
Init ==
  /\ catalog = "loading" /\ criteria = NoCriteria
  /\ search = None /\ result = None /\ checkout = None /\ receipt = None
  /\ polls = {} /\ requests = {} /\ bookings = <<>>
  /\ prices \in [Trips -> Prices]
  /\ now = 0 /\ sent = 0 /\ visits = 0

SearchPage ==
  \/ (\E m \in {"cash", "bank"} : LoadCatalog(m)) \/ CatalogFails \/ RetryCatalog
  \/ (\E r \in Routes, n \in SeatChoices : SetCriteria(r, n))
  \/ Search \/ SearchAnswer \/ SearchFails
  \/ (\E t \in Trips, p \in Prices : SelectTrip([trip |-> t, price |-> p]))
  \/ ReturnToSearch \/ LeavePage

Details ==
  \/ AddPassenger \/ Review
  \/ \E i \in 1 .. 20 : RemovePassenger(i) \/ (\E v \in Values : UpdatePerson(i, v))
  \/ \E p \in Phones : SetPhone(p)
  \/ \E f \in Fields, v \in Values : SetField(f, v)
  \/ \E m \in {"bank", "cash"} : SetMethod(m)

Order ==
  \/ ToggleConsent \/ BackToDetails \/ Submit
  \/ \E q \in requests : Confirmed(q) \/ SubmitFails(q)

Receipt ==
  CheckPayment \/ (\E a \in polls : ShowStatus(a) \/ CheckFails(a))

API ==
  \/ \E q \in requests : PublicCreateBooking(q)
  \/ PublicPaymentStatus
  \/ \E r \in Rows, s \in {"confirmed", "expired", "cancelled"},
        p \in {None, "pending", "paid", "cancelled"} : ChangeBooking(r, s, p)
  \/ \E t \in Trips, p \in Prices : ChangePrice(t, p)

Next == SearchPage \/ Details \/ Order \/ Receipt \/ API \/ Tick

Spec == Init /\ [][Next]_vars

\* The ten-second timer, and checks that are repeated for ever are answered some time.
Heard == \E a \in polls : ShowStatus(a)
LiveSpec ==
  Spec /\ WF_vars(CheckPayment) /\ SF_vars(PublicPaymentStatus) /\ SF_vars(Heard)

-----------------------------------------------------------------------------
Inputs == Values \cup {None}
Payments == {None, "pending", "paid", "cancelled"}
Statuses == {"awaiting_payment", "cash_on_boarding", "confirmed", "expired", "cancelled"}

OfferType == [trip : Trips, price : Prices]

CriteriaType == [route : Routes, seats : SeatChoices]

DataType ==
  [trip : Trips, price : Prices, seats : SeatChoices, people : Seq(Inputs),
   phone : Phones \cup {None}, method : {None, "bank", "cash"}, custom : [Fields -> Inputs]]

ConfirmationType ==
  [reference : Nat, status : Statuses, payment : Payments, token : Nat, expires : Nat,
   seats : SeatChoices, price : Prices, seen : Nat]

ReceiptType == [savedAt : Nat, offer : OfferType, confirmation : ConfirmationType]

RequestType ==
  [id : Nat, visit : Nat, turn : Nat, key : Nat, data : DataType,
   reply : {None, Refusal} \cup ConfirmationType, agreed : DataType \cup {None}]

BookingType ==
  [key : Nat, visit : Nat, turn : Nat, data : DataType, status : Statuses,
   payment : Payments, token : Nat, expires : Nat, changes : Nat]

WizardType ==
  [visit : Nat, offer : OfferType, seats : SeatChoices, step : 1 .. 3,
   people : Seq(Inputs), phone : Phones \cup {None}, method : {None, "bank", "cash"},
   custom : [Fields -> Inputs], consent : BOOLEAN, busy : {None} \cup Nat,
   request : {None} \cup [data : DataType, key : Nat],
   confirmation : {None} \cup ConfirmationType, checkedAt : Nat,
   agreed : DataType \cup {None}, turn : Nat]

StatusType == [status : Statuses, payment : Payments, seen : Nat]

ASSUME NoneAssumption == None \notin Nat \cup ConfirmationType \cup ReceiptType \cup WizardType

\* Everything has its type, and the page never loses track of its one request: the
\* wizard waits only for a request that is still under way.
TypeOK ==
  /\ catalog \in {"loading", "failed", "cash", "bank"}
  /\ criteria \in {NoCriteria} \cup CriteriaType
  /\ search \in {None} \cup CriteriaType
  /\ result # None => result.criteria \in CriteriaType
  /\ checkout \in {None} \cup WizardType
  /\ checkout # None =>
       /\ catalog \in {"cash", "bank"}
       /\ Len(checkout.people) <= checkout.seats
       /\ checkout.busy # None => checkout.step = 2 /\ \E q \in requests : Waiting(q)
       /\ checkout.confirmation # None <=> checkout.step = 3
  /\ receipt \in {None} \cup ReceiptType
  /\ polls \subseteq {Asked, NotFound} \cup StatusType
  /\ polls # {} => Polling
  /\ requests \subseteq RequestType
  /\ \A q \in requests : q.reply # None => Waiting(q)
  /\ \A p, q \in requests : p.id = q.id => p = q
  /\ bookings \in Seq(BookingType)
  /\ prices \in [Trips -> Prices]
  /\ {now, sent, visits} \subseteq Nat

\* Whatever was edited, taken back and sent again: no booking request leaves the page
\* with details to which the passenger has not agreed on the review screen (submit,
\* consent and the way back in passenger-checkout.tsx).
ConsentCoversDetails == \A q \in requests : q.agreed = q.data

\* A checkout that repeats a request whose answer was lost books once, even when the
\* first booking has expired or was cancelled meanwhile (the request key's ref and
\* fingerprint against public_booking_requests). Details that are sent again after
\* others were sent are another request.
RetryBooksOnce ==
  \A r, s \in Rows :
    bookings[r].visit = bookings[s].visit /\ bookings[r].turn = bookings[s].turn => r = s

\* sessionStorage and the screen agree: what a receipt shows survives a reload, and a
\* receipt that was left does not come back (the effect that saves it, the restore
\* after the catalogue, returnToSearch).
ReceiptSurvives ==
  Storage =>
    /\ Open(3) => receipt # None /\ receipt.confirmation = checkout.confirmation
    /\ catalog \in {"cash", "bank"} /\ receipt # None =>
         Open(3) \/ now - receipt.savedAt > ReceiptTime

\* While a receipt stays open and its token is the last one, a payment that was made or
\* cancelled is shown in the end (the effect's timer and its retries).
Unaware(r) ==
  /\ Open(3) /\ checkout.confirmation.reference = r
  /\ checkout.confirmation.token = bookings[r].token
  /\ checkout.confirmation.payment = "pending" /\ bookings[r].payment # "pending"

OutcomeShown == \A r \in 1 .. MaxRequests : ~<>[](r \in Rows /\ Unaware(r))
-----------------------------------------------------------------------------
\* What makes them invariant: see CheckoutProofs.

\* Visits, keys and references are those handed out so far.
Counted ==
  /\ checkout # None =>
       /\ checkout.visit <= visits
       /\ checkout.busy # None => checkout.busy <= sent
       /\ checkout.request # None => checkout.request.key <= sent
       /\ checkout.confirmation # None => checkout.confirmation.reference \in Rows
  /\ receipt # None => receipt.confirmation.reference \in Rows
  /\ \A q \in requests :
       /\ q.id <= sent /\ q.key <= sent /\ q.visit <= visits
       /\ q.reply \notin {None, Refusal} => q.reply.reference \in Rows
  /\ \A r \in Rows : bookings[r].key <= sent /\ bookings[r].visit <= visits

\* The consent is to the details on the screen, which do not change under it.
ConsentIsCurrent ==
  checkout # None /\ checkout.consent =>
    checkout.step # 1 /\ checkout.agreed = Data(checkout)

\* Whatever carries a request key: a wizard, the requests, the rows.
Keyed ==
  {q : q \in requests} \cup {bookings[r] : r \in Rows}
    \cup IF checkout = None \/ checkout.request = None THEN {}
         ELSE {[visit |-> checkout.visit, turn |-> checkout.turn,
                key |-> checkout.request.key]}

\* One key for the details of one turn, however often they are sent; none is ahead of
\* the wizard.
OneKeyPerTurn ==
  /\ \A c, d \in Keyed : c.visit = d.visit /\ c.turn = d.turn => c.key = d.key
  /\ \A c \in Keyed : checkout # None /\ c.visit = checkout.visit => c.turn <= checkout.turn

OneRowPerKey == \A r, s \in Rows : bookings[r].key = bookings[s].key => r = s

CheckoutInvariant ==
  TypeOK /\ Counted /\ ConsentIsCurrent /\ ConsentCoversDetails /\ OneKeyPerTurn /\ OneRowPerKey
  /\ ReceiptSurvives
=============================================================================
