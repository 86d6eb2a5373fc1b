------------------------------ MODULE CashDesk ------------------------------
(* The company's cash: the page "Касса и расчёты", the driver's wallet and the  *)
(* dialogs that take a passenger's cash (components/accounting-workspace.tsx,   *)
(* owner-booking-cash.tsx, driver-passenger-manifest.tsx), and the transactions *)
(* behind them (backend/cmd/api/finance_accounting.go, driver_checkin.go and    *)
(* recordDriverCash). A page gives up on a request after a timeout while the    *)
(* server may still execute it, and the user sends the dialog again, edited or  *)
(* not, with the request id the dialog was opened with. One currency.           *)
EXTENDS Integers, FiniteSetsExt

CONSTANTS
  Desks,       \* open pages
  Drivers,
  Owner,       \* the driver whose wallet a page is, None for a page of the office
  Keys,        \* request ids (crypto.randomUUID)
  Bookings,
  Carrier,     \* the driver of a booking's trip
  Price,       \* the price of every booking
  Orders,      \* what the dialogs may be filled in with
  Rates,       \* the payroll rates the company may have set
  Opening,     \* what the till, every purse and every salary account starts with
  MaxRequests, \* bound on the requests sent
  None

Forms == {"receipt", "expense", "accrual", "tax_payment", "payout",
          "deposit_own_cash", "request_handover", "take", "collection"}
Resolutions == {"accept_handover", "reject_handover", "cancel_handover"}
Kinds == {"income", "levy"}     \* withholdings; the employer's charge is alike
Statuses == {"pending", "accepted", "rejected", "cancelled"}

\* The body of a request: item is the handover to settle or the booking paid for.
Body == [action: Forms \cup Resolutions, amount: Nat, driver: Drivers \cup {None},
         source: {"cash", "bank"}, kind: Kinds, item: Keys \cup Bookings \cup {None}]
Handover == [driver: Drivers, amount: Nat, status: Statuses]

ASSUME DesksAssumption == /\ None \notin Desks \cup Drivers \cup Keys \cup Bookings
                          /\ Desks \cap Drivers = {} /\ Keys \cap Bookings = {}
                          /\ Owner \in [Desks -> Drivers \cup {None}]
                          /\ Carrier \in [Bookings -> Drivers]
ASSUME BoundsAssumption == Price \in Nat /\ Opening \in Nat /\ MaxRequests \in Nat
ASSUME OrdersAssumption ==
  /\ Orders \subseteq Body
  /\ \A b \in Orders : /\ b.action \in Forms
                       /\ b.action \in {"accrual", "tax_payment", "payout",
                                        "request_handover", "collection"}
                            => b.driver \in Drivers
                       /\ b.action = "take" => b.item \in Bookings
ASSUME NoneAssumption == None \notin {"done", "error"} /\ None \notin Body /\ None \notin Handover
\* validPayrollRates: shares of ten thousand.
ASSUME RatesAssumption ==
  /\ Rates \subseteq [Kinds -> Nat]
  /\ \A rate \in Rates : rate["income"] + rate["levy"] <= 10000

Office == {c \in Desks : Owner[c] = None}
Custodians == Drivers \cup Office
Ids == 1..MaxRequests
Target(action) == CASE action = "accept_handover" -> "accepted"
                    [] action = "reject_handover" -> "rejected"
                    [] action = "cancel_handover" -> "cancelled"

VARIABLES
  till,       \* companyCash
  cash,       \* driver_cash_ledger: the cash each custodian holds
  owed,       \* salary each driver is still to be paid
  withheld,   \* withholdings still to be remitted, by driver and kind
  received,   \* driver_booking_checkins.cash_minor
  handovers,  \* driver_cash_handovers, by the request that created them
  collected,  \* the handovers the cash ledger has a collection of
  written,    \* finance_operation_requests: the body recorded under a request id
  company,    \* the request that holds the company's row lock, or 0
  locks,      \* the request that holds a driver's row lock, or 0
  requests,
  desks,
  used        \* request ids drawn so far

books == <<till, cash, owed, withheld, received, handovers, collected, written>>
server == <<books, company, locks>>
vars == <<server, requests, desks, used>>

Blank == [pc |-> "none", desk |-> None, key |-> None, body |-> None, answer |-> None]
Idle == [form |-> None, key |-> None, call |-> 0, busy |-> FALSE]

Request == [pc: {"none", "sent", "company", "driver", "covered", "answered"},
            desk: Desks \cup {None}, key: Keys \cup {None}, body: Body \cup {None},
            answer: {None, "done", "error"}]
Desk == [form: Orders \cup {None}, key: Keys \cup {None}, call: Ids \cup {0}, busy: BOOLEAN]
TypeOK ==
  /\ till \in Int /\ cash \in [Custodians -> Int] /\ owed \in [Drivers -> Int]
  /\ withheld \in [Drivers -> [Kinds -> Int]] /\ received \in [Bookings -> Nat]
  /\ handovers \in [Keys -> Handover \cup {None}] /\ collected \subseteq Keys
  /\ written \in [Keys -> Body \cup {None}]
  /\ company \in Ids \cup {0} /\ locks \in [Drivers -> Ids \cup {0}]
  /\ requests \in [Ids -> Request] /\ desks \in [Desks -> Desk] /\ used \subseteq Keys

Init ==
  /\ till = Opening /\ cash = [x \in Custodians |-> Opening]
  /\ owed = [d \in Drivers |-> Opening]
  /\ withheld = [d \in Drivers |-> [k \in Kinds |-> 0]]
  /\ received = [b \in Bookings |-> 0]
  /\ handovers = [k \in Keys |-> None] /\ collected = {} /\ written = [k \in Keys |-> None]
  /\ company = 0 /\ locks = [d \in Drivers |-> 0]
  /\ requests = [r \in Ids |-> Blank] /\ desks = [c \in Desks |-> Idle] /\ used = {}

-----------------------------------------------------------------------------
(* The pages.                                                                  *)

\* The driver's wallet hands over its own cash and takes its own passengers' money;
\* the office does everything else.
Offered(c, b) ==
  IF Owner[c] = None THEN b.action # "collection"
  ELSE \/ b.action = "request_handover" /\ b.driver = Owner[c]
       \/ b.action = "take" /\ Carrier[b.item] = Owner[c]

\* crypto.randomUUID(): an id nobody has, no matter which.
Fresh == CHOOSE k \in Keys : k \notin used

\* open(): every dialog draws a request id of its own.
Open(c, b) ==
  /\ desks[c].form = None /\ Offered(c, b) /\ b.action # "take" /\ used # Keys
  /\ desks' = [desks EXCEPT ![c].form = b, ![c].key = Fresh]
  /\ used' = used \cup {Fresh}
  /\ UNCHANGED <<server, requests>>

\* The dialogs that take a passenger's cash name the booking and the sum received so
\* far, which recognises a repetition: no request id.
OpenPayment(c, b) ==
  /\ desks[c].form = None /\ Offered(c, b) /\ b.action = "take"
  /\ desks' = [desks EXCEPT ![c].form = b, ![c].key = None]
  /\ UNCHANGED <<server, requests, used>>

\* The fields stay editable between two attempts. (During one, too: such an edit is
\* dropped with the dialog on success, and equals one made after a failure.)
Edit(c, b) ==
  /\ desks[c].form # None /\ ~desks[c].busy
  /\ desks[c].form.action = b.action /\ desks[c].form # b /\ Offered(c, b)
  /\ desks' = [desks EXCEPT ![c].form = b]
  /\ UNCHANGED <<server, requests, used>>

Cancel(c) ==
  /\ desks[c].form # None /\ ~desks[c].busy
  /\ desks' = [desks EXCEPT ![c].form = None]
  /\ UNCHANGED <<server, requests, used>>

\* Requests are numbered as they are sent.
Send(r, c, k, b) ==
  /\ requests[r].pc = "none" /\ \A s \in 1..r - 1 : requests[s].pc # "none"
  /\ requests' = [requests EXCEPT ![r] =
       [pc |-> "sent", desk |-> c, key |-> k, body |-> b, answer |-> None]]

\* submit(), and receive() of the dialogs for a passenger's cash.
Submit(c, r) ==
  /\ desks[c].form # None /\ ~desks[c].busy
  /\ Send(r, c, desks[c].key, desks[c].form)
  /\ desks' = [desks EXCEPT ![c].call = r, ![c].busy = TRUE]
  /\ UNCHANGED <<server, used>>

\* resolve(): a handover the page shows, which may be settled by now.
Resolve(c, h, action, r) ==
  /\ desks[c].form = None /\ ~desks[c].busy /\ handovers[h] # None
  /\ IF Owner[c] = None THEN action # "cancel_handover"
     ELSE action = "cancel_handover" /\ handovers[h].driver = Owner[c]
  /\ Send(r, c, None, [action |-> action, amount |-> 0, driver |-> None, source |-> "cash",
                       kind |-> "income", item |-> h])
  /\ desks' = [desks EXCEPT ![c].call = r, ![c].busy = TRUE]
  /\ UNCHANGED <<server, used>>

\* After success the dialog closes and the page reloads its balances, still busy.
Hear(c) ==
  LET r == desks[c].call IN
  /\ r # 0 /\ requests[r].pc = "answered"
  /\ desks' = [desks EXCEPT ![c] =
       IF requests[r].answer = "done"
       THEN [form |-> None, key |-> @.key, call |-> 0, busy |-> TRUE]
       ELSE [@ EXCEPT !.call = 0, !.busy = FALSE]]
  /\ UNCHANGED <<server, requests, used>>

\* changed() returns: the loads never throw.
Reloaded(c) ==
  /\ desks[c].busy /\ desks[c].call = 0
  /\ desks' = [desks EXCEPT ![c].busy = FALSE]
  /\ UNCHANGED <<server, requests, used>>

\* The answer is lost, or the proxy's fifteen seconds are over: the page reports an
\* error and keeps its dialog; the request goes on.
GiveUp(c) ==
  /\ desks[c].call # 0
  /\ desks' = [desks EXCEPT ![c].call = 0, ![c].busy = FALSE]
  /\ UNCHANGED <<server, requests, used>>

\* A collection through /finance/driver-cash, which no page offers.
Collect(b, r) ==
  /\ b.action = "collection" /\ Send(r, None, None, b)
  /\ UNCHANGED <<server, desks, used>>

-----------------------------------------------------------------------------
(* The transactions.                                                           *)

Resolving(b) == b.action \in Resolutions
Keyed(b) == ~Resolving(b) /\ b.action \notin {"take", "collection"}

\* What a plausible bug would make of it: the office's operations do not wait for one
\* another.
LocksNothing(r) == FALSE

\* "All company money movements use the same lock order: company, then driver"; a
\* driver's own receipt and a direct collection lock the driver alone.
LocksCompany(r) ==
  /\ requests[r].body.action # "collection"
  /\ requests[r].body.action = "take" => requests[r].desk \in Office

\* The driver whose row the transaction locks.
DriverOf(r) ==
  LET b == requests[r].body IN
  IF Resolving(b) THEN handovers[b.item].driver
  ELSE IF b.action = "take" THEN Carrier[b.item] ELSE b.driver

\* Every refusal and failure is an error to the page, whatever it was about.
Reply(r, answer) ==
  /\ requests' = [requests EXCEPT ![r] =
       IF answer = "done" THEN [@ EXCEPT !.pc = "answered", !.answer = "done"]
       ELSE [Blank EXCEPT !.pc = "answered", !.answer = "error"]]
  /\ company' = IF company = r THEN 0 ELSE company
  /\ locks' = [d \in Drivers |-> IF locks[d] = r THEN 0 ELSE locks[d]]

Enter(r) ==
  /\ requests[r].pc = "sent"
  /\ IF LocksCompany(r) THEN company = 0 /\ company' = r ELSE company' = company
  /\ requests' = [requests EXCEPT ![r].pc = "company"]
  /\ UNCHANGED <<books, locks, desks, used>>

Verdict(repeated) == IF repeated THEN "done" ELSE "error"

Known(r) == Keyed(requests[r].body) /\ written[requests[r].key] # None
Settled(r) ==
  Resolving(requests[r].body) /\ handovers[requests[r].body.item].status # "pending"

\* As it was asked: with the same fields, or for the same decision.
Repeated(r) == written[requests[r].key] = requests[r].body
Agreed(r) ==
  handovers[requests[r].body.item].status = Target(requests[r].body.action)

\* Plausible bugs: a repetition is recognised by its request id alone.
RecallByKey(r) ==
  IF Known(r) THEN "done" ELSE IF Settled(r) THEN Verdict(Agreed(r)) ELSE "new"
\* The status of the handover is not looked at again.
RecallKeysOnly(r) == IF Known(r) THEN Verdict(Repeated(r)) ELSE "new"

\* What the recorded requests and the handover's status say before anything is done.
Recall(r) ==
  IF Known(r) THEN Verdict(Repeated(r))
  ELSE IF Settled(r) THEN Verdict(Agreed(r)) ELSE "new"

Repeat(r) ==
  /\ requests[r].pc = "company" /\ Recall(r) # "new"
  /\ Reply(r, Recall(r))
  /\ UNCHANGED <<books, desks, used>>

LockDriver(r) ==
  /\ requests[r].pc = "company" /\ Recall(r) = "new"
  /\ IF DriverOf(r) = None THEN locks' = locks
     ELSE locks[DriverOf(r)] = 0 /\ locks' = [locks EXCEPT ![DriverOf(r)] = r]
  /\ requests' = [requests EXCEPT ![r].pc = "driver"]
  /\ UNCHANGED <<books, company, desks, used>>

\* Cash promised to the office and not yet accepted.
Pending(d) ==
  MapThenSumSet(LAMBDA h : handovers[h].amount,
                {h \in Keys : handovers[h] # None /\ handovers[h].driver = d
                                                  /\ handovers[h].status = "pending"})

\* Whose cash an operation takes away.
Giver(r) == IF requests[r].body.action = "deposit_own_cash" THEN requests[r].desk ELSE DriverOf(r)
AmountOf(r) ==
  LET b == requests[r].body IN IF Resolving(b) THEN handovers[b.item].amount ELSE b.amount
TakesCash(r) ==
  requests[r].body.action \in {"deposit_own_cash", "accept_handover", "collection"}
TakesTill(r) ==
  /\ requests[r].body.action \in {"payout", "expense", "tax_payment"}
  /\ requests[r].body.source = "cash"

\* The balances an operation is checked against.
Covered(r) ==
  LET b == requests[r].body IN
  /\ TakesTill(r) => b.amount <= till
  /\ TakesCash(r) => AmountOf(r) <= cash[Giver(r)]
  /\ b.action = "payout" => b.amount <= owed[b.driver]
  /\ b.action = "tax_payment" => b.amount <= withheld[b.driver][b.kind]
  /\ b.action = "take" => b.amount \in received[b.item]..Price

Reserved(r) ==
  LET b == requests[r].body IN
  b.action = "request_handover" => b.amount <= cash[b.driver] - Pending(b.driver)

Weigh(r) ==
  /\ requests[r].pc = "driver"
  /\ IF Covered(r) /\ Reserved(r)
     THEN /\ requests' = [requests EXCEPT ![r].pc = "covered"]
          /\ UNCHANGED <<company, locks>>
     ELSE Reply(r, "error")
  /\ UNCHANGED <<books, desks, used>>

\* calculatePayroll: each part rounded, the second capped by what is left.
Round(gross, share) == (gross * share + 5000) \div 10000
Withheld(gross, rate) ==
  LET income == Round(gross, rate["income"])  levy == Round(gross, rate["levy"])
  IN [k \in Kinds |-> IF k = "income" THEN income
                      ELSE IF income + levy > gross THEN gross - income ELSE levy]

\* ensurePayrollAccrual: the driver is owed what is left after the withholdings.
Accrued(driver, gross, rate) ==
  LET parts == Withheld(gross, rate) IN
  /\ owed' = [owed EXCEPT ![driver] = @ + gross - parts["income"] - parts["levy"]]
  /\ withheld' = [withheld EXCEPT ![driver] = [k \in Kinds |-> @[k] + parts[k]]]

\* The rows the operation inserts, as they change the balances.
Booked(r) ==
  LET b == requests[r].body  k == requests[r].key IN
  /\ till' = till + (IF b.action = "receipt" \/ TakesCash(r) THEN AmountOf(r) ELSE 0)
                  - (IF TakesTill(r) THEN b.amount ELSE 0)
  /\ cash' = IF TakesCash(r) THEN [cash EXCEPT ![Giver(r)] = @ - AmountOf(r)]
             ELSE IF b.action = "take"
             THEN [cash EXCEPT ![IF requests[r].desk \in Office THEN requests[r].desk
                                 ELSE Carrier[b.item]] = @ + b.amount - received[b.item]]
             ELSE cash
  /\ received' = IF b.action = "take" THEN [received EXCEPT ![b.item] = b.amount] ELSE received
  /\ IF b.action = "accrual" THEN \E rate \in Rates : Accrued(b.driver, b.amount, rate)
     ELSE /\ owed' = IF b.action = "payout" THEN [owed EXCEPT ![b.driver] = @ - b.amount] ELSE owed
          /\ withheld' = IF b.action = "tax_payment"
                         THEN [withheld EXCEPT ![b.driver][b.kind] = @ - b.amount] ELSE withheld
  /\ handovers' = IF Resolving(b) THEN [handovers EXCEPT ![b.item].status = Target(b.action)]
                  ELSE IF b.action = "request_handover"
                  THEN [handovers EXCEPT ![k] =
                          [driver |-> b.driver, amount |-> b.amount, status |-> "pending"]]
                  ELSE handovers
  /\ collected' = IF b.action = "accept_handover" THEN collected \cup {b.item} ELSE collected
  /\ written' = IF Keyed(b) THEN [written EXCEPT ![k] = b] ELSE written

Commit(r) ==
  /\ requests[r].pc = "covered"
  /\ Booked(r) /\ Reply(r, "done")
  /\ UNCHANGED <<desks, used>>

\* An error, a lost connection or a restart: the transaction rolls back.
Abort(r) ==
  /\ requests[r].pc \in {"sent", "company", "driver", "covered"}
  /\ Reply(r, "error")
  /\ UNCHANGED <<books, desks, used>>

Next ==
  \/ \E c \in Desks : \/ \E b \in Orders : Open(c, b) \/ OpenPayment(c, b) \/ Edit(c, b)
                      \/ \E r \in Ids : Submit(c, r)
                      \/ \E r \in Ids, h \in Keys, a \in Resolutions : Resolve(c, h, a, r)
                      \/ Cancel(c) \/ Hear(c) \/ Reloaded(c) \/ GiveUp(c)
  \/ \E r \in Ids : \/ \E b \in Orders : Collect(b, r)
                    \/ Enter(r) \/ Repeat(r) \/ LockDriver(r) \/ Weigh(r) \/ Commit(r) \/ Abort(r)

Spec == Init /\ [][Next]_vars

-----------------------------------------------------------------------------
(* Properties.                                                                 *)

\* Nobody gives away cash or salary that is not there, whatever operations, receipts
\* and collections run side by side (companyCash, the checks of accountingOperation
\* and recordDriverCash).
CashCovered ==
  /\ till >= 0
  /\ \A x \in Custodians : cash[x] >= 0
  /\ \A d \in Drivers : owed[d] >= 0 /\ \A k \in Kinds : withheld[d][k] >= 0

\* A handover's money moves exactly when the handover is accepted, however the
\* cashier's and the driver's decisions cross (docs/finance-management.md, "Готівка").
HandoversSettleOnce ==
  collected = {h \in Keys : handovers[h] # None /\ handovers[h].status = "accepted"}

\* What a page reports as recorded is in the books, with the very fields that were
\* sent, even if the answer is of a repetition after a timeout and an edit.
AnswerIsTrue ==
  \A r \in Ids : requests[r].answer = "done" =>
    LET b == requests[r].body IN
    /\ Keyed(b) => written[requests[r].key] = b
    /\ Resolving(b) => handovers[b.item].status = Target(b.action)
    /\ b.action = "take" => received[b.item] >= b.amount

-----------------------------------------------------------------------------
(* The inductive invariant behind the three.                                   *)

Working(r) == requests[r].pc \in {"sent", "company", "driver", "covered"}

\* A dialog is filled in with what its page offers, and has its request id.
DialogsInOrder ==
  \A c \in Desks : desks[c].form # None =>
    LET b == desks[c].form IN
    b \in Orders /\ Offered(c, b) /\ (b.action # "take" => desks[c].key \in Keys)

\* A request names what its operation needs.
Proper(r) ==
  LET q == requests[r]  b == q.body IN
  /\ b \in Body /\ (Keyed(b) => q.key \in Keys)
  /\ b.action \in {"accrual", "tax_payment", "payout", "request_handover", "collection"}
       => b.driver \in Drivers
  /\ b.action = "take" => b.item \in Bookings
  /\ Resolving(b) => b.item \in Keys /\ handovers[b.item] # None
  /\ b.action = "deposit_own_cash" => q.desk \in Office

RequestsInOrder == \A r \in Ids : Working(r) \/ requests[r].answer = "done" => Proper(r)

\* A transaction holds its locks, and what it checked under them is still so.
CompanyHeld ==
  \A r \in Ids : requests[r].pc \in {"company", "driver", "covered"} /\ LocksCompany(r)
                   => company = r

DriversHeld ==
  \A r \in Ids : requests[r].pc \in {"driver", "covered"} /\ DriverOf(r) # None
                   => locks[DriverOf(r)] = r

StillNew == \A r \in Ids : requests[r].pc \in {"driver", "covered"} => Recall(r) = "new"

StillCovered == \A r \in Ids : requests[r].pc = "covered" => Covered(r)

\* A handover is written with the request that asked for it, so no other writes it.
HandoversWritten == \A h \in Keys : handovers[h] # None => written[h] # None

CashInvariant ==
  /\ TypeOK /\ DialogsInOrder /\ RequestsInOrder /\ CompanyHeld /\ DriversHeld /\ StillNew
  /\ StillCovered /\ HandoversWritten /\ CashCovered /\ HandoversSettleOnce /\ AnswerIsTrue

=============
