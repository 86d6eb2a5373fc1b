# Formal models of Vivat Bus (wtbus)

Vivat Bus is a multi-tenant CRM for bus carriers: a Go HTTP API
(`backend/cmd/api`), a Telegram bot with background loops (`backend/cmd/bot`), a
PostgreSQL database both write to, and a Next.js application (`app`, `components`,
`hooks`, `lib`) that passes the browser's calls on to the API and is at once the
office's screens, the public booking page and the driver's PWA. The program's own
logic is of two kinds: transactions on shared rows, started by people, by Telegram, by
the bank feed and by timers that do not know of each other; and screens that show
such rows while answers are late, lost or overtaken. This directory holds TLA+
models of both, TLC configurations that check them on small instances, and TLAPS
proofs. Paths below are relative to `src/`.

Running: `tlc -config <Run>.cfg <Module>.tla` for each run of `PROJECT.json`;
`tlapm <Module>.tla` for the proofs in `SeatSalesProofs`, `DriverGPSProofs`, `TripProofs`,
`GatewayProofs`, `CheckoutProofs`, `CashDeskProofs`, `PlannerProofs` and
`ScreensProofs`.

## 1. Inventory

| Part | State | Operations | What is hard | Module |
|---|---|---|---|---|
| Public checkout, API (`public_booking.go`) | `bookings`, `payments`, `public_booking_requests` | `publicCreateBooking` | the last seat, retries with one key, expired holds | SeatSales |
| Public checkout, page (`passenger-checkout.tsx`, `public-checkout-session.ts`) | wizard, request key, receipt in `sessionStorage` | search, steps, submit, status questions | lost answers, reloads, edits after consent | Checkout |
| Telegram bot (`bot/main.go`) | the same rows, dialogues in Redis | sale, cancellation, choice of payment, expiry of holds | stale buttons, holds that end meanwhile | SeatSales |
| Dispatcher's bookings (`api/main.go`, `booking_passengers.go`) | the same rows | create, change status, confirm, one more passenger | manual statuses, lock order | SeatSales |
| Bank (`finance_bank.go`) | statements, payments | `syncBank`, `matchBankPayment` | a transfer as the hold ends | SeatSales (matching) |
| Trips (`api/main.go`, `trip_operations.go`) | `trips` | create, update, status, early departure | capacity against sales, completion against bookings | SeatSales, TripLifecycle, Planner |
| Driver check-in and cash (`driver_checkin.go`) | check-ins, cash ledger | check-in, whole-trip receipt | cumulative targets, two ways to record the same cash | TripLifecycle |
| Company cash, payroll (`finance_accounting.go`, `finance_payroll.go`) | ledger, handovers, accruals, request ids | twelve operations and a direct collection | overspending, retries after edits, decisions that cross | CashDesk |
| Driver GPS (`gps-queue.ts`, `use-driver-gps.ts`) | IndexedDB queue, Web Locks, `gps_points` | capture, flush, drain before completion | offline, several windows, changed sessions | DriverGPS |
| Sessions (`proxy.ts`, `session-check.ts`, `app/api/*`) | cookie, cached checks, sessions | login, logout, page check, monitor | stale cache, outages taken for a logout | Gateway |
| Lists (`booking-registry.tsx` and nine more, `app-shell.tsx`) | items, filter, page, total | load, more, commands, live refresh | answers overtaken by later questions | Registry |
| Board (`kanban-3.tsx`, `lib/kanban.ts`) | order of cards, moves under way | move by pointer or keys, refusal | several moves, hidden cards | Board |
| Autosaved forms (`lib/autosave.ts`, fifteen forms) | saved value, queue, draft | commit, reset, load | commits on results that were replaced | Fields |
| Saved views (`entity-view-toolbar.tsx`, `entity_views.go`) | views with versions, drafts | select, save, rename, create, delete | other editors, drafts of tabs | Views |
| Feeds (`accounting-workspace.tsx`, `activity-history.tsx`, `notifications-inbox.tsx`) | rows, cursor, badge | pages, reload, filter, poll, mark as read | rows that appear late, pages of an older question | Feeds |
| Planner (`trips-planner.tsx`) | calendar rows, form, road | create, drag | conflicting trips, roads that load late | Planner |
| Push on a device (`lib/push-device.ts`, `pushSettings`) | native subscription, binding rows | enable, disable, check | native calls that cannot be aborted | PushDevice |
| Filters and selection (`lib/entity-query.ts`, `use-entity-selection.ts`) | tree of conditions, selected ids | compose, apply, bulk change | older kinds of filters, selections that outlive them | Collection |
| Deletion (`entity_deletion.go`, `company_cleanup.go`) | every table of a company | preview, confirm, delete | rows that appear in between | Deletion |
| Outboxes, subscriptions, imports, statistics, rendering | | | | none, section 6 |

How the parts meet. Everything about one trip meets in three kinds of rows, the
trip, its bookings and their payments. Handlers serialise with `SELECT ... FOR
UPDATE` on the trip (sales, added passengers, edits and status changes of the
trip), on the booking (everything about an existing one) and with an advisory lock
on the checkout's request key; payments and holds are resolved *without* the
trip's lock; the sweeps of expired holds are single statements. `now()` is fixed
when a transaction begins, `time.Now()` is read when the handler runs, and both
decide whether a hold still lasts. Money operations lock company, then driver. The
browser reaches the API only through the routes of `app/api`, each of which decides
what the page may know of an error; a request the browser gave up may still be
executed. Live messages make pages load again, and may be lost.

What makes each part correct is stated by the properties of section 3; the hazards
behind them, each with its line, are in `PROJECT.json`.

## 2. Modules

| Module | What it is |
|---|---|
| `BookingRules` | statuses and phases of bookings and trips (migration 000035), the trip's transitions, which rows occupy seats, the unique index; used by the next three |
| `SeatSales` | one trip, its bookings and payments, and every handler that sells, pays, changes, cancels or expires a booking or edits the trip, as concurrent PostgreSQL transactions |
| `SeatAllocator` | what `SeatSales` promises: grant, add a seat, retire, resize; no clock, locks or payments |
| `TripLifecycle` | one trip from sale to completion: marks, cash, early departure, the commands that read them |
| `DriverGPS`, `Checkout`, `Gateway`, `CashDesk` | the phone, the public page, sessions, the company's cash |
| `Registry`, `Board`, `Fields`, `Views`, `Feeds`, `Planner`, `PushDevice`, `Collection`, `Deletion` | the office's screens with the handlers they call |
| `MCScreens` | those nine, ten instances in one specification, for safety |
| `MCProgress` | `DriverGPS`, `Gateway`, `SeatSales`, `Registry`, `Feeds` in one specification, for liveness |
| `MCSeatSales`, `MCTripLifecycle`, `MCDriverGPS`, `MCCheckout`, `MCGateway`, `MCCashDesk` | constants, symmetry and constraints of a run |
| `SeatSalesProofs`, `DriverGPSProofs`, `TripProofs`, `GatewayProofs`, `CheckoutProofs`, `CashDeskProofs`, `PlannerProofs` | proofs about the module each extends; `PlannerProofs` also about `Registry`, its instance `Browse` |
| `ScreensProofs` | proofs about `PushDevice`, `Views`, `Fields`, `Feeds` and `Deletion`, which it has as the instances `Device`, `Tabs`, `Form`, `Lists` and `Removal` |

`MCScreens` and `MCProgress` put modules side by side that share nothing: a behaviour
is one of a single module, named by the variable `part`; `v1`, `v2`, ... hold that
module's variables. Every module has its own `Spec` and `TypeOK`; a `TypeOK` that no
run lists was checked while the module was written and documents the state.

### SeatSales

State: `clock`; `trip`; `bookings` (each row with its `payments` row and, as a
ghost, the request key it was made with); `requests` (`public_booking_requests`);
`tx`, one record per database session: program counter, handler, `now()`, locks
held, the trip row read under the lock, and the rows staged but not committed.

A handler is a path: `Begin...` opens the transaction and fixes `now()` (its guard is
the unlocked query some handlers start from); `LockKey`, `LockDueRows`, `LockTrip`,
`LockBooking` in the order of `FirstLock`/`LockAfter`; one action named after the
handler, with all its checks and staged writes; `Commit` or `Rollback` (an error, a
lost connection, a deadlock's victim). `ExpireBookingHolds` and `ListBookings` are
single statements and single actions. `updateBooking` and `cancelTelegramBooking`
lock booking then trip, `bookingPassengers` trip then booking: deadlocks happen.

A handler's reads are one step although the code reads in several statements. What
decides about seats is read under the trip's lock, and the handlers without it only
keep or release seats, so the one read sees what the several could. An `UPDATE` of a
row that another session has locked waits (`Stage`).

Left out: prices, passenger data, custom fields; statuses of payments that no handler
produces; availability blocks and deactivated routes, which only refuse sales;
`createBooking`'s link to a transfer request. Driver, vehicle, cash and departure
checks of `changeTripStatus` only refuse here, which `Rollback` covers. Bounds:
`MaxTime`, `HoldLength` (30 minutes), `MaxSeats` (20). `PromptCommit` says that the
clock does not tick between the re-check of a hold and the commit; the code does not
ensure it, and `LateCommit` shows what happens without.

### TripLifecycle

State: `clock`; `trip` (status, crew, departure, revision, approval key);
`bookings`, coarser than above; `checkins`; `ledger`, the `cash_collected` rows, where
the source `None` is a receipt of the whole trip; `command`, the handler that holds
the trip's lock between two statements; `altered`, a history of changes since the
approval. Handlers with the trip's lock run one after the other and are one action
each. The resolution of holds takes no such lock (`Beside`) and may commit between
the statements of a command, which are therefore several actions:
`ConfirmDriverCashReceived`, `RecordReceipt`; `Depart`, `RecordDeparture`; `Complete`,
`CountCash`, `RecordCompletion`. The approval key is kept as the record that
`trip_departure_manifest_key` hashes. Left out: seat counts (SeatSales has them), other
trips of the driver. Bounds: `MaxVersion`, `MaxRevision`, `MaxTime`, `Departures`,
`MaxSeats`. `QuietCommands`: no hold is resolved between a command's first check and its
commit; the code does not ensure it (section 5, 5).

### DriverGPS

State: the cookie's `session`; `drivers` of the trips; per window the runtime of
`useDriverGPS` (watching, the point being written, the batch being sent, the request,
the progress of `drain()` and of the PATCH that completes the trip); the IndexedDB
`store`; the two Web Locks; `late` requests; the server's `recorded` rows. Actions:
capture and write of a point, the timer's `Flush`, one POST per point, its execution
and answer, deletion of stored and refused points, drain and completion, a new
target, closing a window, signing in as somebody else, reassigning a trip. Left out,
as a superset: `authRequired`, which only disables buttons, and the pauses between
retries. A completion delivers the points of its own window and driver; those of
other windows are delivered by them. Bounds: `QueueLimit`, `BatchSize`, `MaxLate`; in
the run, requests may be late only before the points are stored and with two windows
only while a point is still to be captured (`Bound`).

### Checkout

State: the search form and result, the mounted wizard, the receipt in the tab's
storage, status questions and booking requests under way (waited for or not), the
server's rows and prices. `None` as an input is anything `validateCheckout` refuses;
other people's purchases are free choices of the server. One tab; the phone's clock is
the server's. Reloading, leaving the page, losing answers and retrying are actions.
Histories, which decide nothing: `visits` and `sent` count wizards and requests;
a wizard's `agreed` is what the consent was ticked for last, its `turn` how often the
details it sent were not the ones sent just before.

### Gateway

State: `sessions`, `cookie`, the server's cached `checks`, `tabs`. The fifty-odd routes
are a table (`Route`): what a route refuses itself, which answers of the API it passes
on and which it turns into 502 (export: 503). The tenant cache (30 s) is abstracted
into the path; entries may be evicted at any time; a lost answer is a 503.

### CashDesk

State: `till`, `cash` of custodians, `owed` and `withheld` of drivers, cash `received`
per booking, `handovers` with the ones whose collection is in the ledger (`collected`),
`written` request ids; the locks on the company's and the drivers' rows; `requests`;
`desks` (pages with a dialog). A request is sent, takes its locks (`Enter`, `Repeat`,
`LockDriver`), is weighed against the balances (`Weigh`) and booked (`Commit`), or aborts.
A page may give up at any time, edit and send again under the same id. Every refusal
is an error. One currency; the employer's charge is like the other withholdings; the
order of locks can deadlock in the code (a driver's receipt takes driver, then company
rows), which `Abort` covers. Left out: accruals at a trip's completion, phase checks of
receipts, bank balances.

### Screens

* `Registry`: one list of a screen: rows on the server, live messages (sent, lost),
  the page's `due` refresh, up to two overlapping loads, the shown `view`, one command
  (on a row, on the selection or elsewhere), the reader's attention and, on the
  transfer requests, a typed note. `Of` is the table of the ten screens: what aborts
  a load, what reloads after a command, whether it is paged. A row's status stands
  for all it shows; connecting again and the "ready" event are `Resync`.
* `Board`: `MergeCardOrder`, `PlaceKanbanCard`, `MergeVisibleCardOrder`,
  `RestoreKanbanCard` are those of `lib/kanban.ts`; moves by pointer (`Begin`, `Drop`,
  `CancelDrag`) and keys (`Grab`, `Carry`, `PutDown`, `Escape`), answers, loads, filters.
  In the run one direction of the workflow is allowed and sorting reverses the list.
* `Fields`: the queue of `createAutosaveQueue` and the forms as a table (`Plain` and its
  variants): which fields a write sends, when a load resets the queue, whether fields
  follow it. Requests may be refused, lost, or executed late. `crossed` marks that a
  load and a write were under way together, which most forms do not stand (section 5); on
  the driver's list, which does, it marks `Unmarked` instead.
* `Views`: the toolbar's tabs, drafts and dialogs, its autosaved names, and the API's
  versions and rights. `Stale` configurations are those whose columns are gone.
* `Feeds`: three lists with their own rules for reload, filter, next page; rows are
  drawn in order and become visible out of order (transactions). `shown` maps rows to
  what is shown of them, so that one page is put over another with `Over`. `crossed` marks that
  a known anomaly of the list happened (section 5).
* `Planner`: the form and its road, dragging, and the transactions with the
  exclusion constraints on drivers and vehicles.
* `PushDevice`: `createPushDevice` with its generation, pending native calls and queue
  of bindings; the page's and the monitor's checks; the rows on the server.
* `Collection`: the tree of conditions with `AppendQueryRule`,
  `RemoveColumnConditions`, `NormalizeQuery`, `MatchesQuery` (recursive, so this
  module is for TLC only), the dialog's draft, the selection and bulk runs.
* `Deletion`: previews, tokens, the serializable transaction statement by statement,
  other people's writes, and a company's cleanup that locks the tables. `Scope`, which the
  code gathers table by table, is the least set that holds the record and whatever refers
  to what it holds.

## 3. Runs

| Run | What is asked | Instance |
|---|---|---|
| `SalesAndPayments` | `NoOversell`; `RequestBooksOnce`; `PaidMeansConfirmed`; `NoLateConfirmation`, while three channels sell and every payment path runs | 2 sessions, bookings, customers; 1 key; capacity 2; clock to 2; 1.5 M states |
| `SalesAndChanges` | the inductive `SeatInvariant`; `OneActiveBooking`; `TerminalIsFinal`, with dispatchers' changes and added passengers | the same; 1.1 M |
| `SalesAndTrip` | `ImplementsSeatAllocator`, with capacity, departure and status changes | two departures; 0.9 M |
| `LateCommit` | `NoOversell` without prompt commits: violated | capacity 1 |
| `TripLifecycle` | `CashEnteredOnce`, `CashBalancesAtCompletion` | 2 bookings of one seat and two units; 2.7 M |
| `EarlyDeparture` | `EarlyDepartureAuthorised` | 1 booking, 2 crews, 2 revisions; 0.9 M |
| `PhoneGPS` | `NoPointLost`, `ServerRecord`, `OneWatcher`, `CompletionDelivers` | 2 windows, drivers, points; 1 trip |
| `PublicCheckout` | `ConsentCoversDetails`, `RetryBooksOnce`, `ReceiptSurvives`, `OutcomeShown` | 1 trip, 2 prices, 2 requests, 2 visits |
| `Sessions` | `ServedFresh`, `OutageIsNoLogout` | 2 tabs, 2 tokens, clock to 2 |
| `CompanyCash` | `CashCovered`, `HandoversSettleOnce`, `AnswerIsTrue` | office and wallet, 1 driver, 2 ids, 3 requests; 3.4 M |
| `Screens` | ten properties of the nine modules of screens | `MCScreens`; 2.6 M |
| `Progress` | six liveness properties | `MCProgress`; 156 k |

Why the bounds are enough. *Sales*: two bookings of up to two seats exceed a capacity
of two in every combination; two sessions are enough for every race of two handlers
while the sweeps, which need no session, run as a third; three clock values are
before, at and after a hold's end. *Trip*: prices of two units make part payments
possible; `EarlyDeparture` goes there and back, which is what a stale approval needs.
*Phone*: two windows and two drivers are what locks and scopes are about; a batch of two
out of a queue of one overflows it. *Cash*: three requests are a first one, its
repetition and a third party's, with balances that only one of them can take.
*Screens*: each instance lets two loads, moves, commits, editors, pages, checks or
transactions overlap, with the third event that exposes them (`MaxEvents`): all actions
of all instances were seen to fire. Symmetry is used where no action or property
orders the values, never with liveness.

`CHECK_DEADLOCK FALSE`: everybody may stop asking, and clocks and events are bounded.

Every property of a passing run has a mutant (`PROJECT.json`): a definition as a
plausible bug would leave it, for which TLC finds the property violated in that run.

### The properties of Screens

`TrueOrKnows`: what a list shows is what the server has for its filter, or something
that will renew it is on its way (a message, a load, a due refresh). Checked for
bookings, customers, transfer requests, trips and statistics; `stray` excepts the
anomalies of section 5, for which the other five screens are not claimed at all.
`BoardIsKept`: a refusal returns only the refused card, and hidden cards keep their
places. `WorkIsKept`: what was committed is saved, refused aloud or on its way, what
was acknowledged is not taken back by one's own later writes; the drafts of tabs
survive. `WritesKeepTheRest`: a save of a view keeps the name and a rename the
configuration others gave it. `FeedIsWhole`: a paged list has no hole between its newest
and oldest row. `DeviceIsAsShown`: a disconnected device stays so; one that is shown as
connected is. `FiltersAsComposed`: a column's search narrows, clearing takes exactly its
conditions, what is applied is what was composed. `SelectedWereShown`: a bulk change
touches only records that were shown under these filters. `DeletionAsShown`: a deletion
takes exactly the previewed rows and leaves no reference dangling. `PlanHolds`: no
vehicle and no driver has two trips at one time, and a planned trip has the road and
price that were shown.

### Fairness

`Progress` merges the fairness of the modules' own `LiveSpec`s. Only one part runs in
a behaviour, so one condition may join an action of each: `Strong1` is strong fairness of
the phone's answer, or of the tab's check, or of the bot's sweep, and so on. What is
assumed, and why:

* *Sales*: the clock advances; the bot's loop fires each minute and its `UPDATE` queues
  for the rows it needs (SF); a session that has something to do does it or fails, since
  PostgreSQL queues lock waiters (SF); the deadlock detector removes a victim. No client
  is obliged to begin anything.
* *Phone*: the five-second timer and the runtime's own steps; requests repeated for
  ever are answered some time (SF). `PointsLeave` speaks of drivers who stay signed in.
* *Sessions*: the monitor's timer (WF); of its questions, asked each minute, not all
  are lost and not all are cut off by a reload (SF).
* *Lists, bell*: the one-second, 25- and 30-second and one-minute timers (WF); requests end,
  commands are executed or fail (WF); of loads repeated for ever one succeeds and is
  not aborted (SF). `ScreenCatchesUp` speaks of a page that is looked at, with no field
  or dialog open, from some time on.
* *Checkout* (`OutcomeShown`): the ten-second timer, and questions repeated for ever are
  answered some time.

## 4. Proofs

`SeatSalesProofs`, for every value of the constants that satisfies `SalesAssumption`:
`TypeCorrect` (`Spec => []TypeOK`) and `NeverOversold` (`Spec => []NoOversell`, assuming
`PromptCommit` and `OrderlyManualMoves`, both necessary: section 5). `NoOversell` alone is
not inductive: a staged row or a stale read could break it at the next commit.
`SeatInvariant` adds `LocksExclude` (no two sessions hold the same row lock, and a
handler that decides about seats holds the trip's), `ReadsStayTrue` (the trip row read
under its lock is still the committed one) and `StagedFits` (with the trip's lock, the
trip as the session sees it fits; without it, no staged row holds seats its committed
row does not hold). The heart of the argument: handlers without the trip's lock never
gain seats, so they cannot spoil what a handler with the lock has counted
(`StillFits`, `StillNoGain`), and seats only fall with time (`HeldEarlier`). One lemma per
action (`SeatsOf...`); the counting lemmas rest on `FiniteSetTheorems`.

Its second part, on what a booking goes through, needs no `PromptCommit`. `RowsInvariant` says that an image staged for a
row follows from the committed row it will replace (`Follows`), that this row is not
over, and that no other session has it locked; it gives `TerminalStaysFinal`, for every
`ManualMoves`. `KeyInvariant` adds that a row with a request key is recorded under it
and that of two sessions with one key one still waits for the advisory lock
(`KeysBookOnce`). `PaymentInvariant` adds that a matched transfer belongs to a booking
that still waits for it (`PaymentsConfirm`); it assumes `OrderlyPaymentMoves`, that staff
set no unpaid status by hand, as the code lets them (section 5, 2). Three lemmas
(`SaleStages`, `ChangeStages`, `TripStages`) say once what each group of handlers writes.

Its third part assumes `PromptCommit` and `OrderlyManualMoves`. `ShapeInvariant`
classifies what is staged: one new booking beside holds that lapsed, one more seat, the
trip alone, or seats given up. From it follow `NoLateConfirmations`,
`OneBookingPerCustomer` (`ActiveInvariant`: under the trip's lock the rows as the session
sees them have one active booking per customer) and the refinement
`SalesImplementAllocator`, one lemma for each kind of step of `SeatAllocator`
(`KeepsOrRetires`, `StepGrants`, `StepAdds`, `StepResizes`). The assumptions hold of the
runs' constants (`OrderlyMoves`, `PromptCommit = TRUE`).

`DriverGPSProofs`, for any number of windows, drivers, trips and points:
`GPSTypeCorrect`; `PointsAreKept` (`NoPointLost`) and `ServerKeepsOneRow`
(`ServerRecord`) from `GPSInvariant`, which relates every request under way, late ones
included, to the point it carries; `CompletionIsSound` (`CompletionDelivers`) from
`CompletionInvariant`, which says how far `drain()` has come; `OneWatcherHolds`
(`OneWatcher`): the capture lock's holder is the window that watches.

`TripProofs`, for any number of bookings, crews and any tariff. `TripTypeCorrect` also says
that no booking is charged more than its seats cost. `DepartureIsAuthorised` and
`CashBalances` hold of commands between whose statements no hold is resolved
(`QuietCommands`; section 5, 5). `LifecycleInvariant` says that what a command checked is
still true when it writes (`DepartureChecked`, `CashCounted`), that an approval differs
from the current plan by the revision or by a row's version whenever something has
changed since, even there and back (`ApprovalTraced`), and that a booking in payment
has no check-in (`FreshHolds`, by `NoReturnToPayment`: staff do not send bookings back
to payment by hand; the run's `Moves` satisfy it). The cash due (`Fares`) and the cash
in the ledger (`Entered`) are folds; the proof needs only on which rows they depend.

`GatewayProofs`, for any number of tabs, tokens and any lifetime of the cache. Both
properties speak of one step, an answer that reaches a page, but depend on what
happened since the call was made. `SessionInvariant`: a call carries only tokens that
were issued, so that a session which is over for it stays over until the answer
(`CallsHaveSessions`, `LossIsTrue`), and a cached check lasts at most its lifetime
beyond the session's end (`CacheIsFresh`).

`CheckoutProofs`, for any number of trips, requests and visits, with and without
`sessionStorage`. `CheckoutInvariant`: while the consent is ticked the details on the
screen are the ones it was ticked for (`ConsentIsCurrent`); whatever carries a request
key, the wizard, requests that the page no longer waits for, the server's rows, has one
key per visit and turn, and none is ahead of the wizard (`OneKeyPerTurn`); a key is in one
row (`OneRowPerKey`); references name rows (`Counted`). Looking for it showed that an
earlier form of `RetryBooksOnce`, one booking for equal details of one visit, fails with
three requests (section 5, "Public page"): the run's two could not show it. The property
now speaks of repetitions. `NoneAssumption` says that `None` is not a number or a record.

`CashDeskProofs`, for any number of pages, drivers, bookings and requests. `CashCovered`
alone is not inductive, since a request weighed against a balance books it later.
`CashInvariant` adds that a request between `Weigh` and `Commit` holds the locks of the
balances it weighed (`CompanyHeld`, `DriversHeld`), that they still cover it
(`StillCovered`), that its id is still unwritten (`StillNew`), that dialogs and requests name
what their operation needs (`DialogsInOrder`, `RequestsInOrder`) and that a handover is
written with the request that asked for it (`HandoversWritten`). Deductions are shares of at most a whole (`RatesAssumption`, as the
code's validation has it), so that rounding never exceeds the gross amount
(`RoundWithin`).

`PlannerProofs`, for any number of trips, routes, vehicles and drivers and a day of any
length. `NoDoubleAssignment` is inductive by itself: a conflict is mutual (`PutKeeps`), and
a submission finds a free row of its own for each departure (`RowsOfTheirOwn`).
`PlannedAsShown` rests on what form and road have in common while routes, kinds and
vehicles change: the price is the one of route and vehicle unless it was typed
(`FormFits`), and the road, also one that is asked for or being built, is the one of the
form's route (`RoadFits`). Together they are `PlanHolds` of `Screens`.

Its second part, *Browse* (`Registry`), for any rows, pages of any size and any number of
changes, commands and filters: `ListsAreTrueOrKnow` (`TrueOrKnows`, of which `Screens` has two
instances), which speaks of the five screens whose loads abort or repeat each other
(`Careful`). What a list shows may be old; the claim is that something is
then still to come, and every load, answer, patch and message takes one such thing away.
`RegistryInvariant`: a careful screen has one load of its list, and more rows are asked for
only when there is none (`Sequential`); an answer under way is what the server has, or a message
or a refresh says otherwise (`ListIsTrue`); where nothing renews the list it is the server's
(`ShownIsTrue`), what more is loaded begins where it ends and leaves something to show
(`MoreIsTrue`), and no command has changed a row that was not loaded since (`CommandIsSeen`).
Pages are counted: the first `n` rows and the `m` first of the rest are the first `n + m`
(`HeadsJoin`). `RegistryAssumption` says that rows are numbers, that the screens are among the
ten and that `None` is none of the values it stands beside.

`ScreensProofs` has five parts, each about one module, with its own invariant and its own
theorems. The properties of `Screens` are conjunctions over instances in `MCScreens`, where
`Collection` brings in recursive operators; the theorems state the conjuncts in their modules.

*Device* (`PushDevice`), for any number of checks and endpoints: `DeviceIsAsShown`, in two
parts. `PushInvariant` says that whoever waits for a write waits for exactly one, at the
generation it was asked in (`Waiting`); a check as young as the generation was begun with
no action under way and has the subscription that is there (`ChecksFit`); a deletion
that is still on its way, also one that was given up, never names the subscription that
is there (`DeletionsAreOld`), since the browser's endpoints are new each time; and what
the first write of the queue has done is in the rows (`HeadServed`). So nothing that is
late can connect a disconnected device (`OffIsQuiet`) or take the row of a connected one
(`EnabledIsBound`). `PushAssumption` says that "act" is not a check and that `None` is
none of the values it stands beside.

*Tabs* (`Views`), for any views, names and configurations: `DraftsSurvive` (its conjunct of
`WorkIsKept`) and `SavesKeepTheRest` (`WritesKeepTheRest`). A write sends a whole view, so
that it takes nothing back only if what it carries is still true. `ViewsInvariant` says
that whatever the page knows of a view, from a list, from a load or an answer under way,
was once so on the server and, if its version is the server's, still is (`PageIsTrue`,
`WritesAreTrue`); the API's comparison of versions does the rest. Every draft is on the
screen or put aside, whether or not its view still exists (`DraftsKept`).

*Form* (`Fields`), for any fields, values and each of the fifteen forms: `EditsSurvive` (the
other conjunct of `WorkIsKept`), and for forms that load once `LoadedOnceLosesNothing`, the same
without any exception. `FieldsInvariant`, as long as nothing is `crossed`: what was
committed is in the queue or under way (`AskedIsPending`), all of it on results that are
still the current ones (`AllLive`), no load comes between (`Quiet`), and a field that was
acknowledged has its value wherever the screen might take it from: the server, the saved
record, the queue, the write and the answer of a load (`MineHolds`).

*Lists* (`Feeds`), for any number of rows and any size of a page: `FeedsAreWhole` (`FeedIsWhole`).
`FeedsInvariant`: an answer holds every row of its filter that there was from where it was
asked down to its last (`AnswersAreWhole`), though rows may appear between others
afterwards; there is one load, of the list's filter (`OneCall`); a further page begins at or
above a row that is shown (`GoesBelow`). So putting one over the other leaves no hole between
them (`ListIsWhole`). The least and the newest rows of a page come from `FiniteSetTheorems`.

*Removal* (`Deletion`), for any records and any relation between them: `DeletionsAreAsShown`
(`DeletionAsShown`), with the foreign keys. `DeletionInvariant`: a transaction that deletes found
the rows it was shown; what it has touched is as it was then, and everything that refers to
a row it deletes has been touched too (`Consented`); no two transactions touch one row
(`TouchedOnce`). The first needs that `Scope` is closed: a row that refers to one of the scope
was itself shown (`ReferringWasShown`).

`TripProofs` also has `CashIsEnteredOnce` (`CashEnteredOnce`: a booking's own entries add up to what its check-in shows). `CashTraced` says that an entry of a booking was for a total that its check-in has reached, so
that a new one is never among them. The cash of a booking is a sum over the ledger, a
fold; what the proof needs of it (a sum grows by what is added, and is at least each part)
cannot be had by an induction theorem here. It is had from a least counterexample instead:
finite sets are well founded under inclusion (`Smallest`).

Every inductive invariant was checked by TLC before it was proved, on the instances of
section 3: `SeatInvariant` to `ActiveInvariant` on the three sales runs, `CashInvariant` on
`CompanyCash`, `LifecycleInvariant` and `CashTraced` on the trip runs, `SessionInvariant` on
`Sessions`, `CheckoutInvariant` on `PublicCheckout` (0.8 M states; with three requests and no
storage 7.8 M), `PlanInvariant` on a day of three steps with trips of two lengths
(4.3 M), `PushInvariant` with two checks and three endpoints (0.27 M), `ViewsInvariant` (0.4 M),
`FieldsInvariant` with five events (2.6 M), `FeedsInvariant` with three (0.9 M),
`DeletionInvariant` (80 k) and `RegistryInvariant` (one event on all ten screens, two on
bookings and requests, 3 M each).

Only model-checked: `BoardIsKept`, `SelectedWereShown` and `FiltersAsComposed`, whose modules
work on sequences filtered by recursion and on trees, that is, need induction over data and
recursive operators; and all liveness (`OutcomeShown` and the six of `Progress`), since
fairness and ENABLED are outside the prover's reach.

## 5. Known divergences

Found while modelling; `LateCommit` has a run, the others are excepted by name in the
properties, or are why a property is not claimed.

Sales and trips:

1. A hold's end is checked under the booking's lock while sales count seats under the
   trip's: between check and commit the seat is on sale (`LateCommit`). For a bank
   statement the window is the rest of the statement.
2. `updateBooking` writes any status without looking at seats or holds: a hold that ran
   out can be "confirmed" after its seats were sold; one set to awaiting payment has no
   end. Hence `OrderlyManualMoves`.
3. The public checkout expires the customer's old hold without its payment, which no
   sweep finds any more, although `README.md` says that a retry cancels it.
4. Payments do not look at the trip: a hold confirmed after the completion stays
   "confirmed" for ever.
5. The cash due is summed in one statement and the bookings completed in a later one: a
   hold switched to cash in between is completed unpaid. Hence `QuietCommands`.
6. A booking pays 2 and is cancelled; a manager enters 1 for the trip; the driver then
   confirms the whole trip's cash. The code compares it with the *first* cash row of the
   trip and records another booking as paid.
7. A passenger may be sold to after boarding began: "boarding" is of phase "assigned".

Public page: after a reload the request key is gone with the tab's storage if the
browser refuses storage, and a replay after the hold was replaced loses its token
(`public_booking.go:312-322`). Leaving the page keeps an unanswered request alive. Details that are changed and changed
back get a new key (`passenger-checkout.tsx:235-237` compares with the last ones only): if
the answer to the first request was lost, the repetition is refused as a duplicate, or
books again once the first booking has expired or was cancelled.

Sessions: some routes turn the API's 401 into 502, so the page does not learn of it
(`docs/auth-sessions.md:7`); the monitor does, which is `SessionLossNoticed`. A late
answer to `/api/auth/me` may clear the cookie of a newer session
(`app/api/auth/me/route.ts:34-41`, `docs/auth-sessions.md:4`).

Cash: a direct collection ignores pending handovers (`main.go:6887`), although
`docs/finance-management.md:15` says that a pending handover reserves its part; no page
offers it, and the handover then fails at acceptance. A booking's cash is cumulative: a
stale page records less than was paid.

Lists: a command's `await load()` uses the filter of the render it began in; a booking
moved out of a filter twice lowers the total twice; a load under way resets a typed note
of a transfer request (`individual-transfer-requests.tsx:177-181`); a command's
`setError(null)` hides a failed load; the fleet drops a refresh during a load; on team,
routes and finance an older answer may overwrite a newer one. The 25- and 30-second
timers repair all of them.

Board: a card put down by keys restores the order of when it was grabbed, also of other
cards; under a filter, the first hand-made order puts hidden cards after the visible ones
(`lib/kanban.ts:33`).

Autosave: a refresh beside a write takes a saved field back and silently drops queued
commits on detail and company pages and reviews (`entity-detail-page.tsx:441`; `crossed` in
`Fields`); on the driver's list, a passenger who is marked to and fro and to again
(`driver-passenger-manifest.tsx:82`: the first acknowledgement equals the last choice and
clears `dirty`) is taken for saved while two marks wait, and the next refresh of the list
drops them (`Unmarked`; it takes five events, and was found by the proof of `EditsSurvive`); reopening a custom field's editor drops its queued commits; writes carry
`AbortSignal.timeout` although `lib/autosave.ts:1` says never to abort one; a write
sends all fields and overwrites other people's edits.

Views: an answer for one view may be applied to the tab chosen meanwhile
(`entity-view-toolbar.tsx:469-474`). Drafts are not kept when a view is created from the
tab, the first load overwrites earlier edits, one's own rename makes a save fail with
409, choosing a tab drops queued renames, reverting during a save and switching loses
the reversion, and clicking the current tab swaps its edits with stashed ones.

Feeds: the ledger's reload after an operation has the old filter and the current
generation (stray rows); a failed first page is not retried; in the log nothing retries a
failed older page, and pressing the chosen table empties it until the next refresh;
`activity.go` pages by id, so rows committed late are missed; in the inbox more than a
page of new rows, or "more" after a failed first page, leaves a hole.

Planner: dragging sends the whole stale row and takes the lane's driver, although a
comment (`trips-planner.tsx:1187`) says that the driver stays; a change of vehicle
overwrites a typed price; a price of 0 becomes the default; "individual" keeps the
route's price.

Push: a binding given up after 12 seconds and executed late returns after the
disconnection; disconnecting without a native subscription sends no DELETE.

Filters: the builder counts conditions and not groups, so that `normalizeQuery` silently
cuts more than 40 nodes (`advanced-filter-builder.tsx:297`, `entity-query.ts:174`). A failed
bulk change selects again what other filters hide; a row that no longer matches after a
refresh stays selected.

Deletion: a vehicle's GPS points are part of its token, so that its confirmation may go
stale again and again. Cleanup and a deletion may deadlock; PostgreSQL ends one
(`Abort`).

## 6. Not modelled

* Telegram and push outboxes (leases, attempts, quiet hours) and the bot's dialogue.
  Next in the plan, as a queue with leases whose worker may die between send and mark.
* `syncBank`'s windows and advisory lock; trip readiness across several trips of one
  driver; `finalizeDriverPayroll`. Planned after the outboxes.
* Subscriptions, provisioning, imports, navigation places, statistics: single
  idempotent statements or validated writes of single rows.
* The login throttle and membership changes of the API.
* Rendering, gestures, charts, translations, the service worker's caches. Error texts,
  URL parameters and layout of the modelled screens, and a second tab of `Fields`,
  `Views`, `PushDevice`.
* The bot's `reconcileIBANPaymentsLoop`, which is never started.
