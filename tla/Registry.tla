------------------------------ MODULE Registry ------------------------------
(***************************************************************************)
(* The list screens of the dispatchers: bookings, trips, customers,        *)
(* requests, vehicles, team and routes.  Each shows rows of the server,    *)
(* loads them again when a message says that something changed, loads more *)
(* of them as the reader scrolls, and sends commands whose answers patch   *)
(* or reload the list.  The screens differ in what a load does to the one  *)
(* before it and in how a command's answer reaches the list; a behaviour   *)
(* is one of one screen.  A row's status stands for all that it shows.     *)
(***************************************************************************)
EXTENDS Naturals, FiniteSets, FiniteSetsExt

CONSTANTS
  Rows,         \* numbers; the server lists its rows in their order
  PageSize,     \* rows of a page of a paged list
  Screens,      \* the screens to look at
  None,
  MaxEvents     \* bound on the changes by others, the commands and the filter's changes

\* What a row shows: as it was made, or after somebody moved or edited it.
Shown == {"new", "done"}
Slots == {1, 2}   \* bound on the loads that overlap

RegistryAssumption ==
  /\ Rows \subseteq Nat /\ IsFiniteSet(Rows)
  /\ PageSize \in Nat \ {0} /\ MaxEvents \in Nat
  /\ Screens \subseteq {"bookings", "customers", "requests", "trips", "fleet", "team",
                         "routes", "statistics", "dashboard", "finance"}
  /\ None \notin Shown /\ None \notin Rows
  /\ None \notin [kind : {"list", "more"}, by : {"page", "realtime", "button"},
                   filter : {"all", "new"}, shown : Nat, from : Nat,
                   answer : [got : {"waiting", "failed", "rows"},
                             items : UNION {[S -> Shown \cup {None}] : S \in SUBSET Rows},
                             total : Nat]]

VARIABLES
  screen,
  rows,       \* the server's rows: a status, or None
  news,       \* the message about the last change: on its way, lost, or there is none
  pending,    \* AppShell: something changed since the last refresh began
  attention,  \* the reader looks at the page, or a field, a dialog or another tab has him
  view,       \* the component's state; "stopped": its last load was aborted
  due,        \* the filter changed and its load has not begun
  loads,      \* requests for rows that the screen waits for
  command,
  again,      \* statistics: load once more after this load
  typed,      \* requests: the row whose note is typed and not saved
  stray,      \* history: since the last rows of this filter a load failed, or a command's
              \* answer came to a list that is not the one it was called from
  events

server == <<rows, news>>
shell == <<pending, attention>>
list == <<view, due, loads, again, stray>>
vars == <<screen, server, shell, list, command, typed, events>>

-----------------------------------------------------------------------------
\* The screens.

\* What a load of the screen itself ("own") and one of AppShell ("refresh") do while
\* another load is under way; whether AppShell waits for its load; whether a failed
\* load empties the list; whether the server filters the list and hands it out in
\* pages; whether a new filter drops the loads of the old one and hides its rows.
Plain ==
  [own |-> "overtakes", refresh |-> "overtakes", awaited |-> TRUE, empties |-> FALSE,
   filtered |-> FALSE, paged |-> FALSE, drops |-> TRUE, hides |-> FALSE, timer |-> FALSE]
Latest == [Plain EXCEPT !.own = "aborts", !.refresh = "aborts"]

Bookings   == [Latest EXCEPT !.filtered = TRUE, !.paged = TRUE]
Customers  == [Latest EXCEPT !.empties = TRUE, !.filtered = TRUE, !.paged = TRUE]
Requests   == [Latest EXCEPT !.empties = TRUE, !.filtered = TRUE]
Trips      == [Latest EXCEPT !.empties = TRUE, !.awaited = FALSE]
Fleet      == [Plain EXCEPT !.own = "waits", !.refresh = "waits", !.timer = TRUE]
Team       == Plain
Catalog    == Plain
Statistics == [Latest EXCEPT !.own = "queues", !.awaited = FALSE, !.filtered = TRUE,
                             !.hides = TRUE, !.timer = TRUE]
Dashboard  == [Plain EXCEPT !.refresh = "aborts", !.awaited = FALSE, !.timer = TRUE]
Finance    == [Plain EXCEPT !.awaited = FALSE, !.filtered = TRUE, !.drops = FALSE,
                            !.timer = TRUE]

Of == CASE screen = "bookings" -> Bookings [] screen = "customers" -> Customers
        [] screen = "requests" -> Requests [] screen = "trips" -> Trips
        [] screen = "fleet" -> Fleet [] screen = "team" -> Team
        [] screen = "routes" -> Catalog [] screen = "statistics" -> Statistics
        [] screen = "dashboard" -> Dashboard [] screen = "finance" -> Finance

\* One status stands for all that a server can filter by.
Filters == IF Of.filtered THEN {"all", "new"} ELSE {"all"}

Matching(f) == {r \in Rows : rows[r] # None /\ f \in {"all", rows[r]}}

\* The first n of a set of rows.
Head(S, n) == {r \in S : Cardinality({q \in S : q < r}) < n}

-----------------------------------------------------------------------------
\* The server and its messages (external).

Event == events < MaxEvents /\ events' = events + 1

OtherChange(r) ==
  /\ Event
  /\ \E s \in (Shown \cup {None}) \ {rows[r]} : rows' = [rows EXCEPT ![r] = s]
  /\ news' = "sent"
  /\ UNCHANGED <<screen, shell, list, command, typed>>

\* A message reaches the monitor, which tells AppShell, or finds no connection.
Invalidate ==
  /\ news = "sent" /\ news' = "none"
  /\ pending' = TRUE
  /\ UNCHANGED <<screen, rows, attention, list, command, typed, events>>

LoseMessage ==
  /\ news = "sent" /\ news' = "lost"
  /\ UNCHANGED <<screen, rows, shell, list, command, typed, events>>

Ready == pending' = TRUE /\ news' = IF news = "lost" THEN "none" ELSE news

\* Mutant of Resync: "ready" is taken for a message that was seen before.
ResyncSeen ==
  /\ UNCHANGED <<pending, news>>
  /\ UNCHANGED <<screen, rows, attention, list, command, typed, events>>

\* "ready" is the first message of a connection, and the server repeats it every 25
\* seconds; the monitor says it itself when the tab is seen again, and every 30
\* seconds while there is no connection.
Resync ==
  /\ Ready
  /\ UNCHANGED <<screen, rows, attention, list, command, typed, events>>

-----------------------------------------------------------------------------
\* Loads.

NoRows == [r \in {} |-> None]
Empty(got) == [got |-> got, items |-> NoRows, total |-> 0]
Waiting == Empty("waiting")
Failed == Empty("failed")

Load(kind, by, v) ==
  [kind |-> kind, by |-> by, filter |-> v.filter,
   shown |-> IF kind = "more" THEN Cardinality(DOMAIN v.items) ELSE 0,
   from |-> IF kind = "more" THEN v.next ELSE 0, answer |-> Waiting]

InFlight(kind) == {s \in Slots : loads[s] # None /\ loads[s].kind = kind}

NoLoads == [s \in Slots |-> None]

Begun(v) == [v EXCEPT !.loading = TRUE, !.stopped = FALSE]

\* Mutant of LoadList: a load lets the one before it go on.
LoadListAnyway(v, f, by) ==
  \E s \in {s \in Slots : loads[s] = None} :
    /\ view' = Begun(v)
    /\ loads' = [loads EXCEPT ![s] = Load("list", by, [v EXCEPT !.filter = f])]
    /\ UNCHANGED again

\* load() of a screen whose state is v; f is the filter of the closure that is called.
LoadList(v, f, by) ==
  LET load == Load("list", by, [v EXCEPT !.filter = f])
      overlap == IF by = "page" THEN Of.own ELSE Of.refresh IN
  CASE overlap = "aborts" \/ (overlap \in {"waits", "queues"} /\ InFlight("list") = {}) ->
         /\ view' = Begun(v)
         /\ loads' = [NoLoads EXCEPT ![1] = load]
         /\ again' = FALSE
    [] overlap = "waits" /\ InFlight("list") # {} ->
         view' = v /\ UNCHANGED <<loads, again>>
    [] overlap = "queues" /\ InFlight("list") # {} ->
         view' = v /\ again' = TRUE /\ UNCHANGED loads
    [] overlap = "overtakes" ->
         \E s \in {s \in Slots : loads[s] = None} :
           /\ view' = Begun(v)
           /\ loads' = [loads EXCEPT ![s] = load]
           /\ UNCHANGED again

\* A new filter drops the loads of the old one at once; its own begins after a pause.
SetFilter(f) ==
  /\ f # view.filter /\ Event
  /\ view' = [view EXCEPT !.filter = f, !.stopped = Of.drops,
                          !.items = IF Of.hides THEN NoRows ELSE @]
  /\ due' = TRUE /\ again' = FALSE
  /\ loads' = IF Of.drops THEN NoLoads ELSE loads
  /\ UNCHANGED <<screen, server, shell, command, typed, stray>>

LoadDue ==
  /\ due /\ due' = FALSE
  /\ LoadList(view, view.filter, "page")
  /\ UNCHANGED <<screen, server, shell, command, typed, stray, events>>

\* AppShell's second: one refresh at a time, and none under a dialog or a focused field.
Asking == command # None /\ command.stage = "asking"

Attended == attention = "page" /\ ~Asking

Refreshing == Of.awaited /\ \E s \in InFlight("list") : loads[s].by = "realtime"

RefreshTick ==
  /\ pending /\ ~Refreshing /\ Attended
  /\ pending' = FALSE
  /\ LoadList(view, view.filter, "realtime")
  /\ UNCHANGED <<screen, server, attention, due, command, typed, stray, events>>

\* The button, and the phone's pull.
RefreshPage ==
  /\ Attended /\ ~view.loading /\ InFlight("list") = {}
  /\ LoadList(view, view.filter, "button")
  /\ UNCHANGED <<screen, server, shell, due, command, typed, stray, events>>

\* The screen's own 30 seconds; statistics also listen to the messages themselves.
Timer ==
  /\ Of.timer /\ LoadList(view, view.filter, "page")
  /\ UNCHANGED <<screen, server, shell, due, command, typed, stray, events>>

\* The end of the list comes into sight.
LoadMore ==
  /\ Of.paged /\ Attended
  /\ ~view.stopped /\ ~view.loading /\ InFlight("more") = {} /\ view.next < view.total
  /\ loads' = [loads EXCEPT ![2] = Load("more", "page", view)]
  /\ UNCHANGED <<screen, server, shell, view, due, again, command, typed, stray, events>>

Respond(s, answer) ==
  /\ loads[s] # None /\ loads[s].answer = Waiting
  /\ loads' = [loads EXCEPT ![s].answer = answer]
  /\ UNCHANGED <<screen, server, shell, view, due, again, command, typed, stray, events>>

\* The rows of a page, after the first "from" that match.
Page(load) ==
  LET all == Matching(load.filter)
      rest == all \ Head(all, load.from)
      page == IF Of.paged THEN Head(rest, PageSize) ELSE rest
  IN  [got |-> "rows", items |-> [r \in page |-> rows[r]], total |-> Cardinality(all)]

Serve(s) == loads[s] # None /\ Respond(s, Page(loads[s]))

Fail(s) == Respond(s, Failed)

Loaded(v, answer) ==
  [v EXCEPT !.items = answer.items, !.next = Cardinality(DOMAIN answer.items),
            !.total = answer.total, !.loading = FALSE]

\* The customers' list is emptied, but not its offset and its total.
LoadFailed(v) ==
  [v EXCEPT !.items = IF Of.empties THEN NoRows ELSE @,
            !.total = IF screen = "requests" THEN 0 ELSE @,
            !.loading = FALSE]

ReceiveList(s) ==
  /\ s \in InFlight("list") /\ loads[s].answer # Waiting
  /\ IF again THEN again' = FALSE /\ loads' = [loads EXCEPT ![s] = Load("list", "page", view)]
     ELSE UNCHANGED again /\ loads' = [loads EXCEPT ![s] = None]
  /\ IF loads[s].answer = Failed
     THEN view' = LoadFailed(view) /\ stray' = TRUE /\ UNCHANGED <<typed, command>>
     ELSE /\ view' = Loaded(view, loads[s].answer)
          /\ stray' = (loads[s].filter # view.filter)
          /\ typed' = None
          /\ command' = IF command = None THEN None ELSE [command EXCEPT !.reloaded = TRUE]
  /\ UNCHANGED <<screen, server, shell, due, events>>

\* Rows that are there already stay as they are.
Appended(v, load) ==
  LET page == load.answer.items
      old == v.items
  IN  [v EXCEPT !.items = [r \in (DOMAIN old) \cup (DOMAIN page) |->
                             IF r \in DOMAIN old THEN old[r] ELSE page[r]],
                !.next = @ + Cardinality(DOMAIN page),
                !.total = IF page = NoRows THEN load.shown ELSE load.answer.total]

ReceiveMore(s) ==
  /\ s \in InFlight("more") /\ loads[s].answer # Waiting
  /\ loads' = [loads EXCEPT ![s] = None]
  /\ view' = IF loads[s].answer = Failed THEN view ELSE Appended(view, loads[s])
  /\ UNCHANGED <<screen, server, shell, due, again, command, typed, stray, events>>

-----------------------------------------------------------------------------
\* Commands. An answer patches the row ("keep"; "drop": the row leaves a list of
\* another status), the row is patched before the answer ("first"), or the list is
\* loaded again. A form stays open until its command succeeds.

Op(how, asks, where, many) == [how |-> how, asks |-> asks, where |-> where, many |-> many]

MoveBooking     == Op("drop", BOOLEAN, "page", "one")
CancelBooking   == Op("reload", {TRUE}, "page", "one")
ConfirmTransfer == Op("reload", {FALSE}, "page", "one")
CancelSelected  == Op("reload", {TRUE}, "page", "goes on")
CreateBooking   == Op("reload", {FALSE}, "elsewhere", "one")
MoveTrip        == Op("keep", BOOLEAN, "page", "one")
SubmitTrip      == Op("reload", {FALSE}, "elsewhere", "one")
RescheduleTrip  == Op("reload", {FALSE}, "page", "one")
SubmitCustomer  == Op("reload", {FALSE}, "elsewhere", "one")
SaveVehicle     == Op("reload", {FALSE}, "elsewhere", "one")
MoveVehicle     == Op("keep", BOOLEAN, "page", "one")
ToggleVehicle   == Op("reload", BOOLEAN, "page", "one")
FleetStatus     == Op("reload", BOOLEAN, "page", "goes on")
CreateMember    == Op("reload", {FALSE}, "elsewhere", "one")
UpdateMember    == Op("reload", {FALSE}, "page", "one")
MoveRole        == Op("keep", {FALSE}, "page", "one")
UpdateSelected  == Op("reload", {FALSE}, "page", "stops")
SaveRoute       == Op("reload", {FALSE}, "elsewhere", "one")
MoveRoute       == Op("first", BOOLEAN, "page", "one")
RoutesStatus    == Op("reload", {FALSE}, "page", "goes on")
UpdateRequest   == Op("keep", BOOLEAN, "page", "one")
RequestsStatus  == Op("reload", BOOLEAN, "page", "goes on")
SaveNote        == Op("keep", {FALSE}, "elsewhere", "one")

\* A developer's deletion: the dialog shows what goes with the record.
Remove          == Op("reload", {TRUE}, "page", "one")

\* Which moves a workflow allows, in the browser and in the API.
Free == screen \in {"customers", "fleet", "team", "routes"}
CanMove(s, t) == s # t /\ s # None /\ (Free \/ s = "new")

Status(r) == IF r \in DOMAIN view.items THEN view.items[r] ELSE None

Moving == {m \in (DOMAIN view.items) \X Shown : CanMove(Status(m[1]), m[2])}
Saving == {m \in Rows \X Shown : Status(m[1]) = None => m[2] = "new"}

\* What the operations of a screen may be asked for: rows and their new status.
New == {m \in Saving : Status(m[1]) = None}
BookingCalls ==
  ({MoveBooking, CancelBooking, ConfirmTransfer, CancelSelected} \X Moving)
    \cup ({CreateBooking} \X New)
TripCalls == ({MoveTrip, RescheduleTrip} \X Moving) \cup ({SubmitTrip} \X Saving)
CustomerCalls == {SubmitCustomer} \X Saving
FleetCalls ==
  ({MoveVehicle, ToggleVehicle, FleetStatus} \X Moving) \cup ({SaveVehicle} \X Saving)
TeamCalls ==
  ({UpdateMember, MoveRole, UpdateSelected} \X Moving) \cup ({CreateMember} \X New)
RouteCalls == ({MoveRoute, RoutesStatus} \X Moving) \cup ({SaveRoute} \X Saving)
RequestCalls == {UpdateRequest, RequestsStatus} \X Moving

Calls ==
  CASE screen = "bookings" -> BookingCalls [] screen = "trips" -> TripCalls
    [] screen = "customers" -> CustomerCalls [] screen = "fleet" -> FleetCalls
    [] screen = "team" -> TeamCalls [] screen = "routes" -> RouteCalls
    [] screen = "requests" -> RequestCalls [] OTHER -> {}

\* The rows that a bulk operation also takes: any selection of those that can move.
Selections(op, m) ==
  IF op.many = "one" THEN {{}} ELSE SUBSET {r \in (DOMAIN view.items) \ {m[1]} : <<r, m[2]>> \in Moving}

Call(op, r, t, rest, asks) ==
  command' = [op |-> op, row |-> r, to |-> t, rest |-> rest, under |-> view.filter,
              was |-> IF op.how = "first" THEN Status(r) ELSE None, reloaded |-> FALSE,
              stage |-> IF asks THEN "asking" ELSE "sent"]

\* The request is sent.
Sent(op, r, t) ==
  view' = [view EXCEPT !.items = IF op.how = "first" THEN [@ EXCEPT ![r] = t] ELSE @]

\* Nothing else is asked for while a command is under way (a bound: the screens let
\* the reader go on with other rows).
Ask(op, r, t, rest) ==
  /\ command = None /\ Event
  /\ attention = op.where
  /\ \E asks \in op.asks :
       /\ Call(op, r, t, rest, asks)
       /\ IF asks THEN UNCHANGED view ELSE Sent(op, r, t)
  /\ UNCHANGED <<screen, server, pending, due, loads, again, typed, stray>>

Command ==
  \E call \in Calls : \E rest \in Selections(call[1], call[2]) :
    Ask(call[1], call[2][1], call[2][2], rest) /\ UNCHANGED attention

RemoveRecord(r) ==
  /\ r \in DOMAIN view.items /\ Calls # {}
  /\ Ask(Remove, r, None, {}) /\ UNCHANGED attention

\* Leaving the field of a note that was changed saves it, with the row's status.
BlurNote ==
  /\ typed # None
  /\ Ask(SaveNote, typed, Status(typed), {}) /\ attention' = "page"

Confirm ==
  /\ Asking
  /\ command' = [command EXCEPT !.stage = "sent"]
  /\ Sent(command.op, command.row, command.to)
  /\ UNCHANGED <<screen, server, shell, due, loads, again, typed, stray, events>>

Decline ==
  /\ Asking /\ command' = None
  /\ UNCHANGED <<screen, server, shell, list, typed, events>>

\* The API does it, refuses, or does it and its answer is lost (external).
Permitted(c) ==
  \/ c.op \in {SaveNote, Remove} /\ rows[c.row] # None
  \/ CanMove(rows[c.row], c.to)
  \/ c.op.how = "reload" /\ c.op.where = "elsewhere" /\ (rows[c.row] = None => c.to = "new")

Execute ==
  /\ command # None /\ command.stage = "sent"
  /\ \/ /\ Permitted(command)
        /\ rows' = [rows EXCEPT ![command.row] = command.to] /\ news' = "sent"
        /\ \E s \in {"done", "refused"} : command' = [command EXCEPT !.stage = s]
     \/ /\ command' = [command EXCEPT !.stage = "refused"]
        /\ UNCHANGED <<rows, news>>
  /\ UNCHANGED <<screen, shell, list, typed, events>>

\* The list after an answer; the filter is the one that the command was called under.
Answered(v, c) ==
  CASE c.stage = "refused" ->
         [v EXCEPT !.items = IF c.op.how = "first" /\ Status(c.row) = c.to
                             THEN [@ EXCEPT ![c.row] = c.was] ELSE @]
    [] c.stage = "done" /\ c.op.how = "drop" /\ c.under \notin {"all", c.to} ->
         [v EXCEPT !.items = [r \in (DOMAIN @) \ {c.row} |-> @[r]],
                   !.total = IF @ = 0 THEN 0 ELSE @ - 1]
    [] c.stage = "done" /\ (c.op.how = "keep" \/ (c.op.how = "drop" /\ c.under \in {"all", c.to})) ->
         [v EXCEPT !.items = [r \in DOMAIN @ |-> IF r = c.row THEN c.to ELSE @[r]]]
    [] OTHER -> v

\* The next row of a bulk operation.
NextRow ==
  /\ command # None /\ command.stage \in {"done", "refused"} /\ command.rest # {}
  /\ command.stage = "done" \/ command.op.many = "goes on"
  /\ \E r \in command.rest :
       command' = [command EXCEPT !.row = r, !.rest = @ \ {r}, !.stage = "sent"]
  /\ UNCHANGED <<screen, server, shell, list, typed, events>>

Last ==
  /\ command # None /\ command.stage \in {"done", "refused"}
  /\ command.rest = {} \/ (command.stage = "refused" /\ command.op.many = "stops")

Reloads(c) == c.op.how = "reload" /\ (c.stage = "done" \/ c.op.many # "one")

\* The load that follows is that of the closure: it asks for the filter of the call.
Answer ==
  /\ Last
  /\ command' = None
  /\ LET c == command IN
     /\ IF Reloads(c) THEN LoadList(Answered(view, c), c.under, "page")
        ELSE view' = Answered(view, c) /\ UNCHANGED <<loads, again>>
     /\ stray' = (stray \/ c.under # view.filter \/ (c.reloaded /\ ~Reloads(c)))
     /\ attention' = IF c.op.where = "elsewhere" /\ c.stage = "done" THEN "page" ELSE attention
     /\ typed' = IF c.op = SaveNote /\ c.stage = "done" THEN None ELSE typed
  /\ UNCHANGED <<screen, server, pending, due, events>>

-----------------------------------------------------------------------------
\* The reader.

\* A field, a dialog or another tab takes his attention, and gives it back.
TurnAway ==
  /\ Attended /\ attention' = "elsewhere"
  /\ UNCHANGED <<screen, server, pending, list, command, typed, events>>

TurnBack ==
  /\ attention = "elsewhere" /\ (typed = None \/ command # None) /\ attention' = "page"
  /\ UNCHANGED <<screen, server, pending, list, command, typed, events>>

TypeNote(r) ==
  /\ screen = "requests" /\ command = None /\ Status(r) = "new"
  /\ attention = "elsewhere" /\ typed' = r
  /\ UNCHANGED <<screen, server, shell, list, command, events>>

-----------------------------------------------------------------------------
Init ==
  /\ screen \in Screens
  /\ rows \in [Rows -> {"new", None}]
  /\ news = "none" /\ pending = FALSE
  /\ attention = "page"
  /\ view = [filter |-> "all", items |-> NoRows, next |-> 0, total |-> 0,
             loading |-> TRUE, stopped |-> FALSE]
  /\ due = TRUE /\ loads = NoLoads
  /\ command = None /\ again = FALSE /\ typed = None /\ stray = FALSE
  /\ events = 0

Messages == Invalidate \/ LoseMessage \/ Resync
Loading ==
  \/ LoadDue \/ RefreshTick \/ RefreshPage \/ Timer \/ LoadMore
  \/ \E f \in Filters : SetFilter(f)
  \/ \E s \in Slots : Serve(s) \/ Fail(s) \/ ReceiveList(s) \/ ReceiveMore(s)
Commanding ==
  \/ Command \/ BlurNote \/ Confirm \/ Decline \/ Execute \/ NextRow \/ Answer
  \/ \E r \in Rows : RemoveRecord(r)
Reader ==
  \/ TurnAway \/ TurnBack
  \/ \E r \in Rows : TypeNote(r)

Next == (\E r \in Rows : OtherChange(r)) \/ Messages \/ Loading \/ Commanding \/ Reader

Spec == Init /\ [][Next]_vars

\* The timers fire, requests end, and of the loads that are begun again and again some
\* time one succeeds and is not aborted before its answer is read.
Heard(s) == ReceiveList(s) /\ loads[s].answer # Failed

LiveSpec ==
  /\ Spec
  /\ WF_vars(RefreshTick) /\ WF_vars(Resync) /\ WF_vars(Timer) /\ WF_vars(LoadDue)
  /\ WF_vars(Execute) /\ WF_vars(NextRow) /\ WF_vars(Answer)
  /\ \A s \in Slots : /\ SF_vars(Serve(s)) /\ SF_vars(Heard(s))
                      /\ WF_vars(ReceiveList(s)) /\ WF_vars(ReceiveMore(s))

-----------------------------------------------------------------------------
\* The variables have their types, and a total stays that of a list of the server: the
\* moves and deletions that lower it in the browser (moveBookingStatus) never pass zero.
TypeOK ==
  /\ screen \in Screens
  /\ rows \in [Rows -> Shown \cup {None}]
  /\ {pending, due, again, stray} \subseteq BOOLEAN
  /\ attention \in {"page", "elsewhere"}
  /\ news \in {"none", "sent", "lost"}
  /\ DOMAIN view.items \subseteq Rows /\ view.next \in Nat /\ view.total \in 0 .. Cardinality(Rows)
  /\ view.filter \in Filters
  /\ typed \in Rows \cup {None}

\* What the list should show: the rows that match, or the first pages of them.
Wanted ==
  LET all == Matching(view.filter)
  IN  IF Of.paged THEN Head(all, view.next) ELSE all

UpToDate ==
  /\ view.items = [r \in Wanted |-> rows[r]]
  /\ Of.paged => view.total = Cardinality(Matching(view.filter))

Coming ==
  \E s \in InFlight("list") :
    loads[s].filter = view.filter /\ loads[s].answer \in {Waiting, Failed, Page(loads[s])}

\* A list whose loads abort or repeat each other (booking-registry, customer-directory,
\* individual-transfer-requests, trips-planner, statistics-workspace) shows what the
\* server has, or a load with the answer, a message or a refresh is still to come.  The
\* exception is a failed load and a command that answers after the filter was changed.
TrueOrKnows ==
  Of.own \in {"aborts", "queues"} =>
    \/ UpToDate \/ stray \/ Coming \/ again
    \/ due \/ pending \/ news # "none"

\* A reader who stays at the page and takes his hands off its fields sees the server's
\* rows in the end, whatever messages and loads were lost (app-shell's second, the
\* monitor's "ready", the screens' 30 seconds).
ScreenCatchesUp == <>[]Attended => []<>UpToDate
=============================================================================
