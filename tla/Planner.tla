------------------------------- MODULE Planner -------------------------------
(* The dispatcher's calendar (src/components/trips-planner.tsx): its rows, the form of *)
(* a new trip with the road of the chosen route, dragging a trip to another lane, and  *)
(* the transactions behind them (main.go createTrip, createTripSchedule, updateTrip)   *)
(* beside other dispatchers.                                                           *)
(*                                                                                     *)
(* A day is 0 .. DayEnd, in the steps a drop snaps to.  Fields of the form that no     *)
(* handler reads before the submission (times, driver, repetition) are chosen at it.   *)
(* The effect's setTimeout(0) runs before the next input and is part of the step that  *)
(* schedules it; fields changed while a submission waits are changed after it.          *)
EXTENDS Naturals, FiniteSets

CONSTANTS
  Trips,        \* identities of trips
  Routes,
  PerKm,        \* the routes charged by distance
  Vehicles,
  Drivers,
  Unrated,      \* the vehicles whose class has no rate
  DayEnd,       \* the last step of the calendar
  Lengths,      \* how long trips last
  None,
  MaxEvents     \* bound: forms and drags begun, changes by others, loads and lost answers

PlannerAssumption ==
  /\ PerKm \subseteq Routes /\ Unrated \subseteq Vehicles
  /\ DayEnd \in Nat /\ Lengths \subseteq Nat \ {0}
  /\ None \notin Trips \cup Routes \cup Vehicles \cup Drivers

VARIABLES
  trips,        \* the server's table
  rows,         \* the page: the trips it shows
  load,         \* the load of the rows under way
  form,         \* the form of a new trip
  road,         \* tripNavigation, tripRoadLoading and the call of the effect
  busy,         \* tripRoadBusy: the road between chosen places is being built
  saving,       \* the submitted form until its answer
  dragging,     \* the trip that is held
  moving,       \* the dropped trip until its answer
  events
server == trips
vars == <<trips, rows, load, form, road, busy, saving, dragging, moving, events>>

-----------------------------------------------------------------------------
\* The price of a route: one for the route, or by the class of the vehicle.
RoutePrice(r, v) ==
  IF r = None THEN None
  ELSE IF r \notin PerKm THEN <<r, None>>
  ELSE IF v \in Vehicles \ Unrated THEN <<r, v>> ELSE None

Typed == <<None, None>>

Prices == {Typed} \cup (Routes \X (Vehicles \cup {None}))

\* What the calendar and the constraints read of a trip.
Row == [vehicle : Vehicles, driver : Drivers, start : 0 .. DayEnd, length : Lengths,
        status : {"assigned", "in_progress", "cancelled"}]

Overlap(a, b) == a.start < b.start + b.length /\ b.start < a.start + a.length

\* trips_vehicle_no_overlap and trips_driver_no_overlap, for the row t of id i.
Conflicts(i, t) ==
  \E j \in Trips \ {i} :
    /\ trips[j] # None /\ trips[j].status # "cancelled" /\ t.status # "cancelled"
    /\ trips[j].vehicle = t.vehicle \/ trips[j].driver = t.driver
    /\ Overlap(trips[j], t)

Free == {i \in Trips : trips[i] = None}
Shown == {i \in Trips : rows[i] # None}

\* toLanes: a lane has the driver of its trips, when they have one driver.
LaneDriver(v) ==
  LET drivers == {rows[i].driver : i \in {k \in Shown : rows[k].vehicle = v}}
  IN  IF Cardinality(drivers) = 1 THEN CHOOSE d \in drivers : TRUE ELSE None

Event == events < MaxEvents /\ events' = events + 1

-----------------------------------------------------------------------------
(* The rows.  requestVersion grows: the load under way is aborted, a new one begins.  *)
NewLoad == [rows |-> None]

Refresh ==
  /\ ~form.open /\ Event /\ load' = NewLoad
  /\ UNCHANGED <<server, rows, form, road, busy, saving, dragging, moving>>

ServeLoad ==
  /\ load # None /\ load.rows = None
  /\ load' = [rows |-> trips]
  /\ UNCHANGED <<server, rows, form, road, busy, saving, dragging, moving, events>>

HearLoad ==
  /\ load # None /\ load.rows # None
  /\ rows' = load.rows /\ load' = None
  /\ UNCHANGED <<server, form, road, busy, saving, dragging, moving, events>>

FailLoad ==
  /\ load # None /\ Event
  /\ rows' = [i \in Trips |-> None] /\ load' = None
  /\ UNCHANGED <<server, form, road, busy, saving, dragging, moving>>

-----------------------------------------------------------------------------
(* The form.  road.places is where the road comes from, road.state how far it is:     *)
(* nothing chosen, places without a road, or a road with its distance.                *)
NoRoad == [of |-> None, state |-> "empty", loading |-> FALSE, call |-> None]

\* The effect for the form's route: the call before it is aborted, the road is emptied.
LoadRoad(r) == [NoRoad EXCEPT !.loading = (r # None), !.call = r]

EmptyForm == [open |-> FALSE, kind |-> "regular", route |-> None, vehicle |-> None,
              price |-> None]

\* openCreateTrip; createDisabled while the rows or the resources are loading.  Bound:
\* not while a drop waits for its answer.
OpenForm ==
  /\ ~form.open /\ load = None /\ moving = None /\ Event
  /\ form' = [EmptyForm EXCEPT !.open = TRUE]
  /\ road' = LoadRoad(None) /\ busy' = FALSE
  /\ UNCHANGED <<server, rows, load, saving, dragging, moving>>

\* loadResources opens the form for the route the page was asked to plan.
OpenForRoute(r) ==
  /\ Event
  /\ form' = [EmptyForm EXCEPT !.open = TRUE, !.route = r, !.price = <<r, None>>]
  /\ road' = LoadRoad(r) /\ busy' = FALSE
  /\ UNCHANGED <<server, rows, load, saving, dragging, moving>>

Editing == form.open /\ saving = None

ChooseKind(kind) ==
  /\ Editing /\ form.kind # kind
  /\ form' = [form EXCEPT !.kind = kind, !.route = IF kind = "regular" THEN @ ELSE None]
  /\ IF form'.route = form.route THEN UNCHANGED <<road, busy>>
     ELSE road' = LoadRoad(form'.route) /\ busy' = FALSE
  /\ UNCHANGED <<server, rows, load, saving, dragging, moving, events>>

ChooseRoute(r) ==
  /\ Editing /\ form.kind = "regular" /\ form.route # r
  /\ form' = [form EXCEPT !.route = r,
                          !.price = IF r = None THEN @ ELSE RoutePrice(r, form.vehicle)]
  /\ road' = LoadRoad(r) /\ busy' = FALSE
  /\ UNCHANGED <<server, rows, load, saving, dragging, moving, events>>

\* A new vehicle reprices the trip; a distance without a rate empties the price.
ChooseVehicle(v) ==
  /\ Editing /\ form.vehicle # v
  /\ form' = [form EXCEPT !.vehicle = v,
                          !.price = IF form.route = None THEN @ ELSE RoutePrice(form.route, v)]
  /\ UNCHANGED <<server, rows, load, road, busy, saving, dragging, moving, events>>

TypePrice ==
  /\ Editing /\ form' = [form EXCEPT !.price = Typed]
  /\ UNCHANGED <<server, rows, load, road, busy, saving, dragging, moving, events>>

\* Mutant of HearRoad: the answer for a route chosen before is taken.
HearAnyRoad(state) ==
  \E r \in Routes :
    /\ form.open /\ road.loading
    /\ road' = [of |-> r, state |-> state, loading |-> FALSE, call |-> None]
    /\ busy' = (state = "chosen")
    /\ UNCHANGED <<server, rows, load, form, saving, dragging, moving, events>>

\* The places of the route: none, places alone (their road is then built), or all.
HearRoad(state) ==
  /\ Editing /\ road.call # None
  /\ road' = [of |-> IF state = "empty" THEN None ELSE road.call, state |-> state,
              loading |-> FALSE, call |-> None]
  /\ busy' = (state = "chosen")
  /\ UNCHANGED <<server, rows, load, form, saving, dragging, moving, events>>

FailRoad ==
  /\ Editing /\ road.call # None
  /\ road' = [road EXCEPT !.loading = FALSE, !.call = None]
  /\ UNCHANGED <<server, rows, load, form, busy, saving, dragging, moving, events>>

\* RouteNavigationDraft: the picker of both places, disabled while the road is loading.
ChoosePlaces ==
  /\ Editing /\ ~road.loading
  /\ road' = [road EXCEPT !.of = IF form.route = None THEN None ELSE form.route,
                          !.state = "chosen"]
  /\ busy' = TRUE
  /\ UNCHANGED <<server, rows, load, form, saving, dragging, moving, events>>

\* The road between the places of the draft, and its failure.
BuildRoad(ok) ==
  /\ Editing /\ busy /\ busy' = FALSE
  /\ road' = [road EXCEPT !.state = IF ok THEN "built" ELSE @]
  /\ UNCHANGED <<server, rows, load, form, saving, dragging, moving, events>>

RetryRoad ==
  /\ Editing /\ ~road.loading /\ ~busy /\ road.state = "chosen" /\ busy' = TRUE
  /\ UNCHANGED <<server, rows, load, form, road, saving, dragging, moving, events>>

\* Cancel or Escape: the calls of the effect and of the draft are aborted.
CloseForm ==
  /\ Editing /\ form' = EmptyForm /\ road' = NoRoad /\ busy' = FALSE
  /\ UNCHANGED <<server, rows, load, saving, dragging, moving, events>>

\* submitTrip: starts has two members for a repeated trip, which is regular.
Submit(driver, starts, length) ==
  /\ Editing /\ form.kind = "regular" => form.route # None
  /\ ~road.loading /\ ~busy /\ road.state = "built"
  /\ form.vehicle # None /\ form.price # None
  /\ \A at \in starts : at + length <= DayEnd
  /\ Cardinality(starts) = 1 \/ form.kind = "regular"
  /\ saving' = [state |-> "asked", starts |-> starts,
       route |-> form.route, road |-> road.of, price |-> form.price,
       row |-> [vehicle |-> form.vehicle, driver |-> driver, start |-> 0,
                length |-> length, status |-> "assigned"]]
  /\ UNCHANGED <<server, rows, load, form, road, busy, dragging, moving, events>>

\* createTrip and createTripSchedule: every departure, or none when one conflicts.
Create ==
  /\ saving # None /\ saving.state = "asked"
  /\ Cardinality(Free) >= Cardinality(saving.starts)
  /\ LET at == CHOOSE f \in [saving.starts -> Free] :
                 \A a, b \in saving.starts : f[a] = f[b] => a = b
         new(a) == [saving.row EXCEPT !.start = a]
     IN  IF \E a \in saving.starts :
              \/ Conflicts(at[a], new(a))
              \/ \E b \in saving.starts \ {a} : Overlap(new(a), new(b))
         THEN UNCHANGED trips /\ saving' = [saving EXCEPT !.state = "refused"]
         ELSE /\ trips' = [i \in Trips |->
                    IF \E a \in saving.starts : at[a] = i
                    THEN new(CHOOSE a \in saving.starts : at[a] = i) ELSE trips[i]]
              /\ saving' = [saving EXCEPT !.state = "done"]
  /\ UNCHANGED <<rows, load, form, road, busy, dragging, moving, events>>

HearCreated ==
  /\ saving # None /\ saving.state = "done"
  /\ saving' = None /\ form' = EmptyForm /\ road' = NoRoad /\ busy' = FALSE
  /\ load' = NewLoad
  /\ UNCHANGED <<server, rows, dragging, moving, events>>

\* The transaction refused, or its answer is lost: the form stays open with the error.
FailCreate ==
  /\ saving # None
  /\ IF saving.state = "refused" THEN UNCHANGED events ELSE Event
  /\ saving' = None
  /\ UNCHANGED <<server, rows, load, form, road, busy, dragging, moving>>

-----------------------------------------------------------------------------
(* Dragging.  A trip that has not left is picked up and dropped on a lane.            *)
PickUp(i) ==
  /\ dragging = None /\ moving = None /\ ~form.open /\ load = None /\ Event
  /\ i \in Shown /\ rows[i].status = "assigned"
  /\ dragging' = i
  /\ UNCHANGED <<server, rows, load, form, road, busy, saving, moving>>

LetGo ==
  /\ dragging # None /\ dragging' = None
  /\ UNCHANGED <<server, rows, load, form, road, busy, saving, moving, events>>

\* The snapped start, moved back so that the trip ends within the day.
Snapped(at, length) == IF at + length > DayEnd THEN DayEnd - length ELSE at

\* rescheduleTrip: the row as the page shows it, with the lane's vehicle and driver and
\* the new times, is sent whole.
Drop(v, at) ==
  LET i == dragging
      driver == IF LaneDriver(v) # None THEN LaneDriver(v) ELSE rows[i].driver
      row == [rows[i] EXCEPT !.vehicle = v, !.driver = driver,
                             !.start = Snapped(at, rows[i].length)]
  IN
  /\ dragging # None
  /\ dragging' = None
  /\ moving' = IF i \in Shown /\ rows[i].status = "assigned" /\ rows[i].length < DayEnd
                  /\ row # rows[i]
               THEN [id |-> i, row |-> row, state |-> "asked"] ELSE None
  /\ UNCHANGED <<server, rows, load, form, road, busy, saving, events>>

\* Mutant of Move: the constraints of the table are forgotten.
MoveAnyway ==
  /\ moving # None /\ moving.state = "asked"
  /\ trips' = [trips EXCEPT ![moving.id] =
       IF @.status = "assigned" THEN moving.row ELSE @]
  /\ moving' = [moving EXCEPT !.state = "done"]
  /\ UNCHANGED <<rows, load, form, road, busy, saving, dragging, events>>

\* updateTrip: not once the trip has left; the status stays, the body has none.
Move ==
  LET old == trips[moving.id]
      new == [moving.row EXCEPT !.status = old.status]
  IN
  /\ moving # None /\ moving.state = "asked"
  /\ IF old.status = "assigned" /\ ~Conflicts(moving.id, new)
     THEN trips' = [trips EXCEPT ![moving.id] = new] /\ moving' = [moving EXCEPT !.state = "done"]
     ELSE UNCHANGED trips /\ moving' = [moving EXCEPT !.state = "refused"]
  /\ UNCHANGED <<rows, load, form, road, busy, saving, dragging, events>>

HearMoved ==
  /\ moving # None /\ moving.state = "done"
  /\ moving' = None /\ load' = NewLoad
  /\ UNCHANGED <<server, rows, form, road, busy, saving, dragging, events>>

FailMove ==
  /\ moving # None
  /\ IF moving.state = "refused" THEN UNCHANGED events ELSE Event
  /\ moving' = None
  /\ UNCHANGED <<server, rows, load, form, road, busy, saving, dragging>>

-----------------------------------------------------------------------------
(* Others: the same transactions from other pages, a cancellation and a departure.    *)
OtherMoves(i, v, d, at) ==
  /\ trips[i] # None /\ trips[i].status = "assigned" /\ at + trips[i].length <= DayEnd
  /\ LET new == [trips[i] EXCEPT !.vehicle = v, !.driver = d, !.start = at]
     IN ~Conflicts(i, new) /\ new # trips[i] /\ trips' = [trips EXCEPT ![i] = new]
  /\ Event
  /\ UNCHANGED <<rows, load, form, road, busy, saving, dragging, moving>>

OtherEnds(i, status) ==
  /\ trips[i] # None /\ trips[i].status = "assigned"
  /\ trips' = [trips EXCEPT ![i].status = status]
  /\ Event
  /\ UNCHANGED <<rows, load, form, road, busy, saving, dragging, moving>>

\* moveTripStatus of this page: the row is changed by itself once the server has.
CancelHere(i) ==
  /\ ~form.open /\ i \in Shown /\ rows[i].status = "assigned"
  /\ trips[i] # None /\ trips[i].status = "assigned"
  /\ trips' = [trips EXCEPT ![i].status = "cancelled"]
  /\ rows' = [rows EXCEPT ![i].status = "cancelled"]
  /\ Event
  /\ UNCHANGED <<load, form, road, busy, saving, dragging, moving>>

-----------------------------------------------------------------------------
\* Bound: a day begins empty, or with a trip of one vehicle and driver.
FirstTrip == CHOOSE i \in Trips : TRUE
FirstVehicle == CHOOSE v \in Vehicles : TRUE
FirstDriver == CHOOSE d \in Drivers : TRUE

Starts == {at \in SUBSET (0 .. DayEnd) : Cardinality(at) \in {1, 2}}

Init ==
  /\ \E t \in Row :
       /\ t.start = 0 /\ t.status = "assigned"
       /\ t.vehicle = FirstVehicle /\ t.driver = FirstDriver
       /\ trips \in {[j \in Trips |-> IF j = FirstTrip THEN t ELSE None], [j \in Trips |-> None]}
  /\ rows = [i \in Trips |-> None] /\ load = NewLoad
  /\ form = EmptyForm /\ road = NoRoad /\ busy = FALSE
  /\ saving = None /\ dragging = None /\ moving = None /\ events = 0

Next ==
  \/ Refresh \/ ServeLoad \/ HearLoad \/ FailLoad
  \/ OpenForm \/ CloseForm \/ TypePrice
  \/ \E r \in Routes \cup {None} : ChooseRoute(r)
  \/ \E r \in Routes : OpenForRoute(r)
  \/ \E kind \in {"regular", "individual"} : ChooseKind(kind)
  \/ \E v \in Vehicles : ChooseVehicle(v)
  \/ \E state \in {"empty", "chosen", "built"} : HearRoad(state)
  \/ FailRoad \/ ChoosePlaces \/ RetryRoad
  \/ \E ok \in BOOLEAN : BuildRoad(ok)
  \/ \E d \in Drivers, starts \in Starts, length \in Lengths : Submit(d, starts, length)
  \/ Create \/ HearCreated \/ FailCreate
  \/ \E i \in Trips : PickUp(i) \/ CancelHere(i)
  \/ LetGo \/ \E v \in Vehicles, at \in 0 .. DayEnd : Drop(v, at)
  \/ Move \/ HearMoved \/ FailMove
  \/ \E i \in Trips, v \in Vehicles, d \in Drivers, at \in 0 .. DayEnd : OtherMoves(i, v, d, at)
  \/ \E i \in Trips, status \in {"in_progress", "cancelled"} : OtherEnds(i, status)

Spec == Init /\ [][Next]_vars

-----------------------------------------------------------------------------
TypeOK ==
  /\ trips \in [Trips -> Row \cup {None}] /\ rows \in [Trips -> Row \cup {None}]
  /\ load # None => load.rows = None \/ load.rows \in [Trips -> Row \cup {None}]
  /\ form.route \in Routes \cup {None} /\ form.vehicle \in Vehicles \cup {None}
  /\ form.price \in Prices \cup {None}
  /\ road.state \in {"empty", "chosen", "built"} /\ road.loading = (road.call # None)
  /\ {busy, form.open} \subseteq BOOLEAN /\ dragging \in Trips \cup {None}
  /\ saving # None => saving.state \in {"asked", "done", "refused"}
  /\ moving # None => moving.row \in Row /\ moving.state \in {"asked", "done", "refused"}

\* No vehicle and no driver has two trips at one time, whichever dispatchers create,
\* repeat and drag trips on calendars that are out of date (trips_vehicle_no_overlap,
\* main.go createTripSchedule, updateTrip).
NoDoubleAssignment ==
  \A i \in Trips : trips[i] # None => ~Conflicts(i, trips[i])

\* A trip of a route runs on the road of that route and costs what it asks with the
\* vehicle the trip was planned for, unless the price was typed, however routes, kinds and
\* vehicles were changed while roads were loading (trips-planner.tsx submitTrip).
PlannedAsShown ==
  saving # None /\ saving.route # None =>
    /\ saving.road = saving.route
    /\ saving.price \in {Typed, RoutePrice(saving.route, saving.row.vehicle)}
=============================================================================
