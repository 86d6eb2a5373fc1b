---------------------------- MODULE PlannerProofs ----------------------------
(***************************************************************************)
(* What the dispatcher is shown, in two parts that share no behaviour.     *)
(*                                                                         *)
(* Planner: his calendar, for any number of trips, routes, vehicles and    *)
(* drivers, and a day of any length.                                       *)
(*   PlannerTypeCorrect  rows, forms and what is sent stay well formed;    *)
(*   NobodyTwice         no vehicle and no driver has two trips at a time; *)
(*   PlansAreAsShown     a trip gets the road and the price of its route.  *)
(* NoDoubleAssignment is inductive: a conflict is mutual, so that a row    *)
(* which meets no other is met by none (PutKeeps).  PlannedAsShown needs   *)
(* what the form, the road and the call of the effect have in common while *)
(* routes, kinds and vehicles change (FormFits, RoadFits).                 *)
(*                                                                         *)
(* Browse (Registry): his lists, for any rows, pages of any size and any   *)
(* number of changes, commands and filters.                                *)
(*   ListsAreTrueOrKnow  a list whose loads abort each other is the        *)
(*     server's, or something is still to come that renews it.             *)
(* RegistryInvariant says what a load that is under way may answer         *)
(* (ListIsTrue) and where more rows belong (MoreIsTrue).                   *)
(***************************************************************************)
EXTENDS Planner, FiniteSetTheorems, TLAPS

CONSTANTS Rows, PageSize, Screens   \* Registry
VARIABLES screen, news, pending, attention, view, due, loads, command, again, typed, stray

Browse == INSTANCE Registry

Timetable == [Trips -> Row \cup {None}]

Loads == [rows : Timetable \cup {None}]

FormStates ==
  [open : BOOLEAN, kind : {"regular", "individual"}, route : Routes \cup {None},
   vehicle : Vehicles \cup {None}, price : Prices \cup {None}]

Roads ==
  [of : Routes \cup {None}, state : {"empty", "chosen", "built"}, loading : BOOLEAN,
   call : Routes \cup {None}]

Answers == {"asked", "done", "refused"}

Submissions ==
  [state : Answers, starts : Starts, route : Routes \cup {None},
   road : Routes \cup {None}, price : Prices \cup {None}, row : Row]

Moves == [id : Trips, row : Row, state : Answers]

\* The table, the page and what it sends.
TableType == trips \in Timetable /\ rows \in Timetable /\ load \in Loads \cup {None}
FormType == form \in FormStates /\ road \in Roads /\ busy \in BOOLEAN
SentType ==
  /\ saving \in Submissions \cup {None} /\ moving \in Moves \cup {None}
  /\ dragging \in Trips \cup {None}

\* The price is the one of the route with the chosen vehicle, unless it was typed.
FormFits ==
  form.route # None /\ form.vehicle # None =>
    form.price \in {Typed, RoutePrice(form.route, form.vehicle)}

\* The road, also one that is being asked for or built, is the one of the form's route.
RoadFits ==
  /\ road.loading = (road.call # None)
  /\ road.call # None => road.call = form.route
  /\ busy \/ road.state # "empty" => road.of = form.route

PlanInvariant ==
  /\ TableType /\ FormType /\ SentType
  /\ FormFits /\ RoadFits /\ PlannedAsShown

-----------------------------------------------------------------------------
\* Facts about rows.

\* Two rows that overlap for one of them overlap for the other.
LEMMA OverlapIsMutual ==
  ASSUME NEW a \in Row, NEW b \in Row, Overlap(a, b)
  PROVE  Overlap(b, a)
BY DEF Overlap

\* A row put into the table without a conflict leaves no row with one.
LEMMA PutKeeps ==
  ASSUME trips \in Timetable, NoDoubleAssignment, NEW i \in Trips, NEW new \in Row,
         ~Conflicts(i, new), trips' = [trips EXCEPT ![i] = new]
  PROVE  trips' \in Timetable /\ NoDoubleAssignment'
<1>1. trips' \in Timetable
  BY DEF Timetable
<1>2. ASSUME NEW j \in Trips, trips'[j] # None
      PROVE  ~Conflicts(j, trips[j])'
  <2>1. CASE j = i
    <3>1. trips'[j] = new /\ \A k \in Trips \ {j} : trips'[k] = trips[k]
      BY <2>1 DEF Timetable
    <3> QED
      BY <2>1, <3>1 DEF Conflicts, Overlap
  <2>2. CASE j # i
    <3>1. trips'[j] = trips[j] /\ trips'[i] = new
      BY <2>2 DEF Timetable
    <3>2. trips[j] \in Row
      BY <1>2, <3>1 DEF Timetable
    <3>3. ~Conflicts(j, trips[j])
      BY <1>2, <3>1 DEF NoDoubleAssignment
    <3> SUFFICES ASSUME NEW k \in Trips \ {j}, trips'[k] # None,
                        trips'[k].status # "cancelled", trips[j].status # "cancelled",
                        \/ trips'[k].vehicle = trips[j].vehicle
                        \/ trips'[k].driver = trips[j].driver,
                        Overlap(trips'[k], trips[j])
                 PROVE  FALSE
      BY <3>1 DEF Conflicts, Overlap
    <3>4. CASE k = i
      <4>1. Overlap(trips[j], new)
        BY <3>1, <3>2, <3>4, OverlapIsMutual
      <4> QED
        BY <1>2, <2>2, <3>1, <3>4, <4>1 DEF Conflicts
    <3>5. CASE k # i
      <4>1. trips'[k] = trips[k]
        BY <3>5 DEF Timetable
      <4> QED
        BY <3>3, <4>1 DEF Conflicts
    <3> QED
      BY <3>4, <3>5
  <2> QED
    BY <2>1, <2>2
<1> QED
  BY <1>1, <1>2 DEF NoDoubleAssignment

\* A trip that leaves or is cancelled conflicts no more than before.
LEMMA EndKeeps ==
  ASSUME trips \in Timetable, NoDoubleAssignment, NEW i \in Trips,
         trips[i] # None, trips[i].status = "assigned",
         NEW status \in {"in_progress", "cancelled"},
         trips' = [trips EXCEPT ![i].status = status]
  PROVE  trips' \in Timetable /\ NoDoubleAssignment'
<1> DEFINE new == [trips[i] EXCEPT !.status = status]
<1>1. trips[i] \in Row
  BY DEF Timetable
<1>2. new \in Row
  BY <1>1 DEF Row
<1>3. /\ new.vehicle = trips[i].vehicle /\ new.driver = trips[i].driver
      /\ new.start = trips[i].start /\ new.length = trips[i].length
  BY <1>1 DEF Row
<1>4. ~Conflicts(i, new)
  <2>1. ~Conflicts(i, trips[i])
    BY DEF NoDoubleAssignment
  <2> HIDE DEF new
  <2> QED
    BY <1>3, <2>1 DEF Conflicts, Overlap
<1>5. trips' = [trips EXCEPT ![i] = new]
  OBVIOUS
<1> HIDE DEF new
<1> QED
  BY <1>2, <1>4, <1>5, PutKeeps

-----------------------------------------------------------------------------
\* The departures of a submission get rows of their own.

\* The departures of a submission are counted.
LEMMA FewDepartures ==
  ASSUME NEW S \in Starts, DayEnd \in Nat
  PROVE  IsFiniteSet(S)
<1>1. IsFiniteSet(0 .. DayEnd)
  BY FS_Interval
<1> QED
  BY <1>1, FS_Subset DEF Starts

\* A submission has one departure or two.
LEMMA OneOrTwo ==
  ASSUME NEW S \in Starts, DayEnd \in Nat
  PROVE  \/ \E x \in S : S = {x}
         \/ \E x, y \in S : x # y /\ S = {x, y}
<1>1. IsFiniteSet(S)
  BY FewDepartures
<1>2. Cardinality(S) \in {1, 2}
  BY DEF Starts
<1>3. ASSUME NEW T, IsFiniteSet(T), Cardinality(T) = 1
      PROVE  \E x \in T : T = {x}
  BY <1>3, FS_Singleton
<1>4. CASE Cardinality(S) = 2
  <2>1. S # {}
    BY <1>4, FS_EmptySet
  <2>2. PICK x \in S : TRUE
    BY <2>1
  <2>3. IsFiniteSet(S \ {x}) /\ Cardinality(S \ {x}) = 1
    BY <1>1, <1>4, <2>2, FS_RemoveElement
  <2>4. PICK y \in S \ {x} : S \ {x} = {y}
    BY <1>3, <2>3
  <2> QED
    BY <2>2, <2>4
<1> QED
  BY <1>1, <1>2, <1>3, <1>4

\* There are enough free rows for one departure, or for two.
LEMMA EnoughFree ==
  ASSUME NEW S, NEW n \in {1, 2}, Cardinality(S) >= n
  PROVE  /\ \E i \in S : TRUE
         /\ n = 2 => \E i, j \in S : i # j
<1>1. S # {}
  BY FS_EmptySet
<1>2. PICK i \in S : TRUE
  BY <1>1
<1>3. S = {i} => Cardinality(S) = 1
  BY FS_Singleton
<1> QED
  BY <1>2, <1>3

\* A free row can be chosen for every departure.
LEMMA RowsOfTheirOwn ==
  ASSUME NEW S \in Starts, NEW F, DayEnd \in Nat, Cardinality(F) >= Cardinality(S)
  PROVE  \E f \in [S -> F] : \A a, b \in S : f[a] = f[b] => a = b
<1>1. CASE \E x \in S : S = {x}
  <2>1. PICK x \in S : S = {x}
    BY <1>1
  <2>2. Cardinality(S) = 1
    BY <2>1, FS_Singleton
  <2>3. PICK i \in F : TRUE
    BY <2>2, EnoughFree
  <2> WITNESS [a \in S |-> i] \in [S -> F]
  <2> QED
    BY <2>1
<1>2. CASE \E x, y \in S : x # y /\ S = {x, y}
  <2>1. PICK x \in S, y \in S : x # y /\ S = {x, y}
    BY <1>2
  <2>2. Cardinality(S) \in {1, 2}
    BY DEF Starts
  <2>3. ~\E z : S = {z}
    BY <2>1
  <2>4. Cardinality(S) = 2
    <3>1. IsFiniteSet(S)
      BY FewDepartures
    <3> QED
      BY <2>2, <2>3, <3>1, FS_Singleton
  <2>5. PICK i \in F, j \in F : i # j
    <3>1. Cardinality(F) >= 2
      BY <2>4
    <3> QED
      BY <3>1, EnoughFree
  <2> DEFINE f == [a \in S |-> IF a = x THEN i ELSE j]
  <2>6. f \in [S -> F] /\ \A a, b \in S : f[a] = f[b] => a = b
    BY <2>1, <2>5
  <2> QED
    BY <2>6
<1> QED
  BY <1>1, <1>2, OneOrTwo

\* createTrip and createTripSchedule: new rows that conflict neither with the table nor
\* with each other.
LEMMA AddKeeps ==
  ASSUME trips \in Timetable, NoDoubleAssignment,
         NEW S, NEW at \in [S -> Free], NEW new \in [S -> Row],
         \A a, b \in S : at[a] = at[b] => a = b,
         \A a \in S : ~Conflicts(at[a], new[a]),
         \A a \in S : \A b \in S \ {a} : ~Overlap(new[a], new[b]),
         trips' = [i \in Trips |->
           IF \E a \in S : at[a] = i THEN new[CHOOSE a \in S : at[a] = i] ELSE trips[i]]
  PROVE  trips' \in Timetable /\ NoDoubleAssignment'
<1>1. \A a \in S : at[a] \in Trips /\ trips'[at[a]] = new[a]
  BY DEF Free
<1>2. \A i \in Trips : (\A a \in S : at[a] # i) => trips'[i] = trips[i]
  OBVIOUS
<1>3. trips' \in Timetable
  BY <1>1, <1>2 DEF Timetable
<1>4. SUFFICES ASSUME NEW i \in Trips, trips'[i] # None, NEW j \in Trips \ {i},
                      trips'[j] # None, trips'[j].status # "cancelled",
                      trips'[i].status # "cancelled",
                      \/ trips'[j].vehicle = trips'[i].vehicle
                      \/ trips'[j].driver = trips'[i].driver,
                      Overlap(trips'[j], trips'[i])
               PROVE  FALSE
  BY <1>3 DEF NoDoubleAssignment, Conflicts, Overlap
<1>5. trips'[i] \in Row /\ trips'[j] \in Row
  BY <1>3, <1>4 DEF Timetable
<1>6. Overlap(trips'[i], trips'[j])
  BY <1>4, <1>5, OverlapIsMutual
<1>7. CASE \E a \in S : at[a] = i
  <2>1. PICK a \in S : at[a] = i
    BY <1>7
  <2>2. trips'[i] = new[a]
    BY <1>1, <2>1
  <2>3. CASE \E b \in S : at[b] = j
    <3>1. PICK b \in S : at[b] = j
      BY <2>3
    <3> QED
      BY <1>1, <1>4, <2>1, <2>2, <3>1
  <2>4. CASE \A b \in S : at[b] # j
    BY <1>2, <1>4, <2>1, <2>2, <2>4 DEF Conflicts
  <2> QED
    BY <2>3, <2>4
<1>8. CASE \A a \in S : at[a] # i
  <2>1. trips'[i] = trips[i]
    BY <1>2, <1>8
  <2>2. CASE \E b \in S : at[b] = j
    <3>1. PICK b \in S : at[b] = j
      BY <2>2
    <3>2. trips'[j] = new[b]
      BY <1>1, <3>1
    <3> QED
      BY <1>4, <1>6, <2>1, <3>1, <3>2 DEF Conflicts
  <2>3. CASE \A b \in S : at[b] # j
    BY <1>2, <1>4, <2>1, <2>3 DEF NoDoubleAssignment, Conflicts
  <2> QED
    BY <2>2, <2>3
<1> QED
  BY <1>7, <1>8

-----------------------------------------------------------------------------
\* The steps that leave the form and its submission alone.

\* What the form, the road and the submission have in common reads nothing else.
LEMMA FormUntouched ==
  ASSUME PlanInvariant, UNCHANGED <<form, road, busy, saving>>
  PROVE  FormType' /\ FormFits' /\ RoadFits' /\ PlannedAsShown'
BY DEF PlanInvariant, FormType, FormFits, RoadFits, PlannedAsShown, RoutePrice

\* The loads of the rows.
LEMMA RowsSteps ==
  ASSUME PlanInvariant, Refresh \/ ServeLoad \/ HearLoad \/ FailLoad
  PROVE  PlanInvariant'
<1>1. UNCHANGED <<trips, form, road, busy, saving, dragging, moving>>
  BY DEF server, Refresh, ServeLoad, HearLoad, FailLoad
<1>2. TableType'
  <2> USE DEF PlanInvariant, TableType
  <2>1. CASE Refresh
    BY <2>1 DEF server, Refresh, NewLoad, Loads
  <2>2. CASE ServeLoad
    BY <2>2 DEF server, ServeLoad, Loads
  <2>3. CASE HearLoad
    BY <2>3 DEF server, HearLoad, Loads
  <2>4. CASE FailLoad
    BY <2>4 DEF server, FailLoad, Timetable
  <2> QED
    BY <2>1, <2>2, <2>3, <2>4
<1> QED
  BY <1>1, <1>2, FormUntouched DEF PlanInvariant, SentType

\* Dragging, until what was dropped is answered.
LEMMA DragSteps ==
  ASSUME PlanInvariant, PlannerAssumption,
         \/ \E i \in Trips : PickUp(i)
         \/ LetGo \/ \E v \in Vehicles, at \in 0 .. DayEnd : Drop(v, at)
         \/ HearMoved \/ FailMove
  PROVE  PlanInvariant'
<1>1. UNCHANGED <<trips, rows, form, road, busy, saving>>
  BY DEF server, PickUp, LetGo, Drop, HearMoved, FailMove
<1>2. TableType' /\ SentType'
  <2> USE DEF PlanInvariant, TableType, SentType
  <2>1. CASE \E i \in Trips : PickUp(i)
    BY <2>1 DEF server, PickUp
  <2>2. CASE LetGo
    BY <2>2 DEF server, LetGo
  <2>3. CASE \E v \in Vehicles, at \in 0 .. DayEnd : Drop(v, at)
    <3>1. PICK v \in Vehicles, at \in 0 .. DayEnd : Drop(v, at)
      BY <2>3
    <3> DEFINE driver == IF LaneDriver(v) # None THEN LaneDriver(v) ELSE rows[dragging].driver
               row == [rows[dragging] EXCEPT !.vehicle = v, !.driver = driver,
                          !.start = Snapped(at, rows[dragging].length)]
    <3>2. /\ UNCHANGED load /\ dragging' = None
          /\ \/ moving' = None
             \/ /\ dragging \in Shown /\ rows[dragging].length < DayEnd
                /\ moving' = [id |-> dragging, row |-> row, state |-> "asked"]
      BY <3>1 DEF server, Drop
    <3>3. ASSUME dragging \in Shown, rows[dragging].length < DayEnd
          PROVE  dragging \in Trips /\ row \in Row
      <4>1. dragging \in Trips /\ rows[dragging] \in Row
        BY <3>3 DEF Shown, Timetable
      <4>2. driver \in Drivers
        <5>1. LaneDriver(v) \in Drivers \cup {None}
          <6> DEFINE drivers == {rows[k].driver : k \in {j \in Shown : rows[j].vehicle = v}}
          <6>1. drivers \subseteq Drivers
            BY DEF Shown, Timetable, Row
          <6>2. Cardinality(drivers) = 1 => drivers # {}
            BY FS_EmptySet
          <6> QED
            BY <6>1, <6>2 DEF LaneDriver
        <5> QED
          BY <4>1, <5>1 DEF Row
      <4>3. Snapped(at, rows[dragging].length) \in 0 .. DayEnd
        <5>1. rows[dragging].length \in Nat /\ DayEnd \in Nat /\ at \in 0 .. DayEnd
          BY <4>1 DEF Row, PlannerAssumption
        <5>2. rows[dragging].length < DayEnd
          BY <3>3
        <5> QED
          BY <5>1, <5>2 DEF Snapped
      <4> HIDE DEF driver
      <4> QED
        BY <4>1, <4>2, <4>3 DEF Row
    <3> HIDE DEF row
    <3> QED
      BY <1>1, <3>2, <3>3 DEF Moves, Answers
  <2>4. CASE HearMoved
    BY <1>1, <2>4 DEF server, HearMoved, NewLoad, Loads
  <2>5. CASE FailMove
    BY <1>1, <2>5 DEF server, FailMove
  <2> QED
    BY <2>1, <2>2, <2>3, <2>4, <2>5
<1> QED
  BY <1>1, <1>2, FormUntouched DEF PlanInvariant

\* The changes of the table by updateTrip, of this page and of others.
LEMMA TableSteps ==
  ASSUME PlanInvariant, PlannerAssumption, NoDoubleAssignment,
         \/ Move
         \/ \E i \in Trips, v \in Vehicles, d \in Drivers, at \in 0 .. DayEnd :
              OtherMoves(i, v, d, at)
         \/ \E i \in Trips, status \in {"in_progress", "cancelled"} : OtherEnds(i, status)
         \/ \E i \in Trips : CancelHere(i)
  PROVE  PlanInvariant' /\ NoDoubleAssignment'
<1>1. UNCHANGED <<load, form, road, busy, saving, dragging>>
  BY DEF Move, OtherMoves, OtherEnds, CancelHere
<1>2. rows' \in Timetable /\ moving' \in Moves \cup {None}
  <2> USE DEF PlanInvariant, TableType, SentType
  <2>1. CASE Move
    BY <2>1 DEF Move, Moves, Answers
  <2>2. CASE \E i \in Trips, v \in Vehicles, d \in Drivers, at \in 0 .. DayEnd :
               OtherMoves(i, v, d, at)
    BY <2>2 DEF OtherMoves
  <2>3. CASE \E i \in Trips, status \in {"in_progress", "cancelled"} : OtherEnds(i, status)
    BY <2>3 DEF OtherEnds
  <2>4. CASE \E i \in Trips : CancelHere(i)
    <3>1. PICK i \in Trips : CancelHere(i)
      BY <2>4
    <3>2. rows[i] \in Row
      BY <3>1 DEF CancelHere, Shown, Timetable
    <3>3. [rows[i] EXCEPT !.status = "cancelled"] \in Row
      BY <3>2 DEF Row
    <3> QED
      BY <3>1, <3>3 DEF CancelHere, Timetable
  <2> QED
    BY <2>1, <2>2, <2>3, <2>4
<1>3. trips' \in Timetable /\ NoDoubleAssignment'
  <2>0. trips \in Timetable
    BY DEF PlanInvariant, TableType
  <2>1. CASE Move
    <3> DEFINE new == [moving.row EXCEPT !.status = trips[moving.id].status]
    <3>1. CASE UNCHANGED trips
      BY <2>0, <3>1 DEF NoDoubleAssignment, Conflicts, Overlap
    <3>2. CASE ~UNCHANGED trips
      <4>1. /\ moving # None /\ trips[moving.id].status = "assigned"
            /\ ~Conflicts(moving.id, new) /\ trips' = [trips EXCEPT ![moving.id] = new]
        BY <2>1, <3>2 DEF Move
      <4>2. moving.id \in Trips /\ moving.row \in Row
        BY <4>1 DEF PlanInvariant, SentType, Moves
      <4>3. new \in Row
        BY <4>1, <4>2 DEF Row
      <4> HIDE DEF new
      <4> QED
        BY <2>0, <4>1, <4>2, <4>3, PutKeeps
    <3> QED
      BY <3>1, <3>2
  <2>2. CASE \E i \in Trips, v \in Vehicles, d \in Drivers, at \in 0 .. DayEnd :
               OtherMoves(i, v, d, at)
    <3>1. PICK i \in Trips, v \in Vehicles, d \in Drivers, at \in 0 .. DayEnd :
                 OtherMoves(i, v, d, at)
      BY <2>2
    <3> DEFINE new == [trips[i] EXCEPT !.vehicle = v, !.driver = d, !.start = at]
    <3>2. trips[i] # None /\ ~Conflicts(i, new) /\ trips' = [trips EXCEPT ![i] = new]
      BY <3>1 DEF OtherMoves
    <3>3. new \in Row
      BY <2>0, <3>2 DEF Timetable, Row
    <3> HIDE DEF new
    <3> QED
      BY <2>0, <3>2, <3>3, PutKeeps
  <2>3. CASE \E i \in Trips, status \in {"in_progress", "cancelled"} : OtherEnds(i, status)
    BY <2>0, <2>3, EndKeeps DEF OtherEnds
  <2>4. CASE \E i \in Trips : CancelHere(i)
    <3>1. PICK i \in Trips : CancelHere(i)
      BY <2>4
    <3>2. trips' = [trips EXCEPT ![i].status = "cancelled"]
      BY <3>1 DEF CancelHere
    <3> QED
      BY <2>0, <3>1, <3>2, EndKeeps DEF CancelHere
  <2> QED
    BY <2>1, <2>2, <2>3, <2>4
<1> QED
  BY <1>1, <1>2, <1>3, FormUntouched DEF PlanInvariant, TableType, SentType

-----------------------------------------------------------------------------
\* The steps of the form and of its road.

\* A price of a route is a price, or none.
LEMMA PriceOfRoute ==
  ASSUME NEW r \in Routes \cup {None}, NEW v \in Vehicles \cup {None}
  PROVE  RoutePrice(r, v) \in Prices \cup {None}
BY DEF RoutePrice, Prices

\* A form with another route, and the effect that asks for the road of that route.
LEMMA NewRoute ==
  ASSUME NEW r \in Routes \cup {None}, form' \in FormStates, form'.route = r,
         road' = LoadRoad(r), busy' = FALSE, FormFits'
  PROVE  FormType' /\ FormFits' /\ RoadFits'
BY DEF FormType, RoadFits, LoadRoad, NoRoad, Roads

\* Nothing is open: no price, no road.
LEMMA NoForm ==
  ASSUME form' \in {EmptyForm, [EmptyForm EXCEPT !.open = TRUE]},
         road' \in {NoRoad, LoadRoad(None)}, busy' = FALSE
  PROVE  FormType' /\ FormFits' /\ RoadFits'
<1>1. form' \in FormStates /\ form'.route = None
  <2>1. CASE form' = EmptyForm
    BY <2>1 DEF EmptyForm, FormStates
  <2>2. CASE form' = [EmptyForm EXCEPT !.open = TRUE]
    BY <2>2 DEF EmptyForm, FormStates
  <2> QED
    BY <2>1, <2>2
<1>2. road' \in Roads /\ RoadFits'
  <2>1. CASE road' = NoRoad
    BY <2>1 DEF NoRoad, Roads, RoadFits
  <2>2. CASE road' = LoadRoad(None)
    BY <2>2 DEF LoadRoad, NoRoad, Roads, RoadFits
  <2> QED
    BY <2>1, <2>2
<1> QED
  BY <1>1, <1>2 DEF FormType, FormFits

\* Fields of the form: its kind, route, vehicle and price.
LEMMA FormSteps ==
  ASSUME PlanInvariant,
         \/ OpenForm \/ CloseForm \/ TypePrice
         \/ \E r \in Routes \cup {None} : ChooseRoute(r)
         \/ \E r \in Routes : OpenForRoute(r)
         \/ \E kind \in {"regular", "individual"} : ChooseKind(kind)
         \/ \E v \in Vehicles : ChooseVehicle(v)
  PROVE  PlanInvariant'
<1>1. UNCHANGED <<trips, rows, load, saving, dragging, moving>>
  BY DEF server, OpenForm, CloseForm, TypePrice, ChooseRoute, OpenForRoute, ChooseKind,
         ChooseVehicle
<1>2. form \in FormStates /\ road \in Roads /\ busy \in BOOLEAN /\ FormFits /\ RoadFits
  BY DEF PlanInvariant, FormType
<1>3. FormType' /\ FormFits' /\ RoadFits'
  <2>1. CASE OpenForm
    BY <2>1, NoForm DEF OpenForm
  <2>2. CASE CloseForm
    BY <2>2, NoForm DEF CloseForm
  <2>3. CASE TypePrice
    <3>1. form' = [form EXCEPT !.price = Typed] /\ UNCHANGED <<road, busy>>
      BY <2>3 DEF TypePrice
    <3>2. form' \in FormStates /\ form'.route = form.route /\ form'.price = Typed
      BY <1>2, <3>1 DEF FormStates, Prices
    <3> QED
      BY <1>2, <3>1, <3>2 DEF FormType, FormFits, RoadFits
  <2>4. CASE \E r \in Routes \cup {None} : ChooseRoute(r)
    <3>1. PICK r \in Routes \cup {None} : ChooseRoute(r)
      BY <2>4
    <3> DEFINE price == IF r = None THEN form.price ELSE RoutePrice(r, form.vehicle)
    <3>2. /\ form' = [form EXCEPT !.route = r, !.price = price]
          /\ road' = LoadRoad(r) /\ busy' = FALSE
      BY <1>2, <3>1 DEF ChooseRoute, FormStates
    <3>3. price \in Prices \cup {None}
      BY <1>2, PriceOfRoute DEF FormStates
    <3>4. r # None => price = RoutePrice(r, form.vehicle)
      OBVIOUS
    <3> HIDE DEF price
    <3>5. /\ form' \in FormStates
          /\ form'.route = r /\ form'.vehicle = form.vehicle /\ form'.price = price
      BY <1>2, <3>2, <3>3 DEF FormStates
    <3>6. FormFits'
      BY <3>4, <3>5 DEF FormFits, RoutePrice
    <3> QED
      BY <3>2, <3>5, <3>6, NewRoute
  <2>5. CASE \E r \in Routes : OpenForRoute(r)
    <3>1. PICK r \in Routes : OpenForRoute(r)
      BY <2>5
    <3>2. /\ form' = [EmptyForm EXCEPT !.open = TRUE, !.route = r, !.price = <<r, None>>]
          /\ road' = LoadRoad(r) /\ busy' = FALSE
      BY <3>1 DEF OpenForRoute
    <3>3. form' \in FormStates /\ form'.route = r /\ form'.vehicle = None
      BY <3>2 DEF EmptyForm, FormStates, Prices
    <3> QED
      BY <3>2, <3>3, NewRoute DEF FormFits
  <2>6. CASE \E kind \in {"regular", "individual"} : ChooseKind(kind)
    <3>1. PICK kind \in {"regular", "individual"} : ChooseKind(kind)
      BY <2>6
    <3> DEFINE r == IF kind = "regular" THEN form.route ELSE None
    <3>2. /\ form' = [form EXCEPT !.kind = kind, !.route = r]
          /\ IF form'.route = form.route THEN UNCHANGED <<road, busy>>
             ELSE road' = LoadRoad(form'.route) /\ busy' = FALSE
      BY <1>2, <3>1 DEF ChooseKind, FormStates
    <3>3. r \in Routes \cup {None} /\ (r = form.route \/ r = None)
      BY <1>2 DEF FormStates
    <3> HIDE DEF r
    <3>4. /\ form' \in FormStates
          /\ form'.route = r /\ form'.vehicle = form.vehicle /\ form'.price = form.price
      BY <1>2, <3>2, <3>3 DEF FormStates
    <3>5. FormFits'
      BY <1>2, <3>3, <3>4 DEF FormFits, RoutePrice
    <3>6. CASE r = form.route
      BY <1>2, <3>2, <3>4, <3>5, <3>6 DEF FormType, RoadFits
    <3>7. CASE r # form.route
      BY <3>2, <3>3, <3>4, <3>5, <3>7, NewRoute
    <3> QED
      BY <3>6, <3>7
  <2>7. CASE \E v \in Vehicles : ChooseVehicle(v)
    <3>1. PICK v \in Vehicles : ChooseVehicle(v)
      BY <2>7
    <3> DEFINE price == IF form.route = None THEN form.price ELSE RoutePrice(form.route, v)
    <3>2. /\ form' = [form EXCEPT !.vehicle = v, !.price = price]
          /\ UNCHANGED <<road, busy>>
      BY <1>2, <3>1 DEF ChooseVehicle, FormStates
    <3>3. price \in Prices \cup {None}
      BY <1>2, PriceOfRoute DEF FormStates
    <3>4. form.route # None => price = RoutePrice(form.route, v)
      OBVIOUS
    <3> HIDE DEF price
    <3>5. /\ form' \in FormStates
          /\ form'.route = form.route /\ form'.vehicle = v /\ form'.price = price
      BY <1>2, <3>2, <3>3 DEF FormStates
    <3>6. FormFits'
      BY <3>4, <3>5 DEF FormFits, RoutePrice
    <3> QED
      BY <1>2, <3>2, <3>5, <3>6 DEF FormType, RoadFits
  <2> QED
    BY <2>1, <2>2, <2>3, <2>4, <2>5, <2>6, <2>7
<1> QED
  BY <1>1, <1>3 DEF PlanInvariant, TableType, SentType, PlannedAsShown, RoutePrice

\* The road: what the server knows of the route, and what is drawn by hand.
LEMMA RoadSteps ==
  ASSUME PlanInvariant,
         \/ \E state \in {"empty", "chosen", "built"} : HearRoad(state)
         \/ FailRoad \/ ChoosePlaces \/ RetryRoad
         \/ \E ok \in BOOLEAN : BuildRoad(ok)
  PROVE  PlanInvariant'
<1>1. UNCHANGED <<trips, rows, load, form, saving, dragging, moving>>
  BY DEF server, HearRoad, FailRoad, ChoosePlaces, RetryRoad, BuildRoad
<1>2. form \in FormStates /\ road \in Roads /\ busy \in BOOLEAN /\ FormFits /\ RoadFits
  BY DEF PlanInvariant, FormType
<1>3. road' \in Roads /\ busy' \in BOOLEAN /\ RoadFits'
  <2>1. CASE \E state \in {"empty", "chosen", "built"} : HearRoad(state)
    <3>1. PICK state \in {"empty", "chosen", "built"} : HearRoad(state)
      BY <2>1
    <3> DEFINE of == IF state = "empty" THEN None ELSE road.call
    <3>2. /\ road.call = form.route /\ form.route \in Routes \cup {None}
          /\ road' = [of |-> of, state |-> state, loading |-> FALSE, call |-> None]
          /\ busy' = (state = "chosen")
      BY <1>2, <3>1 DEF HearRoad, RoadFits, FormStates
    <3>3. of \in Routes \cup {None} /\ (state # "empty" => of = form.route)
      BY <3>2
    <3> HIDE DEF of
    <3> QED
      BY <1>1, <3>2, <3>3 DEF Roads, RoadFits
  <2>2. CASE FailRoad
    BY <1>1, <1>2, <2>2 DEF FailRoad, Roads, RoadFits
  <2>3. CASE ChoosePlaces
    BY <1>1, <1>2, <2>3 DEF ChoosePlaces, Roads, FormStates, RoadFits
  <2>4. CASE RetryRoad
    BY <1>1, <1>2, <2>4 DEF RetryRoad, RoadFits
  <2>5. CASE \E ok \in BOOLEAN : BuildRoad(ok)
    BY <1>1, <1>2, <2>5 DEF BuildRoad, Roads, RoadFits
  <2> QED
    BY <2>1, <2>2, <2>3, <2>4, <2>5
<1> QED
  BY <1>1, <1>2, <1>3
  DEF PlanInvariant, TableType, FormType, SentType, FormFits, PlannedAsShown, RoutePrice

-----------------------------------------------------------------------------
\* The steps of the submission.

\* submitTrip: the road is built and the price is chosen, so they are those of the route.
LEMMA SubmitStep ==
  ASSUME PlanInvariant, PlannerAssumption,
         NEW d \in Drivers, NEW starts \in Starts, NEW length \in Lengths,
         Submit(d, starts, length)
  PROVE  PlanInvariant'
<1>1. UNCHANGED <<trips, rows, load, form, road, busy, dragging, moving>>
  BY DEF server, Submit
<1>2. form \in FormStates /\ road \in Roads /\ FormFits /\ RoadFits
  BY DEF PlanInvariant, FormType
<1> DEFINE row == [vehicle |-> form.vehicle, driver |-> d, start |-> 0,
                   length |-> length, status |-> "assigned"]
<1>3. /\ road.state = "built" /\ form.vehicle # None /\ form.price # None
      /\ saving' = [state |-> "asked", starts |-> starts, route |-> form.route,
                    road |-> road.of, price |-> form.price, row |-> row]
  BY DEF Submit
<1>4. row \in Row /\ row.vehicle = form.vehicle
  BY <1>2, <1>3 DEF FormStates, Row, PlannerAssumption
<1> HIDE DEF row
<1>5. saving' \in Submissions
  BY <1>2, <1>3, <1>4 DEF Submissions, Answers, FormStates, Roads
<1>6. PlannedAsShown'
  <2> SUFFICES ASSUME form.route # None
               PROVE  /\ road.of = form.route
                      /\ form.price \in {Typed, RoutePrice(form.route, form.vehicle)}
    BY <1>3, <1>4 DEF PlannedAsShown, RoutePrice
  <2> QED
    BY <1>2, <1>3 DEF FormFits, RoadFits
<1> QED
  BY <1>1, <1>5, <1>6
  DEF PlanInvariant, TableType, FormType, SentType, FormFits, RoadFits, RoutePrice

\* The transaction: every departure gets a free row, or none does.
LEMMA CreateStep ==
  ASSUME PlanInvariant, PlannerAssumption, NoDoubleAssignment, Create
  PROVE  PlanInvariant' /\ NoDoubleAssignment'
<1>1. /\ saving # None /\ Cardinality(Free) >= Cardinality(saving.starts)
      /\ UNCHANGED <<rows, load, form, road, busy, dragging, moving>>
  BY DEF Create
<1>2. saving \in Submissions /\ trips \in Timetable
  BY <1>1 DEF PlanInvariant, SentType, TableType
<1>3. saving.starts \in Starts /\ saving.row \in Row
  BY <1>2 DEF Submissions
<1> DEFINE S == saving.starts
           at == CHOOSE f \in [S -> Free] : \A a, b \in S : f[a] = f[b] => a = b
           new == [a \in S |-> [saving.row EXCEPT !.start = a]]
<1>4. at \in [S -> Free] /\ \A a, b \in S : at[a] = at[b] => a = b
  BY <1>1, <1>3, RowsOfTheirOwn DEF PlannerAssumption
<1>5. new \in [S -> Row]
  BY <1>3 DEF Row, Starts
<1>6. \/ /\ UNCHANGED trips /\ saving' = [saving EXCEPT !.state = "refused"]
      \/ /\ \A a \in S : ~Conflicts(at[a], new[a])
         /\ \A a \in S : \A b \in S \ {a} : ~Overlap(new[a], new[b])
         /\ trips' = [i \in Trips |->
              IF \E a \in S : at[a] = i THEN new[CHOOSE a \in S : at[a] = i] ELSE trips[i]]
         /\ saving' = [saving EXCEPT !.state = "done"]
  <2> DEFINE row(a) == [saving.row EXCEPT !.start = a]
             conflict == \E a \in S : \/ Conflicts(at[a], row(a))
                                      \/ \E b \in S \ {a} : Overlap(row(a), row(b))
             table == [i \in Trips |->
               IF \E a \in S : at[a] = i THEN row(CHOOSE a \in S : at[a] = i) ELSE trips[i]]
  <2>1. IF conflict THEN UNCHANGED trips /\ saving' = [saving EXCEPT !.state = "refused"]
        ELSE trips' = table /\ saving' = [saving EXCEPT !.state = "done"]
    BY Zenon DEF Create
  <2>2. \A a \in S : new[a] = row(a)
    OBVIOUS
  <2> HIDE DEF at, new, row
  <2>3. table = [i \in Trips |->
          IF \E a \in S : at[a] = i THEN new[CHOOSE a \in S : at[a] = i] ELSE trips[i]]
    <3> SUFFICES ASSUME NEW i \in Trips, \E a \in S : at[a] = i
                 PROVE  row(CHOOSE a \in S : at[a] = i) = new[CHOOSE a \in S : at[a] = i]
      OBVIOUS
    <3>1. (CHOOSE a \in S : at[a] = i) \in S
      OBVIOUS
    <3> QED
      BY <2>2, <3>1
  <2> HIDE DEF table
  <2> QED
    BY <2>1, <2>2, <2>3
<1> HIDE DEF at, new
<1>7. trips' \in Timetable /\ NoDoubleAssignment'
  <2>1. CASE UNCHANGED trips
    BY <1>2, <2>1 DEF NoDoubleAssignment, Conflicts, Overlap
  <2>2. CASE ~UNCHANGED trips
    BY <1>2, <1>4, <1>5, <1>6, <2>2, AddKeeps
  <2> QED
    BY <2>1, <2>2
<1>8. saving' \in Submissions
  BY <1>2, <1>6 DEF Submissions, Answers
<1>9. PlannedAsShown'
  <2>1. /\ saving'.route = saving.route /\ saving'.road = saving.road
        /\ saving'.price = saving.price /\ saving'.row = saving.row
    BY <1>2, <1>6 DEF Submissions
  <2> QED
    BY <1>1, <2>1 DEF PlanInvariant, PlannedAsShown, RoutePrice
<1> QED
  BY <1>1, <1>7, <1>8, <1>9
  DEF PlanInvariant, TableType, FormType, SentType, FormFits, RoadFits, RoutePrice

\* The answers to a submission: the form is closed, or stays with its error.
LEMMA AnswerSteps ==
  ASSUME PlanInvariant, HearCreated \/ FailCreate
  PROVE  PlanInvariant'
<1>1. saving' = None /\ UNCHANGED <<trips, rows, dragging, moving>>
  BY DEF server, HearCreated, FailCreate
<1>2. load' \in Loads \cup {None} /\ FormType' /\ FormFits' /\ RoadFits'
  <2>1. CASE HearCreated
    BY <2>1, NoForm DEF HearCreated, NewLoad, Loads
  <2>2. CASE FailCreate
    BY <2>2
    DEF server, FailCreate, PlanInvariant, TableType, FormType, FormFits, RoadFits, RoutePrice
  <2> QED
    BY <2>1, <2>2
<1> QED
  BY <1>1, <1>2 DEF PlanInvariant, TableType, SentType, PlannedAsShown

-----------------------------------------------------------------------------
\* A day begins with one trip at most, and a closed form.
LEMMA PlanInit ==
  ASSUME PlannerAssumption, Init
  PROVE  PlanInvariant /\ NoDoubleAssignment
<1>1. PICK t \in Row :
        trips \in {[j \in Trips |-> IF j = FirstTrip THEN t ELSE None], [j \in Trips |-> None]}
  BY DEF Init
<1>2. /\ rows = [i \in Trips |-> None] /\ load = NewLoad /\ form = EmptyForm
      /\ road = NoRoad /\ busy = FALSE /\ saving = None /\ dragging = None /\ moving = None
  BY DEF Init
<1>3. TableType
  BY <1>1, <1>2 DEF TableType, Timetable, NewLoad, Loads
<1>4. FormType
  BY <1>2 DEF FormType, EmptyForm, FormStates, NoRoad, Roads
<1>5. SentType
  BY <1>2 DEF SentType
<1>6. FormFits /\ RoadFits /\ PlannedAsShown
  BY <1>2 DEF FormFits, RoadFits, PlannedAsShown, EmptyForm, NoRoad
<1>7. NoDoubleAssignment
  BY <1>1 DEF NoDoubleAssignment, Conflicts
<1> QED
  BY <1>3, <1>4, <1>5, <1>6, <1>7 DEF PlanInvariant

\* No step of the page, of its transactions or of other dispatchers breaks the invariant.
LEMMA PlanNext ==
  ASSUME PlannerAssumption, PlanInvariant, NoDoubleAssignment, [Next]_vars
  PROVE  PlanInvariant' /\ NoDoubleAssignment'
<1>1. UNCHANGED trips => NoDoubleAssignment'
  BY DEF NoDoubleAssignment, Conflicts, Overlap
<1>2. CASE Refresh \/ ServeLoad \/ HearLoad \/ FailLoad
  BY <1>1, <1>2, RowsSteps DEF server, Refresh, ServeLoad, HearLoad, FailLoad
<1>3. CASE \/ OpenForm \/ CloseForm \/ TypePrice
           \/ \E r \in Routes \cup {None} : ChooseRoute(r)
           \/ \E r \in Routes : OpenForRoute(r)
           \/ \E kind \in {"regular", "individual"} : ChooseKind(kind)
           \/ \E v \in Vehicles : ChooseVehicle(v)
  BY <1>1, <1>3, FormSteps
  DEF server, OpenForm, CloseForm, TypePrice, ChooseRoute, OpenForRoute, ChooseKind,
      ChooseVehicle
<1>4. CASE \/ \E state \in {"empty", "chosen", "built"} : HearRoad(state)
           \/ FailRoad \/ ChoosePlaces \/ RetryRoad
           \/ \E ok \in BOOLEAN : BuildRoad(ok)
  BY <1>1, <1>4, RoadSteps
  DEF server, HearRoad, FailRoad, ChoosePlaces, RetryRoad, BuildRoad
<1>5. CASE \E d \in Drivers, starts \in Starts, length \in Lengths :
             Submit(d, starts, length)
  BY <1>1, <1>5, SubmitStep DEF server, Submit
<1>6. CASE Create
  BY <1>6, CreateStep
<1>7. CASE HearCreated \/ FailCreate
  BY <1>1, <1>7, AnswerSteps DEF server, HearCreated, FailCreate
<1>8. CASE \/ \E i \in Trips : PickUp(i)
           \/ LetGo \/ \E v \in Vehicles, at \in 0 .. DayEnd : Drop(v, at)
           \/ HearMoved \/ FailMove
  BY <1>1, <1>8, DragSteps DEF server, PickUp, LetGo, Drop, HearMoved, FailMove
<1>9. CASE \/ Move
           \/ \E i \in Trips, v \in Vehicles, d \in Drivers, at \in 0 .. DayEnd :
                OtherMoves(i, v, d, at)
           \/ \E i \in Trips, status \in {"in_progress", "cancelled"} : OtherEnds(i, status)
           \/ \E i \in Trips : CancelHere(i)
  BY <1>9, TableSteps
<1>10. CASE UNCHANGED vars
  BY <1>1, <1>10, FormUntouched DEF vars, PlanInvariant, TableType, SentType
<1> QED
  BY <1>2, <1>3, <1>4, <1>5, <1>6, <1>7, <1>8, <1>9, <1>10 DEF Next

\* The invariant from which the theorems follow.
THEOREM PlansStaySound ==
  ASSUME PlannerAssumption
  PROVE  Spec => [](PlanInvariant /\ NoDoubleAssignment)
<1>1. Init => PlanInvariant /\ NoDoubleAssignment
  BY PlanInit
<1>2. PlanInvariant /\ NoDoubleAssignment /\ [Next]_vars
        => PlanInvariant' /\ NoDoubleAssignment'
  BY PlanNext
<1> QED
  BY <1>1, <1>2, PTL DEF Spec

\* Rows, form, submissions and drops are what TypeOK says (trips-planner.tsx).
THEOREM PlannerTypeCorrect ==
  ASSUME PlannerAssumption
  PROVE  Spec => []TypeOK
<1>1. PlanInvariant => TypeOK
  BY DEF PlanInvariant, TableType, FormType, SentType, RoadFits, TypeOK, Timetable, Loads,
         FormStates, Roads, Submissions, Moves, Answers
<1> QED
  BY <1>1, PlansStaySound, PTL

\* No vehicle and no driver has two trips at one time, whichever dispatchers create,
\* repeat and drag trips on calendars that are out of date.
THEOREM NobodyTwice ==
  ASSUME PlannerAssumption
  PROVE  Spec => []NoDoubleAssignment
BY PlansStaySound, PTL

\* A submitted trip has the road of its route and the price the form showed for it.
THEOREM PlansAreAsShown ==
  ASSUME PlannerAssumption
  PROVE  Spec => []PlannedAsShown
<1>1. PlanInvariant => PlannedAsShown
  BY DEF PlanInvariant
<1> QED
  BY <1>1, PlansStaySound, PTL

-----------------------------------------------------------------------------
\* Registry.  A screen whose loads abort or repeat each other has one load of its list; a
\* load's answer is what the server has unless something says that it changed
\* (ListIsTrue), and where nothing renews the list it is the server's (ShownIsTrue) and
\* what more is loaded belongs after it (MoreIsTrue).

\* What is shown of rows.
Pages == UNION {[S -> Browse!Shown \cup {None}] : S \in SUBSET Rows}
Totals == 0 .. Cardinality(Rows)
PageAnswers == [got : {"waiting", "failed", "rows"}, items : Pages, total : Totals]
ListStates ==
  [filter : {"all", "new"}, items : Pages, next : Nat, total : Totals, loading : BOOLEAN,
   stopped : BOOLEAN]
LoadStates ==
  [kind : {"list", "more"}, by : {"page", "realtime", "button"}, filter : {"all", "new"},
   shown : Totals, from : Nat, answer : PageAnswers]
Operations ==
  {Browse!MoveBooking, Browse!CancelBooking, Browse!ConfirmTransfer, Browse!CancelSelected, Browse!CreateBooking, Browse!MoveTrip,
   Browse!SubmitTrip, Browse!RescheduleTrip, Browse!SubmitCustomer, Browse!SaveVehicle,
   Browse!MoveVehicle, Browse!ToggleVehicle,
   Browse!FleetStatus, Browse!CreateMember, Browse!UpdateMember, Browse!MoveRole,
   Browse!UpdateSelected, Browse!SaveRoute, Browse!MoveRoute,
   Browse!RoutesStatus, Browse!UpdateRequest, Browse!RequestsStatus, Browse!SaveNote,
   Browse!Remove}
CommandStates ==
  [op : Operations, row : Rows, to : Browse!Shown \cup {None}, rest : SUBSET Rows,
   under : {"all", "new"}, was : Browse!Shown \cup {None}, reloaded : BOOLEAN,
   stage : {"asking", "sent", "done", "refused"}]

\* The rows, the list, its loads and the command.
RegistryType ==
  /\ screen \in Screens /\ rows \in [Rows -> Browse!Shown \cup {None}]
  /\ news \in {"none", "sent", "lost"} /\ pending \in BOOLEAN
  /\ attention \in {"page", "elsewhere"} /\ view \in ListStates /\ view.filter \in Browse!Filters
  /\ due \in BOOLEAN /\ loads \in [Browse!Slots -> LoadStates \cup {None}]
  /\ command \in CommandStates \cup {None} /\ again \in BOOLEAN
  /\ typed \in Rows \cup {None} /\ stray \in BOOLEAN /\ events \in Nat

\* The screens whose loads abort or repeat each other.
Careful == Browse!Of.own \in {"aborts", "queues"}

\* There is one load of the list, and more is loaded only when there is none.
Sequential ==
  Careful =>
    /\ loads[1] # None => /\ loads[1].kind = "list" /\ loads[1].from = 0
                          /\ loads[2] = None /\ (Browse!Of.paged => view.loading)
    /\ loads[2] # None => loads[2].kind = "more" /\ Browse!Of.paged
    /\ Browse!Of.own = "aborts" => ~again

\* A change that the screen has not begun to load.
Told == pending \/ news # "none"

\* The list is about to be renewed.
Renewing ==
  \/ stray \/ again \/ due \/ Told
  \/ loads[1] # None /\ loads[1].filter = view.filter

\* An answer is what the server has.
Fits(l) == l.answer \in {Browse!Waiting, Browse!Failed, Browse!Page(l)}
ListIsTrue == Careful /\ loads[1] # None => Fits(loads[1]) \/ Told

\* More rows are those after the rows that are shown.
MoreIsTrue ==
  Careful /\ ~Renewing /\ loads[2] # None =>
    /\ loads[2].filter = view.filter /\ loads[2].from = view.next
    /\ view.next < Cardinality(Browse!Matching(view.filter)) /\ Fits(loads[2])

ShownIsTrue == Careful => Renewing \/ Browse!UpToDate

\* What a command changed is not yet shown only if the list is about to be renewed.
CommandIsSeen ==
  Careful /\ command # None =>
    /\ Browse!Of.own = "aborts" /\ command.op.how # "first"
    /\ command.stage = "done" /\ ~command.reloaded => Renewing

\* Notes are typed on the page of the requests.
NotesOfRequests == typed # None => screen = "requests"

ListInvariant == Sequential /\ ListIsTrue /\ MoreIsTrue /\ ShownIsTrue
RegistryInvariant == RegistryType /\ ListInvariant /\ CommandIsSeen /\ NotesOfRequests

-----------------------------------------------------------------------------
\* The first rows of a set.

\* The module of the list screens counts as the library does.
LEMMA RowCountsAre == \A S : Browse!Cardinality(S) = Cardinality(S)
  BY DEF Browse!Cardinality, Cardinality

LEMMA RowsAreMany ==
  ASSUME Browse!RegistryAssumption
  PROVE  Rows \subseteq Nat /\ IsFiniteSet(Rows) /\ Cardinality(Rows) \in Nat
<1>1. Rows \subseteq Nat /\ IsFiniteSet(Rows)
  BY DEF Browse!RegistryAssumption, Browse!IsFiniteSet, IsFiniteSet
<1> QED
  BY <1>1, FS_CardinalityType

LEMMA LeastNumber ==
  ASSUME NEW S \in SUBSET Nat, S # {}
  PROVE  \E i \in S : \A j \in S : i <= j
<1> DEFINE R == {ss \in Nat \X Nat : ss[1] < ss[2]}
<1>1. IsWellFoundedOn(R, Nat)
  BY NatLessThanWellFounded DEF OpToRel
<1>2. PICK x \in S : \A y \in S : ~ (<<y, x>> \in R)
  <2> HIDE DEF R
  <2> QED
    BY <1>1, WFMin
<1>3. \A y \in S : <<y, x>> \in Nat \X Nat /\ <<y, x>>[1] = y /\ <<y, x>>[2] = x
  OBVIOUS
<1>4. \A y \in S : ~ (y < x)
  BY <1>2, <1>3
<1> QED
  BY <1>4

Below(S, r) == {q \in S : q < r}

LEMMA BelowIsFinite ==
  ASSUME NEW S \in SUBSET Nat, IsFiniteSet(S), NEW r \in Nat
  PROVE  /\ IsFiniteSet(Below(S, r)) /\ Cardinality(Below(S, r)) \in Nat
         /\ Cardinality(Below(S, r)) <= Cardinality(S) /\ Cardinality(S) \in Nat
         /\ r \in S => Cardinality(Below(S, r)) < Cardinality(S)
<1>1. Below(S, r) \in SUBSET S /\ r \notin Below(S, r)
  BY DEF Below
<1>2. /\ IsFiniteSet(Below(S, r)) /\ Cardinality(Below(S, r)) <= Cardinality(S)
      /\ Cardinality(S) = Cardinality(Below(S, r)) => S = Below(S, r)
  BY <1>1, FS_Subset
<1>3. Cardinality(Below(S, r)) \in Nat /\ Cardinality(S) \in Nat
  BY <1>2, FS_CardinalityType
<1> QED
  BY <1>1, <1>2, <1>3

\* An earlier row has fewer rows before it.
LEMMA BelowGrows ==
  ASSUME NEW S \in SUBSET Nat, IsFiniteSet(S), NEW r \in S, NEW s \in S, r < s
  PROVE  Cardinality(Below(S, r)) < Cardinality(Below(S, s))
<1>1. Below(S, s) \in SUBSET Nat /\ IsFiniteSet(Below(S, s))
  BY BelowIsFinite DEF Below
<1>2. r \in Nat /\ s \in Nat /\ \A q \in S : q \in Nat
  OBVIOUS
<1>3. r \in Below(S, s) /\ Below(Below(S, s), r) = Below(S, r)
  <2>1. \A q \in S : q < r => q < s
    BY <1>2
  <2> QED
    BY <2>1 DEF Below
<1> QED
  BY <1>1, <1>2, <1>3, BelowIsFinite

LEMMA LastNumber ==
  ASSUME NEW S \in SUBSET Nat, IsFiniteSet(S), S # {}
  PROVE  \E m \in S : \A i \in S : i <= m
<1> DEFINE left(r) == {q \in S : q > r}
           D == {Cardinality(left(r)) : r \in S}
<1>1. \A r \in S : IsFiniteSet(left(r)) /\ Cardinality(left(r)) \in Nat
  <2> SUFFICES ASSUME NEW r \in S
               PROVE  IsFiniteSet(left(r)) /\ Cardinality(left(r)) \in Nat
    OBVIOUS
  <2>1. left(r) \in SUBSET S
    OBVIOUS
  <2> HIDE DEF left
  <2> QED
    BY <2>1, FS_Subset, FS_CardinalityType
<1>2. D \in SUBSET Nat /\ D # {}
  BY <1>1
<1>3. PICK d \in D : \A e \in D : d <= e
  <2> HIDE DEF D
  <2> QED
    BY <1>2, LeastNumber
<1>4. PICK m \in S : d = Cardinality(left(m))
  BY <1>3
<1>5. ASSUME NEW i \in S, i > m
      PROVE  FALSE
  <2>1. left(i) \in SUBSET left(m) /\ i \in left(m) /\ i \notin left(i)
    <3>1. i \in Nat /\ m \in Nat /\ \A q \in S : q \in Nat
      BY <1>4
    <3>2. \A q \in S : q > i => q > m
      BY <1>5, <3>1
    <3>3. ~(i > i)
      BY <3>1
    <3> QED
      BY <1>5, <3>2, <3>3
  <2>2. /\ Cardinality(left(i)) <= Cardinality(left(m))
        /\ Cardinality(left(m)) = Cardinality(left(i)) => left(m) = left(i)
    <3> HIDE DEF left
    <3> QED
      BY <1>1, <2>1, FS_Subset
  <2>3. d <= Cardinality(left(i))
    BY <1>3
  <2> QED
    BY <1>1, <1>4, <2>1, <2>2, <2>3
<1> QED
  BY <1>5

LEMMA HeadIs ==
  ASSUME NEW S \in SUBSET Nat, NEW n
  PROVE  /\ Browse!Head(S, n) \subseteq S
         /\ \A r \in S : r \in Browse!Head(S, n) <=> Cardinality(Below(S, r)) < n
  BY RowCountsAre DEF Browse!Head, Below

\* The first n are n, or all; and they are as many of the first as they are.
LEMMA HeadCount ==
  ASSUME NEW S \in SUBSET Nat, IsFiniteSet(S), NEW n \in Nat
  PROVE  /\ IsFiniteSet(Browse!Head(S, n)) /\ Cardinality(Browse!Head(S, n)) \in Nat
         /\ Cardinality(Browse!Head(S, n)) <= n
         /\ Browse!Head(S, n) = S \/ Cardinality(Browse!Head(S, n)) = n
         /\ Browse!Head(S, Cardinality(Browse!Head(S, n))) = Browse!Head(S, n)
<1> DEFINE H == Browse!Head(S, n)
<1>1. H \in SUBSET S /\ \A r \in S : r \in H <=> Cardinality(Below(S, r)) < n
  BY HeadIs
<1> HIDE DEF H
<1>2. \A r \in S : r \in Nat /\ Cardinality(Below(S, r)) \in Nat
  BY BelowIsFinite
<1>3. IsFiniteSet(H) /\ Cardinality(H) \in Nat
  BY <1>1, FS_Subset, FS_CardinalityType
<1>4. \A r \in H, q \in S : q < r => q \in H
  <2> SUFFICES ASSUME NEW r \in H, NEW q \in S, q < r
               PROVE  q \in H
    OBVIOUS
  <2>1. Cardinality(Below(S, q)) < Cardinality(Below(S, r))
    BY <1>1, BelowGrows
  <2> QED
    BY <1>1, <1>2, <2>1
<1>5. Cardinality(H) <= n
  <2>1. CASE H = {}
    BY <2>1, FS_EmptySet
  <2>2. CASE H # {}
    <3>1. PICK m \in H : \A i \in H : i <= m
      BY <1>1, <1>3, <2>2, LastNumber
    <3>2. H = Below(S, m) \cup {m}
      <4>1. m \in S /\ m \in Nat /\ H \subseteq S
        BY <1>1, <1>2, <3>1
      <4>2. \A q \in S : q < m => q \in H
        BY <1>4, <3>1
      <4>3. \A q \in H : q \in Nat /\ q <= m /\ (q < m \/ q = m)
        BY <1>2, <3>1, <4>1
      <4>4. \A q : q \in H <=> q \in Below(S, m) \cup {m}
        BY <3>1, <4>1, <4>2, <4>3 DEF Below
      <4> QED
        BY <4>4
    <3>3. IsFiniteSet(Below(S, m)) /\ m \notin Below(S, m)
      BY <1>1, <1>2, BelowIsFinite DEF Below
    <3>4. Cardinality(H) = Cardinality(Below(S, m)) + 1
      BY <3>2, <3>3, FS_AddElement
    <3> QED
      BY <1>1, <1>2, <3>1, <3>4
  <2> QED
    BY <2>1, <2>2
<1>6. CASE H = S
  <2>1. \A r \in S : r \in Browse!Head(S, Cardinality(S))
    BY <1>2, BelowIsFinite, HeadIs
  <2>2. Browse!Head(S, Cardinality(S)) = S
    BY <2>1, HeadIs
  <2> QED
    BY <1>3, <1>5, <1>6, <2>2 DEF H
<1>7. CASE H # S
  <2>1. S \ H \in SUBSET Nat /\ S \ H # {}
    BY <1>1, <1>7
  <2>2. PICK r \in S \ H : \A i \in S \ H : r <= i
    BY <2>1, LeastNumber
  <2>3. Below(S, r) = H
    <3>1. r \in S /\ r \in Nat /\ r \notin H
      BY <1>2, <2>2
    <3>2. \A q \in S : q < r => q \in H
      BY <1>2, <2>2, <3>1
    <3>3. \A q \in H : q \in S /\ q \in Nat /\ ~(r < q) /\ q # r
      BY <1>1, <1>2, <1>4, <3>1
    <3>4. \A q \in H : q \in S /\ q < r
      BY <3>1, <3>3
    <3> QED
      BY <3>2, <3>4 DEF Below
  <2>4. Cardinality(H) >= n
    BY <1>1, <1>2, <2>2, <2>3
  <2>5. Cardinality(H) = n
    BY <1>3, <1>5, <2>4
  <2> QED
    BY <1>3, <1>5, <2>5 DEF H
<1> QED
  BY <1>6, <1>7

\* The first m and the first p of the others are the first together.
LEMMA HeadsJoin ==
  ASSUME NEW S \in SUBSET Nat, IsFiniteSet(S), NEW m \in Nat, m < Cardinality(S),
         NEW p \in Nat, p > 0, NEW A, A = Browse!Head(S, m), NEW P, P = Browse!Head(S \ A, p)
  PROVE  /\ P # {} /\ IsFiniteSet(P) /\ Cardinality(P) \in Nat
         /\ Browse!Head(S, m + Cardinality(P)) = A \cup P
<1>1. /\ A \in SUBSET S /\ IsFiniteSet(A) /\ Cardinality(A) = m
      /\ \A r \in S : r \in A <=> Cardinality(Below(S, r)) < m
  <2>1. A \in SUBSET S /\ \A r \in S : r \in A <=> Cardinality(Below(S, r)) < m
    BY HeadIs
  <2>2. IsFiniteSet(A) /\ Cardinality(A) <= m /\ (A = S \/ Cardinality(A) = m)
    BY HeadCount
  <2> QED
    BY <2>1, <2>2, FS_CardinalityType
<1>2. PICK R : R = S \ A
  OBVIOUS
<1>3. R \in SUBSET Nat /\ IsFiniteSet(R) /\ R # {}
  <2>1. R \in SUBSET S
    BY <1>2
  <2>2. A # S
    BY <1>1
  <2> QED
    BY <1>1, <1>2, <2>1, <2>2, FS_Subset
<1>4. /\ IsFiniteSet(P) /\ Cardinality(P) \in Nat /\ (P = R \/ Cardinality(P) = p)
      /\ Browse!Head(R, Cardinality(P)) = P
  <2>1. P = Browse!Head(R, p)
    BY <1>2
  <2> QED
    BY <1>3, <2>1, HeadCount
<1>5. P # {}
  BY <1>3, <1>4, FS_EmptySet
<1>6. ASSUME NEW r \in R
      PROVE  Cardinality(Below(S, r)) = m + Cardinality(Below(R, r))
  <2>1. r \in S /\ r \in Nat /\ r \notin A
    BY <1>2, <1>6
  <2>2. \A a \in A : a < r
    <3> SUFFICES ASSUME NEW a \in A, ~(a < r)
                 PROVE  FALSE
      OBVIOUS
    <3>1. a \in S /\ a # r /\ r < a
      BY <1>1, <2>1
    <3>2. Cardinality(Below(S, r)) < Cardinality(Below(S, a))
      BY <2>1, <3>1, BelowGrows
    <3>3. Cardinality(Below(S, a)) \in Nat /\ Cardinality(Below(S, r)) \in Nat
      BY <2>1, <3>1, BelowIsFinite
    <3> QED
      BY <1>1, <2>1, <3>1, <3>2, <3>3
  <2>3. Below(S, r) = A \cup Below(R, r) /\ A \cap Below(R, r) = {}
    BY <1>1, <1>2, <2>2 DEF Below
  <2>4. IsFiniteSet(Below(R, r)) /\ Cardinality(Below(R, r)) \in Nat
    BY <1>3, <2>1, BelowIsFinite
  <2>5. Cardinality(Below(S, r)) = Cardinality(A) + Cardinality(Below(R, r)) - Cardinality({})
    BY <1>1, <2>3, <2>4, FS_Union
  <2> QED
    BY <1>1, <2>4, <2>5, FS_EmptySet
<1>7. PICK k \in Nat : k = Cardinality(P)
  BY <1>4
<1>8. ASSUME NEW r \in S
      PROVE  r \in Browse!Head(S, m + k) <=> r \in A \cup P
  <2>1. r \in Nat /\ Cardinality(Below(S, r)) \in Nat
    BY BelowIsFinite
  <2>2. r \in Browse!Head(S, m + k) <=> Cardinality(Below(S, r)) < m + k
    BY HeadIs
  <2>3. CASE r \in A
    BY <1>1, <2>1, <2>2, <2>3
  <2>4. CASE r \notin A
    <3>1. r \in R /\ Cardinality(Below(R, r)) \in Nat
      BY <1>2, <1>3, <2>1, <2>4, BelowIsFinite
    <3>2. r \in P <=> Cardinality(Below(R, r)) < k
      BY <1>3, <1>4, <1>7, <3>1, HeadIs
    <3> QED
      BY <1>6, <2>2, <2>4, <3>1, <3>2
  <2> QED
    BY <2>3, <2>4
<1>9. Browse!Head(S, m + k) \subseteq S /\ P \subseteq S
  <2>1. Browse!Head(R, p) \subseteq R
    BY <1>3, HeadIs
  <2> QED
    BY <1>2, <2>1, HeadIs
<1> QED
  BY <1>1, <1>4, <1>5, <1>7, <1>8, <1>9

-----------------------------------------------------------------------------
\* The screens, what they show and what they ask for.

LEMMA OfIs ==
  ASSUME Browse!RegistryAssumption, screen \in Screens
  PROVE  /\ Browse!Of.own \in {"aborts", "queues", "waits", "overtakes"}
         /\ Browse!Of.refresh \in {"aborts", "waits", "overtakes"} /\ Browse!Of.drops \in BOOLEAN
         /\ Careful =>
              /\ Browse!Of.refresh = "aborts" /\ Browse!Of.drops
              /\ Browse!Of.own = "queues" => screen = "statistics" /\ ~Browse!Of.paged
              /\ Browse!Of.own = "aborts" => screen \in {"bookings", "customers", "requests", "trips"}
<1>1. CASE screen = "bookings"
  BY <1>1 DEF Browse!Of, Browse!Bookings, Browse!Latest, Browse!Plain, Careful
<1>2. CASE screen = "customers"
  BY <1>2 DEF Browse!Of, Browse!Customers, Browse!Latest, Browse!Plain, Careful
<1>3. CASE screen = "requests"
  BY <1>3 DEF Browse!Of, Browse!Requests, Browse!Latest, Browse!Plain, Careful
<1>4. CASE screen = "trips"
  BY <1>4 DEF Browse!Of, Browse!Trips, Browse!Latest, Browse!Plain, Careful
<1>5. CASE screen = "fleet"
  BY <1>5 DEF Browse!Of, Browse!Fleet, Browse!Plain, Careful
<1>6. CASE screen = "team"
  BY <1>6 DEF Browse!Of, Browse!Team, Browse!Plain, Careful
<1>7. CASE screen = "routes"
  BY <1>7 DEF Browse!Of, Browse!Catalog, Browse!Plain, Careful
<1>8. CASE screen = "statistics"
  BY <1>8 DEF Browse!Of, Browse!Statistics, Browse!Latest, Browse!Plain, Careful
<1>9. CASE screen = "dashboard"
  BY <1>9 DEF Browse!Of, Browse!Dashboard, Browse!Plain, Careful
<1>10. CASE screen = "finance"
  BY <1>10 DEF Browse!Of, Browse!Finance, Browse!Plain, Careful
<1> QED
  BY <1>1, <1>2, <1>3, <1>4, <1>5, <1>6, <1>7, <1>8, <1>9, <1>10 DEF Browse!RegistryAssumption

\* The screen stays what it is.
LEMMA ScreenStays ==
  ASSUME screen' = screen
  PROVE  Browse!Of' = Browse!Of /\ Browse!Filters' = Browse!Filters /\ (Careful' <=> Careful)
BY DEF Browse!Of, Browse!Filters, Careful

LEMMA MatchingIs ==
  ASSUME Browse!RegistryAssumption, NEW f
  PROVE  /\ Browse!Matching(f) \in SUBSET Nat /\ Browse!Matching(f) \subseteq Rows
         /\ IsFiniteSet(Browse!Matching(f)) /\ Cardinality(Browse!Matching(f)) \in Totals
         /\ Cardinality(Browse!Matching(f)) \in Nat
<1>1. Browse!Matching(f) \in SUBSET Rows
  BY DEF Browse!Matching
<1>2. IsFiniteSet(Browse!Matching(f)) /\ Cardinality(Browse!Matching(f)) <= Cardinality(Rows)
  BY <1>1, RowsAreMany, FS_Subset
<1>3. Cardinality(Browse!Matching(f)) \in Nat /\ Cardinality(Rows) \in Nat
  BY <1>2, RowsAreMany, FS_CardinalityType
<1>4. Rows \subseteq Nat
  BY DEF Browse!RegistryAssumption
<1>5. Browse!Matching(f) \in SUBSET Nat
  BY <1>1, <1>4
<1>6. Cardinality(Browse!Matching(f)) \in Totals
  BY <1>2, <1>3 DEF Totals
<1> QED
  BY <1>1, <1>2, <1>3, <1>5, <1>6

\* Rows that are shown are rows.
LEMMA PagesAre ==
  ASSUME Browse!RegistryAssumption, NEW g \in Pages
  PROVE  /\ DOMAIN g \in SUBSET Rows /\ \A r \in DOMAIN g : g[r] \in Browse!Shown \cup {None}
         /\ IsFiniteSet(DOMAIN g) /\ Cardinality(DOMAIN g) \in Totals
         /\ Cardinality(DOMAIN g) \in Nat
<1>1. PICK S \in SUBSET Rows : g \in [S -> Browse!Shown \cup {None}]
  BY DEF Pages
<1>2. IsFiniteSet(S) /\ Cardinality(S) <= Cardinality(Rows)
  BY RowsAreMany, FS_Subset
<1>3. Cardinality(S) \in Nat /\ Cardinality(Rows) \in Nat
  BY <1>2, RowsAreMany, FS_CardinalityType
<1> QED
  BY <1>1, <1>2, <1>3 DEF Totals

LEMMA IsPage ==
  ASSUME NEW S \in SUBSET Rows, NEW g \in [S -> Browse!Shown \cup {None}]
  PROVE  g \in Pages
BY DEF Pages

LEMMA WaitingIs ==
  ASSUME Browse!RegistryAssumption
  PROVE  /\ 0 \in Totals /\ Browse!NoRows \in Pages
         /\ Browse!Waiting \in PageAnswers /\ Browse!Failed \in PageAnswers
         /\ Browse!Waiting.got = "waiting" /\ Browse!Failed.got = "failed" /\ Browse!Waiting # Browse!Failed
<1>1. 0 \in Totals
  BY RowsAreMany DEF Totals
<1>2. Browse!NoRows \in Pages
  <2>1. Browse!NoRows \in [{} -> Browse!Shown \cup {None}] /\ {} \in SUBSET Rows
    BY DEF Browse!NoRows
  <2> QED
    BY <2>1, IsPage
<1>3. /\ Browse!Waiting = [got |-> "waiting", items |-> Browse!NoRows, total |-> 0]
      /\ Browse!Failed = [got |-> "failed", items |-> Browse!NoRows, total |-> 0]
  BY DEF Browse!Waiting, Browse!Failed, Browse!Empty
<1> QED
  BY <1>1, <1>2, <1>3 DEF PageAnswers

LEMMA PageIs ==
  ASSUME Browse!RegistryAssumption, RegistryType, NEW l \in LoadStates
  PROVE  Browse!Page(l) \in PageAnswers /\ Browse!Page(l).got = "rows" /\ Browse!Page(l) # Browse!Failed /\ Browse!Page(l) # Browse!Waiting
<1>1. PICK all : all = Browse!Matching(l.filter)
  OBVIOUS
<1>2. all \subseteq Rows /\ Cardinality(all) \in Totals
  BY <1>1, MatchingIs
<1>3. PICK p : p = IF Browse!Of.paged THEN Browse!Head(all \ Browse!Head(all, l.from), PageSize)
                   ELSE all \ Browse!Head(all, l.from)
  OBVIOUS
<1>4. p \subseteq Rows
  BY <1>2, <1>3 DEF Browse!Head
<1>5. PICK g : g = [r \in p |-> rows[r]]
  OBVIOUS
<1>6. g \in [p -> Browse!Shown \cup {None}]
  BY <1>4, <1>5 DEF RegistryType
<1>7. g \in Pages
  BY <1>4, <1>6, IsPage
<1>8. Browse!Page(l) = [got |-> "rows", items |-> g, total |-> Cardinality(all)]
  BY <1>1, <1>3, <1>5, RowCountsAre DEF Browse!Page
<1>9. Browse!Page(l) \in PageAnswers /\ Browse!Page(l).got = "rows"
  BY <1>2, <1>7, <1>8 DEF PageAnswers
<1> QED
  BY <1>9, WaitingIs

\* A load is not None.
LEMMA LoadsAreSome ==
  ASSUME Browse!RegistryAssumption, NEW l \in LoadStates
  PROVE  l # None
<1>1. Totals \subseteq Nat
  BY RowsAreMany DEF Totals
<1>2. l.answer \in [got : {"waiting", "failed", "rows"}, items : Pages, total : Nat]
  BY <1>1 DEF LoadStates, PageAnswers
<1>3. l \in [kind : {"list", "more"}, by : {"page", "realtime", "button"},
            filter : {"all", "new"}, shown : Nat, from : Nat,
            answer : [got : {"waiting", "failed", "rows"}, items : Pages, total : Nat]]
  BY <1>1, <1>2 DEF LoadStates
<1> QED
  BY <1>3 DEF Browse!RegistryAssumption, Pages

\* Every operation of a careful screen leaves the list as it is until it is answered.
LEMMA HowIs ==
  /\ Browse!Remove \in Operations /\ Browse!SaveNote \in Operations
  /\ Browse!Remove.how = "reload" /\ Browse!SaveNote.how = "keep"
  /\ \A op \in {Browse!MoveBooking, Browse!CancelBooking, Browse!ConfirmTransfer, Browse!CancelSelected, Browse!CreateBooking,
                Browse!MoveTrip, Browse!SubmitTrip, Browse!RescheduleTrip,
                Browse!SubmitCustomer, Browse!UpdateRequest,
                Browse!RequestsStatus} : op.how # "first"
<1>1. Browse!MoveBooking.how # "first" /\ Browse!CancelBooking.how # "first" /\ Browse!ConfirmTransfer.how # "first"
  BY DEF Browse!MoveBooking, Browse!CancelBooking, Browse!ConfirmTransfer, Browse!Op
<1>2. Browse!CancelSelected.how # "first" /\ Browse!CreateBooking.how # "first" /\ Browse!MoveTrip.how # "first"
  BY DEF Browse!CancelSelected, Browse!CreateBooking, Browse!MoveTrip, Browse!Op
<1>3. Browse!SubmitTrip.how # "first" /\ Browse!RescheduleTrip.how # "first" /\ Browse!SubmitCustomer.how # "first"
  BY DEF Browse!SubmitTrip, Browse!RescheduleTrip, Browse!SubmitCustomer, Browse!Op
<1>4. Browse!UpdateRequest.how # "first" /\ Browse!RequestsStatus.how # "first"
  BY DEF Browse!UpdateRequest, Browse!RequestsStatus, Browse!Op
<1>5. Browse!Remove.how = "reload" /\ Browse!SaveNote.how = "keep"
  BY DEF Browse!Remove, Browse!SaveNote, Browse!Op
<1>6. Browse!Remove \in Operations /\ Browse!SaveNote \in Operations
  BY DEF Operations
<1> QED
  BY <1>1, <1>2, <1>3, <1>4, <1>5, <1>6

LEMMA CallsAre ==
  ASSUME Browse!RegistryAssumption, RegistryType, NEW asking \in Browse!Calls
  PROVE  /\ asking[1] \in Operations /\ asking[2][1] \in Rows /\ asking[2][2] \in Browse!Shown
         /\ Careful => Browse!Of.own = "aborts" /\ asking[1].how # "first"
<1>1. Browse!Moving \subseteq Rows \X Browse!Shown /\ Browse!Saving \subseteq Rows \X Browse!Shown /\ Browse!New \subseteq Rows \X Browse!Shown
  <2>1. DOMAIN view.items \in SUBSET Rows
    BY PagesAre DEF RegistryType, ListStates
  <2> QED
    BY <2>1 DEF Browse!Moving, Browse!Saving, Browse!New
<1>2. screen \in Screens
  BY DEF RegistryType
<1>3. ASSUME NEW op \in Operations, NEW m \in Rows \X Browse!Shown, asking = <<op, m>>
      PROVE  asking[1] = op /\ asking[2][1] \in Rows /\ asking[2][2] \in Browse!Shown
  BY <1>3
<1>4. CASE screen = "bookings"
  <2>1. asking \in Browse!BookingCalls /\ Browse!Of.own = "aborts"
    BY <1>4 DEF Browse!Calls, Browse!Of, Browse!Bookings, Browse!Latest, Browse!Plain
  <2>2. PICK op \in {Browse!MoveBooking, Browse!CancelBooking, Browse!ConfirmTransfer, Browse!CancelSelected, Browse!CreateBooking},
             m \in Rows \X Browse!Shown : asking = <<op, m>>
    BY <1>1, <2>1 DEF Browse!BookingCalls
  <2> QED
    BY <1>3, <2>1, <2>2, HowIs DEF Operations
<1>5. CASE screen = "trips"
  <2>1. asking \in Browse!TripCalls /\ Browse!Of.own = "aborts"
    BY <1>5 DEF Browse!Calls, Browse!Of, Browse!Trips, Browse!Latest, Browse!Plain
  <2>2. PICK op \in {Browse!MoveTrip, Browse!RescheduleTrip, Browse!SubmitTrip}, m \in Rows \X Browse!Shown :
          asking = <<op, m>>
    BY <1>1, <2>1 DEF Browse!TripCalls
  <2> QED
    BY <1>3, <2>1, <2>2, HowIs DEF Operations
<1>6. CASE screen = "customers"
  <2>1. asking \in Browse!CustomerCalls /\ Browse!Of.own = "aborts"
    BY <1>6 DEF Browse!Calls, Browse!Of, Browse!Customers, Browse!Latest, Browse!Plain
  <2>2. PICK op \in {Browse!SubmitCustomer}, m \in Rows \X Browse!Shown : asking = <<op, m>>
    BY <1>1, <2>1 DEF Browse!CustomerCalls
  <2> QED
    BY <1>3, <2>1, <2>2, HowIs DEF Operations
<1>7. CASE screen = "requests"
  <2>1. asking \in Browse!RequestCalls /\ Browse!Of.own = "aborts"
    BY <1>7 DEF Browse!Calls, Browse!Of, Browse!Requests, Browse!Latest, Browse!Plain
  <2>2. PICK op \in {Browse!UpdateRequest, Browse!RequestsStatus}, m \in Rows \X Browse!Shown : asking = <<op, m>>
    BY <1>1, <2>1 DEF Browse!RequestCalls
  <2> QED
    BY <1>3, <2>1, <2>2, HowIs DEF Operations
<1>8. CASE screen = "fleet"
  <2>1. asking \in Browse!FleetCalls /\ ~Careful
    BY <1>8 DEF Browse!Calls, Browse!Of, Browse!Fleet, Browse!Plain, Careful
  <2>2. PICK op \in {Browse!MoveVehicle, Browse!ToggleVehicle, Browse!FleetStatus, Browse!SaveVehicle}, m \in Rows \X Browse!Shown :
          asking = <<op, m>>
    BY <1>1, <2>1 DEF Browse!FleetCalls
  <2> QED
    BY <1>3, <2>1, <2>2 DEF Operations
<1>9. CASE screen = "team"
  <2>1. asking \in Browse!TeamCalls /\ ~Careful
    BY <1>9 DEF Browse!Calls, Browse!Of, Browse!Team, Browse!Plain, Careful
  <2>2. PICK op \in {Browse!UpdateMember, Browse!MoveRole, Browse!UpdateSelected, Browse!CreateMember}, m \in Rows \X Browse!Shown :
          asking = <<op, m>>
    BY <1>1, <2>1 DEF Browse!TeamCalls
  <2> QED
    BY <1>3, <2>1, <2>2 DEF Operations
<1>10. CASE screen = "routes"
  <2>1. asking \in Browse!RouteCalls /\ ~Careful
    BY <1>10 DEF Browse!Calls, Browse!Of, Browse!Catalog, Browse!Plain, Careful
  <2>2. PICK op \in {Browse!MoveRoute, Browse!RoutesStatus, Browse!SaveRoute}, m \in Rows \X Browse!Shown : asking = <<op, m>>
    BY <1>1, <2>1 DEF Browse!RouteCalls
  <2> QED
    BY <1>3, <2>1, <2>2 DEF Operations
<1>11. CASE screen \in {"statistics", "dashboard", "finance"}
  BY <1>11 DEF Browse!Calls
<1> QED
  BY <1>2, <1>4, <1>5, <1>6, <1>7, <1>8, <1>9, <1>10, <1>11 DEF Browse!RegistryAssumption

-----------------------------------------------------------------------------
\* What the steps have in common.

LEMMA PageStays ==
  ASSUME UNCHANGED <<screen, rows>>
  PROVE  /\ \A l : Browse!Page(l)' = Browse!Page(l)
         /\ \A l : Fits(l)' <=> Fits(l)
         /\ \A f : Browse!Matching(f)' = Browse!Matching(f)
<1>1. \A f : Browse!Matching(f)' = Browse!Matching(f)
  BY DEF Browse!Matching
<1>2. Browse!Of' = Browse!Of
  BY DEF Browse!Of
<1>3. \A l : Browse!Page(l)' = Browse!Page(l)
  <2> SUFFICES ASSUME NEW l
               PROVE  Browse!Page(l)' = Browse!Page(l)
    OBVIOUS
  <2>1. PICK all : all = Browse!Matching(l.filter)
    OBVIOUS
  <2>2. PICK page : page = IF Browse!Of.paged THEN Browse!Head(all \ Browse!Head(all, l.from), PageSize)
                           ELSE all \ Browse!Head(all, l.from)
    OBVIOUS
  <2>3. PICK items : items = [r \in page |-> rows[r]]
    OBVIOUS
  <2>4. PICK n : n = Browse!Cardinality(all)
    OBVIOUS
  <2>5. Browse!Page(l) = [got |-> "rows", items |-> items, total |-> n]
    BY <2>1, <2>2, <2>3, <2>4 DEF Browse!Page
  <2>6. Browse!Matching(l.filter)' = all /\ Browse!Of' = Browse!Of
    BY <1>1, <1>2, <2>1
  <2>7. (IF Browse!Of.paged THEN Browse!Head(all \ Browse!Head(all, l.from), PageSize)
         ELSE all \ Browse!Head(all, l.from))' = page
    BY <2>2, <2>6 DEF Browse!Head
  <2>8. Browse!Page(l)' = [got |-> "rows", items |-> items, total |-> n]
    BY <2>1, <2>3, <2>4, <2>6, <2>7 DEF Browse!Page
  <2> QED
    BY <2>5, <2>8
<1>4. \A l : Fits(l)' <=> Fits(l)
  BY <1>3 DEF Fits, Browse!Waiting, Browse!Failed, Browse!Empty, Browse!NoRows
<1> QED
  BY <1>1, <1>3, <1>4

LEMMA SequentialStays ==
  ASSUME Sequential, UNCHANGED <<screen, loads, again>>, view'.loading = view.loading
  PROVE  Sequential'
BY ScreenStays DEF Sequential

LEMMA ListTrueStays ==
  ASSUME ListIsTrue, UNCHANGED <<screen, rows>>, loads'[1] = loads[1], Told => Told'
  PROVE  ListIsTrue'
<1> SUFFICES ASSUME Careful', loads'[1] # None, ~Told'
             PROVE  Fits(loads[1])'
  BY DEF ListIsTrue
<1>1. PICK l : l = loads[1]
  OBVIOUS
<1>2. Fits(l)
  BY <1>1, ScreenStays DEF ListIsTrue
<1>3. Fits(l)'
  BY <1>2, PageStays
<1> QED
  BY <1>1, <1>3 DEF Fits

\* Where the list is about to be renewed it matters only that its load is true.
LEMMA RenewingStep ==
  ASSUME Sequential', ListIsTrue', Careful' => Renewing'
  PROVE  ListInvariant'
BY DEF ListInvariant, MoreIsTrue, ShownIsTrue

\* Nothing that concerns the list changes.
LEMMA ListStays ==
  ASSUME ListInvariant, UNCHANGED <<screen, rows, view, loads, again, due, stray>>,
         Told => Told'
  PROVE  ListInvariant' /\ (Renewing => Renewing')
<1>1. Sequential'
  BY SequentialStays DEF ListInvariant
<1>2. ListIsTrue'
  BY ListTrueStays DEF ListInvariant
<1>3. Renewing => Renewing'
  BY DEF Renewing
<1>4. ASSUME Careful', ~Renewing', loads'[2] # None
      PROVE  /\ loads'[2].filter = view'.filter /\ loads'[2].from = view'.next
             /\ view'.next < Cardinality(Browse!Matching(view.filter)') /\ Fits(loads[2])'
  <2>1. PICK l : l = loads[2]
    OBVIOUS
  <2>2. PICK f : f = view.filter
    OBVIOUS
  <2>3. /\ l.filter = f /\ l.from = view.next /\ view.next < Cardinality(Browse!Matching(f)) /\ Fits(l)
    BY <1>3, <1>4, <2>1, <2>2, ScreenStays DEF ListInvariant, MoreIsTrue
  <2>4. Fits(l)' /\ Browse!Matching(f)' = Browse!Matching(f)
    BY <2>3, PageStays
  <2>5. Fits(loads[2])' /\ Browse!Matching(view.filter)' = Browse!Matching(f)
    BY <2>1, <2>2, <2>4 DEF Fits, Browse!Matching
  <2> QED
    BY <2>1, <2>2, <2>3, <2>5
<1>5. MoreIsTrue'
  BY <1>4 DEF MoreIsTrue
<1>6. ShownIsTrue'
  <2>1. Browse!UpToDate' <=> Browse!UpToDate
    BY ScreenStays DEF Browse!UpToDate, Browse!Wanted, Browse!Matching, Browse!Head
  <2> QED
    BY <1>3, <2>1, ScreenStays DEF ListInvariant, ShownIsTrue
<1> QED
  BY <1>1, <1>2, <1>3, <1>5, <1>6 DEF ListInvariant

\* Something has changed on the server, and a message says so.
LEMMA ToldStep ==
  ASSUME ListInvariant, UNCHANGED <<screen, view, loads, again>>, Told'
  PROVE  ListInvariant' /\ Renewing'
<1>1. Sequential'
  BY SequentialStays DEF ListInvariant
<1>2. ListIsTrue' /\ Renewing'
  BY DEF ListIsTrue, Renewing
<1> QED
  BY <1>1, <1>2, RenewingStep

\* The command stays, or is not one whose changes are awaited.
LEMMA CommandStays ==
  ASSUME CommandIsSeen, NotesOfRequests, UNCHANGED screen,
         Renewing => Renewing' \/ (command' # None => command'.reloaded),
         \/ command' = None
         \/ /\ command # None /\ command'.op = command.op
            /\ command'.stage = "done" =>
                 command'.reloaded \/ Renewing' \/ (command.stage = "done" /\ ~command.reloaded),
         typed' \in {typed, None}
  PROVE  CommandIsSeen' /\ NotesOfRequests'
BY ScreenStays DEF CommandIsSeen, NotesOfRequests

LEMMA LoadListGives ==
  ASSUME Browse!RegistryAssumption, RegistryType, NEW v \in ListStates, NEW f \in {"all",
         "new"},
         NEW by \in {"page", "realtime", "button"}, Browse!LoadList(v, f, by)
  PROVE  /\ view' \in ListStates /\ view'.filter = v.filter
         /\ loads' \in [Browse!Slots -> LoadStates \cup {None}] /\ again' \in BOOLEAN
         /\ Careful =>
              \/ /\ loads'[1] # None /\ loads'[1].kind = "list" /\ loads'[1].from = 0
                 /\ loads'[1].filter = f /\ loads'[1].answer = Browse!Waiting /\ loads'[2] = None
                 /\ view'.loading /\ again' = FALSE
              \/ /\ by = "page" /\ Browse!Of.own = "queues"
                 /\ view' = v /\ again' = TRUE /\ UNCHANGED loads
<1>1. PICK l : l = Browse!Load("list", by, [v EXCEPT !.filter = f])
  OBVIOUS
<1>2. l = [kind |-> "list", by |-> by, filter |-> f, shown |-> 0, from |-> 0, answer |-> Browse!Waiting]
  BY <1>1 DEF Browse!Load, ListStates
<1>3. 0 \in Totals
  BY WaitingIs
<1>4. Browse!Waiting \in PageAnswers
  BY WaitingIs
<1>5. l \in LoadStates
  BY <1>2, <1>3, <1>4 DEF LoadStates
<1>6. l # None
  BY <1>5, LoadsAreSome
<1>7. PICK begun : begun = Browse!Begun(v)
  OBVIOUS
<1>8. begun \in ListStates /\ begun.filter = v.filter /\ begun.loading
  BY <1>7 DEF Browse!Begun, ListStates
<1>9. PICK overlap : overlap = IF by = "page" THEN Browse!Of.own ELSE Browse!Of.refresh
  OBVIOUS
<1>10. /\ overlap \in {"aborts", "waits", "queues", "overtakes"}
       /\ Careful => overlap \in {"aborts", "queues"}
       /\ overlap = "queues" => by = "page" /\ Browse!Of.own = "queues"
  BY <1>9, OfIs DEF RegistryType, Careful
<1>11. Browse!NoLoads \in [Browse!Slots -> LoadStates \cup {None}] /\ Browse!NoLoads[2] = None
  BY DEF Browse!NoLoads, Browse!Slots
<1>12. loads \in [Browse!Slots -> LoadStates \cup {None}] /\ again \in BOOLEAN /\ 1 \in Browse!Slots /\ 2 \in Browse!Slots
  BY DEF RegistryType, Browse!Slots
<1>13. CASE overlap = "aborts" \/ (overlap \in {"waits", "queues"} /\ Browse!InFlight("list") = {})
  <2>1. view' = begun /\ loads' = [Browse!NoLoads EXCEPT ![1] = l] /\ again' = FALSE
    BY <1>1, <1>7, <1>9, <1>13 DEF Browse!LoadList
  <2>2. loads'[1] = l /\ loads'[2] = None /\ loads' \in [Browse!Slots -> LoadStates \cup {None}]
    BY <1>5, <1>11, <1>12, <2>1
  <2>3. view' \in ListStates /\ view'.filter = v.filter /\ view'.loading
    BY <1>8, <2>1
  <2>4. /\ loads'[1] # None /\ loads'[1].kind = "list" /\ loads'[1].from = 0
        /\ loads'[1].filter = f /\ loads'[1].answer = Browse!Waiting
    BY <1>2, <1>6, <2>2
  <2>5. again' = FALSE
    BY <2>1
  <2> QED
    BY <2>2, <2>3, <2>4, <2>5
<1>14. CASE overlap = "waits" /\ Browse!InFlight("list") # {}
  <2>1. view' = v /\ UNCHANGED <<loads, again>>
    BY <1>1, <1>7, <1>9, <1>14 DEF Browse!LoadList
  <2> QED
    BY <1>10, <1>12, <1>14, <2>1
<1>15. CASE overlap = "queues" /\ Browse!InFlight("list") # {}
  <2>1. view' = v /\ again' = TRUE /\ UNCHANGED loads
    BY <1>1, <1>7, <1>9, <1>15 DEF Browse!LoadList
  <2> QED
    BY <1>10, <1>12, <1>15, <2>1
<1>16. CASE overlap = "overtakes"
  <2>1. PICK s \in Browse!Slots : view' = begun /\ loads' = [loads EXCEPT ![s] = l] /\ UNCHANGED again
    BY <1>1, <1>7, <1>9, <1>16 DEF Browse!LoadList
  <2>2. loads' \in [Browse!Slots -> LoadStates \cup {None}]
    BY <1>5, <1>12, <2>1
  <2> QED
    BY <1>8, <1>10, <1>12, <1>16, <2>1, <2>2
<1> QED
  BY <1>10, <1>13, <1>14, <1>15, <1>16

-----------------------------------------------------------------------------
\* The server's changes and the loads.

\* Of the other screens nothing is claimed.
LEMMA CarelessStep ==
  ASSUME ~Careful, screen' = screen
  PROVE  ListInvariant' /\ CommandIsSeen'
BY ScreenStays
   DEF ListInvariant, Sequential, ListIsTrue, MoreIsTrue, ShownIsTrue, CommandIsSeen

LEMMA MessageStep ==
  ASSUME Browse!RegistryAssumption, RegistryInvariant,
         Browse!Invalidate \/ Browse!LoseMessage \/ Browse!Resync
  PROVE  RegistryInvariant'
<1>1. /\ UNCHANGED <<screen, rows, attention, view, due, loads, again, stray, command, typed, events>>
      /\ pending' \in BOOLEAN /\ news' \in {"none", "sent", "lost"} /\ Told'
  <2>1. pending \in BOOLEAN /\ news \in {"none", "sent", "lost"}
    BY DEF RegistryInvariant, RegistryType
  <2>2. CASE Browse!Invalidate
    BY <2>1, <2>2 DEF Browse!Invalidate, Browse!list, Told
  <2>3. CASE Browse!LoseMessage
    BY <2>1, <2>3 DEF Browse!LoseMessage, Browse!shell, Browse!list, Told
  <2>4. CASE Browse!Resync
    BY <2>1, <2>4 DEF Browse!Resync, Browse!Ready, Browse!list, Told
  <2> QED
    BY <2>2, <2>3, <2>4
<1>2. RegistryType'
  BY <1>1, ScreenStays DEF RegistryInvariant, RegistryType
<1>3. ListInvariant' /\ (Renewing => Renewing')
  BY <1>1, ListStays DEF RegistryInvariant
<1>4. CommandIsSeen' /\ NotesOfRequests'
  BY <1>1, <1>3, CommandStays DEF RegistryInvariant
<1> QED
  BY <1>2, <1>3, <1>4 DEF RegistryInvariant

LEMMA OtherChangeStep ==
  ASSUME Browse!RegistryAssumption, RegistryInvariant, NEW r \in Rows, Browse!OtherChange(r)
  PROVE  RegistryInvariant'
<1>1. /\ UNCHANGED <<screen, pending, attention, view, due, loads, again, stray, command, typed>>
      /\ rows' \in [Rows -> Browse!Shown \cup {None}] /\ news' = "sent" /\ Told' /\ events' \in Nat
  BY DEF Browse!OtherChange, Browse!Event, Browse!shell, Browse!list, Told,
     RegistryInvariant, RegistryType
<1>2. RegistryType'
  BY <1>1, ScreenStays DEF RegistryInvariant, RegistryType
<1>3. ListInvariant' /\ Renewing'
  BY <1>1, ToldStep DEF RegistryInvariant
<1>4. CommandIsSeen' /\ NotesOfRequests'
  BY <1>1, <1>3, CommandStays DEF RegistryInvariant
<1> QED
  BY <1>2, <1>3, <1>4 DEF RegistryInvariant

\* The list is loaded, or will be when its load ends.
LEMMA LoadListStep ==
  ASSUME Browse!RegistryAssumption, RegistryInvariant,
         UNCHANGED <<screen, rows, news, attention, stray, command, typed, events>>,
         pending' \in BOOLEAN, due' \in BOOLEAN,
         NEW by \in {"page", "realtime", "button"}, Browse!LoadList(view, view.filter, by),
         by = "page" => UNCHANGED pending
  PROVE  RegistryInvariant'
<1>1. PICK v : v = view
  OBVIOUS
<1>2. PICK f : f = view.filter
  OBVIOUS
<1>3. v \in ListStates /\ f \in {"all", "new"} /\ v.filter = f /\ Browse!LoadList(v, f, by)
  BY <1>1, <1>2 DEF RegistryInvariant, RegistryType, ListStates
<1>4. /\ view' \in ListStates /\ view'.filter = v.filter
      /\ loads' \in [Browse!Slots -> LoadStates \cup {None}] /\ again' \in BOOLEAN
      /\ Careful =>
           \/ /\ loads'[1] # None /\ loads'[1].kind = "list" /\ loads'[1].from = 0
              /\ loads'[1].filter = f /\ loads'[1].answer = Browse!Waiting /\ loads'[2] = None
              /\ view'.loading /\ again' = FALSE
           \/ /\ by = "page" /\ Browse!Of.own = "queues"
              /\ view' = v /\ again' = TRUE /\ UNCHANGED loads
  BY <1>3, LoadListGives DEF RegistryInvariant
<1>5. RegistryType'
  BY <1>1, <1>4, ScreenStays DEF RegistryInvariant, RegistryType
<1>6. NotesOfRequests'
  BY DEF RegistryInvariant, NotesOfRequests
<1>7. CASE ~Careful
  BY <1>5, <1>6, <1>7, CarelessStep DEF RegistryInvariant
<1>8. CASE Careful
  <2>1. ASSUME loads'[1] # None, loads'[1].kind = "list", loads'[1].from = 0,
               loads'[1].filter = f, loads'[1].answer = Browse!Waiting, loads'[2] = None,
               view'.loading, again' = FALSE
        PROVE  Sequential' /\ ListIsTrue' /\ Renewing'
    <3>1. Sequential'
      BY <2>1 DEF Sequential
    <3>2. ListIsTrue'
      BY <2>1 DEF ListIsTrue, Fits, Browse!Waiting, Browse!Empty, Browse!NoRows
    <3>3. Renewing'
      BY <1>3, <1>4, <2>1 DEF Renewing
    <3> QED
      BY <3>1, <3>2, <3>3
  <2>2. ASSUME by = "page", Browse!Of.own = "queues", view' = v, again' = TRUE, UNCHANGED loads
        PROVE  Sequential' /\ ListIsTrue' /\ Renewing'
    <3>1. Sequential'
      BY <1>1, <1>8, <2>2, ScreenStays DEF Sequential, RegistryInvariant, ListInvariant
    <3>2. Told => Told'
      BY <2>2 DEF Told
    <3>3. ListIsTrue'
      BY <2>2, <3>2, ListTrueStays DEF RegistryInvariant, ListInvariant
    <3>4. Renewing'
      BY <2>2 DEF Renewing
    <3> QED
      BY <3>1, <3>3, <3>4
  <2>3. Sequential' /\ ListIsTrue' /\ Renewing'
    BY <1>4, <1>8, <2>1, <2>2
  <2>4. CommandIsSeen'
    BY <2>3, ScreenStays DEF RegistryInvariant, CommandIsSeen
  <2> QED
    BY <1>5, <1>6, <2>3, <2>4, RenewingStep DEF RegistryInvariant
<1> QED
  BY <1>7, <1>8

LEMMA LoadStep ==
  ASSUME Browse!RegistryAssumption, RegistryInvariant,
         Browse!LoadDue \/ Browse!RefreshTick \/ Browse!RefreshPage \/ Browse!Timer
  PROVE  RegistryInvariant'
<1>1. pending \in BOOLEAN /\ due \in BOOLEAN
  BY DEF RegistryInvariant, RegistryType
<1>2. CASE Browse!LoadDue
  BY <1>1, <1>2, LoadListStep DEF Browse!LoadDue, Browse!server, Browse!shell
<1>3. CASE Browse!RefreshTick
  BY <1>1, <1>3, LoadListStep DEF Browse!RefreshTick, Browse!server
<1>4. CASE Browse!RefreshPage
  BY <1>1, <1>4, LoadListStep DEF Browse!RefreshPage, Browse!server, Browse!shell
<1>5. CASE Browse!Timer
  BY <1>1, <1>5, LoadListStep DEF Browse!Timer, Browse!server, Browse!shell
<1> QED
  BY <1>2, <1>3, <1>4, <1>5

LEMMA SetFilterStep ==
  ASSUME Browse!RegistryAssumption, RegistryInvariant, NEW f \in Browse!Filters,
         Browse!SetFilter(f)
  PROVE  RegistryInvariant'
<1>1. /\ UNCHANGED <<screen, rows, news, pending, attention, command, typed, stray>>
      /\ due' = TRUE /\ again' = FALSE /\ events' \in Nat
      /\ loads' = IF Browse!Of.drops THEN Browse!NoLoads ELSE loads
  BY DEF Browse!SetFilter, Browse!server, Browse!shell, Browse!Event, RegistryInvariant,
     RegistryType
<1>2. PICK w : w = [view EXCEPT !.filter = f, !.stopped = Browse!Of.drops,
                                !.items = IF Browse!Of.hides THEN Browse!NoRows ELSE @]
  OBVIOUS
<1>3. view' = w
  BY <1>2 DEF Browse!SetFilter
<1>4. w \in ListStates /\ w.filter = f
  <2>1. Browse!NoRows \in Pages
    BY WaitingIs
  <2>2. f \in {"all", "new"} /\ Browse!Of.drops \in BOOLEAN
    BY OfIs DEF Browse!Filters, RegistryInvariant, RegistryType
  <2>3. PICK items : items = IF Browse!Of.hides THEN Browse!NoRows ELSE view.items
    OBVIOUS
  <2>4. view \in ListStates
    BY DEF RegistryInvariant, RegistryType
  <2>5. items \in Pages
    BY <2>1, <2>3, <2>4 DEF ListStates
  <2>6. PICK drops \in BOOLEAN : drops = Browse!Of.drops
    BY <2>2
  <2>7. w = [view EXCEPT !.filter = f, !.stopped = drops, !.items = items]
    BY <1>2, <2>3, <2>4, <2>6 DEF ListStates
  <2> QED
    BY ONLY <2>2, <2>4, <2>5, <2>7 DEF ListStates
<1>5. loads' \in [Browse!Slots -> LoadStates \cup {None}]
  BY <1>1 DEF Browse!NoLoads, RegistryInvariant, RegistryType
<1>6. RegistryType'
  BY <1>1, <1>3, <1>4, <1>5, ScreenStays DEF RegistryInvariant, RegistryType
<1>7. Renewing'
  BY <1>1 DEF Renewing
<1>8. ASSUME Careful
      PROVE  Sequential' /\ ListIsTrue'
  <2>1. loads' = Browse!NoLoads
    BY <1>1, <1>8, OfIs DEF RegistryInvariant, RegistryType
  <2>2. loads'[1] = None /\ loads'[2] = None
    BY <2>1 DEF Browse!NoLoads, Browse!Slots
  <2> QED
    BY <1>1, <2>2 DEF Sequential, ListIsTrue
<1>9. ListInvariant'
  BY <1>1, <1>7, <1>8, CarelessStep, RenewingStep
<1>10. CommandIsSeen' /\ NotesOfRequests'
  BY <1>1, <1>7, CommandStays DEF RegistryInvariant
<1> QED
  BY <1>6, <1>9, <1>10 DEF RegistryInvariant

LEMMA LoadMoreStep ==
  ASSUME Browse!RegistryAssumption, RegistryInvariant, Browse!LoadMore
  PROVE  RegistryInvariant'
<1>1. UNCHANGED <<screen, rows, news, pending, attention, view, due, again, command, typed, stray, events>>
  BY DEF Browse!LoadMore, Browse!server, Browse!shell
<1>2. PICK l : l = Browse!Load("more", "page", view)
  OBVIOUS
<1>3. PICK v : v = view
  OBVIOUS
<1>4. v \in ListStates /\ v.filter \in {"all", "new"} /\ v.items \in Pages /\ v.next \in Nat
  BY <1>3 DEF RegistryInvariant, RegistryType, ListStates
<1>5. l = [kind |-> "more", by |-> "page", filter |-> v.filter,
           shown |-> Cardinality(DOMAIN v.items), from |-> v.next, answer |-> Browse!Waiting]
  BY <1>2, <1>3, RowCountsAre DEF Browse!Load
<1>6. l \in LoadStates
  <2>1. Cardinality(DOMAIN v.items) \in Totals
    BY <1>4, PagesAre
  <2>2. Browse!Waiting \in PageAnswers
    BY WaitingIs
  <2> QED
    BY <1>4, <1>5, <2>1, <2>2 DEF LoadStates
<1>7. loads' = [loads EXCEPT ![2] = l]
  BY <1>2 DEF Browse!LoadMore
<1>8. /\ loads' \in [Browse!Slots -> LoadStates \cup {None}] /\ loads'[1] = loads[1] /\ loads'[2] = l
  BY <1>6, <1>7 DEF RegistryInvariant, RegistryType, Browse!Slots
<1>9. RegistryType'
  BY <1>1, <1>8, ScreenStays DEF RegistryInvariant, RegistryType
<1>10. Renewing' <=> Renewing
  BY <1>1, <1>8 DEF Renewing, Told
<1>11. CommandIsSeen' /\ NotesOfRequests'
  BY <1>1, <1>10, CommandStays DEF RegistryInvariant
<1>12. CASE ~Careful
  BY <1>1, <1>9, <1>11, <1>12, CarelessStep DEF RegistryInvariant
<1>13. CASE Careful
  <2>1. loads[1] = None /\ Browse!Of.paged
    BY <1>13 DEF Browse!LoadMore, RegistryInvariant, ListInvariant, Sequential
  <2>2. Sequential'
    BY <1>1, <1>5, <1>8, <2>1, ScreenStays DEF Sequential, RegistryInvariant, ListInvariant
  <2>3. ListIsTrue'
    BY <1>8, <2>1 DEF ListIsTrue
  <2>4. ASSUME ~Renewing
        PROVE  /\ Browse!UpToDate /\ view.next < Cardinality(Browse!Matching(view.filter))
    BY <1>13, <2>1, <2>4, RowCountsAre DEF Browse!LoadMore, RegistryInvariant, ListInvariant,
       ShownIsTrue, Browse!UpToDate
  <2>5. Browse!UpToDate' <=> Browse!UpToDate
    BY <1>1, ScreenStays DEF Browse!UpToDate, Browse!Wanted, Browse!Matching, Browse!Head
  <2>6. Fits(l)'
    <3>1. Fits(l)
      BY <1>5 DEF Fits
    <3> QED
      BY <1>1, <3>1, PageStays
  <2>7. Fits(loads[2])'
    BY <1>8, <2>6 DEF Fits
  <2>8. Browse!Matching(view.filter)' = Browse!Matching(view.filter)
    BY <1>1 DEF Browse!Matching
  <2>9. MoreIsTrue'
    BY <1>1, <1>3, <1>5, <1>8, <1>10, <2>4, <2>7, <2>8 DEF MoreIsTrue
  <2>10. ShownIsTrue'
    BY <1>10, <2>4, <2>5 DEF ShownIsTrue
  <2> QED
    BY <1>9, <1>11, <2>2, <2>3, <2>9, <2>10 DEF RegistryInvariant, ListInvariant
<1> QED
  BY <1>12, <1>13

-----------------------------------------------------------------------------
\* The answers.

LEMMA RespondStep ==
  ASSUME Browse!RegistryAssumption, RegistryInvariant, NEW s \in Browse!Slots,
         Browse!Serve(s) \/ Browse!Fail(s)
  PROVE  RegistryInvariant'
<1>1. UNCHANGED <<screen, rows, news, pending, attention, view, due, again, command, typed, stray, events>>
  BY DEF Browse!Serve, Browse!Fail, Browse!Respond, Browse!server, Browse!shell
<1>2. PICK l : l = loads[s]
  OBVIOUS
<1>3. l # None /\ l \in LoadStates
  BY <1>2 DEF Browse!Serve, Browse!Fail, Browse!Respond, RegistryInvariant, RegistryType
<1>4. PICK answer : answer \in {Browse!Failed, Browse!Page(l)} /\ loads' = [loads EXCEPT ![s].answer = answer]
  BY <1>2 DEF Browse!Serve, Browse!Fail, Browse!Respond
<1>5. PICK n : n = [l EXCEPT !.answer = answer]
  OBVIOUS
<1>6. answer \in PageAnswers
  BY <1>3, <1>4, WaitingIs, PageIs DEF RegistryInvariant
<1>7. /\ n \in LoadStates /\ n.kind = l.kind /\ n.filter = l.filter /\ n.from = l.from
      /\ n.answer = answer
  BY <1>3, <1>5, <1>6 DEF LoadStates
<1>8. loads' = [loads EXCEPT ![s] = n]
  BY <1>2, <1>4, <1>5 DEF RegistryInvariant, RegistryType
<1>9. /\ loads' \in [Browse!Slots -> LoadStates \cup {None}] /\ loads'[s] = n
      /\ \A t \in Browse!Slots : t # s => loads'[t] = loads[t]
  BY <1>7, <1>8 DEF RegistryInvariant, RegistryType
<1>10. n # None
  BY <1>7, LoadsAreSome
<1>11. Fits(n)'
  <2>1. Browse!Page(n) = Browse!Page(l)
    BY <1>7 DEF Browse!Page
  <2>2. Fits(n)
    BY <1>4, <1>7, <2>1 DEF Fits
  <2> QED
    BY <1>1, <2>2, PageStays
<1>12. RegistryType'
  BY <1>1, <1>9, ScreenStays DEF RegistryInvariant, RegistryType
<1>13. 1 \in Browse!Slots /\ 2 \in Browse!Slots /\ s \in {1, 2}
  BY DEF Browse!Slots
<1>14. Renewing' <=> Renewing
  BY <1>1, <1>2, <1>3, <1>7, <1>9, <1>10, <1>13 DEF Renewing, Told
<1>15. CommandIsSeen' /\ NotesOfRequests'
  BY <1>1, <1>14, CommandStays DEF RegistryInvariant
<1>16. Sequential'
  BY <1>1, <1>2, <1>3, <1>7, <1>9, <1>10, <1>13, ScreenStays
     DEF Sequential, RegistryInvariant, ListInvariant
<1>17. ListIsTrue'
  <2>1. CASE s = 1
    BY <1>9, <1>11, <2>1 DEF ListIsTrue, Fits
  <2>2. CASE s # 1
    BY <1>1, <1>9, <1>13, <2>2, ListTrueStays DEF RegistryInvariant, ListInvariant, Told
  <2> QED
    BY <2>1, <2>2
<1>18. MoreIsTrue'
  <2>1. SUFFICES ASSUME Careful, ~Renewing, loads'[2] # None
                 PROVE  /\ loads'[2].filter = view.filter /\ loads'[2].from = view.next
                        /\ view.next < Cardinality(Browse!Matching(view.filter)') /\ Fits(loads[2])'
    BY <1>1, <1>14, ScreenStays DEF MoreIsTrue
  <2>2. loads[2] # None /\ loads'[2].filter = loads[2].filter /\ loads'[2].from = loads[2].from
    BY <1>2, <1>3, <1>7, <1>9, <1>13, <2>1
  <2>3. /\ loads[2].filter = view.filter /\ loads[2].from = view.next
        /\ view.next < Cardinality(Browse!Matching(view.filter)) /\ Fits(loads[2])
    BY <2>1, <2>2 DEF RegistryInvariant, ListInvariant, MoreIsTrue
  <2>4. Browse!Matching(view.filter)' = Browse!Matching(view.filter)
    BY <1>1 DEF Browse!Matching
  <2>5. Fits(loads[2])'
    <3>1. CASE s = 2
      BY <1>9, <1>11, <3>1 DEF Fits
    <3>2. CASE s # 2
      <4>1. PICK k : k = loads[2]
        OBVIOUS
      <4>2. Fits(k)'
        BY <1>1, <2>3, <4>1, PageStays
      <4> QED
        BY <1>9, <1>13, <3>2, <4>1, <4>2 DEF Fits
    <3> QED
      BY <3>1, <3>2
  <2> QED
    BY <2>2, <2>3, <2>4, <2>5
<1>19. ShownIsTrue'
  <2>1. Browse!UpToDate' <=> Browse!UpToDate
    BY <1>1, ScreenStays DEF Browse!UpToDate, Browse!Wanted, Browse!Matching, Browse!Head
  <2> QED
    BY <1>1, <1>14, <2>1, ScreenStays DEF RegistryInvariant, ListInvariant, ShownIsTrue
<1> QED
  BY <1>12, <1>15, <1>16, <1>17, <1>18, <1>19 DEF RegistryInvariant, ListInvariant

\* What it takes for a list to be up to date.
LEMMA UpToDateIs ==
  ASSUME UNCHANGED <<screen, rows>>, NEW w, view' = w, NEW all,
         all = Browse!Matching(w.filter),
         NEW p, p = IF Browse!Of.paged THEN Browse!Head(all, w.next) ELSE all,
         w.items = [r \in p |-> rows[r]], Browse!Of.paged => w.total = Cardinality(all)
  PROVE  Browse!UpToDate'
<1>1. Browse!Matching(view.filter)' = all
  BY DEF Browse!Matching
<1>2. Browse!Of' = Browse!Of
  BY ScreenStays
<1>3. Browse!Wanted' = p
  BY <1>1, <1>2 DEF Browse!Wanted, Browse!Head
<1> QED
  BY <1>1, <1>2, <1>3, RowCountsAre DEF Browse!UpToDate

LEMMA LoadedIsUpToDate ==
  ASSUME Browse!RegistryAssumption, RegistryType, UNCHANGED <<screen, rows>>,
         NEW l \in LoadStates, l.from = 0, NEW v \in ListStates, v.filter = l.filter,
         view' = Browse!Loaded(v, Browse!Page(l))
  PROVE  Browse!UpToDate'
<1>1. PICK all : all = Browse!Matching(l.filter)
  OBVIOUS
<1>2. all \in SUBSET Nat /\ IsFiniteSet(all)
  BY <1>1, MatchingIs
<1>3. Browse!Head(all, 0) = {}
  <2>1. \A r \in all : Cardinality(Below(all, r)) \in Nat
    BY <1>2, BelowIsFinite
  <2>2. /\ Browse!Head(all, 0) \subseteq all
        /\ \A r \in all : r \in Browse!Head(all, 0) <=> Cardinality(Below(all, r)) < 0
    BY <1>2, HeadIs
  <2> QED
    BY <2>1, <2>2
<1>4. PICK p : p = IF Browse!Of.paged THEN Browse!Head(all, PageSize) ELSE all
  OBVIOUS
<1>5. PICK g : g = [r \in p |-> rows[r]]
  OBVIOUS
<1>6. Browse!Page(l) = [got |-> "rows", items |-> g, total |-> Cardinality(all)]
  <2>1. all \ Browse!Head(all, l.from) = all
    BY <1>3
  <2> QED
    BY <1>1, <1>4, <1>5, <2>1, RowCountsAre DEF Browse!Page
<1>7. PICK w : w = Browse!Loaded(v, Browse!Page(l))
  OBVIOUS
<1>8. /\ w.items = g /\ w.total = Cardinality(all) /\ w.filter = l.filter
      /\ w.next = Cardinality(p)
  <2>1. DOMAIN g = p
    BY <1>5
  <2>2. w = [v EXCEPT !.items = g, !.next = Cardinality(p), !.total = Cardinality(all),
                      !.loading = FALSE]
    <3>1. Browse!Page(l).items = g /\ Browse!Page(l).total = Cardinality(all)
      BY <1>6
    <3>2. Browse!Cardinality(p) = Cardinality(p)
      BY RowCountsAre
    <3> QED
      BY <1>7, <2>1, <3>1, <3>2 DEF Browse!Loaded
  <2> QED
    BY <2>2 DEF ListStates
<1>9. Browse!Of.paged => Browse!Head(all, Cardinality(p)) = p
  <2>1. PageSize \in Nat
    BY DEF Browse!RegistryAssumption
  <2> QED
    BY <1>2, <1>4, <2>1, HeadCount
<1>10. p = IF Browse!Of.paged THEN Browse!Head(all, w.next) ELSE all
  BY <1>4, <1>8, <1>9
<1> QED
  BY <1>1, <1>5, <1>7, <1>8, <1>10, UpToDateIs

LEMMA AppendedIsUpToDate ==
  ASSUME Browse!RegistryAssumption, RegistryType, UNCHANGED <<screen, rows>>,
         Browse!Of.paged, Browse!UpToDate,
         NEW l \in LoadStates, l.filter = view.filter, l.from = view.next,
         l.answer = Browse!Page(l), view.next < Cardinality(Browse!Matching(view.filter)),
         view' = Browse!Appended(view, l)
  PROVE  Browse!UpToDate'
<1>1. PICK v : v = view
  OBVIOUS
<1>2. v \in ListStates /\ v.next \in Nat
  BY <1>1 DEF RegistryType, ListStates
<1>3. PICK all : all = Browse!Matching(v.filter)
  OBVIOUS
<1>4. all \in SUBSET Nat /\ IsFiniteSet(all) /\ v.next < Cardinality(all)
  BY <1>1, <1>3, MatchingIs
<1>5. PICK a : a = Browse!Head(all, v.next)
  OBVIOUS
<1>6. PICK p : p = Browse!Head(all \ a, PageSize)
  OBVIOUS
<1>7. PageSize \in Nat /\ PageSize > 0
  BY DEF Browse!RegistryAssumption
<1>8. p # {} /\ Cardinality(p) \in Nat /\ Browse!Head(all, v.next + Cardinality(p)) = a \cup p
  BY <1>2, <1>4, <1>5, <1>6, <1>7, HeadsJoin
<1>9. PICK g : g = [r \in p |-> rows[r]]
  OBVIOUS
<1>10. Browse!Page(l) = [got |-> "rows", items |-> g, total |-> Cardinality(all)]
  BY <1>1, <1>3, <1>5, <1>6, <1>9, RowCountsAre DEF Browse!Page
<1>11. v.items = [r \in a |-> rows[r]]
  BY <1>1, <1>3, <1>5 DEF Browse!UpToDate, Browse!Wanted
<1>12. PICK h : h = [r \in a \cup p |-> rows[r]]
  OBVIOUS
<1>13. DOMAIN g = p /\ DOMAIN v.items = a /\ g # Browse!NoRows
  BY <1>8, <1>9, <1>11 DEF Browse!NoRows
<1>14. h = [r \in (DOMAIN v.items) \cup (DOMAIN g) |->
              IF r \in DOMAIN v.items THEN v.items[r] ELSE g[r]]
  BY <1>9, <1>11, <1>12, <1>13
<1>15. PICK w : w = Browse!Appended(v, l)
  OBVIOUS
<1>16. w = [v EXCEPT !.items = h, !.next = v.next + Cardinality(p), !.total = Cardinality(all)]
  <2>1. l.answer.items = g /\ l.answer.total = Cardinality(all)
    BY <1>10
  <2> QED
    BY <1>2, <1>13, <1>14, <1>15, <2>1, RowCountsAre DEF Browse!Appended, ListStates
<1>17. /\ w.items = h /\ w.next = v.next + Cardinality(p) /\ w.total = Cardinality(all)
       /\ w.filter = v.filter
  BY ONLY <1>2, <1>16 DEF ListStates
<1>18. w.items = [r \in a \cup p |-> rows[r]]
  BY <1>12, <1>17
<1>19. a \cup p = IF Browse!Of.paged THEN Browse!Head(all, w.next) ELSE all
  BY <1>8, <1>17
<1>20. view' = w
  BY <1>1, <1>15
<1> QED
  BY <1>3, <1>17, <1>18, <1>19, <1>20, UpToDateIs

\* The list after a load has a list's type.
LEMMA LoadedTyped ==
  ASSUME Browse!RegistryAssumption, RegistryType, NEW v \in ListStates,
         NEW answer \in PageAnswers
  PROVE  /\ Browse!Loaded(v, answer) \in ListStates /\ Browse!Loaded(v, answer).filter = v.filter
         /\ Browse!LoadFailed(v) \in ListStates /\ Browse!LoadFailed(v).filter = v.filter
<1>1. answer.items \in Pages /\ answer.total \in Totals
  BY DEF PageAnswers
<1>2. Cardinality(DOMAIN answer.items) \in Nat
  BY <1>1, PagesAre
<1>3. Browse!NoRows \in Pages /\ 0 \in Totals
  BY WaitingIs
<1>4. PICK items \in Pages : items = IF Browse!Of.empties THEN Browse!NoRows ELSE v.items
  BY <1>3 DEF ListStates
<1>5. PICK total \in Totals : total = IF screen = "requests" THEN 0 ELSE v.total
  BY <1>3 DEF ListStates
<1>6. Browse!LoadFailed(v) = [v EXCEPT !.items = items, !.total = total, !.loading = FALSE]
  BY <1>4, <1>5 DEF Browse!LoadFailed, ListStates
<1>7. Browse!LoadFailed(v) \in ListStates /\ Browse!LoadFailed(v).filter = v.filter
  BY ONLY <1>4, <1>5, <1>6, v \in ListStates DEF ListStates
<1>8. Browse!Loaded(v, answer) \in ListStates /\ Browse!Loaded(v, answer).filter = v.filter
  BY <1>1, <1>2, RowCountsAre DEF Browse!Loaded, ListStates
<1> QED
  BY <1>7, <1>8

LEMMA ReceiveListStep ==
  ASSUME Browse!RegistryAssumption, RegistryInvariant, NEW s \in Browse!Slots,
         Browse!ReceiveList(s)
  PROVE  RegistryInvariant'
<1>1. UNCHANGED <<screen, rows, news, pending, attention, due, events>>
  BY DEF Browse!ReceiveList, Browse!server, Browse!shell
<1>2. PICK l : l = loads[s]
  OBVIOUS
<1>3. /\ l \in LoadStates /\ l # None /\ l.kind = "list" /\ l.answer # Browse!Waiting
      /\ l.answer \in PageAnswers
  BY <1>2 DEF Browse!ReceiveList, Browse!InFlight, LoadStates, RegistryInvariant, RegistryType
<1>4. PICK v : v = view
  OBVIOUS
<1>5. v \in ListStates /\ v.filter \in Browse!Filters
  BY <1>4 DEF RegistryInvariant, RegistryType
<1>6. /\ view' = IF l.answer = Browse!Failed THEN Browse!LoadFailed(v) ELSE Browse!Loaded(v, l.answer)
      /\ stray' = IF l.answer = Browse!Failed THEN TRUE ELSE (l.filter # v.filter)
      /\ typed' \in {typed, None}
  BY <1>2, <1>4 DEF Browse!ReceiveList
<1>7. view' \in ListStates /\ view'.filter = v.filter /\ stray' \in BOOLEAN
  BY <1>3, <1>5, <1>6, LoadedTyped DEF RegistryInvariant
<1>8. \/ l.answer = Browse!Failed /\ command' = command
      \/ command = None /\ command' = None
      \/ command # None /\ command' = [command EXCEPT !.reloaded = TRUE]
  BY <1>2 DEF Browse!ReceiveList
<1>9. /\ command' \in CommandStates \cup {None}
      /\ \/ l.answer = Browse!Failed /\ command' = command
         \/ command = None /\ command' = None
         \/ command # None /\ command'.op = command.op /\ command'.reloaded
  <2>1. CASE command # None /\ command' = [command EXCEPT !.reloaded = TRUE]
    <3>1. command \in CommandStates
      BY <2>1 DEF RegistryInvariant, RegistryType
    <3>2. command' \in CommandStates /\ command'.op = command.op /\ command'.reloaded = TRUE
      BY ONLY <2>1, <3>1 DEF CommandStates
    <3> QED
      BY <2>1, <3>2
  <2>2. CASE command' = command \/ command' = None
    BY <1>8, <2>1, <2>2 DEF RegistryInvariant, RegistryType
  <2> QED
    BY <1>8, <2>1, <2>2
<1>10. PICK n : n = IF again THEN Browse!Load("list", "page", v) ELSE None
  OBVIOUS
<1>11. again => /\ n = [kind |-> "list", by |-> "page", filter |-> v.filter, shown |-> 0,
                        from |-> 0, answer |-> Browse!Waiting]
                /\ n \in LoadStates /\ n # None
  <2>1. SUFFICES ASSUME again
                 PROVE  /\ n = [kind |-> "list", by |-> "page", filter |-> v.filter,
                                shown |-> 0, from |-> 0, answer |-> Browse!Waiting]
                        /\ n \in LoadStates /\ n # None
    OBVIOUS
  <2>2. n = [kind |-> "list", by |-> "page", filter |-> v.filter, shown |-> 0, from |-> 0,
             answer |-> Browse!Waiting]
    BY <1>10, <2>1 DEF Browse!Load
  <2>3. n \in LoadStates
    BY <1>5, <2>2, WaitingIs DEF ListStates, LoadStates
  <2> QED
    BY <2>2, <2>3, LoadsAreSome
<1>12. loads' = [loads EXCEPT ![s] = n] /\ again' = FALSE
  <2>1. CASE again
    BY <1>4, <1>10, <2>1 DEF Browse!ReceiveList
  <2>2. CASE ~again
    BY <1>10, <2>2 DEF Browse!ReceiveList, RegistryInvariant, RegistryType
  <2> QED
    BY <2>1, <2>2
<1>13. /\ loads' \in [Browse!Slots -> LoadStates \cup {None}] /\ loads'[s] = n
       /\ \A t \in Browse!Slots : t # s => loads'[t] = loads[t]
  <2>1. n \in LoadStates \cup {None}
    BY <1>10, <1>11
  <2> QED
    BY <1>12, <2>1 DEF RegistryInvariant, RegistryType
<1>14. RegistryType'
  <2>1. again' \in BOOLEAN /\ typed' \in Rows \cup {None}
    BY <1>6, <1>12 DEF RegistryInvariant, RegistryType
  <2>2. view'.filter \in Browse!Filters'
    BY <1>1, <1>5, <1>7, ScreenStays
  <2> QED
    BY <1>1, <1>7, <1>9, <1>13, <2>1, <2>2 DEF RegistryInvariant, RegistryType
<1>15. CASE ~Careful
  <2>1. ListInvariant' /\ CommandIsSeen'
    BY <1>1, <1>15, CarelessStep
  <2>2. NotesOfRequests'
    BY <1>1, <1>6 DEF RegistryInvariant, NotesOfRequests
  <2> QED
    BY <1>14, <2>1, <2>2 DEF RegistryInvariant
<1>16. CASE Careful
  <2>1. s = 1 /\ 2 \in Browse!Slots /\ l.from = 0 /\ loads[2] = None /\ loads'[2] = None
    <3>1. s = 1
      BY <1>2, <1>3, <1>16 DEF Browse!Slots, RegistryInvariant, ListInvariant, Sequential
    <3> QED
      BY <1>2, <1>3, <1>13, <1>16, <3>1 DEF Browse!Slots, RegistryInvariant, ListInvariant,
         Sequential
  <2>2. again => Browse!Of.own # "aborts" /\ ~Browse!Of.paged
    <3>1. again => Browse!Of.own # "aborts"
      BY <1>16 DEF RegistryInvariant, ListInvariant, Sequential
    <3> QED
      BY <1>16, <3>1, OfIs DEF Careful, RegistryInvariant, RegistryType
  <2>3. Sequential'
    BY <1>1, <1>10, <1>11, <1>12, <1>13, <2>1, <2>2, ScreenStays DEF Sequential
  <2>4. ListIsTrue'
    BY <1>10, <1>11, <1>13, <2>1 DEF ListIsTrue, Fits, Browse!Waiting, Browse!Empty,
       Browse!NoRows
  <2>5. again => Renewing'
    BY <1>7, <1>11, <1>13, <2>1 DEF Renewing
  <2>6. l.answer = Browse!Failed => Renewing'
    BY <1>6 DEF Renewing
  <2>7. MoreIsTrue'
    BY <2>1 DEF MoreIsTrue
  <2>8. ASSUME ~Renewing'
        PROVE  Browse!UpToDate'
    <3>1. l.answer # Browse!Failed /\ l.filter = v.filter /\ ~Told
      BY <1>1, <1>6, <2>6, <2>8 DEF Renewing, Told
    <3>2. Fits(l)
      BY <1>2, <1>3, <1>16, <2>1, <3>1 DEF RegistryInvariant, ListInvariant, ListIsTrue
    <3>3. l.answer = Browse!Page(l)
      BY <1>3, <3>1, <3>2 DEF Fits
    <3>4. view' = Browse!Loaded(v, Browse!Page(l))
      BY <1>6, <3>1, <3>3
    <3> QED
      BY <1>1, <1>3, <1>5, <2>1, <3>1, <3>4, LoadedIsUpToDate DEF RegistryInvariant
  <2>9. ListInvariant'
    BY <2>3, <2>4, <2>7, <2>8 DEF ListInvariant, ShownIsTrue
  <2>10. CommandIsSeen' /\ NotesOfRequests'
    BY <1>1, <1>6, <1>9, <2>6, CommandStays DEF RegistryInvariant
  <2> QED
    BY <1>14, <2>9, <2>10 DEF RegistryInvariant
<1> QED
  BY <1>15, <1>16

LEMMA AppendedTyped ==
  ASSUME Browse!RegistryAssumption, RegistryType, NEW v \in ListStates, NEW l \in LoadStates
  PROVE  /\ Browse!Appended(v, l) \in ListStates /\ Browse!Appended(v, l).filter = v.filter
         /\ Browse!Appended(v, l).loading = v.loading
<1>1. PICK g : g = l.answer.items
  OBVIOUS
<1>2. g \in Pages /\ l.answer.total \in Totals /\ l.shown \in Totals /\ v.items \in Pages
  BY <1>1 DEF LoadStates, PageAnswers, ListStates
<1>3. PICK h : h = [r \in (DOMAIN v.items) \cup (DOMAIN g) |->
                      IF r \in DOMAIN v.items THEN v.items[r] ELSE g[r]]
  OBVIOUS
<1>4. PICK S : S = (DOMAIN v.items) \cup (DOMAIN g)
  OBVIOUS
<1>5. S \in SUBSET Rows /\ h \in [S -> Browse!Shown \cup {None}]
  BY <1>2, <1>3, <1>4, PagesAre
<1>6. h \in Pages
  BY <1>5, IsPage
<1>7. PICK next \in Nat : next = v.next + Cardinality(DOMAIN g)
  BY <1>2, PagesAre DEF ListStates
<1>8. PICK total \in Totals : total = IF g = Browse!NoRows THEN l.shown ELSE l.answer.total
  BY <1>2
<1>9. Browse!Appended(v, l) = [v EXCEPT !.items = h, !.next = next, !.total = total]
  BY <1>1, <1>3, <1>7, <1>8, RowCountsAre DEF Browse!Appended, ListStates
<1> QED
  BY ONLY <1>6, <1>7, <1>8, <1>9, v \in ListStates DEF ListStates

LEMMA ReceiveMoreStep ==
  ASSUME Browse!RegistryAssumption, RegistryInvariant, NEW s \in Browse!Slots,
         Browse!ReceiveMore(s)
  PROVE  RegistryInvariant'
<1>1. UNCHANGED <<screen, rows, news, pending, attention, due, again, command, typed, stray, events>>
  BY DEF Browse!ReceiveMore, Browse!server, Browse!shell
<1>2. PICK l : l = loads[s]
  OBVIOUS
<1>3. l \in LoadStates /\ l # None /\ l.kind = "more" /\ l.answer # Browse!Waiting
  BY <1>2 DEF Browse!ReceiveMore, Browse!InFlight, RegistryInvariant, RegistryType
<1>4. PICK v : v = view
  OBVIOUS
<1>5. v \in ListStates /\ v.filter \in Browse!Filters
  BY <1>4 DEF RegistryInvariant, RegistryType
<1>6. view' = IF l.answer = Browse!Failed THEN v ELSE Browse!Appended(v, l)
  BY <1>2, <1>4 DEF Browse!ReceiveMore
<1>7. view' \in ListStates /\ view'.filter = v.filter /\ view'.loading = v.loading
  BY <1>3, <1>5, <1>6, AppendedTyped DEF RegistryInvariant
<1>8. /\ loads' \in [Browse!Slots -> LoadStates \cup {None}] /\ loads'[s] = None
      /\ \A t \in Browse!Slots : t # s => loads'[t] = loads[t]
  BY DEF Browse!ReceiveMore, RegistryInvariant, RegistryType
<1>9. RegistryType'
  BY <1>1, <1>5, <1>7, <1>8, ScreenStays DEF RegistryInvariant, RegistryType
<1>10. CASE ~Careful
  <2>1. ListInvariant' /\ CommandIsSeen'
    BY <1>1, <1>10, CarelessStep
  <2>2. NotesOfRequests'
    BY <1>1 DEF RegistryInvariant, NotesOfRequests
  <2> QED
    BY <1>9, <2>1, <2>2 DEF RegistryInvariant
<1>11. CASE Careful
  <2>1. s = 2 /\ loads[1] = None /\ loads'[1] = None /\ Browse!Of.paged
    <3>1. s = 2 /\ loads[1] = None /\ Browse!Of.paged
      BY <1>2, <1>3, <1>11 DEF Browse!Slots, RegistryInvariant, ListInvariant, Sequential
    <3> QED
      BY <1>8, <3>1 DEF Browse!Slots
  <2>2. Sequential'
    BY <1>1, <1>8, <1>11, <2>1, ScreenStays DEF Sequential, RegistryInvariant, ListInvariant
  <2>3. ListIsTrue' /\ MoreIsTrue'
    BY <1>8, <2>1 DEF ListIsTrue, MoreIsTrue
  <2>4. Renewing' <=> Renewing
    BY <1>1, <2>1 DEF Renewing, Told
  <2>5. ASSUME ~Renewing
        PROVE  Browse!UpToDate'
    <3>1. /\ Browse!UpToDate /\ l.filter = view.filter /\ l.from = view.next
          /\ view.next < Cardinality(Browse!Matching(view.filter)) /\ Fits(l)
      BY <1>2, <1>3, <1>11, <2>1, <2>5
         DEF RegistryInvariant, ListInvariant, MoreIsTrue, ShownIsTrue
    <3>2. CASE l.answer = Browse!Failed
      <4>1. view' = view
        BY <1>4, <1>6, <3>2
      <4> QED
        BY <1>1, <3>1, <4>1, ScreenStays DEF Browse!UpToDate, Browse!Wanted, Browse!Matching,
           Browse!Head
    <3>3. CASE l.answer # Browse!Failed
      <4>1. l.answer = Browse!Page(l)
        BY <1>3, <3>1, <3>3 DEF Fits
      <4>2. view' = Browse!Appended(view, l)
        BY <1>4, <1>6, <3>3
      <4> QED
        BY <1>1, <1>3, <2>1, <3>1, <4>1, <4>2, AppendedIsUpToDate DEF RegistryInvariant
    <3> QED
      BY <3>2, <3>3
  <2>6. ShownIsTrue'
    BY <2>4, <2>5 DEF ShownIsTrue
  <2>7. CommandIsSeen' /\ NotesOfRequests'
    BY <1>1, <2>4, CommandStays DEF RegistryInvariant
  <2> QED
    BY <1>9, <2>2, <2>3, <2>6, <2>7 DEF RegistryInvariant, ListInvariant
<1> QED
  BY <1>10, <1>11

-----------------------------------------------------------------------------
\* The commands.

LEMMA PatchIs ==
  ASSUME NEW g \in Pages, NEW r, NEW t \in Browse!Shown \cup {None}
  PROVE  [g EXCEPT ![r] = t] \in Pages
<1>1. PICK S \in SUBSET Rows : g \in [S -> Browse!Shown \cup {None}]
  BY DEF Pages
<1>2. [g EXCEPT ![r] = t] \in [S -> Browse!Shown \cup {None}]
  BY <1>1
<1> QED
  BY <1>1, <1>2, IsPage

LEMMA StatusIs ==
  ASSUME Browse!RegistryAssumption, RegistryType, NEW r
  PROVE  Browse!Status(r) \in Browse!Shown \cup {None}
BY PagesAre DEF Browse!Status, RegistryType, ListStates

LEMMA SentIs ==
  ASSUME RegistryType, NEW op, NEW r, NEW t \in Browse!Shown \cup {None}, Browse!Sent(op, r,
         t)
  PROVE  /\ view' \in ListStates /\ view'.filter = view.filter
         /\ op.how # "first" => view' = view
<1>1. PICK v : v = view
  OBVIOUS
<1>2. v \in ListStates
  BY <1>1 DEF RegistryType
<1>3. PICK items : items = IF op.how = "first" THEN [v.items EXCEPT ![r] = t] ELSE v.items
  OBVIOUS
<1>4. items \in Pages
  BY <1>2, <1>3, PatchIs DEF ListStates
<1>5. view' = [v EXCEPT !.items = items]
  BY <1>1, <1>2, <1>3 DEF Browse!Sent, ListStates
<1>6. view' \in ListStates /\ view'.filter = v.filter /\ (items = v.items => view' = v)
  BY ONLY <1>2, <1>4, <1>5 DEF ListStates
<1> QED
  BY <1>1, <1>3, <1>6

LEMMA AskStep ==
  ASSUME Browse!RegistryAssumption, RegistryInvariant, NEW op \in Operations, NEW r \in Rows,
         NEW t \in Browse!Shown \cup {None}, NEW rest \in SUBSET Rows,
         Careful => Browse!Of.own = "aborts" /\ op.how # "first",
         attention' \in {"page", "elsewhere"}, Browse!Ask(op, r, t, rest)
  PROVE  RegistryInvariant'
<1>1. /\ UNCHANGED <<screen, rows, news, pending, due, loads, again, typed, stray>>
      /\ command = None /\ events' \in Nat
  BY DEF Browse!Ask, Browse!Event, Browse!server, RegistryInvariant, RegistryType
<1>2. PICK asks \in op.asks :
        /\ Browse!Call(op, r, t, rest, asks)
        /\ IF asks THEN UNCHANGED view ELSE Browse!Sent(op, r, t)
  BY DEF Browse!Ask
<1>3. /\ view' \in ListStates /\ view'.filter = view.filter
      /\ op.how # "first" => view' = view
  BY <1>2, SentIs DEF RegistryInvariant, RegistryType
<1>4. PICK was : was = IF op.how = "first" THEN Browse!Status(r) ELSE None
  OBVIOUS
<1>5. PICK under : under = view.filter
  OBVIOUS
<1>6. PICK stage : stage = IF asks THEN "asking" ELSE "sent"
  OBVIOUS
<1>7. command' = [op |-> op, row |-> r, to |-> t, rest |-> rest, under |-> under, was |-> was,
                  reloaded |-> FALSE, stage |-> stage]
  BY <1>2, <1>4, <1>5, <1>6 DEF Browse!Call
<1>8. was \in Browse!Shown \cup {None} /\ under \in {"all", "new"} /\ stage \in {"asking", "sent"}
  BY <1>4, <1>5, <1>6, StatusIs DEF RegistryInvariant, RegistryType, ListStates
<1>9. command' \in CommandStates /\ command'.op = op /\ command'.stage # "done"
  BY ONLY <1>7, <1>8, op \in Operations, r \in Rows, t \in Browse!Shown \cup {None},
     rest \in SUBSET Rows
     DEF CommandStates
<1>10. RegistryType'
  BY <1>1, <1>3, <1>9, ScreenStays DEF RegistryInvariant, RegistryType
<1>11. NotesOfRequests'
  BY <1>1 DEF RegistryInvariant, NotesOfRequests
<1>12. CommandIsSeen'
  BY <1>1, <1>9, ScreenStays DEF CommandIsSeen
<1>13. ListInvariant'
  <2>1. Told => Told'
    BY <1>1 DEF Told
  <2>2. CASE Careful
    BY <1>1, <1>3, <2>1, <2>2, ListStays DEF RegistryInvariant
  <2>3. CASE ~Careful
    BY <1>1, <2>3, CarelessStep
  <2> QED
    BY <2>2, <2>3
<1> QED
  BY <1>10, <1>11, <1>12, <1>13 DEF RegistryInvariant

LEMMA CommandStep ==
  ASSUME Browse!RegistryAssumption, RegistryInvariant,
         Browse!Command \/ Browse!BlurNote \/ \E r \in Rows : Browse!RemoveRecord(r)
  PROVE  RegistryInvariant'
<1>1. CASE Browse!Command
  <2>0. PICK asking \in Browse!Calls : \E rest \in Browse!Selections(asking[1], asking[2]) :
          Browse!Ask(asking[1], asking[2][1], asking[2][2], rest) /\ UNCHANGED attention
    BY <1>1 DEF Browse!Command
  <2>1. PICK rest \in Browse!Selections(asking[1], asking[2]) :
          Browse!Ask(asking[1], asking[2][1], asking[2][2], rest) /\ UNCHANGED attention
    BY <2>0
  <2>2. PICK op, r, t : op = asking[1] /\ r = asking[2][1] /\ t = asking[2][2]
    OBVIOUS
  <2>3. /\ op \in Operations /\ r \in Rows /\ t \in Browse!Shown
        /\ Careful => Browse!Of.own = "aborts" /\ op.how # "first"
    BY <2>2, CallsAre DEF RegistryInvariant
  <2>4. rest \in SUBSET Rows
    <3>1. DOMAIN view.items \in SUBSET Rows
      BY PagesAre DEF RegistryInvariant, RegistryType, ListStates
    <3> QED
      BY <3>1 DEF Browse!Selections
  <2>5. Browse!Ask(op, r, t, rest) /\ attention' \in {"page", "elsewhere"}
    BY <2>1, <2>2 DEF RegistryInvariant, RegistryType
  <2> QED
    BY <2>3, <2>4, <2>5, AskStep
<1>2. CASE Browse!BlurNote
  <2>1. PICK r, t : r = typed /\ t = Browse!Status(typed)
    OBVIOUS
  <2>2. r \in Rows /\ t \in Browse!Shown \cup {None} /\ screen = "requests"
    BY <1>2, <2>1, StatusIs
       DEF Browse!BlurNote, RegistryInvariant, RegistryType, NotesOfRequests
  <2>3. Browse!Ask(Browse!SaveNote, r, t, {}) /\ attention' \in {"page", "elsewhere"}
    BY <1>2, <2>1 DEF Browse!BlurNote
  <2>4. Browse!Of.own = "aborts"
    BY <2>2 DEF Browse!Of, Browse!Requests, Browse!Latest, Browse!Plain
  <2>5. Browse!SaveNote \in Operations /\ Browse!SaveNote.how # "first"
    BY HowIs
  <2> QED
    BY <2>2, <2>3, <2>4, <2>5, AskStep
<1>3. CASE \E r \in Rows : Browse!RemoveRecord(r)
  <2>1. PICK r \in Rows : Browse!RemoveRecord(r)
    BY <1>3
  <2>2. PICK asking : asking \in Browse!Calls
    BY <2>1 DEF Browse!RemoveRecord
  <2>3. Careful => Browse!Of.own = "aborts"
    BY <2>2, CallsAre DEF RegistryInvariant
  <2>4. Browse!Ask(Browse!Remove, r, None, {}) /\ attention' \in {"page", "elsewhere"}
    BY <2>1 DEF Browse!RemoveRecord, RegistryInvariant, RegistryType
  <2>5. Browse!Remove \in Operations /\ Browse!Remove.how # "first"
    BY HowIs
  <2> QED
    BY <2>3, <2>4, <2>5, AskStep
<1> QED
  BY <1>1, <1>2, <1>3

LEMMA ConfirmStep ==
  ASSUME Browse!RegistryAssumption, RegistryInvariant, Browse!Confirm
  PROVE  RegistryInvariant'
<1>1. /\ UNCHANGED <<screen, rows, news, pending, attention, due, loads, again, typed, stray, events>>
      /\ command # None
  BY DEF Browse!Confirm, Browse!Asking, Browse!server, Browse!shell
<1>2. PICK c : c = command
  OBVIOUS
<1>3. c \in CommandStates
  BY <1>1, <1>2 DEF RegistryInvariant, RegistryType
<1>4. command' = [c EXCEPT !.stage = "sent"] /\ Browse!Sent(command.op, command.row, command.to)
  BY <1>2 DEF Browse!Confirm
<1>5. command' \in CommandStates /\ command'.op = c.op /\ command'.stage # "done"
  BY ONLY <1>3, <1>4 DEF CommandStates
<1>6. PICK op, r, t : op = c.op /\ r = c.row /\ t = c.to
  OBVIOUS
<1>7. t \in Browse!Shown \cup {None}
  BY <1>3, <1>6 DEF CommandStates
<1>8. Browse!Sent(op, r, t)
  BY <1>2, <1>4, <1>6
<1>9. /\ view' \in ListStates /\ view'.filter = view.filter
      /\ op.how # "first" => view' = view
  BY <1>7, <1>8, SentIs DEF RegistryInvariant
<1>10. RegistryType'
  BY <1>1, <1>5, <1>9, ScreenStays DEF RegistryInvariant, RegistryType
<1>11. Told => Told'
  BY <1>1 DEF Told
<1>12. CASE ~Careful
  <2>1. ListInvariant' /\ CommandIsSeen'
    BY <1>1, <1>12, CarelessStep
  <2>2. NotesOfRequests'
    BY <1>1 DEF RegistryInvariant, NotesOfRequests
  <2> QED
    BY <1>10, <2>1, <2>2 DEF RegistryInvariant
<1>13. CASE Careful
  <2>1. view' = view
    BY <1>1, <1>2, <1>6, <1>9, <1>13 DEF RegistryInvariant, CommandIsSeen
  <2>2. ListInvariant' /\ (Renewing => Renewing')
    BY <1>1, <1>11, <2>1, ListStays DEF RegistryInvariant
  <2>3. CommandIsSeen' /\ NotesOfRequests'
    BY <1>1, <1>2, <1>5, <2>2, CommandStays DEF RegistryInvariant
  <2> QED
    BY <1>10, <2>2, <2>3 DEF RegistryInvariant
<1> QED
  BY <1>12, <1>13

\* A command that is dropped, or goes on with its next row.
LEMMA NextRowStep ==
  ASSUME Browse!RegistryAssumption, RegistryInvariant, Browse!Decline \/ Browse!NextRow
  PROVE  RegistryInvariant'
<1>1. UNCHANGED <<screen, rows, news, pending, attention, view, due, loads, again, stray, typed, events>>
  BY DEF Browse!Decline, Browse!NextRow, Browse!server, Browse!shell, Browse!list
<1>2. /\ command' \in CommandStates \cup {None}
      /\ \/ command' = None
         \/ command # None /\ command'.op = command.op /\ command'.stage # "done"
  <2>1. CASE Browse!Decline
    BY <2>1 DEF Browse!Decline
  <2>2. CASE Browse!NextRow
    <3>1. PICK c : c = command
      OBVIOUS
    <3>2. c # None /\ c \in CommandStates
      BY <2>2, <3>1 DEF Browse!NextRow, RegistryInvariant, RegistryType
    <3>3. PICK r \in c.rest : command' = [c EXCEPT !.row = r, !.rest = c.rest \ {r}, !.stage = "sent"]
      BY <2>2, <3>1, <3>2 DEF Browse!NextRow, CommandStates
    <3>4. command' \in CommandStates /\ command'.op = c.op /\ command'.stage = "sent"
      BY ONLY <3>2, <3>3 DEF CommandStates
    <3> QED
      BY <3>1, <3>2, <3>4
  <2> QED
    BY <2>1, <2>2
<1>3. Told => Told'
  BY <1>1 DEF Told
<1>4. ListInvariant' /\ (Renewing => Renewing')
  BY <1>1, <1>3, ListStays DEF RegistryInvariant
<1>5. CommandIsSeen' /\ NotesOfRequests'
  BY <1>1, <1>2, <1>4, CommandStays DEF RegistryInvariant
<1>6. RegistryType'
  BY <1>1, <1>2, ScreenStays DEF RegistryInvariant, RegistryType
<1> QED
  BY <1>4, <1>5, <1>6 DEF RegistryInvariant

LEMMA ExecuteRowStep ==
  ASSUME Browse!RegistryAssumption, RegistryInvariant, Browse!Execute
  PROVE  RegistryInvariant'
<1>1. /\ UNCHANGED <<screen, pending, attention, view, due, loads, again, stray, typed, events>>
      /\ command # None
  BY DEF Browse!Execute, Browse!shell, Browse!list
<1>2. PICK c : c = command
  OBVIOUS
<1>3. c \in CommandStates
  BY <1>1, <1>2 DEF RegistryInvariant, RegistryType
<1>4. \/ /\ rows' = [rows EXCEPT ![c.row] = c.to] /\ news' = "sent"
         /\ \E s \in {"done", "refused"} : command' = [c EXCEPT !.stage = s]
      \/ command' = [c EXCEPT !.stage = "refused"] /\ UNCHANGED <<rows, news>>
  BY <1>2 DEF Browse!Execute
<1>5. command' \in CommandStates /\ command'.op = c.op
  BY ONLY <1>3, <1>4 DEF CommandStates
<1>6. rows' \in [Rows -> Browse!Shown \cup {None}] /\ news' \in {"none", "sent", "lost"}
  BY <1>3, <1>4 DEF CommandStates, RegistryInvariant, RegistryType
<1>7. RegistryType'
  BY <1>1, <1>5, <1>6, ScreenStays DEF RegistryInvariant, RegistryType
<1>8. CASE news' = "sent"
  <2>1. ListInvariant' /\ Renewing'
    BY <1>1, <1>8, ToldStep DEF RegistryInvariant, Told
  <2>2. CommandIsSeen' /\ NotesOfRequests'
    BY <1>1, <1>2, <1>5, <2>1, CommandStays DEF RegistryInvariant
  <2> QED
    BY <1>7, <2>1, <2>2 DEF RegistryInvariant
<1>9. CASE command' = [c EXCEPT !.stage = "refused"] /\ UNCHANGED <<rows, news>>
  <2>1. command'.stage = "refused"
    BY ONLY <1>3, <1>9 DEF CommandStates
  <2>2. Told => Told'
    BY <1>1, <1>9 DEF Told
  <2>3. ListInvariant' /\ (Renewing => Renewing')
    BY <1>1, <1>9, <2>2, ListStays DEF RegistryInvariant
  <2>4. CommandIsSeen' /\ NotesOfRequests'
    BY <1>1, <1>2, <1>5, <2>1, <2>3, CommandStays DEF RegistryInvariant
  <2> QED
    BY <1>7, <2>3, <2>4 DEF RegistryInvariant
<1> QED
  BY <1>4, <1>8, <1>9

LEMMA AnsweredIs ==
  ASSUME Browse!RegistryAssumption, RegistryType, NEW v \in ListStates,
         NEW c \in CommandStates,
         c.stage \in {"done", "refused"}
  PROVE  /\ Browse!Answered(v, c) \in ListStates /\ Browse!Answered(v, c).filter = v.filter
         /\ Browse!Answered(v, c).loading = v.loading
         /\ c.stage = "refused" /\ c.op.how # "first" => Browse!Answered(v, c) = v
<1>1. /\ v.items \in Pages /\ v.total \in Totals /\ c.row \in Rows
      /\ c.to \in Browse!Shown \cup {None} /\ c.was \in Browse!Shown \cup {None}
  BY DEF ListStates, CommandStates
<1>2. ASSUME NEW items \in Pages, NEW w, w = [v EXCEPT !.items = items]
      PROVE  /\ w \in ListStates /\ w.filter = v.filter /\ w.loading = v.loading
             /\ items = v.items => w = v
  BY ONLY <1>2, v \in ListStates DEF ListStates
<1>3. CASE c.stage = "refused"
  <2>1. PICK items : items = IF c.op.how = "first" /\ Browse!Status(c.row) = c.to
                             THEN [v.items EXCEPT ![c.row] = c.was] ELSE v.items
    OBVIOUS
  <2>2. items \in Pages
    BY <1>1, <2>1, PatchIs
  <2>3. PICK w : w = [v EXCEPT !.items = items]
    OBVIOUS
  <2>4. Browse!Answered(v, c) = w
    BY <1>3, <2>1, <2>3 DEF Browse!Answered, ListStates
  <2>5. c.op.how # "first" => items = v.items
    BY <2>1
  <2>6. /\ w \in ListStates /\ w.filter = v.filter /\ w.loading = v.loading
        /\ items = v.items => w = v
    BY <1>2, <2>2, <2>3
  <2> QED
    BY <2>4, <2>5, <2>6
<1>4. CASE c.stage = "done" /\ c.op.how = "drop" /\ c.under \notin {"all", c.to}
  <2>1. PICK items : items = [r \in (DOMAIN v.items) \ {c.row} |-> v.items[r]]
    OBVIOUS
  <2>2. items \in Pages
    <3>1. PICK S \in SUBSET Rows : v.items \in [S -> Browse!Shown \cup {None}]
      BY <1>1 DEF Pages
    <3>2. items \in [S \ {c.row} -> Browse!Shown \cup {None}] /\ S \ {c.row} \in SUBSET Rows
      BY <2>1, <3>1
    <3> QED
      BY <3>2, IsPage
  <2>3. PICK total : total = IF v.total = 0 THEN 0 ELSE v.total - 1
    OBVIOUS
  <2>4. total \in Totals
    BY <1>1, <2>3, RowsAreMany DEF Totals
  <2>5. PICK w : w = [v EXCEPT !.items = items, !.total = total]
    OBVIOUS
  <2>6. Browse!Answered(v, c) = w
    BY <1>4, <2>1, <2>3, <2>5 DEF Browse!Answered, ListStates
  <2>7. w \in ListStates /\ w.filter = v.filter /\ w.loading = v.loading
    BY ONLY <2>2, <2>4, <2>5, v \in ListStates DEF ListStates
  <2> QED
    BY <1>4, <2>6, <2>7
<1>5. CASE /\ c.stage = "done"
           /\ c.op.how = "keep" \/ (c.op.how = "drop" /\ c.under \in {"all", c.to})
  <2>1. PICK items : items = [r \in DOMAIN v.items |-> IF r = c.row THEN c.to ELSE v.items[r]]
    OBVIOUS
  <2>2. items \in Pages
    <3>1. PICK S \in SUBSET Rows : v.items \in [S -> Browse!Shown \cup {None}]
      BY <1>1 DEF Pages
    <3>2. items \in [S -> Browse!Shown \cup {None}]
      BY <1>1, <2>1, <3>1
    <3> QED
      BY <3>2, IsPage
  <2>3. PICK w : w = [v EXCEPT !.items = items]
    OBVIOUS
  <2>4. Browse!Answered(v, c) = w
    BY <1>5, <2>1, <2>3 DEF Browse!Answered, ListStates
  <2>5. w \in ListStates /\ w.filter = v.filter /\ w.loading = v.loading
    BY <1>2, <2>2, <2>3
  <2> QED
    BY <1>5, <2>4, <2>5
<1>6. CASE /\ c.stage = "done" /\ c.op.how # "keep"
           /\ c.op.how # "drop"
  BY <1>6 DEF Browse!Answered
<1> QED
  BY <1>3, <1>4, <1>5, <1>6

\* The load that follows a command asks for the filter of its call; otherwise the list is
\* patched, and only where it is about to be renewed.
LEMMA AnswerStep ==
  ASSUME Browse!RegistryAssumption, RegistryInvariant, Browse!Answer
  PROVE  RegistryInvariant'
<1>1. /\ UNCHANGED <<screen, rows, news, pending, due, events>>
      /\ command # None /\ command' = None /\ command.stage \in {"done", "refused"}
  BY DEF Browse!Answer, Browse!Last, Browse!server
<1>2. PICK c : c = command
  OBVIOUS
<1>3. c \in CommandStates /\ c.stage \in {"done", "refused"}
  BY <1>1, <1>2 DEF RegistryInvariant, RegistryType
<1>4. PICK v : v = view
  OBVIOUS
<1>5. v \in ListStates
  BY <1>4 DEF RegistryInvariant, RegistryType
<1>6. PICK w : w = Browse!Answered(v, c)
  OBVIOUS
<1>7. /\ w \in ListStates /\ w.filter = v.filter /\ w.loading = v.loading
      /\ c.stage = "refused" /\ c.op.how # "first" => w = v
  BY <1>3, <1>5, <1>6, AnsweredIs DEF RegistryInvariant
<1>8. PICK f : f = c.under
  OBVIOUS
<1>9. f \in {"all", "new"}
  BY <1>3, <1>8 DEF CommandStates
<1>10. /\ IF Browse!Reloads(c) THEN Browse!LoadList(w, f, "page")
          ELSE view' = w /\ UNCHANGED <<loads, again>>
       /\ stray' = (stray \/ f # v.filter \/ (c.reloaded /\ ~Browse!Reloads(c)))
       /\ attention' \in {"page", "elsewhere"} /\ typed' \in {typed, None}
  BY <1>2, <1>4, <1>6, <1>8 DEF Browse!Answer, RegistryInvariant, RegistryType
<1>11. /\ view' \in ListStates /\ view'.filter = v.filter
       /\ loads' \in [Browse!Slots -> LoadStates \cup {None}] /\ again' \in BOOLEAN
  <2>1. CASE Browse!Reloads(c)
    BY <1>7, <1>9, <1>10, <2>1, LoadListGives DEF RegistryInvariant
  <2>2. CASE ~Browse!Reloads(c)
    BY <1>7, <1>10, <2>2 DEF RegistryInvariant, RegistryType
  <2> QED
    BY <2>1, <2>2
<1>12. stray' \in BOOLEAN /\ typed' \in Rows \cup {None}
  BY <1>3, <1>10 DEF CommandStates, RegistryInvariant, RegistryType
<1>13. RegistryType'
  BY <1>1, <1>4, <1>10, <1>11, <1>12, ScreenStays DEF RegistryInvariant, RegistryType
<1>14. CommandIsSeen' /\ NotesOfRequests'
  BY <1>1, <1>10 DEF RegistryInvariant, CommandIsSeen, NotesOfRequests
<1>15. CASE ~Careful
  BY <1>1, <1>13, <1>14, <1>15, CarelessStep DEF RegistryInvariant
<1>16. CASE Careful /\ Browse!Reloads(c)
  <2>1. Browse!Of.own = "aborts"
    BY <1>1, <1>16 DEF RegistryInvariant, CommandIsSeen
  <2>2. /\ loads'[1] # None /\ loads'[1].kind = "list" /\ loads'[1].from = 0
        /\ loads'[1].filter = f /\ loads'[1].answer = Browse!Waiting /\ loads'[2] = None
        /\ view'.loading /\ again' = FALSE
    BY <1>7, <1>9, <1>10, <1>16, <2>1, LoadListGives DEF RegistryInvariant
  <2>3. Sequential'
    BY <2>2 DEF Sequential
  <2>4. ListIsTrue'
    BY <2>2 DEF ListIsTrue, Fits, Browse!Waiting, Browse!Empty, Browse!NoRows
  <2>5. Renewing'
    BY <1>10, <1>11, <2>2 DEF Renewing
  <2> QED
    BY <1>13, <1>14, <2>3, <2>4, <2>5, RenewingStep DEF RegistryInvariant
<1>17. CASE Careful /\ ~Browse!Reloads(c)
  <2>1. view' = w /\ UNCHANGED <<loads, again>>
    BY <1>10, <1>17
  <2>2. Told => Told'
    BY <1>1 DEF Told
  <2>3. Sequential'
    BY <1>1, <1>4, <1>7, <2>1, SequentialStays DEF RegistryInvariant, ListInvariant
  <2>4. ListIsTrue'
    BY <1>1, <2>1, <2>2, ListTrueStays DEF RegistryInvariant, ListInvariant
  <2>5. CASE Renewing'
    BY <1>13, <1>14, <2>3, <2>4, <2>5, RenewingStep DEF RegistryInvariant
  <2>6. CASE ~Renewing'
    <3>1. ~stray' /\ ~stray
      BY <1>10, <2>6 DEF Renewing
    <3>2. ~Renewing /\ ~c.reloaded
      BY <1>1, <1>4, <1>10, <1>11, <1>17, <2>1, <2>2, <2>6 DEF Renewing
    <3>3. c.stage = "refused" /\ c.op.how # "first"
      BY <1>1, <1>2, <1>3, <1>17, <3>2 DEF RegistryInvariant, CommandIsSeen
    <3>4. view' = view
      BY <1>4, <1>7, <2>1, <3>3
    <3>5. stray' = stray
      BY <1>10, <1>12, <3>1 DEF RegistryInvariant, RegistryType
    <3>6. ListInvariant'
      BY <1>1, <2>1, <2>2, <3>4, <3>5, ListStays DEF RegistryInvariant
    <3> QED
      BY <1>13, <1>14, <3>6 DEF RegistryInvariant
  <2> QED
    BY <2>5, <2>6
<1> QED
  BY <1>15, <1>16, <1>17

\* The reader looks away and back, or types a note.
LEMMA ReaderStep ==
  ASSUME Browse!RegistryAssumption, RegistryInvariant, Browse!Reader \/ UNCHANGED Browse!vars
  PROVE  RegistryInvariant'
<1>1. /\ UNCHANGED <<screen, rows, news, pending, view, due, loads, again, stray, command, events>>
      /\ attention' \in {"page", "elsewhere"} /\ typed' \in Rows \cup {None}
      /\ typed' = typed \/ screen = "requests"
  <2>1. attention \in {"page", "elsewhere"} /\ typed \in Rows \cup {None}
    BY DEF RegistryInvariant, RegistryType
  <2>2. CASE Browse!TurnAway
    BY <2>1, <2>2 DEF Browse!TurnAway, Browse!server, Browse!list
  <2>3. CASE Browse!TurnBack
    BY <2>1, <2>3 DEF Browse!TurnBack, Browse!server, Browse!list
  <2>4. CASE \E r \in Rows : Browse!TypeNote(r)
    BY <2>1, <2>4 DEF Browse!TypeNote, Browse!server, Browse!shell, Browse!list
  <2>5. CASE UNCHANGED Browse!vars
    BY <2>1, <2>5 DEF Browse!vars, Browse!server, Browse!shell, Browse!list
  <2> QED
    BY <2>2, <2>3, <2>4, <2>5 DEF Browse!Reader
<1>2. RegistryType'
  BY <1>1, ScreenStays DEF RegistryInvariant, RegistryType
<1>3. Told => Told'
  BY <1>1 DEF Told
<1>4. ListInvariant' /\ (Renewing => Renewing')
  BY <1>1, <1>3, ListStays DEF RegistryInvariant
<1>5. CommandIsSeen'
  BY <1>1, <1>4, ScreenStays DEF RegistryInvariant, CommandIsSeen
<1>6. NotesOfRequests'
  BY <1>1 DEF RegistryInvariant, NotesOfRequests
<1> QED
  BY <1>2, <1>4, <1>5, <1>6 DEF RegistryInvariant

-----------------------------------------------------------------------------
\* What holds of every behaviour.

LEMMA RegistryStarts ==
  ASSUME Browse!RegistryAssumption, Browse!Init
  PROVE  RegistryInvariant
<1>1. /\ screen \in Screens /\ rows \in [Rows -> {"new", None}]
      /\ news = "none" /\ pending = FALSE /\ attention = "page"
      /\ due = TRUE /\ loads = Browse!NoLoads /\ command = None /\ again = FALSE
      /\ typed = None /\ stray = FALSE /\ events = 0
  BY DEF Browse!Init
<1>2. view \in ListStates /\ view.filter = "all"
  <2>1. 0 \in Totals /\ Browse!NoRows \in Pages
    BY WaitingIs
  <2> QED
    BY <2>1 DEF Browse!Init, ListStates
<1>3. rows \in [Rows -> Browse!Shown \cup {None}]
  BY <1>1 DEF Browse!Shown
<1>4. loads \in [Browse!Slots -> LoadStates \cup {None}] /\ loads[1] = None /\ loads[2] = None
  BY <1>1 DEF Browse!NoLoads, Browse!Slots
<1>5. RegistryType
  BY <1>1, <1>2, <1>3, <1>4 DEF RegistryType, Browse!Filters
<1>6. ListInvariant
  BY <1>1, <1>4 DEF ListInvariant, Sequential, ListIsTrue, MoreIsTrue, ShownIsTrue, Renewing
<1> QED
  BY <1>1, <1>5, <1>6 DEF RegistryInvariant, CommandIsSeen, NotesOfRequests

LEMMA RegistryNext ==
  ASSUME Browse!RegistryAssumption, RegistryInvariant, [Browse!Next]_(Browse!vars)
  PROVE  RegistryInvariant'
<1>1. CASE \E r \in Rows : Browse!OtherChange(r)
  BY <1>1, OtherChangeStep
<1>2. CASE Browse!Messages
  BY <1>2, MessageStep DEF Browse!Messages
<1>3. CASE Browse!Loading
  <2>1. CASE Browse!LoadDue \/ Browse!RefreshTick \/ Browse!RefreshPage \/ Browse!Timer
    BY <2>1, LoadStep
  <2>2. CASE Browse!LoadMore
    BY <2>2, LoadMoreStep
  <2>3. CASE \E f \in Browse!Filters : Browse!SetFilter(f)
    BY <2>3, SetFilterStep
  <2>4. CASE \E s \in Browse!Slots : Browse!Serve(s) \/ Browse!Fail(s)
    BY <2>4, RespondStep
  <2>5. CASE \E s \in Browse!Slots : Browse!ReceiveList(s)
    BY <2>5, ReceiveListStep
  <2>6. CASE \E s \in Browse!Slots : Browse!ReceiveMore(s)
    BY <2>6, ReceiveMoreStep
  <2> QED
    BY <1>3, <2>1, <2>2, <2>3, <2>4, <2>5, <2>6 DEF Browse!Loading
<1>4. CASE Browse!Commanding
  <2>1. CASE Browse!Command \/ Browse!BlurNote \/ \E r \in Rows : Browse!RemoveRecord(r)
    BY <2>1, CommandStep
  <2>2. CASE Browse!Confirm
    BY <2>2, ConfirmStep
  <2>3. CASE Browse!Decline \/ Browse!NextRow
    BY <2>3, NextRowStep
  <2>4. CASE Browse!Execute
    BY <2>4, ExecuteRowStep
  <2>5. CASE Browse!Answer
    BY <2>5, AnswerStep
  <2> QED
    BY <1>4, <2>1, <2>2, <2>3, <2>4, <2>5 DEF Browse!Commanding
<1>5. CASE Browse!Reader \/ UNCHANGED Browse!vars
  BY <1>5, ReaderStep
<1> QED
  BY <1>1, <1>2, <1>3, <1>4, <1>5 DEF Browse!Next

\* Where nothing renews a list it is what the server has (what RegistryInvariant says of
\* every careful screen), through all loads, messages, filters and commands.
THEOREM RegistryStaysSound ==
  ASSUME Browse!RegistryAssumption
  PROVE  Browse!Spec => []RegistryInvariant
<1>1. Browse!Init => RegistryInvariant
  BY RegistryStarts
<1>2. RegistryInvariant /\ [Browse!Next]_(Browse!vars) => RegistryInvariant'
  BY RegistryNext
<1> QED
  BY <1>1, <1>2, PTL DEF Browse!Spec

\* The variables of a list have their types, and a total stays one of the server's.
THEOREM RegistryTypeCorrect ==
  ASSUME Browse!RegistryAssumption
  PROVE  Browse!Spec => []Browse!TypeOK
<1>1. ASSUME RegistryInvariant
      PROVE  Browse!TypeOK
  <2>1. RegistryType
    BY <1>1 DEF RegistryInvariant
  <2>2. DOMAIN view.items \in SUBSET Rows /\ view.next \in Nat /\ view.total \in Totals
    BY <2>1, PagesAre DEF RegistryType, ListStates
  <2> QED
    BY <2>1, <2>2, RowCountsAre DEF RegistryType, Browse!TypeOK, Totals
<1>2. RegistryInvariant => Browse!TypeOK
  BY <1>1
<1> QED
  BY <1>2, RegistryStaysSound, PTL

\* A list whose loads abort or repeat each other shows what the server has, or a load, a
\* message or a refresh is still to come (booking-registry, customer-directory,
\* individual-transfer-requests, trips-planner, statistics-workspace).
THEOREM ListsAreTrueOrKnow ==
  ASSUME Browse!RegistryAssumption
  PROVE  Browse!Spec => []Browse!TrueOrKnows
<1>1. ASSUME RegistryInvariant
      PROVE  Browse!TrueOrKnows
  <2> SUFFICES ASSUME Careful, ~Browse!UpToDate, ~stray, ~again, ~due, ~Told
               PROVE  Browse!Coming
    BY DEF Browse!TrueOrKnows, Careful, Told
  <2>1. loads[1] # None /\ loads[1].filter = view.filter
    BY <1>1 DEF RegistryInvariant, ListInvariant, ShownIsTrue, Renewing
  <2>2. 1 \in Browse!InFlight("list")
    BY <1>1, <2>1 DEF RegistryInvariant, ListInvariant, Sequential, Browse!InFlight,
       Browse!Slots
  <2>3. loads[1].answer \in {Browse!Waiting, Browse!Failed, Browse!Page(loads[1])}
    BY <1>1, <2>1 DEF RegistryInvariant, ListInvariant, ListIsTrue, Fits
  <2> QED
    BY <2>1, <2>2, <2>3 DEF Browse!Coming
<1>2. RegistryInvariant => Browse!TrueOrKnows
  BY <1>1
<1> QED
  BY <1>2, RegistryStaysSound, PTL
=============================================================================
