----------------------------- MODULE MCScreens -----------------------------
(* The parts of the browser's screens, and the deletion they ask for, on small *)
(* instances.  They share nothing: a behaviour is one of a single module, the  *)
(* variable part names it, and v1 .. v15 hold that module's variables.         *)
EXTENDS Naturals

CONSTANT None

VARIABLES part, v1, v2, v3, v4, v5, v6, v7, v8, v9, v10, v11, v12, v13, v14, v15
vars == <<part, v1, v2, v3, v4, v5, v6, v7, v8, v9, v10, v11, v12, v13, v14, v15>>

\* Fields: every form that keeps its edits.
Forms == {"payment", "rates", "preferences", "notifications", "numbers", "status",
          "navigation", "passengers", "company", "profile", "detail", "trip", "review",
          "boarding", "field"}

\* Collection: a view saved with filters of the old kind, and one with nested groups.
Rule(field, op, value) == [field |-> field, op |-> op, value |-> value]
Group(combinator, rules) == [combinator |-> combinator, rules |-> rules]
SavedViews ==
  LET one == Rule("status", "is", "x")
      other == Rule("city", "isNot", "x")
      nested == Group("and", <<Group("or", <<one, other>>)>>)
  IN  {[values |-> [city |-> None, status |-> None], query |-> Group("and", <<>>)],
       [values |-> [city |-> "x", status |-> None], query |-> Group("or", <<nested, other>>)]}

\* Deletion: a booking of a trip, a request that may have become a booking, and, read by no
\* preview, an expense of the trip and the public request of the booking.
Records == {"trip", "booking", "request", "expense", "public"}
May ==
  [r \in Records |-> CASE r = "booking" -> {"trip"} [] r = "public" -> {"booking"}
                       [] r = "request" -> {"booking", None}
                       [] r = "expense" -> {"trip", None} [] OTHER -> {None}]

Bookings == INSTANCE Registry WITH
  Rows <- {1, 2}, PageSize <- 1, Screens <- {"bookings"}, MaxEvents <- 1,
  screen <- v1, rows <- v2, news <- v3, pending <- v4, attention <- v5, view <- v6,
  due <- v7, loads <- v8, command <- v9, again <- v10, typed <- v11, stray <- v12,
  events <- v13

Lists == INSTANCE Registry WITH
  Rows <- {1, 2}, PageSize <- 1, MaxEvents <- 1,
  Screens <- {"customers", "requests", "trips", "statistics"},
  screen <- v1, rows <- v2, news <- v3, pending <- v4, attention <- v5, view <- v6,
  due <- v7, loads <- v8, command <- v9, again <- v10, typed <- v11, stray <- v12,
  events <- v13

Board == INSTANCE Board WITH
  Cards <- {1, 2, 3}, Columns <- {"new", "done"}, Steps <- {<<"new", "done">>}, MaxEvents <- 2,
  rows <- v1, hidden <- v2, cardOrder <- v3, sorted <- v4, moves <- v5, drag <- v6,
  grab <- v7, events <- v8

Form == INSTANCE Fields WITH
  Fields <- {"status", "price"}, Status <- "status", Values <- {"x", "y"}, Forms <- Forms,
  MaxEvents <- 4,
  form <- v1, server <- v2, draft <- v3, saved <- v4, persisted <- v5, queue <- v6,
  flight <- v7, late <- v8, load <- v9, typing <- v10, mine <- v11, dirty <- v12,
  asked <- v13, crossed <- v14, events <- v15

Views == INSTANCE Views WITH
  Ids <- {"v1", "v2"}, ReadOnly <- {"v2"}, Standard <- "standard", Names <- {"n", "m"},
  Configs <- {"a", "b", "gone"}, Default <- "a", Stale <- {"gone"}, MaxEvents <- 2,
  server <- v1, fresh <- v2, views <- v3, restored <- v4, active <- v5, config <- v6,
  drafts <- v7, autosave <- v8, dialog <- v9, call <- v10, load <- v11, error <- v12,
  wanted <- v13, events <- v14

Feeds == INSTANCE Feeds WITH
  Kinds <- {"ledger", "activity", "inbox"}, Old <- 2, MaxItems <- 4, PageSize <- 1,
  MaxEvents <- 2,
  feed <- v1, tags <- v2, visible <- v3, page <- v4, calls <- v5, closing <- v6,
  marking <- v7, known <- v8, fresh <- v9, overtaken <- v10,
  crossed <- v11, events <- v12

PushDevice == INSTANCE PushDevice WITH
  Checks <- {"c1", "c2"}, MaxEndpoints <- 3, MaxEvents <- 5,
  native <- v1, pending <- v2, made <- v3, rows <- v4, generation <- v5, act <- v6,
  queue <- v7, late <- v8, checks <- v9, page <- v10, off <- v11, disturbed <- v12,
  events <- v13

Collection == INSTANCE Collection WITH
  Ids <- {"a", "b"}, Fields <- {"city", "status"}, Values <- {"x", "y"}, Saved <- SavedViews,
  MaxDepth <- 3, MaxNodes <- 5, MaxConditions <- 3, MaxGroups <- 3, MaxEvents <- 3,
  rows <- v1, removed <- v2, values <- v3, query <- v4, draft <- v5, selected <- v6,
  run <- v7, deletion <- v8, seen <- v9, strays <- v10, events <- v11

Deletion == INSTANCE Deletion WITH
  Records <- Records, May <- May, Unlinked <- {"request", "expense"},
  Beyond <- {"expense", "public"}, Company <- "company", Devs <- {"d"}, Calls <- {1, 2}, MaxEvents <- 3,
  db <- v1, dialogs <- v2, reads <- v3, calls <- v4, events <- v5

Planner == INSTANCE Planner WITH
  Trips <- {"t1", "t2"}, Routes <- {"r1", "r2"}, PerKm <- {"r2"}, Vehicles <- {"v1", "v2"},
  Drivers <- {"d1", "d2"}, Unrated <- {}, DayEnd <- 2, Lengths <- {1}, MaxEvents <- 2,
  trips <- v1, rows <- v2, load <- v3, form <- v4, road <- v5, busy <- v6,
  saving <- v7, dragging <- v8, moving <- v9, events <- v10

\* The variables that a module of n variables leaves alone, and that they begin so.
Rest14 == <<v15>>
Rest13 == <<v14, Rest14>>
Rest12 == <<v13, Rest13>>
Rest11 == <<v12, Rest12>>
Rest10 == <<v11, Rest11>>
Rest8 == <<v9, v10, Rest10>>
Rest5 == <<v6, v7, v8, Rest8>>
Free14 == v15 = None
Free13 == v14 = None /\ Free14
Free12 == v13 = None /\ Free13
Free11 == v12 = None /\ Free12
Free10 == v11 = None /\ Free11
Free8 == v9 = None /\ v10 = None /\ Free10
Free5 == v6 = None /\ v7 = None /\ v8 = None /\ Free8

Init ==
  \/ part = "Bookings" /\ Bookings!Init /\ Free13
  \/ part = "Lists" /\ Lists!Init /\ Free13
  \/ part = "Board" /\ Board!Init /\ Free8
  \/ part = "Fields" /\ Form!Init
  \/ part = "Views" /\ Views!Init /\ Free14
  \/ part = "Feeds" /\ Feeds!Init /\ Free12
  \/ part = "PushDevice" /\ PushDevice!Init /\ Free13
  \/ part = "Collection" /\ Collection!Init /\ Free11
  \/ part = "Deletion" /\ Deletion!Init /\ Free5
  \/ part = "Planner" /\ Planner!Init /\ Free10

Next ==
  /\ UNCHANGED part
  /\ \/ part = "Bookings" /\ Bookings!Next /\ UNCHANGED Rest13
     \/ part = "Lists" /\ Lists!Next /\ UNCHANGED Rest13
     \/ part = "Board" /\ Board!Next /\ UNCHANGED Rest8
     \/ part = "Fields" /\ Form!Next
     \/ part = "Views" /\ Views!Next /\ UNCHANGED Rest14
     \/ part = "Feeds" /\ Feeds!Next /\ UNCHANGED Rest12
     \/ part = "PushDevice" /\ PushDevice!Next /\ UNCHANGED Rest13
     \/ part = "Collection" /\ Collection!Next /\ UNCHANGED Rest11
     \/ part = "Deletion" /\ Deletion!Next /\ UNCHANGED Rest5
     \/ part = "Planner" /\ Planner!Next /\ UNCHANGED Rest10

Spec == Init /\ [][Next]_vars

ASSUME ScreensAssumption ==
  /\ Bookings!RegistryAssumption /\ Lists!RegistryAssumption /\ Board!BoardAssumption
  /\ Form!FieldsAssumption
  /\ Views!ViewsAssumption /\ Feeds!FeedsAssumption /\ PushDevice!PushAssumption
  /\ Collection!CollectionAssumption /\ Deletion!DeletionAssumption
  /\ Planner!PlannerAssumption

-----------------------------------------------------------------------------
\* A list is up to date, or something that will renew it is on its way (booking-registry).
TrueOrKnows ==
  /\ part = "Bookings" => Bookings!TrueOrKnows
  /\ part = "Lists" => Lists!TrueOrKnows

\* Refusals return one card and hidden cards keep their places (lib/kanban.ts).
BoardIsKept == [][part = "Board" => Board!BoardStep]_vars

\* What was committed in a form is kept or refused aloud (lib/autosave.ts), and the
\* unsaved drafts of the tabs survive (entity-view-toolbar.tsx).
WorkIsKept ==
  /\ part = "Fields" => Form!EditsAreKept
  /\ part = "Views" => Views!DraftIsKept

\* A saved view changes in what was saved and nothing else (entity_views.go).
WritesKeepTheRest == [][part = "Views" => Views!WriteKeepsTheRest]_vars

\* Paged lists have no holes (accounting-workspace, activity-history, notifications-inbox).
FeedIsWhole == part = "Feeds" => Feeds!FeedIsWhole

\* A device that was disconnected stays so, a connected one is (lib/push-device.ts).
DeviceIsAsShown == part = "PushDevice" => PushDevice!DeviceIsAsShown

\* What is shown is what was asked for (lib/entity-query.ts).
FiltersAsComposed == [][part = "Collection" => Collection!ComposedStep]_vars

\* Bulk changes touch only what was shown (use-entity-selection.ts).
SelectedWereShown == part = "Collection" => Collection!SelectedWereShown

\* A deletion takes what was shown in its preview, and nothing that others refer to
\* (entity_deletion.go).
DeletionAsShown == [][part = "Deletion" => Deletion!DeletionStep]_vars

\* No vehicle and no driver has two trips at one time (main.go createTripSchedule), and a
\* trip has the road and the price that were shown (trips-planner.tsx).
PlanHolds == part = "Planner" => Planner!NoDoubleAssignment /\ Planner!PlannedAsShown
=============================================================================
