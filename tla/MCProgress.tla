----------------------------- MODULE MCProgress -----------------------------
(* What must get done in the end: by the phone's queue, by the open pages, by  *)
(* the sale's holds and handlers, by the lists and by the bell.  The modules   *)
(* share nothing: a behaviour is one of a single module, the variable part     *)
(* names it, and v1 .. v13 hold that module's variables.                       *)
EXTENDS Naturals

CONSTANT None

VARIABLES part, v1, v2, v3, v4, v5, v6, v7, v8, v9, v10, v11, v12, v13
vars == <<part, v1, v2, v3, v4, v5, v6, v7, v8, v9, v10, v11, v12, v13>>

\* The handlers that may run, and the statuses that staff set by hand.
SalesOps ==
  {"publicCreateBooking", "botCreateBooking", "cancelTelegramBooking", "bookingPassengers",
   "syncBank", "confirmBookingPayment"}
SalesMoves ==
  {<<s, t>> : s \in {"cash_on_boarding", "confirmed"}, t \in {"passenger_arrived", "no_show"}}
  \cup {<<s, "cancelled">> : s \in {"awaiting_payment", "cash_on_boarding", "confirmed",
                                    "passenger_arrived"}}
TripMoves == {"boarding", "assigned", "in_progress", "completed", "cancelled"}

Phone == INSTANCE DriverGPS WITH
  Windows <- {"w1", "w2"}, Members <- {"anna"}, Trips <- {"t1"}, Points <- {1},
  QueueLimit <- 1, BatchSize <- 1, WebLocks <- TRUE, MaxLate <- 0, MaxAsks <- 0,
  session <- v1, drivers <- v2, windows <- v3, points <- v4, store <- v5, captureLock <- v6,
  deliveryLock <- v7, late <- v8, recorded <- v9, rejected <- v10, stale <- v11,
  asks <- v12

Web == INSTANCE Gateway WITH
  Tabs <- {"tab1"}, Tokens <- {"s1", "s2"}, Companies <- {"vivat"}, Home <- "vivat",
  SessionCache <- 2, MaxTime <- 2,
  clock <- v1, sessions <- v2, cookie <- v3, checks <- v4, tabs <- v5

Sales == INSTANCE SeatSales WITH
  Clients <- {"c1", "c2"}, Bookings <- {"b1"}, Customers <- {"u1"}, Keys <- {"k1"},
  MaxSeats <- 1, VehicleCapacity <- 1, HoldLength <- 1, MaxTime <- 2, Departures <- {3},
  Ops <- SalesOps, ManualMoves <- SalesMoves, TripMoves <- TripMoves,
  clock <- v1, trip <- v2, bookings <- v3, requests <- v4, tx <- v5,
  lapsed <- v6, revived <- v7, setBack <- v8

List == INSTANCE Registry WITH
  Rows <- {1}, PageSize <- 1, MaxEvents <- 1,
  Screens <- {"bookings", "fleet", "statistics"},
  screen <- v1, rows <- v2, news <- v3, pending <- v4, attention <- v5, view <- v6,
  due <- v7, loads <- v8, command <- v9, again <- v10, typed <- v11, stray <- v12,
  events <- v13

Bell == INSTANCE Feeds WITH
  Kinds <- {"inbox"}, Old <- 1, MaxItems <- 2, PageSize <- 1, MaxEvents <- 2,
  feed <- v1, tags <- v2, visible <- v3, page <- v4, calls <- v5, closing <- v6,
  marking <- v7, known <- v8, fresh <- v9, overtaken <- v10,
  crossed <- v11, events <- v12

\* The variables that a module of n variables leaves alone, and that they begin so.
Rest11 == <<v12, v13>>
Rest8 == <<v9, v10, v11, Rest11>>
Rest5 == <<v6, v7, v8, Rest8>>
Free11 == v12 = None /\ v13 = None
Free8 == v9 = None /\ v10 = None /\ v11 = None /\ Free11
Free5 == v6 = None /\ v7 = None /\ v8 = None /\ Free8

Init ==
  \/ part = "phone" /\ Phone!Init /\ v13 = None
  \/ part = "web" /\ Web!Init /\ Free5
  \/ part = "sales" /\ Sales!Init /\ Free8
  \/ part = "list" /\ List!Init
  \/ part = "bell" /\ Bell!Init /\ v13 = None

OfPhone(A) == part = "phone" /\ A /\ UNCHANGED <<part, v13>>
OfWeb(A) == part = "web" /\ A /\ UNCHANGED <<part, Rest5>>
OfSales(A) == part = "sales" /\ A /\ UNCHANGED <<part, Rest8>>
OfList(A) == part = "list" /\ A /\ UNCHANGED part
OfBell(A) == part = "bell" /\ A /\ UNCHANGED <<part, v13>>

Next ==
  OfPhone(Phone!Next) \/ OfWeb(Web!Next) \/ OfSales(Sales!Next) \/ OfList(List!Next)
    \/ OfBell(Bell!Next)

-----------------------------------------------------------------------------
\* The fairness of the modules' own specifications (LiveSpec; FairSpec of SeatSales).
\* Only one of them runs, so that one condition may join an action of each.
Strong1 ==
  \/ OfPhone(Phone!Heard("w1")) \/ OfWeb(Web!CheckAnswer("tab1"))
  \/ OfSales(Sales!ExpireBookingHolds) \/ OfList(List!Serve(1)) \/ OfBell(Bell!Serve(1))
Strong2 ==
  \/ OfPhone(Phone!Heard("w2")) \/ OfWeb(Web!CheckHeard("tab1"))
  \/ OfSales(Sales!Proceed("c1")) \/ OfList(List!Serve(2)) \/ OfBell(Bell!Serve(2))
Strong3 == OfSales(Sales!Proceed("c2")) \/ OfList(List!Heard(1)) \/ OfBell(Bell!Hear(1))
Strong4 == OfList(List!Heard(2)) \/ OfBell(Bell!Hear(2))

Weak1 ==
  \/ OfPhone(Phone!Delivery("w1")) \/ OfWeb(Web!Monitor("tab1")) \/ OfSales(Sales!Tick)
  \/ OfList(List!RefreshTick) \/ OfBell(Bell!PollInbox)
Weak2 ==
  \/ OfPhone(Phone!Delivery("w2")) \/ OfSales(Sales!DeadlockVictim("c1"))
  \/ OfList(List!Resync) \/ OfBell(Bell!StoreRead)
Weak3 ==
  \/ OfSales(Sales!DeadlockVictim("c2")) \/ OfList(List!Timer)
  \/ OfBell(Bell!HearRead \/ Bell!FailRead)

LiveSpec ==
  /\ Init /\ [][Next]_vars
  /\ SF_vars(Strong1) /\ SF_vars(Strong2) /\ SF_vars(Strong3) /\ SF_vars(Strong4)
  /\ WF_vars(Weak1) /\ WF_vars(Weak2) /\ WF_vars(Weak3)
  /\ WF_vars(OfList(List!LoadDue)) /\ WF_vars(OfList(List!Execute))
  /\ WF_vars(OfList(List!NextRow)) /\ WF_vars(OfList(List!Answer))
  /\ \A s \in {1, 2} : /\ WF_vars(OfList(List!ReceiveList(s)))
                       /\ WF_vars(OfList(List!ReceiveMore(s)))

-----------------------------------------------------------------------------
\* A captured point leaves the phone while its driver stays signed in (lib/gps-queue.ts).
PointsLeave ==
  \A targets \in [{"w1", "w2"} -> {<<None, None>>, <<"anna", "t1">>}] :
    (\E w \in {"w1", "w2"} : targets[w][1] = "anna")
      /\ <>[](part = "phone" /\ Phone!SignedIn("anna", targets))
    => []<>~(part = "phone" /\ Phone!Waits(1, "anna"))

\* An open page notices the loss of its session (SessionMonitor).
SessionLossNoticed == []<>~(part = "web" /\ Web!Unnoticed("tab1"))

\* A hold with an end is resolved (bot main.go expireBookingHolds).
HoldsEnd == []<>~(part = "sales" /\ Sales!Holding("b1"))

\* No handler of a sale waits for ever for a row of another one (public_booking.go, main.go).
HandlersEnd == \A c \in {"c1", "c2"} : []<>~(part = "sales" /\ Sales!Busy(c))

\* A page that is looked at shows the server's rows in the end (app-shell.tsx).
ScreenCatchesUp ==
  <>[](part = "list" /\ List!Attended) => []<>(part = "list" /\ List!UpToDate)

\* The bell counts the unread notices in the end (notifications-inbox.tsx useInbox).
BadgeCatchesUp == <>[](part = "bell" => Bell!BadgeIsTrue)
=============================================================================
