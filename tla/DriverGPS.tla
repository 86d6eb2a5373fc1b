----------------------------- MODULE DriverGPS ------------------------------
(***************************************************************************)
(* A driver's phone: windows of the driver screen, the IndexedDB queue of  *)
(* GPS points that they share (lib/gps-queue.ts), the hook that captures   *)
(* and delivers points (hooks/use-driver-gps.ts), the completion of a trip *)
(* (driver-location-tracker.tsx), and the server that records points.      *)
(*                                                                         *)
(* All windows run under one session cookie, which may change under them   *)
(* at any time.  A window knows who it works for from an earlier answer.   *)
(***************************************************************************)
EXTENDS Naturals, FiniteSets

CONSTANTS
  Windows,
  Members,      \* drivers' memberships; the storage namespace of the queue
  Trips,
  Points,       \* client point ids, in the order of recordedAt
  None,
  QueueLimit,   \* GPS_QUEUE_LIMIT
  BatchSize,    \* points that one flush takes from the queue
  WebLocks,     \* does the browser have navigator.locks?
  MaxLate,      \* bound: aborted requests that may still reach the server
  MaxAsks       \* bound: requests of a window for the capture lock, undecided

ASSUME GPSAssumption ==
  /\ Points \subseteq Nat /\ IsFiniteSet(Points)
  /\ None \notin Windows \cup Members \cup Trips \cup Points
  /\ None \notin [of : Windows, stage : {"granted", "watch", "returned"}]
  /\ {QueueLimit, BatchSize, MaxLate, MaxAsks} \subseteq Nat
  /\ WebLocks \in BOOLEAN

VARIABLES
  session,    \* the membership of the session cookie, or None
  drivers,    \* trips: the driver while a trip is assigned or under way, else None
  windows,
  points,     \* what was captured under each id
  store,      \* ids in IndexedDB
  asks,       \* requests for the capture lock that the browser has not decided: those
              \* of a window's runtime, and those of its runtimes that are disposed of
  captureLock, deliveryLock,   \* Web Locks: gps-capture, and gps-delivery per scope
  late,       \* requests nobody waits for any more
  recorded,   \* gps_points: the memberships under which an id was inserted
  rejected,   \* history: ids removed because they were refused for good or too old
  stale       \* ids recorded more than 48 hours ago

\* The capture lock as the browser knows it, and who waits for it.
locks == <<asks, captureLock>>

vars == <<session, drivers, windows, points, store, locks, deliveryLock, late,
          recorded, rejected, stale>>

-----------------------------------------------------------------------------
\* The runtime of the hook in one window. "batch" is what the running flush still
\* has to deliver, "busy" the point that is being written, "request" the POST that
\* waits for its answer; "closing" is the progress of drain() and "patch" what the
\* PATCH after it completes, and for whom. Left out: authRequired, which keeps the
\* buttons disabled until a delivery succeeds (here the driver may press them), and
\* the pauses between retries (here a retry may come at any time).

Blank ==
  [member |-> None, trip |-> None, starting |-> FALSE, watching |-> FALSE, busy |-> None,
   flushing |-> FALSE, batch |-> {}, request |-> None, closing |-> "no",
   patch |-> None]

\* A new target. The PATCH of the old one goes on; its drain() is over.
Runtime(m, t, patch) == [Blank EXCEPT !.member = m, !.trip = t, !.patch = patch]

NoPoint == [member |-> None, trip |-> None, by |-> None]

Request(i) == [point |-> i, as |-> session, answer |-> "none"]

Active(w) == windows[w].trip # None

Stopped(r) == [r EXCEPT !.watching = FALSE, !.starting = FALSE]

Released(lock, w) == IF lock = w THEN None ELSE lock

Set(w, r) == windows' = [windows EXCEPT ![w] = r]

\* The capture lock: granted to a request whose callback has not run, held for a
\* watch, or given back, which the browser has still to carry out.
Granted(w) == [of |-> w, stage |-> "granted"]
Watched(w) == [of |-> w, stage |-> "watch"]
Returned(w) == [of |-> w, stage |-> "returned"]

\* releaseTrackingLock, which the callback has set when the watch began.
ReleaseCapture(w) ==
  /\ captureLock' = IF captureLock = Watched(w) THEN Returned(w) ELSE captureLock
  /\ UNCHANGED asks

\* An aborted request may be under way still, or lost.
Abandon(q) ==
  \/ late' = late
  \/ Cardinality(late) < MaxLate /\ late' = late \cup {q}

Queue(m) == {i \in store : points[i].member = m}

Oldest(S) == {i \in S : \A j \in S : i <= j}

-----------------------------------------------------------------------------
\* Sessions and windows.

SignIn(m) ==
  /\ session # m
  /\ session' = m
  /\ UNCHANGED <<drivers, windows, points, store, locks, deliveryLock, late,
                 recorded, rejected, stale>>

\* Mutant of Dispose: the clean-up forgets a delivery under way.
DisposeKeepingDelivery(w) ==
  /\ IF windows[w].request = None \/ windows[w].request.answer # "none"
     THEN UNCHANGED late ELSE Abandon(windows[w].request)
  /\ store' = store
  /\ points' = [i \in Points |-> IF i = windows[w].busy THEN NoPoint ELSE points[i]]
  /\ UNCHANGED deliveryLock

\* The runtime of a window ends: requests are aborted but may still arrive, and a
\* write to IndexedDB that was under way may or may not be committed.
Dispose(w) ==
  /\ IF windows[w].request = None \/ windows[w].request.answer # "none"
     THEN UNCHANGED late ELSE Abandon(windows[w].request)
  /\ \/ store' = store
     \/ windows[w].busy # None /\ store' = store \cup {windows[w].busy}
  /\ points' = IF windows[w].busy # None /\ windows[w].busy \notin store'
               THEN [points EXCEPT ![windows[w].busy] = NoPoint] ELSE points
  /\ deliveryLock' = [m \in Members |-> Released(deliveryLock[m], w)]

NoAsks == [live |-> 0, gone |-> 0]

OfWindow(w) == captureLock \in {Granted(w), Watched(w), Returned(w)}

\* stop() ends the watch of a runtime that is disposed of. Its requests go on; a
\* callback that is granted the lock finds "disposed" and returns it.
Orphan(w) ==
  /\ asks' = [asks EXCEPT ![w] = [live |-> 0, gone |-> @.live + @.gone]]
  /\ captureLock' = IF OfWindow(w) THEN Returned(w) ELSE captureLock

\* The browser drops requests and locks of a page that is gone: reload, crash, navigation, or the redirect to the login page after a 401.
CloseWindow(w) ==
  /\ windows[w] # Blank
  /\ Dispose(w)
  /\ asks' = [asks EXCEPT ![w] = NoAsks]
  /\ captureLock' = IF OfWindow(w) THEN None ELSE captureLock
  /\ Set(w, Blank)
  /\ UNCHANGED <<session, drivers, recorded, rejected, stale>>

\* loadFleet asks who is signed in, then for that driver's trips. The session may
\* change between the two answers.
Load(w, m, t) ==
  /\ m # windows[w].member \/ t # windows[w].trip
  /\ drivers[t] = session \/ drivers[t] = m
  /\ session # None
  /\ Dispose(w)
  /\ Orphan(w)
  /\ Set(w, Runtime(m, t, windows[w].patch))
  /\ UNCHANGED <<session, drivers, recorded, rejected, stale>>

-----------------------------------------------------------------------------
\* Capturing.

\* The driver may press the buttons.
Free(w) == Active(w) /\ windows[w].closing = "no" /\ windows[w].patch = None

\* navigator.locks.request("vivat-gps-capture", {ifAvailable: true}); a browser
\* without Web Locks begins the watch at once.
Start(w) ==
  /\ Free(w) /\ ~windows[w].watching /\ ~windows[w].starting
  /\ IF WebLocks
     THEN /\ asks[w].live + asks[w].gone < MaxAsks
          /\ asks' = [asks EXCEPT ![w].live = @ + 1]
          /\ Set(w, [windows[w] EXCEPT !.starting = TRUE])
     ELSE /\ Set(w, [windows[w] EXCEPT !.watching = TRUE])
          /\ UNCHANGED asks
  /\ UNCHANGED <<session, drivers, points, store, captureLock, deliveryLock, late,
                 recorded, rejected, stale>>

\* The browser decides a window's requests in their order. The lock is granted when
\* it is free, and is returned at once by the callback of a runtime disposed of.
GrantLock(w) ==
  /\ captureLock = None
  /\ IF asks[w].gone > 0
     THEN /\ asks' = [asks EXCEPT ![w].gone = @ - 1]
          /\ captureLock' = Returned(w)
     ELSE /\ asks[w].live > 0
          /\ asks' = [asks EXCEPT ![w].live = @ - 1]
          /\ captureLock' = Granted(w)
  /\ UNCHANGED <<session, drivers, windows, points, store, deliveryLock, late,
                 recorded, rejected, stale>>

\* The lock is taken: by another window, or by an earlier request of this one. The
\* callback resets "starting", also when a later request has set it.
RefuseLock(w) ==
  /\ captureLock # None
  /\ IF asks[w].gone > 0
     THEN /\ asks' = [asks EXCEPT ![w].gone = @ - 1]
          /\ UNCHANGED windows
     ELSE /\ asks[w].live > 0
          /\ asks' = [asks EXCEPT ![w].live = @ - 1]
          /\ Set(w, [windows[w] EXCEPT !.starting = FALSE])
  /\ UNCHANGED <<session, drivers, points, store, captureLock, deliveryLock, late,
                 recorded, rejected, stale>>

\* Mutant of StillWanted: the callback does not look again.
WantedOnce(w) == TRUE

\* The callback's "disposed || !starting".
StillWanted(w) == windows[w].starting

\* The granted callback runs: beginWatch, or the lock goes back.
LockArrives(w) ==
  /\ captureLock = Granted(w)
  /\ IF StillWanted(w)
     THEN /\ captureLock' = Watched(w)
          /\ Set(w, [windows[w] EXCEPT !.watching = TRUE, !.starting = FALSE])
     ELSE /\ captureLock' = Returned(w)
          /\ UNCHANGED windows
  /\ UNCHANGED <<session, drivers, points, store, asks, deliveryLock, late,
                 recorded, rejected, stale>>

LockReturns(w) ==
  /\ captureLock = Returned(w)
  /\ captureLock' = None
  /\ UNCHANGED <<session, drivers, windows, points, store, asks, deliveryLock, late,
                 recorded, rejected, stale>>

\* The button, a lost permission, or storage that fails.
Stop(w) ==
  /\ Active(w) /\ (windows[w].watching \/ windows[w].starting)
  /\ Set(w, Stopped(windows[w]))
  /\ ReleaseCapture(w)
  /\ UNCHANGED <<session, drivers, points, store, deliveryLock, late,
                 recorded, rejected, stale>>

\* A usable position arrives, from the watch or from a button, and its write to
\* IndexedDB begins. stop() makes the code ignore every position asked for before.
SavePosition(w) ==
  /\ Active(w) /\ windows[w].busy = None
  /\ windows[w].watching \/ Free(w)
  /\ \E i \in Oldest({j \in Points : points[j] = NoPoint}) :
       /\ points' = [points EXCEPT ![i] = [member |-> windows[w].member,
                                           trip |-> windows[w].trip, by |-> w]]
       /\ Set(w, [windows[w] EXCEPT !.busy = i])
  /\ UNCHANGED <<session, drivers, store, locks, deliveryLock, late,
                 recorded, rejected, stale>>

\* A full queue, or one the browser cannot write, stops the capture.
AddPoint(w) ==
  LET i == windows[w].busy IN
  /\ i # None
  /\ \/ /\ Cardinality(Queue(windows[w].member)) < QueueLimit
        /\ store' = store \cup {i}
        /\ Set(w, [windows[w] EXCEPT !.busy = None])
        /\ UNCHANGED <<points, locks>>
     \/ /\ points' = [points EXCEPT ![i] = NoPoint]
        /\ Set(w, [Stopped(windows[w]) EXCEPT !.busy = None])
        /\ ReleaseCapture(w)
        /\ UNCHANGED store
  /\ UNCHANGED <<session, drivers, deliveryLock, late, recorded, rejected, stale>>

-----------------------------------------------------------------------------
\* Delivery.

\* The first BatchSize points of the scope by recordedAt.
Batch(m) ==
  {i \in Queue(m) : Cardinality({j \in Queue(m) : j < i}) < BatchSize}

CanFlush(w) ==
  /\ Active(w) /\ ~windows[w].flushing
  /\ WebLocks => deliveryLock[windows[w].member] = None

TakeDelivery(w) ==
  deliveryLock' = [deliveryLock EXCEPT ![windows[w].member] =
                     IF WebLocks THEN w ELSE @]

EndDelivery(w) ==
  deliveryLock' = [deliveryLock EXCEPT ![windows[w].member] = Released(@, w)]

\* The timer, a new point, "online", a window that becomes visible.
Flush(w) ==
  /\ CanFlush(w)
  /\ TakeDelivery(w)
  /\ Set(w, [windows[w] EXCEPT !.flushing = TRUE, !.batch = Batch(windows[w].member)])
  /\ UNCHANGED <<session, drivers, points, store, locks, late,
                 recorded, rejected, stale>>

Sending(w) == windows[w].flushing /\ windows[w].request = None

\* Older than 48 hours: reported, never sent.
DropStale(w, i) ==
  /\ Sending(w) /\ i \in Oldest(windows[w].batch) /\ i \in stale
  /\ store' = store \ {i}
  /\ rejected' = rejected \cup {i}
  /\ LET r == [windows[w] EXCEPT !.batch = @ \ {i}]
     IN  IF points[i].trip = windows[w].trip
         THEN Set(w, Stopped(r)) /\ ReleaseCapture(w)
         ELSE Set(w, r) /\ UNCHANGED locks
  /\ UNCHANGED <<session, drivers, points, deliveryLock, late, recorded, stale>>

Send(w, i) ==
  /\ Sending(w) /\ i \in Oldest(windows[w].batch) /\ i \notin stale
  /\ Set(w, [windows[w] EXCEPT !.request = Request(i)])
  /\ UNCHANGED <<session, drivers, points, store, locks, deliveryLock, late,
                 recorded, rejected, stale>>

\* Mutant of SameDriver: the session alone decides.
AnyDriver(i, m) == TRUE

\* recordGPSPoint compares the point's membership with the session's.
SameDriver(i, m) == points[i].member = m

Verdict(i, m) ==
  IF m = None \/ ~SameDriver(i, m) THEN "denied"
  ELSE IF drivers[points[i].trip] # m THEN "rejected" ELSE "stored"

\* Mutant of Insert: a repeated id is inserted again.
InsertAgain(i, m) ==
  recorded' = [recorded EXCEPT ![i] = [@ EXCEPT !.rows = @ + 1, !.as = @ \cup {m}]]

\* ON CONFLICT keeps the row of a repeated id.
Insert(i, m) ==
  recorded' = IF recorded[i].rows > 0 THEN recorded
              ELSE [recorded EXCEPT ![i] = [rows |-> 1, as |-> {m}]]

\* The server handles a request; its answer may be lost, or turned into a 503 by
\* the proxy's five seconds, after the row was written.
Answer(w) ==
  LET q == windows[w].request IN
  /\ q # None /\ q.answer = "none"
  /\ LET v == Verdict(q.point, q.as)
     IN  /\ IF v = "stored" THEN Insert(q.point, q.as) ELSE UNCHANGED recorded
         /\ \E a \in {v, "failed"} :
              Set(w, [windows[w] EXCEPT !.request.answer = a])
  /\ UNCHANGED <<session, drivers, points, store, locks, deliveryLock, late,
                 rejected, stale>>

\* Twelve seconds without an answer, or no network: the request is aborted.
TimeOut(w) ==
  LET q == windows[w].request IN
  /\ q # None /\ q.answer = "none"
  /\ Set(w, [windows[w] EXCEPT !.request.answer = "failed"])
  /\ Abandon(q)
  /\ UNCHANGED <<session, drivers, points, store, locks, deliveryLock,
                 recorded, rejected, stale>>

\* An aborted request that reaches the server, or does not.
LateRequest(q) ==
  /\ q \in late
  /\ late' = late \ {q}
  /\ IF Verdict(q.point, q.as) = "stored"
     THEN Insert(q.point, q.as) \/ UNCHANGED recorded ELSE UNCHANGED recorded
  /\ UNCHANGED <<session, drivers, points, store, locks, deliveryLock,
                 windows, rejected, stale>>

\* Mutant of Delivered: an acknowledgement empties the queue.
DeliveredAll(w, i) == store' = store \ Queue(windows[w].member)

\* Only the acknowledged id is deleted.
Delivered(w, i) == store' = store \ {i}

Acknowledged(w) ==
  LET q == windows[w].request IN
  /\ q # None /\ q.answer = "stored"
  /\ Delivered(w, q.point)
  /\ Set(w, [windows[w] EXCEPT !.request = None, !.batch = @ \ {q.point}])
  /\ UNCHANGED <<session, drivers, points, locks, deliveryLock, late,
                 recorded, rejected, stale>>

\* Mutant of Refuse: the rest of the batch goes with the refused point.
RefuseBatch(w, i) ==
  /\ store' = store \ windows[w].batch
  /\ rejected' = rejected \cup {i}

Refuse(w, i) ==
  /\ store' = store \ {i}
  /\ rejected' = rejected \cup {i}

\* 400, 404, 409, 422: the point will never be accepted.
Refused(w) ==
  LET q == windows[w].request
      r == [windows[w] EXCEPT !.request = None, !.batch = @ \ {q.point}]
  IN
  /\ q # None /\ q.answer = "rejected"
  /\ Refuse(w, q.point)
  /\ IF points[q.point].trip = windows[w].trip
     THEN Set(w, Stopped(r)) /\ ReleaseCapture(w)
     ELSE Set(w, r) /\ UNCHANGED locks
  /\ UNCHANGED <<session, drivers, points, deliveryLock, late, recorded, stale>>

\* Everything else ends the flush and keeps the points. 403 also stops the
\* capture; a 401 has made sessionFetch leave the page (CloseWindow).
Failed(w) ==
  LET q == windows[w].request
      r == [windows[w] EXCEPT !.request = None, !.batch = {}, !.flushing = FALSE]
  IN
  /\ q # None /\ q.answer \in {"failed", "denied"}
  /\ IF q.answer = "denied"
     THEN Set(w, Stopped(r)) /\ ReleaseCapture(w)
     ELSE Set(w, r) /\ UNCHANGED locks
  /\ EndDelivery(w)
  /\ UNCHANGED <<session, drivers, points, store, late, recorded, rejected, stale>>

EndFlush(w) ==
  /\ Sending(w) /\ windows[w].batch = {}
  /\ Set(w, [windows[w] EXCEPT !.flushing = FALSE])
  /\ EndDelivery(w)
  /\ UNCHANGED <<session, drivers, points, store, locks, late,
                 recorded, rejected, stale>>

-----------------------------------------------------------------------------
\* Completing the trip: drain(), then the PATCH.

BeginCompletion(w) ==
  /\ Free(w)
  /\ Set(w, [Stopped(windows[w]) EXCEPT !.closing = "drain"])
  /\ ReleaseCapture(w)
  /\ UNCHANGED <<session, drivers, points, store, deliveryLock, late,
                 recorded, rejected, stale>>

\* Mutant of Quiet: a write that is under way is not waited for.
NotFlushing(w) == ~windows[w].flushing

\* A capture being committed and a running flush are waited for.
Quiet(w) == windows[w].busy = None /\ ~windows[w].flushing

\* The last flush; none when the phone is offline, pauses after a failure, or
\* another window delivers.
Drain(w) ==
  /\ windows[w].closing = "drain" /\ Quiet(w)
  /\ \/ /\ CanFlush(w)
        /\ TakeDelivery(w)
        /\ Set(w, [windows[w] EXCEPT !.closing = "drained", !.flushing = TRUE,
                                     !.batch = Batch(windows[w].member)])
     \/ /\ Set(w, [windows[w] EXCEPT !.closing = "drained"])
        /\ UNCHANGED deliveryLock
  /\ UNCHANGED <<session, drivers, points, store, locks, late,
                 recorded, rejected, stale>>

\* When the flush has ended, or its time is over, the queue is counted.
CountPending(w) ==
  /\ windows[w].closing = "drained"
  /\ Set(w, [windows[w] EXCEPT !.closing = "no",
       !.patch = IF Queue(windows[w].member) = {}
                THEN [trip |-> windows[w].trip, member |-> windows[w].member] ELSE None])
  /\ UNCHANGED <<session, drivers, points, store, locks, deliveryLock, late,
                 recorded, rejected, stale>>

\* Fifteen seconds were not enough, or the PATCH got no answer or a refusal.
GiveUp(w) ==
  /\ windows[w].closing # "no" \/ windows[w].patch # None
  /\ Set(w, [windows[w] EXCEPT !.closing = "no", !.patch = None])
  /\ UNCHANGED <<session, drivers, points, store, locks, deliveryLock, late,
                 recorded, rejected, stale>>

Completes(w, t) ==
  /\ windows[w].patch # None /\ windows[w].patch.trip = t
  /\ drivers[t] = session /\ session # None

CompleteTrip(w, t) ==
  /\ Completes(w, t)
  /\ drivers' = [drivers EXCEPT ![t] = None]
  /\ Set(w, [windows[w] EXCEPT !.patch = None])
  /\ UNCHANGED <<session, points, store, locks, deliveryLock, late,
                 recorded, rejected, stale>>

\* A dispatcher gives the trip to somebody else, or takes it from everybody.
Reassign(t, m) ==
  /\ drivers[t] \notin {None, m}
  /\ drivers' = [drivers EXCEPT ![t] = m]
  /\ UNCHANGED <<session, windows, points, store, locks, deliveryLock, late,
                 recorded, rejected, stale>>

Age(i) ==
  /\ i \in store \ stale
  /\ stale' = stale \cup {i}
  /\ UNCHANGED <<session, drivers, windows, points, store, locks, deliveryLock,
                 late, recorded, rejected>>

-----------------------------------------------------------------------------
Init ==
  /\ session = None
  /\ drivers \in [Trips -> Members]
  /\ windows = [w \in Windows |-> Blank]
  /\ points = [i \in Points |-> NoPoint]
  /\ store = {}
  /\ asks = [w \in Windows |-> NoAsks]
  /\ captureLock = None
  /\ deliveryLock = [m \in Members |-> None]
  /\ late = {}
  /\ recorded = [i \in Points |-> [rows |-> 0, as |-> {}]]
  /\ rejected = {}
  /\ stale = {}

Window(w) ==
  \/ CloseWindow(w) \/ (\E m \in Members, t \in Trips : Load(w, m, t))
  \/ Start(w) \/ GrantLock(w) \/ RefuseLock(w) \/ LockArrives(w) \/ LockReturns(w)
  \/ Stop(w) \/ SavePosition(w) \/ AddPoint(w)
  \/ Flush(w) \/ (\E i \in Points : DropStale(w, i) \/ Send(w, i))
  \/ Answer(w) \/ TimeOut(w)
  \/ Acknowledged(w) \/ Refused(w) \/ Failed(w) \/ EndFlush(w)
  \/ BeginCompletion(w) \/ Drain(w) \/ CountPending(w) \/ GiveUp(w)
  \/ (\E t \in Trips : CompleteTrip(w, t))

Next ==
  \/ \E m \in Members \cup {None} : SignIn(m)
  \/ \E w \in Windows : Window(w)
  \/ \E q \in late : LateRequest(q)
  \/ \E t \in Trips, m \in Members \cup {None} : Reassign(t, m)
  \/ \E i \in Points : Age(i)

Spec == Init /\ [][Next]_vars

\* The server's true answer arrives; Answer may also lose it.
Heard(w) == Answer(w) /\ windows'[w].request.answer # "failed"

\* The five-second timer, the runtime's own steps and the end of the pause; and
\* requests that are repeated for ever are answered some time.
Delivery(w) ==
  \/ Flush(w) \/ EndFlush(w)
  \/ (\E i \in Points : DropStale(w, i) \/ Send(w, i))
  \/ Acknowledged(w) \/ Refused(w) \/ Failed(w)

LiveSpec ==
  /\ Spec
  /\ \A w \in Windows : WF_vars(Delivery(w)) /\ SF_vars(Heard(w))

-----------------------------------------------------------------------------
\* Everything is of its type: only ids of points are stored, sent and refused, and
\* only windows hold locks (hooks/use-driver-gps.ts, lib/gps-queue.ts).
RuntimeType ==
  [member : Members \cup {None}, trip : Trips \cup {None},
   starting : BOOLEAN, watching : BOOLEAN, busy : Points \cup {None},
   flushing : BOOLEAN, batch : SUBSET Points,
   request : {None} \cup [point : Points, as : Members \cup {None},
                          answer : {"none", "stored", "rejected", "denied", "failed"}],
   closing : {"no", "drain", "drained"},
   patch : {None} \cup [trip : Trips \cup {None}, member : Members \cup {None}]]

LockStates == [of : Windows, stage : {"granted", "watch", "returned"}]

TypeOK ==
  /\ session \in Members \cup {None}
  /\ drivers \in [Trips -> Members \cup {None}]
  /\ windows \in [Windows -> RuntimeType]
  /\ points \in [Points -> [member : Members \cup {None}, trip : Trips \cup {None},
                            by : Windows \cup {None}]]
  /\ store \subseteq Points /\ rejected \subseteq Points /\ stale \subseteq Points
  /\ asks \in [Windows -> [live : Nat, gone : Nat]]
  /\ captureLock \in {None} \cup LockStates
  /\ deliveryLock \in [Members -> Windows \cup {None}]
  /\ late \subseteq [point : Points, as : Members \cup {None}, answer : {"none"}]
  /\ recorded \in [Points -> [rows : Nat, as : SUBSET (Members \cup {None})]]

Captured(i) == points[i] # NoPoint
Saving(i) == \E w \in Windows : windows[w].busy = i
Settled(i) == recorded[i].rows > 0 \/ i \in rejected

\* A point that was captured is never lost: until the server has it, or has refused
\* it for good, it stays on the phone, through reloads, crashes, lost answers,
\* changes of session and flushes of several windows (deliver, lib/gps-queue.ts).
NoPointLost ==
  \A i \in Points : Captured(i) => i \in store \/ Saving(i) \/ Settled(i)

\* Whatever is repeated, and whoever is signed in when it is, the server holds at
\* most one row of a point, under the membership that captured it (recordGPSPoint's
\* membership check and ON CONFLICT against the queue's at-least-once delivery).
ServerRecord ==
  \A i \in Points : /\ recorded[i].rows <= 1
                    /\ recorded[i].as \subseteq {points[i].member}

\* With Web Locks one window of the phone watches the position, and the lock never
\* stays with a watch that has ended, or that never began because the page was
\* stopped or changed its target while the lock was granted. No watch begins or goes
\* on while a trip is completed (start's callback, stop, drain and the clean-up).
OneWatcher ==
  WebLocks =>
    /\ \A w \in Windows : windows[w].watching <=> captureLock = Watched(w)
    /\ \A w \in Windows : windows[w].watching \/ windows[w].starting => Free(w)

\* When a window completes a trip, each point that this window captured for the trip
\* and for the same driver has reached the server or has been refused for good (drain before the PATCH in
\* changeTripStatus). Points of another window are not covered: drain() stops
\* only its own watch.
CompletionDelivers ==
  [][\A w \in Windows, t \in Trips : CompleteTrip(w, t) =>
       \A i \in Points :
         points[i] = [member |-> windows[w].patch.member, trip |-> t, by |-> w]
           => Settled(i)]_vars

\* While the driver who captured a point stays signed in and the screens that are
\* open stay open, the point leaves the phone in the end, whichever window delivers
\* (flush's timer, the retries and the delivery lock, also one whose window died).
Targets == [Windows -> {<<None, None>>} \cup Members \X Trips]
SignedIn(m, targets) ==
  /\ session = m
  /\ \A w \in Windows : <<windows[w].member, windows[w].trip>> = targets[w]
Waits(i, m) == i \in store /\ points[i].member = m

PointsLeave ==
  \A m \in Members, targets \in Targets :
    (\E w \in Windows : targets[w][1] = m) /\ <>[]SignedIn(m, targets)
    => \A i \in Points : []<>~Waits(i, m)
=============================================================================
