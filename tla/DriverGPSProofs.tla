--------------------------- MODULE DriverGPSProofs ---------------------------
(***************************************************************************)
(* Theorems of DriverGPS for any number of windows, drivers, trips and     *)
(* points, and whether or not the browser has Web Locks.                   *)
(*   GPSTypeCorrect     every reachable state is well formed;              *)
(*   PointsAreKept      a captured point is never lost;                    *)
(*   ServerKeepsOneRow  the server holds a point at most once, under the   *)
(*                      driver who captured it;                            *)
(*   CompletionIsSound  a window completes a trip only when its own points *)
(*                      of the trip are settled;                           *)
(*   OneWatcherHolds    one window watches, under the lock; no watch is     *)
(*                      begun for a page stopped or retargeted meanwhile.   *)
(* The first ones rest on two facts. An id that anything refers to (the store, a     *)
(* batch, a request, the server) belongs to a finished capture, so that an *)
(* abandoned write can only forget an id that nobody else has seen. And an *)
(* answer "stored" means that the server has the row.                      *)
(***************************************************************************)
EXTENDS DriverGPS, TLAPS

\* Anything but the window that writes it refers to id i.
Referenced(i) ==
  \/ i \in store
  \/ recorded[i].rows > 0 \/ recorded[i].as # {}
  \/ \E w \in Windows : i \in windows[w].batch
  \/ \E w \in Windows : windows[w].request # None /\ windows[w].request.point = i
  \/ \E q \in late : q.point = i

OnlyKnown == \A i \in Points : Referenced(i) => Captured(i) /\ ~Saving(i)

\* A window writes an id of its own, captured already.
OneWriter ==
  \A w \in Windows : windows[w].busy # None =>
    /\ Captured(windows[w].busy)
    /\ \A v \in Windows : windows[v].busy = windows[w].busy => v = w

\* What the server acknowledged, it has.
TrueAnswers ==
  \A w \in Windows :
    /\ windows[w].request # None
    /\ windows[w].request.answer = "stored"
    => recorded[windows[w].request.point].rows > 0

GPSInvariant ==
  /\ TypeOK
  /\ NoPointLost
  /\ ServerRecord
  /\ OnlyKnown
  /\ OneWriter
  /\ TrueAnswers

-----------------------------------------------------------------------------
\* Types.

\* Initially everything is typed.
LEMMA StartTyped == Init => TypeOK
  BY GPSAssumption DEF Init, TypeOK, RuntimeType, Blank, NoPoint, NoAsks

\* A step of one window changes that window's runtime and no other.
LEMMA WindowSet ==
  ASSUME TypeOK, NEW w \in Windows, NEW r \in RuntimeType, Set(w, r)
  PROVE  /\ windows' \in [Windows -> RuntimeType]
         /\ windows'[w] = r
         /\ \A v \in Windows : v # w => windows'[v] = windows[v]
  BY DEF TypeOK, Set

\* The fields of a runtime.
LEMMA RuntimeFields ==
  ASSUME TypeOK, NEW w \in Windows
  PROVE  /\ windows[w] \in RuntimeType
         /\ windows[w].member \in Members \cup {None}
         /\ windows[w].trip \in Trips \cup {None}
         /\ windows[w].busy \in Points \cup {None}
         /\ windows[w].batch \subseteq Points
         /\ windows[w].request # None =>
              /\ windows[w].request \in
                   [point : Points, as : Members \cup {None},
                    answer : {"none", "stored", "rejected", "denied", "failed"}]
              /\ windows[w].request.point \in Points
              /\ windows[w].request.as \in Members \cup {None}
  BY DEF TypeOK, RuntimeType

\* A batch is taken from the stored points.
LEMMA BatchTyped == ASSUME NEW m PROVE Batch(m) \subseteq store
  BY DEF Batch, Queue

\* The browser's locks are held by windows.
LEMMA LocksTyped ==
  ASSUME TypeOK, NEW w \in Windows
  PROVE  /\ ReleaseCapture(w) => captureLock' \in {None} \cup LockStates /\ asks' = asks
         /\ Orphan(w) =>
              /\ captureLock' \in {None} \cup LockStates
              /\ asks' \in [Windows -> [live : Nat, gone : Nat]]
         /\ TakeDelivery(w) => deliveryLock' \in [Members -> Windows \cup {None}]
         /\ EndDelivery(w) => deliveryLock' \in [Members -> Windows \cup {None}]
<1>1. Watched(w) \in LockStates /\ Returned(w) \in LockStates
  BY DEF Watched, Returned, LockStates
<1>2. ReleaseCapture(w) => captureLock' \in {None} \cup LockStates /\ asks' = asks
  BY <1>1 DEF TypeOK, ReleaseCapture
<1>3. ASSUME Orphan(w)
      PROVE  /\ captureLock' \in {None} \cup LockStates
             /\ asks' \in [Windows -> [live : Nat, gone : Nat]]
  <2>1. captureLock' \in {None} \cup LockStates
    BY <1>1, <1>3 DEF TypeOK, Orphan
  <2>2. [live |-> 0, gone |-> asks[w].live + asks[w].gone] \in [live : Nat, gone : Nat]
    BY DEF TypeOK
  <2>3. asks' = [asks EXCEPT ![w] = [live |-> 0, gone |-> asks[w].live + asks[w].gone]]
    BY <1>3 DEF Orphan
  <2> QED
    BY <2>1, <2>2, <2>3 DEF TypeOK
<1>4. /\ TakeDelivery(w) => deliveryLock' \in [Members -> Windows \cup {None}]
      /\ EndDelivery(w) => deliveryLock' \in [Members -> Windows \cup {None}]
  BY DEF TypeOK, Released, TakeDelivery, EndDelivery
<1> QED
  BY <1>2, <1>3, <1>4

\* The steps of the capture lock: what they leave alone, and what they make of the
\* window's runtime (start and its callback).
LockMoves(w) ==
  Start(w) \/ GrantLock(w) \/ RefuseLock(w) \/ LockArrives(w) \/ LockReturns(w)

Moved(r, n) ==
  \/ n = r
  \/ n = [r EXCEPT !.starting = TRUE]
  \/ n = [r EXCEPT !.starting = FALSE]
  \/ n = [r EXCEPT !.watching = TRUE]
  \/ n = [r EXCEPT !.watching = TRUE, !.starting = FALSE]

LEMMA LockMovesTyped ==
  ASSUME TypeOK, NEW w \in Windows, LockMoves(w)
  PROVE  /\ UNCHANGED <<session, drivers, points, store, deliveryLock, late, recorded,
                         rejected, stale>>
         /\ \E n : Set(w, n) /\ Moved(windows[w], n)
         /\ asks' \in [Windows -> [live : Nat, gone : Nat]]
         /\ captureLock' \in {None} \cup LockStates
<1> DEFINE r == windows[w]
<1>1. UNCHANGED <<session, drivers, points, store, deliveryLock, late, recorded,
                  rejected, stale>>
  BY DEF LockMoves, Start, GrantLock, RefuseLock, LockArrives, LockReturns
<1>2. \E n : Set(w, n) /\ Moved(r, n)
  <2>1. \/ Set(w, [r EXCEPT !.starting = TRUE])
        \/ Set(w, [r EXCEPT !.starting = FALSE])
        \/ Set(w, [r EXCEPT !.watching = TRUE])
        \/ Set(w, [r EXCEPT !.watching = TRUE, !.starting = FALSE])
        \/ UNCHANGED windows
    BY DEF LockMoves, Start, GrantLock, RefuseLock, LockArrives, LockReturns
  <2>2. UNCHANGED windows => Set(w, r)
    BY DEF Set, TypeOK
  <2> QED
    BY <2>1, <2>2 DEF Moved
<1>3. asks' \in [Windows -> [live : Nat, gone : Nat]]
  <2> DEFINE a == asks[w]
  <2>1. a \in [live : Nat, gone : Nat]
    BY DEF TypeOK
  <2>2. \/ UNCHANGED asks
        \/ asks' = [asks EXCEPT ![w] = [a EXCEPT !.live = a.live + 1]]
        \/ a.live > 0 /\ asks' = [asks EXCEPT ![w] = [a EXCEPT !.live = a.live - 1]]
        \/ a.gone > 0 /\ asks' = [asks EXCEPT ![w] = [a EXCEPT !.gone = a.gone - 1]]
    BY DEF LockMoves, Start, GrantLock, RefuseLock, LockArrives, LockReturns
  <2>3. /\ [a EXCEPT !.live = a.live + 1] \in [live : Nat, gone : Nat]
        /\ a.live > 0 => [a EXCEPT !.live = a.live - 1] \in [live : Nat, gone : Nat]
        /\ a.gone > 0 => [a EXCEPT !.gone = a.gone - 1] \in [live : Nat, gone : Nat]
    BY <2>1
  <2> HIDE DEF a
  <2> QED
    BY <2>2, <2>3 DEF TypeOK
<1>4. captureLock' \in {None} \cup LockStates
  <2>1. {Watched(w), Returned(w), Granted(w)} \subseteq LockStates
    BY DEF Watched, Returned, Granted, LockStates
  <2>2. captureLock' \in {captureLock, None, Watched(w), Returned(w), Granted(w)}
    BY DEF LockMoves, Start, GrantLock, RefuseLock, LockArrives, LockReturns
  <2> QED
    BY <2>1, <2>2 DEF TypeOK
<1> QED
  BY <1>1, <1>2, <1>3, <1>4

\* A closed window leaves typed points, locks and late answers.
LEMMA DisposeTyped ==
  ASSUME TypeOK, NEW w \in Windows, Dispose(w)
  PROVE  /\ late' \subseteq [point : Points, as : Members \cup {None}, answer : {"none"}]
         /\ store' \subseteq Points
         /\ points' \in [Points -> [member : Members \cup {None}, trip : Trips \cup {None},
                                    by : Windows \cup {None}]]
         /\ deliveryLock' \in [Members -> Windows \cup {None}]
<1>1. late' \subseteq [point : Points, as : Members \cup {None}, answer : {"none"}]
  BY RuntimeFields DEF Dispose, Abandon, TypeOK
<1>2. store' \subseteq Points
  BY RuntimeFields DEF Dispose, TypeOK
<1>3. points' \in [Points -> [member : Members \cup {None}, trip : Trips \cup {None},
                              by : Windows \cup {None}]]
  BY RuntimeFields DEF Dispose, TypeOK, NoPoint
<1>4. deliveryLock' \in [Members -> Windows \cup {None}]
  BY DEF Dispose, TypeOK, Released
<1> QED
  BY <1>1, <1>2, <1>3, <1>4

\* The row that an accepted request leaves behind.
LEMMA InsertTyped ==
  ASSUME TypeOK, NEW i \in Points, NEW m \in Members \cup {None}, Insert(i, m)
  PROVE  /\ recorded' \in [Points -> [rows : Nat, as : SUBSET (Members \cup {None})]]
         /\ \A j \in Points : j # i => recorded'[j] = recorded[j]
         /\ recorded'[i] = IF recorded[i].rows > 0 THEN recorded[i]
                           ELSE [rows |-> 1, as |-> {m}]
  BY DEF Insert, TypeOK

\* The parts of TypeOK that a window's step may change besides the windows.
OthersTyped ==
  /\ session \in Members \cup {None}
  /\ drivers \in [Trips -> Members \cup {None}]
  /\ points \in [Points -> [member : Members \cup {None}, trip : Trips \cup {None},
                            by : Windows \cup {None}]]
  /\ store \subseteq Points /\ rejected \subseteq Points /\ stale \subseteq Points
  /\ asks \in [Windows -> [live : Nat, gone : Nat]]
  /\ captureLock \in {None} \cup LockStates
  /\ deliveryLock \in [Members -> Windows \cup {None}]
  /\ late \subseteq [point : Points, as : Members \cup {None}, answer : {"none"}]
  /\ recorded \in [Points -> [rows : Nat, as : SUBSET (Members \cup {None})]]

\* Every step of a window keeps the types.
LEMMA TypeOfWindowStep ==
  ASSUME TypeOK, NEW w \in Windows, Window(w)
  PROVE  TypeOK'
<1> DEFINE r == windows[w]
<1>t. OthersTyped /\ r \in RuntimeType
  BY DEF TypeOK, OthersTyped
<1>q. SUFFICES OthersTyped' /\ windows' \in [Windows -> RuntimeType]
  BY DEF TypeOK, OthersTyped
<1>1. CASE CloseWindow(w)
  <2>1. \E s \in RuntimeType : Set(w, s)
    BY <1>1, <1>t DEF CloseWindow, RuntimeType, OthersTyped, Blank
  <2>2. OthersTyped'
    <3>1. /\ asks' \in [Windows -> [live : Nat, gone : Nat]]
          /\ captureLock' \in {None} \cup LockStates
      BY <1>1, <1>t DEF CloseWindow, OthersTyped, NoAsks
    <3> QED
      BY <1>1, <1>t, <3>1, DisposeTyped DEF CloseWindow, OthersTyped
  <2> QED
    BY <2>1, <2>2, WindowSet
<1>2. CASE \E m \in Members, t \in Trips : Load(w, m, t)
  <2>1. PICK m \in Members, t \in Trips : Load(w, m, t)
    BY <1>2
  <2>2. Runtime(m, t, r.patch) \in RuntimeType
    BY <1>t DEF RuntimeType, Runtime, Blank
  <2>3. OthersTyped'
    BY <2>1, <1>t, DisposeTyped, LocksTyped DEF Load, OthersTyped
  <2> QED
    BY <2>1, <2>2, <2>3, WindowSet DEF Load
<1>3. CASE LockMoves(w)
  <2>1. PICK n : Set(w, n) /\ Moved(r, n)
    BY <1>3, LockMovesTyped
  <2>2. n \in RuntimeType
    BY <2>1, <1>t DEF Moved, RuntimeType
  <2>3. OthersTyped'
    BY <1>3, <1>t, LockMovesTyped DEF OthersTyped
  <2> QED
    BY <2>1, <2>2, <2>3, WindowSet
<1>4. CASE Stop(w)
  <2>1. \E s \in RuntimeType : Set(w, s)
    <3>1. Stopped(r) \in RuntimeType
      BY <1>t DEF RuntimeType, Stopped
    <3> QED
      BY <1>4, <3>1 DEF Stop
  <2>2. OthersTyped'
    BY <1>4, <1>t, LocksTyped DEF Stop, OthersTyped
  <2> QED
    BY <2>1, <2>2, WindowSet
<1>5. CASE SavePosition(w)
  <2>1. \E s \in RuntimeType : Set(w, s)
    <3>1. PICK i \in Points : Set(w, [r EXCEPT !.busy = i])
      BY <1>5 DEF SavePosition, Oldest
    <3>2. [r EXCEPT !.busy = i] \in RuntimeType
      BY <1>t DEF RuntimeType
    <3> QED
      BY <3>1, <3>2
  <2>2. OthersTyped'
    BY <1>5, <1>t, RuntimeFields DEF SavePosition, Oldest, Active, OthersTyped, locks
  <2> QED
    BY <2>1, <2>2, WindowSet
<1>6. CASE AddPoint(w)
  <2>1. \E s \in RuntimeType : Set(w, s)
    BY <1>6, <1>t DEF AddPoint, RuntimeType, OthersTyped, Stopped
  <2>2. store' \subseteq Points
    BY <1>6, <1>t, RuntimeFields DEF AddPoint, OthersTyped
  <2>3. captureLock' \in {None} \cup LockStates /\ asks' = asks
    BY <1>6, <1>t, LocksTyped DEF AddPoint, OthersTyped, locks
  <2>4. OthersTyped'
    BY <1>6, <1>t, <2>2, <2>3 DEF AddPoint, NoPoint, OthersTyped
  <2> QED
    BY <2>1, <2>4, WindowSet
<1>7. CASE Flush(w)
  <2>1. \E s \in RuntimeType : Set(w, s)
    BY <1>7, <1>t, BatchTyped DEF Flush, RuntimeType, OthersTyped
  <2>2. OthersTyped'
    BY <1>7, <1>t, LocksTyped DEF Flush, OthersTyped, locks
  <2> QED
    BY <2>1, <2>2, WindowSet
<1>8. CASE \E i \in Points : DropStale(w, i) \/ Send(w, i)
  <2>1. \E s \in RuntimeType : Set(w, s)
    <3>1. PICK i \in Points : DropStale(w, i) \/ Send(w, i)
      BY <1>8
    <3>2. CASE DropStale(w, i)
      BY ZenonT(60), <1>t, <3>2 DEF DropStale, RuntimeType, OthersTyped, Stopped
    <3>3. CASE Send(w, i)
      BY ZenonT(60), <1>t, <3>3 DEF Send, RuntimeType, OthersTyped, Stopped, Request
    <3> QED
      BY <3>1, <3>2, <3>3
  <2>2. OthersTyped'
    BY <1>8, <1>t, LocksTyped DEF DropStale, Send, OthersTyped, locks
  <2> QED
    BY <2>1, <2>2, WindowSet
<1>9. CASE Answer(w)
  <2>a. PICK a \in {"stored", "rejected", "denied", "failed"} :
          Set(w, [r EXCEPT !.request.answer = a])
    BY <1>9 DEF Answer, Verdict
  <2>b. r.request # None
    BY <1>9 DEF Answer
  <2>c. [r EXCEPT !.request.answer = a] \in RuntimeType
    BY <1>t, <2>b DEF RuntimeType
  <2>1. \E s \in RuntimeType : Set(w, s)
    BY <2>a, <2>c
  <2>2. /\ r.request # None
        /\ Insert(r.request.point, r.request.as) \/ UNCHANGED recorded
    BY <1>9 DEF Answer
  <2>3. recorded' \in [Points -> [rows : Nat, as : SUBSET (Members \cup {None})]]
    BY <1>t, <2>2, InsertTyped, RuntimeFields DEF OthersTyped
  <2>4. OthersTyped'
    BY <1>9, <1>t, <2>3 DEF Answer, OthersTyped, locks
  <2> QED
    BY <2>1, <2>4, WindowSet
<1>10. CASE TimeOut(w)
  <2>1. \E s \in RuntimeType : Set(w, s)
    BY <1>10, <1>t DEF TimeOut, RuntimeType, OthersTyped
  <2>2. OthersTyped'
    BY <1>10, <1>t, RuntimeFields DEF TimeOut, Abandon, OthersTyped, locks
  <2> QED
    BY <2>1, <2>2, WindowSet
<1>11. CASE Acknowledged(w)
  <2>1. \E s \in RuntimeType : Set(w, s)
    BY <1>11, <1>t DEF Acknowledged, RuntimeType, OthersTyped
  <2>2. OthersTyped'
    BY <1>11, <1>t DEF Acknowledged, Delivered, OthersTyped, locks
  <2> QED
    BY <2>1, <2>2, WindowSet
<1>12. CASE Refused(w)
  <2>1. \E s \in RuntimeType : Set(w, s)
    BY <1>12, <1>t DEF Refused, RuntimeType, OthersTyped, Stopped
  <2>2. OthersTyped'
    BY <1>12, <1>t, LocksTyped, RuntimeFields DEF Refused, Refuse, OthersTyped, locks
  <2> QED
    BY <2>1, <2>2, WindowSet
<1>13. CASE Failed(w)
  <2>1. \E s \in RuntimeType : Set(w, s)
    BY ZenonT(60), <1>13, <1>t DEF Failed, RuntimeType, Stopped
  <2>2. OthersTyped'
    BY <1>13, <1>t, LocksTyped DEF Failed, OthersTyped, locks
  <2> QED
    BY <2>1, <2>2, WindowSet
<1>14. CASE EndFlush(w)
  <2>1. \E s \in RuntimeType : Set(w, s)
    BY <1>14, <1>t DEF EndFlush, RuntimeType, OthersTyped
  <2>2. OthersTyped'
    BY <1>14, <1>t, LocksTyped DEF EndFlush, OthersTyped, locks
  <2> QED
    BY <2>1, <2>2, WindowSet
<1>15. CASE BeginCompletion(w)
  <2>1. \E s \in RuntimeType : Set(w, s)
    BY <1>15, <1>t DEF BeginCompletion, RuntimeType, OthersTyped, Stopped
  <2>2. OthersTyped'
    BY <1>15, <1>t, LocksTyped DEF BeginCompletion, OthersTyped
  <2> QED
    BY <2>1, <2>2, WindowSet
<1>16. CASE Drain(w)
  <2>1. \E s \in RuntimeType : Set(w, s)
    BY <1>16, <1>t, BatchTyped DEF Drain, RuntimeType, OthersTyped
  <2>2. OthersTyped'
    BY <1>16, <1>t, LocksTyped DEF Drain, OthersTyped, locks
  <2> QED
    BY <2>1, <2>2, WindowSet
<1>17. CASE CountPending(w)
  <2>1. \E s \in RuntimeType : Set(w, s)
    BY ZenonT(60), <1>17, <1>t DEF CountPending, RuntimeType
  <2>2. OthersTyped'
    BY <1>17, <1>t DEF CountPending, OthersTyped, locks
  <2> QED
    BY <2>1, <2>2, WindowSet
<1>18. CASE GiveUp(w)
  <2>1. \E s \in RuntimeType : Set(w, s)
    BY <1>18, <1>t DEF GiveUp, RuntimeType, OthersTyped
  <2>2. OthersTyped'
    BY <1>18, <1>t DEF GiveUp, OthersTyped, locks
  <2> QED
    BY <2>1, <2>2, WindowSet
<1>19. CASE \E t \in Trips : CompleteTrip(w, t)
  <2>1. \E s \in RuntimeType : Set(w, s)
    BY <1>19, <1>t DEF CompleteTrip, RuntimeType, OthersTyped
  <2>2. OthersTyped'
    BY <1>19, <1>t DEF CompleteTrip, Completes, OthersTyped, locks
  <2> QED
    BY <2>1, <2>2, WindowSet
<1> QED
  BY <1>1, <1>2, <1>3, <1>4, <1>5, <1>6, <1>7, <1>8, <1>9, <1>10, <1>11, <1>12, <1>13, <1>14, <1>15, <1>16, <1>17, <1>18, <1>19 DEF Window, LockMoves

\* Every step keeps the types.
LEMMA TypeStep == TypeOK /\ [Next]_vars => TypeOK'
<1> SUFFICES ASSUME TypeOK, [Next]_vars PROVE TypeOK'
  OBVIOUS
<1>1. ASSUME NEW m \in Members \cup {None}, SignIn(m) PROVE TypeOK'
  BY <1>1 DEF SignIn, TypeOK, locks
<1>2. ASSUME NEW q \in late, LateRequest(q) PROVE TypeOK'
  <2>1. q.point \in Points /\ q.as \in Members \cup {None}
    BY DEF TypeOK
  <2>2. recorded' \in [Points -> [rows : Nat, as : SUBSET (Members \cup {None})]]
    BY <1>2, <2>1, InsertTyped DEF LateRequest, TypeOK
  <2> QED
    BY <1>2, <2>2 DEF LateRequest, TypeOK, locks
<1>3. ASSUME NEW t \in Trips, NEW m \in Members \cup {None}, Reassign(t, m) PROVE TypeOK'
  BY <1>3 DEF Reassign, TypeOK, locks
<1>4. ASSUME NEW i \in Points, Age(i) PROVE TypeOK'
  BY <1>4 DEF Age, TypeOK, locks
<1>5. CASE UNCHANGED vars
  BY <1>5 DEF vars, TypeOK, locks
<1> QED
  BY <1>1, <1>2, <1>3, <1>4, <1>5, TypeOfWindowStep DEF Next

\* Every reachable state is well formed (TypeOK of DriverGPS).
THEOREM GPSTypeCorrect == Spec => []TypeOK
  BY StartTyped, TypeStep, PTL DEF Spec

-----------------------------------------------------------------------------
\* The invariant.

\* Initially nothing is stored or on its way.
LEMMA StartSafe == Init => GPSInvariant
<1> SUFFICES ASSUME Init PROVE GPSInvariant
  OBVIOUS
<1>1. TypeOK
  BY StartTyped
<1>2. NoPointLost /\ ServerRecord
  BY DEF Init, NoPointLost, ServerRecord, Captured
<1>3. OnlyKnown
  BY GPSAssumption DEF Init, OnlyKnown, Referenced, Blank
<1>4. OneWriter /\ TrueAnswers
  BY DEF Init, OneWriter, TrueAnswers, Blank
<1> QED
  BY <1>1, <1>2, <1>3, <1>4 DEF GPSInvariant

\* A step that begins and ends no capture keeps the invariant if it refers to no new
\* id and takes from the store only what is settled.
LEMMA Preserved ==
  ASSUME GPSInvariant, TypeOK', UNCHANGED points,
         \A w \in Windows : windows'[w].busy = windows[w].busy,
         \A i \in Points : Referenced(i)' => Referenced(i),
         \A i \in Points : i \in store => i \in store' \/ Settled(i)',
         \A i \in Points : Settled(i) => Settled(i)',
         ServerRecord', TrueAnswers'
  PROVE  GPSInvariant'
<1>1. \A i \in Points : (Saving(i) <=> Saving(i)') /\ (Captured(i) <=> Captured(i)')
  BY DEF Saving, Captured
<1>2. NoPointLost'
  BY <1>1 DEF GPSInvariant, NoPointLost
<1>3. OnlyKnown'
  BY <1>1 DEF GPSInvariant, OnlyKnown
<1>4. OneWriter'
  BY <1>1 DEF GPSInvariant, OneWriter, Captured
<1> QED
  BY <1>2, <1>3, <1>4 DEF GPSInvariant

\* When the server accepts a request for a known point, it holds that point once and
\* under its own driver.
LEMMA Accepted ==
  ASSUME GPSInvariant, UNCHANGED points,
         NEW i \in Points, NEW m \in Members \cup {None},
         Verdict(i, m) = "stored", Insert(i, m)
  PROVE  /\ ServerRecord'
         /\ recorded'[i].rows > 0
         /\ \A j \in Points : recorded[j].rows > 0 => recorded'[j].rows > 0
         /\ \A j \in Points :
              j # i /\ (recorded'[j].rows > 0 \/ recorded'[j].as # {})
                => recorded[j].rows > 0 \/ recorded[j].as # {}
<1>1. points[i].member = m
  BY DEF Verdict, SameDriver
<1>2. /\ \A j \in Points : j # i => recorded'[j] = recorded[j]
      /\ recorded'[i] = IF recorded[i].rows > 0 THEN recorded[i]
                        ELSE [rows |-> 1, as |-> {m}]
  BY InsertTyped DEF GPSInvariant
<1>3. recorded \in [Points -> [rows : Nat, as : SUBSET (Members \cup {None})]]
  BY DEF GPSInvariant, TypeOK
<1> QED
  BY <1>1, <1>2, <1>3 DEF GPSInvariant, ServerRecord

\* The steps of one window that only move control, drop points that are settled, or
\* send and hear about points.
LEMMA PlainStep ==
  ASSUME GPSInvariant, TypeOK', NEW w \in Windows,
         \/ LockMoves(w) \/ Stop(w) \/ Flush(w) \/ EndFlush(w) \/ Failed(w)
         \/ BeginCompletion(w) \/ Drain(w) \/ CountPending(w) \/ GiveUp(w)
         \/ \E t \in Trips : CompleteTrip(w, t)
  PROVE  GPSInvariant'
<1> DEFINE r == windows[w]
           s == windows'[w]
<1>1. UNCHANGED <<points, store, late, recorded, rejected>>
  BY LockMovesTyped DEF GPSInvariant, Stop, Flush, EndFlush, Failed, BeginCompletion,
     Drain, CountPending, GiveUp, CompleteTrip
<1>r. r \in RuntimeType /\ TypeOK
  BY RuntimeFields DEF GPSInvariant
<1> DEFINE Plain(n) == /\ n \in RuntimeType
                       /\ n.busy = r.busy
                       /\ n.batch \subseteq r.batch \cup store
                       /\ n.request \in {None, r.request}
<1>2. \E n : Set(w, n) /\ Plain(n)
  <2>1. CASE LockMoves(w)
    <3>1. PICK n : Set(w, n) /\ Moved(r, n)
      BY <1>r, <2>1, LockMovesTyped
    <3>2. Plain(n)
      BY <1>r, <3>1 DEF Moved, RuntimeType
    <3> QED
      BY <3>1, <3>2
  <2>2. CASE Stop(w)
    <3> DEFINE one == [r EXCEPT !.watching = FALSE, !.starting = FALSE]
    <3>1. Set(w, one)
      BY <2>2 DEF Stop, Stopped
    <3>2. Plain(one)
      BY <1>r DEF RuntimeType
    <3> HIDE DEF Plain, one
    <3> QED
      BY <3>1, <3>2
  <2>3. CASE Flush(w)
    <3> DEFINE one == [r EXCEPT !.flushing = TRUE, !.batch = Batch(r.member)]
    <3>1. Set(w, one)
      BY <2>3 DEF Flush
    <3>2. Plain(one)
      BY <1>r, BatchTyped DEF RuntimeType, TypeOK
    <3> HIDE DEF Plain, one
    <3> QED
      BY <3>1, <3>2
  <2>4. CASE EndFlush(w)
    <3> DEFINE one == [r EXCEPT !.flushing = FALSE]
    <3>1. Set(w, one)
      BY <2>4 DEF EndFlush
    <3>2. Plain(one)
      BY <1>r DEF RuntimeType
    <3> HIDE DEF Plain, one
    <3> QED
      BY <3>1, <3>2
  <2>5. CASE Failed(w)
    <3> DEFINE one == [r EXCEPT !.request = None,
                              !.batch = {},
                              !.flushing = FALSE]
               two == [[r EXCEPT !.request = None,
                              !.batch = {},
                              !.flushing = FALSE] EXCEPT !.watching = FALSE, !.starting = FALSE]
    <3>1. Set(w, one) \/ Set(w, two)
      BY <2>5 DEF Failed, Stopped
    <3>2. Plain(one) /\ Plain(two)
      BY <1>r DEF RuntimeType
    <3> HIDE DEF Plain, one, two
    <3> QED
      BY <3>1, <3>2
  <2>6. CASE BeginCompletion(w)
    <3> DEFINE one == [[r EXCEPT !.watching = FALSE, !.starting = FALSE] EXCEPT !.closing = "drain"]
    <3>1. Set(w, one)
      BY <2>6 DEF BeginCompletion, Stopped
    <3>2. Plain(one)
      BY <1>r DEF RuntimeType
    <3> HIDE DEF Plain, one
    <3> QED
      BY <3>1, <3>2
  <2>7. CASE Drain(w)
    <3> DEFINE one == [r EXCEPT !.closing = "drained",
                              !.flushing = TRUE,
                              !.batch = Batch(r.member)]
               two == [r EXCEPT !.closing = "drained"]
    <3>1. Set(w, one) \/ Set(w, two)
      BY <2>7 DEF Drain
    <3>2. Plain(one) /\ Plain(two)
      BY ZenonT(60), <1>r, BatchTyped DEF RuntimeType, TypeOK
    <3> HIDE DEF Plain, one, two
    <3> QED
      BY <3>1, <3>2
  <2>8. CASE CountPending(w)
    <3> DEFINE one == [r EXCEPT !.closing = "no",
                              !.patch = IF Queue(r.member) = {} THEN [trip |-> r.trip, member |-> r.member] ELSE None]
    <3>1. Set(w, one)
      BY <2>8 DEF CountPending
    <3>2. Plain(one)
      BY ZenonT(60), <1>r DEF RuntimeType
    <3> HIDE DEF Plain, one
    <3> QED
      BY <3>1, <3>2
  <2>9. CASE GiveUp(w)
    <3> DEFINE one == [r EXCEPT !.closing = "no", !.patch = None]
    <3>1. Set(w, one)
      BY <2>9 DEF GiveUp
    <3>2. Plain(one)
      BY <1>r DEF RuntimeType
    <3> HIDE DEF Plain, one
    <3> QED
      BY <3>1, <3>2
  <2>10. CASE \E t \in Trips : CompleteTrip(w, t)
    <3> DEFINE one == [r EXCEPT !.patch = None]
    <3>1. Set(w, one)
      BY <2>10 DEF CompleteTrip
    <3>2. Plain(one)
      BY <1>r DEF RuntimeType
    <3> HIDE DEF Plain, one
    <3> QED
      BY <3>1, <3>2
  <2> QED
    BY <2>1, <2>2, <2>3, <2>4, <2>5, <2>6, <2>7, <2>8, <2>9, <2>10
<1>w. /\ \A v \in Windows : v # w => windows'[v] = windows[v]
      /\ s.busy = r.busy
      /\ s.batch \subseteq r.batch \cup store
      /\ s.request \in {None, r.request}
  BY <1>2, <1>r, WindowSet
<1>3. \A i \in Points : Referenced(i)' => Referenced(i)
  BY <1>1, <1>w DEF Referenced
<1>4. \A i \in Points : Settled(i) => Settled(i)'
  BY <1>1 DEF Settled
<1>5. ServerRecord' /\ TrueAnswers'
  BY <1>1, <1>w DEF GPSInvariant, ServerRecord, TrueAnswers
<1>6. \A v \in Windows : windows'[v].busy = windows[v].busy
  BY <1>w
<1> QED
  BY <1>1, <1>3, <1>4, <1>5, <1>6, Preserved

\* A window sends a point of its batch, or drops one that is too old.
LEMMA SendStep ==
  ASSUME GPSInvariant, TypeOK', NEW w \in Windows, NEW i \in Points,
         DropStale(w, i) \/ Send(w, i)
  PROVE  GPSInvariant'
<1> DEFINE r == windows[w]
           s == windows'[w]
<1>r. r \in RuntimeType /\ TypeOK
  BY RuntimeFields DEF GPSInvariant
<1>1. i \in r.batch
  BY DEF DropStale, Send, Oldest
<1>2. CASE Send(w, i)
  <2> DEFINE one == [r EXCEPT !.request = Request(i)]
  <2>1. Set(w, one) /\ UNCHANGED <<points, store, late, recorded, rejected>>
    BY <1>2 DEF Send
  <2>2. /\ one \in RuntimeType /\ one.busy = r.busy /\ one.batch = r.batch
        /\ one.request.point = i /\ one.request.answer = "none"
    BY ZenonT(60), <1>r DEF RuntimeType, Request, TypeOK
  <2> HIDE DEF one
  <2>3. s = one /\ \A v \in Windows : v # w => windows'[v] = windows[v]
    BY <1>r, <2>1, <2>2, WindowSet
  <2>4. \A j \in Points : Referenced(j)' => Referenced(j)
    BY <1>1, <2>1, <2>2, <2>3 DEF Referenced
  <2>5. ServerRecord' /\ TrueAnswers'
    BY <2>1, <2>2, <2>3 DEF GPSInvariant, ServerRecord, TrueAnswers
  <2>6. \A j \in Points : Settled(j) => Settled(j)'
    BY <2>1 DEF Settled
  <2> QED
    BY <2>1, <2>2, <2>3, <2>4, <2>5, <2>6, Preserved
<1>3. CASE DropStale(w, i)
  <2> DEFINE one == [r EXCEPT !.batch = @ \ {i}]
             two == [one EXCEPT !.watching = FALSE, !.starting = FALSE]
             Plain(n) == /\ n \in RuntimeType /\ n.busy = r.busy
                         /\ n.batch \subseteq r.batch /\ n.request = r.request
  <2>1. /\ Set(w, one) \/ Set(w, two)
        /\ store' = store \ {i} /\ rejected' = rejected \cup {i}
        /\ UNCHANGED <<points, late, recorded>>
    BY <1>3 DEF DropStale, Stopped
  <2>2. Plain(one) /\ Plain(two)
    BY ZenonT(60), <1>r DEF RuntimeType
  <2> HIDE DEF one, two
  <2>3. Plain(s) /\ \A v \in Windows : v # w => windows'[v] = windows[v]
    BY <1>r, <2>1, <2>2, WindowSet
  <2>4. \A j \in Points : Referenced(j)' => Referenced(j)
    BY <2>1, <2>3 DEF Referenced
  <2>5. ServerRecord' /\ TrueAnswers'
    BY <2>1, <2>3 DEF GPSInvariant, ServerRecord, TrueAnswers
  <2>6. \A j \in Points : /\ Settled(j) => Settled(j)'
                          /\ j \in store => j \in store' \/ Settled(j)'
    BY <2>1 DEF Settled
  <2> QED
    BY <2>1, <2>3, <2>4, <2>5, <2>6, Preserved
<1> QED
  BY <1>2, <1>3

\* The server answers, or the answer does not come.
LEMMA AnswerStep ==
  ASSUME GPSInvariant, TypeOK', NEW w \in Windows, Answer(w) \/ TimeOut(w)
  PROVE  GPSInvariant'
<1> DEFINE r == windows[w]
           s == windows'[w]
           q == r.request
           i == r.request.point
<1>r. r \in RuntimeType /\ TypeOK
  BY RuntimeFields DEF GPSInvariant
<1>q. q # None /\ i \in Points /\ q.as \in Members \cup {None}
  BY <1>r, RuntimeFields DEF Answer, TimeOut
<1>1. CASE Answer(w)
  <2> DEFINE v == Verdict(i, q.as)
             one(a) == [r EXCEPT !.request.answer = a]
  <2>1. /\ IF v = "stored" THEN Insert(i, q.as) ELSE UNCHANGED recorded
        /\ UNCHANGED <<points, store, late, rejected>>
    BY <1>1 DEF Answer
  <2>2. PICK a \in {v, "failed"} : Set(w, one(a))
    BY <1>1 DEF Answer
  <2>3. a \in {"stored", "rejected", "denied", "failed"} /\ (a = "stored" => v = "stored")
    BY DEF Verdict
  <2>4. /\ one(a) \in RuntimeType /\ one(a).busy = r.busy /\ one(a).batch = r.batch
        /\ one(a).request.point = i /\ one(a).request.answer = a
    BY <1>r, <1>q, <2>3 DEF RuntimeType
  <2> HIDE DEF one
  <2>5. s = one(a) /\ \A x \in Windows : x # w => windows'[x] = windows[x]
    BY <1>r, <2>2, <2>4, WindowSet
  <2>6. CASE v = "stored"
    <3>1. /\ ServerRecord' /\ recorded'[i].rows > 0
          /\ \A j \in Points : recorded[j].rows > 0 => recorded'[j].rows > 0
          /\ \A j \in Points : j # i /\ (recorded'[j].rows > 0 \/ recorded'[j].as # {})
                                 => recorded[j].rows > 0 \/ recorded[j].as # {}
      BY <1>q, <2>1, <2>6, Accepted
    <3>2. \A j \in Points : Referenced(j)' => Referenced(j)
      BY <1>q, <2>1, <2>4, <2>5, <3>1 DEF Referenced
    <3>3. TrueAnswers'
      BY <1>r, <2>4, <2>5, <3>1, RuntimeFields DEF GPSInvariant, TrueAnswers
    <3>4. \A j \in Points : Settled(j) => Settled(j)'
      BY <2>1, <3>1 DEF Settled
    <3> QED
      BY <2>1, <2>4, <2>5, <3>1, <3>2, <3>3, <3>4, Preserved
  <2>7. CASE v # "stored"
    <3>1. UNCHANGED recorded
      BY <2>1, <2>7
    <3>2. \A j \in Points : Referenced(j)' => Referenced(j)
      BY <1>q, <2>1, <2>4, <2>5, <3>1 DEF Referenced
    <3>3. ServerRecord' /\ TrueAnswers'
      BY <2>1, <2>3, <2>4, <2>5, <2>7, <3>1 DEF GPSInvariant, ServerRecord, TrueAnswers
    <3>4. \A j \in Points : Settled(j) => Settled(j)'
      BY <2>1, <3>1 DEF Settled
    <3> QED
      BY <2>1, <2>4, <2>5, <3>1, <3>2, <3>3, <3>4, Preserved
  <2> QED
    BY <2>6, <2>7
<1>2. CASE TimeOut(w)
  <2> DEFINE one == [r EXCEPT !.request.answer = "failed"]
  <2>1. /\ Set(w, one) /\ UNCHANGED <<points, store, recorded, rejected>>
        /\ late' \subseteq late \cup {q}
    BY <1>2 DEF TimeOut, Abandon
  <2>2. /\ one \in RuntimeType /\ one.busy = r.busy /\ one.batch = r.batch
        /\ one.request.point = i /\ one.request.answer = "failed"
    BY <1>r, <1>q DEF RuntimeType
  <2> HIDE DEF one
  <2>3. s = one /\ \A x \in Windows : x # w => windows'[x] = windows[x]
    BY <1>r, <2>1, <2>2, WindowSet
  <2>4. \A j \in Points : Referenced(j)' => Referenced(j)
    BY <1>q, <2>1, <2>2, <2>3 DEF Referenced
  <2>5. ServerRecord' /\ TrueAnswers'
    BY <2>1, <2>2, <2>3 DEF GPSInvariant, ServerRecord, TrueAnswers
  <2>6. \A j \in Points : Settled(j) => Settled(j)'
    BY <2>1 DEF Settled
  <2> QED
    BY <2>1, <2>2, <2>3, <2>4, <2>5, <2>6, Preserved
<1> QED
  BY <1>1, <1>2

\* The window hears that its point is recorded, or will never be.
LEMMA HearStep ==
  ASSUME GPSInvariant, TypeOK', NEW w \in Windows, Acknowledged(w) \/ Refused(w)
  PROVE  GPSInvariant'
<1> DEFINE r == windows[w]
           s == windows'[w]
           Plain(n) == /\ n \in RuntimeType /\ n.busy = r.busy
                       /\ n.batch \subseteq r.batch /\ n.request = None
<1>r. r \in RuntimeType /\ TypeOK
  BY RuntimeFields DEF GPSInvariant
<1>i. PICK i \in Points : i = r.request.point
  BY RuntimeFields DEF Acknowledged, Refused, GPSInvariant
<1> DEFINE one == [r EXCEPT !.request = None, !.batch = @ \ {i}]
           two == [one EXCEPT !.watching = FALSE, !.starting = FALSE]
<1>1. /\ Set(w, one) \/ Set(w, two)
      /\ store' = store \ {i}
      /\ UNCHANGED <<points, late, recorded>>
      /\ r.request # None
      /\ \/ rejected' = rejected \cup {i}
         \/ rejected' = rejected /\ r.request.answer = "stored"
  BY <1>i DEF Acknowledged, Delivered, Refused, Refuse, Stopped
<1>2. Plain(one) /\ Plain(two)
  BY <1>r DEF RuntimeType
<1> HIDE DEF one, two
<1>3. Plain(s) /\ \A v \in Windows : v # w => windows'[v] = windows[v]
  BY <1>r, <1>1, <1>2, WindowSet
<1>4. Settled(i)'
  BY <1>1, <1>i DEF Settled, GPSInvariant, TrueAnswers
<1>5. \A j \in Points : Referenced(j)' => Referenced(j)
  BY <1>1, <1>3 DEF Referenced
<1>6. ServerRecord' /\ TrueAnswers'
  BY <1>1, <1>3 DEF GPSInvariant, ServerRecord, TrueAnswers
<1>7. \A j \in Points : /\ Settled(j) => Settled(j)'
                        /\ j \in store => j \in store' \/ Settled(j)'
  BY <1>1, <1>4 DEF Settled
<1> QED
  BY <1>1, <1>3, <1>5, <1>6, <1>7, Preserved

\* An aborted request arrives after all.
LEMMA LateStep ==
  ASSUME GPSInvariant, TypeOK', NEW q \in late, LateRequest(q)
  PROVE  GPSInvariant'
<1>1. q.point \in Points /\ q.as \in Members \cup {None}
  BY DEF GPSInvariant, TypeOK
<1>2. UNCHANGED <<points, store, windows, rejected>> /\ late' \subseteq late
  BY DEF LateRequest
<1>3. CASE UNCHANGED recorded
  <2>1. \A j \in Points : /\ Referenced(j)' => Referenced(j)
                          /\ Settled(j) => Settled(j)'
    BY <1>2, <1>3 DEF Referenced, Settled
  <2>2. ServerRecord' /\ TrueAnswers'
    BY <1>2, <1>3 DEF GPSInvariant, ServerRecord, TrueAnswers
  <2> QED
    BY <1>2, <2>1, <2>2, Preserved
<1>4. CASE Verdict(q.point, q.as) = "stored" /\ Insert(q.point, q.as)
  <2>1. /\ ServerRecord' /\ recorded'[q.point].rows > 0
        /\ \A j \in Points : recorded[j].rows > 0 => recorded'[j].rows > 0
        /\ \A j \in Points : j # q.point /\ (recorded'[j].rows > 0 \/ recorded'[j].as # {})
                               => recorded[j].rows > 0 \/ recorded[j].as # {}
    BY <1>1, <1>2, <1>4, Accepted
  <2>2. \A j \in Points : /\ Referenced(j)' => Referenced(j)
                          /\ Settled(j) => Settled(j)'
    BY <1>1, <1>2, <2>1 DEF Referenced, Settled
  <2>3. TrueAnswers'
    <3>1. \A w \in Windows : windows[w].request # None => windows[w].request.point \in Points
      BY RuntimeFields DEF GPSInvariant
    <3> QED
      BY <1>2, <2>1, <3>1 DEF GPSInvariant, TrueAnswers
  <2> QED
    BY <1>2, <2>1, <2>2, <2>3, Preserved
<1> QED
  BY <1>3, <1>4 DEF LateRequest

\* A new capture takes an id that nobody has used.
LEMMA CaptureStep ==
  ASSUME GPSInvariant, TypeOK', NEW w \in Windows, SavePosition(w)
  PROVE  GPSInvariant'
<1> DEFINE r == windows[w]
           s == windows'[w]
<1>r. r \in RuntimeType /\ TypeOK
  BY RuntimeFields DEF GPSInvariant
<1>1. PICK i \in Points :
        /\ points[i] = NoPoint
        /\ points' = [points EXCEPT ![i] = [member |-> r.member, trip |-> r.trip, by |-> w]]
        /\ Set(w, [r EXCEPT !.busy = i])
  BY DEF SavePosition, Oldest
<1>2. r.busy = None /\ UNCHANGED <<store, late, recorded, rejected>>
  BY DEF SavePosition
<1> DEFINE one == [r EXCEPT !.busy = i]
<1>3. /\ one \in RuntimeType /\ one.busy = i
      /\ one.batch = r.batch /\ one.request = r.request
  BY <1>r DEF RuntimeType
<1> HIDE DEF one
<1>4. s = one /\ \A v \in Windows : v # w => windows'[v] = windows[v]
  BY <1>r, <1>1, <1>3, WindowSet DEF one
<1>5. /\ Captured(i)' /\ ~Captured(i)
      /\ \A j \in Points : j # i => points'[j] = points[j]
  BY <1>1, <1>r, GPSAssumption DEF Captured, NoPoint, TypeOK
<1>6. \A j \in Points : Referenced(j)' <=> Referenced(j)
  BY <1>2, <1>3, <1>4 DEF Referenced
<1>7. ~Referenced(i) /\ \A v \in Windows : windows[v].busy # i
  BY <1>5, <1>r, RuntimeFields, GPSAssumption DEF GPSInvariant, OnlyKnown, OneWriter, Captured
<1>8. /\ Saving(i)'
      /\ \A j \in Points : j # i => (Saving(j)' <=> Saving(j)) /\ (Captured(j)' <=> Captured(j))
  <2>1. Saving(i)'
    BY <1>3, <1>4 DEF Saving
  <2>2. \A j \in Points : j # i => (Saving(j)' <=> Saving(j))
    BY <1>2, <1>3, <1>4, GPSAssumption DEF Saving
  <2>3. \A j \in Points : j # i => (Captured(j)' <=> Captured(j))
    BY <1>5 DEF Captured
  <2> QED
    BY <2>1, <2>2, <2>3
<1>9. NoPointLost'
  BY <1>2, <1>8 DEF GPSInvariant, NoPointLost, Settled
<1>10. OnlyKnown'
  BY <1>6, <1>7, <1>8 DEF GPSInvariant, OnlyKnown
<1>11. ServerRecord'
  BY <1>2, <1>5, <1>7, <1>r DEF GPSInvariant, ServerRecord, Referenced, TypeOK
<1>12. OneWriter'
  <2> SUFFICES ASSUME NEW v \in Windows, windows'[v].busy # None
               PROVE  /\ Captured(windows[v].busy)'
                      /\ \A x \in Windows : windows'[x].busy = windows'[v].busy => x = v
    BY DEF OneWriter
  <2>1. CASE v = w
    BY <1>3, <1>4, <1>5, <1>7, <2>1
  <2>2. CASE v # w
    BY <1>3, <1>4, <1>5, <1>7, <1>8, <2>2, RuntimeFields, <1>r DEF GPSInvariant, OneWriter
  <2> QED
    BY <2>1, <2>2
<1>13. TrueAnswers'
  BY <1>2, <1>3, <1>4 DEF GPSInvariant, TrueAnswers
<1> QED
  BY <1>9, <1>10, <1>11, <1>12, <1>13 DEF GPSInvariant

\* The write of a capture is committed, or fails and leaves nothing behind.
LEMMA WriteEnds ==
  ASSUME GPSInvariant, TypeOK', NEW w \in Windows,
         windows[w].busy # None,
         \/ store' = store \cup {windows[w].busy} /\ UNCHANGED points
         \/ store' = store /\ points' = [points EXCEPT ![windows[w].busy] = NoPoint],
         UNCHANGED <<recorded, rejected>>,
         \A j \in Points : (\E q \in late' : q.point = j) => Referenced(j),
         windows'[w].busy = None,
         windows'[w].batch \subseteq windows[w].batch,
         windows'[w].request \in {None, windows[w].request},
         \A v \in Windows : v # w => windows'[v] = windows[v]
  PROVE  GPSInvariant'
<1>r. windows[w] \in RuntimeType /\ TypeOK
  BY RuntimeFields DEF GPSInvariant
<1>1. PICK i \in Points : i = windows[w].busy
  BY RuntimeFields, <1>r
<1>2. /\ \A j \in Points : j # i => points'[j] = points[j]
      /\ i \in store' => points'[i] = points[i]
      /\ i \notin store' => ~Captured(i)'
      /\ \A j \in Points : j # i => (j \in store' <=> j \in store)
  BY <1>1, <1>r DEF Captured, TypeOK, GPSInvariant, OnlyKnown, Saving, Referenced
<1>3. Captured(i) /\ Saving(i) /\ ~Referenced(i)
  BY <1>1 DEF GPSInvariant, OneWriter, OnlyKnown, Saving
<1>4. /\ ~Saving(i)'
      /\ \A j \in Points : j # i => (Saving(j)' <=> Saving(j)) /\ (Captured(j)' <=> Captured(j))
  <2>1. ~Saving(i)'
    BY <1>1, <1>r, GPSAssumption DEF Saving, GPSInvariant, OneWriter
  <2>2. \A j \in Points : j # i => (Saving(j)' <=> Saving(j))
    BY <1>1, GPSAssumption DEF Saving
  <2>3. \A j \in Points : j # i => (Captured(j)' <=> Captured(j))
    BY <1>2 DEF Captured
  <2> QED
    BY <2>1, <2>2, <2>3
<1>5. \A j \in Points : j # i => (Referenced(j)' => Referenced(j))
  BY <1>2 DEF Referenced
<1>6. NoPointLost'
  BY <1>2, <1>4 DEF GPSInvariant, NoPointLost, Settled
<1>7. Referenced(i)' => i \in store'
  BY <1>3 DEF Referenced
<1>8. OnlyKnown'
  <2>1. i \in store' => Captured(i)'
    BY <1>2, <1>3 DEF Captured
  <2> QED
    BY <1>4, <1>5, <1>7, <2>1 DEF GPSInvariant, OnlyKnown
<1>9. ServerRecord'
  BY <1>2, <1>3, <1>r DEF GPSInvariant, ServerRecord, Referenced
<1>10. OneWriter'
  <2> SUFFICES ASSUME NEW v \in Windows, windows'[v].busy # None
               PROVE  /\ Captured(windows[v].busy)'
                      /\ \A x \in Windows : windows'[x].busy = windows'[v].busy => x = v
    BY DEF OneWriter
  <2>1. v # w /\ windows[v].busy \in Points /\ windows[v].busy # i
    BY <1>1, RuntimeFields, <1>r DEF GPSInvariant, OneWriter
  <2> QED
    BY <1>1, <1>2, <2>1 DEF GPSInvariant, OneWriter, Captured
<1>11. TrueAnswers'
  BY DEF GPSInvariant, TrueAnswers
<1> QED
  BY <1>6, <1>8, <1>9, <1>10, <1>11 DEF GPSInvariant

\* Storing a point keeps the invariant.
LEMMA AddStep ==
  ASSUME GPSInvariant, TypeOK', NEW w \in Windows, AddPoint(w)
  PROVE  GPSInvariant'
<1> DEFINE r == windows[w]
           one == [r EXCEPT !.busy = None]
           two == [[r EXCEPT !.watching = FALSE, !.starting = FALSE] EXCEPT !.busy = None]
           Plain(n) == /\ n \in RuntimeType /\ n.busy = None
                       /\ n.batch \subseteq r.batch /\ n.request = r.request
<1>r. r \in RuntimeType /\ TypeOK
  BY RuntimeFields DEF GPSInvariant
<1>1. /\ Set(w, one) \/ Set(w, two)
      /\ r.busy # None
      /\ \/ store' = store \cup {r.busy} /\ UNCHANGED points
         \/ store' = store /\ points' = [points EXCEPT ![r.busy] = NoPoint]
      /\ UNCHANGED <<recorded, rejected, late>>
  BY DEF AddPoint, Stopped
<1>2. Plain(one) /\ Plain(two)
  BY <1>r DEF RuntimeType
<1> HIDE DEF one, two
<1>3. Plain(windows'[w]) /\ \A v \in Windows : v # w => windows'[v] = windows[v]
  BY <1>r, <1>1, <1>2, WindowSet
<1>4. \A j \in Points : (\E q \in late' : q.point = j) => Referenced(j)
  BY <1>1 DEF Referenced
<1> QED
  BY <1>1, <1>3, <1>4, WriteEnds

\* A window is closed, or gets another target.
LEMMA DisposeStep ==
  ASSUME GPSInvariant, TypeOK', NEW w \in Windows,
         CloseWindow(w) \/ \E m \in Members, t \in Trips : Load(w, m, t)
  PROVE  GPSInvariant'
<1> DEFINE r == windows[w]
           Plain(n) == /\ n \in RuntimeType /\ n.busy = None
                       /\ n.batch = {} /\ n.request = None
<1>r. r \in RuntimeType /\ TypeOK
  BY RuntimeFields DEF GPSInvariant
<1>1. Dispose(w) /\ UNCHANGED <<recorded, rejected>>
  BY DEF CloseWindow, Load
<1>2. \E n : Set(w, n) /\ Plain(n)
  <2>1. CASE CloseWindow(w)
    <3>1. Plain(Blank)
      BY DEF Blank, RuntimeType
    <3> QED
      BY <2>1, <3>1 DEF CloseWindow
  <2>2. ASSUME NEW m \in Members, NEW t \in Trips, Load(w, m, t)
        PROVE  \E n : Set(w, n) /\ Plain(n)
    <3>1. Plain(Runtime(m, t, r.patch))
      BY <1>r DEF Blank, Runtime, RuntimeType
    <3> QED
      BY <2>2, <3>1 DEF Load
  <2> QED
    BY <2>1, <2>2
<1>3. Plain(windows'[w]) /\ \A v \in Windows : v # w => windows'[v] = windows[v]
  BY <1>r, <1>2, WindowSet
<1>4. \A q \in late' : q \in late \/ (r.request # None /\ q = r.request)
  BY <1>1 DEF Dispose, Abandon
<1>5. \A j \in Points : (\E q \in late' : q.point = j) => Referenced(j)
  BY <1>4 DEF Referenced
<1>6. CASE r.busy # None
  <2>1. \/ store' = store \cup {r.busy} /\ UNCHANGED points
        \/ store' = store /\ points' = [points EXCEPT ![r.busy] = NoPoint]
    <3>1. r.busy \notin store
      BY <1>6, <1>r, RuntimeFields DEF GPSInvariant, OnlyKnown, Referenced, Saving
    <3> QED
      BY <1>1, <1>6, <3>1 DEF Dispose
  <2> QED
    BY <1>1, <1>3, <1>5, <1>6, <2>1, WriteEnds
<1>7. CASE r.busy = None
  <2>1. UNCHANGED <<store, points>>
    BY <1>1, <1>7 DEF Dispose
  <2>2. \A j \in Points : /\ Referenced(j)' => Referenced(j)
                          /\ Settled(j) => Settled(j)'
    BY <1>1, <1>3, <1>5, <2>1 DEF Referenced, Settled
  <2>3. ServerRecord' /\ TrueAnswers'
    BY <1>1, <1>3, <2>1 DEF GPSInvariant, ServerRecord, TrueAnswers
  <2> QED
    BY <1>3, <1>7, <2>1, <2>2, <2>3, Preserved
<1> QED
  BY <1>6, <1>7

\* Every step keeps the invariant.
LEMMA SafeStep == GPSInvariant /\ [Next]_vars => GPSInvariant'
<1> SUFFICES ASSUME GPSInvariant, [Next]_vars PROVE GPSInvariant'
  OBVIOUS
<1>t. TypeOK'
  BY TypeStep DEF GPSInvariant
<1>1. ASSUME NEW w \in Windows, Window(w) PROVE GPSInvariant'
  BY <1>t, <1>1, PlainStep, SendStep, AnswerStep, HearStep, CaptureStep, AddStep,
     DisposeStep DEF Window, LockMoves
<1>2. ASSUME NEW q \in late, LateRequest(q) PROVE GPSInvariant'
  BY <1>t, <1>2, LateStep
<1>3. CASE \/ \E m \in Members \cup {None} : SignIn(m)
           \/ \E t \in Trips, m \in Members \cup {None} : Reassign(t, m)
           \/ \E i \in Points : Age(i)
           \/ UNCHANGED vars
  <2>1. UNCHANGED <<points, windows, store, late, recorded, rejected>>
    BY <1>3 DEF SignIn, Reassign, Age, vars
  <2>2. \A j \in Points : /\ Referenced(j)' => Referenced(j)
                          /\ Settled(j) => Settled(j)'
    BY <2>1 DEF Referenced, Settled
  <2>3. ServerRecord' /\ TrueAnswers'
    BY <2>1 DEF GPSInvariant, ServerRecord, TrueAnswers
  <2> QED
    BY <1>t, <2>1, <2>2, <2>3, Preserved
<1> QED
  BY <1>1, <1>2, <1>3 DEF Next

\* The invariant holds of every reachable state.
LEMMA InvariantHolds == Spec => []GPSInvariant
  BY StartSafe, SafeStep, PTL DEF Spec

\* A captured point is never lost: it is on the phone until the server has recorded it
\* or refused it for good (lib/gps-queue.ts, deliver).
THEOREM PointsAreKept == Spec => []NoPointLost
<1>1. GPSInvariant => NoPointLost
  BY DEF GPSInvariant
<1> QED
  BY <1>1, InvariantHolds, PTL

\* However often a point is sent, and whoever is signed in, the server has it at most
\* once and under the membership that captured it (recordGPSPoint).
THEOREM ServerKeepsOneRow == Spec => []ServerRecord
<1>1. GPSInvariant => ServerRecord
  BY DEF GPSInvariant
<1> QED
  BY <1>1, InvariantHolds, PTL

-----------------------------------------------------------------------------
\* Completing a trip.

\* From drain() to the answer to the PATCH the window does not watch, and from the
\* count of the queue on it is not writing.
Orderly(r) ==
  /\ r.closing # "no" \/ r.patch # None => ~r.watching /\ ~r.starting
  /\ r.closing = "drained" \/ r.patch # None => r.busy = None

\* All that window w captured for member m and trip t has left the phone.
Swept(w, m, t) ==
  \A i \in Points : points[i] = [member |-> m, trip |-> t, by |-> w] => Settled(i)

CompletionInvariant ==
  /\ GPSInvariant
  /\ \A w \in Windows :
       /\ Orderly(windows[w])
       /\ windows[w].busy # None => points[windows[w].busy].by = w
       /\ windows[w].patch # None => Swept(w, windows[w].patch.member, windows[w].patch.trip)

\* A settled point stays settled.
LEMMA SettledForGood ==
  ASSUME TypeOK, [Next]_vars, NEW i \in Points, Settled(i)
  PROVE  Settled(i)'
<1>1. ASSUME NEW j \in Points, NEW m \in Members \cup {None}, Insert(j, m), rejected' = rejected
      PROVE  Settled(i)'
  BY <1>1, InsertTyped DEF Settled
<1>2. ASSUME NEW w \in Windows, Window(w) PROVE Settled(i)'
  <2>1. CASE Answer(w)
    <3>1. /\ windows[w].request # None /\ rejected' = rejected
          /\ \/ Insert(windows[w].request.point, windows[w].request.as)
             \/ UNCHANGED recorded
      BY <2>1 DEF Answer
    <3> QED
      BY <1>1, <3>1, RuntimeFields DEF Settled
  <2>2. CASE ~Answer(w)
    <3>1. UNCHANGED recorded /\ rejected \subseteq rejected'
      BY <1>2, <2>2 DEF Window, CloseWindow, Load, Start, GrantLock,
       RefuseLock, LockArrives, LockReturns, Stop, SavePosition, AddPoint, Flush,
         DropStale, Send, TimeOut, Acknowledged, Refused, Refuse, Failed, EndFlush,
         BeginCompletion, Drain, CountPending, GiveUp, CompleteTrip
    <3> QED
      BY <3>1 DEF Settled
  <2> QED
    BY <2>1, <2>2
<1>3. ASSUME NEW q \in late, LateRequest(q) PROVE Settled(i)'
  BY <1>1, <1>3 DEF LateRequest, TypeOK, Settled
<1> QED
  BY <1>2, <1>3 DEF Next, SignIn, Reassign, Age, vars, Settled

\* What a step of window w does to the runtime's completion and to the points.
LEMMA OrderlyStep ==
  ASSUME TypeOK, NEW w \in Windows, Window(w), Orderly(windows[w])
  PROVE  /\ Orderly(windows'[w])
         /\ \/ windows'[w].patch \in {None, windows[w].patch}
            \/ CountPending(w)
         /\ \/ windows'[w].busy \in {None, windows[w].busy} /\ ~SavePosition(w)
            \/ SavePosition(w)
<1> DEFINE r == windows[w]
           Good(n) == /\ Orderly(n)
                      /\ (n.patch \in {None, r.patch} \/ CountPending(w))
                      /\ ((n.busy \in {None, r.busy} /\ ~SavePosition(w)) \/ SavePosition(w))
<1>r. r \in RuntimeType
  BY RuntimeFields
<1>w. \A n : Set(w, n) => windows'[w] = n
  BY DEF Set, TypeOK
<1> HIDE DEF Good
<1> SUFFICES \E n : Set(w, n) /\ Good(n)
  BY <1>w DEF Good
<1>1. CASE LockMoves(w)
  <2>1. PICK n : Set(w, n) /\ Moved(r, n)
    BY <1>1, LockMovesTyped
  <2>2. n.closing = r.closing /\ n.patch = r.patch /\ n.busy = r.busy
    BY <1>r, <2>1 DEF Moved, RuntimeType
  <2>3. n.watching \/ n.starting =>
          r.watching \/ r.starting \/ (r.closing = "no" /\ r.patch = None)
    <3>1. CASE Start(w)
      BY <3>1 DEF Start, Free
    <3>2. CASE LockArrives(w)
      <4>1. r.starting \/ UNCHANGED windows
        BY <3>2 DEF LockArrives, StillWanted
      <4> QED
        BY <2>1, <4>1, <1>w
    <3>3. CASE GrantLock(w) \/ LockReturns(w)
      BY <1>w, <2>1, <3>3 DEF GrantLock, LockReturns
    <3>4. CASE RefuseLock(w)
      <4>1. UNCHANGED windows \/ Set(w, [r EXCEPT !.starting = FALSE])
        BY <3>4 DEF RefuseLock
      <4>2. n = r \/ n = [r EXCEPT !.starting = FALSE]
        BY <1>w, <2>1, <4>1
      <4> QED
        BY <1>r, <4>2 DEF RuntimeType
    <3> QED
      BY <1>1, <3>1, <3>2, <3>3, <3>4 DEF LockMoves
  <2>4. Good(n)
    BY <2>2, <2>3 DEF Good, Orderly
  <2> QED
    BY <2>1, <2>4
<1>2. CASE Stop(w)
  <2> DEFINE one == [r EXCEPT !.watching = FALSE, !.starting = FALSE]
  <2>1. Set(w, one)
    BY <1>2 DEF Stop, Stopped
  <2>2. Good(one)
    BY <1>2, <1>r DEF Good, Orderly, RuntimeType, Stop, Stopped, SavePosition
  <2> HIDE DEF one
  <2> QED
    BY <2>1, <2>2
<1>3. CASE Flush(w)
  <2> DEFINE one == [r EXCEPT !.flushing = TRUE, !.batch = Batch(r.member)]
  <2>1. Set(w, one)
    BY <1>3 DEF Flush
  <2>2. Good(one)
    BY <1>3, <1>r DEF Good, Orderly, RuntimeType, Flush, SavePosition
  <2> HIDE DEF one
  <2> QED
    BY <2>1, <2>2
<1>4. CASE EndFlush(w)
  <2> DEFINE one == [r EXCEPT !.flushing = FALSE]
  <2>1. Set(w, one)
    BY <1>4 DEF EndFlush
  <2>2. Good(one)
    BY <1>4, <1>r DEF Good, Orderly, RuntimeType, EndFlush, SavePosition
  <2> HIDE DEF one
  <2> QED
    BY <2>1, <2>2
<1>5. CASE Failed(w)
  <2> DEFINE one == [r EXCEPT !.request = None,
                            !.batch = {},
                            !.flushing = FALSE]
             two == [[r EXCEPT !.request = None,
                            !.batch = {},
                            !.flushing = FALSE] EXCEPT !.watching = FALSE, !.starting = FALSE]
  <2>1. Set(w, one) \/ Set(w, two)
    BY <1>5 DEF Failed, Stopped
  <2>2. Good(one) /\ Good(two)
    BY <1>5, <1>r DEF Good, Orderly, RuntimeType, Failed, Stopped, SavePosition
  <2> HIDE DEF one, two
  <2> QED
    BY <2>1, <2>2
<1>6. CASE BeginCompletion(w)
  <2> DEFINE one == [[r EXCEPT !.watching = FALSE, !.starting = FALSE] EXCEPT !.closing = "drain"]
  <2>1. Set(w, one)
    BY <1>6 DEF BeginCompletion, Stopped, Free
  <2>2. Good(one)
    BY <1>6, <1>r DEF Good, Orderly, RuntimeType, BeginCompletion, Stopped, Free, SavePosition
  <2> HIDE DEF one
  <2> QED
    BY <2>1, <2>2
<1>7. CASE Drain(w)
  <2> DEFINE one == [r EXCEPT !.closing = "drained",
                            !.flushing = TRUE,
                            !.batch = Batch(r.member)]
             two == [r EXCEPT !.closing = "drained"]
  <2>1. Set(w, one) \/ Set(w, two)
    BY <1>7 DEF Drain, Quiet
  <2>2. Good(one) /\ Good(two)
    BY <1>7, <1>r DEF Good, Orderly, RuntimeType, Drain, Quiet, SavePosition
  <2> HIDE DEF one, two
  <2> QED
    BY <2>1, <2>2
<1>8. CASE CountPending(w)
  <2> DEFINE one == [r EXCEPT !.closing = "no",
                            !.patch = IF Queue(r.member) = {} THEN [trip |-> r.trip, member |-> r.member] ELSE None]
  <2>1. Set(w, one)
    BY <1>8 DEF CountPending
  <2>2. Good(one)
    BY <1>8, <1>r DEF Good, Orderly, RuntimeType, CountPending, SavePosition
  <2> HIDE DEF one
  <2> QED
    BY <2>1, <2>2
<1>9. CASE GiveUp(w)
  <2> DEFINE one == [r EXCEPT !.closing = "no", !.patch = None]
  <2>1. Set(w, one)
    BY <1>9 DEF GiveUp
  <2>2. Good(one)
    BY <1>9, <1>r DEF Good, Orderly, RuntimeType, GiveUp, SavePosition
  <2> HIDE DEF one
  <2> QED
    BY <2>1, <2>2
<1>10. CASE \E t \in Trips : CompleteTrip(w, t)
  <2> DEFINE one == [r EXCEPT !.patch = None]
  <2>1. Set(w, one)
    BY <1>10 DEF CompleteTrip
  <2>2. Good(one)
    BY <1>10, <1>r DEF Good, Orderly, RuntimeType, CompleteTrip, SavePosition
  <2> HIDE DEF one
  <2> QED
    BY <2>1, <2>2
<1>11. CASE TimeOut(w)
  <2> DEFINE one == [r EXCEPT !.request.answer = "failed"]
  <2>1. Set(w, one)
    BY <1>11 DEF TimeOut
  <2>2. Good(one)
    BY <1>11, <1>r DEF Good, Orderly, RuntimeType, TimeOut, SavePosition
  <2> HIDE DEF one
  <2> QED
    BY <2>1, <2>2
<1>12. CASE CloseWindow(w)
  <2> DEFINE one == Blank
  <2>1. Set(w, one)
    BY <1>12 DEF CloseWindow, Blank
  <2>2. Good(one)
    BY <1>12, <1>r DEF Good, Orderly, RuntimeType, CloseWindow, Blank, SavePosition
  <2> HIDE DEF one
  <2> QED
    BY <2>1, <2>2
<1>13. CASE AddPoint(w)
  <2> DEFINE one == [r EXCEPT !.busy = None]
             two == [[r EXCEPT !.watching = FALSE, !.starting = FALSE] EXCEPT !.busy = None]
  <2>1. Set(w, one) \/ Set(w, two)
    BY <1>13 DEF AddPoint, Stopped
  <2>2. Good(one) /\ Good(two)
    BY <1>13, <1>r DEF Good, Orderly, RuntimeType, AddPoint, Stopped, SavePosition
  <2> HIDE DEF one, two
  <2> QED
    BY <2>1, <2>2
<1>14. CASE Acknowledged(w)
  <2> DEFINE one == [r EXCEPT !.request = None, !.batch = @ \ {r.request.point}]
  <2>1. Set(w, one)
    BY <1>14 DEF Acknowledged
  <2>2. Good(one)
    BY <1>14, <1>r DEF Good, Orderly, RuntimeType, Acknowledged, SavePosition
  <2> HIDE DEF one
  <2> QED
    BY <2>1, <2>2
<1>15. CASE Refused(w)
  <2> DEFINE one == [r EXCEPT !.request = None, !.batch = @ \ {r.request.point}]
             two == [[r EXCEPT !.request = None,
                            !.batch = @ \ {r.request.point}] EXCEPT !.watching = FALSE, !.starting = FALSE]
  <2>1. Set(w, one) \/ Set(w, two)
    BY <1>15 DEF Refused, Stopped
  <2>2. Good(one) /\ Good(two)
    BY <1>15, <1>r DEF Good, Orderly, RuntimeType, Refused, Stopped, SavePosition
  <2> HIDE DEF one, two
  <2> QED
    BY <2>1, <2>2
<1>16. CASE \E m \in Members, t \in Trips : Load(w, m, t)
  <2>1. PICK m \in Members, t \in Trips : Load(w, m, t)
    BY <1>16
  <2>2. Set(w, Runtime(m, t, r.patch))
    BY <2>1 DEF Load
  <2>3. Good(Runtime(m, t, r.patch))
    BY DEF Good, Orderly, Runtime, Blank
  <2> QED
    BY <2>2, <2>3
<1>17. CASE SavePosition(w)
  <2>1. PICK i \in Points : Set(w, [r EXCEPT !.busy = i])
    BY <1>17 DEF SavePosition, Oldest
  <2>2. r.watching \/ (r.closing = "no" /\ r.patch = None)
    BY <1>17 DEF SavePosition, Free
  <2>3. Good([r EXCEPT !.busy = i])
    BY <1>17, <1>r, <2>2 DEF Good, Orderly, RuntimeType
  <2> QED
    BY <2>1, <2>3
<1>18. CASE \E i \in Points : DropStale(w, i) \/ Send(w, i)
  <2>1. PICK i \in Points : DropStale(w, i) \/ Send(w, i)
    BY <1>18
  <2> DEFINE one == [r EXCEPT !.batch = @ \ {i}]
             two == [one EXCEPT !.watching = FALSE, !.starting = FALSE]
             three == [r EXCEPT !.request = Request(i)]
  <2>2. Set(w, one) \/ Set(w, two) \/ Set(w, three)
    BY <2>1 DEF DropStale, Send, Stopped
  <2>3. Good(one) /\ Good(two) /\ Good(three)
    BY <1>r DEF Good, Orderly, RuntimeType
  <2> HIDE DEF one, two, three
  <2> QED
    BY <2>2, <2>3
<1>19. CASE Answer(w)
  <2>1. PICK a : Set(w, [r EXCEPT !.request.answer = a])
    BY <1>19 DEF Answer
  <2>2. Good([r EXCEPT !.request.answer = a])
    BY <1>r DEF Good, Orderly, RuntimeType
  <2> QED
    BY <2>1, <2>2
<1> QED
  BY <1>1, <1>2, <1>3, <1>4, <1>5, <1>6, <1>7, <1>8, <1>9, <1>10, <1>11, <1>12, <1>13,
     <1>14, <1>15, <1>16, <1>17, <1>18, <1>19 DEF Window, LockMoves

\* A step of window w keeps what every window knows of its completion.
LEMMA CompletionStep ==
  ASSUME CompletionInvariant, [Next]_vars
  PROVE  CompletionInvariant'
<1>g. GPSInvariant /\ GPSInvariant' /\ TypeOK
  BY SafeStep DEF CompletionInvariant, GPSInvariant
<1>s. \A i \in Points : Settled(i) => Settled(i)'
  BY <1>g, SettledForGood
<1>1. CASE UNCHANGED <<windows, points>>
  <2>1. \A w \in Windows : \A m, t : Swept(w, m, t) => Swept(w, m, t)'
    BY <1>1, <1>s DEF Swept
  <2> QED
    BY <1>g, <1>1, <2>1 DEF CompletionInvariant
<1>2. ASSUME NEW w \in Windows, Window(w) PROVE CompletionInvariant'
  <2> DEFINE r == windows[w]
             s == windows'[w]
  <2>1. /\ Orderly(s)
        /\ (s.patch \in {None, r.patch} \/ CountPending(w))
        /\ ((s.busy \in {None, r.busy} /\ ~SavePosition(w)) \/ SavePosition(w))
    BY <1>g, <1>2, OrderlyStep DEF CompletionInvariant
  <2>a. \E n : Set(w, n)
    BY <1>g, <1>2, LockMovesTyped DEF Window, LockMoves, CloseWindow, Load, Stop, SavePosition, AddPoint, Flush,
       DropStale, Send, Answer, TimeOut, Acknowledged, Refused, Failed, EndFlush,
       BeginCompletion, Drain, CountPending, GiveUp, CompleteTrip
  <2>2. \A v \in Windows : v # w => windows'[v] = windows[v]
    BY <1>g, <2>a DEF Set, TypeOK
  <2>3. CASE SavePosition(w)
    <3>1. PICK i \in Points :
            /\ points[i] = NoPoint
            /\ points' = [points EXCEPT ![i] = [member |-> r.member, trip |-> r.trip, by |-> w]]
            /\ Set(w, [r EXCEPT !.busy = i])
      BY <2>3 DEF SavePosition, Oldest
    <3>2. r \in RuntimeType /\ s = [r EXCEPT !.busy = i] /\ s.busy = i /\ s.patch = r.patch
      BY <1>g, <3>1, RuntimeFields DEF Set, TypeOK, RuntimeType
    <3>3. r.patch = None
      BY <2>3 DEF SavePosition, Free, CompletionInvariant, Orderly
    <3>4. points'[i].by = w /\ \A j \in Points : j # i => points'[j] = points[j]
      BY <1>g, <3>1 DEF TypeOK
    <3>5. \A v \in Windows : windows'[v].busy # None => points'[windows'[v].busy].by = v
      <4> SUFFICES ASSUME NEW v \in Windows, v # w, windows'[v].busy # None
                   PROVE  points'[windows'[v].busy].by = v
        BY <3>2, <3>4
      <4>1. windows'[v] = windows[v] /\ windows[v].busy \in Points /\ windows[v].busy # i
        BY <1>g, <2>2, <3>1, RuntimeFields DEF GPSInvariant, OneWriter, Captured
      <4> QED
        BY <3>4, <4>1 DEF CompletionInvariant
    <3>7. \A v \in Windows : windows'[v].patch # None =>
            Swept(v, windows[v].patch.member, windows[v].patch.trip)'
      <4> SUFFICES ASSUME NEW v \in Windows, windows'[v].patch # None
                   PROVE  Swept(v, windows[v].patch.member, windows[v].patch.trip)'
        OBVIOUS
      <4>1. v # w /\ windows'[v] = windows[v]
        BY <2>2, <3>2, <3>3
      <4>2. Swept(v, windows[v].patch.member, windows[v].patch.trip)
        BY <4>1 DEF CompletionInvariant
      <4> QED
        BY <1>s, <3>4, <4>1, <4>2 DEF Swept
    <3>8. \A v \in Windows : Orderly(windows[v])'
      BY <2>1, <2>2 DEF CompletionInvariant, Orderly
    <3> QED
      BY <1>g, <3>5, <3>7, <3>8 DEF CompletionInvariant
  <2>4. CASE ~SavePosition(w)
    <3>1. \A j \in Points : points'[j] \in {points[j], NoPoint}
      BY <1>g, <1>2, <2>4 DEF Window, Dispose, CloseWindow, Load, Start,
          GrantLock, RefuseLock, LockArrives, LockReturns, Stop, AddPoint, Flush,
         DropStale, Send, Answer, TimeOut, Acknowledged, Refused, Failed, EndFlush,
         BeginCompletion, Drain, CountPending, GiveUp, CompleteTrip, TypeOK
    <3>2. ASSUME NEW v \in Windows, windows'[v].patch = windows[v].patch,
                 Swept(v, windows[v].patch.member, windows[v].patch.trip)
          PROVE  Swept(v, windows[v].patch.member, windows[v].patch.trip)'
      BY <1>s, <3>1, <3>2, GPSAssumption DEF Swept, NoPoint
    <3>3. \A v \in Windows : windows'[v].busy # None => points'[windows'[v].busy].by = v
      <4> SUFFICES ASSUME NEW v \in Windows, windows'[v].busy # None
                   PROVE  points'[windows'[v].busy].by = v
        OBVIOUS
      <4>1. windows'[v].busy = windows[v].busy /\ windows[v].busy \in Points
        BY <1>g, <2>1, <2>2, <2>4, RuntimeFields
      <4>2. Captured(windows[v].busy)'
        BY <1>g DEF GPSInvariant, OneWriter, Captured
      <4>3. PICK i \in Points : i = windows[v].busy
        BY <4>1
      <4>4. points'[i] = points[i]
        BY <3>1, <4>1, <4>2, <4>3 DEF Captured
      <4> QED
        BY <4>1, <4>3, <4>4 DEF CompletionInvariant
    <3>4. windows'[w].patch # None =>
            Swept(w, windows[w].patch.member, windows[w].patch.trip)'
      <4>1. CASE s.patch \in {None, r.patch}
        BY <3>2, <4>1 DEF CompletionInvariant
      <4>2. CASE CountPending(w)
        <5>1. /\ UNCHANGED <<points, store, recorded, rejected>>
              /\ s = [r EXCEPT !.closing = "no",
                       !.patch = IF Queue(r.member) = {}
                                 THEN [trip |-> r.trip, member |-> r.member] ELSE None]
          BY <1>g, <4>2 DEF CountPending, Set, TypeOK
        <5>2. r.closing = "drained" /\ r \in RuntimeType
          BY <1>g, <4>2, RuntimeFields DEF CountPending
        <5> SUFFICES ASSUME windows'[w].patch # None
                     PROVE  Swept(w, windows[w].patch.member, windows[w].patch.trip)'
          OBVIOUS
        <5>3. /\ Queue(r.member) = {}
              /\ s.patch = [trip |-> r.trip, member |-> r.member]
          BY <5>1, <5>2 DEF RuntimeType
        <5>4. ASSUME NEW i \in Points,
                     points[i] = [member |-> r.member, trip |-> r.trip, by |-> w]
              PROVE  Settled(i)
          <6>1. i \notin store
            BY <5>3, <5>4 DEF Queue
          <6>2. Captured(i)
            BY <5>4, GPSAssumption DEF Captured, NoPoint
          <6>3. ~Saving(i)
            BY <5>2, <5>4, GPSAssumption DEF Saving, CompletionInvariant, Orderly
          <6> QED
            BY <1>g, <6>1, <6>2, <6>3 DEF GPSInvariant, NoPointLost
        <5> QED
          BY <5>1, <5>3, <5>4 DEF Swept, Settled
      <4> QED
        BY <2>1, <4>1, <4>2
    <3>5. \A v \in Windows : windows'[v].patch # None =>
            Swept(v, windows[v].patch.member, windows[v].patch.trip)'
      BY <2>2, <3>2, <3>4 DEF CompletionInvariant
    <3>6. \A v \in Windows : Orderly(windows[v])'
      BY <2>1, <2>2 DEF CompletionInvariant, Orderly
    <3> QED
      BY <1>g, <3>3, <3>5, <3>6 DEF CompletionInvariant
  <2> QED
    BY <2>3, <2>4
<1> QED
  BY <1>1, <1>2 DEF Next, LateRequest, SignIn, Reassign, Age, vars

\* A driver's window completes a trip only when every point that it captured for that
\* driver and trip is with the server or refused for good (drain, then the PATCH of
\* changeTripStatus).
THEOREM CompletionIsSound == Spec => CompletionDelivers
<1>1. Init => CompletionInvariant
  BY StartSafe DEF Init, CompletionInvariant, Blank, Orderly
<1>2. CompletionInvariant /\ [Next]_vars => CompletionInvariant'
  BY CompletionStep
<1>3. CompletionInvariant =>
        [\A w \in Windows, t \in Trips : CompleteTrip(w, t) =>
           \A i \in Points :
             points[i] = [member |-> windows[w].patch.member, trip |-> t, by |-> w]
               => Settled(i)]_vars
  BY DEF CompletionInvariant, CompleteTrip, Completes, Swept
<1> QED
  BY <1>1, <1>2, <1>3, PTL DEF Spec, CompletionDelivers


-----------------------------------------------------------------------------
\* The capture lock.

\* A runtime whose buttons the driver may press, as Free(w) says.
Idle(r) == r.trip # None /\ r.closing = "no" /\ r.patch = None

\* A watch is begun, or asked for, only while the trip is not being completed.
Fit(r) == r.watching \/ r.starting => Idle(r)

\* What OneWatcher says of one window.
Sound(w) == (windows[w].watching <=> captureLock = Watched(w)) /\ Fit(windows[w])

\* A step that leaves the lock, the watch and the request for it as they are.
Kept(r, n) == /\ captureLock' = captureLock
              /\ n.watching = r.watching /\ n.starting = r.starting
              /\ Idle(r) => Idle(n)

\* A step that ends the watch and the wish for one, and returns the lock.
Ended(w, n) == /\ ~n.watching /\ ~n.starting
               /\ captureLock' # Watched(w)
               /\ \A v \in Windows \ {w} :
                    captureLock' = Watched(v) <=> captureLock = Watched(v)

\* States of the lock are told apart by their window and their stage.
LEMMA LockApart ==
  ASSUME NEW v \in Windows, NEW w \in Windows
  PROVE  /\ Watched(v) # None /\ Granted(v) # None /\ Returned(v) # None
         /\ Watched(v) # Returned(w) /\ Watched(v) # Granted(w) /\ Granted(v) # Returned(w)
         /\ v # w => Watched(v) # Watched(w)
<1>1. /\ Watched(v) \in LockStates /\ Granted(v) \in LockStates /\ Returned(v) \in LockStates
  BY DEF Watched, Granted, Returned, LockStates
<1>2. None \notin LockStates
  BY GPSAssumption DEF LockStates
<1>3. /\ Watched(v).stage = "watch" /\ Granted(v).stage = "granted"
      /\ Returned(w).stage = "returned" /\ Granted(w).stage = "granted"
      /\ Watched(v).of = v /\ Watched(w).of = w
  BY DEF Watched, Granted, Returned
<1>4. Watched(v) # Returned(w) /\ Watched(v) # Granted(w) /\ Granted(v) # Returned(w)
  BY <1>3
<1>5. v # w => Watched(v) # Watched(w)
  BY <1>3
<1> QED
  BY <1>1, <1>2, <1>4, <1>5

\* stop(), the clean-up and a closed page end the watch with the lock.
LEMMA LockEnds ==
  ASSUME NEW w \in Windows, NEW n, ~n.watching, ~n.starting,
         \/ ReleaseCapture(w)
         \/ Orphan(w)
         \/ captureLock' = IF OfWindow(w) THEN None ELSE captureLock
  PROVE  Ended(w, n)
<1>1. captureLock' # Watched(w)
  BY LockApart DEF ReleaseCapture, Orphan, OfWindow
<1>2. ASSUME NEW v \in Windows \ {w}
      PROVE  captureLock' = Watched(v) <=> captureLock = Watched(v)
  BY LockApart DEF ReleaseCapture, Orphan, OfWindow
<1> QED
  BY <1>1, <1>2 DEF Ended

\* The lock's own steps keep every window sound: the lock is granted when it is free,
\* and the callback begins a watch only when it is still wanted.
LEMMA LockMovesSound ==
  ASSUME TypeOK, WebLocks, NEW w \in Windows, LockMoves(w),
         \A v \in Windows : Sound(v)
  PROVE  \A v \in Windows : Sound(v)'
<1> DEFINE r == windows[w]
<1>r. r \in RuntimeType
  BY RuntimeFields
<1>a. \A v \in Windows : Sound(v)
  OBVIOUS
<1>w. ASSUME NEW n, Set(w, n)
      PROVE  windows'[w] = n /\ \A v \in Windows : v # w => windows'[v] = windows[v]
  BY <1>w DEF Set, TypeOK
<1> SUFFICES ASSUME NEW v \in Windows PROVE Sound(v)'
  OBVIOUS
<1>v. Sound(v) /\ Sound(w)
  BY <1>a
<1>1. CASE Start(w)
  <2> DEFINE one == [r EXCEPT !.starting = TRUE]
  <2>1. Set(w, one) /\ captureLock' = captureLock /\ Idle(r) /\ ~r.watching
    BY <1>1 DEF Start, Free, Active, Idle
  <2>2. one.watching = r.watching /\ Idle(one)
    BY <1>r, <2>1 DEF RuntimeType, Idle
  <2>3. windows'[w] = one /\ (v # w => windows'[v] = windows[v])
    BY <1>w, <2>1
  <2> HIDE DEF one
  <2> QED
    BY <1>v, <2>1, <2>2, <2>3 DEF Sound, Fit, Watched
<1>2. CASE GrantLock(w) \/ LockReturns(w)
  <2>1. /\ UNCHANGED windows
        /\ captureLock # Watched(v) /\ captureLock' # Watched(v)
    BY <1>2, LockApart DEF GrantLock, LockReturns
  <2> QED
    BY <1>v, <2>1 DEF Sound, Fit, Watched
<1>3. CASE RefuseLock(w)
  <2> DEFINE one == [r EXCEPT !.starting = FALSE]
  <2>1. captureLock' = captureLock /\ (UNCHANGED windows \/ Set(w, one))
    BY <1>3 DEF RefuseLock
  <2>2. one.watching = r.watching /\ ~one.starting /\ (Idle(r) => Idle(one))
    BY <1>r DEF RuntimeType, Idle
  <2>3. \/ UNCHANGED windows
        \/ windows'[w] = one /\ (v # w => windows'[v] = windows[v])
    BY <1>w, <2>1
  <2> HIDE DEF one
  <2> QED
    BY <1>v, <2>1, <2>2, <2>3 DEF Sound, Fit, Watched
<1>4. CASE LockArrives(w)
  <2> DEFINE one == [r EXCEPT !.watching = TRUE, !.starting = FALSE]
  <2>1. captureLock # Watched(v) /\ (v # w => Watched(w) # Watched(v))
    BY <1>4, LockApart DEF LockArrives
  <2>2. CASE r.starting
    <3>1. Set(w, one) /\ captureLock' = Watched(w)
      BY <1>4, <2>2 DEF LockArrives, StillWanted
    <3>2. one.watching = TRUE /\ Idle(one)
      BY <1>r, <1>v, <2>2 DEF RuntimeType, Idle, Sound, Fit
    <3>3. windows'[w] = one /\ (v # w => windows'[v] = windows[v])
      BY <1>w, <3>1
    <3> HIDE DEF one
    <3> QED
      BY <1>v, <2>1, <3>1, <3>2, <3>3 DEF Sound, Fit, Watched
  <2>3. CASE ~r.starting
    <3>1. UNCHANGED windows /\ captureLock' = Returned(w)
      BY <1>4, <2>3 DEF LockArrives, StillWanted
    <3>2. captureLock' # Watched(v)
      BY <3>1, LockApart
    <3> QED
      BY <1>v, <2>1, <3>1, <3>2 DEF Sound, Fit, Watched
  <2> QED
    BY <2>2, <2>3
<1> QED
  BY <1>1, <1>2, <1>3, <1>4 DEF LockMoves

\* Every other step of a window ends the watch with the lock, or leaves both alone.
LEMMA WatchStep ==
  ASSUME TypeOK, NEW w \in Windows, Window(w), ~LockMoves(w), Fit(windows[w])
  PROVE  \E n : Set(w, n) /\ (Kept(windows[w], n) \/ Ended(w, n))
<1> DEFINE r == windows[w]
<1>r. r \in RuntimeType
  BY RuntimeFields
<1> HIDE DEF Kept, Ended
<1>2. CASE \/ Stop(w) \/ BeginCompletion(w) \/ CloseWindow(w)
           \/ \E m \in Members, t \in Trips : Load(w, m, t)
  <2>2. CASE Stop(w) \/ BeginCompletion(w)
    <3> DEFINE one == [r EXCEPT !.watching = FALSE, !.starting = FALSE]
               two == [[r EXCEPT !.watching = FALSE, !.starting = FALSE]
                         EXCEPT !.closing = "drain"]
    <3>1. (Set(w, one) \/ Set(w, two)) /\ ReleaseCapture(w)
      BY <2>2 DEF Stop, BeginCompletion, Stopped
    <3>2. ~one.watching /\ ~one.starting /\ ~two.watching /\ ~two.starting
      BY <1>r DEF RuntimeType
    <3> HIDE DEF one, two
    <3> QED
      BY <3>1, <3>2, LockEnds
  <2>3. CASE CloseWindow(w)
    <3>1. /\ Set(w, Blank) /\ ~Blank.watching /\ ~Blank.starting
          /\ captureLock' = IF OfWindow(w) THEN None ELSE captureLock
      BY <2>3 DEF CloseWindow, Blank
    <3> QED
      BY <3>1, LockEnds
  <2>4. CASE \E m \in Members, t \in Trips : Load(w, m, t)
    <3>1. PICK m \in Members, t \in Trips : Set(w, Runtime(m, t, r.patch)) /\ Orphan(w)
      BY <2>4 DEF Load
    <3>2. ~Runtime(m, t, r.patch).watching /\ ~Runtime(m, t, r.patch).starting
      BY DEF Runtime, Blank
    <3> QED
      BY <3>1, <3>2, LockEnds
  <2> QED
    BY <1>2, <2>2, <2>3, <2>4
<1>3. CASE AddPoint(w)
  <2> DEFINE one == [r EXCEPT !.busy = None]
             two == [[r EXCEPT !.watching = FALSE, !.starting = FALSE] EXCEPT !.busy = None]
  <2>1. \/ Set(w, one) /\ captureLock' = captureLock
        \/ Set(w, two) /\ ReleaseCapture(w)
    BY <1>3 DEF AddPoint, Stopped, locks
  <2>2. /\ one.watching = r.watching /\ one.starting = r.starting /\ (Idle(r) => Idle(one))
        /\ ~two.watching /\ ~two.starting
    BY <1>r DEF RuntimeType, Idle
  <2> HIDE DEF one, two
  <2> QED
    BY <2>1, <2>2, LockEnds DEF Kept
<1>4. CASE \E i \in Points : DropStale(w, i) \/ Send(w, i)
  <2>1. PICK i \in Points : DropStale(w, i) \/ Send(w, i)
    BY <1>4
  <2> DEFINE one == [r EXCEPT !.batch = @ \ {i}]
             two == [one EXCEPT !.watching = FALSE, !.starting = FALSE]
             three == [r EXCEPT !.request = Request(i)]
  <2>2. \/ Set(w, one) /\ captureLock' = captureLock
        \/ Set(w, two) /\ ReleaseCapture(w)
        \/ Set(w, three) /\ captureLock' = captureLock
    BY <2>1 DEF DropStale, Send, Stopped, locks
  <2>3. /\ one.watching = r.watching /\ one.starting = r.starting /\ (Idle(r) => Idle(one))
        /\ three.watching = r.watching /\ three.starting = r.starting
        /\ (Idle(r) => Idle(three))
        /\ ~two.watching /\ ~two.starting
    BY <1>r DEF RuntimeType, Idle
  <2> HIDE DEF one, two, three
  <2> QED
    BY <2>2, <2>3, LockEnds DEF Kept
<1>5. CASE Refused(w)
  <2> DEFINE one == [r EXCEPT !.request = None, !.batch = @ \ {r.request.point}]
             two == [one EXCEPT !.watching = FALSE, !.starting = FALSE]
  <2>1. \/ Set(w, one) /\ captureLock' = captureLock
        \/ Set(w, two) /\ ReleaseCapture(w)
    BY <1>5 DEF Refused, Stopped, locks
  <2>2. /\ one.watching = r.watching /\ one.starting = r.starting /\ (Idle(r) => Idle(one))
        /\ ~two.watching /\ ~two.starting
    BY <1>r DEF RuntimeType, Idle
  <2> HIDE DEF one, two
  <2> QED
    BY <2>1, <2>2, LockEnds DEF Kept
<1>6. CASE Failed(w)
  <2> DEFINE one == [r EXCEPT !.request = None, !.batch = {}, !.flushing = FALSE]
             two == [one EXCEPT !.watching = FALSE, !.starting = FALSE]
  <2>1. \/ Set(w, one) /\ captureLock' = captureLock
        \/ Set(w, two) /\ ReleaseCapture(w)
    BY <1>6 DEF Failed, Stopped, locks
  <2>2. /\ one.watching = r.watching /\ one.starting = r.starting /\ (Idle(r) => Idle(one))
        /\ ~two.watching /\ ~two.starting
    BY <1>r DEF RuntimeType, Idle
  <2> HIDE DEF one, two
  <2> QED
    BY <2>1, <2>2, LockEnds DEF Kept
<1>7. CASE \/ SavePosition(w) \/ Flush(w) \/ Answer(w) \/ TimeOut(w)
           \/ Acknowledged(w) \/ EndFlush(w) \/ Drain(w) \/ CountPending(w) \/ GiveUp(w)
           \/ \E t \in Trips : CompleteTrip(w, t)
  <2>1. captureLock' = captureLock
    BY <1>7 DEF SavePosition, Flush, Answer, TimeOut, Acknowledged, EndFlush, Drain,
       CountPending, GiveUp, CompleteTrip, locks
  <2> DEFINE Alike(n) == /\ n.watching = r.watching /\ n.starting = r.starting
                         /\ Idle(r) => Idle(n)
  <2>2. \E n : Set(w, n) /\ Alike(n)
    <3>1. CASE SavePosition(w)
      <4>1. PICK i : Set(w, [r EXCEPT !.busy = i])
        BY <3>1 DEF SavePosition
      <4>2. Alike([r EXCEPT !.busy = i])
        BY <1>r DEF RuntimeType, Idle
      <4> QED
        BY <4>1, <4>2
    <3>2. CASE Answer(w) \/ TimeOut(w)
      <4>1. PICK a : Set(w, [r EXCEPT !.request.answer = a])
        BY <3>2 DEF Answer, TimeOut
      <4>2. Alike([r EXCEPT !.request.answer = a])
        BY <1>r DEF RuntimeType, Idle
      <4> QED
        BY <4>1, <4>2
    <3>3. CASE Flush(w) \/ EndFlush(w) \/ Acknowledged(w)
      <4> DEFINE one == [r EXCEPT !.flushing = TRUE, !.batch = Batch(r.member)]
                 two == [r EXCEPT !.flushing = FALSE]
                 three == [r EXCEPT !.request = None, !.batch = @ \ {r.request.point}]
      <4>1. Set(w, one) \/ Set(w, two) \/ Set(w, three)
        BY <3>3 DEF Flush, EndFlush, Acknowledged
      <4>2. Alike(one) /\ Alike(two) /\ Alike(three)
        BY <1>r DEF RuntimeType, Idle
      <4> HIDE DEF one, two, three, Alike
      <4> QED
        BY <4>1, <4>2
    <3>4. CASE Drain(w)
      <4> DEFINE one == [r EXCEPT !.closing = "drained", !.flushing = TRUE,
                                  !.batch = Batch(r.member)]
                 two == [r EXCEPT !.closing = "drained"]
      <4>1. (Set(w, one) \/ Set(w, two)) /\ ~Idle(r)
        BY <3>4 DEF Drain, Idle
      <4>2. Alike(one) /\ Alike(two)
        BY <1>r, <4>1 DEF RuntimeType
      <4> HIDE DEF one, two, Alike
      <4> QED
        BY <4>1, <4>2
    <3>5. CASE CountPending(w) \/ GiveUp(w) \/ \E t \in Trips : CompleteTrip(w, t)
      <4>1. PICK p : \/ Set(w, [r EXCEPT !.closing = "no", !.patch = p])
                     \/ Set(w, [r EXCEPT !.patch = p])
        BY <3>5 DEF CountPending, GiveUp, CompleteTrip
      <4>2. ~Idle(r)
        BY <3>5 DEF CountPending, GiveUp, CompleteTrip, Completes, Idle
      <4>3. /\ Alike([r EXCEPT !.closing = "no", !.patch = p])
            /\ Alike([r EXCEPT !.patch = p])
        BY <1>r, <4>2 DEF RuntimeType
      <4> QED
        BY <4>1, <4>3
    <3> QED
      BY <1>7, <3>1, <3>2, <3>3, <3>4, <3>5
  <2> QED
    BY <2>1, <2>2 DEF Kept
<1> QED
  BY <1>2, <1>3, <1>4, <1>5, <1>6, <1>7 DEF Window, LockMoves

\* A step keeps the lock with the watch.
LEMMA WatcherStep == OneWatcher /\ TypeOK /\ [Next]_vars => OneWatcher'
<1>a. WebLocks => (OneWatcher <=> \A w \in Windows : Sound(w))
  BY DEF OneWatcher, Sound, Fit, Idle, Free, Active
<1>b. WebLocks => (OneWatcher' <=> \A w \in Windows : Sound(w)')
  BY DEF OneWatcher, Sound, Fit, Idle, Free, Active, Watched
<1> SUFFICES ASSUME OneWatcher, TypeOK, [Next]_vars, WebLocks
             PROVE  \A v \in Windows : Sound(v)'
  BY <1>b DEF OneWatcher
<1>s. \A v \in Windows : Sound(v)
  BY <1>a
<1>1. CASE UNCHANGED <<windows, captureLock>>
  BY <1>1, <1>s DEF Sound, Fit, Idle, Watched
<1>2. ASSUME NEW w \in Windows, Window(w), ~LockMoves(w)
      PROVE  \A v \in Windows : Sound(v)'
  <2>1. PICK n : Set(w, n) /\ (Kept(windows[w], n) \/ Ended(w, n))
    BY <1>2, <1>s, WatchStep DEF Sound
  <2>2. windows'[w] = n /\ \A v \in Windows : v # w => windows'[v] = windows[v]
    BY <2>1 DEF Set, TypeOK
  <2> SUFFICES ASSUME NEW v \in Windows PROVE Sound(v)'
    OBVIOUS
  <2>4. Sound(v) /\ Sound(w)
    BY <1>s
  <2>7. CASE Kept(windows[w], n)
    BY <2>2, <2>4, <2>7 DEF Kept, Sound, Fit, Watched
  <2>8. CASE Ended(w, n)
    <3>1. CASE v = w
      BY <2>2, <2>8, <3>1 DEF Ended, Sound, Fit, Watched
    <3>2. CASE v # w
      BY <2>2, <2>4, <2>8, <3>2 DEF Ended, Sound, Fit, Watched
    <3> QED
      BY <3>1, <3>2
  <2> QED
    BY <2>1, <2>7, <2>8
<1>3. ASSUME NEW w \in Windows, LockMoves(w)
      PROVE  \A v \in Windows : Sound(v)'
  BY <1>3, <1>s, LockMovesSound
<1> QED
  BY <1>1, <1>2, <1>3 DEF Next, LateRequest, SignIn, Reassign, Age, vars, locks

\* With Web Locks one window of the phone watches the position, under the lock, which
\* never stays with a watch that ended or never began; and no watch begins, or goes on,
\* while a trip is completed (start, its callback, stop and the clean-up of
\* hooks/use-driver-gps.ts).
THEOREM OneWatcherHolds == Spec => []OneWatcher
<1>1. Init => OneWatcher /\ TypeOK
  <2>1. Init => OneWatcher
    BY GPSAssumption, LockApart DEF Init, OneWatcher, Blank
  <2> QED
    BY <2>1, StartTyped
<1>2. OneWatcher /\ TypeOK /\ [Next]_vars => OneWatcher' /\ TypeOK'
  BY WatcherStep, TypeStep
<1> QED
  BY <1>1, <1>2, PTL DEF Spec

=============================================================================
